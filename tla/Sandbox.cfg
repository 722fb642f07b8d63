\* Two threads that ask four questions of up to three containers.
CONSTANTS
  t1 = t1
  t2 = t2
  Package = Package
  None = None
  Thread = {t1, t2}
  MaxQuestions = 4
  MaxContainers = 3
SPECIFICATION Spec
INVARIANTS AnswersMatch OneContainer
PROPERTIES CallsEnd
CHECK_DEADLOCK FALSE
