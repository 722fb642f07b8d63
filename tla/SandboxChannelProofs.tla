------------------------ MODULE SandboxChannelProofs ------------------------
(***************************************************************************)
(* Proofs about the stream between the worker and a strategy's container,  *)
(* for any number of threads, questions and containers.                    *)
(***************************************************************************)
EXTENDS SandboxChannel, TLAPS

\* What the thread that has the lock is waiting for an answer to.
Expected == IF thread[lock].pc = "starting" THEN Package ELSE thread[lock].question

Quiet(c) == inbox[c] = <<>> /\ outbox[c] = <<>>

\* The worker's container is open, and at most one message or answer of it is
\* under way, that of the thread that waits.
OneUnderWay ==
  /\ buffer = <<>>
  /\ lock # None => container # None
  /\ container # None => container <= started /\ ~eof[container]
  /\ container # None /\ lock = None => Quiet(container)
  /\ lock # None =>
       \/ Quiet(container)
       \/ inbox[container] = <<Expected>> /\ outbox[container] = <<>>
       \/ /\ inbox[container] = <<>>
          /\ \E a \in Answer : a.of = Expected /\ outbox[container] = <<a>>

\* Nothing is known of a container before it is started.
NewContainers ==
  \A c \in Container : c > started => ~runner[c].alive /\ ~eof[c] /\ Quiet(c)

IInv == TypeOK /\ AnswersMatch /\ OneContainer /\ OneUnderWay /\ NewContainers

-----------------------------------------------------------------------------
(* Lists of at most one element, which is all the stream ever holds.       *)

LEMMA OneElement ==
  ASSUME NEW S, NEW x \in S
  PROVE  /\ <<>> \in Seq(S) /\ <<x>> \in Seq(S) /\ <<x>> # <<>>
         /\ Head(<<x>>) = x /\ Tail(<<x>>) = <<>> /\ Append(<<>>, x) = <<x>>
         /\ <<>> \o <<x>> = <<x>> /\ <<>> \o <<>> = <<>>
  OBVIOUS

\* At first there is neither a container nor a question.
LEMMA InitInv == Init => IInv
  <1> SUFFICES ASSUME Init PROVE IInv
    OBVIOUS
  <1> USE BoundsAssumption, NoneAssumption
  <1>1. TypeOK
    BY DEF Init, TypeOK, Idle, Container
  <1>2. AnswersMatch /\ OneContainer /\ OneUnderWay /\ NewContainers
    BY DEF Init, AnswersMatch, OneContainer, OneUnderWay, NewContainers, Quiet
  <1> QED
    BY <1>1, <1>2 DEF IInv

-----------------------------------------------------------------------------
(* The worker's threads                                                    *)

\* A container that is started gets the package, and one that runs is asked
\* while nothing of it is under way: the lock was free.
LEMMA OnDataInv ==
  ASSUME IInv, NEW t \in Thread, OnData(t)
  PROVE  IInv'
  <1> USE BoundsAssumption, NoneAssumption DEF IInv
  <1>1. lock = None /\ lock' = t /\ t # None /\ asked' \in 1..MaxQuestions
    BY DEF OnData, Lock, TypeOK
  <1>2. CASE container = None
    <2> DEFINE c == started + 1
    <2>1. c \in Container /\ c # None /\ container' = c /\ started' = c
      BY <1>2 DEF OnData, TypeOK, Container
    <2>2. inbox[c] = <<>> /\ outbox[c] = <<>> /\ ~eof[c] /\ ~runner[c].alive
      BY <2>1 DEF NewContainers, Quiet, TypeOK, Container
    <2>3. inbox' = [inbox EXCEPT ![c] = <<Package>>]
      BY <1>2, <2>1, <2>2, OneElement DEF OnData, Send, TypeOK
    <2>4. UNCHANGED <<buffer, eof, outbox, returned>>
      BY DEF OnData
    <2>5. thread' = [thread EXCEPT ![t] = [pc |-> "starting", question |-> asked']]
      BY <1>2 DEF OnData
    <2>6. runner' = [runner EXCEPT ![c].alive = TRUE]
      BY <1>2, <2>1 DEF OnData
    <2>7. <<Package>> \in Seq(Message) /\ <<Package>> # <<>>
      BY OneElement DEF Message
    <2> HIDE DEF c
    <2>8. TypeOK'
      <3>1. thread' \in [Thread -> [pc : {"idle", "starting", "asking"},
                                    question : (1..MaxQuestions) \cup {None}]]
        BY <1>1, <2>5 DEF TypeOK
      <3>2. \A u \in Thread : /\ thread'[u].pc # "idle" <=> lock' = u
                              /\ thread'[u].pc # "idle" => thread'[u].question # None
        BY <1>1, <2>5 DEF TypeOK
      <3>3. inbox' \in [Container -> Seq(Message)]
            /\ runner' \in [Container -> [alive : BOOLEAN, loaded : BOOLEAN]]
        BY <2>3, <2>6, <2>7 DEF TypeOK
      <3>4. /\ started' \in 0..MaxContainers /\ asked' \in 0..MaxQuestions
            /\ lock' \in Thread \cup {None} /\ container' \in Container \cup {None}
        BY <1>1, <2>1 DEF Container
      <3>5. /\ eof' \in [Container -> BOOLEAN] /\ outbox' \in [Container -> Seq(Answer)]
            /\ returned' \in [question : 1..MaxQuestions, of : Message] \cup {None}
            /\ buffer' \in Seq(Answer)
        BY <2>4, Zenon DEF TypeOK
      <3> QED
        BY <3>1, <3>2, <3>3, <3>4, <3>5, Zenon DEF TypeOK
    <2>9. AnswersMatch'
      BY <2>4 DEF AnswersMatch
    <2>10. OneContainer'
      BY <1>2, <2>1, <2>4, <2>6 DEF OneContainer, TypeOK, Container
    <2>11. OneUnderWay'
      BY <1>1, <2>1, <2>2, <2>3, <2>4, <2>5 DEF OneUnderWay, Quiet, Expected, TypeOK, Container
    <2>12. NewContainers'
      BY <2>1, <2>3, <2>4, <2>6 DEF NewContainers, Quiet, TypeOK, Container, c
    <2> QED
      BY <2>8, <2>9, <2>10, <2>11, <2>12
  <1>3. CASE container # None
    <2>1. container \in Container /\ Quiet(container) /\ container <= started /\ ~eof[container]
      BY <1>1, <1>3 DEF OneUnderWay, TypeOK
    <2>2. inbox' = [inbox EXCEPT ![container] = <<asked'>>]
      BY <1>1, <1>3, <2>1, OneElement DEF OnData, Send, Quiet, TypeOK
    <2>3. UNCHANGED <<container, started, runner, buffer, eof, outbox, returned>>
      BY <1>3 DEF OnData
    <2>4. thread' = [thread EXCEPT ![t] = [pc |-> "asking", question |-> asked']]
      BY <1>3 DEF OnData
    <2>5. <<asked'>> \in Seq(Message)
      BY <1>1, OneElement DEF Message
    <2>6. TypeOK'
      BY <1>1, <2>2, <2>3, <2>4, <2>5 DEF TypeOK, OnData
    <2>7. AnswersMatch' /\ OneContainer'
      BY <2>3 DEF AnswersMatch, OneContainer
    <2>8. OneUnderWay'
      BY <1>1, <1>3, <2>1, <2>2, <2>3, <2>4 DEF OneUnderWay, Quiet, Expected, TypeOK
    <2>9. NewContainers'
      BY <2>1, <2>2, <2>3 DEF NewContainers, Quiet, TypeOK, Container
    <2> QED
      BY <2>6, <2>7, <2>8, <2>9
  <1> QED
    BY <1>2, <1>3

\* What the waiting thread gets next is the one answer under way, and after it
\* nothing is.
LEMMA Received ==
  ASSUME IInv, NEW t \in Thread, NEW pc \in {"starting", "asking"}, NEW kind,
         Receive(t, pc, kind)
  PROVE  /\ lock = t /\ t # None /\ container \in Container /\ container # None
         /\ thread[t].question \in 1..MaxQuestions
         /\ container <= started /\ ~eof[container]
         /\ inbox[container] = <<>>
         /\ Head(Answers) \in Answer /\ Head(Answers).of = Expected
         /\ buffer' = <<>> /\ outbox' = [outbox EXCEPT ![container] = <<>>]
  <1> USE BoundsAssumption, NoneAssumption DEF IInv
  <1>1. lock = t /\ t # None /\ container \in Container /\ container # None
    BY DEF Receive, TypeOK, OneUnderWay
  <1>2. thread[t].question \in 1..MaxQuestions /\ container <= started /\ ~eof[container]
    BY <1>1 DEF TypeOK, OneUnderWay
  <1>3. buffer = <<>> /\ outbox[container] \in Seq(Answer)
    BY <1>1 DEF OneUnderWay, TypeOK
  <1>4. Answers = outbox[container] /\ outbox[container] # <<>>
    BY <1>1, <1>3 DEF Answers, Receive
  <1>5. PICK a \in Answer : a.of = Expected /\ outbox[container] = <<a>>
    BY <1>1, <1>4 DEF OneUnderWay, Quiet
  <1>6. inbox[container] = <<>>
    BY <1>1, <1>4 DEF OneUnderWay, Quiet
  <1>7. Head(Answers) = a /\ Tail(Answers) = <<>>
    BY <1>4, <1>5, OneElement
  <1> QED
    BY <1>1, <1>2, <1>5, <1>6, <1>7 DEF Receive

\* The answer to the package is followed by the question.
LEMMA ReadyInv ==
  ASSUME IInv, NEW t \in Thread, Ready(t)
  PROVE  IInv'
  <1> USE BoundsAssumption, NoneAssumption DEF IInv
  <1> DEFINE q == thread[t].question
  <1>1. Receive(t, "starting", "ready")
    BY DEF Ready
  <1>2. /\ lock = t /\ t # None /\ container \in Container /\ container # None
        /\ q \in 1..MaxQuestions /\ container <= started /\ ~eof[container]
        /\ inbox[container] = <<>>
        /\ buffer' = <<>> /\ outbox' = [outbox EXCEPT ![container] = <<>>]
    BY <1>1, Received
  <1>3. <<q>> \in Seq(Message) /\ inbox' = [inbox EXCEPT ![container] = <<q>>]
    BY <1>2, OneElement DEF Ready, Send, Message, TypeOK
  <1>4. thread' = [thread EXCEPT ![t].pc = "asking"]
        /\ UNCHANGED <<lock, container, asked, started, runner, eof, returned>>
    BY DEF Ready
  <1>5. TypeOK'
    <2>1. thread' \in [Thread -> [pc : {"idle", "starting", "asking"},
                                  question : (1..MaxQuestions) \cup {None}]]
      BY <1>2, <1>4 DEF TypeOK
    <2>2. \A u \in Thread : /\ thread'[u].pc # "idle" <=> lock' = u
                            /\ thread'[u].pc # "idle" => thread'[u].question # None
      BY <1>2, <1>4 DEF TypeOK
    <2>3. inbox' \in [Container -> Seq(Message)] /\ outbox' \in [Container -> Seq(Answer)]
          /\ buffer' \in Seq(Answer)
      BY <1>2, <1>3, OneElement DEF TypeOK
    <2> QED
      BY <1>4, <2>1, <2>2, <2>3, Zenon DEF TypeOK
  <1>6. AnswersMatch' /\ OneContainer'
    BY <1>2, <1>4 DEF AnswersMatch, OneContainer, TypeOK
  <1>7. OneUnderWay'
    BY <1>2, <1>3, <1>4 DEF OneUnderWay, Quiet, Expected, TypeOK
  <1>8. NewContainers'
    BY <1>2, <1>3, <1>4 DEF NewContainers, Quiet, TypeOK, Container
  <1> QED
    BY <1>5, <1>6, <1>7, <1>8

\* on_data returns the answer to its own question.
LEMMA ResultInv ==
  ASSUME IInv, NEW t \in Thread, Result(t)
  PROVE  IInv'
  <1> USE BoundsAssumption, NoneAssumption DEF IInv
  <1>1. Receive(t, "asking", "weights") /\ thread[t].pc = "asking"
    BY DEF Result, Receive
  <1>2. /\ lock = t /\ container \in Container /\ container # None
        /\ thread[t].question \in 1..MaxQuestions /\ container <= started /\ ~eof[container]
        /\ inbox[container] = <<>>
        /\ Head(Answers).of = thread[t].question
        /\ buffer' = <<>> /\ outbox' = [outbox EXCEPT ![container] = <<>>]
    BY <1>1, Received DEF Expected
  <1>3. /\ returned' = [question |-> thread[t].question, of |-> thread[t].question]
        /\ thread' = [thread EXCEPT ![t] = Idle] /\ lock' = None
        /\ UNCHANGED <<container, asked, started, runner, inbox, eof>>
    BY <1>2 DEF Result
  <1>4. TypeOK'
    BY <1>2, <1>3, OneElement DEF TypeOK, Idle, Message
  <1>5. AnswersMatch' /\ OneContainer'
    BY <1>2, <1>3 DEF AnswersMatch, OneContainer, TypeOK
  <1>6. OneUnderWay'
    BY <1>2, <1>3 DEF OneUnderWay, Quiet, TypeOK
  <1>7. NewContainers'
    BY <1>2, <1>3 DEF NewContainers, Quiet, TypeOK, Container
  <1> QED
    BY <1>4, <1>5, <1>6, <1>7

\* After a close there is no container, and the one that was closed can no
\* longer be heard, whether or not it was removed.
LEMMA Closed ==
  ASSUME IInv, CloseContainer, UNCHANGED <<inbox, asked, started, returned>>, lock' = None,
         \/ lock = None /\ thread' = thread
         \/ \E t \in Thread : lock = t /\ thread' = [thread EXCEPT ![t] = Idle]
  PROVE  IInv'
  <1> USE BoundsAssumption, NoneAssumption DEF IInv
  <1>1. container' = None /\ buffer' = <<>>
    BY DEF CloseContainer
  <1>2. runner' \in [Container -> [alive : BOOLEAN, loaded : BOOLEAN]]
        /\ \A c \in Container : runner'[c].alive => runner[c].alive
    <2>1. CASE container = None
      BY <2>1 DEF CloseContainer, TypeOK
    <2>2. CASE container # None
      <3>1. PICK removed \in BOOLEAN :
              runner' = [runner EXCEPT ![container].alive = @ /\ ~removed]
        BY <2>2 DEF CloseContainer
      <3>2. container \in Container
        BY <2>2 DEF TypeOK
      <3>3. runner \in [Container -> [alive : BOOLEAN, loaded : BOOLEAN]]
        BY DEF TypeOK
      <3>4. runner' \in [Container -> [alive : BOOLEAN, loaded : BOOLEAN]]
        BY <3>1, <3>2, <3>3, Zenon
      <3>5. \A c \in Container : runner'[c].alive => runner[c].alive
        BY <3>1, <3>2, <3>3, Zenon
      <3> QED
        BY <3>4, <3>5
    <2> QED
      BY <2>1, <2>2
  <1>3. eof' \in [Container -> BOOLEAN] /\ outbox' \in [Container -> Seq(Answer)]
    <2>1. CASE container = None
      BY <2>1 DEF CloseContainer, TypeOK
    <2>2. CASE container # None
      <3>1. <<>> \in Seq(Answer)
        OBVIOUS
      <3>2. /\ eof' = [eof EXCEPT ![container] = TRUE]
            /\ outbox' = [outbox EXCEPT ![container] = <<>>]
        BY <2>2 DEF CloseContainer
      <3> QED
        BY <3>1, <3>2 DEF TypeOK
    <2> QED
      BY <2>1, <2>2
  <1>4. \A c \in Container : c # container => eof'[c] = eof[c] /\ outbox'[c] = outbox[c]
    BY DEF CloseContainer, TypeOK
  <1>5. container # None => eof'[container] /\ outbox'[container] = <<>>
    BY DEF CloseContainer, TypeOK
  <1>6. TypeOK'
    <2>1. thread' \in [Thread -> [pc : {"idle", "starting", "asking"},
                                  question : (1..MaxQuestions) \cup {None}]]
      <3>1. Idle \in [pc : {"idle", "starting", "asking"}, question : (1..MaxQuestions) \cup {None}]
        BY DEF Idle
      <3> QED
        BY <3>1 DEF TypeOK
    <2>2. \A t \in Thread : thread'[t].pc = "idle" /\ lock' # t
      BY DEF TypeOK, Idle
    <2>3. buffer' \in Seq(Answer)
      BY <1>1
    <2> QED
      BY <1>1, <1>2, <1>3, <2>1, <2>2, <2>3, Zenon DEF TypeOK
  <1>7. AnswersMatch'
    BY DEF AnswersMatch
  <1>8. OneContainer'
    BY <1>1, <1>2, <1>4, <1>5 DEF OneContainer, Container
  <1>9. OneUnderWay'
    BY <1>1 DEF OneUnderWay
  <1>10. NewContainers'
    <2> SUFFICES ASSUME NEW c \in Container, c > started'
                 PROVE  ~runner'[c].alive /\ ~eof'[c] /\ inbox'[c] = <<>> /\ outbox'[c] = <<>>
      BY DEF NewContainers, Quiet
    <2>1. c # container
      BY DEF OneUnderWay, Container, TypeOK
    <2> QED
      BY <2>1, <1>2, <1>4 DEF NewContainers, Quiet
  <1> QED
    BY <1>6, <1>7, <1>8, <1>9, <1>10

LEMMA FailInv ==
  ASSUME IInv, NEW t \in Thread, Fail(t)
  PROVE  IInv'
  <1>1. lock = t
    BY DEF Fail, IInv, TypeOK
  <1> QED
    BY <1>1, Closed DEF Fail

LEMMA CloseInv ==
  ASSUME IInv, NEW t \in Thread, Close(t)
  PROVE  IInv'
  BY Closed DEF Close

-----------------------------------------------------------------------------
(* The runner                                                              *)

\* A runner that takes the message under way may answer it.  One that was given
\* up answers nobody.
LEMMA Replied ==
  ASSUME IInv, NEW c \in Container, NEW kind \in {"ready", "weights", "error"},
         Take(c), Reply(c, kind, Head(inbox[c])),
         runner' \in [Container -> [alive : BOOLEAN, loaded : BOOLEAN]],
         \A d \in Container : runner'[d].alive <=> runner[d].alive,
         UNCHANGED <<hostVars, eof, returned>>
  PROVE  IInv'
  <1> USE BoundsAssumption, NoneAssumption DEF IInv
  <1>1. inbox[c] \in Seq(Message) /\ inbox[c] # <<>> /\ runner[c].alive
    BY DEF Take, TypeOK
  <1>2. Head(inbox[c]) \in Message /\ Tail(inbox[c]) \in Seq(Message)
    BY <1>1
  <1> DEFINE a == [kind |-> kind, of |-> Head(inbox[c])]
  <1>3. a \in Answer
    BY <1>2 DEF Answer
  <1>4. c <= started
    BY <1>1 DEF NewContainers, TypeOK, Container
  <1>5. inbox' = [inbox EXCEPT ![c] = Tail(inbox[c])]
    BY DEF Take, TypeOK
  <1>6. outbox' \in [Container -> Seq(Answer)]
        /\ \A d \in Container : d # c => outbox'[d] = outbox[d]
    BY <1>3 DEF Reply, TypeOK
  <1>7. TypeOK'
    <2>1. inbox' \in [Container -> Seq(Message)]
      BY <1>2, <1>5 DEF TypeOK
    <2> QED
      BY <2>1, <1>6 DEF TypeOK, hostVars
  <1>8. AnswersMatch'
    BY DEF AnswersMatch
  <1>9. OneContainer'
    <2>1. eof[c] => outbox' = outbox
      BY DEF Reply
    <2>2. c = container \/ eof[c]
      BY <1>1 DEF OneContainer
    <2> QED
      BY <1>6, <2>1, <2>2 DEF OneContainer, hostVars
  <1>10. OneUnderWay'
    <2>1. CASE c # container
      <3>1. container # None => inbox'[container] = inbox[container]
                                /\ outbox'[container] = outbox[container]
        BY <2>1, <1>5, <1>6 DEF TypeOK
      <3> QED
        BY <3>1 DEF OneUnderWay, Quiet, Expected, hostVars
    <2>2. CASE c = container
      <3>1. container # None /\ lock # None /\ ~eof[c] /\ buffer = <<>> /\ c <= started
        BY <2>2, <1>1 DEF OneUnderWay, Quiet, Container
      <3>2. inbox[c] = <<Expected>> /\ outbox[c] = <<>>
        BY <2>2, <3>1, <1>1 DEF OneUnderWay, Quiet
      <3>3. Expected \in Message /\ Head(inbox[c]) = Expected /\ Tail(inbox[c]) = <<>>
        <4>1. Head(inbox[c]) = Expected /\ Tail(inbox[c]) = <<>>
          BY <3>2
        <4> QED
          BY <4>1, <1>2
      <3>4. inbox'[c] = <<>>
        BY <1>5, <3>3 DEF TypeOK
      <3>5. outbox'[c] = <<a>> /\ a.of = Expected
        BY <3>1, <3>2, <3>3, <1>3, OneElement DEF Reply, TypeOK
      <3>6. Expected' = Expected
        BY DEF Expected, hostVars
      <3> HIDE DEF a
      <3> QED
        BY <2>2, <3>1, <3>4, <3>5, <3>6, <1>3 DEF OneUnderWay, hostVars
    <2> QED
      BY <2>1, <2>2
  <1>11. NewContainers'
    <2> SUFFICES ASSUME NEW d \in Container, d > started'
                 PROVE  ~runner'[d].alive /\ ~eof'[d] /\ inbox'[d] = <<>> /\ outbox'[d] = <<>>
      BY DEF NewContainers, Quiet
    <2>1. d > started /\ d # c
      BY <1>4 DEF hostVars, TypeOK, Container
    <2>2. inbox'[d] = inbox[d] /\ outbox'[d] = outbox[d]
      BY <2>1, <1>5, <1>6 DEF TypeOK
    <2> QED
      BY <2>1, <2>2 DEF NewContainers, Quiet
  <1> QED
    BY <1>7, <1>8, <1>9, <1>10, <1>11

LEMMA LoadInv ==
  ASSUME IInv, NEW c \in Container, Load(c)
  PROVE  IInv'
  <1>1. /\ runner' \in [Container -> [alive : BOOLEAN, loaded : BOOLEAN]]
        /\ \A d \in Container : runner'[d].alive <=> runner[d].alive
    <2>1. /\ runner \in [Container -> [alive : BOOLEAN, loaded : BOOLEAN]]
          /\ runner' = [runner EXCEPT ![c].loaded = TRUE]
      BY DEF Load, IInv, TypeOK
    <2> QED
      BY <2>1, Zenon
  <1> QED
    BY <1>1, Replied DEF Load

LEMMA EvaluateInv ==
  ASSUME IInv, NEW c \in Container, Evaluate(c)
  PROVE  IInv'
  BY Replied DEF Evaluate, IInv, TypeOK

LEMMA RaiseInv ==
  ASSUME IInv, NEW c \in Container, Raise(c)
  PROVE  IInv'
  BY Replied DEF Raise, IInv, TypeOK

LEMMA ExitInv ==
  ASSUME IInv, NEW c \in Container, Exit(c)
  PROVE  IInv'
  <1> USE DEF IInv
  <1>1. /\ runner' \in [Container -> [alive : BOOLEAN, loaded : BOOLEAN]]
        /\ \A d \in Container : runner'[d].alive => runner[d].alive
    BY DEF Exit, TypeOK
  <1>2. UNCHANGED <<hostVars, inbox, eof, outbox, returned>>
    BY DEF Exit
  <1> QED
    BY <1>1, <1>2 DEF TypeOK, AnswersMatch, OneContainer, OneUnderWay, NewContainers,
                      Quiet, Expected, hostVars

-----------------------------------------------------------------------------
\* Every step keeps the inductive invariant.
LEMMA NextInv == IInv /\ [Next]_vars => IInv'
  <1> SUFFICES ASSUME IInv, [Next]_vars PROVE IInv'
    OBVIOUS
  <1>1. CASE UNCHANGED vars
    BY <1>1 DEF vars, hostVars, runnerVars, IInv, TypeOK, AnswersMatch, OneContainer,
                OneUnderWay, NewContainers, Quiet, Expected
  <1>2. ASSUME NEW t \in Thread, OnData(t) \/ Ready(t) \/ Result(t) \/ Fail(t) \/ Close(t)
        PROVE  IInv'
    BY <1>2, OnDataInv, ReadyInv, ResultInv, FailInv, CloseInv
  <1>3. ASSUME NEW c \in Container, Load(c) \/ Evaluate(c) \/ Raise(c) \/ Exit(c)
        PROVE  IInv'
    BY <1>3, LoadInv, EvaluateInv, RaiseInv, ExitInv
  <1> QED
    BY <1>1, <1>2, <1>3 DEF Next

\* The invariant holds in every behaviour of worker threads and runner (exchange,
\* close, main).
THEOREM Inductive == Spec => []IInv
  BY InitInv, NextInv, PTL DEF Spec

\* The variables have their types, and the thread that waits is the one that has
\* the lock.
THEOREM TypeCorrect == Spec => []TypeOK
  <1>1. IInv => TypeOK
    BY DEF IInv
  <1> QED
    BY <1>1, Inductive, PTL

\* Every question gets the answer to itself, however many questions timed out
\* before it and however late they are answered (exchange, close).
THEOREM OwnAnswers == Spec => []AnswersMatch
  <1>1. IInv => AnswersMatch
    BY DEF IInv
  <1> QED
    BY <1>1, Inductive, PTL

\* A container that was given up and still runs reads the end of its input and
\* cannot be heard any more (close whose removal fails).
THEOREM OneHeard == Spec => []OneContainer
  <1>1. IInv => OneContainer
    BY DEF IInv
  <1> QED
    BY <1>1, Inductive, PTL

=============================================================================
