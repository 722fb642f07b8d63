--------------------------- MODULE SandboxChannel ---------------------------
(***************************************************************************)
(* A strategy's container (src/control/sandbox.py, sandbox_runner.py): the *)
(* worker's threads ask it one question at a time over a stream, give up   *)
(* after a timeout, and replace it after any failure.                      *)
(*                                                                         *)
(* A message is a package or the number of a question.  An answer carries  *)
(* the message it is of.  A close whose removal fails leaves a container   *)
(* running until it reads the end of its input.                            *)
(***************************************************************************)
EXTENDS Naturals, Sequences, FiniteSets

CONSTANTS
  Thread,        \* the worker's threads that call on_data and close
  Package,       \* the package message
  None,          \* no thread, container or question
  MaxQuestions,  \* bound: calls of on_data
  MaxContainers  \* bound: containers started

ASSUME BoundsAssumption == MaxQuestions \in Nat /\ MaxContainers \in Nat
ASSUME NoneAssumption == None \notin Thread /\ None \notin Nat

Container == 1..MaxContainers

VARIABLES
  lock,      \* Sandbox.lock
  container, \* Sandbox.container
  buffer,    \* Sandbox.buffer, in answers
  thread,    \* what each thread waits for, and for which question
  asked,     \* history: questions so far
  started,   \* history: containers so far
  runner,    \* of each container: is it alive, has it loaded the strategy
  inbox,     \* of each container: the messages sent to it
  eof,       \* of each container: no more messages follow
  outbox,    \* of each container: its answers on their way
  returned   \* history: the last question that returned, and whose answer it got

hostVars   == <<lock, container, buffer, thread, asked, started>>
runnerVars == <<runner, inbox, eof, outbox>>
vars == <<hostVars, runnerVars, returned>>

Idle == [pc |-> "idle", question |-> None]

Init ==
  /\ lock = None /\ container = None /\ buffer = <<>>
  /\ thread = [t \in Thread |-> Idle]
  /\ asked = 0 /\ started = 0
  /\ runner = [c \in Container |-> [alive |-> FALSE, loaded |-> FALSE]]
  /\ inbox = [c \in Container |-> <<>>]
  /\ eof = [c \in Container |-> FALSE]
  /\ outbox = [c \in Container |-> <<>>]
  /\ returned = None

-----------------------------------------------------------------------------
(* Sandbox                                                                 *)

\* Mutant: the container is forgotten and neither closed nor removed.
ForgetContainer ==
  /\ container' = None
  /\ buffer' = <<>>
  /\ UNCHANGED <<runner, eof, outbox>>

\* Sandbox.close: the stream ends and the container is removed, or at least
\* forgotten; what was read and not used is dropped.
CloseContainer ==
  /\ container' = None
  /\ buffer' = <<>>
  /\ IF container = None THEN UNCHANGED <<runner, eof, outbox>>
     ELSE /\ eof' = [eof EXCEPT ![container] = TRUE]
          /\ outbox' = [outbox EXCEPT ![container] = <<>>]
          /\ \E removed \in BOOLEAN :
               runner' = [runner EXCEPT ![container].alive = @ /\ ~removed]

Send(c, message) == inbox' = [inbox EXCEPT ![c] = Append(@, message)]

\* Mutant: two threads use the stream at once.
LockAnyway(t) == lock' = t

Lock(t) == lock = None /\ lock' = t

\* on_data: a container is started, or the running one is asked.
OnData(t) ==
  /\ thread[t].pc = "idle"
  /\ asked < MaxQuestions
  /\ Lock(t)
  /\ asked' = asked + 1
  /\ IF container = None
     THEN /\ started < MaxContainers
          /\ started' = started + 1
          /\ container' = started + 1
          /\ runner' = [runner EXCEPT ![started + 1].alive = TRUE]
          /\ Send(started + 1, Package)
          /\ thread' = [thread EXCEPT ![t] = [pc |-> "starting", question |-> asked + 1]]
     ELSE /\ Send(container, asked + 1)
          /\ thread' = [thread EXCEPT ![t] = [pc |-> "asking", question |-> asked + 1]]
          /\ UNCHANGED <<started, container, runner>>
  /\ UNCHANGED <<buffer, eof, outbox, returned>>

\* exchange: the first answer of the buffer and what the stream holds
Answers == IF container = None THEN buffer ELSE buffer \o outbox[container]

Receive(t, pc, kind) ==
  /\ thread[t].pc = pc
  /\ Answers # <<>> /\ Head(Answers).kind = kind
  /\ buffer' = Tail(Answers)
  /\ outbox' = [outbox EXCEPT ![container] = <<>>]

\* The strategy is loaded: the question follows.
Ready(t) ==
  /\ Receive(t, "starting", "ready")
  /\ Send(container, thread[t].question)
  /\ thread' = [thread EXCEPT ![t].pc = "asking"]
  /\ UNCHANGED <<lock, container, asked, started, runner, eof, returned>>

\* on_data returns the weights.
Result(t) ==
  /\ Receive(t, "asking", "weights")
  /\ returned' = [question |-> thread[t].question, of |-> Head(Answers).of]
  /\ thread' = [thread EXCEPT ![t] = Idle]
  /\ lock' = None
  /\ UNCHANGED <<container, asked, started, runner, inbox, eof>>

\* Mutant: the container stays after a timeout.
FailKeepingContainer(t) ==
  /\ thread[t].pc \in {"starting", "asking"}
  /\ thread' = [thread EXCEPT ![t] = Idle]
  /\ lock' = None
  /\ UNCHANGED <<container, buffer, asked, started, runnerVars, returned>>

\* Mutant: the socket has no deadline, so only a dead container is noticed.
FailWithoutTimeout(t) ==
  /\ thread[t].pc \in {"starting", "asking"}
  /\ ~runner[container].alive
  /\ CloseContainer
  /\ thread' = [thread EXCEPT ![t] = Idle]
  /\ lock' = None
  /\ UNCHANGED <<asked, started, inbox, returned>>

\* The answer is an error, invalid, too long or late, or the container is gone:
\* on_data closes it and raises.
Fail(t) ==
  /\ thread[t].pc \in {"starting", "asking"}
  /\ CloseContainer
  /\ thread' = [thread EXCEPT ![t] = Idle]
  /\ lock' = None
  /\ UNCHANGED <<asked, started, inbox, returned>>

\* close, called by the worker
Close(t) ==
  /\ thread[t].pc = "idle"
  /\ lock = None
  /\ CloseContainer
  /\ UNCHANGED <<lock, thread, asked, started, inbox, returned>>

-----------------------------------------------------------------------------
(* sandbox_runner.main                                                     *)

\* An answer to a container that was given up goes nowhere.
Reply(c, kind, message) ==
  outbox' = IF eof[c] THEN outbox
            ELSE [outbox EXCEPT ![c] = Append(@, [kind |-> kind, of |-> message])]

Take(c) ==
  /\ runner[c].alive
  /\ inbox[c] # <<>>
  /\ inbox' = [inbox EXCEPT ![c] = Tail(@)]

\* The package is loaded.
Load(c) ==
  /\ Take(c)
  /\ Head(inbox[c]) = Package
  /\ runner' = [runner EXCEPT ![c].loaded = TRUE]
  /\ Reply(c, "ready", Package)
  /\ UNCHANGED <<hostVars, eof, returned>>

\* The strategy returns weights, a hold or a liquidation.
Evaluate(c) ==
  /\ Take(c)
  /\ Head(inbox[c]) # Package
  /\ runner[c].loaded
  /\ Reply(c, "weights", Head(inbox[c]))
  /\ UNCHANGED <<hostVars, runner, eof, returned>>

\* Anything raises: the error is the answer.
Raise(c) ==
  /\ Take(c)
  /\ Reply(c, "error", Head(inbox[c]))
  /\ UNCHANGED <<hostVars, runner, eof, returned>>

\* The container dies, or ends with its input.
Exit(c) ==
  /\ runner[c].alive
  /\ runner' = [runner EXCEPT ![c].alive = FALSE]
  /\ UNCHANGED <<hostVars, inbox, eof, outbox, returned>>

Next ==
  \/ \E t \in Thread : OnData(t) \/ Ready(t) \/ Result(t) \/ Fail(t) \/ Close(t)
  \/ \E c \in Container : Load(c) \/ Evaluate(c) \/ Raise(c) \/ Exit(c)

\* A thread that waits for an answer gives up in the end: the timeout.  A runner
\* reads its input to the end, unless the strategy hangs.
Fairness == \A t \in Thread : WF_vars(Fail(t))

Spec == Init /\ [][Next]_vars /\ Fairness

-----------------------------------------------------------------------------
(* Properties                                                              *)

Message == (1..MaxQuestions) \cup {Package}
Answer  == [kind : {"ready", "weights", "error"}, of : Message]

\* The values every variable ranges over; the thread that waits has the lock.
TypeOK ==
  /\ lock \in Thread \cup {None}
  /\ container \in Container \cup {None}
  /\ buffer \in Seq(Answer)
  /\ thread \in [Thread -> [pc : {"idle", "starting", "asking"},
                            question : (1..MaxQuestions) \cup {None}]]
  /\ \A t \in Thread :
       /\ thread[t].pc # "idle" <=> lock = t
       /\ thread[t].pc # "idle" => thread[t].question # None
  /\ asked \in 0..MaxQuestions /\ started \in 0..MaxContainers
  /\ runner \in [Container -> [alive : BOOLEAN, loaded : BOOLEAN]]
  /\ inbox \in [Container -> Seq(Message)]
  /\ eof \in [Container -> BOOLEAN]
  /\ outbox \in [Container -> Seq(Answer)]
  /\ returned \in [question : 1..MaxQuestions, of : Message] \cup {None}

\* on_data returns the answer to its own question: a late answer to a question
\* that timed out is never taken for the answer to the next.
AnswersMatch == returned # None => returned.of = returned.question

\* The worker has one container: any other that still runs was given up and has
\* no question left that the worker could still hear of.
OneContainer ==
  \A c \in Container : runner[c].alive /\ c # container => eof[c] /\ outbox[c] = <<>>

\* A strategy that hangs does not block the worker: every call returns or raises,
\* and the lock is free for the next.
CallsEnd == \A t \in Thread : thread[t].pc # "idle" ~> lock # t

=============================================================================
