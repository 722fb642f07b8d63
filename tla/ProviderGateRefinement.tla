----------------------- MODULE ProviderGateRefinement -----------------------
(***************************************************************************)
(* ProviderGate implements GatePermit, for every set of modes and requests *)
(* and every timing: the gate keeps its promise that an order leaves only  *)
(* under the permit that its context was read under.                       *)
(***************************************************************************)
EXTENDS ProviderGateProofs

\* Every Resume that anybody knows of was made in the past, and a closed gate
\* was last opened by one from before the incident that closed it.
ResumesPast ==
  /\ \A m \in Mode :
       /\ dash.desired[m].resume <= dash.version
       /\ sync.answer # None => sync.answer.desired[m].resume <= dash.version
       /\ sync.candidates[m].resume <= dash.version
       /\ permit[m] <= dash.version
       /\ ~modes[m].gate => permit[m] <= modes[m].closedAt

\* The order lock: one request of a mode is inside submit.
Inside(r) == req[r].pc \in {"submitting", "sent"}
OneSubmission ==
  \A r, q \in Request : Inside(r) /\ Inside(q) /\ req[r].mode = req[q].mode => r = q

-----------------------------------------------------------------------------
(* Gates and permits.                                                      *)

\* A step opens no gate: each keeps its incident, or closes for one of now.
GatesClose ==
  \A m \in Mode :
    \/ modes'[m].gate = modes[m].gate /\ modes'[m].closedAt = modes[m].closedAt
    \/ ~modes'[m].gate /\ modes'[m].closedAt = dash.version
    \/ ~modes'[m].gate /\ ~modes[m].gate /\ modes'[m].closedAt = modes[m].closedAt

\* What a step does to the sync: an answer is what the dashboard says now or
\* said before, and so are the candidates.
SyncMoves ==
  /\ sync'.answer = sync.answer \/ sync'.answer = None \/ sync'.answer = dash
  /\ \A m \in Mode : sync'.candidates[m].resume <= dash.version

\* Steps that open no gate and move the sync so leave every Resume in the past.
LEMMA ResumesKept ==
  ASSUME IInv, ResumesPast, GatesClose, SyncMoves, UNCHANGED <<dash, permit>>
  PROVE  ResumesPast'
<1> SUFFICES ASSUME NEW m \in Mode
             PROVE  /\ (dash.desired[m].resume <= dash.version)'
                    /\ (sync.answer # None => sync.answer.desired[m].resume <= dash.version)'
                    /\ (sync.candidates[m].resume <= dash.version)'
                    /\ (permit[m] <= dash.version)'
                    /\ (~modes[m].gate => permit[m] <= modes[m].closedAt)'
  BY DEF ResumesPast
<1> QED
  BY DEF ResumesPast, GatesClose, SyncMoves

\* Closing closes.
LEMMA SomeCloseFacts ==
  ASSUME SomeClose
  PROVE  GatesClose
BY DEF SomeClose, ClosedAs, GatesClose

\* A new sync has no candidates.
LEMMA NoCandidates ==
  ASSUME IInv, ResumesPast
  PROVE  /\ \A m \in Mode : Idle.candidates[m].resume <= dash.version
         /\ \A m \in Mode : sync.candidates[m].resume <= dash.version
         /\ Idle.answer = None
         /\ dash.version \in Nat
<1>1. dash.version \in Nat
  BY DEF IInv, TypeOK, Dashboard
<1>2. \A m \in Mode : Idle.candidates[m].resume = 0
  BY IdleFacts DEF NoResume
<1> QED
  BY <1>1, <1>2, IdleFacts DEF ResumesPast

\* The steps that neither open a gate nor are the operator's.
LEMMA GatesStep ==
  ASSUME IInv, ResumesPast,
         \/ SyncSend \/ DashboardAnswers \/ SyncAccept \/ SyncSaveFails
         \/ SyncFail \/ SyncFailSaved \/ SyncFailSaveFails
         \/ WatchdogStep \/ CleanupStep \/ Restart \/ Tick \/ UNCHANGED vars
         \/ \E r \in Request : RequestStep(r)
  PROVE  GatesClose /\ SyncMoves /\ UNCHANGED <<dash, permit>>
<1> USE DEF provider, tasks, external
<1>0. TypeOK /\ modes \in [Mode -> ModeRecs] /\ SomeClose \in BOOLEAN
  BY DEF IInv, TypeOK, SomeClose
<1>1. UNCHANGED modes => GatesClose
  BY <1>0, NoneClose, SomeCloseFacts
<1>2. UNCHANGED sync => SyncMoves
  BY NoCandidates DEF SyncMoves
<1>3. sync' \in {Idle, [Idle EXCEPT !.pc = "failing"]} => SyncMoves
  BY NoCandidates DEF SyncMoves, Idle
<1>5. (PersistFails => GatesClose) /\ (Expire => GatesClose)
  BY <1>0, PersistFailsFacts, ExpireFacts, SomeCloseFacts
<1>6. ASSUME NEW M, CloseAll(M, "forced", TRUE) \/ CloseAll(M, "database", FALSE)
      PROVE  GatesClose
  BY <1>0, <1>6, CloseAllFacts, SomeCloseFacts DEF Reasons
<1>7. CASE SyncSend
  BY <1>7, <1>1, NoCandidates DEF SyncSend, SyncMoves, Idle
<1>8. CASE DashboardAnswers
  BY <1>8, <1>1, NoCandidates DEF DashboardAnswers, SyncMoves, SyncTasks, IInv, TypeOK
<1>9. CASE SyncAccept
  <2> DEFINE a == sync.answer
  <2>1. a \in Dashboard /\ a # None /\ UNCHANGED <<dash, permit>>
        /\ modes' = [m \in Mode |-> Installed(a, m)]
    BY <1>9 DEF SyncAccept, IInv, TypeOK, SyncTasks
  <2>2. GatesClose
    BY <1>0, <2>1, InstalledFacts DEF GatesClose, ClosedAs
  <2>3. sync'.answer = None
    BY <1>9 DEF SyncAccept, Idle
  <2>4. \A m \in Mode : sync'.candidates[m].resume \in {a.desired[m].resume, 0}
    BY <1>9 DEF SyncAccept, Idle, NoResume
  <2>5. SyncMoves
    BY <2>1, <2>3, <2>4, NoCandidates DEF SyncMoves, ResumesPast
  <2> QED
    BY <2>1, <2>2, <2>5
<1>10. CASE SyncSaveFails \/ SyncFailSaved \/ SyncFailSaveFails
  BY <1>10, <1>1, <1>3, <1>5 DEF SyncSaveFails, SyncFailSaved, SyncFailSaveFails
<1>11. CASE SyncFail
  BY <1>11, <1>1, <1>3, <1>6 DEF SyncFail
<1>12. CASE WatchdogStep
  BY <1>12, <1>1, <1>2, <1>5 DEF WatchdogStep, WatchdogExpires, WatchdogSaved, WatchdogSaveFails
<1>13. CASE CleanupStep
  <2>1. UNCHANGED <<dash, permit, sync>>
    BY <1>13 DEF CleanupStep, ReconcileUnbrokered, ReconcileStart, ReconcileChecksLock, ReconcileFinds,
       ReconcileRaises, CleanupSaved, CleanupSaveFails, PersistFails
  <2>2. GatesClose
    <3>1. ASSUME NEW m \in Mode, NEW b \in BOOLEAN, modes' = [modes EXCEPT ![m].reconciled = b]
          PROVE  GatesClose
      BY <1>0, <3>1 DEF GatesClose, ModeRecs
    <3>2. cleanup.pc # "resting" => cleanup.mode \in Mode
      BY <1>0 DEF TypeOK
    <3>3. CASE \E m \in Mode : ReconcileUnbrokered(m) \/ ReconcileStart(m)
      BY <3>1, <3>3 DEF ReconcileUnbrokered, ReconcileStart
    <3>4. CASE ReconcileChecksLock \/ ReconcileRaises
      BY <1>1, <3>1, <3>2, <3>4 DEF ReconcileChecksLock, ReconcileRaises
    <3>5. CASE \E outstanding \in BOOLEAN : ReconcileFinds(outstanding)
      BY <1>1, <3>1, <3>2, <3>5 DEF ReconcileFinds
    <3>6. CASE CleanupSaved \/ CleanupSaveFails
      BY <1>1, <1>5, <3>6 DEF CleanupSaved, CleanupSaveFails
    <3> QED
      BY <1>13, <3>3, <3>4, <3>5, <3>6 DEF CleanupStep
  <2> QED
    BY <1>2, <2>1, <2>2
<1>14. CASE Restart
  BY <1>3, <1>14 DEF Restart, GatesClose
<1>15. CASE Tick
  <2>1. UNCHANGED <<modes, dash, permit>>
    BY <1>15 DEF Tick
  <2>2. sync'.answer = sync.answer /\ sync'.candidates = sync.candidates
    BY <1>15 DEF Tick, IInv, TypeOK, SyncTasks
  <2> QED
    BY <1>1, <2>1, <2>2, NoCandidates DEF SyncMoves
<1>16. CASE UNCHANGED vars
  BY <1>1, <1>2, <1>16 DEF vars
<1>17. ASSUME NEW r \in Request, RequestStep(r) PROVE GatesClose /\ SyncMoves /\ UNCHANGED <<dash, permit>>
  <2>1. UNCHANGED <<dash, permit, sync>>
    BY <1>17 DEF RequestStep, RegisterWorker, ReadState, Drop, AdmitExpires, StartSubmit, SendOrder, DiscardOrder,
       OrderAnswered, OrderFails, RebalanceDone, RebalanceFails, StrategyFailure, RequestSaved, RequestSaveFails
  <2>2. CASE UNCHANGED modes
    BY <1>1, <1>2, <2>1, <2>2
  <2>3. CASE RegisterWorker(r) \/ OrderFails(r) \/ RebalanceFails(r) \/ StrategyFailure(r)
    BY <1>2, <1>6, <2>1, <2>3 DEF RegisterWorker, OrderFails, RebalanceFails, StrategyFailure
  <2>4. CASE AdmitExpires(r) \/ RequestSaveFails(r)
    BY <1>2, <1>5, <2>1, <2>4 DEF AdmitExpires, RequestSaveFails
  <2> QED
    BY <1>17, <2>2, <2>3, <2>4 DEF RequestStep, ReadState, Drop, StartSubmit, SendOrder, DiscardOrder,
       OrderAnswered, RebalanceDone, RequestSaved
<1> QED
  BY <1>7, <1>8, <1>9, <1>10, <1>11, <1>12, <1>13, <1>14, <1>15, <1>16, <1>17

\* The sync opens gates under Resumes newer than any they were opened with.
LEMMA OpeningFacts ==
  ASSUME IInv, ResumesPast, SyncOpen
  PROVE  /\ ResumesPast'
         /\ \A m \in Mode :
              \/ modes'[m].gate = modes[m].gate /\ permit'[m] = permit[m]
              \/ ~modes[m].gate /\ modes'[m].gate = TRUE /\ permit'[m] > permit[m]
<1>1. /\ modes \in [Mode -> ModeRecs] /\ permit \in [Mode -> Nat] /\ dash.version \in Nat
      /\ \A m \in Mode : sync.candidates[m].resume \in Nat
  BY DEF IInv, TypeOK, Dashboard, SyncTasks, Resumes
<1>2. \A m \in Mode :
        /\ modes'[m] = IF Opens(m) THEN [modes[m] EXCEPT !.gate = TRUE, !.reason = None] ELSE modes[m]
        /\ permit'[m] = IF Opens(m) /\ ~modes[m].gate THEN sync.candidates[m].resume ELSE permit[m]
  BY DEF SyncOpen
<1>3. \A m \in Mode : Opens(m) => sync.candidates[m].resume > modes[m].closedAt
  BY DEF IInv, CandidatesSound, Opens
<1>4. \A m \in Mode : permit[m] <= dash.version /\ sync.candidates[m].resume <= dash.version
                      /\ (~modes[m].gate => permit[m] <= modes[m].closedAt)
  BY DEF ResumesPast
<1>5. \A m \in Mode :
        /\ modes'[m].closedAt = modes[m].closedAt /\ modes[m].closedAt \in Nat
        /\ modes'[m].gate => Opens(m) \/ modes[m].gate
        /\ Opens(m) => modes'[m].gate = TRUE
        /\ ~Opens(m) => modes'[m].gate = modes[m].gate
        /\ modes[m].gate \in BOOLEAN
  BY <1>1, <1>2 DEF ModeRecs
<1>6. \A m \in Mode :
         \/ modes'[m].gate = modes[m].gate /\ permit'[m] = permit[m]
         \/ ~modes[m].gate /\ modes'[m].gate = TRUE /\ permit'[m] > permit[m]
  <2> SUFFICES ASSUME NEW m \in Mode
               PROVE  \/ modes'[m].gate = modes[m].gate /\ permit'[m] = permit[m]
                      \/ ~modes[m].gate /\ modes'[m].gate = TRUE /\ permit'[m] > permit[m]
    OBVIOUS
  <2>1. CASE Opens(m) /\ ~modes[m].gate
    <3>1. /\ permit'[m] = sync.candidates[m].resume /\ permit[m] \in Nat /\ modes[m].closedAt \in Nat
          /\ sync.candidates[m].resume \in Nat
      BY <1>1, <1>2, <1>5, <2>1
    <3>2. permit'[m] > permit[m]
      BY <1>3, <1>4, <2>1, <3>1
    <3> QED
      BY <1>5, <2>1, <3>2
  <2>2. CASE Opens(m) /\ modes[m].gate
    <3>1. modes[m].gate = TRUE
      BY <1>5, <2>2
    <3> QED
      BY <1>2, <1>5, <2>2, <3>1
  <2>3. CASE ~Opens(m)
    BY <1>2, <1>5, <2>3
  <2> QED
    BY <2>1, <2>2, <2>3
<1>7. dash' = dash /\ sync' = Idle
  BY DEF SyncOpen, external
<1>8. \A m \in Mode : permit'[m] <= dash.version /\ (~modes'[m].gate => permit'[m] <= modes'[m].closedAt)
  BY <1>2, <1>4, <1>5
<1> QED
  BY <1>6, <1>7, <1>8, NoCandidates DEF ResumesPast

\* The operator's Resumes are newer still.
LEMMA OperatorFacts ==
  ASSUME IInv, ResumesPast, OperatorStep
  PROVE  ResumesPast' /\ UNCHANGED <<modes, permit, req>>
<1>1. UNCHANGED <<modes, sync, permit, req>>
  BY DEF OperatorStep, Stop, Resume, Configure, provider, tasks
<1>2. dash \in Dashboard /\ dash.version \in Nat
  BY DEF IInv, TypeOK, Dashboard
<1>3. dash'.version \in {dash.version, dash.version + 1}
      /\ \A m \in Mode : dash'.desired[m].resume \in {dash.desired[m].resume, dash'.version, 0}
  <2>1. CASE \E c \in Assignable : Configure(c)
    BY <1>2, <2>1 DEF Configure, Dashboard
  <2>2. ASSUME NEW m \in Mode, Stop(m) \/ Resume(m)
        PROVE  dash'.version \in {dash.version, dash.version + 1}
               /\ \A q \in Mode : dash'.desired[q].resume \in {dash.desired[q].resume, dash'.version, 0}
    <3>1. dash'.version = dash.version + 1
      BY <1>2, <2>2 DEF Stop, Resume, Dashboard
    <3>2. \A q \in Mode \ {m} : dash'.desired[q] = dash.desired[q]
      BY <1>2, <2>2 DEF Stop, Resume, Dashboard
    <3>3. dash'.desired[m].resume \in {0, dash.version + 1}
      <4>1. CASE Stop(m)
        <5>1. dash'.desired = [dash.desired EXCEPT ![m] = Paused(dash.version + 1)]
          BY <1>2, <4>1 DEF Stop, Dashboard
        <5> QED
          BY <1>2, <5>1 DEF Dashboard, Paused
      <4>2. CASE Resume(m)
        BY <1>2, <4>2 DEF Resume, Dashboard
      <4> QED
        BY <2>2, <4>1, <4>2
    <3> QED
      BY <3>1, <3>2, <3>3
  <2> QED
    BY <2>1, <2>2 DEF OperatorStep
<1>4. \A m \in Mode : /\ dash.desired[m].resume \in Nat /\ dash.desired[m].resume <= dash.version
                      /\ sync.candidates[m].resume \in Nat /\ permit[m] \in Nat
                      /\ sync.answer # None => sync.answer.desired[m].resume \in Nat
  BY DEF IInv, TypeOK, Dashboard, Desired, SyncTasks, Resumes, ResumesPast
<1>5. \A m \in Mode : dash'.desired[m].resume <= dash'.version
  BY <1>2, <1>3, <1>4
<1>6. dash.version <= dash'.version /\ dash'.version \in Nat
  BY <1>2, <1>3
<1>7. \A m \in Mode : /\ sync.candidates[m].resume <= dash'.version /\ permit[m] <= dash'.version
                      /\ sync.answer # None => sync.answer.desired[m].resume <= dash'.version
  BY <1>2, <1>4, <1>6 DEF ResumesPast
<1> QED
  BY <1>1, <1>5, <1>7 DEF ResumesPast

-----------------------------------------------------------------------------
(* Contexts and the order lock.                                            *)

\* The context of a request is as it was, or given up.
Keeps(r) ==
  \/ ~Live(r)'
  \/ /\ Live(r)
     /\ req'[r].mode = req[r].mode /\ req'[r].permit = req[r].permit
     /\ req'[r].pc = "sent" <=> req[r].pc = "sent"

\* A step of one request that enters submit only while nobody of its mode is in
\* it leaves the other contexts alone.
LEMMA OneMoves ==
  ASSUME TypeOK, OneSubmission, NEW r \in Request, NEW rec, req' = [req EXCEPT ![r] = rec],
         rec.pc \in {"submitting", "sent"} =>
           rec.mode = req[r].mode /\ (Inside(r) \/ ~OrderLocked(req[r].mode))
  PROVE  OneSubmission' /\ req'[r] = rec /\ \A q \in Request \ {r} : Keeps(q) /\ req'[q] = req[q]
<1>1. req'[r] = rec /\ \A q \in Request \ {r} : req'[q] = req[q]
  BY DEF TypeOK
<1>2. \A q \in Request \ {r} : Keeps(q)
  BY <1>1 DEF Keeps, Live
<1>3. OneSubmission'
  BY <1>1 DEF OneSubmission, Inside, OrderLocked
<1> QED
  BY <1>1, <1>2, <1>3

\* A step of one request keeps its context or gives it up, except that it may
\* take a context, send an order or get an answer.
LEMMA RequestContexts ==
  ASSUME IInv, OneSubmission, NEW r \in Request, RequestStep(r)
  PROVE  /\ OneSubmission'
         /\ \/ \A q \in Request : Keeps(q)
            \/ (\E m \in Mode : ReadState(r, m)) \/ SendOrder(r) \/ OrderAnswered(r)
<1>1. TypeOK /\ req[r] \in Contexts
  BY DEF IInv, TypeOK
<1>2. ASSUME NEW rec, req' = [req EXCEPT ![r] = rec], rec.pc \in {"idle", "saving"}
      PROVE  OneSubmission' /\ \A q \in Request : Keeps(q)
  <2>1. req'[r] = rec /\ OneSubmission' /\ \A q \in Request \ {r} : Keeps(q)
    BY <1>1, <1>2, OneMoves
  <2>2. Keeps(r)
    BY <1>2, <2>1 DEF Keeps, Live
  <2> QED
    BY <2>1, <2>2
<1>3. NoContext.pc = "idle" /\ [NoContext EXCEPT !.pc = "saving"].pc = "saving"
  BY DEF NoContext
<1>4. CASE RegisterWorker(r)
  <2>1. [req[r] EXCEPT !.pc = "saving"].pc = "saving"
    BY <1>1 DEF Contexts
  <2> QED
    BY <1>1, <1>2, <1>4, <2>1 DEF RegisterWorker, TypeOK
<1>5. CASE \/ Drop(r) \/ AdmitExpires(r) \/ DiscardOrder(r) \/ OrderFails(r) \/ RebalanceDone(r)
           \/ RebalanceFails(r) \/ StrategyFailure(r) \/ RequestSaved(r) \/ RequestSaveFails(r)
  BY <1>2, <1>3, <1>5 DEF Drop, AdmitExpires, DiscardOrder, OrderFails, RebalanceDone, RebalanceFails,
     StrategyFailure, RequestSaved, RequestSaveFails
<1>6. CASE StartSubmit(r)
  <2> DEFINE rec == [req[r] EXCEPT !.pc = "submitting"]
  <2>1. /\ req' = [req EXCEPT ![r] = rec] /\ req[r].pc = "holding" /\ ~OrderLocked(req[r].mode)
        /\ rec.mode = req[r].mode /\ rec.permit = req[r].permit /\ rec.pc = "submitting"
    BY <1>1, <1>6 DEF StartSubmit, Contexts, TypeOK
  <2>2. req'[r] = rec /\ OneSubmission' /\ \A q \in Request \ {r} : Keeps(q)
    BY <1>1, <2>1, OneMoves
  <2>3. Keeps(r)
    BY <2>1, <2>2 DEF Keeps, Live
  <2> QED
    BY <2>2, <2>3
<1>7. CASE SendOrder(r)
  <2> DEFINE rec == [req[r] EXCEPT !.pc = "sent"]
  <2>1. /\ req' = [req EXCEPT ![r] = rec] /\ req[r].pc = "submitting"
        /\ rec.mode = req[r].mode /\ rec.pc = "sent"
    BY <1>1, <1>7 DEF SendOrder, Contexts, TypeOK
  <2> QED
    BY <1>1, <1>7, <2>1, OneMoves DEF Inside
<1>8. CASE OrderAnswered(r)
  <2> DEFINE rec == [req[r] EXCEPT !.pc = "holding"]
  <2>1. req' = [req EXCEPT ![r] = rec] /\ rec.pc = "holding"
    BY <1>1, <1>8 DEF OrderAnswered, Contexts, TypeOK
  <2> QED
    BY <1>1, <1>8, <2>1, OneMoves
<1>9. ASSUME NEW m \in Mode, ReadState(r, m) PROVE OneSubmission'
  BY <1>1, <1>9, OneMoves DEF ReadState
<1> QED
  BY <1>4, <1>5, <1>6, <1>7, <1>8, <1>9 DEF RequestStep

\* The other steps leave the contexts alone, up to a restart, which gives up
\* those that a handler holds.
LEMMA OtherContexts ==
  ASSUME IInv, OneSubmission, UNCHANGED req \/ Restart
  PROVE  OneSubmission' /\ \A q \in Request : Keeps(q)
<1>1. CASE UNCHANGED req
  BY <1>1 DEF OneSubmission, Inside, Keeps, Live
<1>2. CASE Restart
  <2>1. \A q \in Request : (req'[q] = req[q] /\ req[q].pc = "holding") \/ req'[q].pc = "idle"
    BY <1>2 DEF Restart, NoContext
  <2> QED
    BY <2>1 DEF OneSubmission, Inside, Keeps, Live
<1> QED
  BY <1>1, <1>2

-----------------------------------------------------------------------------
(* The refinement.                                                         *)

\* The context of a request as GatePermit sees it.
Context(r) == IF Live(r) THEN [mode |-> req[r].mode, permit |-> req[r].permit,
                               sending |-> req[r].pc = "sent"] ELSE None

\* What it is by the step its request is at.
LEMMA ContextIs ==
  ASSUME NEW r \in Request
  PROVE  /\ ~Live(r) => Context(r) = None
         /\ req[r].pc = "sent" =>
              Context(r) = [mode |-> req[r].mode, permit |-> req[r].permit, sending |-> TRUE]
         /\ req[r].pc \in {"holding", "submitting"} =>
              Context(r) = [mode |-> req[r].mode, permit |-> req[r].permit, sending |-> FALSE]
<1>1. CASE req[r].pc = "sent"
  <2>1. (req[r].pc = "sent") = TRUE
    BY <1>1
  <2> QED
    BY <1>1, <2>1 DEF Context, Live
<1>2. CASE req[r].pc # "sent"
  <2>1. (req[r].pc = "sent") = FALSE
    BY <1>2
  <2> QED
    BY <1>2, <2>1 DEF Context, Live
<1> QED
  BY <1>1, <1>2

\* The same after a step.
LEMMA ContextBecomes ==
  ASSUME NEW r \in Request
  PROVE  /\ ~Live(r)' => Context(r)' = None
         /\ req'[r].pc = "sent" =>
              Context(r)' = [mode |-> req'[r].mode, permit |-> req'[r].permit, sending |-> TRUE]
         /\ req'[r].pc \in {"holding", "submitting"} =>
              Context(r)' = [mode |-> req'[r].mode, permit |-> req'[r].permit, sending |-> FALSE]
         /\ req'[r] = req[r] => Context(r)' = Context(r)
<1>1. CASE req'[r].pc = "sent"
  <2>1. (req'[r].pc = "sent") = TRUE
    BY <1>1
  <2> QED
    BY <1>1, <2>1 DEF Context, Live
<1>2. CASE req'[r].pc # "sent"
  <2>1. (req'[r].pc = "sent") = FALSE
    BY <1>2
  <2> QED
    BY <1>2, <2>1 DEF Context, Live
<1> QED
  BY <1>1, <1>2 DEF Context, Live

\* A context that is carried is not taken for none.
LEMMA RecordsDiffer ==
  ASSUME NEW m \in Mode, NEW p \in Nat, NEW b \in BOOLEAN
  PROVE  [mode |-> m, permit |-> p, sending |-> b] # None
<1>1. [mode |-> m, permit |-> p, sending |-> b] \in [mode : Mode, permit : Nat, sending : BOOLEAN]
  OBVIOUS
<1> QED
  BY <1>1, NoneAssumption

\* A step that opens no gate and keeps or gives up contexts is a Revoke.
LEMMA Revokes ==
  ASSUME \A m \in Mode : modes'[m].gate => modes[m].gate, UNCHANGED permit,
         \A r \in Request : Keeps(r)
  PROVE  Permits!Revoke
<1>1. \A r \in Request : Context(r)' = Context(r) \/ Context(r)' = None
  <2> SUFFICES ASSUME NEW r \in Request PROVE Context(r)' = Context(r) \/ Context(r)' = None
    OBVIOUS
  <2>1. CASE ~Live(r)'
    BY <2>1, ContextBecomes
  <2>2. CASE Live(r)'
    <3>1. /\ Live(r) /\ req'[r].mode = req[r].mode /\ req'[r].permit = req[r].permit
          /\ req'[r].pc = "sent" <=> req[r].pc = "sent"
      BY <2>2 DEF Keeps
    <3> QED
      BY <2>2, <3>1, ContextIs, ContextBecomes DEF Live
  <2> QED
    BY <2>1, <2>2
<1> QED
  BY <1>1 DEF Permits!Revoke, Context, Live

\* A context is taken of an open gate.
LEMMA Takes ==
  ASSUME IInv, NEW r \in Request, NEW m \in Mode, ReadState(r, m)
  PROVE  Permits!Take(r, m)
<1>1. /\ ~Live(r) /\ modes[m].gate /\ UNCHANGED <<modes, permit>>
      /\ req'[r].mode = m /\ req'[r].permit = permit[m] /\ req'[r].pc = "holding"
      /\ \A q \in Request \ {r} : req'[q] = req[q]
  BY DEF ReadState, Live, IInv, TypeOK, provider
<1> DEFINE before == [q \in Request |-> Context(q)]
           after == [q \in Request |-> Context(q)']
           taken == [mode |-> m, permit |-> permit[m], sending |-> FALSE]
<1>2. Context(r) = None /\ Context(r)' = taken /\ \A q \in Request \ {r} : Context(q)' = Context(q)
  BY <1>1, ContextIs, ContextBecomes
<1>3. after = [before EXCEPT ![r] = taken]
  BY <1>2
<1> QED
  BY <1>1, <1>2, <1>3 DEF Permits!Take, Context, Live

\* An order leaves an open gate, under the permit of its context, alone.
LEMMA Sends ==
  ASSUME IInv, OneSubmission, NEW r \in Request, SendOrder(r)
  PROVE  Permits!Send(r)
<1> DEFINE m == req[r].mode
           p == permit[m]
           before == [q \in Request |-> Context(q)]
           after == [q \in Request |-> Context(q)']
<1>1. /\ req[r].pc = "submitting" /\ Admissible(r) /\ m \in Mode /\ modes[m].gate /\ p \in Nat
      /\ UNCHANGED <<modes, permit>>
  BY DEF SendOrder, Admissible, IInv, TypeOK, provider
<1>2. req[r].permit = p
  <2>1. Live(r) /\ req[r].boot = boot /\ req[r].version = version
    BY <1>1 DEF Admissible, Live
  <2>2. version \in Nat /\ modes[m].since \in Nat /\ modes[m].since < version
    BY <1>1 DEF IInv, TypeOK, ModeRecs, OpenGateSound
  <2> QED
    BY <2>1, <2>2 DEF IInv, ContextsSound
<1>3. /\ req'[r].pc = "sent" /\ req'[r].mode = m /\ req'[r].permit = p
      /\ \A q \in Request \ {r} : req'[q] = req[q]
  BY <1>2 DEF SendOrder, IInv, TypeOK, Contexts
<1>4. /\ Context(r) = [mode |-> m, permit |-> p, sending |-> FALSE]
      /\ Context(r)' = [mode |-> m, permit |-> p, sending |-> TRUE]
      /\ \A q \in Request \ {r} : Context(q)' = Context(q)
  BY <1>1, <1>2, <1>3, ContextIs, ContextBecomes
<1>5. Context(r) # None
  BY <1>1, <1>4, RecordsDiffer
<1>6. \A q \in Request : Context(q) # None /\ Context(q).mode = m => ~Context(q).sending
  <2> SUFFICES ASSUME NEW q \in Request, Context(q) # None, Context(q).mode = m PROVE ~Context(q).sending
    OBVIOUS
  <2>1. Live(q)
    BY ContextIs
  <2>2. Context(q).mode = req[q].mode
    BY <2>1, ContextIs DEF Live
  <2>3. req[q].pc # "sent"
    BY <1>1, <2>2 DEF OneSubmission, Inside
  <2> QED
    BY <2>1, <2>3, ContextIs DEF Live
<1>7. after = [before EXCEPT ![r].sending = TRUE]
  <2> DEFINE was == FALSE
             is == TRUE
             x == before[r]
  <2>1. x = [mode |-> m, permit |-> p, sending |-> was]
    BY <1>4
  <2> HIDE DEF was, is, x, m, p
  <2>2. [x EXCEPT !.sending = is] = [mode |-> m, permit |-> p, sending |-> is]
    BY <2>1
  <2>3. [before[r] EXCEPT !.sending = TRUE] = Context(r)'
    BY <1>4, <2>2 DEF x, is
  <2> QED
    BY <1>4, <2>3
<1> QED
  BY <1>1, <1>4, <1>5, <1>6, <1>7 DEF Permits!Send, Context, Live

\* The answer ends the sending.
LEMMA Answers ==
  ASSUME IInv, NEW r \in Request, OrderAnswered(r)
  PROVE  Permits!Answered(r)
<1> DEFINE m == req[r].mode
           p == req[r].permit
           before == [q \in Request |-> Context(q)]
           after == [q \in Request |-> Context(q)']
<1>1. /\ req[r].pc = "sent" /\ m \in Mode /\ p \in Nat /\ UNCHANGED <<modes, permit>>
      /\ req'[r].pc = "holding" /\ req'[r].mode = m /\ req'[r].permit = p
      /\ \A q \in Request \ {r} : req'[q] = req[q]
  BY DEF OrderAnswered, IInv, TypeOK, Contexts, provider
<1>2. /\ Context(r) = [mode |-> m, permit |-> p, sending |-> TRUE]
      /\ Context(r)' = [mode |-> m, permit |-> p, sending |-> FALSE]
      /\ \A q \in Request \ {r} : Context(q)' = Context(q)
  BY <1>1, ContextIs, ContextBecomes
<1>3. Context(r) # None /\ Context(r).sending
  <2>1. Context(r) # None
    BY <1>1, <1>2, RecordsDiffer
  <2> QED
    BY <1>2, <2>1
<1>4. after = [before EXCEPT ![r].sending = FALSE]
  <2> DEFINE was == TRUE
             is == FALSE
             x == before[r]
  <2>1. x = [mode |-> m, permit |-> p, sending |-> was]
    BY <1>2
  <2> HIDE DEF was, is, x, m, p
  <2>2. [x EXCEPT !.sending = is] = [mode |-> m, permit |-> p, sending |-> is]
    BY <2>1
  <2>3. [before[r] EXCEPT !.sending = FALSE] = Context(r)'
    BY <1>2, <2>2 DEF x, is
  <2> QED
    BY <1>2, <2>3
<1> QED
  BY <1>1, <1>3, <1>4 DEF Permits!Answered, Context, Live

\* Gates open under newer permits.
LEMMA Grants ==
  ASSUME IInv, ResumesPast, SyncOpen
  PROVE  Permits!Grant
<1>1. UNCHANGED req
  BY DEF SyncOpen
<1>2. \A m \in Mode :
        /\ modes[m].gate => modes'[m].gate
        /\ IF ~modes[m].gate /\ modes'[m].gate THEN permit'[m] > permit[m] ELSE permit'[m] = permit[m]
  BY OpeningFacts
<1>3. DOMAIN permit' = Mode
  BY DEF SyncOpen
<1> QED
  BY <1>1, <1>2, <1>3 DEF Permits!Grant

\* The invariant of the refinement is kept, and every step is one of GatePermit.
LEMMA RefinementStep ==
  ASSUME IInv, ResumesPast, OneSubmission, [Next]_vars
  PROVE  ResumesPast' /\ OneSubmission' /\ [Permits!Next]_(Permits!vars)
<1> USE DEF Permits!Next
<1>1. CASE SyncOpen
  <2>1. UNCHANGED req
    BY <1>1 DEF SyncOpen
  <2> QED
    BY <1>1, <2>1, OpeningFacts, OtherContexts, Grants
<1>2. CASE OperatorStep
  <2>1. UNCHANGED <<modes, permit, req>> /\ ResumesPast'
    BY <1>2, OperatorFacts
  <2> QED
    BY <2>1, OtherContexts, Revokes
<1>3. CASE \/ SyncSend \/ DashboardAnswers \/ SyncAccept \/ SyncSaveFails
           \/ SyncFail \/ SyncFailSaved \/ SyncFailSaveFails
           \/ WatchdogStep \/ CleanupStep \/ Restart \/ Tick \/ UNCHANGED vars
  <2>1. GatesClose /\ SyncMoves /\ UNCHANGED <<dash, permit>>
    BY <1>3, GatesStep
  <2>2. UNCHANGED req \/ Restart
    BY <1>3 DEF SyncSend, DashboardAnswers, SyncAccept, SyncSaveFails, SyncFail, SyncFailSaved,
       SyncFailSaveFails, WatchdogStep, WatchdogExpires, WatchdogSaved, WatchdogSaveFails, CleanupStep,
       ReconcileUnbrokered, ReconcileStart, ReconcileChecksLock, ReconcileFinds, ReconcileRaises,
       CleanupSaved, CleanupSaveFails, Tick, vars
  <2> QED
    BY <2>1, <2>2, ResumesKept, OtherContexts, Revokes DEF GatesClose
<1>4. ASSUME NEW r \in Request, RequestStep(r)
      PROVE  ResumesPast' /\ OneSubmission' /\ Permits!Next
  <2>1. GatesClose /\ SyncMoves /\ UNCHANGED <<dash, permit>>
    BY <1>4, GatesStep
  <2>2. ResumesPast' /\ OneSubmission'
    BY <1>4, <2>1, ResumesKept, RequestContexts
  <2>3. CASE \A q \in Request : Keeps(q)
    <3>1. Permits!Revoke
      BY <2>1, <2>3, Revokes DEF GatesClose
    <3> QED
      BY <2>2, <3>1
  <2>4. CASE \E m \in Mode : ReadState(r, m)
    <3>1. \E m \in Mode : Permits!Take(r, m)
      BY <2>4, Takes
    <3> QED
      BY <2>2, <3>1
  <2>5. CASE SendOrder(r)
    <3>1. Permits!Send(r)
      BY <2>5, Sends
    <3> QED
      BY <2>2, <3>1
  <2>6. CASE OrderAnswered(r)
    <3>1. Permits!Answered(r)
      BY <2>6, Answers
    <3> QED
      BY <2>2, <3>1
  <2> QED
    BY <1>4, <2>3, <2>4, <2>5, <2>6, RequestContexts
<1> QED
  BY <1>1, <1>2, <1>3, <1>4 DEF Next, SyncStep

\* It holds at the beginning.
LEMMA RefinementInit ==
  ASSUME Init
  PROVE  ResumesPast /\ OneSubmission /\ Permits!Init
<1>1. \A m \in Mode : /\ ~modes[m].gate /\ modes[m].gate = FALSE /\ modes[m].closedAt = 0 /\ permit[m] = 0
                      /\ dash.desired[m].resume = 0 /\ sync.candidates[m].resume = 0
  BY IdleFacts DEF Init, Paused, NoResume
<1>2. dash.version = 0 /\ sync.answer = None
  BY IdleFacts DEF Init
<1>3. \A r \in Request : ~Live(r) /\ ~Inside(r)
  BY DEF Init, NoContext, Live, Inside
<1>4. ResumesPast
  BY <1>1, <1>2 DEF ResumesPast
<1>5. OneSubmission
  BY <1>3 DEF OneSubmission
<1>6. Permits!Init
  BY <1>1, <1>3 DEF Permits!Init, Live, Init
<1> QED
  BY <1>4, <1>5, <1>6

\* The gate implements the permit discipline: every order leaves while its mode
\* is open under the very permit its context was read under, alone, and every
\* permit is newer than the ones before.
THEOREM GateKeepsPermits == Spec => PermitsRefined
<1>1. Init => ResumesPast /\ OneSubmission /\ Permits!Init
  BY RefinementInit
<1>2. IInv /\ ResumesPast /\ OneSubmission /\ [Next]_vars =>
        ResumesPast' /\ OneSubmission' /\ [Permits!Next]_(Permits!vars)
  BY RefinementStep
<1> QED
  BY <1>1, <1>2, Inductive, PTL DEF Spec, PermitsRefined, Permits!Spec

-----------------------------------------------------------------------------
(* A mode opens only settled.                                              *)

\* What a mode is at, and which of its submissions are in flight.
LEMMA PhaseIs ==
  ASSUME NEW m \in Mode
  PROVE  /\ modes[m].gate => PhaseOf(m) = "open"
         /\ ~modes[m].gate /\ Reconciling(m) /\ cleanup.pc = "reading" => PhaseOf(m) = "reconciling"
         /\ ~modes[m].gate /\ Reconciling(m) /\ cleanup.pc = "asking" => PhaseOf(m) = "checked"
         /\ ~modes[m].gate /\ ~(Reconciling(m) /\ cleanup.pc \in {"reading", "asking"}) =>
              PhaseOf(m) = IF modes[m].reconciled THEN "reconciled" ELSE "closed"
         /\ PhaseOf(m) \in Phases!Phase
BY DEF PhaseOf, Phases!Phase

LEMMA PhaseBecomes ==
  ASSUME NEW m \in Mode
  PROVE  /\ modes'[m].gate => PhaseOf(m)' = "open"
         /\ ~modes'[m].gate /\ Reconciling(m)' /\ cleanup'.pc = "reading" => PhaseOf(m)' = "reconciling"
         /\ ~modes'[m].gate /\ Reconciling(m)' /\ cleanup'.pc = "asking" => PhaseOf(m)' = "checked"
         /\ ~modes'[m].gate /\ ~(Reconciling(m)' /\ cleanup'.pc \in {"reading", "asking"}) =>
              PhaseOf(m)' = IF modes'[m].reconciled THEN "reconciled" ELSE "closed"
         /\ PhaseOf(m)' \in Phases!Phase
BY DEF PhaseOf, Phases!Phase

\* The submissions of mode m that are in flight.
InFlight(m) == \E r \in Request : req[r].mode = m /\ req[r].pc = "sent"

\* No step but an admission puts a submission in flight.
SendsEnd ==
  \A r \in Request : req'[r].pc = "sent" => req[r].pc = "sent" /\ req'[r].mode = req[r].mode

\* Modes are as they were or close, in the incident they had or in a new one.
ModesFall ==
  \A m \in Brokered :
    \/ modes'[m] = modes[m]
    \/ /\ ~modes'[m].gate /\ ~modes'[m].reconciled
       /\ \/ modes'[m].incident \notin Held(m)
          \/ ~modes[m].gate /\ modes'[m].incident = modes[m].incident

\* A reconciliation goes on as it is or ends.
CleanupEnds == cleanup' = cleanup \/ cleanup'.pc \notin {"reading", "asking"}

\* Phases that stay or become closed are a Close.
LEMMA ClosePhases ==
  ASSUME SendsEnd, \A m \in Brokered : PhaseOf(m)' \in {PhaseOf(m), "closed"}
  PROVE  Phases!Close
<1> DEFINE phaseNow == [m \in Brokered |-> PhaseOf(m)]
           phaseNext == [m \in Brokered |-> PhaseOf(m)']
           sendingNow == [m \in Brokered |-> InFlight(m)]
           sendingNext == [m \in Brokered |-> InFlight(m)']
<1>1. phaseNext \in [Brokered -> Phases!Phase]
  BY PhaseBecomes, ModesAssumption
<1>2. sendingNext \in [Brokered -> BOOLEAN]
  BY DEF InFlight
<1>3. \A m \in Brokered : phaseNext[m] \in {phaseNow[m], "closed"}
  OBVIOUS
<1>4. \A m \in Brokered : sendingNext[m] => sendingNow[m]
  BY DEF SendsEnd, InFlight
<1> QED
  BY <1>1, <1>2, <1>3, <1>4 DEF Phases!Close, InFlight

\* Steps that close modes and end reconciliations.
LEMMA FallCloses ==
  ASSUME IInv, SendsEnd, ModesFall, CleanupEnds
  PROVE  Phases!Close
<1> SUFFICES ASSUME NEW m \in Brokered PROVE PhaseOf(m)' \in {PhaseOf(m), "closed"}
  BY ClosePhases
<1>1. m \in Mode /\ modes[m] \in ModeRecs
  BY ModesAssumption DEF IInv, TypeOK
<1>2. Reconciling(m) /\ cleanup.pc \in {"reading", "asking"} => ~modes[m].gate /\ ~modes[m].reconciled
  BY <1>1 DEF Reconciling, IInv, OpenGateSound, ReconcilingUnreconciled
<1>3. CASE modes'[m] = modes[m]
  <2>1. CASE cleanup' = cleanup
    <3>1. PhaseOf(m)' = PhaseOf(m)
      BY <1>3, <2>1 DEF PhaseOf, Reconciling
    <3> QED
      BY <3>1
  <2>2. CASE cleanup'.pc \notin {"reading", "asking"}
    BY <1>1, <1>2, <1>3, <2>2, PhaseIs, PhaseBecomes
  <2> QED
    BY <2>1, <2>2 DEF CleanupEnds
<1>4. CASE ~modes'[m].gate /\ ~modes'[m].reconciled /\ modes'[m].incident \notin Held(m)
  <2>1. Reconciling(m)' /\ cleanup'.pc \in {"reading", "asking"} => cleanup'.incident # modes'[m].incident
    BY <1>4 DEF CleanupEnds, Held
  <2> QED
    BY <1>1, <1>4, <2>1, PhaseBecomes DEF Reconciling
<1>5. CASE /\ ~modes'[m].gate /\ ~modes'[m].reconciled /\ ~modes[m].gate
           /\ modes'[m].incident = modes[m].incident
  <2>1. CASE Reconciling(m)' /\ cleanup'.pc \in {"reading", "asking"}
    <3>1. cleanup' = cleanup /\ Reconciling(m)
      BY <1>5, <2>1 DEF CleanupEnds, Reconciling
    <3> QED
      BY <1>1, <1>5, <2>1, <3>1, PhaseIs, PhaseBecomes
  <2>2. CASE ~(Reconciling(m)' /\ cleanup'.pc \in {"reading", "asking"})
    BY <1>1, <1>5, <2>2, PhaseBecomes
  <2> QED
    BY <2>1, <2>2
<1> QED
  BY <1>3, <1>4, <1>5 DEF ModesFall

\* Closing, at whatever version, makes modes fall.
LEMMA ClosedFall ==
  ASSUME \A m \in Brokered : \/ modes'[m] = modes[m]
                             \/ \E v : ClosedAs(modes'[m], m, v)
  PROVE  ModesFall
BY DEF ClosedAs, ModesFall

LEMMA SomeCloseFall ==
  ASSUME SomeClose
  PROVE  ModesFall
BY ClosedFall, ModesAssumption DEF SomeClose

\* The steps that only close modes, end reconciliations and end submissions.
LEMMA QuietSteps ==
  ASSUME IInv,
         \/ SyncSend \/ DashboardAnswers \/ SyncAccept \/ SyncSaveFails
         \/ SyncFail \/ SyncFailSaved \/ SyncFailSaveFails
         \/ WatchdogStep \/ OperatorStep \/ Restart \/ Tick \/ UNCHANGED vars
         \/ CleanupSaved \/ CleanupSaveFails
  PROVE  Phases!Close
<1> USE DEF provider, tasks, external
<1>0. TypeOK /\ modes \in [Mode -> ModeRecs] /\ Brokered \subseteq Mode
  BY ModesAssumption DEF IInv, TypeOK
<1>1. UNCHANGED modes => ModesFall
  BY DEF ModesFall
<1>2. UNCHANGED req => SendsEnd
  BY DEF SendsEnd
<1>3. UNCHANGED cleanup => CleanupEnds
  BY DEF CleanupEnds
<1>4. (PersistFails => ModesFall) /\ (Expire => ModesFall)
  BY <1>0, PersistFailsFacts, ExpireFacts, SomeCloseFall
<1>5. CASE \/ SyncSend \/ DashboardAnswers \/ SyncFailSaved \/ Tick \/ OperatorStep
           \/ UNCHANGED vars \/ WatchdogSaved
  BY <1>1, <1>2, <1>3, <1>5, FallCloses DEF SyncSend, DashboardAnswers, SyncFailSaved, Tick, OperatorStep,
     Stop, Resume, Configure, WatchdogSaved, vars
<1>6. CASE SyncAccept
  <2> DEFINE a == sync.answer
  <2>1. a \in Dashboard /\ UNCHANGED <<req, cleanup>> /\ modes' = [m \in Mode |-> Installed(a, m)]
    BY <1>6 DEF SyncAccept, IInv, TypeOK, SyncTasks
  <2>2. ModesFall
    BY <1>0, <2>1, InstalledFacts, ClosedFall
  <2> QED
    BY <1>2, <1>3, <2>1, <2>2, FallCloses
<1>7. CASE SyncSaveFails \/ SyncFailSaveFails \/ WatchdogSaveFails \/ WatchdogExpires
  BY <1>2, <1>3, <1>4, <1>7, FallCloses DEF SyncSaveFails, SyncFailSaveFails, WatchdogSaveFails, WatchdogExpires
<1>8. CASE SyncFail
  <2>1. ModesFall
    BY <1>0, <1>1, <1>8, CloseAllFacts, SomeCloseFall DEF SyncFail, Reasons
  <2> QED
    BY <1>2, <1>3, <1>8, <2>1, FallCloses DEF SyncFail
<1>9. CASE Restart
  <2>1. ModesFall
    <3>1. \A m \in Brokered : /\ ~modes'[m].gate /\ ~modes'[m].reconciled
                              /\ modes'[m].incident = Fresh(m)
      BY <1>0, <1>9 DEF Restart
    <3> QED
      BY <1>0, <3>1, FreshIsNew DEF ModesFall
  <2>2. SendsEnd
    <3>1. \A r \in Request : (req'[r] = req[r] /\ req[r].pc = "holding") \/ req'[r].pc = "idle"
      BY <1>9 DEF Restart, NoContext
    <3> QED
      BY <3>1 DEF SendsEnd
  <2>3. CleanupEnds
    BY <1>9 DEF Restart, Resting, CleanupEnds
  <2> QED
    BY <2>1, <2>2, <2>3, FallCloses
<1>10. CASE CleanupSaved
  <2>1. CleanupEnds
    BY <1>10 DEF CleanupSaved, Resting, CleanupEnds
  <2> QED
    BY <1>1, <1>2, <1>10, <2>1, FallCloses DEF CleanupSaved
<1>11. CASE CleanupSaveFails
  <2>1. CleanupEnds
    BY <1>0, <1>11 DEF CleanupSaveFails, Resting, CleanupEnds, TypeOK, Cleanups
  <2> QED
    BY <1>2, <1>4, <1>11, <2>1, FallCloses DEF CleanupSaveFails
<1> QED
  BY <1>5, <1>6, <1>7, <1>8, <1>9, <1>10, <1>11 DEF WatchdogStep

\* The steps of the worker's requests but the admission: submissions end, and
\* modes may close.
LEMMA QuietRequests ==
  ASSUME IInv, NEW r \in Request, RequestStep(r), ~SendOrder(r)
  PROVE  Phases!Close
<1> USE DEF provider, tasks, external
<1>0. TypeOK /\ req \in [Request -> Contexts] /\ UNCHANGED cleanup
  BY DEF IInv, TypeOK, RequestStep, RegisterWorker, ReadState, Drop, AdmitExpires, StartSubmit, SendOrder, DiscardOrder,
       OrderAnswered, OrderFails, RebalanceDone, RebalanceFails, StrategyFailure, RequestSaved, RequestSaveFails
<1>1. ASSUME NEW rec, req' = [req EXCEPT ![r] = rec], rec.pc # "sent" PROVE SendsEnd
  BY <1>0, <1>1 DEF SendsEnd
<1>2. /\ NoContext.pc = "idle"
      /\ [NoContext EXCEPT !.pc = "saving"].pc = "saving"
      /\ \A pc : [req[r] EXCEPT !.pc = pc].pc = pc
  BY <1>0 DEF NoContext, Contexts
<1>3. SendsEnd
  <2>1. CASE RegisterWorker(r) \/ StartSubmit(r) \/ OrderAnswered(r)
    <3>1. PICK pc \in {"saving", "submitting", "holding"} : req' = [req EXCEPT ![r] = [req[r] EXCEPT !.pc = pc]]
      BY <1>0, <2>1 DEF RegisterWorker, StartSubmit, OrderAnswered
    <3> QED
      BY <1>1, <1>2, <3>1
  <2>2. ASSUME NEW m \in Mode, ReadState(r, m) PROVE SendsEnd
    <3> DEFINE taken == [pc |-> "holding", mode |-> m, session |-> session, boot |-> boot,
                         version |-> version, config |-> config, permit |-> permit[m]]
    <3>1. req' = [req EXCEPT ![r] = taken] /\ taken.pc # "sent"
      BY <2>2 DEF ReadState
    <3> HIDE DEF taken
    <3> QED
      BY <1>1, <3>1
  <2>3. CASE \/ Drop(r) \/ AdmitExpires(r) \/ DiscardOrder(r) \/ OrderFails(r) \/ RebalanceDone(r)
             \/ RebalanceFails(r) \/ StrategyFailure(r) \/ RequestSaved(r) \/ RequestSaveFails(r)
    BY <1>1, <1>2, <2>3 DEF Drop, AdmitExpires, DiscardOrder, OrderFails, RebalanceDone, RebalanceFails,
       StrategyFailure, RequestSaved, RequestSaveFails
  <2> QED
    BY <2>1, <2>2, <2>3 DEF RequestStep
<1>4. ModesFall
  <2>1. CASE UNCHANGED modes
    BY <2>1 DEF ModesFall
  <2>2. ASSUME NEW M, CloseAll(M, "forced", TRUE) \/ CloseAll(M, "database", FALSE) PROVE ModesFall
    BY <1>0, <2>2, CloseAllFacts, SomeCloseFall DEF Reasons
  <2>3. CASE RegisterWorker(r) \/ OrderFails(r) \/ RebalanceFails(r) \/ StrategyFailure(r)
    BY <2>2, <2>3 DEF RegisterWorker, OrderFails, RebalanceFails, StrategyFailure
  <2>4. CASE AdmitExpires(r) \/ RequestSaveFails(r)
    BY <1>0, <2>4, PersistFailsFacts, ExpireFacts, SomeCloseFall DEF AdmitExpires, RequestSaveFails
  <2> QED
    BY <2>1, <2>3, <2>4 DEF RequestStep, ReadState, Drop, StartSubmit, DiscardOrder,
       OrderAnswered, RebalanceDone, RequestSaved
<1> QED
  BY <1>0, <1>3, <1>4, FallCloses DEF CleanupEnds

\* One step of a reconciliation, or its beginning, for the mode it is of.
LEMMA ReconciliationSteps ==
  ASSUME IInv, CleanupStep, ~CleanupSaved, ~CleanupSaveFails
  PROVE  Phases!Close \/ \E m \in Brokered : Phases!Begin(m) \/ Phases!Check(m) \/ Phases!Settle(m)
<1> USE DEF provider, external
<1>0. /\ TypeOK /\ modes \in [Mode -> ModeRecs] /\ Brokered \subseteq Mode /\ cleanup \in Cleanups
      /\ cleanup.pc # "resting" => cleanup.mode \in Mode
  BY ModesAssumption DEF IInv, TypeOK
<1>1. UNCHANGED req
  BY DEF CleanupStep, ReconcileUnbrokered, ReconcileStart, ReconcileChecksLock, ReconcileFinds, ReconcileRaises
<1>2. SendsEnd /\ UNCHANGED [m \in Brokered |-> InFlight(m)]
  BY <1>1 DEF SendsEnd, InFlight
<1>3. cleanup.pc \in {"reading", "asking"} => ~modes[cleanup.mode].gate /\ ~modes[cleanup.mode].reconciled
  BY <1>0 DEF IInv, OpenGateSound, ReconcilingUnreconciled
<1>4. UNCHANGED modes => ModesFall
  BY DEF ModesFall
<1>5. ASSUME cleanup.pc \in {"reading", "asking"}, modes' = [modes EXCEPT ![cleanup.mode].reconciled = FALSE]
      PROVE  ModesFall
  <2> DEFINE m == cleanup.mode
  <2>1. \A q \in Mode \ {m} : modes'[q] = modes[q]
    BY <1>0, <1>5
  <2>2. m \in Mode /\ ~modes'[m].gate /\ ~modes'[m].reconciled /\ modes'[m].incident = modes[m].incident
    BY <1>0, <1>3, <1>5 DEF ModeRecs
  <2> QED
    BY <1>0, <1>3, <1>5, <2>1, <2>2 DEF ModesFall
<1>6. ASSUME NEW m \in Brokered, NEW to, PhaseOf(m)' = to,
             \A q \in Brokered \ {m} : PhaseOf(q)' = PhaseOf(q)
      PROVE  [q \in Brokered |-> PhaseOf(q)'] = [[q \in Brokered |-> PhaseOf(q)] EXCEPT ![m] = to]
  BY <1>6
<1>7. ASSUME NEW m \in Mode, ReconcileUnbrokered(m) PROVE Phases!Close
  <2>1. ModesFall
    BY <1>0, <1>7 DEF ReconcileUnbrokered, ModesFall
  <2>2. CleanupEnds
    BY <1>7 DEF ReconcileUnbrokered, Resting, CleanupEnds
  <2> QED
    BY <1>2, <2>1, <2>2, FallCloses
<1>8. ASSUME NEW m \in Mode, ReconcileStart(m) PROVE Phases!Begin(m) /\ m \in Brokered
  <2>1. /\ m \in Brokered /\ ~modes[m].gate /\ cleanup.pc = "resting"
        /\ modes' = [modes EXCEPT ![m].reconciled = FALSE]
        /\ cleanup' = [pc |-> "reading", mode |-> m, incident |-> modes[m].incident]
    BY <1>8 DEF ReconcileStart
  <2>2. ~modes'[m].gate /\ modes'[m].incident = modes[m].incident
    BY <1>0, <2>1 DEF ModeRecs
  <2>3. PhaseOf(m) \in {"closed", "reconciled"}
    BY <1>0, <2>1, PhaseIs
  <2>4. PhaseOf(m)' = "reconciling"
    BY <1>0, <2>1, <2>2, PhaseBecomes DEF Reconciling
  <2>5. ASSUME NEW q \in Brokered \ {m} PROVE PhaseOf(q)' = PhaseOf(q)
    <3>1. modes'[q] = modes[q] /\ cleanup.pc \notin {"reading", "asking"} /\ cleanup'.mode # q
      BY <1>0, <2>1
    <3>2. ~Reconciling(q)'
      BY <3>1 DEF Reconciling
    <3> QED
      BY <1>0, <3>1, <3>2, PhaseIs, PhaseBecomes
  <2> QED
    BY <1>2, <1>6, <2>1, <2>3, <2>4, <2>5 DEF Phases!Begin, InFlight
<1>9. CASE ReconcileChecksLock /\ OrderLocked(cleanup.mode)
  <2>1. CleanupEnds
    BY <1>9 DEF ReconcileChecksLock, Resting, CleanupEnds
  <2>2. ModesFall
    BY <1>5, <1>9 DEF ReconcileChecksLock
  <2> QED
    BY <1>2, <2>1, <2>2, FallCloses
<1>10. CASE ReconcileChecksLock /\ ~OrderLocked(cleanup.mode)
  <2>0. PICK m \in Mode : m = cleanup.mode
    BY <1>0, <1>10 DEF ReconcileChecksLock
  <2>1. /\ cleanup.pc = "reading" /\ cleanup'.pc = "asking" /\ cleanup'.mode = m
        /\ cleanup'.incident = cleanup.incident /\ UNCHANGED modes
    BY <1>0, <1>10, <2>0 DEF ReconcileChecksLock, Cleanups
  <2>2. ASSUME NEW q \in Mode, ~Reconciling(q) PROVE PhaseOf(q)' = PhaseOf(q)
    <3>1. ~Reconciling(q)' /\ modes'[q] = modes[q]
      BY <2>0, <2>1, <2>2 DEF Reconciling
    <3>2. CASE modes[q].gate
      BY <3>1, <3>2, PhaseIs, PhaseBecomes
    <3>3. CASE ~modes[q].gate
      <4>1. PhaseOf(q) = IF modes[q].reconciled THEN "reconciled" ELSE "closed"
        BY <2>2, <3>3, PhaseIs
      <4>2. PhaseOf(q)' = IF modes'[q].reconciled THEN "reconciled" ELSE "closed"
        BY <3>1, <3>3, PhaseBecomes
      <4> QED
        BY <3>1, <4>1, <4>2
    <3> QED
      BY <3>2, <3>3
  <2>3. CASE m \in Brokered /\ Reconciling(m)
    <3>1. PhaseOf(m) = "reconciling" /\ PhaseOf(m)' = "checked"
      <4>1. ~modes[m].gate /\ ~modes'[m].gate /\ Reconciling(m)'
        BY <1>3, <2>0, <2>1, <2>3 DEF Reconciling
      <4> QED
        BY <2>1, <2>3, <4>1, PhaseIs, PhaseBecomes
    <3>2. \A q \in Brokered \ {m} : PhaseOf(q)' = PhaseOf(q)
      BY <1>0, <2>0, <2>2 DEF Reconciling
    <3>3. ~InFlight(m)
      BY <1>10, <2>0 DEF OrderLocked, InFlight
    <3>4. Phases!Check(m)
      BY <1>2, <1>6, <2>3, <3>1, <3>2, <3>3 DEF Phases!Check, InFlight
    <3> QED
      BY <2>3, <3>4
  <2>4. CASE ~(m \in Brokered /\ Reconciling(m))
    <3>1. \A q \in Brokered : PhaseOf(q)' = PhaseOf(q)
      BY <1>0, <2>0, <2>2, <2>4 DEF Reconciling
    <3> QED
      BY <1>2, <3>1, ClosePhases
  <2> QED
    BY <2>3, <2>4
<1>11. ASSUME NEW outstanding \in BOOLEAN, ReconcileFinds(outstanding)
       PROVE  Phases!Close \/ \E m \in Brokered : Phases!Settle(m)
  <2>0. PICK m \in Mode : m = cleanup.mode
    BY <1>0, <1>11 DEF ReconcileFinds
  <2>1. /\ cleanup.pc = "asking" /\ cleanup'.pc = "saving"
        /\ modes' = IF modes[m].incident = cleanup.incident
                    THEN [modes EXCEPT ![m].reconciled = ~outstanding] ELSE modes
    BY <1>0, <1>11, <2>0 DEF ReconcileFinds, Cleanups
  <2>2. CleanupEnds
    BY <2>1 DEF CleanupEnds
  <2>3. CASE modes[m].incident # cleanup.incident \/ outstanding
    <3>1. ModesFall
      BY <1>4, <1>5, <2>0, <2>1, <2>3
    <3> QED
      BY <1>2, <2>2, <3>1, FallCloses
  <2>4. CASE modes[m].incident = cleanup.incident /\ ~outstanding /\ m \notin Brokered
    <3>1. ModesFall
      BY <1>0, <2>1, <2>4 DEF ModesFall
    <3> QED
      BY <1>2, <2>2, <3>1, FallCloses
  <2>5. CASE modes[m].incident = cleanup.incident /\ ~outstanding /\ m \in Brokered
    <3>1. modes'[m].reconciled /\ ~modes'[m].gate /\ ~modes[m].gate
      BY <1>0, <1>3, <2>0, <2>1, <2>5 DEF ModeRecs
    <3>2. PhaseOf(m) = "checked" /\ PhaseOf(m)' = "reconciled"
      BY <2>0, <2>1, <2>5, <3>1, PhaseIs, PhaseBecomes DEF Reconciling
    <3>3. ASSUME NEW q \in Brokered \ {m} PROVE PhaseOf(q)' = PhaseOf(q)
      <4>1. modes'[q] = modes[q] /\ ~Reconciling(q)
        BY <1>0, <2>0, <2>1 DEF Reconciling
      <4> QED
        BY <1>0, <2>1, <4>1, PhaseIs, PhaseBecomes
    <3>4. Phases!Settle(m)
      BY <1>2, <1>6, <2>5, <3>2, <3>3 DEF Phases!Settle, InFlight
    <3> QED
      BY <2>5, <3>4
  <2> QED
    BY <2>3, <2>4, <2>5
<1>12. CASE ReconcileRaises
  <2>1. CleanupEnds
    BY <1>0, <1>12 DEF ReconcileRaises, CleanupEnds, Cleanups
  <2>2. ModesFall
    BY <1>5, <1>12 DEF ReconcileRaises
  <2> QED
    BY <1>2, <2>1, <2>2, FallCloses
<1> QED
  BY <1>7, <1>8, <1>9, <1>10, <1>11, <1>12 DEF CleanupStep

\* Candidates open only reconciled.
LEMMA OpensReconciled ==
  ASSUME IInv, SyncOpen
  PROVE  Phases!Open
<1>1. UNCHANGED <<cleanup, req>> /\ modes \in [Mode -> ModeRecs] /\ Brokered \subseteq Mode
  BY ModesAssumption DEF SyncOpen, IInv, TypeOK
<1>2. ASSUME NEW m \in Brokered, PhaseOf(m)' # PhaseOf(m)
      PROVE  PhaseOf(m) = "reconciled" /\ PhaseOf(m)' = "open"
  <2>1. modes'[m] = IF Opens(m) THEN [modes[m] EXCEPT !.gate = TRUE, !.reason = None] ELSE modes[m]
    BY <1>1 DEF SyncOpen
  <2>2. CASE ~Opens(m)
    <3>1. PhaseOf(m)' = PhaseOf(m)
      <4>1. modes'[m] = modes[m] /\ cleanup' = cleanup
        BY <1>1, <2>1, <2>2
      <4> QED
        BY <1>1, <4>1, PhaseIs, PhaseBecomes DEF Reconciling
    <3> QED
      BY <1>2, <3>1
  <2>3. CASE Opens(m)
    <3>1. modes'[m].gate /\ modes[m].reconciled
      BY <1>1, <2>1, <2>3 DEF Opens, ModeRecs
    <3>2. PhaseOf(m)' = "open"
      BY <1>1, <3>1, PhaseBecomes
    <3>3. ~modes[m].gate
      BY <1>1, <1>2, <3>2, PhaseIs
    <3>4. ~(Reconciling(m) /\ cleanup.pc \in {"reading", "asking"})
      BY <1>1, <3>1 DEF Reconciling, IInv, ReconcilingUnreconciled
    <3> QED
      BY <1>1, <3>1, <3>2, <3>3, <3>4, PhaseIs
  <2> QED
    BY <2>2, <2>3
<1>3. [m \in Brokered |-> PhaseOf(m)'] \in [Brokered -> Phases!Phase]
  BY <1>1, PhaseBecomes
<1>4. UNCHANGED [m \in Brokered |-> InFlight(m)]
  BY <1>1 DEF InFlight
<1> QED
  BY <1>2, <1>3, <1>4 DEF Phases!Open, InFlight

\* The admitted order is the only one of its open mode.
LEMMA SendsAlone ==
  ASSUME IInv, OneSubmission, NEW r \in Request, SendOrder(r)
  PROVE  \E m \in Brokered : Phases!Send(m)
<1>1. PICK m \in Brokered : m = req[r].mode
  BY DEF SendOrder, IInv, ContextsBrokered, Live
<1>2. /\ req[r].pc = "submitting" /\ modes[m].gate /\ UNCHANGED <<modes, cleanup>> /\ m \in Mode
      /\ req' = [req EXCEPT ![r].pc = "sent"] /\ req \in [Request -> Contexts]
  BY <1>1, ModesAssumption DEF SendOrder, Admissible, IInv, TypeOK, provider, tasks
<1>3. PhaseOf(m) = "open" /\ \A q \in Brokered : PhaseOf(q)' = PhaseOf(q)
  <2>1. \A q \in Brokered : PhaseOf(q)' = PhaseOf(q)
    <3> SUFFICES ASSUME NEW q \in Brokered PROVE PhaseOf(q)' = PhaseOf(q)
      OBVIOUS
    <3>1. modes'[q] = modes[q] /\ cleanup' = cleanup /\ q \in Mode
      BY <1>2, ModesAssumption
    <3> QED
      BY <3>1, PhaseIs, PhaseBecomes DEF Reconciling
  <2> QED
    BY <1>2, <1>1, <2>1, PhaseIs
<1>4. ~InFlight(m)
  BY <1>2, <1>1 DEF OneSubmission, Inside, InFlight
<1>5. req'[r].pc = "sent" /\ req'[r].mode = m /\ \A q \in Request \ {r} : req'[q] = req[q]
  BY <1>2, <1>1 DEF Contexts
<1>6. InFlight(m)' /\ \A q \in Brokered \ {m} : InFlight(q)' = InFlight(q)
  <2>1. InFlight(m)'
    BY <1>5 DEF InFlight
  <2>2. ASSUME NEW q \in Brokered \ {m} PROVE InFlight(q)' = InFlight(q)
    <3>1. InFlight(q)' <=> InFlight(q)
      BY <1>1, <1>5 DEF InFlight
    <3> QED
      BY <3>1 DEF InFlight
  <2> QED
    BY <2>1, <2>2
<1>7. [q \in Brokered |-> InFlight(q)'] = [[q \in Brokered |-> InFlight(q)] EXCEPT ![m] = TRUE]
  <2> DEFINE before == [q \in Brokered |-> InFlight(q)]
             after == [q \in Brokered |-> InFlight(q)']
  <2>1. InFlight(m)' = TRUE
    BY <1>6 DEF InFlight
  <2>2. after[m] = TRUE /\ \A q \in Brokered \ {m} : after[q] = before[q]
    BY <1>1, <1>6, <2>1
  <2>3. DOMAIN before = Brokered /\ DOMAIN after = Brokered /\ after = [q \in Brokered |-> after[q]]
        /\ before = [q \in Brokered |-> before[q]]
    OBVIOUS
  <2> HIDE DEF before, after
  <2>4. after = [before EXCEPT ![m] = TRUE]
    BY <2>2, <2>3
  <2> QED
    BY <2>4 DEF before, after
<1>8. [q \in Brokered |-> PhaseOf(q)'] = [q \in Brokered |-> PhaseOf(q)]
  BY <1>3
<1> QED
  BY <1>1, <1>3, <1>4, <1>7, <1>8 DEF Phases!Send, InFlight

\* A mode opens only after a reconciliation of its present incident that saw no
\* submission in flight and that nothing has undone; every submission is of an
\* open mode and alone (sync_once, reconcile, close, submit).
THEOREM GatesOpenSettled == Spec => GateOpensSettled
<1>1. Init => ResumesPast /\ OneSubmission
  BY RefinementInit
<1>2. Init => Phases!Init
  <2> SUFFICES ASSUME Init PROVE Phases!Init
    OBVIOUS
  <2>1. \A m \in Brokered : PhaseOf(m) = "closed" /\ ~InFlight(m)
    <3> SUFFICES ASSUME NEW m \in Brokered PROVE PhaseOf(m) = "closed" /\ ~InFlight(m)
      OBVIOUS
    <3>1. m \in Mode /\ ~modes[m].gate /\ ~modes[m].reconciled /\ cleanup.pc = "resting"
          /\ \A r \in Request : req[r].pc = "idle"
      BY ModesAssumption DEF Init, Resting, NoContext
    <3> QED
      BY <3>1, PhaseIs DEF InFlight
  <2> QED
    BY <2>1 DEF Phases!Init, InFlight
<1>3. IInv /\ ResumesPast /\ OneSubmission /\ [Next]_vars => ResumesPast' /\ OneSubmission'
  BY RefinementStep
<1>4. IInv /\ OneSubmission /\ [Next]_vars => [Phases!Next]_(Phases!vars)
  <2> SUFFICES ASSUME IInv, OneSubmission, [Next]_vars PROVE Phases!Next
    OBVIOUS
  <2> USE DEF Phases!Next
  <2>1. CASE SyncOpen
    BY <2>1, OpensReconciled
  <2>2. CASE CleanupStep
    BY <2>2, QuietSteps, ReconciliationSteps
  <2>3. ASSUME NEW r \in Request, RequestStep(r) PROVE Phases!Next
    BY <2>3, SendsAlone, QuietRequests
  <2> QED
    BY <2>1, <2>2, <2>3, QuietSteps DEF Next, SyncStep
<1> QED
  BY <1>1, <1>2, <1>3, <1>4, Inductive, PTL DEF Spec, GateOpensSettled, Phases!Spec

=============================================================================
