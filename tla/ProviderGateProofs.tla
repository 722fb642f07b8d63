------------------------- MODULE ProviderGateProofs -------------------------
(***************************************************************************)
(* The safety properties of ProviderGate, proved for every set of modes    *)
(* and requests, every timing and every number of operator actions.        *)
(***************************************************************************)
EXTENDS ProviderGate, FiniteSetTheorems, TLAPS

\* The parts of the inductive invariant.

Live(r) == req[r].pc \in {"holding", "submitting", "sent"}

\* An incident begins at a version and an operator action of the past.
IncidentsPast ==
  \A m \in Mode : modes[m].since <= version /\ modes[m].closedAt <= dash.version

\* A mode is not reconciled while its reconciliation runs.
ReconcilingUnreconciled ==
  cleanup.pc \in {"reading", "asking"} => ~modes[cleanup.mode].reconciled

\* A candidate whose incident still stands may open: its mode is enabled, its
\* Resume is newer than the incident, and a worker is registered.
CandidatesSound ==
  \A m \in Mode : sync.candidates[m].incident = modes[m].incident =>
    /\ modes[m].since < version
    /\ m \in config \cap Brokered
    /\ session # None
    /\ sync.candidates[m].resume > modes[m].closedAt

\* Whoever names the present incident in a Resume was told of it first.
ResumesAfterIncident ==
  \A m \in Mode :
    /\ dash.desired[m].incident = modes[m].incident =>
         dash.desired[m].resume > modes[m].closedAt
    /\ sync.answer # None /\ sync.answer.desired[m].incident = modes[m].incident =>
         sync.answer.desired[m].resume > modes[m].closedAt

\* A context of this boot was read at a version that its mode's incident has
\* reached since, or its gate is still open under the same permit.
ContextsSound ==
  \A r \in Request : Live(r) /\ req[r].boot = boot =>
    /\ req[r].version <= version
    /\ \/ req[r].version <= modes[req[r].mode].since
       \/ modes[req[r].mode].gate /\ req[r].permit = permit[req[r].mode]

\* With an order on its way, a closed mode is neither reconciled nor past the
\* lock check of its reconciliation.
SentUnreconciled ==
  \A r \in Request : req[r].pc = "sent" /\ ~modes[req[r].mode].gate =>
    /\ ~modes[req[r].mode].reconciled
    /\ ~(cleanup.pc = "asking" /\ cleanup.mode = req[r].mode)

\* Contexts are of modes that have a broker.
ContextsBrokered == \A r \in Request : Live(r) => req[r].mode \in Brokered

\* An answer from before the Stop of a mode is as old as the Stop, or late.
AnswerAge ==
  sync.answer # None =>
    /\ sync.pc = "sent"
    /\ \A m \in Mode :
         sync.answer.desired[m].run /\ ~dash.desired[m].run =>
           stopAge[m] <= sync.age \/ sync.age = Timeout

\* After a Stop the lease of an open or opening gate ends in time.
LeaseEnds ==
  \A m \in Mode :
    ~dash.desired[m].run /\ (modes[m].gate \/ sync.candidates[m].incident # None) =>
      lease + stopAge[m] <= MaxTTL

IInv ==
  /\ TypeOK
  /\ OpenGateSound
  /\ IncidentsPast
  /\ ReconcilingUnreconciled
  /\ CandidatesSound
  /\ ResumesAfterIncident
  /\ ContextsSound
  /\ SentUnreconciled
  /\ ContextsBrokered
  /\ AnswerAge
  /\ LeaseEnds

-----------------------------------------------------------------------------
(* Fresh ids.                                                              *)

\* A finite set of held ids leaves an id to issue: uuid4 never fails.
LEMMA UnheldIsNew ==
  ASSUME NEW H, IsFiniteSet(H)
  PROVE  Unheld(H) \in Nat /\ Unheld(H) \notin H
<1> DEFINE n == Cardinality(H)
<1>1. n \in Nat
  BY FS_CardinalityType
<1>2. IsFiniteSet(0..n) /\ Cardinality(0..n) = n + 1
  BY <1>1, FS_Interval
<1>3. \E i \in 0..n : i \notin H
  <2> SUFFICES ASSUME 0..n \subseteq H PROVE FALSE
    OBVIOUS
  <2>1. Cardinality(0..n) <= n
    BY FS_Subset
  <2> QED
    BY <1>1, <1>2, <2>1
<1> QED
  BY <1>1, <1>3 DEF Unheld

\* What the requests hold of one kind of id is a finite set.
LEMMA RequestIdsFinite ==
  /\ IsFiniteSet({req[r].boot : r \in Request})
  /\ IsFiniteSet({req[r].session : r \in Request})
<1>1. ASSUME NEW f, f \in [Request -> {f[r] : r \in Request}]
      PROVE  IsFiniteSet({f[r] : r \in Request})
  <2>1. f \in Surjection(Request, {f[r] : r \in Request})
    BY <1>1 DEF Surjection
  <2> QED
    BY <2>1, FS_Surjection, ModesAssumption
<1> DEFINE boots == [r \in Request |-> req[r].boot]
           sessions == [r \in Request |-> req[r].session]
<1>2. IsFiniteSet({boots[r] : r \in Request}) /\ IsFiniteSet({sessions[r] : r \in Request})
  BY <1>1
<1>3. /\ {boots[r] : r \in Request} = {req[r].boot : r \in Request}
      /\ {sessions[r] : r \in Request} = {req[r].session : r \in Request}
  OBVIOUS
<1> QED
  BY <1>2, <1>3

\* A new incident is a number that no holder of an incident of m has.
LEMMA FreshIsNew ==
  ASSUME NEW m \in Mode
  PROVE  Fresh(m) \in Nat /\ Fresh(m) \notin Held(m)
<1>1. IsFiniteSet(Held(m))
  <2> DEFINE S1 == {modes[m].incident, seen[m], dash.desired[m].incident}
             S2 == {sync.report[m], sync.candidates[m].incident, cleanup.incident}
             S3 == IF sync.answer = None THEN {} ELSE {sync.answer.desired[m].incident}
  <2>1. ASSUME NEW a, NEW b, NEW c PROVE IsFiniteSet({a, b, c})
    <3>1. IsFiniteSet(({} \cup {a}) \cup {b}) 
      BY FS_EmptySet, FS_AddElement
    <3>2. IsFiniteSet((({} \cup {a}) \cup {b}) \cup {c})
      BY <3>1, FS_AddElement
    <3>3. (({} \cup {a}) \cup {b}) \cup {c} = {a, b, c}
      OBVIOUS
    <3> QED
      BY <3>2, <3>3
  <2>2. IsFiniteSet(S1) /\ IsFiniteSet(S2)
    BY <2>1
  <2>3. IsFiniteSet(S3)
    BY FS_EmptySet, FS_Singleton
  <2>4. Held(m) = (S1 \cup S2) \cup S3
    BY DEF Held
  <2> HIDE DEF S1, S2, S3
  <2> QED
    BY <2>2, <2>3, <2>4, FS_Union
<1> QED
  BY <1>1, UnheldIsNew DEF Fresh

\* A new process has a boot id that no context carries.
LEMMA NewBoot ==
  ASSUME Restart
  PROVE  boot' \in Nat /\ boot' # boot /\ \A r \in Request : req[r].boot # boot'
<1> DEFINE boots == {req[r].boot : r \in Request}
<1>1. IsFiniteSet(boots)
  BY RequestIdsFinite
<1>2. IsFiniteSet(boots \cup {boot})
  <2> HIDE DEF boots
  <2> QED
    BY <1>1, FS_AddElement
<1>3. {boot} \cup boots = boots \cup {boot}
  OBVIOUS
<1>4. boot' = Unheld(boots \cup {boot})
  BY <1>3 DEF Restart
<1>5. boot' \in Nat /\ boot' \notin boots \cup {boot}
  BY <1>2, <1>4, UnheldIsNew
<1> QED
  BY <1>5

-----------------------------------------------------------------------------
(* Closing.                                                                *)

\* What Provider.close may make of mode m: it ends closed and unreconciled,
\* either in a new incident of version v or in the one a closed mode had.
ClosedAs(rec, m, v) ==
  /\ rec \in ModeRecs
  /\ ~rec.gate
  /\ ~rec.reconciled
  /\ \/ /\ rec.incident \notin Held(m)
        /\ rec.since = v
        /\ rec.closedAt = dash.version
     \/ /\ ~modes[m].gate
        /\ rec.incident = modes[m].incident
        /\ rec.since = modes[m].since
        /\ rec.closedAt = modes[m].closedAt

\* Provider.close does that, whatever its reason.
LEMMA CloseFacts ==
  ASSUME TypeOK, NEW m \in Mode, NEW reason \in Reasons, NEW force \in BOOLEAN, NEW v \in Nat
  PROVE  ClosedAs(Close(m, reason, force, v), m, v)
<1>1. modes[m] \in ModeRecs /\ dash.version \in Nat
  BY DEF TypeOK, Dashboard
<1>2. CASE modes[m].gate \/ force \/ modes[m].reason # reason
  BY <1>1, <1>2, FreshIsNew DEF Close, ClosedAs, ModeRecs, Ids, Reasons
<1>3. CASE ~(modes[m].gate \/ force \/ modes[m].reason # reason)
  BY <1>1, <1>3 DEF Close, ClosedAs, ModeRecs
<1> QED
  BY <1>2, <1>3

\* Some modes close at the present version, the others stay as they are.
SomeClose == 
  /\ modes' \in [Mode -> ModeRecs]
  /\ \A m \in Mode : modes'[m] = modes[m] \/ ClosedAs(modes'[m], m, version)

\* What closing a set of modes does.
LEMMA CloseAllFacts ==
  ASSUME TypeOK, NEW M, NEW reason \in Reasons, NEW force \in BOOLEAN,
         CloseAll(M, reason, force)
  PROVE  /\ SomeClose
         /\ \A m \in M \cap Mode : ClosedAs(modes'[m], m, version)
<1>1. \A m \in Mode : ClosedAs(Close(m, reason, force, version), m, version)
  BY CloseFacts DEF TypeOK
<1>2. \A m \in Mode : modes'[m] = IF m \in M THEN Close(m, reason, force, version) ELSE modes[m]
  BY DEF CloseAll
<1>3. \A m \in Mode : modes'[m] \in ModeRecs
  BY <1>1, <1>2 DEF ClosedAs, TypeOK
<1>4. modes' \in [Mode -> ModeRecs]
  BY <1>3 DEF CloseAll
<1> QED
  BY <1>1, <1>2, <1>4 DEF SomeClose

\* What a handler does besides closing: it may forget a sync, a cleanup or a
\* context, and move a context along; an order goes out of an open mode only.
ReqMoves ==
  /\ req' \in [Request -> Contexts]
  /\ \A r \in Request :
       \/ req'[r] = req[r]
       \/ ~Live(r)'
       \/ /\ Live(r) /\ Live(r)'
          /\ req'[r] = [req[r] EXCEPT !.pc = req'[r].pc]
          /\ req'[r].pc = "sent" => modes'[req[r].mode].gate

TasksMove ==
  /\ sync' \in SyncTasks
  /\ \/ sync' = sync
     \/ sync'.answer = None /\ \A m \in Mode : sync'.candidates[m].incident = None
  /\ watchdog' \in {"watching", "saving"}
  /\ cleanup' \in Cleanups
  /\ cleanup'.pc # "resting" => cleanup'.mode \in Mode
  /\ cleanup' = cleanup \/ cleanup'.pc \notin {"reading", "asking"}

\* A step that only closes modes and moves tasks and requests along keeps the
\* invariant.
LEMMA ClosingStep ==
  ASSUME IInv, SomeClose, ReqMoves, TasksMove,
         healthy' \in BOOLEAN,
         healthy' = healthy \/ \A m \in Mode : ~modes'[m].gate,
         session' \in MaybeId,
         session' = session \/ session' # None,
         UNCHANGED <<lease, version, revision, config, boot, external, permit, stopAge>>
  PROVE  IInv'
<1> USE DEF IInv, external
<1>1. TypeOK'
  <2>1. \A r \in Request : Live(r)' => req'[r].mode \in Mode
    BY DEF TypeOK, ReqMoves, Live, Contexts
  <2> QED
    BY <2>1 DEF TypeOK, SomeClose, ReqMoves, TasksMove, Live
<1>2. ASSUME NEW m \in Mode
      PROVE  \/ modes'[m] = modes[m]
             \/ /\ ~modes'[m].gate /\ ~modes'[m].reconciled
                /\ \/ modes'[m].incident \notin Held(m) /\ modes'[m].since = version
                      /\ modes'[m].closedAt = dash.version
                   \/ ~modes[m].gate /\ modes'[m].incident = modes[m].incident
                      /\ modes'[m].since = modes[m].since
                      /\ modes'[m].closedAt = modes[m].closedAt
  BY DEF SomeClose, ClosedAs
<1>3. OpenGateSound'
  BY <1>2 DEF OpenGateSound, TasksMove, TypeOK
<1>4. IncidentsPast'
  BY <1>2 DEF IncidentsPast, TypeOK, Dashboard
<1>5. ReconcilingUnreconciled'
  BY <1>2 DEF ReconcilingUnreconciled, TasksMove, TypeOK
<1>6. CandidatesSound'
  <2> SUFFICES ASSUME NEW m \in Mode, sync'.candidates[m].incident = modes'[m].incident
               PROVE  /\ modes'[m].since < version
                      /\ m \in config \cap Brokered
                      /\ session' # None
                      /\ sync'.candidates[m].resume > modes'[m].closedAt
    BY DEF CandidatesSound
  <2>1. modes'[m].incident # None
    BY <1>1, NoneAssumption DEF TypeOK, ModeRecs, Ids
  <2>2. sync' = sync
    BY <2>1 DEF TasksMove
  <2>3. sync.candidates[m].incident \in Held(m)
    BY DEF Held
  <2> QED
    BY <1>2, <2>2, <2>3 DEF CandidatesSound
<1>7. ResumesAfterIncident'
  <2> SUFFICES ASSUME NEW m \in Mode
               PROVE  /\ dash.desired[m].incident = modes'[m].incident =>
                           dash.desired[m].resume > modes'[m].closedAt
                      /\ sync'.answer # None /\ sync'.answer.desired[m].incident = modes'[m].incident
                           => sync'.answer.desired[m].resume > modes'[m].closedAt
    BY DEF ResumesAfterIncident
  <2>1. /\ dash.desired[m].incident \in Held(m)
        /\ sync.answer # None => sync.answer.desired[m].incident \in Held(m)
    BY DEF Held
  <2> QED
    BY <1>2, <2>1 DEF ResumesAfterIncident, TasksMove
<1>8. ContextsSound'
  <2> SUFFICES ASSUME NEW r \in Request, Live(r)', req'[r].boot = boot
               PROVE  /\ req'[r].version <= version
                      /\ \/ req'[r].version <= modes'[req'[r].mode].since
                         \/ modes'[req'[r].mode].gate /\ req'[r].permit = permit[req'[r].mode]
    BY DEF ContextsSound
  <2>1. /\ Live(r) /\ req'[r].mode = req[r].mode /\ req'[r].version = req[r].version
        /\ req'[r].permit = req[r].permit /\ req'[r].boot = req[r].boot
    BY DEF ReqMoves, TypeOK, Contexts, Live
  <2>2. req[r].mode \in Mode
    BY <2>1 DEF TypeOK, Live
  <2> QED
    BY <1>2, <2>1, <2>2 DEF ContextsSound
<1>9. SentUnreconciled'
  <2> SUFFICES ASSUME NEW r \in Request, req'[r].pc = "sent", ~modes'[req'[r].mode].gate
               PROVE  /\ ~modes'[req'[r].mode].reconciled
                      /\ ~(cleanup'.pc = "asking" /\ cleanup'.mode = req'[r].mode)
    BY DEF SentUnreconciled
  <2>1. req'[r] = req[r] /\ req[r].mode \in Mode
    BY DEF ReqMoves, TypeOK, Contexts, Live
  <2> QED
    BY <1>2, <2>1 DEF SentUnreconciled, OpenGateSound, TasksMove
<1>10. ContextsBrokered'
  <2> SUFFICES ASSUME NEW r \in Request, Live(r)' PROVE req'[r].mode \in Brokered
    BY DEF ContextsBrokered
  <2>1. Live(r) /\ req'[r].mode = req[r].mode
    BY DEF ReqMoves, TypeOK, Contexts, Live
  <2> QED
    BY <2>1 DEF ContextsBrokered
<1>11. AnswerAge'
  BY DEF AnswerAge, TasksMove
<1>12. LeaseEnds'
  BY <1>2 DEF LeaseEnds, TasksMove
<1> QED
  BY <1>1, <1>3, <1>4, <1>5, <1>6, <1>7, <1>8, <1>9, <1>10, <1>11, <1>12

-----------------------------------------------------------------------------
(* Every step keeps the invariant.                                         *)

\* The invariant holds before start-up.
LEMMA InitInv == Init => IInv
<1> SUFFICES ASSUME Init PROVE IInv
  OBVIOUS
<1>1. TypeOK
  <2>1. Paused(0) \in Desired
    BY DEF Paused, Desired, MaybeId, Ids
  <2>0. Unassigned \in Configs
    BY DEF Configs
  <2>2. dash \in Dashboard
    <3>1. [m \in Mode |-> Paused(0)] \in [Mode -> Desired]
      BY <2>1
    <3> QED
      BY <2>0, <3>1 DEF Init, Dashboard
  <2>3. sync \in SyncTasks
    BY TimingAssumption DEF Init, Idle, NoResume, SyncTasks, Resumes, MaybeId
  <2>4. req \in [Request -> Contexts]
    <3>1. NoContext \in Contexts
      BY <2>0 DEF NoContext, Contexts, MaybeId, Ids
    <3> QED
      BY <3>1 DEF Init
  <2>5. modes \in [Mode -> ModeRecs]
    BY DEF Init, ModeRecs, Reasons, Ids
  <2>6. cleanup \in Cleanups
    BY DEF Init, Resting, Cleanups, MaybeId
  <2> QED
    <3>1. /\ config \in Configs
          /\ \A r \in Request : req[r].pc \notin {"holding", "submitting", "sent"}
          /\ cleanup.pc = "resting"
      BY <2>0 DEF Init, NoContext, Resting
    <3>2. /\ lease \in 0..MaxTTL /\ stopAge \in [Mode -> 0..MaxTTL]
          /\ permit \in [Mode -> Nat] /\ seen \in [Mode -> MaybeId]
      BY TimingAssumption DEF Init, MaybeId
    <3>3. /\ healthy \in BOOLEAN /\ version \in Nat /\ revision \in Nat /\ boot \in Ids
          /\ session \in MaybeId /\ watchdog \in {"watching", "saving"}
      BY DEF Init, Ids, MaybeId
    <3> QED
      BY <2>2, <2>3, <2>4, <2>5, <2>6, <3>1, <3>2, <3>3 DEF TypeOK
<1>2. /\ OpenGateSound /\ IncidentsPast /\ ReconcilingUnreconciled
      /\ ContextsSound /\ SentUnreconciled /\ ContextsBrokered
  BY DEF Init, OpenGateSound, IncidentsPast, ReconcilingUnreconciled, ContextsSound,
         SentUnreconciled, ContextsBrokered, Live, Resting, NoContext
<1>3. CandidatesSound /\ ResumesAfterIncident
  BY NoneAssumption DEF Init, CandidatesSound, ResumesAfterIncident, Idle, NoResume, Paused
<1>4. AnswerAge /\ LeaseEnds
  BY DEF Init, AnswerAge, LeaseEnds, Idle, NoResume
<1> QED
  BY <1>1, <1>2, <1>3, <1>4 DEF IInv

\* A failed save closes every gate and leaves the permission as it is.
LEMMA PersistFailsFacts ==
  ASSUME TypeOK, PersistFails
  PROVE  /\ SomeClose
         /\ \A m \in Mode : ~modes'[m].gate
         /\ healthy' = FALSE
         /\ UNCHANGED <<lease, version, revision, config, boot, session>>
<1>1. CloseAll(Mode, "database", FALSE)
  BY DEF PersistFails
<1> QED
  BY <1>1, CloseAllFacts DEF PersistFails, ClosedAs, Reasons

\* So does the end of the lease.
LEMMA ExpireFacts ==
  ASSUME TypeOK, Expire
  PROVE  /\ SomeClose
         /\ \A m \in Mode : ~modes'[m].gate
         /\ healthy' = FALSE
         /\ UNCHANGED <<lease, version, revision, config, boot, session>>
<1>1. CloseAll(Mode, "expired", FALSE)
  BY DEF Expire
<1> QED
  BY <1>1, CloseAllFacts DEF Expire, ClosedAs, Reasons

\* No provider variable changes: no mode closes.
LEMMA NoneClose ==
  ASSUME TypeOK, UNCHANGED modes
  PROVE  SomeClose
BY DEF TypeOK, SomeClose

\* The tasks stay, or rest.
LEMMA TasksFacts ==
  ASSUME TypeOK,
         sync' = sync \/ sync' = Idle \/ sync' = [Idle EXCEPT !.pc = "failing"],
         watchdog' \in {"watching", "saving"},
         cleanup' = cleanup \/ cleanup' = Resting
           \/ (cleanup.pc = "saving" /\ cleanup' = [cleanup EXCEPT !.pc = "retrying"])
  PROVE  TasksMove
<1>1. Idle \in SyncTasks /\ [Idle EXCEPT !.pc = "failing"] \in SyncTasks
  BY TimingAssumption DEF Idle, NoResume, SyncTasks, Resumes, MaybeId
<1>2. Resting \in Cleanups
  BY DEF Resting, Cleanups, MaybeId
<1>3. cleanup.pc = "saving" /\ cleanup' = [cleanup EXCEPT !.pc = "retrying"]
        => cleanup' \in Cleanups /\ cleanup'.pc = "retrying" /\ cleanup'.mode = cleanup.mode
  BY DEF TypeOK, Cleanups
<1> QED
  BY <1>1, <1>2, <1>3 DEF TasksMove, TypeOK, Idle, NoResume, Resting

\* A request forgets its context, or moves along with it.
LEMMA ReqFacts ==
  ASSUME TypeOK, NEW r \in Request, NEW rec,
         req' = [req EXCEPT ![r] = rec],
         \/ rec = NoContext \/ rec = [NoContext EXCEPT !.pc = "saving"]
         \/ ~Live(r) /\ rec = [req[r] EXCEPT !.pc = "saving"]
         \/ /\ Live(r)
            /\ rec \in {[req[r] EXCEPT !.pc = "holding"], [req[r] EXCEPT !.pc = "submitting"]}
         \/ /\ Live(r) /\ rec = [req[r] EXCEPT !.pc = "sent"]
            /\ modes'[req[r].mode].gate
  PROVE  ReqMoves
<1>1. NoContext \in Contexts /\ [NoContext EXCEPT !.pc = "saving"] \in Contexts
  BY DEF NoContext, Contexts, MaybeId, Ids, Configs, Unassigned
<1>2. rec \in Contexts
  BY <1>1 DEF TypeOK, Contexts
<1>3. req' \in [Request -> Contexts]
  BY <1>2 DEF TypeOK
<1>4. req'[r] = rec /\ \A q \in Request \ {r} : req'[q] = req[q]
  BY DEF TypeOK
<1>5. req[r] \in Contexts
  BY DEF TypeOK
<1>6. ASSUME NEW p \in {"holding", "submitting", "sent"}, rec = [req[r] EXCEPT !.pc = p]
      PROVE  rec = [req[r] EXCEPT !.pc = rec.pc] /\ rec.pc = p
  BY <1>5, <1>6 DEF Contexts
<1>7. CASE rec.pc \notin {"holding", "submitting", "sent"}
  BY <1>3, <1>4, <1>7 DEF ReqMoves, Live
<1>8. CASE rec.pc \in {"holding", "submitting", "sent"}
  <2>1. /\ Live(r) /\ rec = [req[r] EXCEPT !.pc = rec.pc]
        /\ rec.pc = "sent" => modes'[req[r].mode].gate
    BY <1>5, <1>6, <1>8 DEF NoContext, Contexts
  <2>2. Live(r)'
    BY <1>4, <1>8 DEF Live
  <2> QED
    BY <1>3, <1>4, <2>1, <2>2 DEF ReqMoves
<1> QED
  BY <1>7, <1>8

LEMMA NoReqMoves ==
  ASSUME TypeOK, UNCHANGED req
  PROVE  ReqMoves
BY DEF TypeOK, ReqMoves

\* Steps of the sync, the watchdog and the cleanup loop that only close gates.
LEMMA TaskClosings ==
  ASSUME IInv,
         \/ SyncSaveFails \/ SyncFail \/ SyncFailSaved \/ SyncFailSaveFails
         \/ WatchdogStep
         \/ CleanupSaved \/ CleanupSaveFails
  PROVE  IInv'
<1> USE DEF IInv
<1>1. TypeOK /\ healthy \in BOOLEAN /\ session \in MaybeId
      /\ watchdog \in {"watching", "saving"}
  BY DEF TypeOK
<1>2. CASE SyncSaveFails
  BY <1>1, <1>2, PersistFailsFacts, NoReqMoves, TasksFacts, ClosingStep DEF SyncSaveFails, external
<1>3. CASE SyncFail
  <2>1. SomeClose /\ \A m \in Mode : ~modes'[m].gate
    <3>1. CASE healthy \/ \E m \in Mode : modes[m].gate
      <4>1. CloseAll(Mode, "forced", TRUE)
        BY <1>3, <3>1 DEF SyncFail
      <4> QED
        BY <1>1, <4>1, CloseAllFacts DEF ClosedAs, Reasons
    <3>2. CASE ~(healthy \/ \E m \in Mode : modes[m].gate)
      BY <1>1, <1>3, <3>2, NoneClose DEF SyncFail
    <3> QED
      BY <3>1, <3>2
  <2> QED
    BY <1>1, <1>3, <2>1, NoReqMoves, TasksFacts, ClosingStep DEF SyncFail, external
<1>4. CASE SyncFailSaved
  BY <1>1, <1>4, NoneClose, NoReqMoves, TasksFacts, ClosingStep DEF SyncFailSaved, provider, external
<1>5. CASE SyncFailSaveFails
  BY <1>1, <1>5, PersistFailsFacts, NoReqMoves, TasksFacts, ClosingStep
     DEF SyncFailSaveFails, external
<1>6. CASE WatchdogExpires
  BY <1>1, <1>6, ExpireFacts, NoReqMoves, TasksFacts, ClosingStep DEF WatchdogExpires, external
<1>7. CASE WatchdogSaved
  BY <1>1, <1>7, NoneClose, NoReqMoves, TasksFacts, ClosingStep DEF WatchdogSaved, provider, external
<1>8. CASE WatchdogSaveFails
  BY <1>1, <1>8, PersistFailsFacts, NoReqMoves, TasksFacts, ClosingStep
     DEF WatchdogSaveFails, external
<1>9. CASE CleanupSaved
  BY <1>1, <1>9, NoneClose, NoReqMoves, TasksFacts, ClosingStep DEF CleanupSaved, provider, external
<1>10. CASE CleanupSaveFails
  BY <1>1, <1>10, PersistFailsFacts, NoReqMoves, TasksFacts, ClosingStep
     DEF CleanupSaveFails, external
<1> QED
  BY <1>2, <1>3, <1>4, <1>5, <1>6, <1>7, <1>8, <1>9, <1>10 DEF WatchdogStep

\* Steps of a request that close gates or only move its context along.
LEMMA RequestClosings ==
  ASSUME IInv, NEW r \in Request,
         \/ RegisterWorker(r) \/ Drop(r) \/ AdmitExpires(r)
         \/ StartSubmit(r) \/ SendOrder(r) \/ DiscardOrder(r) \/ OrderAnswered(r)
         \/ OrderFails(r) \/ RebalanceDone(r) \/ RebalanceFails(r) \/ StrategyFailure(r)
         \/ RequestSaved(r) \/ RequestSaveFails(r)
  PROVE  IInv'
<1> USE DEF IInv
<1>1. TypeOK /\ healthy \in BOOLEAN /\ session \in MaybeId
      /\ watchdog \in {"watching", "saving"}
  BY DEF TypeOK
<1>2. CASE RegisterWorker(r)
  <2>1. SomeClose /\ \A m \in Mode : ~modes'[m].gate
    BY <1>1, <1>2, CloseAllFacts DEF RegisterWorker, ClosedAs, Reasons
  <2>2. session' \in Nat
    <3>1. IsFiniteSet({session} \cup {req[q].session : q \in Request})
      BY RequestIdsFinite, FS_Singleton, FS_Union
    <3> QED
      BY <1>2, <3>1, UnheldIsNew DEF RegisterWorker
  <2>3. ReqMoves
    BY <1>1, <1>2, ReqFacts DEF RegisterWorker, Live
  <2> QED
    BY <1>1, <1>2, <2>1, <2>2, <2>3, NoneAssumption, TasksFacts, ClosingStep
       DEF RegisterWorker, tasks, external, MaybeId, Ids
<1>3. CASE Drop(r) \/ RebalanceDone(r) \/ RequestSaved(r) \/ DiscardOrder(r)
  <2>1. ReqMoves
    BY <1>1, <1>3, ReqFacts DEF Drop, RebalanceDone, RequestSaved, DiscardOrder
  <2> QED
    BY <1>1, <1>3, <2>1, NoneClose, TasksFacts, ClosingStep
       DEF Drop, RebalanceDone, RequestSaved, DiscardOrder, provider, tasks, external
<1>4. CASE AdmitExpires(r)
  <2>1. ReqMoves
    BY <1>1, <1>4, ReqFacts DEF AdmitExpires
  <2> QED
    BY <1>1, <1>4, <2>1, ExpireFacts, TasksFacts, ClosingStep DEF AdmitExpires, tasks, external
<1>5. CASE StartSubmit(r) \/ SendOrder(r) \/ OrderAnswered(r)
  <2>1. ReqMoves
    <3>1. Live(r) /\ UNCHANGED modes /\ (SendOrder(r) => modes[req[r].mode].gate)
      BY <1>5 DEF StartSubmit, SendOrder, OrderAnswered, Live, Admissible, provider
    <3>2. \E p \in {"holding", "submitting", "sent"} :
            /\ req' = [req EXCEPT ![r] = [req[r] EXCEPT !.pc = p]]
            /\ p = "sent" => modes'[req[r].mode].gate
      BY <1>5, <3>1 DEF StartSubmit, SendOrder, OrderAnswered
    <3> QED
      BY <1>1, <3>1, <3>2, ReqFacts
  <2> QED
    BY <1>1, <1>5, <2>1, NoneClose, TasksFacts, ClosingStep
       DEF StartSubmit, SendOrder, OrderAnswered, provider, tasks, external
<1>6. CASE OrderFails(r)
  <2>1. SomeClose /\ \A m \in Mode : ~modes'[m].gate
    BY <1>1, <1>6, CloseAllFacts DEF OrderFails, ClosedAs, Reasons
  <2>2. ReqMoves
    BY <1>1, <1>6, ReqFacts DEF OrderFails
  <2> QED
    BY <1>1, <1>6, <2>1, <2>2, TasksFacts, ClosingStep DEF OrderFails, tasks, external
<1>7. CASE RebalanceFails(r)
  <2>1. SomeClose
    BY <1>1, <1>7, CloseAllFacts DEF RebalanceFails, Reasons
  <2>2. ReqMoves
    BY <1>1, <1>7, ReqFacts DEF RebalanceFails
  <2> QED
    BY <1>1, <1>7, <2>1, <2>2, TasksFacts, ClosingStep DEF RebalanceFails, tasks, external
<1>8. CASE StrategyFailure(r)
  <2>1. SomeClose
    BY <1>1, <1>8, CloseAllFacts DEF StrategyFailure, Reasons
  <2>2. ReqMoves
    BY <1>1, <1>8, ReqFacts DEF StrategyFailure
  <2> QED
    BY <1>1, <1>8, <2>1, <2>2, TasksFacts, ClosingStep DEF StrategyFailure, tasks, external
<1>9. CASE RequestSaveFails(r)
  <2>1. ReqMoves
    BY <1>1, <1>9, ReqFacts DEF RequestSaveFails
  <2> QED
    BY <1>1, <1>9, <2>1, PersistFailsFacts, TasksFacts, ClosingStep
       DEF RequestSaveFails, tasks, external
<1> QED
  BY <1>2, <1>3, <1>4, <1>5, <1>6, <1>7, <1>8, <1>9

\* The cleanup loop writes `reconciled` and nothing else of a mode.
LEMMA ReconcileSteps ==
  ASSUME IInv,
         \/ \E m \in Mode : ReconcileUnbrokered(m) \/ ReconcileStart(m)
         \/ ReconcileChecksLock
         \/ \E outstanding \in BOOLEAN : ReconcileFinds(outstanding)
         \/ ReconcileRaises
  PROVE  IInv'
<1> USE DEF IInv, external
<1>0. /\ TypeOK /\ modes \in [Mode -> ModeRecs] /\ cleanup \in Cleanups
      /\ cleanup.pc # "resting" => cleanup.mode \in Mode
  BY DEF TypeOK
<1>1. /\ modes' \in [Mode -> ModeRecs]
      /\ \A m \in Mode : modes'[m] = [modes[m] EXCEPT !.reconciled = modes'[m].reconciled]
  <2>1. PICK n \in Mode, b \in BOOLEAN : modes' = modes \/ modes' = [modes EXCEPT ![n].reconciled = b]
    <3>1. ASSUME NEW m \in Mode, ReconcileUnbrokered(m) \/ ReconcileStart(m)
          PROVE  \E n \in Mode, b \in BOOLEAN :
                   modes' = modes \/ modes' = [modes EXCEPT ![n].reconciled = b]
      BY <3>1 DEF ReconcileUnbrokered, ReconcileStart
    <3>2. ASSUME ReconcileChecksLock \/ ReconcileRaises
          PROVE  \E n \in Mode, b \in BOOLEAN :
                   modes' = modes \/ modes' = [modes EXCEPT ![n].reconciled = b]
      BY <1>0, <3>2 DEF ReconcileChecksLock, ReconcileRaises
    <3>3. ASSUME NEW out \in BOOLEAN, ReconcileFinds(out)
          PROVE  \E n \in Mode, b \in BOOLEAN :
                   modes' = modes \/ modes' = [modes EXCEPT ![n].reconciled = b]
      BY <1>0, <3>3 DEF ReconcileFinds
    <3> QED
      BY <3>1, <3>2, <3>3
  <2> QED
    BY <1>0, <2>1 DEF ModeRecs
<1>2. /\ cleanup' \in Cleanups
      /\ cleanup'.pc # "resting" => cleanup'.mode \in Mode
  <2>1. ASSUME NEW m \in Mode, ReconcileUnbrokered(m) \/ ReconcileStart(m)
        PROVE  cleanup' \in Cleanups /\ cleanup'.mode = m
    <3>1. CASE ReconcileUnbrokered(m)
      <4>1. cleanup' = [pc |-> "saving", mode |-> m, incident |-> None]
        BY <3>1 DEF ReconcileUnbrokered, Resting
      <4> QED
        BY <2>1, <4>1 DEF Cleanups, MaybeId
    <3>2. CASE ReconcileStart(m)
      <4>1. modes[m].incident \in MaybeId
        BY <1>0, <2>1 DEF ModeRecs, MaybeId
      <4> QED
        BY <2>1, <3>2, <4>1 DEF ReconcileStart, Cleanups
    <3> QED
      BY <2>1, <3>1, <3>2
  <2>2. ASSUME ReconcileChecksLock \/ ReconcileRaises \/ \E out \in BOOLEAN : ReconcileFinds(out)
        PROVE  /\ cleanup' \in Cleanups
               /\ cleanup' = Resting \/ cleanup'.mode = cleanup.mode
    <3>1. Resting \in Cleanups
      BY DEF Resting, Cleanups, MaybeId
    <3>2. \/ cleanup' = Resting
          \/ cleanup' = [cleanup EXCEPT !.pc = "asking"]
          \/ cleanup' = [cleanup EXCEPT !.pc = "saving", !.incident = None]
          \/ cleanup' = [cleanup EXCEPT !.pc = "retrying", !.incident = None]
      BY <2>2 DEF ReconcileChecksLock, ReconcileFinds, ReconcileRaises
    <3> QED
      BY <1>0, <3>1, <3>2 DEF Cleanups, MaybeId
  <2>3. ReconcileChecksLock \/ ReconcileRaises \/ (\E out \in BOOLEAN : ReconcileFinds(out))
          => cleanup.pc # "resting"
    BY DEF ReconcileChecksLock, ReconcileFinds, ReconcileRaises
  <2> QED
    BY <1>0, <2>1, <2>2, <2>3 DEF Resting
<1>3. UNCHANGED <<healthy, lease, version, revision, config, boot, session,
                  sync, watchdog, req, external, permit, stopAge>>
  BY DEF ReconcileUnbrokered, ReconcileStart, ReconcileChecksLock, ReconcileFinds, ReconcileRaises
\* Which modes may have become reconciled, and which are being reconciled now.
<1>4. /\ \A m \in Mode : modes[m].gate => modes'[m] = modes[m]
      /\ \A m \in Mode : modes[m].gate => ~(cleanup'.pc \in {"reading", "asking"} /\ cleanup'.mode = m)
      /\ cleanup'.pc \in {"reading", "asking"} => ~modes'[cleanup'.mode].reconciled
      /\ \A m \in Mode : modes'[m].reconciled =>
           modes[m].reconciled \/ m \notin Brokered \/ (cleanup.pc = "asking" /\ cleanup.mode = m)
      /\ cleanup'.pc = "asking" => cleanup' = cleanup \/ ~OrderLocked(cleanup'.mode)
  <2> DEFINE Facts ==
        /\ \A m \in Mode : modes[m].gate => modes'[m] = modes[m]
        /\ \A m \in Mode : modes[m].gate => ~(cleanup'.pc \in {"reading", "asking"} /\ cleanup'.mode = m)
        /\ cleanup'.pc \in {"reading", "asking"} => ~modes'[cleanup'.mode].reconciled
        /\ \A m \in Mode : modes'[m].reconciled =>
             modes[m].reconciled \/ m \notin Brokered \/ (cleanup.pc = "asking" /\ cleanup.mode = m)
        /\ cleanup'.pc = "asking" => cleanup' = cleanup \/ ~OrderLocked(cleanup'.mode)
  <2>1. ASSUME NEW m \in Mode, ReconcileUnbrokered(m) PROVE Facts
    BY <1>0, <2>1 DEF ReconcileUnbrokered, Cleanups, Resting, ModeRecs
  <2>2. ASSUME NEW m \in Mode, ReconcileStart(m) PROVE Facts
    BY <1>0, <2>2 DEF ReconcileStart, Cleanups, Resting, ModeRecs
  <2>3. ASSUME ReconcileChecksLock PROVE Facts
    BY <1>0, <2>3 DEF OpenGateSound, ReconcilingUnreconciled, ReconcileChecksLock, Cleanups,
                      Resting, ModeRecs
  <2>4. ASSUME NEW out \in BOOLEAN, ReconcileFinds(out) PROVE Facts
    BY <1>0, <2>4 DEF OpenGateSound, ReconcileFinds, Cleanups, ModeRecs
  <2>5. ASSUME ReconcileRaises PROVE Facts
    BY <1>0, <2>5 DEF OpenGateSound, ReconcilingUnreconciled, ReconcileRaises, Cleanups, ModeRecs
  <2> QED
    BY <2>1, <2>2, <2>3, <2>4, <2>5
<1>5. TypeOK'
  BY <1>1, <1>2, <1>3 DEF TypeOK
<1>6. \A m \in Mode : /\ modes'[m].gate = modes[m].gate
                      /\ modes'[m].incident = modes[m].incident
                      /\ modes'[m].since = modes[m].since
                      /\ modes'[m].closedAt = modes[m].closedAt
  BY <1>0, <1>1 DEF ModeRecs
<1>7. OpenGateSound' /\ ReconcilingUnreconciled'
  BY <1>3, <1>4, <1>6 DEF OpenGateSound, ReconcilingUnreconciled
<1>8. IncidentsPast' /\ CandidatesSound' /\ ResumesAfterIncident' /\ LeaseEnds' /\ AnswerAge'
  BY <1>3, <1>6 DEF IncidentsPast, CandidatesSound, ResumesAfterIncident, LeaseEnds, AnswerAge
<1>9. ContextsSound' /\ ContextsBrokered'
  BY <1>0, <1>3, <1>6 DEF ContextsSound, ContextsBrokered, Live, TypeOK
<1>10. SentUnreconciled'
  <2> SUFFICES ASSUME NEW r \in Request, req[r].pc = "sent", ~modes'[req[r].mode].gate
               PROVE  /\ ~modes'[req[r].mode].reconciled
                      /\ ~(cleanup'.pc = "asking" /\ cleanup'.mode = req[r].mode)
    BY <1>3 DEF SentUnreconciled
  <2>1. req[r].mode \in Mode /\ req[r].mode \in Brokered /\ OrderLocked(req[r].mode)
    BY <1>0 DEF TypeOK, ContextsBrokered, Live, OrderLocked
  <2> QED
    BY <1>4, <1>6, <2>1 DEF SentUnreconciled
<1> QED
  BY <1>5, <1>7, <1>8, <1>9, <1>10

\* The worker reads the state of an open gate.
LEMMA ReadStateStep ==
  ASSUME IInv, NEW r \in Request, NEW m \in Mode, ReadState(r, m)
  PROVE  IInv'
<1> USE DEF IInv, external, provider, tasks
<1> DEFINE ctx == [pc |-> "holding", mode |-> m, session |-> session, boot |-> boot,
                   version |-> version, config |-> config, permit |-> permit[m]]
<1>1. /\ modes[m].gate
      /\ req' = [req EXCEPT ![r] = ctx]
      /\ UNCHANGED <<provider, tasks, external, permit, stopAge>>
  BY DEF ReadState
<1>2. ctx \in Contexts
  BY DEF TypeOK, Contexts
<1>3. TypeOK'
  BY <1>1, <1>2 DEF TypeOK
<1>4. /\ req'[r] = ctx
      /\ \A q \in Request \ {r} : req'[q] = req[q]
  BY <1>1 DEF TypeOK
<1>5. /\ OpenGateSound' /\ IncidentsPast' /\ ReconcilingUnreconciled' /\ CandidatesSound'
      /\ ResumesAfterIncident' /\ AnswerAge' /\ LeaseEnds'
  BY <1>1 DEF OpenGateSound, IncidentsPast, ReconcilingUnreconciled, CandidatesSound,
              ResumesAfterIncident, AnswerAge, LeaseEnds
<1>6. ContextsSound'
  BY <1>1, <1>4 DEF ContextsSound, Live, TypeOK
<1>7. SentUnreconciled' /\ ContextsBrokered'
  BY <1>1, <1>4 DEF SentUnreconciled, ContextsBrokered, OpenGateSound, Live
<1> QED
  BY <1>3, <1>5, <1>6, <1>7

\* A sync task that holds nothing.
LEMMA IdleFacts ==
  /\ Idle \in SyncTasks
  /\ Idle.answer = None
  /\ \A m \in Mode : Idle.candidates[m] = NoResume /\ Idle.candidates[m].incident = None
<1>1. [m \in Mode |-> None] \in [Mode -> MaybeId] /\ NoResume \in Resumes
  BY DEF MaybeId, NoResume, Resumes
<1>2. [m \in Mode |-> NoResume] \in [Mode -> Resumes] /\ 0 \in 0..Timeout
  BY <1>1, TimingAssumption
<1>3. \A m \in Mode : Idle.candidates[m] = NoResume
  BY DEF Idle
<1>4. NoResume.incident = None
  BY DEF NoResume
<1> QED
  BY <1>1, <1>2, <1>3, <1>4 DEF Idle, SyncTasks

\* The provider sends a sync and the dashboard answers it.
LEMMA SyncExchange ==
  ASSUME IInv, SyncSend \/ DashboardAnswers
  PROVE  IInv'
<1> USE DEF IInv, external, provider
<1>1. /\ UNCHANGED <<provider, watchdog, cleanup, req, dash, permit, stopAge>>
      /\ seen' \in [Mode -> MaybeId]
  BY DEF SyncSend, DashboardAnswers, TypeOK, SyncTasks
<1>2. /\ sync' \in SyncTasks
      /\ \A m \in Mode : sync'.candidates[m] = NoResume \/ sync'.candidates[m] = sync.candidates[m]
      /\ sync'.answer # None => sync'.answer = dash /\ sync'.pc = "sent"
  <2>1. CASE SyncSend
    <3>1. [m \in Mode |-> modes[m].incident] \in [Mode -> MaybeId]
      BY DEF TypeOK, ModeRecs, MaybeId
    <3>2. Idle \in SyncTasks
      BY IdleFacts
    <3>3. /\ sync' = [Idle EXCEPT !.pc = "sent", !.report = [m \in Mode |-> modes[m].incident]]
          /\ Idle.answer = None /\ \A m \in Mode : Idle.candidates[m] = NoResume
      BY <2>1, IdleFacts DEF SyncSend
    <3>4. sync' \in SyncTasks
      BY <3>1, <3>2, <3>3 DEF SyncTasks
    <3>5. sync'.answer = None /\ \A m \in Mode : sync'.candidates[m] = NoResume
      BY <3>2, <3>3 DEF SyncTasks
    <3> QED
      BY <3>4, <3>5
  <2>2. CASE DashboardAnswers
    <3>1. Idle.report \in [Mode -> MaybeId]
      BY DEF Idle, MaybeId
    <3> QED
      BY <2>2, <3>1 DEF DashboardAnswers, TypeOK, SyncTasks
  <2> QED
    BY <2>1, <2>2
<1>3. TypeOK'
  BY <1>1, <1>2 DEF TypeOK
<1>4. /\ OpenGateSound' /\ IncidentsPast' /\ ReconcilingUnreconciled' /\ ContextsSound'
      /\ SentUnreconciled' /\ ContextsBrokered'
  BY <1>1 DEF OpenGateSound, IncidentsPast, ReconcilingUnreconciled, ContextsSound, Live,
              SentUnreconciled, ContextsBrokered
<1>5. CandidatesSound' /\ LeaseEnds'
  <2>1. \A m \in Mode : modes[m].incident # None
    BY NoneAssumption DEF TypeOK, ModeRecs, Ids
  <2> QED
    BY <1>1, <1>2, <2>1 DEF CandidatesSound, LeaseEnds, NoResume
<1>6. ResumesAfterIncident' /\ AnswerAge'
  BY <1>1, <1>2 DEF ResumesAfterIncident, AnswerAge
<1> QED
  BY <1>3, <1>4, <1>5, <1>6

\* What installing an answer makes of a mode: it closes, or it stays as it is,
\* and it stays open only if the answer lets it run.
LEMMA InstalledFacts ==
  ASSUME TypeOK, NEW a \in Dashboard, NEW m \in Mode
  PROVE  \/ ClosedAs(Installed(a, m), m, a.version)
         \/ /\ Installed(a, m) = modes[m]
            /\ a.revision = revision
            /\ modes[m].gate => m \in a.config /\ a.desired[m].run
<1>1. a.version \in Nat /\ "forced" \in Reasons
  BY DEF Dashboard, Reasons
<1>2. \A force \in BOOLEAN : ClosedAs(Close(m, "forced", force, a.version), m, a.version)
  BY <1>1, CloseFacts
<1> QED
  BY <1>2 DEF Installed

\* A valid answer is installed.
LEMMA SyncAcceptStep ==
  ASSUME IInv, SyncAccept
  PROVE  IInv'
<1> USE DEF IInv, external
<1> DEFINE a == sync.answer
<1>1. /\ a \in Dashboard
      /\ AnswerValid(a)
      /\ version' = a.version /\ revision' = a.revision /\ config' = a.config
      /\ modes' = [m \in Mode |-> Installed(a, m)]
      /\ healthy' = TRUE
      /\ UNCHANGED <<boot, session, watchdog, cleanup, req, external, permit, stopAge>>
  BY DEF SyncAccept, TypeOK, SyncTasks
<1>2. PICK ttl \in 1..MaxTTL : sync.age < ttl /\ sync.age < Timeout /\ lease' = ttl - sync.age
  BY DEF SyncAccept
<1>3. /\ a.version \in Nat /\ a.revision \in Nat /\ a.config \in Configs
      /\ a.desired \in [Mode -> Desired]
      /\ sync.age \in Nat
  BY <1>1 DEF Dashboard, TypeOK, SyncTasks
<1>4. ASSUME NEW m \in Mode
      PROVE  \/ ClosedAs(modes'[m], m, version')
             \/ /\ modes'[m] = modes[m] /\ a.revision = revision
                /\ modes[m].gate => m \in a.config /\ a.desired[m].run
  BY <1>1, InstalledFacts
<1>5. modes' \in [Mode -> ModeRecs]
  <2>1. \A m \in Mode : modes'[m] \in ModeRecs
    BY <1>4 DEF ClosedAs, TypeOK
  <2> QED
    BY <1>1, <2>1
<1>6. sync'.answer = None
  BY DEF SyncAccept, Idle
<1>7. ASSUME NEW m \in Mode
      PROVE  \/ sync'.candidates[m].incident = None
             \/ /\ Resumable(a, m)
                /\ sync'.candidates[m].incident = modes[m].incident
                /\ sync'.candidates[m].resume = a.desired[m].resume
  <2>1. sync'.candidates[m] = IF Resumable(a, m)
                              THEN [incident |-> modes[m].incident, resume |-> a.desired[m].resume]
                              ELSE NoResume
    BY DEF SyncAccept, Idle
  <2> QED
    BY <2>1 DEF NoResume
<1>8. sync' \in SyncTasks
  <2>1. /\ NoResume \in Resumes
        /\ \A m \in Mode : [incident |-> modes[m].incident, resume |-> a.desired[m].resume] \in Resumes
    BY <1>3 DEF NoResume, Resumes, MaybeId, TypeOK, ModeRecs, Desired
  <2>2. [m \in Mode |-> IF Resumable(a, m)
                        THEN [incident |-> modes[m].incident, resume |-> a.desired[m].resume]
                        ELSE NoResume] \in [Mode -> Resumes]
    BY <2>1
  <2>3. Idle \in SyncTasks
    BY IdleFacts
  <2>4. \A f \in [Mode -> Resumes] :
          [Idle EXCEPT !.pc = "opening", !.candidates = f] \in SyncTasks
    BY <2>3 DEF SyncTasks
  <2> QED
    BY <2>2, <2>4 DEF SyncAccept
<1>9. TypeOK'
  <2>1. lease' \in 0..MaxTTL
    BY <1>2, <1>3, TimingAssumption
  <2> QED
    BY <1>1, <1>3, <1>5, <1>8, <2>1 DEF TypeOK
<1>10. version <= version'
  BY <1>1 DEF AnswerValid
<1>11. ASSUME NEW m \in Mode
       PROVE  /\ modes'[m].gate => modes'[m] = modes[m] /\ config' = config /\ a.desired[m].run
              /\ modes'[m].reconciled => modes'[m] = modes[m]
  <2>1. a.revision = revision => a.config = config
    BY <1>1 DEF AnswerValid
  <2> QED
    BY <1>1, <1>4, <2>1 DEF ClosedAs
<1>12. /\ OpenGateSound' /\ ReconcilingUnreconciled'
  <2>1. version \in Nat /\ version' \in Nat /\ \A m \in Mode : modes[m].since \in Nat
    BY <1>1, <1>3 DEF TypeOK, ModeRecs
  <2>2. OpenGateSound'
    BY <1>1, <1>10, <1>11, <2>1 DEF OpenGateSound
  <2>3. ReconcilingUnreconciled'
    BY <1>1, <1>11 DEF ReconcilingUnreconciled, TypeOK
  <2> QED
    BY <2>2, <2>3
<1>13. IncidentsPast'
  <2>1. version \in Nat /\ version' \in Nat /\ dash.version \in Nat
        /\ \A m \in Mode : modes[m].since \in Nat
    BY <1>1, <1>3 DEF TypeOK, ModeRecs, Dashboard
  <2> QED
    BY <1>1, <1>4, <1>10, <2>1 DEF IncidentsPast, ClosedAs
<1>14. CandidatesSound'
  <2> SUFFICES ASSUME NEW m \in Mode, sync'.candidates[m].incident = modes'[m].incident
               PROVE  /\ modes'[m].since < version'
                      /\ m \in config' \cap Brokered
                      /\ session' # None
                      /\ sync'.candidates[m].resume > modes'[m].closedAt
    BY DEF CandidatesSound
  <2>1. modes'[m].incident # None
    BY <1>5, NoneAssumption DEF ModeRecs, Ids
  <2>2. Resumable(a, m) /\ modes[m].incident = modes'[m].incident
        /\ sync'.candidates[m].resume = a.desired[m].resume
    BY <1>7, <2>1
  <2>3. modes[m].incident \in Held(m)
    BY DEF Held
  <2>4. modes'[m].since = modes[m].since /\ modes'[m].closedAt = modes[m].closedAt
    BY <1>4, <2>2, <2>3 DEF ClosedAs
  <2>5. a.desired[m].incident = modes[m].incident /\ a.desired[m].resume > modes[m].since
        /\ a.desired[m].run /\ m \in a.config /\ session # None
    BY <2>2 DEF Resumable
  <2>6. a.desired[m].resume > modes[m].closedAt
    <3>1. a # None
      BY DEF SyncAccept
    <3> QED
      BY <2>5, <3>1 DEF ResumesAfterIncident
  <2>7. a.desired[m].resume <= a.version
    BY <1>1, <2>5 DEF AnswerValid
  <2>8. m \in Brokered
    <3>1. a.config # Unassigned
      BY <2>5, NoneAssumption DEF Unassigned
    <3> QED
      BY <1>1, <2>5, <3>1 DEF AnswerValid
  <2>9. modes[m].since \in Nat /\ a.desired[m].resume \in Nat
    BY <1>3 DEF TypeOK, ModeRecs, Desired
  <2> QED
    BY <1>1, <1>3, <2>2, <2>4, <2>5, <2>6, <2>7, <2>8, <2>9
<1>15. ResumesAfterIncident'
  <2> SUFFICES ASSUME NEW m \in Mode, dash.desired[m].incident = modes'[m].incident
               PROVE  dash.desired[m].resume > modes'[m].closedAt
    BY <1>1, <1>6 DEF ResumesAfterIncident
  <2>1. dash.desired[m].incident \in Held(m)
    BY DEF Held
  <2> QED
    BY <1>4, <2>1 DEF ResumesAfterIncident, ClosedAs
<1>16. ContextsSound'
  <2> SUFFICES ASSUME NEW r \in Request, Live(r), req[r].boot = boot
               PROVE  /\ req[r].version <= version'
                      /\ \/ req[r].version <= modes'[req[r].mode].since
                         \/ modes'[req[r].mode].gate /\ req[r].permit = permit[req[r].mode]
    BY <1>1 DEF ContextsSound, Live
  <2>1. req[r].mode \in Mode /\ req[r].version \in Nat /\ version \in Nat /\ version' \in Nat
    BY <1>1, <1>3 DEF TypeOK, Live, Contexts
  <2> QED
    BY <1>4, <1>10, <2>1 DEF ContextsSound, ClosedAs
<1>17. SentUnreconciled' /\ ContextsBrokered'
  <2>1. \A r \in Request : Live(r) => req[r].mode \in Mode
    BY DEF TypeOK, Live
  <2>2. ContextsBrokered'
    BY <1>1 DEF ContextsBrokered, Live
  <2>3. SentUnreconciled'
    <3> SUFFICES ASSUME NEW r \in Request, req[r].pc = "sent", ~modes'[req[r].mode].gate
                 PROVE  /\ ~modes'[req[r].mode].reconciled
                        /\ ~(cleanup.pc = "asking" /\ cleanup.mode = req[r].mode)
      BY <1>1 DEF SentUnreconciled
    <3>1. req[r].mode \in Mode
      BY <2>1 DEF Live
    <3>2. CASE modes[req[r].mode].gate
      BY <1>4, <3>1, <3>2 DEF ClosedAs, OpenGateSound
    <3>3. CASE ~modes[req[r].mode].gate
      BY <1>11, <3>1, <3>3 DEF SentUnreconciled
    <3> QED
      BY <3>2, <3>3
  <2> QED
    BY <2>2, <2>3
<1>18. AnswerAge'
  BY <1>6 DEF AnswerAge
<1>19. LeaseEnds'
  <2> SUFFICES ASSUME NEW m \in Mode, ~dash.desired[m].run,
                      modes'[m].gate \/ sync'.candidates[m].incident # None
               PROVE  lease' + stopAge[m] <= MaxTTL
    BY <1>1 DEF LeaseEnds
  <2>1. a.desired[m].run
    BY <1>7, <1>11 DEF Resumable
  <2>2. stopAge[m] <= sync.age
    BY <1>2, <1>3, <2>1 DEF AnswerAge, SyncAccept
  <2> QED
    BY <1>2, <1>3, <2>2, TimingAssumption DEF TypeOK
<1> QED
  BY <1>9, <1>12, <1>13, <1>14, <1>15, <1>16, <1>17, <1>18, <1>19

\* The candidates that nothing happened to open.
LEMMA SyncOpenStep ==
  ASSUME IInv, SyncOpen
  PROVE  IInv'
<1> USE DEF IInv, external
<1>1. /\ modes' = [m \in Mode |-> IF Opens(m)
                                  THEN [modes[m] EXCEPT !.gate = TRUE, !.reason = None]
                                  ELSE modes[m]]
      /\ permit' = [m \in Mode |-> IF Opens(m) /\ ~modes[m].gate
                                   THEN sync.candidates[m].resume ELSE permit[m]]
      /\ sync' = Idle
      /\ UNCHANGED <<healthy, lease, version, revision, config, boot, session,
                     watchdog, cleanup, req, external, stopAge>>
  BY DEF SyncOpen
<1>2. /\ modes \in [Mode -> ModeRecs] /\ permit \in [Mode -> Nat]
      /\ \A m \in Mode : sync.candidates[m].resume \in Nat
  BY DEF TypeOK, SyncTasks, Resumes
<1>3. modes' \in [Mode -> ModeRecs] /\ permit' \in [Mode -> Nat]
  <2>1. \A m \in Mode : [modes[m] EXCEPT !.gate = TRUE, !.reason = None] \in ModeRecs
    BY <1>2 DEF ModeRecs
  <2> QED
    BY <1>1, <1>2, <2>1
<1>4. ASSUME NEW m \in Mode
      PROVE  /\ modes'[m].incident = modes[m].incident
             /\ modes'[m].since = modes[m].since
             /\ modes'[m].closedAt = modes[m].closedAt
             /\ modes'[m].reconciled = modes[m].reconciled
             /\ modes[m].gate => modes'[m].gate /\ permit'[m] = permit[m]
             /\ modes'[m].gate => modes[m].gate \/ Opens(m)
  BY <1>1, <1>2 DEF ModeRecs
<1>5. sync' \in SyncTasks /\ sync'.answer = None
      /\ \A m \in Mode : sync'.candidates[m].incident = None
  BY <1>1, IdleFacts
<1>6. TypeOK'
  BY <1>1, <1>3, <1>5 DEF TypeOK
<1>7. \A m \in Mode : modes[m].incident # None
  BY NoneAssumption DEF TypeOK, ModeRecs, Ids
<1>8. OpenGateSound'
  <2> SUFFICES ASSUME NEW m \in Mode, modes'[m].gate
               PROVE  /\ healthy
                      /\ session # None
                      /\ m \in config \cap Brokered
                      /\ modes'[m].reconciled
                      /\ ~(cleanup.pc \in {"reading", "asking"} /\ cleanup.mode = m)
                      /\ modes'[m].since < version
    BY <1>1 DEF OpenGateSound
  <2>1. CASE modes[m].gate
    BY <1>4, <2>1 DEF OpenGateSound
  <2>2. CASE Opens(m)
    BY <1>4, <2>2 DEF Opens, CandidatesSound, ReconcilingUnreconciled
  <2> QED
    BY <1>4, <2>1, <2>2
<1>9. IncidentsPast' /\ ReconcilingUnreconciled' /\ CandidatesSound'
  <2>1. IncidentsPast'
    BY <1>1, <1>4 DEF IncidentsPast
  <2>2. ReconcilingUnreconciled'
    <3>1. cleanup.pc \in {"reading", "asking"} => cleanup.mode \in Mode
      BY DEF TypeOK
    <3> QED
      BY <1>1, <1>4, <3>1 DEF ReconcilingUnreconciled
  <2>3. CandidatesSound'
    BY <1>4, <1>5, <1>7 DEF CandidatesSound
  <2> QED
    BY <2>1, <2>2, <2>3
<1>10. ResumesAfterIncident' /\ AnswerAge'
  BY <1>1, <1>4, <1>5 DEF ResumesAfterIncident, AnswerAge
<1>11. ContextsSound' /\ SentUnreconciled' /\ ContextsBrokered'
  <2>1. \A r \in Request : Live(r) => req[r].mode \in Mode
    BY DEF TypeOK, Live
  <2>2. ContextsSound'
    <3> SUFFICES ASSUME NEW r \in Request, Live(r), req[r].boot = boot
                 PROVE  /\ req[r].version <= version
                        /\ \/ req[r].version <= modes'[req[r].mode].since
                           \/ modes'[req[r].mode].gate /\ req[r].permit = permit'[req[r].mode]
      BY <1>1 DEF ContextsSound, Live
    <3> QED
      BY <1>4, <2>1 DEF ContextsSound
  <2>3. SentUnreconciled'
    <3> SUFFICES ASSUME NEW r \in Request, req[r].pc = "sent", ~modes'[req[r].mode].gate
                 PROVE  /\ ~modes'[req[r].mode].reconciled
                        /\ ~(cleanup.pc = "asking" /\ cleanup.mode = req[r].mode)
      BY <1>1 DEF SentUnreconciled
    <3>1. req[r].mode \in Mode
      BY <2>1 DEF Live
    <3> QED
      BY <1>4, <3>1 DEF SentUnreconciled
  <2>4. ContextsBrokered'
    BY <1>1 DEF ContextsBrokered, Live
  <2> QED
    BY <2>2, <2>3, <2>4
<1>12. LeaseEnds'
  <2> SUFFICES ASSUME NEW m \in Mode, ~dash.desired[m].run, modes'[m].gate
               PROVE  lease + stopAge[m] <= MaxTTL
    BY <1>1, <1>5 DEF LeaseEnds
  <2>1. modes[m].gate \/ sync.candidates[m].incident # None
    BY <1>4, <1>7 DEF Opens
  <2> QED
    BY <2>1 DEF LeaseEnds
<1> QED
  BY <1>6, <1>8, <1>9, <1>10, <1>11, <1>12

\* The dashboard's record stays one under the operator's actions.
LEMMA DashboardActs ==
  ASSUME NEW d \in Dashboard
  PROVE  /\ \A v \in Nat, f \in [Mode -> Desired] :
              [d EXCEPT !.version = v, !.desired = f] \in Dashboard
         /\ \A v \in Nat, c \in Configs :
              [d EXCEPT !.revision = v, !.config = c] \in Dashboard
BY DEF Dashboard

\* The operator acts.
LEMMA OperatorSteps ==
  ASSUME IInv, OperatorStep
  PROVE  IInv'
<1> USE DEF IInv, provider, tasks
<1>1. UNCHANGED <<provider, tasks, req, seen, permit>>
  BY DEF OperatorStep, Stop, Resume, Configure
<1>2. /\ OpenGateSound' /\ ReconcilingUnreconciled' /\ CandidatesSound'
      /\ ContextsSound' /\ SentUnreconciled' /\ ContextsBrokered'
  BY <1>1 DEF OpenGateSound, ReconcilingUnreconciled, CandidatesSound, ContextsSound,
              SentUnreconciled, ContextsBrokered, Live
<1>3. /\ dash \in Dashboard /\ dash.version \in Nat /\ dash.revision \in Nat
      /\ dash.desired \in [Mode -> Desired]
      /\ stopAge \in [Mode -> 0..MaxTTL] /\ lease \in 0..MaxTTL
      /\ 0 \in 0..MaxTTL /\ MaxTTL \in 0..MaxTTL
      /\ \A m \in Mode : modes[m].incident # None /\ modes[m].closedAt \in Nat
  BY TimingAssumption, NoneAssumption DEF TypeOK, Dashboard, ModeRecs, Ids
<1>4. ASSUME NEW m \in Mode, Stop(m) PROVE IInv'
  <2>1. /\ dash'.version = dash.version + 1
        /\ dash'.desired = [dash.desired EXCEPT ![m] = Paused(dash.version + 1)]
        /\ dash' = [dash EXCEPT !.version = dash.version + 1,
                                !.desired = [dash.desired EXCEPT ![m] = Paused(dash.version + 1)]]
        /\ stopAge' = [stopAge EXCEPT ![m] = 0]
    BY <1>3, <1>4 DEF Stop, Dashboard
  <2>2. Paused(dash.version + 1) \in Desired
    BY <1>3 DEF Paused, Desired, MaybeId
  <2>3. TypeOK'
    <3>0. dash'.desired \in [Mode -> Desired] /\ dash.version + 1 \in Nat
      BY <1>3, <2>1, <2>2
    <3>1. dash' \in Dashboard
      BY <1>3, <2>1, <3>0, DashboardActs
    <3>2. stopAge' \in [Mode -> 0..MaxTTL]
      BY <1>3, <2>1
    <3> QED
      BY <1>1, <3>1, <3>2 DEF TypeOK
  <2>4. IncidentsPast'
    BY <1>1, <1>3, <2>1 DEF IncidentsPast
  <2>5. ResumesAfterIncident'
    BY <1>1, <1>3, <2>1 DEF ResumesAfterIncident, Paused
  <2>6. AnswerAge'
    <3>1. sync.age \in Nat
      BY DEF TypeOK, SyncTasks
    <3> QED
      BY <1>1, <1>3, <2>1, <3>1 DEF AnswerAge
  <2>7. LeaseEnds'
    BY <1>1, <1>3, <2>1 DEF LeaseEnds
  <2> QED
    BY <1>2, <2>3, <2>4, <2>5, <2>6, <2>7
<1>5. ASSUME NEW m \in Mode, Resume(m) PROVE IInv'
  <2> DEFINE d == [run |-> TRUE, stop |-> dash.desired[m].stop,
                   resume |-> dash.version + 1, incident |-> seen[m]]
  <2>1. /\ dash'.version = dash.version + 1
        /\ dash'.desired = [dash.desired EXCEPT ![m] = d]
        /\ dash' = [dash EXCEPT !.version = dash.version + 1,
                                !.desired = [dash.desired EXCEPT ![m] = d]]
        /\ stopAge' = [stopAge EXCEPT ![m] = MaxTTL]
    BY <1>3, <1>5 DEF Resume, Dashboard
  <2>2. d \in Desired
    BY <1>3 DEF Desired, TypeOK
  <2>3. TypeOK'
    <3>0. dash'.desired \in [Mode -> Desired] /\ dash.version + 1 \in Nat
      BY <1>3, <2>1, <2>2
    <3>1. dash' \in Dashboard
      BY <1>3, <2>1, <3>0, DashboardActs
    <3>2. stopAge' \in [Mode -> 0..MaxTTL]
      BY <1>3, <2>1
    <3> QED
      BY <1>1, <3>1, <3>2 DEF TypeOK
  <2>4. IncidentsPast'
    BY <1>1, <1>3, <2>1 DEF IncidentsPast
  <2>5. ResumesAfterIncident'
    BY <1>1, <1>3, <2>1 DEF ResumesAfterIncident, IncidentsPast
  <2>6. AnswerAge'
    BY <1>1, <1>3, <2>1 DEF AnswerAge
  <2>7. LeaseEnds'
    BY <1>1, <1>3, <2>1 DEF LeaseEnds
  <2> QED
    BY <1>2, <2>3, <2>4, <2>5, <2>6, <2>7
<1>6. ASSUME NEW c \in Assignable, Configure(c) PROVE IInv'
  <2>1. /\ dash' = [dash EXCEPT !.revision = dash.revision + 1, !.config = c]
        /\ dash'.version = dash.version /\ dash'.desired = dash.desired
        /\ stopAge' = stopAge
    BY <1>3, <1>6 DEF Configure, Dashboard
  <2>2. c \in Configs
    BY AssignableAssumption DEF Configs
  <2>3. TypeOK'
    <3>0. dash.revision + 1 \in Nat
      BY <1>3
    <3>1. dash' \in Dashboard
      BY <1>3, <2>1, <2>2, <3>0, DashboardActs
    <3> QED
      BY <1>1, <2>1, <3>1 DEF TypeOK
  <2> QED
    BY <1>1, <1>2, <2>1, <2>3 DEF IncidentsPast, ResumesAfterIncident, AnswerAge, LeaseEnds
<1> QED
  BY <1>4, <1>5, <1>6 DEF OperatorStep

\* A new process starts.
LEMMA RestartStep ==
  ASSUME IInv, Restart
  PROVE  IInv'
<1> USE DEF IInv, external
<1>1. /\ boot' = Unheld({boot} \cup {req[r].boot : r \in Request})
      /\ healthy' = FALSE /\ lease' = 0 /\ version' = 0 /\ revision' = 0
      /\ config' = Unassigned /\ session' = None
      /\ sync' = Idle /\ watchdog' = "watching" /\ cleanup' = Resting
      /\ req' = [r \in Request |-> IF req[r].pc = "holding" THEN req[r] ELSE NoContext]
      /\ UNCHANGED <<dash, seen, permit, stopAge>>
  BY DEF Restart
<1>2. boot' \in Nat /\ \A r \in Request : req[r].boot # boot'
  BY NewBoot
<1>3. ASSUME NEW m \in Mode
      PROVE  /\ modes'[m] = [gate |-> FALSE, incident |-> Fresh(m), since |-> 0,
                             reconciled |-> FALSE, reason |-> "startup",
                             closedAt |-> dash.version]
             /\ Fresh(m) \in Nat /\ Fresh(m) \notin Held(m) /\ Fresh(m) # None
             /\ ~modes'[m].gate /\ modes'[m].incident = Fresh(m) /\ modes'[m].since = 0
             /\ modes'[m].closedAt = dash.version
  BY FreshIsNew, NoneAssumption DEF Restart
<1>4. dash.version \in Nat /\ 0 \in 0..MaxTTL
  BY TimingAssumption DEF TypeOK, Dashboard
<1>5. modes' \in [Mode -> ModeRecs]
  <2>1. \A i \in Nat : [gate |-> FALSE, incident |-> i, since |-> 0, reconciled |-> FALSE,
                        reason |-> "startup", closedAt |-> dash.version] \in ModeRecs
    BY <1>4 DEF ModeRecs, Reasons, Ids
  <2>2. \A m \in Mode : modes'[m] \in ModeRecs
    BY <1>3, <2>1
  <2> QED
    BY <2>2 DEF Restart
<1>6. req' \in [Request -> Contexts]
  <2>1. NoContext \in Contexts
    BY DEF NoContext, Contexts, MaybeId, Ids, Configs
  <2> QED
    BY <1>1, <2>1 DEF TypeOK
<1>7. \A r \in Request : Live(r)' => req'[r] = req[r] /\ req[r].pc = "holding"
  BY <1>1 DEF Live, NoContext
<1>8. sync' \in SyncTasks /\ sync'.answer = None
      /\ \A m \in Mode : sync'.candidates[m].incident = None
  BY <1>1, IdleFacts
<1>9. cleanup' \in Cleanups /\ cleanup'.pc = "resting"
  BY <1>1 DEF Resting, Cleanups, MaybeId
<1>10. TypeOK'
  <2>1. \A r \in Request : req'[r].pc \in {"holding", "submitting", "sent"} => req'[r].mode \in Mode
    BY <1>7 DEF TypeOK, Live
  <2>2. config' \in Configs /\ session' \in MaybeId
    BY <1>1 DEF Configs, MaybeId
  <2> QED
    BY <1>1, <1>2, <1>4, <1>5, <1>6, <1>8, <1>9, <2>1, <2>2 DEF TypeOK, Ids
<1>11. /\ OpenGateSound' /\ IncidentsPast' /\ ReconcilingUnreconciled' /\ CandidatesSound'
       /\ AnswerAge' /\ LeaseEnds'
  <2>1. OpenGateSound' /\ ReconcilingUnreconciled' /\ AnswerAge' /\ LeaseEnds'
    BY <1>3, <1>8, <1>9 DEF OpenGateSound, ReconcilingUnreconciled, AnswerAge, LeaseEnds
  <2>2. IncidentsPast'
    <3>1. \A m \in Mode : modes'[m].since = version' /\ modes'[m].closedAt = dash'.version
      BY <1>1, <1>3
    <3>2. version' <= version' /\ dash'.version <= dash'.version
      BY <1>1, <1>4
    <3> QED
      BY <3>1, <3>2 DEF IncidentsPast
  <2>3. CandidatesSound'
    BY <1>3, <1>8 DEF CandidatesSound
  <2> QED
    BY <2>1, <2>2, <2>3
<1>12. ResumesAfterIncident'
  <2>1. \A m \in Mode : dash.desired[m].incident \in Held(m)
    BY DEF Held
  <2> QED
    BY <1>1, <1>3, <1>8, <2>1 DEF ResumesAfterIncident, Dashboard, TypeOK
<1>13. ContextsSound' /\ SentUnreconciled' /\ ContextsBrokered'
  <2>1. \A r \in Request : Live(r)' => Live(r) /\ req'[r].boot # boot' /\ req'[r].pc # "sent"
    BY <1>2, <1>7 DEF Live
  <2>2. \A r \in Request : req'[r].pc = "sent" => Live(r)'
    BY DEF Live
  <2> QED
    BY <1>7, <2>1, <2>2 DEF ContextsSound, SentUnreconciled, ContextsBrokered
<1> QED
  BY <1>10, <1>11, <1>12, <1>13

\* Time passes.
LEMMA TickStep ==
  ASSUME IInv, Tick
  PROVE  IInv'
<1> USE DEF IInv, external
<1>1. /\ lease' = IF lease = 0 THEN 0 ELSE lease - 1
      /\ \/ sync' = sync /\ (sync.pc # "sent" \/ sync.age >= Timeout)
         \/ /\ sync.pc = "sent" /\ sync.age < Timeout
            /\ sync' = [sync EXCEPT !.age = sync.age + 1]
      /\ stopAge' = [m \in Mode |-> IF stopAge[m] < MaxTTL THEN stopAge[m] + 1 ELSE MaxTTL]
      /\ UNCHANGED <<healthy, version, revision, config, boot, session, modes,
                     watchdog, cleanup, req, dash, seen, permit>>
  <2>1. sync.age \in Nat /\ Timeout \in Nat
    BY TimingAssumption DEF TypeOK, SyncTasks
  <2> QED
    BY <2>1 DEF Tick
<1>2. /\ lease \in 0..MaxTTL /\ stopAge \in [Mode -> 0..MaxTTL]
      /\ sync \in SyncTasks /\ sync.age \in 0..Timeout
      /\ Timeout \in Nat /\ MaxTTL \in Nat
  BY TimingAssumption DEF TypeOK, SyncTasks
<1>3. lease' \in 0..MaxTTL /\ stopAge' \in [Mode -> 0..MaxTTL]
  BY <1>1, <1>2
<1>4. /\ sync' \in SyncTasks
      /\ sync'.answer = sync.answer /\ sync'.candidates = sync.candidates
  BY <1>1, <1>2 DEF SyncTasks
<1>5. TypeOK'
  BY <1>1, <1>3, <1>4 DEF TypeOK
<1>6. /\ OpenGateSound' /\ IncidentsPast' /\ ReconcilingUnreconciled' /\ CandidatesSound'
      /\ ResumesAfterIncident' /\ ContextsSound' /\ SentUnreconciled' /\ ContextsBrokered'
  BY <1>1, <1>4 DEF OpenGateSound, IncidentsPast, ReconcilingUnreconciled, CandidatesSound,
     ResumesAfterIncident, ContextsSound, SentUnreconciled, ContextsBrokered, Live
<1>7. AnswerAge'
  <2> SUFFICES ASSUME sync.answer # None
               PROVE  /\ sync'.pc = "sent"
                      /\ \A m \in Mode :
                           sync.answer.desired[m].run /\ ~dash.desired[m].run =>
                             stopAge'[m] <= sync'.age \/ sync'.age = Timeout
    BY <1>1, <1>4 DEF AnswerAge
  <2>1. sync.pc = "sent" /\ sync'.pc = "sent"
    BY <1>1, <1>2 DEF AnswerAge, SyncTasks
  <2>2. sync'.age = (IF sync.age < Timeout THEN sync.age + 1 ELSE sync.age)
    BY <1>1, <1>2, <2>1 DEF SyncTasks
  <2>3. \A m \in Mode : stopAge'[m] <= stopAge[m] + 1
    BY <1>1, <1>2
  <2> QED
    BY <1>2, <1>3, <2>1, <2>2, <2>3 DEF AnswerAge
<1>8. LeaseEnds'
  BY <1>1, <1>2, <1>4 DEF LeaseEnds
<1> QED
  BY <1>5, <1>6, <1>7, <1>8

-----------------------------------------------------------------------------
(* The inductive invariant, and what follows from it.                      *)

\* A step that changes nothing keeps the invariant.
LEMMA StutterStep ==
  ASSUME IInv, UNCHANGED vars
  PROVE  IInv'
BY DEF IInv, vars, provider, tasks, external, TypeOK, OpenGateSound, IncidentsPast,
       ReconcilingUnreconciled, CandidatesSound, ResumesAfterIncident, ContextsSound,
       SentUnreconciled, ContextsBrokered, AnswerAge, LeaseEnds, Live

\* Every step keeps the invariant.
LEMMA NextInv == IInv /\ [Next]_vars => IInv'
<1> SUFFICES ASSUME IInv, [Next]_vars PROVE IInv'
  OBVIOUS
<1>1. CASE SyncStep
  BY <1>1, SyncExchange, SyncAcceptStep, SyncOpenStep, TaskClosings DEF SyncStep
<1>2. CASE WatchdogStep
  BY <1>2, TaskClosings
<1>3. CASE CleanupStep
  BY <1>3, ReconcileSteps, TaskClosings DEF CleanupStep
<1>4. ASSUME NEW r \in Request, RequestStep(r) PROVE IInv'
  BY <1>4, ReadStateStep, RequestClosings DEF RequestStep
<1>5. CASE OperatorStep
  BY <1>5, OperatorSteps
<1>6. CASE Restart
  BY <1>6, RestartStep
<1>7. CASE Tick
  BY <1>7, TickStep
<1>8. CASE UNCHANGED vars
  BY <1>8, StutterStep
<1> QED
  BY <1>1, <1>2, <1>3, <1>4, <1>5, <1>6, <1>7, <1>8 DEF Next

\* IInv is an invariant of every behaviour of the provider.
THEOREM Inductive == Spec => []IInv
<1> QED
  BY InitInv, NextInv, PTL DEF Spec

\* Every variable keeps its type.
THEOREM TypeCorrect == Spec => []TypeOK
<1>1. IInv => TypeOK
  BY DEF IInv
<1> QED
  BY <1>1, Inductive, PTL

\* An open gate rests on a healthy provider, a registered worker, an enabled
\* mode with a broker and a reconciliation that still stands.
THEOREM OpenGates == Spec => []OpenGateSound
<1>1. IInv => OpenGateSound
  BY DEF IInv
<1> QED
  BY <1>1, Inductive, PTL

\* What Provider.admit accepts was read from the gate that is open now: the
\* version it compares tells every closure of that gate from every other.
THEOREM NoStaleContext == Spec => []StaleContextNeverAdmitted
<1>1. IInv => StaleContextNeverAdmitted
  <2> SUFFICES ASSUME IInv, NEW r \in Request, Admissible(r)
               PROVE  req[r].permit = permit[req[r].mode]
    BY DEF StaleContextNeverAdmitted
  <2>1. /\ Live(r) /\ req[r].boot = boot /\ req[r].version = version
        /\ req[r].mode \in Mode /\ modes[req[r].mode].gate
    BY DEF Admissible, Live, IInv, TypeOK
  <2>2. modes[req[r].mode].since < version
    BY <2>1 DEF IInv, OpenGateSound
  <2>3. modes[req[r].mode].since \in Nat /\ version \in Nat
    BY <2>1 DEF IInv, TypeOK, ModeRecs
  <2> QED
    BY <2>1, <2>2, <2>3 DEF IInv, ContextsSound
<1> QED
  BY <1>1, Inductive, PTL

\* A reconciled mode has no order on its way to the broker.
THEOREM ReconciledQuiet == Spec => []ReconciledMeansNoneInFlight
<1>1. IInv => ReconciledMeansNoneInFlight
  BY DEF IInv, SentUnreconciled, ReconciledMeansNoneInFlight
<1> QED
  BY <1>1, Inductive, PTL

\* No order is admitted MaxTTL after the operator's Stop, for every timeout and
\* every longest permission.
THEOREM StopIsBounded == Spec => []BoundedStop
<1>1. IInv => BoundedStop
  <2> SUFFICES ASSUME IInv, NEW r \in Request, Admissible(r), ~dash.desired[req[r].mode].run
               PROVE  stopAge[req[r].mode] < MaxTTL
    BY DEF BoundedStop
  <2>1. req[r].mode \in Mode /\ modes[req[r].mode].gate /\ lease > 0
    BY DEF Admissible, IInv, TypeOK
  <2>2. lease + stopAge[req[r].mode] <= MaxTTL
    BY <2>1 DEF IInv, LeaseEnds
  <2>3. lease \in 0..MaxTTL /\ stopAge[req[r].mode] \in 0..MaxTTL /\ MaxTTL \in Nat
    BY <2>1, TimingAssumption DEF IInv, TypeOK
  <2> QED
    BY <2>1, <2>2, <2>3
<1> QED
  BY <1>1, Inductive, PTL

\* Only SyncAccept and a restart change the configuration.
LEMMA ConfigStep ==
  ASSUME IInv, [Next]_vars, config' # config, boot' = boot
  PROVE  SyncAccept
<1> USE DEF provider, tasks, external
<1>1. SyncStep => SyncAccept
  BY DEF SyncStep, SyncSend, DashboardAnswers, SyncOpen, SyncSaveFails, SyncFail,
         SyncFailSaved, SyncFailSaveFails, PersistFails
<1>2. ~WatchdogStep
  BY DEF WatchdogStep, WatchdogExpires, WatchdogSaved, WatchdogSaveFails, Expire, PersistFails
<1>3. ~CleanupStep
  BY DEF CleanupStep, ReconcileUnbrokered, ReconcileStart, ReconcileChecksLock, ReconcileFinds,
         ReconcileRaises, CleanupSaved, CleanupSaveFails, PersistFails
<1>4. \A r \in Request : ~RequestStep(r)
  BY DEF RequestStep, RegisterWorker, ReadState, Drop, AdmitExpires, StartSubmit, SendOrder,
         DiscardOrder, OrderAnswered, OrderFails, RebalanceDone, RebalanceFails,
         StrategyFailure, RequestSaved, RequestSaveFails, PersistFails, Expire
<1>5. ~OperatorStep
  BY DEF OperatorStep, Stop, Resume, Configure
<1>6. ~Restart
  BY NewBoot
<1>7. ~Tick /\ ~UNCHANGED vars
  BY DEF Tick, vars
<1> QED
  BY <1>1, <1>2, <1>3, <1>4, <1>5, <1>6, <1>7 DEF Next

\* A new configuration is installed at rest: sync_once requires it of every
\* mode, and a reconciled closed mode has no order on its way.
THEOREM ConfigAtRest == Spec => ConfigChangesOnlyAtRest
<1>1. IInv /\ [Next]_vars =>
        [config' # config /\ boot' = boot =>
           /\ \A m \in Mode : ~modes[m].gate /\ modes[m].reconciled
           /\ \A r \in Request : req[r].pc # "sent"]_vars
  <2> SUFFICES ASSUME IInv, [Next]_vars, config' # config, boot' = boot
               PROVE  /\ \A m \in Mode : ~modes[m].gate /\ modes[m].reconciled
                      /\ \A r \in Request : req[r].pc # "sent"
    OBVIOUS
  <2>1. SyncAccept
    BY ConfigStep
  <2>2. AnswerValid(sync.answer) /\ sync.answer.revision # revision
    BY <2>1 DEF SyncAccept, AnswerValid
  <2>3. \A m \in Mode : ~modes[m].gate /\ modes[m].reconciled
    BY <2>2 DEF AnswerValid
  <2>4. \A r \in Request : req[r].pc = "sent" => req[r].mode \in Mode
    BY DEF IInv, TypeOK
  <2> QED
    BY <2>3, <2>4 DEF IInv, SentUnreconciled
<1> QED
  BY <1>1, Inductive, PTL DEF Spec, ConfigChangesOnlyAtRest

\* Only SyncOpen opens a gate.
LEMMA OpeningStep ==
  ASSUME IInv, [Next]_vars, NEW m \in Mode, ~modes[m].gate, modes'[m].gate
  PROVE  SyncOpen
<1> USE DEF provider, tasks, external
<1>1. TypeOK /\ modes \in [Mode -> ModeRecs]
  BY DEF IInv, TypeOK
<1>2. ASSUME NEW M, NEW reason \in Reasons, NEW force \in BOOLEAN PROVE ~CloseAll(M, reason, force)
  <2> SUFFICES ASSUME CloseAll(M, reason, force) PROVE FALSE
    OBVIOUS
  <2>1. SomeClose
    BY <1>1, CloseAllFacts
  <2> QED
    BY <2>1 DEF SomeClose, ClosedAs
<1>3. /\ "expired" \in Reasons /\ "database" \in Reasons /\ "forced" \in Reasons
      /\ TRUE \in BOOLEAN /\ FALSE \in BOOLEAN
  BY DEF Reasons
<1>4. ~Expire /\ ~PersistFails
  BY <1>2, <1>3 DEF Expire, PersistFails
<1>5. SyncStep => SyncOpen
  <2>1. ~SyncAccept
    <3> SUFFICES ASSUME SyncAccept PROVE FALSE
      OBVIOUS
    <3>1. sync.answer \in Dashboard /\ modes'[m] = Installed(sync.answer, m)
      BY <1>1 DEF SyncAccept, TypeOK, SyncTasks
    <3> QED
      BY <1>1, <3>1, InstalledFacts DEF ClosedAs
  <2> QED
    BY <1>2, <1>3, <1>4, <2>1 DEF SyncStep, SyncSend, DashboardAnswers, SyncSaveFails, SyncFail,
       SyncFailSaved, SyncFailSaveFails
<1>6. ~WatchdogStep
  BY <1>4 DEF WatchdogStep, WatchdogExpires, WatchdogSaved, WatchdogSaveFails
<1>7. ~CleanupStep
  <2>1. \A q \in Mode, x \in BOOLEAN : [modes EXCEPT ![q].reconciled = x][m].gate = modes[m].gate
    BY <1>1 DEF ModeRecs
  <2>2. cleanup.pc # "resting" => cleanup.mode \in Mode
    BY <1>1 DEF TypeOK
  <2>3. \A q \in Mode, x \in BOOLEAN : modes' # [modes EXCEPT ![q].reconciled = x]
    BY <2>1
  <2> QED
    BY <1>4, <2>2, <2>3 DEF CleanupStep, ReconcileUnbrokered, ReconcileStart,
       ReconcileChecksLock, ReconcileFinds, ReconcileRaises, CleanupSaved, CleanupSaveFails
<1>8. \A r \in Request : ~RequestStep(r)
  BY <1>2, <1>3, <1>4 DEF RequestStep, RegisterWorker, ReadState, Drop, AdmitExpires, StartSubmit,
     SendOrder, DiscardOrder, OrderAnswered, OrderFails, RebalanceDone, RebalanceFails,
     StrategyFailure, RequestSaved, RequestSaveFails
<1>9. ~OperatorStep /\ ~Tick /\ ~UNCHANGED vars
  BY DEF OperatorStep, Stop, Resume, Configure, Tick, vars
<1>10. ~Restart
  BY DEF Restart
<1> QED
  BY <1>5, <1>6, <1>7, <1>8, <1>9, <1>10 DEF Next

\* A gate opens by a Resume that is newer than the closure it undoes, and under
\* a live permission: what opens is a candidate whose incident still stands.
THEOREM ResumeAfterClosure == Spec => ResumeFollowsClosure
<1>1. IInv /\ [Next]_vars =>
        [\A m \in Mode : ~modes[m].gate /\ modes'[m].gate =>
           /\ permit'[m] > modes[m].closedAt
           /\ healthy' /\ lease' > 0]_vars
  <2> SUFFICES ASSUME IInv, [Next]_vars, NEW m \in Mode, ~modes[m].gate, modes'[m].gate
               PROVE  permit'[m] > modes[m].closedAt /\ healthy' /\ lease' > 0
    OBVIOUS
  <2>1. SyncOpen
    BY OpeningStep
  <2>2. Opens(m) /\ permit'[m] = sync.candidates[m].resume
    BY <2>1 DEF SyncOpen, IInv, TypeOK
  <2> QED
    BY <2>1, <2>2 DEF SyncOpen, Opens, IInv, CandidatesSound
<1> QED
  BY <1>1, Inductive, PTL DEF Spec, ResumeFollowsClosure

=============================================================================
