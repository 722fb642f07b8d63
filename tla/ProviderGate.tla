---------------------------- MODULE ProviderGate ----------------------------
(***************************************************************************)
(* The execution gate of the account provider (src/control/provider.py and *)
(* the two execution routes of src/provider_instance/server.py): who may   *)
(* send an order, and until when.                                          *)
(*                                                                         *)
(* The provider is one asyncio program.  Between two awaits a handler runs *)
(* alone, so one action below is the code between two awaits, and the      *)
(* tasks of the program (the dashboard sync, the watchdog, the cleanup     *)
(* loop and one slot per worker request) interleave at their awaits.       *)
(*                                                                         *)
(* Time is a countdown: `lease` is what is left until self.deadline and    *)
(* sync.age is the time since the outstanding sync was sent.               *)
(*                                                                         *)
(* Incident, boot and session ids are fresh uuid4s.  Here each is a number *)
(* that no part of the system still holds, which no holder can tell from a *)
(* uuid and which keeps the ids of a behaviour in a finite set.            *)
(*                                                                         *)
(* Orders themselves (records, fills, what reconciliation finds at the     *)
(* broker) are abstracted to: a request submits one order at a time, the   *)
(* answer comes or does not, and a reconciliation finds something          *)
(* outstanding or not.                                                     *)
(***************************************************************************)
EXTENDS Naturals, FiniteSets

CONSTANTS
  Mode,         \* the trading modes, paper and live
  Brokered,     \* the modes with broker credentials (Provider.brokers)
  Request,      \* slots for worker requests that may be in flight together
  None,         \* no value: no configuration, session, incident or answer
  Timeout,      \* Provider.timeout: bound on one sync and on one save
  MaxTTL,       \* Provider.max_ttl: the longest permission accepted
  Assignable,   \* the configurations the operator may assign (sets of modes)
  MaxVersion,   \* bound: operator actions (control versions) in a behaviour
  MaxRevision   \* bound: configurations in a behaviour

ASSUME ModesAssumption ==
  /\ IsFiniteSet(Mode)
  /\ Brokered \subseteq Mode
  /\ IsFiniteSet(Request)

ASSUME TimingAssumption ==
  /\ Timeout \in Nat \ {0}
  /\ MaxTTL \in Nat
  /\ Timeout < MaxTTL

ASSUME AssignableAssumption == Assignable \subseteq SUBSET Mode

ASSUME BoundsAssumption == MaxVersion \in Nat /\ MaxRevision \in Nat

ASSUME NoneAssumption ==
  /\ None \notin Nat
  /\ None \notin Mode
  /\ None \notin [mode : Mode, permit : Nat, sending : BOOLEAN]

\* No configuration is assigned (Provider.configuration is None).
Unassigned == {None}

VARIABLES
  healthy,   \* Provider.healthy
  lease,     \* time left until Provider.deadline, 0 when it has passed
  version,   \* Provider.version
  revision,  \* Provider.revision
  config,    \* Provider.configuration: the set of enabled modes, or Unassigned
  boot,      \* Provider.boot_id
  session,   \* Provider.worker_session
  modes,     \* Provider.modes, with `since` for incident_version, and (history)
             \* closedAt: the operator's last action when the incident began
  sync,      \* the task in sync_loop
  watchdog,  \* the task in watchdog
  cleanup,   \* the task in cleanup_loop
  req,       \* the worker's requests, the contexts they carry and (history) the
             \* permit the gate of the context was open under when it was read
  dash,      \* the dashboard's control record
  seen,      \* the incidents the dashboard was last told of
  permit,    \* history: the resume version each gate was last opened with
  stopAge    \* history: time since the operator's Stop, up to MaxTTL

provider == <<healthy, lease, version, revision, config, boot, session, modes>>
tasks    == <<sync, watchdog, cleanup>>
external == <<dash, seen>>
vars     == <<provider, tasks, req, external, permit, stopAge>>

-----------------------------------------------------------------------------
Reasons == {"startup", "database", "expired", "forced"}

\* The desired state of one mode at the dashboard.
Paused(stop) == [run |-> FALSE, stop |-> stop, resume |-> 0, incident |-> None]

NoContext == [pc |-> "idle", mode |-> None, session |-> None, boot |-> 0,
              version |-> 0, config |-> Unassigned, permit |-> 0]
NoResume  == [incident |-> None, resume |-> 0]
Idle      == [pc |-> "idle", age |-> 0, report |-> [m \in Mode |-> None],
              answer |-> None, candidates |-> [m \in Mode |-> NoResume]]
Resting   == [pc |-> "resting", mode |-> None, incident |-> None]

\* Every incident of mode m that some part of the system still holds.
Held(m) ==
  {modes[m].incident, seen[m], dash.desired[m].incident,
   sync.report[m], sync.candidates[m].incident, cleanup.incident}
  \cup (IF sync.answer = None THEN {} ELSE {sync.answer.desired[m].incident})

\* uuid4(): an id that is not in the set of ids still held.
Unheld(held) == CHOOSE i \in 0..Cardinality(held) : i \notin held
Fresh(m)     == Unheld(Held(m))

\* Mutant: a closed or closing gate keeps its incident unless forced.
CloseKeepingIncident(m, reason, force, v) ==
  IF force
  THEN [gate |-> FALSE, incident |-> Fresh(m), since |-> v,
        reconciled |-> FALSE, reason |-> reason, closedAt |-> dash.version]
  ELSE [modes[m] EXCEPT !.gate = FALSE, !.reconciled = FALSE, !.reason = reason]

\* Provider.close of one mode at control version v.  A closed gate keeps its
\* incident when it is closed again for the reason it already has.
Close(m, reason, force, v) ==
  IF modes[m].gate \/ force \/ modes[m].reason # reason
  THEN [gate |-> FALSE, incident |-> Fresh(m), since |-> v,
        reconciled |-> FALSE, reason |-> reason, closedAt |-> dash.version]
  ELSE [modes[m] EXCEPT !.reconciled = FALSE]

\* Provider.close(M, reason, force)
CloseAll(M, reason, force) ==
  modes' = [m \in Mode |->
              IF m \in M THEN Close(m, reason, force, version) ELSE modes[m]]

\* Provider.persist failed: every gate closes and the provider is unhealthy.
PersistFails ==
  /\ CloseAll(Mode, "database", FALSE)
  /\ healthy' = FALSE
  /\ UNCHANGED <<lease, version, revision, config, boot, session>>

\* Mutant: admit does not compare the control version.
AdmissibleAnyVersion(r) ==
  /\ req[r].pc \in {"holding", "submitting"}
  /\ healthy /\ lease > 0 /\ modes[req[r].mode].gate
  /\ req[r].session = session /\ req[r].boot = boot /\ req[r].config = config

\* The checks of Provider.admit on the context request r carries.
Admissible(r) ==
  LET c == req[r] IN
  /\ c.pc \in {"holding", "submitting"}
  /\ healthy
  /\ lease > 0
  /\ modes[c.mode].gate
  /\ c.session = session
  /\ c.boot = boot
  /\ c.version = version
  /\ c.config = config

\* order_locks[m] and rebalance_locks[m]: some request is inside submit.
OrderLocked(m) == \E r \in Request : req[r].mode = m /\ req[r].pc \in {"submitting", "sent"}

Init ==
  /\ healthy = FALSE
  /\ lease = 0
  /\ version = 0
  /\ revision = 0
  /\ config = Unassigned
  /\ boot = 1
  /\ session = None
  /\ modes = [m \in Mode |-> [gate |-> FALSE, incident |-> 0, since |-> 0,
                              reconciled |-> FALSE, reason |-> "startup", closedAt |-> 0]]
  /\ sync = Idle
  /\ watchdog = "watching"
  /\ cleanup = Resting
  /\ req = [r \in Request |-> NoContext]
  /\ dash = [version |-> 0, revision |-> 0, config |-> Unassigned,
             desired |-> [m \in Mode |-> Paused(0)]]
  /\ seen = [m \in Mode |-> None]
  /\ permit = [m \in Mode |-> 0]
  /\ stopAge = [m \in Mode |-> MaxTTL]

-----------------------------------------------------------------------------
(* Provider.sync_once                                                      *)

\* A sync is sent with the provider's state.
SyncSend ==
  /\ sync.pc = "idle"
  /\ sync' = [Idle EXCEPT !.pc = "sent",
                          !.report = [m \in Mode |-> modes[m].incident]]
  /\ UNCHANGED <<provider, watchdog, cleanup, req, external, permit, stopAge>>

\* External: the dashboard receives the sync and answers with its record.
DashboardAnswers ==
  /\ sync.pc = "sent"
  /\ sync.answer = None
  /\ sync' = [sync EXCEPT !.report = Idle.report, !.answer = dash]
  /\ seen' = sync.report
  /\ UNCHANGED <<provider, watchdog, cleanup, req, dash, permit, stopAge>>

\* Mutant: a new configuration does not wait for a reconciled pause.
AnswerValidAnytime(a) ==
  /\ a.version >= version
  /\ a.revision >= revision
  /\ a.config \subseteq Brokered

\* The answer passes the checks of sync_once on its versions and configuration.
AnswerValid(a) ==
  /\ a.version >= version
  /\ a.revision >= revision
  /\ \A m \in Mode :
       /\ a.desired[m].stop <= a.version
       /\ IF a.desired[m].run
          THEN /\ a.desired[m].incident # None
               /\ a.desired[m].stop < a.desired[m].resume
               /\ a.desired[m].resume <= a.version
          ELSE a.desired[m].incident = None
  /\ IF a.config = Unassigned THEN a.revision = 0 ELSE a.config \subseteq Brokered
  /\ a.revision = revision => a.config = config
  /\ a.revision # revision => \A m \in Mode : ~modes[m].gate /\ modes[m].reconciled

\* What mode m becomes when the answer is installed.
Installed(a, m) ==
  LET enabled == m \in a.config
      desired == a.desired[m]
  IN CASE a.revision # revision -> Close(m, "forced", TRUE, a.version)
       [] a.revision = revision /\ ~enabled /\ modes[m].gate ->
            Close(m, "forced", FALSE, a.version)
       [] a.revision = revision /\ enabled /\ ~desired.run
            /\ (modes[m].gate \/ desired.stop > modes[m].since) ->
            Close(m, "forced", TRUE, a.version)
       [] OTHER -> modes[m]

\* Mutant: a Resume opens whatever incident the mode has by now.
ResumableAnyIncident(a, m) ==
  /\ a.revision = revision /\ m \in a.config /\ a.desired[m].run
  /\ session # None /\ modes[m].reconciled
  /\ a.desired[m].resume > modes[m].since

\* Mode m may open once the new state is saved: Resume names its incident.
Resumable(a, m) ==
  /\ a.revision = revision
  /\ m \in a.config
  /\ a.desired[m].run
  /\ session # None
  /\ modes[m].reconciled
  /\ a.desired[m].incident = modes[m].incident
  /\ a.desired[m].resume > modes[m].since

\* Mutant: the lease runs from the arrival of the answer.
SyncAcceptFromArrival ==
  /\ sync.pc = "sent" /\ sync.answer # None
  /\ AnswerValid(sync.answer)
  /\ \E ttl \in 1..MaxTTL : sync.age < ttl /\ sync.age < Timeout /\ lease' = ttl
  /\ version' = sync.answer.version
  /\ revision' = sync.answer.revision
  /\ config' = sync.answer.config
  /\ modes' = [m \in Mode |-> Installed(sync.answer, m)]
  /\ sync' = [Idle EXCEPT !.pc = "opening", !.candidates = [m \in Mode |->
                IF Resumable(sync.answer, m)
                THEN [incident |-> modes[m].incident,
                      resume |-> sync.answer.desired[m].resume] ELSE NoResume]]
  /\ healthy' = TRUE
  /\ UNCHANGED <<boot, session, watchdog, cleanup, req, external, permit, stopAge>>

\* A valid answer arrives in time: the provider takes over version,
\* configuration and lease, closes what must close, and starts to save.
SyncAccept ==
  /\ sync.pc = "sent"
  /\ sync.answer # None
  /\ AnswerValid(sync.answer)
  /\ \E ttl \in 1..MaxTTL :
       /\ sync.age < ttl /\ sync.age < Timeout
       /\ lease' = ttl - sync.age
  /\ LET a == sync.answer IN
       /\ version' = a.version
       /\ revision' = a.revision
       /\ config' = a.config
       /\ modes' = [m \in Mode |-> Installed(a, m)]
       /\ sync' = [Idle EXCEPT
            !.pc = "opening",
            !.candidates = [m \in Mode |->
               IF Resumable(a, m)
               THEN [incident |-> modes[m].incident, resume |-> a.desired[m].resume]
               ELSE NoResume]]
  /\ healthy' = TRUE
  /\ UNCHANGED <<boot, session, watchdog, cleanup, req, external, permit, stopAge>>

\* Mutant: reconciliation is not looked at again after the save.
OpensUnreconciled(m) ==
  sync.candidates[m].incident = modes[m].incident /\ healthy /\ lease > 0

\* After the save a candidate opens if nothing happened to it meanwhile.
Opens(m) ==
  /\ sync.candidates[m].incident = modes[m].incident
  /\ modes[m].reconciled
  /\ healthy
  /\ lease > 0

SyncOpen ==
  /\ sync.pc = "opening"
  /\ modes' = [m \in Mode |-> IF Opens(m)
                              THEN [modes[m] EXCEPT !.gate = TRUE, !.reason = None]
                              ELSE modes[m]]
  /\ permit' = [m \in Mode |-> IF Opens(m) /\ ~modes[m].gate
                               THEN sync.candidates[m].resume ELSE permit[m]]
  /\ sync' = Idle
  /\ UNCHANGED <<healthy, lease, version, revision, config, boot, session,
                 watchdog, cleanup, req, external, stopAge>>

\* The save before opening fails.  The handler's own close then finds nothing
\* open and the provider already unhealthy; it saves once more.
SyncSaveFails ==
  /\ sync.pc = "opening"
  /\ PersistFails
  /\ sync' = [Idle EXCEPT !.pc = "failing"]
  /\ UNCHANGED <<watchdog, cleanup, req, external, permit, stopAge>>

\* No answer in time, an invalid one, or one whose packages do not arrive.
SyncFail ==
  /\ sync.pc = "sent"
  /\ healthy' = FALSE
  /\ IF healthy \/ \E m \in Mode : modes[m].gate
     THEN CloseAll(Mode, "forced", TRUE)
     ELSE UNCHANGED modes
  /\ sync' = [Idle EXCEPT !.pc = "failing"]
  /\ UNCHANGED <<lease, version, revision, config, boot, session,
                 watchdog, cleanup, req, external, permit, stopAge>>

\* The best-effort save at the end of a failed sync.
SyncFailSaved ==
  /\ sync.pc = "failing"
  /\ sync' = Idle
  /\ UNCHANGED <<provider, watchdog, cleanup, req, external, permit, stopAge>>

SyncFailSaveFails ==
  /\ sync.pc = "failing"
  /\ PersistFails
  /\ sync' = Idle
  /\ UNCHANGED <<watchdog, cleanup, req, external, permit, stopAge>>

-----------------------------------------------------------------------------
(* Provider.watchdog                                                       *)

\* Mutant: expiry marks the provider unhealthy and leaves the gates.
ExpireUnclosed ==
  /\ healthy /\ lease = 0
  /\ healthy' = FALSE
  /\ UNCHANGED <<lease, version, revision, config, boot, session, modes>>

\* self.healthy = False and close(MODES, "permission_expired")
Expire ==
  /\ healthy
  /\ lease = 0
  /\ healthy' = FALSE
  /\ CloseAll(Mode, "expired", FALSE)
  /\ UNCHANGED <<lease, version, revision, config, boot, session>>

WatchdogExpires ==
  /\ watchdog = "watching"
  /\ Expire
  /\ watchdog' = "saving"
  /\ UNCHANGED <<sync, cleanup, req, external, permit, stopAge>>

WatchdogSaved ==
  /\ watchdog = "saving"
  /\ watchdog' = "watching"
  /\ UNCHANGED <<provider, sync, cleanup, req, external, permit, stopAge>>

\* Mutant: a failed save ends the watchdog task.
WatchdogDies ==
  /\ watchdog = "saving"
  /\ PersistFails
  /\ watchdog' = "dead"
  /\ UNCHANGED <<sync, cleanup, req, external, permit, stopAge>>

WatchdogSaveFails ==
  /\ watchdog = "saving"
  /\ PersistFails
  /\ watchdog' = "watching"
  /\ UNCHANGED <<sync, cleanup, req, external, permit, stopAge>>

-----------------------------------------------------------------------------
(* Provider.cleanup_loop and Provider.reconcile                            *)

\* A mode without a broker has nothing to reconcile.
ReconcileUnbrokered(m) ==
  /\ cleanup.pc = "resting"
  /\ ~modes[m].gate
  /\ m \notin Brokered
  /\ modes' = [modes EXCEPT ![m].reconciled = TRUE]
  /\ cleanup' = [Resting EXCEPT !.pc = "saving", !.mode = m]
  /\ UNCHANGED <<healthy, lease, version, revision, config, boot, session,
                 sync, watchdog, req, external, permit, stopAge>>

\* Mutant: an open gate is reconciled as well.
ReconcileStartOpen(m) ==
  /\ cleanup.pc = "resting" /\ m \in Brokered
  /\ modes' = [modes EXCEPT ![m].reconciled = FALSE]
  /\ cleanup' = [pc |-> "reading", mode |-> m, incident |-> modes[m].incident]
  /\ UNCHANGED <<healthy, lease, version, revision, config, boot, session,
                 sync, watchdog, req, external, permit, stopAge>>

\* The incident is remembered and the order records are read.
ReconcileStart(m) ==
  /\ cleanup.pc = "resting"
  /\ ~modes[m].gate
  /\ m \in Brokered
  /\ modes' = [modes EXCEPT ![m].reconciled = FALSE]
  /\ cleanup' = [pc |-> "reading", mode |-> m, incident |-> modes[m].incident]
  /\ UNCHANGED <<healthy, lease, version, revision, config, boot, session,
                 sync, watchdog, req, external, permit, stopAge>>

\* Mutant: a submission in flight is not waited for.
ReconcileIgnoresLock ==
  /\ cleanup.pc = "reading"
  /\ cleanup' = [cleanup EXCEPT !.pc = "asking"]
  /\ UNCHANGED <<provider, sync, watchdog, req, external, permit, stopAge>>

\* With the records read, a submission in flight ends the reconciliation.
ReconcileChecksLock ==
  /\ cleanup.pc = "reading"
  /\ IF OrderLocked(cleanup.mode)
     THEN /\ modes' = [modes EXCEPT ![cleanup.mode].reconciled = FALSE]
          /\ cleanup' = Resting
     ELSE /\ cleanup' = [cleanup EXCEPT !.pc = "asking"]
          /\ UNCHANGED modes
  /\ UNCHANGED <<healthy, lease, version, revision, config, boot, session,
                 sync, watchdog, req, external, permit, stopAge>>

\* The broker has answered for every order: outstanding or not.
ReconcileFinds(outstanding) ==
  /\ cleanup.pc = "asking"
  /\ modes' = IF modes[cleanup.mode].incident = cleanup.incident
              THEN [modes EXCEPT ![cleanup.mode].reconciled = ~outstanding]
              ELSE modes
  /\ cleanup' = [cleanup EXCEPT !.pc = "saving", !.incident = None]
  /\ UNCHANGED <<healthy, lease, version, revision, config, boot, session,
                 sync, watchdog, req, external, permit, stopAge>>

\* reconcile raised: a database or a broker read failed.
ReconcileRaises ==
  /\ cleanup.pc \in {"reading", "asking"}
  /\ modes' = [modes EXCEPT ![cleanup.mode].reconciled = FALSE]
  /\ cleanup' = [cleanup EXCEPT !.pc = "retrying", !.incident = None]
  /\ UNCHANGED <<healthy, lease, version, revision, config, boot, session,
                 sync, watchdog, req, external, permit, stopAge>>

CleanupSaved ==
  /\ cleanup.pc \in {"saving", "retrying"}
  /\ cleanup' = Resting
  /\ UNCHANGED <<provider, sync, watchdog, req, external, permit, stopAge>>

\* reconcile's own save raises into cleanup_loop, which saves once more.
CleanupSaveFails ==
  /\ cleanup.pc \in {"saving", "retrying"}
  /\ PersistFails
  /\ cleanup' = IF cleanup.pc = "saving"
                THEN [cleanup EXCEPT !.pc = "retrying"] ELSE Resting
  /\ UNCHANGED <<sync, watchdog, req, external, permit, stopAge>>

-----------------------------------------------------------------------------
(* The worker and its requests                                             *)

\* The worker registers a new session (worker.register).
RegisterWorker(r) ==
  /\ req[r].pc = "idle"
  /\ CloseAll(Mode, "forced", TRUE)
  /\ session' = Unheld({session} \cup {req[q].session : q \in Request})
  /\ req' = [req EXCEPT ![r].pc = "saving"]
  /\ UNCHANGED <<healthy, lease, version, revision, config, boot,
                 tasks, external, permit, stopAge>>

\* The worker reads the state of an open gate and makes a context of it.
ReadState(r, m) ==
  /\ req[r].pc = "idle"
  /\ modes[m].gate
  /\ req' = [req EXCEPT ![r] =
       [pc |-> "holding", mode |-> m, session |-> session, boot |-> boot,
        version |-> version, config |-> config, permit |-> permit[m]]]
  /\ UNCHANGED <<provider, tasks, external, permit, stopAge>>

\* The worker gives up the context, or a route refused it.
Drop(r) ==
  /\ req[r].pc = "holding"
  /\ req' = [req EXCEPT ![r] = NoContext]
  /\ UNCHANGED <<provider, tasks, external, permit, stopAge>>

\* admit notices that the permission has expired before the watchdog does.
AdmitExpires(r) ==
  /\ req[r].pc \in {"holding", "submitting"}
  /\ Expire
  /\ req' = [req EXCEPT ![r] = NoContext]
  /\ UNCHANGED <<tasks, external, permit, stopAge>>

\* Mutant: submissions of one mode are not serialised.
StartSubmitUnlocked(r) ==
  /\ req[r].pc = "holding"
  /\ Admissible(r)
  /\ req' = [req EXCEPT ![r].pc = "submitting"]
  /\ UNCHANGED <<provider, tasks, external, permit, stopAge>>

\* submit: admitted, waits for the order lock and then for the database.
StartSubmit(r) ==
  /\ req[r].pc = "holding"
  /\ Admissible(r)
  /\ ~OrderLocked(req[r].mode)
  /\ req' = [req EXCEPT ![r].pc = "submitting"]
  /\ UNCHANGED <<provider, tasks, external, permit, stopAge>>

\* The last admit, on the event loop right before the order is written.
SendOrder(r) ==
  /\ req[r].pc = "submitting"
  /\ Admissible(r)
  /\ req' = [req EXCEPT ![r].pc = "sent"]
  /\ UNCHANGED <<provider, tasks, external, permit, stopAge>>

\* The last admit refuses: the order is discarded and the rebalance ends.
DiscardOrder(r) ==
  /\ req[r].pc = "submitting"
  /\ ~Admissible(r)
  /\ req' = [req EXCEPT ![r] = NoContext]
  /\ UNCHANGED <<provider, tasks, external, permit, stopAge>>

\* The broker accepted; the rebalance may go on with its next order.
OrderAnswered(r) ==
  /\ req[r].pc = "sent"
  /\ req' = [req EXCEPT ![r].pc = "holding"]
  /\ UNCHANGED <<provider, tasks, external, permit, stopAge>>

\* The broker call failed: not submitted, rejected or outcome unknown.
OrderFails(r) ==
  /\ req[r].pc \in {"submitting", "sent"}
  /\ healthy' = FALSE
  /\ CloseAll(Mode, "forced", TRUE)
  /\ req' = [req EXCEPT ![r] = [NoContext EXCEPT !.pc = "saving"]]
  /\ UNCHANGED <<lease, version, revision, config, boot, session,
                 tasks, external, permit, stopAge>>

\* All orders are placed: _rebalance saves the state.
RebalanceDone(r) ==
  /\ req[r].pc = "holding"
  /\ req' = [req EXCEPT ![r] = [NoContext EXCEPT !.pc = "saving"]]
  /\ UNCHANGED <<provider, tasks, external, permit, stopAge>>

\* A database or broker read failed outside the handlers of submit: the
\* route closes the gates and leaves the provider healthy.
RebalanceFails(r) ==
  /\ req[r].pc \in {"holding", "submitting", "sent"}
  /\ CloseAll(Mode, "database", FALSE)
  /\ req' = [req EXCEPT ![r] = NoContext]
  /\ UNCHANGED <<healthy, lease, version, revision, config, boot, session,
                 tasks, external, permit, stopAge>>

\* /internal/failure: an admitted context closes its mode.
StrategyFailure(r) ==
  /\ req[r].pc = "holding"
  /\ Admissible(r)
  /\ CloseAll({req[r].mode}, "forced", TRUE)
  /\ req' = [req EXCEPT ![r] = [NoContext EXCEPT !.pc = "saving"]]
  /\ UNCHANGED <<healthy, lease, version, revision, config, boot, session,
                 tasks, external, permit, stopAge>>

RequestSaved(r) ==
  /\ req[r].pc = "saving"
  /\ req' = [req EXCEPT ![r] = NoContext]
  /\ UNCHANGED <<provider, tasks, external, permit, stopAge>>

RequestSaveFails(r) ==
  /\ req[r].pc = "saving"
  /\ PersistFails
  /\ req' = [req EXCEPT ![r] = NoContext]
  /\ UNCHANGED <<tasks, external, permit, stopAge>>

-----------------------------------------------------------------------------
(* The dashboard (external), restarts and time                             *)

\* The operator stops mode m.
Stop(m) ==
  /\ dash.version < MaxVersion
  /\ dash' = [dash EXCEPT !.version = @ + 1,
                          !.desired[m] = Paused(dash.version + 1)]
  /\ stopAge' = [stopAge EXCEPT ![m] = 0]
  /\ UNCHANGED <<provider, tasks, req, seen, permit>>

\* The operator resumes mode m, for the incident the provider last reported.
Resume(m) ==
  /\ dash.version < MaxVersion
  /\ seen[m] # None
  /\ dash' = [dash EXCEPT !.version = @ + 1,
       !.desired[m] = [run |-> TRUE, stop |-> dash.desired[m].stop,
                       resume |-> dash.version + 1, incident |-> seen[m]]]
  /\ stopAge' = [stopAge EXCEPT ![m] = MaxTTL]
  /\ UNCHANGED <<provider, tasks, req, seen, permit>>

\* A new configuration, enabling the modes in c, is assigned.
Configure(c) ==
  /\ dash.revision < MaxRevision
  /\ dash' = [dash EXCEPT !.revision = @ + 1, !.config = c]
  /\ UNCHANGED <<provider, tasks, req, seen, permit, stopAge>>

\* The provider stops or crashes and a new process starts: what it kept in
\* memory is gone, its handlers die, and the worker still holds its contexts.
Restart ==
  /\ boot' = Unheld({boot} \cup {req[r].boot : r \in Request})
  /\ healthy' = FALSE
  /\ lease' = 0
  /\ version' = 0
  /\ revision' = 0
  /\ config' = Unassigned
  /\ session' = None
  /\ modes' = [m \in Mode |-> [gate |-> FALSE, incident |-> Fresh(m), since |-> 0,
                               reconciled |-> FALSE, reason |-> "startup",
                               closedAt |-> dash.version]]
  /\ sync' = Idle
  /\ watchdog' = "watching"
  /\ cleanup' = Resting
  /\ req' = [r \in Request |-> IF req[r].pc = "holding" THEN req[r] ELSE NoContext]
  /\ UNCHANGED <<external, permit, stopAge>>

\* One unit of time passes.
Tick ==
  /\ lease' = IF lease = 0 THEN 0 ELSE lease - 1
  /\ sync' = IF sync.pc = "sent" /\ sync.age < Timeout
             THEN [sync EXCEPT !.age = @ + 1] ELSE sync
  /\ stopAge' = [m \in Mode |-> IF stopAge[m] < MaxTTL THEN stopAge[m] + 1 ELSE MaxTTL]
  /\ UNCHANGED <<healthy, version, revision, config, boot, session, modes,
                 watchdog, cleanup, req, external, permit>>

-----------------------------------------------------------------------------
SyncStep == SyncSend \/ DashboardAnswers \/ SyncAccept \/ SyncOpen \/ SyncSaveFails
            \/ SyncFail \/ SyncFailSaved \/ SyncFailSaveFails

WatchdogStep == WatchdogExpires \/ WatchdogSaved \/ WatchdogSaveFails

CleanupStep ==
  \/ \E m \in Mode : ReconcileUnbrokered(m) \/ ReconcileStart(m)
  \/ ReconcileChecksLock
  \/ \E outstanding \in BOOLEAN : ReconcileFinds(outstanding)
  \/ ReconcileRaises
  \/ CleanupSaved
  \/ CleanupSaveFails

RequestStep(r) ==
  \/ RegisterWorker(r)
  \/ \E m \in Mode : ReadState(r, m)
  \/ Drop(r) \/ AdmitExpires(r)
  \/ StartSubmit(r) \/ SendOrder(r) \/ DiscardOrder(r) \/ OrderAnswered(r)
  \/ OrderFails(r) \/ RebalanceDone(r) \/ RebalanceFails(r) \/ StrategyFailure(r)
  \/ RequestSaved(r) \/ RequestSaveFails(r)

OperatorStep ==
  \/ \E m \in Mode : Stop(m) \/ Resume(m)
  \/ \E c \in Assignable : Configure(c)

Next ==
  \/ SyncStep
  \/ WatchdogStep
  \/ CleanupStep
  \/ \E r \in Request : RequestStep(r)
  \/ OperatorStep
  \/ Restart
  \/ Tick

Spec == Init /\ [][Next]_vars

\* What the code's scheduling justifies: a permission runs out, the watchdog
\* (it runs every 0.1 s) takes its next step, and a save ends within its
\* timeout.  Nothing is assumed of the dashboard, the worker or the database:
\* they may be gone for good.
Fairness == /\ WF_vars(Tick /\ healthy /\ lease > 0)
            /\ WF_vars(WatchdogExpires)
            /\ WF_vars(WatchdogSaved \/ WatchdogSaveFails)

FairSpec == Spec /\ Fairness

-----------------------------------------------------------------------------
(* Correctness                                                             *)

Ids       == Nat
MaybeId   == Ids \cup {None}
Configs   == (SUBSET Mode) \cup {Unassigned}
Desired   == [run : BOOLEAN, stop : Nat, resume : Nat, incident : MaybeId]
Dashboard == [version : Nat, revision : Nat, config : Configs, desired : [Mode -> Desired]]
ModeRecs  == [gate : BOOLEAN, incident : Ids, since : Nat, reconciled : BOOLEAN,
              reason : Reasons \cup {None}, closedAt : Nat]
Resumes   == [incident : MaybeId, resume : Nat]
SyncTasks == [pc : {"idle", "sent", "opening", "failing"}, age : 0..Timeout,
              report : [Mode -> MaybeId], answer : Dashboard \cup {None},
              candidates : [Mode -> Resumes]]
Cleanups  == [pc : {"resting", "reading", "asking", "saving", "retrying"},
              mode : Mode \cup {None}, incident : MaybeId]
Contexts  == [pc : {"idle", "holding", "submitting", "sent", "saving"},
              mode : Mode \cup {None}, session : MaybeId, boot : Ids,
              version : Nat, config : Configs, permit : Nat]

\* The values every variable ranges over.
TypeOK ==
  /\ healthy \in BOOLEAN
  /\ lease \in 0..MaxTTL
  /\ version \in Nat
  /\ revision \in Nat
  /\ config \in Configs
  /\ boot \in Ids
  /\ session \in MaybeId
  /\ modes \in [Mode -> ModeRecs]
  /\ sync \in SyncTasks
  /\ watchdog \in {"watching", "saving"}
  /\ cleanup \in Cleanups
  /\ cleanup.pc # "resting" => cleanup.mode \in Mode
  /\ req \in [Request -> Contexts]
  /\ \A r \in Request : req[r].pc \in {"holding", "submitting", "sent"} => req[r].mode \in Mode
  /\ dash \in Dashboard
  /\ seen \in [Mode -> MaybeId]
  /\ permit \in [Mode -> Nat]
  /\ stopAge \in [Mode -> 0..MaxTTL]

\* An order is admitted only under the Resume its context was read under: a
\* context from before a closure of its gate (a stop, a failure, an expired
\* permission, a worker or provider restart) is never admitted again, however
\* the gate was reopened meanwhile (Provider.admit, close and sync_once).
StaleContextNeverAdmitted ==
  \A r \in Request : Admissible(r) => req[r].permit = permit[req[r].mode]

\* What an open gate rests on: a healthy provider, a registered worker, a mode
\* that is enabled and has a broker, a reconciliation that is neither undone
\* nor running again, and a version past the incident (sync_once reads these
\* before its save and opens after it; the cleanup loop runs in between).
OpenGateSound ==
  \A m \in Mode : modes[m].gate =>
    /\ healthy
    /\ session # None
    /\ m \in config \cap Brokered
    /\ modes[m].reconciled
    /\ ~(cleanup.pc \in {"reading", "asking"} /\ cleanup.mode = m)
    /\ modes[m].since < version

\* A reconciled mode has no submission in flight: the order a slow broker call
\* may still place is known before the mode counts as clean (reconcile checks
\* the order lock after the gate has closed).
ReconciledMeansNoneInFlight ==
  \A m \in Mode : modes[m].reconciled /\ ~modes[m].gate => 
    \A r \in Request : ~(req[r].mode = m /\ req[r].pc = "sent")

\* No order is admitted MaxTTL after the operator's Stop, whatever is lost or
\* late: the permission the provider runs on was measured from the moment its
\* sync was sent (sync_once, deadline = sent + ttl).
BoundedStop ==
  \A r \in Request : Admissible(r) =>
    dash.desired[req[r].mode].run \/ stopAge[req[r].mode] < MaxTTL

\* The running configuration is replaced only while every gate is closed,
\* every mode is reconciled and no order is on its way (sync_once).
ConfigChangesOnlyAtRest ==
  [][config' # config /\ boot' = boot =>
       /\ \A m \in Mode : ~modes[m].gate /\ modes[m].reconciled
       /\ \A r \in Request : req[r].pc # "sent"]_vars

\* A gate opens only under a live permission, and only by a Resume that the
\* operator issued after the closure it undoes: a failure that happens while a
\* Resume is on its way is not undone by it (sync_once, close).
ResumeFollowsClosure ==
  [][\A m \in Mode : ~modes[m].gate /\ modes'[m].gate =>
       /\ permit'[m] > modes[m].closedAt
       /\ healthy' /\ lease' > 0]_vars

\* A gate stays open only as long as syncs keep succeeding: if the dashboard is
\* never heard of again, the gate closes (watchdog).
GateNeedsSyncs ==
  \A m \in Mode : []<>(~modes[m].gate \/ sync.pc = "opening")

\* A Stop takes effect, whether the provider hears of it or not.
StopTakesEffect ==
  \A m \in Mode : ~dash.desired[m].run ~> (~modes[m].gate \/ dash.desired[m].run)

-----------------------------------------------------------------------------
(* What the gate promises, stated abstractly: orders only under the current *)
(* permit.  A request in "sent" is an order on its way to the broker.       *)
Permits == INSTANCE GatePermit WITH
  open   <- [m \in Mode |-> modes[m].gate],
  spent  <- permit,
  holder <- [r \in Request |->
               IF req[r].pc \in {"holding", "submitting", "sent"}
               THEN [mode |-> req[r].mode, permit |-> req[r].permit,
                     sending |-> req[r].pc = "sent"]
               ELSE None]

\* The gate implements the abstract permit discipline of GatePermit.
PermitsRefined == Permits!Spec

-----------------------------------------------------------------------------
(* What the gate and the reconciliation promise each other: a mode opens    *)
(* only settled.  A reconciliation counts for the incident it began with.    *)
Reconciling(m) == cleanup.mode = m /\ cleanup.incident = modes[m].incident
PhaseOf(m) ==
  CASE modes[m].gate -> "open"
    [] ~modes[m].gate /\ Reconciling(m) /\ cleanup.pc = "reading" -> "reconciling"
    [] ~modes[m].gate /\ Reconciling(m) /\ cleanup.pc = "asking" -> "checked"
    [] OTHER -> IF modes[m].reconciled THEN "reconciled" ELSE "closed"

Phases == INSTANCE SettledGate WITH
  Mode    <- Brokered,
  phase   <- [m \in Brokered |-> PhaseOf(m)],
  sending <- [m \in Brokered |-> \E r \in Request : req[r].mode = m /\ req[r].pc = "sent"]

\* A gate opens only after a reconciliation that began after the incident which
\* closed it, saw no submission in flight and was not undone since, whatever
\* the sync, the watchdog, failures and the worker did meanwhile (sync_once,
\* reconcile, close).
GateOpensSettled == Phases!Spec

=============================================================================
