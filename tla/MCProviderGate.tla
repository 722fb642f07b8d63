--------------------------- MODULE MCProviderGate ---------------------------
(* Instances of ProviderGate for TLC. *)
EXTENDS ProviderGate

CONSTANTS m1, m2, r1, r2

\* States the provider reaches from Init: the modes in Brokered are enabled and
\* resumed, the provider knows of the Resume or does not yet, and the modes are
\* open accordingly; the others are closed and reconciled.
Established(known) ==
  LET open(m) == known /\ m \in Brokered IN
  /\ healthy = TRUE
  /\ lease = MaxTTL
  /\ version = IF known THEN 1 ELSE 0
  /\ revision = 1
  /\ config = Brokered
  /\ boot = 1
  /\ session = 0
  /\ modes = [m \in Mode |->
       [gate |-> open(m), incident |-> 2, since |-> 0, reconciled |-> TRUE,
        reason |-> IF open(m) THEN None ELSE "forced", closedAt |-> 0]]
  /\ sync = Idle
  /\ watchdog = "watching"
  /\ cleanup = Resting
  /\ req = [r \in Request |-> NoContext]
  /\ dash = [version |-> 1, revision |-> 1, config |-> Brokered,
             desired |-> [m \in Mode |->
               IF m \in Brokered
               THEN [run |-> TRUE, stop |-> 0, resume |-> 1, incident |-> 2]
               ELSE Paused(0)]]
  /\ seen = [m \in Mode |-> 2]
  /\ permit = [m \in Mode |-> IF open(m) THEN 1 ELSE 0]
  /\ stopAge = [m \in Mode |-> MaxTTL]

ResumedSpec     == Established(FALSE) /\ [][Next]_vars
RunningSpec     == Established(TRUE) /\ [][Next]_vars
RunningFairSpec == RunningSpec /\ Fairness

\* Ids are only ever compared with the present one, and a held id is never
\* issued again: two states that agree on which holders are up to date have
\* the same futures.  The view keeps that and forgets the ids themselves, the
\* rest of a lease that no healthy provider holds and the incidents of a mode
\* without a broker, which is never enabled (AnswerValid).
Present(i, m) == IF i = None THEN "none"
                 ELSE IF m \notin Brokered \/ i = modes[m].incident THEN "present" ELSE "stale"

DesiredView(desired) ==
  [m \in Mode |-> [desired[m] EXCEPT !.incident = Present(@, m)]]

SyncView ==
  [sync EXCEPT !.report = [m \in Mode |-> Present(@[m], m)],
               !.answer = IF @ = None THEN @ ELSE [@ EXCEPT !.desired = DesiredView(@)],
               !.candidates = [m \in Mode |-> [@[m] EXCEPT !.incident = Present(@, m)]]]

ReqView(r) ==
  [req[r] EXCEPT !.session = (@ = session), !.boot = (@ = boot), !.permit = 0]

ModeView(m) ==
  [modes[m] EXCEPT !.incident = 0, !.closedAt = 0,
                   !.reason = IF @ = "startup" \/ m \notin Brokered THEN "forced" ELSE @,
                   !.since = IF m \in Brokered THEN @ ELSE 0]

\* Requests are interchangeable: a view keeps how many of them look alike.
Requests(View(_)) ==
  [v \in {View(r) : r \in Request} |-> Cardinality({r \in Request : View(r) = v})]

\* The state without the history variables, which nothing depends on.
CoreView ==
  <<healthy, IF healthy THEN lease ELSE 0, version, revision, config, session = None,
    [m \in Mode |-> ModeView(m)],
    SyncView, watchdog,
    IF cleanup.incident = None THEN cleanup
    ELSE [cleanup EXCEPT !.incident = Present(@, cleanup.mode)],
    Requests(ReqView),
    [dash EXCEPT !.desired = DesiredView(@)],
    [m \in Mode |-> Present(seen[m], m)]>>

\* With the history the runs' properties mention.
PermitOf(r) == <<ReqView(r), req[r].permit>>
PermitView == <<CoreView, permit, Requests(PermitOf)>>
SafetyView == <<PermitView, stopAge,
                [m \in Brokered |-> IF modes[m].gate THEN 0 ELSE modes[m].closedAt]>>

=============================================================================
