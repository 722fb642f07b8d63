----------------------------- MODULE SettledGate -----------------------------
(***************************************************************************)
(* What the provider's gate and its reconciliation promise each other: a   *)
(* mode opens only after a reconciliation that began after the mode was    *)
(* closed, found no submission in flight when it looked, and came to its   *)
(* end with nothing in between that closed the mode for a new reason.      *)
(* ProviderGate implements this specification for all modes, and OrderFlow *)
(* for the one whose orders it follows.                                    *)
(***************************************************************************)
CONSTANT Mode

VARIABLES
  phase,    \* what each mode is at
  sending   \* the modes with a submission in flight

vars == <<phase, sending>>

\* A mode is open or closed; closed, its reconciliation has begun, has seen
\* that no submission is in flight, or has found nothing outstanding.
Phase == {"open", "closed", "reconciling", "checked", "reconciled"}

\* Nothing was sent yet.
Init ==
  /\ phase \in [Mode -> {"closed", "reconciled"}]
  /\ sending = [m \in Mode |-> FALSE]

\* Modes close, whatever they were at, and submissions end.
Close ==
  /\ phase' \in [Mode -> Phase] /\ sending' \in [Mode -> BOOLEAN]
  /\ \A m \in Mode : phase'[m] \in {phase[m], "closed"}
  /\ \A m \in Mode : sending'[m] => sending[m]

\* A reconciliation begins.
Begin(m) ==
  /\ phase[m] \in {"closed", "reconciled"}
  /\ phase' = [phase EXCEPT ![m] = "reconciling"]
  /\ UNCHANGED sending

\* It goes on only if no submission is in flight.
Check(m) ==
  /\ phase[m] = "reconciling"
  /\ ~sending[m]
  /\ phase' = [phase EXCEPT ![m] = "checked"]
  /\ UNCHANGED sending

\* It finds nothing outstanding.
Settle(m) ==
  /\ phase[m] = "checked"
  /\ phase' = [phase EXCEPT ![m] = "reconciled"]
  /\ UNCHANGED sending

\* Reconciled modes open.
Open ==
  /\ phase' \in [Mode -> Phase]
  /\ \A m \in Mode : phase'[m] # phase[m] => phase[m] = "reconciled" /\ phase'[m] = "open"
  /\ UNCHANGED sending

\* An open mode submits one order at a time.
Send(m) ==
  /\ phase[m] = "open"
  /\ ~sending[m]
  /\ sending' = [sending EXCEPT ![m] = TRUE]
  /\ UNCHANGED phase

Next ==
  \/ Close \/ Open
  \/ \E m \in Mode : Begin(m) \/ Check(m) \/ Settle(m) \/ Send(m)

Spec == Init /\ [][Next]_vars

=============================================================================
