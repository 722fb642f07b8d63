----------------------------- MODULE GatePermit -----------------------------
(***************************************************************************)
(* What the provider's execution gate promises, without how it keeps it:   *)
(* the operator grants a permit for a mode, each permit once and only      *)
(* newer ones than before; anything may revoke it; and an order leaves     *)
(* only while its mode is open under the very permit that the order's      *)
(* context was taken under.  ProviderGate implements this specification.   *)
(***************************************************************************)
EXTENDS Naturals

CONSTANTS Mode, Request, None

VARIABLES
  open,    \* which modes are open
  spent,   \* the permit each mode was last opened with
  holder   \* the context of each request: its mode and permit, and whether
           \* an order is on its way under it; or None

vars == <<open, spent, holder>>

Init ==
  /\ open = [m \in Mode |-> FALSE]
  /\ spent = [m \in Mode |-> 0]
  /\ holder = [r \in Request |-> None]

\* Closed modes open, each with a permit newer than any it had.
Grant ==
  /\ \A m \in Mode : open[m] => open'[m]
  /\ \A m \in Mode : IF ~open[m] /\ open'[m] THEN spent'[m] > spent[m]
                                             ELSE spent'[m] = spent[m]
  /\ DOMAIN open' = Mode /\ DOMAIN spent' = Mode
  /\ UNCHANGED holder

\* Modes close, and contexts are given up.
Revoke ==
  /\ \A m \in Mode : open'[m] => open[m]
  /\ DOMAIN open' = Mode
  /\ \A r \in Request : holder'[r] # holder[r] => holder'[r] = None
  /\ DOMAIN holder' = Request
  /\ UNCHANGED spent

\* A request takes the context of an open mode.
Take(r, m) ==
  /\ holder[r] = None
  /\ open[m]
  /\ holder' = [holder EXCEPT ![r] = [mode |-> m, permit |-> spent[m], sending |-> FALSE]]
  /\ UNCHANGED <<open, spent>>

\* An order leaves: its mode is open under the permit of its context, and it
\* is the only order on its way in that mode.
Send(r) ==
  /\ holder[r] # None
  /\ open[holder[r].mode]
  /\ holder[r].permit = spent[holder[r].mode]
  /\ \A q \in Request : holder[q] # None /\ holder[q].mode = holder[r].mode => ~holder[q].sending
  /\ holder' = [holder EXCEPT ![r].sending = TRUE]
  /\ UNCHANGED <<open, spent>>

\* The broker answered.
Answered(r) ==
  /\ holder[r] # None
  /\ holder[r].sending
  /\ holder' = [holder EXCEPT ![r].sending = FALSE]
  /\ UNCHANGED <<open, spent>>

Next ==
  \/ Grant
  \/ Revoke
  \/ \E r \in Request : Send(r) \/ Answered(r) \/ \E m \in Mode : Take(r, m)

Spec == Init /\ [][Next]_vars

=============================================================================
