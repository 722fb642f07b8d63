------------------------------ MODULE OrderFlow ------------------------------
(***************************************************************************)
(* What becomes of the orders of one trading mode: Provider.rebalance,     *)
(* Provider.submit and Provider.reconcile (src/control/provider.py), the   *)
(* records they keep in PostgreSQL (src/control/runtime.py), the broker's  *)
(* POST with its last admission (Broker.call, src/control/transport.py),   *)
(* lost answers, ambiguous commits and restarts of the provider.           *)
(*                                                                         *)
(* The gate itself is ProviderGate's subject.  Here it opens when the mode *)
(* is reconciled and no reconciliation runs, as OpenGateSound says of      *)
(* ProviderGate, it closes at any time, and a context is admitted while it *)
(* is open at the version the context was read at.                         *)
(*                                                                         *)
(* One action is the code between two awaits.  A request is a call of the  *)
(* rebalance route in progress.  An order's id is what submit hashes: the  *)
(* control version of the context, the operation and the symbol.           *)
(***************************************************************************)
EXTENDS Naturals, FiniteSets

CONSTANTS
  Request,     \* calls of the rebalance route that may overlap
  Operation,   \* operation ids of the worker
  Symbol,      \* symbols an operation may trade
  None,        \* no symbol, no order, no permit
  Quantity,    \* the quantity of every order
  MaxVersion   \* bound: control versions

ASSUME RequestsFinite == IsFiniteSet(Request)
ASSUME QuantityAssumption == Quantity \in Nat \ {0}
ASSUME VersionsAssumption == MaxVersion \in Nat
ASSUME NoneAssumption ==
  /\ None \notin Symbol
  /\ None \notin [mode : {"mode"}, permit : Nat \cup {None}, sending : BOOLEAN]

Version == 1..MaxVersion
OpId    == Version \X Operation
OrderId == Version \X Operation \X Symbol

VARIABLES
  gate,       \* modes[mode]["gate_open"]
  incident,   \* modes[mode]["incident_id"]
  reconciled, \* modes[mode]["reconciled"]
  version,    \* Provider.version
  opened,     \* history: the version the gate was last opened at
  req,        \* the calls of rebalance
  ops,        \* the records of whole operations in the database
  db,         \* the order records in the database
  ledger,     \* the quantity of the execution events written for each order
  cycles,     \* the allocation events written for each operation
  wire,       \* orders written to the network that the broker has not seen
  broker,     \* the broker's orders
  posts,      \* history: how often each order was written to the network
  recon       \* the reconciliation

modeState == <<gate, incident, reconciled, version, opened>>
database  == <<ops, db, ledger, cycles>>
outside   == <<wire, broker, posts>>
vars      == <<modeState, req, database, outside, recon>>

-----------------------------------------------------------------------------
Terminal == {"filled", "canceled"}

NoRecord == [status |-> "none", filled |-> 0]
Absent   == [status |-> "absent", filled |-> 0]
Record(status) == [status |-> status, filled |-> 0]

\* A call that is not in progress.
Free == [pc |-> "idle", version |-> 0, op |-> None, todo |-> {}, sym |-> None,
         permit |-> None, answer |-> Absent]

Resting == [pc |-> "resting", incident |-> 0,
            records |-> [o \in OrderId |-> "none"], listed |-> [o \in OrderId |-> Absent],
            todo |-> {}, order |-> None, seen |-> Absent, outstanding |-> FALSE]

\* The operation and the order a call is at.
OpOf(r)    == <<req[r].version, req[r].op>>
OrderOf(r) == <<req[r].version, req[r].op, req[r].sym>>

\* Provider.admit: the gate is open and the context is of the present version.
Admissible(r) == gate /\ req[r].version = version

\* asyncio.Lock: the calls inside `async with rebalance_locks[mode]`, and those
\* inside `async with order_locks[mode]`.
Ordering    == {"recording", "posting", "admitted", "posted", "answered", "discarding",
                "unsent", "refused"}
Rebalancing == {"checking", "pricing", "starting", "submitting", "cycling"} \cup Ordering
RebalanceLocked == \E r \in Request : req[r].pc \in Rebalancing
OrderLocked     == \E r \in Request : req[r].pc \in Ordering

\* Broker.lock: a thread writes an order or waits for its answer, and every
\* other call of the broker waits for the thread.
BrokerBusy == \E r \in Request : req[r].pc \in {"admitted", "posted"}

\* uuid4(): an incident that neither the mode nor the reconciliation names.
NewIncident == CHOOSE i \in 0..2 : i # incident /\ i # recon.incident

\* Provider.close: forced or for a new reason a closed mode gets a new
\* incident, and a mode that was open always does.
Close ==
  /\ gate' = FALSE
  /\ reconciled' = FALSE
  /\ \/ incident' = NewIncident
     \/ ~gate /\ incident' = incident
  /\ UNCHANGED <<version, opened>>

\* Mutant: fills are booked as the broker reports them, old and new alike.
BookWhole(o, record) ==
  /\ db' = [db EXCEPT ![o] = record]
  /\ ledger' = [ledger EXCEPT ![o] = @ + record.filled]

\* Runtime.save_order: the record is replaced, and what was filled since the
\* old record is booked as an execution event.
SaveOrder(o, record) ==
  /\ db' = [db EXCEPT ![o] = record]
  /\ ledger' = [ledger EXCEPT ![o] =
       @ + (IF record.filled > db[o].filled THEN record.filled - db[o].filled ELSE 0)]

\* The save raises: its transaction was committed or not.
SaveOrderFails(o, record) == SaveOrder(o, record) \/ UNCHANGED <<db, ledger>>

Finish(r) == req' = [req EXCEPT ![r] = Free]
Goto(r, pc) == req' = [req EXCEPT ![r].pc = pc]

Init ==
  /\ gate = FALSE
  /\ incident = 0
  /\ reconciled = FALSE
  /\ version = 0
  /\ opened = 0
  /\ req = [r \in Request |-> Free]
  /\ ops = [k \in OpId |-> "none"]
  /\ db = [o \in OrderId |-> NoRecord]
  /\ ledger = [o \in OrderId |-> 0]
  /\ cycles = [k \in OpId |-> 0]
  /\ wire = {}
  /\ broker = [o \in OrderId |-> Absent]
  /\ posts = [o \in OrderId |-> 0]
  /\ recon = Resting

-----------------------------------------------------------------------------
(* Provider.rebalance                                                      *)

\* rebalance: admitted, the call waits for the rebalance lock.
Rebalance(r, op) ==
  /\ req[r].pc = "idle"
  /\ gate
  /\ req' = [req EXCEPT ![r] =
       [Free EXCEPT !.pc = "waiting", !.version = version, !.op = op, !.permit = opened]]
  /\ UNCHANGED <<modeState, database, outside, recon>>

\* _rebalance: under the lock the context is admitted again, and an operation
\* that has a record is answered with it.
Enter(r) ==
  /\ req[r].pc = "waiting"
  /\ ~RebalanceLocked
  /\ IF Admissible(r) /\ ops[OpOf(r)] = "none"
     THEN Goto(r, "checking") ELSE Finish(r)
  /\ UNCHANGED <<modeState, database, outside, recon>>

\* Mutant: open orders do not stop a rebalance.
CheckNothing(r) ==
  /\ req[r].pc = "checking"
  /\ Goto(r, "pricing")
  /\ UNCHANGED <<modeState, database, outside, recon>>

\* The broker's open orders are read; any of them ends the rebalance.
CheckOpenOrders(r) ==
  /\ req[r].pc = "checking"
  /\ ~BrokerBusy
  /\ IF \E o \in OrderId : broker[o].status = "open"
     THEN Finish(r) ELSE Goto(r, "pricing")
  /\ UNCHANGED <<modeState, database, outside, recon>>

\* Account, positions and quotes are read: the orders to place are known and
\* the operation's record is being saved.
Price(r, symbols) ==
  /\ req[r].pc = "pricing"
  /\ ~BrokerBusy
  /\ req' = [req EXCEPT ![r].pc = "starting", ![r].todo = symbols]
  /\ UNCHANGED <<modeState, database, outside, recon>>

StartOperation(r) ==
  /\ req[r].pc = "starting"
  /\ ops' = [ops EXCEPT ![OpOf(r)] = "in_progress"]
  /\ Goto(r, "submitting")
  /\ UNCHANGED <<modeState, db, ledger, cycles, outside, recon>>

\* Mutant: the cycle is recorded before the operation is completed.
CompleteAfterCycle(r) ==
  /\ req[r].pc = "submitting"
  /\ req[r].todo = {}
  /\ cycles' = [cycles EXCEPT ![OpOf(r)] = @ + 1]
  /\ Goto(r, "cycling")
  /\ UNCHANGED <<modeState, ops, db, ledger, outside, recon>>

\* All orders are placed: the operation's record says so.
CompleteOperation(r) ==
  /\ req[r].pc = "submitting"
  /\ req[r].todo = {}
  /\ ops' = [ops EXCEPT ![OpOf(r)] = "completed"]
  /\ Goto(r, "cycling")
  /\ UNCHANGED <<modeState, db, ledger, cycles, outside, recon>>

\* Runtime.cycle: the allocation event, then the state is saved.
RecordCycle(r) ==
  /\ req[r].pc = "cycling"
  /\ cycles' = [cycles EXCEPT ![OpOf(r)] = @ + 1]
  /\ Finish(r)
  /\ UNCHANGED <<modeState, ops, db, ledger, outside, recon>>

\* Mutant: the route reports the failure and leaves the gate.
RouteFailsOpen(r) ==
  /\ req[r].pc \in {"checking", "pricing", "starting", "submitting", "cycling"}
  /\ ops' = IF req[r].pc = "starting"
            THEN [ops EXCEPT ![OpOf(r)] = "in_progress"] ELSE ops
  /\ Finish(r)
  /\ UNCHANGED <<modeState, db, ledger, cycles, outside, recon>>

\* A broker read or a save of the rebalance raises, the saves with or without
\* their effect; the route closes every gate.
RouteFails(r) ==
  /\ \/ /\ req[r].pc \in {"waiting", "checking", "pricing", "starting", "submitting", "cycling"}
        /\ UNCHANGED <<ops, cycles>>
     \/ /\ req[r].pc = "starting"
        /\ ops' = [ops EXCEPT ![OpOf(r)] = "in_progress"]
        /\ UNCHANGED cycles
     \/ /\ req[r].pc = "submitting"
        /\ req[r].todo = {}
        /\ ops' = [ops EXCEPT ![OpOf(r)] = "completed"]
        /\ UNCHANGED cycles
     \/ /\ req[r].pc = "cycling"
        /\ cycles' = [cycles EXCEPT ![OpOf(r)] = @ + 1]
        /\ UNCHANGED ops
  /\ Close
  /\ Finish(r)
  /\ UNCHANGED <<db, ledger, outside, recon>>

-----------------------------------------------------------------------------
(* Provider.submit                                                         *)

\* The next order: admitted, and the database looked at under the order lock.
\* An order that has a record is not submitted again.
Submit(r, s) ==
  /\ req[r].pc = "submitting"
  /\ s \in req[r].todo
  /\ ~OrderLocked
  /\ IF ~Admissible(r) THEN Finish(r)
     ELSE IF db[<<req[r].version, req[r].op, s>>] # NoRecord
     THEN req' = [req EXCEPT ![r].todo = @ \ {s}]
     ELSE req' = [req EXCEPT ![r].pc = "recording", ![r].todo = @ \ {s}, ![r].sym = s]
  /\ UNCHANGED <<modeState, database, outside, recon>>

\* The record "uncertain" is committed, and the context admitted once more.
RecordUncertain(r) ==
  /\ req[r].pc = "recording"
  /\ SaveOrder(OrderOf(r), Record("uncertain"))
  /\ Goto(r, IF Admissible(r) THEN "posting" ELSE "discarding")
  /\ UNCHANGED <<modeState, ops, cycles, outside, recon>>

\* The read or the save of the record raises.
RecordFails(r) ==
  /\ req[r].pc = "recording"
  /\ SaveOrderFails(OrderOf(r), Record("uncertain"))
  /\ Close
  /\ Finish(r)
  /\ UNCHANGED <<ops, cycles, outside, recon>>

\* Mutant: the transport does not ask for admission.
AskUnguarded(r) ==
  /\ req[r].pc = "posting"
  /\ Goto(r, "admitted")
  /\ UNCHANGED <<modeState, database, outside, recon>>

\* The thread has a connection and the broker's lock, and waits for the event
\* loop to admit the order (Broker.call): refused, the order is discarded;
\* admitted, the submission has started.
AskAdmission(r) ==
  /\ req[r].pc = "posting"
  /\ Goto(r, IF Admissible(r) THEN "admitted" ELSE "discarding")
  /\ UNCHANGED <<modeState, database, outside, recon>>

\* Back in its thread the transport writes the order, whatever the gate is now.
Post(r) ==
  /\ req[r].pc = "admitted"
  /\ wire' = wire \cup {OrderOf(r)}
  /\ posts' = [posts EXCEPT ![OrderOf(r)] = @ + 1]
  /\ Goto(r, "posted")
  /\ UNCHANGED <<modeState, database, broker, recon>>

\* Mutant: the submission counts as started when the request has returned.
PostUnsentUntilAnswered(r) ==
  /\ req[r].pc \in {"posting", "admitted", "posted"}
  /\ Goto(r, "unsent")
  /\ UNCHANGED <<modeState, database, outside, recon>>

\* No connection: the transport failed before it asked (OrderNotSubmitted).
PostUnsent(r) ==
  /\ req[r].pc = "posting"
  /\ Goto(r, "unsent")
  /\ UNCHANGED <<modeState, database, outside, recon>>

\* The broker's answer arrives with the order as it is now.
PostAnswered(r) ==
  /\ req[r].pc = "posted"
  /\ broker[OrderOf(r)] # Absent
  /\ req' = [req EXCEPT ![r].pc = "answered", ![r].answer = broker[OrderOf(r)]]
  /\ UNCHANGED <<modeState, database, outside, recon>>

\* The broker refuses the order for good (400, 401, 403 or 422).
PostRefused(r) ==
  /\ req[r].pc = "posted"
  /\ OrderOf(r) \in wire
  /\ wire' = wire \ {OrderOf(r)}
  /\ Goto(r, "refused")
  /\ UNCHANGED <<modeState, database, broker, posts, recon>>

\* Mutant: a lost answer is taken for an order that was never sent.
PostLostDiscarded(r) ==
  /\ req[r].pc \in {"posting", "admitted", "posted"}
  /\ SaveOrder(OrderOf(r), Record("discarded"))
  /\ Close /\ Finish(r)
  /\ UNCHANGED <<ops, cycles, outside, recon>>

\* Mutant: the client library sends the order again when its answer is lost.
PostLostRetried(r) ==
  /\ req[r].pc \in {"posting", "admitted", "posted"}
  /\ Goto(r, "posting")
  /\ UNCHANGED <<modeState, database, outside, recon>>

\* Mutant: requests to the broker have no timeout.
PostLostUntimed(r) ==
  /\ req[r].pc \in {"posting", "admitted"}
  /\ Close /\ Finish(r)
  /\ UNCHANGED <<database, outside, recon>>

\* The answer is lost, late or another error, or the call broke in a way that
\* does not tell whether the order went out: the record stays uncertain.
PostLost(r) ==
  /\ req[r].pc \in {"posting", "admitted", "posted"}
  /\ Close
  /\ Finish(r)
  /\ UNCHANGED <<database, outside, recon>>

\* The broker's answer is recorded; on with the next order.
RecordAnswer(r) ==
  /\ req[r].pc = "answered"
  /\ SaveOrder(OrderOf(r), req[r].answer)
  /\ req' = [req EXCEPT ![r].pc = "submitting", ![r].sym = None, ![r].answer = Absent]
  /\ UNCHANGED <<modeState, ops, cycles, outside, recon>>

RecordAnswerFails(r) ==
  /\ req[r].pc = "answered"
  /\ SaveOrderFails(OrderOf(r), req[r].answer)
  /\ Close
  /\ Finish(r)
  /\ UNCHANGED <<ops, cycles, outside, recon>>

\* The last admission refused: the record is discarded and the rebalance ends.
Discard(r) ==
  /\ req[r].pc = "discarding"
  /\ SaveOrder(OrderOf(r), Record("discarded"))
  /\ Finish(r)
  /\ UNCHANGED <<modeState, ops, cycles, outside, recon>>

\* The save of "discarded" or "rejected" raises on its way to the route.
DiscardFails(r) ==
  /\ req[r].pc \in {"discarding", "unsent", "refused"}
  /\ SaveOrderFails(OrderOf(r), Record(IF req[r].pc = "refused" THEN "rejected" ELSE "discarded"))
  /\ Close
  /\ Finish(r)
  /\ UNCHANGED <<ops, cycles, outside, recon>>

\* Never sent, or refused by the broker: recorded as that, and every gate closes.
SubmissionFails(r) ==
  /\ req[r].pc \in {"unsent", "refused"}
  /\ SaveOrder(OrderOf(r), Record(IF req[r].pc = "refused" THEN "rejected" ELSE "discarded"))
  /\ Close
  /\ Finish(r)
  /\ UNCHANGED <<ops, cycles, outside, recon>>

-----------------------------------------------------------------------------
(* Provider.reconcile                                                      *)

\* Mutant: every reconciliation closes the mode anew after it read the incident.
ReconcileStartClosing ==
  /\ recon.pc = "resting"
  /\ ~gate
  /\ recon' = [Resting EXCEPT !.pc = "reading", !.incident = incident]
  /\ reconciled' = FALSE
  /\ incident' = NewIncident
  /\ UNCHANGED <<gate, version, opened, req, database, outside>>

ReconcileStart ==
  /\ recon.pc = "resting"
  /\ ~gate
  /\ recon' = [Resting EXCEPT !.pc = "reading", !.incident = incident]
  /\ reconciled' = FALSE
  /\ UNCHANGED <<gate, incident, version, opened, req, database, outside>>

\* The database reads the mode's records: what reconcile will work on.
ReadRecords ==
  /\ recon.pc = "reading"
  /\ recon' = [recon EXCEPT !.pc = "read", !.records = [o \in OrderId |-> db[o].status]]
  /\ UNCHANGED <<modeState, req, database, outside>>

\* A submission in flight ends the reconciliation.
CheckSubmission ==
  /\ recon.pc = "read"
  /\ IF OrderLocked
     THEN recon' = Resting /\ reconciled' = FALSE
     ELSE recon' = [recon EXCEPT !.pc = "listing"] /\ UNCHANGED reconciled
  /\ UNCHANGED <<gate, incident, version, opened, req, database, outside>>

\* The broker lists its open orders.  Discarded and rejected orders are done,
\* and so is a finished one that is not listed; the others are asked about.
ListOpenOrders ==
  /\ recon.pc = "listing"
  /\ ~BrokerBusy
  /\ recon' = [recon EXCEPT
       !.pc = "asking",
       !.listed = [o \in OrderId |-> IF broker[o].status = "open" THEN broker[o] ELSE Absent],
       !.todo = {o \in OrderId :
                   \/ recon.records[o] \in {"uncertain", "open"}
                   \/ recon.records[o] \in Terminal /\ broker[o].status = "open"}]
  /\ UNCHANGED <<modeState, req, database, outside>>

\* The order as listed, or as the broker reports it when asked by its id.
SeenAs(o) == IF recon.listed[o] # Absent THEN recon.listed[o] ELSE broker[o]

\* Mutant: an order the broker does not know is taken for one that never was.
AskTrusting(o) ==
  /\ recon.pc = "asking" /\ o \in recon.todo
  /\ recon' = IF SeenAs(o) = Absent
              THEN [recon EXCEPT !.todo = @ \ {o}]
              ELSE [recon EXCEPT !.todo = @ \ {o}, !.order = o, !.seen = SeenAs(o),
                      !.pc = IF SeenAs(o).status \in Terminal THEN "recording" ELSE "canceling"]
  /\ UNCHANGED <<modeState, req, database, outside>>

\* Mutant: an order the broker does not know ends the whole reconciliation.
AskOrStop(o) ==
  /\ recon.pc = "asking" /\ o \in recon.todo
  /\ recon' = IF SeenAs(o) = Absent
              THEN Resting
              ELSE [recon EXCEPT !.todo = @ \ {o}, !.order = o, !.seen = SeenAs(o),
                      !.pc = IF SeenAs(o).status \in Terminal THEN "recording" ELSE "canceling"]
  /\ UNCHANGED <<modeState, req, database, outside>>

\* The broker is asked about the next order.  One it does not know may still
\* arrive: it is outstanding.  A finished one is recorded, an open one canceled.
AskOrder(o) ==
  /\ recon.pc = "asking"
  /\ ~BrokerBusy
  /\ o \in recon.todo
  /\ recon' = IF SeenAs(o) = Absent
              THEN [recon EXCEPT !.todo = @ \ {o}, !.outstanding = TRUE]
              ELSE [recon EXCEPT !.todo = @ \ {o}, !.order = o, !.seen = SeenAs(o),
                      !.pc = IF SeenAs(o).status \in Terminal THEN "recording" ELSE "canceling"]
  /\ UNCHANGED <<modeState, req, database, outside>>

\* Mutant: the cancelation is taken as done, without asking again.
CancelBlindly ==
  /\ recon.pc = "canceling"
  /\ \E c \in {TRUE, FALSE} :
       broker' = IF c /\ broker[recon.order].status = "open"
                 THEN [broker EXCEPT ![recon.order].status = "canceled"] ELSE broker
  /\ recon' = [recon EXCEPT !.pc = "recording", !.seen.status = "canceled"]
  /\ UNCHANGED <<modeState, req, database, wire, posts>>

\* DELETE, then the order is read again: canceled, finished meanwhile, or still
\* open because the cancelation is pending.
CancelOrder ==
  /\ recon.pc = "canceling"
  /\ ~BrokerBusy
  /\ \E canceled \in BOOLEAN :
       broker' = IF canceled /\ broker[recon.order].status = "open"
                 THEN [broker EXCEPT ![recon.order].status = "canceled"] ELSE broker
  /\ recon' = [recon EXCEPT !.pc = "recording", !.seen = broker'[recon.order]]
  /\ UNCHANGED <<modeState, req, database, wire, posts>>

\* What the broker said is recorded; an order still open is outstanding.
RecordSeen ==
  /\ recon.pc = "recording"
  /\ SaveOrder(recon.order, recon.seen)
  /\ recon' = [recon EXCEPT !.pc = "asking", !.order = None, !.seen = Absent,
                            !.outstanding = @ \/ recon.seen.status \notin Terminal]
  /\ UNCHANGED <<modeState, req, ops, cycles, outside>>

\* Asking, canceling or recording one order raises: it is outstanding.  The
\* broker may have canceled it, the database may have saved it.
OrderUnsettled ==
  /\ \/ /\ recon.pc = "asking"
        /\ \E o \in recon.todo :
             recon' = [recon EXCEPT !.todo = @ \ {o}, !.outstanding = TRUE]
        /\ UNCHANGED <<db, ledger, broker>>
     \/ /\ recon.pc = "canceling"
        /\ \E canceled \in BOOLEAN :
             broker' = IF canceled /\ broker[recon.order].status = "open"
                       THEN [broker EXCEPT ![recon.order].status = "canceled"] ELSE broker
        /\ recon' = [recon EXCEPT !.pc = "asking", !.order = None, !.seen = Absent,
                                  !.outstanding = TRUE]
        /\ UNCHANGED <<db, ledger>>
     \/ /\ recon.pc = "recording"
        /\ SaveOrderFails(recon.order, recon.seen)
        /\ recon' = [recon EXCEPT !.pc = "asking", !.order = None, !.seen = Absent,
                                  !.outstanding = TRUE]
        /\ UNCHANGED broker
  /\ UNCHANGED <<modeState, req, ops, cycles, wire, posts>>

\* Mutant: the verdict counts for whatever incident the mode has by now.
ReconcileFinishAnyIncident ==
  /\ recon.pc = "asking"
  /\ recon.todo = {}
  /\ reconciled' = (~recon.outstanding /\ \A o \in OrderId :
                      recon.listed[o] # Absent => recon.records[o] # "none")
  /\ recon' = Resting
  /\ UNCHANGED <<gate, incident, version, opened, req, database, outside>>

\* Every order is settled or outstanding.  A listed order that no record names
\* is recorded and outstanding; none of the mode's own orders ever is one.
ReconcileFinish ==
  /\ recon.pc = "asking"
  /\ recon.todo = {}
  /\ reconciled' = IF incident = recon.incident
                   THEN ~recon.outstanding /\ \A o \in OrderId :
                          recon.listed[o] # Absent => recon.records[o] # "none"
                   ELSE reconciled
  /\ recon' = Resting
  /\ UNCHANGED <<gate, incident, version, opened, req, database, outside>>

\* The records or the list cannot be read.
ReconcileRaises ==
  /\ recon.pc \in {"reading", "read", "listing"}
  /\ recon' = Resting
  /\ reconciled' = FALSE
  /\ UNCHANGED <<gate, incident, version, opened, req, database, outside>>

-----------------------------------------------------------------------------
(* The gate, the broker (external) and restarts                            *)

\* The operator resumes the reconciled mode (Provider.sync_once).
Open ==
  /\ ~gate
  /\ reconciled
  /\ recon.pc = "resting"
  /\ version < MaxVersion
  /\ gate' = TRUE
  /\ version' = version + 1
  /\ opened' = version + 1
  /\ UNCHANGED <<incident, reconciled, req, database, outside, recon>>

\* The operator acts on another mode: the control version moves on.
VersionMoves ==
  /\ version < MaxVersion
  /\ version' = version + 1
  /\ UNCHANGED <<gate, incident, reconciled, opened, req, database, outside, recon>>

\* A stop, a failure elsewhere or an expired permission closes the mode.
CloseGate ==
  /\ Close
  /\ UNCHANGED <<req, database, outside, recon>>

\* External: the broker takes an order in, once.
BrokerAccepts(o) ==
  /\ o \in wire
  /\ wire' = wire \ {o}
  /\ broker' = [broker EXCEPT ![o].status = "open"]
  /\ UNCHANGED <<modeState, req, database, posts, recon>>

\* External: an order is lost on its way, or refused when nobody waits any more.
BrokerDrops(o) ==
  /\ o \in wire
  /\ wire' = wire \ {o}
  /\ UNCHANGED <<modeState, req, database, broker, posts, recon>>

\* External: an open order fills, share by share.
BrokerFills(o) ==
  /\ broker[o].status = "open"
  /\ LET f == broker[o].filled + 1 IN
       broker' = [broker EXCEPT ![o] =
         [status |-> IF f = Quantity THEN "filled" ELSE "open", filled |-> f]]
  /\ UNCHANGED <<modeState, req, database, wire, posts, recon>>

\* The provider dies and starts again: the calls and the reconciliation are
\* gone, the database and what is on the network are not.
Restart ==
  /\ gate' = FALSE
  /\ reconciled' = FALSE
  /\ incident' = NewIncident
  /\ req' = [r \in Request |-> Free]
  /\ recon' = Resting
  /\ UNCHANGED <<version, opened, database, outside>>

-----------------------------------------------------------------------------
RebalanceStep(r) ==
  \/ \E op \in Operation : Rebalance(r, op)
  \/ Enter(r) \/ CheckOpenOrders(r) \/ \E symbols \in SUBSET Symbol : Price(r, symbols)
  \/ StartOperation(r) \/ CompleteOperation(r) \/ RecordCycle(r) \/ RouteFails(r)

SubmitStep(r) ==
  \/ \E s \in Symbol : Submit(r, s)
  \/ RecordUncertain(r) \/ RecordFails(r)
  \/ AskAdmission(r) \/ Post(r) \/ PostUnsent(r) \/ PostAnswered(r) \/ PostRefused(r) \/ PostLost(r)
  \/ RecordAnswer(r) \/ RecordAnswerFails(r)
  \/ Discard(r) \/ DiscardFails(r) \/ SubmissionFails(r)

ReconcileStep ==
  \/ ReconcileStart \/ ReadRecords \/ CheckSubmission \/ ListOpenOrders
  \/ \E o \in OrderId : AskOrder(o)
  \/ CancelOrder \/ RecordSeen \/ OrderUnsettled \/ ReconcileFinish \/ ReconcileRaises

BrokerStep == \E o \in OrderId : BrokerAccepts(o) \/ BrokerDrops(o) \/ BrokerFills(o)

Next ==
  \/ \E r \in Request : RebalanceStep(r) \/ SubmitStep(r)
  \/ ReconcileStep
  \/ BrokerStep
  \/ Open \/ VersionMoves \/ CloseGate
  \/ Restart

Spec == Init /\ [][Next]_vars

\* What a call does next when nothing fails.  A call that waits for the broker's
\* answer has a timeout.
CallProceeds(r) ==
  \/ CheckOpenOrders(r) \/ \E symbols \in SUBSET Symbol : Price(r, symbols)
  \/ StartOperation(r) \/ CompleteOperation(r) \/ RecordCycle(r)
  \/ \E s \in Symbol : Submit(r, s)
  \/ RecordUncertain(r) \/ AskAdmission(r) \/ Post(r)
  \/ PostAnswered(r) \/ (req[r].pc = "posted" /\ PostLost(r))
  \/ RecordAnswer(r) \/ Discard(r) \/ SubmissionFails(r)

\* What the cleanup loop does next when nothing fails.
ReconcileProceeds ==
  \/ ReconcileStart \/ ReadRecords \/ CheckSubmission \/ ListOpenOrders
  \/ \E o \in OrderId : AskOrder(o)
  \/ CancelOrder \/ RecordSeen \/ ReconcileFinish

\* The locks are first in, first out; every task runs on; the network delivers
\* or loses; a broker that is asked to cancel again and again does it.
Fairness ==
  /\ \A r \in Request : SF_vars(Enter(r)) /\ WF_vars(CallProceeds(r))
  /\ WF_vars(ReconcileProceeds)
  /\ \A o \in OrderId : WF_vars(BrokerAccepts(o) \/ BrokerDrops(o))
  /\ SF_vars(CancelOrder /\ broker'[recon.order].status # "open")

FairSpec == Spec /\ Fairness

-----------------------------------------------------------------------------
(* Correctness                                                             *)

OrderStates == {"none", "uncertain", "discarded", "rejected", "open", "filled", "canceled"}
Records     == [status : OrderStates, filled : 0..Quantity]
Orders      == [status : {"absent", "open", "filled", "canceled"}, filled : 0..Quantity]
Calls == [pc : {"idle", "waiting"} \cup Rebalancing, version : 0..MaxVersion,
          op : Operation \cup {None}, todo : SUBSET Symbol, sym : Symbol \cup {None},
          permit : (0..MaxVersion) \cup {None}, answer : Orders]
Reconciliations ==
  [pc : {"resting", "reading", "read", "listing", "asking", "canceling", "recording"},
   incident : 0..2, records : [OrderId -> OrderStates], listed : [OrderId -> Orders],
   todo : SUBSET OrderId, order : OrderId \cup {None}, seen : Orders, outstanding : BOOLEAN]

\* The values every variable ranges over.
TypeOK ==
  /\ gate \in BOOLEAN /\ reconciled \in BOOLEAN
  /\ incident \in 0..2
  /\ version \in 0..MaxVersion /\ opened \in 0..MaxVersion
  /\ req \in [Request -> Calls]
  /\ ops \in [OpId -> {"none", "in_progress", "completed"}]
  /\ db \in [OrderId -> Records]
  /\ ledger \in [OrderId -> 0..Quantity]
  /\ cycles \in [OpId -> Nat]
  /\ wire \subseteq OrderId
  /\ broker \in [OrderId -> Orders]
  /\ posts \in [OrderId -> Nat]
  /\ recon \in Reconciliations

\* An order that may still trade: on the network or open at the broker.
Working(o) == o \in wire \/ broker[o].status = "open"

\* While the gate is open, every order that may still trade was placed since it
\* opened: nothing of an earlier permission is left, not even an order whose
\* answer was lost or whose provider died (reconcile, sync_once).
SettledBeforeOpen ==
  gate => \A o \in OrderId : Working(o) => o[1] >= opened

\* A rebalance computes and places its orders with no order of another
\* operation outstanding, so no order is ever sized from positions that such an
\* order is still changing (the rebalance lock, the open-order check and the
\* reconciliation that precedes every opening).
RebalanceFromRest ==
  \A r \in Request : req[r].pc \in Rebalancing \ {"checking"} =>
    \A o \in OrderId : Working(o) => <<o[1], o[2]>> = OpOf(r)

\* No order is written to the network twice, over all duplicates of its
\* operation, lost answers and restarts (submit).
AtMostOnePost == \A o \in OrderId : posts[o] <= 1

\* The database knows every order that was written to the network, and what it
\* calls discarded or rejected never trades: those are the records that
\* reconcile never asks the broker about (submit, reconcile).
RecordsCoverOrders ==
  \A o \in OrderId :
    (posts[o] > 0 => db[o] # NoRecord)
    /\ (db[o].status \in {"discarded", "rejected"} => ~Working(o) /\ broker[o] = Absent)

\* A mode counts as reconciled only when no order of it can trade any more and
\* every share that was traded is booked (reconcile, save_order).
ReconciledMeansSettled ==
  reconciled /\ ~gate =>
    \A o \in OrderId : ~Working(o) /\ ledger[o] = broker[o].filled

\* The execution events of an order add up to what the broker last reported,
\* however often and in whatever order it was reported (save_order).
BookedOnce ==
  \A o \in OrderId : ledger[o] = db[o].filled /\ db[o].filled <= broker[o].filled

\* An admitted duplicate of an operation is answered with its finished result
\* and never with the record of one that stopped half-way: the worker takes
\* any answer for success (_rebalance returns the record it finds).
DuplicateFindsResult ==
  \A r \in Request :
    req[r].pc = "waiting" /\ Admissible(r) /\ ~RebalanceLocked => ops[OpOf(r)] # "in_progress"

\* The history of a mode has one allocation event for an operation at most, and
\* none for one that is not recorded as completed, so that a duplicate would
\* carry it out again (_rebalance, Runtime.cycle).
CycleOfCompleted ==
  \A k \in OpId : cycles[k] <= 1 /\ (cycles[k] = 1 => ops[k] = "completed")

-----------------------------------------------------------------------------
(* Liveness                                                                *)

\* Every call of rebalance ends and gives its locks back, also the one whose
\* thread holds the broker's lock while it waits for the event loop to admit
\* its order, or whose answer never comes (rebalance, Broker.call, SDKAdapter).
RebalancesEnd == \A r \in Request : req[r].pc # "idle" ~> req[r].pc = "idle"

\* From some time on the mode stays closed and neither the provider, nor the
\* database, nor the broker's interface fails.
Trouble == Restart \/ CloseGate \/ ReconcileRaises \/ OrderUnsettled
Calm == <>[]~gate /\ <>[][~Trouble]_vars

\* In calm every order the broker knows comes to rest and every share it traded
\* is booked, whatever became of the other orders (the try of reconcile's loop).
OrdersSettle ==
  Calm => <>[](\A o \in OrderId : ~Working(o) /\ ledger[o] = broker[o].filled)

\* An order that is recorded and that the broker will never know.
Lost(o) == db[o].status = "uncertain" /\ broker[o] = Absent /\ o \notin wire

\* In calm the mode is found reconciled again and again, so that it can be
\* resumed; the only thing that prevents it is an order that was recorded and
\* never reached the broker, which nothing settles (reconcile).
ModeReconciles == Calm => []<>reconciled \/ <>[](\E o \in OrderId : Lost(o))

-----------------------------------------------------------------------------
\* A call holds the permit the gate was open under when it was admitted.
Permits == INSTANCE GatePermit WITH
  Mode   <- {"mode"},
  open   <- [m \in {"mode"} |-> gate],
  spent  <- [m \in {"mode"} |-> opened],
  holder <- [r \in Request |->
               IF req[r].pc = "idle" THEN None
               ELSE [mode |-> "mode", permit |-> req[r].permit,
                     sending |-> req[r].pc \in {"admitted", "posted"}]]

\* The orders keep the permit discipline of GatePermit, with all the waiting
\* for locks, for the database and for a connection in between (submit, and
\* the admission hook of Broker.call): an order is written to the network only
\* under the permission its rebalance began with, one at a time.
OrdersUnderPermit == Permits!Spec

-----------------------------------------------------------------------------
\* What the mode is at: a reconciliation counts for the incident it began with.
Reconciling == recon.pc # "resting" /\ recon.incident = incident
PhaseOfMode ==
  CASE gate -> "open"
    [] ~gate /\ Reconciling -> IF recon.pc \in {"reading", "read"} THEN "reconciling" ELSE "checked"
    [] OTHER -> IF reconciled THEN "reconciled" ELSE "closed"

Phases == INSTANCE SettledGate WITH
  Mode    <- {"mode"},
  phase   <- [m \in {"mode"} |-> PhaseOfMode],
  sending <- [m \in {"mode"} |-> \E r \in Request : req[r].pc \in {"admitted", "posted"}]

\* What the orders suppose of the gate and give it is what ProviderGate keeps:
\* the mode opens only after a reconciliation of its present incident that saw
\* no submission in flight and asked about every order (reconcile, submit).
OrdersOpenSettled == Phases!Spec

=============================================================================
