--------------------------- MODULE OrderFlowProofs ---------------------------
(***************************************************************************)
(* The safety properties of OrderFlow, and that it implements GatePermit,  *)
(* proved for every set of calls, operations and symbols, every quantity   *)
(* and every number of permissions.                                        *)
(***************************************************************************)
EXTENDS OrderFlow, TLAPS

-----------------------------------------------------------------------------
(* The inductive invariant.                                                *)

\* Nothing of the order is on the network or at the broker.
Unsent(o) == o \notin wire /\ broker[o] = Absent

\* The order can trade no more, and all it traded is booked.
Settled(o) == ~Working(o) /\ ledger[o] = broker[o].filled

\* What the network and the broker know of an order, and what its record says.
OrderKnown(o) ==
  /\ o \in wire => broker[o] = Absent
  /\ posts[o] = 0 => Unsent(o)
  /\ broker[o].status = "absent" => broker[o] = Absent
  /\ broker[o].status = "open" => broker[o].filled < Quantity
  /\ db[o].status = "none" => db[o] = NoRecord
  /\ db[o].status \in Terminal => broker[o] = db[o]

OrdersSound ==
  /\ AtMostOnePost /\ RecordsCoverOrders /\ BookedOnce
  /\ \A o \in OrderId : OrderKnown(o)

\* A call in progress has an operation and was admitted at a version of the
\* past; while that is the present version it holds the permit of the gate.
Admitted(r) == req[r].pc # "idle" =>
  /\ req[r].op \in Operation
  /\ req[r].version \in 1..version
  /\ Admissible(r) => req[r].permit = opened
  /\ req[r].pc = "discarding" => ~Admissible(r)

\* The order a call places is of the present permission if the gate is open,
\* and is recorded as uncertain from before it is sent until it is answered.
Recorded(r) == req[r].pc \in Ordering =>
  /\ req[r].sym \in Symbol
  /\ gate => req[r].version >= opened
  /\ db[OrderOf(r)] = IF req[r].pc = "recording" THEN NoRecord ELSE Record("uncertain")
  /\ req[r].pc \notin {"posted", "answered", "refused"} => posts[OrderOf(r)] = 0
  /\ req[r].pc = "refused" => Unsent(OrderOf(r))
  /\ req[r].pc = "answered" =>
       /\ req[r].answer.status # "absent"
       /\ broker[OrderOf(r)] # Absent
       /\ req[r].answer.filled <= broker[OrderOf(r)].filled
       /\ req[r].answer.status \in Terminal => broker[OrderOf(r)] = req[r].answer

\* What the record of its operation says while a call carries it out.
Carried(r) == req[r].pc \in Rebalancing =>
  /\ cycles[OpOf(r)] = 0
  /\ ops[OpOf(r)] = IF req[r].pc \in {"checking", "pricing", "starting"} THEN "none"
                    ELSE IF req[r].pc = "cycling" THEN "completed" ELSE "in_progress"

\* Before its check for open orders a call has nothing on the network before
\* it, and after it no working order of another operation.
FromRest(r) ==
  /\ req[r].pc = "checking" => wire = {}
  /\ req[r].pc \in Rebalancing \ {"checking"} =>
       \A o \in OrderId : Working(o) => <<o[1], o[2]>> = OpOf(r)

CallSound(r) == Admitted(r) /\ Recorded(r) /\ Carried(r) /\ FromRest(r)

\* One call holds the rebalance lock, and with it the order lock.
OneRebalance ==
  \A r, q \in Request : req[r].pc \in Rebalancing /\ req[q].pc \in Rebalancing => r = q

\* Operations are of versions of the past, and one that may still be admitted
\* and is not finished has a call that carries it out.
OperationsCarried ==
  \A k \in OpId : ops[k] # "none" =>
    /\ k[1] <= version
    /\ ops[k] = "in_progress" /\ gate /\ k[1] = version =>
         \E r \in Request : req[r].pc \in Rebalancing /\ OpOf(r) = k

\* While the gate is open a call waits for every order on the network.
WireCarried ==
  gate => \A o \in wire : \E r \in Request : req[r].pc = "posted" /\ OrderOf(r) = o

\* An open gate was opened at a version of the past; no reconciliation runs
\* while it is open, and while one runs the mode is not reconciled.
GateSound ==
  /\ gate => opened \in 1..version
  /\ recon.pc # "resting" => ~gate /\ ~reconciled

\* Past the check of the order lock no order is being placed, up to the next
\* opening.
Settling == recon.pc \in {"listing", "asking", "canceling", "recording"}
SettledAlone == Settling \/ (reconciled /\ ~gate) => ~OrderLocked

\* What the records say that a reconciliation has read.
Placing == {"posting", "admitted", "posted", "answered"}
ReadSound == recon.pc = "read" \/ Settling => \A o \in OrderId :
  /\ recon.records[o] \in {"none", "discarded", "rejected"} =>
       Unsent(o) /\ \A r \in Request : req[r].pc \in Placing => OrderOf(r) # o
  /\ recon.records[o] \in Terminal => Settled(o) /\ broker[o] # Absent

\* What it has seen of the orders, and which are settled by now, are still to be
\* settled, or are known not to be.
SeenSound ==
  /\ Settling /\ recon.pc # "listing" =>
       \A o \in OrderId :
         /\ recon.listed[o] # Absent => recon.listed[o].status = "open" /\ broker[o] # Absent
         /\ \/ recon.outstanding \/ o \in recon.todo \/ Settled(o)
            \/ recon.pc # "asking" /\ o = recon.order
  /\ recon.pc \in {"canceling", "recording"} =>
       recon.order \in OrderId /\ broker[recon.order] # Absent
  /\ recon.pc = "recording" =>
       /\ recon.seen.status # "absent"
       /\ db[recon.order].filled <= recon.seen.filled
       /\ recon.seen.filled <= broker[recon.order].filled
       /\ IF recon.seen.status \in Terminal THEN broker[recon.order] = recon.seen
          ELSE db[recon.order].status \notin Terminal

ReconSound == ReadSound /\ SeenSound

IInv ==
  /\ TypeOK
  /\ OrdersSound
  /\ CycleOfCompleted
  /\ SettledBeforeOpen
  /\ ReconciledMeansSettled
  /\ \A r \in Request : CallSound(r)
  /\ OneRebalance
  /\ OperationsCarried
  /\ WireCarried
  /\ GateSound
  /\ SettledAlone
  /\ ReconSound

-----------------------------------------------------------------------------
(* What a step of one call may change.                                     *)

\* The call itself, the record of its operation while it holds the rebalance
\* lock, and the order it places while it holds the order lock; it may close
\* the gate.
OwnStep(r, c) ==
  /\ req' = [req EXCEPT ![r] = c]
  /\ UNCHANGED <<broker, recon>>
  /\ UNCHANGED modeState \/ Close
  /\ \/ UNCHANGED <<ops, cycles>>
     \/ /\ req[r].pc \in Rebalancing
        /\ \A k \in OpId \ {OpOf(r)} : ops'[k] = ops[k]
  /\ \/ UNCHANGED <<db, ledger, wire, posts>>
     \/ /\ req[r].pc \in Ordering
        /\ \A o \in OrderId \ {OrderOf(r)} : db'[o] = db[o] /\ posts'[o] = posts[o]
        /\ wire' \ wire \subseteq IF req[r].pc = "admitted" THEN {OrderOf(r)} ELSE {}
        /\ \A o \in OrderId : ledger'[o] >= ledger[o]

\* How the call moves on: it takes a lock only if it is free, places an order
\* only while the gate is open or as the one it was placing, and ends an
\* operation or a POST that is under way only with the gate closed behind it.
Moves(r, c) ==
  /\ c.pc \in Rebalancing /\ req[r].pc \notin Rebalancing => ~RebalanceLocked
  /\ c.pc \in Ordering /\ req[r].pc \notin Ordering => gate'
  /\ c.pc \in Placing =>
       \/ gate'
       \/ /\ req[r].pc \in Placing
          /\ c.version = req[r].version /\ c.op = req[r].op /\ c.sym = req[r].sym
  /\ req[r].pc \in Rebalancing =>
       \/ ~gate' \/ ops'[OpOf(r)] # "in_progress" \/ req[r].version # version
       \/ c.pc \in Rebalancing /\ c.version = req[r].version /\ c.op = req[r].op
  /\ \A k \in OpId : ops'[k] # "none" => ops[k] # "none" \/ k[1] <= version
  /\ req[r].pc = "posted" =>
       ~gate' \/ OrderOf(r) \notin wire' \/ (c.pc = "posted" /\ c = req[r])
  /\ OrderOf(r) \in wire' /\ req[r].pc = "admitted" => c = [req[r] EXCEPT !.pc = "posted"]

\* The order of a call in the order lock, and its operation, are well-formed.
LEMMA CallIds ==
  ASSUME TypeOK, NEW r \in Request, Admitted(r), Recorded(r)
  PROVE  /\ req[r].pc # "idle" => OpOf(r) \in OpId
         /\ req[r].pc \in Ordering => OrderOf(r) \in OrderId /\ req[r].pc \in Rebalancing
BY VersionsAssumption DEF TypeOK, Admitted, Recorded, Calls, OpOf, OrderOf, OpId, OrderId, Version,
   Ordering, Rebalancing

\* A step of one call leaves the others sound, and with the call itself and the
\* orders everything else.
LEMMA CallStep ==
  ASSUME IInv, TypeOK', NEW r \in Request, NEW c, OwnStep(r, c), Moves(r, c),
         OrdersSound', CycleOfCompleted', CallSound(r)'
  PROVE  IInv'
<1> USE DEF IInv
<1> DEFINE others == Request \ {r}
<1>1. /\ version' = version /\ opened' = opened
      /\ gate' => gate /\ reconciled' = reconciled
      /\ reconciled' => reconciled /\ gate' = gate
  BY DEF OwnStep, Close, modeState
<1>2. /\ req'[r] = c
      /\ \A q \in others : req'[q] = req[q]
  BY DEF OwnStep, TypeOK
<1>3. \A q \in others : OpOf(q)' = OpOf(q) /\ OrderOf(q)' = OrderOf(q)
                        /\ (Admissible(q)' => Admissible(q))
  BY <1>1, <1>2 DEF OpOf, OrderOf, Admissible
<1>4. \A q \in others : req[q].pc \in Rebalancing =>
        UNCHANGED <<ops, cycles, db, ledger, wire, posts>>
  <2> SUFFICES ASSUME NEW q \in others, req[q].pc \in Rebalancing
               PROVE  UNCHANGED <<ops, cycles, db, ledger, wire, posts>>
    OBVIOUS
  <2>1. req[r].pc \notin Rebalancing
    BY DEF OneRebalance
  <2> QED
    BY <2>1 DEF OwnStep, Rebalancing
<1>5. \A q \in others : CallSound(q)'
  <2> SUFFICES ASSUME NEW q \in others PROVE CallSound(q)'
    OBVIOUS
  <2>0. CallSound(q) /\ broker' = broker
    BY DEF OwnStep
  <2>1. Admitted(q)'
    BY <1>1, <1>2, <1>3, <2>0 DEF CallSound, Admitted
  <2>2. CASE req[q].pc \in Rebalancing
    <3>1. UNCHANGED <<ops, cycles, db, ledger, wire, posts>>
      BY <1>4, <2>2
    <3>2. Recorded(q)'
      BY <1>1, <1>2, <1>3, <2>0, <3>1 DEF CallSound, Recorded, Unsent
    <3>3. Carried(q)'
      BY <1>2, <1>3, <2>0, <3>1 DEF CallSound, Carried
    <3>4. FromRest(q)'
      BY <1>2, <1>3, <2>0, <3>1 DEF CallSound, FromRest, Working
    <3> QED
      BY <2>1, <3>2, <3>3, <3>4 DEF CallSound
  <2>3. CASE req[q].pc \notin Rebalancing
    <3>1. req'[q].pc \notin Rebalancing /\ req'[q].pc \notin Ordering /\ req'[q].pc # "checking"
      BY <1>2, <2>3 DEF Rebalancing
    <3> QED
      BY <2>1, <3>1 DEF CallSound, Recorded, Carried, FromRest
  <2> QED
    BY <2>2, <2>3
<1>6. OneRebalance'
  BY <1>2 DEF OneRebalance, Moves, RebalanceLocked
<1>7. OperationsCarried'
  <2> SUFFICES ASSUME NEW k \in OpId, ops'[k] # "none"
               PROVE  /\ k[1] <= version
                      /\ ops'[k] = "in_progress" /\ gate' /\ k[1] = version =>
                           \E q \in Request : req'[q].pc \in Rebalancing /\ OpOf(q)' = k
    BY <1>1 DEF OperationsCarried
  <2>1. k[1] <= version
    BY DEF Moves, OperationsCarried
  <2>2. ASSUME ops'[k] = "in_progress", gate', k[1] = version
        PROVE  \E q \in Request : req'[q].pc \in Rebalancing /\ OpOf(q)' = k
    <3>1. CASE req[r].pc \in Rebalancing /\ OpOf(r) = k
      <4>1. c.pc \in Rebalancing /\ c.version = req[r].version /\ c.op = req[r].op
        BY <2>2, <3>1 DEF Moves, OpOf
      <4> QED
        BY <1>2, <3>1, <4>1 DEF OpOf
    <3>2. CASE ~(req[r].pc \in Rebalancing /\ OpOf(r) = k)
      <4>1. ops[k] = "in_progress" /\ gate
        BY <1>1, <2>2, <3>2 DEF OwnStep
      <4>2. PICK q \in Request : req[q].pc \in Rebalancing /\ OpOf(q) = k
        BY <2>2, <4>1 DEF OperationsCarried
      <4>3. q \in others
        BY <3>2, <4>2
      <4> QED
        BY <1>2, <1>3, <4>2, <4>3
    <3> QED
      BY <3>1, <3>2
  <2> QED
    BY <2>1, <2>2
<1>8. WireCarried'
  <2> SUFFICES ASSUME gate', NEW o \in wire'
               PROVE  \E q \in Request : req'[q].pc = "posted" /\ OrderOf(q)' = o
    BY DEF WireCarried
  <2>1. CASE o \in wire
    <3>1. PICK q \in Request : req[q].pc = "posted" /\ OrderOf(q) = o
      BY <1>1, <2>1 DEF WireCarried
    <3>2. CASE q = r
      <4>1. c.pc = "posted" /\ c = req[r]
        BY <3>1, <3>2 DEF Moves
      <4> QED
        BY <1>2, <3>1, <3>2, <4>1 DEF OrderOf
    <3>3. CASE q # r
      BY <1>2, <1>3, <3>1, <3>3
    <3> QED
      BY <3>2, <3>3
  <2>2. CASE o \notin wire
    <3>1. req[r].pc = "admitted" /\ o = OrderOf(r)
      BY <2>2 DEF OwnStep
    <3>2. c = [req[r] EXCEPT !.pc = "posted"]
      BY <3>1 DEF Moves
    <3>3. req[r] \in Calls
      BY DEF TypeOK
    <3> QED
      BY <1>2, <3>1, <3>2, <3>3 DEF OrderOf, Calls
  <2> QED
    BY <2>1, <2>2
<1>9. GateSound'
  BY <1>1 DEF GateSound, OwnStep
<1>10. \A q \in Request : CallSound(q)'
  BY <1>5
<1>11. OrderLocked' => OrderLocked \/ gate'
  BY <1>2 DEF OrderLocked, Moves
<1>12. SettledAlone'
  BY <1>1, <1>11 DEF SettledAlone, GateSound, OwnStep, Settling
<1>13. ~OrderLocked => UNCHANGED <<db, ledger, wire, posts>>
  BY DEF OwnStep, OrderLocked
<1>14. ReconciledMeansSettled'
  BY <1>1, <1>13 DEF ReconciledMeansSettled, SettledAlone, Working, OwnStep
<1>15. SeenSound'
  <2>1. recon' = recon /\ broker' = broker /\ SeenSound
    BY DEF OwnStep, ReconSound
  <2>2. CASE Settling
    <3>1. UNCHANGED <<db, ledger, wire, posts>>
      BY <1>13, <2>2 DEF SettledAlone
    <3> QED
      BY <2>1, <3>1 DEF SeenSound, Settling, Settled, Working
  <2>3. CASE ~Settling
    BY <2>1, <2>3 DEF SeenSound, Settling
  <2> QED
    BY <2>2, <2>3
<1>16. ReadSound'
  <2> SUFFICES ASSUME recon.pc = "read" \/ Settling, NEW o \in OrderId
               PROVE  /\ recon.records[o] \in {"none", "discarded", "rejected"} =>
                           Unsent(o)' /\ \A q \in Request : req'[q].pc \in Placing => OrderOf(q)' # o
                      /\ recon.records[o] \in Terminal => Settled(o)' /\ broker[o] # Absent
    BY DEF ReadSound, Settling, OwnStep
  <2>0. ~gate' /\ recon' = recon /\ broker' = broker /\ CallSound(r)
    BY <1>1 DEF GateSound, Settling, OwnStep
  <2>1. ASSUME recon.records[o] \in {"none", "discarded", "rejected"}
        PROVE  Unsent(o)' /\ \A q \in Request : req'[q].pc \in Placing => OrderOf(q)' # o
    <3>1. Unsent(o) /\ \A q \in Request : req[q].pc \in Placing => OrderOf(q) # o
      BY <2>1 DEF ReconSound, ReadSound
    <3>2. Unsent(o)'
      BY <2>0, <3>1 DEF Unsent, OwnStep, Placing
    <3>3. req'[r].pc \in Placing => OrderOf(r)' # o
      BY <1>2, <2>0, <3>1 DEF Moves, OrderOf
    <3> QED
      BY <1>2, <1>3, <3>1, <3>2, <3>3
  <2>2. ASSUME recon.records[o] \in Terminal
        PROVE  Settled(o)' /\ broker[o] # Absent
    <3>1. Settled(o) /\ broker[o] # Absent
      BY <2>2 DEF ReconSound, ReadSound
    <3>2. ~(req[r].pc = "admitted" /\ OrderOf(r) = o)
      BY <2>0, <3>1 DEF CallSound, Recorded, Ordering, OrdersSound, OrderKnown, Unsent
    <3>3. ~Working(o)'
      BY <2>0, <3>1, <3>2 DEF Settled, Working, OwnStep
    <3>4. ledger'[o] >= ledger[o]
      BY DEF OwnStep, TypeOK
    <3>5. ledger'[o] = broker[o].filled
      <4>1. /\ ledger'[o] = db'[o].filled /\ db'[o].filled <= broker[o].filled
            /\ ledger[o] = broker[o].filled
        BY <2>0, <3>1 DEF Settled, OrdersSound, BookedOnce
      <4>2. ledger'[o] \in Nat /\ ledger[o] \in Nat
        BY QuantityAssumption DEF TypeOK
      <4> QED
        BY <3>4, <4>1, <4>2
    <3> QED
      BY <2>0, <3>1, <3>3, <3>5 DEF Settled
  <2> QED
    BY <2>1, <2>2
<1>17. SettledBeforeOpen'
  <2> SUFFICES ASSUME gate', NEW o \in OrderId, Working(o)' PROVE o[1] >= opened
    BY <1>1 DEF SettledBeforeOpen
  <2>1. CASE Working(o)
    BY <1>1, <2>1 DEF SettledBeforeOpen
  <2>2. CASE ~Working(o)
    <3>1. req[r].pc = "admitted" /\ o = OrderOf(r) /\ CallSound(r)
      BY <2>2 DEF Working, OwnStep
    <3> QED
      BY <1>1, <3>1 DEF CallSound, Recorded, Ordering, OrderOf
  <2> QED
    BY <2>1, <2>2
<1> QED
  BY <1>6, <1>7, <1>8, <1>9, <1>10, <1>12, <1>14, <1>15, <1>16, <1>17 DEF ReconSound

-----------------------------------------------------------------------------
(* Steps of a call.                                                        *)

\* A call that is not in progress is well-formed.
LEMMA FreeCall == Free \in Calls /\ Free.pc = "idle"
BY QuantityAssumption, VersionsAssumption DEF Free, Calls, Absent, Orders

\* Closing keeps the types and leaves the versions alone.
LEMMA CloseTypes ==
  ASSUME TypeOK, Close
  PROVE  /\ gate' = FALSE /\ reconciled' = FALSE
         /\ incident' \in 0..2 /\ version' = version /\ opened' = opened
<1>1. \E i \in 0..2 : i # incident /\ i # recon.incident
  <2>1. CASE 0 # incident /\ 0 # recon.incident
    BY <2>1
  <2>2. CASE 1 # incident /\ 1 # recon.incident
    BY <2>2
  <2>3. CASE 2 # incident /\ 2 # recon.incident
    BY <2>3
  <2> QED
    BY <2>1, <2>2, <2>3
<1>2. NewIncident \in 0..2
  BY <1>1 DEF NewIncident
<1> QED
  BY <1>2 DEF Close, TypeOK

\* What is not touched stays sound.
LEMMA OrdersKept ==
  ASSUME OrdersSound, UNCHANGED <<db, ledger, outside>>
  PROVE  OrdersSound'
BY DEF OrdersSound, AtMostOnePost, RecordsCoverOrders, BookedOnce, OrderKnown, Unsent, Working, outside

\* A record that says what the broker said of the order is saved, and no less
\* than the record before: what is new is booked.
LEMMA Saved ==
  ASSUME TypeOK, OrdersSound, NEW o \in OrderId, NEW record \in Records,
         SaveOrder(o, record), UNCHANGED outside,
         db[o].filled <= record.filled, record.filled <= broker[o].filled,
         record.status # "none",
         record.status \in {"discarded", "rejected"} => Unsent(o),
         record.status \in Terminal => broker[o] = record
  PROVE  /\ OrdersSound'
         /\ db' \in [OrderId -> Records] /\ ledger' \in [OrderId -> 0..Quantity]
         /\ db'[o] = record /\ ledger'[o] = record.filled
         /\ \A p \in OrderId \ {o} : db'[p] = db[p] /\ ledger'[p] = ledger[p]
         /\ \A p \in OrderId : ledger'[p] >= ledger[p]
<1>1. /\ db' = [db EXCEPT ![o] = record]
      /\ db' \in [OrderId -> Records]
      /\ db'[o] = record /\ \A p \in OrderId \ {o} : db'[p] = db[p]
  BY DEF SaveOrder, TypeOK
<1>2. /\ ledger[o] = db[o].filled /\ ledger[o] \in 0..Quantity
      /\ record.filled \in 0..Quantity
  BY DEF OrdersSound, BookedOnce, TypeOK, Records
<1>3. /\ ledger' \in [OrderId -> 0..Quantity]
      /\ ledger'[o] = record.filled /\ \A p \in OrderId \ {o} : ledger'[p] = ledger[p]
  <2> DEFINE more == IF record.filled > db[o].filled THEN record.filled - db[o].filled ELSE 0
  <2>1. ledger[o] + more = record.filled
    BY <1>2, QuantityAssumption
  <2>2. ledger' = [ledger EXCEPT ![o] = record.filled]
    BY <2>1 DEF SaveOrder, TypeOK
  <2> QED
    BY <1>2, <2>2 DEF TypeOK
<1>4. \A p \in OrderId : ledger'[p] >= ledger[p]
  BY <1>2, <1>3, QuantityAssumption DEF TypeOK
<1>5. broker' = broker /\ wire' = wire /\ posts' = posts
  BY DEF outside
<1>6. AtMostOnePost'
  BY <1>5 DEF OrdersSound, AtMostOnePost
<1>7. RecordsCoverOrders'
  BY <1>1, <1>5 DEF OrdersSound, RecordsCoverOrders, Working, Unsent, NoRecord, Absent
<1>8. BookedOnce'
  BY <1>1, <1>3, <1>5 DEF OrdersSound, BookedOnce
<1>9. \A p \in OrderId : OrderKnown(p)'
  BY <1>1, <1>5 DEF OrdersSound, OrderKnown, Unsent, NoRecord
<1> QED
  BY <1>1, <1>3, <1>4, <1>6, <1>7, <1>8, <1>9 DEF OrdersSound

\* A call that only moves on.
LEMMA QuietStep ==
  ASSUME IInv, NEW r \in Request, NEW c \in Calls, req' = [req EXCEPT ![r] = c],
         UNCHANGED <<modeState, database, outside, recon>>, Moves(r, c), CallSound(r)'
  PROVE  IInv'
<1>1. TypeOK'
  BY DEF IInv, TypeOK, modeState, database, outside
<1>2. OrdersSound'
  BY OrdersKept DEF IInv, database
<1>3. CycleOfCompleted'
  BY DEF IInv, CycleOfCompleted, database
<1>4. OwnStep(r, c)
  BY DEF OwnStep, database, outside
<1> QED
  BY <1>1, <1>2, <1>3, <1>4, CallStep

\* A call that ends.
LEMMA EndStep ==
  ASSUME IInv, NEW r \in Request, Finish(r), OwnStep(r, Free), TypeOK', OrdersSound',
         CycleOfCompleted',
         \A k \in OpId : ops'[k] # "none" => ops[k] # "none" \/ k[1] <= version,
         req[r].pc = "admitted" => wire' = wire,
         req[r].pc \in Rebalancing =>
            ~gate' \/ ops'[OpOf(r)] # "in_progress" \/ req[r].version # version,
         req[r].pc = "posted" => ~gate' \/ OrderOf(r) \notin wire'
  PROVE  IInv'
<1>1. req'[r] = Free
  BY DEF IInv, TypeOK, Finish
<1>2. CallSound(r)'
  BY <1>1, FreeCall DEF CallSound, Admitted, Recorded, Carried, FromRest, Rebalancing, Ordering
<1>3. OrderOf(r) \in wire' /\ req[r].pc = "admitted" => FALSE
  <2> SUFFICES ASSUME OrderOf(r) \in wire, req[r].pc = "admitted" PROVE FALSE
    OBVIOUS
  <2>1. posts[OrderOf(r)] = 0 /\ OrderOf(r) \in OrderId
    BY CallIds DEF IInv, CallSound, Recorded, Ordering
  <2> QED
    BY <2>1 DEF IInv, OrdersSound, OrderKnown, Unsent
<1>4. Moves(r, Free)
  <2>1. Free.pc \notin Rebalancing /\ Free.pc \notin Ordering /\ Free.pc \notin Placing
    BY FreeCall DEF Rebalancing, Ordering, Placing
  <2> QED
    BY <1>3, <2>1 DEF Moves
<1> QED
  BY <1>2, <1>4, CallStep

\* A call that fails behind a closed gate.
LEMMA FailStep ==
  ASSUME IInv, NEW r \in Request, req[r].pc # "idle", Close, Finish(r),
         UNCHANGED <<ops, cycles, broker, posts, recon>>, wire' \subseteq wire,
         \/ UNCHANGED <<db, ledger, wire>>
         \/ /\ req[r].pc \in Ordering
            /\ \A o \in OrderId \ {OrderOf(r)} : db'[o] = db[o]
            /\ \A o \in OrderId : ledger'[o] >= ledger[o],
         db' \in [OrderId -> Records], ledger' \in [OrderId -> 0..Quantity],
         OrdersSound', req[r].pc = "admitted" => wire' = wire
  PROVE  IInv'
<1>1. TypeOK'
  BY CloseTypes, FreeCall DEF IInv, TypeOK, Finish
<1>2. CycleOfCompleted'
  BY DEF IInv, CycleOfCompleted
<1>3. OwnStep(r, Free)
  BY DEF OwnStep, Finish
<1> QED
  BY <1>1, <1>2, <1>3, EndStep, CloseTypes DEF IInv

\* The call at its next step.
At(r, pc) == [req[r] EXCEPT !.pc = pc]

\* A call that goes to another step keeps all the rest of itself.
LEMMA Going ==
  ASSUME TypeOK, NEW r \in Request, NEW pc \in {"idle", "waiting"} \cup Rebalancing, Goto(r, pc)
  PROVE  /\ At(r, pc) \in Calls
         /\ req' = [req EXCEPT ![r] = At(r, pc)]
         /\ req'[r] = At(r, pc)
         /\ At(r, pc).pc = pc
         /\ At(r, pc).version = req[r].version /\ At(r, pc).op = req[r].op
         /\ At(r, pc).sym = req[r].sym /\ At(r, pc).permit = req[r].permit
         /\ At(r, pc).answer = req[r].answer /\ At(r, pc).todo = req[r].todo
BY DEF At, TypeOK, Calls, Goto

\* The call is admitted at the present version, under the permission of the open gate.
LEMMA RebalanceInv ==
  ASSUME IInv, NEW r \in Request, NEW op \in Operation, Rebalance(r, op)
  PROVE  IInv'
<1> DEFINE c == [Free EXCEPT !.pc = "waiting", !.version = version, !.op = op, !.permit = opened]
<1>1. /\ c \in Calls /\ c.pc = "waiting" /\ c.version = version /\ c.op = op /\ c.permit = opened
      /\ req' = [req EXCEPT ![r] = c] /\ req'[r] = c
  BY FreeCall DEF Rebalance, IInv, TypeOK, Calls, Free
<1>2. gate /\ version \in 1..version /\ UNCHANGED modeState
  BY DEF Rebalance, IInv, GateSound, TypeOK
<1>3. CallSound(r)'
  BY <1>1, <1>2 DEF CallSound, Admitted, Recorded, Carried, FromRest, Rebalancing, Ordering, Admissible, modeState
<1>4. Moves(r, c)
  BY <1>1, <1>2 DEF Moves, Rebalance, Rebalancing, Ordering, Placing, database
<1> QED
  BY <1>1, <1>3, <1>4, QuietStep DEF Rebalance

\* The call takes the free rebalance lock, its operation having no record, or ends.
LEMMA EnterInv ==
  ASSUME IInv, NEW r \in Request, Enter(r)
  PROVE  IInv'
<1> USE DEF Enter
<1>1. CASE Admissible(r) /\ ops[OpOf(r)] = "none"
  <2>1. Goto(r, "checking") /\ UNCHANGED <<modeState, database, outside, recon>>
    BY <1>1
  <2> DEFINE c == At(r, "checking")
  <2>2. /\ c \in Calls /\ req' = [req EXCEPT ![r] = c] /\ req'[r] = c /\ c.pc = "checking"
        /\ c.version = req[r].version /\ c.op = req[r].op /\ c.permit = req[r].permit
    BY <2>1, Going DEF IInv, Rebalancing
  <2>3. OpOf(r)' = OpOf(r) /\ OpOf(r) \in OpId
    BY <2>2, CallIds DEF IInv, CallSound, OpOf
  <2>4. Admitted(r)'
    BY <2>1, <2>2 DEF IInv, CallSound, Admitted, Admissible, modeState
  <2>5. Carried(r)'
    <3>1. cycles[OpOf(r)] = 0
      BY <1>1, <2>3 DEF IInv, CycleOfCompleted, TypeOK
    <3> QED
      BY <1>1, <2>1, <2>2, <2>3, <3>1 DEF Carried, database
  <2>6. wire = {}
    BY <1>1 DEF IInv, WireCarried, RebalanceLocked, Rebalancing, Ordering, Admissible
  <2>7. FromRest(r)' /\ Recorded(r)'
    BY <2>1, <2>2, <2>6 DEF FromRest, Recorded, Ordering, outside
  <2>8. Moves(r, c)
    BY <2>1, <2>2 DEF Moves, Rebalancing, Ordering, Placing, database
  <2> QED
    BY <2>1, <2>2, <2>4, <2>5, <2>7, <2>8, QuietStep DEF CallSound
<1>2. CASE ~(Admissible(r) /\ ops[OpOf(r)] = "none")
  <2>1. Finish(r) /\ UNCHANGED <<modeState, database, outside, recon>>
    BY <1>2
  <2>2. CallSound(r)' /\ Moves(r, Free)
    BY <2>1, FreeCall DEF CallSound, Admitted, Recorded, Carried, FromRest, Moves, Finish, Rebalancing,
       Ordering, Placing, IInv, TypeOK, database
  <2> QED
    BY <2>1, <2>2, FreeCall, QuietStep DEF Finish
<1> QED
  BY <1>1, <1>2

\* No order is open and, the gate being open or no order of this call ever
\* sent, none is on the network: from here on the call works from rest.
LEMMA CheckOpenOrdersInv ==
  ASSUME IInv, NEW r \in Request, CheckOpenOrders(r)
  PROVE  IInv'
<1> USE DEF CheckOpenOrders
<1>0. CallSound(r) /\ OpOf(r) \in OpId /\ ops[OpOf(r)] = "none"
  BY CallIds DEF IInv, CallSound, Carried, Rebalancing
<1>1. CASE \E o \in OrderId : broker[o].status = "open"
  <2>1. Finish(r) /\ UNCHANGED <<modeState, database, outside, recon>>
    BY <1>1
  <2>2. CallSound(r)' /\ Moves(r, Free)
    BY <1>0, <2>1, FreeCall DEF CallSound, Admitted, Recorded, Carried, FromRest, Moves, Finish, Rebalancing,
       Ordering, Placing, IInv, TypeOK, database
  <2> QED
    BY <2>1, <2>2, FreeCall, QuietStep DEF Finish
<1>2. CASE ~ \E o \in OrderId : broker[o].status = "open"
  <2>1. Goto(r, "pricing") /\ UNCHANGED <<modeState, database, outside, recon>>
    BY <1>2
  <2> DEFINE c == At(r, "pricing")
  <2>2. /\ c \in Calls /\ req' = [req EXCEPT ![r] = c] /\ req'[r] = c /\ c.pc = "pricing"
        /\ c.version = req[r].version /\ c.op = req[r].op /\ c.permit = req[r].permit
    BY <2>1, Going DEF IInv, Rebalancing
  <2>3. OpOf(r)' = OpOf(r)
    BY <2>2 DEF OpOf
  <2>4. Admitted(r)'
    BY <1>0, <2>1, <2>2 DEF CallSound, Admitted, Admissible, modeState
  <2>5. Carried(r)' /\ Recorded(r)'
    BY <1>0, <2>1, <2>2, <2>3 DEF CallSound, Carried, Recorded, Rebalancing, Ordering, database
  <2>6. FromRest(r)'
    BY <1>0, <1>2, <2>1, <2>2 DEF CallSound, FromRest, Working, outside
  <2>7. Moves(r, c)
    BY <2>1, <2>2 DEF Moves, Rebalancing, Ordering, Placing, database
  <2> QED
    BY <2>1, <2>2, <2>4, <2>5, <2>6, <2>7, QuietStep DEF CallSound
<1> QED
  BY <1>1, <1>2

\* The orders to place are known.
LEMMA PriceInv ==
  ASSUME IInv, NEW r \in Request, NEW symbols \in SUBSET Symbol, Price(r, symbols)
  PROVE  IInv'
<1> DEFINE c == [req[r] EXCEPT !.pc = "starting", !.todo = symbols]
<1>0. CallSound(r) /\ req[r].pc = "pricing" /\ UNCHANGED <<modeState, database, outside, recon>>
  BY DEF IInv, Price
<1>1. /\ c \in Calls /\ req' = [req EXCEPT ![r] = c] /\ req'[r] = c /\ c.pc = "starting"
      /\ c.version = req[r].version /\ c.op = req[r].op /\ c.permit = req[r].permit
  BY DEF Price, IInv, TypeOK, Calls, Rebalancing
<1>2. OpOf(r)' = OpOf(r)
  BY <1>1 DEF OpOf
<1>3. Admitted(r)'
  BY <1>0, <1>1 DEF CallSound, Admitted, Admissible, modeState
<1>4. Carried(r)' /\ Recorded(r)'
  BY <1>0, <1>1, <1>2 DEF CallSound, Carried, Recorded, Rebalancing, Ordering, database
<1>5. FromRest(r)'
  BY <1>0, <1>1, <1>2 DEF CallSound, FromRest, Working, Rebalancing, outside
<1>6. Moves(r, c)
  BY <1>0, <1>1 DEF Moves, Rebalancing, Ordering, Placing, database
<1> QED
  BY <1>0, <1>1, <1>3, <1>4, <1>5, <1>6, QuietStep DEF CallSound

\* The operation is recorded as in progress, and in the end as completed.
LEMMA OperationInv ==
  ASSUME IInv, NEW r \in Request, StartOperation(r) \/ CompleteOperation(r)
  PROVE  IInv'
<1>0. CallSound(r) /\ OpOf(r) \in OpId
  BY CallIds DEF IInv, CallSound, StartOperation, CompleteOperation
<1> DEFINE pc == IF req[r].pc = "starting" THEN "submitting" ELSE "cycling"
           done == IF req[r].pc = "starting" THEN "in_progress" ELSE "completed"
           c == At(r, pc)
<1>1. /\ req[r].pc \in {"starting", "submitting"}
      /\ ops' = [ops EXCEPT ![OpOf(r)] = done]
      /\ Goto(r, pc) /\ UNCHANGED <<modeState, db, ledger, cycles, outside, recon>>
  BY DEF StartOperation, CompleteOperation
<1>2. /\ c \in Calls /\ req' = [req EXCEPT ![r] = c] /\ req'[r] = c /\ c.pc = pc
      /\ c.version = req[r].version /\ c.op = req[r].op /\ c.permit = req[r].permit
  BY <1>1, Going DEF IInv, Rebalancing
<1>3. OpOf(r)' = OpOf(r)
  BY <1>2 DEF OpOf
<1>4. ops'[OpOf(r)] = done /\ \A k \in OpId \ {OpOf(r)} : ops'[k] = ops[k]
  BY <1>0, <1>1 DEF IInv, TypeOK
<1>5. cycles[OpOf(r)] = 0
  BY <1>0, <1>1 DEF CallSound, Carried, Rebalancing
<1>6. TypeOK'
  BY <1>1, <1>2 DEF IInv, TypeOK, modeState, outside
<1>7. OrdersSound'
  BY <1>1, OrdersKept DEF IInv
<1>8. CycleOfCompleted'
  BY <1>1, <1>4, <1>5 DEF IInv, CycleOfCompleted
<1>9. OwnStep(r, c)
  BY <1>1, <1>2, <1>4 DEF OwnStep, Rebalancing, outside
<1>10. Admitted(r)'
  BY <1>0, <1>1, <1>2 DEF CallSound, Admitted, Admissible, modeState
<1>11. Carried(r)' /\ Recorded(r)'
  BY <1>0, <1>1, <1>2, <1>3, <1>4, <1>5 DEF Carried, Recorded, Rebalancing, Ordering
<1>12. FromRest(r)'
  BY <1>0, <1>1, <1>2, <1>3 DEF CallSound, FromRest, Working, Rebalancing, outside
<1>13. Moves(r, c)
  <2>1. req[r].version <= version /\ OpOf(r)[1] = req[r].version
    BY <1>0, <1>1 DEF CallSound, Admitted, OpOf, IInv, TypeOK
  <2>2. \A k \in OpId : ops'[k] # "none" => ops[k] # "none" \/ k[1] <= version
    BY <1>4, <2>1
  <2> QED
    BY <1>1, <1>2, <2>2 DEF Moves, Rebalancing, Ordering, Placing
<1> QED
  BY <1>2, <1>6, <1>7, <1>8, <1>9, <1>10, <1>11, <1>12, <1>13, CallStep DEF CallSound

\* The one allocation event of a completed operation.
LEMMA RecordCycleInv ==
  ASSUME IInv, NEW r \in Request, RecordCycle(r)
  PROVE  IInv'
<1>1. /\ req[r].pc = "cycling" /\ Finish(r)
      /\ cycles' = [cycles EXCEPT ![OpOf(r)] = @ + 1]
      /\ UNCHANGED <<modeState, ops, db, ledger, outside, recon>>
  BY DEF RecordCycle
<1>2. OpOf(r) \in OpId /\ cycles[OpOf(r)] = 0 /\ ops[OpOf(r)] = "completed"
  BY <1>1, CallIds DEF IInv, CallSound, Carried, Rebalancing
<1>3. TypeOK'
  BY <1>1, <1>2, FreeCall DEF IInv, TypeOK, Finish, modeState, outside
<1>4. OrdersSound'
  BY <1>1, OrdersKept DEF IInv
<1>5. CycleOfCompleted'
  BY <1>1, <1>2 DEF IInv, CycleOfCompleted, TypeOK
<1>6. OwnStep(r, Free)
  BY <1>1 DEF OwnStep, Rebalancing, Finish, outside
<1> QED
  BY <1>1, <1>2, <1>3, <1>4, <1>5, <1>6, EndStep

\* A rebalance that raises leaves its operation unfinished behind a closed gate.
LEMMA RouteFailsInv ==
  ASSUME IInv, NEW r \in Request, RouteFails(r)
  PROVE  IInv'
<1>0. /\ req[r].pc \in {"waiting", "checking", "pricing", "starting", "submitting", "cycling"}
      /\ Close /\ Finish(r) /\ UNCHANGED <<db, ledger, outside, recon>>
  BY DEF RouteFails
<1>1. OpOf(r) \in OpId /\ CallSound(r) /\ req[r].version <= version /\ OpOf(r)[1] = req[r].version
  BY <1>0, CallIds DEF IInv, CallSound, Admitted, OpOf, TypeOK
<1>2. \/ UNCHANGED <<ops, cycles>>
      \/ req[r].pc = "starting" /\ ops' = [ops EXCEPT ![OpOf(r)] = "in_progress"] /\ cycles' = cycles
      \/ req[r].pc = "submitting" /\ ops' = [ops EXCEPT ![OpOf(r)] = "completed"] /\ cycles' = cycles
      \/ req[r].pc = "cycling" /\ cycles' = [cycles EXCEPT ![OpOf(r)] = @ + 1] /\ ops' = ops
  BY DEF RouteFails
<1>3. /\ ops' \in [OpId -> {"none", "in_progress", "completed"}] /\ cycles' \in [OpId -> Nat]
      /\ \A k \in OpId \ {OpOf(r)} : ops'[k] = ops[k] /\ cycles'[k] = cycles[k]
  BY <1>1, <1>2 DEF IInv, TypeOK
<1>4. TypeOK'
  BY <1>0, <1>3, FreeCall, CloseTypes DEF IInv, TypeOK, Finish, outside
<1>5. OrdersSound'
  BY <1>0, OrdersKept DEF IInv
<1>6. CycleOfCompleted'
  <2>1. req[r].pc \in {"starting", "submitting", "cycling"} =>
          cycles[OpOf(r)] = 0 /\ (req[r].pc = "cycling" => ops[OpOf(r)] = "completed")
    BY <1>1 DEF CallSound, Carried, Rebalancing
  <2> QED
    BY <1>1, <1>2, <2>1 DEF IInv, CycleOfCompleted, TypeOK
<1>7. OwnStep(r, Free)
  BY <1>0, <1>2, <1>3 DEF OwnStep, Rebalancing, Finish, outside
<1>8. \A k \in OpId : ops'[k] # "none" => ops[k] # "none" \/ k[1] <= version
  BY <1>1, <1>3
<1> QED
  BY <1>0, <1>4, <1>5, <1>6, <1>7, <1>8, CloseTypes, EndStep DEF IInv

-----------------------------------------------------------------------------
(* Steps of a submission.                                                  *)

\* The next order is placed only if it has no record and the gate is open.
LEMMA SubmitInv ==
  ASSUME IInv, NEW r \in Request, NEW s \in Symbol, Submit(r, s)
  PROVE  IInv'
<1> DEFINE o == <<req[r].version, req[r].op, s>>
<1>0. /\ req[r].pc = "submitting" /\ ~OrderLocked
      /\ UNCHANGED <<modeState, database, outside, recon>>
      /\ CallSound(r)
  BY DEF Submit, IInv
<1>1. CASE ~Admissible(r)
  <2>1. Finish(r)
    BY <1>1 DEF Submit
  <2>2. TypeOK' /\ CycleOfCompleted'
    BY <1>0, <2>1, FreeCall DEF IInv, TypeOK, CycleOfCompleted, Finish, modeState, database, outside
  <2>3. OrdersSound'
    BY <1>0, OrdersKept DEF IInv, database
  <2>4. OwnStep(r, Free)
    BY <1>0, <2>1 DEF OwnStep, Finish, database, outside
  <2> QED
    BY <1>0, <1>1, <2>1, <2>2, <2>3, <2>4, EndStep DEF Admissible, modeState, database
<1>2. CASE Admissible(r) /\ db[o] # NoRecord
  <2> DEFINE c == [req[r] EXCEPT !.todo = @ \ {s}]
  <2>1. /\ c \in Calls /\ req' = [req EXCEPT ![r] = c] /\ req'[r] = c /\ c.pc = "submitting"
        /\ c.version = req[r].version /\ c.op = req[r].op /\ c.permit = req[r].permit
    BY <1>0, <1>2 DEF Submit, IInv, TypeOK, Calls
  <2>2. OpOf(r)' = OpOf(r)
    BY <2>1 DEF OpOf
  <2>3. Admitted(r)' /\ Recorded(r)'
    BY <1>0, <2>1 DEF CallSound, Admitted, Recorded, Ordering, Admissible, modeState
  <2>4. Carried(r)' /\ FromRest(r)'
    BY <1>0, <2>1, <2>2 DEF CallSound, Carried, FromRest, Working, database, outside
  <2>5. Moves(r, c)
    BY <1>0, <2>1 DEF Moves, Rebalancing, Ordering, Placing, database
  <2> QED
    BY <1>0, <2>1, <2>3, <2>4, <2>5, QuietStep DEF CallSound
<1>3. CASE Admissible(r) /\ db[o] = NoRecord
  <2> DEFINE c == [req[r] EXCEPT !.pc = "recording", !.todo = @ \ {s}, !.sym = s]
  <2>1. /\ c \in Calls /\ req' = [req EXCEPT ![r] = c] /\ req'[r] = c /\ c.pc = "recording"
        /\ c.version = req[r].version /\ c.op = req[r].op /\ c.permit = req[r].permit /\ c.sym = s
    BY <1>0, <1>3 DEF Submit, IInv, TypeOK, Calls, Rebalancing, Ordering
  <2>2. OpOf(r)' = OpOf(r) /\ OrderOf(r)' = o
    BY <2>1 DEF OpOf, OrderOf
  <2>3. o \in OrderId
    BY <1>0, CallIds DEF IInv, CallSound, OpOf, OpId, OrderId
  <2>4. Admitted(r)'
    BY <1>0, <2>1 DEF CallSound, Admitted, Admissible, modeState
  <2>5. Recorded(r)'
    <3>1. posts[o] = 0
      BY <1>3, <2>3 DEF IInv, OrdersSound, RecordsCoverOrders, TypeOK
    <3>2. req[r].version >= opened
      BY <1>3 DEF Admissible, IInv, GateSound, TypeOK
    <3> QED
      BY <1>0, <1>3, <2>1, <2>2, <3>1, <3>2 DEF Recorded, Ordering, modeState, database, outside
  <2>6. Carried(r)' /\ FromRest(r)'
    BY <1>0, <2>1, <2>2 DEF CallSound, Carried, FromRest, Working, Rebalancing, Ordering, database, outside
  <2>7. Moves(r, c)
    BY <1>0, <1>3, <2>1 DEF Moves, Rebalancing, Ordering, Placing, database, Admissible, modeState
  <2> QED
    BY <1>0, <2>1, <2>4, <2>5, <2>6, <2>7, QuietStep DEF CallSound
<1> QED
  BY <1>1, <1>2, <1>3

\* A step from one part of the submission of an order to the next.
LEMMA OrderingStep ==
  ASSUME IInv, NEW r \in Request, NEW c \in Calls, req' = [req EXCEPT ![r] = c],
         req[r].pc \in Ordering, c.pc \in Ordering,
         c.version = req[r].version, c.op = req[r].op, c.sym = req[r].sym, c.permit = req[r].permit,
         UNCHANGED <<modeState, database, outside, recon>>,
         Recorded(r)', c.pc = "discarding" => ~Admissible(r),
         c.pc \in Placing => req[r].pc \in Placing,
         req[r].pc # "admitted", req[r].pc = "posted" => OrderOf(r) \notin wire
  PROVE  IInv'
<1>0. CallSound(r) /\ req'[r] = c
  BY DEF IInv, TypeOK
<1>1. OpOf(r)' = OpOf(r) /\ (Admissible(r)' <=> Admissible(r))
  BY <1>0 DEF OpOf, Admissible, modeState
<1>2. c.pc \in Rebalancing \ {"checking", "pricing", "starting", "cycling", "idle"}
      /\ req[r].pc \in Rebalancing \ {"checking", "pricing", "starting", "cycling", "idle"}
  BY DEF Rebalancing, Ordering
<1>3. Admitted(r)'
  BY <1>0, <1>1, <1>2 DEF CallSound, Admitted, modeState
<1>4. Carried(r)' /\ FromRest(r)'
  BY <1>0, <1>1, <1>2 DEF CallSound, Carried, FromRest, Working, database, outside
<1>5. Moves(r, c)
  BY <1>0, <1>2 DEF Moves, Placing, database, outside
<1> QED
  BY <1>3, <1>4, <1>5, QuietStep DEF CallSound

\* The order is admitted, refused or cannot be sent.
LEMMA AskAdmissionInv ==
  ASSUME IInv, NEW r \in Request, AskAdmission(r) \/ PostUnsent(r)
  PROVE  IInv'
<1>0. CallSound(r) /\ req[r].pc = "posting" /\ UNCHANGED <<modeState, database, outside, recon>>
  BY DEF IInv, AskAdmission, PostUnsent
<1>1. \E pc \in {"admitted", "discarding", "unsent"} :
        Goto(r, pc) /\ (pc = "discarding" => ~Admissible(r))
  BY DEF AskAdmission, PostUnsent
<1>2. PICK pc \in {"admitted", "discarding", "unsent"} :
        Goto(r, pc) /\ (pc = "discarding" => ~Admissible(r))
  BY <1>1
<1> DEFINE c == At(r, pc)
<1>3. /\ c \in Calls /\ req' = [req EXCEPT ![r] = c] /\ req'[r] = c /\ c.pc = pc
      /\ c.version = req[r].version /\ c.op = req[r].op /\ c.permit = req[r].permit /\ c.sym = req[r].sym
  BY <1>2, Going DEF IInv, Rebalancing, Ordering
<1>4. Recorded(r)'
  BY <1>0, <1>3 DEF CallSound, Recorded, Ordering, OrderOf, modeState, database, outside
<1> QED
  BY <1>0, <1>2, <1>3, <1>4, OrderingStep DEF Ordering, Placing

\* The answer says what the broker knows of the order.
LEMMA PostAnsweredInv ==
  ASSUME IInv, NEW r \in Request, PostAnswered(r)
  PROVE  IInv'
<1> DEFINE c == [req[r] EXCEPT !.pc = "answered", !.answer = broker[OrderOf(r)]]
<1>0. /\ CallSound(r) /\ req[r].pc = "posted" /\ broker[OrderOf(r)] # Absent
      /\ UNCHANGED <<modeState, database, outside, recon>>
      /\ OrderOf(r) \in OrderId
  BY CallIds DEF IInv, PostAnswered, CallSound, Ordering
<1>1. /\ c \in Calls /\ req' = [req EXCEPT ![r] = c] /\ req'[r] = c /\ c.pc = "answered"
      /\ c.version = req[r].version /\ c.op = req[r].op /\ c.permit = req[r].permit /\ c.sym = req[r].sym
      /\ c.answer = broker[OrderOf(r)]
  BY <1>0 DEF PostAnswered, IInv, TypeOK, Calls, Rebalancing, Ordering
<1>2. OrderOf(r)' = OrderOf(r)
  BY <1>1 DEF OrderOf
<1>3. broker[OrderOf(r)].status # "absent" /\ OrderOf(r) \notin wire
  BY <1>0 DEF IInv, OrdersSound, OrderKnown
<1>4. Recorded(r)'
  <2>1. broker[OrderOf(r)].filled <= broker[OrderOf(r)].filled
    BY <1>0, QuantityAssumption DEF IInv, TypeOK, Orders
  <2> QED
    BY <1>0, <1>1, <1>2, <1>3, <2>1 DEF CallSound, Recorded, Ordering, modeState, database, outside
<1> QED
  BY <1>0, <1>1, <1>3, <1>4, OrderingStep DEF Ordering, Placing

\* The order, recorded and never sent before, is written to the network.
LEMMA PostInv ==
  ASSUME IInv, NEW r \in Request, Post(r)
  PROVE  IInv'
<1> DEFINE o == OrderOf(r)
           c == At(r, "posted")
<1>0. /\ CallSound(r) /\ req[r].pc = "admitted" /\ o \in OrderId
      /\ wire' = wire \cup {o} /\ posts' = [posts EXCEPT ![o] = @ + 1]
      /\ UNCHANGED <<modeState, database, broker, recon>>
  BY CallIds DEF IInv, Post, CallSound, Ordering
<1>1. /\ c \in Calls /\ req' = [req EXCEPT ![r] = c] /\ req'[r] = c /\ c.pc = "posted"
      /\ c.version = req[r].version /\ c.op = req[r].op /\ c.permit = req[r].permit /\ c.sym = req[r].sym
  BY Going DEF IInv, Post, Rebalancing, Ordering
<1>2. OpOf(r)' = OpOf(r) /\ OrderOf(r)' = o /\ <<o[1], o[2]>> = OpOf(r)
  BY <1>1 DEF OpOf, OrderOf
<1>3. posts[o] = 0 /\ db[o] = Record("uncertain") /\ Unsent(o)
  BY <1>0 DEF CallSound, Recorded, Ordering, IInv, OrdersSound, OrderKnown
<1>4. posts'[o] = 1 /\ \A p \in OrderId \ {o} : posts'[p] = posts[p]
  BY <1>0, <1>3 DEF IInv, TypeOK
<1>5. TypeOK'
  BY <1>0, <1>1, <1>4 DEF IInv, TypeOK, modeState, database
<1>6. OrdersSound'
  <2>1. AtMostOnePost' /\ BookedOnce'
    BY <1>0, <1>4 DEF IInv, OrdersSound, AtMostOnePost, BookedOnce, database
  <2>2. RecordsCoverOrders'
    BY <1>0, <1>3, <1>4 DEF IInv, OrdersSound, RecordsCoverOrders, Working, database, NoRecord, Record
  <2>3. \A p \in OrderId : OrderKnown(p)'
    BY <1>0, <1>3, <1>4 DEF IInv, OrdersSound, OrderKnown, Unsent, database
  <2> QED
    BY <2>1, <2>2, <2>3 DEF OrdersSound
<1>7. CycleOfCompleted'
  BY <1>0 DEF IInv, CycleOfCompleted, database
<1>8. OwnStep(r, c)
  BY <1>0, <1>1, <1>4 DEF OwnStep, Ordering, database, IInv, TypeOK
<1>9. Admitted(r)'
  BY <1>0, <1>1 DEF CallSound, Admitted, Admissible, modeState
<1>10. Recorded(r)'
  BY <1>0, <1>1, <1>2, <1>3 DEF CallSound, Recorded, Ordering, modeState, database
<1>11. Carried(r)'
  BY <1>0, <1>1, <1>2 DEF CallSound, Carried, Rebalancing, Ordering, database
<1>12. FromRest(r)'
  BY <1>0, <1>1, <1>2 DEF CallSound, FromRest, Working, Rebalancing, Ordering
<1>13. Moves(r, c)
  BY <1>0, <1>1 DEF Moves, Rebalancing, Ordering, Placing, database, At
<1> QED
  BY <1>1, <1>5, <1>6, <1>7, <1>8, <1>9, <1>10, <1>11, <1>12, <1>13, CallStep DEF CallSound

\* An order that has left the network without the broker stays away.
LEMMA WireLess ==
  ASSUME TypeOK, OrdersSound, NEW o \in wire, wire' = wire \ {o}, UNCHANGED <<db, ledger, posts, broker>>
  PROVE  OrdersSound' /\ o \notin wire' /\ broker'[o] = Absent
<1>1. o \in OrderId /\ broker[o] = Absent
  BY DEF TypeOK, OrdersSound, OrderKnown
<1>2. AtMostOnePost' /\ BookedOnce' /\ RecordsCoverOrders'
  BY DEF OrdersSound, AtMostOnePost, BookedOnce, RecordsCoverOrders, Working
<1>3. \A p \in OrderId : OrderKnown(p)'
  BY DEF OrdersSound, OrderKnown, Unsent
<1> QED
  BY <1>1, <1>2, <1>3 DEF OrdersSound

\* An order the broker refuses is not on the network any more.
LEMMA PostRefusedInv ==
  ASSUME IInv, NEW r \in Request, PostRefused(r)
  PROVE  IInv'
<1> DEFINE o == OrderOf(r)
           c == At(r, "refused")
<1>0. /\ CallSound(r) /\ req[r].pc = "posted" /\ o \in OrderId
      /\ o \in wire /\ wire' = wire \ {o}
      /\ UNCHANGED <<modeState, database, broker, posts, recon>>
  BY CallIds DEF IInv, PostRefused, CallSound, Ordering
<1>1. /\ c \in Calls /\ req' = [req EXCEPT ![r] = c] /\ req'[r] = c /\ c.pc = "refused"
      /\ c.version = req[r].version /\ c.op = req[r].op /\ c.permit = req[r].permit /\ c.sym = req[r].sym
  BY Going DEF IInv, PostRefused, Rebalancing, Ordering
<1>2. OpOf(r)' = OpOf(r) /\ OrderOf(r)' = o
  BY <1>1 DEF OpOf, OrderOf
<1>3. TypeOK' /\ CycleOfCompleted'
  BY <1>0, <1>1 DEF IInv, TypeOK, CycleOfCompleted, modeState, database
<1>4. OrdersSound' /\ o \notin wire' /\ broker'[o] = Absent
  <2> HIDE DEF o
  <2> QED
    BY <1>0, WireLess DEF IInv, database
<1>5. OwnStep(r, c)
  BY <1>0, <1>1 DEF OwnStep, Ordering, database, IInv, TypeOK
<1>6. Admitted(r)'
  BY <1>0, <1>1 DEF CallSound, Admitted, Admissible, modeState
<1>7. Recorded(r)'
  <2>1. Unsent(OrderOf(r))'
    BY <1>2, <1>4 DEF Unsent
  <2> QED
    BY <1>0, <1>1, <1>2, <2>1 DEF CallSound, Recorded, Ordering, modeState, database
<1>8. Carried(r)'
  BY <1>0, <1>1, <1>2 DEF CallSound, Carried, Rebalancing, Ordering, database
<1>9. FromRest(r)'
  BY <1>0, <1>1, <1>2 DEF CallSound, FromRest, Working, Rebalancing, Ordering
<1>10. Moves(r, c)
  BY <1>0, <1>1 DEF Moves, Rebalancing, Ordering, Placing, database
<1> QED
  BY <1>1, <1>3, <1>4, <1>5, <1>6, <1>7, <1>8, <1>9, <1>10, CallStep DEF CallSound

\* A lost answer leaves an uncertain record behind a closed gate.
LEMMA PostLostInv ==
  ASSUME IInv, NEW r \in Request, PostLost(r)
  PROVE  IInv'
<1>1. /\ req[r].pc \in {"posting", "admitted", "posted"} /\ Close /\ Finish(r)
      /\ UNCHANGED <<database, outside, recon>>
  BY DEF PostLost
<1>2. OrdersSound'
  BY <1>1, OrdersKept DEF IInv, database
<1> QED
  BY <1>1, <1>2, FailStep DEF database, outside, IInv, TypeOK

\* The record of the order a call places is replaced.
LEMMA OwnSave ==
  ASSUME IInv, NEW r \in Request, req[r].pc \in Ordering, NEW record \in Records,
         SaveOrder(OrderOf(r), record), UNCHANGED outside,
         record.status # "none",
         record.filled = 0 \/ (req[r].pc = "answered" /\ record = req[r].answer),
         record.status \in {"discarded", "rejected"} => Unsent(OrderOf(r)),
         record.status \in Terminal => broker[OrderOf(r)] = record
  PROVE  /\ OrdersSound'
         /\ db' \in [OrderId -> Records] /\ ledger' \in [OrderId -> 0..Quantity]
         /\ db'[OrderOf(r)] = record
         /\ \A p \in OrderId \ {OrderOf(r)} : db'[p] = db[p] /\ ledger'[p] = ledger[p]
         /\ \A p \in OrderId : ledger'[p] >= ledger[p]
<1> DEFINE o == OrderOf(r)
<1>1. o \in OrderId /\ CallSound(r)
  BY CallIds DEF IInv, CallSound
<1>2. db[o].filled = 0
  BY <1>1 DEF CallSound, Recorded, NoRecord, Record
<1>3. record.filled \in Nat /\ broker[o].filled \in Nat
  BY <1>1, QuantityAssumption DEF IInv, TypeOK, Records, Orders
<1>4. record.filled <= broker[o].filled
  BY <1>1, <1>3 DEF CallSound, Recorded
<1> HIDE DEF o
<1> QED
  BY <1>1, <1>2, <1>3, <1>4, Saved DEF IInv, o

\* A record of a status has nothing filled.
LEMMA RecordStatus ==
  ASSUME NEW status \in OrderStates
  PROVE  Record(status) \in Records /\ Record(status).status = status /\ Record(status).filled = 0
BY QuantityAssumption DEF Record, Records

\* The record is there before the order is sent.
LEMMA RecordUncertainInv ==
  ASSUME IInv, NEW r \in Request, RecordUncertain(r)
  PROVE  IInv'
<1> DEFINE o == OrderOf(r)
           pc == IF Admissible(r) THEN "posting" ELSE "discarding"
           c == At(r, pc)
<1>0. /\ CallSound(r) /\ req[r].pc = "recording" /\ SaveOrder(o, Record("uncertain")) /\ Goto(r, pc)
      /\ UNCHANGED <<modeState, ops, cycles, outside, recon>>
  BY DEF IInv, RecordUncertain
<1>1. /\ c \in Calls /\ req' = [req EXCEPT ![r] = c] /\ req'[r] = c /\ c.pc = pc
      /\ c.version = req[r].version /\ c.op = req[r].op /\ c.permit = req[r].permit /\ c.sym = req[r].sym
  BY <1>0, Going DEF IInv, Rebalancing, Ordering
<1>2. OpOf(r)' = OpOf(r) /\ OrderOf(r)' = o
  BY <1>1 DEF OpOf, OrderOf
<1>3. /\ OrdersSound'
      /\ db' \in [OrderId -> Records] /\ ledger' \in [OrderId -> 0..Quantity]
      /\ db'[o] = Record("uncertain")
      /\ \A p \in OrderId \ {o} : db'[p] = db[p] /\ ledger'[p] = ledger[p]
      /\ \A p \in OrderId : ledger'[p] >= ledger[p]
  <2>1. Record("uncertain") \in Records /\ Record("uncertain").status = "uncertain"
        /\ Record("uncertain").filled = 0
    BY RecordStatus DEF OrderStates
  <2> QED
    BY <1>0, <2>1, OwnSave DEF Ordering, Terminal
<1>4. TypeOK' /\ CycleOfCompleted'
  BY <1>0, <1>1, <1>3 DEF IInv, TypeOK, CycleOfCompleted, modeState, outside
<1>5. OwnStep(r, c)
  BY <1>0, <1>1, <1>3 DEF OwnStep, Ordering, outside
<1>6. Admitted(r)'
  BY <1>0, <1>1 DEF CallSound, Admitted, Admissible, modeState
<1>7. Recorded(r)'
  BY <1>0, <1>1, <1>2, <1>3 DEF CallSound, Recorded, Ordering, modeState, outside
<1>8. Carried(r)'
  BY <1>0, <1>1, <1>2 DEF CallSound, Carried, Rebalancing, Ordering
<1>9. FromRest(r)'
  BY <1>0, <1>1, <1>2 DEF CallSound, FromRest, Working, Rebalancing, Ordering, outside
<1>10. Moves(r, c)
  BY <1>0, <1>1 DEF Moves, Rebalancing, Ordering, Placing, Admissible, modeState
<1> QED
  BY <1>1, <1>3, <1>4, <1>5, <1>6, <1>7, <1>8, <1>9, <1>10, CallStep DEF CallSound

\* The save of an order's record raises, with or without its effect, or what
\* it says closes every gate.
LEMMA FailedSave ==
  ASSUME IInv, NEW r \in Request, req[r].pc \in Ordering, NEW record \in Records,
         SaveOrderFails(OrderOf(r), record), Close, Finish(r),
         UNCHANGED <<ops, cycles, outside, recon>>,
         record.status # "none",
         record.filled = 0 \/ (req[r].pc = "answered" /\ record = req[r].answer),
         record.status \in {"discarded", "rejected"} => Unsent(OrderOf(r)),
         record.status \in Terminal => broker[OrderOf(r)] = record
  PROVE  IInv'
<1>1. req[r].pc # "idle" /\ wire' = wire /\ UNCHANGED <<broker, posts>>
  BY DEF Ordering, outside
<1>2. CASE SaveOrder(OrderOf(r), record)
  BY <1>1, <1>2, OwnSave, FailStep
<1>3. CASE UNCHANGED <<db, ledger>>
  BY <1>1, <1>3, OrdersKept, FailStep DEF IInv, TypeOK
<1> QED
  BY <1>2, <1>3 DEF SaveOrderFails

\* The record is there or not, and the gate is closed.
LEMMA RecordFailsInv ==
  ASSUME IInv, NEW r \in Request, RecordFails(r)
  PROVE  IInv'
<1>1. Record("uncertain") \in Records /\ Record("uncertain").status = "uncertain"
      /\ Record("uncertain").filled = 0
  BY RecordStatus DEF OrderStates
<1> QED
  BY <1>1, FailedSave DEF RecordFails, Ordering, Terminal

\* What the broker answered may be recorded.
LEMMA AnswerRecord ==
  ASSUME IInv, NEW r \in Request, req[r].pc = "answered"
  PROVE  /\ req[r].answer \in Records
         /\ req[r].answer.status \in {"open", "filled", "canceled"}
         /\ req[r].answer.status \in Terminal => broker[OrderOf(r)] = req[r].answer
<1>1. CallSound(r) /\ req[r].answer \in Orders
  BY DEF IInv, TypeOK, Calls
<1> QED
  BY <1>1 DEF CallSound, Recorded, Ordering, Orders, Records, OrderStates

\* The answer is recorded and what it reports as filled is booked.
LEMMA RecordAnswerInv ==
  ASSUME IInv, NEW r \in Request, RecordAnswer(r)
  PROVE  IInv'
<1> DEFINE o == OrderOf(r)
           c == [req[r] EXCEPT !.pc = "submitting", !.sym = None, !.answer = Absent]
<1>0. /\ CallSound(r) /\ req[r].pc = "answered" /\ SaveOrder(o, req[r].answer)
      /\ UNCHANGED <<modeState, ops, cycles, outside, recon>>
  BY DEF IInv, RecordAnswer
<1>1. /\ c \in Calls /\ req' = [req EXCEPT ![r] = c] /\ req'[r] = c /\ c.pc = "submitting"
      /\ c.version = req[r].version /\ c.op = req[r].op /\ c.permit = req[r].permit
  <2>1. req[r] \in Calls /\ Absent \in Orders /\ "submitting" \in Rebalancing
    BY QuantityAssumption DEF IInv, TypeOK, Absent, Orders, Rebalancing
  <2>2. c \in Calls /\ c.pc = "submitting"
        /\ c.version = req[r].version /\ c.op = req[r].op /\ c.permit = req[r].permit
    BY <2>1 DEF Calls
  <2>3. req' = [req EXCEPT ![r] = c]
    BY DEF RecordAnswer, IInv, TypeOK
  <2> QED
    BY <2>2, <2>3 DEF IInv, TypeOK
<1>2. OpOf(r)' = OpOf(r)
  BY <1>1 DEF OpOf
<1>3. /\ OrdersSound'
      /\ db' \in [OrderId -> Records] /\ ledger' \in [OrderId -> 0..Quantity]
      /\ db'[o] = req[r].answer
      /\ \A p \in OrderId \ {o} : db'[p] = db[p] /\ ledger'[p] = ledger[p]
      /\ \A p \in OrderId : ledger'[p] >= ledger[p]
  BY <1>0, AnswerRecord, OwnSave DEF Ordering
<1>4. TypeOK' /\ CycleOfCompleted'
  BY <1>0, <1>1, <1>3 DEF IInv, TypeOK, CycleOfCompleted, modeState, outside
<1>5. OwnStep(r, c)
  BY <1>0, <1>1, <1>3 DEF OwnStep, Ordering, outside
<1>6. Admitted(r)' /\ Recorded(r)'
  BY <1>0, <1>1 DEF CallSound, Admitted, Recorded, Ordering, Admissible, modeState
<1>7. Carried(r)'
  BY <1>0, <1>1, <1>2 DEF CallSound, Carried, Rebalancing, Ordering
<1>8. FromRest(r)'
  BY <1>0, <1>1, <1>2 DEF CallSound, FromRest, Working, Rebalancing, Ordering, outside
<1>9. Moves(r, c)
  BY <1>0, <1>1 DEF Moves, Rebalancing, Ordering, Placing
<1> QED
  BY <1>1, <1>3, <1>4, <1>5, <1>6, <1>7, <1>8, <1>9, CallStep DEF CallSound

\* The answer is recorded or not, and the gate is closed.
LEMMA RecordAnswerFailsInv ==
  ASSUME IInv, NEW r \in Request, RecordAnswerFails(r)
  PROVE  IInv'
BY AnswerRecord, FailedSave DEF RecordAnswerFails, Ordering

\* An order that was never sent, or was refused, is recorded as that.
LEMMA EndRecord ==
  ASSUME IInv, NEW r \in Request, req[r].pc \in {"discarding", "unsent", "refused"}
  PROVE  /\ Unsent(OrderOf(r))
         /\ \A status \in {"discarded", "rejected"} :
              /\ Record(status) \in Records
              /\ Record(status).status = status /\ Record(status).filled = 0
<1>1. CallSound(r) /\ OrderOf(r) \in OrderId
  BY CallIds DEF IInv, CallSound, Ordering
<1>2. Unsent(OrderOf(r))
  BY <1>1 DEF CallSound, Recorded, Ordering, IInv, OrdersSound, OrderKnown
<1>3. \A status \in {"discarded", "rejected"} :
        Record(status) \in Records /\ Record(status).status = status /\ Record(status).filled = 0
  BY RecordStatus DEF OrderStates
<1> QED
  BY <1>2, <1>3

\* An order that was refused admission was never sent: its record is discarded.
LEMMA DiscardInv ==
  ASSUME IInv, NEW r \in Request, Discard(r)
  PROVE  IInv'
<1> DEFINE o == OrderOf(r)
<1>0. /\ CallSound(r) /\ req[r].pc = "discarding" /\ SaveOrder(o, Record("discarded")) /\ Finish(r)
      /\ UNCHANGED <<modeState, ops, cycles, outside, recon>>
  BY DEF IInv, Discard
<1>1. /\ OrdersSound'
      /\ db' \in [OrderId -> Records] /\ ledger' \in [OrderId -> 0..Quantity]
      /\ \A p \in OrderId \ {o} : db'[p] = db[p] /\ ledger'[p] = ledger[p]
      /\ \A p \in OrderId : ledger'[p] >= ledger[p]
  BY <1>0, EndRecord, OwnSave DEF Ordering, Terminal
<1>2. TypeOK' /\ CycleOfCompleted'
  BY <1>0, <1>1, FreeCall DEF IInv, TypeOK, CycleOfCompleted, Finish, modeState, outside
<1>3. OwnStep(r, Free)
  BY <1>0, <1>1 DEF OwnStep, Ordering, Finish, outside
<1>4. ~gate' \/ req[r].version # version
  BY <1>0 DEF CallSound, Admitted, Admissible, modeState
<1> QED
  BY <1>0, <1>1, <1>2, <1>3, <1>4, EndStep

\* An order that was not sent, or was refused, is recorded as that or stays
\* uncertain behind a closed gate.
LEMMA SubmissionFailsInv ==
  ASSUME IInv, NEW r \in Request, SubmissionFails(r) \/ DiscardFails(r)
  PROVE  IInv'
<1> DEFINE status == IF req[r].pc = "refused" THEN "rejected" ELSE "discarded"
<1>1. /\ req[r].pc \in {"discarding", "unsent", "refused"}
      /\ SaveOrderFails(OrderOf(r), Record(status)) /\ Close /\ Finish(r)
      /\ UNCHANGED <<ops, cycles, outside, recon>>
  BY DEF SubmissionFails, DiscardFails, SaveOrderFails
<1>2. /\ Record(status) \in Records /\ Record(status).status = status /\ Record(status).filled = 0
      /\ status \in {"discarded", "rejected"} /\ Unsent(OrderOf(r))
  BY <1>1, EndRecord
<1> HIDE DEF status
<1> QED
  BY <1>1, <1>2, FailedSave DEF Ordering, Terminal

-----------------------------------------------------------------------------
(* Steps of the reconciliation and of the broker.                          *)

\* A reconciliation that only looks.
LEMMA LookStep ==
  ASSUME IInv, UNCHANGED <<gate, incident, version, opened, req, database, outside>>,
         recon' \in Reconciliations, reconciled' \in BOOLEAN,
         ReconciledMeansSettled', GateSound', SettledAlone', ReconSound'
  PROVE  IInv'
<1>1. TypeOK' /\ CycleOfCompleted' /\ SettledBeforeOpen'
  BY DEF IInv, TypeOK, CycleOfCompleted, SettledBeforeOpen, Working, database, outside
<1>2. OrdersSound'
  BY OrdersKept DEF IInv, database
<1>3. \A r \in Request : CallSound(r)'
  <2> SUFFICES ASSUME NEW r \in Request PROVE CallSound(r)'
    OBVIOUS
  <2>1. CallSound(r) /\ OpOf(r)' = OpOf(r) /\ OrderOf(r)' = OrderOf(r)
        /\ (Admissible(r)' <=> Admissible(r))
    BY DEF IInv, OpOf, OrderOf, Admissible
  <2>2. Admitted(r)' /\ Recorded(r)'
    BY <2>1 DEF CallSound, Admitted, Recorded, Unsent, database, outside
  <2>3. Carried(r)' /\ FromRest(r)'
    BY <2>1 DEF CallSound, Carried, FromRest, Working, database, outside
  <2> QED
    BY <2>2, <2>3 DEF CallSound
<1>4. OneRebalance' /\ OperationsCarried' /\ WireCarried'
  BY DEF IInv, OneRebalance, OperationsCarried, WireCarried, OpOf, OrderOf, database, outside
<1> QED
  BY <1>1, <1>2, <1>3, <1>4 DEF IInv

\* No reconciliation under way is well-formed.
LEMMA RestingReconciliation == Resting \in Reconciliations /\ Resting.pc = "resting"
BY QuantityAssumption DEF Resting, Reconciliations, Absent, Orders, OrderStates

\* A reconciliation that gives up.
LEMMA RestStep ==
  ASSUME IInv, recon' = Resting, reconciled' = FALSE,
         UNCHANGED <<gate, incident, version, opened, req, database, outside>>
  PROVE  IInv'
<1>1. GateSound' /\ ReconciledMeansSettled'
  BY RestingReconciliation DEF IInv, GateSound, ReconciledMeansSettled
<1>2. SettledAlone' /\ ReconSound'
  BY RestingReconciliation DEF SettledAlone, ReconSound, ReadSound, SeenSound, Settling
<1> QED
  BY <1>1, <1>2, RestingReconciliation, LookStep

\* A reconciliation starts with the mode unreconciled.
LEMMA ReconcileStartInv == ASSUME IInv, ReconcileStart PROVE IInv'
<1>1. /\ recon' \in Reconciliations /\ recon'.pc = "reading" /\ ~gate /\ reconciled' = FALSE
      /\ UNCHANGED <<gate, incident, version, opened, req, database, outside>>
  BY RestingReconciliation DEF ReconcileStart, Resting, Reconciliations, IInv, TypeOK
<1>2. GateSound' /\ ReconciledMeansSettled'
  BY <1>1 DEF IInv, GateSound, ReconciledMeansSettled
<1>3. SettledAlone' /\ ReconSound'
  BY <1>1 DEF SettledAlone, ReconSound, ReadSound, SeenSound, Settling
<1> QED
  BY <1>1, <1>2, <1>3, LookStep

\* What has no record, or a discarded one, can trade no more; a finished order
\* is settled.
LEMMA ReadRecordsInv == ASSUME IInv, ReadRecords PROVE IInv'
<1>1. /\ recon.pc = "reading" /\ UNCHANGED <<modeState, req, database, outside>>
      /\ recon' = [recon EXCEPT !.pc = "read", !.records = [o \in OrderId |-> db[o].status]]
  BY DEF ReadRecords
<1>2. recon' \in Reconciliations /\ recon'.pc = "read"
      /\ \A o \in OrderId : recon'.records[o] = db[o].status
  BY <1>1 DEF IInv, TypeOK, Reconciliations, Records
<1>3. GateSound' /\ ReconciledMeansSettled' /\ SettledAlone' /\ SeenSound'
  BY <1>1, <1>2 DEF IInv, GateSound, ReconciledMeansSettled, SettledAlone, SeenSound, Settling, modeState
<1>4. ReadSound'
  <2> SUFFICES ASSUME NEW o \in OrderId
               PROVE  /\ db[o].status \in {"none", "discarded", "rejected"} =>
                           Unsent(o) /\ \A r \in Request : req[r].pc \in Placing => OrderOf(r) # o
                      /\ db[o].status \in Terminal => Settled(o) /\ broker[o] # Absent
    BY <1>1, <1>2 DEF ReadSound, Unsent, Settled, Working, OrderOf, database, outside
  <2>1. /\ OrderKnown(o) /\ posts[o] \in Nat /\ broker[o] \in Orders /\ db[o] \in Records
        /\ posts[o] > 0 => db[o] # NoRecord
        /\ db[o].status \in {"discarded", "rejected"} => ~Working(o) /\ broker[o] = Absent
        /\ ledger[o] = db[o].filled
    BY DEF IInv, TypeOK, OrdersSound, RecordsCoverOrders, BookedOnce
  <2>2. ASSUME db[o].status \in {"none", "discarded", "rejected"}
        PROVE  Unsent(o) /\ \A r \in Request : req[r].pc \in Placing => OrderOf(r) # o
    <3>1. Unsent(o)
      BY <2>1, <2>2 DEF OrderKnown, Unsent, Working
    <3>2. \A r \in Request : req[r].pc \in Placing => OrderOf(r) # o
      BY <2>2 DEF IInv, CallSound, Recorded, Placing, Ordering, Record
    <3> QED
      BY <3>1, <3>2
  <2>3. ASSUME db[o].status \in Terminal PROVE Settled(o) /\ broker[o] # Absent
    BY <2>1, <2>3 DEF OrderKnown, Settled, Working, Terminal, Absent
  <2> QED
    BY <2>2, <2>3
<1> QED
  BY <1>1, <1>2, <1>3, <1>4, LookStep DEF ReconSound, IInv, TypeOK, modeState

\* With the order lock free no order is being placed that the records miss.
LEMMA CheckSubmissionInv == ASSUME IInv, CheckSubmission PROVE IInv'
<1>1. CASE OrderLocked
  BY <1>1, RestStep DEF CheckSubmission
<1>2. CASE ~OrderLocked
  <2>1. /\ recon.pc = "read" /\ recon' = [recon EXCEPT !.pc = "listing"] /\ reconciled' = reconciled
        /\ UNCHANGED <<gate, incident, version, opened, req, database, outside>>
    BY <1>2 DEF CheckSubmission
  <2>2. recon' \in Reconciliations /\ recon'.pc = "listing" /\ recon'.records = recon.records
    BY <2>1 DEF IInv, TypeOK, Reconciliations
  <2>3. GateSound' /\ ReconciledMeansSettled' /\ SettledAlone' /\ SeenSound'
    BY <1>2, <2>1, <2>2 DEF IInv, GateSound, ReconciledMeansSettled, SettledAlone, SeenSound, Settling,
       OrderLocked
  <2>4. ReadSound'
    BY <2>1, <2>2 DEF IInv, ReconSound, ReadSound, Settling, Unsent, Settled, Working, OrderOf, database, outside
  <2> QED
    BY <2>1, <2>2, <2>3, <2>4, LookStep DEF ReconSound, IInv, TypeOK
<1> QED
  BY <1>1, <1>2

\* A reconciliation in its loop over the orders that stays in it.
LEMMA LoopStep ==
  ASSUME IInv, Settling, recon' \in Reconciliations, recon'.records = recon.records, Settling',
         UNCHANGED <<modeState, req, database, outside>>, SeenSound'
  PROVE  IInv'
<1>1. GateSound' /\ ReconciledMeansSettled' /\ SettledAlone'
  BY DEF IInv, GateSound, ReconciledMeansSettled, SettledAlone, Settling, OrderLocked, modeState
<1>2. ReadSound'
  BY DEF IInv, ReconSound, ReadSound, Settling, Unsent, Settled, Working, OrderOf, database, outside
<1> QED
  BY <1>1, <1>2, LookStep DEF ReconSound, IInv, TypeOK, modeState

\* Every order is settled by its record, or is going to be asked about.
LEMMA ListOpenOrdersInv == ASSUME IInv, ListOpenOrders PROVE IInv'
<1> DEFINE listed == [o \in OrderId |-> IF broker[o].status = "open" THEN broker[o] ELSE Absent]
           todo == {o \in OrderId : \/ recon.records[o] \in {"uncertain", "open"}
                                    \/ recon.records[o] \in Terminal /\ broker[o].status = "open"}
<1>1. /\ recon.pc = "listing" /\ UNCHANGED <<modeState, req, database, outside>>
      /\ recon' = [recon EXCEPT !.pc = "asking", !.listed = listed, !.todo = todo]
  BY DEF ListOpenOrders
<1>2. /\ recon' \in Reconciliations /\ recon'.pc = "asking" /\ recon'.records = recon.records
      /\ recon'.listed = listed /\ recon'.todo = todo /\ recon'.order = recon.order
  <2>1. listed \in [OrderId -> Orders]
    BY QuantityAssumption DEF IInv, TypeOK, Orders, Absent
  <2> QED
    BY <1>1, <2>1 DEF IInv, TypeOK, Reconciliations
<1>3. \A o \in OrderId : o \in todo \/ Settled(o)
  <2> SUFFICES ASSUME NEW o \in OrderId, o \notin todo PROVE Settled(o)
    OBVIOUS
  <2>1. recon.records[o] \in OrderStates
    BY DEF IInv, TypeOK, Reconciliations
  <2>2. CASE recon.records[o] \in Terminal
    BY <1>1, <2>2 DEF IInv, ReconSound, ReadSound, Settling
  <2>3. CASE recon.records[o] \in {"none", "discarded", "rejected"}
    <3>1. Unsent(o)
      BY <1>1, <2>3 DEF IInv, ReconSound, ReadSound, Settling
    <3>2. ledger[o] = db[o].filled /\ db[o].filled <= broker[o].filled /\ ledger[o] \in Nat
      BY QuantityAssumption DEF IInv, TypeOK, OrdersSound, BookedOnce
    <3> QED
      BY <3>1, <3>2 DEF Unsent, Settled, Working, Absent
  <2> QED
    BY <2>1, <2>2, <2>3 DEF OrderStates, Terminal
<1>4. SeenSound'
  BY <1>1, <1>2, <1>3 DEF SeenSound, Settling, Settled, Working, Absent, database, outside
<1> QED
  BY <1>1, <1>2, <1>4, LoopStep DEF Settling

\* An order the broker does not know is outstanding, one it knows is to be
\* canceled or recorded.
LEMMA AskOrderInv ==
  ASSUME IInv, NEW o \in OrderId, AskOrder(o)
  PROVE  IInv'
<1> DEFINE next == IF SeenAs(o).status \in Terminal THEN "recording" ELSE "canceling"
<1>0. /\ recon.pc = "asking" /\ o \in recon.todo /\ UNCHANGED <<modeState, req, database, outside>>
      /\ IF SeenAs(o) = Absent
         THEN recon' = [recon EXCEPT !.todo = @ \ {o}, !.outstanding = TRUE]
         ELSE recon' = [recon EXCEPT !.todo = @ \ {o}, !.order = o, !.seen = SeenAs(o), !.pc = next]
      /\ recon \in Reconciliations /\ SeenSound /\ Settling
  BY DEF AskOrder, IInv, TypeOK, ReconSound, Settling
<1>1. /\ recon.listed[o] # Absent => recon.listed[o].status = "open" /\ broker[o] # Absent
      /\ SeenAs(o) \in Orders
      /\ OrderKnown(o) /\ db[o].filled <= broker[o].filled
  BY <1>0 DEF SeenSound, SeenAs, IInv, TypeOK, Reconciliations, OrdersSound, BookedOnce
<1>2. CASE SeenAs(o) = Absent
  <2>1. /\ recon' \in Reconciliations /\ recon'.pc = "asking" /\ recon'.records = recon.records
        /\ recon'.listed = recon.listed /\ recon'.outstanding = TRUE
    <3>1. recon' = [recon EXCEPT !.todo = @ \ {o}, !.outstanding = TRUE]
      BY <1>0, <1>2
    <3>2. recon.todo \ {o} \in SUBSET OrderId
      BY <1>0 DEF Reconciliations
    <3> QED
      BY <1>0, <3>1, <3>2 DEF Reconciliations
  <2>2. SeenSound' /\ Settling'
    BY <1>0, <2>1 DEF SeenSound, Settling, outside
  <2> QED
    BY <1>0, <2>1, <2>2, LoopStep
<1>3. CASE SeenAs(o) # Absent
  <2>1. /\ recon' \in Reconciliations /\ recon'.pc = next /\ recon'.records = recon.records
        /\ recon'.listed = recon.listed /\ recon'.outstanding = recon.outstanding
        /\ recon'.todo = recon.todo \ {o} /\ recon'.order = o /\ recon'.seen = SeenAs(o)
    <3>1. recon' = [recon EXCEPT !.todo = @ \ {o}, !.order = o, !.seen = SeenAs(o), !.pc = next]
      BY <1>0, <1>3
    <3>2. recon.todo \ {o} \in SUBSET OrderId /\ SeenAs(o) \in Orders
          /\ next \in {"canceling", "recording"}
      BY <1>0, <1>1 DEF Reconciliations
    <3> HIDE DEF next
    <3> QED
      BY <1>0, <3>1, <3>2 DEF Reconciliations
  <2>2. broker[o] # Absent
    BY <1>1, <1>3 DEF SeenAs
  <2>3. next = "recording" => SeenAs(o) = broker[o] /\ broker[o].status \in Terminal
    BY <1>1 DEF SeenAs, Terminal
  <2>4. broker[o].filled <= broker[o].filled
    BY QuantityAssumption DEF IInv, TypeOK, Orders
  <2>5. \A p \in OrderId : recon.outstanding \/ p \in recon.todo \/ Settled(p)
    BY <1>0 DEF SeenSound
  <2>6. SeenSound' /\ Settling'
    BY <1>0, <1>1, <2>1, <2>2, <2>3, <2>4, <2>5 DEF SeenSound, Settling, Settled, Working, Terminal,
       database, outside
  <2> QED
    BY <1>0, <2>1, <2>6, LoopStep
<1> QED
  BY <1>2, <1>3

\* The broker moves a working order on: it arrives, fills or is canceled.
BrokerMoves(o, b) ==
  /\ Working(o) /\ b.status # "absent" /\ b.filled >= broker[o].filled
  /\ b.status = "open" => b.filled < Quantity
  /\ broker' = [broker EXCEPT ![o] = b]
  /\ wire' = wire \ {o}
  /\ UNCHANGED <<gate, version, opened, req, database, posts>>

\* What the rest of the system knows stays true when the broker takes an order
\* in or fills it.
LEMMA BrokerMoved ==
  ASSUME IInv, NEW o \in OrderId, NEW b \in Orders, BrokerMoves(o, b)
  PROVE  /\ broker' \in [OrderId -> Orders] /\ broker'[o] = b
         /\ \A p \in OrderId \ {o} : broker'[p] = broker[p]
         /\ OrdersSound' /\ SettledBeforeOpen' /\ WireCarried'
         /\ \A r \in Request : CallSound(r)'
         /\ OneRebalance' /\ OperationsCarried' /\ CycleOfCompleted'
<1> USE DEF BrokerMoves
<1>1. /\ broker' \in [OrderId -> Orders] /\ broker'[o] = b
      /\ \A p \in OrderId \ {o} : broker'[p] = broker[p]
  BY DEF IInv, TypeOK
<1>2. \A p \in OrderId : Working(p)' => Working(p)
  BY <1>1 DEF Working
<1>3. OrderKnown(o) /\ posts[o] # 0 /\ broker[o].filled \in Nat /\ b # Absent
      /\ db[o].status \notin Terminal \cup {"discarded", "rejected"}
  BY QuantityAssumption DEF IInv, OrdersSound, OrderKnown, RecordsCoverOrders, Unsent, Working, TypeOK, Orders,
     Absent, Terminal
<1>4. OrdersSound'
  <2>1. AtMostOnePost'
    BY DEF IInv, OrdersSound, AtMostOnePost
  <2>2. RecordsCoverOrders'
    BY <1>1, <1>2, <1>3 DEF IInv, OrdersSound, RecordsCoverOrders, database
  <2>3. BookedOnce'
    <3>1. db[o].filled \in Nat /\ b.filled \in Nat
      BY QuantityAssumption DEF IInv, TypeOK, Records, Orders
    <3> QED
      BY <1>1, <1>3, <3>1 DEF IInv, OrdersSound, BookedOnce, database
  <2>4. \A p \in OrderId : OrderKnown(p)'
    BY <1>1, <1>3 DEF IInv, OrdersSound, OrderKnown, Unsent, database
  <2> QED
    BY <2>1, <2>2, <2>3, <2>4 DEF OrdersSound
<1>5. SettledBeforeOpen' /\ WireCarried' /\ OneRebalance' /\ OperationsCarried' /\ CycleOfCompleted'
  BY <1>2 DEF IInv, SettledBeforeOpen, WireCarried, OneRebalance, OperationsCarried, CycleOfCompleted,
     OpOf, OrderOf, database
<1>6. \A r \in Request : CallSound(r)'
  <2> SUFFICES ASSUME NEW r \in Request PROVE CallSound(r)'
    OBVIOUS
  <2>1. CallSound(r) /\ OpOf(r)' = OpOf(r) /\ OrderOf(r)' = OrderOf(r)
        /\ (Admissible(r)' <=> Admissible(r))
    BY DEF IInv, OpOf, OrderOf, Admissible
  <2>2. Admitted(r)' /\ Carried(r)' /\ FromRest(r)'
    BY <1>2, <2>1 DEF CallSound, Admitted, Carried, FromRest, database
  <2>3. req[r].pc \in Ordering => OrderOf(r) \in OrderId
    BY <2>1, CallIds DEF IInv, CallSound
  <2>4. req[r].pc = "refused" => OrderOf(r) # o
    BY <2>1 DEF CallSound, Recorded, Ordering, Unsent, Working, Absent
  <2>5. req[r].pc = "answered" =>
          /\ broker'[OrderOf(r)] # Absent
          /\ req[r].answer.filled <= broker'[OrderOf(r)].filled
          /\ req[r].answer.status \in Terminal => broker'[OrderOf(r)] = req[r].answer
    <3> SUFFICES ASSUME req[r].pc = "answered"
                 PROVE  /\ broker'[OrderOf(r)] # Absent
                        /\ req[r].answer.filled <= broker'[OrderOf(r)].filled
                        /\ req[r].answer.status \in Terminal => broker'[OrderOf(r)] = req[r].answer
      OBVIOUS
    <3>1. /\ broker[OrderOf(r)] # Absent
          /\ req[r].answer.filled <= broker[OrderOf(r)].filled
          /\ req[r].answer.status \in Terminal => broker[OrderOf(r)] = req[r].answer
          /\ OrderOf(r) \in OrderId
      BY <2>1, <2>3 DEF CallSound, Recorded, Ordering
    <3>2. CASE OrderOf(r) = o
      <4>1. broker[o].status = "open"
        BY <1>3, <3>1, <3>2 DEF OrderKnown, Working
      <4>2. req[r].answer.filled \in Nat /\ b.filled \in Nat
        BY QuantityAssumption DEF IInv, TypeOK, Calls, Orders
      <4> QED
        BY <1>1, <1>3, <3>1, <3>2, <4>1, <4>2 DEF Terminal
    <3>3. CASE OrderOf(r) # o
      BY <1>1, <3>1, <3>3
    <3> QED
      BY <3>2, <3>3
  <2>6. Recorded(r)'
    BY <1>1, <2>1, <2>3, <2>4, <2>5 DEF CallSound, Recorded, Ordering, Unsent, database
  <2> QED
    BY <2>2, <2>6 DEF CallSound
<1> QED
  BY <1>1, <1>4, <1>5, <1>6

\* Orders arrive and fill.
LEMMA BrokerStepInv ==
  ASSUME IInv, NEW o \in OrderId, BrokerAccepts(o) \/ BrokerFills(o)
  PROVE  IInv'
<1>1. UNCHANGED <<modeState, req, database, posts, recon>>
  BY DEF BrokerAccepts, BrokerFills
<1>2. \E b \in Orders : BrokerMoves(o, b)
  <2>1. CASE BrokerAccepts(o)
    <3> DEFINE b == [broker[o] EXCEPT !.status = "open"]
    <3>1. broker[o] = Absent /\ o \in wire /\ wire' = wire \ {o} /\ broker' = [broker EXCEPT ![o] = b]
      BY <2>1 DEF BrokerAccepts, IInv, OrdersSound, OrderKnown, TypeOK
    <3>2. b \in Orders /\ b.status = "open" /\ b.filled = 0 /\ broker[o].filled = 0
      BY <3>1, QuantityAssumption DEF Absent, Orders
    <3> HIDE DEF b
    <3>3. b.status # "absent" /\ b.filled >= broker[o].filled /\ b.filled < Quantity
      BY <3>2, QuantityAssumption
    <3> QED
      BY <1>1, <3>1, <3>2, <3>3 DEF BrokerMoves, Working, modeState
  <2>2. CASE BrokerFills(o)
    <3> DEFINE f == broker[o].filled + 1
               b == [status |-> IF f = Quantity THEN "filled" ELSE "open", filled |-> f]
    <3>1. broker[o].status = "open" /\ wire' = wire /\ broker' = [broker EXCEPT ![o] = b]
      BY <2>2 DEF BrokerFills
    <3>2. broker[o].filled \in Nat /\ broker[o].filled < Quantity /\ o \notin wire
      BY <3>1, QuantityAssumption DEF IInv, TypeOK, Orders, OrdersSound, OrderKnown, Absent
    <3>3. b \in Orders /\ b.filled >= broker[o].filled /\ (b.status = "open" => b.filled < Quantity)
          /\ b.status # "absent"
      BY <3>2, QuantityAssumption DEF Orders
    <3> QED
      BY <1>1, <3>1, <3>2, <3>3 DEF BrokerMoves, Working, modeState
  <2> QED
    BY <2>1, <2>2
<1>3. PICK b \in Orders : BrokerMoves(o, b)
  BY <1>2
<1>4. /\ broker' \in [OrderId -> Orders] /\ broker'[o] = b
      /\ \A p \in OrderId \ {o} : broker'[p] = broker[p]
      /\ OrdersSound' /\ SettledBeforeOpen' /\ WireCarried'
      /\ \A r \in Request : CallSound(r)'
      /\ OneRebalance' /\ OperationsCarried' /\ CycleOfCompleted'
  BY <1>3, BrokerMoved
<1>5. Working(o) /\ wire' = wire \ {o} /\ b.status # "absent" /\ b.filled >= broker[o].filled
  BY <1>3 DEF BrokerMoves
<1>6. TypeOK'
  BY <1>1, <1>4, <1>5 DEF IInv, TypeOK, modeState, database
<1>7. \A p \in OrderId : Settled(p) => p # o /\ Settled(p)'
  BY <1>1, <1>4, <1>5 DEF Settled, Working, database
<1>8. GateSound' /\ SettledAlone'
  BY <1>1 DEF IInv, GateSound, SettledAlone, Settling, OrderLocked, modeState
<1>9. ReconciledMeansSettled'
  BY <1>1, <1>5 DEF IInv, ReconciledMeansSettled, modeState
<1>10. ReadSound'
  <2>1. \A p \in OrderId : Unsent(p) => Unsent(p)'
    BY <1>4, <1>5 DEF Unsent, Working, Absent
  <2>2. \A p \in OrderId : broker[p] # Absent => broker'[p] # Absent
    BY <1>4, <1>5 DEF Absent
  <2> QED
    BY <1>1, <1>7, <2>1, <2>2 DEF IInv, ReconSound, ReadSound, Settling, OrderOf
<1>11. SeenSound'
  <2>1. SeenSound /\ \A p \in OrderId : broker[p] # Absent => broker'[p] # Absent
    BY <1>4, <1>5 DEF IInv, ReconSound, Absent
  <2>2. ASSUME recon.pc = "recording"
        PROVE  /\ recon.seen.filled <= broker'[recon.order].filled
               /\ recon.seen.status \in Terminal => broker'[recon.order] = recon.seen
    <3>1. /\ recon.order \in OrderId /\ broker[recon.order] # Absent
          /\ recon.seen.filled <= broker[recon.order].filled
          /\ recon.seen.status \in Terminal => broker[recon.order] = recon.seen
      BY <2>1, <2>2 DEF SeenSound
    <3>2. CASE recon.order = o
      <4>1. broker[o].status = "open"
        BY <1>5, <3>1, <3>2 DEF Working, IInv, OrdersSound, OrderKnown
      <4>2. recon.seen.filled \in Nat /\ b.filled \in Nat /\ broker[o].filled \in Nat
        BY QuantityAssumption DEF IInv, TypeOK, Reconciliations, Orders
      <4> QED
        BY <1>4, <1>5, <3>1, <3>2, <4>1, <4>2 DEF Terminal
    <3>3. CASE recon.order # o
      BY <1>4, <3>1, <3>3
    <3> QED
      BY <3>2, <3>3
  <2> QED
    BY <1>1, <1>7, <2>1, <2>2 DEF SeenSound, Settling, database
<1> QED
  BY <1>4, <1>6, <1>8, <1>9, <1>10, <1>11 DEF IInv, ReconSound

\* Orders are lost.
LEMMA BrokerDropsInv ==
  ASSUME IInv, NEW o \in OrderId, BrokerDrops(o)
  PROVE  IInv'
<1>1. /\ o \in wire /\ wire' = wire \ {o} /\ UNCHANGED <<modeState, req, database, broker, posts, recon>>
  BY DEF BrokerDrops
<1>2. OrdersSound'
  BY <1>1, WireLess DEF IInv, database
<1>3. TypeOK' /\ CycleOfCompleted'
  BY <1>1 DEF IInv, TypeOK, CycleOfCompleted, modeState, database
<1>4. SettledBeforeOpen' /\ ReconciledMeansSettled' /\ WireCarried' /\ GateSound' /\ SettledAlone'
  BY <1>1 DEF IInv, SettledBeforeOpen, ReconciledMeansSettled, WireCarried, GateSound, SettledAlone,
     Settling, Working, OrderLocked, OrderOf, modeState, database
<1>5. \A r \in Request : CallSound(r)'
  <2> SUFFICES ASSUME NEW r \in Request PROVE CallSound(r)'
    OBVIOUS
  <2>1. CallSound(r) /\ OpOf(r)' = OpOf(r) /\ OrderOf(r)' = OrderOf(r)
        /\ (Admissible(r)' <=> Admissible(r))
    BY <1>1 DEF IInv, OpOf, OrderOf, Admissible, modeState
  <2>2. Admitted(r)' /\ Carried(r)' /\ FromRest(r)'
    BY <1>1, <2>1 DEF CallSound, Admitted, Carried, FromRest, Working, modeState, database
  <2>3. Recorded(r)'
    BY <1>1, <2>1 DEF CallSound, Recorded, Unsent, modeState, database
  <2> QED
    BY <2>2, <2>3 DEF CallSound
<1>6. OneRebalance' /\ OperationsCarried'
  BY <1>1 DEF IInv, OneRebalance, OperationsCarried, OpOf, modeState, database
<1>7. ReconSound'
  BY <1>1 DEF IInv, ReconSound, ReadSound, SeenSound, Settling, Unsent, Settled, Working, OrderOf,
     modeState, database
<1> QED
  BY <1>2, <1>3, <1>4, <1>5, <1>6, <1>7 DEF IInv

\* The broker may have canceled the order that the reconciliation is at.
MayCancel ==
  /\ recon.pc = "canceling"
  /\ \E canceled \in BOOLEAN :
       broker' = IF canceled /\ broker[recon.order].status = "open"
                 THEN [broker EXCEPT ![recon.order].status = "canceled"] ELSE broker
  /\ UNCHANGED <<modeState, req, database, wire, posts>>

\* What the rest of the system knows stays true when the broker cancels an order.
LEMMA Canceled ==
  ASSUME IInv, MayCancel
  PROVE  /\ broker' \in [OrderId -> Orders]
         /\ \A p \in OrderId : /\ Settled(p) => Settled(p)'
                               /\ Unsent(p) => Unsent(p)'
                               /\ broker[p] # Absent => broker'[p] # Absent
         /\ OrdersSound' /\ SettledBeforeOpen' /\ WireCarried'
         /\ \A r \in Request : CallSound(r)'
         /\ OneRebalance' /\ OperationsCarried' /\ CycleOfCompleted'
<1> DEFINE o == recon.order
           b == [broker[o] EXCEPT !.status = "canceled"]
<1> USE DEF MayCancel
<1>0. o \in OrderId /\ broker[o] # Absent /\ broker[o] \in Orders /\ broker[o].filled \in Nat
  BY QuantityAssumption DEF IInv, ReconSound, SeenSound, TypeOK, Orders
<1>1. CASE broker' = broker
  <2>1. OrdersSound' /\ SettledBeforeOpen' /\ WireCarried' /\ CycleOfCompleted'
    BY <1>1, OrdersKept DEF IInv, SettledBeforeOpen, WireCarried, CycleOfCompleted, Working, OrderOf,
       modeState, database, outside
  <2>2. OneRebalance' /\ OperationsCarried'
    BY DEF IInv, OneRebalance, OperationsCarried, OpOf, modeState, database
  <2>3. \A r \in Request : CallSound(r)'
    <3> SUFFICES ASSUME NEW r \in Request PROVE CallSound(r)'
      OBVIOUS
    <3>1. CallSound(r) /\ OpOf(r)' = OpOf(r) /\ OrderOf(r)' = OrderOf(r)
          /\ (Admissible(r)' <=> Admissible(r))
      BY DEF IInv, OpOf, OrderOf, Admissible, modeState
    <3>2. Admitted(r)' /\ Carried(r)' /\ FromRest(r)'
      BY <1>1, <3>1 DEF CallSound, Admitted, Carried, FromRest, Working, modeState, database
    <3>3. Recorded(r)'
      BY <1>1, <3>1 DEF CallSound, Recorded, Unsent, modeState, database
    <3> QED
      BY <3>2, <3>3 DEF CallSound
  <2> QED
    BY <1>1, <2>1, <2>2, <2>3 DEF IInv, TypeOK, Settled, Unsent, Working, database
<1>2. CASE broker[o].status = "open" /\ broker' = [broker EXCEPT ![o] = b]
  <2>1. b \in Orders /\ b.status = "canceled" /\ b.filled = broker[o].filled
    BY <1>0 DEF Orders
  <2>2. wire' = wire \ {o}
    BY <1>0 DEF IInv, OrdersSound, OrderKnown
  <2> HIDE DEF b
  <2>3. BrokerMoves(o, b)
    <3>1. UNCHANGED <<gate, version, opened, req, database, posts>> /\ Working(o)
      BY <1>2 DEF modeState, Working
    <3>2. b.filled >= broker[o].filled
      BY <1>0, <2>1
    <3> QED
      BY <1>2, <2>1, <2>2, <3>1, <3>2 DEF BrokerMoves
  <2> HIDE DEF o
  <2>4. /\ broker' \in [OrderId -> Orders] /\ broker'[o] = b
        /\ \A p \in OrderId \ {o} : broker'[p] = broker[p]
        /\ OrdersSound' /\ SettledBeforeOpen' /\ WireCarried'
        /\ \A r \in Request : CallSound(r)'
        /\ OneRebalance' /\ OperationsCarried' /\ CycleOfCompleted'
    BY <1>0, <2>1, <2>3, BrokerMoved
  <2>5. \A p \in OrderId : /\ Settled(p) => Settled(p)'
                           /\ Unsent(p) => Unsent(p)'
                           /\ broker[p] # Absent => broker'[p] # Absent
    BY <1>0, <1>2, <2>1, <2>4 DEF Settled, Unsent, Working, Absent, database
  <2> QED
    BY <2>4, <2>5
<1>3. broker' = broker \/ (broker[o].status = "open" /\ broker' = [broker EXCEPT ![o] = b])
  BY <1>0 DEF IInv, TypeOK
<1> QED
  BY <1>1, <1>2, <1>3

\* A step of the reconciliation in which the broker may cancel.
LEMMA CancelStep ==
  ASSUME IInv, MayCancel, recon' \in Reconciliations, recon'.records = recon.records, Settling',
         SeenSound'
  PROVE  IInv'
<1>1. UNCHANGED <<modeState, req, database, wire, posts>> /\ Settling /\ ~reconciled /\ ~gate /\ ~OrderLocked
  BY DEF MayCancel, Settling, IInv, GateSound, SettledAlone
<1>2. TypeOK'
  BY <1>1, Canceled DEF IInv, TypeOK, modeState, database
<1>3. GateSound' /\ SettledAlone' /\ ReconciledMeansSettled'
  BY <1>1 DEF GateSound, SettledAlone, ReconciledMeansSettled, Settling, OrderLocked, modeState
<1>4. ReadSound'
  BY <1>1, Canceled DEF IInv, ReconSound, ReadSound, Settling, OrderOf
<1> QED
  BY <1>2, <1>3, <1>4, Canceled DEF IInv, ReconSound

\* The order is read again after its cancelation.
LEMMA CancelOrderInv == ASSUME IInv, CancelOrder PROVE IInv'
<1> DEFINE o == recon.order
<1>1. MayCancel /\ recon' = [recon EXCEPT !.pc = "recording", !.seen = broker'[recon.order]]
  BY DEF CancelOrder, MayCancel
<1>2. recon.pc = "canceling" /\ SeenSound /\ o \in OrderId /\ broker[o] # Absent /\ database' = database
  BY <1>1 DEF MayCancel, IInv, ReconSound, SeenSound
<1>3. broker'[o] \in Orders /\ broker'[o].filled \in Nat /\ broker'[o] # Absent
  BY <1>1, <1>2, Canceled, QuantityAssumption DEF Orders
<1>4. /\ recon' \in Reconciliations /\ recon'.pc = "recording" /\ recon'.records = recon.records
      /\ recon'.listed = recon.listed /\ recon'.outstanding = recon.outstanding
      /\ recon'.todo = recon.todo /\ recon'.order = o /\ recon'.seen = broker'[o]
  BY <1>1, <1>3 DEF IInv, TypeOK, Reconciliations
<1>5. /\ broker'[o].status # "absent" /\ db'[o].filled <= broker'[o].filled
      /\ db'[o].status \in Terminal => broker'[o] = db'[o]
  BY <1>1, <1>2, <1>3, Canceled DEF OrdersSound, OrderKnown, BookedOnce
<1>6. \A p \in OrderId : (Settled(p) => Settled(p)') /\ (broker[p] # Absent => broker'[p] # Absent)
  BY <1>1, Canceled
<1>7. SeenSound' /\ Settling'
  <2> HIDE DEF o
  <2>1. broker'[o].filled <= broker'[o].filled
    BY <1>3
  <2>2. recon.order = o
    BY DEF o
  <2> QED
    BY <1>2, <1>3, <1>4, <1>5, <1>6, <2>1, <2>2 DEF SeenSound, Settling
<1> QED
  BY <1>1, <1>4, <1>7, CancelStep

\* What the reconciliation has seen is saved.
LEMMA SeenSaved ==
  ASSUME IInv, recon.pc = "recording", SaveOrder(recon.order, recon.seen),
         UNCHANGED <<modeState, req, ops, cycles, outside>>,
         recon' \in Reconciliations, recon'.pc = "asking", recon'.records = recon.records,
         recon'.listed = recon.listed, recon'.todo = recon.todo,
         recon.outstanding => recon'.outstanding,
         recon'.outstanding \/ recon.seen.status \in Terminal
  PROVE  IInv'
<1> DEFINE o == recon.order
<1>1. /\ o \in OrderId /\ broker[o] # Absent /\ recon.seen.status # "absent"
      /\ db[o].filled <= recon.seen.filled /\ recon.seen.filled <= broker[o].filled
      /\ recon.seen.status \in Terminal => broker[o] = recon.seen
      /\ Settling /\ SeenSound /\ recon.seen \in Orders
  BY DEF IInv, ReconSound, SeenSound, Settling, TypeOK, Reconciliations
<1>2. recon.seen \in Records /\ recon.seen.status \in {"open", "filled", "canceled"}
  BY <1>1 DEF Orders, Records, OrderStates
<1>3. /\ OrdersSound'
      /\ db' \in [OrderId -> Records] /\ ledger' \in [OrderId -> 0..Quantity]
      /\ db'[o] = recon.seen /\ ledger'[o] = recon.seen.filled
      /\ \A p \in OrderId \ {o} : db'[p] = db[p] /\ ledger'[p] = ledger[p]
  BY <1>1, <1>2, Saved DEF IInv
<1>4. ~OrderLocked /\ ~gate /\ ~reconciled
  BY <1>1 DEF IInv, GateSound, SettledAlone, Settling
<1>5. TypeOK' /\ CycleOfCompleted' /\ SettledBeforeOpen'
  BY <1>3 DEF IInv, TypeOK, CycleOfCompleted, SettledBeforeOpen, Working, modeState, outside
<1>6. GateSound' /\ SettledAlone' /\ ReconciledMeansSettled'
  BY <1>4 DEF GateSound, SettledAlone, ReconciledMeansSettled, OrderLocked, modeState
<1>7. \A r \in Request : CallSound(r)'
  <2> SUFFICES ASSUME NEW r \in Request PROVE CallSound(r)'
    OBVIOUS
  <2>1. CallSound(r) /\ OpOf(r)' = OpOf(r) /\ (Admissible(r)' <=> Admissible(r))
    BY DEF IInv, OpOf, Admissible, modeState
  <2>2. Recorded(r)'
    BY <1>4 DEF Recorded, OrderLocked
  <2>3. Admitted(r)' /\ Carried(r)' /\ FromRest(r)'
    BY <2>1 DEF CallSound, Admitted, Carried, FromRest, Working, modeState, outside
  <2> QED
    BY <2>2, <2>3 DEF CallSound
<1>8. OneRebalance' /\ OperationsCarried' /\ WireCarried'
  BY DEF IInv, OneRebalance, OperationsCarried, WireCarried, OpOf, OrderOf, modeState, outside
<1>9. \A p \in OrderId : Settled(p) => Settled(p)'
  <2> SUFFICES ASSUME NEW p \in OrderId, Settled(p) PROVE Settled(p)'
    OBVIOUS
  <2>1. CASE p # o
    BY <1>3, <2>1 DEF Settled, Working, outside
  <2>2. CASE p = o
    <3>1. ledger[o] = db[o].filled /\ ledger[o] \in Nat /\ recon.seen.filled \in Nat
      BY <1>1, QuantityAssumption DEF IInv, OrdersSound, BookedOnce, TypeOK, Orders
    <3>2. recon.seen.filled = broker[o].filled
      BY <1>1, <2>2, <3>1 DEF Settled
    <3> QED
      BY <1>3, <2>2, <3>2 DEF Settled, Working, outside
  <2> QED
    BY <2>1, <2>2
<1>10. ReadSound'
  BY <1>1, <1>9 DEF IInv, ReconSound, ReadSound, Settling, Unsent, OrderOf, outside
<1>11. \A p \in OrderId : p = recon.order /\ recon.seen.status \in Terminal => Settled(p)'
  <2> SUFFICES ASSUME NEW p \in OrderId, p = recon.order, recon.seen.status \in Terminal
               PROVE  Settled(p)'
    OBVIOUS
  <2>1. OrderKnown(p) /\ broker[p] = recon.seen /\ ledger'[p] = recon.seen.filled
    BY <1>1, <1>3 DEF IInv, OrdersSound
  <2> QED
    BY <1>1, <2>1 DEF OrderKnown, Settled, Working, outside, Terminal
<1>12. SeenSound'
  <2> HIDE DEF o
  <2>1. recon.order = o
    BY DEF o
  <2> QED
    BY <1>1, <1>9, <1>11, <2>1 DEF SeenSound, Settling, outside
<1> QED
  BY <1>3, <1>5, <1>6, <1>7, <1>8, <1>10, <1>12 DEF IInv, ReconSound

\* What was seen of an order is recorded; still open, it is outstanding.
LEMMA RecordSeenInv == ASSUME IInv, RecordSeen PROVE IInv'
<1>1. /\ recon.pc = "recording" /\ SaveOrder(recon.order, recon.seen)
      /\ recon' = [recon EXCEPT !.pc = "asking", !.order = None, !.seen = Absent,
                                !.outstanding = @ \/ recon.seen.status \notin Terminal]
      /\ UNCHANGED <<modeState, req, ops, cycles, outside>>
  BY DEF RecordSeen
<1>2. Absent \in Orders /\ recon \in Reconciliations
  BY QuantityAssumption DEF Absent, Orders, IInv, TypeOK
<1>3. /\ recon' \in Reconciliations /\ recon'.pc = "asking" /\ recon'.records = recon.records
      /\ recon'.listed = recon.listed /\ recon'.todo = recon.todo
      /\ recon'.outstanding = (recon.outstanding \/ recon.seen.status \notin Terminal)
  BY <1>1, <1>2 DEF Reconciliations
<1> QED
  BY <1>1, <1>3, SeenSaved

\* The order that raised counts as outstanding.
LEMMA OutstandingSound ==
  ASSUME IInv, Settling, recon.pc # "listing", recon'.pc = "asking", recon'.outstanding = TRUE,
         recon'.listed = recon.listed, \A o \in OrderId : broker[o] # Absent => broker'[o] # Absent
  PROVE  SeenSound' /\ Settling'
BY DEF IInv, ReconSound, SeenSound, Settling

\* An order that could not be settled is outstanding.
LEMMA OrderUnsettledInv == ASSUME IInv, OrderUnsettled PROVE IInv'
<1>0. Absent \in Orders /\ recon \in Reconciliations /\ UNCHANGED <<modeState, req, ops, cycles, wire, posts>>
  <2>1. Absent \in Orders
    BY QuantityAssumption DEF Absent, Orders
  <2> QED
    BY <2>1 DEF IInv, TypeOK, OrderUnsettled
<1>1. ASSUME recon.pc = "asking", UNCHANGED <<db, ledger, broker>>, NEW o \in recon.todo,
             recon' = [recon EXCEPT !.todo = @ \ {o}, !.outstanding = TRUE]
      PROVE  IInv'
  <2>1. /\ recon' \in Reconciliations /\ recon'.pc = "asking" /\ recon'.records = recon.records
        /\ recon'.listed = recon.listed /\ recon'.outstanding = TRUE
    <3>1. recon.todo \ {o} \in SUBSET OrderId
      BY <1>0 DEF Reconciliations
    <3> QED
      BY <1>0, <1>1, <3>1 DEF Reconciliations
  <2>2. Settling /\ SeenSound' /\ Settling'
    BY <1>1, <2>1, OutstandingSound DEF Settling
  <2> QED
    BY <1>0, <1>1, <2>1, <2>2, LoopStep DEF database, outside
<1>2. ASSUME recon.pc \in {"canceling", "recording"},
             recon' = [recon EXCEPT !.pc = "asking", !.order = None, !.seen = Absent, !.outstanding = TRUE]
      PROVE  /\ recon' \in Reconciliations /\ recon'.pc = "asking" /\ recon'.records = recon.records
             /\ recon'.listed = recon.listed /\ recon'.todo = recon.todo /\ recon'.outstanding = TRUE
             /\ Settling /\ recon.pc # "listing"
  BY <1>0, <1>2 DEF Reconciliations, Settling
<1>3. CASE recon.pc = "canceling"
  <2>1. MayCancel
        /\ recon' = [recon EXCEPT !.pc = "asking", !.order = None, !.seen = Absent, !.outstanding = TRUE]
    BY <1>0, <1>3 DEF OrderUnsettled, MayCancel, database
  <2>2. SeenSound' /\ Settling'
    BY <1>2, <1>3, <2>1, Canceled, OutstandingSound
  <2> QED
    BY <1>2, <1>3, <2>1, <2>2, CancelStep
<1>4. CASE recon.pc = "recording"
  <2>1. /\ SaveOrderFails(recon.order, recon.seen) /\ broker' = broker
        /\ recon' = [recon EXCEPT !.pc = "asking", !.order = None, !.seen = Absent, !.outstanding = TRUE]
    BY <1>4 DEF OrderUnsettled
  <2>2. CASE SaveOrder(recon.order, recon.seen)
    BY <1>0, <1>2, <1>4, <2>1, <2>2, SeenSaved DEF outside
  <2>3. CASE UNCHANGED <<db, ledger>>
    <3>1. SeenSound' /\ Settling'
      BY <1>2, <1>4, <2>1, OutstandingSound
    <3> QED
      BY <1>0, <1>2, <1>4, <2>1, <2>3, <3>1, LoopStep DEF database, outside
  <2> QED
    BY <2>1, <2>2, <2>3 DEF SaveOrderFails
<1> QED
  BY <1>1, <1>3, <1>4 DEF OrderUnsettled

\* With nothing outstanding every order is settled.
LEMMA ReconcileFinishInv == ASSUME IInv, ReconcileFinish PROVE IInv'
<1>1. /\ recon.pc = "asking" /\ recon.todo = {} /\ recon' = Resting
      /\ reconciled' = IF incident = recon.incident
                       THEN ~recon.outstanding /\ \A o \in OrderId :
                              recon.listed[o] # Absent => recon.records[o] # "none"
                       ELSE reconciled
      /\ UNCHANGED <<gate, incident, version, opened, req, database, outside>>
  BY DEF ReconcileFinish
<1>2. ~gate /\ ~reconciled /\ ~OrderLocked /\ reconciled \in BOOLEAN
  BY <1>1 DEF IInv, GateSound, SettledAlone, Settling, TypeOK
<1>3. reconciled' \in BOOLEAN
  BY <1>1, <1>2 DEF IInv, TypeOK, Reconciliations
<1>4. reconciled' => \A o \in OrderId : Settled(o)
  BY <1>1, <1>2 DEF IInv, ReconSound, SeenSound, Settling
<1>5. ReconciledMeansSettled'
  BY <1>1, <1>4 DEF ReconciledMeansSettled, Settled, Working, database, outside
<1>6. GateSound' /\ SettledAlone' /\ ReconSound'
  BY <1>1, <1>2, RestingReconciliation DEF GateSound, SettledAlone, ReconSound, ReadSound, SeenSound,
     Settling, OrderLocked
<1> QED
  BY <1>1, <1>3, <1>5, <1>6, RestingReconciliation, LookStep

\* A reconciliation that raises leaves the mode unreconciled.
LEMMA ReconcileRaisesInv == ASSUME IInv, ReconcileRaises PROVE IInv'
BY RestStep DEF ReconcileRaises

-----------------------------------------------------------------------------
(* Steps of the gate.                                                      *)

\* The gate opens, or the control version moves on.
LEMMA VersionStep ==
  ASSUME IInv, Open \/ VersionMoves
  PROVE  IInv'
<1>1. /\ version < MaxVersion /\ version' = version + 1 /\ version \in Nat /\ MaxVersion \in Nat
      /\ UNCHANGED <<incident, reconciled, req, database, outside, recon>>
      /\ \/ ~gate /\ reconciled /\ recon.pc = "resting" /\ gate' = TRUE /\ opened' = version + 1
         \/ gate' = gate /\ opened' = opened
  BY VersionsAssumption DEF Open, VersionMoves, IInv, TypeOK
<1>2. TypeOK' /\ CycleOfCompleted'
  <2>1. opened \in 0..MaxVersion /\ gate \in BOOLEAN
    BY DEF IInv, TypeOK
  <2>2. version' \in 0..MaxVersion /\ opened' \in 0..MaxVersion
    BY <1>1, <2>1
  <2>3. gate' \in BOOLEAN
    BY <1>1, <2>1
  <2> QED
    BY <1>1, <2>2, <2>3 DEF IInv, TypeOK, CycleOfCompleted, database, outside
<1>3. OrdersSound'
  BY <1>1, OrdersKept DEF IInv, database
<1>4. SettledBeforeOpen' /\ ReconciledMeansSettled'
  BY <1>1 DEF IInv, SettledBeforeOpen, ReconciledMeansSettled, Working, database, outside
<1>5. \A r \in Request : CallSound(r)'
  <2> SUFFICES ASSUME NEW r \in Request PROVE CallSound(r)'
    OBVIOUS
  <2>1. CallSound(r) /\ OpOf(r)' = OpOf(r) /\ OrderOf(r)' = OrderOf(r)
    BY <1>1 DEF IInv, OpOf, OrderOf
  <2>2. req[r].pc # "idle" => ~Admissible(r)' /\ req[r].version \in 1..version'
    BY <1>1, <2>1 DEF CallSound, Admitted, Admissible
  <2>3. Admitted(r)'
    BY <1>1, <2>1, <2>2 DEF CallSound, Admitted
  <2>4. Recorded(r)'
    <3>1. CASE ~gate /\ reconciled /\ gate' = TRUE
      BY <1>1, <3>1 DEF IInv, SettledAlone, OrderLocked, Recorded
    <3>2. CASE gate' = gate /\ opened' = opened
      BY <1>1, <2>1, <3>2 DEF CallSound, Recorded, Unsent, database, outside
    <3> QED
      BY <1>1, <3>1, <3>2
  <2>5. Carried(r)' /\ FromRest(r)'
    BY <1>1, <2>1 DEF CallSound, Carried, FromRest, Working, database, outside
  <2> QED
    BY <2>3, <2>4, <2>5 DEF CallSound
<1>6. OneRebalance'
  BY <1>1 DEF IInv, OneRebalance
<1>7. OperationsCarried'
  <2> SUFFICES ASSUME NEW k \in OpId, ops[k] # "none" PROVE k[1] <= version' /\ k[1] # version'
    BY <1>1 DEF OperationsCarried, database
  <2>1. k[1] <= version /\ k[1] \in Nat
    BY VersionsAssumption DEF IInv, OperationsCarried, OpId, Version
  <2> QED
    BY <1>1, <2>1
<1>8. WireCarried'
  <2>1. CASE ~gate /\ reconciled
    BY <1>1, <2>1 DEF IInv, ReconciledMeansSettled, Working, WireCarried, TypeOK, outside
  <2>2. CASE gate' = gate
    BY <1>1, <2>2 DEF IInv, WireCarried, OrderOf, outside
  <2> QED
    BY <1>1, <2>1, <2>2
<1>9. GateSound' /\ SettledAlone'
  BY <1>1 DEF IInv, GateSound, SettledAlone, Settling, OrderLocked
<1>10. ReconSound'
  BY <1>1 DEF IInv, ReconSound, ReadSound, SeenSound, Settling, Unsent, Settled, Working, OrderOf,
     database, outside
<1> QED
  BY <1>2, <1>3, <1>4, <1>5, <1>6, <1>7, <1>8, <1>9, <1>10 DEF IInv

\* The gate closes.
LEMMA CloseGateInv == ASSUME IInv, CloseGate PROVE IInv'
<1>1. /\ gate' = FALSE /\ reconciled' = FALSE /\ incident' \in 0..2
      /\ UNCHANGED <<version, opened, req, database, outside, recon>>
  BY CloseTypes DEF IInv, CloseGate
<1>2. TypeOK' /\ CycleOfCompleted' /\ SettledBeforeOpen' /\ ReconciledMeansSettled' /\ WireCarried'
  BY <1>1 DEF IInv, TypeOK, CycleOfCompleted, SettledBeforeOpen, ReconciledMeansSettled, WireCarried,
     database, outside
<1>3. OrdersSound'
  BY <1>1, OrdersKept DEF IInv, database
<1>4. \A r \in Request : CallSound(r)'
  <2> SUFFICES ASSUME NEW r \in Request PROVE CallSound(r)'
    OBVIOUS
  <2>1. CallSound(r) /\ OpOf(r)' = OpOf(r) /\ OrderOf(r)' = OrderOf(r) /\ ~Admissible(r)'
    BY <1>1 DEF IInv, OpOf, OrderOf, Admissible
  <2>2. Admitted(r)' /\ Recorded(r)'
    BY <1>1, <2>1 DEF CallSound, Admitted, Recorded, Unsent, database, outside
  <2>3. Carried(r)' /\ FromRest(r)'
    BY <1>1, <2>1 DEF CallSound, Carried, FromRest, Working, database, outside
  <2> QED
    BY <2>2, <2>3 DEF CallSound
<1>5. OneRebalance' /\ OperationsCarried' /\ GateSound' /\ SettledAlone'
  BY <1>1 DEF IInv, OneRebalance, OperationsCarried, GateSound, SettledAlone, Settling, OrderLocked, OpOf, database
<1>6. ReconSound'
  BY <1>1 DEF IInv, ReconSound, ReadSound, SeenSound, Settling, Unsent, Settled, Working, OrderOf,
     database, outside
<1> QED
  BY <1>2, <1>3, <1>4, <1>5, <1>6 DEF IInv

\* The provider starts again with its gate closed and no call under way.
LEMMA RestartInv == ASSUME IInv, Restart PROVE IInv'
<1>1. /\ gate' = FALSE /\ reconciled' = FALSE /\ incident' = NewIncident
      /\ req' = [r \in Request |-> Free] /\ recon' = Resting
      /\ UNCHANGED <<version, opened, database, outside>>
  BY DEF Restart
<1>2. incident' \in 0..2
  <2>1. \E i \in 0..2 : i # incident /\ i # recon.incident
    <3>1. CASE 0 # incident /\ 0 # recon.incident
      BY <3>1
    <3>2. CASE 1 # incident /\ 1 # recon.incident
      BY <3>2
    <3>3. CASE 2 # incident /\ 2 # recon.incident
      BY <3>3
    <3> QED
      BY <3>1, <3>2, <3>3
  <2> QED
    BY <1>1, <2>1 DEF NewIncident
<1>3. TypeOK' /\ CycleOfCompleted'
  BY <1>1, <1>2, FreeCall, RestingReconciliation DEF IInv, TypeOK, CycleOfCompleted, database, outside
<1>4. OrdersSound'
  BY <1>1, OrdersKept DEF IInv, database
<1>5. /\ \A r \in Request : CallSound(r)'
      /\ OneRebalance' /\ WireCarried' /\ GateSound' /\ SettledAlone' /\ ReconSound'
      /\ SettledBeforeOpen' /\ ReconciledMeansSettled'
  BY <1>1, FreeCall, RestingReconciliation DEF CallSound, Admitted, Recorded, Carried, FromRest,
     OneRebalance, WireCarried, GateSound, SettledAlone, ReconSound, ReadSound, SeenSound, Settling,
     Rebalancing, Ordering, OrderLocked, SettledBeforeOpen, ReconciledMeansSettled
<1>6. OperationsCarried'
  BY <1>1 DEF IInv, OperationsCarried, database
<1> QED
  BY <1>3, <1>4, <1>5, <1>6 DEF IInv

-----------------------------------------------------------------------------
(* The invariant holds in every state.                                     *)

\* It holds when the provider is started for the first time.
LEMMA InitInv == Init => IInv
<1> SUFFICES ASSUME Init PROVE IInv
  OBVIOUS
<1>1. /\ \A r \in Request : req[r] = Free /\ req[r].pc = "idle"
      /\ recon = Resting /\ recon.pc = "resting" /\ ~gate /\ ~reconciled
  BY FreeCall, RestingReconciliation DEF Init
<1>2. TypeOK
  <2>1. NoRecord \in Records /\ Absent \in Orders /\ 0 \in 0..Quantity
    BY QuantityAssumption DEF NoRecord, Records, OrderStates, Absent, Orders
  <2>2. 0 \in 0..MaxVersion /\ 0 \in 0..2
    BY VersionsAssumption
  <2> QED
    BY <2>1, <2>2, FreeCall, RestingReconciliation DEF Init, TypeOK
<1>3. OrdersSound
  BY QuantityAssumption DEF Init, OrdersSound, AtMostOnePost, RecordsCoverOrders, BookedOnce, OrderKnown,
     Unsent, Working, NoRecord, Absent, Terminal
<1>4. CycleOfCompleted /\ OperationsCarried
  BY DEF Init, CycleOfCompleted, OperationsCarried
<1>5. \A r \in Request : CallSound(r)
  BY <1>1 DEF CallSound, Admitted, Recorded, Carried, FromRest, Rebalancing, Ordering
<1>6. OneRebalance /\ WireCarried /\ GateSound /\ SettledAlone
  BY <1>1 DEF OneRebalance, WireCarried, GateSound, SettledAlone, Settling, Rebalancing, Ordering
<1>7. ReconSound /\ SettledBeforeOpen /\ ReconciledMeansSettled
  BY <1>1 DEF ReconSound, ReadSound, SeenSound, Settling, SettledBeforeOpen, ReconciledMeansSettled
<1> QED
  BY <1>2, <1>3, <1>4, <1>5, <1>6, <1>7 DEF IInv

\* It depends on nothing but the variables.
LEMMA StutterInv == ASSUME IInv, UNCHANGED vars PROVE IInv'
BY DEF IInv, vars, modeState, database, outside, TypeOK, OrdersSound, AtMostOnePost, RecordsCoverOrders,
   BookedOnce, OrderKnown, CycleOfCompleted, SettledBeforeOpen, ReconciledMeansSettled, CallSound, Admitted,
   Admissible, Recorded, Carried, FromRest, OneRebalance, OperationsCarried, WireCarried, GateSound,
   SettledAlone, ReconSound, ReadSound, SeenSound, Settling, OrderLocked, Working, Settled, Unsent, OpOf, OrderOf

\* Every step keeps it.
LEMMA NextInv == ASSUME IInv, [Next]_vars PROVE IInv'
<1>1. ASSUME NEW r \in Request, RebalanceStep(r) PROVE IInv'
  BY <1>1, RebalanceInv, EnterInv, CheckOpenOrdersInv, PriceInv, OperationInv, RecordCycleInv, RouteFailsInv
     DEF RebalanceStep
<1>2. ASSUME NEW r \in Request, SubmitStep(r) PROVE IInv'
  BY <1>2, SubmitInv, RecordUncertainInv, RecordFailsInv, AskAdmissionInv, PostInv, PostAnsweredInv,
     PostRefusedInv, PostLostInv, RecordAnswerInv, RecordAnswerFailsInv, DiscardInv, SubmissionFailsInv
     DEF SubmitStep
<1>3. ASSUME ReconcileStep PROVE IInv'
  BY <1>3, ReconcileStartInv, ReadRecordsInv, CheckSubmissionInv, ListOpenOrdersInv, AskOrderInv,
     CancelOrderInv, RecordSeenInv, OrderUnsettledInv, ReconcileFinishInv, ReconcileRaisesInv
     DEF ReconcileStep
<1>4. ASSUME BrokerStep PROVE IInv'
  BY <1>4, BrokerStepInv, BrokerDropsInv DEF BrokerStep
<1>5. ASSUME Open \/ VersionMoves \/ CloseGate \/ Restart PROVE IInv'
  BY <1>5, VersionStep, CloseGateInv, RestartInv
<1> QED
  BY <1>1, <1>2, <1>3, <1>4, <1>5, StutterInv DEF Next

\* The invariant holds throughout: what the calls, the reconciliation, the
\* records and the broker know of each other never contradicts.
THEOREM Inductive == Spec => []IInv
<1>1. IInv /\ [Next]_vars => IInv'
  BY NextInv
<1> QED
  BY <1>1, InitInv, PTL DEF Spec

-----------------------------------------------------------------------------
(* The properties.                                                         *)

\* Every variable keeps its type; no order is booked beyond its quantity.
THEOREM TypeCorrect == Spec => []TypeOK
<1>1. IInv => TypeOK
  BY DEF IInv
<1> QED
  BY <1>1, Inductive, PTL

\* No order is written to the network twice, whatever is lost, duplicated or
\* restarted.
THEOREM OrdersPostedOnce == Spec => []AtMostOnePost
<1>1. IInv => AtMostOnePost
  BY DEF IInv, OrdersSound
<1> QED
  BY <1>1, Inductive, PTL

\* Every order on the network or at the broker has a record, and none that is
\* recorded as discarded or rejected can trade.
THEOREM OrdersRecorded == Spec => []RecordsCoverOrders
<1>1. IInv => RecordsCoverOrders
  BY DEF IInv, OrdersSound
<1> QED
  BY <1>1, Inductive, PTL

\* What is booked for an order is what its record says, and never more than
\* the broker filled.
THEOREM FillsBookedOnce == Spec => []BookedOnce
<1>1. IInv => BookedOnce
  BY DEF IInv, OrdersSound
<1> QED
  BY <1>1, Inductive, PTL

\* An operation has one allocation event at most, and none while a duplicate
\* would be carried out again.
THEOREM OneCycleEach == Spec => []CycleOfCompleted
<1>1. IInv => CycleOfCompleted
  BY DEF IInv
<1> QED
  BY <1>1, Inductive, PTL

\* While the gate is open no order of an earlier permission can trade.
THEOREM NothingLeftOver == Spec => []SettledBeforeOpen
<1>1. IInv => SettledBeforeOpen
  BY DEF IInv
<1> QED
  BY <1>1, Inductive, PTL

\* A mode that counts as reconciled has no working order and nothing unbooked.
THEOREM ReconciledSettled == Spec => []ReconciledMeansSettled
<1>1. IInv => ReconciledMeansSettled
  BY DEF IInv
<1> QED
  BY <1>1, Inductive, PTL

\* A rebalance that computes or places orders has no working order of another
\* operation beside it.
THEOREM SizedFromRest == Spec => []RebalanceFromRest
<1>1. IInv => RebalanceFromRest
  BY DEF IInv, CallSound, FromRest, RebalanceFromRest
<1> QED
  BY <1>1, Inductive, PTL

\* An admitted duplicate never finds the record of an operation that stopped
\* half-way.
THEOREM DuplicatesAnswered == Spec => []DuplicateFindsResult
<1>1. ASSUME IInv PROVE DuplicateFindsResult
  <2> SUFFICES ASSUME NEW r \in Request, req[r].pc = "waiting", Admissible(r), ~RebalanceLocked,
                      ops[OpOf(r)] = "in_progress"
               PROVE  FALSE
    BY DEF DuplicateFindsResult
  <2>1. OpOf(r) \in OpId /\ OpOf(r)[1] = version /\ gate
    BY <1>1, CallIds DEF IInv, CallSound, OpOf, Admissible
  <2>2. \E q \in Request : req[q].pc \in Rebalancing
    BY <1>1, <2>1 DEF IInv, OperationsCarried
  <2> QED
    BY <2>2 DEF RebalanceLocked
<1> QED
  BY <1>1, Inductive, PTL

-----------------------------------------------------------------------------
(* The orders keep the permit discipline.                                  *)

Sending(c) == c.pc \in {"admitted", "posted"}

\* A call keeps its context as it is, or gives it up.
Kept(c, d) ==
  \/ d.pc = "idle"
  \/ c.pc # "idle" /\ d.permit = c.permit /\ (Sending(d) <=> Sending(c))

\* The context of each call.
Held(r) == IF req[r].pc = "idle" THEN None
           ELSE [mode |-> "mode", permit |-> req[r].permit, sending |-> Sending(req[r])]

\* What the context of a call is, by the step the call is at.
LEMMA HeldIs ==
  ASSUME NEW r \in Request
  PROVE  /\ req[r].pc = "idle" => Held(r) = None
         /\ req[r].pc # "idle" /\ Sending(req[r]) =>
              Held(r) = [mode |-> "mode", permit |-> req[r].permit, sending |-> TRUE]
         /\ req[r].pc # "idle" /\ ~Sending(req[r]) =>
              Held(r) = [mode |-> "mode", permit |-> req[r].permit, sending |-> FALSE]
<1>1. Sending(req[r]) \in BOOLEAN
  BY DEF Sending
<1>2. CASE Sending(req[r])
  <2>1. Sending(req[r]) = TRUE
    BY <1>1, <1>2
  <2> QED
    BY <1>2, <2>1 DEF Held
<1>3. CASE ~Sending(req[r])
  <2>1. Sending(req[r]) = FALSE
    BY <1>1, <1>3
  <2> QED
    BY <1>3, <2>1 DEF Held
<1> QED
  BY <1>2, <1>3

\* The same after a step.
LEMMA HeldBecomes ==
  ASSUME NEW r \in Request
  PROVE  /\ req'[r].pc = "idle" => Held(r)' = None
         /\ req'[r].pc # "idle" /\ Sending(req'[r]) =>
              Held(r)' = [mode |-> "mode", permit |-> req'[r].permit, sending |-> TRUE]
         /\ req'[r].pc # "idle" /\ ~Sending(req'[r]) =>
              Held(r)' = [mode |-> "mode", permit |-> req'[r].permit, sending |-> FALSE]
         /\ req'[r] = req[r] => Held(r)' = Held(r)
<1>1. Sending(req'[r]) \in BOOLEAN
  BY DEF Sending
<1>2. CASE Sending(req'[r])
  <2>1. Sending(req'[r]) = TRUE
    BY <1>1, <1>2
  <2> QED
    BY <1>2, <2>1 DEF Held
<1>3. CASE ~Sending(req'[r])
  <2>1. Sending(req'[r]) = FALSE
    BY <1>1, <1>3
  <2> QED
    BY <1>3, <2>1 DEF Held
<1> QED
  BY <1>2, <1>3 DEF Held

\* A step that opens nothing and keeps or gives up contexts is a Revoke.
LEMMA Revoked ==
  ASSUME gate' => gate, opened' = opened, \A r \in Request : Kept(req[r], req'[r])
  PROVE  Permits!Revoke
BY DEF Permits!Revoke, Kept, Sending

\* So is a step of one call that keeps or gives up its own.
LEMMA CallKeeps ==
  ASSUME IInv, NEW r \in Request, NEW c, req' = [req EXCEPT ![r] = c], Kept(req[r], c),
         UNCHANGED modeState \/ Close
  PROVE  Permits!Revoke
<1>1. \A q \in Request : Kept(req[q], req'[q])
  BY DEF IInv, TypeOK, Kept
<1> QED
  BY <1>1, Revoked DEF modeState, Close

\* A call that goes on without its order being written or answered, and one
\* that ends.
LEMMA GoesOn ==
  ASSUME IInv, NEW r \in Request, NEW pc, Goto(r, pc), req[r].pc # "idle",
         pc \in {"admitted", "posted"} <=> req[r].pc \in {"admitted", "posted"},
         UNCHANGED modeState
  PROVE  Permits!Revoke
<1> DEFINE c == [req[r] EXCEPT !.pc = pc]
<1>1. req' = [req EXCEPT ![r] = c] /\ c.permit = req[r].permit /\ c.pc = pc
  BY DEF Goto, IInv, TypeOK, Calls
<1>2. Kept(req[r], c)
  BY <1>1 DEF Kept, Sending
<1> QED
  BY <1>1, <1>2, CallKeeps

\* A call that ends gives its context up.
LEMMA Ends ==
  ASSUME IInv, NEW r \in Request, Finish(r), UNCHANGED modeState \/ Close
  PROVE  Permits!Revoke
BY CallKeeps, FreeCall DEF Finish, Kept

\* What a step of GatePermit asks of the contexts, one by one.
LEMMA HeldTakes ==
  ASSUME NEW r \in Request, gate, UNCHANGED modeState, Held(r) = None,
         Held(r)' = [mode |-> "mode", permit |-> opened, sending |-> FALSE],
         \A q \in Request \ {r} : Held(q)' = Held(q)
  PROVE  Permits!Take(r, "mode")
<1> DEFINE before == [q \in Request |-> Held(q)]
           after == [q \in Request |-> Held(q)']
<1>1. after = [before EXCEPT ![r] = [mode |-> "mode", permit |-> opened, sending |-> FALSE]]
  OBVIOUS
<1> QED
  BY <1>1 DEF Permits!Take, Held, Sending, modeState

\* The context under which an order leaves.
LEMMA HeldSends ==
  ASSUME NEW r \in Request, gate, UNCHANGED modeState,
         None # [mode |-> "mode", permit |-> opened, sending |-> FALSE],
         Held(r) = [mode |-> "mode", permit |-> opened, sending |-> FALSE],
         Held(r)' = [mode |-> "mode", permit |-> opened, sending |-> TRUE],
         \A q \in Request \ {r} : Held(q)' = Held(q),
         \A q \in Request : Held(q) # None => ~Held(q).sending
  PROVE  Permits!Send(r)
<1> DEFINE before == [q \in Request |-> Held(q)]
           after == [q \in Request |-> Held(q)']
<1>1. [before[r] EXCEPT !.sending = TRUE] = [mode |-> "mode", permit |-> opened, sending |-> TRUE]
  <2> DEFINE was == FALSE
             is == TRUE
             x == before[r]
  <2>1. x = [mode |-> "mode", permit |-> opened, sending |-> was]
    OBVIOUS
  <2> HIDE DEF was, is, x
  <2>2. [x EXCEPT !.sending = is] = [mode |-> "mode", permit |-> opened, sending |-> is]
    BY <2>1
  <2> QED
    BY <2>2 DEF x, is
<1>2. after = [before EXCEPT ![r] = [before[r] EXCEPT !.sending = TRUE]]
  BY <1>1
<1> QED
  BY <1>2 DEF Permits!Send, Held, Sending, modeState

\* The context whose order is answered.
LEMMA HeldAnswered ==
  ASSUME NEW r \in Request, UNCHANGED modeState, NEW p,
         None # [mode |-> "mode", permit |-> p, sending |-> TRUE],
         Held(r) = [mode |-> "mode", permit |-> p, sending |-> TRUE],
         Held(r)' = [mode |-> "mode", permit |-> p, sending |-> FALSE],
         \A q \in Request \ {r} : Held(q)' = Held(q)
  PROVE  Permits!Answered(r)
<1> DEFINE before == [q \in Request |-> Held(q)]
           after == [q \in Request |-> Held(q)']
<1>1. [before[r] EXCEPT !.sending = FALSE] = [mode |-> "mode", permit |-> p, sending |-> FALSE]
  <2> DEFINE was == TRUE
             is == FALSE
             x == before[r]
  <2>1. x = [mode |-> "mode", permit |-> p, sending |-> was]
    OBVIOUS
  <2> HIDE DEF was, is, x
  <2>2. [x EXCEPT !.sending = is] = [mode |-> "mode", permit |-> p, sending |-> is]
    BY <2>1
  <2> QED
    BY <2>2 DEF x, is
<1>2. after = [before EXCEPT ![r] = [before[r] EXCEPT !.sending = FALSE]]
  BY <1>1
<1> QED
  BY <1>2 DEF Permits!Answered, Held, Sending, modeState

\* rebalance takes the context of the open mode.
LEMMA RebalanceTakes ==
  ASSUME IInv, NEW r \in Request, NEW op \in Operation, Rebalance(r, op)
  PROVE  Permits!Take(r, "mode")
<1>1. /\ req[r].pc = "idle" /\ gate /\ UNCHANGED modeState /\ req'[r].pc = "waiting"
      /\ req'[r].permit = opened /\ \A q \in Request \ {r} : req'[q] = req[q]
  BY DEF Rebalance, IInv, TypeOK, Free
<1>2. Held(r) = None /\ Held(r)' = [mode |-> "mode", permit |-> opened, sending |-> FALSE]
  BY <1>1, HeldIs, HeldBecomes DEF Sending
<1>3. \A q \in Request \ {r} : Held(q)' = Held(q)
  BY <1>1, HeldBecomes
<1> QED
  BY <1>1, <1>2, <1>3, HeldTakes

\* The other steps of a rebalance keep its context or give it up.
LEMMA RebalanceKeeps ==
  ASSUME IInv, NEW r \in Request, RebalanceStep(r)
  PROVE  Permits!Next
<1>1. ASSUME NEW op \in Operation, Rebalance(r, op) PROVE Permits!Next
  BY <1>1, RebalanceTakes DEF Permits!Next
<1>2. CASE Enter(r)
  BY <1>2, GoesOn, Ends DEF Enter, Permits!Next
<1>3. CASE CheckOpenOrders(r)
  BY <1>3, GoesOn, Ends DEF CheckOpenOrders, Permits!Next
<1>4. ASSUME NEW symbols \in SUBSET Symbol, Price(r, symbols) PROVE Permits!Next
  <2> DEFINE c == [req[r] EXCEPT !.pc = "starting", !.todo = symbols]
  <2>1. req' = [req EXCEPT ![r] = c] /\ c.permit = req[r].permit /\ c.pc = "starting" /\ req[r].pc = "pricing"
    BY <1>4 DEF Price, IInv, TypeOK, Calls
  <2>2. Kept(req[r], c)
    BY <2>1 DEF Kept, Sending
  <2> QED
    BY <1>4, <2>1, <2>2, CallKeeps DEF Price, Permits!Next
<1>5. CASE StartOperation(r)
  BY <1>5, GoesOn DEF StartOperation, Permits!Next
<1>6. CASE CompleteOperation(r)
  BY <1>6, GoesOn DEF CompleteOperation, Permits!Next
<1>7. CASE RecordCycle(r)
  BY <1>7, Ends DEF RecordCycle, Permits!Next
<1>8. CASE RouteFails(r)
  BY <1>8, Ends DEF RouteFails, Permits!Next
<1> QED
  BY <1>1, <1>2, <1>3, <1>4, <1>5, <1>6, <1>7, <1>8 DEF RebalanceStep

\* A context that is carried is not taken for none.
LEMMA HeldDiffers ==
  ASSUME NEW p \in Nat \cup {None}
  PROVE  /\ None # [mode |-> "mode", permit |-> p, sending |-> FALSE]
         /\ None # [mode |-> "mode", permit |-> p, sending |-> TRUE]
<1>1. \A b \in BOOLEAN : [mode |-> "mode", permit |-> p, sending |-> b] \in
        [mode : {"mode"}, permit : Nat \cup {None}, sending : BOOLEAN]
  OBVIOUS
<1>2. \A b \in BOOLEAN : None # [mode |-> "mode", permit |-> p, sending |-> b]
  BY <1>1, NoneAssumption
<1> QED
  BY <1>2

\* An order is admitted under the permit its rebalance began with, alone.
LEMMA AdmissionSends ==
  ASSUME IInv, NEW r \in Request, AskAdmission(r), Admissible(r)
  PROVE  Permits!Send(r)
<1> DEFINE c == [req[r] EXCEPT !.pc = "admitted"]
<1>1. /\ req[r].pc = "posting" /\ gate /\ UNCHANGED modeState /\ req[r].permit = opened
      /\ opened \in 0..MaxVersion
  BY DEF AskAdmission, IInv, TypeOK, CallSound, Admitted, Admissible
<1>2. req' = [req EXCEPT ![r] = c] /\ req'[r] = c /\ c.permit = req[r].permit /\ c.pc = "admitted"
  BY DEF AskAdmission, Goto, IInv, TypeOK, Calls
<1>3. \A q \in Request \ {r} : req'[q] = req[q]
  BY <1>2 DEF IInv, TypeOK
<1>4. \A q \in Request : ~Sending(req[q])
  <2>1. \A q \in Request : Sending(req[q]) => q = r
    BY <1>1 DEF IInv, OneRebalance, Rebalancing, Ordering, Sending
  <2> QED
    BY <1>1, <2>1 DEF Sending
<1>5. None # [mode |-> "mode", permit |-> req[r].permit, sending |-> FALSE]
  <2>1. req[r].permit \in Nat \cup {None}
    BY <1>1, VersionsAssumption
  <2> QED
    BY <2>1, HeldDiffers
<1>6. /\ Held(r) = [mode |-> "mode", permit |-> opened, sending |-> FALSE]
      /\ Held(r)' = [mode |-> "mode", permit |-> opened, sending |-> TRUE]
      /\ \A q \in Request \ {r} : Held(q)' = Held(q)
  BY <1>1, <1>2, <1>3, HeldIs, HeldBecomes DEF Sending
<1>7. \A q \in Request : Held(q) # None => ~Held(q).sending
  BY <1>4, HeldIs
<1> QED
  BY <1>1, <1>5, <1>6, <1>7, HeldSends

\* The answer arrives while the call still waits for it.
LEMMA AnswerArrives ==
  ASSUME IInv, NEW r \in Request, PostAnswered(r) \/ PostRefused(r)
  PROVE  Permits!Answered(r)
<1>1. /\ req[r].pc = "posted" /\ UNCHANGED modeState
      /\ req'[r].pc \in {"answered", "refused"} /\ req'[r].permit = req[r].permit
      /\ \A q \in Request \ {r} : req'[q] = req[q]
  BY DEF PostAnswered, PostRefused, Goto, IInv, TypeOK, Calls
<1>2. None # [mode |-> "mode", permit |-> req[r].permit, sending |-> TRUE]
  <2>1. req[r].permit \in Nat \cup {None}
    BY VersionsAssumption DEF IInv, TypeOK, Calls
  <2> QED
    BY <2>1, HeldDiffers
<1>3. /\ Held(r) = [mode |-> "mode", permit |-> req[r].permit, sending |-> TRUE]
      /\ Held(r)' = [mode |-> "mode", permit |-> req[r].permit, sending |-> FALSE]
      /\ \A q \in Request \ {r} : Held(q)' = Held(q)
  BY <1>1, HeldIs, HeldBecomes DEF Sending
<1> QED
  BY <1>1, <1>2, <1>3, HeldAnswered

\* The other steps of a submission keep the context or give it up.
LEMMA SubmitKeeps ==
  ASSUME IInv, NEW r \in Request, SubmitStep(r)
  PROVE  Permits!Next
<1>1. ASSUME NEW s \in Symbol, Submit(r, s) PROVE Permits!Next
  <2>1. CASE ~Admissible(r)
    BY <1>1, <2>1, Ends DEF Submit, Permits!Next
  <2>2. CASE Admissible(r)
    <3> DEFINE c == IF db[<<req[r].version, req[r].op, s>>] # NoRecord
                    THEN [req[r] EXCEPT !.todo = @ \ {s}]
                    ELSE [req[r] EXCEPT !.pc = "recording", !.todo = @ \ {s}, !.sym = s]
    <3>1. req' = [req EXCEPT ![r] = c] /\ req[r].pc = "submitting" /\ UNCHANGED modeState
      BY <1>1, <2>2 DEF Submit, IInv, TypeOK, Calls
    <3>2. c.permit = req[r].permit /\ c.pc \in {"submitting", "recording"}
      BY <3>1 DEF IInv, TypeOK, Calls
    <3>3. Kept(req[r], c)
      BY <3>1, <3>2 DEF Kept, Sending
    <3> QED
      BY <3>1, <3>3, CallKeeps DEF Permits!Next
  <2> QED
    BY <2>1, <2>2
<1>2. CASE RecordUncertain(r)
  BY <1>2, GoesOn DEF RecordUncertain, Permits!Next
<1>3. CASE AskAdmission(r)
  <2>1. CASE Admissible(r)
    BY <1>3, <2>1, AdmissionSends DEF Permits!Next
  <2>2. CASE ~Admissible(r)
    BY <1>3, <2>2, GoesOn DEF AskAdmission, Permits!Next
  <2> QED
    BY <2>1, <2>2
<1>4. CASE Post(r)
  BY <1>4, GoesOn DEF Post, Permits!Next
<1>5. CASE PostUnsent(r)
  BY <1>5, GoesOn DEF PostUnsent, Permits!Next
<1>6. CASE PostAnswered(r) \/ PostRefused(r)
  BY <1>6, AnswerArrives DEF Permits!Next
<1>7. CASE RecordFails(r) \/ PostLost(r) \/ RecordAnswerFails(r)
  BY <1>7, Ends DEF RecordFails, PostLost, RecordAnswerFails, Permits!Next
<1>8. CASE RecordAnswer(r)
  <2> DEFINE c == [req[r] EXCEPT !.pc = "submitting", !.sym = None, !.answer = Absent]
  <2>1. /\ req' = [req EXCEPT ![r] = c] /\ req[r].pc = "answered" /\ UNCHANGED modeState
        /\ c.permit = req[r].permit /\ c.pc = "submitting"
    BY <1>8 DEF RecordAnswer, IInv, TypeOK, Calls
  <2>2. Kept(req[r], c)
    BY <2>1 DEF Kept, Sending
  <2> QED
    BY <2>1, <2>2, CallKeeps DEF Permits!Next
<1>9. CASE Discard(r) \/ DiscardFails(r) \/ SubmissionFails(r)
  BY <1>9, Ends DEF Discard, DiscardFails, SubmissionFails, Permits!Next
<1> QED
  BY <1>1, <1>2, <1>3, <1>4, <1>5, <1>6, <1>7, <1>8, <1>9 DEF SubmitStep

\* What the reconciliation, the broker and a closing do takes no context.
LEMMA OthersKeep ==
  ASSUME IInv, ReconcileStep \/ BrokerStep \/ VersionMoves \/ CloseGate
  PROVE  Permits!Next
<1>1. UNCHANGED req
  BY DEF ReconcileStep, ReconcileStart, ReadRecords, CheckSubmission, ListOpenOrders, AskOrder, CancelOrder,
     RecordSeen, OrderUnsettled, ReconcileFinish, ReconcileRaises, BrokerStep, BrokerAccepts, BrokerDrops,
     BrokerFills, VersionMoves, CloseGate
<1>2. UNCHANGED <<gate, opened>> \/ (gate' = FALSE /\ opened' = opened)
  BY DEF ReconcileStep, ReconcileStart, ReadRecords, CheckSubmission, ListOpenOrders, AskOrder, CancelOrder,
     RecordSeen, OrderUnsettled, ReconcileFinish, ReconcileRaises, BrokerStep, BrokerAccepts, BrokerDrops,
     BrokerFills, VersionMoves, CloseGate, Close, modeState
<1>3. \A r \in Request : Kept(req[r], req'[r])
  BY <1>1 DEF Kept
<1> QED
  BY <1>2, <1>3, Revoked DEF Permits!Next

\* The gate was last opened at a version of the past.
LEMMA OpenedInThePast == Spec => [](opened <= version)
<1>1. Init => opened <= version
  BY DEF Init
<1>2. ASSUME IInv, opened <= version, [Next]_vars PROVE (opened <= version)'
  <2>1. version \in Nat /\ opened \in Nat
    BY <1>2, VersionsAssumption DEF IInv, TypeOK
  <2>2. CASE Open \/ VersionMoves
    <3>1. version' = version + 1 /\ (opened' = opened \/ opened' = version + 1)
      BY <2>2 DEF Open, VersionMoves
    <3> QED
      BY <1>2, <2>1, <3>1
  <2>3. CASE UNCHANGED <<version, opened>>
    BY <1>2, <2>3
  <2>4. ASSUME NEW r \in Request, RebalanceStep(r) \/ SubmitStep(r) PROVE UNCHANGED <<version, opened>>
    <3>1. CASE RebalanceStep(r)
      BY <3>1 DEF modeState, RebalanceStep, Rebalance, Enter, CheckOpenOrders, Price, StartOperation,
         CompleteOperation, RecordCycle, RouteFails, Close
    <3>2. CASE SubmitStep(r)
      BY <3>2 DEF modeState, SubmitStep, Submit, RecordUncertain, RecordFails, AskAdmission, Post, PostUnsent,
         PostAnswered, PostRefused, PostLost, RecordAnswer, RecordAnswerFails, Discard, DiscardFails,
         SubmissionFails, Close
    <3> QED
      BY <2>4, <3>1, <3>2
  <2>5. ASSUME ReconcileStep \/ BrokerStep \/ CloseGate \/ Restart \/ UNCHANGED vars
        PROVE  UNCHANGED <<version, opened>>
    BY <2>5 DEF vars, modeState, ReconcileStep, ReconcileStart, ReadRecords, CheckSubmission, ListOpenOrders,
       AskOrder, CancelOrder, RecordSeen, OrderUnsettled, ReconcileFinish, ReconcileRaises, BrokerStep,
       BrokerAccepts, BrokerDrops, BrokerFills, CloseGate, Close, Restart
  <2> QED
    BY <1>2, <2>2, <2>3, <2>4, <2>5 DEF Next
<1> QED
  BY <1>1, <1>2, Inductive, PTL DEF Spec

\* The orders implement the permit discipline: an order leaves only under the
\* permission its rebalance began with, one at a time.
THEOREM OrdersKeepPermits == Spec => OrdersUnderPermit
<1>1. Init => Permits!Init
  <2> SUFFICES ASSUME Init PROVE Permits!Init
    OBVIOUS
  <2>1. \A r \in Request : req[r].pc = "idle"
    BY FreeCall DEF Init
  <2> QED
    BY <2>1 DEF Init, Permits!Init
<1>2. ASSUME IInv, opened <= version, [Next]_vars PROVE [Permits!Next]_(Permits!vars)
  <2>1. ASSUME NEW r \in Request, RebalanceStep(r) \/ SubmitStep(r) PROVE Permits!Next
    BY <1>2, <2>1, RebalanceKeeps, SubmitKeeps
  <2>2. CASE ReconcileStep \/ BrokerStep \/ VersionMoves \/ CloseGate
    BY <1>2, <2>2, OthersKeep
  <2>3. CASE Open
    <3>1. ~gate /\ gate' /\ opened' > opened /\ UNCHANGED req
      BY <1>2, <2>3, VersionsAssumption DEF Open, IInv, TypeOK
    <3> QED
      BY <3>1 DEF Permits!Next, Permits!Grant
  <2>4. CASE Restart
    <3>1. \A r \in Request : Kept(req[r], req'[r])
      BY <2>4, FreeCall DEF Restart, Kept
    <3> QED
      BY <2>4, <3>1, Revoked DEF Restart, Permits!Next
  <2>5. CASE UNCHANGED vars
    BY <2>5 DEF vars, modeState, Permits!vars
  <2> QED
    BY <1>2, <2>1, <2>2, <2>3, <2>4, <2>5 DEF Next
<1> QED
  BY <1>1, <1>2, Inductive, OpenedInThePast, PTL DEF Spec, OrdersUnderPermit, Permits!Spec

-----------------------------------------------------------------------------
(* The mode opens only settled.                                            *)

\* A submission is in flight.
InFlight == \E r \in Request : Sending(req[r])

\* What the mode is at.
LEMMA PhaseIs ==
  /\ gate => PhaseOfMode = "open"
  /\ ~gate /\ Reconciling /\ recon.pc \in {"reading", "read"} => PhaseOfMode = "reconciling"
  /\ ~gate /\ Reconciling /\ recon.pc \notin {"reading", "read"} => PhaseOfMode = "checked"
  /\ ~gate /\ ~Reconciling /\ reconciled => PhaseOfMode = "reconciled"
  /\ ~gate /\ ~Reconciling /\ ~reconciled => PhaseOfMode = "closed"
  /\ PhaseOfMode \in Phases!Phase
BY DEF PhaseOfMode, Phases!Phase

\* The same after a step.
LEMMA PhaseBecomes ==
  /\ gate' => PhaseOfMode' = "open"
  /\ ~gate' /\ Reconciling' /\ recon'.pc \in {"reading", "read"} => PhaseOfMode' = "reconciling"
  /\ ~gate' /\ Reconciling' /\ recon'.pc \notin {"reading", "read"} => PhaseOfMode' = "checked"
  /\ ~gate' /\ ~Reconciling' /\ reconciled' => PhaseOfMode' = "reconciled"
  /\ ~gate' /\ ~Reconciling' /\ ~reconciled' => PhaseOfMode' = "closed"
  /\ PhaseOfMode' \in Phases!Phase
BY DEF PhaseOfMode, Phases!Phase

\* No step but an admission puts a submission in flight.
SendsEnd == \A r \in Request : Sending(req'[r]) => Sending(req[r])

\* The mode is as it was, or closes in the incident it had or in a new one.
ModeFalls ==
  \/ UNCHANGED <<gate, incident, reconciled>>
  \/ /\ ~gate' /\ ~reconciled'
     /\ incident' \notin {incident, recon.incident} \/ (~gate /\ incident' = incident)

\* A reconciliation goes on in what it is at, or ends.
ReconKept ==
  \/ recon'.pc = "resting"
  \/ /\ recon'.incident = recon.incident
     /\ recon'.pc = "resting" <=> recon.pc = "resting"
     /\ recon'.pc \in {"reading", "read"} <=> recon.pc \in {"reading", "read"}

\* A phase that stays or becomes closed is a Close.
LEMMA ClosePhases ==
  ASSUME SendsEnd, PhaseOfMode' \in {PhaseOfMode, "closed"}
  PROVE  Phases!Close
<1> DEFINE phaseNow == [m \in {"mode"} |-> PhaseOfMode]
           phaseNext == [m \in {"mode"} |-> PhaseOfMode']
           sendingNow == [m \in {"mode"} |-> InFlight]
           sendingNext == [m \in {"mode"} |-> InFlight']
<1>1. phaseNext \in [{"mode"} -> Phases!Phase]
  BY PhaseBecomes
<1>2. sendingNext \in [{"mode"} -> BOOLEAN]
  BY DEF InFlight
<1>3. \A m \in {"mode"} : phaseNext[m] \in {phaseNow[m], "closed"}
  OBVIOUS
<1>4. \A m \in {"mode"} : sendingNext[m] => sendingNow[m]
  BY DEF SendsEnd, InFlight
<1> QED
  BY <1>1, <1>2, <1>3, <1>4 DEF Phases!Close, InFlight, Sending

\* Steps that close the mode or end its reconciliation.
LEMMA FallCloses ==
  ASSUME IInv, SendsEnd, ModeFalls, ReconKept
  PROVE  Phases!Close
<1> SUFFICES PhaseOfMode' \in {PhaseOfMode, "closed"}
  BY ClosePhases
<1>1. Reconciling => ~gate /\ ~reconciled
  BY DEF Reconciling, IInv, GateSound
<1>2. CASE UNCHANGED <<gate, incident, reconciled>>
  <2>1. CASE recon'.pc = "resting"
    BY <1>1, <1>2, <2>1, PhaseIs, PhaseBecomes DEF Reconciling
  <2>2. CASE /\ recon'.incident = recon.incident
             /\ recon'.pc = "resting" <=> recon.pc = "resting"
             /\ recon'.pc \in {"reading", "read"} <=> recon.pc \in {"reading", "read"}
    <3>1. Reconciling' <=> Reconciling
      BY <1>2, <2>2 DEF Reconciling
    <3> QED
      BY <1>2, <2>2, <3>1, PhaseIs, PhaseBecomes
  <2> QED
    BY <2>1, <2>2 DEF ReconKept
<1>3. CASE ~gate' /\ ~reconciled' /\ incident' \notin {incident, recon.incident}
  <2>1. ~Reconciling'
    BY <1>3 DEF Reconciling, ReconKept
  <2> QED
    BY <1>3, <2>1, PhaseBecomes
<1>4. CASE ~gate' /\ ~reconciled' /\ ~gate /\ incident' = incident
  <2>1. CASE Reconciling'
    <3>1. Reconciling /\ (recon'.pc \in {"reading", "read"} <=> recon.pc \in {"reading", "read"})
      BY <1>4, <2>1 DEF Reconciling, ReconKept
    <3> QED
      BY <1>4, <2>1, <3>1, PhaseIs, PhaseBecomes
  <2>2. CASE ~Reconciling'
    BY <1>4, <2>2, PhaseBecomes
  <2> QED
    BY <2>1, <2>2
<1> QED
  BY <1>2, <1>3, <1>4 DEF ModeFalls

\* An incident can be new.
LEMMA IncidentIsNew == NewIncident \notin {incident, recon.incident}
<1>1. \E i \in 0..2 : i # incident /\ i # recon.incident
  <2>1. CASE 0 # incident /\ 0 # recon.incident
    BY <2>1
  <2>2. CASE 1 # incident /\ 1 # recon.incident
    BY <2>2
  <2>3. CASE 2 # incident /\ 2 # recon.incident
    BY <2>3
  <2> QED
    BY <2>1, <2>2, <2>3
<1> QED
  BY <1>1 DEF NewIncident

\* Closing makes the mode fall.
LEMMA CloseFalls ==
  ASSUME Close \/ UNCHANGED modeState
  PROVE  ModeFalls
BY IncidentIsNew DEF Close, ModeFalls, modeState

\* A step of one call that sends nothing.
LEMMA CallSends ==
  ASSUME TypeOK, NEW r \in Request, NEW c, req' = [req EXCEPT ![r] = c], Sending(c) => Sending(req[r])
  PROVE  SendsEnd
BY DEF SendsEnd, TypeOK

LEMMA GotoSends ==
  ASSUME TypeOK, NEW r \in Request, NEW pc, Goto(r, pc), pc \in {"admitted", "posted"} => Sending(req[r])
  PROVE  SendsEnd
<1>1. req' = [req EXCEPT ![r] = [req[r] EXCEPT !.pc = pc]] /\ [req[r] EXCEPT !.pc = pc].pc = pc
  BY DEF Goto, TypeOK, Calls
<1> QED
  BY <1>1, CallSends DEF Sending

LEMMA FinishSends ==
  ASSUME TypeOK, NEW r \in Request, Finish(r)
  PROVE  SendsEnd
BY CallSends DEF Finish, Free, Sending

\* The steps of a call but the admission of an order.
LEMMA CallsClose ==
  ASSUME IInv, NEW r \in Request, RebalanceStep(r) \/ SubmitStep(r), ~(AskAdmission(r) /\ Admissible(r))
  PROVE  Phases!Close
<1>0. TypeOK /\ req \in [Request -> Calls] /\ req[r] \in Calls
  BY DEF IInv, TypeOK
<1>1. UNCHANGED recon /\ (Close \/ UNCHANGED modeState)
  <2>1. CASE RebalanceStep(r)
    <3>1. CASE \E op \in Operation : Rebalance(r, op)
      BY <3>1 DEF Rebalance
    <3>2. CASE Enter(r)
      BY <3>2 DEF Enter
    <3>3. CASE CheckOpenOrders(r)
      BY <3>3 DEF CheckOpenOrders
    <3>4. CASE \E symbols \in SUBSET Symbol : Price(r, symbols)
      BY <3>4 DEF Price
    <3>5. CASE StartOperation(r)
      BY <3>5 DEF StartOperation
    <3>6. CASE CompleteOperation(r)
      BY <3>6 DEF CompleteOperation
    <3>7. CASE RecordCycle(r)
      BY <3>7 DEF RecordCycle
    <3>8. CASE RouteFails(r)
      BY <3>8 DEF RouteFails
    <3> QED
      BY <2>1, <3>1, <3>2, <3>3, <3>4, <3>5, <3>6, <3>7, <3>8 DEF RebalanceStep
  <2>2. CASE SubmitStep(r)
    <3>1. CASE \E s \in Symbol : Submit(r, s)
      BY <3>1 DEF Submit, outside
    <3>2. CASE RecordUncertain(r)
      BY <3>2 DEF RecordUncertain, outside
    <3>3. CASE RecordFails(r)
      BY <3>3 DEF RecordFails, outside
    <3>4. CASE AskAdmission(r)
      BY <3>4 DEF AskAdmission, outside
    <3>5. CASE Post(r)
      BY <3>5 DEF Post, outside
    <3>6. CASE PostUnsent(r)
      BY <3>6 DEF PostUnsent, outside
    <3>7. CASE PostAnswered(r)
      BY <3>7 DEF PostAnswered, outside
    <3>8. CASE PostRefused(r)
      BY <3>8 DEF PostRefused, outside
    <3>9. CASE PostLost(r)
      BY <3>9 DEF PostLost, outside
    <3>10. CASE RecordAnswer(r)
      BY <3>10 DEF RecordAnswer, outside
    <3>11. CASE RecordAnswerFails(r)
      BY <3>11 DEF RecordAnswerFails, outside
    <3>12. CASE Discard(r)
      BY <3>12 DEF Discard, outside
    <3>13. CASE DiscardFails(r)
      BY <3>13 DEF DiscardFails, outside
    <3>14. CASE SubmissionFails(r)
      BY <3>14 DEF SubmissionFails, outside
    <3> QED
      BY <2>2, <3>1, <3>2, <3>3, <3>4, <3>5, <3>6, <3>7, <3>8,
         <3>9, <3>10, <3>11, <3>12, <3>13, <3>14 DEF SubmitStep
  <2> QED
    BY <2>1, <2>2
<1>2. ModeFalls /\ ReconKept
  BY <1>1, CloseFalls DEF ReconKept
<1>3. SendsEnd
  <2>1. CASE \/ \E op \in Operation : Rebalance(r, op)
             \/ \E symbols \in SUBSET Symbol : Price(r, symbols)
             \/ RecordAnswer(r) \/ PostAnswered(r)
    <3>1. PICK c : req' = [req EXCEPT ![r] = c] /\ c.pc \in {"waiting", "starting", "submitting", "answered"}
      <4>1. ASSUME NEW op \in Operation, Rebalance(r, op)
            PROVE  \E c : req' = [req EXCEPT ![r] = c] /\ c.pc \in {"waiting", "starting", "submitting", "answered"}
        <5> DEFINE c == [Free EXCEPT !.pc = "waiting", !.version = version, !.op = op, !.permit = opened]
        <5>1. req' = [req EXCEPT ![r] = c] /\ c.pc = "waiting"
          BY <4>1 DEF Rebalance, Free
        <5> HIDE DEF c
        <5> QED
          BY <5>1
      <4>2. ASSUME NEW symbols \in SUBSET Symbol, Price(r, symbols)
            PROVE  \E c : req' = [req EXCEPT ![r] = c] /\ c.pc \in {"waiting", "starting", "submitting", "answered"}
        <5> DEFINE c == [req[r] EXCEPT !.pc = "starting", !.todo = symbols]
        <5>1. req' = [req EXCEPT ![r] = c] /\ c.pc = "starting"
          BY <1>0, <4>2 DEF Price, Calls
        <5> HIDE DEF c
        <5> QED
          BY <5>1
      <4>3. CASE RecordAnswer(r)
        <5> DEFINE c == [req[r] EXCEPT !.pc = "submitting", !.sym = None, !.answer = Absent]
        <5>1. req' = [req EXCEPT ![r] = c] /\ c.pc = "submitting"
          BY <1>0, <4>3 DEF RecordAnswer, Calls
        <5> HIDE DEF c
        <5> QED
          BY <5>1
      <4>4. CASE PostAnswered(r)
        <5> DEFINE c == [req[r] EXCEPT !.pc = "answered", !.answer = broker[OrderOf(r)]]
        <5>1. req' = [req EXCEPT ![r] = c] /\ c.pc = "answered"
          BY <1>0, <4>4 DEF PostAnswered, Calls
        <5> HIDE DEF c
        <5> QED
          BY <5>1
      <4> QED
        BY <2>1, <4>1, <4>2, <4>3, <4>4
    <3> QED
      BY <1>0, <3>1, CallSends DEF Sending
  <2>2. ASSUME NEW s \in Symbol, Submit(r, s) PROVE SendsEnd
    <3>1. CASE ~Admissible(r)
      BY <1>0, <2>2, <3>1, FinishSends DEF Submit
    <3>2. CASE Admissible(r) /\ db[<<req[r].version, req[r].op, s>>] # NoRecord
      <4> DEFINE c == [req[r] EXCEPT !.todo = @ \ {s}]
      <4>1. req' = [req EXCEPT ![r] = c] /\ c.pc = req[r].pc
        BY <1>0, <2>2, <3>2 DEF Submit, Calls
      <4> HIDE DEF c
      <4> QED
        BY <1>0, <4>1, CallSends DEF Sending
    <3>3. CASE Admissible(r) /\ ~(db[<<req[r].version, req[r].op, s>>] # NoRecord)
      <4> DEFINE c == [req[r] EXCEPT !.pc = "recording", !.todo = @ \ {s}, !.sym = s]
      <4>1. req' = [req EXCEPT ![r] = c] /\ c.pc = "recording"
        BY <1>0, <2>2, <3>3 DEF Submit, Calls
      <4> HIDE DEF c
      <4> QED
        BY <1>0, <4>1, CallSends DEF Sending
    <3> QED
      BY <3>1, <3>2, <3>3
  <2>3. CASE Enter(r) \/ CheckOpenOrders(r)
    BY <1>0, <2>3, FinishSends, GotoSends DEF Enter, CheckOpenOrders
  <2>4. CASE StartOperation(r) \/ CompleteOperation(r) \/ PostUnsent(r) \/ PostRefused(r)
    BY <1>0, <2>4, GotoSends DEF StartOperation, CompleteOperation, PostUnsent, PostRefused
  <2>5. CASE Post(r)
    BY <1>0, <2>5, GotoSends DEF Post, Sending
  <2>6. CASE RecordUncertain(r) \/ (AskAdmission(r) /\ ~Admissible(r))
    BY <1>0, <2>6, GotoSends DEF RecordUncertain, AskAdmission
  <2>7. CASE \/ RecordCycle(r) \/ RouteFails(r) \/ RecordFails(r) \/ PostLost(r) \/ RecordAnswerFails(r)
             \/ Discard(r) \/ DiscardFails(r) \/ SubmissionFails(r)
    BY <1>0, <2>7, FinishSends DEF RecordCycle, RouteFails, RecordFails, PostLost, RecordAnswerFails,
       Discard, DiscardFails, SubmissionFails
  <2> QED
    BY <2>1, <2>2, <2>3, <2>4, <2>5, <2>6, <2>7 DEF RebalanceStep, SubmitStep
<1> QED
  BY <1>2, <1>3, FallCloses

\* An admitted order is the only one in flight, and the mode is open.
LEMMA AdmissionOpen ==
  ASSUME IInv, NEW r \in Request, AskAdmission(r), Admissible(r)
  PROVE  Phases!Send("mode")
<1>1. /\ gate /\ UNCHANGED <<modeState, recon>> /\ req[r].pc = "posting"
      /\ req' = [req EXCEPT ![r].pc = "admitted"] /\ req \in [Request -> Calls]
  BY DEF AskAdmission, Admissible, Goto, IInv, TypeOK
<1>2. PhaseOfMode = "open" /\ PhaseOfMode' = "open"
  BY <1>1, PhaseIs, PhaseBecomes DEF modeState
<1>3. ~InFlight
  BY <1>1 DEF IInv, OneRebalance, InFlight, Sending, Rebalancing, Ordering
<1>4. InFlight'
  <2>1. req'[r].pc = "admitted"
    BY <1>1 DEF Calls
  <2> QED
    BY <2>1 DEF InFlight, Sending
<1>5. [m \in {"mode"} |-> InFlight'] = [[m \in {"mode"} |-> InFlight] EXCEPT !["mode"] = TRUE]
  <2> DEFINE was == [m \in {"mode"} |-> InFlight]
             is  == [m \in {"mode"} |-> InFlight']
  <2>1. is["mode"]
    BY <1>4
  <2>2. is["mode"] = TRUE
    BY <2>1 DEF InFlight
  <2>3. DOMAIN is = {"mode"} /\ is = [m \in {"mode"} |-> is[m]] /\ DOMAIN was = {"mode"}
    OBVIOUS
  <2> HIDE DEF was, is
  <2>4. is = [was EXCEPT !["mode"] = TRUE]
    BY <2>2, <2>3
  <2> QED
    BY <2>4 DEF was, is
<1> QED
  BY <1>2, <1>3, <1>5 DEF Phases!Send, InFlight, Sending

\* The steps of the reconciliation.
LEMMA ReconciliationPhases ==
  ASSUME IInv, ReconcileStep
  PROVE  Phases!Close \/ Phases!Begin("mode") \/ Phases!Check("mode") \/ Phases!Settle("mode")
<1>0. recon \in Reconciliations /\ UNCHANGED <<req, gate, incident>>
  <2>0. recon \in Reconciliations
    BY DEF IInv, TypeOK
  <2>1. CASE ReconcileStart
    BY <2>0, <2>1 DEF ReconcileStart, modeState
  <2>2. CASE ReadRecords
    BY <2>0, <2>2 DEF ReadRecords, modeState
  <2>3. CASE CheckSubmission
    BY <2>0, <2>3 DEF CheckSubmission, modeState
  <2>4. CASE ListOpenOrders
    BY <2>0, <2>4 DEF ListOpenOrders, modeState
  <2>5. CASE \E o \in OrderId : AskOrder(o)
    BY <2>0, <2>5 DEF AskOrder, modeState
  <2>6. CASE CancelOrder
    BY <2>0, <2>6 DEF CancelOrder, modeState
  <2>7. CASE RecordSeen
    BY <2>0, <2>7 DEF RecordSeen, modeState
  <2>8. CASE OrderUnsettled
    <3>1. UNCHANGED modeState /\ UNCHANGED req
      BY <2>8 DEF OrderUnsettled
    <3> QED
      BY <2>0, <3>1 DEF modeState
  <2>9. CASE ReconcileFinish
    BY <2>0, <2>9 DEF ReconcileFinish, modeState
  <2>10. CASE ReconcileRaises
    BY <2>0, <2>10 DEF ReconcileRaises, modeState
  <2> QED
    BY <2>0, <2>1, <2>2, <2>3, <2>4, <2>5, <2>6, <2>7, <2>8, <2>9, <2>10 DEF ReconcileStep
<1>1. SendsEnd /\ UNCHANGED [m \in {"mode"} |-> InFlight]
  BY <1>0 DEF SendsEnd, InFlight
<1>2. recon.pc # "resting" => ~gate /\ ~reconciled
  BY DEF IInv, GateSound
<1>3. Resting.pc = "resting"
  BY DEF Resting
<1>4. ASSUME recon'.pc = "resting", reconciled' = FALSE, recon.pc # "resting" PROVE Phases!Close
  BY <1>0, <1>1, <1>2, <1>4, FallCloses DEF ModeFalls, ReconKept
<1>5. CASE ReconcileStart
  <2>1. /\ ~gate /\ recon.pc = "resting" /\ recon'.pc = "reading" /\ recon'.incident = incident
    BY <1>5 DEF ReconcileStart, Resting
  <2>2. PhaseOfMode \in {"closed", "reconciled"} /\ PhaseOfMode' = "reconciling"
    BY <1>0, <2>1, PhaseIs, PhaseBecomes DEF Reconciling
  <2> QED
    BY <1>1, <2>2 DEF Phases!Begin, InFlight, Sending
<1>6. CASE CheckSubmission /\ OrderLocked
  BY <1>3, <1>4, <1>6 DEF CheckSubmission
<1>7. CASE CheckSubmission /\ ~OrderLocked
  <2>1. /\ recon.pc = "read" /\ recon'.pc = "listing" /\ recon'.incident = recon.incident
        /\ UNCHANGED reconciled
    BY <1>0, <1>7 DEF CheckSubmission, Reconciliations
  <2>2. CASE Reconciling
    <3>1. PhaseOfMode = "reconciling" /\ PhaseOfMode' = "checked"
      BY <1>0, <1>2, <2>1, <2>2, PhaseIs, PhaseBecomes DEF Reconciling
    <3>2. ~InFlight
      BY <1>7 DEF OrderLocked, InFlight, Sending, Ordering
    <3> QED
      BY <1>1, <3>1, <3>2 DEF Phases!Check, InFlight, Sending
  <2>3. CASE ~Reconciling
    <3>1. ~Reconciling' /\ ~gate /\ ~gate'
      BY <1>0, <1>2, <2>1, <2>3 DEF Reconciling
    <3>2. PhaseOfMode' = PhaseOfMode
      BY <1>2, <2>1, <2>3, <3>1, PhaseIs, PhaseBecomes
    <3> QED
      BY <1>1, <3>2, ClosePhases
  <2> QED
    BY <2>2, <2>3
<1>8. CASE \/ ReadRecords \/ ListOpenOrders \/ (\E o \in OrderId : AskOrder(o))
           \/ CancelOrder \/ RecordSeen \/ OrderUnsettled
  <2>1. UNCHANGED reconciled
    <3>1. CASE ReadRecords
      BY <3>1 DEF ReadRecords, modeState
    <3>2. CASE ListOpenOrders
      BY <3>2 DEF ListOpenOrders, modeState
    <3>3. CASE \E o \in OrderId : AskOrder(o)
      BY <3>3 DEF AskOrder, modeState
    <3>4. CASE CancelOrder
      BY <3>4 DEF CancelOrder, modeState
    <3>5. CASE RecordSeen
      BY <3>5 DEF RecordSeen, modeState
    <3>6. CASE OrderUnsettled
      <4>1. UNCHANGED modeState
        BY <3>6 DEF OrderUnsettled
      <4> QED
        BY <4>1 DEF modeState
    <3> QED
      BY <1>8, <3>1, <3>2, <3>3, <3>4, <3>5, <3>6
  <2>2. ReconKept
    <3>1. CASE ReadRecords
      BY <1>0, <3>1 DEF ReadRecords, ReconKept, Reconciliations
    <3>2. CASE ListOpenOrders
      BY <1>0, <3>2 DEF ListOpenOrders, ReconKept, Reconciliations
    <3>3. CASE \E o \in OrderId : AskOrder(o)
      BY <1>0, <3>3 DEF AskOrder, ReconKept, Reconciliations
    <3>4. CASE CancelOrder
      BY <1>0, <3>4 DEF CancelOrder, ReconKept, Reconciliations
    <3>5. CASE RecordSeen
      BY <1>0, <3>5 DEF RecordSeen, ReconKept, Reconciliations
    <3>6. CASE OrderUnsettled
      <4>1. CASE recon.pc = "asking"
        <5>1. PICK o \in recon.todo : recon' = [recon EXCEPT !.todo = @ \ {o}, !.outstanding = TRUE]
          BY <3>6, <4>1 DEF OrderUnsettled
        <5>2. recon'.pc = "asking" /\ recon'.incident = recon.incident
          BY <1>0, <4>1, <5>1 DEF Reconciliations
        <5> QED
          BY <4>1, <5>2 DEF ReconKept
      <4>2. CASE recon.pc # "asking"
        <5>1. /\ recon.pc \in {"canceling", "recording"}
              /\ recon' = [recon EXCEPT !.pc = "asking", !.order = None, !.seen = Absent,
                                        !.outstanding = TRUE]
          BY <3>6, <4>2 DEF OrderUnsettled
        <5>2. recon'.pc = "asking" /\ recon'.incident = recon.incident
          BY <1>0, <5>1 DEF Reconciliations
        <5> QED
          BY <5>1, <5>2 DEF ReconKept
      <4> QED
        BY <4>1, <4>2
    <3> QED
      BY <1>8, <3>1, <3>2, <3>3, <3>4, <3>5, <3>6
  <2> QED
    BY <1>0, <1>1, <2>1, <2>2, FallCloses DEF ModeFalls
<1>9. CASE ReconcileFinish
  <2>1. recon.pc = "asking" /\ recon'.pc = "resting"
    BY <1>3, <1>9 DEF ReconcileFinish
  <2>2. CASE incident # recon.incident
    <3>1. UNCHANGED reconciled
      BY <1>9, <2>2 DEF ReconcileFinish
    <3> QED
      BY <1>0, <1>1, <2>1, <3>1, FallCloses DEF ModeFalls, ReconKept
  <2>3. CASE incident = recon.incident
    <3>1. reconciled' \in BOOLEAN
      BY <1>9, <2>3 DEF ReconcileFinish
    <3>2. CASE reconciled'
      <4>1. PhaseOfMode = "checked" /\ PhaseOfMode' = "reconciled"
        BY <1>0, <1>2, <2>1, <2>3, <3>2, PhaseIs, PhaseBecomes DEF Reconciling
      <4> QED
        BY <1>1, <4>1 DEF Phases!Settle, InFlight, Sending
    <3>3. CASE ~reconciled'
      BY <1>4, <2>1, <3>1, <3>3
    <3> QED
      BY <3>2, <3>3
  <2> QED
    BY <2>2, <2>3
<1>10. CASE ReconcileRaises
  BY <1>3, <1>4, <1>10 DEF ReconcileRaises
<1> QED
  BY <1>5, <1>6, <1>7, <1>8, <1>9, <1>10 DEF ReconcileStep

\* What the orders suppose of the gate is what ProviderGate keeps: the mode opens
\* only after a reconciliation of its present incident that began closed, saw no
\* submission in flight and left nothing outstanding (reconcile, submit).
THEOREM OrdersOpenAfterSettling == Spec => OrdersOpenSettled
<1>1. Init => Phases!Init
  <2> SUFFICES ASSUME Init PROVE Phases!Init
    OBVIOUS
  <2>1. PhaseOfMode = "closed"
    BY PhaseIs DEF Init, Resting, Reconciling
  <2>2. ~InFlight
    BY FreeCall DEF Init, InFlight, Sending
  <2> QED
    BY <2>1, <2>2 DEF Phases!Init, InFlight, Sending
<1>2. ASSUME IInv, [Next]_vars PROVE Phases!Next
  <2> USE DEF Phases!Next
  <2>1. ASSUME NEW r \in Request, RebalanceStep(r) \/ SubmitStep(r) PROVE Phases!Next
    <3>1. CASE AskAdmission(r) /\ Admissible(r)
      BY <1>2, <3>1, AdmissionOpen
    <3> QED
      BY <1>2, <2>1, <3>1, CallsClose
  <2>2. CASE ReconcileStep
    BY <1>2, <2>2, ReconciliationPhases
  <2>3. CASE BrokerStep \/ VersionMoves \/ CloseGate \/ UNCHANGED vars
    <3>1. UNCHANGED <<req, recon>> /\ ModeFalls
      BY <2>3, CloseFalls DEF BrokerStep, BrokerAccepts, BrokerDrops, BrokerFills, VersionMoves, CloseGate,
         vars, modeState, ModeFalls
    <3>2. SendsEnd /\ ReconKept
      BY <3>1 DEF SendsEnd, ReconKept
    <3> QED
      BY <1>2, <3>1, <3>2, FallCloses
  <2>4. CASE Open
    <3>1. /\ ~gate /\ gate' /\ reconciled /\ recon.pc = "resting" /\ UNCHANGED <<req, recon>>
      BY <2>4 DEF Open
    <3>2. PhaseOfMode = "reconciled" /\ PhaseOfMode' = "open"
      BY <3>1, PhaseIs, PhaseBecomes DEF Reconciling
    <3>3. UNCHANGED [m \in {"mode"} |-> InFlight]
      BY <3>1 DEF InFlight
    <3>4. [m \in {"mode"} |-> PhaseOfMode'] \in [{"mode"} -> Phases!Phase]
      BY PhaseBecomes
    <3>5. Phases!Open
      BY <3>2, <3>3, <3>4 DEF Phases!Open, InFlight, Sending
    <3> QED
      BY <3>5
  <2>5. CASE Restart
    <3>1. \A r \in Request : ~Sending(req'[r])
      BY <2>5, FreeCall DEF Restart, Sending
    <3>2. ModeFalls /\ ReconKept
      BY <2>5, IncidentIsNew DEF Restart, Resting, ModeFalls, ReconKept
    <3> QED
      BY <1>2, <3>1, <3>2, FallCloses DEF SendsEnd
  <2> QED
    BY <1>2, <2>1, <2>2, <2>3, <2>4, <2>5 DEF Next
<1> QED
  BY <1>1, <1>2, Inductive, PTL DEF Spec, OrdersOpenSettled, Phases!Spec
=============================================================================
