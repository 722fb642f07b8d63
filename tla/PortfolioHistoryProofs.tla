------------------------ MODULE PortfolioHistoryProofs ------------------------
(***************************************************************************)
(* The history of an account is mapped and reported soundly, for any set   *)
(* of portfolio ids, any number of rows and days and any equities.         *)
(***************************************************************************)
EXTENDS PortfolioHistory, TLAPS

\* The parts of the inductive invariant.

\* A mode has one row at most.
OneRowEach ==
  \A i, j \in Row : portfolios[i].mode = portfolios[j].mode /\ portfolios[i].mode \in Mode => i = j

\* The row of a report has the mode the report names, or was adopted by paper
\* since the report began.
ReportNamed ==
  report.pc # "idle" =>
    \/ portfolios[report.row].mode = report.mode /\ report.mode \in Mode \cup {None}
    \/ report.mode = None /\ portfolios[report.row].mode = "paper"

\* An idle API has seen nothing.
IdleSawNothing == report.pc = "idle" => report.seen = {}

\* The days a report found have an equity.
NewestRecorded ==
  report.pc = "newest" =>
    \A d \in Day : report.newest[d] # None => performance[report.row][d] # None

IInv ==
  /\ TypeOK /\ OneRowEach /\ HistoryKeepsMode /\ MappingMatchesState
  /\ ReportNamed /\ IdleSawNothing /\ NewestRecorded
  /\ ReportOfOneMode /\ BaselineWithoutProfit

-----------------------------------------------------------------------------
\* The two modes are each other's other.
LEMMA OtherMode ==
  ASSUME NEW m \in Mode
  PROVE  Other(m) \in Mode /\ Other(m) # m /\ Mode = {m, Other(m)}
  BY DEF Other, Mode

\* What a save that succeeds leaves behind: every row is as before, or had the
\* mode already, or was adopted by paper, or is new.
LEMMA SavedRows ==
  ASSUME IInv, NEW c \in Configuration, NEW first \in Mode,
         NEW i \in Row, NEW j \in Row, Saves(c, first, i, j),
         portfolios' = Written(c, first, i, j)
  PROVE  /\ i # j
         /\ portfolios' \in [Row -> [mode : Mode \cup {None, "unused"}, uuid : Uuid \cup {None}]]
         /\ portfolios'[i] = [mode |-> first, uuid |-> c[first]]
         /\ portfolios'[j] = [mode |-> Other(first), uuid |-> c[Other(first)]]
         /\ \A k \in Row \ {i, j} : portfolios'[k] = portfolios[k]
                                    /\ portfolios[k].mode \notin Mode
         /\ \A k \in {i, j} :
              \/ portfolios[k].mode = portfolios'[k].mode
              \/ portfolios[k] = Legacy /\ portfolios'[k].mode = "paper"
              \/ portfolios[k] = Unused
<1> DEFINE second == Other(first)
           rows == Given(portfolios, i, first, c[first])
<1>1. second \in Mode /\ second # first /\ Mode = {first, second}
  BY OtherMode
<1>2. c[first] \in Uuid /\ c[second] \in Uuid
  BY <1>1 DEF Configuration
<1>3. portfolios \in [Row -> [mode : Mode \cup {None, "unused"}, uuid : Uuid \cup {None}]]
  BY DEF IInv, TypeOK
<1>4. rows \in [Row -> [mode : Mode \cup {None, "unused"}, uuid : Uuid \cup {None}]]
      /\ rows[i] = [mode |-> first, uuid |-> c[first]]
      /\ \A k \in Row \ {i} : rows[k] = portfolios[k]
  BY <1>2, <1>3 DEF Given
<1>5. None \notin Mode /\ "unused" \notin Mode
  BY NoneAssumption DEF Mode
<1>6. RowFor(portfolios, first, i) /\ RowFor(rows, second, j)
  BY DEF Saves
<1>7. i # j
  BY <1>1, <1>4, <1>5, <1>6 DEF RowFor, Owned, Legacy, Unused
<1>8. portfolios' = Given(rows, j, second, c[second])
  BY DEF Written
<1>9. portfolios' \in [Row -> [mode : Mode \cup {None, "unused"}, uuid : Uuid \cup {None}]]
      /\ portfolios'[j] = [mode |-> second, uuid |-> c[second]]
      /\ \A k \in Row \ {j} : portfolios'[k] = rows[k]
  BY <1>1, <1>2, <1>4, <1>8 DEF Given
<1>10. \A k \in Row \ {i, j} : portfolios[k].mode \notin Mode
  <2> SUFFICES ASSUME NEW k \in Row \ {i, j}, portfolios[k].mode \in Mode PROVE FALSE
    OBVIOUS
  <2>1. CASE portfolios[k].mode = first
    BY <2>1, <1>6 DEF RowFor, Owned, IInv, OneRowEach
  <2>2. CASE portfolios[k].mode = second
    <3>1. k \in Owned(rows, second)
      BY <2>2, <1>4 DEF Owned
    <3>2. rows[j].mode = second
      BY <3>1, <1>6 DEF RowFor, Owned
    <3>3. portfolios[j].mode = second
      BY <3>2, <1>4, <1>7
    <3> QED
      BY <3>3, <2>2, <1>1 DEF IInv, OneRowEach
  <2> QED
    BY <2>1, <2>2, <1>1
<1>11. \A k \in {i, j} :
         \/ portfolios[k].mode = portfolios'[k].mode
         \/ portfolios[k] = Legacy /\ portfolios'[k].mode = "paper"
         \/ portfolios[k] = Unused
  BY <1>4, <1>6, <1>7, <1>9 DEF RowFor, Owned
<1> QED
  BY <1>4, <1>7, <1>9, <1>10, <1>11

\* A save keeps every history with its mode and maps what it stores.
LEMMA SaveInv ==
  ASSUME IInv, NEW c \in Configuration, NEW first \in Mode, Save(c, first)
  PROVE  IInv'
<1> PICK i \in Row, j \in Row : Saves(c, first, i, j) /\ portfolios' = Written(c, first, i, j)
  BY DEF Save
<1> USE DEF IInv
<1>0. stored' = c /\ UNCHANGED <<writers, performance, today, report>>
  BY DEF Save
<1>1. /\ i # j
      /\ portfolios' \in [Row -> [mode : Mode \cup {None, "unused"}, uuid : Uuid \cup {None}]]
      /\ portfolios'[i] = [mode |-> first, uuid |-> c[first]]
      /\ portfolios'[j] = [mode |-> Other(first), uuid |-> c[Other(first)]]
      /\ \A k \in Row \ {i, j} : portfolios'[k] = portfolios[k]
                                 /\ portfolios[k].mode \notin Mode
      /\ \A k \in {i, j} :
           \/ portfolios[k].mode = portfolios'[k].mode
           \/ portfolios[k] = Legacy /\ portfolios'[k].mode = "paper"
           \/ portfolios[k] = Unused
  BY SavedRows
<1>2. Other(first) \in Mode /\ Other(first) # first /\ Mode = {first, Other(first)}
  BY OtherMode
<1>3. TypeOK'
  BY <1>0, <1>1 DEF TypeOK
<1>4. OneRowEach'
  BY <1>1, <1>2 DEF OneRowEach
<1>5. HistoryKeepsMode'
  <2> SUFFICES ASSUME NEW k \in Row
               PROVE  writers[k] \subseteq Rightful(portfolios'[k].mode)
    BY <1>0 DEF HistoryKeepsMode
  <2>1. writers[k] \subseteq Rightful(portfolios[k].mode)
    BY DEF HistoryKeepsMode
  <2>2. CASE portfolios[k].mode = portfolios'[k].mode
    BY <2>1, <2>2
  <2>3. CASE portfolios[k] = Legacy /\ portfolios'[k].mode = "paper"
    <3>1. portfolios[k].mode = None /\ None \notin Mode
      BY <2>3, NoneAssumption DEF Legacy
    <3> QED
      BY <2>1, <2>3, <3>1 DEF Rightful
  <2>4. CASE portfolios[k] = Unused
    <3>1. portfolios[k].mode = "unused" /\ "unused" # None
      BY <2>4, NoneAssumption DEF Unused
    <3> QED
      BY <2>1, <3>1 DEF Rightful, Mode
  <2> QED
    BY <1>1, <2>2, <2>3, <2>4
<1>6. MappingMatchesState'
  <2> SUFFICES ASSUME NEW m \in Mode
               PROVE  /\ Owned(portfolios', m) # {}
                      /\ \A k \in Owned(portfolios', m) : portfolios'[k].uuid = c[m]
    BY <1>0 DEF MappingMatchesState, Owned
  <2>1. CASE m = first
    BY <2>1, <1>1, <1>2 DEF Owned
  <2>2. CASE m = Other(first)
    BY <2>2, <1>1, <1>2 DEF Owned
  <2> QED
    BY <2>1, <2>2, <1>2
<1>7. ReportNamed'
  <2> SUFFICES ASSUME report.pc # "idle"
               PROVE  \/ portfolios'[report.row].mode = report.mode /\ report.mode \in Mode \cup {None}
                      \/ report.mode = None /\ portfolios'[report.row].mode = "paper"
    BY <1>0 DEF ReportNamed
  <2>1. report.row \in Row
    BY DEF TypeOK
  <2>2. portfolios[report.row] # Unused
    BY NoneAssumption DEF ReportNamed, Unused, Mode
  <2> QED
    BY <1>1, <2>1, <2>2, NoneAssumption DEF ReportNamed, Legacy, Mode
<1>8. IdleSawNothing' /\ NewestRecorded' /\ ReportOfOneMode' /\ BaselineWithoutProfit'
  BY <1>0 DEF IdleSawNothing, NewestRecorded, ReportOfOneMode, BaselineWithoutProfit
<1> QED
  BY <1>3, <1>4, <1>5, <1>6, <1>7, <1>8

\* What a mode writes goes to its own row.
LEMMA WriteInv ==
  ASSUME IInv, NEW mode \in Mode,
         SaveOrder(mode) \/ \E equity \in Equity : Cycle(mode, equity)
  PROVE  IInv'
<1> PICK i \in Owned(portfolios, mode) :
      /\ writers' = [writers EXCEPT ![i] = @ \cup {mode}]
      /\ \/ UNCHANGED performance
         \/ \E equity \in Equity : performance' = [performance EXCEPT ![i][today] = equity]
      /\ UNCHANGED <<portfolios, stored, today, report>>
  BY DEF SaveOrder, Cycle
<1> USE DEF IInv
<1>1. i \in Row /\ portfolios[i].mode = mode
  BY DEF Owned
<1>2. mode \in Rightful(mode)
  BY DEF Rightful, Mode
<1>3. today \in Day /\ performance \in [Row -> [Day -> Equity \cup {None}]]
      /\ writers \in [Row -> SUBSET (Mode \cup {"legacy"})]
  BY DEF TypeOK
<1>4. performance' \in [Row -> [Day -> Equity \cup {None}]]
      /\ writers' \in [Row -> SUBSET (Mode \cup {"legacy"})]
  BY <1>1, <1>3
<1>5. TypeOK'
  BY <1>4 DEF TypeOK
<1>6. HistoryKeepsMode'
  BY <1>1, <1>2, <1>3 DEF HistoryKeepsMode
<1>7. NewestRecorded'
  <2> SUFFICES ASSUME report.pc = "newest", NEW d \in Day, report.newest[d] # None
               PROVE  performance'[report.row][d] # None
    BY DEF NewestRecorded
  <2>1. performance[report.row][d] # None /\ report.row \in Row
    BY DEF NewestRecorded, TypeOK
  <2>2. None \notin Equity
    BY NoneAssumption
  <2> QED
    BY <1>1, <1>3, <2>1, <2>2
<1>8. OneRowEach' /\ MappingMatchesState' /\ ReportNamed' /\ IdleSawNothing'
      /\ ReportOfOneMode' /\ BaselineWithoutProfit'
  BY DEF OneRowEach, MappingMatchesState, Owned, ReportNamed, IdleSawNothing,
         ReportOfOneMode, BaselineWithoutProfit
<1> QED
  BY <1>5, <1>6, <1>7, <1>8

\* Reading changes the report only, and what it names stays true of it.
LEMMA ReadInv ==
  ASSUME IInv, Read
  PROVE  IInv'
<1> USE DEF IInv
<1>0. UNCHANGED <<portfolios, stored, writers, performance, today>>
  BY DEF Read, GetPortfolio, GetEvents, GetEquity, GetNewest, GetBaseline, Answer
<1>1. OneRowEach' /\ HistoryKeepsMode' /\ MappingMatchesState'
  BY <1>0 DEF OneRowEach, HistoryKeepsMode, MappingMatchesState, Owned
<1> SUFFICES TypeOK' /\ ReportNamed' /\ IdleSawNothing' /\ NewestRecorded'
             /\ ReportOfOneMode' /\ BaselineWithoutProfit'
  BY <1>1
<1>2. ASSUME NEW i \in Row, GetPortfolio(i)
      PROVE  TypeOK' /\ ReportNamed' /\ IdleSawNothing' /\ NewestRecorded'
             /\ ReportOfOneMode' /\ BaselineWithoutProfit'
  <2>1. portfolios[i].mode \in Mode \cup {None}
    <3>1. portfolios[i] \in [mode : Mode \cup {None, "unused"}, uuid : Uuid \cup {None}]
      BY DEF TypeOK
    <3> QED
      BY <3>1, <1>2 DEF GetPortfolio
  <2>2. report' = [pc |-> "portfolio", row |-> i, mode |-> portfolios[i].mode, seen |-> {},
                   newest |-> [d \in Day |-> None], base |-> 0, capital |-> None]
    BY <1>2 DEF GetPortfolio, NoReport
  <2>3. TypeOK'
    BY <1>0, <2>1, <2>2, DaysAssumption DEF TypeOK
  <2> QED
    BY <1>0, <2>1, <2>2, <2>3 DEF ReportNamed, IdleSawNothing, NewestRecorded,
       ReportOfOneMode, BaselineWithoutProfit
<1>3. \A seen : seen = writers[report.row] /\ report.pc = "portfolio" /\ seen # {} =>
        IF report.mode = "live" THEN seen = {"live"} ELSE "live" \notin seen
  <2> SUFFICES ASSUME report.pc = "portfolio"
               PROVE  IF report.mode = "live" THEN writers[report.row] \subseteq {"live"}
                      ELSE "live" \notin writers[report.row]
    OBVIOUS
  <2>1. report.row \in Row
    BY DEF TypeOK
  <2>2. writers[report.row] \subseteq Rightful(portfolios[report.row].mode)
    BY <2>1 DEF HistoryKeepsMode
  <2>3. None # "live" /\ None # "paper"
    BY NoneAssumption DEF Mode
  <2> QED
    BY <2>2, <2>3 DEF ReportNamed, Rightful, Mode
<1>4. CASE GetEvents
  <2>1. report' = [report EXCEPT !.pc = "answered", !.seen = writers[report.row]]
        /\ report.pc = "portfolio"
    BY <1>4 DEF GetEvents
  <2>2. TypeOK'
    BY <1>0, <2>1 DEF TypeOK
  <2> QED
    BY <1>0, <1>3, <2>1, <2>2 DEF TypeOK, ReportNamed, IdleSawNothing, NewestRecorded,
       ReportOfOneMode, BaselineWithoutProfit
<1>8. CASE GetEquity
  <2> DEFINE shown == IF DaysOf(report.row) = {} THEN {} ELSE writers[report.row]
  <2>1. report' = [report EXCEPT !.pc = "answered", !.newest = performance[report.row], !.seen = shown]
        /\ report.pc = "portfolio"
    BY <1>8 DEF GetEquity
  <2>2. shown = {} \/ shown = writers[report.row]
    OBVIOUS
  <2> HIDE DEF shown
  <2>3. TypeOK'
    BY <1>0, <2>1, <2>2 DEF TypeOK
  <2> QED
    BY <1>0, <1>3, <2>1, <2>2, <2>3 DEF TypeOK, ReportNamed, IdleSawNothing, NewestRecorded,
       ReportOfOneMode, BaselineWithoutProfit
<1>5. CASE GetNewest
  <2> DEFINE found == [d \in Day |->
         IF Cardinality({e \in DaysOf(report.row) : e > d}) < Newest
         THEN performance[report.row][d] ELSE None]
  <2>1. report' = [report EXCEPT !.pc = "newest", !.seen = writers[report.row], !.newest = found]
        /\ report.pc = "portfolio"
    BY <1>5 DEF GetNewest
  <2>2. /\ found \in [Day -> Equity \cup {None}]
        /\ \A d \in Day : found[d] # None => performance[report.row][d] # None
    BY DEF TypeOK
  <2>3. TypeOK'
    BY <1>0, <2>1, <2>2 DEF TypeOK
  <2> HIDE DEF found
  <2> QED
    BY <1>0, <1>3, <2>1, <2>2, <2>3 DEF TypeOK, ReportNamed, IdleSawNothing, NewestRecorded,
       ReportOfOneMode, BaselineWithoutProfit
<1>6. CASE GetBaseline
  <2>1. PICK d \in DaysOf(report.row) :
          /\ \A e \in DaysOf(report.row) : d <= e
          /\ report' = [report EXCEPT !.pc = "profits", !.base = d,
               !.capital = IF report.newest[d] # None THEN report.newest[d]
                           ELSE performance[report.row][d]]
    BY <1>6 DEF GetBaseline
  <2>2. report.pc = "newest" /\ d \in Day /\ d \in 0..MaxDay
    BY <1>6 DEF GetBaseline, DaysOf, Day
  <2>3. TypeOK'
    <3>1. report.row \in Row /\ report.newest[d] \in Equity \cup {None}
      BY <2>2 DEF TypeOK
    <3>2. performance[report.row][d] \in Equity \cup {None}
      BY <2>2, <3>1 DEF TypeOK
    <3>3. report'.capital \in Equity \cup {None}
      BY <2>1, <3>1, <3>2 DEF TypeOK
    <3> QED
      BY <1>0, <2>1, <2>2, <3>3 DEF TypeOK
  <2>4. BaselineWithoutProfit'
    <3> SUFFICES ASSUME NEW e \in Day, report.newest[e] # None
                 PROVE  d <= e /\ (e = d => report.newest[e] = report'.capital)
      BY <2>1 DEF TypeOK, BaselineWithoutProfit
    <3>1. e \in DaysOf(report.row)
      BY <2>2 DEF NewestRecorded, DaysOf
    <3> QED
      BY <3>1, <2>1 DEF TypeOK
  <2> QED
    BY <1>0, <2>1, <2>2, <2>3, <2>4 DEF TypeOK, ReportNamed, IdleSawNothing, NewestRecorded,
       ReportOfOneMode
<1>7. CASE Answer
  <2>1. report' = NoReport
    BY <1>7 DEF Answer
  <2>2. TypeOK'
    <3>1. NoReport.row \in Row /\ NoReport.base \in 0..MaxDay
      BY RowsAssumption, DaysAssumption DEF NoReport, Row
    <3> QED
      BY <1>0, <2>1, <3>1 DEF TypeOK, NoReport
  <2> QED
    BY <1>0, <2>1, <2>2 DEF NoReport, ReportNamed, IdleSawNothing, NewestRecorded,
       ReportOfOneMode, BaselineWithoutProfit
<1> QED
  BY <1>2, <1>4, <1>5, <1>6, <1>7, <1>8 DEF Read

-----------------------------------------------------------------------------
(* When a save is refused.                                                 *)

\* What holds of the rows also between the two that a save writes: a row is
\* unused, one of the first two and of before, or a mode's with an id; and
\* while the first row is of before, paper has none.
Mapped(rows) ==
  /\ rows \in [Row -> [mode : Mode \cup {None, "unused"}, uuid : Uuid \cup {None}]]
  /\ \A i \in Row :
       \/ rows[i] = Unused
       \/ rows[i] = Legacy /\ i \in 1..2
       \/ rows[i].mode \in Mode /\ rows[i].uuid \in Uuid
  /\ \A i, j \in Row : rows[i].mode = rows[j].mode /\ rows[i].mode \in Mode => i = j
  /\ rows[1] = Legacy => Owned(rows, "paper") = {}

\* Writing a mode's row keeps the rows mapped.
LEMMA GivenMapped ==
  ASSUME NEW rows, Mapped(rows), NEW m \in Mode, NEW i \in Row, NEW u \in Uuid, RowFor(rows, m, i)
  PROVE  Mapped(Given(rows, i, m, u))
<1> DEFINE new == Given(rows, i, m, u)
<1>1. /\ new[i].mode = m /\ new[i].uuid = u
      /\ \A k \in Row \ {i} : new[k] = rows[k]
      /\ new \in [Row -> [mode : Mode \cup {None, "unused"}, uuid : Uuid \cup {None}]]
  BY DEF Mapped, Given
<1>2. None \notin Mode /\ "unused" \notin Mode
  BY NoneAssumption DEF Mode
<1> HIDE DEF new
<1>3. \A k \in Row : rows[k].mode = m => k = i
  BY DEF Mapped, RowFor, Owned
<1>4. \A k \in Row : \/ new[k] = Unused
                     \/ new[k] = Legacy /\ k \in 1..2
                     \/ new[k].mode \in Mode /\ new[k].uuid \in Uuid
  BY <1>1 DEF Mapped
<1>5. \A k, q \in Row : new[k].mode = new[q].mode /\ new[k].mode \in Mode => k = q
  BY <1>1, <1>3 DEF Mapped
<1>6. ASSUME new[1] = Legacy PROVE Owned(new, "paper") = {}
  <2>1. 1 \in Row
    BY RowsAssumption DEF Row
  <2>2. i # 1 /\ rows[1] = Legacy
    BY <1>1, <1>2, <1>6, <2>1 DEF Legacy
  <2>3. Owned(rows, "paper") = {}
    BY <2>2 DEF Mapped
  <2>4. m # "paper"
    BY <2>2, <2>3 DEF RowFor
  <2> QED
    BY <1>1, <2>3, <2>4 DEF Owned
<1> QED
  BY <1>1, <1>4, <1>5, <1>6 DEF Mapped, new

\* In a table that is not full each mode finds a row.
LEMMA RowFound ==
  ASSUME MaxRow >= 3, NEW rows, Mapped(rows), NEW m \in Mode
  PROVE  \E i \in Row : RowFor(rows, m, i)
<1>1. 1 \in Row /\ 3 \in Row /\ 3 \notin 1..2
  BY RowsAssumption DEF Row
<1>2. CASE Owned(rows, m) # {}
  BY <1>2 DEF RowFor, Owned
<1>3. CASE Owned(rows, m) = {} /\ m = "paper" /\ rows[1] = Legacy
  BY <1>1, <1>3 DEF RowFor
<1>4. CASE Owned(rows, m) = {} /\ ~(m = "paper" /\ rows[1] = Legacy)
  <2>1. \A i \in Row : rows[i].mode # m
    BY <1>4 DEF Owned
  <2>2. rows[1] = Unused \/ rows[3] = Unused
    <3> SUFFICES ASSUME rows[3] # Unused, rows[1] # Unused PROVE FALSE
      OBVIOUS
    <3>1. rows[3].mode \in Mode /\ rows[3].mode # m
      BY <1>1, <2>1 DEF Mapped
    <3>2. rows[1].mode \notin Mode
      BY <1>1, <2>1, <3>1 DEF Mapped, Mode
    <3>3. rows[1] = Legacy
      BY <1>1, <3>2 DEF Mapped
    <3>4. rows[3].mode = "paper"
      BY <1>4, <3>1, <3>3 DEF Mode
    <3> QED
      BY <1>1, <3>3, <3>4 DEF Mapped, Owned
  <2> QED
    BY <1>1, <1>4, <2>2 DEF RowFor
<1> QED
  BY <1>2, <1>3, <1>4

\* With the rows mapped, a save can only be refused for the id it hands on.
LEMMA RefusedOnly ==
  ASSUME MaxRow >= 3, Mapped(portfolios), NEW c \in Configuration, NEW first \in Mode
  PROVE  (~ \E i, j \in Row : Saves(c, first, i, j)) <=>
           \E i \in Owned(portfolios, Other(first)) : portfolios[i].uuid = c[first]
<1> DEFINE second == Other(first)
<1>1. second \in Mode /\ second # first /\ Mode = {first, second}
  BY OtherMode
<1>2. c[first] \in Uuid /\ c[second] \in Uuid /\ c[first] # c[second]
  BY <1>1 DEF Configuration, Mode
<1>3. None \notin Uuid /\ None \notin Mode /\ "unused" \notin Mode
  BY NoneAssumption DEF Mode
<1> HIDE DEF second
\* Only a row of a mode has an id.
<1>4. \A k \in Row : portfolios[k].uuid \in Uuid => portfolios[k].mode \in Mode
  BY <1>3 DEF Mapped, Unused, Legacy
<1>5. ASSUME NEW k \in Owned(portfolios, second), portfolios[k].uuid = c[first],
             NEW i \in Row, NEW j \in Row, Saves(c, first, i, j)
      PROVE  FALSE
  <2>1. k \in Row /\ portfolios[k].mode = second
    BY DEF Owned
  <2>2. RowFor(portfolios, first, i) /\ ~Taken(portfolios, i, c[first])
    BY <1>5 DEF Saves
  <2>3. k # i
    BY <1>1, <1>3, <2>1, <2>2 DEF RowFor, Owned, Legacy, Unused
  <2> QED
    BY <1>5, <2>1, <2>2, <2>3 DEF Taken
<1>6. ASSUME \A k \in Owned(portfolios, second) : portfolios[k].uuid # c[first]
      PROVE  \E i, j \in Row : Saves(c, first, i, j)
  <2>1. PICK i \in Row : RowFor(portfolios, first, i)
    BY RowFound
  <2> DEFINE rows == Given(portfolios, i, first, c[first])
  <2>2. Mapped(rows)
    BY <1>2, <2>1, GivenMapped
  <2>3. PICK j \in Row : RowFor(rows, second, j)
    BY <1>1, <2>2, RowFound
  <2>4. /\ rows[i].mode = first /\ rows[i].uuid = c[first]
        /\ \A k \in Row \ {i} : rows[k] = portfolios[k]
    BY DEF Mapped, Given
  <2>5. \A k \in Row : portfolios[k].mode = first => k = i
    BY <2>1 DEF Mapped, RowFor, Owned
  <2>6. ~Taken(portfolios, i, c[first])
    <3> SUFFICES ASSUME NEW k \in Row \ {i}, portfolios[k].uuid = c[first] PROVE FALSE
      BY DEF Taken
    <3>1. portfolios[k].mode = second
      BY <1>1, <1>2, <1>4, <2>5
    <3> QED
      BY <1>6, <3>1 DEF Owned
  <2> HIDE DEF rows
  <2>7. ~Taken(rows, j, c[second])
    <3> SUFFICES ASSUME NEW k \in Row \ {j}, rows[k].uuid = c[second] PROVE FALSE
      BY DEF Taken
    <3>1. k # i
      BY <1>2, <2>4
    <3>2. portfolios[k].mode \in Mode /\ portfolios[k].mode # first
      BY <1>2, <1>4, <2>4, <2>5, <3>1
    <3>3. rows[k].mode = second
      BY <1>1, <2>4, <3>1, <3>2
    <3>4. rows[j].mode = second
      BY <2>3, <3>3 DEF RowFor, Owned
    <3> QED
      BY <1>1, <2>2, <3>3, <3>4 DEF Mapped
  <2>8. Saves(c, first, i, j)
    BY <2>1, <2>3, <2>6, <2>7 DEF Saves, rows, second
  <2> QED
    BY <2>8
<1> QED
  BY <1>5, <1>6 DEF second

\* The rows are mapped in every database of before, and every save keeps them so.
LEMMA MappedInit == Init => Mapped(portfolios)
<1> SUFFICES ASSUME Init PROVE Mapped(portfolios)
  OBVIOUS
<1>1. PICK old \in SUBSET (Row \cap 1..2) :
        portfolios = [i \in Row |-> IF i \in old THEN Legacy ELSE Unused]
  BY DEF Init
<1>2. \A i \in Row : portfolios[i].mode \notin Mode
  BY <1>1, NoneAssumption DEF Legacy, Unused, Mode
<1> QED
  BY <1>1, <1>2 DEF Mapped, Owned, Legacy, Unused, Mode

LEMMA MappedNext == Mapped(portfolios) /\ [Next]_vars => Mapped(portfolios)'
<1> SUFFICES ASSUME Mapped(portfolios), [Next]_vars PROVE Mapped(portfolios')
  BY DEF Mapped, Owned
<1>1. ASSUME NEW c \in Configuration, NEW first \in Mode, Save(c, first) PROVE Mapped(portfolios')
  <2>1. PICK i \in Row, j \in Row : Saves(c, first, i, j) /\ portfolios' = Written(c, first, i, j)
    BY <1>1 DEF Save
  <2> DEFINE rows == Given(portfolios, i, first, c[first])
  <2>2. /\ RowFor(portfolios, first, i) /\ RowFor(rows, Other(first), j)
        /\ portfolios' = Given(rows, j, Other(first), c[Other(first)])
    BY <2>1 DEF Saves, Written
  <2>3. Other(first) \in Mode /\ c[first] \in Uuid /\ c[Other(first)] \in Uuid
    BY OtherMode DEF Configuration
  <2>4. Mapped(rows)
    BY <2>2, <2>3, GivenMapped
  <2> HIDE DEF rows
  <2> QED
    BY <2>2, <2>3, <2>4, GivenMapped
<1>2. CASE portfolios' = portfolios
  BY <1>2
<1> QED
  BY <1>1, <1>2 DEF Next, Write, Read, SaveStarted, SaveOrder, Cycle, Tick, GetPortfolio, GetEvents,
     GetEquity, GetNewest, GetBaseline, Answer, vars

-----------------------------------------------------------------------------
\* The invariant holds of every database of before.
LEMMA InitInv == Init => IInv
<1> SUFFICES ASSUME Init PROVE IInv
  OBVIOUS
<1>1. PICK old \in SUBSET (Row \cap 1..2) :
        /\ portfolios = [i \in Row |-> IF i \in old THEN Legacy ELSE Unused]
        /\ writers = [i \in Row |-> IF i \in old THEN {"legacy"} ELSE {}]
        /\ \E e \in Equity : performance =
             [i \in Row |-> [d \in Day |-> IF i \in old /\ d = 1 THEN e ELSE None]]
  BY DEF Init
<1>2. stored = None /\ today = 1 /\ report = NoReport
  BY DEF Init
<1>3. portfolios \in [Row -> [mode : Mode \cup {None, "unused"}, uuid : Uuid \cup {None}]]
  BY <1>1 DEF Legacy, Unused
<1>4. performance \in [Row -> [Day -> Equity \cup {None}]]
  BY <1>1
<1>5. NoReport.row \in Row /\ NoReport.base \in 0..MaxDay
  BY RowsAssumption, DaysAssumption DEF NoReport, Row
<1>6. TypeOK
  BY <1>1, <1>2, <1>3, <1>4, <1>5, DaysAssumption DEF TypeOK, Day, NoReport
<1>7. \A i \in Row : portfolios[i].mode \notin Mode
  BY <1>1, NoneAssumption DEF Legacy, Unused, Mode
<1>8. HistoryKeepsMode
  BY <1>1 DEF HistoryKeepsMode, Rightful, Legacy, Unused
<1>9. OneRowEach /\ MappingMatchesState
  BY <1>2, <1>7 DEF OneRowEach, MappingMatchesState
<1>10. ReportNamed /\ IdleSawNothing /\ NewestRecorded /\ ReportOfOneMode /\ BaselineWithoutProfit
  BY <1>2 DEF NoReport, ReportNamed, IdleSawNothing, NewestRecorded, ReportOfOneMode,
     BaselineWithoutProfit
<1> QED
  BY <1>6, <1>8, <1>9, <1>10 DEF IInv

\* Every transaction and every statement keeps the invariant.
LEMMA NextInv == IInv /\ [Next]_vars => IInv'
<1> SUFFICES ASSUME IInv, [Next]_vars PROVE IInv'
  OBVIOUS
<1>1. ASSUME NEW c \in Configuration, NEW first \in Mode, Save(c, first) PROVE IInv'
  BY <1>1, SaveInv
<1>2. ASSUME NEW mode \in Mode, SaveOrder(mode) PROVE IInv'
  BY <1>2, WriteInv
<1>3. ASSUME NEW mode \in Mode, NEW equity \in Equity, Cycle(mode, equity) PROVE IInv'
  BY <1>3, WriteInv
<1>4. CASE SaveStarted
  BY <1>4 DEF SaveStarted, IInv, TypeOK, OneRowEach, HistoryKeepsMode, MappingMatchesState,
     ReportNamed, IdleSawNothing, NewestRecorded, ReportOfOneMode, BaselineWithoutProfit
<1>5. CASE Read
  BY <1>5, ReadInv
<1>6. CASE Tick
  <2>1. today' \in Day
    BY <1>6, DaysAssumption DEF Tick, IInv, TypeOK, Day
  <2> QED
    BY <1>6, <2>1 DEF Tick, IInv, TypeOK, OneRowEach, HistoryKeepsMode, MappingMatchesState,
       Owned, ReportNamed, IdleSawNothing, NewestRecorded, ReportOfOneMode, BaselineWithoutProfit
<1>7. CASE UNCHANGED vars
  BY <1>7 DEF vars, IInv, TypeOK, OneRowEach, HistoryKeepsMode, MappingMatchesState,
     Owned, ReportNamed, IdleSawNothing, NewestRecorded, ReportOfOneMode, BaselineWithoutProfit
<1> QED
  BY <1>1, <1>2, <1>3, <1>4, <1>5, <1>6, <1>7 DEF Next, Write

\* Everything below rests on this: the histories, the mapping and what a report
\* has read so far belong together in every reachable state.
THEOREM Inductive == Spec => []IInv
  BY InitInv, NextInv, PTL DEF Spec

\* The variables keep their types (runtime.py, routes.py).
THEOREM TypeCorrect == Spec => []TypeOK
<1>1. IInv => TypeOK
  BY DEF IInv
<1> QED
  BY <1>1, Inductive, PTL

\* Live and paper history never meet in one portfolio (save, save_order, cycle).
THEOREM HistoryOfOneMode == Spec => []HistoryKeepsMode
<1>1. IInv => HistoryKeepsMode
  BY DEF IInv
<1> QED
  BY <1>1, Inductive, PTL

\* The stored configuration names the portfolios the modes write to (save).
THEOREM MappingOfState == Spec => []MappingMatchesState
<1>1. IInv => MappingMatchesState
  BY DEF IInv
<1> QED
  BY <1>1, Inductive, PTL

\* An answer of the API never shows one mode's history under another's name
\* (get_portfolio and the statements after it).
THEOREM ReportsNameTheirMode == Spec => []ReportOfOneMode
<1>1. IInv => ReportOfOneMode
  BY DEF IInv
<1> QED
  BY <1>1, Inductive, PTL

\* The baseline of an answer has no profit of its own (get_snapshot).
THEOREM BaselinesAgree == Spec => []BaselineWithoutProfit
<1>1. IInv => BaselineWithoutProfit
  BY DEF IInv
<1> QED
  BY <1>1, Inductive, PTL

\* A configuration is refused exactly if the mode that is written first gets the
\* id that the other mode's row still has.  The table must have room for three rows:
\* the code's has no bound (save).
THEOREM RefusedExactlyOnHandover ==
  ASSUME MaxRow >= 3
  PROVE  Spec => []RefusedOnHandover
<1>1. Init => Mapped(portfolios)
  BY MappedInit
<1>2. Mapped(portfolios) /\ [Next]_vars => Mapped(portfolios)'
  BY MappedNext
<1>3. Mapped(portfolios) => RefusedOnHandover
  BY RefusedOnly DEF RefusedOnHandover
<1> QED
  BY <1>1, <1>2, <1>3, PTL DEF Spec

=============================================================================
