--------------------------- MODULE PortfolioHistory ---------------------------
(***************************************************************************)
(* The history of an account in PostgreSQL: the portfolio each trading     *)
(* mode writes to (Runtime.save), the executions and cycles it writes      *)
(* (Runtime.save_order, Runtime.cycle; src/control/runtime.py), what a     *)
(* database of before the control plane brings along (src/database.py),    *)
(* and the dashboard API that reads all of it in another process           *)
(* (src/routes.py).                                                        *)
(*                                                                         *)
(* A write is one transaction and the provider's writes are serialised by  *)
(* Runtime.lock, so each is one action.  A handler of the API runs several *)
(* statements, each of which sees what is committed by then (READ          *)
(* COMMITTED): one action per statement.                                   *)
(***************************************************************************)
EXTENDS Naturals, FiniteSets

CONSTANTS
  Uuid,       \* portfolio ids of the dashboard
  None,       \* no mode, no id, no equity, no configuration
  MaxRow,     \* bound: rows of the portfolio table
  MaxDay,     \* bound: days
  Equity,     \* values of an account
  Newest      \* how many rows a snapshot reports (3 in the code)

Mode  == {"paper", "live"}
Row   == 1..MaxRow
Day   == 1..MaxDay

ASSUME RowsAssumption == MaxRow \in Nat \ {0}
ASSUME DaysAssumption == MaxDay \in Nat \ {0}
ASSUME NoneAssumption == None \notin Uuid /\ None \notin Mode \cup {"unused"} /\ None \notin Equity

VARIABLES
  portfolios,  \* the mode and the dashboard's id of every row
  stored,      \* the configuration in the saved state of the account
  writers,     \* whose history each row holds: a mode's, or that of before
  performance, \* the equity of each row and day
  today,       \* datetime.utcnow().date()
  report       \* a request of the dashboard API

vars == <<portfolios, stored, writers, performance, today, report>>

-----------------------------------------------------------------------------
Unused   == [mode |-> "unused", uuid |-> None]
Legacy   == [mode |-> None, uuid |-> None]
NoReport == [pc |-> "idle", row |-> 1, mode |-> None, seen |-> {},
             newest |-> [d \in Day |-> None], base |-> 0, capital |-> None]

\* validate_configuration: both modes, with distinct portfolios.
Configuration == {c \in [Mode -> Uuid] : c["paper"] # c["live"]}

Other(mode) == CHOOSE m \in Mode : m # mode

\* Rows of before the migration have neither mode nor id (init_db).
Init ==
  /\ \E old \in SUBSET (Row \cap 1..2) :
       /\ portfolios = [i \in Row |-> IF i \in old THEN Legacy ELSE Unused]
       /\ writers = [i \in Row |-> IF i \in old THEN {"legacy"} ELSE {}]
       /\ \E e \in Equity : performance =
            [i \in Row |-> [d \in Day |-> IF i \in old /\ d = 1 THEN e ELSE None]]
  /\ stored = None
  /\ today = 1
  /\ report = NoReport

-----------------------------------------------------------------------------
(* Runtime.save                                                            *)

Owned(rows, mode) == {i \in Row : rows[i].mode = mode}

\* Mutant: the first mode to be saved gets the old history.
AdoptedByAny(rows, mode, i) ==
  \/ i \in Owned(rows, mode)
  \/ Owned(rows, mode) = {} /\ i = 1 /\ rows[i] = Legacy
  \/ Owned(rows, mode) = {} /\ rows[1] # Legacy /\ rows[i] = Unused

\* The row of a mode: its own, for paper the first row of before, or a new one.
RowFor(rows, mode, i) ==
  \/ i \in Owned(rows, mode)
  \/ Owned(rows, mode) = {} /\ mode = "paper" /\ i = 1 /\ rows[i] = Legacy
  \/ Owned(rows, mode) = {} /\ ~(mode = "paper" /\ rows[1] = Legacy) /\ rows[i] = Unused

Given(rows, i, mode, uuid) == [rows EXCEPT ![i] = [mode |-> mode, uuid |-> uuid]]

\* The unique index on dashboard_uuid refuses the row.
Taken(rows, i, uuid) == \E j \in Row \ {i} : rows[j].uuid = uuid

\* The transaction that saves configuration c, mode by mode: the first row is
\* flushed before the second is looked for.
Written(c, first, i, j) ==
  Given(Given(portfolios, i, first, c[first]), j, Other(first), c[Other(first)])

\* Mutant: the ids are compared when both rows are written.
SavesDeferred(c, first, i, j) ==
  /\ RowFor(portfolios, first, i)
  /\ RowFor(Given(portfolios, i, first, c[first]), Other(first), j)
  /\ \A m \in Mode : ~Taken(Written(c, first, i, j), IF m = first THEN i ELSE j, c[m])

Saves(c, first, i, j) ==
  LET rows == Given(portfolios, i, first, c[first]) IN
    /\ RowFor(portfolios, first, i)
    /\ ~Taken(portfolios, i, c[first])
    /\ RowFor(rows, Other(first), j)
    /\ ~Taken(rows, j, c[Other(first)])

\* Mutant: the state is committed before the rows are mapped.
SaveInTwo(c, first) ==
  /\ stored' = c
  /\ \E i, j \in Row :
       \/ Saves(c, first, i, j) /\ portfolios' = Written(c, first, i, j)
       \/ Taken(portfolios, i, c[first]) /\ UNCHANGED portfolios
  /\ UNCHANGED <<writers, performance, today, report>>

\* The state and the rows of both modes, or, when an id is taken, neither.
Save(c, first) ==
  /\ \E i, j \in Row :
       Saves(c, first, i, j) /\ portfolios' = Written(c, first, i, j)
  /\ stored' = c
  /\ UNCHANGED <<writers, performance, today, report>>

\* A provider that has just started has no configuration and maps nothing.
SaveStarted ==
  /\ stored' = None
  /\ UNCHANGED <<portfolios, writers, performance, today, report>>

-----------------------------------------------------------------------------
(* Runtime.save_order and Runtime.cycle                                    *)

\* A fill is an execution event of the mode's row; with no row the save raises.
SaveOrder(mode) ==
  \E i \in Owned(portfolios, mode) :
    /\ writers' = [writers EXCEPT ![i] = @ \cup {mode}]
    /\ UNCHANGED <<portfolios, stored, performance, today, report>>

\* Allocation and target events, and the equity of the day, first or again.
Cycle(mode, equity) ==
  \E i \in Owned(portfolios, mode) :
    /\ writers' = [writers EXCEPT ![i] = @ \cup {mode}]
    /\ performance' = [performance EXCEPT ![i][today] = equity]
    /\ UNCHANGED <<portfolios, stored, today, report>>

Tick ==
  /\ today < MaxDay
  /\ today' = today + 1
  /\ UNCHANGED <<portfolios, stored, writers, performance, report>>

-----------------------------------------------------------------------------
(* The dashboard API                                                       *)

DaysOf(i) == {d \in Day : performance[i][d] # None}

\* get_portfolio: the row that the answer names, with its mode.
GetPortfolio(i) ==
  /\ report.pc = "idle"
  /\ portfolios[i].mode # "unused"
  /\ report' = [NoReport EXCEPT !.pc = "portfolio", !.row = i, !.mode = portfolios[i].mode]
  /\ UNCHANGED <<portfolios, stored, writers, performance, today>>

\* get_execution_events, get_allocation_events: all events of the row.
GetEvents ==
  /\ report.pc = "portfolio"
  /\ report' = [report EXCEPT !.pc = "answered", !.seen = writers[report.row]]
  /\ UNCHANGED <<portfolios, stored, writers, performance, today>>

\* get_equity: all days of the row.
GetEquity ==
  /\ report.pc = "portfolio"
  /\ report' = [report EXCEPT !.pc = "answered", !.newest = performance[report.row],
                  !.seen = IF DaysOf(report.row) = {} THEN {} ELSE writers[report.row]]
  /\ UNCHANGED <<portfolios, stored, writers, performance, today>>

\* get_snapshot: the newest days; with none of them the handler answers 404.
GetNewest ==
  /\ report.pc = "portfolio"
  /\ DaysOf(report.row) # {}
  /\ report' = [report EXCEPT !.pc = "newest", !.seen = writers[report.row],
       !.newest = [d \in Day |->
         IF Cardinality({e \in DaysOf(report.row) : e > d}) < Newest
         THEN performance[report.row][d] ELSE None]]
  /\ UNCHANGED <<portfolios, stored, writers, performance, today>>

\* Mutant: the second statement refreshes what the first one read.
GetBaselineAnew ==
  /\ report.pc = "newest"
  /\ \E d \in DaysOf(report.row) :
       /\ \A e \in DaysOf(report.row) : d <= e
       /\ report' = [report EXCEPT !.pc = "profits", !.base = d,
                       !.capital = performance[report.row][d]]
  /\ UNCHANGED <<portfolios, stored, writers, performance, today>>

\* get_snapshot: the first day is the baseline of the profits.  An object that
\* the session holds keeps the values it was loaded with.
GetBaseline ==
  /\ report.pc = "newest"
  /\ \E d \in DaysOf(report.row) :
       /\ \A e \in DaysOf(report.row) : d <= e
       /\ report' = [report EXCEPT !.pc = "profits", !.base = d,
            !.capital = IF report.newest[d] # None THEN report.newest[d]
                        ELSE performance[report.row][d]]
  /\ UNCHANGED <<portfolios, stored, writers, performance, today>>

\* The answer is sent, or the request ends in an error.
Answer ==
  /\ report.pc # "idle"
  /\ report' = NoReport
  /\ UNCHANGED <<portfolios, stored, writers, performance, today>>

-----------------------------------------------------------------------------
Write ==
  \/ \E c \in Configuration, first \in Mode : Save(c, first)
  \/ SaveStarted
  \/ \E mode \in Mode : SaveOrder(mode) \/ \E equity \in Equity : Cycle(mode, equity)

Read == (\E i \in Row : GetPortfolio(i)) \/ GetEvents \/ GetEquity
        \/ GetNewest \/ GetBaseline \/ Answer

Next == Write \/ Read \/ Tick

Spec == Init /\ [][Next]_vars

-----------------------------------------------------------------------------
(* Correctness                                                             *)

\* The values every variable ranges over.
TypeOK ==
  /\ portfolios \in [Row -> [mode : Mode \cup {None, "unused"}, uuid : Uuid \cup {None}]]
  /\ stored \in Configuration \cup {None}
  /\ writers \in [Row -> SUBSET (Mode \cup {"legacy"})]
  /\ performance \in [Row -> [Day -> Equity \cup {None}]]
  /\ today \in Day
  /\ report \in [pc : {"idle", "portfolio", "newest", "profits", "answered"}, row : Row,
                 mode : Mode \cup {None}, seen : SUBSET (Mode \cup {"legacy"}),
                 newest : [Day -> Equity \cup {None}], base : 0..MaxDay,
                 capital : Equity \cup {None}]

\* Whose history a portfolio of a mode may hold: what was written before there
\* were modes was paper trading.
Rightful(mode) ==
  {w \in Mode \cup {"legacy"} : w = mode \/ (w = "legacy" /\ mode \in {"paper", None})}

\* No portfolio ever holds live and paper history, and the old history is never
\* shown as live, whatever configurations, restarts and adoptions come in which
\* order (save, save_order, cycle; "existing history stays paper").
HistoryKeepsMode ==
  \A i \in Row : writers[i] \subseteq Rightful(portfolios[i].mode)

\* The saved state and the rows agree: the portfolio of the stored
\* configuration is the one the mode's history goes to, also after a save that
\* was refused half-way (save is one transaction).
MappingMatchesState ==
  stored # None => \A m \in Mode :
    /\ Owned(portfolios, m) # {}
    /\ \A i \in Owned(portfolios, m) : portfolios[i].uuid = stored[m]

\* An answer never shows live history under a name that is not live, nor other
\* history as live, although the portfolio is read before its history and may
\* be adopted in between (get_portfolio, then the events).
ReportOfOneMode ==
  report.seen # {} =>
    IF report.mode = "live" THEN report.seen = {"live"} ELSE "live" \notin report.seen

\* In one answer the baseline is the first day and has made no profit, although
\* a cycle may replace its equity between the two statements that read it
\* (get_snapshot, the session's identity map).
BaselineWithoutProfit ==
  report.pc = "profits" => \A d \in Day : report.newest[d] # None =>
    /\ report.base <= d
    /\ d = report.base => report.newest[d] = report.capital

\* A configuration is refused exactly if the mode that is written first gets
\* the id that the other mode's row still has: the two modes can never exchange
\* their portfolios, and whether one can hand its portfolio on depends on the
\* order of the modes in the configuration (save).
RefusedOnHandover ==
  \A c \in Configuration, first \in Mode :
    (~ \E i, j \in Row : Saves(c, first, i, j)) <=>
      \E i \in Owned(portfolios, Other(first)) : portfolios[i].uuid = c[first]

=============================================================================
