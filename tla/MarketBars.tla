----------------------------- MODULE MarketBars -----------------------------
(***************************************************************************)
(* Completed bars (src/control/cadence.py and Broker.bars of               *)
(* src/control/transport.py): which period of days is complete at a        *)
(* moment, and the cache of the bars of the last period that overlapping   *)
(* calls of one broker share.                                              *)
(*                                                                         *)
(* A day has five moments: before the open (0), the open (1), the early    *)
(* close (2), the full close (3) and a minute after it (4).  A bar is the  *)
(* period it is of; a period of size n is n days long.  The dictionaries   *)
(* of the cache are objects that calls hold on to while they await.        *)
(***************************************************************************)
EXTENDS Naturals, FiniteSets, FiniteSetsExt

CONSTANTS
  Call,     \* overlapping calls of Broker.bars
  Symbol,   \* the symbols of the strategies
  Size,     \* bar sizes, in days
  Execution,\* of the execution timings
  None,     \* no period
  Days,     \* bound: days
  MaxCalls  \* bound: calls that begin

ASSUME SizeAssumption == Size \subseteq Nat \ {0} /\ IsFiniteSet(Size)
ASSUME CallsFinite == IsFiniteSet(Call)
ASSUME ExecutionAssumption == Execution \subseteq {"close_to_close", "close_to_next_open"}
ASSUME DaysAssumption == Days \in Nat \ {0}
ASSUME NoneAssumption == None \notin Nat

Day == 0..(Days - 1)
\* The close of a day without a session is 0.
Calendar == [Day -> {0, 2, 3}]
\* One dictionary for each size in the cache and each call.
Dict == 1..(Cardinality(Size) + Cardinality(Call))

VARIABLES
  begun,         \* calls that have begun
  now,           \* datetime.now
  exchange,      \* the exchange's calendar
  calendar,      \* Broker.calendar
  calendarDate,  \* Broker.calendar_date
  cache,         \* Broker.bar_cache: period and dictionary of each size
  heap,          \* what the dictionaries hold of each symbol
  call,          \* the calls with their local variables
  returned       \* history: the slice that the last step returned, if it did

vars == <<begun, now, exchange, calendar, calendarDate, cache, heap, call, returned>>

-----------------------------------------------------------------------------
Moment(day, offset) == 5 * day + offset
Today(time) == time \div 5
Sessions(cal) == {d \in Day : cal[d] # 0}
PublicationDelay == 1

\* period_start
PeriodStart(day, size) == day - (day % size)

\* The last session of the period that starts on day p
LastSession(cal, size, p) == Max({d \in Sessions(cal) : PeriodStart(d, size) = p})

\* Mutant: a period counts from its first close.
EligibleEarly(cal, size, time) ==
  {p \in {PeriodStart(d, size) : d \in Sessions(cal)} :
     \E d \in Sessions(cal) :
       PeriodStart(d, size) = p /\ Moment(d, cal[d]) + PublicationDelay <= time}

\* The periods whose last session's bar is published
Eligible(cal, size, time) ==
  {p \in {PeriodStart(d, size) : d \in Sessions(cal)} :
     LET last == LastSession(cal, size, p)
     IN Moment(last, cal[last]) + PublicationDelay <= time}

\* Mutant: the next session's day has begun.
NextDay(cal, size, p, time) ==
  \E d \in Sessions(cal) : d > LastSession(cal, size, p) /\ Moment(d, 0) <= time

\* The session after the period has opened.
NextOpen(cal, size, p, time) ==
  \E d \in Sessions(cal) : d > LastSession(cal, size, p) /\ Moment(d, 1) <= time

\* Mutant: while the next open is awaited the period before it is eligible.
CompletedPeriodBefore(cal, size, execution, time) ==
  LET done == {p \in Eligible(cal, size, time) :
                 execution = "close_to_next_open" => NextOpen(cal, size, p, time)}
  IN IF done = {} THEN None ELSE Max(done)

\* completed_period
CompletedPeriod(cal, size, execution, time) ==
  LET done == Eligible(cal, size, time)
  IN IF done = {} THEN None
     ELSE IF execution = "close_to_next_open" /\ ~NextOpen(cal, size, Max(done), time) THEN None
     ELSE Max(done)

-----------------------------------------------------------------------------
Empty == [s \in Symbol |-> None]
Idle  == [pc |-> "idle", symbols |-> {}, size |-> 0, execution |-> "close_to_close", now |-> 0,
          start |-> None, dict |-> None]

Init ==
  /\ begun = 0
  /\ now = 0
  /\ exchange \in Calendar
  /\ calendar = [d \in Day |-> 0]
  /\ calendarDate = None
  /\ cache = [z \in Size |-> [start |-> None, dict |-> None]]
  /\ heap = [i \in Dict |-> Empty]
  /\ call = [c \in Call |-> Idle]
  /\ returned = None

Finish(c) == call' = [call EXCEPT ![c] = Idle]

\* The slice that a call returns, with what it was asked for and when
Return(l, bars) ==
  returned' = [bars |-> [s \in l.symbols |-> bars[s]], size |-> l.size,
               execution |-> l.execution, now |-> l.now]

\* The dictionaries that the cache or a call refers to
Used == {cache[z].dict : z \in Size} \cup {call[c].dict : c \in Call}

\* Mutant: the cached dictionary is used whatever its period.
CachedOfAnyPeriod(size, start) == cache[size].dict

\* The cached dictionary of the period, if there is one
Cached(size, start) == IF cache[size].start = start THEN cache[size].dict ELSE None

\* From the calendar to the bars to ask for: nothing is complete, everything is
\* cached, or the missing symbols are requested.
Resolve(c, l, cal) ==
  LET start == CompletedPeriod(cal, l.size, l.execution, l.now)
      found == Cached(l.size, start)
      dict  == IF found # None THEN found ELSE CHOOSE i \in Dict : i \notin Used
      bars  == IF found # None THEN heap[found] ELSE Empty
  IN \/ /\ start = None
        /\ Finish(c)
        /\ returned' = None
        /\ UNCHANGED heap
     \/ /\ start # None /\ \A s \in l.symbols : bars[s] # None
        /\ Return(l, bars)
        /\ Finish(c)
        /\ UNCHANGED heap
     \/ /\ start # None /\ \E s \in l.symbols : bars[s] = None
        /\ heap' = [heap EXCEPT ![dict] = bars]
        /\ call' = [call EXCEPT ![c] = [l EXCEPT !.pc = "bars", !.start = start, !.dict = dict]]
        /\ returned' = None

\* A call looks at the clock, and asks for the calendar if it has another day's.
Begin(c, symbols, size, execution) ==
  LET l == [Idle EXCEPT !.symbols = symbols, !.size = size, !.execution = execution, !.now = now]
  IN /\ call[c].pc = "idle"
     /\ begun < MaxCalls /\ begun' = begun + 1
     /\ IF calendarDate # Today(now)
        THEN /\ call' = [call EXCEPT ![c] = [l EXCEPT !.pc = "calendar"]]
             /\ returned' = None
             /\ UNCHANGED heap
        ELSE Resolve(c, l, calendar)
     /\ UNCHANGED <<now, exchange, calendar, calendarDate, cache>>

\* The calendar arrives; an empty one is an error.
CalendarAnswers(c) ==
  /\ call[c].pc = "calendar"
  /\ IF Sessions(exchange) = {}
     THEN /\ Finish(c)
          /\ returned' = None
          /\ UNCHANGED <<calendar, calendarDate, heap>>
     ELSE /\ calendar' = exchange
          /\ calendarDate' = Today(call[c].now)
          /\ Resolve(c, call[c], exchange)
  /\ UNCHANGED <<begun, now, exchange, cache>>

\* All the bars asked for arrive, and join the cache.
BarsAnswer(c) ==
  LET l == call[c]
      bars == [s \in Symbol |-> IF s \in l.symbols /\ heap[l.dict][s] = None THEN l.start
                                ELSE heap[l.dict][s]]
  IN /\ l.pc = "bars"
     /\ heap' = [heap EXCEPT ![l.dict] = bars]
     /\ cache' = [cache EXCEPT ![l.size] = [start |-> l.start, dict |-> l.dict]]
     /\ Return(l, bars)
     /\ Finish(c)
     /\ UNCHANGED <<begun, now, exchange, calendar, calendarDate>>

\* A request fails, or a symbol's bar is delayed or invalid: no slice.
NoAnswer(c) ==
  /\ call[c].pc # "idle"
  /\ Finish(c)
  /\ returned' = None
  /\ UNCHANGED <<begun, now, exchange, calendar, calendarDate, cache, heap>>

\* A call is over within a moment: its requests time out after seconds.
Tick ==
  /\ now < Moment(Days, 0) - 1
  /\ \A c \in Call : call[c].pc # "idle" => call[c].now = now
  /\ now' = now + 1
  /\ returned' = None
  /\ UNCHANGED <<begun, exchange, calendar, calendarDate, cache, heap, call>>

\* The exchange announces a holiday or an early close of a later day.
Announce ==
  /\ \E d \in Day :
       /\ d > Today(now) /\ exchange[d] # 0
       /\ \E close \in {0, 2} : exchange' = [exchange EXCEPT ![d] = close]
  /\ returned' = None
  /\ UNCHANGED <<begun, now, calendar, calendarDate, cache, heap, call>>

Next ==
  \/ \E c \in Call :
       \/ \E symbols \in (SUBSET Symbol) \ {{}}, size \in Size, execution \in Execution :
            Begin(c, symbols, size, execution)
       \/ CalendarAnswers(c) \/ BarsAnswer(c) \/ NoAnswer(c)
  \/ Tick \/ Announce

Spec == Init /\ [][Next]_vars

-----------------------------------------------------------------------------
(* Properties                                                              *)

Calls ==
  [pc : {"idle", "calendar", "bars"}, symbols : SUBSET Symbol, size : Size \cup {0},
   execution : Execution \cup {"close_to_close"}, now : 0..(Moment(Days, 0) - 1),
   start : Day \cup {None}, dict : Dict \cup {None}]

\* The variables have their types, and a call that awaits bars has a dictionary
\* that no cached period but its own uses (Broker.bars).
TypeOK ==
  /\ begun \in Nat /\ now \in 0..(Moment(Days, 0) - 1)
  /\ exchange \in Calendar /\ calendar \in Calendar
  /\ calendarDate \in Day \cup {None}
  /\ cache \in [Size -> [start : Day \cup {None}, dict : Dict \cup {None}]]
  /\ heap \in [Dict -> [Symbol -> Day \cup {None}]]
  /\ call \in [Call -> Calls]
  /\ \A c \in Call :
       LET l == call[c]
       IN /\ l.now <= now /\ (l.symbols = {} <=> l.pc = "idle")
          /\ l.pc # "idle" => l.size \in Size /\ l.execution \in Execution
          /\ l.pc = "bars" =>
               /\ l.start \in Day /\ l.dict \in Dict
               /\ \A z \in Size : cache[z].dict = l.dict => z = l.size /\ cache[z].start = l.start

\* The bars of a slice are all of one period, however the calls that share the
\* cache overlap (transport.py:251).
SlicesAligned ==
  returned # None => \A s, t \in DOMAIN returned.bars : returned.bars[s] = returned.bars[t]

\* No look ahead: when a call asked, every session of a bar that it returned had
\* closed and been published, on the exchange's calendar of today.
NoLookAhead ==
  returned # None => \A s \in DOMAIN returned.bars : \A d \in Sessions(exchange) :
    PeriodStart(d, returned.size) = returned.bars[s] =>
      Moment(d, exchange[d]) + PublicationDelay <= returned.now

\* A strategy that trades at the next open gets a bar only when a session after
\* the period has opened.
NextOpenHonoured ==
  returned # None /\ returned.execution = "close_to_next_open" =>
    \A s \in DOMAIN returned.bars : \E d \in Sessions(exchange) :
      /\ PeriodStart(d, returned.size) > returned.bars[s]
      /\ Moment(d, 1) <= returned.now

\* The eligible period never falls back as time goes on, whatever the timing: it
\* may only be withheld until the next open.  The cache, which does not know the
\* timings, relies on it.
PeriodsAdvance ==
  [][<<now', exchange'>> # <<now, exchange>> =>
       \A z \in Size, e, f \in Execution :
         LET before == CompletedPeriod(exchange, z, e, now)
             after  == CompletedPeriod(exchange', z, f, now')
         IN before # None /\ after # None => before <= after]_vars

=============================================================================
