--------------------------- MODULE MarketBarsProofs ---------------------------
(***************************************************************************)
(* Slices of bars are sound, for any calls, symbols, sizes and calendars:  *)
(* all bars of a slice are of one period, and that period was over and     *)
(* published, and its next session had opened where the strategy waits for *)
(* it, when the call asked.                                                *)
(***************************************************************************)
EXTENDS MarketBars, WellFoundedInduction, FunctionTheorems, FiniteSetTheorems, TLAPS

\* The parts of the inductive invariant.

\* The calendar that a call finds is right about the days up to the one it was
\* asked for, and knows every session that is still to be held.
Agrees(cal, today) ==
  /\ \A d \in Day : d <= today => cal[d] = exchange[d]
  /\ \A d \in Day : cal[d] = 0 => exchange[d] = 0
CalendarSound ==
  calendarDate # None => calendarDate <= Today(now) /\ Agrees(calendar, calendarDate)

\* A period is over and published, and a session after it has opened.
Published(p, size, time) ==
  \A d \in Sessions(exchange) :
    PeriodStart(d, size) = p => Moment(d, exchange[d]) + PublicationDelay <= time
Opened(p, size, time) ==
  \E d \in Sessions(exchange) : PeriodStart(d, size) > p /\ Moment(d, 1) <= time
Due(l) ==
  /\ Published(l.start, l.size, l.now)
  /\ l.execution = "close_to_next_open" => Opened(l.start, l.size, l.now)
CallsDue == \A c \in Call : call[c].pc = "bars" => Due(call[c])

\* A dictionary holds the bars of the one period that all who refer to it mean.
OfPeriod(i, p) == \A s \in Symbol : heap[i][s] \in {None, p}
CacheSound ==
  /\ \A z \in Size : cache[z].start # None =>
       cache[z].dict \in Dict /\ OfPeriod(cache[z].dict, cache[z].start)
  /\ \A z \in Size : cache[z].start = None => cache[z].dict = None
  /\ \A k, z \in Size : cache[k].dict = cache[z].dict /\ cache[k].dict # None => k = z
CallsSound ==
  /\ \A c \in Call : call[c].pc # "bars" => call[c].dict = None
  /\ \A c \in Call : call[c].pc = "bars" => OfPeriod(call[c].dict, call[c].start)
  /\ \A c, q \in Call :
       call[c].pc = "bars" /\ call[q].pc = "bars" /\ call[c].dict = call[q].dict =>
         call[c].start = call[q].start /\ call[c].size = call[q].size

SlicesSound == SlicesAligned /\ NoLookAhead /\ NextOpenHonoured

IInv == TypeOK /\ CalendarSound /\ CallsDue /\ CacheSound /\ CallsSound /\ SlicesSound

-----------------------------------------------------------------------------
(* Numbers.                                                                *)

\* A set of naturals has a least element.
LEMMA Least ==
  ASSUME NEW S \in SUBSET Nat, S # {}
  PROVE  \E x \in S : \A y \in S : x <= y
<1>1. IsWellFoundedOn(OpToRel(<, Nat), Nat)
  BY NatLessThanWellFounded
<1>2. PICK x \in S : \A y \in S : ~ (<<y, x>> \in OpToRel(<, Nat))
  BY <1>1, WFMin
<1>3. \A y \in S : ~(y < x)
  BY <1>2 DEF OpToRel
<1> QED
  BY <1>3

\* Max of a set of days is its last.
LEMMA MaxOf ==
  ASSUME NEW S \in SUBSET Day, S # {}
  PROVE  Max(S) \in S /\ \A d \in S : d <= Max(S)
<1> DEFINE n == Days - 1
           T == {n - x : x \in S}
<1>1. \A x \in S : x \in Nat /\ n - x \in Nat
  BY DaysAssumption DEF Day
<1>2. PICK t \in T : \A u \in T : t <= u
  <2>1. T \subseteq Nat /\ T # {}
    BY <1>1
  <2> QED
    BY <2>1, Least
<1>3. PICK x \in S : \A y \in S : x >= y
  <2>1. PICK x \in S : t = n - x
    OBVIOUS
  <2>2. \A y \in S : n - x <= n - y
    BY <1>2, <2>1
  <2>3. \A y \in S : x >= y
    BY <1>1, <2>2, DaysAssumption
  <2> QED
    BY <2>3
<1> QED
  BY <1>3 DEF Max

\* Division with remainder.
LEMMA Quotient ==
  ASSUME NEW d \in Int, NEW n \in Int, n > 0
  PROVE  d = n * (d \div n) + (d % n)
  BY Z3

LEMMA QuotientNat ==
  ASSUME NEW d \in Nat, NEW n \in Nat, n > 0
  PROVE  /\ d = n * (d \div n) + (d % n)
         /\ d \div n \in Nat /\ d % n \in Nat /\ d % n < n
  BY Quotient

\* Of two numbers the greater has no smaller quotient.
LEMMA QuotientsOrdered ==
  ASSUME NEW a \in Nat, NEW b \in Nat, NEW n \in Nat, NEW r \in Nat, NEW s \in Nat,
         r < n, s < n, n * a + r <= n * b + s
  PROVE  a <= b
  BY Z3
LEMMA MultiplesOrdered ==
  ASSUME NEW a \in Nat, NEW b \in Nat, NEW n \in Nat, a <= b
  PROVE  n * a <= n * b
  OBVIOUS

-----------------------------------------------------------------------------
(* Periods.                                                                *)

\* The start of a day's period is a day, and not after it.
LEMMA PeriodStarts ==
  ASSUME NEW d \in Day, NEW size \in Size
  PROVE  PeriodStart(d, size) \in Day /\ PeriodStart(d, size) <= d
<1>1. d \in Nat /\ size \in Nat /\ size > 0
  BY SizeAssumption DEF Day
<1>2. d = size * (d \div size) + (d % size) /\ d \div size \in Nat /\ d % size \in Nat
  BY <1>1, QuotientNat
<1>3. d % size <= d
  BY <1>1, QuotientsOrdered
<1> QED
  <2> DEFINE r == d % size
  <2>1. PeriodStart(d, size) = d - r /\ r \in Nat /\ r <= d
    BY <1>2, <1>3 DEF PeriodStart
  <2> HIDE DEF r
  <2> QED
    BY <2>1, DaysAssumption DEF Day

\* Periods follow each other like their days.
LEMMA PeriodsOrdered ==
  ASSUME NEW d \in Day, NEW e \in Day, NEW size \in Size, d <= e
  PROVE  PeriodStart(d, size) <= PeriodStart(e, size)
<1> DEFINE n == size
           a == d \div n
           b == e \div n
           r == d % n
           s == e % n
<1>1. d \in Nat /\ e \in Nat /\ n \in Nat /\ n > 0
  BY SizeAssumption DEF Day
<1>2. /\ d = n * a + r /\ a \in Nat /\ r \in Nat /\ r < n
      /\ e = n * b + s /\ b \in Nat /\ s \in Nat /\ s < n
  BY <1>1, QuotientNat
<1>3. PeriodStart(d, n) = d - r /\ PeriodStart(e, n) = e - s
  BY DEF PeriodStart
<1> HIDE DEF a, b, r, s
<1>4. a <= b
  BY <1>1, <1>2, QuotientsOrdered
<1>5. n * a <= n * b
  BY <1>1, <1>2, <1>4, MultiplesOrdered
<1>6. n * a \in Nat /\ n * b \in Nat
  BY <1>1, <1>2
<1>7. d - r = n * a /\ e - s = n * b
  BY <1>2, <1>6
<1> QED
  BY <1>3, <1>5, <1>7

\* Moments are in the order of their days, and a moment's day is the last one
\* that has begun.
LEMMA Moments ==
  ASSUME NEW d \in Nat, NEW e \in Nat, NEW i \in 0..4, NEW j \in 0..4
  PROVE  /\ Moment(d, i) \in Nat /\ Today(Moment(d, i)) = d
         /\ d < e => Moment(d, i) < Moment(e, j)
  BY DEF Moment, Today
LEMMA DayOf ==
  ASSUME NEW d \in Nat, NEW i \in 0..4, NEW t \in Nat, Moment(d, i) <= t
  PROVE  d <= Today(t)
  BY DEF Moment, Today
LEMMA TodayOrdered ==
  ASSUME NEW t \in Nat, NEW u \in Nat, t <= u
  PROVE  Today(t) \in Nat /\ Today(t) <= Today(u)
  BY DEF Today
LEMMA TodayIsDay ==
  ASSUME NEW t \in 0..(Moment(Days, 0) - 1)
  PROVE  t \in Nat /\ Today(t) \in Day
  BY DaysAssumption DEF Moment, Today, Day

\* The last session of a period that has one.
LEMMA LastSessionIs ==
  ASSUME NEW cal \in Calendar, NEW size, NEW p, \E d \in Sessions(cal) : PeriodStart(d, size) = p
  PROVE  /\ LastSession(cal, size, p) \in Sessions(cal)
         /\ PeriodStart(LastSession(cal, size, p), size) = p
         /\ \A d \in Sessions(cal) : PeriodStart(d, size) = p => d <= LastSession(cal, size, p)
<1> DEFINE S == {d \in Sessions(cal) : PeriodStart(d, size) = p}
<1>1. S \in SUBSET Day /\ S # {}
  BY DEF Sessions
<1>2. Max(S) \in S /\ \A d \in S : d <= Max(S)
  BY <1>1, MaxOf
<1> QED
  BY <1>2 DEF LastSession

\* A period is eligible when it has a session and the bar of each of them, not
\* only of the last one, is published.
LEMMA EligibleIs ==
  ASSUME NEW cal \in Calendar, NEW size \in Size, NEW time \in Nat, NEW p
  PROVE  p \in Eligible(cal, size, time) <=>
           /\ \E d \in Sessions(cal) : PeriodStart(d, size) = p
           /\ \A d \in Sessions(cal) :
                PeriodStart(d, size) = p => Moment(d, cal[d]) + PublicationDelay <= time
<1> DEFINE last == LastSession(cal, size, p)
<1>1. p \in Eligible(cal, size, time) <=>
        /\ \E d \in Sessions(cal) : PeriodStart(d, size) = p
        /\ Moment(last, cal[last]) + PublicationDelay <= time
  BY DEF Eligible
<1>2. ASSUME \E d \in Sessions(cal) : PeriodStart(d, size) = p
      PROVE  Moment(last, cal[last]) + PublicationDelay <= time <=>
               \A d \in Sessions(cal) :
                 PeriodStart(d, size) = p => Moment(d, cal[d]) + PublicationDelay <= time
  <2> HIDE DEF last
  <2>1. /\ last \in Sessions(cal) /\ PeriodStart(last, size) = p
        /\ \A d \in Sessions(cal) : PeriodStart(d, size) = p => d <= last
    BY <1>2, LastSessionIs DEF last
  <2>2. \A d \in Sessions(cal) : d \in Nat /\ cal[d] \in 0..3
    BY DEF Sessions, Day, Calendar
  <2>3. \A d \in Sessions(cal) : d <= last => Moment(d, cal[d]) <= Moment(last, cal[last])
    BY <2>1, <2>2 DEF Moment
  <2>4. \A d \in Sessions(cal) : Moment(d, cal[d]) \in Nat
    BY <2>2 DEF Moment
  <2> QED
    BY <2>1, <2>3, <2>4 DEF PublicationDelay
<1> QED
  BY <1>1, <1>2

\* An eligible period is a day.
LEMMA EligibleDays ==
  ASSUME NEW cal \in Calendar, NEW size \in Size, NEW time \in Nat
  PROVE  Eligible(cal, size, time) \subseteq Day
<1> SUFFICES ASSUME NEW p \in Eligible(cal, size, time) PROVE p \in Day
  OBVIOUS
<1>1. PICK d \in Sessions(cal) : PeriodStart(d, size) = p
  BY EligibleIs
<1> QED
  BY <1>1, PeriodStarts DEF Sessions

\* A session after a period's last one is a session of a later period.
LEMMA NextOpenIs ==
  ASSUME NEW cal \in Calendar, NEW size \in Size, NEW time \in Nat, NEW p,
         \E d \in Sessions(cal) : PeriodStart(d, size) = p
  PROVE  NextOpen(cal, size, p, time) <=>
           \E d \in Sessions(cal) : PeriodStart(d, size) > p /\ Moment(d, 1) <= time
<1> DEFINE last == LastSession(cal, size, p)
<1>1. /\ last \in Sessions(cal) /\ PeriodStart(last, size) = p
      /\ \A e \in Sessions(cal) : PeriodStart(e, size) = p => e <= last
  BY LastSessionIs
<1>2. NextOpen(cal, size, p, time) <=> \E d \in Sessions(cal) : d > last /\ Moment(d, 1) <= time
  BY DEF NextOpen
<1> HIDE DEF last
<1>3. ASSUME NEW d \in Sessions(cal) PROVE d > last <=> PeriodStart(d, size) > p
  <2>1. d \in Day /\ last \in Day /\ d \in Nat /\ last \in Nat
    BY <1>1 DEF Sessions, Day
  <2>2. PeriodStart(d, size) \in Nat /\ p \in Nat
    BY <1>1, <2>1, PeriodStarts DEF Day
  <2>3. d <= last => PeriodStart(d, size) <= p
    BY <1>1, <2>1, PeriodsOrdered
  <2>4. last <= d => p <= PeriodStart(d, size)
    BY <1>1, <2>1, PeriodsOrdered
  <2>5. PeriodStart(d, size) = p => d <= last
    BY <1>1
  <2> QED
    BY <2>1, <2>2, <2>3, <2>4, <2>5
<1> QED
  BY <1>2, <1>3

\* completed_period, for any calendar, bar size, timing and time: it returns the
\* latest of the periods whose sessions have all been published, unless the
\* strategy trades at the next open and no session of a later period has opened.
THEOREM CompletedPeriodIsTheLatest ==
  ASSUME NEW cal \in Calendar, NEW size \in Size, NEW execution \in Execution, NEW time \in Nat
  PROVE  LET result == CompletedPeriod(cal, size, execution, time)
             Over(p) == /\ \E d \in Sessions(cal) : PeriodStart(d, size) = p
                        /\ \A d \in Sessions(cal) :
                             PeriodStart(d, size) = p => Moment(d, cal[d]) + PublicationDelay <= time
         IN  /\ result \in Day \cup {None}
             /\ \A p \in Day :
                  result = p <=>
                    /\ Over(p) /\ \A q \in Day : Over(q) => q <= p
                    /\ execution = "close_to_next_open" =>
                         \E d \in Sessions(cal) : PeriodStart(d, size) > p /\ Moment(d, 1) <= time
<1> DEFINE done == Eligible(cal, size, time)
           result == CompletedPeriod(cal, size, execution, time)
           Over(p) == /\ \E d \in Sessions(cal) : PeriodStart(d, size) = p
                      /\ \A d \in Sessions(cal) :
                           PeriodStart(d, size) = p => Moment(d, cal[d]) + PublicationDelay <= time
           Later(p) == \E d \in Sessions(cal) : PeriodStart(d, size) > p /\ Moment(d, 1) <= time
<1>1. done \in SUBSET Day /\ \A p : p \in done <=> Over(p)
  BY EligibleDays, EligibleIs
<1>2. \A p \in Day : p # None
  BY NoneAssumption DEF Day
<1>3. \A p \in done : NextOpen(cal, size, p, time) <=> Later(p)
  BY <1>1, NextOpenIs
<1>4. result = IF done = {} THEN None
               ELSE IF execution = "close_to_next_open" /\ ~NextOpen(cal, size, Max(done), time) THEN None
               ELSE Max(done)
  BY DEF CompletedPeriod
<1> HIDE DEF done, result, Over, Later
<1>5. CASE done = {}
  BY <1>1, <1>2, <1>4, <1>5 DEF done, result, Over, Later
<1>6. CASE done # {}
  <2>1. Max(done) \in done /\ \A q \in done : q <= Max(done)
    BY <1>1, <1>6, MaxOf
  <2>2. \A p \in Day : Over(p) /\ (\A q \in Day : Over(q) => q <= p) <=> p = Max(done)
    <3>1. \A p \in Day : p \in Nat
      BY DEF Day
    <3>2. \A p \in Day : p \in done /\ (\A q \in done : q <= p) => p = Max(done)
      BY <1>1, <2>1, <3>1
    <3> QED
      BY <1>1, <2>1, <3>2
  <2>3. result = IF execution = "close_to_next_open" /\ ~Later(Max(done)) THEN None ELSE Max(done)
    BY <1>3, <1>4, <1>6, <2>1
  <2>4. result \in Day \cup {None}
    BY <1>1, <2>1, <2>3
  <2>5. \A p \in Day : result = p <=>
          /\ Over(p) /\ \A q \in Day : Over(q) => q <= p
          /\ execution = "close_to_next_open" => Later(p)
    BY <1>1, <1>2, <2>1, <2>2, <2>3
  <2> QED
    BY <2>4, <2>5 DEF result, Over, Later
<1> QED
  BY <1>5, <1>6

\* The same of a period that is returned, in the words of the model.
LEMMA CompletedPeriodIs ==
  ASSUME NEW cal \in Calendar, NEW size \in Size, NEW execution \in Execution, NEW time \in Nat,
         CompletedPeriod(cal, size, execution, time) # None
  PROVE  LET p == CompletedPeriod(cal, size, execution, time)
         IN  /\ p \in Day /\ p \in Eligible(cal, size, time)
             /\ \A q \in Eligible(cal, size, time) : q <= p
             /\ execution = "close_to_next_open" =>
                  \E d \in Sessions(cal) : PeriodStart(d, size) > p /\ Moment(d, 1) <= time
<1> DEFINE p == CompletedPeriod(cal, size, execution, time)
<1>1. p \in Day
  BY CompletedPeriodIsTheLatest
<1>2. \A q : q \in Eligible(cal, size, time) <=>
        /\ \E d \in Sessions(cal) : PeriodStart(d, size) = q
        /\ \A d \in Sessions(cal) :
             PeriodStart(d, size) = q => Moment(d, cal[d]) + PublicationDelay <= time
  BY EligibleIs
<1>3. Eligible(cal, size, time) \subseteq Day
  BY EligibleDays
<1> QED
  BY <1>1, <1>2, <1>3, CompletedPeriodIsTheLatest

\* What was computed from a calendar that agrees with the exchange's is due on
\* the exchange's.
LEMMA CompletedIsDue ==
  ASSUME TypeOK, NEW cal \in Calendar, NEW size \in Size, NEW execution \in Execution,
         NEW time \in 0..(Moment(Days, 0) - 1), Agrees(cal, Today(time)),
         CompletedPeriod(cal, size, execution, time) # None
  PROVE  LET p == CompletedPeriod(cal, size, execution, time)
         IN  /\ p \in Day
             /\ Published(p, size, time)
             /\ execution = "close_to_next_open" => Opened(p, size, time)
<1> DEFINE p == CompletedPeriod(cal, size, execution, time)
<1>1. /\ time \in Nat
      /\ exchange \in Calendar
  BY TodayIsDay DEF TypeOK
<1>2. /\ p \in Day /\ p \in Eligible(cal, size, time)
      /\ execution = "close_to_next_open" =>
           \E d \in Sessions(cal) : PeriodStart(d, size) > p /\ Moment(d, 1) <= time
  BY <1>1, CompletedPeriodIs
<1> HIDE DEF p
<1>3. \A d \in Day : cal[d] \in 0..3 /\ cal[d] \in 0..4 /\ d \in Nat
  BY DEF Calendar, Day
<1>4. Published(p, size, time)
  <2> SUFFICES ASSUME NEW d \in Sessions(exchange), PeriodStart(d, size) = p
               PROVE  Moment(d, exchange[d]) + PublicationDelay <= time
    BY DEF Published
  <2>1. d \in Sessions(cal) /\ d \in Day
    BY DEF Agrees, Sessions
  <2>2. Moment(d, cal[d]) + PublicationDelay <= time
    BY <1>1, <1>2, <2>1, EligibleIs
  <2>3. Moment(d, cal[d]) <= time
    BY <1>1, <1>3, <2>1, <2>2 DEF Moment, PublicationDelay
  <2>4. d <= Today(time)
    BY <1>1, <1>3, <2>1, <2>3, DayOf
  <2> QED
    BY <2>1, <2>2, <2>4 DEF Agrees
<1>5. ASSUME execution = "close_to_next_open" PROVE Opened(p, size, time)
  <2>1. PICK d \in Sessions(cal) : PeriodStart(d, size) > p /\ Moment(d, 1) <= time
    BY <1>2, <1>5
  <2>2. d <= Today(time) /\ d \in Day
    BY <1>1, <1>3, <2>1, DayOf DEF Sessions
  <2>3. d \in Sessions(exchange)
    BY <2>1, <2>2 DEF Agrees, Sessions
  <2> QED
    BY <2>1, <2>3 DEF Opened
<1> QED
  BY <1>2, <1>4, <1>5 DEF p

-----------------------------------------------------------------------------
(* Dictionaries.                                                           *)

\* A function's values are no more than its arguments.
LEMMA ValuesBounded ==
  ASSUME NEW S, IsFiniteSet(S), NEW f, f \in [S -> {f[x] : x \in S}]
  PROVE  LET T == {f[x] : x \in S}
         IN  IsFiniteSet(T) /\ Cardinality(T) \in Nat /\ Cardinality(T) <= Cardinality(S)
<1> DEFINE T == {f[x] : x \in S}
<1>1. f \in Surjection(S, T)
  BY DEF Surjection
<1> HIDE DEF T
<1> QED
  BY <1>1, FS_Surjection, FS_CardinalityType DEF T

\* A call without a dictionary leaves one for itself.
LEMMA SpareDict ==
  ASSUME NEW c \in Call, call[c].dict = None
  PROVE  \E i \in Dict : i \notin Used
<1> DEFINE n == Cardinality(Size) + Cardinality(Call)
           others == Call \ {c}
           f == [z \in Size |-> cache[z].dict]
           g == [q \in others |-> call[q].dict]
           F == {f[z] : z \in Size}
           G == {g[q] : q \in others}
<1>1. /\ Cardinality(Size) \in Nat /\ Cardinality(Call) \in Nat
      /\ IsFiniteSet(others) /\ Cardinality(others) = Cardinality(Call) - 1
  BY SizeAssumption, CallsFinite, FS_CardinalityType, FS_RemoveElement
<1>2. /\ IsFiniteSet(F) /\ Cardinality(F) \in Nat /\ Cardinality(F) <= Cardinality(Size)
      /\ IsFiniteSet(G) /\ Cardinality(G) \in Nat /\ Cardinality(G) <= Cardinality(Call) - 1
  <2>1. f \in [Size -> F] /\ g \in [others -> G]
    OBVIOUS
  <2> HIDE DEF f, g, others
  <2>2. IsFiniteSet(F) /\ Cardinality(F) \in Nat /\ Cardinality(F) <= Cardinality(Size)
    BY <2>1, ValuesBounded, SizeAssumption
  <2>3. IsFiniteSet(G) /\ Cardinality(G) \in Nat /\ Cardinality(G) <= Cardinality(others)
    BY <1>1, <2>1, ValuesBounded
  <2> QED
    BY <1>1, <2>2, <2>3
<1>3. IsFiniteSet(F \cup G) /\ Cardinality(F \cup G) <= Cardinality(F) + Cardinality(G)
  <2> HIDE DEF F, G
  <2>1. IsFiniteSet(F \cup G) /\ Cardinality(F \cup G) = Cardinality(F) + Cardinality(G) - Cardinality(F \cap G)
    BY <1>2, FS_Union
  <2>2. IsFiniteSet(F \cap G) /\ Cardinality(F \cap G) \in Nat
    BY <1>2, FS_Intersection, FS_CardinalityType
  <2> QED
    BY <1>2, <2>1, <2>2
<1>4. IsFiniteSet(Dict) /\ Cardinality(Dict) = n
  <2>1. n \in Nat /\ Dict = 1..n
    BY <1>1 DEF Dict
  <2> HIDE DEF n
  <2> QED
    BY <2>1, FS_Interval
<1>5. ASSUME Dict \subseteq F \cup G PROVE FALSE
  <2> HIDE DEF F, G
  <2>1. Cardinality(Dict) <= Cardinality(F \cup G)
    BY <1>3, <1>5, FS_Subset
  <2>2. Cardinality(F \cup G) \in Nat
    BY <1>3, FS_CardinalityType
  <2> QED
    BY <1>1, <1>2, <1>3, <1>4, <2>1, <2>2
<1>6. Used \subseteq F \cup G \cup {None}
  BY DEF Used
<1>7. None \notin Dict
  BY <1>1, NoneAssumption DEF Dict
<1> QED
  BY <1>5, <1>6, <1>7

\* The dictionary that a call takes is in the cache for its period, or new.
LEMMA DictTaken ==
  ASSUME IInv, NEW c \in Call, call[c].dict = None, NEW size \in Size, NEW start \in Day
  PROVE  LET found == Cached(size, start)
             dict  == IF found # None THEN found ELSE CHOOSE i \in Dict : i \notin Used
         IN  /\ dict \in Dict
             /\ IF found # None
                THEN cache[size].start = start /\ cache[size].dict = dict
                ELSE dict \notin Used
<1>1. CASE Cached(size, start) = None
  BY <1>1, SpareDict
<1>2. CASE Cached(size, start) # None
  <2>1. cache[size].start = start /\ Cached(size, start) = cache[size].dict
    BY <1>2 DEF Cached
  <2>2. start # None
    BY NoneAssumption DEF Day
  <2> QED
    BY <1>2, <2>1, <2>2 DEF IInv, CacheSound
<1> QED
  BY <1>1, <1>2

-----------------------------------------------------------------------------
(* The steps.                                                              *)

\* The calendar is the one of before, or the exchange's of a call's day.
CalendarMoves ==
  /\ UNCHANGED <<now, exchange>>
  /\ \/ UNCHANGED <<calendar, calendarDate>>
     \/ /\ calendar' = exchange
        /\ \E t \in 0..now : calendarDate' = Today(t)

LEMMA CalendarKept ==
  ASSUME TypeOK, CalendarSound, CalendarMoves
  PROVE  /\ CalendarSound'
         /\ calendar' \in Calendar /\ calendarDate' \in Day \cup {None}
         /\ now' \in 0..(Moment(Days, 0) - 1) /\ exchange' \in Calendar
<1>1. now \in Nat /\ now \in 0..(Moment(Days, 0) - 1)
  BY TodayIsDay DEF TypeOK
<1>2. CASE UNCHANGED <<calendar, calendarDate>>
  BY <1>2 DEF CalendarMoves, TypeOK, CalendarSound, Agrees
<1>3. ASSUME calendar' = exchange, NEW t \in 0..now, calendarDate' = Today(t)
      PROVE  CalendarSound' /\ calendar' \in Calendar /\ calendarDate' \in Day
  <2>1. t \in 0..(Moment(Days, 0) - 1) /\ t \in Nat /\ t <= now
    BY <1>1, DaysAssumption DEF Moment
  <2>2. Today(t) \in Day /\ Today(t) <= Today(now)
    BY <1>1, <2>1, TodayIsDay, TodayOrdered
  <2> QED
    BY <1>3, <2>2 DEF CalendarMoves, TypeOK, CalendarSound, Agrees
<1> QED
  BY <1>2, <1>3 DEF CalendarMoves, TypeOK

\* A step that returns no slice.
LEMMA NoSlice ==
  ASSUME returned' = None
  PROVE  SlicesSound'
  BY DEF SlicesSound, SlicesAligned, NoLookAhead, NextOpenHonoured

\* A slice of the bars of a due period is sound.
LEMMA SliceReturned ==
  ASSUME NEW l, NEW bars, NEW p, Return(l, bars), \A s \in l.symbols : bars[s] = p,
         Published(p, l.size, l.now),
         l.execution = "close_to_next_open" => Opened(p, l.size, l.now),
         exchange' = exchange
  PROVE  SlicesSound'
<1>1. /\ returned'.bars = [s \in l.symbols |-> bars[s]] /\ returned'.size = l.size
      /\ returned'.execution = l.execution /\ returned'.now = l.now
  BY DEF Return
<1>2. DOMAIN returned'.bars = l.symbols /\ \A s \in l.symbols : returned'.bars[s] = p
  BY <1>1
<1>3. SlicesAligned'
  BY <1>2 DEF SlicesAligned
<1>4. NoLookAhead'
  BY <1>1, <1>2 DEF NoLookAhead, Published, Sessions
<1>5. NextOpenHonoured'
  BY <1>1, <1>2 DEF NextOpenHonoured, Opened, Sessions
<1> QED
  BY <1>3, <1>4, <1>5 DEF SlicesSound

\* What holds of a call whatever it does.
CallTyped(l) ==
  /\ l \in Calls /\ l.now <= now /\ (l.symbols = {} <=> l.pc = "idle")
  /\ l.pc # "idle" => l.size \in Size /\ l.execution \in Execution

\* A call that has been asked for symbols.
Asked(l) ==
  /\ l \in Calls /\ l.now <= now /\ l.symbols # {}
  /\ l.size \in Size /\ l.execution \in Execution

LEMMA CallsTyped ==
  ASSUME TypeOK, NEW c \in Call
  PROVE  CallTyped(call[c]) /\ (call[c].pc # "idle" => Asked(call[c]))
  BY DEF TypeOK, CallTyped, Asked

LEMMA IdleTyped ==
  ASSUME TypeOK
  PROVE  CallTyped(Idle) /\ Idle.pc = "idle" /\ Idle.dict = None
<1>1. 0 \in 0..(Moment(Days, 0) - 1) /\ 0 <= now
  BY DaysAssumption DEF Moment, TypeOK
<1> QED
  BY <1>1 DEF CallTyped, Idle, Calls

StateSound == TypeOK /\ CalendarSound /\ CallsDue /\ CacheSound /\ CallsSound

\* A call ends, or turns to wait for the calendar.
LEMMA CallSet ==
  ASSUME IInv, NEW c \in Call, NEW l, CallTyped(l), l.pc # "bars", l.dict = None,
         call' = [call EXCEPT ![c] = l],
         begun' \in Nat, UNCHANGED <<cache, heap>>, CalendarMoves
  PROVE  StateSound'
<1>1. TypeOK /\ CalendarSound /\ CallsDue /\ CacheSound /\ CallsSound
  BY DEF IInv
<1>2. call' \in [Call -> Calls] /\ \A q \in Call : call'[q] = IF q = c THEN l ELSE call[q]
  BY <1>1 DEF TypeOK, CallTyped
<1>3. now' = now /\ exchange' = exchange
  BY DEF CalendarMoves
<1>4. /\ CalendarSound' /\ calendar' \in Calendar /\ calendarDate' \in Day \cup {None}
      /\ now' \in 0..(Moment(Days, 0) - 1) /\ exchange' \in Calendar
  BY <1>1, CalendarKept
<1>5. TypeOK'
  BY <1>1, <1>2, <1>3, <1>4 DEF TypeOK, CallTyped
<1>6. CallsDue'
  BY <1>1, <1>2, <1>3 DEF CallsDue, Due, Published, Opened, Sessions
<1>7. CacheSound'
  BY <1>1 DEF CacheSound, OfPeriod
<1>8. CallsSound'
  BY <1>1, <1>2 DEF CallsSound, OfPeriod
<1> QED
  BY <1>4, <1>5, <1>6, <1>7, <1>8 DEF StateSound

\* A call turns to wait for bars, with a cached dictionary of its period or one
\* of its own.
LEMMA BarsAsked ==
  ASSUME IInv, NEW c \in Call, call[c].dict = None, NEW l, Asked(l),
         NEW start \in Day, NEW dict \in Dict, NEW bars,
         Published(start, l.size, l.now),
         l.execution = "close_to_next_open" => Opened(start, l.size, l.now),
         \/ cache[l.size].start = start /\ cache[l.size].dict = dict /\ bars = heap[dict]
         \/ dict \notin Used /\ bars = Empty,
         heap' = [heap EXCEPT ![dict] = bars],
         call' = [call EXCEPT ![c] = [l EXCEPT !.pc = "bars", !.start = start, !.dict = dict]],
         begun' \in Nat, UNCHANGED cache, CalendarMoves
  PROVE  StateSound'
<1> DEFINE m == [l EXCEPT !.pc = "bars", !.start = start, !.dict = dict]
<1>1. TypeOK /\ CalendarSound /\ CallsDue /\ CacheSound /\ CallsSound
  BY DEF IInv
<1>2. /\ m \in Calls /\ m.pc = "bars" /\ m.start = start /\ m.dict = dict /\ m.symbols = l.symbols
      /\ m.size = l.size /\ m.execution = l.execution /\ m.now = l.now
      /\ m.size \in Size /\ m.execution \in Execution /\ m.now <= now /\ m.symbols # {}
  BY DEF Asked, Calls
<1> HIDE DEF m
<1>3. call' \in [Call -> Calls] /\ \A q \in Call : call'[q] = IF q = c THEN m ELSE call[q]
  BY <1>1, <1>2 DEF TypeOK, m
<1>4. now' = now /\ exchange' = exchange
  BY DEF CalendarMoves
<1>5. /\ CalendarSound' /\ calendar' \in Calendar /\ calendarDate' \in Day \cup {None}
      /\ now' \in 0..(Moment(Days, 0) - 1) /\ exchange' \in Calendar
  BY <1>1, CalendarKept
<1>6. bars \in [Symbol -> Day \cup {None}] /\ \A s \in Symbol : bars[s] \in {None, start}
  <2>1. CASE cache[l.size].start = start /\ cache[l.size].dict = dict /\ bars = heap[dict]
    <3>1. start # None
      BY NoneAssumption DEF Day
    <3> QED
      BY <1>1, <1>2, <2>1, <3>1 DEF CacheSound, OfPeriod, TypeOK
  <2>2. CASE bars = Empty
    BY <2>2 DEF Empty
  <2> QED
    BY <2>1, <2>2
<1>7. \A i \in Dict : heap'[i] = IF i = dict THEN bars ELSE heap[i]
  BY <1>1 DEF TypeOK
\* Whoever else refers to the dictionary means the same period.
<1>8. \A z \in Size : cache[z].dict = dict => z = l.size /\ cache[z].start = start
  BY <1>1, <1>2, NoneAssumption DEF CacheSound, Used, Dict
<1>9. \A q \in Call : call[q].pc = "bars" /\ call[q].dict = dict =>
        call[q].size = l.size /\ call[q].start = start
  BY <1>1, <1>2 DEF TypeOK, Used
<1>10. TypeOK'
  <2>1. heap' \in [Dict -> [Symbol -> Day \cup {None}]]
    BY <1>1, <1>6 DEF TypeOK
  <2>2. \A q \in Call :
          LET k == call'[q]
          IN /\ k.now <= now' /\ (k.symbols = {} <=> k.pc = "idle")
             /\ k.pc # "idle" => k.size \in Size /\ k.execution \in Execution
             /\ k.pc = "bars" =>
                  /\ k.start \in Day /\ k.dict \in Dict
                  /\ \A z \in Size : cache[z].dict = k.dict => z = k.size /\ cache[z].start = k.start
    BY <1>1, <1>2, <1>3, <1>4, <1>8 DEF TypeOK
  <2> QED
    BY <1>1, <1>3, <1>5, <2>1, <2>2 DEF TypeOK
<1>11. CallsDue'
  BY <1>1, <1>2, <1>3, <1>4 DEF CallsDue, Due, Published, Opened, Sessions
<1>12. CacheSound'
  BY <1>1, <1>6, <1>7, <1>8 DEF CacheSound, OfPeriod
<1>13. CallsSound'
  <2>1. \A q \in Call : call'[q].pc # "bars" => call'[q].dict = None
    BY <1>1, <1>2, <1>3 DEF CallsSound
  <2>2. \A q \in Call : call'[q].pc = "bars" =>
          \A s \in Symbol : heap'[call'[q].dict][s] \in {None, call'[q].start}
    BY <1>1, <1>2, <1>3, <1>6, <1>7, <1>9 DEF CallsSound, OfPeriod, TypeOK
  <2>3. \A k, q \in Call :
          call'[k].pc = "bars" /\ call'[q].pc = "bars" /\ call'[k].dict = call'[q].dict =>
            call'[k].start = call'[q].start /\ call'[k].size = call'[q].size
    BY <1>1, <1>2, <1>3, <1>9 DEF CallsSound
  <2> QED
    BY <2>1, <2>2, <2>3 DEF CallsSound, OfPeriod
<1> QED
  BY <1>5, <1>10, <1>11, <1>12, <1>13 DEF StateSound

\* From a calendar that agrees with the exchange's up to the call's day, the
\* period of the call is due, and what it returns or waits for is of it.
LEMMA ResolveKeeps ==
  ASSUME IInv, NEW c \in Call, call[c].dict = None, NEW l, Asked(l),
         NEW cal \in Calendar, Agrees(cal, Today(l.now)), Resolve(c, l, cal),
         begun' \in Nat, UNCHANGED cache, CalendarMoves
  PROVE  StateSound' /\ SlicesSound'
<1> DEFINE start == CompletedPeriod(cal, l.size, l.execution, l.now)
           found == Cached(l.size, start)
           dict  == IF found # None THEN found ELSE CHOOSE i \in Dict : i \notin Used
           bars  == IF found # None THEN heap[found] ELSE Empty
<1>1. \/ /\ start = None
         /\ Finish(c) /\ returned' = None /\ UNCHANGED heap
      \/ /\ start # None /\ \A s \in l.symbols : bars[s] # None
         /\ Return(l, bars) /\ Finish(c) /\ UNCHANGED heap
      \/ /\ start # None /\ \E s \in l.symbols : bars[s] = None
         /\ heap' = [heap EXCEPT ![dict] = bars]
         /\ call' = [call EXCEPT ![c] = [l EXCEPT !.pc = "bars", !.start = start, !.dict = dict]]
         /\ returned' = None
  BY DEF Resolve
<1>2. /\ l.size \in Size /\ l.execution \in Execution /\ l.now \in 0..(Moment(Days, 0) - 1)
      /\ l.symbols # {} /\ l.symbols \subseteq Symbol
  BY DEF Asked, Calls
<1>3. TypeOK /\ CacheSound
  BY DEF IInv
<1>4. exchange' = exchange
  BY DEF CalendarMoves
<1>5. ASSUME start # None
      PROVE  /\ start \in Day /\ Published(start, l.size, l.now)
             /\ l.execution = "close_to_next_open" => Opened(start, l.size, l.now)
  BY <1>2, <1>3, <1>5, CompletedIsDue
<1> HIDE DEF start
<1>6. ASSUME Finish(c), UNCHANGED heap PROVE StateSound'
  BY <1>3, <1>6, IdleTyped, CallSet DEF Finish
<1>7. CASE start = None /\ Finish(c) /\ returned' = None /\ UNCHANGED heap
  BY <1>6, <1>7, NoSlice
<1>8. CASE /\ start # None /\ \A s \in l.symbols : bars[s] # None
           /\ Return(l, bars) /\ Finish(c) /\ UNCHANGED heap
  <2>1. found # None
    BY <1>2, <1>8 DEF Empty
  <2>2. cache[l.size].start = start /\ found = cache[l.size].dict
    BY <2>1 DEF Cached
  <2>3. \A s \in l.symbols : bars[s] = start
    BY <1>2, <1>3, <1>8, <2>1, <2>2 DEF CacheSound, OfPeriod
  <2> HIDE DEF bars
  <2>4. SlicesSound'
    BY <1>4, <1>5, <1>8, <2>3, SliceReturned
  <2> QED
    BY <1>6, <1>8, <2>4
<1>9. CASE /\ start # None /\ \E s \in l.symbols : bars[s] = None
           /\ heap' = [heap EXCEPT ![dict] = bars]
           /\ call' = [call EXCEPT ![c] = [l EXCEPT !.pc = "bars", !.start = start, !.dict = dict]]
           /\ returned' = None
  <2>1. /\ dict \in Dict
        /\ IF found # None
           THEN cache[l.size].start = start /\ cache[l.size].dict = dict
           ELSE dict \notin Used
    BY <1>2, <1>5, <1>9, DictTaken
  <2>2. \/ cache[l.size].start = start /\ cache[l.size].dict = dict /\ bars = heap[dict]
        \/ dict \notin Used /\ bars = Empty
    BY <2>1
  <2> HIDE DEF dict, bars
  <2>3. StateSound'
    BY <1>5, <1>9, <2>1, <2>2, BarsAsked
  <2> QED
    BY <1>9, <2>3, NoSlice
<1> QED
  BY <1>1, <1>7, <1>8, <1>9

\* A call begins: today's calendar agrees with the exchange's up to today.
LEMMA BeginKeeps ==
  ASSUME IInv, NEW c \in Call, NEW symbols \in (SUBSET Symbol) \ {{}}, NEW size \in Size,
         NEW execution \in Execution, Begin(c, symbols, size, execution)
  PROVE  StateSound' /\ SlicesSound'
<1> DEFINE l == [Idle EXCEPT !.symbols = symbols, !.size = size, !.execution = execution, !.now = now]
           m == [l EXCEPT !.pc = "calendar"]
<1>1. /\ call[c].pc = "idle" /\ begun' = begun + 1
      /\ IF calendarDate # Today(now)
         THEN call' = [call EXCEPT ![c] = m] /\ returned' = None /\ UNCHANGED heap
         ELSE Resolve(c, l, calendar)
      /\ UNCHANGED <<now, exchange, calendar, calendarDate, cache>>
  BY DEF Begin
<1>2. TypeOK /\ CalendarSound /\ CallsSound
  BY DEF IInv
<1>3. begun' \in Nat /\ CalendarMoves /\ call[c].dict = None
  BY <1>1, <1>2 DEF TypeOK, CalendarMoves, CallsSound
<1>4. /\ Asked(l) /\ l.now = now
      /\ CallTyped(m) /\ m.pc # "bars" /\ m.dict = None
  <2>1. now \in Nat /\ now \in 0..(Moment(Days, 0) - 1)
    BY <1>2, TodayIsDay DEF TypeOK
  <2>2. Idle \in Calls /\ Idle.dict = None /\ Idle.pc = "idle"
    BY <1>2, IdleTyped DEF CallTyped
  <2>3. symbols \in SUBSET Symbol /\ symbols # {}
    OBVIOUS
  <2>4. /\ l \in Calls /\ l.dict = None
        /\ l.symbols = symbols /\ l.size = size /\ l.execution = execution /\ l.now = now
    BY <2>1, <2>2, <2>3 DEF Calls
  <2> HIDE DEF l
  <2>5. /\ m \in Calls /\ m.dict = None /\ m.pc = "calendar"
        /\ m.symbols = symbols /\ m.size = size /\ m.execution = execution /\ m.now = now
    BY <2>4 DEF Calls
  <2> HIDE DEF m
  <2>6. now <= now
    BY <2>1
  <2> QED
    BY <2>3, <2>4, <2>5, <2>6 DEF Asked, CallTyped
<1> HIDE DEF l, m
<1>5. CASE calendarDate # Today(now)
  BY <1>1, <1>3, <1>4, <1>5, CallSet, NoSlice
<1>6. CASE calendarDate = Today(now)
  <2>1. calendarDate # None
    BY <1>2, <1>6, TodayIsDay, NoneAssumption DEF TypeOK, Day
  <2>2. Agrees(calendar, Today(l.now)) /\ calendar \in Calendar
    BY <1>2, <1>4, <1>6, <2>1 DEF CalendarSound, TypeOK
  <2> QED
    BY <1>1, <1>3, <1>4, <1>6, <2>2, ResolveKeeps
<1> QED
  BY <1>5, <1>6

\* The calendar arrives: it is the exchange's own.
LEMMA CalendarAnswersKeeps ==
  ASSUME IInv, NEW c \in Call, CalendarAnswers(c)
  PROVE  StateSound' /\ SlicesSound'
<1>1. TypeOK /\ CallsSound
  BY DEF IInv
<1>2. /\ call[c].pc = "calendar" /\ call[c].dict = None /\ Asked(call[c])
      /\ begun' \in Nat /\ UNCHANGED <<now, exchange, cache>>
  BY <1>1, CallsTyped DEF CalendarAnswers, CallsSound, TypeOK
<1>3. CASE Sessions(exchange) = {}
  <2>1. Finish(c) /\ returned' = None /\ UNCHANGED <<calendar, calendarDate, heap>>
    BY <1>3 DEF CalendarAnswers
  <2>2. CalendarMoves
    BY <1>2, <2>1 DEF CalendarMoves
  <2> QED
    BY <1>1, <1>2, <2>1, <2>2, IdleTyped, CallSet, NoSlice DEF Finish
<1>4. CASE Sessions(exchange) # {}
  <2>1. calendar' = exchange /\ calendarDate' = Today(call[c].now) /\ Resolve(c, call[c], exchange)
    BY <1>4 DEF CalendarAnswers
  <2>2. CalendarMoves
    <3>1. call[c].now \in 0..now
      BY <1>1, <1>2 DEF Asked, Calls, TypeOK
    <3> QED
      BY <1>2, <2>1, <3>1 DEF CalendarMoves
  <2>3. exchange \in Calendar /\ Agrees(exchange, Today(call[c].now))
    BY <1>1 DEF TypeOK, Agrees
  <2> QED
    BY <1>2, <2>1, <2>2, <2>3, ResolveKeeps
<1> QED
  BY <1>3, <1>4

\* The bars arrive: the call's dictionary holds only its period, and all who
\* share the dictionary mean that period.
LEMMA BarsAnswerKeeps ==
  ASSUME IInv, NEW c \in Call, BarsAnswer(c)
  PROVE  StateSound' /\ SlicesSound'
<1> DEFINE l == call[c]
           bars == [s \in Symbol |-> IF s \in l.symbols /\ heap[l.dict][s] = None THEN l.start
                                     ELSE heap[l.dict][s]]
<1>1. TypeOK /\ CalendarSound /\ CallsDue /\ CacheSound /\ CallsSound
  BY DEF IInv
<1>2. /\ l.pc = "bars"
      /\ heap' = [heap EXCEPT ![l.dict] = bars]
      /\ cache' = [cache EXCEPT ![l.size] = [start |-> l.start, dict |-> l.dict]]
      /\ Return(l, bars) /\ Finish(c)
      /\ UNCHANGED <<begun, now, exchange, calendar, calendarDate>>
  BY DEF BarsAnswer
<1>3. /\ l.start \in Day /\ l.dict \in Dict /\ l.size \in Size /\ l.symbols \subseteq Symbol
      /\ \A z \in Size : cache[z].dict = l.dict => z = l.size /\ cache[z].start = l.start
  BY <1>1, <1>2 DEF TypeOK, Calls
<1>4. \A q \in Call : call[q].pc = "bars" /\ call[q].dict = l.dict =>
        call[q].size = l.size /\ call[q].start = l.start
  BY <1>1, <1>2 DEF CallsSound
<1>5. Due(l) /\ \A s \in Symbol : heap[l.dict][s] \in {None, l.start}
  BY <1>1, <1>2 DEF CallsDue, CallsSound, OfPeriod
<1>6. CallTyped(Idle) /\ Idle.pc = "idle" /\ Idle.dict = None
  BY <1>1, IdleTyped
<1>7. call' \in [Call -> Calls] /\ \A q \in Call : call'[q] = IF q = c THEN Idle ELSE call[q]
  BY <1>1, <1>2, <1>6 DEF TypeOK, Finish, CallTyped
<1> HIDE DEF l
<1>8. /\ bars \in [Symbol -> Day \cup {None}]
      /\ \A s \in Symbol : bars[s] \in {None, l.start}
      /\ \A s \in l.symbols : bars[s] = l.start
  BY <1>3, <1>5
<1> HIDE DEF bars
<1>9. /\ \A i \in Dict : heap'[i] = IF i = l.dict THEN bars ELSE heap[i]
      /\ heap' \in [Dict -> [Symbol -> Day \cup {None}]]
  BY <1>1, <1>2, <1>8 DEF TypeOK
<1>10. /\ cache' \in [Size -> [start : Day \cup {None}, dict : Dict \cup {None}]]
       /\ cache'[l.size].start = l.start /\ cache'[l.size].dict = l.dict
       /\ \A z \in Size : z # l.size => cache'[z] = cache[z]
  BY <1>1, <1>2, <1>3 DEF TypeOK
<1>11. l.start # None /\ l.dict # None
  <2>1. None \notin Day /\ None \notin Dict
    <3>1. Cardinality(Size) + Cardinality(Call) \in Nat
      BY SizeAssumption, CallsFinite, FS_CardinalityType
    <3> QED
      BY <3>1, NoneAssumption DEF Day, Dict
  <2> QED
    BY <1>3, <2>1
<1>12. TypeOK'
  <2>1. \A q \in Call :
          LET k == call'[q]
          IN /\ k.now <= now' /\ (k.symbols = {} <=> k.pc = "idle")
             /\ k.pc # "idle" => k.size \in Size /\ k.execution \in Execution
             /\ k.pc = "bars" => k.start \in Day /\ k.dict \in Dict
    BY <1>1, <1>2, <1>6, <1>7 DEF TypeOK, CallTyped
  <2>2. \A q \in Call : call'[q].pc = "bars" =>
          \A z \in Size : cache'[z].dict = call'[q].dict =>
            z = call'[q].size /\ cache'[z].start = call'[q].start
    BY <1>1, <1>3, <1>4, <1>6, <1>7, <1>10 DEF TypeOK
  <2> QED
    BY <1>1, <1>2, <1>7, <1>9, <1>10, <2>1, <2>2 DEF TypeOK
<1>13. CallsDue'
  BY <1>1, <1>2, <1>6, <1>7 DEF CallsDue, Due, Published, Opened, Sessions
<1>14. CacheSound'
  <2>1. \A z \in Size : cache'[z].start # None =>
          cache'[z].dict \in Dict /\ \A s \in Symbol : heap'[cache'[z].dict][s] \in {None, cache'[z].start}
    <3> SUFFICES ASSUME NEW z \in Size, cache'[z].start # None
                 PROVE  cache'[z].dict \in Dict
                        /\ \A s \in Symbol : heap'[cache'[z].dict][s] \in {None, cache'[z].start}
      OBVIOUS
    <3>1. CASE z = l.size
      BY <1>3, <1>8, <1>9, <1>10, <3>1
    <3>2. CASE z # l.size
      <4>1. cache'[z] = cache[z] /\ cache[z].dict \in Dict
            /\ \A s \in Symbol : heap[cache[z].dict][s] \in {None, cache[z].start}
        BY <1>1, <1>10, <3>2 DEF CacheSound, OfPeriod
      <4>2. cache[z].dict # l.dict
        BY <1>3, <3>2
      <4> QED
        BY <1>9, <4>1, <4>2
    <3> QED
      BY <3>1, <3>2
  <2>2. \A z \in Size : cache'[z].start = None => cache'[z].dict = None
    BY <1>1, <1>10, <1>11 DEF CacheSound
  <2>3. \A k, z \in Size : cache'[k].dict = cache'[z].dict /\ cache'[k].dict # None => k = z
    BY <1>1, <1>3, <1>10 DEF CacheSound
  <2> QED
    BY <2>1, <2>2, <2>3 DEF CacheSound, OfPeriod
<1>15. CallsSound'
  <2>1. \A q \in Call : call'[q].pc # "bars" => call'[q].dict = None
    BY <1>1, <1>6, <1>7 DEF CallsSound
  <2>2. \A q \in Call : call'[q].pc = "bars" =>
          \A s \in Symbol : heap'[call'[q].dict][s] \in {None, call'[q].start}
    BY <1>1, <1>4, <1>6, <1>7, <1>8, <1>9 DEF CallsSound, OfPeriod, TypeOK
  <2>3. \A k, q \in Call :
          call'[k].pc = "bars" /\ call'[q].pc = "bars" /\ call'[k].dict = call'[q].dict =>
            call'[k].start = call'[q].start /\ call'[k].size = call'[q].size
    BY <1>1, <1>6, <1>7 DEF CallsSound
  <2> QED
    BY <2>1, <2>2, <2>3 DEF CallsSound, OfPeriod
<1>16. CalendarSound'
  BY <1>1, <1>2 DEF CalendarSound, Agrees
<1>17. SlicesSound'
  BY <1>2, <1>5, <1>8, SliceReturned DEF Due
<1> QED
  BY <1>12, <1>13, <1>14, <1>15, <1>16, <1>17 DEF StateSound

\* A request fails, and the call is over without a slice.
LEMMA NoAnswerKeeps ==
  ASSUME IInv, NEW c \in Call, NoAnswer(c)
  PROVE  StateSound' /\ SlicesSound'
<1>1. TypeOK
  BY DEF IInv
<1>2. /\ Finish(c) /\ returned' = None /\ begun' \in Nat
      /\ UNCHANGED <<now, exchange, calendar, calendarDate, cache, heap>>
  BY <1>1 DEF NoAnswer, TypeOK
<1>3. CalendarMoves
  BY <1>2 DEF CalendarMoves
<1> QED
  BY <1>1, <1>2, <1>3, IdleTyped, CallSet, NoSlice DEF Finish

\* Time passes.
LEMMA TickKeeps ==
  ASSUME IInv, Tick
  PROVE  StateSound' /\ SlicesSound'
<1>1. TypeOK /\ CalendarSound /\ CallsDue /\ CacheSound /\ CallsSound
  BY DEF IInv
<1>2. /\ now < Moment(Days, 0) - 1 /\ now' = now + 1 /\ returned' = None
      /\ UNCHANGED <<begun, exchange, calendar, calendarDate, cache, heap, call>>
  BY DEF Tick
<1>3. now \in Nat /\ Moment(Days, 0) \in Nat /\ Today(now) \in Nat /\ Today(now') \in Nat
      /\ now' \in 0..(Moment(Days, 0) - 1) /\ Today(now) <= Today(now')
  <2>1. now \in Nat /\ Moment(Days, 0) \in Nat
    BY <1>1, TodayIsDay, DaysAssumption DEF TypeOK, Moment
  <2>2. now' \in Nat /\ now <= now' /\ now' \in 0..(Moment(Days, 0) - 1)
    BY <1>2, <2>1
  <2>3. Today(now) \in Nat /\ Today(now') \in Nat /\ Today(now) <= Today(now')
    BY <2>1, <2>2, TodayOrdered
  <2> QED
    BY <2>1, <2>2, <2>3
<1>4. TypeOK'
  <2>1. \A c \in Call : call[c].now <= now'
    <3>1. \A c \in Call : call[c].now \in 0..(Moment(Days, 0) - 1) /\ call[c].now <= now
      BY <1>1 DEF TypeOK, Calls
    <3> QED
      BY <1>2, <1>3, <3>1
  <2> QED
    BY <1>1, <1>2, <1>3, <2>1 DEF TypeOK
<1>5. CalendarSound'
  <2>1. calendarDate # None => calendarDate <= Today(now')
    <3>1. calendarDate # None => calendarDate \in Nat
      BY <1>1 DEF TypeOK, Day
    <3> QED
      BY <1>1, <1>3, <3>1 DEF CalendarSound
  <2> QED
    BY <1>1, <1>2, <2>1 DEF CalendarSound, Agrees
<1>6. CallsDue' /\ CacheSound' /\ CallsSound'
  BY <1>1, <1>2 DEF CallsDue, Due, Published, Opened, Sessions, CacheSound, CallsSound, OfPeriod
<1> QED
  BY <1>2, <1>4, <1>5, <1>6, NoSlice DEF StateSound

\* The exchange changes a later day: what was due stays due, because the sessions
\* it rests on are of days that have begun.
LEMMA AnnounceKeeps ==
  ASSUME IInv, Announce
  PROVE  StateSound' /\ SlicesSound'
<1>1. TypeOK /\ CalendarSound /\ CallsDue /\ CacheSound /\ CallsSound
  BY DEF IInv
<1>2. PICK d \in Day : d > Today(now) /\ exchange[d] # 0
        /\ \E close \in {0, 2} : exchange' = [exchange EXCEPT ![d] = close]
  BY DEF Announce
<1>3. /\ returned' = None
      /\ UNCHANGED <<begun, now, calendar, calendarDate, cache, heap, call>>
  BY DEF Announce
<1>4. exchange' \in Calendar /\ \A e \in Day : e # d => exchange'[e] = exchange[e]
  BY <1>1, <1>2 DEF TypeOK, Calendar
<1>5. now \in Nat /\ Today(now) \in Nat
  BY <1>1, TodayIsDay, TodayOrdered DEF TypeOK
<1>6. TypeOK'
  BY <1>1, <1>3, <1>4 DEF TypeOK
<1>7. CalendarSound'
  <2>1. ASSUME calendarDate # None PROVE Agrees(calendar, calendarDate)'
    <3>1. /\ calendarDate <= Today(now) /\ Agrees(calendar, calendarDate)
          /\ calendarDate \in Nat
      BY <1>1, <2>1 DEF CalendarSound, TypeOK, Day
    <3>2. \A e \in Day : e <= calendarDate => e # d
      BY <1>2, <1>5, <3>1 DEF Day
    <3> QED
      BY <1>2, <1>3, <1>4, <3>1, <3>2 DEF Agrees
  <2> QED
    BY <1>1, <1>3, <2>1 DEF CalendarSound
<1>8. CallsDue'
  <2> SUFFICES ASSUME NEW c \in Call, call[c].pc = "bars" PROVE Due(call[c])'
    BY <1>3 DEF CallsDue
  <2> DEFINE l == call[c]
  <2>1. /\ Due(l) /\ l.now \in Nat /\ l.now <= now /\ l.size \in Size
    BY <1>1, TodayIsDay DEF CallsDue, TypeOK, Calls
  <2>2. Today(l.now) <= Today(now) /\ Today(l.now) \in Nat
    BY <1>5, <2>1, TodayOrdered
  <2> HIDE DEF l
  <2>3. Published(l.start, l.size, l.now)'
    <3> SUFFICES ASSUME NEW e \in Sessions(exchange'), PeriodStart(e, l.size) = l.start
                 PROVE  Moment(e, exchange'[e]) + PublicationDelay <= l.now
      BY <1>3 DEF Published, l
    <3>1. e \in Sessions(exchange) /\ e \in Nat /\ e \in Day
      BY <1>2, <1>4 DEF Sessions, Day
    <3>2. Moment(e, exchange[e]) + PublicationDelay <= l.now
      BY <2>1, <3>1 DEF Due, Published
    <3>3. exchange[e] \in 0..4 /\ exchange[e] \in Nat
      BY <1>1, <3>1 DEF TypeOK, Calendar
    <3>4. Moment(e, exchange[e]) <= l.now
      BY <2>1, <3>1, <3>2, <3>3 DEF Moment, PublicationDelay
    <3>5. e <= Today(l.now)
      BY <2>1, <3>1, <3>3, <3>4, DayOf
    <3>6. e # d
      BY <1>2, <1>5, <2>2, <3>1, <3>5 DEF Day
    <3> QED
      BY <1>4, <3>1, <3>2, <3>6
  <2>4. ASSUME l.execution = "close_to_next_open" PROVE Opened(l.start, l.size, l.now)'
    <3>1. PICK e \in Sessions(exchange) : PeriodStart(e, l.size) > l.start /\ Moment(e, 1) <= l.now
      BY <2>1, <2>4 DEF Due, Opened
    <3>2. e \in Day /\ e \in Nat
      BY DEF Sessions, Day
    <3>3. e <= Today(l.now)
      BY <2>1, <3>1, <3>2, DayOf
    <3>4. e # d
      BY <1>2, <1>5, <2>2, <3>2, <3>3 DEF Day
    <3>5. e \in Sessions(exchange')
      BY <1>4, <3>2, <3>4 DEF Sessions
    <3> QED
      BY <1>3, <3>1, <3>5 DEF Opened, l
  <2> QED
    BY <1>3, <2>3, <2>4 DEF Due, l
<1>9. CacheSound' /\ CallsSound'
  BY <1>1, <1>3 DEF CacheSound, CallsSound, OfPeriod
<1> QED
  BY <1>3, <1>6, <1>7, <1>8, <1>9, NoSlice DEF StateSound

-----------------------------------------------------------------------------
(* The theorems.                                                           *)

LEMMA InitSound ==
  ASSUME Init
  PROVE  IInv
<1>1. 0 \in 0..(Moment(Days, 0) - 1) /\ 0 <= now
  BY DaysAssumption DEF Moment, Init
<1>2. [d \in Day |-> 0] \in Calendar /\ exchange \in Calendar
  BY DEF Init, Calendar
<1>3. Idle \in Calls /\ Idle.pc = "idle" /\ Idle.dict = None /\ Idle.symbols = {} /\ Idle.now = 0
  BY <1>1 DEF Idle, Calls
<1>4. \A c \in Call : call[c] = Idle
  BY DEF Init
<1>5. TypeOK
  <2>1. call \in [Call -> Calls] /\ heap \in [Dict -> [Symbol -> Day \cup {None}]]
    BY <1>3 DEF Init, Empty
  <2>2. cache \in [Size -> [start : Day \cup {None}, dict : Dict \cup {None}]]
    BY DEF Init
  <2> QED
    BY <1>1, <1>2, <1>3, <1>4, <2>1, <2>2 DEF Init, TypeOK
<1>6. CalendarSound /\ CacheSound
  BY DEF Init, CalendarSound, CacheSound
<1>7. CallsDue /\ CallsSound
  BY <1>3, <1>4 DEF CallsDue, CallsSound
<1>8. SlicesSound
  BY DEF Init, SlicesSound, SlicesAligned, NoLookAhead, NextOpenHonoured
<1> QED
  BY <1>5, <1>6, <1>7, <1>8 DEF IInv

LEMMA StepSound ==
  ASSUME IInv, [Next]_vars
  PROVE  IInv'
<1>1. CASE UNCHANGED vars
  BY <1>1 DEF vars, IInv, TypeOK, CalendarSound, Agrees, CallsDue, Due, Published, Opened, Sessions,
     CacheSound, CallsSound, OfPeriod, SlicesSound, SlicesAligned, NoLookAhead, NextOpenHonoured
<1>2. ASSUME NEW c \in Call, NEW symbols \in (SUBSET Symbol) \ {{}}, NEW size \in Size,
             NEW execution \in Execution, Begin(c, symbols, size, execution)
      PROVE  StateSound' /\ SlicesSound'
  BY <1>2, BeginKeeps
<1>3. ASSUME NEW c \in Call, CalendarAnswers(c) \/ BarsAnswer(c) \/ NoAnswer(c)
      PROVE  StateSound' /\ SlicesSound'
  BY <1>3, CalendarAnswersKeeps, BarsAnswerKeeps, NoAnswerKeeps
<1>4. CASE Tick \/ Announce
  BY <1>4, TickKeeps, AnnounceKeeps DEF StateSound, IInv
<1> QED
  BY <1>1, <1>2, <1>3, <1>4 DEF Next, StateSound, IInv

\* The inductive invariant: calendars agree with the exchange as far as calls rely
\* on them, what a call waits for is due, and a dictionary is of one period.
THEOREM MarketBarsInductive == Spec => []IInv
<1>1. Init => IInv
  BY InitSound
<1>2. IInv /\ [Next]_vars => IInv'
  BY StepSound
<1> QED
  BY <1>1, <1>2, PTL DEF Spec

\* The variables of Broker.bars and of its callers keep their types.
THEOREM BarsTypeCorrect == Spec => []TypeOK
<1>1. IInv => TypeOK
  BY DEF IInv
<1> QED
  BY <1>1, MarketBarsInductive, PTL

\* A slice never mixes two periods, however calls overlap in the cache.
THEOREM SlicesAreAligned == Spec => []SlicesAligned
<1>1. IInv => SlicesAligned
  BY DEF IInv, SlicesSound
<1> QED
  BY <1>1, MarketBarsInductive, PTL

\* A slice never has a bar of a period that was not over and published, on the
\* exchange's calendar as it is when the slice is returned.
THEOREM SlicesDoNotLookAhead == Spec => []NoLookAhead
<1>1. IInv => NoLookAhead
  BY DEF IInv, SlicesSound
<1> QED
  BY <1>1, MarketBarsInductive, PTL

\* A strategy that trades at the next open gets a slice only once that open is past.
THEOREM SlicesAwaitTheOpen == Spec => []NextOpenHonoured
<1>1. IInv => NextOpenHonoured
  BY DEF IInv, SlicesSound
<1> QED
  BY <1>1, MarketBarsInductive, PTL

\* What is eligible stays so as time goes on and later days change.
LEMMA EligibleGrows ==
  ASSUME TypeOK, Tick \/ Announce, NEW size \in Size
  PROVE  /\ Eligible(exchange, size, now) \subseteq Eligible(exchange', size, now')
         /\ exchange' \in Calendar /\ now' \in Nat
<1>1. /\ now \in Nat /\ Today(now) \in Nat /\ exchange \in Calendar
  BY TodayIsDay, TodayOrdered DEF TypeOK
<1>2. /\ exchange' \in Calendar /\ now' \in Nat /\ now <= now'
      /\ \A d \in Day : d <= Today(now) => exchange'[d] = exchange[d]
      /\ \A d \in Day : exchange[d] = 0 => exchange'[d] = 0
  <2>1. CASE Tick
    BY <1>1, <2>1 DEF Tick
  <2>2. CASE Announce
    <3>1. PICK d \in Day : d > Today(now) /\ exchange[d] # 0
            /\ \E close \in {0, 2} : exchange' = [exchange EXCEPT ![d] = close]
      BY <2>2 DEF Announce
    <3>2. exchange' \in Calendar /\ \A e \in Day : e # d => exchange'[e] = exchange[e]
      BY <1>1, <3>1 DEF Calendar
    <3>3. \A e \in Day : e <= Today(now) => e # d
      BY <1>1, <3>1 DEF Day
    <3>4. now' = now
      BY <2>2 DEF Announce
    <3> QED
      BY <1>1, <3>1, <3>2, <3>3, <3>4
  <2> QED
    BY <2>1, <2>2
<1>3. ASSUME NEW p \in Eligible(exchange, size, now) PROVE p \in Eligible(exchange', size, now')
  <2>1. /\ \E d \in Sessions(exchange) : PeriodStart(d, size) = p
        /\ \A d \in Sessions(exchange) :
             PeriodStart(d, size) = p => Moment(d, exchange[d]) + PublicationDelay <= now
    BY <1>1, <1>3, EligibleIs
  <2>2. ASSUME NEW d \in Sessions(exchange), PeriodStart(d, size) = p
        PROVE  exchange'[d] = exchange[d] /\ d \in Sessions(exchange')
               /\ Moment(d, exchange[d]) + PublicationDelay <= now'
    <3>1. d \in Day /\ d \in Nat /\ exchange[d] \in 0..4 /\ exchange[d] \in Nat
      BY <1>1 DEF Sessions, Day, Calendar
    <3>2. Moment(d, exchange[d]) + PublicationDelay <= now
      BY <2>1, <2>2
    <3>3. Moment(d, exchange[d]) <= now /\ Moment(d, exchange[d]) + PublicationDelay <= now'
      BY <1>1, <1>2, <3>1, <3>2 DEF Moment, PublicationDelay
    <3>4. d <= Today(now)
      BY <1>1, <3>1, <3>3, DayOf
    <3>5. exchange'[d] = exchange[d]
      BY <1>2, <3>1, <3>4
    <3> QED
      BY <3>1, <3>3, <3>5 DEF Sessions
  <2>3. \A d \in Sessions(exchange') : d \in Sessions(exchange)
    BY <1>2 DEF Sessions
  <2>4. /\ \E d \in Sessions(exchange') : PeriodStart(d, size) = p
        /\ \A d \in Sessions(exchange') :
             PeriodStart(d, size) = p => Moment(d, exchange'[d]) + PublicationDelay <= now'
    BY <2>1, <2>2, <2>3
  <2> QED
    BY <1>2, <2>4, EligibleIs
<1> QED
  BY <1>2, <1>3

\* The latest complete period never falls back while time passes or the exchange
\* changes later days, whatever the execution timings compared: it is withheld at
\* most.  The cache keeps one period per size and relies on it.
THEOREM CompletedPeriodAdvances == Spec => PeriodsAdvance
<1>1. ASSUME TypeOK, [Next]_vars, <<now', exchange'>> # <<now, exchange>>
      PROVE  \A z \in Size, e, f \in Execution :
               LET before == CompletedPeriod(exchange, z, e, now)
                   after  == CompletedPeriod(exchange', z, f, now')
               IN before # None /\ after # None => before <= after
  <2>1. Tick \/ Announce
    BY <1>1 DEF Next, vars, Begin, CalendarAnswers, BarsAnswer, NoAnswer
  <2> SUFFICES ASSUME NEW z \in Size, NEW e \in Execution, NEW f \in Execution,
                      CompletedPeriod(exchange, z, e, now) # None,
                      CompletedPeriod(exchange', z, f, now') # None
               PROVE  CompletedPeriod(exchange, z, e, now) <= CompletedPeriod(exchange', z, f, now')
    OBVIOUS
  <2>2. now \in Nat /\ exchange \in Calendar
    BY <1>1, TodayIsDay DEF TypeOK
  <2>3. /\ Eligible(exchange, z, now) \subseteq Eligible(exchange', z, now')
        /\ exchange' \in Calendar /\ now' \in Nat
    BY <1>1, <2>1, EligibleGrows
  <2>4. CompletedPeriod(exchange, z, e, now) \in Eligible(exchange, z, now)
    BY <2>2, CompletedPeriodIs
  <2>5. \A q \in Eligible(exchange', z, now') : q <= CompletedPeriod(exchange', z, f, now')
    BY <2>3, CompletedPeriodIs
  <2> QED
    BY <2>3, <2>4, <2>5
<1>2. TypeOK /\ [Next]_vars =>
        [<<now', exchange'>> # <<now, exchange>> =>
           \A z \in Size, e, f \in Execution :
             LET before == CompletedPeriod(exchange, z, e, now)
                 after  == CompletedPeriod(exchange', z, f, now')
             IN before # None /\ after # None => before <= after]_vars
  BY <1>1
<1> QED
  BY <1>2, BarsTypeCorrect, PTL DEF Spec, PeriodsAdvance
=============================================================================
