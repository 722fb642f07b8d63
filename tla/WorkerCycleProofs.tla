-------------------------- MODULE WorkerCycleProofs --------------------------
(***************************************************************************)
(* Proofs about the worker's loops, for any modes, strategies and bounds.  *)
(***************************************************************************)
EXTENDS WorkerCycle, WellFoundedInduction, TLAPS

Complete(targets) == \A i \in Index : targets[i] # None

\* The loop is past load_configuration of an open mode and before its result.
Busy == {"reading", "quoting", "history", "replaying", "evaluating", "answered"}

\* The strategies whose turn is still to come.
Ahead(l) == IF l.pc = "reading" THEN Index ELSE {i \in Index : i > l.at}

\* What the loop of mode m knows and means to do.
LoopKnows(l, m) ==
  /\ l.pc # "sleeping" =>
       /\ l.state \in PollState
       /\ l.state.version <= version
       /\ l.state.version = version => l.state.permit = opened[m]
  /\ l.pc = "reading" => l.at \in Index
  /\ l.pc = "quoting" => l.at = 0 /\ l.fresh # Nothing
  /\ l.pc \in {"history", "replaying", "evaluating", "answered"} => l.at \in Index /\ l.fresh[l.at] # None
  /\ l.pc = "history" => Lookback > 0
  /\ l.pc = "replaying" <=> l.replay # 0
  /\ l.pc = "sending" => Complete(l.targets)

LoopsKnow == \A m \in Mode : LoopKnows(loop[m], m)

PendingComplete == \A m \in Mode : pending[m] # None => Complete(pending[m])

\* One loop loads at a time, and only while there is a load left (config_lock).
LoadingAlone ==
  \A m \in Mode : loop[m].pc = "loading" =>
    /\ loaded.load < MaxLoads
    /\ \A q \in Mode : loop[q].pc = "loading" => q = m

IInv == TypeOK /\ LoopsKnow /\ LoadingAlone /\ PendingComplete /\ TargetsComplete


\* No container runs for a load that is still to come, or that the loop of its
\* mode does not work with yet.
NewLoads ==
  \A s \in Instance : container[s] # None =>
    s[1] <= loaded.load /\ (loop[s[2]].pc \in Busy => s[1] <= loop[s[2]].strategies)

\* A configuration is one of a load.
Numbered == loaded.revision # None => loaded.load > 0

\* A strategy whose turn is still to come: one of an old load has no container,
\* one of the present load has a bar later than its last.
TurnsAhead(l, m) ==
  l.pc \in Busy =>
    /\ l.strategies \in 1..loaded.load
    /\ \A i \in Ahead(l) :
         /\ l.strategies # loaded.load => container[<<l.strategies, m, i>>] = None
         /\ l.strategies = loaded.load /\ l.fresh[i] # None /\ lastBars[m][i] # None =>
              l.fresh[i] > lastBars[m][i]

\* A strategy whose turn it is: its container has seen only what is earlier than
\* what it is to be given.
TurnNow(l, m) ==
  LET seen == container[<<l.strategies, m, l.at>>]
  IN /\ l.pc = "history" => seen = None
     /\ l.pc \in {"replaying", "evaluating"} /\ seen # None => seen < l.fresh[l.at] - l.replay
     /\ l.pc = "answered" /\ seen # None => seen <= l.fresh[l.at]

\* Of the present load: the worker remembers the bars its containers have seen,
\* but for the one it is just giving.
Remembered(l, m) ==
  \A i \in Index :
    LET s == <<loaded.load, m, i>> IN
      s \in Instance /\ container[s] # None =>
        \/ lastBars[m][i] # None /\ container[s] <= lastBars[m][i]
        \/ l.pc \in {"replaying", "evaluating", "answered"} /\ l.strategies = loaded.load /\ l.at = i

\* What a loop that clears its mode has closed stays closed.
Cleared(l, m) ==
  l.pc = "clearing" =>
    \A s \in InstancesOf(loaded.load, m) \ l.closing : container[s] = None

\* What a loop that loads has closed stays closed until its turn.
ClosedByLoad(q, m) ==
  loop[q].pc = "loading" /\ loop[m].pc \in Busy /\ loop[m].strategies = loaded.load =>
    \A i \in Ahead(loop[m]) :
      <<loaded.load, m, i>> \notin loop[q].closing => container[<<loaded.load, m, i>>] = None

LoopBars(l, m) == TurnsAhead(l, m) /\ TurnNow(l, m) /\ Remembered(l, m) /\ Cleared(l, m)

BarsInv ==
  /\ Numbered
  /\ NewLoads
  /\ \A m \in Mode : LoopBars(loop[m], m)
  /\ \A q, m \in Mode : ClosedByLoad(q, m)

-----------------------------------------------------------------------------
(* The sets the loops' local variables range over.                         *)

\* Empty targets and a sleeping loop are what the loops start with.
LEMMA Locals ==
  /\ Nothing \in Targets
  /\ Nothing \in [Index -> Bars \cup {None}]
  /\ Nothing \in [Index -> ((Lookback + 1)..MaxBar) \cup {None}]
  /\ Sleeping \in Loops /\ Sleeping.pc = "sleeping"
  /\ \A m \in Mode : LoopKnows(Sleeping, m)
  <1> USE BoundsAssumption, StrategyAssumption, StrategiesAssumption
  <1>1. Nothing \in Targets /\ Nothing \in [Index -> Bars \cup {None}]
        /\ Nothing \in [Index -> ((Lookback + 1)..MaxBar) \cup {None}]
    BY DEF Nothing, Targets
  <1>2. /\ 0 \in 0..MaxLoads /\ 0 \in 0..Strategies /\ 0 \in 0..Lookback
        /\ {} \in SUBSET Instance /\ TRUE \in BOOLEAN /\ None \in PollState \cup {None}
    OBVIOUS
  <1>3. Sleeping \in Loops /\ Sleeping.pc = "sleeping" /\ Sleeping.replay = 0
    BY <1>1, <1>2 DEF Sleeping, Loops
  <1> QED
    BY <1>1, <1>3 DEF LoopKnows

\* A loop that has polled, at a place of the cycle with nothing else in hand.
LEMMA AtLoops ==
  ASSUME IInv, NEW m \in Mode, loop[m].pc # "sleeping",
         NEW pc \in {"loading", "clearing", "reading", "reporting", "sending"}
  PROVE  /\ At(m, pc) \in Loops
         /\ At(m, pc).pc = pc /\ At(m, pc).state = loop[m].state
         /\ At(m, pc).replay = 0 /\ At(m, pc).fresh = Nothing /\ At(m, pc).targets = Nothing
         /\ At(m, pc).closing = {} /\ At(m, pc).at = 0
         /\ loop[m].state \in PollState
         /\ loop[m].state.version <= version
         /\ loop[m].state.version = version => loop[m].state.permit = opened[m]
  <1>1. /\ loop[m].state \in PollState
        /\ loop[m].state.version <= version
        /\ loop[m].state.version = version => loop[m].state.permit = opened[m]
    BY DEF IInv, LoopsKnow, LoopKnows
  <1>2. Sleeping \in Loops
    BY Locals
  <1>3. At(m, pc) = [Sleeping EXCEPT !.pc = pc, !.state = loop[m].state]
    BY DEF At
  <1>4. /\ At(m, pc) \in Loops /\ At(m, pc).pc = pc /\ At(m, pc).state = loop[m].state
        /\ At(m, pc).replay = Sleeping.replay /\ At(m, pc).fresh = Sleeping.fresh
        /\ At(m, pc).targets = Sleeping.targets
        /\ At(m, pc).closing = Sleeping.closing /\ At(m, pc).at = Sleeping.at
    BY <1>1, <1>2, <1>3 DEF Loops
  <1>5. /\ Sleeping.replay = 0 /\ Sleeping.fresh = Nothing /\ Sleeping.targets = Nothing
        /\ Sleeping.closing = {} /\ Sleeping.at = 0
    BY DEF Sleeping
  <1> QED
    BY <1>1, <1>4, <1>5

\* A step of one loop, as far as the loops go.
LEMMA LoopMoves ==
  ASSUME IInv, NEW m \in Mode, NEW l \in Loops, LoopKnows(l, m), Go(m, l),
         UNCHANGED <<opened, version>>,
         l.pc = "loading" => loop[m].pc = "loading" \/ (Loading = {} /\ loaded.load < MaxLoads),
         loaded' = loaded \/ (loop[m].pc = "loading" /\ l.pc # "loading")
  PROVE  loop' \in [Mode -> Loops] /\ LoopsKnow' /\ LoadingAlone'
  <1>1. loop' \in [Mode -> Loops] /\ \A q \in Mode : loop'[q] = IF q = m THEN l ELSE loop[q]
    BY DEF IInv, TypeOK, Go
  <1>2. \A q \in Mode : LoopKnows(loop[q], q)
    BY DEF IInv, LoopsKnow
  <1>3. ASSUME NEW q \in Mode PROVE LoopKnows(loop[q], q)'
    <2>1. CASE q = m
      BY <2>1, <1>1 DEF LoopKnows
    <2>2. CASE q # m
      BY <2>2, <1>1, <1>2 DEF LoopKnows
    <2> QED
      BY <2>1, <2>2
  <1>4. LoadingAlone'
    BY <1>1 DEF IInv, LoadingAlone, Loading
  <1> QED
    BY <1>1, <1>3, <1>4 DEF LoopsKnow

\* A step of one loop that leaves the provider alone but for a gate it may close.
LEMMA LoopStep ==
  ASSUME IInv, NEW m \in Mode, NEW l \in Loops, LoopKnows(l, m), Go(m, l),
         l.pc = "loading" => loop[m].pc = "loading" \/ (Loading = {} /\ loaded.load < MaxLoads),
         loaded' = loaded \/ (loop[m].pc = "loading" /\ l.pc # "loading"),
         loaded' \in [revision : (0..MaxRevision) \cup {None}, load : 0..MaxLoads],
         container' \in [Instance -> Bars \cup {None}],
         lastBars' \in [Mode -> [Index -> Bars \cup {None}]],
         lastWeights' \in [Mode -> Targets],
         pending' \in [Mode -> Targets \cup {None}], PendingComplete',
         UNCHANGED <<opened, version, revision, bar, executed>>,
         gate' \in [Mode -> BOOLEAN]
  PROVE  IInv'
  <1>1. loop' \in [Mode -> Loops] /\ LoopsKnow' /\ LoadingAlone'
    BY LoopMoves
  <1>2. TypeOK'
    BY <1>1 DEF IInv, TypeOK, LoopsKnow, LoopKnows
  <1>3. TargetsComplete'
    BY DEF IInv, TargetsComplete
  <1> QED
    BY <1>1, <1>2, <1>3 DEF IInv

\* A step that moves one loop and leaves the shared variables alone.
LEMMA QuietStep ==
  ASSUME IInv, NEW m \in Mode, NEW l \in Loops, LoopKnows(l, m), Go(m, l),
         l.pc = "loading" => loop[m].pc = "loading" \/ (Loading = {} /\ loaded.load < MaxLoads),
         UNCHANGED <<opened, version, revision, bar, executed, strategyState, pending>>,
         gate' \in [Mode -> BOOLEAN]
  PROVE  IInv'
  <1>1. PendingComplete'
    BY DEF IInv, PendingComplete
  <1> QED
    BY <1>1, LoopStep DEF IInv, TypeOK, strategyState

\* A loop that goes to sleep knows nothing any more.
LEMMA SleepStep ==
  ASSUME IInv, NEW m \in Mode, Sleep(m),
         UNCHANGED <<opened, version, revision, bar, executed, strategyState, pending>>,
         gate' \in [Mode -> BOOLEAN]
  PROVE  IInv'
  BY Locals, QuietStep DEF Sleep

\* A loop that is to report its failure knows its context.
LEMMA ReportLoop ==
  ASSUME IInv, NEW m \in Mode, loop[m].pc # "sleeping"
  PROVE  /\ At(m, "reporting") \in Loops /\ LoopKnows(At(m, "reporting"), m)
         /\ At(m, "reporting").pc = "reporting"
  BY AtLoops DEF LoopKnows

\* So an exception leads to a loop as it should be.
LEMMA RaiseLoop ==
  ASSUME IInv, NEW m \in Mode, loop[m].pc # "sleeping", Raise(m)
  PROVE  \E l \in Loops : LoopKnows(l, m) /\ Go(m, l) /\ l.pc \in {"reporting", "sleeping"}
  BY Locals, ReportLoop DEF Raise, Report, Sleep

\* And load_configuration to one that closes its containers or reads bars.
LEMMA LoadedLoop ==
  ASSUME IInv, NEW m \in Mode, loop[m].pc # "sleeping", NEW load \in 0..MaxLoads
  PROVE  /\ Loaded(m, load) \in Loops /\ LoopKnows(Loaded(m, load), m)
         /\ \/ /\ Loaded(m, load).pc = "clearing"
               /\ Loaded(m, load).closing = InstancesOf(load, m)
            \/ /\ Loaded(m, load).pc = "reading" /\ Loaded(m, load).strategies = load
               /\ Loaded(m, load).fresh = Nothing
  <1>1. CASE loop[m].state.open
    <2>1. Loaded(m, load) = [At(m, "reading") EXCEPT !.strategies = load, !.at = 1]
      BY <1>1 DEF Loaded
    <2>2. 1 \in Index /\ 1 \in 0..Strategies
      BY StrategiesAssumption DEF Index
    <2> DEFINE r == At(m, "reading")
    <2>3. r \in Loops /\ r.pc = "reading" /\ r.state = loop[m].state /\ r.replay = 0 /\ r.fresh = Nothing
      BY AtLoops
    <2> HIDE DEF r
    <2>4. /\ Loaded(m, load) \in Loops /\ Loaded(m, load).pc = "reading" /\ Loaded(m, load).at = 1
          /\ Loaded(m, load).strategies = load /\ Loaded(m, load).fresh = Nothing
          /\ Loaded(m, load).state = loop[m].state /\ Loaded(m, load).replay = 0
      <3>1. Loaded(m, load) = [r EXCEPT !.strategies = load, !.at = 1]
        BY <2>1 DEF r
      <3> QED
        BY <2>2, <2>3, <3>1 DEF Loops
    <2> QED
      BY <2>2, <2>4, AtLoops DEF LoopKnows
  <1>2. CASE ~loop[m].state.open
    <2>1. Loaded(m, load) = [At(m, "clearing") EXCEPT !.closing = InstancesOf(load, m)]
      BY <1>2 DEF Loaded
    <2>2. InstancesOf(load, m) \in SUBSET Instance
      BY DEF InstancesOf
    <2>3. /\ Loaded(m, load) \in Loops /\ Loaded(m, load).pc = "clearing"
          /\ Loaded(m, load).closing = InstancesOf(load, m)
          /\ Loaded(m, load).state = loop[m].state /\ Loaded(m, load).replay = 0
      BY <2>1, <2>2, AtLoops DEF Loops
    <2> QED
      BY <2>3, AtLoops DEF LoopKnows
  <1> QED
    BY <1>1, <1>2

-----------------------------------------------------------------------------
(* The state and the configuration                                         *)

LEMMA InitInv == Init => IInv
  <1> SUFFICES ASSUME Init PROVE IInv
    OBVIOUS
  <1> USE BoundsAssumption, StrategyAssumption
  <1>1. loop \in [Mode -> Loops] /\ LoopsKnow
    BY Locals DEF Init, LoopsKnow
  <1>2. lastBars \in [Mode -> [Index -> Bars \cup {None}]] /\ lastWeights \in [Mode -> Targets]
    BY Locals DEF Init
  <1>3. bar \in (Lookback + 1)..MaxBar
    BY DEF Init
  <1>4. TypeOK
    BY <1>1, <1>2, <1>3 DEF Init, TypeOK, LoopsKnow, LoopKnows
  <1>5. LoadingAlone /\ PendingComplete /\ TargetsComplete
    BY Locals DEF Init, LoadingAlone, PendingComplete, TargetsComplete
  <1> QED
    BY <1>1, <1>4, <1>5 DEF IInv

\* A poll knows the present permission.
LEMMA PollInv ==
  ASSUME IInv, NEW m \in Mode, Poll(m)
  PROVE  IInv'
  <1> DEFINE l == [Sleeping EXCEPT !.pc = "polled", !.state = State(m)]
  <1>1. State(m) \in PollState /\ State(m).version = version /\ State(m).permit = opened[m]
    BY DEF State, PollState, IInv, TypeOK
  <1>2. l \in Loops /\ l.pc = "polled" /\ l.state = State(m) /\ l.replay = Sleeping.replay
    BY <1>1, Locals DEF Loops
  <1>3. version \in Nat /\ Sleeping.replay = 0
    BY BoundsAssumption DEF IInv, TypeOK, Sleeping
  <1>4. LoopKnows(l, m)
    BY <1>1, <1>2, <1>3 DEF LoopKnows
  <1>5. Go(m, l) /\ UNCHANGED <<gate, opened, version, revision, bar, executed, strategyState, pending>>
    BY DEF Poll, providerState
  <1> HIDE DEF l
  <1> QED
    BY <1>2, <1>4, <1>5, QuietStep DEF IInv, TypeOK

LEMMA LoadStartInv ==
  ASSUME IInv, NEW m \in Mode, LoadStart(m)
  PROVE  IInv'
  <1> DEFINE l == [At(m, "loading") EXCEPT !.closing = {s \in Instance : s[1] = loaded.load}]
  <1>1. loop[m].pc = "polled" /\ Loading = {} /\ loaded.load < MaxLoads /\ Go(m, l)
        /\ UNCHANGED <<gate, opened, version, revision, bar, executed, strategyState, pending>>
    BY DEF LoadStart, providerState
  <1>2. l \in Loops /\ l.pc = "loading" /\ l.state = loop[m].state /\ l.replay = 0
    BY <1>1, AtLoops DEF Loops
  <1>3. LoopKnows(l, m)
    BY <1>1, <1>2, AtLoops DEF LoopKnows
  <1> HIDE DEF l
  <1> QED
    BY <1>1, <1>2, <1>3, QuietStep DEF IInv, TypeOK

\* Closing a container of the old strategies, or of a closed mode.
LEMMA CloseStrategyInv ==
  ASSUME IInv, NEW m \in Mode, CloseStrategy(m)
  PROVE  IInv'
  <1>1. PICK s \in Closes(m) :
          /\ container' = [container EXCEPT ![s] = None]
          /\ Go(m, [loop[m] EXCEPT !.closing = @ \ {s}])
    BY DEF CloseStrategy
  <1> DEFINE l == [loop[m] EXCEPT !.closing = @ \ {s}]
  <1>2. loop[m] \in Loops /\ LoopKnows(loop[m], m) /\ loop[m].pc \in {"loading", "clearing"}
    BY DEF CloseStrategy, IInv, TypeOK, LoopsKnow
  <1>3. l \in Loops /\ l.pc = loop[m].pc /\ l.state = loop[m].state /\ l.replay = loop[m].replay
    BY <1>2 DEF Loops
  <1>4. LoopKnows(l, m)
    BY <1>2, <1>3 DEF LoopKnows
  <1>5. UNCHANGED <<gate, opened, version, revision, bar, executed, loaded, lastBars, lastWeights, pending>>
    BY DEF CloseStrategy, providerState
  <1>6. container' \in [Instance -> Bars \cup {None}] /\ PendingComplete' /\ Go(m, l)
    BY <1>1, <1>5 DEF IInv, TypeOK, PendingComplete
  <1> HIDE DEF l
  <1> QED
    BY <1>3, <1>4, <1>5, <1>6, LoopStep DEF IInv, TypeOK

LEMMA CloseFailsInv ==
  ASSUME IInv, NEW m \in Mode, CloseFails(m)
  PROVE  IInv'
  <1>1. loop[m].pc # "sleeping" /\ Raise(m)
        /\ UNCHANGED <<gate, opened, version, revision, bar, executed, loaded, lastBars, lastWeights, pending>>
    BY DEF CloseFails, providerState
  <1>2. container' \in [Instance -> Bars \cup {None}] /\ PendingComplete'
    BY <1>1 DEF CloseFails, IInv, TypeOK, PendingComplete
  <1>3. PICK l \in Loops : LoopKnows(l, m) /\ Go(m, l) /\ l.pc \in {"reporting", "sleeping"}
    BY <1>1, RaiseLoop
  <1> QED
    BY <1>1, <1>2, <1>3, LoopStep DEF IInv, TypeOK

LEMMA LoadFailsInv ==
  ASSUME IInv, NEW m \in Mode, LoadFails(m)
  PROVE  IInv'
  <1>1. loop[m].pc # "sleeping" /\ Raise(m)
        /\ UNCHANGED <<gate, opened, version, revision, bar, executed, strategyState, pending>>
    BY DEF LoadFails, providerState
  <1>2. PICK l \in Loops : LoopKnows(l, m) /\ Go(m, l) /\ l.pc \in {"reporting", "sleeping"}
    BY <1>1, RaiseLoop
  <1> QED
    BY <1>1, <1>2, QuietStep DEF IInv, TypeOK

\* A load is finished: nothing is pending any more.
LEMMA LoadFinishInv ==
  ASSUME IInv, NEW m \in Mode, LoadFinish(m)
  PROVE  IInv'
  <1> DEFINE l == Loaded(m, loaded.load + 1)
  <1>1. loop[m].pc = "loading" /\ Go(m, l) /\ loaded.load \in 0..MaxLoads /\ loaded.load < MaxLoads
        /\ UNCHANGED <<gate, opened, version, revision, bar, executed, container>>
    BY DEF LoadFinish, IInv, TypeOK, LoadingAlone, providerState
  <1>2. loaded.load + 1 \in 0..MaxLoads
    BY <1>1, BoundsAssumption
  <1>3. l \in Loops /\ LoopKnows(l, m) /\ l.pc # "loading"
    BY <1>1, <1>2, LoadedLoop
  <1>4. loaded' \in [revision : (0..MaxRevision) \cup {None}, load : 0..MaxLoads]
    BY <1>1, <1>2, AtLoops DEF LoadFinish, PollState
  <1>5. /\ lastBars' \in [Mode -> [Index -> Bars \cup {None}]]
        /\ lastWeights' \in [Mode -> Targets]
        /\ pending' \in [Mode -> Targets \cup {None}] /\ PendingComplete'
    BY Locals DEF LoadFinish, PendingComplete
  <1> HIDE DEF l
  <1> QED
    BY <1>1, <1>3, <1>4, <1>5, LoopStep DEF IInv, TypeOK

LEMMA AlreadyLoadedInv ==
  ASSUME IInv, NEW m \in Mode, AlreadyLoaded(m)
  PROVE  IInv'
  <1>1. loop[m].pc = "polled" /\ loaded.load \in 0..MaxLoads /\ Go(m, Loaded(m, loaded.load))
        /\ UNCHANGED <<gate, opened, version, revision, bar, executed, strategyState, pending>>
    BY DEF AlreadyLoaded, IInv, TypeOK, providerState
  <1>2. /\ Loaded(m, loaded.load) \in Loops /\ LoopKnows(Loaded(m, loaded.load), m)
        /\ Loaded(m, loaded.load).pc # "loading"
    BY <1>1, LoadedLoop
  <1> QED
    BY <1>1, <1>2, QuietStep DEF IInv, TypeOK

\* A closed mode forgets what it knew.
LEMMA ForgetInv ==
  ASSUME IInv, NEW m \in Mode, Forget(m)
  PROVE  IInv'
  <1>1. UNCHANGED <<gate, opened, version, revision, bar, executed, loaded, container>> /\ Go(m, Sleeping)
    BY DEF Forget, providerState, Sleep
  <1>2. /\ lastBars' \in [Mode -> [Index -> Bars \cup {None}]]
        /\ lastWeights' \in [Mode -> Targets]
    BY Locals DEF Forget, IInv, TypeOK
  <1>3. pending' \in [Mode -> Targets \cup {None}] /\ PendingComplete'
    BY DEF Forget, IInv, TypeOK, PendingComplete
  <1> QED
    BY <1>1, <1>2, <1>3, Locals, LoopStep DEF IInv, TypeOK

\* What is sent again is complete, as it was the first time.
LEMMA ResendInv ==
  ASSUME IInv, NEW m \in Mode, Resend(m)
  PROVE  IInv'
  <1> DEFINE l == [At(m, "sending") EXCEPT !.targets = pending[m]]
  <1>1. loop[m].pc = "polled" /\ pending[m] \in Targets /\ Complete(pending[m]) /\ Go(m, l)
        /\ UNCHANGED <<gate, opened, version, revision, bar, executed, strategyState, pending>>
    BY DEF Resend, Resends, IInv, TypeOK, PendingComplete, providerState
  <1>2. l \in Loops /\ l.pc = "sending" /\ l.state = loop[m].state /\ l.targets = pending[m]
        /\ l.replay = 0
    BY <1>1, AtLoops DEF Loops
  <1>3. LoopKnows(l, m)
    BY <1>1, <1>2, AtLoops DEF LoopKnows
  <1> HIDE DEF l
  <1> QED
    BY <1>1, <1>2, <1>3, QuietStep DEF IInv, TypeOK

-----------------------------------------------------------------------------
(* The evaluation                                                          *)

\* The least element of a set of naturals.
LEMMA FirstIs ==
  ASSUME NEW S \in SUBSET Index, S # {}
  PROVE  First(S) \in S /\ \A j \in S : First(S) <= j
  <1>1. IsWellFoundedOn(OpToRel(<, Nat), Nat)
    BY NatLessThanWellFounded
  <1>2. S \subseteq Nat
    BY StrategiesAssumption DEF Index
  <1>3. PICK x \in S : \A y \in S : ~ (<<y, x>> \in OpToRel(<, Nat))
    BY <1>1, <1>2, WFMin
  <1>4. \A y \in S : ~(y < x)
    BY <1>2, <1>3 DEF OpToRel
  <1>5. \A y \in S : x <= y
    BY <1>2, <1>4
  <1> QED
    BY <1>5 DEF First

\* The weights that are carried along (last_weights) are targets.
LEMMA CarriedTargets ==
  ASSUME NEW l \in Loops, NEW weights \in Targets
  PROVE  Carried(l, weights) \in Targets
  BY DEF Carried, Targets, Loops

\* The next turn is that of a strategy with a fresh bar.
LEMMA TurnLoop ==
  ASSUME IInv, NEW m \in Mode, NEW l \in Loops, LoopKnows(l, m), NEW weights \in Targets,
         Coming(l) # {}, l.pc \in {"quoting", "answered"}
  PROVE  LET t == Turn(m, l, weights) IN
         /\ t \in Loops /\ LoopKnows(t, m)
         /\ t.at \in Coming(l) /\ \A j \in Coming(l) : t.at <= j
         /\ t.strategies = l.strategies /\ t.fresh = l.fresh /\ t.replay = 0
         /\ t.pc = IF lastBars[m][t.at] = None /\ Lookback > 0 THEN "history" ELSE "evaluating"
  <1> DEFINE i == First(Coming(l))
             c == Carried(l, weights)
             p == IF lastBars[m][i] = None /\ Lookback > 0 THEN "history" ELSE "evaluating"
             t == [l EXCEPT !.at = i, !.targets = c, !.pc = p]
  <1>1. i \in Coming(l) /\ \A j \in Coming(l) : i <= j
    BY FirstIs DEF Coming
  <1>2. i \in Index /\ i \in 0..Strategies /\ l.fresh[i] # None
    BY <1>1, StrategiesAssumption DEF Coming, Index
  <1>3. c \in Targets
    BY CarriedTargets
  <1>4. p \in {"history", "evaluating"}
    OBVIOUS
  <1>5. Turn(m, l, weights) = t
    BY DEF Turn
  <1>6. p = IF lastBars[m][i] = None /\ Lookback > 0 THEN "history" ELSE "evaluating"
    OBVIOUS
  <1> HIDE DEF i, c, p
  <1>7. /\ t \in Loops /\ t.at = i /\ t.pc = p /\ t.strategies = l.strategies /\ t.fresh = l.fresh
        /\ t.replay = l.replay /\ t.state = l.state
    BY <1>2, <1>3, <1>4 DEF Loops
  <1>8. l.replay = 0 /\ l.state \in PollState /\ l.state.version <= version
        /\ (l.state.version = version => l.state.permit = opened[m])
    BY DEF LoopKnows
  <1>9. LoopKnows(t, m)
    BY <1>2, <1>4, <1>6, <1>7, <1>8 DEF LoopKnows
  <1> HIDE DEF t
  <1> QED
    BY <1>1, <1>5, <1>6, <1>7, <1>8, <1>9

\* What a loop that reads bars looks like after a bar.
LEMMA ReadBarLoop ==
  ASSUME IInv, NEW m \in Mode, NEW complete \in BOOLEAN, ReadBar(m, complete)
  PROVE  \/ Sleep(m)
         \/ \E l \in Loops :
              /\ Go(m, l) /\ LoopKnows(l, m)
              /\ l.strategies = loop[m].strategies
              /\ \/ l.pc = "reading"
                 \/ l.pc = "quoting" /\ l.at = 0
              /\ \A i \in Index : l.fresh[i] = loop[m].fresh[i] \/ l.fresh[i] = None
                    \/ (l.fresh[i] = bar /\ (lastBars[m][i] # None => bar > lastBars[m][i]))
  <1> DEFINE f == [loop[m].fresh EXCEPT ![loop[m].at] =
                     IF complete /\ (lastBars[m][loop[m].at] # None => bar > lastBars[m][loop[m].at])
                     THEN bar ELSE None]
             r == [loop[m] EXCEPT !.fresh = f, !.at = @ + 1]
             q == [loop[m] EXCEPT !.fresh = f, !.at = 0, !.pc = "quoting"]
  <1>1. loop[m] \in Loops /\ LoopKnows(loop[m], m) /\ loop[m].pc = "reading"
        /\ bar \in (Lookback + 1)..MaxBar
    BY DEF ReadBar, IInv, TypeOK, LoopsKnow
  <1>2. loop[m].fresh \in [Index -> ((Lookback + 1)..MaxBar) \cup {None}] /\ loop[m].at \in Index
    BY <1>1 DEF Loops, LoopKnows
  <1>3. f \in [Index -> ((Lookback + 1)..MaxBar) \cup {None}]
    BY <1>1, <1>2
  <1>4. \A i \in Index : f[i] = loop[m].fresh[i] \/ f[i] = None
                    \/ (f[i] = bar /\ (lastBars[m][i] # None => bar > lastBars[m][i]))
    BY <1>2
  <1>5. \/ loop[m].at < Strategies /\ Go(m, r)
        \/ Sleep(m)
        \/ f # Nothing /\ Go(m, q)
    BY DEF ReadBar
  <1> HIDE DEF f
  <1>6. CASE loop[m].at < Strategies /\ Go(m, r)
    <2>1. loop[m].at + 1 \in Index /\ loop[m].at + 1 \in 0..Strategies
      BY <1>2, <1>6, StrategiesAssumption DEF Index
    <2>2. /\ r \in Loops /\ r.pc = "reading" /\ r.at = loop[m].at + 1 /\ r.state = loop[m].state
          /\ r.replay = loop[m].replay /\ r.strategies = loop[m].strategies /\ r.fresh = f
      BY <1>1, <1>3, <2>1 DEF Loops
    <2>3. LoopKnows(r, m)
      BY <1>1, <2>1, <2>2 DEF LoopKnows
    <2> HIDE DEF r
    <2> QED
      BY <1>4, <1>6, <2>2, <2>3
  <1>7. CASE f # Nothing /\ Go(m, q)
    <2>1. 0 \in 0..Strategies
      BY StrategiesAssumption
    <2>2. /\ q \in Loops /\ q.pc = "quoting" /\ q.at = 0 /\ q.state = loop[m].state
          /\ q.replay = loop[m].replay /\ q.strategies = loop[m].strategies /\ q.fresh = f
      BY <1>1, <1>3, <2>1 DEF Loops
    <2>3. LoopKnows(q, m)
      BY <1>1, <1>7, <2>2 DEF LoopKnows
    <2> HIDE DEF q
    <2> QED
      BY <1>4, <1>7, <2>2, <2>3
  <1> QED
    BY <1>5, <1>6, <1>7

LEMMA ReadBarInv ==
  ASSUME IInv, NEW m \in Mode, NEW complete \in BOOLEAN, ReadBar(m, complete)
  PROVE  IInv'
  <1>1. UNCHANGED <<gate, opened, version, revision, bar, executed, strategyState, pending>>
    BY DEF ReadBar, providerState
  <1>2. CASE Sleep(m)
    BY <1>1, <1>2, SleepStep DEF IInv, TypeOK
  <1>3. CASE ~Sleep(m)
    <2>1. PICK l \in Loops : Go(m, l) /\ LoopKnows(l, m) /\ l.pc \in {"reading", "quoting"}
      BY <1>3, ReadBarLoop
    <2> QED
      BY <1>1, <2>1, QuietStep DEF IInv, TypeOK
  <1> QED
    BY <1>2, <1>3

\* A loop that has read a fresh bar has a strategy to turn to.
LEMMA QuotesComing ==
  ASSUME IInv, NEW m \in Mode, Quotes(m)
  PROVE  /\ loop[m] \in Loops /\ LoopKnows(loop[m], m) /\ loop[m].pc = "quoting"
         /\ lastWeights[m] \in Targets /\ Coming(loop[m]) # {}
  <1>1. /\ loop[m] \in Loops /\ LoopKnows(loop[m], m) /\ loop[m].pc = "quoting"
        /\ lastWeights[m] \in Targets
    BY DEF Quotes, IInv, TypeOK, LoopsKnow
  <1>2. loop[m].fresh # Nothing /\ loop[m].at = 0 /\ loop[m].fresh \in [Index -> ((Lookback + 1)..MaxBar) \cup {None}]
    BY <1>1 DEF LoopKnows, Loops
  <1>3. PICK i \in Index : loop[m].fresh[i] # None
    BY <1>2 DEF Nothing
  <1>4. i > loop[m].at
    BY <1>2, <1>3, StrategiesAssumption DEF Index
  <1> QED
    BY <1>1, <1>3, <1>4 DEF Coming

LEMMA QuotesInv ==
  ASSUME IInv, NEW m \in Mode, Quotes(m)
  PROVE  IInv'
  <1> DEFINE t == Turn(m, loop[m], lastWeights[m])
  <1>1. t \in Loops /\ LoopKnows(t, m) /\ t.pc # "loading"
    BY QuotesComing, TurnLoop
  <1>2. Go(m, t) /\ UNCHANGED <<gate, opened, version, revision, bar, executed, strategyState, pending>>
    BY DEF Quotes, providerState
  <1> HIDE DEF t
  <1> QED
    BY <1>1, <1>2, QuietStep DEF IInv, TypeOK

LEMMA HistoryLoop ==
  ASSUME IInv, NEW m \in Mode, History(m)
  PROVE  \E l \in Loops : /\ Go(m, l) /\ LoopKnows(l, m) /\ l.pc = "replaying" /\ loop[m].pc = "history"
                          /\ l.strategies = loop[m].strategies /\ l.at = loop[m].at
                          /\ l.fresh = loop[m].fresh
  <1> DEFINE l == [loop[m] EXCEPT !.pc = "replaying", !.replay = Lookback]
  <1>1. loop[m] \in Loops /\ LoopKnows(loop[m], m) /\ loop[m].pc = "history" /\ Go(m, l)
    BY DEF History, IInv, TypeOK, LoopsKnow
  <1>2. Lookback \in 0..Lookback
    BY StrategyAssumption
  <1>3. /\ l \in Loops /\ l.pc = "replaying" /\ l.replay = Lookback /\ l.state = loop[m].state
        /\ l.strategies = loop[m].strategies /\ l.at = loop[m].at /\ l.fresh = loop[m].fresh
    BY <1>1, <1>2 DEF Loops
  <1>4. Lookback # 0
    BY <1>1, StrategyAssumption DEF LoopKnows
  <1>5. LoopKnows(l, m)
    BY <1>1, <1>3, <1>4 DEF LoopKnows
  <1> HIDE DEF l
  <1> QED
    BY <1>1, <1>3, <1>5

LEMMA HistoryInv ==
  ASSUME IInv, NEW m \in Mode, History(m)
  PROVE  IInv'
  <1>1. UNCHANGED <<gate, opened, version, revision, bar, executed, strategyState, pending>>
    BY DEF History, providerState
  <1>2. PICK l \in Loops : Go(m, l) /\ LoopKnows(l, m) /\ l.pc = "replaying"
    BY HistoryLoop
  <1> QED
    BY <1>1, <1>2, QuietStep DEF IInv, TypeOK

LEMMA ReadFailsInv ==
  ASSUME IInv, NEW m \in Mode, ReadFails(m)
  PROVE  IInv'
  <1>1. loop[m].pc # "sleeping" /\ Go(m, At(m, "reporting"))
        /\ UNCHANGED <<gate, opened, version, revision, bar, executed, strategyState, pending>>
    BY DEF ReadFails, Report, providerState
  <1> QED
    BY <1>1, ReportLoop, QuietStep DEF IInv, TypeOK

\* The instance whose turn it is exists, and so does the bar it is given.
LEMMA GiveTypes ==
  ASSUME IInv, NEW m \in Mode, loop[m].pc \in {"replaying", "evaluating"}
  PROVE  /\ loop[m] \in Loops /\ LoopKnows(loop[m], m)
         /\ loop[m].at \in Index /\ loop[m].replay \in Nat /\ loop[m].replay <= Lookback
         /\ loop[m].fresh[loop[m].at] \in (Lookback + 1)..MaxBar
         /\ NextBarOf(m) \in Bars
  <1>1. loop[m] \in Loops /\ LoopKnows(loop[m], m)
    BY DEF IInv, TypeOK, LoopsKnow
  <1>2. loop[m].at \in Index /\ loop[m].fresh[loop[m].at] # None /\ loop[m].replay \in 0..Lookback
        /\ loop[m].fresh \in [Index -> ((Lookback + 1)..MaxBar) \cup {None}]
    BY <1>1 DEF LoopKnows, Loops
  <1>3. loop[m].fresh[loop[m].at] \in (Lookback + 1)..MaxBar
    BY <1>2
  <1> DEFINE b == loop[m].fresh[loop[m].at]
             r == loop[m].replay
  <1>4. b \in (Lookback + 1)..MaxBar /\ r \in 0..Lookback
    BY <1>2, <1>3
  <1> HIDE DEF b, r
  <1>5. b - r \in 1..MaxBar
    BY <1>4, StrategyAssumption, BoundsAssumption
  <1>6. NextBarOf(m) \in Bars
    BY <1>5 DEF NextBarOf, Bars, b, r
  <1> QED
    BY <1>1, <1>2, <1>3, <1>6, StrategyAssumption

LEMMA ReplayLoop ==
  ASSUME IInv, NEW m \in Mode, Replay(m)
  PROVE  \E l \in Loops : /\ Go(m, l) /\ LoopKnows(l, m)
                          /\ l.pc \in {"replaying", "evaluating"} /\ l.replay = loop[m].replay - 1
                          /\ l.strategies = loop[m].strategies /\ l.at = loop[m].at
                          /\ l.fresh = loop[m].fresh
  <1> DEFINE p == IF loop[m].replay = 1 THEN "evaluating" ELSE "replaying"
             l == [loop[m] EXCEPT !.replay = @ - 1, !.pc = p]
  <1>1. loop[m].pc = "replaying" /\ Go(m, l)
    BY DEF Replay
  <1>2. /\ loop[m] \in Loops /\ LoopKnows(loop[m], m) /\ loop[m].replay # 0
        /\ loop[m].replay \in Nat /\ loop[m].replay <= Lookback
    BY <1>1, GiveTypes DEF LoopKnows
  <1>3. loop[m].replay - 1 \in 0..Lookback
    BY <1>2, StrategyAssumption
  <1>4. p \in {"replaying", "evaluating"} /\ (p = "replaying" <=> loop[m].replay - 1 # 0)
    BY <1>2
  <1> HIDE DEF p
  <1>5. /\ l \in Loops /\ l.pc = p /\ l.replay = loop[m].replay - 1 /\ l.state = loop[m].state
        /\ l.strategies = loop[m].strategies /\ l.at = loop[m].at /\ l.fresh = loop[m].fresh
    BY <1>2, <1>3, <1>4 DEF Loops
  <1>6. LoopKnows(l, m)
    BY <1>1, <1>2, <1>4, <1>5 DEF LoopKnows
  <1> HIDE DEF l
  <1> QED
    BY <1>1, <1>4, <1>5, <1>6

LEMMA OnDataLoop ==
  ASSUME IInv, NEW m \in Mode, OnData(m)
  PROVE  \E l \in Loops : /\ Go(m, l) /\ LoopKnows(l, m) /\ l.pc = "answered"
                          /\ l.strategies = loop[m].strategies /\ l.at = loop[m].at
                          /\ l.fresh = loop[m].fresh
  <1> DEFINE l == [loop[m] EXCEPT !.pc = "answered"]
  <1>1. loop[m] \in Loops /\ LoopKnows(loop[m], m) /\ loop[m].pc = "evaluating" /\ Go(m, l)
    BY DEF OnData, IInv, TypeOK, LoopsKnow
  <1>2. /\ l \in Loops /\ l.pc = "answered" /\ l.replay = loop[m].replay /\ l.state = loop[m].state
        /\ l.strategies = loop[m].strategies /\ l.at = loop[m].at /\ l.fresh = loop[m].fresh
    BY <1>1 DEF Loops
  <1>3. LoopKnows(l, m)
    BY <1>1, <1>2 DEF LoopKnows
  <1> HIDE DEF l
  <1> QED
    BY <1>1, <1>2, <1>3

\* A bar given, or a container closed for failing at it.
LEMMA GiveInv ==
  ASSUME IInv, NEW m \in Mode, Replay(m) \/ OnData(m) \/ EvaluationFails(m)
  PROVE  IInv'
  <1>1. loop[m].pc \in {"replaying", "evaluating"}
        /\ UNCHANGED <<gate, opened, version, revision, bar, executed, loaded, lastBars, lastWeights, pending>>
    <2>1. CASE Replay(m)
      BY <2>1 DEF Replay, providerState
    <2>2. CASE OnData(m)
      BY <2>2 DEF OnData, providerState
    <2>3. CASE EvaluationFails(m)
      BY <2>3 DEF EvaluationFails, providerState
    <2> QED
      BY <2>1, <2>2, <2>3
  <1>2. container' \in [Instance -> Bars \cup {None}] /\ PendingComplete'
    <2>1. \E b \in Bars \cup {None} : container' = [container EXCEPT ![Current(m)] = b]
      BY <1>1, GiveTypes DEF Replay, OnData, EvaluationFails, Give
    <2> QED
      BY <1>1, <2>1 DEF IInv, TypeOK, PendingComplete
  <1>3. PICK l \in Loops : LoopKnows(l, m) /\ Go(m, l) /\ l.pc # "loading"
    <2>1. CASE Replay(m)
      BY <2>1, ReplayLoop
    <2>2. CASE OnData(m)
      BY <2>2, OnDataLoop
    <2>3. CASE EvaluationFails(m)
      BY <1>1, <2>3, ReportLoop DEF EvaluationFails, Report
    <2> QED
      BY <2>1, <2>2, <2>3
  <1> QED
    BY <1>1, <1>2, <1>3, LoopStep DEF IInv, TypeOK

\* What a strategy returned, and the loop with it in hand.
LEMMA ContinueTypes ==
  ASSUME IInv, NEW m \in Mode, NEW result \in Result \cup {None}, Continue(m, result)
  PROVE  \E l \in Loops, weights \in Targets :
           /\ LoopKnows(l, m) /\ l.pc = "answered" /\ loop[m].pc = "answered" /\ l.at \in Index
           /\ l.strategies = loop[m].strategies /\ l.at = loop[m].at /\ l.fresh = loop[m].fresh
           /\ l.fresh[l.at] \in (Lookback + 1)..MaxBar
           /\ lastBars' = [lastBars EXCEPT ![m][l.at] = l.fresh[l.at]]
           /\ lastWeights' = [lastWeights EXCEPT ![m] = weights]
           /\ \/ Coming(l) = {} /\ Conclude(m, Carried(l, weights), l.hold, weights)
              \/ Coming(l) # {} /\ Go(m, Turn(m, l, weights)) /\ UNCHANGED pending
           /\ UNCHANGED <<providerState, loaded, container, executed>>
  <1> DEFINE w == IF result = None THEN lastWeights[m]
                  ELSE [lastWeights[m] EXCEPT ![loop[m].at] = result]
             h == loop[m].hold /\ result = None
             l == [loop[m] EXCEPT !.targets[loop[m].at] = w[loop[m].at], !.hold = h]
  <1>1. /\ loop[m] \in Loops /\ LoopKnows(loop[m], m) /\ loop[m].pc = "answered"
        /\ lastWeights[m] \in Targets
    BY DEF Continue, IInv, TypeOK, LoopsKnow
  <1>2. /\ loop[m].at \in Index /\ loop[m].fresh[loop[m].at] # None
        /\ loop[m].fresh \in [Index -> ((Lookback + 1)..MaxBar) \cup {None}]
        /\ loop[m].targets \in Targets /\ loop[m].hold \in BOOLEAN
    BY <1>1 DEF LoopKnows, Loops
  <1>3. w \in Targets
    BY <1>1, <1>2 DEF Targets
  <1>4. h \in BOOLEAN
    OBVIOUS
  <1>5. [loop[m].targets EXCEPT ![loop[m].at] = w[loop[m].at]] \in Targets
    BY <1>2, <1>3 DEF Targets
  <1>6. /\ lastBars' = [lastBars EXCEPT ![m][loop[m].at] = loop[m].fresh[loop[m].at]]
        /\ lastWeights' = [lastWeights EXCEPT ![m] = w]
        /\ \/ Coming(l) = {} /\ Conclude(m, Carried(l, w), l.hold, w)
           \/ Coming(l) # {} /\ Go(m, Turn(m, l, w)) /\ UNCHANGED pending
        /\ UNCHANGED <<providerState, loaded, container, executed>>
    BY DEF Continue, Remember
  <1> HIDE DEF w, h
  <1>7. /\ l \in Loops /\ l.pc = loop[m].pc /\ l.replay = loop[m].replay /\ l.state = loop[m].state
        /\ l.strategies = loop[m].strategies /\ l.at = loop[m].at /\ l.fresh = loop[m].fresh
    BY <1>1, <1>4, <1>5 DEF Loops
  <1>8. LoopKnows(l, m)
    BY <1>1, <1>7 DEF LoopKnows
  <1> HIDE DEF l
  <1>9. l.fresh[l.at] \in (Lookback + 1)..MaxBar
    BY <1>2, <1>7
  <1> QED
    BY <1>1, <1>2, <1>3, <1>6, <1>7, <1>8, <1>9

\* The loop that sends its rebalance, if it has one to send.
LEMMA ConcludeLoop ==
  ASSUME IInv, NEW m \in Mode, loop[m].pc # "sleeping", NEW targets \in Targets,
         NEW hold, NEW weights, Conclude(m, targets, hold, weights)
  PROVE  /\ \E l \in Loops : Go(m, l) /\ LoopKnows(l, m) /\ l.pc \in {"sleeping", "reporting", "sending"}
         /\ \/ UNCHANGED pending
            \/ pending' = [pending EXCEPT ![m] = targets] /\ Complete(targets)
  <1>1. CASE Sleep(m) /\ UNCHANGED pending
    BY <1>1, Locals DEF Sleep
  <1>2. CASE Report(m) /\ UNCHANGED pending
    BY <1>2, ReportLoop DEF Report
  <1>3. CASE Send(m, targets) /\ Complete(targets)
    <2> DEFINE l == [At(m, "sending") EXCEPT !.targets = targets]
    <2>1. l \in Loops /\ l.pc = "sending" /\ l.state = loop[m].state /\ l.targets = targets
          /\ l.replay = 0
      BY AtLoops DEF Loops
    <2>2. LoopKnows(l, m)
      BY <1>3, <2>1, AtLoops DEF LoopKnows
    <2>3. Go(m, l) /\ pending' = [pending EXCEPT ![m] = targets]
      BY <1>3 DEF Send
    <2> HIDE DEF l
    <2> QED
      BY <1>3, <2>1, <2>2, <2>3
  <1> QED
    BY <1>1, <1>2, <1>3 DEF Conclude, Complete

\* Only a rebalance with a target of every strategy becomes pending.
LEMMA ContinueInv ==
  ASSUME IInv, NEW m \in Mode, NEW result \in Result \cup {None}, Continue(m, result)
  PROVE  IInv'
  <1>1. PICK l \in Loops, weights \in Targets :
           /\ LoopKnows(l, m) /\ l.pc = "answered" /\ loop[m].pc = "answered" /\ l.at \in Index
           /\ l.fresh[l.at] \in (Lookback + 1)..MaxBar
           /\ lastBars' = [lastBars EXCEPT ![m][l.at] = l.fresh[l.at]]
           /\ lastWeights' = [lastWeights EXCEPT ![m] = weights]
           /\ \/ Coming(l) = {} /\ Conclude(m, Carried(l, weights), l.hold, weights)
              \/ Coming(l) # {} /\ Go(m, Turn(m, l, weights)) /\ UNCHANGED pending
           /\ UNCHANGED <<providerState, loaded, container, executed>>
    BY ContinueTypes
  <1>2. UNCHANGED <<gate, opened, version, revision, bar, executed, loaded, container>>
    BY <1>1 DEF providerState
  <1>3. lastBars' \in [Mode -> [Index -> Bars \cup {None}]] /\ lastWeights' \in [Mode -> Targets]
    <2> DEFINE b == l.fresh[l.at]
               at == l.at
    <2>1. b \in Bars /\ at \in Index /\ lastBars' = [lastBars EXCEPT ![m][at] = b]
      BY <1>1, StrategyAssumption, BoundsAssumption DEF Bars
    <2> HIDE DEF b, at
    <2>2. lastBars' \in [Mode -> [Index -> Bars \cup {None}]]
      BY <2>1 DEF IInv, TypeOK
    <2> QED
      BY <1>1, <2>2 DEF IInv, TypeOK
  <1>4. CASE Coming(l) = {} /\ Conclude(m, Carried(l, weights), l.hold, weights)
    <2> DEFINE c == Carried(l, weights)
    <2>1. c \in Targets
      BY CarriedTargets
    <2>2. Conclude(m, c, l.hold, weights)
      BY <1>4
    <2> HIDE DEF c
    <2>3. /\ \E k \in Loops : Go(m, k) /\ LoopKnows(k, m) /\ k.pc \in {"sleeping", "reporting", "sending"}
          /\ \/ UNCHANGED pending
             \/ pending' = [pending EXCEPT ![m] = c] /\ Complete(c)
      BY <1>1, <2>1, <2>2, ConcludeLoop
    <2>4. pending' \in [Mode -> Targets \cup {None}] /\ PendingComplete'
      BY <2>1, <2>3 DEF IInv, TypeOK, PendingComplete
    <2>5. PICK k \in Loops : Go(m, k) /\ LoopKnows(k, m) /\ k.pc \in {"sleeping", "reporting", "sending"}
      BY <2>3
    <2> QED
      BY <1>2, <1>3, <2>4, <2>5, LoopStep DEF IInv, TypeOK
  <1>5. CASE Coming(l) # {} /\ Go(m, Turn(m, l, weights)) /\ UNCHANGED pending
    <2> DEFINE t == Turn(m, l, weights)
    <2>1. t \in Loops /\ LoopKnows(t, m) /\ t.pc # "loading"
      BY <1>1, <1>5, TurnLoop
    <2>2. Go(m, t) /\ PendingComplete'
      BY <1>5 DEF IInv, PendingComplete
    <2> HIDE DEF t
    <2> QED
      BY <1>2, <1>3, <1>5, <2>1, <2>2, LoopStep DEF IInv, TypeOK
  <1> QED
    BY <1>1, <1>4, <1>5

\* The targets of an evaluation are what results are made of.
LEMMA TargetType ==
  ASSUME IInv, NEW m \in Mode, loop[m].pc # "sleeping", NEW over \in Overs
  PROVE  Target(m, over) \in Result
  BY DEF Target, Result, IInv, LoopsKnow, LoopKnows, PollState

LEMMA ReportFailureInv ==
  ASSUME IInv, NEW m \in Mode, ReportFailure(m)
  PROVE  IInv'
  <1>1. gate' \in [Mode -> BOOLEAN]
    BY DEF ReportFailure, IInv, TypeOK
  <1> QED
    BY <1>1, SleepStep DEF ReportFailure

-----------------------------------------------------------------------------
(* The rebalance                                                           *)

\* The provider carries out what the worker sends, and that is complete.
LEMMA ExecutedInv ==
  ASSUME IInv, NEW m \in Mode, Executed(m), Sleep(m),
         pending' = pending \/ pending' = [pending EXCEPT ![m] = None],
         UNCHANGED <<providerState, strategyState>>
  PROVE  IInv'
  <1>1. loop[m] \in Loops /\ LoopKnows(loop[m], m) /\ loop[m].pc = "sending"
    BY DEF Executed, IInv, TypeOK, LoopsKnow
  <1>2. loop[m].targets \in Targets /\ Complete(loop[m].targets)
    BY <1>1 DEF LoopKnows, Loops
  <1> DEFINE x == [weights |-> loop[m].targets, permit |-> opened[m], revision |-> revision]
  <1>3. x \in Rebalances /\ x.weights = loop[m].targets
    BY <1>2 DEF Rebalances, IInv, TypeOK
  <1>4. executed' = [executed EXCEPT ![m] = x]
    BY DEF Executed
  <1> HIDE DEF x
  <1>5. executed' \in [Mode -> Rebalances \cup {None}] /\ TargetsComplete'
    BY <1>2, <1>3, <1>4 DEF IInv, TypeOK, TargetsComplete, Complete
  <1>6. UNCHANGED <<gate, opened, version, revision, bar, loaded, container, lastBars, lastWeights>>
    BY DEF providerState, strategyState
  <1>7. loop' \in [Mode -> Loops] /\ LoopsKnow' /\ LoadingAlone'
    BY <1>6, Locals, LoopMoves DEF Sleep
  <1>8. pending' \in [Mode -> Targets \cup {None}] /\ PendingComplete'
    BY DEF IInv, TypeOK, PendingComplete
  <1>9. TypeOK'
    BY <1>5, <1>6, <1>7, <1>8 DEF IInv, TypeOK, LoopsKnow, LoopKnows
  <1> QED
    BY <1>5, <1>7, <1>8, <1>9 DEF IInv

-----------------------------------------------------------------------------
(* The provider, the market and the process                                *)

\* A step that neither a loop nor the strategies take part in.
LEMMA ProviderStep ==
  ASSUME IInv, UNCHANGED <<strategyState, pending, loop, executed>>,
         gate' \in [Mode -> BOOLEAN], opened' \in [Mode -> 0..MaxVersion],
         version' \in version..MaxVersion, revision' \in 0..MaxRevision, bar' \in (Lookback + 1)..MaxBar,
         version' = version => opened' = opened
  PROVE  IInv'
  <1> USE BoundsAssumption
  <1>1. LoopsKnow'
    <2> SUFFICES ASSUME NEW m \in Mode, loop[m].pc # "sleeping",
                        loop[m].state.version = version'
                 PROVE  loop[m].state.permit = opened'[m]
      BY DEF IInv, TypeOK, LoopsKnow, LoopKnows, PollState
    <2> DEFINE v == loop[m].state.version
    <2>1. v <= version /\ v = version' /\ v \in Nat
      BY DEF IInv, LoopsKnow, LoopKnows, PollState
    <2>2. version \in Nat /\ version' \in Nat /\ version <= version'
      BY DEF IInv, TypeOK
    <2> HIDE DEF v
    <2>3. version' = version
      BY <2>1, <2>2
    <2> QED
      BY <2>3 DEF IInv, LoopsKnow, LoopKnows
  <1>2. version' \in 0..MaxVersion
    BY DEF IInv, TypeOK
  <1>3. TypeOK'
    BY <1>2 DEF IInv, TypeOK, strategyState
  <1>4. LoadingAlone' /\ PendingComplete' /\ TargetsComplete'
    BY DEF IInv, LoadingAlone, PendingComplete, TargetsComplete, strategyState
  <1> QED
    BY <1>1, <1>3, <1>4 DEF IInv

LEMMA OutsideInv ==
  ASSUME IInv, (\E m \in Mode : CloseGate(m) \/ Reopen(m)) \/ Configure \/ NextBar
  PROVE  IInv'
  <1> USE BoundsAssumption
  <1>1. UNCHANGED <<strategyState, pending, loop, executed>>
    BY DEF CloseGate, Reopen, Configure, NextBar
  <1>2. gate' \in [Mode -> BOOLEAN] /\ opened' \in [Mode -> 0..MaxVersion]
    <2>1. ASSUME NEW m \in Mode, CloseGate(m) PROVE  gate' \in [Mode -> BOOLEAN] /\ opened' \in [Mode -> 0..MaxVersion]
      BY <2>1 DEF CloseGate, IInv, TypeOK
    <2>2. ASSUME NEW m \in Mode, Reopen(m) PROVE  gate' \in [Mode -> BOOLEAN] /\ opened' \in [Mode -> 0..MaxVersion]
      <3>1. version + 1 \in 0..MaxVersion
        BY <2>2 DEF Reopen, IInv, TypeOK
      <3> QED
        BY <2>2, <3>1 DEF Reopen, IInv, TypeOK
    <2>3. CASE Configure \/ NextBar
      BY <2>3 DEF Configure, NextBar, IInv, TypeOK
    <2> QED
      BY <2>1, <2>2, <2>3
  <1>3. version' \in version..MaxVersion /\ (version' = version => opened' = opened)
    BY DEF CloseGate, Reopen, Configure, NextBar, IInv, TypeOK
  <1>4. revision' \in 0..MaxRevision /\ bar' \in (Lookback + 1)..MaxBar
    BY StrategyAssumption DEF CloseGate, Reopen, Configure, NextBar, IInv, TypeOK
  <1> QED
    BY <1>1, <1>2, <1>3, <1>4, ProviderStep

LEMMA RestartInv ==
  ASSUME IInv, Restart
  PROVE  IInv'
  <1> USE BoundsAssumption
  <1>1. loop' \in [Mode -> Loops] /\ \A m \in Mode : loop'[m] = Sleeping
    BY Locals DEF Restart
  <1>2. LoopsKnow' /\ LoadingAlone'
    BY <1>1, Locals DEF LoopsKnow, LoopKnows, LoadingAlone
  <1>3. lastBars' \in [Mode -> [Index -> Bars \cup {None}]] /\ lastWeights' \in [Mode -> Targets]
    BY Locals DEF Restart
  <1>4. loaded' \in [revision : (0..MaxRevision) \cup {None}, load : 0..MaxLoads]
    BY DEF Restart, IInv, TypeOK
  <1>5. version' \in 0..MaxVersion
    BY DEF Restart, IInv, TypeOK
  <1>6. TypeOK'
    BY <1>1, <1>3, <1>4, <1>5, Locals DEF Restart, IInv, TypeOK
  <1>7. PendingComplete' /\ TargetsComplete'
    BY DEF Restart, IInv, PendingComplete, TargetsComplete
  <1> QED
    BY <1>2, <1>6, <1>7 DEF IInv

-----------------------------------------------------------------------------
LEMMA CycleInv ==
  ASSUME IInv, NEW m \in Mode, Cycle(m)
  PROVE  IInv'
  <1>1. CASE PollFails(m) \/ ReportLost(m) \/ Refused(m)
    BY <1>1, SleepStep DEF PollFails, ReportLost, Refused, providerState, IInv, TypeOK
  <1>2. CASE Poll(m) \/ Resend(m) \/ AlreadyLoaded(m) \/ LoadStart(m)
    BY <1>2, PollInv, ResendInv, AlreadyLoadedInv, LoadStartInv
  <1>3. CASE CloseStrategy(m) \/ CloseFails(m) \/ LoadFails(m) \/ LoadFinish(m) \/ Forget(m)
    BY <1>3, CloseStrategyInv, CloseFailsInv, LoadFailsInv, LoadFinishInv, ForgetInv
  <1>4. CASE (\E complete \in BOOLEAN : ReadBar(m, complete)) \/ Quotes(m) \/ History(m)
             \/ ReadFails(m)
    BY <1>4, ReadBarInv, QuotesInv, HistoryInv, ReadFailsInv
  <1>5. CASE Replay(m) \/ OnData(m) \/ EvaluationFails(m) \/ ReportFailure(m)
    BY <1>5, GiveInv, ReportFailureInv
  <1>6. CASE Continue(m, None) \/ \E over \in Overs : Continue(m, Target(m, over))
    <2>1. CASE Continue(m, None)
      BY <2>1, ContinueInv
    <2>2. ASSUME NEW over \in Overs, Continue(m, Target(m, over)) PROVE IInv'
      <3>1. loop[m].pc # "sleeping"
        BY <2>2 DEF Continue
      <3>2. Target(m, over) \in Result
        BY <3>1, TargetType
      <3> QED
        BY <2>2, <3>2, ContinueInv
    <2> QED
      BY <1>6, <2>1, <2>2
  <1>7. CASE Accept(m) \/ AnswerLost(m)
    BY <1>7, ExecutedInv DEF Accept, AnswerLost
  <1> QED
    BY <1>1, <1>2, <1>3, <1>4, <1>5, <1>6, <1>7 DEF Cycle

\* Every step keeps the inductive invariant.
LEMMA NextInv == IInv /\ [Next]_vars => IInv'
  <1> SUFFICES ASSUME IInv, [Next]_vars PROVE IInv'
    OBVIOUS
  <1>1. CASE UNCHANGED vars
    BY <1>1 DEF vars, providerState, strategyState, IInv, TypeOK, LoopsKnow, LoopKnows,
                LoadingAlone, PendingComplete, TargetsComplete
  <1>2. CASE Next
    BY <1>2, CycleInv, OutsideInv, RestartInv DEF Next
  <1> QED
    BY <1>1, <1>2


-----------------------------------------------------------------------------
(* What the containers have seen.  The loop of a mode is the only one that *)
(* gives its containers bars; a loop that loads closes them, and then      *)
(* drops what is known of them at once with the load they belong to.       *)

\* The instances of a loop's strategies exist.
LEMMA InstanceOf ==
  ASSUME IInv, BarsInv, NEW m \in Mode, loop[m].pc \in Busy, NEW i \in Index
  PROVE  /\ <<loop[m].strategies, m, i>> \in Instance
         /\ loop[m].strategies \in Nat /\ loaded.load \in Nat /\ loop[m].strategies <= loaded.load
  <1>1. loop[m].strategies \in 1..loaded.load /\ loaded.load \in 0..MaxLoads
    BY DEF BarsInv, LoopBars, TurnsAhead, IInv, TypeOK
  <1>2. loop[m].strategies \in 1..MaxLoads
    BY <1>1, BoundsAssumption
  <1> QED
    BY <1>1, <1>2, BoundsAssumption DEF Instance

\* The other loops keep what they know while a loop moves.
LEMMA OthersKeep ==
  ASSUME IInv, BarsInv, NEW m \in Mode, NEW l, Go(m, l), UNCHANGED loaded,
         NEW q \in Mode, q # m, lastBars'[q] = lastBars[q],
         \A s \in Instance : container'[s] = container[s] \/ container'[s] = None \/ s[2] = m
  PROVE  LoopBars(loop[q], q)'
  <1>1. loop'[q] = loop[q]
    BY DEF Go, IInv, TypeOK
  <1>2. \A s \in Instance : s[2] = q => container'[s] = container[s] \/ container'[s] = None
    OBVIOUS
  <1>3. \A i \in Index : loop[q].pc \in Busy => <<loop[q].strategies, q, i>> \in Instance
    BY InstanceOf
  <1>4. LoopBars(loop[q], q) /\ LoopKnows(loop[q], q)
    BY DEF BarsInv, IInv, LoopsKnow
  <1>5. \A load, i : <<load, q, i>>[2] = q
    OBVIOUS
  <1>6. TurnsAhead(loop[q], q)'
    <2>1. Ahead(loop[q]) \subseteq Index
      BY DEF Ahead
    <2> QED
      BY <1>1, <1>2, <1>3, <1>4, <1>5, <2>1 DEF LoopBars, TurnsAhead, Ahead
  <1>7. TurnNow(loop[q], q)'
    <2>1. CASE loop[q].pc \in {"history", "replaying", "evaluating", "answered"}
      <3>1. <<loop[q].strategies, q, loop[q].at>> \in Instance
        BY <1>3, <1>4, <2>1 DEF LoopKnows, Busy
      <3> DEFINE s == <<loop[q].strategies, q, loop[q].at>>
      <3>2. container'[s] = container[s] \/ container'[s] = None
        BY <3>1, <1>2, <1>5
      <3> QED
        BY <1>1, <1>4, <3>2 DEF LoopBars, TurnNow
    <2>2. CASE loop[q].pc \notin {"history", "replaying", "evaluating", "answered"}
      BY <1>1, <2>2 DEF TurnNow
    <2> QED
      BY <2>1, <2>2
  <1>8. Remembered(loop[q], q)'
    BY <1>1, <1>2, <1>4, <1>5 DEF LoopBars, Remembered
  <1>9. Cleared(loop[q], q)'
    BY <1>1, <1>2, <1>4 DEF LoopBars, Cleared, InstancesOf
  <1> QED
    BY <1>6, <1>7, <1>8, <1>9 DEF LoopBars

\* A step of one loop that loads nothing, as far as the other loops go.
LEMMA BarsStep ==
  ASSUME IInv, BarsInv, NEW m \in Mode, NEW l, Go(m, l), UNCHANGED loaded,
         \A q \in Mode : q # m => lastBars'[q] = lastBars[q],
         \A s \in Instance :
            \/ container'[s] = container[s] \/ container'[s] = None
            \/ s = Current(m) /\ l.pc \in Busy /\ s[3] \notin Ahead(l),
         l.pc \in Busy =>
            \/ /\ loop[m].pc \in Busy /\ l.strategies = loop[m].strategies
               /\ Ahead(l) \subseteq Ahead(loop[m])
            \/ Loading = {} /\ l.strategies = loaded.load /\ loop[m].pc \notin Busy,
         l.pc = "loading" =>
            \/ l.closing = {s \in Instance : s[1] = loaded.load}
            \/ /\ loop[m].pc = "loading"
               /\ \A s \in loop[m].closing \ l.closing : container'[s] = None,
         \A s \in Instance : container'[s] = container[s] \/ container'[s] = None \/ loop[m].pc \in Busy,
         LoopBars(l, m)'
  PROVE  BarsInv'
  <1>1. loop'[m] = l /\ \A q \in Mode : q # m => loop'[q] = loop[q]
    BY DEF Go, IInv, TypeOK
  <1>2. \A q \in Mode : LoopBars(loop[q], q)'
    <2>1. \A s \in Instance : container'[s] = container[s] \/ container'[s] = None \/ s[2] = m
      BY DEF Current
    <2>2. ASSUME NEW q \in Mode, q # m PROVE LoopBars(loop[q], q)'
      BY <2>1, <2>2, OthersKeep
    <2> QED
      BY <1>1, <2>2
  <1>3. NewLoads'
    <2> SUFFICES ASSUME NEW s \in Instance, container'[s] # None
                 PROVE  s[1] <= loaded.load /\ (loop'[s[2]].pc \in Busy => s[1] <= loop'[s[2]].strategies)
      BY DEF NewLoads
    <2>1. s[1] \in Nat /\ s[2] \in Mode /\ loaded.load \in Nat
      BY BoundsAssumption DEF Instance, IInv, TypeOK
    <2>2. CASE container'[s] = container[s]
      <3>1. s[1] <= loaded.load /\ (loop[s[2]].pc \in Busy => s[1] <= loop[s[2]].strategies)
        BY <2>2 DEF BarsInv, NewLoads
      <3> QED
        BY <1>1, <2>1, <3>1
    <2>3. CASE s = Current(m) /\ l.pc \in Busy /\ loop[m].pc \in Busy
      <3>1. s[2] = m /\ s[1] = loop[m].strategies /\ loop[m].strategies \in 1..loaded.load
            /\ l.strategies = loop[m].strategies
        BY <2>3 DEF Current, BarsInv, LoopBars, TurnsAhead
      <3> QED
        BY <1>1, <2>1, <3>1
    <2> QED
      BY <2>2, <2>3
  <1>4. ASSUME NEW q \in Mode, NEW k \in Mode PROVE ClosedByLoad(q, k)'
    <2> SUFFICES ASSUME loop'[q].pc = "loading", loop'[k].pc \in Busy,
                        loop'[k].strategies = loaded.load, NEW i \in Ahead(loop'[k]),
                        <<loaded.load, k, i>> \notin loop'[q].closing
                 PROVE  container'[<<loaded.load, k, i>>] = None
      BY DEF ClosedByLoad, Ahead
    <2> DEFINE s == <<loaded.load, k, i>>
    <2>1. q # k
      BY DEF Busy
    <2>2. i \in Index
      BY DEF Ahead
    <2>3. loop[k].pc \in Busy /\ loop[k].strategies = loaded.load /\ i \in Ahead(loop[k])
      <3>1. CASE k # m
        BY <1>1, <3>1
      <3>2. CASE k = m
        <4>1. Loading # {}
          BY <1>1, <2>1, <3>2 DEF Loading
        <4> QED
          BY <1>1, <3>2, <4>1
      <3> QED
        BY <3>1, <3>2
    <2>4. s \in Instance
      BY <2>2, <2>3, InstanceOf
    <2>5. container'[s] = container[s] \/ container'[s] = None
      <3>1. CASE k # m
        BY <2>4, <3>1 DEF Current
      <3>2. CASE k = m
        BY <1>1, <2>4, <3>2
      <3> QED
        BY <3>1, <3>2
    <2>6. CASE q # m \/ (loop[m].pc = "loading" /\ s \notin loop[m].closing)
      <3>1. loop[q].pc = "loading" /\ s \notin loop[q].closing
        BY <1>1, <2>6
      <3>2. container[s] = None
        BY <2>3, <3>1 DEF BarsInv, ClosedByLoad
      <3> QED
        BY <2>5, <3>2
    <2>7. CASE q = m /\ loop[m].pc = "loading" /\ s \in loop[m].closing
      <3>1. l.closing # {t \in Instance : t[1] = loaded.load}
        BY <1>1, <2>4, <2>7
      <3> QED
        BY <1>1, <2>7, <3>1
    <2>8. CASE q = m /\ loop[m].pc # "loading"
      BY <1>1, <2>4, <2>8
    <2> QED
      BY <2>6, <2>7, <2>8
  <1>5. Numbered'
    BY DEF BarsInv, Numbered
  <1> QED
    BY <1>2, <1>3, <1>4, <1>5 DEF BarsInv

\* A loop that is done with its containers, or that has none in hand yet.
LEMMA RestBars ==
  ASSUME IInv, BarsInv, NEW m \in Mode, NEW l, Go(m, l), UNCHANGED <<loaded, lastBars>>,
         l.pc \in {"sleeping", "polled", "reporting", "sending"},
         loop[m].pc \notin {"replaying", "evaluating", "answered"},
         \A s \in Instance : container'[s] = container[s] \/ container'[s] = None
  PROVE  BarsInv'
  <1>1. LoopBars(loop[m], m)
    BY DEF BarsInv
  <1>2. LoopBars(l, m)'
    BY <1>1 DEF LoopBars, TurnsAhead, TurnNow, Remembered, Cleared, Busy
  <1>3. l.pc \notin Busy /\ l.pc # "loading"
    BY DEF Busy
  <1> QED
    BY <1>2, <1>3, BarsStep

LEMMA LeavesBars ==
  ASSUME IInv, BarsInv, NEW m \in Mode,
         \/ Poll(m) \/ PollFails(m) \/ Resend(m) \/ CloseFails(m) \/ LoadFails(m)
         \/ ReadFails(m) \/ ReportFailure(m) \/ ReportLost(m)
         \/ Accept(m) \/ AnswerLost(m) \/ Refused(m)
  PROVE  BarsInv'
  <1>1. /\ UNCHANGED <<loaded, lastBars>>
        /\ \A s \in Instance : container'[s] = container[s] \/ container'[s] = None
    <2>1. CASE CloseFails(m)
      BY <2>1 DEF CloseFails, IInv, TypeOK
    <2>2. CASE ~CloseFails(m)
      BY <2>2 DEF Poll, PollFails, Resend, LoadFails, ReadFails, ReportFailure, ReportLost,
                  Accept, AnswerLost, Refused, strategyState
    <2> QED
      BY <2>1, <2>2
  <1>2. loop[m].pc \notin {"replaying", "evaluating", "answered"}
    BY DEF Poll, PollFails, Resend, CloseFails, LoadFails, ReadFails, ReportFailure, ReportLost,
           Accept, AnswerLost, Refused, Executed
  <1>3. PICK l : Go(m, l) /\ l.pc \in {"sleeping", "polled", "reporting", "sending"}
    <2>1. CASE Sleep(m)
      BY <2>1, Locals DEF Sleep
    <2>2. CASE Poll(m)
      <3> DEFINE l == [Sleeping EXCEPT !.pc = "polled", !.state = State(m)]
      <3>1. l.pc = "polled" /\ Go(m, l)
        BY <2>2, Locals DEF Poll, Loops
      <3> QED
        BY <3>1
    <2>3. CASE Resend(m)
      <3> DEFINE l == [At(m, "sending") EXCEPT !.targets = pending[m]]
      <3>1. loop[m].pc # "sleeping" /\ Go(m, l)
        BY <2>3 DEF Resend
      <3>2. l.pc = "sending"
        BY <3>1, AtLoops DEF Loops
      <3> QED
        BY <3>1, <3>2
    <2>4. CASE CloseFails(m) \/ LoadFails(m)
      BY <2>4, RaiseLoop DEF CloseFails, LoadFails
    <2>5. CASE ReadFails(m)
      BY <2>5, ReportLoop DEF ReadFails, Report
    <2> QED
      BY <2>1, <2>2, <2>3, <2>4, <2>5 DEF PollFails, ReportFailure, ReportLost, Accept, AnswerLost, Refused
  <1> QED
    BY <1>1, <1>2, <1>3, RestBars

\* load_configuration starts with every container of the load still to close.
LEMMA LoadStartBars ==
  ASSUME IInv, BarsInv, NEW m \in Mode, LoadStart(m)
  PROVE  BarsInv'
  <1> DEFINE r == [At(m, "loading") EXCEPT !.closing = {s \in Instance : s[1] = loaded.load}]
  <1>1. loop[m].pc = "polled" /\ Go(m, r) /\ UNCHANGED <<loaded, lastBars, container>>
    BY DEF LoadStart, strategyState
  <1>2. r.pc = "loading" /\ r.closing = {s \in Instance : s[1] = loaded.load}
    BY <1>1, AtLoops DEF Loops
  <1> HIDE DEF r
  <1>3. PICK l : l = r
    OBVIOUS
  <1>4. LoopBars(loop[m], m)
    BY DEF BarsInv
  <1>5. LoopBars(l, m)'
    BY <1>1, <1>2, <1>3, <1>4 DEF LoopBars, TurnsAhead, TurnNow, Remembered, Cleared, Busy
  <1> QED
    BY <1>1, <1>2, <1>3, <1>5, BarsStep DEF Busy

\* What is closed is no longer to be closed.
LEMMA CloseStrategyBars ==
  ASSUME IInv, BarsInv, NEW m \in Mode, CloseStrategy(m)
  PROVE  BarsInv'
  <1>1. PICK s \in Closes(m) :
          /\ container' = [container EXCEPT ![s] = None]
          /\ Go(m, [loop[m] EXCEPT !.closing = @ \ {s}])
    BY DEF CloseStrategy
  <1>2. loop[m] \in Loops /\ loop[m].pc \in {"loading", "clearing"} /\ UNCHANGED <<loaded, lastBars>>
    BY DEF CloseStrategy, IInv, TypeOK
  <1>3. PICK l : l = [loop[m] EXCEPT !.closing = @ \ {s}]
    OBVIOUS
  <1>4. l.pc = loop[m].pc /\ l.closing = loop[m].closing \ {s}
    BY <1>2, <1>3 DEF Loops
  <1>5. \A t \in Instance : container'[t] = IF t = s THEN None ELSE container[t]
    BY <1>1 DEF IInv, TypeOK
  <1>6. LoopBars(loop[m], m)
    BY DEF BarsInv
  <1>7. LoopBars(l, m)'
    <2>1. TurnsAhead(l, m)' /\ TurnNow(l, m)'
      BY <1>2, <1>4 DEF TurnsAhead, TurnNow, Busy
    <2>2. Remembered(l, m)'
      BY <1>2, <1>4, <1>5, <1>6 DEF LoopBars, Remembered
    <2>3. Cleared(l, m)'
      BY <1>2, <1>4, <1>5, <1>6 DEF LoopBars, Cleared, InstancesOf
    <2> QED
      BY <2>1, <2>2, <2>3 DEF LoopBars
  <1>8. l.pc \notin Busy /\ \A t \in loop[m].closing \ l.closing : container'[t] = None
    <2>1. loop[m].closing \subseteq Instance
      BY <1>2 DEF Loops
    <2>2. l.pc \notin Busy
      BY <1>2, <1>4 DEF Busy
    <2> QED
      BY <1>4, <1>5, <2>1, <2>2
  <1>9. Go(m, l)
    BY <1>1, <1>3
  <1> QED
    BY <1>2, <1>4, <1>5, <1>7, <1>8, <1>9, BarsStep

\* A mode that finds the configuration loaded reads bars for its strategies.
LEMMA AlreadyLoadedBars ==
  ASSUME IInv, BarsInv, NEW m \in Mode, AlreadyLoaded(m)
  PROVE  BarsInv'
  <1>1. /\ loop[m].pc = "polled" /\ loaded.load \in 0..MaxLoads /\ Go(m, Loaded(m, loaded.load))
        /\ Loading = {} /\ loaded.revision = loop[m].state.revision
        /\ UNCHANGED <<loaded, lastBars, container>>
    BY DEF AlreadyLoaded, IInv, TypeOK, strategyState
  <1>2. loaded.load \in 1..loaded.load
    <2>1. loop[m].state \in PollState
      BY <1>1, AtLoops
    <2>2. loaded.revision # None
      BY <1>1, <2>1, NoneAssumption, BoundsAssumption DEF PollState
    <2> QED
      BY <1>1, <2>2, BoundsAssumption DEF BarsInv, Numbered
  <1>3. PICK l : l = Loaded(m, loaded.load)
    OBVIOUS
  <1>4. \/ l.pc = "clearing" /\ l.closing = InstancesOf(loaded.load, m)
        \/ l.pc = "reading" /\ l.strategies = loaded.load /\ l.fresh = Nothing
    BY <1>1, <1>3, LoadedLoop
  <1>5. LoopBars(loop[m], m)
    BY DEF BarsInv
  <1>6. LoopBars(l, m)'
    <2>1. TurnsAhead(l, m)'
      BY <1>1, <1>2, <1>4 DEF TurnsAhead, Busy, Ahead, Nothing
    <2>2. Remembered(l, m)'
      BY <1>1, <1>5 DEF LoopBars, Remembered
    <2>3. TurnNow(l, m)' /\ Cleared(l, m)'
      BY <1>1, <1>4 DEF TurnNow, Cleared
    <2> QED
      BY <2>1, <2>2, <2>3 DEF LoopBars
  <1> QED
    BY <1>1, <1>3, <1>4, <1>6, BarsStep DEF Busy

\* A closed mode has no container left that it remembers bars of.
LEMMA ForgetBars ==
  ASSUME IInv, BarsInv, NEW m \in Mode, Forget(m)
  PROVE  BarsInv'
  <1>1. /\ loop[m].pc = "clearing" /\ loop[m].closing = {} /\ Go(m, Sleeping)
        /\ UNCHANGED <<loaded, container>>
        /\ \A q \in Mode : q # m => lastBars'[q] = lastBars[q]
    BY DEF Forget, Sleep, IInv, TypeOK
  <1>2. PICK l : l = Sleeping
    OBVIOUS
  <1>3. l.pc = "sleeping"
    BY <1>2, Locals
  <1>4. \A i \in Index : <<loaded.load, m, i>> \in Instance => container[<<loaded.load, m, i>>] = None
    BY <1>1 DEF BarsInv, LoopBars, Cleared, InstancesOf
  <1>5. LoopBars(l, m)'
    BY <1>1, <1>3, <1>4 DEF LoopBars, TurnsAhead, TurnNow, Remembered, Cleared, Busy
  <1> QED
    BY <1>1, <1>2, <1>3, <1>5, BarsStep DEF Busy

LEMMA ReadBarBars ==
  ASSUME IInv, BarsInv, NEW m \in Mode, NEW complete \in BOOLEAN, ReadBar(m, complete)
  PROVE  BarsInv'
  <1>1. loop[m].pc = "reading" /\ UNCHANGED <<loaded, lastBars, container>>
    BY DEF ReadBar, strategyState
  <1>2. CASE Sleep(m)
    BY <1>1, <1>2, Locals, RestBars DEF Sleep
  <1>3. CASE ~Sleep(m)
    <2>1. PICK l \in Loops :
            /\ Go(m, l)
            /\ l.strategies = loop[m].strategies
            /\ l.pc \in {"reading", "quoting"}
            /\ \A i \in Index : l.fresh[i] = loop[m].fresh[i] \/ l.fresh[i] = None
                  \/ (l.fresh[i] = bar /\ (lastBars[m][i] # None => bar > lastBars[m][i]))
      BY <1>3, ReadBarLoop
    <2>2. LoopBars(loop[m], m)
      BY DEF BarsInv
    <2>3. Ahead(loop[m]) = Index /\ Ahead(l) \subseteq Index
      BY <1>1 DEF Ahead
    <2>4. LoopBars(l, m)'
      <3>1. TurnsAhead(l, m)'
        BY <1>1, <2>1, <2>2, <2>3 DEF LoopBars, TurnsAhead, Busy, Ahead
      <3>2. Remembered(l, m)'
        BY <1>1, <2>2 DEF LoopBars, Remembered
      <3>3. TurnNow(l, m)' /\ Cleared(l, m)'
        BY <1>1, <2>1 DEF TurnNow, Cleared
      <3> QED
        BY <3>1, <3>2, <3>3 DEF LoopBars
    <2> QED
      BY <1>1, <2>1, <2>3, <2>4, BarsStep DEF Busy
  <1> QED
    BY <1>2, <1>3

\* What a strategy's container has seen before its turn is earlier than its bar,
\* and it has seen nothing if its last bar is not known.
LEMMA TurnComes ==
  ASSUME IInv, BarsInv, NEW m \in Mode, loop[m].pc \in {"quoting", "answered"},
         NEW i \in Index, i > loop[m].at, loop[m].fresh[i] # None,
         NEW s, s = <<loop[m].strategies, m, i>>, container[s] # None
  PROVE  lastBars[m][i] # None /\ container[s] < loop[m].fresh[i]
  <1>1. loop[m] \in Loops /\ LoopBars(loop[m], m) /\ loop[m].pc \in Busy /\ i \in Ahead(loop[m])
    BY DEF IInv, TypeOK, BarsInv, Busy, Ahead
  <1>2. s \in Instance /\ loop[m].strategies = loaded.load
    BY <1>1, InstanceOf DEF LoopBars, TurnsAhead
  <1>3. lastBars[m][i] # None /\ container[s] <= lastBars[m][i]
    BY <1>1, <1>2, StrategiesAssumption DEF LoopBars, Remembered, Index
  <1>4. loop[m].fresh[i] > lastBars[m][i]
    BY <1>1, <1>2, <1>3 DEF LoopBars, TurnsAhead
  <1> DEFINE c == container[s]
             b == lastBars[m][i]
             f == loop[m].fresh[i]
  <1>5. c \in Nat /\ b \in Nat /\ f \in Nat
    <2>1. c \in Bars /\ b \in Bars
      BY <1>2, <1>3 DEF IInv, TypeOK
    <2>2. f \in (Lookback + 1)..MaxBar
      BY <1>1 DEF Loops
    <2> QED
      BY <2>1, <2>2, BoundsAssumption, StrategyAssumption DEF Bars
  <1>6. c <= b /\ b < f
    BY <1>3, <1>4, <1>5
  <1> HIDE DEF c, b, f
  <1>7. c < f
    BY <1>5, <1>6
  <1> QED
    BY <1>3, <1>7 DEF c, f

LEMMA QuotesBars ==
  ASSUME IInv, BarsInv, NEW m \in Mode, Quotes(m)
  PROVE  BarsInv'
  <1>1. /\ loop[m].pc = "quoting" /\ loop[m].at = 0 /\ UNCHANGED <<loaded, lastBars, container>>
        /\ LoopKnows(loop[m], m)
    BY QuotesComing DEF Quotes, strategyState, LoopKnows
  <1>2. PICK l : l = Turn(m, loop[m], lastWeights[m])
    OBVIOUS
  <1>3. /\ Go(m, l)
        /\ l \in Loops /\ l.at \in Coming(loop[m]) /\ l.strategies = loop[m].strategies
        /\ l.fresh = loop[m].fresh /\ l.replay = 0
        /\ l.pc = IF lastBars[m][l.at] = None /\ Lookback > 0 THEN "history" ELSE "evaluating"
    BY <1>2, QuotesComing, TurnLoop DEF Quotes
  <1>4. l.at \in Index /\ l.at > loop[m].at /\ loop[m].fresh[l.at] # None
    BY <1>3 DEF Coming
  <1>5. Ahead(l) \subseteq Ahead(loop[m]) /\ l.at \notin Ahead(l)
    BY <1>1, <1>3, <1>4, StrategiesAssumption DEF Ahead, Index
  <1>6. LoopBars(loop[m], m)
    BY DEF BarsInv
  <1>7. LoopBars(l, m)'
    <2>1. TurnsAhead(l, m)'
      BY <1>1, <1>3, <1>5, <1>6 DEF LoopBars, TurnsAhead, Busy
    <2>2. TurnNow(l, m)'
      <3> DEFINE s == <<loop[m].strategies, m, l.at>>
      <3>1. container[s] # None => lastBars[m][l.at] # None /\ container[s] < loop[m].fresh[l.at]
        BY <1>1, <1>4, TurnComes
      <3>2. loop[m].fresh[l.at] - 0 = loop[m].fresh[l.at]
        BY <1>3, <1>4, StrategyAssumption, BoundsAssumption DEF Loops
      <3> QED
        BY <1>1, <1>3, <3>1, <3>2 DEF TurnNow
    <2>3. Remembered(l, m)'
      BY <1>1, <1>6 DEF LoopBars, Remembered
    <2>4. Cleared(l, m)'
      BY <1>3 DEF Cleared
    <2> QED
      BY <2>1, <2>2, <2>3, <2>4 DEF LoopBars
  <1> QED
    BY <1>1, <1>3, <1>5, <1>7, BarsStep DEF Busy

LEMMA HistoryBars ==
  ASSUME IInv, BarsInv, NEW m \in Mode, History(m)
  PROVE  BarsInv'
  <1>1. UNCHANGED <<loaded, lastBars, container>>
    BY DEF History, strategyState
  <1>2. PICK l \in Loops : /\ Go(m, l) /\ l.pc = "replaying" /\ loop[m].pc = "history"
                           /\ l.strategies = loop[m].strategies /\ l.at = loop[m].at
                           /\ l.fresh = loop[m].fresh
    BY HistoryLoop
  <1>3. LoopBars(loop[m], m)
    BY DEF BarsInv
  <1>4. LoopBars(l, m)'
    BY <1>1, <1>2, <1>3 DEF LoopBars, TurnsAhead, TurnNow, Remembered, Cleared, Busy, Ahead
  <1>5. Ahead(l) \subseteq Ahead(loop[m])
    BY <1>2 DEF Ahead
  <1> QED
    BY <1>1, <1>2, <1>4, <1>5, BarsStep DEF Busy

\* The container has seen the bar it is given.
LEMMA GiveBars ==
  ASSUME IInv, BarsInv, NEW m \in Mode, Replay(m) \/ OnData(m)
  PROVE  BarsInv'
  <1>1. loop[m].pc \in {"replaying", "evaluating"} /\ UNCHANGED <<loaded, lastBars>>
        /\ container' = [container EXCEPT ![Current(m)] = NextBarOf(m)]
    BY DEF Replay, OnData, Give
  <1>2. /\ loop[m] \in Loops /\ LoopKnows(loop[m], m)
        /\ loop[m].at \in Index /\ loop[m].replay \in Nat
        /\ loop[m].fresh[loop[m].at] \in (Lookback + 1)..MaxBar
    BY <1>1, GiveTypes
  <1>3. Current(m) \in Instance
    BY <1>1, <1>2, InstanceOf DEF Current, Busy
  <1>4. \A s \in Instance : container'[s] = IF s = Current(m) THEN NextBarOf(m) ELSE container[s]
    BY <1>1, <1>3 DEF IInv, TypeOK
  <1>5. PICK l \in Loops :
          /\ Go(m, l) /\ l.pc \in {"replaying", "evaluating", "answered"}
          /\ l.strategies = loop[m].strategies /\ l.at = loop[m].at /\ l.fresh = loop[m].fresh
          /\ l.pc # "answered" => l.replay = loop[m].replay - 1
    <2>1. CASE Replay(m)
      BY <2>1, ReplayLoop
    <2>2. CASE OnData(m)
      BY <2>2, OnDataLoop
    <2> QED
      BY <2>1, <2>2
  <1>6. Ahead(l) = Ahead(loop[m]) /\ l.at \notin Ahead(l) /\ Ahead(l) \subseteq Index
    BY <1>1, <1>2, <1>5, StrategiesAssumption DEF Ahead, Index
  <1>7. LoopBars(loop[m], m)
    BY DEF BarsInv
  <1>8. TurnsAhead(l, m)'
    <2>1. \A i \in Ahead(l) : <<l.strategies, m, i>> \in Instance
      BY <1>1, <1>5, <1>6, InstanceOf DEF Busy
    <2>2. \A i \in Ahead(l) : <<l.strategies, m, i>> # Current(m)
      BY <1>5, <1>6 DEF Current
    <2>3. \A i \in Ahead(l) : container'[<<l.strategies, m, i>>] = container[<<l.strategies, m, i>>]
      BY <1>4, <2>1, <2>2
    <2> QED
      BY <1>1, <1>5, <1>6, <1>7, <2>3 DEF LoopBars, TurnsAhead, Busy
  <1>9. TurnNow(l, m)'
    <2> DEFINE f == loop[m].fresh[loop[m].at]
               r == loop[m].replay
    <2>1. <<l.strategies, m, l.at>> = Current(m)
      BY <1>5 DEF Current
    <2>2. container'[<<l.strategies, m, l.at>>] = f - r
      BY <1>3, <1>4, <2>1 DEF NextBarOf
    <2>3. f \in Nat /\ r \in Nat
      BY <1>2, StrategyAssumption, BoundsAssumption
    <2>4. l.fresh[l.at] = f /\ (l.pc # "answered" => l.replay = r - 1)
      BY <1>5
    <2> HIDE DEF f, r
    <2>5. f - r <= f /\ f - r < f - (r - 1)
      BY <2>3
    <2> QED
      BY <1>5, <2>2, <2>4, <2>5 DEF TurnNow
  <1>10. Remembered(l, m)'
    <2> SUFFICES ASSUME NEW i \in Index, NEW s, s = <<loaded.load, m, i>>, s \in Instance,
                        container'[s] # None
                 PROVE  \/ lastBars[m][i] # None /\ container'[s] <= lastBars[m][i]
                        \/ /\ l.pc \in {"replaying", "evaluating", "answered"}
                           /\ l.strategies = loaded.load /\ l.at = i
      BY <1>1 DEF Remembered
    <2>1. CASE s = Current(m)
      BY <1>5, <2>1 DEF Current
    <2>2. CASE s # Current(m)
      <3>1. container'[s] = container[s]
        BY <1>4, <2>2
      <3> QED
        BY <1>5, <1>7, <3>1 DEF LoopBars, Remembered
    <2> QED
      BY <2>1, <2>2
  <1>11. Cleared(l, m)'
    BY <1>5 DEF Cleared
  <1>12. LoopBars(l, m)'
    BY <1>8, <1>9, <1>10, <1>11 DEF LoopBars
  <1>13. Current(m)[3] \notin Ahead(l)
    BY <1>5, <1>6 DEF Current
  <1> QED
    BY <1>1, <1>4, <1>5, <1>6, <1>12, <1>13, BarsStep DEF Busy

\* The container of a failed evaluation is closed.
LEMMA EvaluationFailsBars ==
  ASSUME IInv, BarsInv, NEW m \in Mode, EvaluationFails(m)
  PROVE  BarsInv'
  <1>1. /\ loop[m].pc \in {"replaying", "evaluating"} /\ UNCHANGED <<loaded, lastBars>>
        /\ container' = [container EXCEPT ![Current(m)] = None]
        /\ Go(m, At(m, "reporting"))
    BY DEF EvaluationFails, Report
  <1>2. Current(m) \in Instance
    BY <1>1, GiveTypes, InstanceOf DEF Current, Busy
  <1>3. \A s \in Instance : container'[s] = IF s = Current(m) THEN None ELSE container[s]
    BY <1>1, <1>2 DEF IInv, TypeOK
  <1>4. PICK l : l = At(m, "reporting")
    OBVIOUS
  <1>5. l.pc = "reporting"
    BY <1>1, <1>4, ReportLoop
  <1>6. LoopBars(loop[m], m)
    BY DEF BarsInv
  <1>7. LoopBars(l, m)'
    <2>1. Remembered(l, m)'
      <3> SUFFICES ASSUME NEW i \in Index, NEW s, s = <<loaded.load, m, i>>, s \in Instance,
                          container'[s] # None
                   PROVE  lastBars[m][i] # None /\ container'[s] <= lastBars[m][i]
        BY <1>1 DEF Remembered
      <3>1. s # Current(m) /\ container'[s] = container[s]
        BY <1>3
      <3>2. ~(loop[m].strategies = loaded.load /\ loop[m].at = i)
        BY <3>1 DEF Current
      <3> QED
        BY <1>6, <3>1, <3>2 DEF LoopBars, Remembered
    <2>2. TurnsAhead(l, m)' /\ TurnNow(l, m)' /\ Cleared(l, m)'
      BY <1>5 DEF TurnsAhead, TurnNow, Cleared, Busy
    <2> QED
      BY <2>1, <2>2 DEF LoopBars
  <1> QED
    BY <1>1, <1>3, <1>4, <1>5, <1>7, BarsStep DEF Busy

\* The bar a strategy answered is its last.
LEMMA ContinueBars ==
  ASSUME IInv, BarsInv, NEW m \in Mode, NEW result \in Result \cup {None}, Continue(m, result)
  PROVE  BarsInv'
  <1>1. PICK l \in Loops, weights \in Targets :
           /\ LoopKnows(l, m) /\ l.pc = "answered" /\ loop[m].pc = "answered" /\ l.at \in Index
           /\ l.strategies = loop[m].strategies /\ l.at = loop[m].at /\ l.fresh = loop[m].fresh
           /\ l.fresh[l.at] \in (Lookback + 1)..MaxBar
           /\ lastBars' = [lastBars EXCEPT ![m][l.at] = l.fresh[l.at]]
           /\ \/ Coming(l) = {} /\ Conclude(m, Carried(l, weights), l.hold, weights)
              \/ Coming(l) # {} /\ Go(m, Turn(m, l, weights)) /\ UNCHANGED pending
           /\ UNCHANGED <<providerState, loaded, container, executed>>
    BY ContinueTypes
  <1>2. /\ \A q \in Mode : q # m => lastBars'[q] = lastBars[q]
        /\ \A i \in Index : lastBars'[m][i] = IF i = l.at THEN l.fresh[l.at] ELSE lastBars[m][i]
    BY <1>1 DEF IInv, TypeOK
  <1>3. LoopBars(loop[m], m)
    BY DEF BarsInv
  <1>4. ASSUME NEW k PROVE Remembered(k, m)'
    <2> SUFFICES ASSUME NEW i \in Index, NEW s, s = <<loaded.load, m, i>>, s \in Instance,
                        container[s] # None
                 PROVE  lastBars'[m][i] # None /\ container[s] <= lastBars'[m][i]
      BY <1>1 DEF Remembered
    <2>1. CASE i # l.at
      <3>1. lastBars[m][i] # None /\ container[s] <= lastBars[m][i]
        BY <1>1, <1>3, <2>1 DEF LoopBars, Remembered
      <3> QED
        BY <1>2, <2>1, <3>1
    <2>2. CASE i = l.at /\ loop[m].strategies = loaded.load
      <3>1. container[s] <= l.fresh[l.at]
        BY <1>1, <1>3, <2>2 DEF LoopBars, TurnNow
      <3>2. l.fresh[l.at] # None
        BY <1>1, NoneAssumption, StrategyAssumption
      <3> QED
        BY <1>2, <2>2, <3>1, <3>2
    <2>3. loop[m].strategies = loaded.load
      <3>1. loop[m].pc \in Busy
        BY <1>1 DEF Busy
      <3>2. s[1] = loaded.load /\ s[2] = m
        OBVIOUS
      <3>3. loaded.load <= loop[m].strategies
        BY <3>1, <3>2 DEF BarsInv, NewLoads
      <3>4. loop[m].strategies \in Nat /\ loaded.load \in Nat /\ loop[m].strategies <= loaded.load
        BY <1>1, <3>1, InstanceOf
      <3> QED
        BY <3>3, <3>4
    <2> QED
      BY <2>1, <2>2, <2>3
  <1>5. CASE Coming(l) = {} /\ Conclude(m, Carried(l, weights), l.hold, weights)
    <2>1. Carried(l, weights) \in Targets
      BY CarriedTargets
    <2>2. PICK k \in Loops : Go(m, k) /\ k.pc \in {"sleeping", "reporting", "sending"}
      BY <1>1, <1>5, <2>1, ConcludeLoop
    <2>3. LoopBars(k, m)'
      BY <1>4, <2>2 DEF LoopBars, TurnsAhead, TurnNow, Cleared, Busy
    <2> QED
      BY <1>1, <1>2, <2>2, <2>3, BarsStep DEF Busy
  <1>6. CASE Coming(l) # {} /\ Go(m, Turn(m, l, weights))
    <2>1. PICK k : k = Turn(m, l, weights)
      OBVIOUS
    <2>2. /\ Go(m, k) /\ k \in Loops /\ k.at \in Coming(l)
          /\ k.strategies = loop[m].strategies /\ k.fresh = loop[m].fresh /\ k.replay = 0
          /\ k.pc = IF lastBars[m][k.at] = None /\ Lookback > 0 THEN "history" ELSE "evaluating"
      BY <1>1, <1>6, <2>1, TurnLoop
    <2>3. k.at \in Index /\ k.at > loop[m].at /\ loop[m].fresh[k.at] # None /\ k.at # l.at
      BY <1>1, <2>2, StrategiesAssumption DEF Coming, Index
    <2>4. Ahead(k) \subseteq Ahead(loop[m]) /\ k.at \notin Ahead(k) /\ l.at \notin Ahead(k)
      BY <1>1, <2>2, <2>3, StrategiesAssumption DEF Ahead, Index
    <2>5. TurnsAhead(k, m)'
      <3>1. Ahead(k) \subseteq Index /\ \A i \in Ahead(k) : lastBars'[m][i] = lastBars[m][i]
        BY <1>2, <2>4 DEF Ahead
      <3> QED
        BY <1>1, <1>3, <2>2, <2>4, <3>1 DEF LoopBars, TurnsAhead, Busy
    <2>6. TurnNow(k, m)'
      <3> DEFINE s == <<loop[m].strategies, m, k.at>>
      <3>1. container[s] # None => lastBars[m][k.at] # None /\ container[s] < loop[m].fresh[k.at]
        BY <1>1, <2>3, TurnComes
      <3>2. loop[m].fresh[k.at] - 0 = loop[m].fresh[k.at]
        BY <2>2, <2>3, StrategyAssumption, BoundsAssumption DEF Loops
      <3> QED
        BY <1>1, <2>2, <3>1, <3>2 DEF TurnNow
    <2>7. Cleared(k, m)'
      BY <2>2 DEF Cleared
    <2>8. LoopBars(k, m)'
      BY <1>4, <2>5, <2>6, <2>7 DEF LoopBars
    <2> QED
      BY <1>1, <1>2, <2>2, <2>4, <2>8, BarsStep DEF Busy
  <1> QED
    BY <1>1, <1>5, <1>6

\* The strategies change together with what is known of their bars, and the
\* loops still at work with the old ones have no container left to turn to.
LEMMA LoadFinishBars ==
  ASSUME IInv, BarsInv, NEW m \in Mode, LoadFinish(m)
  PROVE  BarsInv'
  <1>1. /\ loop[m].pc = "loading" /\ loop[m].closing = {} /\ UNCHANGED container
        /\ loaded'.load = loaded.load + 1 /\ loaded.load \in 0..MaxLoads /\ loaded.load < MaxLoads
        /\ \A q \in Mode : lastBars'[q] = Nothing
        /\ Go(m, Loaded(m, loaded.load + 1))
    BY DEF LoadFinish, IInv, TypeOK, LoadingAlone
  <1>2. loaded.load \in Nat /\ loaded.load + 1 \in 0..MaxLoads
    BY <1>1, BoundsAssumption
  <1>3. PICK l : l = Loaded(m, loaded.load + 1)
    OBVIOUS
  <1>4. \/ l.pc = "clearing"
        \/ l.pc = "reading" /\ l.strategies = loaded.load + 1 /\ l.fresh = Nothing
    BY <1>1, <1>2, <1>3, LoadedLoop
  <1>5. loop'[m] = l /\ \A q \in Mode : q # m => loop'[q] = loop[q]
    BY <1>1, <1>3 DEF Go, IInv, TypeOK
  <1>6. \A s \in Instance : s[1] = loaded.load + 1 => container[s] = None
    BY <1>2 DEF BarsInv, NewLoads
  <1>7. ASSUME NEW q \in Mode, NEW k
        PROVE  Remembered(k, q)' /\ Cleared(k, q)'
    <2>1. Remembered(k, q)'
      <3>1. \A i : <<loaded.load + 1, q, i>>[1] = loaded.load + 1
        OBVIOUS
      <3> QED
        BY <1>1, <1>6, <3>1 DEF Remembered
    <2>2. Cleared(k, q)'
      BY <1>1, <1>6 DEF Cleared, InstancesOf
    <2> QED
      BY <2>1, <2>2
  <1>8. ASSUME NEW q \in Mode, q # m PROVE LoopBars(loop[q], q)'
    <2>1. LoopBars(loop[q], q) /\ ClosedByLoad(m, q)
      BY DEF BarsInv
    <2>2. loop'[q] = loop[q]
      BY <1>5, <1>8
    <2>3. CASE loop[q].pc \in Busy
      <3>1. loop[q].strategies \in 1..loaded.load /\ Ahead(loop[q]) \subseteq Index
        BY <2>1, <2>3 DEF LoopBars, TurnsAhead, Ahead
      <3>2. loop[q].strategies \in 1..(loaded.load + 1) /\ loop[q].strategies # loaded.load + 1
        BY <1>2, <3>1
      <3>3. \A i \in Ahead(loop[q]) : container[<<loop[q].strategies, q, i>>] = None
        BY <1>1, <2>1, <2>3 DEF LoopBars, TurnsAhead, ClosedByLoad
      <3>4. TurnsAhead(loop[q], q)'
        BY <1>1, <2>2, <3>2, <3>3 DEF TurnsAhead, Ahead
      <3>5. TurnNow(loop[q], q)'
        BY <1>1, <2>1, <2>2 DEF LoopBars, TurnNow
      <3> QED
        BY <1>7, <2>2, <3>4, <3>5 DEF LoopBars
    <2>4. CASE loop[q].pc \notin Busy
      <3>1. TurnsAhead(loop[q], q)' /\ TurnNow(loop[q], q)'
        BY <2>4, <2>2 DEF TurnsAhead, TurnNow, Busy
      <3> QED
        BY <1>7, <2>2, <3>1 DEF LoopBars
    <2> QED
      BY <2>3, <2>4
  <1>9. LoopBars(l, m)'
    <2>1. loaded.load + 1 \in 1..(loaded.load + 1)
      BY <1>2
    <2>2. TurnsAhead(l, m)'
      BY <1>1, <1>4, <2>1 DEF TurnsAhead, Busy, Ahead, Nothing
    <2>3. TurnNow(l, m)'
      BY <1>4 DEF TurnNow
    <2> QED
      BY <1>7, <2>2, <2>3 DEF LoopBars
  <1>10. NewLoads'
    <2> SUFFICES ASSUME NEW s \in Instance, container[s] # None
                 PROVE  s[1] <= loaded.load + 1 /\ (loop'[s[2]].pc \in Busy => s[1] <= loop'[s[2]].strategies)
      BY <1>1 DEF NewLoads
    <2>1. s[1] \in Nat /\ s[2] \in Mode
      BY BoundsAssumption DEF Instance
    <2>2. s[1] <= loaded.load /\ (loop[s[2]].pc \in Busy => s[1] <= loop[s[2]].strategies)
      BY DEF BarsInv, NewLoads
    <2>3. s[1] <= loaded.load + 1
      BY <1>2, <2>1, <2>2
    <2> QED
      BY <1>4, <1>5, <2>1, <2>2, <2>3 DEF Busy
  <1>11. \A q, k \in Mode : ClosedByLoad(q, k)'
    <2>1. \A q \in Mode : loop'[q].pc # "loading"
      BY <1>1, <1>4, <1>5 DEF IInv, LoadingAlone
    <2> QED
      BY <2>1 DEF ClosedByLoad
  <1>12. Numbered'
    BY <1>1, <1>2 DEF Numbered
  <1> QED
    BY <1>5, <1>8, <1>9, <1>10, <1>11, <1>12 DEF BarsInv

LEMMA InitBars == Init => BarsInv
  <1> SUFFICES ASSUME Init PROVE BarsInv
    OBVIOUS
  <1>1. /\ \A s \in Instance : container[s] = None
        /\ \A m \in Mode : loop[m].pc = "sleeping"
        /\ loaded.revision = None
    BY Locals DEF Init
  <1>2. NewLoads /\ Numbered
    BY <1>1 DEF NewLoads, Numbered
  <1>3. ASSUME NEW m \in Mode PROVE LoopBars(loop[m], m)
    BY <1>1 DEF LoopBars, TurnsAhead, TurnNow, Remembered, Cleared, Busy
  <1>4. ASSUME NEW q \in Mode, NEW m \in Mode PROVE ClosedByLoad(q, m)
    BY <1>1 DEF ClosedByLoad
  <1> QED
    BY <1>2, <1>3, <1>4 DEF BarsInv

LEMMA RestartBars ==
  ASSUME IInv, Restart
  PROVE  BarsInv'
  <1>1. /\ \A s \in Instance : container'[s] = None
        /\ \A m \in Mode : loop'[m].pc = "sleeping"
        /\ loaded'.revision = None
    BY Locals DEF Restart
  <1>2. NewLoads' /\ Numbered'
    BY <1>1 DEF NewLoads, Numbered
  <1>3. ASSUME NEW m \in Mode PROVE LoopBars(loop[m], m)'
    BY <1>1 DEF LoopBars, TurnsAhead, TurnNow, Remembered, Cleared, Busy
  <1>4. ASSUME NEW q \in Mode, NEW m \in Mode PROVE ClosedByLoad(q, m)'
    BY <1>1 DEF ClosedByLoad
  <1> QED
    BY <1>2, <1>3, <1>4 DEF BarsInv

\* What the strategies and the loops do not take part in changes nothing here.
LEMMA OutsideBars ==
  ASSUME BarsInv, UNCHANGED <<strategyState, loop>>
  PROVE  BarsInv'
  <1>1. UNCHANGED <<loaded, container, lastBars, loop>>
    BY DEF strategyState
  <1>2. Numbered' /\ NewLoads'
    BY <1>1 DEF BarsInv, Numbered, NewLoads
  <1>3. ASSUME NEW m \in Mode PROVE LoopBars(loop[m], m)'
    BY <1>1 DEF BarsInv, LoopBars, TurnsAhead, TurnNow, Remembered, Cleared, Ahead
  <1>4. ASSUME NEW q \in Mode, NEW m \in Mode PROVE ClosedByLoad(q, m)'
    BY <1>1 DEF BarsInv, ClosedByLoad, Ahead
  <1> QED
    BY <1>2, <1>3, <1>4 DEF BarsInv

LEMMA NextBars == IInv /\ BarsInv /\ [Next]_vars => BarsInv'
  <1> SUFFICES ASSUME IInv, BarsInv, [Next]_vars PROVE BarsInv'
    OBVIOUS
  <1>1. CASE UNCHANGED vars
    BY <1>1, OutsideBars DEF vars
  <1>2. CASE Restart
    BY <1>2, RestartBars
  <1>3. CASE Configure \/ NextBar \/ \E m \in Mode : CloseGate(m) \/ Reopen(m)
    BY <1>3, OutsideBars DEF Configure, NextBar, CloseGate, Reopen
  <1>4. ASSUME NEW m \in Mode, Cycle(m) PROVE BarsInv'
    <2>1. CASE Continue(m, None)
      BY <2>1, ContinueBars
    <2>2. ASSUME NEW over \in Overs, Continue(m, Target(m, over)) PROVE BarsInv'
      <3>1. loop[m].pc # "sleeping"
        BY <2>2 DEF Continue
      <3>2. Target(m, over) \in Result
        BY <3>1, TargetType
      <3> QED
        BY <2>2, <3>2, ContinueBars
    <2>3. CASE \E complete \in BOOLEAN : ReadBar(m, complete)
      BY <2>3, ReadBarBars
    <2>4. CASE LoadStart(m) \/ CloseStrategy(m) \/ AlreadyLoaded(m) \/ LoadFinish(m) \/ Forget(m)
      BY <2>4, LoadStartBars, CloseStrategyBars, AlreadyLoadedBars, LoadFinishBars, ForgetBars
    <2>5. CASE Quotes(m) \/ History(m) \/ Replay(m) \/ OnData(m) \/ EvaluationFails(m)
      BY <2>5, QuotesBars, HistoryBars, GiveBars, EvaluationFailsBars
    <2> QED
      BY <1>4, <2>1, <2>2, <2>3, <2>4, <2>5, LeavesBars DEF Cycle
  <1> QED
    BY <1>1, <1>2, <1>3, <1>4 DEF Next
-----------------------------------------------------------------------------
\* The invariant holds in every behaviour of the worker (cycle).
THEOREM Inductive == Spec => []IInv
  BY InitInv, NextInv, PTL DEF Spec

\* The variables have their types, and a loop that is awake has polled.
THEOREM TypeCorrect == Spec => []TypeOK
  <1>1. IInv => TypeOK
    BY DEF IInv
  <1> QED
    BY <1>1, Inductive, PTL

\* What the provider carries out holds a target of every strategy of its mode,
\* also when it is sent again, and also after a load changed the weights while
\* the strategies were evaluated (cycle, send_rebalance).
THEOREM OnlyCompleteTargets == Spec => []TargetsComplete
  <1>1. IInv => TargetsComplete
    BY DEF IInv
  <1> QED
    BY <1>1, Inductive, PTL

\* A stale failure closes nothing: a report that closes a mode was made under
\* the permission the mode is open under (fail, Provider.admit).
THEOREM StaleFailures == Spec => FailureClosesOwnPermit
  <1> DEFINE Own == \A m \in Mode :
               gate[m] /\ ~gate'[m] /\ loop'[m] # loop[m] /\ version' = version =>
                 opened[m] = loop[m].state.permit
  <1>1. IInv /\ [Next]_vars => [Own]_vars
    <2> SUFFICES ASSUME IInv, Next, NEW m \in Mode,
                        gate[m], ~gate'[m], loop'[m] # loop[m], version' = version
                 PROVE  opened[m] = loop[m].state.permit
      OBVIOUS
    <2>1. PICK q \in Mode : ReportFailure(q)
      <3>1. ASSUME NEW q \in Mode, Cycle(q), ~ReportFailure(q) PROVE gate' = gate
        <4>1. CASE Poll(q) \/ PollFails(q) \/ Resend(q) \/ AlreadyLoaded(q) \/ LoadStart(q)
          BY <4>1 DEF Poll, PollFails, Resend, AlreadyLoaded, LoadStart, providerState
        <4>2. CASE CloseStrategy(q) \/ CloseFails(q) \/ LoadFails(q) \/ LoadFinish(q) \/ Forget(q)
          BY <4>2 DEF CloseStrategy, CloseFails, LoadFails, LoadFinish, Forget, providerState
        <4>3. CASE (\E complete \in BOOLEAN : ReadBar(q, complete)) \/ Quotes(q) \/ History(q)
                   \/ ReadFails(q)
          BY <4>3 DEF ReadBar, Quotes, History, ReadFails, providerState
        <4>4. CASE Replay(q) \/ OnData(q) \/ EvaluationFails(q)
          BY <4>4 DEF Replay, OnData, EvaluationFails, providerState
        <4>5. CASE Continue(q, None) \/ \E over \in Overs : Continue(q, Target(q, over))
          BY <4>5 DEF Continue, providerState
        <4>6. CASE ReportLost(q) \/ Accept(q) \/ AnswerLost(q) \/ Refused(q)
          BY <4>6 DEF ReportLost, Accept, AnswerLost, Refused, providerState
        <4> QED
          BY <3>1, <4>1, <4>2, <4>3, <4>4, <4>5, <4>6 DEF Cycle
      <3>2. ASSUME NEW q \in Mode, CloseGate(q) \/ Reopen(q) PROVE loop' = loop
        BY <3>2 DEF CloseGate, Reopen
      <3>3. Configure \/ NextBar => loop' = loop
        BY DEF Configure, NextBar
      <3>4. ~Restart
        BY BoundsAssumption DEF Restart, IInv, TypeOK
      <3> QED
        BY <3>1, <3>2, <3>3, <3>4 DEF Next
    <2>2. q = m /\ Admissible(m, loop[m].state)
      BY <2>1 DEF ReportFailure, Sleep, Go, IInv, TypeOK
    <2> QED
      BY <2>1, <2>2 DEF ReportFailure, Admissible, IInv, LoopsKnow, LoopKnows
  <1> QED
    BY <1>1, Inductive, PTL DEF Spec, FailureClosesOwnPermit


\* A container is never given a bar again: while the loop of one mode is between
\* two awaits of its evaluation another may load a configuration, which closes
\* the containers and drops the last bars, and a closed mode does the same with
\* its own (cycle, replay, load_configuration, SandboxedStrategy.on_data).
THEOREM BarsGivenOnce == Spec => []BarOnce
  <1>1. IInv /\ BarsInv => BarOnce
    <2> SUFFICES ASSUME IInv, BarsInv, NEW m \in Mode, loop[m].pc \in {"replaying", "evaluating"},
                        container[Current(m)] # None
                 PROVE  container[Current(m)] < NextBarOf(m)
      BY DEF BarOnce
    <2> QED
      BY DEF BarsInv, LoopBars, TurnNow, Current, NextBarOf
  <1>2. Spec => []BarsInv
    BY Inductive, InitBars, NextBars, PTL DEF Spec
  <1> QED
    BY <1>1, <1>2, Inductive, PTL
=============================================================================
