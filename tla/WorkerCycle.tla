----------------------------- MODULE WorkerCycle -----------------------------
(***************************************************************************)
(* The strategy worker (src/control/worker.py): one loop for each mode     *)
(* polls the provider's state, loads the configuration, evaluates the      *)
(* strategies on new bars in their containers and sends rebalances.        *)
(*                                                                         *)
(* The worker learns of the gates only by polling, and its loops share the *)
(* loaded strategies, last weights, last bars and pending rebalances.  One *)
(* action is the code between two awaits of a loop, or what a container    *)
(* does in its thread while the loop awaits it.                            *)
(*                                                                         *)
(* The provider is what the worker sees of it: gates, a control version    *)
(* and a configuration revision, which changes only while every gate is    *)
(* closed (ConfigChangesOnlyAtRest of ProviderGate).  Weights are where    *)
(* they come from, the configuration and the permission (the version the   *)
(* mode was opened at) of their evaluation, and whether they sum to more   *)
(* than one.                                                               *)
(***************************************************************************)
EXTENDS Naturals

CONSTANTS
  Mode,         \* the trading modes: one loop each
  Strategies,   \* every mode runs the strategies 1..Strategies
  Lookback,     \* how many bars of history a strategy declares; 0: none
  Overs,        \* whether returned weights sum to more than one: some of BOOLEAN
  None,         \* not there
  MaxVersion,   \* bound: control versions
  MaxRevision,  \* bound: configurations
  MaxLoads,     \* bound: configurations loaded
  MaxBar        \* bound: completed bars, the first history included

ASSUME StrategiesAssumption == Strategies \in Nat \ {0}
ASSUME StrategyAssumption == Lookback \in Nat /\ Overs \subseteq BOOLEAN
ASSUME BoundsAssumption ==
  /\ MaxVersion \in Nat /\ MaxRevision \in Nat /\ MaxLoads \in Nat /\ MaxBar \in Nat
  /\ MaxBar > Lookback
ASSUME NoneAssumption == None \notin Nat

Index == 1..Strategies
\* Sandbox objects: every load makes new ones.
Instance == (1..MaxLoads) \X Mode \X Index

VARIABLES
  gate,        \* provider: which modes are open
  opened,      \* history: the version each mode was last opened at
  version,     \* provider: the control version
  revision,    \* provider: the configuration revision
  bar,         \* the latest completed bar
  loaded,      \* Worker.revision, and the load that made Worker.strategies
  container,   \* of each instance: the last bar its container was given
  lastBars,    \* Worker.last_bars
  lastWeights, \* Worker.last_weights and target_bars
  pending,     \* Worker.pending_rebalances: the weights
  loop,        \* the loop of each mode with its local variables
  executed     \* history: the last rebalance the provider carried out per mode

providerState == <<gate, opened, version, revision, bar>>
strategyState == <<loaded, container, lastBars, lastWeights>>
vars == <<providerState, strategyState, pending, loop, executed>>

-----------------------------------------------------------------------------
Nothing == [i \in Index |-> None]

\* What a poll returns of mode m; version and revision are its context.
State(m) == [open |-> gate[m], version |-> version, revision |-> revision, permit |-> opened[m]]

Sleeping == [pc |-> "sleeping", state |-> None, strategies |-> 0, closing |-> {}, at |-> 0,
             fresh |-> Nothing, replay |-> 0, targets |-> Nothing, hold |-> TRUE]

\* Mutant: the control version of a context is not compared.
AdmissibleAnyVersion(m, c) == gate[m] /\ c.revision = revision

\* Provider.admit of a context.
Admissible(m, c) == gate[m] /\ c.version = version /\ c.revision = revision

\* The strategies of one returned more than the provider takes: weights of all
\* its strategies, each fully invested, then sum to more than one.
Excess(targets) == \E i \in Index : targets[i] # None /\ targets[i].over

\* The loop of a mode, after its poll, at a place of the cycle.
At(m, pc)   == [Sleeping EXCEPT !.pc = pc, !.state = loop[m].state]
Go(m, l)    == loop' = [loop EXCEPT ![m] = l]
Sleep(m)    == Go(m, Sleeping)
Report(m)   == Go(m, At(m, "reporting"))
Loading     == {q \in Mode : loop[q].pc = "loading"}

\* Where an exception leads: an open mode reports it.
Raise(m) == IF loop[m].state.open THEN Report(m) ELSE Sleep(m)

InstancesOf(load, m) == {s \in Instance : s[1] = load /\ s[2] = m}

\* load_configuration returned: a closed mode goes on to close its containers,
\* an open one to read the bars of its strategies.
Loaded(m, load) ==
  IF loop[m].state.open
  THEN [At(m, "reading") EXCEPT !.strategies = load, !.at = 1]
  ELSE [At(m, "clearing") EXCEPT !.closing = InstancesOf(load, m)]

Init ==
  /\ gate = [m \in Mode |-> FALSE]
  /\ opened = [m \in Mode |-> 0]
  /\ version = 0
  /\ revision = 0
  /\ bar = Lookback + 1
  /\ loaded = [revision |-> None, load |-> 0]
  /\ container = [s \in Instance |-> None]
  /\ lastBars = [m \in Mode |-> Nothing]
  /\ lastWeights = [m \in Mode |-> Nothing]
  /\ pending = [m \in Mode |-> None]
  /\ loop = [m \in Mode |-> Sleeping]
  /\ executed = [m \in Mode |-> None]

-----------------------------------------------------------------------------
(* Worker.cycle: the state and the configuration                           *)

\* GET internal/state
Poll(m) ==
  /\ loop[m].pc = "sleeping"
  /\ Go(m, [Sleeping EXCEPT !.pc = "polled", !.state = State(m)])
  /\ UNCHANGED <<providerState, strategyState, pending, executed>>

\* The call fails and the loop sleeps.
PollFails(m) ==
  /\ loop[m].pc = "polled"
  /\ Sleep(m)
  /\ UNCHANGED <<providerState, strategyState, pending, executed>>

\* A pending rebalance of this configuration is sent again, under the context
\* just polled, before anything else is done for an open mode.
Resends(m) == loop[m].state.open /\ pending[m] # None /\ loaded.revision = loop[m].state.revision

Resend(m) ==
  /\ loop[m].pc = "polled"
  /\ Resends(m)
  /\ Go(m, [At(m, "sending") EXCEPT !.targets = pending[m]])
  /\ UNCHANGED <<providerState, strategyState, pending, executed>>

\* load_configuration returns at once: the lock is free, the revision loaded.
AlreadyLoaded(m) ==
  /\ loop[m].pc = "polled"
  /\ ~Resends(m)
  /\ Loading = {}
  /\ loaded.revision = loop[m].state.revision
  /\ Go(m, Loaded(m, loaded.load))
  /\ UNCHANGED <<providerState, strategyState, pending, executed>>

\* load_configuration has the lock and finds another revision.
LoadStart(m) ==
  /\ loop[m].pc = "polled"
  /\ Loading = {}
  /\ loaded.revision # loop[m].state.revision
  /\ loaded.load < MaxLoads
  /\ Go(m, [At(m, "loading") EXCEPT !.closing = {s \in Instance : s[1] = loaded.load}])
  /\ UNCHANGED <<providerState, strategyState, pending, executed>>

\* The instances that may be closed next: those of a mode one after the other.
Closes(m) == {s \in loop[m].closing : \A t \in loop[m].closing : t[2] = s[2] => s[3] <= t[3]}

\* Mutant: closing leaves the container running.
CloseNothing(m) ==
  /\ loop[m].pc \in {"loading", "clearing"}
  /\ \E s \in Closes(m) : Go(m, [loop[m] EXCEPT !.closing = @ \ {s}])
  /\ UNCHANGED <<providerState, strategyState, pending, executed>>

\* The containers are closed one at a time: those of all modes for another
\* configuration, those of the mode when it was found closed.
CloseStrategy(m) ==
  /\ loop[m].pc \in {"loading", "clearing"}
  /\ \E s \in Closes(m) :
       /\ container' = [container EXCEPT ![s] = None]
       /\ Go(m, [loop[m] EXCEPT !.closing = @ \ {s}])
  /\ UNCHANGED <<providerState, loaded, lastBars, lastWeights, pending, executed>>

\* Removing a running container raises; it is let go all the same.
CloseFails(m) ==
  /\ loop[m].pc \in {"loading", "clearing"}
  /\ \E s \in Closes(m) :
       container[s] # None /\ container' = [container EXCEPT ![s] = None]
  /\ Raise(m)
  /\ UNCHANGED <<providerState, loaded, lastBars, lastWeights, pending, executed>>

\* Checking a package raises.
LoadFails(m) ==
  /\ loop[m].pc = "loading"
  /\ loop[m].closing = {}
  /\ Raise(m)
  /\ UNCHANGED <<providerState, strategyState, pending, executed>>

\* The new strategies are in place and everything known of the old is dropped.
LoadFinish(m) ==
  /\ loop[m].pc = "loading"
  /\ loop[m].closing = {}
  /\ loaded' = [revision |-> loop[m].state.revision, load |-> loaded.load + 1]
  /\ lastBars' = [q \in Mode |-> Nothing]
  /\ lastWeights' = [q \in Mode |-> Nothing]
  /\ pending' = [q \in Mode |-> None]
  /\ Go(m, Loaded(m, loaded.load + 1))
  /\ UNCHANGED <<providerState, container, executed>>

\* Mutant: a closed mode keeps its pending rebalance.
ForgetKeepingPending(m) ==
  /\ loop[m].pc = "clearing"
  /\ loop[m].closing = {}
  /\ lastBars' = [lastBars EXCEPT ![m] = Nothing]
  /\ lastWeights' = [lastWeights EXCEPT ![m] = Nothing]
  /\ Sleep(m)
  /\ UNCHANGED <<providerState, loaded, container, pending, executed>>

\* The containers of a closed mode are closed: bars, weights and the pending
\* rebalance go.
Forget(m) ==
  /\ loop[m].pc = "clearing"
  /\ loop[m].closing = {}
  /\ lastBars' = [lastBars EXCEPT ![m] = Nothing]
  /\ lastWeights' = [lastWeights EXCEPT ![m] = Nothing]
  /\ pending' = [pending EXCEPT ![m] = None]
  /\ Sleep(m)
  /\ UNCHANGED <<providerState, loaded, container, executed>>

-----------------------------------------------------------------------------
(* Worker.cycle: the evaluation                                            *)

First(S) == CHOOSE i \in S : \A j \in S : i <= j

\* The strategies with a fresh bar whose turn is still to come.
Coming(l) == {j \in Index : j > l.at /\ l.fresh[j] # None}

\* The strategies up to the next with a fresh bar stay with their last targets.
Carried(l, weights) ==
  [j \in Index |-> IF j > l.at /\ \A k \in Coming(l) : j < k THEN weights[j] ELSE l.targets[j]]

\* The turn of the next strategy: without a last bar it needs its history.
Turn(m, l, weights) ==
  LET i == First(Coming(l))
  IN [l EXCEPT !.at = i, !.targets = Carried(l, weights),
               !.pc = IF lastBars[m][i] = None /\ Lookback > 0 THEN "history" ELSE "evaluating"]

\* The latest bar of one strategy is read.  It is fresh if it is later than the
\* last the strategy was given; one of an incomplete universe waits.
ReadBar(m, complete) ==
  LET l     == loop[m]
      last  == lastBars[m][l.at]
      fresh == [l.fresh EXCEPT ![l.at] =
                  IF complete /\ (last # None => bar > last) THEN bar ELSE None]
  IN /\ l.pc = "reading"
     /\ IF l.at < Strategies THEN Go(m, [l EXCEPT !.fresh = fresh, !.at = @ + 1])
        ELSE IF fresh = Nothing THEN Sleep(m)
        ELSE Go(m, [l EXCEPT !.fresh = fresh, !.at = 0, !.pc = "quoting"])
     /\ UNCHANGED <<providerState, strategyState, pending, executed>>

\* Positions, account and quotes are read; nothing the loops share is used
\* between these three.
Quotes(m) ==
  /\ loop[m].pc = "quoting"
  /\ Go(m, Turn(m, loop[m], lastWeights[m]))
  /\ UNCHANGED <<providerState, strategyState, pending, executed>>

\* replay: the bars before the one the strategy is to be given are read.
History(m) ==
  /\ loop[m].pc = "history"
  /\ Go(m, [loop[m] EXCEPT !.pc = "replaying", !.replay = Lookback])
  /\ UNCHANGED <<providerState, strategyState, pending, executed>>

\* Reading fails; the failure is reported.
ReadFails(m) ==
  /\ loop[m].pc \in {"reading", "quoting", "history"}
  /\ Report(m)
  /\ UNCHANGED <<providerState, strategyState, pending, executed>>

\* The instance whose turn it is, and the bar it is given next.
Current(m)   == <<loop[m].strategies, m, loop[m].at>>
NextBarOf(m) == loop[m].fresh[loop[m].at] - loop[m].replay

\* on_data gives the container the bar; one without a container starts it.
Give(m) == container' = [container EXCEPT ![Current(m)] = NextBarOf(m)]

\* on_data of one bar of the history; what it returns is discarded.
Replay(m) ==
  /\ loop[m].pc = "replaying"
  /\ Give(m)
  /\ Go(m, [loop[m] EXCEPT !.replay = @ - 1,
                           !.pc = IF loop[m].replay = 1 THEN "evaluating" ELSE "replaying"])
  /\ UNCHANGED <<providerState, loaded, lastBars, lastWeights, pending, executed>>

\* on_data of the fresh bar.
OnData(m) ==
  /\ loop[m].pc = "evaluating"
  /\ Give(m)
  /\ Go(m, [loop[m] EXCEPT !.pc = "answered"])
  /\ UNCHANGED <<providerState, loaded, lastBars, lastWeights, pending, executed>>

\* on_data raises or times out: the container is closed.
EvaluationFails(m) ==
  /\ loop[m].pc \in {"replaying", "evaluating"}
  /\ container' = [container EXCEPT ![Current(m)] = None]
  /\ Report(m)
  /\ UNCHANGED <<providerState, loaded, lastBars, lastWeights, pending, executed>>

\* Mutant: a bar the strategy held on is not remembered.
RememberTargetsOnly(m, result) ==
  lastBars' = IF result = None THEN lastBars
              ELSE [lastBars EXCEPT ![m][loop[m].at] = loop[m].fresh[loop[m].at]]

\* last_bars after on_data
Remember(m, result) == lastBars' = [lastBars EXCEPT ![m][loop[m].at] = loop[m].fresh[loop[m].at]]

Send(m, targets) ==
  /\ pending' = [pending EXCEPT ![m] = targets]
  /\ Go(m, [At(m, "sending") EXCEPT !.targets = targets])

\* Mutant: a mode does not wait for the first target of every strategy.
ConcludeEarly(m, targets, hold, weights) ==
  IF hold THEN Sleep(m) /\ UNCHANGED pending ELSE Send(m, targets)

\* After the last strategy: all held, one never had a target, a weight dropped
\* by another loop is missing (KeyError), or there is a rebalance to send.
Conclude(m, targets, hold, weights) ==
  IF hold \/ \E i \in Index : targets[i] = None THEN Sleep(m) /\ UNCHANGED pending
  ELSE IF \E i \in Index : weights[i] = None THEN Report(m) /\ UNCHANGED pending
  ELSE Send(m, targets)

\* The targets of an evaluation.
Target(m, over) ==
  [revision |-> loop[m].state.revision, permit |-> loop[m].state.permit, over |-> over]

\* The loop has the result of its strategy and goes on to the next, or ends.
Continue(m, result) ==
  LET was     == loop[m]
      weights == IF result = None THEN lastWeights[m]
                 ELSE [lastWeights[m] EXCEPT ![was.at] = result]
      l       == [was EXCEPT !.targets[was.at] = weights[was.at], !.hold = @ /\ result = None]
  IN /\ was.pc = "answered"
     /\ Remember(m, result)
     /\ lastWeights' = [lastWeights EXCEPT ![m] = weights]
     /\ IF Coming(l) = {} THEN Conclude(m, Carried(l, weights), l.hold, weights)
        ELSE Go(m, Turn(m, l, weights)) /\ UNCHANGED pending
     /\ UNCHANGED <<providerState, loaded, container, executed>>

\* POST internal/failure under the context of the evaluation: the provider
\* closes the mode if it admits it.
ReportFailure(m) ==
  /\ loop[m].pc = "reporting"
  /\ gate' = IF Admissible(m, loop[m].state) THEN [gate EXCEPT ![m] = FALSE] ELSE gate
  /\ Sleep(m)
  /\ UNCHANGED <<opened, version, revision, bar, strategyState, pending, executed>>

\* The report does not arrive.
ReportLost(m) ==
  /\ loop[m].pc = "reporting"
  /\ Sleep(m)
  /\ UNCHANGED <<providerState, strategyState, pending, executed>>

-----------------------------------------------------------------------------
(* Worker.send_rebalance                                                   *)

\* The provider carries out what it admits unless the weights sum to more than
\* one, which it refuses however often they are sent.
Executed(m) ==
  /\ loop[m].pc = "sending"
  /\ Admissible(m, loop[m].state)
  /\ ~Excess(loop[m].targets)
  /\ executed' = [executed EXCEPT ![m] =
       [weights |-> loop[m].targets, permit |-> opened[m], revision |-> revision]]

\* It does, and the worker learns of it.
Accept(m) ==
  /\ Executed(m)
  /\ pending' = [pending EXCEPT ![m] = None]
  /\ Sleep(m)
  /\ UNCHANGED <<providerState, strategyState>>

\* It carries it out, and the answer is lost: the rebalance stays pending.
AnswerLost(m) ==
  /\ Executed(m)
  /\ Sleep(m)
  /\ UNCHANGED <<providerState, strategyState, pending>>

\* The provider does not admit the context, refuses the weights, finds open
\* orders at the broker, or does not get the call.
Refused(m) ==
  /\ loop[m].pc = "sending"
  /\ Sleep(m)
  /\ UNCHANGED <<providerState, strategyState, pending, executed>>

-----------------------------------------------------------------------------
(* The provider, the market and the process                                *)

\* A failure of the provider's, which may be one of a rebalance it is at, closes
\* a gate, or a Stop does and moves the control version.
CloseGate(m) ==
  /\ gate[m]
  /\ gate' = [gate EXCEPT ![m] = FALSE]
  /\ version' \in {version, version + 1}
  /\ version' <= MaxVersion
  /\ UNCHANGED <<opened, revision, bar, strategyState, pending, loop, executed>>

\* A Resume opens a mode at a new control version.
Reopen(m) ==
  /\ ~gate[m]
  /\ version < MaxVersion
  /\ gate' = [gate EXCEPT ![m] = TRUE]
  /\ version' = version + 1
  /\ opened' = [opened EXCEPT ![m] = version + 1]
  /\ UNCHANGED <<revision, bar, strategyState, pending, loop, executed>>

\* A configuration is installed while every gate is closed.
Configure ==
  /\ \A m \in Mode : ~gate[m]
  /\ version < MaxVersion /\ revision < MaxRevision
  /\ version' = version + 1
  /\ revision' = revision + 1
  /\ UNCHANGED <<gate, opened, bar, strategyState, pending, loop, executed>>

NextBar ==
  /\ bar < MaxBar
  /\ bar' = bar + 1
  /\ UNCHANGED <<gate, opened, version, revision, strategyState, pending, loop, executed>>

\* A new worker process registers, which closes every gate; the containers of
\* the old one end with it.
Restart ==
  /\ version < MaxVersion
  /\ version' = version + 1
  /\ gate' = [m \in Mode |-> FALSE]
  /\ loaded' = [revision |-> None, load |-> loaded.load]
  /\ container' = [s \in Instance |-> None]
  /\ lastBars' = [m \in Mode |-> Nothing]
  /\ lastWeights' = [m \in Mode |-> Nothing]
  /\ pending' = [m \in Mode |-> None]
  /\ loop' = [m \in Mode |-> Sleeping]
  /\ UNCHANGED <<opened, revision, bar, executed>>

Cycle(m) ==
  \/ Poll(m) \/ PollFails(m) \/ Resend(m) \/ AlreadyLoaded(m)
  \/ LoadStart(m) \/ CloseStrategy(m) \/ CloseFails(m) \/ LoadFails(m) \/ LoadFinish(m)
  \/ Forget(m)
  \/ \E complete \in BOOLEAN : ReadBar(m, complete)
  \/ Quotes(m) \/ History(m) \/ ReadFails(m)
  \/ Replay(m) \/ OnData(m) \/ EvaluationFails(m)
  \/ Continue(m, None) \/ \E over \in Overs : Continue(m, Target(m, over))
  \/ ReportFailure(m) \/ ReportLost(m)
  \/ Accept(m) \/ AnswerLost(m) \/ Refused(m)

Next ==
  \/ \E m \in Mode : Cycle(m) \/ CloseGate(m) \/ Reopen(m)
  \/ Configure \/ NextBar \/ Restart

Spec == Init /\ [][Next]_vars

\* A loop always runs on, and of the calls it keeps making some are answered: a
\* poll and a load succeed now and then, and a rebalance the provider would carry
\* out does not always get lost or meet open orders.  Nothing is assumed of the
\* market, of strategies, or of what the provider refuses.
Fairness ==
  \A m \in Mode :
    /\ WF_vars(Cycle(m))
    /\ SF_vars(AlreadyLoaded(m)) /\ SF_vars(LoadStart(m))
    /\ SF_vars(CloseStrategy(m)) /\ SF_vars(LoadFinish(m))
    /\ SF_vars(Resend(m)) /\ SF_vars(Accept(m))

FairSpec == Spec /\ Fairness

-----------------------------------------------------------------------------
(* Properties                                                              *)

Result  == [revision : 0..MaxRevision, permit : 0..MaxVersion, over : Overs]
Targets == [Index -> Result \cup {None}]
PollState == [open : BOOLEAN, version : 0..MaxVersion, revision : 0..MaxRevision,
              permit : 0..MaxVersion]

Bars == 1..MaxBar
Rebalances == [weights : Targets, permit : 0..MaxVersion, revision : 0..MaxRevision]
Loops == [pc : {"sleeping", "polled", "loading", "clearing", "reading", "quoting", "history",
                "replaying", "evaluating", "answered", "reporting", "sending"},
          state : PollState \cup {None}, strategies : 0..MaxLoads, closing : SUBSET Instance,
          at : 0..Strategies, fresh : [Index -> ((Lookback + 1)..MaxBar) \cup {None}],
          replay : 0..Lookback, targets : Targets, hold : BOOLEAN]

\* The values every variable ranges over; a loop that is awake has polled.
TypeOK ==
  /\ gate \in [Mode -> BOOLEAN]
  /\ opened \in [Mode -> 0..MaxVersion]
  /\ version \in 0..MaxVersion /\ revision \in 0..MaxRevision
  /\ bar \in (Lookback + 1)..MaxBar
  /\ loaded \in [revision : (0..MaxRevision) \cup {None}, load : 0..MaxLoads]
  /\ container \in [Instance -> Bars \cup {None}]
  /\ lastBars \in [Mode -> [Index -> Bars \cup {None}]]
  /\ lastWeights \in [Mode -> Targets]
  /\ pending \in [Mode -> Targets \cup {None}]
  /\ loop \in [Mode -> Loops]
  /\ \A m \in Mode : loop[m].pc # "sleeping" => loop[m].state \in PollState
  /\ executed \in [Mode -> Rebalances \cup {None}]

\* The rebalances the provider carries out hold a target of every strategy of
\* the mode: an allocation that has not spoken yet is not traded as zero.
TargetsComplete ==
  \A m \in Mode : executed[m] # None => \A i \in Index : executed[m].weights[i] # None

\* A strategy never sees a bar twice: what a loop is about to give a container,
\* of the history or fresh, is later than all the running container has seen.
BarOnce ==
  \A m \in Mode :
    loop[m].pc \in {"replaying", "evaluating"} /\ container[Current(m)] # None =>
      container[Current(m)] < NextBarOf(m)

\* A failure closes a mode only under the permission its evaluation began with:
\* a stale failure does not close a newly resumed mode (worker.py:183-184).
FailureClosesOwnPermit ==
  [][\A m \in Mode : gate[m] /\ ~gate'[m] /\ loop'[m] # loop[m] /\ version' = version =>
       opened[m] = loop[m].state.permit]_vars

\* A rebalance that waits in the worker is carried out or dropped in the end,
\* through failing calls, reloads, Stops and Resumes, unless the provider refuses
\* its weights.
SoundPendingSettles ==
  \A m \in Mode : pending[m] # None /\ ~Excess(pending[m]) ~> pending[m] = None

\* A mode that is closed for good has no running container of its present
\* configuration in the end (worker.py:73).
ClosedModesRelease ==
  \A m \in Mode :
    <>[](~gate[m]) => <>[](\A i \in Index : <<loaded.load, m, i>> \in Instance =>
                             container[<<loaded.load, m, i>>] = None)

\* What the documentation or a test says and the code does not keep:

\* A pause discards pending targets and resets the strategies' bars, and a
\* resumed context starts with the latest bar: a rebalance rests on targets of
\* the present permission only.
ResumeStartsFresh ==
  \A m \in Mode : executed[m] # None =>
    \A i \in Index : executed[m].weights[i] # None =>
      executed[m].weights[i].permit = executed[m].permit

\* A new configuration discards pending targets: a rebalance rests on targets
\* of the present configuration only.
ConfigurationNotMixed ==
  \A m \in Mode : executed[m] # None =>
    \A i \in Index : executed[m].weights[i] # None =>
      executed[m].weights[i].revision = executed[m].revision

=============================================================================
