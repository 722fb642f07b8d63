--------------------------- MODULE MCWorkerCycle ---------------------------
(* Instances of WorkerCycle for TLC. *)
EXTENDS WorkerCycle, TLC

CONSTANTS m1, m2

\* The modes are interchangeable.
Symmetry == Permutations(Mode)

\* Which strategies have a target.
Spoken(targets) == {i \in Index : targets[i] # None}

\* A loop as the safety properties see it: of the context it polled, whether the
\* provider is still there; of targets, which are there.
LoopView(m) ==
  LET l == loop[m] IN
    IF l.state = None THEN l
    ELSE [l EXCEPT !.state = <<l.state.open, l.state.version = version, l.state.revision,
                               l.state.permit = opened[m]>>,
                   !.targets = Spoken(l.targets)]

\* What decides the next steps and the safety properties; weights are only there
\* or not (no weights sum to more than one in the runs that use this).
SafetyView ==
  <<gate, version, revision, bar, loaded, container, lastBars,
    [m \in Mode |-> <<Spoken(lastWeights[m]),
                      IF pending[m] = None THEN None ELSE Spoken(pending[m]),
                      executed[m] # None => Spoken(executed[m].weights) = Index,
                      LoopView(m)>>]>>

=============================================================================
