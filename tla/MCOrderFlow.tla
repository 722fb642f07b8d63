---------------------------- MODULE MCOrderFlow ----------------------------
(* Instances of OrderFlow for TLC. *)
EXTENDS OrderFlow, TLC

CONSTANTS r1, r2, a, b, x, y

\* Calls, operations and symbols are interchangeable.
Symmetry == Permutations(Request) \cup Permutations(Operation) \cup Permutations(Symbol)

=============================================================================
