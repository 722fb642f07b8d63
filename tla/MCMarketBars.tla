---------------------------- MODULE MCMarketBars ----------------------------
(* Instances of MarketBars for TLC. *)
EXTENDS MarketBars, TLC

CONSTANTS c1, c2, x, y

\* What no dictionary in use holds is of no consequence.
View == <<begun, now, exchange, calendar, calendarDate, cache, call, returned,
          [i \in Used \ {None} |-> heap[i]]>>

\* Calls and symbols are interchangeable.
Symmetry == Permutations(Call) \cup Permutations(Symbol)

=============================================================================
