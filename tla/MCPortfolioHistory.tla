------------------------- MODULE MCPortfolioHistory -------------------------
(* Instances of PortfolioHistory for TLC. *)
EXTENDS PortfolioHistory, TLC

CONSTANTS u1, u2, u3

\* The dashboard's ids are interchangeable.
Symmetry == Permutations(Uuid)

=============================================================================
