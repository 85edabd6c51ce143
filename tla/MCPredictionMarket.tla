--------------------------- MODULE MCPredictionMarket ---------------------------
(* A small instance of PredictionMarket for TLC. *)
EXTENDS PredictionMarket, TLC

\* Enough for two large stakes or three small ones.
MCWealth == [u \in Users |-> 151]

UserSymmetry == Permutations(Users)

=============================================================================
