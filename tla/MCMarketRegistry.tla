---------------------------- MODULE MCMarketRegistry ----------------------------
(* Small instances of MarketRegistry for TLC. *)
EXTENDS MarketRegistry, TLC

Symmetric == Permutations(Ids) \cup Permutations(Roles)

=============================================================================
