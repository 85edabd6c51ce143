-------------------------------- MODULE MCFaucet --------------------------------
(* Small instances of Faucet for TLC. *)
EXTENDS Faucet, TLC

Symmetric == Permutations(Buttons) \cup Permutations(Handlers) \cup Permutations(Addresses)

=============================================================================
