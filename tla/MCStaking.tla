-------------------------------- MODULE MCStaking --------------------------------
(* Small instances of Staking for TLC: two tabs of one wallet. *)
EXTENDS Staking, TLC

CONSTANTS t1, t2, w1

OneWallet == [t \in {t1, t2} |-> w1]

Symmetric == Permutations(Tabs) \cup Permutations(Handlers)

=============================================================================
