------------------------------- MODULE PoolMirror -------------------------------
(*****************************************************************************)
(* What the database promises of the stakes of a market: it records stakes   *)
(* that the contract has confirmed, each once, and the pool it shows for a   *)
(* side never exceeds what it has recorded there.  It does not promise that  *)
(* every stake is recorded, nor that a pool is complete.                     *)
(*****************************************************************************)
EXTENDS Naturals, FiniteSetsExt

CONSTANT Stakes         \* [tx, side, amount] of every stake there may be

VARIABLES confirmed, recorded, pool

OnSide(S, side) == {s \in S : s.side = side}
TotalOf(S) == MapThenSumSet(LAMBDA s : s.amount, S)

Init ==
    /\ confirmed = {}
    /\ recorded = {}
    /\ pool = [side \in {"YES", "NO"} |-> 0]

Confirm(s) ==
    /\ \A c \in confirmed : c.tx # s.tx
    /\ confirmed' = confirmed \cup {s}
    /\ UNCHANGED <<recorded, pool>>

Record(s) ==
    /\ s \in confirmed \ recorded
    /\ recorded' = recorded \cup {s}
    /\ \E shown \in s.amount..TotalOf(OnSide(recorded', s.side)) :
          pool' = [pool EXCEPT ![s.side] = shown]
    /\ UNCHANGED confirmed

Next == \E s \in Stakes : Confirm(s) \/ Record(s)

Spec == Init /\ [][Next]_<<confirmed, recorded, pool>>

=============================================================================
