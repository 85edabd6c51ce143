--------------------------- MODULE MCMarketLifecycle ---------------------------
(* Small instances of MarketLifecycle for TLC. *)
EXTENDS MarketLifecycle, TLC

\* Runners of one handler are interchangeable (used in safety runs only).
RunnerSymmetry ==
    UNION {Permutations(set) :
             set \in {DeployRunners, LockRunners, ResolveRunners, PollRunners}}

=============================================================================
