---------------------------- MODULE PredictionMarket ----------------------------
(*****************************************************************************)
(* The escrow contract of one market (contracts/PredictionMarket.sol)        *)
(* together with the ERC-20 balances it moves.                               *)
(*                                                                           *)
(* One action is one successful transaction; a transaction that reverts      *)
(* changes nothing, so it is a step whose guard is false.  The functions are *)
(* nonReentrant and the token has no transfer hooks, so nothing interleaves  *)
(* with a call.  Users have approved what they stake.                        *)
(*****************************************************************************)
EXTENDS Integers, FiniteSets, Functions

CONSTANTS
    Users,              \* addresses that may stake
    Market,             \* the address of this contract
    Treasury,           \* receives the protocol fee
    Resolver,           \* may call resolve()
    Wealth,             \* tokens each user holds when the market is deployed
    Amounts,            \* amounts users try to stake
    MIN_STAKE,
    PROTOCOL_FEE_BPS,
    BPS_DENOMINATOR,
    Deadline,           \* first instant at which staking is closed
    MaxTime             \* bound of the clock

Accounts == Users \cup {Market, Treasury, Resolver}

ASSUME ConstantsAssumption ==
    /\ Market \notin Users \cup {Treasury, Resolver}
    /\ Wealth \in [Users -> Nat]
    /\ Amounts \subseteq Nat
    /\ MIN_STAKE \in Nat \ {0}
    /\ BPS_DENOMINATOR \in Nat \ {0}
    /\ PROTOCOL_FEE_BPS \in 0..BPS_DENOMINATOR
    /\ Deadline \in Nat \ {0}
    /\ MaxTime \in Nat

\* There are as many addresses as there are words of 20 bytes.
ASSUME UsersAssumption == IsFiniteSet(Users)

Status == {"OPEN", "LOCKED", "RESOLVED", "CANCELLED"}
Outcome == {"NONE", "YES", "NO", "VOID"}

VARIABLES
    now,            \* block.timestamp
    status,
    outcome,
    yesPool,
    noPool,
    yesStakes,
    noStakes,
    hasClaimed,
    token           \* balances of the ERC-20

stakeVars == <<yesPool, noPool, yesStakes, noStakes>>
vars == <<now, status, outcome, stakeVars, hasClaimed, token>>

-----------------------------------------------------------------------------
(* What the contract computes. *)

WinningStakes == IF outcome = "YES" THEN yesStakes ELSE noStakes
WinningPool == IF outcome = "YES" THEN yesPool ELSE noPool
LosingPool == IF outcome = "YES" THEN noPool ELSE yesPool

\* Mutants of the formula: rounding up, and dividing before multiplying.
WinnerShareRoundedUp(u) ==
    (WinningStakes[u] * LosingPool + WinningPool - 1) \div WinningPool
WinnerShareDividedFirst(u) == WinningStakes[u] * (LosingPool \div WinningPool)

WinnerShare(u) == (WinningStakes[u] * LosingPool) \div WinningPool
\* Mutant: the fee is taken of the stake too.
FeeOnStakeToo(u) ==
    ((WinningStakes[u] + WinnerShare(u)) * PROTOCOL_FEE_BPS) \div BPS_DENOMINATOR

Fee(u) == (WinnerShare(u) * PROTOCOL_FEE_BPS) \div BPS_DENOMINATOR
Payout(u) == WinningStakes[u] + WinnerShare(u) - Fee(u)
Refund(u) == yesStakes[u] + noStakes[u]

\* An ERC-20 transfer between two accounts that may be the same one.
Transfer(balances, from, to, amount) ==
    LET debited == [balances EXCEPT ![from] = @ - amount]
    IN  [debited EXCEPT ![to] = @ + amount]

-----------------------------------------------------------------------------
Init ==
    /\ now = 0
    /\ status = "OPEN"
    /\ outcome = "NONE"
    /\ yesPool = 0
    /\ noPool = 0
    /\ yesStakes = [u \in Users |-> 0]
    /\ noStakes = [u \in Users |-> 0]
    /\ hasClaimed = [u \in Users |-> FALSE]
    /\ token = [a \in Accounts |-> IF a \in Users THEN Wealth[a] ELSE 0]

\* A later block.
Tick ==
    /\ now < MaxTime
    /\ now' = now + 1
    /\ UNCHANGED <<status, outcome, stakeVars, hasClaimed, token>>

\* Mutant: a token that does not revert when the balance is too small.
MayStakeUnfunded(u, amount) ==
    /\ status = "OPEN"
    /\ now < Deadline
    /\ amount >= MIN_STAKE

MayStake(u, amount) ==
    /\ status = "OPEN"
    /\ now < Deadline
    /\ amount >= MIN_STAKE
    /\ token[u] >= amount

StakeYes(u, amount) ==
    /\ MayStake(u, amount)
    /\ yesStakes' = [yesStakes EXCEPT ![u] = @ + amount]
    /\ yesPool' = yesPool + amount
    /\ token' = Transfer(token, u, Market, amount)
    /\ UNCHANGED <<now, status, outcome, noPool, noStakes, hasClaimed>>

\* Mutant: the wrong pool grows.
StakeNoInYesPool(u, amount) ==
    /\ MayStake(u, amount)
    /\ noStakes' = [noStakes EXCEPT ![u] = @ + amount]
    /\ yesPool' = yesPool + amount
    /\ token' = Transfer(token, u, Market, amount)
    /\ UNCHANGED <<now, status, outcome, noPool, yesStakes, hasClaimed>>

StakeNo(u, amount) ==
    /\ MayStake(u, amount)
    /\ noStakes' = [noStakes EXCEPT ![u] = @ + amount]
    /\ noPool' = noPool + amount
    /\ token' = Transfer(token, u, Market, amount)
    /\ UNCHANGED <<now, status, outcome, yesPool, yesStakes, hasClaimed>>

Lock ==
    /\ status = "OPEN"
    /\ now >= Deadline
    /\ status' = "LOCKED"
    /\ UNCHANGED <<now, outcome, stakeVars, hasClaimed, token>>

\* Mutant: resolve() without onlyStatus(LOCKED).
ResolveAnytime(caller, o) ==
    /\ caller = Resolver
    /\ o # "NONE"
    /\ outcome' = o
    /\ status' = IF o = "VOID" THEN "CANCELLED" ELSE "RESOLVED"
    /\ UNCHANGED <<now, stakeVars, hasClaimed, token>>

Resolve(caller, o) ==
    /\ caller = Resolver
    /\ status = "LOCKED"
    /\ o # "NONE"
    /\ outcome' = o
    /\ status' = IF o = "VOID" THEN "CANCELLED" ELSE "RESOLVED"
    /\ UNCHANGED <<now, stakeVars, hasClaimed, token>>

\* Mutant: the claim is not remembered.
ClaimPayoutForgotten(u) ==
    /\ status = "RESOLVED"
    /\ ~hasClaimed[u]
    /\ WinningStakes[u] > 0
    /\ token[Market] >= Fee(u) + Payout(u)
    /\ token' = Transfer(Transfer(token, Market, Treasury, Fee(u)),
                         Market, u, Payout(u))
    /\ UNCHANGED <<now, status, outcome, stakeVars, hasClaimed>>

\* The contract pays the fee first and the claimant second; either transfer
\* reverts the whole call when the contract cannot cover it.
ClaimPayout(u) ==
    /\ status = "RESOLVED"
    /\ ~hasClaimed[u]
    /\ WinningStakes[u] > 0
    /\ token[Market] >= Fee(u) + Payout(u)
    /\ hasClaimed' = [hasClaimed EXCEPT ![u] = TRUE]
    /\ token' = Transfer(Transfer(token, Market, Treasury, Fee(u)),
                         Market, u, Payout(u))
    /\ UNCHANGED <<now, status, outcome, stakeVars>>

ClaimRefund(u) ==
    /\ status = "CANCELLED"
    /\ ~hasClaimed[u]
    /\ Refund(u) > 0
    /\ token[Market] >= Refund(u)
    /\ hasClaimed' = [hasClaimed EXCEPT ![u] = TRUE]
    /\ token' = Transfer(token, Market, u, Refund(u))
    /\ UNCHANGED <<now, status, outcome, stakeVars>>

Next ==
    \/ Tick
    \/ Lock
    \/ \E u \in Users, amount \in Amounts : StakeYes(u, amount)
    \/ \E u \in Users, amount \in Amounts : StakeNo(u, amount)
    \/ \E caller \in Accounts, o \in Outcome : Resolve(caller, o)
    \/ \E u \in Users : ClaimPayout(u)
    \/ \E u \in Users : ClaimRefund(u)

Spec == Init /\ [][Next]_vars

-----------------------------------------------------------------------------
(* Properties *)

TypeOK ==
    /\ now \in Nat
    /\ status \in Status
    /\ outcome \in Outcome
    /\ yesPool \in Nat
    /\ noPool \in Nat
    /\ yesStakes \in [Users -> Nat]
    /\ noStakes \in [Users -> Nat]
    /\ hasClaimed \in [Users -> BOOLEAN]
    /\ token \in [Accounts -> Nat]

Total(f) == FoldFunction(LAMBDA x, y : x + y, 0, f)

\* A user the contract still owes something.
OwedPayout(u) == status = "RESOLVED" /\ ~hasClaimed[u] /\ WinningStakes[u] > 0
OwedRefund(u) == status = "CANCELLED" /\ ~hasClaimed[u] /\ Refund(u) > 0

\* What u has been paid so far, and what the fee on it was.
PaidTo(u) ==
    IF ~hasClaimed[u] THEN 0
    ELSE IF status = "RESOLVED" THEN Payout(u) ELSE Refund(u)
FeeOn(u) == IF hasClaimed[u] /\ status = "RESOLVED" THEN Fee(u) ELSE 0

\* Whatever the order in which winners claim (or stakers are refunded) and
\* however the integer divisions of claimPayout round, the contract always
\* holds enough for the transfers of each claim still to come: no transfer of
\* claimPayout or claimRefund ever reverts for lack of tokens.
EveryClaimPayable ==
    \A u \in Users :
        /\ OwedPayout(u) => token[Market] >= Fee(u) + Payout(u)
        /\ OwedRefund(u) => token[Market] >= Refund(u)

\* Each user's balance is what the user started with, less the stakes of both
\* sides, plus exactly one payout or refund once claimed: nobody is paid twice,
\* a loser is paid nothing and a void market gives everything back.  (The
\* treasury also receives fees, so it is left to FeeIsShareOfLosingPool.)
UserLedger ==
    \A u \in Users \ {Treasury} :
        token[u] = Wealth[u] - yesStakes[u] - noStakes[u] + PaidTo(u)

\* The contract's own balance is the sum of all recorded stakes less what its
\* claims have paid out: stake books, pools and tokens never drift apart.
MarketLedger ==
    /\ yesPool = Total(yesStakes)
    /\ noPool = Total(noStakes)
    /\ token[Market] = yesPool + noPool
                       - Total([u \in Users |-> PaidTo(u) + FeeOn(u)])

Winners == {u \in Users : WinningStakes[u] > 0}
AllClaimed == \A u \in Users : ~OwedPayout(u) /\ ~OwedRefund(u)

\* When every claim of a settled market has been made, the contract keeps only
\* rounding dust: fewer base units than there were winners, and nothing at all
\* after a void market.  With no stake on the winning side nobody can claim:
\* then exactly the losing pool stays, not a unit of it paid to anyone.
OnlyDustRemains ==
    /\ status = "RESOLVED" /\ AllClaimed /\ Winners # {}
           => token[Market] < Cardinality(Winners)
    /\ status = "RESOLVED" /\ Winners = {}
           => token[Market] = LosingPool /\ WinningPool = 0
    /\ status = "CANCELLED" /\ AllClaimed => token[Market] = 0

FeesDue == (LosingPool * PROTOCOL_FEE_BPS) \div BPS_DENOMINATOR

\* The fee is floored once per claimant, on top of the floor of the share: the
\* treasury never gets more than its percentage of the losing pool, and once
\* all winners have claimed it is short of it by at most two units per winner.
FeeIsShareOfLosingPool ==
    status = "RESOLVED" =>
        /\ token[Treasury] <= FeesDue
        /\ AllClaimed /\ Winners # {}
               => token[Treasury] + 2 * Cardinality(Winners) >= FeesDue

\* Once the market is locked nobody can move the stakes or pools a payout is
\* computed from, and once it is settled the outcome and the right that came
\* with it (payout or refund) are final.
TermsFinal ==
    [][/\ status # "OPEN" => UNCHANGED stakeVars /\ status' # "OPEN"
       /\ outcome # "NONE" => UNCHANGED <<outcome, status>>
       /\ \A u \in Users : hasClaimed[u] => hasClaimed'[u]]_vars

=============================================================================
