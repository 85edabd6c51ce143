------------------------- MODULE PredictionMarketProofs -------------------------
(*****************************************************************************)
(* Theorems about the escrow contract, for every finite set of users, every  *)
(* distribution of wealth, every stake size, fee and deadline.               *)
(*                                                                           *)
(* The hard one is that every claim can be paid.  Its argument: let W and L  *)
(* be the winning and losing pools, t the contract's balance and R the sum   *)
(* of the winning stakes not claimed yet.  Then R <= t and                   *)
(*         R * L <= W * (t - R)                                              *)
(* holds when the market is resolved (R = W, t = W + L) and each claim       *)
(* preserves it, because the share of a stake s is at most s * L / W.  What  *)
(* is left for a claimant with stake s <= R is then at least s plus share.   *)
(*                                                                           *)
(* Sums are kept without recursion (Sums.tla): SumsTo(Users, f, T) says that *)
(* some additive measure on the sets of users gives each user u the weight   *)
(* f[u] and gives all of them T.                                             *)
(*****************************************************************************)
EXTENDS PredictionMarket, Sums

-----------------------------------------------------------------------------
(* Integer division, as claimPayout uses it. *)

\* A floored quotient is a natural number and never exceeds the true one.
LEMMA DivFloor ==
    ASSUME NEW a \in Nat, NEW b \in Nat \ {0}
    PROVE  a \div b \in Nat /\ b * (a \div b) <= a
  BY SMT

\* ... and misses it by less than one.
LEMMA DivTight ==
    ASSUME NEW a \in Nat, NEW b \in Nat \ {0}
    PROVE  a <= b * (a \div b) + (b - 1)
  BY SMT

\* What does not exceed the true quotient does not exceed the floored one.
LEMMA AtMostQuotient ==
    ASSUME NEW a \in Nat, NEW b \in Nat \ {0}, NEW x \in Nat, b * x <= a
    PROVE  x <= a \div b
  <1> DEFINE q == a \div b
  <1>1. q \in Nat /\ a <= b * q + (b - 1)
    BY DivFloor, DivTight
  <1> HIDE DEF q
  <1>2. b * x <= b * q + (b - 1)
    BY <1>1, SMT
  <1>3. ASSUME x > q PROVE FALSE
    <2>1. x >= q + 1
      BY <1>1, <1>3
    <2>2. b * x >= b * (q + 1)
      BY <1>1, <2>1, SMT
    <2>3. b * (q + 1) = b * q + b
      BY <1>1, SMT
    <2> QED
      BY <1>1, <1>2, <2>2, <2>3, SMT
  <1> QED
    BY <1>1, <1>3 DEF q

\* What is left when n claims have each lost less than one unit.
LEMMA DustBound ==
    ASSUME NEW W \in Nat \ {0}, NEW t \in Nat, NEW n \in Nat \ {0}, W * t <= n * (W - 1)
    PROVE  t < n
  <1> SUFFICES ASSUME t >= n PROVE FALSE
    OBVIOUS
  <1>1. W * t >= W * n
    BY SMT
  <1>2. n * (W - 1) = W * n - n
    BY SMT
  <1> QED
    BY <1>1, <1>2, SMT

\* One claim: the share of stake s loses less than one unit.
LEMMA DustStep ==
    ASSUME NEW W \in Nat \ {0}, NEW L \in Nat, NEW s \in Nat, NEW R \in Nat, NEW t \in Nat,
           NEW c \in Nat, W * (t - R) <= R * L + c * (W - 1),
           NEW share \in Nat, share = (s * L) \div W
    PROVE  W * ((t - s - share) - (R - s)) <= (R - s) * L + (c + 1) * (W - 1)
  <1>1. s * L \in Nat /\ R * L \in Int
    BY SMT
  <1>2. s * L <= W * share + (W - 1)
    BY <1>1, DivTight
  <1>3. W * ((t - s - share) - (R - s)) = W * (t - R) - W * share
    <2>1. (t - s - share) - (R - s) = (t - R) - share /\ t - R \in Int
      BY SMT
    <2>2. W * ((t - R) - share) = W * (t - R) - W * share
      BY <2>1, SMT
    <2> QED
      BY <2>1, <2>2
  <1>4. (R - s) * L = R * L - s * L
    BY SMT
  <1>5. (c + 1) * (W - 1) = c * (W - 1) + (W - 1)
    BY SMT
  <1> QED
    BY <1>1, <1>2, <1>3, <1>4, <1>5, SMT

\* One claim: the fee on it is the percentage F / B of its share, floored.
LEMMA FeeStep ==
    ASSUME NEW B \in Nat \ {0}, NEW F \in 0..B, NEW shares \in Nat, NEW fees \in Nat,
           NEW c \in Nat, B * fees <= F * shares, F * shares <= B * fees + c * (B - 1),
           NEW share \in Nat, NEW fee \in Nat, fee = (share * F) \div B
    PROVE  /\ B * (fees + fee) <= F * (shares + share)
           /\ F * (shares + share) <= B * (fees + fee) + (c + 1) * (B - 1)
  <1>1. share * F \in Nat /\ share * F = F * share
    BY SMT
  <1>2. B * fee <= F * share /\ F * share <= B * fee + (B - 1)
    BY <1>1, DivFloor, DivTight
  <1>3. B * (fees + fee) = B * fees + B * fee
    BY SMT
  <1>4. F * (shares + share) = F * shares + F * share
    BY SMT
  <1>5. (c + 1) * (B - 1) = c * (B - 1) + (B - 1)
    BY SMT
  <1> QED
    BY <1>2, <1>3, <1>4, <1>5, SMT

\* All n claims made and fewer than n units of the pool L left: the fees miss
\* the percentage of L by at most two units per claim.
LEMMA FeeBound ==
    ASSUME NEW B \in Nat \ {0}, NEW F \in 0..B, NEW L \in Nat, NEW t \in Nat, NEW fees \in Nat,
           NEW n \in Nat, t <= n, F * (L - t) <= B * fees + n * (B - 1)
    PROVE  (L * F) \div B <= fees + 2 * n
  <1> DEFINE q == (L * F) \div B
  <1>1. L * F \in Nat /\ L * F = F * L
    BY SMT
  <1>2. q \in Nat /\ B * q <= F * L
    BY <1>1, DivFloor
  <1> HIDE DEF q
  <1>3. F * (L - t) = F * L - F * t
    BY SMT
  <1>4. F * t <= B * n
    <2>1. F * t <= B * t /\ B * t <= B * n
      BY SMT
    <2> QED
      BY <2>1, SMT
  <1>5. n * (B - 1) = B * n - n
    BY SMT
  <1>6. B * q <= B * fees + 2 * (B * n) - n
    BY <1>2, <1>3, <1>4, <1>5, SMT
  <1>7. B * (fees + 2 * n) = B * fees + 2 * (B * n)
    BY SMT
  <1>8. B * q <= B * (fees + 2 * n)
    <2>1. B * fees \in Int /\ B * n \in Int /\ B * q \in Int
      BY <1>2, SMT
    <2>2. 2 * (B * n) - n <= 2 * (B * n)
      BY <2>1
    <2> QED
      BY <1>6, <1>7, <2>1, <2>2, SMT
  <1>9. ASSUME q > fees + 2 * n PROVE FALSE
    <2> DEFINE r == fees + 2 * n
    <2>1. r \in Nat /\ q >= r + 1 /\ B * q <= B * r
      BY <1>2, <1>8, <1>9
    <2> HIDE DEF r
    <2>2. B * q >= B * (r + 1) /\ B * (r + 1) = B * r + B
      BY <1>2, <2>1, SMT
    <2>3. B * r \in Int /\ B * q \in Int
      BY <1>2, <2>1, SMT
    <2> QED
      BY <2>1, <2>2, <2>3, SMT
  <1> QED
    BY <1>2, <1>9 DEF q

\* A fraction of at most one, floored, is at most the whole.
LEMMA FractionAtMostWhole ==
    ASSUME NEW a \in Nat, NEW b \in Nat \ {0}, NEW f \in 0..b
    PROVE  (a * f) \div b \in 0..a
  BY SMT

\* One claim: from stake s of the R unclaimed ones, out of a balance t.  The
\* claim is covered, and what is left covers the other claims as before.
LEMMA ClaimStep ==
    ASSUME NEW W \in Nat \ {0}, NEW L \in Nat, NEW s \in Nat,
           NEW R \in Nat, NEW t \in Nat,
           s <= R, R <= t, R * L <= W * (t - R)
    PROVE  LET share == (s * L) \div W
           IN  /\ share \in Nat
               /\ s + share <= t
               /\ R - s <= t - s - share
               /\ (R - s) * L <= W * ((t - s - share) - (R - s))
  <1> DEFINE share == (s * L) \div W
  <1>1. s * L \in Nat /\ R * L \in Nat /\ s * L <= R * L
    BY SMT
  <1>2. share \in Nat /\ W * share <= s * L
    BY <1>1, DivFloor
  <1> HIDE DEF share
  <1>3. W * share <= W * (t - R)
    BY <1>1, <1>2, SMT
  <1>4. share <= t - R
    BY <1>2, <1>3, SMT
  <1>5. (R - s) * L = R * L - s * L
    BY SMT
  <1>6. W * ((t - s - share) - (R - s)) = W * (t - R) - W * share
    BY <1>2, SMT
  <1>7. (R - s) * L <= W * ((t - s - share) - (R - s))
    BY <1>1, <1>2, <1>5, <1>6, SMT
  <1>8. s + share <= t /\ R - s <= t - s - share
    BY <1>2, <1>4, SMT
  <1> QED
    BY <1>2, <1>7, <1>8 DEF share

-----------------------------------------------------------------------------
(* The inductive invariant. *)

\* f restricted to the users who have not claimed yet.
Unclaimed(f) == [u \in Users |-> IF hasClaimed[u] THEN 0 ELSE f[u]]
Refunds == [u \in Users |-> Refund(u)]

Unsettled == status \in {"OPEN", "LOCKED"}

Phase ==
    /\ Unsettled => outcome = "NONE" /\ \A u \in Users : ~hasClaimed[u]
    /\ status = "RESOLVED" => outcome \in {"YES", "NO"}
    /\ status = "CANCELLED" => outcome = "VOID"

PoolsAreTotals == SumsTo(Users, yesStakes, yesPool) /\ SumsTo(Users, noStakes, noPool)

\* R, the winning stakes not claimed yet, and their share fit into balance t.
Covered(R, t) ==
    /\ R \in Nat
    /\ R <= t
    /\ R * LosingPool <= WinningPool * (t - R)

ClaimsCovered ==
    /\ Unsettled => token[Market] = yesPool + noPool
    /\ status = "RESOLVED" =>
           \E R : SumsTo(Users, Unclaimed(WinningStakes), R) /\ Covered(R, token[Market])
    /\ status = "CANCELLED" => SumsTo(Users, Unclaimed(Refunds), token[Market])

IInv == TypeOK /\ Phase /\ PoolsAreTotals /\ ClaimsCovered /\ UserLedger

\* Transfers between different accounts, as functions of the old balances.
LEMMA TransferFromMarket ==
    ASSUME NEW b \in [Accounts -> Nat], NEW to \in Users \cup {Treasury},
           NEW x \in Nat, x <= b[Market]
    PROVE  /\ Transfer(b, Market, to, x) \in [Accounts -> Nat]
           /\ Transfer(b, Market, to, x)[Market] = b[Market] - x
           /\ Transfer(b, Market, to, x)[to] = b[to] + x
           /\ \A a \in Accounts \ {Market, to} : Transfer(b, Market, to, x)[a] = b[a]
  BY ConstantsAssumption DEF Transfer, Accounts

LEMMA TransferToMarket ==
    ASSUME NEW b \in [Accounts -> Nat], NEW from \in Users,
           NEW x \in Nat, x <= b[from]
    PROVE  /\ Transfer(b, from, Market, x) \in [Accounts -> Nat]
           /\ Transfer(b, from, Market, x)[Market] = b[Market] + x
           /\ Transfer(b, from, Market, x)[from] = b[from] - x
           /\ \A a \in Accounts \ {Market, from} : Transfer(b, from, Market, x)[a] = b[a]
  BY ConstantsAssumption DEF Transfer, Accounts

\* A winner's claim: its parts are natural numbers, the balance covers it and
\* what it leaves covers the winning stakes that remain.
LEMMA ClaimTerms ==
    ASSUME IInv, NEW u \in Users, OwedPayout(u)
    PROVE  /\ Fee(u) \in Nat /\ Payout(u) \in Nat
           /\ Fee(u) + Payout(u) <= token[Market]
           /\ \E R : /\ SumsTo(Users, [Unclaimed(WinningStakes) EXCEPT ![u] = 0], R)
                    /\ Covered(R, token[Market] - Fee(u) - Payout(u))
  <1> DEFINE s == WinningStakes[u]
             f == Unclaimed(WinningStakes)
             share == (s * LosingPool) \div WinningPool
  <1>1. /\ WinningStakes \in [Users -> Nat] /\ WinningPool \in Nat /\ LosingPool \in Nat
        /\ SumsTo(Users, WinningStakes, WinningPool)
        /\ token[Market] \in Nat
    BY DEF IInv, TypeOK, PoolsAreTotals, WinningStakes, WinningPool, LosingPool, Accounts
  <1>2. s \in Nat /\ s > 0 /\ s <= WinningPool
    BY <1>1, SumMember DEF OwedPayout
  <1>3. PICK R : SumsTo(Users, f, R) /\ Covered(R, token[Market])
    BY DEF IInv, ClaimsCovered, OwedPayout
  <1>4. f \in [Users -> Nat] /\ f[u] = s
    BY <1>1 DEF Unclaimed, OwedPayout
  <1>5. s <= R
    BY <1>3, <1>4, SumMember
  <1>6. /\ share \in Nat
        /\ s + share <= token[Market]
        /\ R - s <= token[Market] - s - share
        /\ (R - s) * LosingPool <= WinningPool * ((token[Market] - s - share) - (R - s))
    <2>1. WinningPool \in Nat \ {0}
      BY <1>1, <1>2
    <2>2. /\ R \in Nat /\ R <= token[Market]
          /\ R * LosingPool <= WinningPool * (token[Market] - R)
      BY <1>3 DEF Covered
    <2> HIDE DEF s
    <2> QED
      BY <1>1, <1>2, <1>5, <2>1, <2>2, ClaimStep
  <1>7. WinnerShare(u) = share
    BY DEF WinnerShare
  <1>8. Fee(u) \in 0..share
    BY <1>6, <1>7, FractionAtMostWhole, ConstantsAssumption DEF Fee
  <1>9. Payout(u) = s + share - Fee(u)
    BY <1>7 DEF Payout
  <1> HIDE DEF share
  <1>10. Payout(u) \in Nat /\ Fee(u) + Payout(u) = s + share
    BY <1>2, <1>6, <1>8, <1>9
  <1>11. SumsTo(Users, [f EXCEPT ![u] = 0], R - s)
    <2>1. SumsTo(Users, [f EXCEPT ![u] = 0], R - f[u] + 0)
      <3> HIDE DEF f
      <3> QED
        BY <1>3, <1>4, SumChange
    <2>2. R - f[u] + 0 = R - s
      BY <1>2, <1>3, <1>4 DEF Covered
    <2> QED
      BY <2>1, <2>2
  <1>12. Covered(R - s, token[Market] - Fee(u) - Payout(u))
    <2>1. token[Market] - Fee(u) - Payout(u) = token[Market] - s - share
      BY <1>1, <1>2, <1>6, <1>8, <1>10
    <2>2. R - s \in Nat
      BY <1>2, <1>3, <1>5 DEF Covered
    <2> QED
      BY <1>6, <2>1, <2>2 DEF Covered
  <1> QED
    BY <1>6, <1>8, <1>10, <1>11, <1>12

-----------------------------------------------------------------------------
(* The invariant holds at first and is preserved by each action. *)

LEMMA InvInit == Init => IInv
  <1> SUFFICES ASSUME Init PROVE IInv
    OBVIOUS
  <1>1. TypeOK
    BY ConstantsAssumption DEF Init, TypeOK, Status, Outcome, Accounts
  <1>2. Phase
    BY DEF Init, Phase, Unsettled
  <1>3. PoolsAreTotals
    BY SumZero DEF Init, PoolsAreTotals
  <1>4. ClaimsCovered
    BY ConstantsAssumption DEF Init, ClaimsCovered, Unsettled, Accounts
  <1>5. UserLedger
    BY ConstantsAssumption DEF Init, UserLedger, PaidTo, Accounts
  <1> QED
    BY <1>1, <1>2, <1>3, <1>4, <1>5 DEF IInv

LEMMA InvTick ==
    ASSUME IInv, Tick
    PROVE  IInv'
  BY DEF IInv, Tick, stakeVars, TypeOK, Phase, Unsettled, PoolsAreTotals,
         ClaimsCovered, Covered, Unclaimed, Refunds, Refund, WinningStakes,
         WinningPool, LosingPool, UserLedger, PaidTo, Payout, Fee, WinnerShare

LEMMA InvLock ==
    ASSUME IInv, Lock
    PROVE  IInv'
  BY DEF IInv, Lock, stakeVars, TypeOK, Status, Phase, Unsettled, PoolsAreTotals,
         ClaimsCovered, UserLedger, PaidTo

LEMMA InvStakeYes ==
    ASSUME IInv, NEW u \in Users, NEW x \in Amounts, StakeYes(u, x)
    PROVE  IInv'
  <1>1. x \in Nat /\ x <= token[u] /\ token \in [Accounts -> Nat] /\ u \in Accounts
    BY ConstantsAssumption DEF StakeYes, MayStake, IInv, TypeOK, Accounts
  <1>2. /\ token' \in [Accounts -> Nat]
        /\ token'[Market] = token[Market] + x
        /\ token'[u] = token[u] - x
        /\ \A a \in Accounts \ {Market, u} : token'[a] = token[a]
    BY <1>1, TransferToMarket DEF StakeYes
  <1>3. TypeOK'
    BY <1>1, <1>2 DEF IInv, TypeOK, StakeYes
  <1>4. Phase'
    BY DEF IInv, Phase, Unsettled, StakeYes
  <1>5. PoolsAreTotals'
    <2>1. SumsTo(Users, yesStakes', yesPool - yesStakes[u] + (yesStakes[u] + x))
      <3>1. /\ yesStakes \in [Users -> Nat] /\ SumsTo(Users, yesStakes, yesPool)
            /\ yesStakes[u] + x \in Nat
        BY <1>1 DEF IInv, TypeOK, PoolsAreTotals
      <3>2. yesStakes' = [yesStakes EXCEPT ![u] = yesStakes[u] + x]
        BY DEF StakeYes
      <3>3. SumsTo(Users, [yesStakes EXCEPT ![u] = yesStakes[u] + x], yesPool - yesStakes[u] + (yesStakes[u] + x))
        BY <3>1, SumChange
      <3> QED
        BY <3>2, <3>3
    <2>2. yesPool - yesStakes[u] + (yesStakes[u] + x) = yesPool'
      BY <1>1 DEF IInv, TypeOK, StakeYes
    <2> QED
      BY <2>1, <2>2 DEF IInv, PoolsAreTotals, StakeYes
  <1>6. ClaimsCovered'
    BY <1>1, <1>2 DEF IInv, TypeOK, ClaimsCovered, Unsettled, StakeYes, MayStake
  <1>7. UserLedger'
    <2> SUFFICES ASSUME NEW v \in Users \ {Treasury}
                 PROVE  token'[v] = Wealth[v] - yesStakes'[v] - noStakes'[v] + PaidTo(v)'
      BY DEF UserLedger
    <2>1. PaidTo(v) = 0 /\ PaidTo(v)' = 0
      BY DEF IInv, Phase, Unsettled, StakeYes, MayStake, PaidTo
    <2>2. token[v] = Wealth[v] - yesStakes[v] - noStakes[v]
      BY <2>1, ConstantsAssumption DEF IInv, TypeOK, UserLedger
    <2>3. v \in Accounts /\ v # Market
      BY ConstantsAssumption DEF Accounts
    <2>4. /\ yesStakes' = [yesStakes EXCEPT ![u] = @ + x] /\ noStakes' = noStakes
          /\ yesStakes[v] \in Nat /\ noStakes[v] \in Nat /\ Wealth[v] \in Nat
          /\ yesStakes \in [Users -> Nat]
      BY ConstantsAssumption DEF IInv, TypeOK, StakeYes
    <2>5. CASE v = u
      <3>1. yesStakes'[v] = yesStakes[v] + x
        BY <2>4, <2>5
      <3> QED
        BY <1>1, <1>2, <2>1, <2>2, <2>4, <2>5, <3>1
    <2>6. CASE v # u
      <3>1. yesStakes'[v] = yesStakes[v] /\ token'[v] = token[v]
        BY <1>2, <2>3, <2>4, <2>6
      <3> QED
        BY <2>1, <2>2, <2>4, <3>1
    <2> QED
      BY <2>5, <2>6
  <1> QED
    BY <1>3, <1>4, <1>5, <1>6, <1>7 DEF IInv

LEMMA InvStakeNo ==
    ASSUME IInv, NEW u \in Users, NEW x \in Amounts, StakeNo(u, x)
    PROVE  IInv'
  <1>1. x \in Nat /\ x <= token[u] /\ token \in [Accounts -> Nat] /\ u \in Accounts
    BY ConstantsAssumption DEF StakeNo, MayStake, IInv, TypeOK, Accounts
  <1>2. /\ token' \in [Accounts -> Nat]
        /\ token'[Market] = token[Market] + x
        /\ token'[u] = token[u] - x
        /\ \A a \in Accounts \ {Market, u} : token'[a] = token[a]
    BY <1>1, TransferToMarket DEF StakeNo
  <1>3. TypeOK'
    BY <1>1, <1>2 DEF IInv, TypeOK, StakeNo
  <1>4. Phase'
    BY DEF IInv, Phase, Unsettled, StakeNo
  <1>5. PoolsAreTotals'
    <2>1. SumsTo(Users, noStakes', noPool - noStakes[u] + (noStakes[u] + x))
      <3>1. /\ noStakes \in [Users -> Nat] /\ SumsTo(Users, noStakes, noPool)
            /\ noStakes[u] + x \in Nat
        BY <1>1 DEF IInv, TypeOK, PoolsAreTotals
      <3>2. noStakes' = [noStakes EXCEPT ![u] = noStakes[u] + x]
        BY DEF StakeNo
      <3>3. SumsTo(Users, [noStakes EXCEPT ![u] = noStakes[u] + x], noPool - noStakes[u] + (noStakes[u] + x))
        BY <3>1, SumChange
      <3> QED
        BY <3>2, <3>3
    <2>2. noPool - noStakes[u] + (noStakes[u] + x) = noPool'
      BY <1>1 DEF IInv, TypeOK, StakeNo
    <2> QED
      BY <2>1, <2>2 DEF IInv, PoolsAreTotals, StakeNo
  <1>6. ClaimsCovered'
    BY <1>1, <1>2 DEF IInv, TypeOK, ClaimsCovered, Unsettled, StakeNo, MayStake
  <1>7. UserLedger'
    <2> SUFFICES ASSUME NEW v \in Users \ {Treasury}
                 PROVE  token'[v] = Wealth[v] - yesStakes'[v] - noStakes'[v] + PaidTo(v)'
      BY DEF UserLedger
    <2>1. PaidTo(v) = 0 /\ PaidTo(v)' = 0
      BY DEF IInv, Phase, Unsettled, StakeNo, MayStake, PaidTo
    <2>2. token[v] = Wealth[v] - yesStakes[v] - noStakes[v]
      BY <2>1, ConstantsAssumption DEF IInv, TypeOK, UserLedger
    <2>3. v \in Accounts /\ v # Market
      BY ConstantsAssumption DEF Accounts
    <2>4. /\ noStakes' = [noStakes EXCEPT ![u] = @ + x] /\ yesStakes' = yesStakes
          /\ yesStakes[v] \in Nat /\ noStakes[v] \in Nat /\ Wealth[v] \in Nat
          /\ noStakes \in [Users -> Nat]
      BY ConstantsAssumption DEF IInv, TypeOK, StakeNo
    <2>5. CASE v = u
      <3>1. noStakes'[v] = noStakes[v] + x
        BY <2>4, <2>5
      <3> QED
        BY <1>1, <1>2, <2>1, <2>2, <2>4, <2>5, <3>1
    <2>6. CASE v # u
      <3>1. noStakes'[v] = noStakes[v] /\ token'[v] = token[v]
        BY <1>2, <2>3, <2>4, <2>6
      <3> QED
        BY <2>1, <2>2, <2>4, <3>1
    <2> QED
      BY <2>5, <2>6
  <1> QED
    BY <1>3, <1>4, <1>5, <1>6, <1>7 DEF IInv

\* At settlement nothing is claimed, so the totals of the unclaimed stakes are
\* the pools themselves.
LEMMA InvResolve ==
    ASSUME IInv, NEW o \in Outcome, Resolve(Resolver, o)
    PROVE  IInv'
  <1>1. /\ Unsettled /\ outcome' = o /\ o # "NONE"
        /\ UNCHANGED <<now, yesPool, noPool, yesStakes, noStakes, hasClaimed, token>>
        /\ status' = IF o = "VOID" THEN "CANCELLED" ELSE "RESOLVED"
        /\ \A u \in Users : ~hasClaimed[u]
    BY DEF Resolve, Unsettled, stakeVars, IInv, Phase
  <1>2. TypeOK'
    BY <1>1 DEF IInv, TypeOK, Status, Outcome
  <1>3. Phase'
    BY <1>1 DEF Phase, Unsettled, Outcome
  <1>4. PoolsAreTotals'
    BY <1>1 DEF IInv, PoolsAreTotals
  <1>5. token[Market] = yesPool + noPool /\ yesPool \in Nat /\ noPool \in Nat
    BY <1>1 DEF IInv, ClaimsCovered, TypeOK
  <1>6. /\ (o = "YES" => SumsTo(Users, Unclaimed(yesStakes)', yesPool))
        /\ (o = "NO" => SumsTo(Users, Unclaimed(noStakes)', noPool))
    <2>1. Unclaimed(yesStakes)' = yesStakes /\ Unclaimed(noStakes)' = noStakes
      BY <1>1 DEF IInv, TypeOK, Unclaimed
    <2> QED
      BY <2>1 DEF IInv, PoolsAreTotals
  <1>7. ASSUME o # "VOID"
        PROVE  \E R : SumsTo(Users, Unclaimed(WinningStakes)', R) /\ Covered(R, token[Market])'
    <2> SUFFICES ASSUME NEW R, R = IF o = "YES" THEN yesPool ELSE noPool
                 PROVE  SumsTo(Users, Unclaimed(WinningStakes)', R) /\ Covered(R, token[Market])'
      OBVIOUS
    <2>1. o \in {"YES", "NO"}
      BY <1>1, <1>7 DEF Outcome
    <2>2. Covered(R, token[Market])'
      BY <1>1, <1>5, <2>1 DEF Covered, WinningPool, LosingPool
    <2>3. /\ o = "YES" => Unclaimed(WinningStakes)' = Unclaimed(yesStakes)'
          /\ o = "NO" => Unclaimed(WinningStakes)' = Unclaimed(noStakes)'
      BY <1>1 DEF WinningStakes, Unclaimed
    <2> QED
      BY <1>6, <2>1, <2>2, <2>3
  <1>8. SumsTo(Users, Unclaimed(Refunds)', token[Market]')
    <2>1. Unclaimed(Refunds)' = [u \in Users |-> yesStakes[u] + noStakes[u]]
      BY <1>1 DEF Unclaimed, Refunds, Refund
    <2>2. SumsTo(Users, [u \in Users |-> yesStakes[u] + noStakes[u]], yesPool + noPool)
      BY SumPlus DEF IInv, TypeOK, PoolsAreTotals
    <2> QED
      BY <1>1, <1>5, <2>1, <2>2
  <1>9. ClaimsCovered'
    BY <1>1, <1>7, <1>8 DEF ClaimsCovered, Unsettled
  <1>10. UserLedger'
    BY <1>1 DEF IInv, UserLedger, PaidTo
  <1> QED
    BY <1>2, <1>3, <1>4, <1>9, <1>10 DEF IInv

\* What a claim moves: the fee to the treasury, the payout to the claimant.
LEMMA PayoutMoves ==
    ASSUME IInv, NEW u \in Users, ClaimPayout(u)
    PROVE  /\ Fee(u) \in Nat /\ Payout(u) \in Nat
           /\ token[Market] \in Nat
           /\ token' \in [Accounts -> Nat]
           /\ token'[Market] = token[Market] - Fee(u) - Payout(u)
           /\ u # Treasury => token'[u] = token[u] + Payout(u)
           /\ Treasury # u => token'[Treasury] = token[Treasury] + Fee(u)
           /\ \A a \in Accounts \ {Market, Treasury, u} : token'[a] = token[a]
  <1>1. /\ Fee(u) \in Nat /\ Payout(u) \in Nat
        /\ Fee(u) + Payout(u) <= token[Market]
    BY ClaimTerms DEF ClaimPayout, OwedPayout
  <1>2. token \in [Accounts -> Nat] /\ token[Market] \in Nat
    BY DEF IInv, TypeOK, Accounts
  <1>3. u \in Accounts \ {Market} /\ Treasury \in Accounts \ {Market}
    BY ConstantsAssumption DEF Accounts
  <1> DEFINE paid == Transfer(token, Market, Treasury, Fee(u))
  <1>4. /\ paid \in [Accounts -> Nat]
        /\ paid[Market] = token[Market] - Fee(u)
        /\ paid[Treasury] = token[Treasury] + Fee(u)
        /\ \A a \in Accounts \ {Market, Treasury} : paid[a] = token[a]
    <2>1. Fee(u) <= token[Market]
      BY <1>1, <1>2
    <2>2. Treasury \in Users \cup {Treasury} /\ Fee(u) \in Nat
      BY <1>1
    <2> QED
      BY <1>2, <2>1, <2>2, TransferFromMarket
  <1> HIDE DEF paid
  <1>5. /\ token' \in [Accounts -> Nat]
        /\ token'[Market] = paid[Market] - Payout(u)
        /\ token'[u] = paid[u] + Payout(u)
        /\ \A a \in Accounts \ {Market, u} : token'[a] = paid[a]
    <2>1. token' = Transfer(paid, Market, u, Payout(u))
      BY DEF ClaimPayout, paid
    <2>2. Payout(u) <= paid[Market]
      BY <1>1, <1>2, <1>4
    <2>3. /\ Transfer(paid, Market, u, Payout(u)) \in [Accounts -> Nat]
          /\ Transfer(paid, Market, u, Payout(u))[Market] = paid[Market] - Payout(u)
          /\ Transfer(paid, Market, u, Payout(u))[u] = paid[u] + Payout(u)
          /\ \A a \in Accounts \ {Market, u} :
                Transfer(paid, Market, u, Payout(u))[a] = paid[a]
      BY <1>1, <1>4, <2>2, TransferFromMarket
    <2> QED
      BY <2>1, <2>3
  <1> QED
    BY <1>1, <1>2, <1>3, <1>4, <1>5

LEMMA InvClaimPayout ==
    ASSUME IInv, NEW u \in Users, ClaimPayout(u)
    PROVE  IInv'
  <1>1. /\ status = "RESOLVED" /\ ~hasClaimed[u] /\ OwedPayout(u)
        /\ hasClaimed' = [hasClaimed EXCEPT ![u] = TRUE]
        /\ UNCHANGED <<now, status, outcome, yesPool, noPool, yesStakes, noStakes>>
    BY DEF ClaimPayout, OwedPayout, stakeVars
  <1>2. /\ Payout(u) \in Nat
        /\ token' \in [Accounts -> Nat]
        /\ token'[Market] = token[Market] - Fee(u) - Payout(u)
        /\ u # Treasury => token'[u] = token[u] + Payout(u)
        /\ \A a \in Accounts \ {Market, Treasury, u} : token'[a] = token[a]
    BY PayoutMoves
  <1>3. TypeOK'
    BY <1>1, <1>2 DEF IInv, TypeOK
  <1>4. Phase'
    BY <1>1 DEF IInv, Phase, Unsettled
  <1>5. PoolsAreTotals'
    BY <1>1 DEF IInv, PoolsAreTotals
  <1>6. ClaimsCovered'
    <2>1. PICK R : /\ SumsTo(Users, [Unclaimed(WinningStakes) EXCEPT ![u] = 0], R)
                   /\ Covered(R, token[Market] - Fee(u) - Payout(u))
      BY <1>1, ClaimTerms
    <2>2. Unclaimed(WinningStakes)' = [Unclaimed(WinningStakes) EXCEPT ![u] = 0]
      BY <1>1 DEF IInv, TypeOK, Unclaimed, WinningStakes
    <2>3. Covered(R, token[Market])'
      BY <1>1, <1>2, <2>1 DEF Covered, WinningPool, LosingPool
    <2> QED
      BY <1>1, <2>1, <2>2, <2>3 DEF ClaimsCovered, Unsettled
  <1>7. UserLedger'
    <2> SUFFICES ASSUME NEW v \in Users \ {Treasury}
                 PROVE  token'[v] = Wealth[v] - yesStakes'[v] - noStakes'[v] + PaidTo(v)'
      BY DEF UserLedger
    <2>1. v \in Accounts \ {Market, Treasury}
      BY ConstantsAssumption DEF Accounts
    <2>2. token[v] = Wealth[v] - yesStakes[v] - noStakes[v] + PaidTo(v)
      BY DEF IInv, UserLedger
    <2>3. Payout(v)' = Payout(v)
      BY <1>1 DEF Payout, Fee, WinnerShare, WinningStakes, WinningPool, LosingPool
    <2>4. CASE v = u
      <3>1. token'[v] = token[v] + Payout(v)
        BY <1>2, <2>1, <2>4
      <3>2. PaidTo(v) = 0 /\ PaidTo(v)' = Payout(v)
        BY <1>1, <2>3, <2>4 DEF PaidTo, IInv, TypeOK
      <3>3. Wealth[v] \in Nat /\ yesStakes[v] \in Nat /\ noStakes[v] \in Nat
        BY ConstantsAssumption DEF IInv, TypeOK
      <3> QED
        BY <1>1, <1>2, <2>2, <2>4, <3>1, <3>2, <3>3
    <2>5. CASE v # u
      <3>1. token'[v] = token[v]
        BY <1>2, <2>1, <2>5
      <3>2. PaidTo(v)' = PaidTo(v)
        BY <1>1, <2>3, <2>5 DEF PaidTo, IInv, TypeOK
      <3> QED
        BY <1>1, <2>2, <3>1, <3>2
    <2> QED
      BY <2>4, <2>5
  <1> QED
    BY <1>3, <1>4, <1>5, <1>6, <1>7 DEF IInv

LEMMA InvClaimRefund ==
    ASSUME IInv, NEW u \in Users, ClaimRefund(u)
    PROVE  IInv'
  <1>1. /\ status = "CANCELLED" /\ ~hasClaimed[u]
        /\ hasClaimed' = [hasClaimed EXCEPT ![u] = TRUE]
        /\ UNCHANGED <<now, status, outcome, yesPool, noPool, yesStakes, noStakes>>
        /\ Refund(u) <= token[Market]
        /\ token' = Transfer(token, Market, u, Refund(u))
    BY DEF ClaimRefund, stakeVars, IInv, TypeOK, Accounts, Refund
  <1>2. /\ yesStakes \in [Users -> Nat] /\ noStakes \in [Users -> Nat]
        /\ token \in [Accounts -> Nat]
        /\ Refund(u) \in Nat
    BY DEF IInv, TypeOK, Refund
  <1>3. /\ token' \in [Accounts -> Nat]
        /\ token'[Market] = token[Market] - Refund(u)
        /\ token'[u] = token[u] + Refund(u)
        /\ \A a \in Accounts \ {Market, u} : token'[a] = token[a]
    BY <1>1, <1>2, TransferFromMarket
  <1>4. TypeOK'
    BY <1>1, <1>3 DEF IInv, TypeOK
  <1>5. Phase'
    BY <1>1 DEF IInv, Phase, Unsettled
  <1>6. PoolsAreTotals'
    BY <1>1 DEF IInv, PoolsAreTotals
  <1>7. ClaimsCovered'
    <2> DEFINE f == Unclaimed(Refunds)
    <2>1. f \in [Users -> Nat] /\ f[u] = Refund(u) /\ SumsTo(Users, f, token[Market])
      BY <1>1, <1>2 DEF Unclaimed, Refunds, Refund, IInv, ClaimsCovered
    <2>2. f' = [f EXCEPT ![u] = 0]
      BY <1>1 DEF IInv, TypeOK, Unclaimed, Refunds, Refund
    <2> HIDE DEF f
    <2>3. SumsTo(Users, [f EXCEPT ![u] = 0], token[Market] - f[u] + 0)
      BY <2>1, SumChange
    <2>4. token[Market] - f[u] + 0 = token'[Market]
      BY <1>2, <1>3, <2>1 DEF Accounts
    <2>5. SumsTo(Users, f', token'[Market])
      BY <2>2, <2>3, <2>4
    <2> QED
      BY <1>1, <2>5 DEF f, ClaimsCovered, Unsettled
  <1>8. UserLedger'
    <2> SUFFICES ASSUME NEW v \in Users \ {Treasury}
                 PROVE  token'[v] = Wealth[v] - yesStakes'[v] - noStakes'[v] + PaidTo(v)'
      BY DEF UserLedger
    <2>1. v \in Accounts \ {Market}
      BY ConstantsAssumption DEF Accounts
    <2>2. token[v] = Wealth[v] - yesStakes[v] - noStakes[v] + PaidTo(v)
      BY DEF IInv, UserLedger
    <2>3. Refund(v)' = Refund(v)
      BY <1>1 DEF Refund
    <2>4. CASE v = u
      <3>1. PaidTo(v) = 0 /\ PaidTo(v)' = Refund(v)
        BY <1>1, <2>3, <2>4 DEF PaidTo, IInv, TypeOK
      <3>2. Wealth[v] \in Nat /\ yesStakes[v] \in Nat /\ noStakes[v] \in Nat
        BY <1>2, ConstantsAssumption
      <3> QED
        BY <1>1, <1>2, <1>3, <2>2, <2>4, <3>1, <3>2
    <2>5. CASE v # u
      <3>1. PaidTo(v)' = PaidTo(v)
        BY <1>1, <2>3, <2>5 DEF PaidTo, IInv, TypeOK
      <3> QED
        BY <1>1, <1>3, <2>1, <2>2, <2>5, <3>1
    <2> QED
      BY <2>4, <2>5
  <1> QED
    BY <1>4, <1>5, <1>6, <1>7, <1>8 DEF IInv

LEMMA InvNext == IInv /\ [Next]_vars => IInv'
  <1> SUFFICES ASSUME IInv, [Next]_vars PROVE IInv'
    OBVIOUS
  <1>1. CASE Tick
    BY <1>1, InvTick
  <1>2. CASE Lock
    BY <1>2, InvLock
  <1>3. CASE \E u \in Users, amount \in Amounts : StakeYes(u, amount)
    BY <1>3, InvStakeYes
  <1>4. CASE \E u \in Users, amount \in Amounts : StakeNo(u, amount)
    BY <1>4, InvStakeNo
  <1>5. CASE \E caller \in Accounts, o \in Outcome : Resolve(caller, o)
    <2>1. PICK o \in Outcome : Resolve(Resolver, o)
      BY <1>5 DEF Resolve
    <2> QED
      BY <2>1, InvResolve
  <1>6. CASE \E u \in Users : ClaimPayout(u)
    BY <1>6, InvClaimPayout
  <1>7. CASE \E u \in Users : ClaimRefund(u)
    BY <1>7, InvClaimRefund
  <1>8. CASE UNCHANGED vars
    BY <1>8 DEF vars, stakeVars, IInv, TypeOK, Phase, Unsettled, PoolsAreTotals,
         ClaimsCovered, Covered, Unclaimed, Refunds, Refund, WinningStakes,
         WinningPool, LosingPool, UserLedger, PaidTo, Payout, Fee, WinnerShare
  <1> QED
    BY <1>1, <1>2, <1>3, <1>4, <1>5, <1>6, <1>7, <1>8 DEF Next

LEMMA Invariant == Spec => []IInv
  BY InvInit, InvNext, PTL DEF Spec

-----------------------------------------------------------------------------
(* The ledger of the contract.  What it has paid out is the sum of what its  *)
(* claims were paid, fees included.                                          *)

Paid == [u \in Users |-> PaidTo(u) + FeeOn(u)]

LedgerInv ==
    /\ Paid \in [Users -> Nat]
    /\ SumsTo(Users, Paid, yesPool + noPool - token[Market])

\* As long as nobody has claimed, nothing is paid.
LEMMA NothingPaid ==
    ASSUME IInv, \A u \in Users : ~hasClaimed[u], token[Market] = yesPool + noPool
    PROVE  LedgerInv
  <1>1. \A u \in Users : Paid[u] = 0
    BY DEF Paid, PaidTo, FeeOn
  <1>2. SumsTo(Users, Paid, 0)
    BY <1>1, SumZero
  <1>3. yesPool + noPool - token[Market] = 0
    BY DEF IInv, TypeOK
  <1>4. Paid \in [Users -> Nat]
    BY <1>1 DEF Paid
  <1> QED
    BY <1>2, <1>3, <1>4 DEF LedgerInv

\* A claim adds what it moves out of the contract to what is paid.
LEMMA OnePaid ==
    ASSUME IInv, IInv', LedgerInv, NEW u \in Users, NEW x \in Nat,
           UNCHANGED <<yesPool, noPool>>, Paid[u] = 0, Paid' = [Paid EXCEPT ![u] = x],
           token'[Market] = token[Market] - x
    PROVE  LedgerInv'
  <1> DEFINE f == Paid
             T == yesPool + noPool - token[Market]
  <1>1. f \in [Users -> Nat] /\ f[u] = 0 /\ SumsTo(Users, f, T)
    BY DEF LedgerInv
  <1>2. T - f[u] + x = (yesPool + noPool - token[Market])'
    <2>1. token[Market] \in Nat /\ yesPool \in Nat /\ noPool \in Nat
      BY DEF IInv, TypeOK, Accounts
    <2> QED
      BY <1>1, <2>1
  <1> HIDE DEF f, T
  <1>3. SumsTo(Users, [f EXCEPT ![u] = x], T - f[u] + x)
    BY <1>1, SumChange
  <1>4. SumsTo(Users, [f EXCEPT ![u] = x], (yesPool + noPool - token[Market])')
    BY <1>2, <1>3
  <1>5. [f EXCEPT ![u] = x] \in [Users -> Nat]
    BY <1>1
  <1> QED
    BY <1>4, <1>5 DEF LedgerInv, f

LEMMA LedgerStep ==
    ASSUME IInv, IInv', LedgerInv, [Next]_vars
    PROVE  LedgerInv'
  <1>1. ASSUME Unsettled' PROVE LedgerInv'
    <2>1. (\A u \in Users : ~hasClaimed[u])' /\ (token[Market] = yesPool + noPool)'
      BY <1>1 DEF IInv, Phase, ClaimsCovered
    <2>2. IInv' /\ (\A u \in Users : ~hasClaimed[u])' /\ (token[Market] = yesPool + noPool)'
             => LedgerInv'
      BY NothingPaid, PTL
    <2> QED
      BY <2>1, <2>2
  <1>2. CASE Tick \/ UNCHANGED vars
    <2>1. UNCHANGED <<status, outcome, yesPool, noPool, yesStakes, noStakes, hasClaimed, token>>
      BY <1>2 DEF Tick, vars, stakeVars
    <2>2. Paid' = Paid
      BY <2>1 DEF Paid, PaidTo, FeeOn, Refund, Payout, Fee, WinnerShare, WinningStakes,
                  WinningPool, LosingPool
    <2> QED
      BY <2>1, <2>2 DEF LedgerInv
  <1>3. CASE Lock
    BY <1>1, <1>3 DEF Lock, Unsettled
  <1>4. CASE \E u \in Users, amount \in Amounts : StakeYes(u, amount)
    BY <1>1, <1>4 DEF StakeYes, MayStake, Unsettled
  <1>5. CASE \E u \in Users, amount \in Amounts : StakeNo(u, amount)
    BY <1>1, <1>5 DEF StakeNo, MayStake, Unsettled
  <1>6. CASE \E caller \in Accounts, o \in Outcome : Resolve(caller, o)
    <2>1. (\A u \in Users : ~hasClaimed[u])' /\ (token[Market] = yesPool + noPool)'
      BY <1>6 DEF IInv, Phase, ClaimsCovered, Resolve, Unsettled, stakeVars
    <2>2. IInv' /\ (\A u \in Users : ~hasClaimed[u])' /\ (token[Market] = yesPool + noPool)'
             => LedgerInv'
      BY NothingPaid, PTL
    <2> QED
      BY <2>1, <2>2
  <1>7. ASSUME NEW u \in Users, ClaimPayout(u) PROVE LedgerInv'
    <2>1. /\ status = "RESOLVED" /\ ~hasClaimed[u]
          /\ hasClaimed' = [hasClaimed EXCEPT ![u] = TRUE]
          /\ UNCHANGED <<status, outcome, yesPool, noPool, yesStakes, noStakes>>
      BY <1>7 DEF ClaimPayout, stakeVars
    <2>2. /\ Fee(u) \in Nat /\ Payout(u) \in Nat /\ token[Market] \in Nat
          /\ token'[Market] = token[Market] - Fee(u) - Payout(u)
      BY <1>7, PayoutMoves
    <2>3. \A v \in Users : Payout(v)' = Payout(v) /\ Fee(v)' = Fee(v)
      BY <2>1 DEF Payout, Fee, WinnerShare, WinningStakes, WinningPool, LosingPool
    <2>4. Paid[u] = 0 /\ Paid' = [Paid EXCEPT ![u] = Payout(u) + Fee(u)]
      <3>1. /\ PaidTo(u) = 0 /\ FeeOn(u) = 0
            /\ PaidTo(u)' + FeeOn(u)' = Payout(u) + Fee(u)
        BY <2>1, <2>3 DEF PaidTo, FeeOn, IInv, TypeOK
      <3>2. ASSUME NEW v \in Users, v # u
            PROVE  PaidTo(v)' + FeeOn(v)' = PaidTo(v) + FeeOn(v)
        <4>1. hasClaimed'[v] = hasClaimed[v]
          BY <2>1, <3>2
        <4> QED
          BY <2>1, <2>3, <4>1 DEF PaidTo, FeeOn
      <3> DEFINE g == [v \in Users |-> PaidTo(v) + FeeOn(v)]
                 h == [v \in Users |-> PaidTo(v)' + FeeOn(v)']
      <3>3. g[u] = 0 /\ h[u] = Payout(u) + Fee(u) /\ \A v \in Users : v # u => h[v] = g[v]
        BY <3>1, <3>2
      <3>4. g = Paid /\ h = Paid' /\ DOMAIN g = Users /\ DOMAIN h = Users
        BY DEF Paid
      <3>5. g = [v \in Users |-> g[v]] /\ h = [v \in Users |-> h[v]]
        OBVIOUS
      <3> HIDE DEF g, h
      <3>6. h = [g EXCEPT ![u] = Payout(u) + Fee(u)]
        BY <3>3, <3>4, <3>5
      <3> QED
        BY <3>3, <3>4, <3>6
    <2>5. token'[Market] = token[Market] - (Payout(u) + Fee(u)) /\ Payout(u) + Fee(u) \in Nat
      BY <2>2
    <2> QED
      BY <2>1, <2>4, <2>5, OnePaid
  <1>8. ASSUME NEW u \in Users, ClaimRefund(u) PROVE LedgerInv'
    <2>1. /\ status = "CANCELLED" /\ ~hasClaimed[u]
          /\ hasClaimed' = [hasClaimed EXCEPT ![u] = TRUE]
          /\ UNCHANGED <<status, outcome, yesPool, noPool, yesStakes, noStakes>>
          /\ Refund(u) <= token[Market]
          /\ token' = Transfer(token, Market, u, Refund(u))
      BY <1>8 DEF ClaimRefund, stakeVars, IInv, TypeOK, Accounts, Refund
    <2>2. token \in [Accounts -> Nat] /\ Refund(u) \in Nat
      BY DEF IInv, TypeOK, Refund
    <2>3. token'[Market] = token[Market] - Refund(u)
      BY <2>1, <2>2, TransferFromMarket
    <2>4. \A v \in Users : Refund(v)' = Refund(v) /\ Refund(v) \in Nat
      BY <2>1 DEF Refund, IInv, TypeOK
    <2>5. Paid[u] = 0 /\ Paid' = [Paid EXCEPT ![u] = Refund(u)]
      <3>1. /\ PaidTo(u) = 0 /\ FeeOn(u) = 0
            /\ PaidTo(u)' + FeeOn(u)' = Refund(u)
        BY <2>1, <2>2, <2>4 DEF PaidTo, FeeOn, IInv, TypeOK
      <3>2. ASSUME NEW v \in Users, v # u
            PROVE  PaidTo(v)' + FeeOn(v)' = PaidTo(v) + FeeOn(v)
        <4>1. hasClaimed'[v] = hasClaimed[v]
          BY <2>1, <3>2
        <4> QED
          BY <2>1, <2>4, <4>1 DEF PaidTo, FeeOn
      <3> DEFINE g == [v \in Users |-> PaidTo(v) + FeeOn(v)]
                 h == [v \in Users |-> PaidTo(v)' + FeeOn(v)']
      <3>3. g[u] = 0 /\ h[u] = Refund(u) /\ \A v \in Users : v # u => h[v] = g[v]
        BY <3>1, <3>2
      <3>4. g = Paid /\ h = Paid' /\ DOMAIN g = Users /\ DOMAIN h = Users
        BY DEF Paid
      <3>5. g = [v \in Users |-> g[v]] /\ h = [v \in Users |-> h[v]]
        OBVIOUS
      <3> HIDE DEF g, h
      <3>6. h = [g EXCEPT ![u] = Refund(u)]
        BY <3>3, <3>4, <3>5
      <3> QED
        BY <3>3, <3>4, <3>6
    <2> QED
      BY <2>1, <2>2, <2>3, <2>5, OnePaid
  <1> QED
    BY <1>2, <1>3, <1>4, <1>5, <1>6, <1>7, <1>8 DEF Next

-----------------------------------------------------------------------------
(* What the divisions of claimPayout leave behind.  After c claims that paid *)
(* out `shares' of the losing pool, with R of the winning stakes unclaimed,  *)
(* each claim has lost less than one unit of its share and, in base points,  *)
(* less than one unit of its fee.                                            *)

Claimed == {u \in Users : hasClaimed[u]}

\* The treasury holds the fees, unless a staker's own balance is mixed in.
Apart == Treasury \notin Users

FeesAre(shares) ==
    /\ BPS_DENOMINATOR * token[Treasury] <= PROTOCOL_FEE_BPS * shares
    /\ PROTOCOL_FEE_BPS * shares
           <= BPS_DENOMINATOR * token[Treasury] + Cardinality(Claimed) * (BPS_DENOMINATOR - 1)

Spread(R, shares) ==
    /\ SumsTo(Users, Unclaimed(WinningStakes), R)
    /\ token[Market] = R + LosingPool - shares
    /\ WinningPool * (LosingPool - shares)
           <= R * LosingPool + Cardinality(Claimed) * (WinningPool - 1)
    /\ Apart => FeesAre(shares)

SettledInv ==
    /\ Apart /\ status # "RESOLVED" => token[Treasury] = 0
    /\ status = "RESOLVED" =>
           /\ \A u \in Users : hasClaimed[u] => WinningStakes[u] > 0
           /\ \E R, shares \in Nat : Spread(R, shares)

LEMMA ClaimedFinite ==
    /\ IsFiniteSet(Claimed)
    /\ Cardinality(Claimed) \in Nat
  <1>1. Claimed \subseteq Users
    BY DEF Claimed
  <1> QED
    BY <1>1, UsersAssumption, FS_Subset, FS_CardinalityType

\* Actions before the settlement, and refunds, leave the treasury alone.
LEMMA TreasuryUntouched ==
    ASSUME IInv, Apart, NEW u \in Users,
           (\E x \in Amounts : StakeYes(u, x) \/ StakeNo(u, x)) \/ ClaimRefund(u)
    PROVE  token'[Treasury] = token[Treasury]
  <1>1. /\ Treasury \in Accounts \ {Market, u} /\ u \in Accounts
        /\ token \in [Accounts -> Nat]
    BY ConstantsAssumption DEF Apart, Accounts, IInv, TypeOK
  <1>2. ASSUME NEW x \in Amounts, StakeYes(u, x) \/ StakeNo(u, x)
        PROVE  token'[Treasury] = token[Treasury]
    <2>1. token' = Transfer(token, u, Market, x) /\ x \in Nat /\ x <= token[u]
      BY <1>1, <1>2, ConstantsAssumption DEF StakeYes, StakeNo, MayStake
    <2> QED
      BY <1>1, <2>1, TransferToMarket
  <1>3. CASE ClaimRefund(u)
    <2>1. token' = Transfer(token, Market, u, Refund(u)) /\ Refund(u) \in Nat
          /\ Refund(u) <= token[Market]
      BY <1>3 DEF ClaimRefund, IInv, TypeOK, Refund, Accounts
    <2> QED
      BY <1>1, <2>1, TransferFromMarket
  <1> QED
    BY <1>2, <1>3

\* Settlement: nothing claimed, no share paid, the whole pool unclaimed.
LEMMA SettledResolve ==
    ASSUME IInv, IInv', SettledInv, NEW o \in Outcome, Resolve(Resolver, o)
    PROVE  SettledInv'
  <1>1. /\ Unsettled /\ \A u \in Users : ~hasClaimed[u]
        /\ UNCHANGED <<yesPool, noPool, yesStakes, noStakes, hasClaimed, token>>
        /\ token[Market] = yesPool + noPool /\ yesPool \in Nat /\ noPool \in Nat
    BY DEF Resolve, Unsettled, stakeVars, IInv, Phase, ClaimsCovered, TypeOK
  <1>2. Apart => token'[Treasury] = 0
    BY <1>1 DEF SettledInv, Unsettled
  <1>3. ASSUME status' = "RESOLVED"
        PROVE  \E R, shares \in Nat : Spread(R, shares)'
    <2> SUFFICES ASSUME NEW W, W = IF o = "YES" THEN yesPool ELSE noPool,
                        NEW L, L = IF o = "YES" THEN noPool ELSE yesPool
                 PROVE  Spread(W, 0)' /\ W \in Nat
      OBVIOUS
    <2>1. outcome' = o /\ o \in {"YES", "NO"}
      BY <1>3 DEF IInv, Phase, Resolve
    <2>2. /\ WinningPool' = W /\ LosingPool' = L /\ W \in Nat /\ L \in Nat
          /\ token'[Market] = W + L
      BY <1>1, <2>1 DEF WinningPool, LosingPool
    <2>3. SumsTo(Users, Unclaimed(WinningStakes)', W)
      <3>1. Unclaimed(WinningStakes)' = WinningStakes'
        BY <1>1 DEF IInv, TypeOK, Unclaimed, WinningStakes
      <3>2. SumsTo(Users, WinningStakes', W)
        BY <1>1, <2>1 DEF IInv, PoolsAreTotals, WinningStakes
      <3> QED
        BY <3>1, <3>2
    <2>4. Cardinality(Claimed') = 0
      <3>1. Claimed' = {}
        BY <1>1 DEF Claimed
      <3> QED
        BY <3>1, FS_EmptySet
    <2>5. ASSUME Apart PROVE FeesAre(0)'
      BY <1>1, <1>2, <2>4, <2>5, ConstantsAssumption DEF FeesAre
    <2>6. W * (L - 0) <= W * L + 0 * (W - 1) /\ W + L = W + L - 0
      <3>1. L - 0 = L /\ W * L \in Int /\ 0 * (W - 1) = 0
        BY <2>2, SMT
      <3> QED
        BY <2>2, <3>1
    <2> QED
      BY <2>2, <2>3, <2>4, <2>5, <2>6 DEF Spread
  <1> QED
    BY <1>1, <1>2, <1>3 DEF SettledInv

\* A claim moves stake s from the unclaimed ones and a share from the losing pool.
LEMMA SettledPayout ==
    ASSUME IInv, SettledInv, NEW u \in Users, ClaimPayout(u)
    PROVE  SettledInv'
  <1> DEFINE s == WinningStakes[u]
             share == WinnerShare(u)
  <1>1. /\ status = "RESOLVED" /\ ~hasClaimed[u] /\ s > 0
        /\ hasClaimed' = [hasClaimed EXCEPT ![u] = TRUE]
        /\ UNCHANGED <<status, outcome, yesPool, noPool, yesStakes, noStakes>>
    BY DEF ClaimPayout, stakeVars
  <1>2. /\ WinningStakes' = WinningStakes /\ WinningPool' = WinningPool
        /\ LosingPool' = LosingPool
    BY <1>1 DEF WinningStakes, WinningPool, LosingPool
  <1>3. /\ WinningStakes \in [Users -> Nat] /\ WinningPool \in Nat /\ LosingPool \in Nat
        /\ SumsTo(Users, WinningStakes, WinningPool) /\ token[Market] \in Nat
    BY DEF IInv, TypeOK, PoolsAreTotals, WinningStakes, WinningPool, LosingPool, Accounts
  <1>4. s \in Nat /\ WinningPool \in Nat \ {0}
    <2>1. s \in Nat /\ s <= WinningPool
      BY <1>3, SumMember
    <2> QED
      BY <1>1, <1>3, <2>1
  <1>5. \A v \in Users : hasClaimed'[v] => WinningStakes'[v] > 0
    BY <1>1, <1>2 DEF SettledInv
  <1>6. PICK R \in Nat, shares \in Nat : Spread(R, shares)
    BY <1>1 DEF SettledInv
  <1> DEFINE f == Unclaimed(WinningStakes)
             c == Cardinality(Claimed)
  <1>7. /\ f \in [Users -> Nat] /\ f[u] = s /\ SumsTo(Users, f, R)
        /\ Unclaimed(WinningStakes)' = [f EXCEPT ![u] = 0]
    <2>1. Unclaimed(WinningStakes)' = [Unclaimed(WinningStakes) EXCEPT ![u] = 0]
      BY <1>1, <1>2 DEF IInv, TypeOK, Unclaimed
    <2> QED
      BY <1>1, <1>3, <1>6, <2>1 DEF Spread, Unclaimed
  <1>8. c \in Nat /\ Cardinality(Claimed') = c + 1
    <2>1. Claimed' = Claimed \cup {u} /\ u \notin Claimed
      BY <1>1 DEF Claimed, IInv, TypeOK
    <2> QED
      BY <2>1, ClaimedFinite, FS_AddElement
  <1>9. share \in Nat /\ share = (s * LosingPool) \div WinningPool
    <2>1. s * LosingPool \in Nat
      BY <1>3, <1>4, SMT
    <2> QED
      BY <1>4, <2>1, DivFloor DEF WinnerShare
  <1>10. Fee(u) \in Nat /\ token'[Market] = token[Market] - s - share
    <2>1. /\ Fee(u) \in Nat /\ Payout(u) \in Nat
          /\ token'[Market] = token[Market] - Fee(u) - Payout(u)
      BY PayoutMoves
    <2>2. Payout(u) = s + share - Fee(u)
      BY DEF Payout
    <2> HIDE DEF s, share
    <2> QED
      BY <1>3, <1>4, <1>9, <2>1, <2>2
  <1>11. Fee(u) = (share * PROTOCOL_FEE_BPS) \div BPS_DENOMINATOR
    BY DEF Fee
  <1>12. /\ token[Market] = R + LosingPool - shares
         /\ WinningPool * (LosingPool - shares) <= R * LosingPool + c * (WinningPool - 1)
         /\ Apart => FeesAre(shares)
    BY <1>6 DEF Spread
  <1> HIDE DEF s, share, f, c
  <1>13. s <= R /\ SumsTo(Users, Unclaimed(WinningStakes)', R - s)
    <2>1. s <= R
      BY <1>7, SumMember
    <2>2. SumsTo(Users, [f EXCEPT ![u] = 0], R - f[u] + 0)
      BY <1>7, SumChange
    <2>3. R - f[u] + 0 = R - s
      BY <1>4, <1>7
    <2> QED
      BY <1>7, <2>1, <2>2, <2>3
  <1>14. token'[Market] = (R - s) + LosingPool - (shares + share)
    BY <1>3, <1>4, <1>9, <1>10, <1>12
  <1>15. WinningPool * (LosingPool - (shares + share))
            <= (R - s) * LosingPool + (c + 1) * (WinningPool - 1)
    <2> DEFINE t == token[Market]
    <2>1. t \in Nat /\ t - R = LosingPool - shares
      BY <1>3, <1>12
    <2>2. WinningPool * (t - R) <= R * LosingPool + c * (WinningPool - 1)
      BY <1>12, <2>1
    <2> HIDE DEF t
    <2>3. (t - s - share) - (R - s) = LosingPool - (shares + share)
      <3>1. (t - s - share) - (R - s) = (t - R) - share
        BY <1>4, <1>9, <2>1
      <3>2. (LosingPool - shares) - share = LosingPool - (shares + share)
        BY <1>3, <1>9
      <3> QED
        BY <2>1, <3>1, <3>2
    <2>4. WinningPool * ((t - s - share) - (R - s))
             <= (R - s) * LosingPool + (c + 1) * (WinningPool - 1)
      BY <1>3, <1>4, <1>8, <1>9, <2>1, <2>2, DustStep
    <2> QED
      BY <2>3, <2>4
  <1>16. ASSUME Apart
         PROVE  /\ BPS_DENOMINATOR * token'[Treasury] <= PROTOCOL_FEE_BPS * (shares + share)
                /\ PROTOCOL_FEE_BPS * (shares + share)
                      <= BPS_DENOMINATOR * token'[Treasury] + (c + 1) * (BPS_DENOMINATOR - 1)
    <2> DEFINE fees == token[Treasury]
    <2>1. token'[Treasury] = fees + Fee(u) /\ fees \in Nat
      BY <1>16, PayoutMoves DEF Apart, IInv, TypeOK, Accounts
    <2>2. /\ BPS_DENOMINATOR * fees <= PROTOCOL_FEE_BPS * shares
          /\ PROTOCOL_FEE_BPS * shares <= BPS_DENOMINATOR * fees + c * (BPS_DENOMINATOR - 1)
      BY <1>12, <1>16 DEF FeesAre, c
    <2> HIDE DEF fees
    <2>3. /\ BPS_DENOMINATOR * (fees + Fee(u)) <= PROTOCOL_FEE_BPS * (shares + share)
          /\ PROTOCOL_FEE_BPS * (shares + share)
                <= BPS_DENOMINATOR * (fees + Fee(u)) + (c + 1) * (BPS_DENOMINATOR - 1)
      BY <1>8, <1>9, <1>10, <1>11, <2>1, <2>2, ConstantsAssumption, FeeStep
    <2> QED
      BY <2>1, <2>3
  <1>17. R - s \in Nat /\ shares + share \in Nat
    BY <1>4, <1>9, <1>13
  <1> DEFINE R2 == R - s
             shares2 == shares + share
  <1>18. SumsTo(Users, Unclaimed(WinningStakes)', R2)
    BY <1>13
  <1>19. /\ token'[Market] = R2 + LosingPool' - shares2
         /\ WinningPool' * (LosingPool' - shares2)
                <= R2 * LosingPool' + Cardinality(Claimed') * (WinningPool' - 1)
    BY <1>2, <1>8, <1>14, <1>15
  <1>20. ASSUME Apart
         PROVE  /\ BPS_DENOMINATOR * token'[Treasury] <= PROTOCOL_FEE_BPS * shares2
                /\ PROTOCOL_FEE_BPS * shares2 <= BPS_DENOMINATOR * token'[Treasury]
                                  + Cardinality(Claimed') * (BPS_DENOMINATOR - 1)
    BY <1>8, <1>16, <1>20
  <1>21. \E q, x \in Nat : Spread(q, x)'
    <2> SUFFICES ASSUME NEW q, NEW x, q = R2, x = shares2
                 PROVE  Spread(q, x)'
      BY <1>17
    <2> HIDE DEF R2, shares2
    <2> QED
      BY <1>18, <1>19, <1>20 DEF Spread, FeesAre
  <1> QED
    BY <1>1, <1>5, <1>21 DEF SettledInv

LEMMA SettledStep ==
    ASSUME IInv, IInv', SettledInv, [Next]_vars
    PROVE  SettledInv'
  <1>1. CASE Tick \/ UNCHANGED vars
    <2>1. UNCHANGED <<status, outcome, yesPool, noPool, yesStakes, noStakes, hasClaimed, token>>
      BY <1>1 DEF Tick, vars, stakeVars
    <2>2. /\ WinningStakes' = WinningStakes /\ WinningPool' = WinningPool
          /\ LosingPool' = LosingPool /\ Claimed' = Claimed
      BY <2>1 DEF WinningStakes, WinningPool, LosingPool, Claimed
    <2>3. Unclaimed(WinningStakes)' = Unclaimed(WinningStakes)
      BY <2>1, <2>2 DEF Unclaimed
    <2> QED
      BY <2>1, <2>2, <2>3 DEF SettledInv, Spread, FeesAre
  <1>2. CASE Lock
    BY <1>2 DEF Lock, SettledInv
  <1>3. ASSUME NEW u \in Users,
               (\E x \in Amounts : StakeYes(u, x) \/ StakeNo(u, x)) \/ ClaimRefund(u)
        PROVE  SettledInv'
    <2>1. status # "RESOLVED" /\ status' = status
      BY <1>3 DEF StakeYes, StakeNo, MayStake, ClaimRefund
    <2> QED
      BY <1>3, <2>1, TreasuryUntouched DEF SettledInv
  <1>4. CASE \E caller \in Accounts, o \in Outcome : Resolve(caller, o)
    <2>1. PICK o \in Outcome : Resolve(Resolver, o)
      BY <1>4 DEF Resolve
    <2> QED
      BY <2>1, SettledResolve
  <1>5. CASE \E u \in Users : ClaimPayout(u)
    BY <1>5, SettledPayout
  <1> QED
    BY <1>1, <1>2, <1>3, <1>4, <1>5 DEF Next

LEMMA SumsInvariant == Spec => [](IInv /\ LedgerInv /\ SettledInv)
  <1>1. ASSUME Init PROVE LedgerInv /\ SettledInv
    <2>1. IInv /\ (\A u \in Users : ~hasClaimed[u]) /\ token[Market] = yesPool + noPool
      BY <1>1, InvInit, ConstantsAssumption DEF Init, Accounts
    <2>2. LedgerInv
      BY <2>1, NothingPaid
    <2>3. SettledInv
      BY <1>1 DEF Init, SettledInv, Apart, Accounts
    <2> QED
      BY <2>2, <2>3
  <1>2. IInv /\ IInv' /\ LedgerInv /\ SettledInv /\ [Next]_vars => LedgerInv' /\ SettledInv'
    BY LedgerStep, SettledStep
  <1> QED
    BY <1>1, <1>2, Invariant, PTL DEF Spec

-----------------------------------------------------------------------------
(* The theorems. *)

\* Every variable keeps its type; in particular no balance, stake or pool of
\* the contract ever becomes negative (in Solidity: no subtraction reverts).
\* It needs the whole invariant: that claims leave a natural balance is not a
\* matter of types.
THEOREM TypeCorrect == Spec => []TypeOK
  <1>1. IInv => TypeOK
    BY DEF IInv
  <1> QED
    BY <1>1, Invariant, PTL

\* Every winner and every staker of a void market can be paid, in whatever
\* order they come and however the divisions of claimPayout round.
THEOREM ClaimsArePayable == Spec => []EveryClaimPayable
  <1>1. ASSUME IInv
        PROVE  EveryClaimPayable
    <2> SUFFICES ASSUME NEW u \in Users
                 PROVE  /\ OwedPayout(u) => token[Market] >= Fee(u) + Payout(u)
                        /\ OwedRefund(u) => token[Market] >= Refund(u)
      BY DEF EveryClaimPayable
    <2>1. token[Market] \in Nat
      BY <1>1 DEF IInv, TypeOK, Accounts
    <2>2. ASSUME OwedPayout(u)
          PROVE  token[Market] >= Fee(u) + Payout(u)
      BY <1>1, <2>1, <2>2, ClaimTerms
    <2>3. ASSUME OwedRefund(u)
          PROVE  token[Market] >= Refund(u)
      <3> DEFINE f == Unclaimed(Refunds)
      <3>1. f \in [Users -> Nat] /\ f[u] = Refund(u) /\ SumsTo(Users, f, token[Market])
        BY <1>1, <2>3 DEF OwedRefund, Unclaimed, Refunds, Refund, IInv, TypeOK, ClaimsCovered
      <3> HIDE DEF f
      <3>2. f[u] <= token[Market]
        BY <3>1, SumMember
      <3>3. f[u] \in Nat
        BY <3>1
      <3> QED
        BY <2>1, <3>1, <3>2, <3>3
    <2> QED
      BY <2>2, <2>3
  <1> QED
    BY <1>1, Invariant, PTL

\* Every user's balance is the initial one less the stakes plus exactly one
\* payout or refund once claimed.
THEOREM LedgerIsExact == Spec => []UserLedger
  <1>1. IInv => UserLedger
    BY DEF IInv
  <1> QED
    BY <1>1, Invariant, PTL

\* The books of the contract balance: each pool is the sum of the stakes on
\* its side, and the contract's balance is both pools less what its claims
\* have paid to claimants and treasury.
THEOREM LedgerBalances == Spec => []MarketLedger
  <1>1. ASSUME IInv, LedgerInv
        PROVE  MarketLedger
    <2>1. /\ yesStakes \in [Users -> Nat] /\ noStakes \in [Users -> Nat]
          /\ yesPool \in Nat /\ noPool \in Nat /\ token[Market] \in Nat
          /\ SumsTo(Users, yesStakes, yesPool) /\ SumsTo(Users, noStakes, noPool)
      BY <1>1 DEF IInv, TypeOK, PoolsAreTotals, Accounts
    <2>2. ASSUME NEW f \in [Users -> Nat], NEW T, SumsTo(Users, f, T)
          PROVE  Total(f) = T
      <3>1. DOMAIN f = Users /\ Natural(Users, f)
        BY <2>2 DEF Natural
      <3> QED
        BY <2>2, <3>1, UsersAssumption, SumOfFunction DEF Total
    <2>3. yesPool = Total(yesStakes) /\ noPool = Total(noStakes)
      BY <2>1, <2>2
    <2>4. Total(Paid) = yesPool + noPool - token[Market]
      BY <1>1, <2>2 DEF LedgerInv
    <2>5. Total([u \in Users |-> PaidTo(u) + FeeOn(u)]) = Total(Paid)
      BY DEF Paid
    <2>6. token[Market] = yesPool + noPool - (yesPool + noPool - token[Market])
      BY <2>1
    <2> QED
      BY <2>3, <2>4, <2>5, <2>6 DEF MarketLedger
  <1> QED
    BY <1>1, SumsInvariant, PTL

\* When all claims of a resolved market are made, no winning stake is left
\* unclaimed and the claims number the winners.
LEMMA WhenAllClaimed ==
    ASSUME IInv, SettledInv, status = "RESOLVED", AllClaimed, Winners # {},
           NEW R \in Nat, SumsTo(Users, Unclaimed(WinningStakes), R)
    PROVE  /\ R = 0
           /\ WinningPool \in Nat \ {0}
           /\ Claimed = Winners
           /\ Cardinality(Winners) \in Nat \ {0}
  <1>1. /\ WinningStakes \in [Users -> Nat] /\ SumsTo(Users, WinningStakes, WinningPool)
        /\ WinningPool \in Nat
    BY DEF IInv, TypeOK, PoolsAreTotals, WinningStakes, WinningPool
  <1>2. \A u \in Users : hasClaimed[u] <=> WinningStakes[u] > 0
    BY DEF SettledInv, AllClaimed, OwedPayout
  <1>3. Claimed = Winners
    BY <1>2 DEF Claimed, Winners
  <1>4. Cardinality(Winners) \in Nat \ {0}
    BY <1>3, ClaimedFinite, FS_EmptySet
  <1>5. WinningPool # 0
    <2>1. PICK u \in Users : WinningStakes[u] > 0
      BY DEF Winners
    <2>2. WinningStakes[u] <= WinningPool /\ WinningStakes[u] \in Nat
      BY <1>1, SumMember
    <2> QED
      BY <1>1, <2>1, <2>2
  <1>6. R = 0
    <2> DEFINE f == Unclaimed(WinningStakes)
    <2>1. (\A u \in Users : f[u] = 0) /\ Natural(Users, f)
      BY <1>1, <1>2 DEF Unclaimed, Natural
    <2> HIDE DEF f
    <2>2. SumsTo(Users, f, 0)
      BY <2>1, SumZero
    <2>3. SumsTo(Users, f, R)
      BY DEF f
    <2> QED
      BY <2>1, <2>2, <2>3, UsersAssumption, SumUnique
  <1> QED
    BY <1>1, <1>3, <1>4, <1>5, <1>6

\* ... and what the contract still holds is less than one unit per winner.
LEMMA SettledDust ==
    ASSUME IInv, SettledInv, status = "RESOLVED", AllClaimed, Winners # {}
    PROVE  token[Market] < Cardinality(Winners)
  <1>1. PICK R \in Nat, shares \in Nat : Spread(R, shares)
    BY DEF SettledInv
  <1> DEFINE n == Cardinality(Winners)
             t == token[Market]
  <1>2. /\ R = 0 /\ WinningPool \in Nat \ {0} /\ Claimed = Winners
        /\ n \in Nat \ {0}
    BY <1>1, WhenAllClaimed DEF Spread
  <1>3. t \in Nat /\ LosingPool \in Nat
    BY DEF IInv, TypeOK, LosingPool, Accounts
  <1>4. t = LosingPool - shares
    BY <1>1, <1>2, <1>3 DEF Spread
  <1>5. WinningPool * (LosingPool - shares) <= 0 * LosingPool + n * (WinningPool - 1)
    BY <1>1, <1>2 DEF Spread
  <1> HIDE DEF n, t
  <1>6. n * (WinningPool - 1) \in Int
    BY <1>2, SMT
  <1>7. WinningPool * t <= n * (WinningPool - 1)
    BY <1>3, <1>4, <1>5, <1>6
  <1> QED
    BY <1>2, <1>3, <1>7, DustBound DEF n, t

\* Nobody has staked on the winning side: nobody has claimed, nothing is paid.
LEMMA WithoutWinners ==
    ASSUME IInv, LedgerInv, SettledInv, status = "RESOLVED", Winners = {}
    PROVE  token[Market] = LosingPool /\ WinningPool = 0
  <1>1. /\ WinningStakes \in [Users -> Nat] /\ SumsTo(Users, WinningStakes, WinningPool)
        /\ yesPool \in Nat /\ noPool \in Nat /\ token[Market] \in Nat
    BY DEF IInv, TypeOK, PoolsAreTotals, WinningStakes, WinningPool, Accounts
  <1>2. \A u \in Users : WinningStakes[u] = 0
    BY <1>1 DEF Winners
  <1>3. \A u \in Users : ~hasClaimed[u]
    BY <1>2 DEF SettledInv
  <1>4. WinningPool = 0
    <2>1. SumsTo(Users, WinningStakes, 0) /\ Natural(Users, WinningStakes)
      BY <1>1, <1>2, SumZero DEF Natural
    <2> QED
      BY <1>1, <2>1, UsersAssumption, SumUnique
  <1>5. yesPool + noPool - token[Market] = 0
    <2>1. \A u \in Users : Paid[u] = 0
      BY <1>3 DEF Paid, PaidTo, FeeOn
    <2>2. SumsTo(Users, Paid, 0) /\ Natural(Users, Paid)
      BY <2>1, SumZero DEF Natural
    <2> QED
      BY <2>2, UsersAssumption, SumUnique DEF LedgerInv
  <1>6. token[Market] = yesPool + noPool
    BY <1>1, <1>5
  <1>7. CASE outcome = "YES"
    <2>1. yesPool = 0
      BY <1>4, <1>7 DEF WinningPool
    <2> QED
      BY <1>1, <1>4, <1>6, <1>7, <2>1 DEF LosingPool
  <1>8. CASE outcome # "YES"
    <2>1. noPool = 0
      BY <1>4, <1>8 DEF WinningPool
    <2> QED
      BY <1>1, <1>4, <1>6, <1>8, <2>1 DEF LosingPool
  <1> QED
    BY <1>7, <1>8

\* Once every winner has claimed, the contract is left with fewer base units
\* than there were winners, or with the whole losing pool if there was none;
\* once every staker of a void market is refunded, with none.
THEOREM DustIsBounded == Spec => []OnlyDustRemains
  <1>1. ASSUME IInv, SettledInv, status = "RESOLVED", AllClaimed, Winners # {}
        PROVE  token[Market] < Cardinality(Winners)
    BY <1>1, SettledDust
  <1>2. ASSUME IInv, status = "CANCELLED", AllClaimed
        PROVE  token[Market] = 0
    <2> DEFINE f == Unclaimed(Refunds)
    <2>1. SumsTo(Users, f, token[Market])
      BY <1>2 DEF IInv, ClaimsCovered
    <2>2. (\A u \in Users : f[u] = 0) /\ Natural(Users, f)
      <3>1. ASSUME NEW u \in Users PROVE f[u] = 0
        <4>1. Refund(u) \in Nat /\ (hasClaimed[u] \/ ~(Refund(u) > 0))
          BY <1>2 DEF AllClaimed, OwedRefund, IInv, TypeOK, Refund
        <4> QED
          BY <4>1 DEF Unclaimed, Refunds
      <3> QED
        BY <3>1 DEF Natural
    <2> HIDE DEF f
    <2>3. SumsTo(Users, f, 0)
      BY <2>2, SumZero
    <2> QED
      BY <2>1, <2>2, <2>3, UsersAssumption, SumUnique
  <1>3. IInv /\ LedgerInv /\ SettledInv => OnlyDustRemains
    BY <1>1, <1>2, WithoutWinners DEF OnlyDustRemains
  <1> QED
    BY <1>3, SumsInvariant, PTL

\* The treasury never holds more than its percentage of the losing pool, and
\* with every claim made it holds at most two units per winner less.  (The
\* treasury must not stake itself: its balance would mix stakes with fees.)
THEOREM FeesAreTheShare ==
    ASSUME Treasury \notin Users
    PROVE  Spec => []FeeIsShareOfLosingPool
  <1>1. ASSUME IInv, SettledInv, status = "RESOLVED"
        PROVE  /\ token[Treasury] <= FeesDue
               /\ AllClaimed /\ Winners # {}
                    => token[Treasury] + 2 * Cardinality(Winners) >= FeesDue
    <2>1. PICK R \in Nat, shares \in Nat : Spread(R, shares)
      BY <1>1 DEF SettledInv
    <2> DEFINE t == token[Market]
               fees == token[Treasury]
    <2>2. /\ t \in Nat /\ LosingPool \in Nat /\ fees \in Nat
          /\ WinningStakes \in [Users -> Nat]
      BY <1>1 DEF IInv, TypeOK, LosingPool, WinningStakes, Accounts
    <2>3. FeesAre(shares) /\ t = R + LosingPool - shares
      BY <2>1 DEF Spread, Apart
    <2>4. shares <= LosingPool
      <3>1. PICK Q : SumsTo(Users, Unclaimed(WinningStakes), Q) /\ Q <= t
        BY <1>1 DEF IInv, ClaimsCovered, Covered
      <3>2. Natural(Users, Unclaimed(WinningStakes))
        BY <2>2 DEF Unclaimed, Natural
      <3>3. SumsTo(Users, Unclaimed(WinningStakes), R)
        BY <2>1 DEF Spread
      <3>4. Q = R
        BY <3>1, <3>2, <3>3, UsersAssumption, SumUnique
      <3> HIDE DEF t
      <3> QED
        BY <2>2, <2>3, <3>1, <3>4
    <2>5. fees <= FeesDue
      <3>1. BPS_DENOMINATOR * fees <= PROTOCOL_FEE_BPS * shares
        BY <2>3 DEF FeesAre
      <3> HIDE DEF fees
      <3>2. /\ LosingPool * PROTOCOL_FEE_BPS \in Nat
            /\ PROTOCOL_FEE_BPS * shares <= LosingPool * PROTOCOL_FEE_BPS
            /\ PROTOCOL_FEE_BPS * shares \in Int /\ BPS_DENOMINATOR * fees \in Int
        BY <2>2, <2>4, ConstantsAssumption, SMT
      <3>3. BPS_DENOMINATOR * fees <= LosingPool * PROTOCOL_FEE_BPS
        BY <3>1, <3>2
      <3> QED
        BY <2>2, <3>2, <3>3, ConstantsAssumption, AtMostQuotient DEF FeesDue
    <2>6. ASSUME AllClaimed, Winners # {}
          PROVE  fees + 2 * Cardinality(Winners) >= FeesDue
      <3> DEFINE n == Cardinality(Winners)
      <3>1. R = 0 /\ Claimed = Winners /\ n \in Nat \ {0}
        BY <1>1, <2>1, <2>6, WhenAllClaimed DEF Spread
      <3>2. t < n
        BY <1>1, <2>6, SettledDust
      <3>3. PROTOCOL_FEE_BPS * shares <= BPS_DENOMINATOR * fees + n * (BPS_DENOMINATOR - 1)
        BY <2>3, <3>1 DEF FeesAre
      <3> HIDE DEF n, t, fees
      <3>4. shares = LosingPool - t /\ t <= n
        BY <2>2, <2>3, <3>1, <3>2
      <3>5. (LosingPool * PROTOCOL_FEE_BPS) \div BPS_DENOMINATOR <= fees + 2 * n
        BY <2>2, <3>1, <3>3, <3>4, ConstantsAssumption, FeeBound
      <3>6. FeesDue \in Nat
        <4>1. LosingPool * PROTOCOL_FEE_BPS \in Nat
          BY <2>2, ConstantsAssumption, SMT
        <4> QED
          BY <4>1, DivFloor, ConstantsAssumption DEF FeesDue
      <3> QED
        BY <2>2, <3>1, <3>5, <3>6 DEF FeesDue, n
    <2> QED
      BY <2>5, <2>6
  <1>2. IInv /\ SettledInv => FeeIsShareOfLosingPool
    BY <1>1 DEF FeeIsShareOfLosingPool
  <1> QED
    BY <1>2, SumsInvariant, PTL

\* Stakes and pools are frozen from lock() on, the outcome and the status from
\* resolve() on, and a claim once made stays made.
THEOREM TermsAreFinal == Spec => TermsFinal
  <1> DEFINE Frozen ==
        /\ status # "OPEN" => UNCHANGED stakeVars /\ status' # "OPEN"
        /\ outcome # "NONE" => UNCHANGED <<outcome, status>>
        /\ \A u \in Users : hasClaimed[u] => hasClaimed'[u]
  <1>1. ASSUME IInv, [Next]_vars
        PROVE  [Frozen]_vars
    <2>1. CASE Tick
      BY <2>1 DEF Tick, stakeVars
    <2>2. CASE Lock
      BY <1>1, <2>2 DEF Lock, IInv, Phase, Unsettled
    <2>3. CASE \E u \in Users, amount \in Amounts : StakeYes(u, amount)
      BY <1>1, <2>3 DEF StakeYes, MayStake, IInv, Phase, Unsettled
    <2>4. CASE \E u \in Users, amount \in Amounts : StakeNo(u, amount)
      BY <1>1, <2>4 DEF StakeNo, MayStake, IInv, Phase, Unsettled
    <2>5. CASE \E caller \in Accounts, o \in Outcome : Resolve(caller, o)
      BY <1>1, <2>5 DEF Resolve, stakeVars, IInv, Phase, Unsettled
    <2>6. CASE \E u \in Users : ClaimPayout(u)
      BY <1>1, <2>6 DEF ClaimPayout, stakeVars, IInv, TypeOK
    <2>7. CASE \E u \in Users : ClaimRefund(u)
      BY <1>1, <2>7 DEF ClaimRefund, stakeVars, IInv, TypeOK
    <2> QED
      BY <1>1, <2>1, <2>2, <2>3, <2>4, <2>5, <2>6, <2>7 DEF Next
  <1> QED
    BY <1>1, Invariant, PTL DEF Spec, TermsFinal

=============================================================================
