--------------------------------- MODULE Staking ---------------------------------
(*****************************************************************************)
(* A stake from the button to the database: the stake() flow of useStake.ts  *)
(* in every tab, over the wallet sign-in (WalletAuth), the contract and the  *)
(* record of stakes (StakeMirror).                                           *)
(*                                                                           *)
(*   idle -> authenticating -> approving -> staking -> waiting-stake         *)
(*        -> recording -> done | error                                       *)
(*                                                                           *)
(* The contract is what useStake sees of it: it takes a stake while it is    *)
(* open and the allowance covers the amount.                                 *)
(*****************************************************************************)
EXTENDS WalletAuth, StakeMirror, Sequences

CONSTANTS
    Amounts,
    MaxStakes,      \* bound: stake transactions ever sent
    MaxCopies       \* bound: copies of one report the network may deliver

ASSUME StakingAssumption ==
    /\ Amounts \subseteq Nat \ {0}
    /\ MaxStakes \in Nat /\ MaxCopies \in Nat \ {0}

VARIABLES
    step,           \* per tab: the step shown, the amount approved, its transaction
    allowance,      \* per wallet: what the contract may pull
    txs,            \* stake transactions sent, with their copies of the report to the API
    chainOpen       \* does the contract still take stakes?

chainVars == <<allowance, txs, chainOpen>>
vars == <<authVars, mirrorVars, chainVars, step>>

Ready == [step |-> "idle", amount |-> 0, tx |-> 0]

Init ==
    /\ AuthInit
    /\ MirrorInit
    /\ step = [t \in Tabs |-> Ready]
    /\ allowance = [w \in Wallets |-> 0]
    /\ txs = <<>>
    /\ chainOpen = TRUE

Show(t, name) == step' = [step EXCEPT ![t].step = name]

\* What a tab shows without a stake under way; only success keeps its transaction.
Shown(s, name) ==
    [Ready EXCEPT !.step = name, !.tx = IF name = "done" THEN s.tx ELSE 0]

\* The answer of the API moves the tab that waits for it, if one still does.
Answered(i, name) ==
    [t \in Tabs |-> IF step[t].step = "recording" /\ step[t].tx = i
                    THEN Shown(step[t], name) ELSE step[t]]

Report(i) == [tx |-> i, side |-> txs[i].side, amount |-> txs[i].amount]

-----------------------------------------------------------------------------
(* The tab *)

\* stake(side, amount): also after an error, or once more after success.  What
\* the user has chosen shows where it is first used, in Approve and SendStake.
Start(t) ==
    /\ step[t].step \in {"idle", "done", "error"}
    /\ Len(txs) < MaxStakes
    /\ step' = [step EXCEPT ![t] = Shown(@, "authenticating")]
    /\ UNCHANGED <<authVars, mirrorVars, chainVars>>

\* The panel goes back to its start three seconds after a success (told apart
\* from "done" only while the bound lets another stake follow).
Reset(t) ==
    /\ step[t].step = "done"
    /\ Len(txs) < MaxStakes
    /\ step' = [step EXCEPT ![t] = Ready]
    /\ UNCHANGED <<authVars, mirrorVars, chainVars>>

SignIn(t) ==
    /\ step[t].step = "authenticating"
    /\ SignInStep(t)
    /\ UNCHANGED <<mirrorVars, chainVars, step>>

Authenticated(t) ==
    /\ step[t].step = "authenticating"
    /\ \/ auth[t].pc = "in" /\ Show(t, "approving")
       \/ /\ auth[t].pc \in {"refused", "gaveUp"}
          /\ step' = [step EXCEPT ![t] = Shown(@, "error")]
    /\ auth' = [auth EXCEPT ![t] = SignedOut]
    /\ UNCHANGED <<nonceStore, issued, signedIn, mirrorVars, chainVars>>

PendingOf(w) == {i \in 1..Len(txs) : txs[i].state = "pending" /\ txs[i].wallet = w}

\* Mutant: an allowance that is there already is taken, its amount is not.
ApproveSkipped(t) ==
    /\ step[t].step = "approving"
    /\ Show(t, "staking")
    /\ UNCHANGED <<authVars, mirrorVars, chainVars>>

\* approve() replaces the allowance.  It is mined after what the wallet has
\* sent before; its receipt is awaited but not looked at, and the wait may fail.
Approve(t) ==
    /\ step[t].step = "approving"
    /\ PendingOf(WalletOf[t]) = {}
    /\ \E amount \in Amounts :
          /\ allowance' = [allowance EXCEPT ![WalletOf[t]] = amount]
          /\ \/ step' = [step EXCEPT ![t].step = "staking", ![t].amount = amount]
             \/ step' = [step EXCEPT ![t] = Shown(@, "error")]
    /\ UNCHANGED <<authVars, mirrorVars, txs, chainOpen>>

SendStake(t) ==
    /\ step[t].step = "staking"
    /\ Len(txs) < MaxStakes
    /\ \E side \in Sides :
          txs' = Append(txs, [wallet |-> WalletOf[t], side |-> side, amount |-> step[t].amount,
                              state |-> "pending", copies |-> 0])
    /\ step' = [step EXCEPT ![t].step = "waiting-stake", ![t].tx = Len(txs) + 1]
    /\ UNCHANGED <<authVars, mirrorVars, allowance, chainOpen>>

\* Mutant: the receipt's status is not looked at.
StakeReceiptUnchecked(t) ==
    /\ step[t].step = "waiting-stake"
    /\ txs[step[t].tx].state # "pending"
    /\ txs' = [txs EXCEPT ![step[t].tx].copies = 1]
    /\ Show(t, "recording")
    /\ UNCHANGED <<authVars, mirrorVars, allowance, chainOpen>>

\* A stake that reverted is an error; one that did not is reported to the API.
StakeReceipt(t) ==
    /\ step[t].step = "waiting-stake"
    /\ \/ /\ txs[step[t].tx].state = "reverted"
          /\ step' = [step EXCEPT ![t] = Shown(@, "error")]
          /\ UNCHANGED txs
       \/ /\ txs[step[t].tx].state = "success"
          /\ Show(t, "recording")
          /\ \E copies \in 1..MaxCopies : txs' = [txs EXCEPT ![step[t].tx].copies = copies]
    /\ UNCHANGED <<authVars, mirrorVars, allowance, chainOpen>>

\* The user declines, the node does not answer or the connection breaks.
Fail(t) ==
    /\ step[t].step \in {"approving", "staking", "waiting-stake", "recording"}
    /\ step' = [step EXCEPT ![t] = Shown(@, "error")]
    /\ UNCHANGED <<authVars, mirrorVars, chainVars>>

\* Mutant: the answer of the API is taken for success whatever it says.
ReplyUnchecked(h) ==
    /\ handlers[h].pc \in {"ok", "failed"}
    /\ handlers' = [handlers EXCEPT ![h] = Free]
    /\ step' = Answered(handlers[h].req.tx, "done")
    /\ UNCHANGED <<authVars, chainVars, row, stakes, overlapped>>

Reply(h) ==
    /\ handlers[h].pc \in {"ok", "failed"}
    /\ handlers' = [handlers EXCEPT ![h] = Free]
    /\ step' = Answered(handlers[h].req.tx, IF handlers[h].pc = "ok" THEN "done" ELSE "error")
    /\ UNCHANGED <<authVars, chainVars, row, stakes, overlapped>>

-----------------------------------------------------------------------------
(* Chain, network and API *)

\* A wallet's transactions are mined in order.  transferFrom uses the allowance up.
MineStake(w) ==
    \E i \in PendingOf(w) :
        /\ \A j \in PendingOf(w) : i <= j
        /\ LET ok == chainOpen /\ allowance[w] >= txs[i].amount
           IN  /\ txs' = [txs EXCEPT ![i].state = IF ok THEN "success" ELSE "reverted"]
               /\ allowance' = IF ok THEN [allowance EXCEPT ![w] = @ - txs[i].amount]
                               ELSE allowance
        /\ UNCHANGED <<authVars, mirrorVars, step, chainOpen>>

CloseChain ==
    /\ chainOpen
    /\ chainOpen' = FALSE
    /\ UNCHANGED <<authVars, mirrorVars, allowance, txs, step>>

Lock ==
    /\ ~chainOpen
    /\ LockRow
    /\ UNCHANGED <<authVars, chainVars, step>>

\* A report that was sent may arrive late, and more than once.
DeliverReport(i, h) ==
    /\ txs[i].copies > 0
    /\ \/ /\ signedIn[txs[i].wallet]
          /\ Accept(h, Report(i))
          /\ UNCHANGED step
       \/ /\ ~signedIn[txs[i].wallet]
          /\ handlers[h] = Free
          /\ step' = Answered(i, "error")
          /\ UNCHANGED mirrorVars
    /\ txs' = [txs EXCEPT ![i].copies = @ - 1]
    /\ UNCHANGED <<authVars, allowance, chainOpen>>

Serve(h) ==
    /\ MirrorStep(h)
    /\ UNCHANGED <<authVars, chainVars, step>>

Expiry ==
    /\ ExpiryStep
    /\ UNCHANGED <<mirrorVars, chainVars, step>>

Next ==
    \/ \E t \in Tabs : \/ Start(t) \/ Reset(t) \/ SignIn(t) \/ Authenticated(t)
                       \/ Approve(t) \/ SendStake(t) \/ StakeReceipt(t) \/ Fail(t)
    \/ \E w \in Wallets : MineStake(w)
    \/ CloseChain
    \/ Lock
    \/ \E h \in Handlers : \/ Serve(h) \/ Reply(h)
                           \/ \E i \in 1..Len(txs) : DeliverReport(i, h)
    \/ Expiry

Spec == Init /\ [][Next]_vars

-----------------------------------------------------------------------------
StakeSteps == {"idle", "authenticating", "approving", "staking", "waiting-stake",
               "recording", "done", "error"}
TypeOK ==
    /\ AuthTypeOK
    /\ row.status \in {"OPEN", "LOCKED"} /\ DOMAIN row.pool = Sides
    /\ \A h \in Handlers :
          /\ handlers[h].pc \in {"idle", "market", "existing", "write", "ok", "failed"}
          /\ handlers[h].req.tx \in 0..Len(txs)
    /\ step \in [Tabs -> [step : StakeSteps, amount : Amounts \cup {0}, tx : 0..MaxStakes]]
    /\ \A i \in 1..Len(txs) :
          txs[i] \in [wallet : Wallets, side : Sides, amount : Amounts,
                      state : {"pending", "success", "reverted"}, copies : 0..MaxCopies]

\* What the stake button shows as done is in the database.
DoneMeansRecorded ==
    \A t \in Tabs : step[t].step = "done" => Report(step[t].tx) \in stakes

Confirmed == {Report(i) : i \in {j \in 1..Len(txs) : txs[j].state = "success"}}

Mirror == INSTANCE PoolMirror WITH
    Stakes <- [tx : 1..MaxStakes, side : Sides, amount : Amounts],
    confirmed <- Confirmed,
    recorded <- stakes,
    pool <- row.pool

\* The database is a mirror of the contract: every row is a stake the contract
\* has confirmed, recorded once however often and late it is reported, and no
\* pool is shown larger than its stakes.
ImplementsPoolMirror == Mirror!Spec

\* What the schema says of the pools: they mirror the state on chain, once
\* every confirmed stake is recorded and no handler is at work.
PoolsMirrorStakes ==
    (stakes = Confirmed /\ \A h \in Handlers : handlers[h] = Free)
        => \A side \in Sides : row.pool[side] = TotalOn(side)

=============================================================================
