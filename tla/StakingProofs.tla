------------------------------ MODULE StakingProofs ------------------------------
(*****************************************************************************)
(* Theorems about staking and its record, for any wallets, tabs, handlers,   *)
(* amounts and numbers of transactions, nonces and copies of a report.       *)
(*****************************************************************************)
EXTENDS Staking, Sums, SequenceTheorems

-----------------------------------------------------------------------------
(* Types *)

Stake == [tx : Nat, side : Sides, amount : Nat]
StakeTx == [wallet : Wallets, side : Sides, amount : Amounts,
            state : {"pending", "success", "reverted"}, copies : 0..MaxCopies]
Tab == [step : StakeSteps, amount : Amounts \cup {0}, tx : 0..MaxStakes]
Server == [pc : {"idle", "market", "existing", "write", "ok", "failed"},
           req : Stake, seen : Nat]

AuthInv ==
    /\ AuthTypeOK
    /\ \A t \in Tabs : auth[t].pc = "signing" => auth[t].nonce # 0

MirrorTypeInv ==
    /\ row \in [status : {"OPEN", "LOCKED"}, pool : [Sides -> Nat]]
    /\ stakes \subseteq Stake
    /\ handlers \in [Handlers -> Server]

\* What a tab holds at its step: an amount approved, a transaction sent.
TabsInv ==
    /\ step \in [Tabs -> Tab]
    /\ \A t \in Tabs :
          /\ step[t].tx <= Len(txs)
          /\ step[t].step = "staking" => step[t].amount \in Amounts
          /\ step[t].step \in {"waiting-stake", "recording", "done"} => step[t].tx # 0

ChainTypeInv ==
    /\ allowance \in [Wallets -> Nat]
    /\ txs \in Seq(StakeTx) /\ Len(txs) <= MaxStakes
    /\ chainOpen \in BOOLEAN

TypeInv == AuthInv /\ MirrorTypeInv /\ TabsInv /\ ChainTypeInv

-----------------------------------------------------------------------------
(* The inductive invariant *)

Succeeded(i) == i \in 1..Len(txs) /\ txs[i].state = "success"

\* Only confirmed stakes are reported ...
CopiesInv == \A i \in 1..Len(txs) : txs[i].copies > 0 => txs[i].state = "success"

\* ... and handled; a handler that answers "ok" has found or written its stake.
RequestsInv ==
    \A h \in Handlers :
        /\ handlers[h].pc # "idle" => /\ Succeeded(handlers[h].req.tx)
                                      /\ handlers[h].req = Report(handlers[h].req.tx)
        /\ handlers[h].req.tx <= Len(txs)
        /\ handlers[h].pc = "ok" => handlers[h].req \in stakes

\* What is recorded is a confirmed stake as it was sent: two entries of one
\* transaction would be the same.
RecordInv == \A s \in stakes : Succeeded(s.tx) /\ s = Report(s.tx)

IInv == TypeInv /\ CopiesInv /\ RequestsInv /\ RecordInv /\ DoneMeansRecorded

LEMMA Constants ==
    /\ WalletOf \in [Tabs -> Wallets] /\ MaxNonces \in Nat
    /\ Amounts \subseteq Nat \ {0} /\ MaxStakes \in Nat /\ MaxCopies \in Nat \ {0}
  BY AuthAssumption, StakingAssumption

LEMMA TxsLength == ASSUME TypeInv PROVE Len(txs) \in Nat
  BY LenProperties DEF TypeInv, ChainTypeInv

LEMMA TxType == ASSUME TypeInv, NEW i \in 1..Len(txs) PROVE txs[i] \in StakeTx
  BY ElementOfSeq DEF TypeInv, ChainTypeInv

LEMMA InvInit == Init => IInv
  <1> SUFFICES ASSUME Init PROVE IInv
    OBVIOUS
  <1>1. <<>> \in Seq(StakeTx) /\ Len(<<>>) = 0
    BY EmptySeq
  <1>2. AuthInv
    BY Constants DEF Init, AuthInit, AuthInv, AuthTypeOK, NoEntry, SignedOut
  <1>3. MirrorTypeInv
    BY DEF Init, MirrorInit, MirrorTypeInv, Sides, Free, NoStake, Server, Stake
  <1>4. TabsInv
    BY <1>1, Constants DEF Init, TabsInv, Tab, Ready, StakeSteps
  <1>5. ChainTypeInv
    BY <1>1, Constants DEF Init, ChainTypeInv
  <1>6. CopiesInv /\ RequestsInv /\ RecordInv /\ DoneMeansRecorded
    BY <1>1 DEF Init, MirrorInit, CopiesInv, RequestsInv, RecordInv, DoneMeansRecorded,
                Free, NoStake, Ready
  <1> QED
    BY <1>2, <1>3, <1>4, <1>5, <1>6 DEF IInv, TypeInv

-----------------------------------------------------------------------------
(* Signing in *)

Auth == [pc : {"idle", "signing", "verifying", "in", "refused", "gaveUp"},
         nonce : 0..MaxNonces, stored : 0..MaxNonces]

LEMMA EndedType ==
    ASSUME AuthInv, NEW t \in Tabs, NEW pc \in {"in", "refused", "gaveUp"}
    PROVE  /\ Ended(t, pc) \in [Tabs -> Auth]
           /\ \A u \in Tabs : Ended(t, pc)[u].pc = "signing" => Ended(t, pc)[u].nonce # 0
           /\ Ended(t, pc)[t].pc = pc
           /\ \A u \in Tabs \ {t} : Ended(t, pc)[u] = auth[u]
  <1> DEFINE over == [SignedOut EXCEPT !.pc = pc]
  <1>1. over \in Auth /\ over.pc = pc
    BY Constants DEF SignedOut, Auth
  <1>2. auth \in [Tabs -> Auth]
    BY DEF AuthInv, AuthTypeOK, Auth
  <1> HIDE DEF over
  <1>3. Ended(t, pc) = [auth EXCEPT ![t] = over]
    BY DEF Ended, over
  <1> QED
    BY <1>1, <1>2, <1>3 DEF AuthInv

LEMMA SignInType == ASSUME AuthInv, NEW t \in Tabs, SignInStep(t) PROVE AuthInv'
  <1>0. /\ WalletOf[t] \in Wallets /\ MaxNonces \in Nat
        /\ auth \in [Tabs -> Auth] /\ NoEntry \in [nonce : 0..MaxNonces, fresh : BOOLEAN]
        /\ nonceStore[WalletOf[t]] \in [nonce : 0..MaxNonces, fresh : BOOLEAN]
    BY Constants DEF AuthInv, AuthTypeOK, Auth, NoEntry
  <1>1. ASSUME NEW pc \in {"in", "refused", "gaveUp"}, auth' = Ended(t, pc),
               nonceStore' \in {nonceStore, [nonceStore EXCEPT ![WalletOf[t]] = NoEntry]},
               signedIn' \in {signedIn, [signedIn EXCEPT ![WalletOf[t]] = TRUE]},
               UNCHANGED issued
        PROVE  AuthInv'
    <2>1. /\ auth' \in [Tabs -> Auth]
          /\ \A u \in Tabs : auth'[u].pc = "signing" => auth'[u].nonce # 0
      BY <1>1, EndedType
    <2>2. nonceStore' \in [Wallets -> [nonce : 0..MaxNonces, fresh : BOOLEAN]]
      BY <1>0, <1>1 DEF AuthInv, AuthTypeOK
    <2>3. signedIn' \in [Wallets -> BOOLEAN]
      BY <1>0, <1>1 DEF AuthInv, AuthTypeOK
    <2> QED
      BY <1>1, <2>1, <2>2, <2>3 DEF AuthInv, AuthTypeOK, Auth
  <1>2. CASE AlreadySignedIn(t) \/ GiveUp(t)
    BY <1>1, <1>2 DEF AlreadySignedIn, GiveUp
  <1>3. CASE GenerateNonce(t)
    <2>1. issued' \in 0..MaxNonces /\ issued' # 0
      BY <1>0, <1>3 DEF GenerateNonce, AuthInv, AuthTypeOK
    <2>2. /\ nonceStore' = [nonceStore EXCEPT ![WalletOf[t]] = [nonce |-> issued', fresh |-> TRUE]]
          /\ auth' = [auth EXCEPT ![t] = [pc |-> "signing", nonce |-> issued', stored |-> 0]]
          /\ UNCHANGED signedIn
      BY <1>3 DEF GenerateNonce
    <2>3. /\ [pc |-> "signing", nonce |-> issued', stored |-> 0] \in Auth
          /\ [nonce |-> issued', fresh |-> TRUE] \in [nonce : 0..MaxNonces, fresh : BOOLEAN]
      BY <1>0, <2>1 DEF Auth
    <2>4. auth' \in [Tabs -> Auth]
      BY <1>0, <2>2, <2>3
    <2>5. nonceStore' \in [Wallets -> [nonce : 0..MaxNonces, fresh : BOOLEAN]]
      BY <2>2, <2>3 DEF AuthInv, AuthTypeOK
    <2>6. \A u \in Tabs : auth'[u].pc = "signing" => auth'[u].nonce # 0
      BY <1>0, <2>1, <2>2 DEF AuthInv
    <2> QED
      BY <2>1, <2>2, <2>4, <2>5, <2>6 DEF AuthInv, AuthTypeOK, Auth
  <1>4. CASE BeginVerify(t)
    <2>1. CASE nonceStore[WalletOf[t]].fresh
      <3> DEFINE n == nonceStore[WalletOf[t]].nonce
      <3>1. CASE auth' = Ended(t, "refused") /\ UNCHANGED nonceStore
        BY <1>1, <1>4, <3>1 DEF BeginVerify
      <3>2. CASE /\ auth' = [auth EXCEPT ![t].pc = "verifying", ![t].stored = n]
                 /\ UNCHANGED nonceStore
        <4>1. /\ auth' = [auth EXCEPT ![t].pc = "verifying", ![t].stored = n]
              /\ UNCHANGED <<nonceStore, issued, signedIn>>
          BY <1>4, <3>2 DEF BeginVerify
        <4>2. n \in 0..MaxNonces /\ auth[t] \in Auth
          BY <1>0
        <4> DEFINE over == [auth[t] EXCEPT !.pc = "verifying", !.stored = n]
        <4>3. auth' = [auth EXCEPT ![t] = over]
          BY <1>0, <4>1
        <4> HIDE DEF n
        <4>4. over \in Auth /\ over.pc = "verifying"
          BY <4>2 DEF Auth
        <4> HIDE DEF over
        <4>5. /\ auth' \in [Tabs -> Auth]
              /\ \A u \in Tabs : auth'[u].pc = "signing" => auth'[u].nonce # 0
          BY <1>0, <4>3, <4>4 DEF AuthInv
        <4> QED
          BY <4>1, <4>5 DEF AuthInv, AuthTypeOK, Auth
      <3> QED
        BY <1>4, <2>1, <3>1, <3>2 DEF BeginVerify
    <2>2. CASE ~nonceStore[WalletOf[t]].fresh
      BY <1>1, <1>4, <2>2 DEF BeginVerify
    <2> QED
      BY <2>1, <2>2
  <1>5. CASE EndVerify(t)
    BY <1>1, <1>5 DEF EndVerify
  <1> QED
    BY <1>2, <1>3, <1>4, <1>5 DEF SignInStep

LEMMA ExpiryType == AuthInv /\ ExpiryStep => AuthInv'
  BY DEF ExpiryStep, NonceExpires, JwtExpires, AuthInv, AuthTypeOK

\* A tab that the server has not refused, and will not refuse unless its nonce
\* is overwritten by a later one.
Hopeful(t) ==
    \/ auth[t].pc \in {"idle", "in", "gaveUp"}
    \/ auth[t].pc = "signing" /\ auth[t].nonce = nonceStore[WalletOf[t]].nonce
    \/ auth[t].pc = "verifying" /\ auth[t].nonce = auth[t].stored

\* Who overwrites the nonce is the next to have hope.
HopeInv == \A u \in Tabs : \E t \in Tabs : WalletOf[t] = WalletOf[u] /\ Hopeful(t)

LEMMA HopeInvImpliesSomeTabSignsIn == HopeInv => SomeTabSignsIn
  BY DEF HopeInv, Hopeful, SomeTabSignsIn

\* The tab that steps has hope afterwards, or it leaves the others theirs.
LEMMA SignInHope ==
    ASSUME AuthInv, HopeInv, NEW t \in Tabs, SignInStep(t) PROVE HopeInv'
  <1>0. /\ auth \in [Tabs -> Auth] /\ WalletOf[t] \in Wallets
        /\ nonceStore \in [Wallets -> [nonce : 0..MaxNonces, fresh : BOOLEAN]]
    BY Constants DEF AuthInv, AuthTypeOK, Auth
  <1>1. /\ \A u \in Tabs \ {t} : auth'[u] = auth[u]
        /\ \A w \in Wallets \ {WalletOf[t]} : nonceStore'[w] = nonceStore[w]
    <2>1. CASE AlreadySignedIn(t) \/ GiveUp(t)
      BY <1>0, <2>1, EndedType DEF AlreadySignedIn, GiveUp
    <2>2. CASE GenerateNonce(t)
      BY <1>0, <2>2 DEF GenerateNonce
    <2>3. CASE BeginVerify(t)
      BY <1>0, <2>3, EndedType DEF BeginVerify
    <2>4. CASE EndVerify(t)
      BY <1>0, <2>4, EndedType DEF EndVerify
    <2> QED
      BY <2>1, <2>2, <2>3, <2>4 DEF SignInStep
  <1>2. \A u \in Tabs : WalletOf[u] # WalletOf[t] /\ Hopeful(u) => Hopeful(u)'
    BY <1>1, Constants DEF Hopeful
  <1>3. Hopeful(t)' \/ \A u \in Tabs : Hopeful(u) => Hopeful(u)'
    <2>1. ASSUME NEW pc \in {"in", "refused", "gaveUp"}, auth' = Ended(t, pc), pc # "refused"
          PROVE  Hopeful(t)'
      BY <2>1, EndedType DEF Hopeful
    <2>2. CASE AlreadySignedIn(t) \/ GiveUp(t)
      BY <2>1, <2>2 DEF AlreadySignedIn, GiveUp
    <2>3. CASE GenerateNonce(t)
      <3>1. auth'[t].pc = "signing" /\ auth'[t].nonce = issued'
        BY <1>0, <2>3 DEF GenerateNonce
      <3>2. nonceStore'[WalletOf[t]].nonce = issued'
        BY <1>0, <2>3 DEF GenerateNonce
      <3> QED
        BY <3>1, <3>2 DEF Hopeful
    <2>4. CASE BeginVerify(t)
      <3>1. CASE UNCHANGED nonceStore /\ ~Hopeful(t)
        BY <1>1, <3>1 DEF Hopeful
      <3>2. CASE Hopeful(t)
        <4>1. auth[t].pc = "signing" /\ auth[t].nonce = nonceStore[WalletOf[t]].nonce
          BY <2>4, <3>2 DEF BeginVerify, Hopeful
        <4>2. nonceStore[WalletOf[t]].nonce # 0
          BY <4>1 DEF AuthInv
        <4>3. CASE nonceStore[WalletOf[t]].fresh
          <5>1. auth' = [auth EXCEPT ![t].pc = "verifying",
                                     ![t].stored = nonceStore[WalletOf[t]].nonce]
            BY <2>4, <4>2, <4>3 DEF BeginVerify
          <5> QED
            BY <1>0, <4>1, <5>1 DEF Hopeful, Auth
        <4>4. CASE ~nonceStore[WalletOf[t]].fresh
          BY <2>1, <2>4, <4>2, <4>4 DEF BeginVerify
        <4> QED
          BY <4>3, <4>4
      <3>3. CASE ~UNCHANGED nonceStore
        BY <2>1, <2>4, <3>3 DEF BeginVerify
      <3> QED
        BY <3>1, <3>2, <3>3
    <2>5. CASE EndVerify(t)
      <3>1. CASE auth[t].stored = auth[t].nonce
        BY <2>1, <2>5, <3>1 DEF EndVerify
      <3>2. CASE auth[t].stored # auth[t].nonce
        <4>1. UNCHANGED nonceStore /\ ~Hopeful(t)
          BY <2>5, <3>2 DEF EndVerify, Hopeful
        <4> QED
          BY <1>1, <4>1 DEF Hopeful
      <3> QED
        BY <3>1, <3>2
    <2> QED
      BY <2>2, <2>3, <2>4, <2>5 DEF SignInStep
  <1> QED
    BY <1>2, <1>3 DEF HopeInv

LEMMA ExpiryHope == AuthInv /\ HopeInv /\ ExpiryStep => HopeInv'
  <1> SUFFICES ASSUME AuthInv, HopeInv, ExpiryStep PROVE HopeInv'
    OBVIOUS
  <1>1. auth' = auth /\ \A w \in Wallets : nonceStore'[w].nonce = nonceStore[w].nonce
    BY DEF ExpiryStep, NonceExpires, JwtExpires, AuthInv, AuthTypeOK
  <1> QED
    BY <1>1, Constants DEF HopeInv, Hopeful

-----------------------------------------------------------------------------
(* What a step leaves alone *)

\* Transactions are added, never changed but in their state, and success stays.
Keeps ==
    /\ Len(txs)' \in Nat /\ Len(txs) <= Len(txs)'
    /\ \A i \in 1..Len(txs) :
          /\ Report(i)' = Report(i)
          /\ txs[i].state = "success" => txs'[i].state = "success"

LEMMA SameTxsKeep == ASSUME TypeInv, txs' = txs PROVE Keeps
  BY TxsLength DEF Keeps, Report

LEMMA ReplacedTxs ==
    ASSUME TypeInv, NEW i \in 1..Len(txs), NEW tx \in StakeTx, txs' = [txs EXCEPT ![i] = tx],
           tx.side = txs[i].side, tx.amount = txs[i].amount,
           txs[i].state = "success" => tx.state = "success"
    PROVE  /\ Keeps
           /\ txs' \in Seq(StakeTx) /\ Len(txs') = Len(txs)
           /\ txs'[i] = tx /\ \A j \in 1..Len(txs) : j # i => txs'[j] = txs[j]
  <1>1. txs \in Seq(StakeTx) /\ Len(txs) \in Nat
    BY TxsLength DEF TypeInv, ChainTypeInv
  <1>2. /\ txs' \in Seq(StakeTx) /\ Len(txs') = Len(txs)
        /\ \A j \in 1..Len(txs) : txs'[j] = IF j = i THEN tx ELSE txs[j]
    BY <1>1, ExceptSeq
  <1> QED
    BY <1>1, <1>2 DEF Keeps, Report

LEMMA KeepsRecord ==
    ASSUME IInv, Keeps, stakes' = stakes PROVE RecordInv'
  <1>1. Len(txs) \in Nat
    BY TxsLength DEF IInv
  <1>2. ASSUME NEW s \in stakes PROVE Succeeded(s.tx)' /\ s = Report(s.tx)'
    BY <1>1, <1>2 DEF IInv, RecordInv, Succeeded, Keeps
  <1> QED
    BY <1>2 DEF RecordInv

LEMMA KeepsRequests ==
    ASSUME IInv, Keeps, handlers' = handlers, stakes' = stakes PROVE RequestsInv'
  <1>1. Len(txs) \in Nat /\ handlers \in [Handlers -> Server]
    BY TxsLength DEF IInv, TypeInv, MirrorTypeInv
  <1>2. ASSUME NEW h \in Handlers, handlers[h].pc # "idle"
        PROVE  Succeeded(handlers[h].req.tx)' /\ handlers[h].req = Report(handlers[h].req.tx)'
    BY <1>1, <1>2 DEF IInv, RequestsInv, Succeeded, Keeps
  <1>3. ASSUME NEW h \in Handlers PROVE handlers[h].req.tx <= Len(txs)'
    BY <1>1 DEF IInv, RequestsInv, Keeps, Server, Stake
  <1> QED
    BY <1>2, <1>3 DEF IInv, RequestsInv

LEMMA KeepsDone ==
    ASSUME IInv, Keeps, stakes \subseteq stakes',
           \A t \in Tabs : step'[t].step = "done" => step'[t] = step[t]
    PROVE  DoneMeansRecorded'
  <1>1. ASSUME NEW t \in Tabs, step[t].step = "done" PROVE step[t].tx \in 1..Len(txs)
    BY <1>1, TxsLength, Constants DEF IInv, TypeInv, TabsInv, Tab
  <1> QED
    BY <1>1 DEF IInv, DoneMeansRecorded, Keeps

\* One tab moves, and not to "done".
LEMMA TabMoves ==
    ASSUME IInv, Keeps, UNCHANGED mirrorVars,
           NEW t \in Tabs, NEW tab \in Tab, step' = [step EXCEPT ![t] = tab],
           tab.tx <= Len(txs)',
           tab.step = "staking" => tab.amount \in Amounts,
           tab.step \in {"waiting-stake", "recording"} => tab.tx # 0,
           tab.step # "done"
    PROVE  TabsInv' /\ MirrorTypeInv' /\ RequestsInv' /\ RecordInv' /\ DoneMeansRecorded'
  <1>1. Len(txs) \in Nat /\ step \in [Tabs -> Tab]
    BY TxsLength DEF IInv, TypeInv, TabsInv
  <1>2. step'[t] = tab /\ \A u \in Tabs \ {t} : step'[u] = step[u]
    BY <1>1
  <1>3. TabsInv'
    <2>1. \A u \in Tabs : step[u].tx \in Nat
      BY <1>1, Constants DEF Tab
    <2>2. \A u \in Tabs : step'[u].tx <= Len(txs)'
      BY <1>1, <1>2, <2>1 DEF IInv, TypeInv, TabsInv, Keeps
    <2>3. step' \in [Tabs -> Tab]
      BY <1>1
    <2> QED
      BY <1>2, <2>2, <2>3 DEF IInv, TypeInv, TabsInv
  <1>4. DoneMeansRecorded'
    BY <1>2, KeepsDone DEF mirrorVars
  <1>5. MirrorTypeInv'
    BY DEF IInv, TypeInv, MirrorTypeInv, mirrorVars
  <1> QED
    BY <1>3, <1>4, <1>5, KeepsRecord, KeepsRequests DEF mirrorVars

LEMMA ShownTab ==
    ASSUME TypeInv, NEW t \in Tabs, NEW name \in {"authenticating", "error"}
    PROVE  Shown(step[t], name) \in Tab /\ Shown(step[t], name).step = name
           /\ Shown(step[t], name).tx = 0
  <1>1. Shown(step[t], name) = [step |-> name, amount |-> 0, tx |-> 0]
    <2>1. name # "done"
      OBVIOUS
    <2>2. Shown(step[t], name) = [Ready EXCEPT !.step = name, !.tx = 0]
      BY <2>1, Zenon DEF Shown
    <2> QED
      BY <2>2 DEF Ready
  <1> QED
    BY <1>1, Constants DEF Tab, StakeSteps

LEMMA ShowTab ==
    ASSUME TypeInv, NEW t \in Tabs, NEW name \in StakeSteps, Show(t, name)
    PROVE  /\ step' = [step EXCEPT ![t] = [step[t] EXCEPT !.step = name]]
           /\ [step[t] EXCEPT !.step = name] \in Tab
           /\ [step[t] EXCEPT !.step = name].step = name
           /\ [step[t] EXCEPT !.step = name].tx = step[t].tx
           /\ [step[t] EXCEPT !.step = name].amount = step[t].amount
  <1>1. step[t] \in Tab
    BY DEF TypeInv, TabsInv
  <1> QED
    BY <1>1 DEF Show, Tab

-----------------------------------------------------------------------------
(* The tabs *)

LEMMA ErrorInv ==
    ASSUME IInv, NEW t \in Tabs, NEW name \in {"authenticating", "error"},
           step' = [step EXCEPT ![t] = Shown(@, name)],
           AuthInv', UNCHANGED <<mirrorVars, chainVars>>
    PROVE  IInv'
  <1>1. Keeps
    BY SameTxsKeep DEF IInv, chainVars
  <1>2. /\ Shown(step[t], name) \in Tab
        /\ Shown(step[t], name).step \notin {"staking", "waiting-stake", "recording", "done"}
        /\ Shown(step[t], name).tx <= Len(txs)'
    BY <1>1, ShownTab DEF IInv, Keeps
  <1>3. step' = [step EXCEPT ![t] = Shown(step[t], name)]
    OBVIOUS
  <1>4. TabsInv' /\ MirrorTypeInv' /\ RequestsInv' /\ RecordInv' /\ DoneMeansRecorded'
    BY <1>1, <1>2, <1>3, TabMoves
  <1>5. ChainTypeInv' /\ CopiesInv'
    BY DEF IInv, TypeInv, ChainTypeInv, CopiesInv, chainVars
  <1> QED
    BY <1>4, <1>5 DEF IInv, TypeInv

LEMMA AuthKept == ASSUME IInv, UNCHANGED authVars PROVE AuthInv'
  BY DEF IInv, TypeInv, AuthInv, AuthTypeOK, authVars

LEMMA StartInv == ASSUME IInv, NEW t \in Tabs, Start(t) PROVE IInv'
  BY AuthKept, ErrorInv DEF Start

LEMMA FailInv == ASSUME IInv, NEW t \in Tabs, Fail(t) PROVE IInv'
  BY AuthKept, ErrorInv DEF Fail

LEMMA ResetInv == ASSUME IInv, NEW t \in Tabs, Reset(t) PROVE IInv'
  <1>1. Keeps /\ UNCHANGED <<mirrorVars, chainVars>> /\ AuthInv'
    BY SameTxsKeep, AuthKept DEF IInv, chainVars, Reset
  <1>2. Ready \in Tab /\ Ready.step = "idle" /\ Ready.tx <= Len(txs)'
    BY <1>1, Constants DEF Ready, Tab, StakeSteps, Keeps
  <1>3. TabsInv' /\ MirrorTypeInv' /\ RequestsInv' /\ RecordInv' /\ DoneMeansRecorded'
    BY <1>1, <1>2, TabMoves DEF Reset
  <1>4. ChainTypeInv' /\ CopiesInv'
    BY <1>1 DEF IInv, TypeInv, ChainTypeInv, CopiesInv, chainVars
  <1> QED
    BY <1>1, <1>3, <1>4 DEF IInv, TypeInv

\* Nothing but the sign-in's own state moves.
LEMMA AuthOnly ==
    ASSUME IInv, AuthInv', UNCHANGED <<mirrorVars, chainVars, step>> PROVE IInv'
  <1>1. Keeps
    BY SameTxsKeep DEF IInv, chainVars
  <1>2. RequestsInv' /\ RecordInv' /\ DoneMeansRecorded'
    BY <1>1, KeepsRecord, KeepsRequests, KeepsDone DEF mirrorVars
  <1>3. MirrorTypeInv' /\ TabsInv' /\ ChainTypeInv' /\ CopiesInv'
    BY DEF IInv, TypeInv, MirrorTypeInv, TabsInv, ChainTypeInv, CopiesInv, mirrorVars, chainVars
  <1> QED
    BY <1>2, <1>3 DEF IInv, TypeInv

LEMMA SignInInv == ASSUME IInv, NEW t \in Tabs, SignIn(t) PROVE IInv'
  BY SignInType, AuthOnly DEF SignIn, IInv, TypeInv

LEMMA ExpiryInv == ASSUME IInv, Expiry PROVE IInv'
  BY ExpiryType, AuthOnly DEF Expiry, IInv, TypeInv

LEMMA AuthenticatedInv == ASSUME IInv, NEW t \in Tabs, Authenticated(t) PROVE IInv'
  <1>1. AuthInv' /\ UNCHANGED <<mirrorVars, chainVars>>
    BY Constants DEF Authenticated, SignedOut, IInv, TypeInv, AuthInv, AuthTypeOK
  <1>2. CASE step' = [step EXCEPT ![t] = Shown(@, "error")]
    BY <1>1, <1>2, ErrorInv
  <1>3. CASE Show(t, "approving")
    <2> DEFINE tab == [step[t] EXCEPT !.step = "approving"]
    <2>1. /\ step' = [step EXCEPT ![t] = tab]
          /\ tab \in Tab /\ tab.step = "approving" /\ tab.tx = step[t].tx
      BY <1>3, ShowTab DEF IInv, StakeSteps
    <2>2. Keeps /\ tab.tx <= Len(txs)'
      BY <1>1, <2>1, SameTxsKeep DEF IInv, TypeInv, TabsInv, chainVars
    <2> HIDE DEF tab
    <2>3. TabsInv' /\ MirrorTypeInv' /\ RequestsInv' /\ RecordInv' /\ DoneMeansRecorded'
      BY <1>1, <2>1, <2>2, TabMoves
    <2>4. ChainTypeInv' /\ CopiesInv'
      BY <1>1 DEF IInv, TypeInv, ChainTypeInv, CopiesInv, chainVars
    <2> QED
      BY <1>1, <2>3, <2>4 DEF IInv, TypeInv
  <1> QED
    BY <1>2, <1>3 DEF Authenticated

LEMMA ApproveInv == ASSUME IInv, NEW t \in Tabs, Approve(t) PROVE IInv'
  <1>1. PICK amount \in Amounts :
           /\ allowance' = [allowance EXCEPT ![WalletOf[t]] = amount]
           /\ \/ step' = [step EXCEPT ![t].step = "staking", ![t].amount = amount]
              \/ step' = [step EXCEPT ![t] = Shown(@, "error")]
    BY DEF Approve
  <1> DEFINE bought == [step[t] EXCEPT !.step = "staking", !.amount = amount]
  <1>2. step[t] \in Tab /\ step[t].tx <= Len(txs) /\ step \in [Tabs -> Tab]
    BY DEF IInv, TypeInv, TabsInv
  <1>3. step' = [step EXCEPT ![t] = bought] \/ step' = [step EXCEPT ![t] = Shown(step[t], "error")]
    BY <1>1, <1>2
  <1>4. /\ bought \in Tab /\ bought.tx <= Len(txs)
        /\ bought.step \notin {"waiting-stake", "recording", "done"}
        /\ bought.step = "staking" => bought.amount \in Amounts
    BY <1>2 DEF Tab, StakeSteps
  <1>5. PICK tab \in {bought, Shown(step[t], "error")} : step' = [step EXCEPT ![t] = tab]
    BY <1>3
  <1>6. UNCHANGED <<mirrorVars, txs, chainOpen>> /\ AuthInv'
    BY AuthKept DEF Approve
  <1>7. Keeps
    BY <1>6, SameTxsKeep DEF IInv
  <1>8. /\ Shown(step[t], "error") \in Tab
        /\ Shown(step[t], "error").step = "error" /\ Shown(step[t], "error").tx <= Len(txs)
    BY <1>2, ShownTab DEF IInv, Shown, Ready
  <1> HIDE DEF bought
  <1>9. /\ tab \in Tab /\ tab.tx <= Len(txs)'
        /\ tab.step \notin {"waiting-stake", "recording", "done"}
        /\ tab.step = "staking" => tab.amount \in Amounts
    BY <1>4, <1>5, <1>6, <1>8
  <1>10. TabsInv' /\ MirrorTypeInv' /\ RequestsInv' /\ RecordInv' /\ DoneMeansRecorded'
    BY <1>5, <1>6, <1>7, <1>9, TabMoves
  <1>11. ChainTypeInv' /\ CopiesInv'
    BY <1>1, <1>6, Constants DEF IInv, TypeInv, ChainTypeInv, CopiesInv
  <1> QED
    BY <1>6, <1>10, <1>11 DEF IInv, TypeInv

LEMMA SendStakeInv == ASSUME IInv, NEW t \in Tabs, SendStake(t) PROVE IInv'
  <1>0. /\ step[t] \in Tab /\ step \in [Tabs -> Tab] /\ WalletOf[t] \in Wallets
        /\ txs \in Seq(StakeTx) /\ Len(txs) \in Nat
        /\ UNCHANGED <<mirrorVars, allowance, chainOpen>> /\ AuthInv'
        /\ Len(txs) < MaxStakes
    BY AuthKept, TxsLength, Constants DEF SendStake, IInv, TypeInv, TabsInv, ChainTypeInv
  <1>1. PICK side \in Sides :
           txs' = Append(txs, [wallet |-> WalletOf[t], side |-> side, amount |-> step[t].amount,
                               state |-> "pending", copies |-> 0])
    BY DEF SendStake
  <1> DEFINE tx == [wallet |-> WalletOf[t], side |-> side, amount |-> step[t].amount,
                    state |-> "pending", copies |-> 0]
             tab == [step[t] EXCEPT !.step = "waiting-stake", !.tx = Len(txs) + 1]
  <1>2. step[t].amount \in Amounts
    BY DEF SendStake, IInv, TypeInv, TabsInv
  <1>3. tx \in StakeTx /\ tx.copies = 0
    BY <1>0, <1>2, Constants DEF StakeTx
  <1> HIDE DEF tx
  <1>4. /\ txs' \in Seq(StakeTx) /\ Len(txs') = Len(txs) + 1
        /\ txs'[Len(txs) + 1] = tx
        /\ \A i \in 1..Len(txs) : txs'[i] = txs[i]
    BY <1>0, <1>1, <1>3, AppendProperties DEF tx
  <1>5. Keeps
    BY <1>0, <1>4 DEF Keeps, Report
  <1>6. step' = [step EXCEPT ![t] = tab]
    BY <1>0 DEF SendStake
  <1>7. tab \in Tab /\ tab.step = "waiting-stake" /\ tab.tx = Len(txs)' /\ tab.tx # 0
    <2>1. Len(txs) + 1 \in 0..MaxStakes /\ "waiting-stake" \in StakeSteps
      BY <1>0, Constants DEF StakeSteps
    <2>2. ASSUME NEW n \in 0..MaxStakes, NEW tb \in Tab
          PROVE  LET new == [tb EXCEPT !.step = "waiting-stake", !.tx = n]
                 IN  new \in Tab /\ new.step = "waiting-stake" /\ new.tx = n
      BY <2>1 DEF Tab
    <2>3. tab \in Tab /\ tab.step = "waiting-stake" /\ tab.tx = Len(txs) + 1
      <3> HIDE DEF Tab
      <3> QED
        BY <1>0, <2>1, <2>2
    <2> QED
      BY <1>0, <1>4, <2>3
  <1> HIDE DEF tab
  <1>8. TabsInv' /\ MirrorTypeInv' /\ RequestsInv' /\ RecordInv' /\ DoneMeansRecorded'
    <2>1. tab.tx <= Len(txs)'
      BY <1>0, <1>4, <1>7
    <2> QED
      BY <1>0, <1>5, <1>6, <1>7, <2>1, TabMoves
  <1>9. ChainTypeInv'
    BY <1>0, <1>4, Constants DEF IInv, TypeInv, ChainTypeInv
  <1>10. CopiesInv'
    BY <1>0, <1>3, <1>4 DEF IInv, CopiesInv
  <1> QED
    BY <1>0, <1>8, <1>9, <1>10 DEF IInv, TypeInv

LEMMA StakeReceiptInv == ASSUME IInv, NEW t \in Tabs, StakeReceipt(t) PROVE IInv'
  <1>0. /\ UNCHANGED <<mirrorVars, allowance, chainOpen>> /\ AuthInv'
        /\ step[t] \in Tab /\ step[t].step = "waiting-stake"
        /\ step[t].tx \in 1..Len(txs)
    BY AuthKept, TxsLength, Constants DEF StakeReceipt, IInv, TypeInv, TabsInv, Tab
  <1>1. CASE step' = [step EXCEPT ![t] = Shown(@, "error")] /\ UNCHANGED txs
    BY <1>0, <1>1, ErrorInv DEF chainVars
  <1>2. CASE /\ txs[step[t].tx].state = "success"
             /\ Show(t, "recording")
             /\ \E copies \in 1..MaxCopies : txs' = [txs EXCEPT ![step[t].tx].copies = copies]
    <2> DEFINE i == step[t].tx
               tab == [step[t] EXCEPT !.step = "recording"]
    <2>1. PICK copies \in 1..MaxCopies : txs' = [txs EXCEPT ![i].copies = copies]
      BY <1>2
    <2> DEFINE tx == [txs[i] EXCEPT !.copies = copies]
    <2>2. txs[i] \in StakeTx
      BY <1>0, TxType DEF IInv
    <2>3. /\ tx \in StakeTx /\ tx.side = txs[i].side /\ tx.amount = txs[i].amount
          /\ tx.state = txs[i].state
      BY <2>2, Constants DEF StakeTx
    <2>4. txs' = [txs EXCEPT ![i] = tx]
      BY <2>1
    <2>5. /\ step' = [step EXCEPT ![t] = tab]
          /\ tab \in Tab /\ tab.step = "recording" /\ tab.tx = step[t].tx
      BY <1>2, ShowTab DEF IInv, StakeSteps
    <2> HIDE DEF tx, tab
    <2>6. /\ Keeps
          /\ txs' \in Seq(StakeTx) /\ Len(txs') = Len(txs)
          /\ txs'[i] = tx /\ \A j \in 1..Len(txs) : j # i => txs'[j] = txs[j]
      BY <1>0, <2>3, <2>4, ReplacedTxs DEF IInv
    <2>7. tab.tx <= Len(txs)' /\ tab.tx # 0
      BY <1>0, <2>5, <2>6, TxsLength DEF IInv
    <2>8. TabsInv' /\ MirrorTypeInv' /\ RequestsInv' /\ RecordInv' /\ DoneMeansRecorded'
      BY <1>0, <2>5, <2>6, <2>7, TabMoves
    <2>9. ChainTypeInv'
      BY <1>0, <2>6 DEF IInv, TypeInv, ChainTypeInv
    <2>10. CopiesInv'
      BY <1>0, <1>2, <2>3, <2>6 DEF IInv, CopiesInv
    <2> QED
      BY <1>0, <2>8, <2>9, <2>10 DEF IInv, TypeInv
  <1> QED
    BY <1>1, <1>2 DEF StakeReceipt

\* The answer of the API: to "done" only when the stake is recorded.
LEMMA AnsweredTabs ==
    ASSUME IInv, Keeps, stakes' = stakes, NEW i \in 1..Len(txs), NEW name \in {"done", "error"},
           step' = Answered(i, name), name = "done" => Report(i) \in stakes
    PROVE  TabsInv' /\ DoneMeansRecorded'
  <1>1. Len(txs) \in Nat /\ step \in [Tabs -> Tab] /\ Len(txs)' \in Nat
    BY TxsLength DEF IInv, TypeInv, TabsInv, Keeps
  <1>2. ASSUME NEW t \in Tabs
        PROVE  \/ step'[t] = step[t]
               \/ /\ step'[t] = [step |-> name, amount |-> 0, tx |-> IF name = "done" THEN i ELSE 0]
                  /\ step[t].step = "recording"
    BY DEF Answered, Shown, Ready
  <1>3. ASSUME NEW t \in Tabs PROVE step'[t] \in Tab
    BY <1>1, <1>2, Constants DEF Tab, StakeSteps, IInv, TypeInv, ChainTypeInv
  <1>4. step' \in [Tabs -> Tab]
    BY <1>3 DEF Answered
  <1>5. ASSUME NEW t \in Tabs
        PROVE  /\ step'[t].tx <= Len(txs)'
               /\ step'[t].step = "staking" => step'[t].amount \in Amounts
               /\ step'[t].step \in {"waiting-stake", "recording", "done"} => step'[t].tx # 0
    <2>1. CASE step'[t] = step[t]
      <3>1. step[t].tx \in Nat /\ step[t].tx <= Len(txs)
        BY <1>1, Constants DEF Tab, IInv, TypeInv, TabsInv
      <3> QED
        BY <1>1, <2>1, <3>1 DEF IInv, TypeInv, TabsInv, Keeps
    <2>2. CASE step'[t] = [step |-> name, amount |-> 0, tx |-> IF name = "done" THEN i ELSE 0]
      BY <1>1, <2>2 DEF Keeps
    <2> QED
      BY <1>2, <2>1, <2>2
  <1>6. DoneMeansRecorded'
    <2>1. ASSUME NEW t \in Tabs, step'[t].step = "done"
          PROVE  \E j \in 1..Len(txs) : j = step'[t].tx /\ Report(j) \in stakes
      <3>1. CASE step'[t] = step[t]
        BY <1>1, <2>1, <3>1, Constants DEF IInv, TypeInv, TabsInv, Tab, DoneMeansRecorded
      <3>2. CASE step'[t] = [step |-> name, amount |-> 0, tx |-> IF name = "done" THEN i ELSE 0]
        BY <2>1, <3>2
      <3> QED
        BY <1>2, <3>1, <3>2
    <2>2. \A j \in 1..Len(txs) : Report(j)' = Report(j)
      BY DEF Keeps
    <2> QED
      BY <2>1, <2>2 DEF DoneMeansRecorded, Report
  <1> QED
    BY <1>4, <1>5, <1>6 DEF TabsInv

-----------------------------------------------------------------------------
(* The chain and the servers *)

LEMMA MineStakeInv == ASSUME IInv, NEW w \in Wallets, MineStake(w) PROVE IInv'
  <1>1. PICK i \in PendingOf(w) :
           LET ok == chainOpen /\ allowance[w] >= txs[i].amount
           IN  /\ txs' = [txs EXCEPT ![i].state = IF ok THEN "success" ELSE "reverted"]
               /\ allowance' = IF ok THEN [allowance EXCEPT ![w] = @ - txs[i].amount]
                               ELSE allowance
    BY DEF MineStake
  <1>2. /\ i \in 1..Len(txs) /\ txs[i] \in StakeTx /\ txs[i].state = "pending"
        /\ UNCHANGED <<mirrorVars, step, chainOpen>> /\ AuthInv'
    BY TxType, AuthKept DEF MineStake, PendingOf, IInv
  <1>3. PICK mined \in {"success", "reverted"} : txs' = [txs EXCEPT ![i].state = mined]
    BY <1>1
  <1> DEFINE tx == [txs[i] EXCEPT !.state = mined]
  <1>4. /\ tx \in StakeTx /\ tx.side = txs[i].side /\ tx.amount = txs[i].amount
        /\ tx.copies = txs[i].copies
    BY <1>2 DEF StakeTx
  <1>5. txs' = [txs EXCEPT ![i] = tx]
    BY <1>3
  <1> HIDE DEF tx
  <1>6. /\ Keeps
        /\ txs' \in Seq(StakeTx) /\ Len(txs') = Len(txs)
        /\ txs'[i] = tx /\ \A j \in 1..Len(txs) : j # i => txs'[j] = txs[j]
    BY <1>2, <1>4, <1>5, ReplacedTxs DEF IInv
  <1>7. allowance' \in [Wallets -> Nat]
    <2>1. allowance[w] \in Nat /\ txs[i].amount \in Nat
      BY <1>2, Constants DEF StakeTx, IInv, TypeInv, ChainTypeInv
    <2>2. CASE chainOpen /\ allowance[w] >= txs[i].amount
      <3>1. allowance[w] - txs[i].amount \in Nat
        BY <2>1, <2>2
      <3>2. allowance' = [allowance EXCEPT ![w] = allowance[w] - txs[i].amount]
        BY <1>1, <2>2
      <3> QED
        BY <3>1, <3>2 DEF IInv, TypeInv, ChainTypeInv
    <2>3. CASE ~(chainOpen /\ allowance[w] >= txs[i].amount)
      BY <1>1, <2>3 DEF IInv, TypeInv, ChainTypeInv
    <2> QED
      BY <2>2, <2>3
  <1>8. ChainTypeInv'
    BY <1>2, <1>6, <1>7 DEF IInv, TypeInv, ChainTypeInv
  <1>9. CopiesInv'
    <2>1. ~(txs[i].copies > 0)
      BY <1>2 DEF IInv, CopiesInv
    <2> QED
      BY <1>4, <1>6, <2>1 DEF IInv, CopiesInv
  <1>10. RequestsInv' /\ RecordInv' /\ DoneMeansRecorded'
    BY <1>2, <1>6, KeepsRecord, KeepsRequests, KeepsDone DEF mirrorVars
  <1>11. MirrorTypeInv' /\ TabsInv'
    BY <1>2, <1>6 DEF IInv, TypeInv, MirrorTypeInv, TabsInv, mirrorVars
  <1> QED
    BY <1>2, <1>8, <1>9, <1>10, <1>11 DEF IInv, TypeInv

LEMMA CloseChainInv == ASSUME IInv, CloseChain PROVE IInv'
  <1>1. Keeps /\ UNCHANGED <<mirrorVars, allowance, txs, step>> /\ AuthInv' /\ chainOpen' = FALSE
    BY SameTxsKeep, AuthKept DEF IInv, CloseChain
  <1>2. RequestsInv' /\ RecordInv' /\ DoneMeansRecorded'
    BY <1>1, KeepsRecord, KeepsRequests, KeepsDone DEF mirrorVars
  <1>3. MirrorTypeInv' /\ TabsInv' /\ ChainTypeInv' /\ CopiesInv'
    BY <1>1 DEF IInv, TypeInv, MirrorTypeInv, TabsInv, ChainTypeInv, CopiesInv, mirrorVars
  <1> QED
    BY <1>1, <1>2, <1>3 DEF IInv, TypeInv

LEMMA LockInv == ASSUME IInv, Lock PROVE IInv'
  <1>1. /\ Keeps /\ UNCHANGED <<chainVars, step, stakes, handlers>> /\ AuthInv'
        /\ row' = [row EXCEPT !.status = "LOCKED"]
    BY SameTxsKeep, AuthKept DEF IInv, Lock, LockRow, chainVars
  <1>2. RequestsInv' /\ RecordInv' /\ DoneMeansRecorded'
    BY <1>1, KeepsRecord, KeepsRequests, KeepsDone
  <1>3. MirrorTypeInv' /\ TabsInv' /\ ChainTypeInv' /\ CopiesInv'
    BY <1>1 DEF IInv, TypeInv, MirrorTypeInv, TabsInv, ChainTypeInv, CopiesInv, chainVars
  <1> QED
    BY <1>1, <1>2, <1>3 DEF IInv, TypeInv

LEMMA ReportType == ASSUME TypeInv, NEW i \in 1..Len(txs) PROVE Report(i) \in Stake
  <1>1. i \in Nat /\ txs[i] \in StakeTx
    BY TxsLength, TxType
  <1> QED
    BY <1>1, Constants DEF Report, Stake, StakeTx

LEMMA DeliverReportInv ==
    ASSUME IInv, NEW h \in Handlers, NEW i \in 1..Len(txs), DeliverReport(i, h) PROVE IInv'
  <1>1. /\ txs[i] \in StakeTx /\ txs[i].copies > 0 /\ txs[i].state = "success"
        /\ UNCHANGED <<allowance, chainOpen>> /\ AuthInv'
        /\ txs' = [txs EXCEPT ![i].copies = @ - 1]
    BY TxType, AuthKept DEF DeliverReport, IInv, CopiesInv
  <1> DEFINE tx == [txs[i] EXCEPT !.copies = txs[i].copies - 1]
  <1>2. /\ tx \in StakeTx /\ tx.side = txs[i].side /\ tx.amount = txs[i].amount
        /\ tx.state = txs[i].state
    BY <1>1, Constants DEF StakeTx
  <1>3. txs' = [txs EXCEPT ![i] = tx]
    BY <1>1
  <1> HIDE DEF tx
  <1>4. /\ Keeps
        /\ txs' \in Seq(StakeTx) /\ Len(txs') = Len(txs)
        /\ txs'[i] = tx /\ \A j \in 1..Len(txs) : j # i => txs'[j] = txs[j]
    BY <1>2, <1>3, ReplacedTxs DEF IInv
  <1>5. ChainTypeInv' /\ CopiesInv'
    BY <1>1, <1>2, <1>4 DEF IInv, TypeInv, ChainTypeInv, CopiesInv
  <1>6. CASE Accept(h, Report(i)) /\ UNCHANGED step
    <2> DEFINE server == [Free EXCEPT !.pc = "market", !.req = Report(i)]
    <2>1. Report(i) \in Stake
      BY ReportType DEF IInv
    <2>2. /\ server \in Server /\ server.pc = "market" /\ server.req = Report(i)
          /\ handlers' = [handlers EXCEPT ![h] = server]
          /\ UNCHANGED <<row, stakes, overlapped>>
      BY <1>6, <2>1 DEF Accept, Free, Server
    <2> HIDE DEF server
    <2>3. MirrorTypeInv' /\ TabsInv'
      BY <1>4, <1>6, <2>2 DEF IInv, TypeInv, MirrorTypeInv, TabsInv
    <2>4. RecordInv' /\ DoneMeansRecorded'
      BY <1>4, <1>6, <2>2, KeepsRecord, KeepsDone
    <2>5. ASSUME NEW g \in Handlers, g # h
          PROVE  /\ handlers'[g].pc # "idle" => /\ Succeeded(handlers[g].req.tx)'
                                                /\ handlers[g].req = Report(handlers[g].req.tx)'
                 /\ handlers'[g] = handlers[g]
                 /\ handlers[g].req.tx <= Len(txs)'
      <3>1. handlers'[g] = handlers[g]
        BY <2>2, <2>5 DEF IInv, TypeInv, MirrorTypeInv
      <3> QED
        BY <1>4, <3>1 DEF IInv, RequestsInv, Succeeded, Keeps
    <2>6. /\ handlers'[h] = server /\ server.req.tx = i
          /\ Succeeded(i)' /\ Report(i)' = Report(i)
      BY <1>1, <1>4, <2>2 DEF IInv, TypeInv, MirrorTypeInv, Succeeded, Keeps, Report
    <2>7. i <= Len(txs)'
      BY <1>4, TxsLength DEF IInv
    <2>8. RequestsInv'
      <3>1. ASSUME NEW g \in Handlers, handlers'[g].pc # "idle"
            PROVE  Succeeded(handlers[g].req.tx)' /\ (handlers[g].req = Report(handlers[g].req.tx))'
        <4>1. CASE g = h
          BY <2>2, <2>6, <4>1 DEF Succeeded, Report
        <4>2. CASE g # h
          BY <2>5, <3>1, <4>2 DEF Succeeded, Report
        <4> QED
          BY <4>1, <4>2
      <3>2. ASSUME NEW g \in Handlers
            PROVE  (handlers[g].req.tx <= Len(txs))' /\ (handlers'[g].pc = "ok" => handlers'[g].req \in stakes)
        BY <2>2, <2>5, <2>6, <2>7 DEF IInv, RequestsInv
      <3> QED
        BY <2>2, <3>1, <3>2 DEF RequestsInv
    <2> QED
      BY <1>1, <1>5, <2>3, <2>4, <2>8 DEF IInv, TypeInv
  <1>7. CASE step' = Answered(i, "error") /\ UNCHANGED mirrorVars
    <2>1. TabsInv' /\ DoneMeansRecorded'
      BY <1>4, <1>7, AnsweredTabs DEF mirrorVars
    <2>2. RequestsInv' /\ RecordInv'
      BY <1>4, <1>7, KeepsRecord, KeepsRequests DEF mirrorVars
    <2>3. MirrorTypeInv'
      BY <1>7 DEF IInv, TypeInv, MirrorTypeInv, mirrorVars
    <2> QED
      BY <1>1, <1>5, <2>1, <2>2, <2>3 DEF IInv, TypeInv
  <1> QED
    BY <1>6, <1>7 DEF DeliverReport

\* A handler moves, its request stays.
LEMMA ServerMoves ==
    ASSUME IInv, NEW h \in Handlers, NEW server \in Server,
           handlers' = [handlers EXCEPT ![h] = server],
           server.req = handlers[h].req,
           handlers[h].pc # "idle",
           stakes \subseteq stakes', server.pc = "ok" => server.req \in stakes',
           UNCHANGED <<authVars, chainVars, step>>
    PROVE  RequestsInv' /\ DoneMeansRecorded' /\ handlers' \in [Handlers -> Server]
           /\ AuthInv' /\ TabsInv' /\ ChainTypeInv' /\ CopiesInv'
  <1>1. Keeps /\ txs' = txs /\ step' = step
    BY SameTxsKeep DEF IInv, chainVars
  <1>2. handlers \in [Handlers -> Server]
    BY DEF IInv, TypeInv, MirrorTypeInv
  <1>3. handlers'[h] = server /\ \A g \in Handlers \ {h} : handlers'[g] = handlers[g]
    BY <1>2
  <1>4. \A i : Succeeded(i)' = Succeeded(i) /\ Report(i)' = Report(i)
    BY <1>1 DEF Succeeded, Report
  <1>5. RequestsInv'
    <2>1. ASSUME NEW g \in Handlers
          PROVE  /\ handlers'[g].req = handlers[g].req
                 /\ handlers'[g].pc # "idle" => handlers[g].pc # "idle"
                 /\ handlers'[g].pc = "ok" => handlers'[g].req \in stakes'
      BY <1>3 DEF IInv, RequestsInv
    <2> QED
      BY <1>1, <2>1 DEF IInv, RequestsInv, Succeeded, Report
  <1>6. DoneMeansRecorded'
    BY <1>1, KeepsDone
  <1>7. AuthInv' /\ TabsInv' /\ ChainTypeInv' /\ CopiesInv'
    BY <1>1, AuthKept DEF IInv, TypeInv, TabsInv, ChainTypeInv, CopiesInv, chainVars
  <1> QED
    BY <1>2, <1>5, <1>6, <1>7

LEMMA AnswerMoves ==
    ASSUME IInv, NEW h \in Handlers, NEW pc \in {"ok", "failed"}, Answer(h, pc)
    PROVE  LET server == [handlers[h] EXCEPT !.pc = pc, !.seen = 0]
           IN  /\ handlers' = [handlers EXCEPT ![h] = server]
               /\ server \in Server /\ server.pc = pc /\ server.req = handlers[h].req
  BY DEF Answer, Server, IInv, TypeInv, MirrorTypeInv

LEMMA ServeInv == ASSUME IInv, NEW h \in Handlers, Serve(h) PROVE IInv'
  <1>0. /\ handlers[h] \in Server /\ handlers \in [Handlers -> Server]
        /\ row \in [status : {"OPEN", "LOCKED"}, pool : [Sides -> Nat]]
        /\ UNCHANGED <<authVars, chainVars, step>> /\ txs' = txs
        /\ handlers[h].req.side \in Sides /\ handlers[h].req.amount \in Nat
        /\ handlers[h].seen \in Nat
    BY DEF Serve, chainVars, IInv, TypeInv, MirrorTypeInv, Server, Stake
  <1>1. ASSUME NEW server \in Server, handlers' = [handlers EXCEPT ![h] = server],
               server.req = handlers[h].req, handlers[h].pc # "idle",
               server.pc = "ok" => server.req \in stakes,
               UNCHANGED <<row, stakes>>
        PROVE  IInv'
    <2>1. /\ RequestsInv' /\ DoneMeansRecorded' /\ handlers' \in [Handlers -> Server]
          /\ AuthInv' /\ TabsInv' /\ ChainTypeInv' /\ CopiesInv'
      BY <1>0, <1>1, ServerMoves
    <2>2. MirrorTypeInv'
      BY <1>1, <2>1 DEF IInv, TypeInv, MirrorTypeInv
    <2>3. RecordInv'
      BY <1>0, <1>1, SameTxsKeep, KeepsRecord DEF IInv
    <2> QED
      BY <2>1, <2>2, <2>3 DEF IInv, TypeInv
  <1>2. ASSUME NEW pc \in {"ok", "failed"}, Answer(h, pc), handlers[h].pc # "idle",
               pc = "ok" => handlers[h].req \in stakes, UNCHANGED <<row, stakes>>
        PROVE  IInv'
    BY <1>1, <1>2, AnswerMoves
  <1>3. CASE ReadMarket(h)
    <2>1. CASE Answer(h, "failed")
      BY <1>2, <1>3, <2>1 DEF ReadMarket
    <2>2. CASE row.status = "OPEN"
      <3> DEFINE server == [handlers[h] EXCEPT !.pc = "existing",
                                               !.seen = row.pool[handlers[h].req.side]]
      <3>1. handlers' = [handlers EXCEPT ![h] = server]
        BY <1>0, <1>3, <2>2 DEF ReadMarket
      <3>2. server \in Server /\ server.pc = "existing" /\ server.req = handlers[h].req
        BY <1>0 DEF Server
      <3> HIDE DEF server
      <3> QED
        BY <1>1, <1>3, <3>1, <3>2 DEF ReadMarket
    <2> QED
      BY <1>3, <2>1, <2>2 DEF ReadMarket
  <1>4. CASE FindExisting(h)
    <2>1. CASE Known(handlers[h].req)
      <3>1. PICK s \in stakes : s.tx = handlers[h].req.tx
        BY <2>1 DEF Known
      <3>2. s = Report(s.tx) /\ handlers[h].req = Report(handlers[h].req.tx)
        BY <1>4 DEF FindExisting, IInv, RequestsInv, RecordInv
      <3>3. handlers[h].req \in stakes
        BY <3>1, <3>2
      <3> QED
        BY <1>2, <1>4, <2>1, <3>3 DEF FindExisting
    <2>2. CASE ~Known(handlers[h].req)
      <3> DEFINE server == [handlers[h] EXCEPT !.pc = "write"]
      <3>1. handlers' = [handlers EXCEPT ![h] = server]
        BY <1>0, <1>4, <2>2 DEF FindExisting, Move
      <3>2. server \in Server /\ server.pc = "write" /\ server.req = handlers[h].req
        BY <1>0 DEF Server
      <3> HIDE DEF server
      <3> QED
        BY <1>1, <1>4, <3>1, <3>2 DEF FindExisting
    <2> QED
      BY <2>1, <2>2
  <1>5. CASE WriteStake(h)
    <2> DEFINE req == handlers[h].req
    <2>1. CASE Answer(h, "failed") /\ UNCHANGED <<row, stakes>>
      BY <1>2, <1>5, <2>1 DEF WriteStake
    <2>2. CASE /\ stakes' = stakes \cup {req}
               /\ row' = [row EXCEPT !.pool[req.side] = handlers[h].seen + req.amount]
               /\ Answer(h, "ok")
      <3>1. handlers[h].pc # "idle" /\ req \in Stake
        BY <1>0, <1>5 DEF WriteStake, Server
      <3>2. /\ RequestsInv' /\ DoneMeansRecorded' /\ handlers' \in [Handlers -> Server]
            /\ AuthInv' /\ TabsInv' /\ ChainTypeInv' /\ CopiesInv'
        <4> DEFINE server == [handlers[h] EXCEPT !.pc = "ok", !.seen = 0]
        <4>1. /\ handlers' = [handlers EXCEPT ![h] = server]
              /\ server \in Server /\ server.req = handlers[h].req
          BY <2>2, AnswerMoves
        <4>2. stakes \subseteq stakes' /\ server.req \in stakes'
          BY <2>2, <4>1
        <4> HIDE DEF server
        <4> QED
          BY <1>0, <3>1, <4>1, <4>2, ServerMoves
      <3>3. row' \in [status : {"OPEN", "LOCKED"}, pool : [Sides -> Nat]]
        BY <1>0, <2>2
      <3>4. MirrorTypeInv'
        BY <2>2, <3>1, <3>2, <3>3 DEF IInv, TypeInv, MirrorTypeInv
      <3>5. Succeeded(req.tx) /\ req = Report(req.tx)
        BY <3>1 DEF IInv, RequestsInv
      <3>6. RecordInv'
        BY <1>0, <2>2, <3>5 DEF IInv, RecordInv, Succeeded, Report
      <3> QED
        BY <3>2, <3>4, <3>6 DEF IInv, TypeInv
    <2> QED
      BY <1>5, <2>1, <2>2 DEF WriteStake
  <1>6. CASE MirrorFails(h)
    BY <1>2, <1>6 DEF MirrorFails
  <1> QED
    BY <1>3, <1>4, <1>5, <1>6 DEF Serve, MirrorStep

LEMMA ReplyInv == ASSUME IInv, NEW h \in Handlers, Reply(h) PROVE IInv'
  <1> DEFINE i == handlers[h].req.tx
             name == IF handlers[h].pc = "ok" THEN "done" ELSE "error"
  <1>1. /\ handlers[h].pc # "idle" /\ UNCHANGED <<authVars, chainVars, row, stakes, overlapped>>
        /\ handlers' = [handlers EXCEPT ![h] = Free] /\ step' = Answered(i, name)
        /\ handlers \in [Handlers -> Server] /\ txs' = txs
    BY DEF Reply, IInv, TypeInv, MirrorTypeInv, chainVars
  <1>2. Keeps /\ AuthInv'
    BY <1>1, SameTxsKeep, AuthKept DEF IInv
  <1>3. i \in 1..Len(txs) /\ handlers[h].req = Report(i)
    BY <1>1 DEF IInv, RequestsInv, Succeeded
  <1>4. name \in {"done", "error"} /\ (name = "done" => Report(i) \in stakes)
    BY <1>3 DEF IInv, RequestsInv
  <1> HIDE DEF i, name
  <1>5. TabsInv' /\ DoneMeansRecorded'
    BY <1>1, <1>2, <1>3, <1>4, AnsweredTabs
  <1>6. Free \in Server /\ Free.pc = "idle" /\ Free.req.tx = 0
    BY DEF Free, NoStake, Server, Stake, Sides
  <1>7. MirrorTypeInv'
    BY <1>1, <1>6 DEF IInv, TypeInv, MirrorTypeInv
  <1>8. RequestsInv'
    <2>1. handlers'[h] = Free /\ \A g \in Handlers \ {h} : handlers'[g] = handlers[g]
      BY <1>1
    <2>2. 0 <= Len(txs)'
      BY <1>2 DEF Keeps
    <2> QED
      BY <1>1, <1>6, <2>1, <2>2 DEF IInv, RequestsInv, Succeeded, Report
  <1>9. RecordInv'
    BY <1>1, <1>2, KeepsRecord
  <1>10. ChainTypeInv' /\ CopiesInv'
    BY <1>1 DEF IInv, TypeInv, ChainTypeInv, CopiesInv, chainVars
  <1> QED
    BY <1>2, <1>5, <1>7, <1>8, <1>9, <1>10 DEF IInv, TypeInv

LEMMA StutterInv == ASSUME IInv, UNCHANGED vars PROVE IInv'
  BY AuthKept, AuthOnly DEF vars

LEMMA InvStep == ASSUME IInv, [Next]_vars PROVE IInv'
  <1>1. CASE UNCHANGED vars
    BY <1>1, StutterInv
  <1>2. ASSUME NEW t \in Tabs,
               Start(t) \/ Reset(t) \/ SignIn(t) \/ Authenticated(t)
               \/ Approve(t) \/ SendStake(t) \/ StakeReceipt(t) \/ Fail(t)
        PROVE  IInv'
    BY <1>2, StartInv, ResetInv, SignInInv, AuthenticatedInv, ApproveInv, SendStakeInv,
       StakeReceiptInv, FailInv
  <1>3. ASSUME NEW h \in Handlers,
               Serve(h) \/ Reply(h) \/ \E i \in 1..Len(txs) : DeliverReport(i, h)
        PROVE  IInv'
    BY <1>3, ServeInv, ReplyInv, DeliverReportInv
  <1> QED
    BY <1>1, <1>2, <1>3, MineStakeInv, CloseChainInv, LockInv, ExpiryInv DEF Next

-----------------------------------------------------------------------------
(* Signing in through the other steps *)

LEMMA HopeStep == ASSUME IInv, HopeInv, [Next]_vars PROVE HopeInv'
  <1>0. AuthInv /\ auth \in [Tabs -> Auth]
    BY DEF IInv, TypeInv, AuthInv, AuthTypeOK, Auth
  <1>1. CASE UNCHANGED authVars
    BY <1>1 DEF HopeInv, Hopeful, authVars
  <1>2. ASSUME NEW t \in Tabs, SignIn(t) PROVE HopeInv'
    BY <1>0, <1>2, SignInHope DEF SignIn
  <1>3. ASSUME NEW t \in Tabs, Authenticated(t) PROVE HopeInv'
    <2>1. /\ auth'[t].pc = "idle" /\ UNCHANGED nonceStore
          /\ \A u \in Tabs \ {t} : auth'[u] = auth[u]
      BY <1>0, <1>3 DEF Authenticated, SignedOut
    <2>2. \A u \in Tabs : Hopeful(u) => Hopeful(u)'
      BY <2>1 DEF Hopeful
    <2> QED
      BY <2>2 DEF HopeInv
  <1>4. CASE Expiry
    BY <1>0, <1>4, ExpiryHope DEF Expiry
  <1>5. CASE \/ \E t \in Tabs : \/ Start(t) \/ Reset(t) \/ Approve(t) \/ SendStake(t)
                                \/ StakeReceipt(t) \/ Fail(t)
             \/ \E w \in Wallets : MineStake(w)
             \/ CloseChain \/ Lock
    BY <1>1, <1>5 DEF Start, Reset, Approve, SendStake, StakeReceipt, Fail, MineStake,
                      CloseChain, Lock
  <1>6. CASE \E h \in Handlers : Serve(h) \/ Reply(h) \/ \E i \in 1..Len(txs) : DeliverReport(i, h)
    BY <1>1, <1>6 DEF Serve, Reply, DeliverReport
  <1>7. CASE UNCHANGED vars
    BY <1>1, <1>7 DEF vars
  <1> QED
    BY <1>2, <1>3, <1>4, <1>5, <1>6, <1>7 DEF Next

LEMMA HopeInit == Init => HopeInv
  BY DEF Init, AuthInit, SignedOut, HopeInv, Hopeful

LEMMA InvImpliesTypeOK == IInv => TypeOK
  <1> SUFFICES ASSUME IInv PROVE TypeOK
    OBVIOUS
  <1>1. Len(txs) \in Nat
    BY TxsLength DEF IInv
  <1>2. \A i \in 1..Len(txs) : txs[i] \in StakeTx
    BY TxType DEF IInv
  <1>3. \A h \in Handlers :
          /\ handlers[h].pc \in {"idle", "market", "existing", "write", "ok", "failed"}
          /\ handlers[h].req.tx \in 0..Len(txs)
    BY <1>1 DEF IInv, TypeInv, MirrorTypeInv, RequestsInv, Server, Stake
  <1>4. row.status \in {"OPEN", "LOCKED"} /\ DOMAIN row.pool = Sides
    BY DEF IInv, TypeInv, MirrorTypeInv
  <1> QED
    BY <1>2, <1>3, <1>4 DEF TypeOK, IInv, TypeInv, AuthInv, TabsInv, Tab, StakeTx

-----------------------------------------------------------------------------
(* The pools *)

Worth == [s \in Stake |-> s.amount]
On(side) == {s \in stakes : s.side = side}

\* T is what the stakes of a side add up to.  Neither the row nor a handler has
\* more in hand, and less only where two handlers have overlapped.
Accounts(side, T) ==
    /\ SumsTo(On(side), Worth, T)
    /\ row.pool[side] <= T
    /\ \A h \in Handlers : HoldsPool(h, side) => handlers[h].seen <= T
    /\ side \notin overlapped =>
          /\ row.pool[side] = T
          /\ \A h \in Handlers : HoldsPool(h, side) => handlers[h].seen = T
          /\ \A g, h \in Handlers : HoldsPool(g, side) /\ HoldsPool(h, side) => g = h

PoolInv == \A side \in Sides : \E T \in Nat : Accounts(side, T)

\* The total of the model is the sum of what the stakes are worth.
LEMMA StakesSum ==
    ASSUME NEW S \in SUBSET Stake, IsFiniteSet(S), NEW T, SumsTo(S, Worth, T)
    PROVE  MapThenSumSet(LAMBDA s : s.amount, S) = T
  <1>1. \A s \in S : Worth[s] = s.amount /\ s.amount \in Nat
    BY DEF Worth, Stake
  <1>2. Natural(S, Worth)
    BY <1>1 DEF Natural
  <1>3. PICK m : IsMeasure(S, Worth, m) /\ m[S] = T
    BY DEF SumsTo
  <1> DEFINE Adds(f) == f = [A \in SUBSET S |-> IF A = {} THEN 0
                                                ELSE LET s == CHOOSE s \in A : TRUE
                                                     IN  s.amount + f[A \ {s}]]
             g == CHOOSE g : Adds(g)
  <1>4. ASSUME NEW f PROVE Adds(f) <=> Folds(S, Worth, f)
    <2>1. ASSUME NEW A \in SUBSET S, A # {}
          PROVE  Worth[CHOOSE s \in A : TRUE] = (CHOOSE s \in A : TRUE).amount
      BY <1>1, <2>1
    <2> HIDE DEF Worth
    <2>2. [A \in SUBSET S |-> IF A = {} THEN 0
                              ELSE LET s == CHOOSE s \in A : TRUE IN s.amount + f[A \ {s}]]
          = [A \in SUBSET S |-> IF A = {} THEN 0
                              ELSE LET s == CHOOSE s \in A : TRUE IN Worth[s] + f[A \ {s}]]
      BY <2>1
    <2> QED
      BY <2>2 DEF Folds
  <1>5. MapThenSumSet(LAMBDA s : s.amount, S) = g[S]
    BY DEF MapThenSumSet, MapThenFoldSet
  <1>6. Adds(m)
    BY <1>2, <1>3, <1>4, MeasureFolds
  <1> HIDE DEF Adds
  <1>7. Adds(g)
    BY <1>6
  <1>8. Folds(S, Worth, g)
    BY <1>4, <1>7
  <1> HIDE DEF g
  <1> QED
    BY <1>2, <1>3, <1>5, <1>8, FoldIsMeasure

\* Each stake recorded is the report of a transaction.
LEMMA StakesFinite == ASSUME TypeInv, RecordInv PROVE IsFiniteSet(stakes)
  <1>1. Len(txs) \in Nat
    BY TxsLength
  <1>2. IsFiniteSet(1..Len(txs))
    BY <1>1, FS_Interval
  <1> DEFINE f == [s \in stakes |-> s.tx]
  <1>3. \A s \in stakes : s.tx \in 1..Len(txs) /\ s = Report(s.tx)
    BY DEF RecordInv, Succeeded
  <1>4. f \in Injection(stakes, 1..Len(txs))
    BY <1>3 DEF Injection, IsInjective
  <1> QED
    BY <1>2, <1>4, FS_Injection

LEMMA PoolInit == Init => PoolInv
  <1> SUFFICES ASSUME Init, NEW side \in Sides PROVE Accounts(side, 0)
    BY DEF PoolInv
  <1>1. SumsTo(On(side), Worth, 0)
    BY SumZero DEF Init, MirrorInit, On
  <1> QED
    BY <1>1 DEF Init, MirrorInit, Accounts, HoldsPool, Free

\* What a side adds up to stays while its stakes do.
LEMMA AccountsStay ==
    ASSUME NEW side \in Sides, NEW T \in Nat, Accounts(side, T),
           stakes' = stakes, overlapped' = overlapped, row'.pool[side] = row.pool[side],
           \A h \in Handlers : HoldsPool(h, side)' => /\ HoldsPool(h, side)
                                                      /\ handlers'[h].seen = handlers[h].seen
    PROVE  Accounts(side, T)'
  <1>1. SumsTo(On(side), Worth, T)'
    BY DEF Accounts, On
  <1> QED
    BY <1>1 DEF Accounts

LEMMA PoolQuiet ==
    ASSUME PoolInv, stakes' = stakes, overlapped' = overlapped,
           \A side \in Sides : row'.pool[side] = row.pool[side],
           \A h \in Handlers, side \in Sides :
              HoldsPool(h, side)' => /\ HoldsPool(h, side)
                                     /\ handlers'[h].seen = handlers[h].seen
    PROVE  PoolInv'
  <1> SUFFICES ASSUME NEW side \in Sides PROVE \E T \in Nat : Accounts(side, T)'
    BY DEF PoolInv
  <1>1. PICK T \in Nat : Accounts(side, T)
    BY DEF PoolInv
  <1> QED
    BY <1>1, AccountsStay

\* A handler that has answered holds no pool, and the others hold what they held.
LEMMA PoolAnswer ==
    ASSUME IInv, NEW h \in Handlers, NEW pc \in {"ok", "failed"}, Answer(h, pc)
    PROVE  \A g \in Handlers, side \in Sides :
              HoldsPool(g, side)' => /\ HoldsPool(g, side) /\ g # h
                                     /\ handlers'[g] = handlers[g]
  <1> DEFINE server == [handlers[h] EXCEPT !.pc = pc, !.seen = 0]
  <1>1. handlers' = [handlers EXCEPT ![h] = server] /\ server.pc = pc
    BY AnswerMoves
  <1> HIDE DEF server
  <1>2. /\ handlers'[h].pc = pc
        /\ \A g \in Handlers \ {h} : handlers'[g] = handlers[g]
    BY <1>1 DEF IInv, TypeInv, MirrorTypeInv
  <1> QED
    BY <1>2 DEF HoldsPool

LEMMA ReadMarketPool == ASSUME IInv, PoolInv, NEW h \in Handlers, ReadMarket(h) PROVE PoolInv'
  <1>1. CASE Answer(h, "failed") /\ UNCHANGED overlapped
    BY <1>1, PoolAnswer, PoolQuiet DEF ReadMarket
  <1>2. CASE row.status = "OPEN"
    <2> DEFINE here == handlers[h].req.side
               server == [handlers[h] EXCEPT !.pc = "existing", !.seen = row.pool[here]]
    <2>1. /\ handlers' = [handlers EXCEPT ![h] = server]
          /\ overlapped' = IF \E g \in Handlers \ {h} : HoldsPool(g, here)
                           THEN overlapped \cup {here} ELSE overlapped
          /\ UNCHANGED <<row, stakes>>
      BY <1>2 DEF ReadMarket
    <2>2. /\ server.pc = "existing" /\ server.req = handlers[h].req
          /\ server.seen = row.pool[here] /\ here \in Sides
      BY DEF IInv, TypeInv, MirrorTypeInv, Server, Stake
    <2>3. PICK side \in Sides : side = here
      BY <2>2
    <2> HIDE DEF server, here
    <2>4. handlers'[h] = server /\ \A g \in Handlers \ {h} : handlers'[g] = handlers[g]
      BY <2>1 DEF IInv, TypeInv, MirrorTypeInv
    <2>5. /\ \A g \in Handlers \ {h}, s \in Sides : HoldsPool(g, s)' = HoldsPool(g, s)
          /\ \A s \in Sides : HoldsPool(h, s)' <=> s = side
      BY <2>2, <2>3, <2>4 DEF HoldsPool, here
    <2>6. ASSUME NEW s \in Sides, s # side PROVE \E T \in Nat : Accounts(s, T)'
      <3>1. PICK T \in Nat : Accounts(s, T)
        BY DEF PoolInv
      <3>2. SumsTo(On(s), Worth, T)'
        BY <2>1, <3>1 DEF Accounts, On
      <3>3. s \in overlapped' <=> s \in overlapped
        BY <2>1, <2>3, <2>6
      <3> QED
        BY <2>1, <2>4, <2>5, <2>6, <3>1, <3>2, <3>3 DEF Accounts
    <2>7. PICK T \in Nat : Accounts(side, T)
      BY DEF PoolInv
    <2>8. Accounts(side, T)'
      <3>1. SumsTo(On(side), Worth, T)' /\ row'.pool[side] = row.pool[side]
        BY <2>1, <2>7 DEF Accounts, On
      <3>2. handlers'[h].seen = row.pool[side]
        BY <2>2, <2>3, <2>4
      <3>3. ASSUME side \notin overlapped'
            PROVE  /\ side \notin overlapped
                   /\ \A g \in Handlers \ {h} : ~HoldsPool(g, side)
        BY <2>1, <2>3, <3>3
      <3>4. ASSUME NEW g \in Handlers, HoldsPool(g, side)'
            PROVE  handlers'[g].seen <= T /\ (side \notin overlapped' => g = h)
        BY <2>4, <2>5, <2>7, <3>2, <3>3, <3>4 DEF Accounts
      <3>5. side \notin overlapped' => row'.pool[side] = T /\ handlers'[h].seen = T
        BY <2>7, <3>1, <3>2, <3>3 DEF Accounts
      <3>6. row'.pool[side] <= T
        BY <2>7, <3>1 DEF Accounts
      <3> QED
        BY <3>1, <3>4, <3>5, <3>6 DEF Accounts
    <2> QED
      BY <2>6, <2>8 DEF PoolInv
  <1> QED
    BY <1>1, <1>2 DEF ReadMarket

\* What a write of recordStake does to the pool: a stake not yet recorded joins
\* its side, whose pool is set to what was read and the amount.
LEMMA WriteStakePool == ASSUME IInv, PoolInv, NEW h \in Handlers, WriteStake(h) PROVE PoolInv'
  <1>1. CASE Answer(h, "failed") /\ UNCHANGED <<row, stakes>>
    BY <1>1, PoolAnswer, PoolQuiet DEF WriteStake
  <1>2. CASE ~Known(handlers[h].req)
    <2>1. PICK req \in Stake, side \in Sides :
             req = handlers[h].req /\ side = req.side /\ handlers[h].seen \in Nat
      BY DEF IInv, TypeInv, MirrorTypeInv, Server, Stake
    <2>2. /\ Answer(h, "ok") /\ req \notin stakes /\ stakes' = stakes \cup {req}
          /\ row' = [row EXCEPT !.pool[side] = handlers[h].seen + req.amount]
          /\ UNCHANGED overlapped /\ HoldsPool(h, side)
      BY <1>2, <2>1 DEF WriteStake, Known, HoldsPool
    <2>3. /\ row'.pool[side] = handlers[h].seen + req.amount
          /\ \A s \in Sides \ {side} : row'.pool[s] = row.pool[s]
      BY <2>2 DEF IInv, TypeInv, MirrorTypeInv
    <2>4. \A g \in Handlers, s \in Sides :
             HoldsPool(g, s)' => HoldsPool(g, s) /\ g # h /\ handlers'[g] = handlers[g]
      BY <2>2, PoolAnswer
    <2>5. ASSUME NEW s \in Sides, s # side PROVE \E T \in Nat : Accounts(s, T)'
      <3>1. PICK T \in Nat : Accounts(s, T)
        BY DEF PoolInv
      <3>2. On(s)' = On(s)
        BY <2>1, <2>2, <2>5 DEF On
      <3>3. SumsTo(On(s), Worth, T)'
        BY <3>1, <3>2 DEF Accounts
      <3> QED
        BY <2>2, <2>3, <2>4, <2>5, <3>1, <3>3 DEF Accounts
    <2>6. PICK T \in Nat : Accounts(side, T)
      BY DEF PoolInv
    <2>7. PICK U \in Nat : U = T + req.amount /\ req.amount \in Nat
      BY DEF Stake
    <2>8. SumsTo(On(side)', Worth, U)
      <3>1. On(side)' = On(side) \cup {req} /\ req \notin On(side)
        BY <2>1, <2>2 DEF On
      <3>2. Natural(On(side) \cup {req}, Worth) /\ Worth[req] = req.amount
        BY DEF Natural, Worth, On, Stake, IInv, TypeInv, MirrorTypeInv
      <3>3. SumsTo(On(side), Worth, T)
        BY <2>6 DEF Accounts
      <3>4. SumsTo(On(side) \cup {req}, Worth, T + Worth[req])
        BY <3>1, <3>2, <3>3, SumAdd
      <3> QED
        BY <2>7, <3>1, <3>2, <3>4
    <2>9. Accounts(side, U)'
      <3>1. SumsTo(On(side), Worth, U)'
        BY <2>8
      <3>2. handlers[h].seen <= T /\ (side \notin overlapped => handlers[h].seen = T)
        BY <2>2, <2>6 DEF Accounts
      <3>3. row'.pool[side] <= U /\ (side \notin overlapped' => row'.pool[side] = U)
        BY <2>1, <2>2, <2>3, <2>7, <3>2
      <3>4. ASSUME NEW g \in Handlers, HoldsPool(g, side)'
            PROVE  handlers'[g].seen <= U /\ side \in overlapped
        <4>1. /\ HoldsPool(g, side) /\ g # h /\ handlers'[g].seen = handlers[g].seen
              /\ handlers[g].seen \in Nat
          BY <2>4, <3>4 DEF IInv, TypeInv, MirrorTypeInv, Server
        <4> QED
          BY <2>2, <2>6, <2>7, <4>1 DEF Accounts
      <3> QED
        BY <2>2, <3>1, <3>3, <3>4 DEF Accounts
    <2> QED
      BY <2>5, <2>9 DEF PoolInv
  <1> QED
    BY <1>1, <1>2 DEF WriteStake

LEMMA ServePool == ASSUME IInv, PoolInv, NEW h \in Handlers, Serve(h) PROVE PoolInv'
  <1>1. CASE FindExisting(h)
    <2>1. CASE Answer(h, "ok")
      BY <1>1, <2>1, PoolAnswer, PoolQuiet DEF FindExisting
    <2>2. CASE handlers' = [handlers EXCEPT ![h].pc = "write"]
      <3>1. \A g \in Handlers, side \in Sides :
               HoldsPool(g, side)' => /\ HoldsPool(g, side)
                                      /\ handlers'[g].seen = handlers[g].seen
        BY <1>1, <2>2 DEF HoldsPool, FindExisting, IInv, TypeInv, MirrorTypeInv, Server
      <3> QED
        BY <1>1, <3>1, PoolQuiet DEF FindExisting
    <2> QED
      BY <1>1, <2>1, <2>2 DEF FindExisting, Move
  <1>2. CASE MirrorFails(h)
    BY <1>2, PoolAnswer, PoolQuiet DEF MirrorFails
  <1> QED
    BY <1>1, <1>2, ReadMarketPool, WriteStakePool DEF Serve, MirrorStep

\* A handler that takes a request or is done with one holds no pool.
LEMMA TakesPool ==
    ASSUME IInv, PoolInv, NEW h \in Handlers, NEW server,
           server.pc \notin {"existing", "write"}, handlers' = [handlers EXCEPT ![h] = server],
           UNCHANGED <<row, stakes, overlapped>>
    PROVE  PoolInv'
  <1>1. handlers'[h] = server /\ \A g \in Handlers \ {h} : handlers'[g] = handlers[g]
    BY DEF IInv, TypeInv, MirrorTypeInv
  <1>2. \A g \in Handlers, side \in Sides :
           HoldsPool(g, side)' => HoldsPool(g, side) /\ handlers'[g].seen = handlers[g].seen
    BY <1>1 DEF HoldsPool
  <1> QED
    BY <1>2, PoolQuiet

LEMMA PoolStep == ASSUME IInv, PoolInv, [Next]_vars PROVE PoolInv'
  <1>1. CASE UNCHANGED mirrorVars
    BY <1>1, PoolQuiet DEF mirrorVars, HoldsPool
  <1>2. CASE Lock
    <2>1. /\ UNCHANGED <<stakes, handlers, overlapped>>
          /\ row' = [row EXCEPT !.status = "LOCKED"]
      BY <1>2 DEF Lock, LockRow
    <2>2. \A side \in Sides : row'.pool[side] = row.pool[side]
      BY <2>1 DEF IInv, TypeInv, MirrorTypeInv
    <2> QED
      BY <2>1, <2>2, PoolQuiet DEF HoldsPool
  <1>3. ASSUME NEW h \in Handlers, Reply(h) PROVE PoolInv'
    BY <1>3, TakesPool DEF Reply, Free
  <1>4. ASSUME NEW h \in Handlers, NEW i \in 1..Len(txs), DeliverReport(i, h) PROVE PoolInv'
    <2>1. CASE Accept(h, Report(i))
      <3>1. PICK server : /\ server = [Free EXCEPT !.pc = "market", !.req = Report(i)]
                          /\ handlers' = [handlers EXCEPT ![h] = server]
        BY <2>1 DEF Accept
      <3>2. server.pc = "market"
        BY <3>1 DEF Free
      <3> QED
        BY <2>1, <3>1, <3>2, TakesPool DEF Accept
    <2> QED
      BY <1>1, <1>4, <2>1 DEF DeliverReport
  <1>5. ASSUME NEW t \in Tabs,
               Start(t) \/ Reset(t) \/ SignIn(t) \/ Authenticated(t)
               \/ Approve(t) \/ SendStake(t) \/ StakeReceipt(t) \/ Fail(t)
        PROVE  UNCHANGED mirrorVars
    BY <1>5 DEF Start, Reset, SignIn, Authenticated, Approve, SendStake, StakeReceipt, Fail
  <1>6. CASE (\E w \in Wallets : MineStake(w)) \/ CloseChain \/ Expiry \/ UNCHANGED vars
    BY <1>1, <1>6 DEF MineStake, CloseChain, Expiry, vars
  <1> QED
    BY <1>1, <1>2, <1>3, <1>4, <1>5, <1>6, ServePool DEF Next

LEMMA PoolInvIsExact == IInv /\ PoolInv => PoolExactUnlessOverlapped
  <1> SUFFICES ASSUME IInv, PoolInv, NEW side \in Sides, side \notin overlapped
               PROVE  row.pool[side] = TotalOn(side)
    BY DEF PoolExactUnlessOverlapped
  <1>1. PICK T \in Nat : SumsTo(On(side), Worth, T) /\ row.pool[side] = T
    BY DEF PoolInv, Accounts
  <1>2. On(side) \in SUBSET Stake /\ IsFiniteSet(On(side))
    BY StakesFinite, FS_Subset DEF On, IInv, TypeInv, MirrorTypeInv
  <1>3. MapThenSumSet(LAMBDA s : s.amount, On(side)) = T
    BY <1>1, <1>2, StakesSum
  <1> QED
    BY <1>1, <1>3 DEF TotalOn, On

-----------------------------------------------------------------------------
(* The refinement: confirmed stakes *)

ConfirmedStays == Confirmed' = Confirmed

\* Transactions that stay what they are, and new ones that are not successful.
LEMMA SameSuccess ==
    ASSUME IInv, Keeps,
           \A i \in 1..Len(txs)' : txs'[i].state = "success" => Succeeded(i)
    PROVE  ConfirmedStays
  <1>1. Len(txs) \in Nat /\ Len(txs)' \in Nat /\ Len(txs) <= Len(txs)'
    BY TxsLength DEF IInv, Keeps
  <1>2. ASSUME NEW i PROVE Succeeded(i)' = Succeeded(i)
    BY <1>1 DEF Succeeded, Keeps
  <1>3. ASSUME NEW i, Succeeded(i) PROVE Report(i)' = Report(i)
    BY <1>3 DEF Succeeded, Keeps
  <1>4. Confirmed = {Report(i) : i \in {j \in 1..Len(txs) : Succeeded(j)}}
    BY DEF Confirmed, Succeeded
  <1>5. Confirmed' = {Report(i)' : i \in {j \in 1..Len(txs)' : Succeeded(j)'}}
    BY DEF Confirmed, Succeeded
  <1>6. \A i : Succeeded(i) => i \in 1..Len(txs) /\ i \in 1..Len(txs)'
    BY <1>1 DEF Succeeded
  <1> QED
    BY <1>2, <1>3, <1>4, <1>5, <1>6 DEF ConfirmedStays

LEMMA SameState ==
    ASSUME IInv, NEW i \in 1..Len(txs), NEW tx \in StakeTx, txs' = [txs EXCEPT ![i] = tx],
           tx.side = txs[i].side, tx.amount = txs[i].amount, tx.state = txs[i].state
    PROVE  ConfirmedStays
  <1>1. /\ Keeps
        /\ txs' \in Seq(StakeTx) /\ Len(txs') = Len(txs)
        /\ txs'[i] = tx /\ \A j \in 1..Len(txs) : j # i => txs'[j] = txs[j]
    BY ReplacedTxs DEF IInv
  <1>2. \A j \in 1..Len(txs)' : txs'[j].state = "success" => Succeeded(j)
    BY <1>1 DEF Succeeded
  <1> QED
    BY <1>1, <1>2, SameSuccess

LEMMA CopiesOnly ==
    ASSUME IInv, NEW i \in 1..Len(txs), NEW copies \in 0..MaxCopies,
           txs' = [txs EXCEPT ![i].copies = copies]
    PROVE  ConfirmedStays
  <1> DEFINE tx == [txs[i] EXCEPT !.copies = copies]
  <1>1. /\ tx \in StakeTx /\ tx.side = txs[i].side /\ tx.amount = txs[i].amount
        /\ tx.state = txs[i].state
    BY TxType DEF StakeTx, IInv
  <1>2. txs' = [txs EXCEPT ![i] = tx]
    OBVIOUS
  <1> HIDE DEF tx
  <1> QED
    BY <1>1, <1>2, SameState

LEMMA ReceiptConfirmed == ASSUME IInv, NEW t \in Tabs, StakeReceipt(t) PROVE ConfirmedStays
  <1>1. CASE UNCHANGED txs
    BY <1>1 DEF ConfirmedStays, Confirmed, Report
  <1>2. CASE ~UNCHANGED txs
    <2>1. PICK copies \in 1..MaxCopies : txs' = [txs EXCEPT ![step[t].tx].copies = copies]
      BY <1>2 DEF StakeReceipt
    <2>2. PICK i \in 1..Len(txs) : i = step[t].tx
      BY TxsLength, Constants DEF StakeReceipt, IInv, TypeInv, TabsInv, Tab
    <2>3. copies \in 0..MaxCopies
      BY <2>1, Constants
    <2> QED
      BY <2>1, <2>2, <2>3, CopiesOnly
  <1> QED
    BY <1>1, <1>2

LEMMA DeliverConfirmed ==
    ASSUME IInv, NEW h \in Handlers, NEW i \in 1..Len(txs), DeliverReport(i, h)
    PROVE  ConfirmedStays
  <1>1. txs[i] \in StakeTx
    BY TxType DEF IInv
  <1>2. PICK copies \in 0..MaxCopies : copies = txs[i].copies - 1
    BY <1>1, Constants DEF DeliverReport, StakeTx
  <1>3. txs' = [txs EXCEPT ![i].copies = copies]
    BY <1>2 DEF DeliverReport
  <1> QED
    BY <1>3, CopiesOnly

LEMMA SendConfirmed == ASSUME IInv, NEW t \in Tabs, SendStake(t) PROVE ConfirmedStays
  <1>1. PICK tx \in StakeTx : txs' = Append(txs, tx) /\ tx.state = "pending"
    <2>1. PICK side \in Sides :
             txs' = Append(txs, [wallet |-> WalletOf[t], side |-> side,
                                 amount |-> step[t].amount, state |-> "pending", copies |-> 0])
      BY DEF SendStake
    <2>2. step[t].amount \in Amounts /\ WalletOf[t] \in Wallets
      BY Constants DEF SendStake, IInv, TypeInv, TabsInv
    <2> QED
      BY <2>1, <2>2, Constants DEF StakeTx
  <1>2. txs \in Seq(StakeTx) /\ Len(txs) \in Nat
    BY TxsLength DEF IInv, TypeInv, ChainTypeInv
  <1>3. /\ Len(txs') = Len(txs) + 1 /\ txs'[Len(txs) + 1] = tx
        /\ \A i \in 1..Len(txs) : txs'[i] = txs[i]
    BY <1>1, <1>2, AppendProperties
  <1>4. Keeps
    BY <1>2, <1>3 DEF Keeps, Report
  <1>5. \A i \in 1..Len(txs)' : txs'[i].state = "success" => Succeeded(i)
    BY <1>1, <1>2, <1>3 DEF Succeeded
  <1> QED
    BY <1>4, <1>5, SameSuccess

\* A transaction that is mined and does not revert is confirmed, once.
LEMMA MineConfirms ==
    ASSUME IInv, NEW w \in Wallets, MineStake(w)
    PROVE  ConfirmedStays \/ \E s \in [tx : 1..MaxStakes, side : Sides, amount : Amounts] :
                                Mirror!Confirm(s)
  <1>1. PICK i \in PendingOf(w), mined \in {"success", "reverted"} :
           txs' = [txs EXCEPT ![i].state = mined]
    BY DEF MineStake
  <1>2. /\ i \in 1..Len(txs) /\ txs[i] \in StakeTx /\ txs[i].state = "pending"
        /\ UNCHANGED mirrorVars
    BY TxType DEF MineStake, PendingOf, IInv
  <1> DEFINE tx == [txs[i] EXCEPT !.state = mined]
  <1>3. /\ tx \in StakeTx /\ tx.side = txs[i].side /\ tx.amount = txs[i].amount
        /\ tx.state = mined
    BY <1>2 DEF StakeTx
  <1>4. txs' = [txs EXCEPT ![i] = tx]
    BY <1>1
  <1> HIDE DEF tx
  <1>5. /\ Keeps
        /\ txs' \in Seq(StakeTx) /\ Len(txs') = Len(txs)
        /\ txs'[i] = tx /\ \A j \in 1..Len(txs) : j # i => txs'[j] = txs[j]
    BY <1>2, <1>3, <1>4, ReplacedTxs DEF IInv
  <1>6. CASE mined = "reverted"
    <2>1. \A j \in 1..Len(txs)' : txs'[j].state = "success" => Succeeded(j)
      BY <1>2, <1>3, <1>5, <1>6 DEF Succeeded
    <2> QED
      BY <1>5, <2>1, SameSuccess
  <1>7. CASE mined = "success"
    <2>1. PICK s : s = Report(i)
      OBVIOUS
    <2>2. s \in [tx : 1..MaxStakes, side : Sides, amount : Amounts] /\ s.tx = i
      <3>1. i \in 1..MaxStakes
        BY <1>2, TxsLength, Constants DEF IInv, TypeInv, ChainTypeInv
      <3> QED
        BY <1>2, <2>1, <3>1 DEF Report, StakeTx
    <2>3. \A c \in Confirmed : c.tx # s.tx
      BY <1>2, <2>2 DEF Confirmed, Report
    <2>4. ASSUME NEW j \in 1..Len(txs) PROVE Report(j)' = Report(j)
      BY <1>5 DEF Keeps
    <2>5. ASSUME NEW j \in 1..Len(txs)
          PROVE  txs'[j].state = "success" <=> j = i \/ txs[j].state = "success"
      BY <1>2, <1>3, <1>5, <1>7
    <2>6. Confirmed' = Confirmed \cup {s}
      <3>1. Confirmed = {Report(j) : j \in {k \in 1..Len(txs) : txs[k].state = "success"}}
        BY DEF Confirmed
      <3>2. Confirmed' = {Report(j)' : j \in {k \in 1..Len(txs) : txs'[k].state = "success"}}
        BY <1>5 DEF Confirmed
      <3> QED
        BY <1>2, <2>1, <2>4, <2>5, <3>1, <3>2
    <2> QED
      BY <1>2, <2>2, <2>3, <2>6 DEF Mirror!Confirm, mirrorVars
  <1> QED
    BY <1>6, <1>7

-----------------------------------------------------------------------------
(* The refinement: recorded stakes *)

\* recordStake shows at least the amount it writes and at most what is recorded.
LEMMA WriteRecords ==
    ASSUME IInv, PoolInv, NEW h \in Handlers, WriteStake(h), Serve(h),
           ~Known(handlers[h].req)
    PROVE  \E s \in [tx : 1..MaxStakes, side : Sides, amount : Amounts] : Mirror!Record(s)
  <1>1. PICK req \in Stake, side \in Sides, seen \in Nat :
           req = handlers[h].req /\ side = req.side /\ seen = handlers[h].seen
    BY DEF IInv, TypeInv, MirrorTypeInv, Server, Stake
  <1>2. /\ req \notin stakes /\ stakes' = stakes \cup {req}
        /\ row' = [row EXCEPT !.pool[side] = seen + req.amount]
        /\ HoldsPool(h, side) /\ txs' = txs
    BY <1>1 DEF WriteStake, Known, HoldsPool, Serve, chainVars
  <1>3. Succeeded(req.tx) /\ req = Report(req.tx)
    BY <1>1, <1>2 DEF IInv, RequestsInv, HoldsPool
  <1>4. req \in Confirmed
    BY <1>3 DEF Succeeded, Confirmed
  <1>5. req \in [tx : 1..MaxStakes, side : Sides, amount : Amounts]
    <2>1. PICK i \in 1..Len(txs) : i = req.tx /\ txs[i] \in StakeTx
      BY <1>3, TxType DEF Succeeded, IInv
    <2>2. i \in 1..MaxStakes
      BY <2>1, TxsLength, Constants DEF IInv, TypeInv, ChainTypeInv
    <2> QED
      BY <1>3, <2>1, <2>2 DEF Report, StakeTx
  <1>6. Confirmed' = Confirmed
    BY <1>2 DEF Confirmed, Report
  <1>7. row'.pool = [row.pool EXCEPT ![side] = seen + req.amount]
    BY <1>2 DEF IInv, TypeInv, MirrorTypeInv
  <1>8. PICK T \in Nat : SumsTo(On(side), Worth, T) /\ seen <= T
    BY <1>1, <1>2 DEF PoolInv, Accounts
  <1>9. PICK after : after = Mirror!OnSide(stakes', side)
    OBVIOUS
  <1>10. SumsTo(after, Worth, T + req.amount) /\ req.amount \in Nat
    <2>1. after = On(side) \cup {req} /\ req \notin On(side)
      BY <1>1, <1>2, <1>9 DEF On, Mirror!OnSide
    <2>2. Natural(after, Worth) /\ Worth[req] = req.amount /\ req.amount \in Nat
      BY <2>1 DEF Natural, Worth, On, Stake, IInv, TypeInv, MirrorTypeInv
    <2> QED
      BY <1>8, <2>1, <2>2, SumAdd
  <1>11. Mirror!TotalOf(after) = T + req.amount
    <2>1. after \subseteq stakes'
      BY <1>9 DEF Mirror!OnSide
    <2>2. IsFiniteSet(stakes') /\ stakes' \subseteq Stake
      BY <1>2, StakesFinite, FS_AddElement DEF IInv, TypeInv, MirrorTypeInv
    <2>3. IsFiniteSet(after) /\ after \in SUBSET Stake
      BY <2>1, <2>2, FS_Subset
    <2>4. MapThenSumSet(LAMBDA s : s.amount, after) = T + req.amount
      BY <1>10, <2>3, StakesSum
    <2> QED
      BY <2>4 DEF Mirror!TotalOf, Mirror!MapThenSumSet, Mirror!MapThenFoldSet,
                  MapThenSumSet, MapThenFoldSet
  <1>12. seen + req.amount \in req.amount..Mirror!TotalOf(Mirror!OnSide(stakes', req.side))
    BY <1>1, <1>8, <1>9, <1>10, <1>11
  <1>13. Mirror!Record(req)
    BY <1>1, <1>2, <1>4, <1>6, <1>7, <1>12 DEF Mirror!Record
  <1> QED
    BY <1>5, <1>13

\* Every other step of a handler, and of the rest, is a stutter.
LEMMA MirrorStays ==
    ASSUME ConfirmedStays, stakes' = stakes, row'.pool = row.pool
    PROVE  UNCHANGED <<Confirmed, stakes, row.pool>>
  BY DEF ConfirmedStays

LEMMA ServeMirrors ==
    ASSUME IInv, PoolInv, NEW h \in Handlers, Serve(h)
    PROVE  [Mirror!Next]_<<Confirmed, stakes, row.pool>>
  <1>1. ConfirmedStays
    BY DEF Serve, chainVars, ConfirmedStays, Confirmed, Report
  <1>2. CASE WriteStake(h) /\ ~Known(handlers[h].req)
    BY <1>2, WriteRecords DEF Mirror!Next
  <1>3. CASE UNCHANGED <<row, stakes>>
    BY <1>1, <1>3, MirrorStays
  <1> QED
    BY <1>2, <1>3 DEF Serve, MirrorStep, ReadMarket, FindExisting, WriteStake, MirrorFails

LEMMA Mirrors ==
    ASSUME IInv, PoolInv, [Next]_vars
    PROVE  [Mirror!Next]_<<Confirmed, stakes, row.pool>>
  <1>1. ASSUME UNCHANGED txs PROVE ConfirmedStays
    BY <1>1 DEF ConfirmedStays, Confirmed, Report
  <1>2. ASSUME NEW t \in Tabs,
               Start(t) \/ Reset(t) \/ SignIn(t) \/ Authenticated(t)
               \/ Approve(t) \/ SendStake(t) \/ StakeReceipt(t) \/ Fail(t)
        PROVE  UNCHANGED <<Confirmed, stakes, row.pool>>
    <2>1. UNCHANGED mirrorVars
      BY <1>2 DEF Start, Reset, SignIn, Authenticated, Approve, SendStake, StakeReceipt, Fail
    <2>2. UNCHANGED txs \/ SendStake(t) \/ StakeReceipt(t)
      BY <1>2 DEF Start, Reset, SignIn, Authenticated, Approve, Fail, chainVars
    <2> QED
      BY <1>1, <2>1, <2>2, SendConfirmed, ReceiptConfirmed, MirrorStays DEF mirrorVars
  <1>3. ASSUME NEW w \in Wallets, MineStake(w)
        PROVE  [Mirror!Next]_<<Confirmed, stakes, row.pool>>
    <2>1. UNCHANGED mirrorVars
      BY <1>3 DEF MineStake
    <2> QED
      BY <1>3, <2>1, MineConfirms, MirrorStays DEF mirrorVars, Mirror!Next
  <1>4. CASE CloseChain \/ Expiry \/ UNCHANGED vars
    BY <1>1, <1>4, MirrorStays DEF CloseChain, Expiry, vars, mirrorVars, chainVars
  <1>5. CASE Lock
    <2>1. UNCHANGED <<txs, stakes>> /\ row' = [row EXCEPT !.status = "LOCKED"]
      BY <1>5 DEF Lock, LockRow, chainVars
    <2>2. row'.pool = row.pool
      BY <2>1 DEF IInv, TypeInv, MirrorTypeInv
    <2> QED
      BY <1>1, <2>1, <2>2, MirrorStays
  <1>6. ASSUME NEW h \in Handlers, Reply(h) PROVE UNCHANGED <<Confirmed, stakes, row.pool>>
    BY <1>1, <1>6, MirrorStays DEF Reply, chainVars
  <1>7. ASSUME NEW h \in Handlers, NEW i \in 1..Len(txs), DeliverReport(i, h)
        PROVE  UNCHANGED <<Confirmed, stakes, row.pool>>
    <2>1. UNCHANGED <<row, stakes>>
      BY <1>7 DEF DeliverReport, Accept, mirrorVars
    <2> QED
      BY <1>7, <2>1, DeliverConfirmed, MirrorStays
  <1> QED
    BY <1>2, <1>3, <1>4, <1>5, <1>6, <1>7, ServeMirrors DEF Next

LEMMA MirrorsInit == Init => Mirror!Init
  <1> SUFFICES ASSUME Init PROVE Mirror!Init
    OBVIOUS
  <1>1. Len(txs) = 0
    BY EmptySeq DEF Init
  <1>2. Confirmed = {}
    BY <1>1 DEF Confirmed
  <1> QED
    BY <1>2 DEF Init, MirrorInit, Mirror!Init, Sides

-----------------------------------------------------------------------------
(* The theorems *)

LEMMA Invariance == Spec => [](IInv /\ HopeInv)
  <1>1. Init => IInv /\ HopeInv
    BY InvInit, HopeInit
  <1>2. IInv /\ HopeInv /\ [Next]_vars => (IInv /\ HopeInv)'
    BY InvStep, HopeStep
  <1> QED
    BY <1>1, <1>2, PTL DEF Spec

\* Every variable has its type: no tab names a transaction that was not sent.
THEOREM TypeCorrect == Spec => []TypeOK
  BY Invariance, InvImpliesTypeOK, PTL

\* useStake shows "done" only for a stake that the database holds.
THEOREM DoneIsRecorded == Spec => []DoneMeansRecorded
  <1>1. IInv => DoneMeansRecorded
    BY DEF IInv
  <1> QED
    BY <1>1, Invariance, PTL

\* However the tabs of a wallet overwrite and delete each other's nonces, the
\* server of middleware/auth.ts does not refuse them all.
THEOREM SomeTabGetsIn == Spec => []SomeTabSignsIn
  BY HopeInvImpliesSomeTabSignsIn, Invariance, PTL

\* What recordStake has written.
Recorded == stakes \subseteq Confirmed /\ \A r, s \in stakes : r.tx = s.tx => r = s

\* The stake table holds stakes the contract has confirmed, as they were sent,
\* and none of them twice, however late and often they are reported.
THEOREM StakesAreConfirmed == Spec => []Recorded
  <1>1. IInv => Recorded
    <2> SUFFICES ASSUME IInv PROVE Recorded
      OBVIOUS
    <2>1. \A s \in stakes : Succeeded(s.tx) /\ s = Report(s.tx)
      BY DEF IInv, RecordInv
    <2>2. stakes \subseteq Confirmed
      BY <2>1 DEF Confirmed, Succeeded
    <2>3. ASSUME NEW r \in stakes, NEW s \in stakes, r.tx = s.tx PROVE r = s
      BY <2>1, <2>3
    <2> QED
      BY <2>2, <2>3 DEF Recorded
  <1> QED
    BY <1>1, Invariance, PTL

LEMMA PoolInvariance == Spec => [](IInv /\ PoolInv)
  <1>1. IInv /\ PoolInv /\ [Next]_vars => PoolInv'
    BY PoolStep
  <1> QED
    BY <1>1, PoolInit, Invariance, PTL DEF Spec

\* As long as no two handlers of recordStake overlap on a side, the pool shown
\* for it is the sum of the stakes recorded there.
THEOREM PoolsAreExact == Spec => []PoolExactUnlessOverlapped
  BY PoolInvIsExact, PoolInvariance, PTL

\* The database mirrors the contract: it records confirmed stakes, each once,
\* and shows no pool larger than its stakes, however the handlers interleave
\* and the network delays and repeats their reports.
THEOREM StakesAreMirrored == Spec => ImplementsPoolMirror
  <1>1. IInv /\ PoolInv /\ [Next]_vars => [Mirror!Next]_<<Confirmed, stakes, row.pool>>
    BY Mirrors
  <1> QED
    BY <1>1, MirrorsInit, PoolInvariance, PTL DEF Spec, ImplementsPoolMirror, Mirror!Spec

=============================================================================
