------------------------- MODULE MarketLifecycleProofs -------------------------
(*****************************************************************************)
(* Theorems about the life of a market, for any number of runners of every   *)
(* handler, any set and number of faults, transactions and retries: also     *)
(* for jobs that are redelivered while their first run goes on.              *)
(*                                                                           *)
(* Why the row follows the chain although most receipts are not looked at:   *)
(* a transaction was accepted only when it would have succeeded, and the     *)
(* contract never goes back.  So when a lock or resolve transaction reverts, *)
(* it is because the stage it asked for has been reached without it, and a   *)
(* handler that takes the receipt for success is right about the stage.  A   *)
(* deployment alone may revert for another reason, the deadline, and only    *)
(* its receipt is checked.  TxsInv and RunsInv say this.                     *)
(*****************************************************************************)
EXTENDS MarketLifecycle, TLAPS

-----------------------------------------------------------------------------
(* Types *)

\* A job has attempts and stalls left until it is completed or failed, and only
\* an active job has an owner.
GoodJobs(js) ==
    /\ js \in [Kinds -> Job]
    /\ \A k \in Kinds :
          /\ js[k].state \in {"none", "waiting", "active"}
                => js[k].attempts < ATTEMPTS /\ js[k].stalls <= MAX_STALLED
          /\ js[k].owner # NoRunner => js[k].state = "active"

\* TypeOK, with the transactions a bounded sequence and the jobs' counters kept
\* within their limits.
TypeInv ==
    /\ db \in Row
    /\ GoodJobs(jobs)
    /\ runs \in [Runners -> Run]
    /\ txs \in Seq(Tx) /\ Len(txs) <= MaxTxs
    /\ chain \in [status : ChainStatus, outcome : Outcomes \cup {"NONE"}]
    /\ clock \in [services : BOOLEAN, chain : BOOLEAN]
    /\ api \in {"idle", "enqueue"}
    /\ faults \in 0..MaxFaults

LEMMA TypeInvImpliesTypeOK == TypeInv => TypeOK
  BY DEF TypeInv, TypeOK, GoodJobs

LEMMA KindOfType == ASSUME NEW r PROVE KindOf(r) \in Kinds
  BY DEF KindOf, Kinds

LEMMA OwnerIsJobRunner ==
    ASSUME NEW js, NEW r, Owns(js, r), GoodJobs(js)
    PROVE  /\ js[KindOf(r)].owner # NoRunner
           /\ js[KindOf(r)].state = "active"
  BY KindOfType, ConstantsAssumption DEF Owns, GoodJobs, Runners

LEMMA AddJobGood ==
    ASSUME NEW js, GoodJobs(js), NEW k \in Kinds
    PROVE  GoodJobs(AddJob(js, k))
  BY DEF AddJob, GoodJobs, Job, JobStates

LEMMA CompleteJobGood ==
    ASSUME NEW js, GoodJobs(js), NEW r
    PROVE  GoodJobs(CompleteJob(js, r))
  BY KindOfType DEF CompleteJob, GoodJobs, Job, JobStates

LEMMA FailJobGood ==
    ASSUME NEW js, GoodJobs(js), NEW r
    PROVE  GoodJobs(FailJob(js, r))
  <1>1. CASE ~Owns(js, r)
    BY <1>1 DEF FailJob
  <1>2. CASE Owns(js, r)
    <2> DEFINE k == KindOf(r)
               made == js[k].attempts + 1
    <2>1. k \in Kinds /\ js[k].state = "active" /\ js[k] \in Job
      BY <1>2, KindOfType, OwnerIsJobRunner DEF GoodJobs
    <2>2. made \in 0..ATTEMPTS
      BY <2>1, ConstantsAssumption DEF GoodJobs, Job
    <2>3. FailJob(js, r) = [js EXCEPT ![k].attempts = made,
                                      ![k].state = IF made >= ATTEMPTS THEN "failed" ELSE "waiting",
                                      ![k].owner = NoRunner]
      BY <1>2 DEF FailJob
    <2> HIDE DEF k
    <2> QED
      BY <2>1, <2>2, <2>3, ConstantsAssumption DEF GoodJobs, Job, JobStates
  <1> QED
    BY <1>1, <1>2

LEMMA StalledJobGood ==
    ASSUME NEW js, GoodJobs(js), NEW k \in Kinds, js[k].state = "active"
    PROVE  GoodJobs(StalledJob(js, k))
  <1> DEFINE count == js[k].stalls + 1
  <1>1. js[k] \in Job /\ js[k].stalls <= MAX_STALLED /\ js[k].attempts < ATTEMPTS
    BY DEF GoodJobs
  <1>2. count \in 0..(MAX_STALLED + 1)
    BY <1>1, ConstantsAssumption DEF Job
  <1>3. StalledJob(js, k) = [js EXCEPT ![k].stalls = count,
                                       ![k].state = IF count > MAX_STALLED THEN "failed" ELSE "waiting",
                                       ![k].owner = NoRunner]
    BY DEF StalledJob
  <1> QED
    BY <1>1, <1>2, <1>3, ConstantsAssumption DEF GoodJobs, Job, JobStates

-----------------------------------------------------------------------------
(* What the steps of a run do to runs and jobs. *)

LEMMA IdleIsRun == Idle \in Run
  BY ConstantsAssumption DEF Idle, Run, Steps

LEMMA GotoType ==
    ASSUME TypeInv, NEW r \in Runners, NEW pc \in Steps, Goto(r, pc)
    PROVE  runs' \in [Runners -> Run]
  BY DEF TypeInv, Goto, Run

LEMMA ThrowType ==
    ASSUME TypeInv, NEW r \in Runners, Throw(r)
    PROVE  runs' \in [Runners -> Run] /\ GoodJobs(jobs')
  BY IdleIsRun, FailJobGood DEF TypeInv, Throw

LEMMA ReturnType ==
    ASSUME TypeInv, NEW r \in Runners, Return(r)
    PROVE  runs' \in [Runners -> Run] /\ GoodJobs(jobs')
  BY IdleIsRun, CompleteJobGood DEF TypeInv, Return

LEMMA FaultType ==
    ASSUME TypeInv, NEW f, Fault(f)
    PROVE  faults' \in 0..MaxFaults
  BY ConstantsAssumption DEF TypeInv, Fault

-----------------------------------------------------------------------------
LEMMA TypeInvInit == Init => TypeInv
  <1> SUFFICES ASSUME Init PROVE TypeInv
    OBVIOUS
  <1>1. db \in Row
    BY ConstantsAssumption DEF Init, Row, DbStatus
  <1>2. GoodJobs(jobs)
    BY ConstantsAssumption DEF Init, GoodJobs, NoJob, Job, JobStates
  <1>3. txs \in Seq(Tx) /\ Len(txs) <= MaxTxs
    BY ConstantsAssumption DEF Init
  <1> QED
    BY <1>1, <1>2, <1>3, IdleIsRun, ConstantsAssumption DEF Init, TypeInv, ChainStatus

LEMMA TypeInvRunStep ==
    ASSUME TypeInv, NEW r \in Runners, RunStep(r)
    PROVE  TypeInv'
  <1>1. CASE Read(r)
    BY <1>1, GotoType, ReturnType DEF Read, TypeInv, Steps
  <1>2. CASE Decide(r)
    <2>1. PICK o \in Decisions : runs' = [runs EXCEPT ![r].outcome = o, ![r].pc = "send"]
      BY <1>2 DEF Decide
    <2>2. o \in Outcomes
      BY ConstantsAssumption DEF Decisions, Outcomes
    <2>3. runs' \in [Runners -> Run]
      BY <2>1, <2>2 DEF TypeInv, Run, Steps
    <2> QED
      BY <1>2, <2>3 DEF Decide, TypeInv
  <1>3. CASE Send(r)
    <2>1. [kind |-> KindOf(r), outcome |-> runs[r].outcome, state |-> "pending"] \in Tx
      BY KindOfType DEF TypeInv, Run, Tx
    <2>2. txs' \in Seq(Tx) /\ Len(txs') = Len(txs) + 1 /\ Len(txs) \in Nat
      BY <1>3, <2>1 DEF Send, TypeInv
    <2>3. Len(txs) + 1 \in 0..MaxTxs
      BY <1>3, <2>2, ConstantsAssumption DEF Send
    <2>4. runs' \in [Runners -> Run]
      BY <1>3, <2>3 DEF Send, TypeInv, Run, Steps
    <2> QED
      BY <1>3, <2>2, <2>3, <2>4 DEF Send, TypeInv
  <1>4. CASE SendReverts(r)
    BY <1>4, ThrowType DEF SendReverts, TypeInv
  <1>5. CASE Receipt(r)
    <2>1. runs' \in [Runners -> Run] /\ GoodJobs(jobs')
      BY <1>5, ThrowType, GotoType DEF Receipt, TypeInv, Steps
    <2> QED
      BY <1>5, <2>1 DEF Receipt, TypeInv
  <1>6. CASE WriteOpen(r)
    BY <1>6, GotoType DEF WriteOpen, TypeInv, Row, DbStatus, Steps
  <1>7. CASE WriteLocked(r)
    BY <1>7, GotoType DEF WriteLocked, TypeInv, Row, DbStatus, Steps
  <1>8. CASE WriteResolved(r)
    <2>1. runs' \in [Runners -> Run] /\ GoodJobs(jobs')
      BY <1>8, ThrowType, ReturnType DEF WriteResolved
    <2>2. db \in Row /\ runs[r].outcome \in Outcomes \cup {"NONE"} /\ runs[r].tx \in 0..MaxTxs
      BY DEF TypeInv, Run
    <2>3. db' \in Row
      BY <1>8, <2>2 DEF WriteResolved, Row, DbStatus
    <2> QED
      BY <1>8, <2>1, <2>3 DEF WriteResolved, TypeInv
  <1>9. CASE Enqueue(r)
    <2>1. GoodJobs(jobs')
      BY <1>9, AddJobGood, CompleteJobGood DEF Enqueue, TypeInv, Kinds
    <2> QED
      BY <1>9, <2>1, IdleIsRun DEF Enqueue, TypeInv
  <1> QED
    BY <1>1, <1>2, <1>3, <1>4, <1>5, <1>6, <1>7, <1>8, <1>9 DEF RunStep

LEMMA TypeInvStep == TypeInv /\ [Next]_vars => TypeInv'
  <1> SUFFICES ASSUME TypeInv, [Next]_vars PROVE TypeInv'
    OBVIOUS
  <1>1. CASE CreateMarket
    BY <1>1 DEF CreateMarket, TypeInv, Row, DbStatus
  <1>2. CASE EnqueueDeploy
    BY <1>2, AddJobGood DEF EnqueueDeploy, TypeInv, Kinds
  <1>3. ASSUME NEW r \in Runners, StartJob(r)
        PROVE  TypeInv'
    <2>1. GoodJobs(jobs')
      <3> DEFINE k == KindOf(r)
      <3>1. k \in Kinds /\ jobs[k].state = "waiting" /\ r \in JobRunners
            /\ jobs' = [jobs EXCEPT ![k].state = "active", ![k].owner = r]
        BY <1>3, KindOfType DEF StartJob
      <3> HIDE DEF k
      <3> QED
        BY <3>1 DEF TypeInv, GoodJobs, Job, JobStates
    <2> QED
      BY <1>3, <2>1, GotoType DEF StartJob, TypeInv, Steps
  <1>4. ASSUME NEW r \in Runners, StartPoll(r)
        PROVE  TypeInv'
    BY <1>4, GotoType DEF StartPoll, TypeInv, Steps
  <1>5. ASSUME NEW r \in Runners, RunStep(r)
        PROVE  TypeInv'
    BY <1>5, TypeInvRunStep
  <1>6. CASE Mine
    <2>1. PICK i \in Pending :
             /\ txs' = [txs EXCEPT ![i].state = IF Succeeds(txs[i].kind) THEN "success" ELSE "reverted"]
             /\ chain' = IF Succeeds(txs[i].kind) THEN Executed(txs[i]) ELSE chain
      BY <1>6 DEF Mine
    <2>2. i \in 1..Len(txs) /\ txs[i] \in Tx
      BY DEF Pending, TypeInv
    <2>3. txs' \in Seq(Tx) /\ Len(txs') = Len(txs)
      <3> DEFINE mined == [txs[i] EXCEPT !.state = IF Succeeds(txs[i].kind) THEN "success" ELSE "reverted"]
      <3>1. mined \in Tx
        BY <2>2 DEF Tx
      <3>2. txs' = [txs EXCEPT ![i] = mined]
        BY <2>1
      <3> QED
        BY <2>2, <3>1, <3>2 DEF TypeInv
    <2>4. chain' \in [status : ChainStatus, outcome : Outcomes \cup {"NONE"}]
      BY <2>1, <2>2 DEF TypeInv, Tx, Executed, ChainStatus, Kinds
    <2> QED
      BY <1>6, <2>3, <2>4 DEF Mine, TypeInv
  <1>7. CASE DeadlinePasses
    BY <1>7 DEF DeadlinePasses, TypeInv
  <1>8. ASSUME NEW k \in Kinds, RecoverJob(k)
        PROVE  TypeInv'
    BY <1>8, StalledJobGood DEF RecoverJob, TypeInv
  <1>9. ASSUME NEW r \in Runners, CallFails(r)
        PROVE  TypeInv'
    BY <1>9, ThrowType, FaultType DEF CallFails, TypeInv
  <1>10. ASSUME NEW service, Crash(service)
         PROVE  TypeInv'
    BY <1>10, FaultType, IdleIsRun DEF Crash, TypeInv
  <1>11. CASE CreateMarketFails
    BY <1>11, FaultType DEF CreateMarketFails, TypeInv
  <1>12. ASSUME NEW k \in Kinds, Redeliver(k)
         PROVE  TypeInv'
    BY <1>12, StalledJobGood, FaultType DEF Redeliver, TypeInv
  <1>13. CASE ServicesClockAhead
    BY <1>13, FaultType DEF ServicesClockAhead, TypeInv
  <1>14. CASE OutsiderLocks
    BY <1>14, FaultType DEF OutsiderLocks, TypeInv, ChainStatus
  <1>15. CASE UNCHANGED vars
    BY <1>15 DEF vars, TypeInv
  <1> QED
    BY <1>1, <1>2, <1>3, <1>4, <1>5, <1>6, <1>7, <1>8, <1>9, <1>10, <1>11, <1>12,
       <1>13, <1>14, <1>15 DEF Next

\* Every reachable state is well typed, whatever fails, and however often: no
\* job is tried more often than ATTEMPTS allows or outlives its stalls.
THEOREM TypeCorrect == Spec => []TypeOK
  <1>1. Spec => []TypeInv
    BY TypeInvInit, TypeInvStep, PTL DEF Spec
  <1> QED
    BY <1>1, TypeInvImpliesTypeOK, PTL

-----------------------------------------------------------------------------
(* The row follows the chain. *)

\* The stage that a transaction or a handler of kind k brings a market to.
Stage(k) == IF k = "deploy" THEN 1 ELSE IF k = "lock" THEN 2 ELSE 3

\* A receipt after which the handler goes on.
Accepted(tx) == tx.state # "pending" /\ (tx.kind = "deploy" => tx.state = "success")

\* A transaction was accepted only one stage before its own, a lock only after
\* the deadline; after an accepted receipt its stage is reached.
TxsInv ==
    \A i \in 1..Len(txs) :
        /\ Rank(chain.status) + 1 >= Stage(txs[i].kind)
        /\ txs[i].kind = "lock" => clock.chain
        /\ Accepted(txs[i]) => Rank(chain.status) >= Stage(txs[i].kind)

\* A run waits for a transaction of its own kind and outcome, and goes on only
\* with an accepted receipt.
RunInv(r) ==
    /\ runs[r].pc \in {"wait", "write"} =>
          /\ runs[r].tx \in 1..Len(txs)
          /\ txs[runs[r].tx].kind = KindOf(r)
          /\ txs[runs[r].tx].outcome = runs[r].outcome
    /\ runs[r].pc = "write" => Accepted(txs[runs[r].tx])
    /\ runs[r].pc = "enqueue" => Rank(chain.status) >= Stage(KindOf(r))

RunsInv == \A r \in Runners : RunInv(r)

EvidenceInv ==
    /\ EvidenceIsSound
    /\ db.evidence # "NONE" => db.settlementTx \in 1..Len(txs)

SafetyInv ==
    TypeInv /\ TxsInv /\ RunsInv /\ DbFollowsChain /\ NothingSettlesEarly /\ EvidenceInv

\* What no step takes back: the stage of the contract, the passing of the
\* deadline, and what a transaction is and has come to.
Forward ==
    /\ Rank(chain.status) <= Rank(chain'.status)
    /\ clock.chain => clock'.chain
    /\ Len(txs) <= Len(txs')
    /\ \A i \in 1..Len(txs) :
          /\ txs'[i].kind = txs[i].kind
          /\ txs'[i].outcome = txs[i].outcome
          /\ txs[i].state # "pending" => txs'[i].state = txs[i].state

LEMMA RankType ==
    ASSUME TypeInv
    PROVE  Rank(chain.status) \in 0..3 /\ Rank(db.status) \in 0..3
  BY DEF TypeInv, Row, DbStatus, ChainStatus, Rank

LEMMA MineStep ==
    ASSUME TypeInv, Mine
    PROVE  \E i \in 1..Len(txs) :
              /\ txs[i] \in Tx /\ txs[i].state = "pending"
              /\ Len(txs') = Len(txs)
              /\ \A j \in 1..Len(txs) : j # i => txs'[j] = txs[j]
              /\ txs'[i].kind = txs[i].kind /\ txs'[i].outcome = txs[i].outcome
              /\ txs'[i].state = IF Succeeds(txs[i].kind) THEN "success" ELSE "reverted"
              /\ chain' = IF Succeeds(txs[i].kind) THEN Executed(txs[i]) ELSE chain
  <1>1. PICK i \in Pending :
           /\ txs' = [txs EXCEPT ![i].state = IF Succeeds(txs[i].kind) THEN "success" ELSE "reverted"]
           /\ chain' = IF Succeeds(txs[i].kind) THEN Executed(txs[i]) ELSE chain
    BY DEF Mine
  <1>2. i \in 1..Len(txs) /\ txs[i] \in Tx /\ txs[i].state = "pending"
    BY DEF Pending, TypeInv
  <1> DEFINE mined == [txs[i] EXCEPT !.state = IF Succeeds(txs[i].kind) THEN "success" ELSE "reverted"]
  <1>3. mined \in Tx /\ mined.kind = txs[i].kind /\ mined.outcome = txs[i].outcome
        /\ mined.state = IF Succeeds(txs[i].kind) THEN "success" ELSE "reverted"
    BY <1>2 DEF Tx
  <1>4. txs' = [txs EXCEPT ![i] = mined]
    BY <1>1
  <1> HIDE DEF mined
  <1>5. Len(txs') = Len(txs) /\ txs'[i] = mined
        /\ \A j \in 1..Len(txs) : j # i => txs'[j] = txs[j]
    BY <1>2, <1>3, <1>4 DEF TypeInv
  <1> QED
    BY <1>1, <1>2, <1>3, <1>5

\* A successful transaction moves the contract to the next stage.
LEMMA ExecutedRank ==
    ASSUME TypeInv, NEW tx \in Tx, Succeeds(tx.kind)
    PROVE  /\ Rank(Executed(tx).status) = Stage(tx.kind)
           /\ Rank(chain.status) + 1 = Stage(tx.kind)
  BY DEF Tx, Kinds, Succeeds, Executed, Rank, Stage

LEMMA SendStep ==
    ASSUME TypeInv, NEW r \in Runners, Send(r)
    PROVE  /\ Len(txs') = Len(txs) + 1 /\ Len(txs) \in Nat
           /\ \A i \in 1..Len(txs) : txs'[i] = txs[i]
           /\ txs'[Len(txs) + 1] = [kind |-> KindOf(r), outcome |-> runs[r].outcome,
                                    state |-> "pending"]
           /\ Rank(chain.status) + 1 = Stage(KindOf(r))
           /\ KindOf(r) = "lock" => clock.chain
           /\ UNCHANGED <<db, chain, clock>>
           /\ runs'[r] = [runs[r] EXCEPT !.tx = Len(txs) + 1, !.pc = "wait"]
           /\ \A s \in Runners \ {r} : runs'[s] = runs[s]
  <1>1. txs \in Seq(Tx) /\ Len(txs) \in Nat /\ runs \in [Runners -> Run]
    BY DEF TypeInv
  <1>2. Rank(chain.status) + 1 = Stage(KindOf(r)) /\ (KindOf(r) = "lock" => clock.chain)
    BY KindOfType DEF Send, Succeeds, Rank, Stage, Kinds
  <1> QED
    BY <1>1, <1>2 DEF Send

LEMMA ForwardStep ==
    ASSUME TypeInv, [Next]_vars
    PROVE  Forward
  <1>1. CASE Mine
    <2>1. PICK i \in 1..Len(txs) :
             /\ txs[i] \in Tx /\ txs[i].state = "pending"
             /\ Len(txs') = Len(txs)
             /\ \A j \in 1..Len(txs) : j # i => txs'[j] = txs[j]
             /\ txs'[i].kind = txs[i].kind /\ txs'[i].outcome = txs[i].outcome
             /\ chain' = IF Succeeds(txs[i].kind) THEN Executed(txs[i]) ELSE chain
      BY <1>1, MineStep
    <2>2. Rank(chain.status) <= Rank(chain'.status)
      BY <2>1, ExecutedRank, RankType
    <2>3. clock' = clock /\ Len(txs) \in Nat
      BY <1>1 DEF Mine, TypeInv
    <2> QED
      BY <2>1, <2>2, <2>3 DEF Forward
  <1>2. ASSUME NEW r \in Runners, Send(r)
        PROVE  Forward
    <2>1. /\ Len(txs') = Len(txs) + 1 /\ Len(txs) \in Nat
          /\ \A i \in 1..Len(txs) : txs'[i] = txs[i]
          /\ UNCHANGED <<chain, clock>>
      BY <1>2, SendStep
    <2> QED
      BY <2>1, RankType DEF Forward
  <1>3. CASE OutsiderLocks
    BY <1>3, RankType DEF OutsiderLocks, Forward, Succeeds, Rank, TypeInv
  <1>4. CASE DeadlinePasses
    BY <1>4, RankType DEF DeadlinePasses, Forward, TypeInv
  <1>5. CASE ServicesClockAhead
    BY <1>5, RankType DEF ServicesClockAhead, Forward, TypeInv
  <1>6. CASE UNCHANGED <<txs, chain, clock>>
    BY <1>6, RankType DEF Forward, TypeInv
  <1>7. \/ Mine \/ OutsiderLocks \/ DeadlinePasses \/ ServicesClockAhead
        \/ \E r \in Runners : Send(r)
        \/ UNCHANGED <<txs, chain, clock>>
    BY DEF Next, vars, RunStep, CreateMarket, EnqueueDeploy, StartJob, StartPoll, Read, Decide,
           SendReverts, Receipt, WriteOpen, WriteLocked, WriteResolved, Enqueue, RecoverJob,
           CallFails, Crash, CreateMarketFails, Redeliver
  <1> QED
    BY <1>1, <1>2, <1>3, <1>4, <1>5, <1>6, <1>7

\* A run that does nothing in a step keeps what holds of it.
LEMMA KeepRun ==
    ASSUME TypeInv, NEW r \in Runners, RunInv(r), Forward,
           Rank(chain'.status) \in 0..3, runs'[r] = runs[r]
    PROVE  RunInv(r)'
  <1>1. runs[r].tx \in 1..Len(txs) => runs[r].tx \in 1..Len(txs') /\ txs[runs[r].tx] \in Tx
    BY DEF TypeInv, Forward
  <1>2. Stage(KindOf(r)) \in 1..3
    BY DEF Stage
  <1> QED
    BY <1>1, <1>2, RankType DEF RunInv, Forward, Accepted, Tx

LEMMA RunsInvStep ==
    ASSUME SafetyInv, [Next]_vars
    PROVE  RunsInv'
  <1> SUFFICES ASSUME NEW r \in Runners PROVE RunInv(r)'
    BY DEF RunsInv
  <1>0. TypeInv /\ TypeInv' /\ RunInv(r) /\ TxsInv /\ Forward /\ runs \in [Runners -> Run]
    BY TypeInvStep, ForwardStep DEF SafetyInv, RunsInv, TypeInv
  <1>00. Rank(chain'.status) \in 0..3
    BY <1>0 DEF TypeInv, ChainStatus, Rank
  <1>1. CASE runs'[r] = runs[r]
    BY <1>0, <1>00, <1>1, KeepRun
  <1>2. CASE runs'[r].pc \in {"idle", "read", "decide", "send"}
    BY <1>2 DEF RunInv
  <1>3. CASE Send(r)
    <2>1. /\ Len(txs') = Len(txs) + 1 /\ Len(txs) \in Nat
          /\ txs'[Len(txs) + 1] = [kind |-> KindOf(r), outcome |-> runs[r].outcome,
                                   state |-> "pending"]
          /\ runs'[r] = [runs[r] EXCEPT !.tx = Len(txs) + 1, !.pc = "wait"]
      BY <1>0, <1>3, SendStep
    <2>2. runs'[r].tx = Len(txs) + 1 /\ runs'[r].pc = "wait" /\ runs'[r].outcome = runs[r].outcome
      BY <1>0, <2>1 DEF Run
    <2> QED
      BY <2>1, <2>2 DEF RunInv
  <1>4. CASE Receipt(r) /\ runs'[r].pc = "write"
    <2>1. runs[r].pc = "wait" /\ runs'[r] = [runs[r] EXCEPT !.pc = "write"] /\ UNCHANGED txs
          /\ Accepted(txs[runs[r].tx])
      BY <1>0, <1>4 DEF Receipt, Throw, Goto, Idle, RunInv, Accepted
    <2> QED
      BY <1>0, <2>1 DEF RunInv, Run
  <1>5. CASE WriteOpen(r) \/ WriteLocked(r)
    <2>1. runs[r].pc = "write" /\ runs'[r] = [runs[r] EXCEPT !.pc = "enqueue"]
          /\ UNCHANGED <<txs, chain>>
      BY <1>0, <1>5 DEF WriteOpen, WriteLocked, Goto
    <2>2. Rank(chain.status) >= Stage(KindOf(r))
      BY <1>0, <2>1 DEF RunInv, TxsInv
    <2> QED
      BY <1>0, <2>1, <2>2 DEF RunInv, Run
  <1>6. \/ runs'[r] = runs[r]
        \/ runs'[r].pc \in {"idle", "read", "decide", "send"}
        \/ Send(r)
        \/ Receipt(r) /\ runs'[r].pc = "write"
        \/ WriteOpen(r) \/ WriteLocked(r)
    <2>1. ASSUME NEW s \in Runners, RunStep(s), s # r
          PROVE  runs'[r] = runs[r]
      BY <1>0, <2>1 DEF RunStep, Read, Decide, Send, SendReverts, Receipt, WriteOpen, WriteLocked,
         WriteResolved, Enqueue, Throw, Return, Goto
    <2>2. ASSUME RunStep(r)
          PROVE  \/ runs'[r].pc \in {"idle", "read", "decide", "send"}
                 \/ Send(r)
                 \/ Receipt(r) /\ runs'[r].pc = "write"
                 \/ WriteOpen(r) \/ WriteLocked(r)
      <3>1. Idle.pc = "idle"
        BY DEF Idle
      <3>2. Read(r) => runs'[r].pc \in {"idle", "decide", "send"}
        BY <1>0, <3>1 DEF Read, Return, Goto, Run
      <3>3. Decide(r) => runs'[r].pc = "send"
        BY <1>0 DEF Decide, Run
      <3>4. SendReverts(r) \/ WriteResolved(r) \/ Enqueue(r) => runs'[r].pc = "idle"
        BY <1>0, <3>1 DEF SendReverts, WriteResolved, Enqueue, Throw, Return
      <3>5. Receipt(r) => runs'[r].pc \in {"idle", "write"}
        BY <1>0, <3>1 DEF Receipt, Throw, Goto, Run
      <3> QED
        BY <2>2, <3>2, <3>3, <3>4, <3>5, Zenon DEF RunStep
    <2>3. ASSUME NEW s \in Runners, StartJob(s) \/ StartPoll(s)
          PROVE  runs'[r] = runs[r] \/ runs'[r].pc = "read"
      BY <1>0, <2>3 DEF StartJob, StartPoll, Goto, Run
    <2>4. ASSUME NEW s \in Runners, CallFails(s)
          PROVE  runs'[r] = runs[r] \/ runs'[r].pc = "idle"
      BY <1>0, <2>4 DEF CallFails, Throw, Idle
    <2>5. ASSUME NEW service, Crash(service)
          PROVE  runs'[r] = runs[r] \/ runs'[r].pc = "idle"
      BY <1>0, <2>5 DEF Crash, Idle
    <2>6. \/ \E s \in Runners : StartJob(s) \/ StartPoll(s) \/ RunStep(s) \/ CallFails(s)
          \/ \E service \in {MarketService, ResolutionService} : Crash(service)
          \/ UNCHANGED runs
      BY DEF SafetyInv, Next, vars, CreateMarket, EnqueueDeploy, Mine, DeadlinePasses, RecoverJob,
         CreateMarketFails, Redeliver, ServicesClockAhead, OutsiderLocks
    <2> QED
      BY <2>1, <2>2, <2>3, <2>4, <2>5, <2>6
  <1> QED
    BY <1>1, <1>2, <1>3, <1>4, <1>5, <1>6

LEMMA TxsInvStep ==
    ASSUME SafetyInv, [Next]_vars
    PROVE  TxsInv'
  <1> SUFFICES ASSUME NEW i \in 1..Len(txs')
               PROVE  /\ Rank(chain'.status) + 1 >= Stage(txs'[i].kind)
                      /\ txs'[i].kind = "lock" => clock'.chain
                      /\ Accepted(txs'[i]) => Rank(chain'.status) >= Stage(txs'[i].kind)
    BY DEF TxsInv
  <1>0. TypeInv /\ TypeInv' /\ TxsInv /\ Forward
    BY TypeInvStep, ForwardStep DEF SafetyInv
  <1>1. Rank(chain.status) \in 0..3 /\ Rank(chain'.status) \in 0..3 /\ Len(txs) \in Nat
    BY <1>0, RankType DEF TypeInv, ChainStatus, Rank
  <1>2. CASE i \in 1..Len(txs) /\ txs'[i] = txs[i]
    <2>1. Stage(txs[i].kind) \in 1..3
      BY DEF Stage
    <2> QED
      BY <1>0, <1>1, <1>2, <2>1 DEF TxsInv, Forward
  <1>3. CASE Mine
    <2>1. PICK m \in 1..Len(txs) :
             /\ txs[m] \in Tx /\ txs[m].state = "pending"
             /\ Len(txs') = Len(txs)
             /\ \A j \in 1..Len(txs) : j # m => txs'[j] = txs[j]
             /\ txs'[m].kind = txs[m].kind
             /\ txs'[m].state = IF Succeeds(txs[m].kind) THEN "success" ELSE "reverted"
             /\ chain' = IF Succeeds(txs[m].kind) THEN Executed(txs[m]) ELSE chain
      BY <1>0, <1>3, MineStep
    <2>2. clock' = clock
      BY <1>3 DEF Mine
    <2>3. CASE i # m
      BY <1>2, <2>1, <2>3
    <2>4. CASE i = m /\ Succeeds(txs[m].kind)
      BY <1>0, <1>1, <2>1, <2>2, <2>4, ExecutedRank DEF TxsInv
    <2>5. CASE i = m /\ ~Succeeds(txs[m].kind)
      \* A lock or resolve reverts only where its stage is reached already.
      <3>1. txs[m].kind # "deploy" => Rank(chain.status) >= Stage(txs[m].kind)
        BY <1>0, <2>1, <2>5 DEF TxsInv, Succeeds, Stage, Rank, TypeInv, ChainStatus, Tx, Kinds
      <3> QED
        BY <1>0, <1>1, <2>1, <2>2, <2>5, <3>1 DEF TxsInv, Accepted
    <2> QED
      BY <2>3, <2>4, <2>5
  <1>4. ASSUME NEW r \in Runners, Send(r), i = Len(txs) + 1
        PROVE  /\ Rank(chain'.status) + 1 >= Stage(txs'[i].kind)
               /\ txs'[i].kind = "lock" => clock'.chain
               /\ ~Accepted(txs'[i])
    <2>1. /\ txs'[Len(txs) + 1] = [kind |-> KindOf(r), outcome |-> runs[r].outcome,
                                   state |-> "pending"]
          /\ Rank(chain.status) + 1 = Stage(KindOf(r))
          /\ KindOf(r) = "lock" => clock.chain
          /\ UNCHANGED <<chain, clock>>
      BY <1>0, <1>4, SendStep
    <2> QED
      BY <1>1, <1>4, <2>1 DEF Accepted, Stage
  <1>5. ASSUME NEW r \in Runners, Send(r)
        PROVE  i = Len(txs) + 1 \/ (i \in 1..Len(txs) /\ txs'[i] = txs[i])
    <2>1. Len(txs') = Len(txs) + 1 /\ \A j \in 1..Len(txs) : txs'[j] = txs[j]
      BY <1>0, <1>5, SendStep
    <2> QED
      BY <1>1, <2>1
  <1>6. Mine \/ (\E r \in Runners : Send(r)) \/ UNCHANGED txs
    BY DEF Next, vars, RunStep, CreateMarket, EnqueueDeploy, StartJob, StartPoll, Read, Decide,
           SendReverts, Receipt, WriteOpen, WriteLocked, WriteResolved, Enqueue, RecoverJob,
           CallFails, Crash, CreateMarketFails, Redeliver, DeadlinePasses, ServicesClockAhead,
           OutsiderLocks
  <1> QED
    BY <1>2, <1>3, <1>4, <1>5, <1>6

\* Which steps write the row, and what of it.
LEMMA RowStep ==
    ASSUME SafetyInv, [Next]_vars
    PROVE  \/ UNCHANGED db
           \/ /\ UNCHANGED <<chain, clock, txs>>
              /\ Rank(db'.status) <= Rank(chain.status)
              /\ \/ /\ db'.evidence = db.evidence /\ db'.outcome = db.outcome
                    /\ db'.settlementTx = db.settlementTx
                 \/ \E r \in Runners :
                       /\ runs[r].pc = "write" /\ KindOf(r) = "resolve"
                       /\ db.evidence = "NONE"
                       /\ db'.evidence = runs[r].outcome /\ db'.outcome = runs[r].outcome
                       /\ db'.settlementTx = runs[r].tx
  <1>0. TypeInv /\ RunsInv /\ TxsInv /\ db \in Row /\ Rank(chain.status) \in 0..3
    BY RankType DEF SafetyInv, TypeInv
  <1>1. CASE CreateMarket
    <2>1. Rank(db'.status) = 0 /\ UNCHANGED <<chain, clock, txs>>
          /\ db'.evidence = db.evidence /\ db'.outcome = db.outcome
          /\ db'.settlementTx = db.settlementTx
      BY <1>0, <1>1 DEF CreateMarket, Row, Rank
    <2> QED
      BY <1>0, <2>1
  <1>2. ASSUME NEW r \in Runners, runs[r].pc = "write"
        PROVE  Rank(chain.status) >= Stage(KindOf(r))
    BY <1>0, <1>2 DEF RunsInv, RunInv, TxsInv
  <1>3. ASSUME NEW r \in Runners, WriteOpen(r)
        PROVE  Rank(db'.status) <= Rank(chain.status) /\ UNCHANGED <<chain, clock, txs>>
               /\ db'.evidence = db.evidence /\ db'.outcome = db.outcome
               /\ db'.settlementTx = db.settlementTx
    <2>1. db' = [db EXCEPT !.status = "OPEN"] /\ KindOf(r) = "deploy"
      BY <1>3 DEF WriteOpen, KindOf
    <2>2. Rank(chain.status) >= 1
      BY <1>0, <1>2, <1>3, <2>1 DEF WriteOpen, Stage
    <2> QED
      BY <1>0, <1>3, <2>1, <2>2 DEF WriteOpen, Row, Rank
  <1>4. ASSUME NEW r \in Runners, WriteLocked(r)
        PROVE  Rank(db'.status) <= Rank(chain.status) /\ UNCHANGED <<chain, clock, txs>>
               /\ db'.evidence = db.evidence /\ db'.outcome = db.outcome
               /\ db'.settlementTx = db.settlementTx
    <2>1. db' = [db EXCEPT !.status = "LOCKED"] /\ KindOf(r) = "lock"
      BY <1>4, ConstantsAssumption DEF WriteLocked, KindOf
    <2>2. Rank(chain.status) >= 2
      BY <1>0, <1>2, <1>4, <2>1 DEF WriteLocked, Stage
    <2> QED
      BY <1>0, <1>4, <2>1, <2>2 DEF WriteLocked, Row, Rank
  <1>5. ASSUME NEW r \in Runners, WriteResolved(r)
        PROVE  \/ UNCHANGED db
               \/ /\ Rank(db'.status) <= Rank(chain.status) /\ UNCHANGED <<chain, clock, txs>>
                  /\ runs[r].pc = "write" /\ KindOf(r) = "resolve" /\ db.evidence = "NONE"
                  /\ db'.evidence = runs[r].outcome /\ db'.outcome = runs[r].outcome
                  /\ db'.settlementTx = runs[r].tx
    <2>1. runs[r].pc = "write" /\ KindOf(r) = "resolve" /\ UNCHANGED <<chain, clock, txs>>
      BY <1>5, ConstantsAssumption DEF WriteResolved, KindOf, MarketService, ResolutionService
    <2>2. Rank(chain.status) >= 3
      BY <1>0, <1>2, <2>1 DEF Stage
    <2>3. UNCHANGED db \/ (/\ db.evidence = "NONE"
                           /\ db' = [db EXCEPT !.status = "RESOLVED",
                                               !.outcome = runs[r].outcome,
                                               !.evidence = runs[r].outcome,
                                               !.settlementTx = runs[r].tx])
      BY <1>5 DEF WriteResolved
    <2> QED
      BY <1>0, <2>1, <2>2, <2>3 DEF Row, Rank
  <1>6. \/ UNCHANGED db \/ CreateMarket
        \/ \E r \in Runners : WriteOpen(r) \/ WriteLocked(r) \/ WriteResolved(r)
    BY DEF Next, vars, RunStep, EnqueueDeploy, StartJob, StartPoll, Read, Decide, Send,
           SendReverts, Receipt, Enqueue, RecoverJob, Mine, CallFails, Crash, CreateMarketFails,
           Redeliver, DeadlinePasses, ServicesClockAhead, OutsiderLocks
  <1> QED
    BY <1>1, <1>3, <1>4, <1>5, <1>6

LEMMA NothingEarlyStep ==
    ASSUME SafetyInv, [Next]_vars, Rank(chain'.status) >= 2
    PROVE  clock'.chain
  <1>0. TypeInv /\ TxsInv /\ Forward /\ Rank(chain.status) \in 0..3
    BY ForwardStep, RankType DEF SafetyInv
  <1>1. CASE Rank(chain.status) >= 2
    BY <1>0, <1>1 DEF SafetyInv, NothingSettlesEarly, Forward
  <1>2. CASE OutsiderLocks
    BY <1>2 DEF OutsiderLocks, Succeeds
  <1>3. CASE Mine
    <2>1. PICK i \in 1..Len(txs) :
             /\ txs[i] \in Tx
             /\ chain' = IF Succeeds(txs[i].kind) THEN Executed(txs[i]) ELSE chain
      BY <1>0, <1>3, MineStep
    <2>2. CASE ~Succeeds(txs[i].kind)
      BY <1>1, <2>1, <2>2
    <2>3. CASE Succeeds(txs[i].kind)
      BY <1>0, <1>1, <2>1, <2>3, ExecutedRank DEF TxsInv, Stage, Tx, Kinds, Forward
    <2> QED
      BY <2>2, <2>3
  <1>4. OutsiderLocks \/ Mine \/ UNCHANGED chain
    BY DEF Next, vars, RunStep, CreateMarket, EnqueueDeploy, StartJob, StartPoll, Read, Decide,
           Send, SendReverts, Receipt, WriteOpen, WriteLocked, WriteResolved, Enqueue,
           RecoverJob, CallFails, Crash, CreateMarketFails, Redeliver, DeadlinePasses,
           ServicesClockAhead
  <1> QED
    BY <1>1, <1>2, <1>3, <1>4

LEMMA EvidenceStep ==
    ASSUME SafetyInv, [Next]_vars
    PROVE  EvidenceInv'
  <1>0. TypeInv /\ RunsInv /\ Forward /\ EvidenceInv /\ Len(txs) \in Nat /\ Len(txs') \in Nat
    BY ForwardStep, TypeInvStep DEF SafetyInv, TypeInv
  <1>1. CASE /\ db'.evidence = db.evidence /\ db'.outcome = db.outcome
             /\ db'.settlementTx = db.settlementTx
    BY <1>0, <1>1 DEF EvidenceInv, EvidenceIsSound, Forward
  <1>2. ASSUME NEW r \in Runners, UNCHANGED txs,
               runs[r].pc = "write", KindOf(r) = "resolve",
               db'.evidence = runs[r].outcome, db'.outcome = runs[r].outcome,
               db'.settlementTx = runs[r].tx
        PROVE  EvidenceInv'
    BY <1>0, <1>2 DEF RunsInv, RunInv, EvidenceInv, EvidenceIsSound, Accepted
  <1> QED
    BY <1>1, <1>2, RowStep

LEMMA SafetyInvInit == Init => SafetyInv
  <1> SUFFICES ASSUME Init PROVE SafetyInv
    OBVIOUS
  <1>1. TxsInv /\ EvidenceInv
    BY DEF Init, TxsInv, EvidenceInv, EvidenceIsSound
  <1>2. RunsInv
    BY DEF Init, RunsInv, RunInv, Idle
  <1>3. DbFollowsChain /\ NothingSettlesEarly
    BY DEF Init, DbFollowsChain, NothingSettlesEarly, Rank
  <1> QED
    BY <1>1, <1>2, <1>3, TypeInvInit DEF SafetyInv

LEMMA SafetyInvStep == SafetyInv /\ [Next]_vars => SafetyInv'
  <1> SUFFICES ASSUME SafetyInv, [Next]_vars PROVE SafetyInv'
    OBVIOUS
  <1>1. TypeInv /\ TypeInv' /\ Forward
    BY TypeInvStep, ForwardStep DEF SafetyInv
  <1>2. /\ Rank(chain.status) \in 0..3 /\ Rank(db.status) \in 0..3
        /\ Rank(chain'.status) \in 0..3 /\ Rank(db'.status) \in 0..3
    BY <1>1, RankType DEF TypeInv, Row, DbStatus, ChainStatus, Rank
  <1>3. DbFollowsChain'
    BY <1>1, <1>2, RowStep DEF SafetyInv, DbFollowsChain, Forward
  <1>4. NothingSettlesEarly'
    BY <1>2, <1>3, NothingEarlyStep DEF NothingSettlesEarly, DbFollowsChain
  <1> QED
    BY <1>1, <1>3, <1>4, TxsInvStep, RunsInvStep, EvidenceStep DEF SafetyInv

LEMMA SafetyInvAlways == Spec => []SafetyInv
  BY SafetyInvInit, SafetyInvStep, PTL DEF Spec

\* A row never claims more than has happened on chain: whatever calls are lost
\* or refused, services crash, jobs run twice or polls overlap.
THEOREM RowFollowsChain == Spec => []DbFollowsChain
  <1>1. SafetyInv => DbFollowsChain
    BY DEF SafetyInv
  <1> QED
    BY <1>1, SafetyInvAlways, PTL

\* Nothing is locked or settled, on chain or in the row, before the deadline.
THEOREM SettlesAfterDeadline == Spec => []NothingSettlesEarly
  <1>1. SafetyInv => NothingSettlesEarly
    BY DEF SafetyInv
  <1> QED
    BY <1>1, SafetyInvAlways, PTL

\* The evidence of a resolution cites a mined resolve() of the row's outcome,
\* also where a second settlement raced the first.
THEOREM EvidenceHolds == Spec => []EvidenceIsSound
  <1>1. SafetyInv => EvidenceIsSound
    BY DEF SafetyInv, EvidenceInv
  <1> QED
    BY <1>1, SafetyInvAlways, PTL

\* Of all the runs that settle a market, the first to write decides for good.
THEOREM FirstSettlementStays == Spec => SettledOnce
  <1>1. ASSUME SafetyInv, [Next]_vars
        PROVE  [db.evidence # "NONE" => /\ db'.evidence = db.evidence
                                        /\ db'.outcome = db.outcome
                                        /\ db'.settlementTx = db.settlementTx]_vars
    BY <1>1, RowStep
  <1> QED
    BY <1>1, SafetyInvAlways, PTL DEF Spec, SettledOnce

-----------------------------------------------------------------------------
(* The life that is promised, as long as a handler does not run twice at     *)
(* once: then nobody else moves the row while a handler that has read it is  *)
(* on its way to write it.  Settlements may still race.                      *)

OneRunPerHandler ==
    /\ \A r, s \in DeployRunners : r = s
    /\ \A r, s \in LockRunners : r = s

UnderWay(r) == runs[r].pc \in {"decide", "send", "wait", "write"}

\* What a run has read of the row still holds when it writes; the evidence
\* exists exactly when the row is RESOLVED.
AloneInv ==
    /\ db.status = "RESOLVED" <=> db.evidence # "NONE"
    /\ \A r \in Runners : UnderWay(r) =>
          /\ KindOf(r) = "deploy" => db.status = "PENDING"
          /\ KindOf(r) = "lock" => db.status = "OPEN"
          /\ KindOf(r) = "resolve" => db.status \in {"LOCKED", "RESOLVED"}
    /\ \A r \in Runners : KindOf(r) = "resolve" /\ runs[r].pc \in {"send", "wait", "write"}
                              => runs[r].outcome \in Outcomes

LEMMA KindOfRunner ==
    ASSUME NEW r
    PROVE  /\ r \in DeployRunners <=> KindOf(r) = "deploy"
           /\ r \in LockRunners => KindOf(r) = "lock"
           /\ KindOf(r) = "lock" => r \in LockRunners
           /\ r \in ResolutionService => KindOf(r) = "resolve"
  BY ConstantsAssumption DEF KindOf, MarketService, ResolutionService

\* Every step of a run, as far as AloneInv is concerned.
LEMMA RunChange ==
    ASSUME TypeInv, [Next]_vars, NEW r \in Runners
    PROVE  \/ runs'[r] = runs[r]
           \/ ~UnderWay(r)'
           \/ /\ UNCHANGED db
              /\ runs[r].pc = "read" /\ db.status = HandledStatus(KindOf(r))
              /\ KindOf(r) = "resolve" => runs'[r].pc = "decide"
           \/ UNCHANGED db /\ UnderWay(r) /\ runs'[r].outcome \in Outcomes
           \/ /\ UNCHANGED db /\ UnderWay(r) /\ runs'[r].outcome = runs[r].outcome
              /\ runs[r].pc \in {"send", "wait"}
  <1>0. runs \in [Runners -> Run] /\ Idle.pc = "idle"
    BY DEF TypeInv, Idle
  <1>1. CASE Read(r)
    <2>1. CASE db.status = HandledStatus(KindOf(r))
      BY <1>0, <1>1, <2>1 DEF Read, Goto, Return, Run
    <2>2. CASE db.status # HandledStatus(KindOf(r))
      BY <1>0, <1>1, <2>2 DEF Read, Return, UnderWay
    <2> QED
      BY <2>1, <2>2
  <1>2. CASE Decide(r)
    <2>1. PICK o \in Decisions : runs' = [runs EXCEPT ![r].outcome = o, ![r].pc = "send"]
      BY <1>2 DEF Decide
    <2>2. o \in Outcomes
      BY ConstantsAssumption DEF Decisions, Outcomes
    <2> QED
      BY <1>0, <1>2, <2>1, <2>2 DEF Decide, UnderWay, Run
  <1>3. CASE Send(r)
    BY <1>0, <1>3 DEF Send, UnderWay, Run
  <1>4. CASE Receipt(r)
    BY <1>0, <1>4 DEF Receipt, Goto, Throw, UnderWay, Run
  <1>5. CASE SendReverts(r) \/ WriteResolved(r) \/ Enqueue(r)
    BY <1>0, <1>5 DEF SendReverts, WriteResolved, Enqueue, Throw, Return, UnderWay
  <1>6. CASE WriteOpen(r) \/ WriteLocked(r)
    BY <1>0, <1>6 DEF WriteOpen, WriteLocked, Goto, UnderWay, Run
  <1>7. ASSUME NEW s \in Runners, StartJob(s) \/ StartPoll(s)
        PROVE  runs'[r] = runs[r] \/ ~UnderWay(r)'
    BY <1>0, <1>7 DEF StartJob, StartPoll, Goto, Run, UnderWay
  <1>8. ASSUME NEW s \in Runners, CallFails(s)
        PROVE  runs'[r] = runs[r] \/ ~UnderWay(r)'
    BY <1>0, <1>8 DEF CallFails, Throw, UnderWay
  <1>9. ASSUME NEW service, Crash(service)
        PROVE  runs'[r] = runs[r] \/ ~UnderWay(r)'
    BY <1>0, <1>9 DEF Crash, UnderWay
  <1>10. ASSUME NEW s \in Runners, RunStep(s), s # r
         PROVE  runs'[r] = runs[r]
    BY <1>0, <1>10 DEF RunStep, Read, Decide, Send, SendReverts, Receipt, WriteOpen, WriteLocked,
       WriteResolved, Enqueue, Throw, Return, Goto
  <1>11. \/ \E s \in Runners : StartJob(s) \/ StartPoll(s) \/ RunStep(s) \/ CallFails(s)
         \/ \E service \in {MarketService, ResolutionService} : Crash(service)
         \/ UNCHANGED runs
    BY DEF Next, vars, CreateMarket, EnqueueDeploy, Mine, DeadlinePasses, RecoverJob,
       CreateMarketFails, Redeliver, ServicesClockAhead, OutsiderLocks
  <1>12. ASSUME RunStep(r)
         PROVE  Read(r) \/ Decide(r) \/ Send(r) \/ Receipt(r)
                \/ (SendReverts(r) \/ WriteResolved(r) \/ Enqueue(r))
                \/ (WriteOpen(r) \/ WriteLocked(r))
    BY <1>12, Zenon DEF RunStep
  <1> QED
    BY <1>1, <1>2, <1>3, <1>4, <1>5, <1>6, <1>7, <1>8, <1>9, <1>10, <1>11, <1>12

\* Every step of the row is the next stage of its life.
LEMMA RowChange ==
    ASSUME SafetyInv, AloneInv, [Next]_vars
    PROVE  \/ UNCHANGED db
           \/ /\ UNCHANGED <<chain, clock>>
              /\ \/ /\ db.status = "NONE" /\ db' = [db EXCEPT !.status = "PENDING"]
                    /\ UNCHANGED runs
                 \/ \E r \in Runners :
                       /\ KindOf(r) = "deploy" /\ UnderWay(r) /\ ~UnderWay(r)'
                       /\ db.status = "PENDING" /\ db' = [db EXCEPT !.status = "OPEN"]
                 \/ \E r \in Runners :
                       /\ KindOf(r) = "lock" /\ UnderWay(r) /\ ~UnderWay(r)'
                       /\ db.status = "OPEN" /\ db' = [db EXCEPT !.status = "LOCKED"]
                 \/ \E r \in Runners :
                       /\ db.status = "LOCKED" /\ runs[r].outcome \in Outcomes
                       /\ db' = [db EXCEPT !.status = "RESOLVED", !.outcome = runs[r].outcome,
                                           !.evidence = runs[r].outcome,
                                           !.settlementTx = runs[r].tx]
  <1>0. TypeInv /\ runs \in [Runners -> Run] /\ Idle.pc = "idle"
    BY DEF SafetyInv, TypeInv, Idle
  <1>1. ASSUME NEW r \in Runners, WriteOpen(r)
        PROVE  /\ KindOf(r) = "deploy" /\ UnderWay(r) /\ ~UnderWay(r)'
               /\ db.status = "PENDING" /\ db' = [db EXCEPT !.status = "OPEN"]
               /\ UNCHANGED <<chain, clock>>
    BY <1>0, <1>1, KindOfRunner DEF WriteOpen, Goto, UnderWay, AloneInv, Run
  <1>2. ASSUME NEW r \in Runners, WriteLocked(r)
        PROVE  /\ KindOf(r) = "lock" /\ UnderWay(r) /\ ~UnderWay(r)'
               /\ db.status = "OPEN" /\ db' = [db EXCEPT !.status = "LOCKED"]
               /\ UNCHANGED <<chain, clock>>
    BY <1>0, <1>2, KindOfRunner DEF WriteLocked, Goto, UnderWay, AloneInv, Run
  <1>3. ASSUME NEW r \in Runners, WriteResolved(r)
        PROVE  \/ UNCHANGED db
               \/ /\ db.status = "LOCKED" /\ runs[r].outcome \in Outcomes
                  /\ db' = [db EXCEPT !.status = "RESOLVED", !.outcome = runs[r].outcome,
                                      !.evidence = runs[r].outcome,
                                      !.settlementTx = runs[r].tx]
                  /\ UNCHANGED <<chain, clock>>
    BY <1>3, KindOfRunner DEF WriteResolved, UnderWay, AloneInv
  <1>4. CreateMarket => /\ db.status = "NONE" /\ db' = [db EXCEPT !.status = "PENDING"]
                        /\ UNCHANGED <<chain, clock, runs>>
    BY DEF CreateMarket
  <1>5. \/ UNCHANGED db \/ CreateMarket
        \/ \E r \in Runners : WriteOpen(r) \/ WriteLocked(r) \/ WriteResolved(r)
    BY DEF Next, vars, RunStep, EnqueueDeploy, StartJob, StartPoll, Read, Decide, Send,
           SendReverts, Receipt, Enqueue, RecoverJob, Mine, CallFails, Crash, CreateMarketFails,
           Redeliver, DeadlinePasses, ServicesClockAhead, OutsiderLocks
  <1> QED
    BY <1>1, <1>2, <1>3, <1>4, <1>5

LEMMA AloneInvInit == Init => AloneInv
  BY DEF Init, AloneInv, UnderWay, Idle

LEMMA AloneInvStep ==
    ASSUME OneRunPerHandler, SafetyInv, AloneInv, [Next]_vars
    PROVE  AloneInv'
  <1>0. TypeInv /\ db \in Row
    BY DEF SafetyInv, TypeInv
  <1>1. (db.status = "RESOLVED" <=> db.evidence # "NONE")'
    BY <1>0, RowChange DEF AloneInv, Row, Outcomes
  <1>2. ASSUME NEW r \in Runners, UnderWay(r)'
        PROVE  /\ KindOf(r) = "deploy" => db'.status = "PENDING"
               /\ KindOf(r) = "lock" => db'.status = "OPEN"
               /\ KindOf(r) = "resolve" => db'.status \in {"LOCKED", "RESOLVED"}
    <2>1. CASE UNCHANGED db
      <3>1. UnderWay(r) \/ db.status = HandledStatus(KindOf(r))
        BY <1>0, <1>2, <2>1, RunChange DEF UnderWay
      <3> QED
        BY <2>1, <3>1 DEF AloneInv, HandledStatus
    <2>2. CASE db' # db
      <3>1. UnderWay(r) /\ runs'[r] = runs[r]
        BY <1>0, <1>2, <2>2, RunChange DEF UnderWay
      <3>2. KindOf(r) \in Kinds
        BY KindOfType
      <3>3. ASSUME NEW s \in Runners, KindOf(s) = KindOf(r), KindOf(r) \in {"deploy", "lock"}
            PROVE  s = r
        BY <3>3, KindOfRunner DEF OneRunPerHandler
      <3> QED
        BY <1>0, <1>2, <2>2, <3>1, <3>2, <3>3, RowChange DEF AloneInv, Kinds, Row
    <2> QED
      BY <2>1, <2>2
  <1>3. ASSUME NEW r \in Runners, KindOf(r) = "resolve", runs'[r].pc \in {"send", "wait", "write"}
        PROVE  runs'[r].outcome \in Outcomes
    BY <1>0, <1>3, RunChange DEF AloneInv, UnderWay
  <1> QED
    BY <1>1, <1>2, <1>3 DEF AloneInv

\* Every resolution has its paper trail, under whatever faults, as long as a
\* handler does not run twice at once.
THEOREM ResolutionsAreOnPaper ==
    ASSUME OneRunPerHandler
    PROVE  Spec => []PaperTrail
  <1>1. SafetyInv /\ AloneInv /\ [Next]_vars => AloneInv'
    BY AloneInvStep
  <1>2. SafetyInv /\ AloneInv => PaperTrail
    BY DEF SafetyInv, AloneInv, EvidenceInv, PaperTrail
  <1> QED
    BY <1>1, <1>2, AloneInvInit, SafetyInvAlways, PTL DEF Spec

\* Every step of the services, the chain and the world is a step of the life
\* that is promised, or none.
LEMMA LifeStep ==
    ASSUME SafetyInv, AloneInv, SafetyInv', AloneInv', [Next]_vars
    PROVE  [Life!Passes \/ Life!Happens \/ Life!Shows]_
               <<Rank(chain.status), Rank(db.status), clock.chain, db.outcome>>
  <1>0. TypeInv /\ db \in Row /\ Forward /\ Rank(chain.status) \in 0..3
        /\ clock.chain \in BOOLEAN /\ clock'.chain \in BOOLEAN
    BY ForwardStep, RankType DEF SafetyInv, TypeInv
  <1>1. CASE UNCHANGED <<chain, clock>> /\ db' # db
    <2>1. CASE db.status = "NONE" /\ db' = [db EXCEPT !.status = "PENDING"]
      <3>1. UNCHANGED <<Rank(chain.status), Rank(db.status), clock.chain, db.outcome>>
        BY <1>0, <1>1, <2>1 DEF Row, Rank
      <3> QED
        BY <3>1
    <2>2. ASSUME NEW from, NEW to, <<from, to>> \in {<<"PENDING", "OPEN">>, <<"OPEN", "LOCKED">>},
                 db.status = from, db' = [db EXCEPT !.status = to]
          PROVE  Life!Shows
      <3>1. db'.status = to /\ db'.outcome = db.outcome /\ db.outcome = "NONE"
        BY <1>0, <2>2 DEF Row, SafetyInv, EvidenceInv, EvidenceIsSound, AloneInv
      <3>2. Rank(db'.status) = Rank(db.status) + 1 /\ Rank(db'.status) \in {1, 2}
        BY <2>2, <3>1 DEF Rank
      <3>3. Rank(db'.status) <= Rank(chain.status)
        BY <1>1 DEF SafetyInv, DbFollowsChain
      <3>4. Rank(db.status) \in 0..3
        BY <1>0, RankType
      <3> QED
        BY <1>0, <1>1, <3>1, <3>2, <3>3, <3>4 DEF Life!Shows, Life!None
    <2>3. ASSUME NEW o \in Outcomes, NEW tx, db.status = "LOCKED",
                 db' = [db EXCEPT !.status = "RESOLVED", !.outcome = o,
                                  !.evidence = o, !.settlementTx = tx]
          PROVE  Life!Shows
      <3>1. db'.status = "RESOLVED" /\ db'.outcome = o
        BY <1>0, <2>3 DEF Row
      <3>2. Rank(db.status) = 2 /\ Rank(db'.status) = 3
        BY <2>3, <3>1 DEF Rank
      <3>3. Rank(db'.status) <= Rank(chain.status)
        BY <1>1 DEF SafetyInv, DbFollowsChain
      <3> QED
        BY <1>0, <1>1, <3>1, <3>2, <3>3 DEF Life!Shows
    <2>4. \/ db.status = "NONE" /\ db' = [db EXCEPT !.status = "PENDING"]
          \/ db.status = "PENDING" /\ db' = [db EXCEPT !.status = "OPEN"]
          \/ db.status = "OPEN" /\ db' = [db EXCEPT !.status = "LOCKED"]
          \/ \E o \in Outcomes, tx \in 0..MaxTxs :
                /\ db.status = "LOCKED"
                /\ db' = [db EXCEPT !.status = "RESOLVED", !.outcome = o,
                                    !.evidence = o, !.settlementTx = tx]
      <3>1. \A r \in Runners : runs[r].tx \in 0..MaxTxs
        BY <1>0 DEF TypeInv, Run
      <3> QED
        BY <1>1, <3>1, RowChange
    <2>5. db.status = "PENDING" /\ db' = [db EXCEPT !.status = "OPEN"] => Life!Shows
      BY <2>2
    <2>6. db.status = "OPEN" /\ db' = [db EXCEPT !.status = "LOCKED"] => Life!Shows
      BY <2>2
    <2> QED
      BY <2>1, <2>3, <2>4, <2>5, <2>6
  <1>2. CASE db' = db /\ chain' = chain
    BY <1>0, <1>2 DEF Life!Passes, Forward
  <1>3. CASE chain' # chain
    <2>1. /\ UNCHANGED <<db, clock>>
          /\ \/ Rank(chain'.status) = Rank(chain.status)
             \/ Rank(chain'.status) = Rank(chain.status) + 1
      <3>1. CASE Mine
        <4>1. PICK i \in 1..Len(txs) :
                 /\ txs[i] \in Tx
                 /\ chain' = IF Succeeds(txs[i].kind) THEN Executed(txs[i]) ELSE chain
          BY <1>0, <3>1, MineStep
        <4>2. Succeeds(txs[i].kind) /\ chain' = Executed(txs[i])
          BY <1>3, <4>1
        <4> QED
          BY <1>0, <3>1, <4>1, <4>2, ExecutedRank DEF Mine
      <3>2. CASE OutsiderLocks
        BY <1>0, <3>2 DEF OutsiderLocks, Succeeds, Rank, TypeInv
      <3>3. Mine \/ OutsiderLocks \/ UNCHANGED chain
        BY DEF Next, vars, RunStep, CreateMarket, EnqueueDeploy, StartJob, StartPoll, Read,
           Decide, Send, SendReverts, Receipt, WriteOpen, WriteLocked, WriteResolved, Enqueue,
           RecoverJob, CallFails, Crash, CreateMarketFails, Redeliver, DeadlinePasses,
           ServicesClockAhead
      <3> QED
        BY <1>3, <3>1, <3>2, <3>3
    <2>2. Rank(chain'.status) \in 0..3 /\ (Rank(chain'.status) >= 2 => clock'.chain)
      BY DEF SafetyInv, NothingSettlesEarly, TypeInv, ChainStatus, Rank
    <2> QED
      BY <1>0, <2>1, <2>2 DEF Life!Happens
  <1> QED
    BY <1>1, <1>2, <1>3, RowChange

\* The services implement the life of a market that they promise, for every
\* fault there is, as long as a handler does not run twice at once.
THEOREM LifeIsImplemented ==
    ASSUME OneRunPerHandler
    PROVE  Spec => ImplementsMarketLife
  <1>1. SafetyInv /\ AloneInv /\ [Next]_vars => AloneInv'
    BY AloneInvStep
  <1>2. Init => Life!Init
    BY DEF Init, Life!Init, Life!None, Rank
  <1>3. SafetyInv /\ AloneInv /\ SafetyInv' /\ AloneInv' /\ [Next]_vars
           => [Life!Passes \/ Life!Happens \/ Life!Shows]_
                  <<Rank(chain.status), Rank(db.status), clock.chain, db.outcome>>
    BY LifeStep
  <1> QED
    BY <1>1, <1>2, <1>3, AloneInvInit, SafetyInvAlways, PTL
       DEF Spec, ImplementsMarketLife, Life!Spec

-----------------------------------------------------------------------------
(* Jobs and the row: a job exists only when the row has entered the stage it *)
(* serves, so a run that finds the row elsewhere finds it past that stage.   *)

Entered(k) == IF k = "deploy" THEN db.status # "NONE"
              ELSE Rank(db.status) + 1 >= Stage(k)

Passed(k) == Rank(db.status) >= Stage(k)

JobsInv ==
    /\ api = "enqueue" => Entered("deploy")
    /\ \A k \in Kinds : jobs[k].state # "none" => Entered(k)
    /\ \A k \in Kinds : jobs[k].state = "completed" => Passed(k)
    /\ \A r \in Runners : runs[r].pc = "enqueue" => KindOf(r) # "resolve" /\ Passed(KindOf(r))

\* With one run per handler the row never goes back.
LEMMA RowNeverBack ==
    ASSUME SafetyInv, AloneInv, [Next]_vars, NEW k \in Kinds
    PROVE  (Entered(k) => Entered(k)') /\ (Passed(k) => Passed(k)')
  <1>1. db \in Row
    BY DEF SafetyInv, TypeInv
  <1>2. \/ UNCHANGED db
        \/ db.status = "NONE" /\ db'.status = "PENDING"
        \/ db.status = "PENDING" /\ db'.status = "OPEN"
        \/ db.status = "OPEN" /\ db'.status = "LOCKED"
        \/ db.status = "LOCKED" /\ db'.status = "RESOLVED"
    BY <1>1, RowChange DEF Row
  <1> QED
    BY <1>1, <1>2 DEF Row, DbStatus, Entered, Passed, Rank, Stage, Kinds

\* AddJob creates a job only of its own kind, and completes none.
LEMMA AddJobStates ==
    ASSUME NEW js \in [Kinds -> Job], NEW j \in Kinds, NEW k \in Kinds
    PROVE  LET new == AddJob(js, j)
           IN  /\ new \in [Kinds -> Job]
               /\ new[k].state # "none" => js[k].state # "none" \/ k = j
               /\ new[k].state = "completed" => js[k].state = "completed"
  BY DEF AddJob, Job, JobStates

\* Completing a run completes the job that the run owns, if it owns one.
LEMMA CompleteJobStates ==
    ASSUME NEW js \in [Kinds -> Job], NEW r, NEW k \in Kinds
    PROVE  LET new == CompleteJob(js, r)
           IN  /\ new[k].state # "none" =>
                      js[k].state # "none" \/ (k = KindOf(r) /\ Owns(js, r))
               /\ new[k].state = "completed" =>
                      js[k].state = "completed" \/ (k = KindOf(r) /\ Owns(js, r))
  <1>1. CASE Owns(js, r)
    BY <1>1, KindOfType DEF CompleteJob, Job, JobStates
  <1>2. CASE ~Owns(js, r)
    BY <1>2 DEF CompleteJob
  <1> QED
    BY <1>1, <1>2

\* A failed run, or a stalled one, creates no job and completes none.
LEMMA FailJobStates ==
    ASSUME NEW js, GoodJobs(js), NEW r, NEW k \in Kinds
    PROVE  LET new == FailJob(js, r)
           IN  /\ new[k].state # "none" => js[k].state # "none"
               /\ new[k].state = "completed" => js[k].state = "completed"
  <1>1. CASE Owns(js, r)
    <2>1. js[KindOf(r)].state = "active" /\ js \in [Kinds -> Job]
      BY <1>1, OwnerIsJobRunner DEF GoodJobs
    <2> QED
      BY <1>1, <2>1, KindOfType DEF FailJob, Job
  <1>2. CASE ~Owns(js, r)
    BY <1>2 DEF FailJob
  <1> QED
    BY <1>1, <1>2

LEMMA StalledJobStates ==
    ASSUME NEW js \in [Kinds -> Job], NEW j \in Kinds, js[j].state = "active", NEW k \in Kinds
    PROVE  LET new == StalledJob(js, j)
           IN  /\ new[k].state # "none" => js[k].state # "none"
               /\ new[k].state = "completed" => js[k].state = "completed"
  BY DEF StalledJob, Job

\* What becomes of the jobs in a step of a run.
LEMMA JobsOfRun ==
    ASSUME SafetyInv, AloneInv, JobsInv, NEW r \in Runners, RunStep(r), NEW k \in Kinds
    PROVE  /\ jobs'[k].state # "none" => Entered(k)
           /\ jobs'[k].state = "completed" => Passed(k) \/ Passed(k)'
  <1>0. /\ GoodJobs(jobs) /\ jobs \in [Kinds -> Job] /\ db \in Row
        /\ jobs[k].state # "none" => Entered(k)
        /\ jobs[k].state = "completed" => Passed(k)
    BY DEF SafetyInv, TypeInv, GoodJobs, JobsInv
  <1>1. ASSUME Owns(jobs, r), k = KindOf(r)
        PROVE  Entered(k)
    BY <1>0, <1>1, OwnerIsJobRunner
  <1>2. CASE Read(r)
    <2>1. CASE db.status # HandledStatus(KindOf(r)) /\ Return(r)
      <3>1. ASSUME k = KindOf(r), Entered(k)
            PROVE  Passed(k)
        BY <1>0, <2>1, <3>1 DEF Row, DbStatus, Entered, Passed, Rank, Stage, HandledStatus, Kinds
      <3> QED
        BY <1>0, <1>1, <2>1, <3>1, CompleteJobStates DEF Return
    <2>2. CASE UNCHANGED jobs
      BY <1>0, <2>2
    <2> QED
      BY <1>2, <2>1, <2>2 DEF Read
  <1>3. CASE SendReverts(r) \/ Receipt(r)
    BY <1>0, <1>3, FailJobStates DEF SendReverts, Receipt, Throw
  <1>4. CASE WriteResolved(r)
    <2>1. CASE Throw(r)
      BY <1>0, <2>1, FailJobStates DEF Throw
    <2>2. CASE Return(r) /\ db' = [db EXCEPT !.status = "RESOLVED",
                                             !.outcome = runs[r].outcome,
                                             !.evidence = runs[r].outcome,
                                             !.settlementTx = runs[r].tx]
      <3>1. KindOf(r) = "resolve"
        BY <1>4, KindOfRunner DEF WriteResolved
      <3>2. KindOf(r) = k => Passed(k)'
        BY <1>0, <2>2, <3>1 DEF Row, Passed, Rank, Stage
      <3> QED
        BY <1>0, <1>1, <2>2, <3>2, CompleteJobStates DEF Return
    <2> QED
      BY <1>4, <2>1, <2>2 DEF WriteResolved
  <1>5. CASE Enqueue(r)
    <2> DEFINE next == IF r \in DeployRunners THEN "lock" ELSE "resolve"
               added == AddJob(jobs, next)
    <2>1. KindOf(r) # "resolve" /\ Passed(KindOf(r)) /\ jobs' = CompleteJob(added, r)
      BY <1>5 DEF Enqueue, JobsInv
    <2>2. next \in Kinds /\ Entered(next)
      BY <1>0, <2>1, KindOfRunner, KindOfType DEF Kinds, Entered, Passed, Stage, Rank, Row, DbStatus
    <2>3. KindOf(r) = k => Entered(k) /\ Passed(k)
      BY <1>0, <2>1 DEF Entered, Passed, Stage, Rank, Row, DbStatus
    <2> HIDE DEF next
    <2>4. /\ added \in [Kinds -> Job]
          /\ added[k].state # "none" => jobs[k].state # "none" \/ k = next
          /\ added[k].state = "completed" => jobs[k].state = "completed"
      BY <1>0, <2>2, AddJobStates
    <2> HIDE DEF added
    <2> QED
      BY <1>0, <2>1, <2>2, <2>3, <2>4, CompleteJobStates
  <1>6. CASE UNCHANGED jobs
    BY <1>0, <1>6
  <1> QED
    BY <1>2, <1>3, <1>4, <1>5, <1>6 DEF RunStep, Decide, Send, WriteOpen, WriteLocked

LEMMA JobsInvStep ==
    ASSUME SafetyInv, AloneInv, JobsInv, [Next]_vars
    PROVE  JobsInv'
  <1>0. /\ TypeInv /\ GoodJobs(jobs) /\ jobs \in [Kinds -> Job] /\ db \in Row
        /\ runs \in [Runners -> Run] /\ Idle.pc = "idle"
    BY DEF SafetyInv, TypeInv, GoodJobs, Idle
  <1>1. ASSUME NEW k \in Kinds
        PROVE  /\ jobs'[k].state # "none" => Entered(k)
               /\ jobs'[k].state = "completed" => Passed(k) \/ Passed(k)'
    <2>0. /\ jobs[k].state # "none" => Entered(k)
          /\ jobs[k].state = "completed" => Passed(k)
      BY DEF JobsInv
    <2>1. CASE EnqueueDeploy
      <3>1. Entered("deploy") /\ jobs' = AddJob(jobs, "deploy") /\ "deploy" \in Kinds
        BY <2>1 DEF EnqueueDeploy, JobsInv, Kinds
      <3> QED
        BY <1>0, <2>0, <3>1, AddJobStates
    <2>2. ASSUME NEW r \in Runners, StartJob(r)
          PROVE  /\ jobs'[k].state # "none" => jobs[k].state # "none"
                 /\ jobs'[k].state = "completed" => jobs[k].state = "completed"
      BY <1>0, <2>2, KindOfType DEF StartJob, Job
    <2>3. ASSUME NEW r \in Runners, RunStep(r)
          PROVE  /\ jobs'[k].state # "none" => Entered(k)
                 /\ jobs'[k].state = "completed" => Passed(k) \/ Passed(k)'
      BY <2>3, JobsOfRun
    <2>4. ASSUME NEW r \in Runners, CallFails(r)
          PROVE  /\ jobs'[k].state # "none" => jobs[k].state # "none"
                 /\ jobs'[k].state = "completed" => jobs[k].state = "completed"
      BY <1>0, <2>4, FailJobStates DEF CallFails, Throw
    <2>5. ASSUME NEW j \in Kinds, RecoverJob(j) \/ Redeliver(j)
          PROVE  /\ jobs'[k].state # "none" => jobs[k].state # "none"
                 /\ jobs'[k].state = "completed" => jobs[k].state = "completed"
      BY <1>0, <2>5, StalledJobStates DEF RecoverJob, Redeliver
    <2>6. CASE UNCHANGED jobs
      BY <2>0, <2>6
    <2>7. \/ EnqueueDeploy \/ UNCHANGED jobs
          \/ \E r \in Runners : StartJob(r) \/ RunStep(r) \/ CallFails(r)
          \/ \E j \in Kinds : RecoverJob(j) \/ Redeliver(j)
      BY DEF Next, vars, CreateMarket, StartPoll, Mine, DeadlinePasses, Crash,
             CreateMarketFails, ServicesClockAhead, OutsiderLocks
    <2> QED
      BY <2>0, <2>1, <2>2, <2>3, <2>4, <2>5, <2>6, <2>7
  <1>2. ASSUME api' = "enqueue"
        PROVE  Entered("deploy")'
    <2>1. CASE CreateMarket
      BY <1>0, <2>1 DEF CreateMarket, Entered, Row
    <2>2. CASE api = "enqueue"
      BY <2>2, RowNeverBack DEF JobsInv, Kinds
    <2>3. CreateMarket \/ api = "enqueue"
      BY <1>2 DEF Next, vars, RunStep, EnqueueDeploy, StartJob, StartPoll, Read, Decide, Send,
             SendReverts, Receipt, WriteOpen, WriteLocked, WriteResolved, Enqueue, RecoverJob,
             Mine, CallFails, Crash, CreateMarketFails, Redeliver, DeadlinePasses,
             ServicesClockAhead, OutsiderLocks
    <2> QED
      BY <2>1, <2>2, <2>3
  <1>3. ASSUME NEW r \in Runners, runs'[r].pc = "enqueue"
        PROVE  KindOf(r) # "resolve" /\ Passed(KindOf(r))'
    <2>1. CASE runs[r].pc = "enqueue"
      BY <2>1, RowNeverBack, KindOfType DEF JobsInv
    <2>2. CASE WriteOpen(r) \/ WriteLocked(r)
      BY <1>0, <2>2, KindOfRunner DEF WriteOpen, WriteLocked, Row, Passed, Rank, Stage
    <2>3. runs[r].pc = "enqueue" \/ WriteOpen(r) \/ WriteLocked(r)
      <3>1. ASSUME NEW s \in Runners, RunStep(s)
            PROVE  runs[r].pc = "enqueue" \/ WriteOpen(r) \/ WriteLocked(r)
        <4>1. CASE Decide(s) \/ Send(s)
          BY <1>0, <1>3, <4>1 DEF Decide, Send, Run
        <4>2. CASE Read(s) \/ Receipt(s)
          BY <1>0, <1>3, <4>2 DEF Read, Receipt, Goto, Return, Throw, Run
        <4>3. CASE SendReverts(s) \/ WriteResolved(s) \/ Enqueue(s)
          BY <1>0, <1>3, <4>3 DEF SendReverts, WriteResolved, Enqueue, Return, Throw, Run
        <4>4. CASE WriteOpen(s) \/ WriteLocked(s)
          <5>1. runs' = [runs EXCEPT ![s].pc = "enqueue"]
            BY <4>4 DEF WriteOpen, WriteLocked, Goto
          <5>2. s # r => runs[r].pc = "enqueue"
            BY <1>0, <1>3, <5>1
          <5> QED
            BY <4>4, <5>2
        <4> QED
          BY <3>1, <4>1, <4>2, <4>3, <4>4, Zenon DEF RunStep
      <3>2. ASSUME NEW s \in Runners, StartJob(s) \/ StartPoll(s) \/ CallFails(s)
            PROVE  runs[r].pc = "enqueue"
        BY <1>0, <1>3, <3>2 DEF StartJob, StartPoll, CallFails, Goto, Throw, Run
      <3>3. ASSUME NEW service, Crash(service)
            PROVE  runs[r].pc = "enqueue"
        BY <1>0, <1>3, <3>3 DEF Crash
      <3>4. CASE UNCHANGED runs
        BY <1>3, <3>4
      <3>5. \/ \E s \in Runners : RunStep(s)
            \/ \E s \in Runners : StartJob(s) \/ StartPoll(s) \/ CallFails(s)
            \/ \E service \in {MarketService, ResolutionService} : Crash(service)
            \/ UNCHANGED runs
        BY DEF Next, vars, CreateMarket, EnqueueDeploy, Mine, DeadlinePasses, RecoverJob,
               CreateMarketFails, Redeliver, ServicesClockAhead, OutsiderLocks
      <3> QED
        BY <3>1, <3>2, <3>3, <3>4, <3>5
    <2> QED
      BY <2>1, <2>2, <2>3
  <1> QED
    BY <1>1, <1>2, <1>3, RowNeverBack DEF JobsInv

LEMMA JobsInvInit == Init => JobsInv
  BY DEF Init, JobsInv, NoJob, Idle

\* A completed job has brought its market past its stage, also where the run
\* that completed it skipped because another run had done the work, as long as
\* a handler does not run twice at once.
THEOREM CompletedJobsAreDone ==
    ASSUME OneRunPerHandler
    PROVE  Spec => []CompletedJobsDidTheirWork
  <1>1. SafetyInv /\ AloneInv /\ [Next]_vars => AloneInv'
    BY AloneInvStep
  <1>2. SafetyInv /\ AloneInv /\ JobsInv /\ [Next]_vars => JobsInv'
    BY JobsInvStep
  <1>3. JobsInv => CompletedJobsDidTheirWork
    BY DEF JobsInv, CompletedJobsDidTheirWork, Passed, Stage, Kinds
  <1> QED
    BY <1>1, <1>2, <1>3, AloneInvInit, JobsInvInit, SafetyInvAlways, PTL DEF Spec

-----------------------------------------------------------------------------
(* The hand-over from job to job.  A job that was never interrupted finds    *)
(* the row where it belongs, for only its own run takes the row further: so  *)
(* it cannot skip, and completes by leaving the next job behind.             *)

Handing == {"deploy", "lock"}
Successor(k) == IF k = "deploy" THEN "lock" ELSE "resolve"
Fresh(js, k) == js[k].attempts = 0 /\ js[k].stalls = 0

ChainInv ==
    /\ db.status # "NONE" /\ api = "idle" /\ jobs["deploy"].state = "none" => faults > 0
    /\ \A k \in Handing :
          /\ Fresh(jobs, k) /\ jobs[k].state \in {"none", "waiting"} => ~Passed(k)
          /\ Fresh(jobs, k) /\ jobs[k].state = "completed" => jobs[Successor(k)].state # "none"
    /\ \A r \in MarketService : Fresh(jobs, KindOf(r)) =>
          /\ runs[r].pc # "idle" => Owns(jobs, r)
          /\ runs[r].pc = "read" => ~Passed(KindOf(r))

LEMMA HandingRunners ==
    ASSUME NEW r \in Runners
    PROVE  r \in MarketService <=> KindOf(r) \in Handing
  BY ConstantsAssumption DEF KindOf, MarketService, ResolutionService, Runners, JobRunners, Handing

\* What the operations of BullMQ do to job k.
LEMMA FailedOrSame ==
    ASSUME NEW js, GoodJobs(js), NEW r, NEW k \in Kinds
    PROVE  LET new == FailJob(js, r)
           IN  /\ new[k] = js[k] \/ ~Fresh(new, k)
               /\ js[k].state # "none" => new[k].state # "none"
  <1>1. CASE Owns(js, r)
    <2> DEFINE made == js[KindOf(r)].attempts + 1
    <2>1. js \in [Kinds -> Job] /\ KindOf(r) \in Kinds /\ js[KindOf(r)].attempts \in Nat
      BY KindOfType, ConstantsAssumption DEF GoodJobs, Job
    <2>2. made # 0
      BY <2>1
    <2> HIDE DEF made
    <2>3. FailJob(js, r) = [js EXCEPT ![KindOf(r)].attempts = made,
                                      ![KindOf(r)].state = IF made >= ATTEMPTS THEN "failed" ELSE "waiting",
                                      ![KindOf(r)].owner = NoRunner]
      BY <1>1 DEF FailJob, made
    <2> QED
      BY <2>1, <2>2, <2>3 DEF Fresh, Job
  <1>2. CASE ~Owns(js, r)
    BY <1>2 DEF FailJob
  <1> QED
    BY <1>1, <1>2

LEMMA StalledOrSame ==
    ASSUME NEW js, GoodJobs(js), NEW j \in Kinds, NEW k \in Kinds
    PROVE  LET new == StalledJob(js, j)
           IN  /\ new[k] = js[k] \/ ~Fresh(new, k)
               /\ js[k].state # "none" => new[k].state # "none"
  <1> DEFINE count == js[j].stalls + 1
  <1>1. js \in [Kinds -> Job] /\ js[j].stalls \in Nat
    BY ConstantsAssumption DEF GoodJobs, Job
  <1>2. count # 0
    BY <1>1
  <1> HIDE DEF count
  <1>3. StalledJob(js, j) = [js EXCEPT ![j].stalls = count,
                                       ![j].state = IF count > MAX_STALLED THEN "failed" ELSE "waiting",
                                       ![j].owner = NoRunner]
    BY DEF StalledJob, count
  <1> QED
    BY <1>1, <1>2, <1>3 DEF Fresh, Job

LEMMA CompletedOrSame ==
    ASSUME NEW js \in [Kinds -> Job], NEW r, NEW k \in Kinds
    PROVE  LET new == CompleteJob(js, r)
           IN  \/ new[k] = js[k]
               \/ /\ k = KindOf(r) /\ Owns(js, r)
                  /\ new[k].state = "completed"
                  /\ Fresh(new, k) => Fresh(js, k)
  BY KindOfType DEF CompleteJob, Job, Fresh

LEMMA AddedOrSame ==
    ASSUME NEW js \in [Kinds -> Job], NEW j \in Kinds, NEW k \in Kinds
    PROVE  LET new == AddJob(js, j)
           IN  /\ \/ new[k] = js[k]
                  \/ /\ js[k].state = "none" /\ new[k].state = "waiting"
                     /\ Fresh(new, k) => Fresh(js, k)
               /\ new[k].owner = js[k].owner
               /\ new[j].state # "none"
  BY DEF AddJob, Job, Fresh

\* What any step does to job k.
LEMMA JobMoves ==
    ASSUME SafetyInv, [Next]_vars, NEW k \in Kinds
    PROVE  /\ jobs[k].state # "none" => jobs'[k].state # "none"
           /\ \/ jobs'[k] = jobs[k]
              \/ ~Fresh(jobs', k)
              \/ /\ jobs[k].state = "none" /\ jobs'[k].state = "waiting"
                 /\ Fresh(jobs', k) => Fresh(jobs, k)
              \/ \E r \in Runners : StartJob(r) /\ KindOf(r) = k
              \/ \E r \in Runners :
                    /\ KindOf(r) = k /\ Owns(jobs, r) /\ runs'[r].pc = "idle"
                    /\ jobs'[k].state = "completed"
                    /\ Fresh(jobs', k) => Fresh(jobs, k)
                    /\ k \in Handing => \/ runs[r].pc = "read" /\ db.status # HandledStatus(k)
                                       \/ jobs'[Successor(k)].state # "none"
  <1>0. /\ GoodJobs(jobs) /\ jobs \in [Kinds -> Job]
        /\ runs \in [Runners -> Run] /\ Idle.pc = "idle"
    BY DEF SafetyInv, TypeInv, GoodJobs, Idle
  <1>1. CASE EnqueueDeploy
    <2>1. jobs' = AddJob(jobs, "deploy") /\ "deploy" \in Kinds
      BY <1>1 DEF EnqueueDeploy, Kinds
    <2> QED
      BY <1>0, <2>1, AddedOrSame
  <1>2. ASSUME NEW r \in Runners, StartJob(r)
        PROVE  \/ jobs'[k] = jobs[k]
               \/ KindOf(r) = k /\ jobs'[k].state = "active"
    BY <1>0, <1>2, KindOfType DEF StartJob, Job
  <1>3. ASSUME NEW r \in Runners, Throw(r)
        PROVE  /\ jobs'[k] = jobs[k] \/ ~Fresh(jobs', k)
               /\ jobs[k].state # "none" => jobs'[k].state # "none"
    BY <1>0, <1>3, FailedOrSame DEF Throw
  <1>4. ASSUME NEW r \in Runners, Return(r)
        PROVE  \/ jobs'[k] = jobs[k]
               \/ /\ KindOf(r) = k /\ Owns(jobs, r) /\ runs'[r].pc = "idle"
                  /\ jobs'[k].state = "completed"
                  /\ Fresh(jobs', k) => Fresh(jobs, k)
    BY <1>0, <1>4, CompletedOrSame DEF Return
  <1>5. ASSUME NEW j \in Kinds, RecoverJob(j) \/ Redeliver(j)
        PROVE  /\ jobs'[k] = jobs[k] \/ ~Fresh(jobs', k)
               /\ jobs[k].state # "none" => jobs'[k].state # "none"
    BY <1>0, <1>5, StalledOrSame DEF RecoverJob, Redeliver
  <1>6. ASSUME NEW r \in Runners, Read(r)
        PROVE  \/ jobs'[k] = jobs[k]
               \/ /\ KindOf(r) = k /\ Owns(jobs, r) /\ runs'[r].pc = "idle"
                  /\ jobs'[k].state = "completed"
                  /\ Fresh(jobs', k) => Fresh(jobs, k)
                  /\ runs[r].pc = "read" /\ db.status # HandledStatus(k)
    BY <1>6, <1>4 DEF Read
  <1>7. ASSUME NEW r \in Runners, WriteResolved(r)
        PROVE  /\ jobs[k].state # "none" => jobs'[k].state # "none"
               /\ \/ jobs'[k] = jobs[k] \/ ~Fresh(jobs', k)
                  \/ /\ KindOf(r) = k /\ Owns(jobs, r) /\ runs'[r].pc = "idle"
                     /\ jobs'[k].state = "completed"
                     /\ Fresh(jobs', k) => Fresh(jobs, k)
                     /\ k \notin Handing
    BY <1>7, <1>3, <1>4, KindOfRunner DEF WriteResolved, Handing
  <1>8. ASSUME NEW r \in Runners, Enqueue(r)
        PROVE  /\ jobs[k].state # "none" => jobs'[k].state # "none"
               /\ \/ jobs'[k] = jobs[k]
                  \/ /\ jobs[k].state = "none" /\ jobs'[k].state = "waiting"
                     /\ Fresh(jobs', k) => Fresh(jobs, k)
                  \/ /\ KindOf(r) = k /\ Owns(jobs, r) /\ runs'[r].pc = "idle"
                     /\ jobs'[k].state = "completed"
                     /\ Fresh(jobs', k) => Fresh(jobs, k)
                     /\ k \in Handing => jobs'[Successor(k)].state # "none"
    <2> DEFINE next == IF r \in DeployRunners THEN "lock" ELSE "resolve"
               added == AddJob(jobs, next)
    <2>1. /\ jobs' = CompleteJob(added, r) /\ runs'[r].pc = "idle"
          /\ next \in Kinds
      BY <1>0, <1>8 DEF Enqueue, Kinds
    <2>2. k = KindOf(r) /\ k \in Handing => next = Successor(k) /\ next # k
      BY KindOfRunner DEF Successor, Handing
    <2> HIDE DEF next
    <2>3. /\ added \in [Kinds -> Job]
          /\ \/ added[k] = jobs[k]
             \/ /\ jobs[k].state = "none" /\ added[k].state = "waiting"
                /\ Fresh(added, k) => Fresh(jobs, k)
          /\ added[next].state # "none"
      BY <1>0, <2>1, AddedOrSame, AddJobStates
    <2>4. Owns(added, r) => Owns(jobs, r)
      <3>1. added[KindOf(r)].owner = jobs[KindOf(r)].owner
        BY <1>0, <2>1, KindOfType, AddedOrSame
      <3> QED
        BY <3>1 DEF Owns
    <2> HIDE DEF added
    <2>5. \/ jobs'[k] = added[k]
          \/ /\ k = KindOf(r) /\ Owns(added, r)
             /\ jobs'[k].state = "completed"
             /\ Fresh(jobs', k) => Fresh(added, k)
      BY <2>1, <2>3, CompletedOrSame
    <2>6. jobs'[next].state # "none"
      BY <2>1, <2>3, CompletedOrSame
    <2>7. Fresh(added, k) => Fresh(jobs, k)
      BY <2>3 DEF Fresh
    <2>8. jobs'[k] = added[k] => (Fresh(jobs', k) => Fresh(added, k))
      BY DEF Fresh
    <2> QED
      BY <2>1, <2>2, <2>3, <2>4, <2>5, <2>6, <2>7, <2>8
  <1>9. ASSUME NEW r \in Runners, RunStep(r), ~Read(r), ~WriteResolved(r), ~Enqueue(r)
        PROVE  UNCHANGED jobs \/ Throw(r)
    BY <1>9 DEF RunStep, Decide, Send, SendReverts, Receipt, WriteOpen, WriteLocked
  <1>10. \/ EnqueueDeploy \/ UNCHANGED jobs
         \/ \E r \in Runners : StartJob(r) \/ RunStep(r) \/ Throw(r)
         \/ \E j \in Kinds : RecoverJob(j) \/ Redeliver(j)
    BY DEF Next, vars, CreateMarket, StartPoll, Mine, DeadlinePasses, Crash, CallFails,
           CreateMarketFails, ServicesClockAhead, OutsiderLocks
  <1> QED
    BY <1>1, <1>2, <1>3, <1>5, <1>6, <1>7, <1>8, <1>9, <1>10

\* What any step does to a run of the deploy or lock handler.
LEMMA HandlerMoves ==
    ASSUME SafetyInv, [Next]_vars, NEW r \in MarketService, runs'[r].pc # "idle"
    PROVE  \/ StartJob(r)
           \/ runs[r].pc # "idle" /\ (runs'[r].pc = "read" => runs[r].pc = "read")
  <1>0. /\ runs \in [Runners -> Run] /\ Idle.pc = "idle" /\ r \in Runners
        /\ r \notin PollRunners
    BY ConstantsAssumption DEF SafetyInv, TypeInv, Idle, Runners, JobRunners, MarketService,
       ResolutionService
  <1>1. ASSUME NEW s \in Runners, s # r, StartJob(s) \/ StartPoll(s) \/ RunStep(s) \/ CallFails(s)
        PROVE  runs'[r] = runs[r]
    BY <1>0, <1>1 DEF StartJob, StartPoll, RunStep, CallFails, Read, Decide, Send, SendReverts,
       Receipt, WriteOpen, WriteLocked, WriteResolved, Enqueue, Goto, Return, Throw
  <1>2. CASE RunStep(r)
    BY <1>0, <1>2 DEF RunStep, Read, Decide, Send, SendReverts,
       Receipt, WriteOpen, WriteLocked, WriteResolved, Enqueue, Goto, Return, Throw, Run
  <1>3. ~CallFails(r)
    BY <1>0 DEF CallFails, Throw
  <1>4. ASSUME NEW service, Crash(service)
        PROVE  runs'[r] = runs[r]
    BY <1>0, <1>4 DEF Crash
  <1>5. ~StartPoll(r)
    BY <1>0 DEF StartPoll
  <1>6. \/ \E s \in Runners : StartJob(s) \/ StartPoll(s) \/ RunStep(s) \/ CallFails(s)
        \/ \E service \in {MarketService, ResolutionService} : Crash(service)
        \/ UNCHANGED runs
    BY DEF Next, vars, CreateMarket, EnqueueDeploy, Mine, DeadlinePasses, RecoverJob,
           CreateMarketFails, Redeliver, ServicesClockAhead, OutsiderLocks
  <1>7. CASE runs'[r] = runs[r]
    BY <1>7
  <1> QED
    BY <1>0, <1>1, <1>2, <1>3, <1>4, <1>5, <1>6, <1>7

\* Only a handler's own run, when it has read the row, takes the row past its
\* stage.
LEMMA PassedByOwnRun ==
    ASSUME SafetyInv, AloneInv, [Next]_vars, NEW k \in Handing, ~Passed(k), Passed(k)'
    PROVE  \E r \in Runners : KindOf(r) = k /\ UnderWay(r)
  <1>1. db \in Row
    BY DEF SafetyInv, TypeInv
  <1>2. \/ UNCHANGED db
        \/ db.status = "NONE" /\ db'.status = "PENDING"
        \/ db.status = "PENDING" /\ db'.status = "OPEN"
           /\ \E r \in Runners : KindOf(r) = "deploy" /\ UnderWay(r)
        \/ db.status = "OPEN" /\ db'.status = "LOCKED"
           /\ \E r \in Runners : KindOf(r) = "lock" /\ UnderWay(r)
        \/ db.status = "LOCKED" /\ db'.status = "RESOLVED"
    BY <1>1, RowChange DEF Row
  <1> QED
    BY <1>1, <1>2 DEF Row, DbStatus, Passed, Rank, Stage, Handing

LEMMA OneHandler ==
    ASSUME OneRunPerHandler, NEW r \in Runners, NEW s \in Runners,
           KindOf(r) \in Handing, KindOf(s) = KindOf(r)
    PROVE  r = s
  BY DEF OneRunPerHandler, KindOf, Handing

LEMMA ChainInvStep ==
    ASSUME OneRunPerHandler, SafetyInv, AloneInv, JobsInv, ChainInv, [Next]_vars
    PROVE  ChainInv'
  <1>0. /\ GoodJobs(jobs) /\ jobs \in [Kinds -> Job] /\ db \in Row
        /\ faults \in Nat /\ Handing \subseteq Kinds
    BY ConstantsAssumption DEF SafetyInv, TypeInv, GoodJobs, Handing, Kinds
  <1>1. ASSUME NEW k \in Handing, NEW r \in Runners, KindOf(r) = k, Owns(jobs, r)
        PROVE  jobs[k].state = "active"
    BY <1>0, <1>1, OwnerIsJobRunner
  <1>2. ASSUME NEW k \in Handing, Fresh(jobs, k), ~Passed(k), Passed(k)'
        PROVE  \E r \in Runners : /\ KindOf(r) = k /\ UnderWay(r)
                                  /\ jobs[k].state = "active"
    <2>1. PICK r \in Runners : KindOf(r) = k /\ UnderWay(r)
      BY <1>2, PassedByOwnRun
    <2>2. r \in MarketService /\ runs[r].pc # "idle"
      BY <2>1, HandingRunners DEF UnderWay
    <2>3. Owns(jobs, r)
      BY <1>2, <2>1, <2>2 DEF ChainInv
    <2> QED
      BY <1>1, <2>1, <2>3
  <1>3. ASSUME NEW k \in Handing, Fresh(jobs', k), jobs'[k].state \in {"none", "waiting"}
        PROVE  ~Passed(k)'
    <2>1. /\ Fresh(jobs, k)
          /\ jobs[k].state \in {"none", "waiting"}
      <3>1. ASSUME NEW r \in Runners, StartJob(r), KindOf(r) = k
            PROVE  FALSE
        BY <1>0, <1>3, <3>1 DEF StartJob, Job
      <3>2. \/ jobs'[k] = jobs[k]
            \/ jobs[k].state = "none" /\ (Fresh(jobs', k) => Fresh(jobs, k))
        BY <1>0, <1>3, <3>1, JobMoves
      <3> QED
        BY <1>3, <3>2 DEF Fresh
    <2>2. ~Passed(k)
      BY <2>1 DEF ChainInv
    <2> QED
      BY <1>2, <2>1, <2>2
  <1>4. ASSUME NEW k \in Handing, Fresh(jobs', k), jobs'[k].state = "completed"
        PROVE  jobs'[Successor(k)].state # "none"
    <2>1. CASE jobs'[k] = jobs[k]
      <3>1. Fresh(jobs, k) /\ jobs[k].state = "completed"
        BY <1>4, <2>1 DEF Fresh
      <3>2. jobs[Successor(k)].state # "none" /\ Successor(k) \in Kinds
        BY <3>1 DEF ChainInv, Successor, Kinds
      <3> QED
        BY <3>2, JobMoves
    <2>2. ASSUME NEW r \in Runners, StartJob(r), KindOf(r) = k
          PROVE  FALSE
      BY <1>0, <1>4, <2>2 DEF StartJob, Job
    <2>3. ASSUME NEW r \in Runners, KindOf(r) = k, Owns(jobs, r), Fresh(jobs, k),
                 runs[r].pc = "read", db.status # HandledStatus(k)
          PROVE  FALSE
      <3>1. jobs[k].state = "active" /\ Entered(k)
        BY <1>0, <1>1, <2>3 DEF JobsInv
      <3>2. ~Passed(k)
        BY <2>3, HandingRunners DEF ChainInv
      <3> QED
        BY <1>0, <2>3, <3>1, <3>2
           DEF Row, DbStatus, Entered, Passed, Rank, Stage, HandledStatus, Handing
    <2> QED
      BY <1>0, <1>4, <2>1, <2>2, <2>3, JobMoves
  <1>5. ASSUME NEW r \in MarketService, Fresh(jobs', KindOf(r)), runs'[r].pc # "idle"
        PROVE  Owns(jobs, r)' /\ (runs'[r].pc = "read" => ~Passed(KindOf(r))')
    <2> DEFINE k == KindOf(r)
    <2>1. r \in Runners /\ r \in JobRunners /\ k \in Handing
      BY HandingRunners DEF Runners, JobRunners
    <2>2. CASE StartJob(r)
      <3>1. /\ jobs[k].state = "waiting" /\ UNCHANGED db
            /\ jobs'[k].owner = r /\ Fresh(jobs, k)
        BY <1>0, <1>5, <2>1, <2>2 DEF StartJob, Fresh, Job
      <3>2. ~Passed(k)
        BY <2>1, <3>1 DEF ChainInv
      <3> QED
        BY <2>1, <3>1, <3>2 DEF Owns, Passed
    <2>3. CASE runs[r].pc # "idle" /\ (runs'[r].pc = "read" => runs[r].pc = "read")
      <3>1. ASSUME Fresh(jobs, k)
            PROVE  /\ Owns(jobs, r) /\ jobs[k].state = "active"
                   /\ runs[r].pc = "read" => ~Passed(k)
        BY <1>1, <2>1, <2>3, <3>1 DEF ChainInv
      <3>2. ASSUME NEW s \in Runners, StartJob(s), KindOf(s) = k
            PROVE  Fresh(jobs, k) /\ jobs[k].state = "waiting"
        BY <1>0, <1>5, <2>1, <3>2 DEF StartJob, Fresh, Job
      <3>3. ASSUME NEW s \in Runners, KindOf(s) = k, runs'[s].pc = "idle"
            PROVE  FALSE
        BY <1>5, <2>1, <3>3, OneHandler
      <3>4. jobs'[k] = jobs[k]
        <4>1. jobs[k].state = "none" /\ (Fresh(jobs', k) => Fresh(jobs, k)) => FALSE
          BY <1>5, <3>1
        <4> HIDE DEF k
        <4> QED
          BY <1>0, <1>5, <2>1, <3>1, <3>2, <3>3, <4>1, JobMoves DEF k
      <3>5. Fresh(jobs, k)
        BY <1>5, <3>4 DEF Fresh
      <3>6. runs'[r].pc = "read" => ~Passed(k)'
        <4> SUFFICES ASSUME runs'[r].pc = "read", Passed(k)' PROVE FALSE
          OBVIOUS
        <4>1. runs[r].pc = "read" /\ ~Passed(k)
          BY <2>3, <3>1, <3>5
        <4>2. PICK s \in Runners : KindOf(s) = k /\ UnderWay(s)
          BY <1>2, <2>1, <3>5, <4>1
        <4>3. s = r
          BY <2>1, <4>2, OneHandler
        <4> QED
          BY <4>1, <4>2, <4>3 DEF UnderWay
      <3> QED
        BY <3>1, <3>4, <3>5, <3>6 DEF Owns
    <2> QED
      BY <1>5, <2>2, <2>3, HandlerMoves
  <1>6. ASSUME db'.status # "NONE", api' = "idle", jobs'["deploy"].state = "none"
        PROVE  faults' > 0
    <2>1. jobs["deploy"].state = "none" /\ ~EnqueueDeploy
      <3>1. "deploy" \in Kinds
        BY DEF Kinds
      <3>2. ~EnqueueDeploy
        BY <1>0, <1>6, <3>1, AddedOrSame DEF EnqueueDeploy
      <3> QED
        BY <1>6, <3>1, <3>2, JobMoves
    <2>2. ~CreateMarket
      BY <1>6 DEF CreateMarket
    <2>3. CASE CreateMarketFails
      BY <1>0, <2>3 DEF CreateMarketFails, Fault
    <2>4. CASE ~CreateMarketFails
      <3>1. api = "idle"
        BY <1>6, <2>1, <2>4 DEF Next, vars, RunStep, CreateMarket, StartJob, StartPoll, Read,
           Decide, Send, SendReverts, Receipt, WriteOpen, WriteLocked, WriteResolved, Enqueue,
           RecoverJob, Mine, CallFails, Crash, Redeliver, DeadlinePasses, ServicesClockAhead,
           OutsiderLocks
      <3>2. UNCHANGED db \/ db'.status \in {"OPEN", "LOCKED", "RESOLVED"}
        BY <1>0, <2>1, <2>2, <2>4 DEF Next, vars, RunStep, StartJob, StartPoll, Read, Row,
           Decide, Send, SendReverts, Receipt, WriteOpen, WriteLocked, WriteResolved, Enqueue,
           RecoverJob, Mine, CallFails, Crash, Redeliver, DeadlinePasses, ServicesClockAhead,
           OutsiderLocks
      <3>3. db.status # "NONE"
        BY <1>0, <1>6, <3>2, RowChange DEF Row
      <3>4. UNCHANGED faults \/ \E f : Fault(f)
        BY <2>1, <2>2, <2>4 DEF Next, vars, RunStep, StartJob, StartPoll, Read,
           Decide, Send, SendReverts, Receipt, WriteOpen, WriteLocked, WriteResolved, Enqueue,
           RecoverJob, Mine, CallFails, Crash, Redeliver, DeadlinePasses, ServicesClockAhead,
           OutsiderLocks
      <3>5. faults' = faults \/ faults' = faults + 1
        BY <3>4 DEF Fault
      <3> QED
        BY <1>0, <2>1, <3>1, <3>3, <3>5 DEF ChainInv
    <2> QED
      BY <2>3, <2>4
  <1> QED
    BY <1>3, <1>4, <1>5, <1>6 DEF ChainInv, Fresh

LEMMA ChainInvInit == Init => ChainInv
  <1> SUFFICES ASSUME Init PROVE ChainInv
    OBVIOUS
  <1>1. db.status = "NONE" /\ Handing \subseteq Kinds
    BY DEF Init, Handing, Kinds
  <1>2. \A k \in Handing : ~Passed(k)
    BY <1>1 DEF Passed, Rank, Stage, Handing
  <1>3. \A k \in Kinds : jobs[k].state = "none"
    BY DEF Init, NoJob
  <1>4. \A r \in MarketService : runs[r].pc = "idle"
    BY DEF Init, Idle, Runners, JobRunners
  <1> QED
    BY <1>1, <1>2, <1>3, <1>4 DEF ChainInv

\* Nobody but an interruption breaks the chain of jobs: a handler whose job was
\* never failed or redelivered leaves the next job behind, as long as a handler
\* does not run twice at once.
THEOREM JobsAreHandedOver ==
    ASSUME OneRunPerHandler
    PROVE  Spec => []HandOversAreMade
  <1>1. SafetyInv /\ AloneInv /\ [Next]_vars => AloneInv'
    BY AloneInvStep
  <1>2. SafetyInv /\ AloneInv /\ JobsInv /\ [Next]_vars => JobsInv'
    BY JobsInvStep
  <1>3. SafetyInv /\ AloneInv /\ JobsInv /\ ChainInv /\ [Next]_vars => ChainInv'
    BY ChainInvStep
  <1>4. ChainInv => HandOversAreMade
    BY DEF ChainInv, HandOversAreMade, Handing, Successor, Fresh
  <1> QED
    BY <1>1, <1>2, <1>3, <1>4, AloneInvInit, JobsInvInit, ChainInvInit, SafetyInvAlways,
       PTL DEF Spec

=============================================================================
