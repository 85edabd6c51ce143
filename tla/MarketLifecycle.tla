----------------------------- MODULE MarketLifecycle -----------------------------
(*****************************************************************************)
(* The life of one market across the services: its row in PostgreSQL, its    *)
(* three BullMQ jobs, the transactions the services send, and its contract.  *)
(*                                                                           *)
(* createMarket (market.service.ts) writes the row and enqueues the          *)
(* deployment; the deploy and lock workers (market.worker.ts), the resolve   *)
(* worker (resolution-service/src/index.ts) and the polls of the             *)
(* DeadlineMonitor move it on.  A runner is one activation of a handler;     *)
(* every await of the handlers that other parties can observe or disturb is  *)
(* a step of its own, named by pc:                                           *)
(*                                                                           *)
(*   read -> [decide ->] send -> wait -> write -> [enqueue ->] idle          *)
(*                                                                           *)
(* What may go wrong is chosen by Faults and bounded by MaxFaults:           *)
(*   rpc       the node refuses a transaction before accepting it            *)
(*   receipt   waiting for a receipt throws while the transaction lives on   *)
(*   db        a database or Redis call throws                               *)
(*   crash     a service dies and is restarted                               *)
(*   stall     BullMQ redelivers a job whose first run is still going        *)
(*   skew      the services' clock reaches the deadline before the chain's   *)
(*   short     the deadline may pass before the contract is deployed         *)
(*   outsider  somebody else calls lock(), which is open to anyone           *)
(*****************************************************************************)
EXTENDS Naturals, Sequences, FiniteSets

CONSTANTS
    DeployRunners, LockRunners, ResolveRunners,  \* activations of job handlers
    PollRunners,        \* overlapping polls of the DeadlineMonitor
    NoRunner,
    Sources,            \* resolution sources the parser may choose
    Answers,            \* outcomes oracle and agent may come to
    Faults,
    MaxFaults,
    MaxTxs,             \* bound: transactions ever sent for the market
    ATTEMPTS,           \* BullMQ attempts of a job
    MAX_STALLED         \* BullMQ stalls before a job is failed

MarketService == DeployRunners \cup LockRunners
ResolutionService == ResolveRunners \cup PollRunners
JobRunners == MarketService \cup ResolveRunners
Runners == JobRunners \cup PollRunners

Kinds == {"deploy", "lock", "resolve"}
KindOf(r) == IF r \in DeployRunners THEN "deploy"
             ELSE IF r \in LockRunners THEN "lock" ELSE "resolve"

AutoSources == {"CHAINLINK_PRICE", "AI_WEB_SEARCH"}
Outcomes == {"YES", "NO", "VOID"}

ASSUME ConstantsAssumption ==
    /\ NoRunner \notin Runners
    /\ DeployRunners \cap LockRunners = {}
    /\ MarketService \cap ResolutionService = {}
    /\ ResolveRunners \cap PollRunners = {}
    /\ Sources \subseteq AutoSources \cup {"CHAINLINK_EVENT", "MANUAL"}
    /\ Answers \subseteq Outcomes
    /\ Faults \subseteq {"rpc", "receipt", "db", "crash", "stall", "skew", "short", "outsider"}
    /\ {MaxFaults, MaxTxs, MAX_STALLED} \subseteq Nat
    /\ ATTEMPTS \in Nat \ {0}

VARIABLES
    db,         \* the row: status, outcome, evidence, settlementTx, source
    jobs,       \* per kind: state, attempts, stalls and the runner that owns it
    runs,       \* per runner: pc, the outcome it settles on, its transaction
    txs,        \* transactions sent so far, in nonce order
    chain,      \* status and outcome of the contract
    clock,      \* has the deadline passed for the services, for the chain?
    api,        \* what is left of createMarket
    faults      \* faults so far

vars == <<db, jobs, runs, txs, chain, clock, api, faults>>

Idle == [pc |-> "idle", outcome |-> "NONE", tx |-> 0]
NoJob == [state |-> "none", attempts |-> 0, stalls |-> 0, owner |-> NoRunner]

-----------------------------------------------------------------------------
(* BullMQ, as the services use it. *)

\* add() with a fixed jobId does nothing when that job already exists.
AddJob(js, k) ==
    IF js[k].state = "none" THEN [js EXCEPT ![k].state = "waiting"] ELSE js

Owns(js, r) == r \in JobRunners /\ js[KindOf(r)].owner = r

\* The result of a run counts only while the run still owns its job.
CompleteJob(js, r) ==
    IF ~Owns(js, r) THEN js
    ELSE [js EXCEPT ![KindOf(r)].state = "completed", ![KindOf(r)].owner = NoRunner]

\* Variants for the mutants: a failure that is swallowed, one that is never
\* retried, one that is retried for ever.
FailJobSwallowed(js, r) == CompleteJob(js, r)
FailJobNoRetry(js, r) ==
    IF ~Owns(js, r) THEN js
    ELSE [js EXCEPT ![KindOf(r)].state = "failed", ![KindOf(r)].owner = NoRunner]
FailJobUncapped(js, r) ==
    IF ~Owns(js, r) THEN js
    ELSE [js EXCEPT ![KindOf(r)].attempts = @ + 1, ![KindOf(r)].state = "waiting",
                    ![KindOf(r)].owner = NoRunner]

FailJob(js, r) ==
    IF ~Owns(js, r) THEN js
    ELSE LET k == KindOf(r)
             made == js[k].attempts + 1
         IN  [js EXCEPT ![k].attempts = made,
                        ![k].state = IF made >= ATTEMPTS THEN "failed" ELSE "waiting",
                        ![k].owner = NoRunner]

\* The stalled checker takes an active job away from its owner.
StalledJob(js, k) ==
    LET count == js[k].stalls + 1
    IN  [js EXCEPT ![k].stalls = count,
                   ![k].state = IF count > MAX_STALLED THEN "failed" ELSE "waiting",
                   ![k].owner = NoRunner]

Throw(r) ==
    /\ runs' = [runs EXCEPT ![r] = Idle]
    /\ jobs' = FailJob(jobs, r)

Return(r) ==
    /\ runs' = [runs EXCEPT ![r] = Idle]
    /\ jobs' = CompleteJob(jobs, r)

Goto(r, pc) == runs' = [runs EXCEPT ![r].pc = pc]

-----------------------------------------------------------------------------
(* The chain. *)

\* Mutant: lock() without the deadline check.
SucceedsEarly(k) ==
    \/ k = "deploy" /\ chain.status = "NONE" /\ ~clock.chain
    \/ k = "lock" /\ chain.status = "OPEN"
    \/ k = "resolve" /\ chain.status = "LOCKED"

\* Would a transaction of kind k succeed in the current block?
Succeeds(k) ==
    \/ k = "deploy" /\ chain.status = "NONE" /\ ~clock.chain
    \/ k = "lock" /\ chain.status = "OPEN" /\ clock.chain
    \/ k = "resolve" /\ chain.status = "LOCKED"

Executed(tx) ==
    [status |-> CASE tx.kind = "deploy" -> "OPEN"
                  [] tx.kind = "lock" -> "LOCKED"
                  [] tx.kind = "resolve" /\ tx.outcome = "VOID" -> "CANCELLED"
                  [] OTHER -> "RESOLVED",
     outcome |-> tx.outcome]

Pending == {i \in 1..Len(txs) : txs[i].state = "pending"}

-----------------------------------------------------------------------------
Init ==
    /\ \E source \in Sources :
          db = [status |-> "NONE", outcome |-> "NONE", evidence |-> "NONE",
                settlementTx |-> 0, source |-> source]
    /\ jobs = [k \in Kinds |-> NoJob]
    /\ runs = [r \in Runners |-> Idle]
    /\ txs = <<>>
    /\ chain = [status |-> "NONE", outcome |-> "NONE"]
    /\ clock = [services |-> FALSE, chain |-> FALSE]
    /\ api = "idle"
    /\ faults = 0

\* createMarket: the parser has accepted a deadline in the future.  A
\* confidence below 0.4 is only logged: it changes neither row nor job.
CreateMarket ==
    /\ db.status = "NONE"
    /\ ~clock.services
    /\ db' = [db EXCEPT !.status = "PENDING"]
    /\ api' = "enqueue"
    /\ UNCHANGED <<jobs, runs, txs, chain, clock, faults>>

EnqueueDeploy ==
    /\ api = "enqueue"
    /\ jobs' = AddJob(jobs, "deploy")
    /\ api' = "idle"
    /\ UNCHANGED <<db, runs, txs, chain, clock, faults>>

\* A worker takes a job; the lock job is delayed until the deadline.
StartJob(r) ==
    /\ r \in JobRunners
    /\ runs[r] = Idle
    /\ jobs[KindOf(r)].state = "waiting"
    /\ KindOf(r) = "lock" => clock.services
    /\ jobs' = [jobs EXCEPT ![KindOf(r)].state = "active", ![KindOf(r)].owner = r]
    /\ Goto(r, "read")
    /\ UNCHANGED <<db, txs, chain, clock, api, faults>>

\* A poll of the DeadlineMonitor resolves the LOCKED markets it finds, except
\* MANUAL ones; for an overdue OPEN market it only logs.
StartPoll(r) ==
    /\ r \in PollRunners
    /\ runs[r] = Idle
    /\ db.status = "LOCKED"
    /\ db.source # "MANUAL"
    /\ Goto(r, "read")
    /\ UNCHANGED <<db, jobs, txs, chain, clock, api, faults>>

HandledStatus(k) == CASE k = "deploy" -> "PENDING"
                      [] k = "lock" -> "OPEN"
                      [] OTHER -> "LOCKED"

\* Mutant: a handler that takes an unexpected status as "transaction done" and
\* resumes at its database write.
ReadResumes(r) ==
    /\ runs[r].pc = "read"
    /\ Goto(r, IF db.status # HandledStatus(KindOf(r)) THEN "write"
               ELSE IF KindOf(r) = "resolve" THEN "decide" ELSE "send")
    /\ UNCHANGED <<db, jobs, txs, chain, clock, api, faults>>

\* findUnique, and the early return when the market is not in the status the
\* handler is for.
Read(r) ==
    /\ runs[r].pc = "read"
    /\ \/ /\ db.status = HandledStatus(KindOf(r))
          /\ Goto(r, IF KindOf(r) = "resolve" THEN "decide" ELSE "send")
          /\ UNCHANGED jobs
       \/ /\ db.status # HandledStatus(KindOf(r))
          /\ Return(r)
    /\ UNCHANGED <<db, txs, chain, clock, api, faults>>

\* Oracle and agent; where there is no oracle, fetchOracleData throws and the
\* market is settled as VOID, as it is when the agent fails.
Decisions == IF db.source \in AutoSources THEN Answers ELSE {"VOID"}

Decide(r) ==
    /\ runs[r].pc = "decide"
    /\ \E o \in Decisions :
          runs' = [runs EXCEPT ![r].outcome = o, ![r].pc = "send"]
    /\ UNCHANGED <<db, jobs, txs, chain, clock, api, faults>>

\* writeContract estimates gas first, so a call that would revert now throws.
Send(r) ==
    /\ runs[r].pc = "send"
    /\ Succeeds(KindOf(r))
    /\ Len(txs) < MaxTxs
    /\ txs' = Append(txs, [kind |-> KindOf(r), outcome |-> runs[r].outcome,
                           state |-> "pending"])
    /\ runs' = [runs EXCEPT ![r].tx = Len(txs) + 1, ![r].pc = "wait"]
    /\ UNCHANGED <<db, jobs, chain, clock, api, faults>>

SendReverts(r) ==
    /\ runs[r].pc = "send"
    /\ ~Succeeds(KindOf(r))
    /\ Throw(r)
    /\ UNCHANGED <<db, txs, chain, clock, api, faults>>

\* All transactions come from one account: they are mined in nonce order, and
\* each succeeds or reverts in the state it meets then.
Mine ==
    /\ \E i \in Pending :
          /\ \A k \in Pending : i <= k
          /\ LET ok == Succeeds(txs[i].kind)
             IN  /\ txs' = [txs EXCEPT ![i].state = IF ok THEN "success" ELSE "reverted"]
                 /\ chain' = IF ok THEN Executed(txs[i]) ELSE chain
    /\ UNCHANGED <<db, jobs, runs, clock, api, faults>>

\* Mutant: a deploy handler that trusts any receipt.
ReceiptUnchecked(r) ==
    /\ runs[r].pc = "wait"
    /\ txs[runs[r].tx].state # "pending"
    /\ Goto(r, "write")
    /\ UNCHANGED <<db, jobs, txs, chain, clock, api, faults>>

\* Only the deploy handler looks at the status of the receipt.
Receipt(r) ==
    /\ runs[r].pc = "wait"
    /\ LET state == txs[runs[r].tx].state
       IN  /\ state # "pending"
           /\ \/ /\ KindOf(r) = "deploy" /\ state = "reverted"
                 /\ Throw(r)
              \/ /\ KindOf(r) = "deploy" => state = "success"
                 /\ Goto(r, "write")
                 /\ UNCHANGED jobs
    /\ UNCHANGED <<db, txs, chain, clock, api, faults>>

WriteOpen(r) ==
    /\ r \in DeployRunners
    /\ runs[r].pc = "write"
    /\ db' = [db EXCEPT !.status = "OPEN"]
    /\ Goto(r, "enqueue")
    /\ UNCHANGED <<jobs, txs, chain, clock, api, faults>>

WriteLocked(r) ==
    /\ r \in LockRunners
    /\ runs[r].pc = "write"
    /\ db' = [db EXCEPT !.status = "LOCKED"]
    /\ Goto(r, "enqueue")
    /\ UNCHANGED <<jobs, txs, chain, clock, api, faults>>

\* Mutants: market and evidence written apart, so that the market changes even
\* when its evidence exists; and evidence without the market's update.
WriteResolvedApart(r) ==
    /\ r \in ResolutionService
    /\ runs[r].pc = "write"
    /\ db' = [db EXCEPT !.status = "RESOLVED",
                        !.outcome = runs[r].outcome,
                        !.evidence = IF @ = "NONE" THEN runs[r].outcome ELSE @,
                        !.settlementTx = IF @ = 0 THEN runs[r].tx ELSE @]
    /\ Return(r)
    /\ UNCHANGED <<txs, chain, clock, api, faults>>
WriteEvidenceOnly(r) ==
    /\ r \in ResolutionService
    /\ runs[r].pc = "write"
    /\ db' = [db EXCEPT !.evidence = runs[r].outcome, !.settlementTx = runs[r].tx]
    /\ Return(r)
    /\ UNCHANGED <<txs, chain, clock, api, faults>>

\* One database transaction: the evidence row, unique per market, and the
\* market's outcome; a second evidence row makes it throw and roll back.
WriteResolved(r) ==
    /\ r \in ResolutionService
    /\ runs[r].pc = "write"
    /\ \/ /\ db.evidence = "NONE"
          /\ db' = [db EXCEPT !.status = "RESOLVED",
                              !.outcome = runs[r].outcome,
                              !.evidence = runs[r].outcome,
                              !.settlementTx = runs[r].tx]
          /\ Return(r)
       \/ /\ db.evidence # "NONE"
          /\ UNCHANGED db
          /\ Throw(r)
    /\ UNCHANGED <<txs, chain, clock, api, faults>>

\* Mutant: a handler that forgets the next job.
EnqueueNothing(r) ==
    /\ runs[r].pc = "enqueue"
    /\ Return(r)
    /\ UNCHANGED <<db, txs, chain, clock, api, faults>>

\* The deploy handler schedules the lock job, the lock handler the resolution.
Enqueue(r) ==
    /\ runs[r].pc = "enqueue"
    /\ jobs' = CompleteJob(AddJob(jobs, IF r \in DeployRunners THEN "lock" ELSE "resolve"), r)
    /\ runs' = [runs EXCEPT ![r] = Idle]
    /\ UNCHANGED <<db, txs, chain, clock, api, faults>>

\* Without skew the deadline passes for everybody at once.
DeadlinePasses ==
    /\ ~clock.chain
    /\ db.status # "NONE"
    /\ "short" \notin Faults => chain.status # "NONE"
    /\ clock' = [services |-> TRUE, chain |-> TRUE]
    /\ UNCHANGED <<db, jobs, runs, txs, chain, api, faults>>

\* After a crash the stalled checker hands the abandoned job out again.
RecoverJob(k) ==
    /\ jobs[k].state = "active"
    /\ runs[jobs[k].owner] = Idle
    /\ jobs' = StalledJob(jobs, k)
    /\ UNCHANGED <<db, runs, txs, chain, clock, api, faults>>

-----------------------------------------------------------------------------
(* Faults *)

Fault(f) ==
    /\ f \in Faults
    /\ faults < MaxFaults
    /\ faults' = faults + 1

CallFails(r) ==
    /\ \/ runs[r].pc = "send" /\ Fault("rpc")
       \/ runs[r].pc = "wait" /\ Fault("receipt")
       \/ runs[r].pc \in {"read", "write", "enqueue"} /\ Fault("db")
    /\ Throw(r)
    /\ UNCHANGED <<db, txs, chain, clock, api>>

Crash(service) ==
    /\ Fault("crash")
    /\ \E r \in service : runs[r] # Idle
    /\ runs' = [r \in Runners |-> IF r \in service THEN Idle ELSE runs[r]]
    /\ UNCHANGED <<db, jobs, txs, chain, clock, api>>

\* The gateway dies, or Redis refuses, between the row and the job.
CreateMarketFails ==
    /\ api = "enqueue"
    /\ Fault("crash") \/ Fault("db")
    /\ api' = "idle"
    /\ UNCHANGED <<db, jobs, runs, txs, chain, clock>>

Redeliver(k) ==
    /\ Fault("stall")
    /\ jobs[k].state = "active"
    /\ runs[jobs[k].owner] # Idle
    /\ jobs' = StalledJob(jobs, k)
    /\ UNCHANGED <<db, runs, txs, chain, clock, api>>

ServicesClockAhead ==
    /\ Fault("skew")
    /\ ~clock.services
    /\ db.status # "NONE"
    /\ "short" \notin Faults => chain.status # "NONE"
    /\ clock' = [clock EXCEPT !.services = TRUE]
    /\ UNCHANGED <<db, jobs, runs, txs, chain, api>>

OutsiderLocks ==
    /\ Fault("outsider")
    /\ Succeeds("lock")
    /\ chain' = [chain EXCEPT !.status = "LOCKED"]
    /\ UNCHANGED <<db, jobs, runs, txs, clock, api>>

-----------------------------------------------------------------------------
RunStep(r) ==
    \/ Read(r) \/ Decide(r) \/ Send(r) \/ SendReverts(r) \/ Receipt(r)
    \/ WriteOpen(r) \/ WriteLocked(r) \/ WriteResolved(r) \/ Enqueue(r)

Next ==
    \/ CreateMarket
    \/ EnqueueDeploy
    \/ \E r \in Runners : StartJob(r) \/ StartPoll(r) \/ RunStep(r)
    \/ Mine
    \/ DeadlinePasses
    \/ \E k \in Kinds : RecoverJob(k)
    \/ \E r \in Runners : CallFails(r)
    \/ \E service \in {MarketService, ResolutionService} : Crash(service)
    \/ CreateMarketFails
    \/ \E k \in Kinds : Redeliver(k)
    \/ ServicesClockAhead
    \/ OutsiderLocks

Spec == Init /\ [][Next]_vars

\* Workers take the jobs there are, polls recur every minute, a handler that
\* can go on does, the chain mines, time passes and stalled jobs are found.
\* Nobody has to create a market and no fault has to happen.
Fairness ==
    /\ WF_vars(EnqueueDeploy)
    /\ \A r \in Runners : WF_vars(StartJob(r)) /\ WF_vars(StartPoll(r)) /\ WF_vars(RunStep(r))
    /\ WF_vars(Mine)
    /\ WF_vars(DeadlinePasses)
    /\ \A k \in Kinds : WF_vars(RecoverJob(k))

FairSpec == Spec /\ Fairness

-----------------------------------------------------------------------------
(* Properties *)

Steps == {"idle", "read", "decide", "send", "wait", "write", "enqueue"}
DbStatus == {"NONE", "PENDING", "OPEN", "LOCKED", "RESOLVED"}
ChainStatus == {"NONE", "OPEN", "LOCKED", "RESOLVED", "CANCELLED"}

JobStates == {"none", "waiting", "active", "completed", "failed"}
Job == [state : JobStates, attempts : 0..ATTEMPTS, stalls : 0..(MAX_STALLED + 1),
        owner : JobRunners \cup {NoRunner}]
Run == [pc : Steps, outcome : Outcomes \cup {"NONE"}, tx : 0..MaxTxs]
Tx == [kind : Kinds, outcome : Outcomes \cup {"NONE"},
       state : {"pending", "success", "reverted"}]
Row == [status : DbStatus, outcome : Outcomes \cup {"NONE"},
        evidence : Outcomes \cup {"NONE"}, settlementTx : 0..MaxTxs, source : Sources]

TypeOK ==
    /\ db \in Row
    /\ jobs \in [Kinds -> Job]
    /\ runs \in [Runners -> Run]
    /\ \A i \in 1..Len(txs) : txs[i] \in Tx
    /\ chain \in [status : ChainStatus, outcome : Outcomes \cup {"NONE"}]
    /\ clock \in [services : BOOLEAN, chain : BOOLEAN]
    /\ api \in {"idle", "enqueue"}
    /\ faults \in 0..MaxFaults

\* How far a status is along PENDING, OPEN, LOCKED, settled.
Rank(status) == CASE status \in {"NONE", "PENDING"} -> 0
                  [] status = "OPEN" -> 1
                  [] status = "LOCKED" -> 2
                  [] status \in {"RESOLVED", "CANCELLED"} -> 3

\* The row never claims more than has happened on chain, although two of the
\* three handlers never look at the status of their receipt: a market shown
\* OPEN has a contract, one shown LOCKED takes no stakes, one shown RESOLVED
\* can be claimed from.
DbFollowsChain == Rank(db.status) <= Rank(chain.status)

\* A market settles on chain, and is shown as locked, only after its deadline.
NothingSettlesEarly ==
    Rank(chain.status) >= 2 \/ Rank(db.status) >= 2 => clock.chain

\* The evidence names the outcome the row has, and cites a mined resolve()
\* transaction that carried this outcome.
EvidenceIsSound ==
    /\ db.outcome = db.evidence
    /\ db.evidence # "NONE" =>
           LET tx == txs[db.settlementTx]
           IN  tx.kind = "resolve" /\ tx.outcome = db.outcome /\ tx.state # "pending"

\* Every resolution has its paper trail: sound evidence exists exactly when
\* the row is RESOLVED.
PaperTrail ==
    /\ db.status = "RESOLVED" <=> db.evidence # "NONE"
    /\ EvidenceIsSound

\* Job and polls may settle one market at the same time, but only the first
\* to write decides what the row and its evidence say.
SettledOnce ==
    [][db.evidence # "NONE"
         => /\ db'.evidence = db.evidence
            /\ db'.outcome = db.outcome
            /\ db'.settlementTx = db.settlementTx]_vars

\* A job that counts as completed has moved the market past its stage, also
\* when the run that completed it skipped because of another run's work.
CompletedJobsDidTheirWork ==
    /\ jobs["deploy"].state = "completed" => Rank(db.status) >= 1
    /\ jobs["lock"].state = "completed" => Rank(db.status) >= 2
    /\ jobs["resolve"].state = "completed" => Rank(db.status) >= 3

\* A market is handed on from job to job.  Without a fault it has its deploy
\* job; and a job that ran through without being interrupted has left the next
\* one behind, whoever else has moved the market meanwhile: only a run that
\* failed or died between its write and its enqueueing breaks the chain.
HandOversAreMade ==
    /\ db.status # "NONE" /\ api = "idle" /\ jobs["deploy"].state = "none" => faults > 0
    /\ \A k \in {"deploy", "lock"} :
          jobs[k].state = "completed" /\ jobs[k].attempts = 0 /\ jobs[k].stalls = 0
              => jobs[IF k = "deploy" THEN "lock" ELSE "resolve"].state # "none"

Life == INSTANCE MarketLife WITH
    Verdicts <- Outcomes,
    real <- Rank(chain.status),
    shown <- Rank(db.status),
    overdue <- clock.chain,
    verdict <- db.outcome

\* Refused and lost calls, crashes, redelivered jobs, overlapping polls and
\* outsiders change nothing about the life that is promised: no stage is
\* skipped, shown before it is real or taken back, and the verdict stays.  (As
\* long as a handler does not run twice at once for one market: a run that was
\* left behind when its job was redelivered can take a stage back.)
ImplementsMarketLife == Life!Spec

\* Liveness: with at most ATTEMPTS - 1 refused transactions the retries get a
\* market deployed ...
PendingMarketOpens == db.status = "PENDING" ~> Rank(db.status) >= 1

\* ... and an open market locked ...
OverdueMarketLocks == db.status = "OPEN" /\ clock.services ~> Rank(db.status) >= 2

\* ... and a locked market resolved, by its job or by a poll.
LockedMarketResolves == db.status = "LOCKED" ~> db.status = "RESOLVED"

\* What the documentation says of the outcome: the row shows the outcome of
\* the contract, whose transaction the evidence cites.
DbOutcomeIsChainOutcome == db.status = "RESOLVED" => db.outcome = chain.outcome

\* What the documentation says of MANUAL markets: the services leave them to
\* an administrator.
ManualAwaitsAdmin == db.source = "MANUAL" => chain.outcome = "NONE"

=============================================================================
