------------------------------ MODULE MarketRegistry ------------------------------
(*****************************************************************************)
(* Many markets at once: their rows, the deploy jobs that give each its      *)
(* contract (market.worker.ts over factory.client.ts), the factory, and a    *)
(* reader that pages through what there is, with the factory's getMarkets or *)
(* with GET /markets, while markets are being made.                          *)
(*                                                                           *)
(* A deploy job awaits the node between its steps and may be retried from    *)
(* the start whatever became of the transaction it sent:                     *)
(*                                                                           *)
(*   idle -> wait -> write -> idle                                           *)
(*                                                                           *)
(* Whether a deadline has passed when createMarket is mined is left open.    *)
(*****************************************************************************)
EXTENDS MarketFactory, SequencesExt

CONSTANTS
    PageSize,
    MaxTxs,         \* bound: createMarket transactions ever sent
    MaxRotations    \* bound: changes of the factory's resolver and treasury

ASSUME RegistryAssumption == PageSize \in Nat \ {0} /\ {MaxTxs, MaxRotations} \subseteq Nat

VARIABLES
    created,        \* ids in the order their rows were created
    row,            \* per id: status and contract address of the row
    deploy,         \* per id: pc of its deploy job, its transaction
    txs,            \* createMarket transactions in nonce order: id, state
    reader,         \* what it reads, its next offset, what it got, the ids it
                    \* should find, whether it is done
    rotations

dbVars == <<created, row>>
vars == <<factoryVars, dbVars, deploy, txs, reader, rotations>>

NoDeploy == [pc |-> "idle", tx |-> 0]

Init ==
    /\ FactoryInit
    /\ created = <<>>
    /\ row = [id \in Ids |-> [status |-> "NONE", contract |-> 0]]
    /\ deploy = [id \in Ids |-> NoDeploy]
    /\ txs = <<>>
    /\ reader = [what |-> "none", offset |-> 0, got |-> <<>>, sought |-> {}, done |-> TRUE]
    /\ rotations = 0

-----------------------------------------------------------------------------
(* Rows and their deploy jobs *)

CreateRow(id) ==
    /\ row[id].status = "NONE"
    /\ row' = [row EXCEPT ![id].status = "PENDING"]
    /\ created' = Append(created, id)
    /\ UNCHANGED <<factoryVars, deploy, txs, reader, rotations>>

\* The job of a PENDING market calls deployMarket; a call that would revert now
\* fails when its gas is estimated, and the job with it.
Deploy(id) ==
    /\ row[id].status = "PENDING"
    /\ deploy[id] = NoDeploy
    /\ MayCreate(id, TRUE)
    /\ Len(txs) < MaxTxs
    /\ txs' = Append(txs, [id |-> id, state |-> "pending"])
    /\ deploy' = [deploy EXCEPT ![id] = [pc |-> "wait", tx |-> Len(txs) + 1]]
    /\ UNCHANGED <<factoryVars, dbVars, reader, rotations>>

\* Transactions of one account are mined in order.
Mine ==
    \E i \in 1..Len(txs), inFuture \in BOOLEAN :
        /\ txs[i].state = "pending"
        /\ \A j \in 1..(i - 1) : txs[j].state # "pending"
        /\ \/ /\ MayCreate(txs[i].id, inFuture)
              /\ Create(txs[i].id)
              /\ txs' = [txs EXCEPT ![i].state = "success"]
           \/ /\ ~MayCreate(txs[i].id, inFuture)
              /\ txs' = [txs EXCEPT ![i].state = "reverted"]
              /\ UNCHANGED factoryVars
        /\ UNCHANGED <<dbVars, deploy, reader, rotations>>

\* waitForTransaction throws for a transaction that reverted.
Receipt(id) ==
    /\ deploy[id].pc = "wait"
    /\ \/ /\ txs[deploy[id].tx].state = "success"
          /\ deploy' = [deploy EXCEPT ![id].pc = "write"]
       \/ /\ txs[deploy[id].tx].state = "reverted"
          /\ deploy' = [deploy EXCEPT ![id] = NoDeploy]
    /\ UNCHANGED <<factoryVars, dbVars, txs, reader, rotations>>

\* Mutant: an update that leaves the status alone.
WriteContractOnly(id) ==
    /\ deploy[id].pc = "write"
    /\ deploy' = [deploy EXCEPT ![id] = NoDeploy]
    /\ row' = [row EXCEPT ![id].contract = GetMarket(id)]
    /\ UNCHANGED <<factoryVars, created, txs, reader, rotations>>

\* getDeployedMarketAddress, where null, that is 0, makes the job throw, and the
\* update of the row.
WriteOpen(id) ==
    /\ deploy[id].pc = "write"
    /\ deploy' = [deploy EXCEPT ![id] = NoDeploy]
    /\ row' = IF GetMarket(id) = 0 THEN row
              ELSE [row EXCEPT ![id] = [status |-> "OPEN", contract |-> GetMarket(id)]]
    /\ UNCHANGED <<factoryVars, created, txs, reader, rotations>>

\* The node or the database throws: the job starts over, or is given up.
DeployFails(id) ==
    /\ deploy[id].pc # "idle"
    /\ deploy' = [deploy EXCEPT ![id] = NoDeploy]
    /\ UNCHANGED <<factoryVars, dbVars, txs, reader, rotations>>

RotateRoles ==
    /\ rotations < MaxRotations
    /\ rotations' = rotations + 1
    /\ UpdateResolver \/ UpdateTreasury
    /\ UNCHANGED <<dbVars, deploy, txs, reader>>

-----------------------------------------------------------------------------
(* The reader *)

StartReading ==
    /\ reader.done
    /\ \E what \in {"contracts", "rows"} :
          reader' = [what |-> what, offset |-> 0, got |-> <<>>, done |-> FALSE,
                     sought |-> IF what = "rows" THEN ToSet(created) ELSE {}]
    /\ UNCHANGED <<factoryVars, dbVars, deploy, txs, rotations>>

Page(entries, limit, isLast) ==
    reader' = [reader EXCEPT !.offset = IF isLast THEN @ ELSE @ + limit,
                             !.got = @ \o entries, !.done = isLast]

\* Page by page, or whatever is left with the largest limit there is.  A page
\* that is not full is the last, and so is one that reverts.
ReadContracts ==
    /\ ~reader.done
    /\ reader.what = "contracts"
    /\ \E limit \in {PageSize, MAX_UINT} :
          IF PageReverts(reader.offset, limit) THEN Page(<<>>, limit, TRUE)
          ELSE LET page == GetMarkets(reader.offset, limit)
               IN  Page(page, limit, Len(page) < limit)
    /\ UNCHANGED <<factoryVars, dbVars, deploy, txs, rotations>>

\* Mutant: the offset is taken as the number of a page, counted from one.
ListMarketsByPage(offset, limit) ==
    LET newestFirst == Reverse(created)
        first == (offset + 1) * limit
        last == IF first + limit > Len(created) THEN Len(created) ELSE first + limit
    IN  [markets |-> SubSeq(newestFirst, first + 1, last), total |-> Len(created)]

\* listMarkets without a status: newest first, with the number there are.
ListMarkets(offset, limit) ==
    LET newestFirst == Reverse(created)
        last == IF offset + limit > Len(created) THEN Len(created) ELSE offset + limit
    IN  [markets |-> SubSeq(newestFirst, offset + 1, last), total |-> Len(created)]

ReadRows ==
    /\ ~reader.done
    /\ reader.what = "rows"
    /\ LET answer == ListMarkets(reader.offset, PageSize)
       IN  Page(answer.markets, PageSize, reader.offset + PageSize >= answer.total)
    /\ UNCHANGED <<factoryVars, dbVars, deploy, txs, rotations>>

-----------------------------------------------------------------------------
Next ==
    \/ \E id \in Ids :
          \/ CreateRow(id) \/ Deploy(id) \/ Receipt(id)
          \/ WriteOpen(id) \/ DeployFails(id)
    \/ Mine
    \/ RotateRoles
    \/ StartReading \/ ReadContracts \/ ReadRows

Spec == Init /\ [][Next]_vars

-----------------------------------------------------------------------------
TypeOK ==
    /\ resolver \in Roles /\ treasury \in Roles
    /\ markets \in [Ids -> 0..Len(allMarkets)]
    /\ \A i \in 1..Len(allMarkets) :
          allMarkets[i] \in [id : Ids, resolver : Roles, treasury : Roles]
    /\ row \in [Ids -> [status : {"NONE", "PENDING", "OPEN"}, contract : 0..Len(allMarkets)]]
    /\ \A id \in Ids : row[id].status = "OPEN" <=> row[id].contract # 0
    /\ deploy \in [Ids -> [pc : {"idle", "wait", "write"}, tx : 0..Len(txs)]]
    /\ \A i \in 1..Len(txs) :
          txs[i] \in [id : Ids, state : {"pending", "success", "reverted"}]

\* The row of a market names the contract of that market, whatever else is
\* being deployed from the same account and however often its job was retried.
RowsNameTheirContract ==
    \A id \in Ids : row[id].contract # 0 => allMarkets[row[id].contract].id = id

\* Who pages through the factory while markets are created gets each contract
\* once, in order of creation, with none left out in between.
PagesAreAPrefix ==
    reader.what = "contracts" => IsPrefix(reader.got, allMarkets)

\* Who pages through the listing, newest first, while markets are added at its
\* head meets some of them twice, but misses none that was there at the start.
ListingMissesNothing == reader.done => reader.sought \subseteq ToSet(reader.got)

=============================================================================
