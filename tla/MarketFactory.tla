------------------------------ MODULE MarketFactory ------------------------------
(*****************************************************************************)
(* MarketFactory.sol: the registry of market contracts.  The contract of a   *)
(* market is its entry in allMarkets, its address the place of that entry.   *)
(* Only the owner, the services' deployer account, calls what changes state. *)
(*****************************************************************************)
EXTENDS Naturals, Sequences

CONSTANTS
    Ids,            \* market ids
    Roles,          \* addresses that may be resolver or treasury
    MAX_UINT        \* largest uint256

ASSUME FactoryAssumption == MAX_UINT \in Nat

VARIABLES
    resolver, treasury,
    markets,        \* id -> address, 0 for none
    allMarkets      \* per address: id, resolver and treasury the contract was given

factoryVars == <<resolver, treasury, markets, allMarkets>>

FactoryInit ==
    /\ resolver \in Roles
    /\ treasury \in Roles
    /\ markets = [id \in Ids |-> 0]
    /\ allMarkets = <<>>

\* Mutant: the registry is not asked.
MayCreateAgain(id, inFuture) == inFuture

\* The two require()s of createMarket.
MayCreate(id, inFuture) == markets[id] = 0 /\ inFuture

Create(id) ==
    /\ allMarkets' = Append(allMarkets, [id |-> id, resolver |-> resolver, treasury |-> treasury])
    /\ markets' = [markets EXCEPT ![id] = Len(allMarkets) + 1]
    /\ UNCHANGED <<resolver, treasury>>

UpdateResolver ==
    /\ resolver' \in Roles
    /\ UNCHANGED <<treasury, markets, allMarkets>>

UpdateTreasury ==
    /\ treasury' \in Roles
    /\ UNCHANGED <<resolver, markets, allMarkets>>

-----------------------------------------------------------------------------
(* Views *)

\* Mutant: the market created last.
GetLatestMarket(id) == Len(allMarkets)

GetMarket(id) == markets[id]

\* offset + limit is checked arithmetic; an offset at the end comes before it.
PageReverts(offset, limit) == offset < Len(allMarkets) /\ offset + limit > MAX_UINT

\* Mutant: a page that is one too long.
GetMarketsInclusive(offset, limit) ==
    LET total == Len(allMarkets)
        end == IF offset + limit + 1 > total THEN total ELSE offset + limit + 1
    IN  SubSeq(allMarkets, offset + 1, end)

\* A page of allMarkets, empty from the end on.
GetMarkets(offset, limit) ==
    LET total == Len(allMarkets)
        end == IF offset + limit > total THEN total ELSE offset + limit
    IN  SubSeq(allMarkets, offset + 1, end)

-----------------------------------------------------------------------------
\* One contract per market, found by id and by place alike.
OneContractPerMarket ==
    /\ \A i, j \in 1..Len(allMarkets) : allMarkets[i].id = allMarkets[j].id => i = j
    /\ \A id \in Ids : markets[id] # 0 =>
          markets[id] \in 1..Len(allMarkets) /\ allMarkets[markets[id]].id = id

=============================================================================
