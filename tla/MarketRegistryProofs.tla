------------------------- MODULE MarketRegistryProofs -------------------------
(*****************************************************************************)
(* Theorems about the registry of markets, for any ids, roles, page sizes    *)
(* and numbers of transactions.                                              *)
(*****************************************************************************)
EXTENDS MarketRegistry, SequenceTheorems, TLAPS

-----------------------------------------------------------------------------
(* Types *)

Contract == [id : Ids, resolver : Roles, treasury : Roles]
RegistryTx == [id : Ids, state : {"pending", "success", "reverted"}]

\* TypeOK, with sequences for what has a bounded length in it, and the reader.
TypeInv ==
    /\ resolver \in Roles /\ treasury \in Roles
    /\ allMarkets \in Seq(Contract)
    /\ markets \in [Ids -> 0..Len(allMarkets)]
    /\ created \in Seq(Ids)
    /\ row \in [Ids -> [status : {"NONE", "PENDING", "OPEN"}, contract : 0..Len(allMarkets)]]
    /\ \A id \in Ids : row[id].status = "OPEN" <=> row[id].contract # 0
    /\ txs \in Seq(RegistryTx)
    /\ deploy \in [Ids -> [pc : {"idle", "wait", "write"}, tx : 0..Len(txs)]]
    /\ \A id \in Ids : deploy[id].pc = "wait" => deploy[id].tx # 0
    /\ reader \in [what : {"none", "contracts", "rows"}, offset : Nat,
                   got : Seq(Contract) \cup Seq(Ids), sought : SUBSET Ids, done : BOOLEAN]
    /\ reader.what = "contracts" => reader.got \in Seq(Contract)
    /\ reader.what = "rows" => reader.got \in Seq(Ids)
    /\ reader.what # "rows" => reader.sought = {}
    /\ reader.what = "none" => reader.done

LEMMA TypeInvImpliesTypeOK == TypeInv => TypeOK
  <1> SUFFICES ASSUME TypeInv PROVE TypeOK
    OBVIOUS
  <1>1. \A i \in 1..Len(allMarkets) : allMarkets[i] \in Contract
    BY ElementOfSeq DEF TypeInv
  <1>2. \A i \in 1..Len(txs) : txs[i] \in RegistryTx
    BY ElementOfSeq DEF TypeInv
  <1> QED
    BY <1>1, <1>2 DEF TypeInv, TypeOK, Contract, RegistryTx

\* Entries of the factory's list are only ever added at its end.
LEMMA AppendKeepsPages ==
    ASSUME NEW S, NEW s \in Seq(S), NEW e \in S, NEW n \in 0..Len(s)
    PROVE  SubSeq(Append(s, e), 1, n) = SubSeq(s, 1, n)
  <1>1. CASE n = 0
    BY <1>1, SubSeqEmpty
  <1>2. CASE n # 0
    <2>1. Append(s, e) = s \o <<e>>
      BY AppendIsConcat
    <2>2. <<e>> \in Seq(S)
      OBVIOUS
    <2>3. 1 \in 1..Len(s) /\ n \in 1..Len(s)
      BY <1>2, LenProperties
    <2> QED
      BY <2>1, <2>2, <2>3, SubSeqOfConcat1
  <1> QED
    BY <1>1, <1>2

\* What a page of the factory contains: the entries up to some end, which is
\* offset + limit unless the list is shorter.
PageEnd(offset, limit) ==
    IF offset + limit > Len(allMarkets) THEN Len(allMarkets) ELSE offset + limit

LEMMA PageOfContracts ==
    ASSUME TypeInv, NEW offset \in 0..Len(allMarkets), NEW limit \in Nat
    PROVE  /\ PageEnd(offset, limit) \in offset..Len(allMarkets)
           /\ GetMarkets(offset, limit) \in Seq(Contract)
           /\ Len(GetMarkets(offset, limit)) = PageEnd(offset, limit) - offset
           /\ SubSeq(allMarkets, 1, offset) \o GetMarkets(offset, limit)
                = SubSeq(allMarkets, 1, PageEnd(offset, limit))
  <1> DEFINE end == PageEnd(offset, limit)
  <1>0. allMarkets \in Seq(Contract) /\ Len(allMarkets) \in Nat
    BY LenProperties DEF TypeInv
  <1>1. end \in offset..Len(allMarkets)
    BY <1>0 DEF PageEnd
  <1>2. GetMarkets(offset, limit) = SubSeq(allMarkets, offset + 1, end)
    BY DEF GetMarkets, PageEnd
  <1>3. \A i \in (offset + 1)..end : allMarkets[i] \in Contract
    BY <1>0, <1>1, ElementOfSeq
  <1>4. /\ SubSeq(allMarkets, offset + 1, end) \in Seq(Contract)
        /\ Len(SubSeq(allMarkets, offset + 1, end)) = end - offset
    BY <1>0, <1>1, <1>3, SubSeqProperties
  <1>5. SubSeq(allMarkets, 1, offset) \o SubSeq(allMarkets, offset + 1, end)
          = SubSeq(allMarkets, 1, end)
    <2>1. /\ 1 \in 1..(Len(allMarkets) + 1)
          /\ offset \in (1 - 1)..Len(allMarkets)
          /\ end \in offset..Len(allMarkets)
      BY <1>0, <1>1
    <2> QED
      BY <2>1, <1>0, ConcatAdjacentSubSeq
  <1> QED
    BY <1>1, <1>2, <1>4, <1>5

\* A page of the listing: entry i is the one at offset + i, counted from the end.
LEMMA PageOfRows ==
    ASSUME TypeInv, NEW offset \in Nat, NEW limit \in Nat
    PROVE  LET answer == ListMarkets(offset, limit)
           IN  /\ answer.total = Len(created)
               /\ answer.markets \in Seq(Ids)
               /\ \A j \in 1..Len(created) :
                     j <= Len(created) - offset /\ j > Len(created) - (offset + limit)
                       => created[j] \in ToSet(answer.markets)
  <1> DEFINE newestFirst == Reverse(created)
             last == IF offset + limit > Len(created) THEN Len(created) ELSE offset + limit
             page == SubSeq(newestFirst, offset + 1, last)
  <1>0. created \in Seq(Ids) /\ Len(created) \in Nat
    BY LenProperties DEF TypeInv
  <1>1. \A i \in 1..Len(created) : /\ newestFirst[i] = created[(Len(created) - i) + 1]
                                   /\ newestFirst[i] \in Ids
    BY <1>0, ElementOfSeq DEF Reverse
  <1>2. last \in Nat /\ last <= Len(created) /\ last <= offset + limit
    BY <1>0
  <1>3. \A i \in (offset + 1)..last : newestFirst[i] \in Ids
    BY <1>1, <1>2
  <1> HIDE DEF newestFirst, last
  <1>4. /\ page \in Seq(Ids)
        /\ Len(page) = IF offset + 1 <= last THEN last - (offset + 1) + 1 ELSE 0
        /\ \A i \in 1..(last - (offset + 1) + 1) : page[i] = newestFirst[(offset + 1) + i - 1]
    BY <1>2, <1>3, SubSeqProperties
  <1>5. ASSUME NEW j \in 1..Len(created), j <= Len(created) - offset,
               j > Len(created) - (offset + limit)
        PROVE  created[j] \in ToSet(page)
    <2> DEFINE i == Len(created) - offset - j + 1
    <2>1. i \in 1..(last - offset) /\ offset + i \in 1..Len(created)
      BY <1>0, <1>2, <1>5 DEF last
    <2>2. page[i] = newestFirst[offset + i]
      BY <1>0, <1>2, <1>4, <2>1
    <2>3. newestFirst[offset + i] = created[j]
      BY <1>0, <1>1, <2>1
    <2>4. i \in DOMAIN page
      BY <1>2, <1>4, <2>1, LenProperties
    <2> QED
      BY <2>2, <2>3, <2>4 DEF ToSet
  <1>6. ListMarkets(offset, limit) = [markets |-> page, total |-> Len(created)]
    BY DEF ListMarkets, newestFirst, last
  <1> QED
    BY <1>4, <1>5, <1>6

-----------------------------------------------------------------------------
(* The inductive invariant *)

\* The factory's list and its map by id agree.
RegistryInv ==
    /\ \A i \in 1..Len(allMarkets) : markets[allMarkets[i].id] = i
    /\ \A id \in Ids : markets[id] # 0 => allMarkets[markets[id]].id = id

\* A row has the contract that the factory has for it.
RowInv == \A id \in Ids : row[id].contract # 0 => row[id].contract = markets[id]

\* A reader of the factory has the contracts up to its offset.
PagingInv ==
    reader.what = "contracts" =>
        /\ Len(reader.got) <= Len(allMarkets)
        /\ reader.got = SubSeq(allMarkets, 1, Len(reader.got))
        /\ ~reader.done => reader.offset = Len(reader.got)

\* A reader of the listing has, or has still ahead of it, what it seeks: below
\* its offset counted from the newest row, wherever that has moved to.
ListingInv ==
    reader.what = "rows" =>
        \A id \in reader.sought :
            \/ id \in ToSet(reader.got)
            \/ /\ ~reader.done
               /\ \E j \in 1..Len(created) :
                     j <= Len(created) - reader.offset /\ created[j] = id

IInv == TypeInv /\ RegistryInv /\ RowInv /\ PagingInv /\ ListingInv

LEMMA TypeInvInit == Init => TypeInv
  <1> SUFFICES ASSUME Init PROVE TypeInv
    OBVIOUS
  <1>1. Len(<<>>) = 0
    BY EmptySeq
  <1>2. <<>> \in Seq(Ids) /\ <<>> \in Seq(Contract) /\ <<>> \in Seq(RegistryTx)
    BY EmptySeq
  <1> QED
    BY <1>1, <1>2 DEF Init, FactoryInit, NoDeploy, TypeInv

LEMMA PageFields ==
    ASSUME TypeInv, NEW entries, NEW limit, NEW isLast,
           Page(entries, limit, isLast)
    PROVE  reader' = [what |-> reader.what,
                      offset |-> IF isLast THEN reader.offset ELSE reader.offset + limit,
                      got |-> reader.got \o entries,
                      sought |-> reader.sought,
                      done |-> isLast]
  BY DEF Page, TypeInv

LEMMA ReadContractsType == TypeInv /\ PagingInv /\ ReadContracts => TypeInv'
  <1> SUFFICES ASSUME TypeInv, PagingInv, ReadContracts PROVE TypeInv'
    OBVIOUS
  <1>0. MAX_UINT \in Nat /\ PageSize \in Nat
    BY FactoryAssumption, RegistryAssumption
  <1>1. PICK entries \in Seq(Contract), limit \in Nat, isLast \in BOOLEAN :
            Page(entries, limit, isLast)
    <2>1. PICK limit \in {PageSize, MAX_UINT} :
              IF PageReverts(reader.offset, limit) THEN Page(<<>>, limit, TRUE)
              ELSE LET page == GetMarkets(reader.offset, limit)
                   IN  Page(page, limit, Len(page) < limit)
      BY DEF ReadContracts
    <2>2. <<>> \in Seq(Contract) /\ limit \in Nat
      BY <1>0, EmptySeq
    <2>3. reader.offset \in 0..Len(allMarkets)
      BY LenProperties DEF ReadContracts, PagingInv, TypeInv
    <2>4. GetMarkets(reader.offset, limit) \in Seq(Contract)
      BY <2>2, <2>3, PageOfContracts
    <2>5. CASE PageReverts(reader.offset, limit)
      BY <2>1, <2>2, <2>5
    <2>6. CASE ~PageReverts(reader.offset, limit)
      <3> DEFINE page == GetMarkets(reader.offset, limit)
                 isLast == Len(page) < limit
      <3>1. Page(page, limit, isLast)
        BY <2>1, <2>6
      <3>2. page \in Seq(Contract) /\ isLast \in BOOLEAN
        BY <2>4
      <3> HIDE DEF page, isLast
      <3> QED
        BY <2>2, <3>1, <3>2
    <2> QED
      BY <2>5, <2>6
  <1>2. reader.got \in Seq(Contract)
    BY DEF TypeInv, ReadContracts
  <1>3. reader.got \o entries \in Seq(Contract)
    BY <1>2, ConcatProperties
  <1>4. reader' = [what |-> "contracts",
                   offset |-> IF isLast THEN reader.offset ELSE reader.offset + limit,
                   got |-> reader.got \o entries,
                   sought |-> {},
                   done |-> isLast]
    BY <1>1, PageFields DEF ReadContracts, TypeInv
  <1>5. reader.offset \in Nat
    BY DEF TypeInv
  <1>6. UNCHANGED <<factoryVars, dbVars, deploy, txs>>
    BY DEF ReadContracts
  <1> QED
    BY <1>3, <1>4, <1>5, <1>6 DEF TypeInv, factoryVars, dbVars

LEMMA ReadRowsType == TypeInv /\ ReadRows => TypeInv'
  <1> SUFFICES ASSUME TypeInv, ReadRows PROVE TypeInv'
    OBVIOUS
  <1> DEFINE answer == ListMarkets(reader.offset, PageSize)
  <1>0. PageSize \in Nat /\ reader.offset \in Nat
    BY RegistryAssumption DEF TypeInv
  <1>1. answer.markets \in Seq(Ids) /\ answer.total = Len(created)
    BY <1>0, PageOfRows
  <1>2. Page(answer.markets, PageSize, reader.offset + PageSize >= answer.total)
    BY DEF ReadRows
  <1>3. reader.got \o answer.markets \in Seq(Ids)
    BY <1>1, ConcatProperties DEF TypeInv, ReadRows
  <1> DEFINE isLast == reader.offset + PageSize >= answer.total
  <1>4. isLast \in BOOLEAN
    BY <1>0, <1>1
  <1> HIDE DEF answer, isLast
  <1>5. Page(answer.markets, PageSize, isLast)
    BY <1>2 DEF isLast
  <1>6. reader' = [what |-> "rows",
                   offset |-> IF isLast THEN reader.offset ELSE reader.offset + PageSize,
                   got |-> reader.got \o answer.markets,
                   sought |-> reader.sought,
                   done |-> isLast]
    BY <1>4, <1>5, PageFields DEF ReadRows
  <1>7. UNCHANGED <<factoryVars, dbVars, deploy, txs>>
    BY DEF ReadRows
  <1> QED
    BY <1>0, <1>3, <1>4, <1>6, <1>7 DEF TypeInv, factoryVars, dbVars

LEMMA CreateType ==
    ASSUME TypeInv, NEW id \in Ids, Create(id), UNCHANGED <<dbVars, deploy, reader>>,
           NEW i \in 1..Len(txs), txs' = [txs EXCEPT ![i].state = "success"]
    PROVE  TypeInv'
  <1> DEFINE new == [id |-> id, resolver |-> resolver, treasury |-> treasury]
  <1>1. new \in Contract
    BY DEF TypeInv, Contract
  <1>2. allMarkets' \in Seq(Contract) /\ Len(allMarkets') = Len(allMarkets) + 1
    BY <1>1, AppendProperties DEF Create, TypeInv
  <1>3. txs' \in Seq(RegistryTx) /\ Len(txs') = Len(txs)
    <2>1. txs[i] \in RegistryTx
      BY ElementOfSeq DEF TypeInv
    <2>2. [txs[i] EXCEPT !.state = "success"] \in RegistryTx
      BY <2>1 DEF RegistryTx
    <2> QED
      BY <2>2, ExceptSeq DEF TypeInv
  <1>4. Len(allMarkets) \in Nat
    BY LenProperties DEF TypeInv
  <1>5. markets' \in [Ids -> 0..Len(allMarkets')]
    BY <1>2, <1>4 DEF Create, TypeInv
  <1>6. row' \in [Ids -> [status : {"NONE", "PENDING", "OPEN"}, contract : 0..Len(allMarkets')]]
    BY <1>2, <1>4 DEF dbVars, TypeInv
  <1> QED
    BY <1>2, <1>3, <1>5, <1>6 DEF TypeInv, Create, dbVars

\* The other steps of rows and jobs leave the factory and the reader alone.
LEMMA RowStepType ==
    ASSUME TypeInv, NEW id \in Ids,
           CreateRow(id) \/ Deploy(id) \/ Receipt(id) \/ WriteOpen(id) \/ DeployFails(id)
    PROVE  TypeInv'
  <1>0. Len(txs) \in Nat /\ Len(created) \in Nat /\ Len(allMarkets) \in Nat
    BY LenProperties DEF TypeInv
  <1>1. CASE CreateRow(id)
    <2>1. created' \in Seq(Ids)
      BY <1>1, AppendProperties DEF CreateRow, TypeInv
    <2> QED
      BY <1>1, <2>1 DEF CreateRow, TypeInv, factoryVars
  <1>2. CASE Deploy(id)
    <2> DEFINE new == [id |-> id, state |-> "pending"]
    <2>1. txs' = Append(txs, new) /\ new \in RegistryTx
      BY <1>2 DEF Deploy, RegistryTx
    <2>2. txs' \in Seq(RegistryTx) /\ Len(txs') = Len(txs) + 1
      BY <2>1, AppendProperties DEF TypeInv
    <2>3. /\ deploy' \in [Ids -> [pc : {"idle", "wait", "write"}, tx : 0..Len(txs')]]
          /\ \A i \in Ids : deploy'[i].pc = "wait" => deploy'[i].tx # 0
      BY <1>0, <1>2, <2>2 DEF Deploy, TypeInv
    <2> QED
      BY <1>2, <2>2, <2>3 DEF Deploy, TypeInv, factoryVars, dbVars
  <1>3. CASE Receipt(id)
    <2>1. /\ deploy' \in [Ids -> [pc : {"idle", "wait", "write"}, tx : 0..Len(txs)]]
          /\ \A i \in Ids : deploy'[i].pc = "wait" => deploy'[i].tx # 0
      <3>1. CASE deploy' = [deploy EXCEPT ![id].pc = "write"]
        BY <3>1 DEF TypeInv
      <3>2. CASE deploy' = [deploy EXCEPT ![id] = NoDeploy]
        BY <1>0, <3>2 DEF NoDeploy, TypeInv
      <3> QED
        BY <1>3, <3>1, <3>2 DEF Receipt
    <2>2. UNCHANGED <<factoryVars, dbVars, txs, reader>>
      BY <1>3 DEF Receipt
    <2> QED
      BY <2>1, <2>2 DEF TypeInv, factoryVars, dbVars
  <1>4. CASE WriteOpen(id)
    <2>1. /\ row' \in [Ids -> [status : {"NONE", "PENDING", "OPEN"}, contract : 0..Len(allMarkets)]]
          /\ \A i \in Ids : row'[i].status = "OPEN" <=> row'[i].contract # 0
      BY <1>0, <1>4 DEF WriteOpen, GetMarket, TypeInv
    <2>2. /\ deploy' \in [Ids -> [pc : {"idle", "wait", "write"}, tx : 0..Len(txs)]]
          /\ \A i \in Ids : deploy'[i].pc = "wait" => deploy'[i].tx # 0
      BY <1>0, <1>4 DEF WriteOpen, NoDeploy, TypeInv
    <2> QED
      BY <1>4, <2>1, <2>2 DEF WriteOpen, TypeInv, factoryVars
  <1>5. CASE DeployFails(id)
    BY <1>0, <1>5 DEF DeployFails, NoDeploy, TypeInv, factoryVars, dbVars
  <1> QED
    BY <1>1, <1>2, <1>3, <1>4, <1>5

\* A transaction is mined: it makes a contract, or nothing but its state changes.
LEMMA MineCases ==
    ASSUME TypeInv, Mine
    PROVE  /\ UNCHANGED <<dbVars, deploy, reader, rotations>>
           /\ \E i \in 1..Len(txs) :
                 \/ /\ txs[i].id \in Ids /\ markets[txs[i].id] = 0 /\ Create(txs[i].id)
                    /\ txs' = [txs EXCEPT ![i].state = "success"]
                 \/ /\ txs' = [txs EXCEPT ![i].state = "reverted"]
                    /\ UNCHANGED factoryVars
  <1>1. \A i \in 1..Len(txs) : txs[i] \in RegistryTx
    BY ElementOfSeq DEF TypeInv
  <1> QED
    BY <1>1 DEF Mine, MayCreate, RegistryTx

LEMMA MineType == TypeInv /\ Mine => TypeInv'
  <1> SUFFICES ASSUME TypeInv, Mine PROVE TypeInv'
    OBVIOUS
  <1>1. UNCHANGED <<dbVars, deploy, reader, rotations>>
    BY MineCases
  <1>2. ASSUME NEW i \in 1..Len(txs), txs' = [txs EXCEPT ![i].state = "reverted"],
               UNCHANGED factoryVars
        PROVE  TypeInv'
    <2>1. txs[i] \in RegistryTx
      BY ElementOfSeq DEF TypeInv
    <2>2. [txs[i] EXCEPT !.state = "reverted"] \in RegistryTx
      BY <2>1 DEF RegistryTx
    <2>3. txs' \in Seq(RegistryTx) /\ Len(txs') = Len(txs)
      BY <1>2, <2>2, ExceptSeq DEF TypeInv
    <2> QED
      BY <1>1, <1>2, <2>3 DEF TypeInv, factoryVars, dbVars
  <1>3. ASSUME NEW i \in 1..Len(txs), txs[i].id \in Ids, Create(txs[i].id),
               txs' = [txs EXCEPT ![i].state = "success"]
        PROVE  TypeInv'
    BY <1>1, <1>3, CreateType
  <1> QED
    BY <1>2, <1>3, MineCases

LEMMA StartReadingType == TypeInv /\ StartReading => TypeInv'
  <1> SUFFICES ASSUME TypeInv, StartReading PROVE TypeInv'
    OBVIOUS
  <1>1. \A j \in DOMAIN created : created[j] \in Ids
    BY LenProperties, ElementOfSeq DEF TypeInv
  <1>2. ToSet(created) \subseteq Ids
    BY <1>1 DEF ToSet
  <1>3. <<>> \in Seq(Ids) /\ <<>> \in Seq(Contract)
    BY EmptySeq
  <1> QED
    BY <1>2, <1>3 DEF StartReading, TypeInv, factoryVars, dbVars

LEMMA TypeInvStep == TypeInv /\ PagingInv /\ [Next]_vars => TypeInv'
  <1> SUFFICES ASSUME TypeInv, PagingInv, [Next]_vars PROVE TypeInv'
    OBVIOUS
  <1>1. CASE RotateRoles
    BY <1>1 DEF RotateRoles, UpdateResolver, UpdateTreasury, TypeInv, dbVars
  <1>2. CASE UNCHANGED vars
    BY <1>2 DEF vars, factoryVars, dbVars, TypeInv
  <1> QED
    BY <1>1, <1>2, RowStepType, MineType, StartReadingType, ReadContractsType, ReadRowsType
    DEF Next

-----------------------------------------------------------------------------
(* The factory and the rows *)

LEMMA RegistryInvImpliesOneContract ==
    ASSUME TypeInv, RegistryInv PROVE OneContractPerMarket
  <1>1. \A i, j \in 1..Len(allMarkets) : allMarkets[i].id = allMarkets[j].id => i = j
    BY DEF RegistryInv
  <1>2. \A id \in Ids : markets[id] # 0 => markets[id] \in 1..Len(allMarkets)
    BY LenProperties DEF TypeInv
  <1> QED
    BY <1>1, <1>2 DEF RegistryInv, OneContractPerMarket

\* A new contract gets the next place; its id had none before.
LEMMA CreateStep ==
    ASSUME TypeInv, RegistryInv, RowInv, NEW id \in Ids, markets[id] = 0, Create(id),
           UNCHANGED row
    PROVE  RegistryInv' /\ RowInv'
  <1> DEFINE new == [id |-> id, resolver |-> resolver, treasury |-> treasury]
             n == Len(allMarkets)
  <1>1. /\ allMarkets \in Seq(Contract) /\ new \in Contract
        /\ allMarkets' = Append(allMarkets, new)
    BY DEF TypeInv, Contract, Create
  <1>2. /\ Len(allMarkets') = n + 1 /\ n \in Nat
        /\ \A i \in 1..n : allMarkets'[i] = allMarkets[i]
        /\ allMarkets'[n + 1] = new
    BY <1>1, AppendProperties, LenProperties
  <1>3. markets' = [markets EXCEPT ![id] = n + 1] /\ markets \in [Ids -> 0..n]
    BY DEF Create, TypeInv
  <1>4. \A i \in 1..n : allMarkets[i].id \in Ids
    <2>1. \A i \in 1..n : allMarkets[i] \in Contract
      BY <1>1, ElementOfSeq
    <2> QED
      BY <2>1 DEF Contract
  <1>5. ASSUME NEW i \in 1..Len(allMarkets') PROVE markets'[allMarkets'[i].id] = i
    <2>1. CASE i = n + 1
      BY <1>2, <1>3, <2>1
    <2>2. CASE i \in 1..n
      <3>1. markets[allMarkets[i].id] = i /\ i # 0
        BY <2>2 DEF RegistryInv
      <3>2. allMarkets[i].id # id
        BY <3>1
      <3> QED
        BY <1>2, <1>3, <1>4, <2>2, <3>1, <3>2
    <2> QED
      BY <1>2, <2>1, <2>2
  <1>6. ASSUME NEW m \in Ids, markets'[m] # 0 PROVE allMarkets'[markets'[m]].id = m
    <2>1. CASE m = id
      BY <1>2, <1>3, <2>1
    <2>2. CASE m # id
      <3>1. markets'[m] = markets[m] /\ markets[m] \in 1..n
        BY <1>2, <1>3, <1>6, <2>2
      <3> QED
        BY <1>2, <1>6, <3>1 DEF RegistryInv
    <2> QED
      BY <2>1, <2>2
  <1>7. RowInv'
    BY <1>3 DEF RowInv, TypeInv
  <1> QED
    BY <1>5, <1>6, <1>7 DEF RegistryInv

LEMMA RegistryStep ==
    TypeInv /\ RegistryInv /\ RowInv /\ [Next]_vars => RegistryInv' /\ RowInv'
  <1> SUFFICES ASSUME TypeInv, RegistryInv, RowInv, [Next]_vars
               PROVE  RegistryInv' /\ RowInv'
    OBVIOUS
  <1>1. ASSUME UNCHANGED <<markets, allMarkets, row>> PROVE RegistryInv' /\ RowInv'
    BY <1>1 DEF RegistryInv, RowInv
  <1>2. ASSUME NEW id \in Ids, CreateRow(id) PROVE RegistryInv' /\ RowInv'
    BY <1>2 DEF CreateRow, factoryVars, RegistryInv, RowInv, TypeInv
  <1>3. ASSUME NEW id \in Ids, WriteOpen(id) PROVE RegistryInv' /\ RowInv'
    BY <1>3 DEF WriteOpen, GetMarket, factoryVars, RegistryInv, RowInv, TypeInv
  <1>4. CASE Mine
    BY <1>1, <1>4, MineCases, CreateStep DEF factoryVars, dbVars
  <1>5. ASSUME NEW id \in Ids, Deploy(id) \/ Receipt(id) \/ DeployFails(id)
        PROVE  RegistryInv' /\ RowInv'
    BY <1>1, <1>5 DEF Deploy, Receipt, DeployFails, factoryVars, dbVars
  <1>6. CASE RotateRoles
    BY <1>1, <1>6 DEF RotateRoles, UpdateResolver, UpdateTreasury, dbVars
  <1>7. CASE StartReading \/ ReadContracts \/ ReadRows
    BY <1>1, <1>7 DEF StartReading, ReadContracts, ReadRows, factoryVars, dbVars
  <1>8. CASE UNCHANGED vars
    BY <1>1, <1>8 DEF vars, factoryVars, dbVars
  <1> QED
    BY <1>2, <1>3, <1>4, <1>5, <1>6, <1>7, <1>8 DEF Next

-----------------------------------------------------------------------------
(* The reader *)

LEMMA PagingInvImpliesPrefix ==
    ASSUME TypeInv, PagingInv PROVE PagesAreAPrefix
  <1> SUFFICES ASSUME reader.what = "contracts" PROVE IsPrefix(reader.got, allMarkets)
    BY DEF PagesAreAPrefix
  <1>1. reader.got \in Seq(Contract)
    BY DEF TypeInv
  <1>2. SubSeq(reader.got, 1, Len(reader.got)) = reader.got
    BY <1>1, SubSeqFull
  <1> QED
    BY <1>2 DEF PagingInv, IsPrefix

LEMMA ListingInvImpliesComplete ==
    ASSUME TypeInv, ListingInv PROVE ListingMissesNothing
  BY DEF TypeInv, ListingInv, ListingMissesNothing

\* A page that is neither the last nor a revert is full, and ends where the
\* next one begins.
LEMMA ReadContractsPaging ==
    TypeInv /\ PagingInv /\ ReadContracts => PagingInv'
  <1> SUFFICES ASSUME TypeInv, PagingInv, ReadContracts PROVE PagingInv'
    OBVIOUS
  <1>0. PICK limit \in {PageSize, MAX_UINT} :
            IF PageReverts(reader.offset, limit) THEN Page(<<>>, limit, TRUE)
            ELSE LET page == GetMarkets(reader.offset, limit)
                 IN  Page(page, limit, Len(page) < limit)
    BY DEF ReadContracts
  <1>1. limit \in Nat
    BY FactoryAssumption, RegistryAssumption
  <1>2. /\ reader.got \in Seq(Contract)
        /\ reader.offset = Len(reader.got)
        /\ reader.offset \in 0..Len(allMarkets)
        /\ reader.got = SubSeq(allMarkets, 1, reader.offset)
    BY LenProperties DEF TypeInv, ReadContracts, PagingInv
  <1>3. UNCHANGED allMarkets
    BY DEF ReadContracts, factoryVars
  <1>4. CASE PageReverts(reader.offset, limit)
    <2>1. Page(<<>>, limit, TRUE)
      BY <1>0, <1>4
    <2>2. reader'.got = reader.got \o <<>> /\ reader'.done
      BY <2>1 DEF Page, TypeInv
    <2>3. reader'.got = reader.got
      BY <1>2, <2>2, ConcatEmptySeq
    <2> QED
      BY <1>2, <1>3, <2>2, <2>3 DEF PagingInv
  <1>5. CASE ~PageReverts(reader.offset, limit)
    <2> DEFINE page == GetMarkets(reader.offset, limit)
               isLast == Len(page) < limit
               end == PageEnd(reader.offset, limit)
    <2>1. /\ end \in reader.offset..Len(allMarkets)
          /\ page \in Seq(Contract)
          /\ Len(page) = end - reader.offset
          /\ SubSeq(allMarkets, 1, reader.offset) \o page = SubSeq(allMarkets, 1, end)
      BY <1>1, <1>2, PageOfContracts
    <2>2. Page(page, limit, isLast) /\ isLast \in BOOLEAN
      BY <1>0, <1>5
    <2>9. end <= reader.offset + limit
      BY <1>1, <1>2, LenProperties DEF PageEnd, TypeInv
    <2> HIDE DEF page
    <2>3. ~isLast => end = reader.offset + limit
      <3> HIDE DEF end
      <3> QED
        BY <1>1, <1>2, <2>1, <2>9
    <2> HIDE DEF isLast
    <2>4. /\ reader'.got = reader.got \o page
          /\ reader'.done = isLast
          /\ reader'.offset = IF isLast THEN reader.offset ELSE reader.offset + limit
      BY <2>2, PageFields
    <2>5. reader'.got = SubSeq(allMarkets, 1, end)
      BY <1>2, <2>1, <2>4
    <2>6. Len(reader'.got) = end
      <3>1. Len(reader.got \o page) = Len(reader.got) + Len(page)
        BY <1>2, <2>1, ConcatProperties
      <3> HIDE DEF end
      <3> QED
        BY <1>2, <2>1, <2>4, <3>1
    <2> HIDE DEF end
    <2> QED
      BY <1>3, <2>1, <2>2, <2>3, <2>4, <2>5, <2>6 DEF PagingInv
  <1> QED
    BY <1>4, <1>5

LEMMA ToSetOfConcat ==
    ASSUME NEW S, NEW s \in Seq(S), NEW t \in Seq(S)
    PROVE  ToSet(s \o t) = ToSet(s) \cup ToSet(t)
  <1>1. /\ Len(s) \in Nat /\ Len(t) \in Nat /\ s \o t \in Seq(S)
        /\ DOMAIN s = 1..Len(s) /\ DOMAIN t = 1..Len(t)
    BY LenProperties, ConcatProperties
  <1>2. DOMAIN (s \o t) = 1..(Len(s) + Len(t))
    BY <1>1, LenProperties, ConcatProperties
  <1>3. \A i \in 1..(Len(s) + Len(t)) :
            (s \o t)[i] = IF i <= Len(s) THEN s[i] ELSE t[i - Len(s)]
    BY ConcatProperties
  <1>4. \A i \in 1..Len(t) : (s \o t)[Len(s) + i] = t[i]
    BY <1>1, <1>3
  <1>5. ASSUME NEW x \in ToSet(s \o t) PROVE x \in ToSet(s) \cup ToSet(t)
    <2>1. PICK i \in 1..(Len(s) + Len(t)) : x = (s \o t)[i]
      BY <1>2 DEF ToSet
    <2>2. i \in 1..Len(s) \/ i - Len(s) \in 1..Len(t)
      BY <1>1
    <2> QED
      BY <1>1, <1>3, <2>1, <2>2 DEF ToSet
  <1>6. ASSUME NEW x \in ToSet(s) PROVE x \in ToSet(s \o t)
    BY <1>1, <1>2, <1>3 DEF ToSet
  <1>7. ASSUME NEW x \in ToSet(t) PROVE x \in ToSet(s \o t)
    <2>1. PICK i \in 1..Len(t) : x = t[i]
      BY <1>1 DEF ToSet
    <2>2. Len(s) + i \in 1..(Len(s) + Len(t))
      BY <1>1
    <2> QED
      BY <1>2, <1>4, <2>1, <2>2 DEF ToSet
  <1> QED
    BY <1>5, <1>6, <1>7

\* What of the rest is not on this page is still ahead of the next one.
LEMMA ReadRowsListing ==
    TypeInv /\ ListingInv /\ ReadRows => ListingInv'
  <1> SUFFICES ASSUME TypeInv, ListingInv, ReadRows PROVE ListingInv'
    OBVIOUS
  <1> DEFINE answer == ListMarkets(reader.offset, PageSize)
             isLast == reader.offset + PageSize >= answer.total
  <1>0. PageSize \in Nat /\ reader.offset \in Nat /\ Len(created) \in Nat
    BY RegistryAssumption, LenProperties DEF TypeInv
  <1>1. /\ answer.markets \in Seq(Ids) /\ answer.total = Len(created)
        /\ \A j \in 1..Len(created) :
              j <= Len(created) - reader.offset /\ j > Len(created) - (reader.offset + PageSize)
                => created[j] \in ToSet(answer.markets)
    BY <1>0, PageOfRows
  <1>2. Page(answer.markets, PageSize, isLast) /\ UNCHANGED created
    BY DEF ReadRows, dbVars
  <1>3. isLast \in BOOLEAN /\ (isLast <=> reader.offset + PageSize >= Len(created))
    BY <1>0, <1>1
  <1> HIDE DEF answer, isLast
  <1>4. /\ reader'.got = reader.got \o answer.markets
        /\ reader'.done = isLast
        /\ reader'.sought = reader.sought
        /\ reader'.offset = IF isLast THEN reader.offset ELSE reader.offset + PageSize
    <2>1. Page(answer.markets, PageSize, isLast)
      BY <1>2
    <2> QED
      BY <1>3, <2>1 DEF Page, TypeInv
  <1>5. reader.got \in Seq(Ids)
    BY DEF TypeInv, ReadRows
  <1>6. ToSet(reader'.got) = ToSet(reader.got) \cup ToSet(answer.markets)
    BY <1>1, <1>4, <1>5, ToSetOfConcat
  <1>7. ASSUME NEW id \in reader.sought
        PROVE  \/ id \in ToSet(reader'.got)
               \/ /\ ~reader'.done
                  /\ \E j \in 1..Len(created) :
                        j <= Len(created) - reader'.offset /\ created[j] = id
    <2>1. CASE id \in ToSet(reader.got)
      BY <1>6, <2>1
    <2>2. CASE id \notin ToSet(reader.got)
      <3>1. PICK j \in 1..Len(created) : j <= Len(created) - reader.offset /\ created[j] = id
        BY <1>7, <2>2 DEF ListingInv, ReadRows
      <3>2. CASE j > Len(created) - (reader.offset + PageSize)
        BY <1>1, <1>6, <3>1, <3>2
      <3>3. CASE ~(j > Len(created) - (reader.offset + PageSize))
        <4>1. ~isLast /\ j <= Len(created) - (reader.offset + PageSize)
          BY <1>0, <1>3, <3>3
        <4> QED
          BY <1>4, <3>1, <4>1
      <3> QED
        BY <3>2, <3>3
    <2> QED
      BY <2>1, <2>2
  <1> QED
    BY <1>2, <1>4, <1>7 DEF ListingInv

LEMMA StartsReading ==
    ASSUME TypeInv, StartReading PROVE PagingInv' /\ ListingInv'
  <1>1. created \in Seq(Ids) /\ Len(created) \in Nat /\ DOMAIN created = 1..Len(created)
    BY LenProperties DEF TypeInv
  <1>2. UNCHANGED <<allMarkets, created>>
    BY DEF StartReading, factoryVars, dbVars
  <1>3. /\ reader'.offset = 0 /\ reader'.got = <<>> /\ ~reader'.done
        /\ reader'.what = "rows" => reader'.sought = ToSet(created)
    BY DEF StartReading
  <1>4. Len(<<>>) = 0 /\ SubSeq(allMarkets, 1, 0) = <<>> /\ Len(allMarkets) \in Nat
    BY EmptySeq, SubSeqEmpty, LenProperties DEF TypeInv
  <1>5. PagingInv'
    BY <1>2, <1>3, <1>4 DEF PagingInv
  <1>6. \A id \in ToSet(created) : \E j \in 1..Len(created) : created[j] = id
    BY <1>1 DEF ToSet
  <1>7. ListingInv'
    BY <1>1, <1>2, <1>3, <1>6 DEF ListingInv
  <1> QED
    BY <1>5, <1>7

\* What is added meanwhile is added at the other end of what the reader has read.
LEMMA ReaderStep ==
    TypeInv /\ PagingInv /\ ListingInv /\ [Next]_vars => PagingInv' /\ ListingInv'
  <1> SUFFICES ASSUME TypeInv, PagingInv, ListingInv, [Next]_vars
               PROVE  PagingInv' /\ ListingInv'
    OBVIOUS
  <1>1. ASSUME UNCHANGED <<allMarkets, created, reader>> PROVE PagingInv' /\ ListingInv'
    BY <1>1 DEF PagingInv, ListingInv
  <1>2. ASSUME NEW id \in Ids, CreateRow(id) PROVE PagingInv' /\ ListingInv'
    <2>1. /\ created' = Append(created, id) /\ created \in Seq(Ids)
          /\ UNCHANGED <<allMarkets, reader>>
      BY <1>2 DEF CreateRow, factoryVars, TypeInv
    <2>2. /\ Len(created') = Len(created) + 1 /\ Len(created) \in Nat
          /\ \A j \in 1..Len(created) : created'[j] = created[j]
      BY <2>1, AppendProperties, LenProperties
    <2>3. reader.offset \in Nat
      BY DEF TypeInv
    <2>4. ListingInv'
      BY <2>1, <2>2, <2>3 DEF ListingInv
    <2> QED
      BY <2>1, <2>4 DEF PagingInv
  <1>3. ASSUME NEW id \in Ids, Create(id), UNCHANGED <<created, reader>>
        PROVE  PagingInv' /\ ListingInv'
    <2> DEFINE new == [id |-> id, resolver |-> resolver, treasury |-> treasury]
    <2>1. /\ allMarkets \in Seq(Contract) /\ new \in Contract
          /\ allMarkets' = Append(allMarkets, new)
      BY <1>3 DEF TypeInv, Contract, Create
    <2>2. Len(allMarkets') = Len(allMarkets) + 1 /\ Len(allMarkets) \in Nat
      BY <2>1, AppendProperties, LenProperties
    <2>3. ASSUME NEW n \in 0..Len(allMarkets)
          PROVE  SubSeq(allMarkets', 1, n) = SubSeq(allMarkets, 1, n)
      BY <2>1, AppendKeepsPages
    <2>4. reader.what = "contracts" => Len(reader.got) \in Nat
      BY LenProperties DEF TypeInv
    <2>5. PagingInv'
      BY <1>3, <2>2, <2>3, <2>4 DEF PagingInv
    <2> QED
      BY <1>3, <2>5 DEF ListingInv
  <1>4. CASE Mine
    BY <1>1, <1>3, <1>4, MineCases DEF factoryVars, dbVars
  <1>5. ASSUME NEW id \in Ids, Deploy(id) \/ Receipt(id) \/ WriteOpen(id) \/ DeployFails(id)
        PROVE  PagingInv' /\ ListingInv'
    BY <1>1, <1>5 DEF Deploy, Receipt, WriteOpen, DeployFails, factoryVars, dbVars
  <1>6. CASE RotateRoles
    BY <1>1, <1>6 DEF RotateRoles, UpdateResolver, UpdateTreasury, dbVars
  <1>7. CASE StartReading
    BY <1>7, StartsReading
  <1>8. CASE ReadContracts
    <2>1. reader'.what = "contracts"
      BY <1>8 DEF ReadContracts, Page, TypeInv
    <2> QED
      BY <1>8, <2>1, ReadContractsPaging DEF ListingInv
  <1>9. CASE ReadRows
    <2>1. reader'.what = "rows"
      BY <1>9 DEF ReadRows, Page, TypeInv
    <2> QED
      BY <1>9, <2>1, ReadRowsListing DEF PagingInv
  <1>10. CASE UNCHANGED vars
    BY <1>1, <1>10 DEF vars, factoryVars, dbVars
  <1> QED
    BY <1>2, <1>4, <1>5, <1>6, <1>7, <1>8, <1>9, <1>10 DEF Next

-----------------------------------------------------------------------------
(* Theorems *)

LEMMA Invariant == Spec => []IInv
  <1>1. Init => IInv
    <2> SUFFICES ASSUME Init PROVE IInv
      OBVIOUS
    <2>1. Len(<<>>) = 0
      BY EmptySeq
    <2> QED
      BY <2>1, TypeInvInit
      DEF Init, FactoryInit, IInv, RegistryInv, RowInv, PagingInv, ListingInv
  <1>2. IInv /\ [Next]_vars => IInv'
    BY TypeInvStep, RegistryStep, ReaderStep DEF IInv
  <1> QED
    BY <1>1, <1>2, PTL DEF Spec

\* TypeOK of the factory, the rows and their deploy jobs.
THEOREM TypeCorrect == Spec => []TypeOK
  <1>1. IInv => TypeOK
    BY TypeInvImpliesTypeOK DEF IInv
  <1> QED
    BY <1>1, Invariant, PTL

\* createMarket's require() is enough for one contract per market, however many
\* deploy jobs are retried while their transactions are under way.
THEOREM ContractsAreUnique == Spec => []OneContractPerMarket
  <1>1. IInv => OneContractPerMarket
    BY RegistryInvImpliesOneContract DEF IInv
  <1> QED
    BY <1>1, Invariant, PTL

\* getDeployedMarketAddress gives a row the contract of its own market.
THEOREM RowsAreRight == Spec => []RowsNameTheirContract
  <1>1. IInv => RowsNameTheirContract
    BY DEF IInv, TypeInv, RegistryInv, RowInv, RowsNameTheirContract
  <1> QED
    BY <1>1, Invariant, PTL

\* getMarkets, page by page with any page size or the largest limit, gives a
\* prefix of the factory's list while the list grows.
THEOREM PagesAreSound == Spec => []PagesAreAPrefix
  <1>1. IInv => PagesAreAPrefix
    BY PagingInvImpliesPrefix DEF IInv
  <1> QED
    BY <1>1, Invariant, PTL

\* GET /markets, page by page, gives every market there was at the start,
\* though new ones push the others towards later pages.
THEOREM ListingIsComplete == Spec => []ListingMissesNothing
  <1>1. IInv => ListingMissesNothing
    BY ListingInvImpliesComplete DEF IInv
  <1> QED
    BY <1>1, Invariant, PTL

=============================================================================
