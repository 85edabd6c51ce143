---------------------------- MODULE MarketFeedProofs ----------------------------
(*****************************************************************************)
(* The status a page shows never goes back, for any number of slow polls,    *)
(* sockets and versions of the pools.                                        *)
(*                                                                           *)
(* A copy is only ever replaced by the answer of a GET that began after it   *)
(* was made, for a fetch is cancelled when another is asked; so the copy is  *)
(* behind the answer under way, and that one is behind the row.              *)
(*****************************************************************************)
EXTENDS MarketFeed, SequenceTheorems, TLAPS

-----------------------------------------------------------------------------
(* Ranks and types *)

StatusNames == {"PENDING", "OPEN", "LOCKED", "RESOLVED"}
Message == [type : {"update"}, status : StatusNames, pool : {0}]
             \cup [type : {"pool"}, status : {"none"}, pool : 1..MaxPool]
Copies == [status : StatusNames, pool : 1..MaxPool]
Request == [pc : {"none", "asked", "answered"}, answer : Copies \cup {Nothing}]

LEMMA StatusesAreNamed == ToSet(Statuses) = StatusNames
  BY DEF ToSet, Statuses, StatusNames

LEMMA RowsAreCopies == Rows = Copies
  BY StatusesAreNamed DEF Rows, Copies

LEMMA RankIs ==
    /\ Rank("PENDING") = 1 /\ Rank("OPEN") = 2 /\ Rank("LOCKED") = 3 /\ Rank("RESOLVED") = 4
  <1>1. /\ Statuses[1] = "PENDING" /\ Statuses[2] = "OPEN"
        /\ Statuses[3] = "LOCKED" /\ Statuses[4] = "RESOLVED"
    BY DEF Statuses
  <1>2. 1..4 = {1, 2, 3, 4}
    OBVIOUS
  <1>3. ASSUME NEW k \in 1..4 PROVE Rank(Statuses[k]) = k
    <2>1. \A i \in 1..4 : Statuses[i] = Statuses[k] => i = k
      BY <1>1, <1>2
    <2> QED
      BY <2>1 DEF Rank
  <1> QED
    BY <1>1, <1>3

LEMMA RankNat == ASSUME NEW s \in StatusNames PROVE Rank(s) \in 1..4
  BY RankIs DEF StatusNames

LEMMA NextStatus ==
    ASSUME NEW s \in StatusNames, s # "RESOLVED"
    PROVE  Statuses[Rank(s) + 1] \in StatusNames /\ Rank(s) <= Rank(Statuses[Rank(s) + 1])
  <1>1. /\ Statuses[2] = "OPEN" /\ Statuses[3] = "LOCKED" /\ Statuses[4] = "RESOLVED"
    BY DEF Statuses
  <1> QED
    BY <1>1, RankIs DEF StatusNames

LEMMA NothingIsNoCopy == Nothing \notin Copies
  BY DEF Nothing, Copies, StatusNames

-----------------------------------------------------------------------------
(* The inductive invariant *)

GatewayInv ==
    /\ row \in Copies
    /\ lastSeen \in Copies \cup {Nothing} /\ lastSeen.status # "PENDING"
    /\ slow \in [SlowPolls -> Copies \cup {Nothing}]
    /\ \A p \in SlowPolls : slow[p].status # "PENDING"

SocketsInv ==
    /\ socket \in [Sockets -> [state : {"gone", "connecting", "open", "waiting"},
                               subscribed : BOOLEAN]]
    /\ \A s \in Sockets : socket[s].subscribed => socket[s].state = "open"
    /\ queue \in [Sockets -> Seq(Message)]

PageInv ==
    /\ current \in Sockets \cup {Unmounted}
    /\ cache \in Copies \cup {Nothing}
    /\ fetch \in Request
    /\ fetch.pc = "answered" => fetch.answer \in Copies

\* The copy is behind the answer under way, and both are behind the row.
OrderInv ==
    /\ cache # Nothing => Rank(cache.status) <= Rank(row.status)
    /\ fetch.pc = "answered" =>
          /\ Rank(fetch.answer.status) <= Rank(row.status)
          /\ cache # Nothing => Rank(cache.status) <= Rank(fetch.answer.status)

IInv == GatewayInv /\ SocketsInv /\ PageInv /\ OrderInv

LEMMA InvInit == Init => IInv
  <1> SUFFICES ASSUME Init PROVE IInv
    OBVIOUS
  <1>1. row \in Copies
    BY FeedAssumption, RowsAreCopies DEF Init, Copies, StatusNames
  <1>2. /\ Nothing \in Copies \cup {Nothing} /\ Nothing.status # "PENDING"
        /\ NoFetch \in Request /\ NoFetch.pc = "none"
    BY DEF Nothing, NoFetch, Request
  <1>3. SocketsInv
    BY EmptySeq DEF Init, SocketsInv, Gone
  <1> QED
    BY <1>1, <1>2, <1>3 DEF Init, IInv, GatewayInv, PageInv, OrderInv

-----------------------------------------------------------------------------
(* The row, the gateway and the sockets *)

\* The row moves on.
LEMMA RowMoves ==
    ASSUME IInv, row' \in Copies, Rank(row.status) <= Rank(row'.status),
           UNCHANGED <<gateway, socket, queue, told, page>>
    PROVE  IInv'
  <1>1. Rank(row.status) \in Nat /\ Rank(row'.status) \in Nat
    BY RankNat DEF IInv, GatewayInv, Copies
  <1>2. cache # Nothing => Rank(cache.status) \in Nat
    BY RankNat DEF IInv, PageInv, Copies
  <1>3. fetch.pc = "answered" => Rank(fetch.answer.status) \in Nat
    BY RankNat DEF IInv, PageInv, Copies
  <1>4. OrderInv'
    BY <1>1, <1>2, <1>3 DEF IInv, OrderInv, page
  <1> QED
    BY <1>4 DEF IInv, GatewayInv, SocketsInv, PageInv, gateway, page

LEMMA StatusChangesInv == ASSUME IInv, StatusChanges PROVE IInv'
  <1>1. /\ row \in Copies /\ row.status \in StatusNames /\ row.status # "RESOLVED"
        /\ row' = [row EXCEPT !.status = Statuses[Rank(row.status) + 1]]
    BY DEF StatusChanges, IInv, GatewayInv, Copies
  <1>2. row' \in Copies /\ row'.status = Statuses[Rank(row.status) + 1]
    BY <1>1, NextStatus DEF Copies
  <1> QED
    BY <1>1, <1>2, NextStatus, RowMoves DEF StatusChanges

LEMMA PoolChangesInv == ASSUME IInv, PoolChanges PROVE IInv'
  <1>1. row' \in Copies /\ row'.status = row.status
    BY FeedAssumption DEF PoolChanges, IInv, GatewayInv, Copies
  <1>2. Rank(row.status) <= Rank(row'.status)
    BY <1>1, RankNat DEF Copies
  <1> QED
    BY <1>1, <1>2, RowMoves DEF PoolChanges

LEMMA NewsType ==
    ASSUME GatewayInv, NEW r \in Copies PROVE News(r) \in Seq(Message)
  <1>1. <<>> \in Seq(Message)
    OBVIOUS
  <1>2. [type |-> "update", status |-> r.status, pool |-> 0] \in Message
    BY DEF Message, Copies
  <1>3. [type |-> "pool", status |-> "none", pool |-> r.pool] \in Message
    BY DEF Message, Copies
  <1>4. \A m \in Message : <<m>> \in Seq(Message)
    OBVIOUS
  <1>5. \A a, b \in Seq(Message) : a \o b \in Seq(Message)
    OBVIOUS
  <1> HIDE DEF Message
  <1>6. (IF lastSeen.status \in {"none", r.status} THEN <<>>
         ELSE <<[type |-> "update", status |-> r.status, pool |-> 0]>>) \in Seq(Message)
    BY <1>1, <1>2, <1>4
  <1>7. (IF lastSeen.pool \in {0, r.pool} THEN <<>>
         ELSE <<[type |-> "pool", status |-> "none", pool |-> r.pool]>>) \in Seq(Message)
    BY <1>1, <1>3, <1>4
  <1> QED
    BY <1>5, <1>6, <1>7 DEF News

LEMMA CompareInv ==
    ASSUME IInv, NEW r \in Copies, r.status # "PENDING", Compare(r),
           slow' \in [SlowPolls -> Copies \cup {Nothing}],
           \A p \in SlowPolls : slow'[p].status # "PENDING",
           UNCHANGED <<row, socket, told, page>>
    PROVE  IInv'
  <1>1. queue' \in [Sockets -> Seq(Message)]
    <2>1. ASSUME NEW s \in Sockets
          PROVE  (IF socket[s].subscribed THEN queue[s] \o News(r) ELSE queue[s]) \in Seq(Message)
      BY NewsType DEF IInv, SocketsInv
    <2> QED
      BY <2>1 DEF Compare
  <1>2. GatewayInv'
    BY DEF IInv, GatewayInv, Compare
  <1> QED
    BY <1>1, <1>2 DEF IInv, SocketsInv, PageInv, OrderInv, page

LEMMA PollInv == ASSUME IInv, Poll PROVE IInv'
  BY CompareInv DEF Poll, Polled, IInv, GatewayInv

LEMMA SlowPollReadInv == ASSUME IInv, NEW p \in SlowPolls, SlowPollRead(p) PROVE IInv'
  <1>1. row \in Copies /\ row.status # "PENDING" /\ slow' = [slow EXCEPT ![p] = row]
    BY DEF SlowPollRead, Polled, IInv, GatewayInv
  <1>2. GatewayInv'
    BY <1>1 DEF SlowPollRead, IInv, GatewayInv
  <1> QED
    BY <1>2 DEF SlowPollRead, IInv, SocketsInv, PageInv, OrderInv, page

LEMMA SlowPollDoneInv == ASSUME IInv, NEW p \in SlowPolls, SlowPollDone(p) PROVE IInv'
  <1>1. slow[p] \in Copies /\ slow[p].status # "PENDING"
    BY DEF SlowPollDone, IInv, GatewayInv
  <1>2. /\ slow' \in [SlowPolls -> Copies \cup {Nothing}]
        /\ \A q \in SlowPolls : slow'[q].status # "PENDING"
    BY DEF SlowPollDone, IInv, GatewayInv, Nothing
  <1> QED
    BY <1>1, <1>2, CompareInv DEF SlowPollDone

\* What happens to sockets and messages does not touch the copy.
LEMMA SocketsMove ==
    ASSUME IInv, SocketsInv', current' \in Sockets \cup {Unmounted},
           UNCHANGED <<row, gateway, cache, fetch>>
    PROVE  IInv'
  BY DEF IInv, GatewayInv, PageInv, OrderInv, gateway

LEMMA ConnectionInv ==
    ASSUME IInv, NEW s \in Sockets, Subscribe(s) \/ Open(s) \/ Reconnect(s) \/ Drop(s)
    PROVE  IInv'
  <1>1. CASE Subscribe(s)
    BY <1>1, SocketsMove DEF Subscribe, IInv, SocketsInv, PageInv, page
  <1>2. CASE Open(s)
    BY <1>2, SocketsMove DEF Open, IInv, SocketsInv, PageInv, page
  <1>3. CASE Reconnect(s)
    BY <1>3, SocketsMove DEF Reconnect, IInv, SocketsInv, PageInv, page
  <1>4. CASE Drop(s)
    BY <1>4, SocketsMove, EmptySeq DEF Drop, Closing, IInv, SocketsInv, PageInv, page
  <1> QED
    BY <1>1, <1>2, <1>3, <1>4

-----------------------------------------------------------------------------
(* The page *)

LEMMA AskedType == Asked \in Request /\ Asked.pc = "asked" /\ NoFetch \in Request /\ NoFetch.pc = "none"
  BY DEF Asked, NoFetch, Request

\* A fetch is asked, or the first one joined.
LEMMA FetchAsked ==
    ASSUME IInv, SocketsInv', current' \in Sockets \cup {Unmounted},
           fetch' \in {fetch, Asked}, UNCHANGED <<row, gateway, cache>>
    PROVE  IInv'
  <1>1. PageInv' /\ OrderInv'
    BY AskedType DEF IInv, PageInv, OrderInv
  <1> QED
    BY <1>1 DEF IInv, GatewayInv, gateway

LEMMA ReceiveInv == ASSUME IInv, NEW s \in Sockets, Receive(s) PROVE IInv'
  <1>1. /\ queue[s] \in Seq(Message) /\ queue[s] # <<>>
        /\ queue' = [queue EXCEPT ![s] = Tail(queue[s])]
        /\ UNCHANGED <<row, gateway, socket, current>>
    BY DEF Receive, IInv, SocketsInv
  <1>2. Head(queue[s]) \in Message /\ Tail(queue[s]) \in Seq(Message)
    BY <1>1, HeadTailProperties
  <1>3. SocketsInv'
    BY <1>1, <1>2 DEF IInv, SocketsInv
  <1>4. CASE fetch' \in {fetch, Asked} /\ UNCHANGED cache
    BY <1>1, <1>3, <1>4, FetchAsked DEF IInv, PageInv
  <1>5. CASE /\ Head(queue[s]).type = "pool" /\ UNCHANGED fetch
             /\ cache' = IF cache = Nothing THEN cache
                         ELSE [cache EXCEPT !.pool = Head(queue[s]).pool]
    <2>1. CASE cache = Nothing
      BY <1>1, <1>3, <1>5, <2>1, SocketsMove DEF IInv, PageInv
    <2>2. CASE cache # Nothing
      <3>1. Head(queue[s]).pool \in 1..MaxPool
        BY <1>2, <1>5 DEF Message
      <3>2. cache \in Copies /\ cache' \in Copies /\ cache'.status = cache.status
        BY <1>5, <2>2, <3>1 DEF IInv, PageInv, Copies
      <3>3. PageInv' /\ OrderInv'
        BY <1>1, <1>5, <2>2, <3>2 DEF IInv, PageInv, OrderInv
      <3> QED
        BY <1>1, <1>3, <3>3 DEF IInv, GatewayInv, gateway
    <2> QED
      BY <2>1, <2>2
  <1> QED
    BY <1>4, <1>5 DEF Receive, Refetch

LEMMA MountInv == ASSUME IInv, NEW s \in Sockets, Mount(s) PROVE IInv'
  <1>1. SocketsInv'
    <2>1. socket[s].subscribed = FALSE /\ UNCHANGED queue
      BY DEF Mount, Gone
    <2>2. socket' = [socket EXCEPT ![s] = [socket[s] EXCEPT !.state = "connecting"]]
      BY DEF Mount
    <2> QED
      BY <2>1, <2>2 DEF IInv, SocketsInv
  <1> QED
    BY <1>1, FetchAsked DEF Mount

LEMMA UnmountInv == ASSUME IInv, Unmount PROVE IInv'
  <1>1. current \in Sockets
    BY DEF Unmount, IInv, PageInv
  <1>2. SocketsInv'
    <2>1. PICK state \in {"gone", "waiting"} :
             socket' = [socket EXCEPT ![current] = [state |-> state, subscribed |-> FALSE]]
      BY DEF Unmount, Closing, Gone
    <2>2. queue' \in {queue, [queue EXCEPT ![current] = <<>>]}
      BY DEF Unmount, Closing
    <2>3. queue' \in [Sockets -> Seq(Message)]
      BY <1>1, <2>2, EmptySeq DEF IInv, SocketsInv
    <2>4. /\ socket' \in [Sockets -> [state : {"gone", "connecting", "open", "waiting"},
                                      subscribed : BOOLEAN]]
          /\ \A s \in Sockets : socket'[s].subscribed => socket'[s].state = "open"
      BY <1>1, <2>1 DEF IInv, SocketsInv
    <2> QED
      BY <2>3, <2>4 DEF SocketsInv
  <1> QED
    BY <1>2, SocketsMove DEF Unmount

LEMMA FocusInv == ASSUME IInv, Focus PROVE IInv'
  <1>1. SocketsInv' /\ current' \in Sockets \cup {Unmounted}
    BY DEF Focus, IInv, SocketsInv, PageInv
  <1> QED
    BY <1>1, FetchAsked DEF Focus

LEMMA FetchReadInv == ASSUME IInv, FetchRead PROVE IInv'
  <1>1. /\ fetch' \in Request /\ fetch'.pc = "answered" /\ fetch'.answer = row
        /\ row \in Copies
    BY DEF FetchRead, Request, IInv, GatewayInv
  <1>2. Rank(row.status) \in Nat
    BY <1>1, RankNat DEF Copies
  <1>3. PageInv' /\ OrderInv'
    BY <1>1, <1>2 DEF FetchRead, IInv, PageInv, OrderInv
  <1> QED
    BY <1>3 DEF FetchRead, IInv, GatewayInv, SocketsInv, gateway

LEMMA FetchDoneInv == ASSUME IInv, FetchDone PROVE IInv'
  <1>1. PageInv' /\ OrderInv'
    BY AskedType DEF FetchDone, IInv, PageInv, OrderInv
  <1> QED
    BY <1>1 DEF FetchDone, IInv, GatewayInv, SocketsInv, gateway

LEMMA InvStep == ASSUME IInv, [Next]_vars PROVE IInv'
  <1>1. CASE UNCHANGED vars
    BY <1>1 DEF vars, IInv, GatewayInv, SocketsInv, PageInv, OrderInv
  <1> QED
    BY <1>1, StatusChangesInv, PoolChangesInv, PollInv, SlowPollReadInv, SlowPollDoneInv,
       ConnectionInv, ReceiveInv, MountInv, UnmountInv, FocusInv, FetchReadInv, FetchDoneInv
       DEF Next

\* Who replaces the copy puts a later status in its place.
LEMMA StatusGoesOn ==
    ASSUME IInv, [Next]_vars, cache # Nothing PROVE Rank(cache.status) <= Rank(cache'.status)
  <1>1. cache \in Copies /\ Rank(cache.status) \in Nat
    BY RankNat DEF IInv, PageInv, Copies
  <1>2. CASE FetchDone
    BY <1>2 DEF FetchDone, IInv, OrderInv
  <1>3. CASE \E s \in Sockets : Receive(s)
    <2>1. cache'.status = cache.status
      BY <1>1, <1>3 DEF Receive, Copies
    <2> QED
      BY <1>1, <2>1
  <1>4. CASE UNCHANGED cache
    BY <1>1, <1>4
  <1>5. ~FetchDone /\ ~(\E s \in Sockets : Receive(s)) => UNCHANGED cache
    BY DEF Next, vars, page, StatusChanges, PoolChanges, Poll, SlowPollRead, SlowPollDone,
           Subscribe, Open, Drop, Reconnect, Mount, Unmount, Focus, FetchRead
  <1> QED
    BY <1>2, <1>3, <1>4, <1>5

-----------------------------------------------------------------------------
(* The theorems *)

LEMMA Invariance == Spec => []IInv
  BY InvInit, InvStep, PTL DEF Spec

\* Every variable has its type: a closed socket has no subscription, and no
\* poll has seen a market that is PENDING.
THEOREM TypeCorrect == Spec => []TypeOK
  <1>1. IInv => TypeOK
    BY RowsAreCopies DEF IInv, GatewayInv, SocketsInv, PageInv, TypeOK, Request
  <1> QED
    BY <1>1, Invariance, PTL

\* The status a page shows never goes back, however polls overlap, sockets
\* break and answers are overtaken.
THEOREM PageGoesForward == Spec => StatusNeverGoesBack
  <1>1. IInv /\ [Next]_vars
          => [cache # Nothing => Rank(cache.status) <= Rank(cache'.status)]_vars
    BY StatusGoesOn
  <1> QED
    BY <1>1, Invariance, PTL DEF Spec, StatusNeverGoesBack

=============================================================================
