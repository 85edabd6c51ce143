------------------------------- MODULE MarketFeed -------------------------------
(*****************************************************************************)
(* How a change of a market's row reaches the page that shows it.            *)
(*                                                                           *)
(* The api-gateway polls the table while any client is connected, compares   *)
(* it with what the last poll saw and broadcasts the differences             *)
(* (market.socket.ts); polls may overlap, for the timer does not wait for    *)
(* the query.  The page holds a WebSocket that reconnects (websocket.ts) and *)
(* a cached copy of the market (useMarkets.ts): a new status makes it fetch  *)
(* again, a new pool is written into the copy.  Leaving the page closes the  *)
(* socket, and its close handler connects again: old sockets stay on.        *)
(*                                                                           *)
(* A GET is taken to be answered in the end, the query's retry included.     *)
(*****************************************************************************)
EXTENDS Naturals, Sequences, SequencesExt

CONSTANTS
    SlowPolls,          \* polls that others may overtake
    Sockets,            \* sockets the page's browser ever holds
    MaxPool,            \* bound: versions of the pools, numbered from 1
    MaxQueue            \* bound: messages on their way to a socket

ASSUME FeedAssumption == MaxPool \in Nat \ {0} /\ MaxQueue \in Nat \ {0, 1}

Statuses == <<"PENDING", "OPEN", "LOCKED", "RESOLVED">>
PolledUnsettled == {"OPEN", "LOCKED"}          \* Mutant: settled markets are not polled.
Polled == {"OPEN", "LOCKED", "RESOLVED"}
Rank(status) == CHOOSE i \in 1..4 : Statuses[i] = status
Rows == [status : ToSet(Statuses), pool : 1..MaxPool]
Nothing == [status |-> "none", pool |-> 0]

VARIABLES
    row,            \* the market in the database
    lastSeen,       \* status and pools the gateway's polls saw last
    slow,           \* per slow poll: the row it has read and not yet compared
    socket,         \* per socket: its state, whether the gateway has its subscription
    queue,          \* per socket: messages on their way to the browser
    told,           \* history: the pool the mounted page's socket delivered last
    current,        \* the socket of the mounted page
    cache,          \* the page's copy of the market, kept when the page is left
    stale,          \* has the copy been invalidated while no page showed it?
    fetch           \* the GET under way

gateway == <<lastSeen, slow>>
page == <<current, cache, stale, fetch>>
vars == <<row, lastSeen, slow, socket, queue, told, current, cache, stale, fetch>>

NoFetch == [pc |-> "none", answer |-> Nothing]
Asked == [pc |-> "asked", answer |-> Nothing]
Gone == [state |-> "gone", subscribed |-> FALSE]
Unmounted == "unmounted"

Init ==
    /\ row = [status |-> "PENDING", pool |-> 1]
    /\ lastSeen = Nothing
    /\ slow = [p \in SlowPolls |-> Nothing]
    /\ socket = [s \in Sockets |-> Gone]
    /\ queue = [s \in Sockets |-> <<>>]
    /\ told = 0
    /\ current = Unmounted
    /\ cache = Nothing
    /\ stale = FALSE
    /\ fetch = NoFetch

-----------------------------------------------------------------------------
(* The database, as MarketLifecycle and StakeMirror change it. *)

StatusChanges ==
    /\ row.status # "RESOLVED"
    /\ row' = [row EXCEPT !.status = Statuses[Rank(@) + 1]]
    /\ UNCHANGED <<gateway, socket, queue, told, page>>

\* recordStake may write after the market was locked.
PoolChanges ==
    /\ row.status \in {"OPEN", "LOCKED"}
    /\ row.pool < MaxPool
    /\ row' = [row EXCEPT !.pool = @ + 1]
    /\ UNCHANGED <<gateway, socket, queue, told, page>>

-----------------------------------------------------------------------------
(* The gateway *)

Connected == {s \in Sockets : socket[s].state = "open"}

\* What differs from the last poll is news, except at first sight of the market.
News(r) ==
    (IF lastSeen.status \in {"none", r.status} THEN <<>>
     ELSE <<[type |-> "update", status |-> r.status, pool |-> 0]>>)
    \o (IF lastSeen.pool \in {0, r.pool} THEN <<>>
        ELSE <<[type |-> "pool", status |-> "none", pool |-> r.pool]>>)

\* Mutant: a busy socket is passed over, while the change counts as seen.
CompareIfIdle(r) ==
    /\ lastSeen' = r
    /\ queue' = [s \in Sockets |-> IF socket[s].subscribed /\ queue[s] = <<>>
                                   THEN News(r) ELSE queue[s]]

\* The body of a poll after its query, broadcastMarketUpdate to the clients
\* subscribed at this moment included.
Compare(r) ==
    /\ lastSeen' = r
    /\ queue' = [s \in Sockets |-> IF socket[s].subscribed
                                   THEN queue[s] \o News(r) ELSE queue[s]]
    /\ \A s \in Sockets : Len(queue'[s]) <= MaxQueue

\* Every five seconds, while there are clients: a poll that is done at once ...
Poll ==
    /\ Connected # {}
    /\ row.status \in Polled
    /\ Compare(row)
    /\ UNCHANGED <<row, slow, socket, told, page>>

\* ... and one whose query takes its time, while other polls come and go.
SlowPollRead(p) ==
    /\ Connected # {}
    /\ slow[p] = Nothing
    /\ row.status \in Polled
    /\ slow' = [slow EXCEPT ![p] = row]
    /\ UNCHANGED <<row, lastSeen, socket, queue, told, page>>

SlowPollDone(p) ==
    /\ slow[p] # Nothing
    /\ slow' = [slow EXCEPT ![p] = Nothing]
    /\ Compare(slow[p])
    /\ UNCHANGED <<row, socket, told, page>>

\* The client's first message arrives.
Subscribe(s) ==
    /\ socket[s].state = "open"
    /\ ~socket[s].subscribed
    /\ socket' = [socket EXCEPT ![s].subscribed = TRUE]
    /\ UNCHANGED <<row, gateway, queue, told, page>>

-----------------------------------------------------------------------------
(* The sockets of the browser *)

Open(s) ==
    /\ socket[s].state = "connecting"
    /\ socket' = [socket EXCEPT ![s].state = "open"]
    /\ UNCHANGED <<row, gateway, queue, told, page>>

\* Mutant: the gateway keeps a closed client's subscription.
ClosingSubscribed(s) ==
    /\ socket' = [socket EXCEPT ![s].state = "waiting"]
    /\ queue' = [queue EXCEPT ![s] = <<>>]
    /\ told' = IF s = current THEN 0 ELSE told

\* After onclose: the timer for the next attempt runs, messages are lost.
Closing(s) ==
    /\ socket' = [socket EXCEPT ![s] = [state |-> "waiting", subscribed |-> FALSE]]
    /\ queue' = [queue EXCEPT ![s] = <<>>]
    /\ told' = IF s = current THEN 0 ELSE told

Drop(s) ==
    /\ socket[s].state \in {"connecting", "open"}
    /\ Closing(s)
    /\ UNCHANGED <<row, gateway, page>>

Reconnect(s) ==
    /\ socket[s].state = "waiting"
    /\ socket' = [socket EXCEPT ![s].state = "connecting"]
    /\ UNCHANGED <<row, gateway, queue, told, page>>

-----------------------------------------------------------------------------
(* The page *)

\* invalidateQueries: a fetch under way is cancelled and asked again, unless it
\* is the first, which is joined.
Refetch == IF cache # Nothing \/ fetch = NoFetch THEN Asked ELSE fetch

\* Mutant: an update is written into the copy as a pool is.
ReceiveWritesStatus(s) ==
    /\ queue[s] # <<>>
    /\ queue' = [queue EXCEPT ![s] = Tail(@)]
    /\ LET msg == Head(queue[s])
       IN  cache' = CASE cache = Nothing -> cache
                      [] msg.type = "update" -> [cache EXCEPT !.status = msg.status]
                      [] OTHER -> [cache EXCEPT !.pool = msg.pool]
    /\ UNCHANGED <<row, gateway, socket, told, current, stale, fetch>>

\* onmessage, also of a socket whose page has been left.
Receive(s) ==
    /\ queue[s] # <<>>
    /\ queue' = [queue EXCEPT ![s] = Tail(@)]
    /\ LET msg == Head(queue[s])
       IN  \/ /\ msg.type = "update"
              /\ IF current = Unmounted
                 THEN stale' = TRUE /\ UNCHANGED fetch
                 ELSE fetch' = Refetch /\ UNCHANGED stale
              /\ UNCHANGED <<cache, told>>
           \/ /\ msg.type = "pool"
              /\ told' = IF s = current THEN msg.pool ELSE told
              /\ cache' = IF cache = Nothing THEN cache ELSE [cache EXCEPT !.pool = msg.pool]
              /\ UNCHANGED <<stale, fetch>>
    /\ UNCHANGED <<row, gateway, socket, current>>

\* The page is opened: a socket of its own, and a fetch unless the copy is fresh.
Mount(s) ==
    /\ current = Unmounted
    /\ socket[s] = Gone
    /\ current' = s
    /\ socket' = [socket EXCEPT ![s].state = "connecting"]
    /\ \/ fetch' = IF fetch = NoFetch THEN Asked ELSE fetch
       \/ cache # Nothing /\ ~stale /\ UNCHANGED fetch
    /\ stale' = FALSE
    /\ UNCHANGED <<row, gateway, queue, told, cache>>

\* The page is left: only a timer that already runs is cleared.
Unmount ==
    /\ current # Unmounted
    /\ \/ /\ socket[current].state = "waiting"
          /\ socket' = [socket EXCEPT ![current] = Gone]
          /\ told' = 0
          /\ UNCHANGED queue
       \/ /\ socket[current].state # "waiting"
          /\ Closing(current)
    /\ current' = Unmounted
    /\ UNCHANGED <<row, gateway, cache, stale, fetch>>

\* The window gets the focus and the copy is older than staleTime.
Focus ==
    /\ current # Unmounted
    /\ fetch = NoFetch
    /\ fetch' = Asked
    /\ UNCHANGED <<row, gateway, socket, queue, told, current, cache, stale>>

\* GET /markets/:id reads the row ...
FetchRead ==
    /\ fetch.pc = "asked"
    /\ fetch' = [pc |-> "answered", answer |-> row]
    /\ UNCHANGED <<row, gateway, socket, queue, told, current, cache, stale>>

\* ... and its answer replaces the copy, which counts as fresh.
FetchDone ==
    /\ fetch.pc = "answered"
    /\ cache' = fetch.answer
    /\ stale' = FALSE
    /\ fetch' = NoFetch
    /\ UNCHANGED <<row, gateway, socket, queue, told, current>>

-----------------------------------------------------------------------------
Next ==
    \/ StatusChanges \/ PoolChanges
    \/ Poll
    \/ \E p \in SlowPolls : SlowPollRead(p) \/ SlowPollDone(p)
    \/ \E s \in Sockets : \/ Subscribe(s) \/ Open(s) \/ Drop(s) \/ Reconnect(s)
                          \/ Receive(s) \/ Mount(s)
    \/ Unmount \/ Focus \/ FetchRead \/ FetchDone

Spec == Init /\ [][Next]_vars

\* Timers fire, queries are answered, open connections deliver.
Fairness ==
    /\ WF_vars(Poll)
    /\ \A p \in SlowPolls : WF_vars(SlowPollDone(p))
    /\ \A s \in Sockets : WF_vars(Open(s) \/ Subscribe(s) \/ Reconnect(s)) /\ WF_vars(Receive(s))
    /\ WF_vars(FetchRead \/ FetchDone)

FairSpec == Spec /\ Fairness

-----------------------------------------------------------------------------
TypeOK ==
    /\ row \in Rows
    /\ lastSeen \in Rows \cup {Nothing} /\ lastSeen.status # "PENDING"
    /\ slow \in [SlowPolls -> Rows \cup {Nothing}]
    /\ socket \in [Sockets -> [state : {"gone", "connecting", "open", "waiting"},
                               subscribed : BOOLEAN]]
    /\ \A s \in Sockets : socket[s].subscribed => socket[s].state = "open"
    /\ current \in Sockets \cup {Unmounted}
    /\ cache \in Rows \cup {Nothing}
    /\ fetch.pc \in {"none", "asked", "answered"}

\* Polls that overlap broadcast in any order, and answers may be overtaken by
\* what is asked later; the status a page shows never goes back all the same,
\* because an update is a reason to fetch and not the new state.
StatusNeverGoesBack ==
    [][cache # Nothing => Rank(cache.status) <= Rank(cache'.status)]_vars

Listening == current # Unmounted /\ socket[current].subscribed

\* A change of the pools reaches the page's socket while it listens, once the
\* gateway has seen the market at all, whatever overlapping polls make of lastSeen.
PoolReachesSocket ==
    (Listening /\ lastSeen.pool \notin {0, row.pool}) ~> (Listening => told = row.pool)

\* A change of the status reaches the page, once the gateway has seen the market
\* (so not the step from PENDING to OPEN) and the page has shown it before: the
\* fetch it causes is not served by an older answer.
StatusReachesPage ==
    (Listening /\ cache # Nothing /\ lastSeen.status \notin {"none", row.status})
        ~> (Listening => cache.status = row.status)

=============================================================================
