--------------------------------- MODULE Faucet ---------------------------------
(*****************************************************************************)
(* The faucet of the PRED token: POST /faucet (stake.routes.ts), which mints *)
(* with the deployer's key and keeps a cooldown per address in Redis, and    *)
(* the two buttons of the web application that call it.  A handler awaits    *)
(* Redis and the node between every two of its steps:                        *)
(*                                                                           *)
(*   check -> nonce -> send -> wait -> store -> answered                     *)
(*                                                                           *)
(* Time is counted in units of which COOLDOWN makes a day.                   *)
(*****************************************************************************)
EXTENDS Naturals, Sequences, FiniteSets

CONSTANTS
    Buttons,            \* FaucetButton and the Navbar's, in any number of tabs
    Handlers,           \* requests the api-gateway serves at once
    Addresses,
    COOLDOWN,
    MaxTime,            \* bound: the clock
    MaxSends,           \* bound: transactions ever sent from the deployer's account
    MaxLost             \* bound: mints whose claim is never stored

Nobody == "nobody"      \* recipient of the deployer's other transactions

ASSUME FaucetAssumption ==
    /\ {COOLDOWN, MaxTime, MaxSends, MaxLost} \subseteq Nat
    /\ IsFiniteSet(Handlers)
    /\ Nobody \notin Addresses

VARIABLES
    button,             \* per button: idle (with an error shown or not), sending, received
    handlers,           \* per handler: pc, its button (while connected), address, nonce, mint
    cooldownUntil,      \* per address: when its key in Redis expires
    sends,              \* transactions of the deployer, in nonce order; to whom a mint goes
    now,
    lost                \* history: mints whose claim is not stored, through a failure

vars == <<button, handlers, cooldownUntil, sends, now, lost>>

Free == [pc |-> "idle", button |-> Nobody, to |-> Nobody, nonce |-> 0]

Init ==
    /\ button = [b \in Buttons |-> "idle"]
    /\ handlers = [h \in Handlers |-> Free]
    /\ cooldownUntil = [a \in Addresses |-> 0]
    /\ sends = <<>>
    /\ now = 0
    /\ lost = 0

Goto(h, pc) == handlers' = [handlers EXCEPT ![h].pc = pc]

\* The reply reaches the button that waits for it, if it is still connected.
Answer(h, shown) ==
    /\ handlers' = [handlers EXCEPT ![h] = Free]
    /\ button' = [b \in Buttons |-> IF b = handlers[h].button THEN shown ELSE button[b]]

-----------------------------------------------------------------------------
\* claim(): a button is disabled only while its own request or success lasts.
Claim(b, h, a) ==
    /\ button[b] = "idle"
    /\ handlers[h] = Free
    /\ button' = [button EXCEPT ![b] = "sending"]
    /\ handlers' = [handlers EXCEPT ![h] = [Free EXCEPT !.pc = "check", !.button = b, !.to = a]]
    /\ UNCHANGED <<cooldownUntil, sends, now, lost>>

ShowIdle(b) ==
    /\ button[b] = "received"
    /\ button' = [button EXCEPT ![b] = "idle"]
    /\ UNCHANGED <<handlers, cooldownUntil, sends, now, lost>>

\* Mutant: no look at the cooldown.
CheckNothing(h) ==
    /\ handlers[h].pc = "check"
    /\ Goto(h, "nonce")
    /\ UNCHANGED <<button, cooldownUntil, sends, now, lost>>

\* redis.get: a key that is still there refuses the claim.
Check(h) ==
    /\ handlers[h].pc = "check"
    /\ \/ /\ now < cooldownUntil[handlers[h].to]
          /\ Answer(h, "idle")
       \/ /\ now >= cooldownUntil[handlers[h].to]
          /\ Goto(h, "nonce")
          /\ UNCHANGED button
    /\ UNCHANGED <<cooldownUntil, sends, now, lost>>

\* writeContract asks the node for the account's next nonce, pending
\* transactions included ...
FetchNonce(h) ==
    /\ handlers[h].pc = "nonce"
    /\ handlers' = [handlers EXCEPT ![h].pc = "send", ![h].nonce = Len(sends) + 1]
    /\ UNCHANGED <<button, cooldownUntil, sends, now, lost>>

\* Mutant: a refused transaction is taken for one already known.
SendAlreadyKnown(h) ==
    /\ handlers[h].pc = "send"
    /\ \/ /\ handlers[h].nonce = Len(sends) + 1
          /\ Len(sends) < MaxSends
          /\ sends' = Append(sends, [to |-> handlers[h].to, mined |-> FALSE, time |-> 0])
       \/ /\ handlers[h].nonce <= Len(sends)
          /\ UNCHANGED sends
    /\ Goto(h, "wait")
    /\ UNCHANGED <<button, cooldownUntil, now, lost>>

\* ... and sends; the node refuses a nonce that is used by then.
Send(h) ==
    /\ handlers[h].pc = "send"
    /\ \/ /\ handlers[h].nonce = Len(sends) + 1
          /\ Len(sends) < MaxSends
          /\ sends' = Append(sends, [to |-> handlers[h].to, mined |-> FALSE, time |-> 0])
          /\ Goto(h, "wait")
          /\ UNCHANGED button
       \/ /\ handlers[h].nonce <= Len(sends)
          /\ Answer(h, "idle")
          /\ UNCHANGED sends
    /\ UNCHANGED <<cooldownUntil, now, lost>>

\* The market and resolution services send from the same account.
OtherSend ==
    /\ Len(sends) < MaxSends
    /\ sends' = Append(sends, [to |-> Nobody, mined |-> FALSE, time |-> 0])
    /\ UNCHANGED <<button, handlers, cooldownUntil, now, lost>>

Mine ==
    /\ \E i \in 1..Len(sends) :
          /\ ~sends[i].mined
          /\ \A j \in 1..(i - 1) : sends[j].mined
          /\ sends' = [sends EXCEPT ![i] = [@ EXCEPT !.mined = TRUE, !.time = now]]
    /\ UNCHANGED <<button, handlers, cooldownUntil, now, lost>>

\* Mutant: the receipt is not awaited.
ReceiptNotAwaited(h) ==
    /\ handlers[h].pc = "wait"
    /\ Goto(h, "store")
    /\ UNCHANGED <<button, cooldownUntil, sends, now, lost>>

\* mint() by the token's owner does not revert; the receipt is only awaited.
Receipt(h) ==
    /\ handlers[h].pc = "wait"
    /\ sends[handlers[h].nonce].mined
    /\ Goto(h, "store")
    /\ UNCHANGED <<button, cooldownUntil, sends, now, lost>>

\* Mutant: a cooldown longer than promised.
StoreLong(h) ==
    /\ handlers[h].pc = "store"
    /\ cooldownUntil' = [cooldownUntil EXCEPT ![handlers[h].to] = now + COOLDOWN + 1]
    /\ Answer(h, "received")
    /\ UNCHANGED <<sends, now, lost>>

\* setEx with the cooldown as time to live, then the reply.
Store(h) ==
    /\ handlers[h].pc = "store"
    /\ cooldownUntil' = [cooldownUntil EXCEPT ![handlers[h].to] = now + COOLDOWN]
    /\ Answer(h, "received")
    /\ UNCHANGED <<sends, now, lost>>

Tick ==
    /\ now < MaxTime
    /\ now' = now + 1
    /\ UNCHANGED <<button, handlers, cooldownUntil, sends, lost>>

-----------------------------------------------------------------------------
(* Failures *)

HasSent(h) == handlers[h].pc \in {"wait", "store"}

\* Redis or the node throws, or the receipt does not come in time: an error,
\* whatever becomes of a transaction already sent.
CallFails(h) ==
    /\ handlers[h] # Free
    /\ lost' = IF HasSent(h) THEN lost + 1 ELSE lost
    /\ lost' <= MaxLost
    /\ Answer(h, "idle")
    /\ UNCHANGED <<cooldownUntil, sends, now>>

GatewayCrashes ==
    /\ \E h \in Handlers : handlers[h] # Free
    /\ lost' = lost + Cardinality({h \in Handlers : HasSent(h)})
    /\ lost' <= MaxLost
    /\ handlers' = [h \in Handlers |-> Free]
    /\ button' = [b \in Buttons |-> IF \E h \in Handlers : handlers[h].button = b
                                    THEN "idle" ELSE button[b]]
    /\ UNCHANGED <<cooldownUntil, sends, now>>

\* The browser's request breaks; the handler does not notice.
Disconnect(h) ==
    /\ handlers[h].button # Nobody
    /\ button' = [button EXCEPT ![handlers[h].button] = "idle"]
    /\ handlers' = [handlers EXCEPT ![h].button = Nobody]
    /\ UNCHANGED <<cooldownUntil, sends, now, lost>>

-----------------------------------------------------------------------------
Next ==
    \/ \E b \in Buttons : ShowIdle(b) \/ \E h \in Handlers, a \in Addresses : Claim(b, h, a)
    \/ \E h \in Handlers :
          \/ Check(h) \/ FetchNonce(h) \/ Send(h) \/ Receipt(h) \/ Store(h)
          \/ CallFails(h) \/ Disconnect(h)
    \/ OtherSend
    \/ Mine
    \/ Tick
    \/ GatewayCrashes

Spec == Init /\ [][Next]_vars

-----------------------------------------------------------------------------
TypeOK ==
    /\ button \in [Buttons -> {"idle", "sending", "received"}]
    /\ handlers \in [Handlers -> [pc : {"idle", "check", "nonce", "send", "wait", "store"},
                                  button : Buttons \cup {Nobody}, to : Addresses \cup {Nobody},
                                  nonce : 0..(MaxSends + 1)]]
    /\ cooldownUntil \in [Addresses -> 0..(MaxTime + COOLDOWN)]
    /\ \A i \in 1..Len(sends) :
          sends[i] \in [to : Addresses \cup {Nobody}, mined : BOOLEAN, time : 0..MaxTime]
    /\ now \in 0..MaxTime
    /\ lost \in 0..MaxLost

MintsTo(a, from, until) ==
    {i \in 1..Len(sends) : /\ sends[i].to = a /\ sends[i].mined
                           /\ sends[i].time \in from..until}

\* The faucet rations: in no period of one cooldown does an address get more
\* mints than there were requests at once, and a mint whose claim could not be
\* stored.  (Nothing serialises requests: two at once do get two mints.)
MintsAreRationed ==
    \A a \in Addresses, t \in 0..MaxTime :
        Cardinality(MintsTo(a, t, t + COOLDOWN - 1)) <= Cardinality(Handlers) + lost

\* Claims that are under way never count one mint for both, though they take
\* their nonce and send it in separate steps, from an account others use as well.
MintsAreNotShared ==
    \A g, h \in Handlers : g # h /\ HasSent(g) /\ HasSent(h)
        => handlers[g].nonce # handlers[h].nonce

\* An address is in cooldown only because a mint to it had been mined when the
\* cooldown began: no failure or race locks out a wallet that got nothing.
CooldownIsPaidFor ==
    \A a \in Addresses : now < cooldownUntil[a] => MintsTo(a, 0, cooldownUntil[a] - COOLDOWN) # {}

=============================================================================
