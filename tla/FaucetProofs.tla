------------------------------ MODULE FaucetProofs ------------------------------
(*****************************************************************************)
(* Theorems about the faucet, for any number of buttons, requests, addresses *)
(* and transactions, any cooldown and any number of failures.                *)
(*****************************************************************************)
EXTENDS Faucet, FiniteSetTheorems, SequenceTheorems, TLAPS

-----------------------------------------------------------------------------
(* The inductive invariant *)

Sent == [to : Addresses \cup {Nobody}, mined : BOOLEAN, time : 0..MaxTime]
Handler == [pc : {"idle", "check", "nonce", "send", "wait", "store"},
            button : Buttons \cup {Nobody}, to : Addresses \cup {Nobody},
            nonce : 0..(MaxSends + 1)]

\* TypeOK, with the transactions a bounded sequence, and the address of a
\* request that is being served.
TypeInv ==
    /\ button \in [Buttons -> {"idle", "sending", "received"}]
    /\ handlers \in [Handlers -> Handler]
    /\ \A h \in Handlers : handlers[h].pc # "idle" => handlers[h].to \in Addresses
    /\ cooldownUntil \in [Addresses -> 0..(MaxTime + COOLDOWN)]
    /\ sends \in Seq(Sent) /\ Len(sends) <= MaxSends
    /\ now \in 0..MaxTime
    /\ lost \in 0..MaxLost

\* A claim that has sent is about a transaction of its own, to its address;
\* once its receipt is there the transaction is mined.
ClaimInv ==
    \A h \in Handlers :
        /\ HasSent(h) => /\ handlers[h].nonce \in 1..Len(sends)
                         /\ sends[handlers[h].nonce].to = handlers[h].to
        /\ handlers[h].pc = "store" => sends[handlers[h].nonce].mined

MinedInThePast == \A i \in 1..Len(sends) : sends[i].mined => sends[i].time <= now

\* CooldownIsPaidFor without its sets.
PaidInv ==
    \A a \in Addresses : now < cooldownUntil[a] =>
        /\ COOLDOWN <= cooldownUntil[a]
        /\ \E i \in 1..Len(sends) : /\ sends[i].to = a /\ sends[i].mined
                                    /\ sends[i].time <= cooldownUntil[a] - COOLDOWN

IInv == TypeInv /\ ClaimInv /\ MintsAreNotShared /\ MinedInThePast /\ PaidInv

LEMMA Bounds ==
    /\ COOLDOWN \in Nat /\ MaxTime \in Nat /\ MaxSends \in Nat /\ MaxLost \in Nat
    /\ IsFiniteSet(Handlers) /\ Nobody \notin Addresses
  BY FaucetAssumption

LEMMA SendsLength == ASSUME TypeInv PROVE Len(sends) \in Nat
  BY LenProperties DEF TypeInv

LEMMA InvInit == Init => IInv
  <1> SUFFICES ASSUME Init PROVE IInv
    OBVIOUS
  <1>1. <<>> \in Seq(Sent) /\ Len(<<>>) = 0
    BY EmptySeq
  <1>2. TypeInv
    BY <1>1, Bounds DEF Init, Free, TypeInv, Handler
  <1> QED
    BY <1>1, <1>2, Bounds DEF Init, Free, IInv, ClaimInv, HasSent, MintsAreNotShared,
                              MinedInThePast, PaidInv

-----------------------------------------------------------------------------
(* Steps that send nothing *)

\* Handlers that get no nearer to their transaction than they were.
LEMMA QuietStep ==
    ASSUME IInv, TypeInv', UNCHANGED <<cooldownUntil, sends, now>>,
           \A h \in Handlers : \/ handlers'[h] = handlers[h]
                               \/ ~HasSent(h)'
                               \/ /\ handlers'[h].nonce = handlers[h].nonce
                                  /\ handlers'[h].to = handlers[h].to
                                  /\ HasSent(h)
                                  /\ handlers'[h].pc = "store" =>
                                        handlers[h].pc = "store" \/ sends[handlers[h].nonce].mined
    PROVE  IInv'
  <1>1. \A h \in Handlers : HasSent(h)' => /\ HasSent(h)
                                           /\ handlers'[h].nonce = handlers[h].nonce
                                           /\ handlers'[h].to = handlers[h].to
    BY DEF HasSent
  <1>2. ClaimInv'
    BY <1>1 DEF IInv, ClaimInv, HasSent
  <1>3. MintsAreNotShared'
    BY <1>1 DEF IInv, MintsAreNotShared
  <1>4. MinedInThePast' /\ PaidInv'
    BY DEF IInv, MinedInThePast, PaidInv
  <1> QED
    BY <1>2, <1>3, <1>4 DEF IInv

\* A handler answers, or goes on: types.
LEMMA AnswerType ==
    ASSUME TypeInv, NEW h \in Handlers, NEW shown \in {"idle", "sending", "received"},
           Answer(h, shown), UNCHANGED <<sends, now>>,
           cooldownUntil' \in [Addresses -> 0..(MaxTime + COOLDOWN)], lost' \in 0..MaxLost
    PROVE  TypeInv'
  BY Bounds DEF TypeInv, Answer, Free, Handler

LEMMA GotoType ==
    ASSUME TypeInv, NEW h \in Handlers, handlers[h].pc # "idle",
           NEW pc \in {"check", "nonce", "send", "wait", "store"},
           Goto(h, pc), UNCHANGED <<button, cooldownUntil, now, lost>>,
           sends' \in Seq(Sent), Len(sends') <= MaxSends
    PROVE  TypeInv'
  BY DEF TypeInv, Goto, Handler

LEMMA ServingStep ==
    ASSUME IInv, NEW h \in Handlers,
           Check(h) \/ FetchNonce(h) \/ Receipt(h) \/ CallFails(h) \/ Disconnect(h)
    PROVE  IInv'
  <1>0. TypeInv /\ ClaimInv /\ Len(sends) \in Nat
    BY SendsLength DEF IInv
  <1>1. CASE Check(h)
    <2>1. TypeInv'
      <3>1. CASE Answer(h, "idle")
        BY <1>0, <1>1, <3>1, AnswerType DEF Check, TypeInv
      <3>2. CASE Goto(h, "nonce") /\ UNCHANGED button
        BY <1>0, <1>1, <3>2, GotoType DEF Check, TypeInv
      <3> QED
        BY <1>1, <3>1, <3>2 DEF Check
    <2>2. UNCHANGED <<cooldownUntil, sends, now>>
      BY <1>1 DEF Check
    <2>3. \A g \in Handlers : handlers'[g] = handlers[g] \/ ~HasSent(g)'
      <3>1. CASE Answer(h, "idle")
        BY <1>0, <3>1 DEF Answer, Free, HasSent, TypeInv
      <3>2. CASE Goto(h, "nonce")
        BY <1>0, <3>2 DEF Goto, HasSent, TypeInv, Handler
      <3> QED
        BY <1>1, <3>1, <3>2 DEF Check
    <2> QED
      BY <2>1, <2>2, <2>3, QuietStep
  <1>2. CASE FetchNonce(h)
    <2>1. TypeInv'
      <3>1. Len(sends) + 1 \in 0..(MaxSends + 1)
        BY <1>0, Bounds DEF TypeInv
      <3>2. handlers' \in [Handlers -> Handler]
        BY <1>0, <1>2, <3>1 DEF FetchNonce, TypeInv, Handler
      <3> QED
        BY <1>0, <1>2, <3>2 DEF FetchNonce, TypeInv
    <2> QED
      BY <1>0, <1>2, <2>1, QuietStep DEF FetchNonce, HasSent, TypeInv
  <1>3. CASE Receipt(h)
    <2>1. TypeInv'
      BY <1>0, <1>3, GotoType DEF Receipt, TypeInv
    <2> QED
      BY <1>0, <1>3, <2>1, QuietStep DEF Receipt, Goto, HasSent, TypeInv, Handler
  <1>4. CASE CallFails(h)
    <2>1. lost' \in 0..MaxLost
      BY <1>0, <1>4, Bounds DEF CallFails, TypeInv
    <2>2. TypeInv'
      BY <1>0, <1>4, <2>1, AnswerType DEF CallFails, TypeInv
    <2> QED
      BY <1>0, <1>4, <2>2, QuietStep DEF CallFails, Answer, Free, HasSent, TypeInv
  <1>5. CASE Disconnect(h)
    <2>1. TypeInv'
      BY <1>0, <1>5 DEF Disconnect, TypeInv, Handler
    <2> QED
      BY <1>0, <1>5, <2>1, QuietStep DEF Disconnect, HasSent, TypeInv, Handler
  <1> QED
    BY <1>1, <1>2, <1>3, <1>4, <1>5

LEMMA CrashStep == IInv /\ GatewayCrashes => IInv'
  <1> SUFFICES ASSUME IInv, GatewayCrashes PROVE IInv'
    OBVIOUS
  <1>1. IsFiniteSet({h \in Handlers : HasSent(h)})
    BY Bounds, FS_Subset
  <1>2. Cardinality({h \in Handlers : HasSent(h)}) \in Nat
    BY <1>1, FS_CardinalityType
  <1>3. lost' \in 0..MaxLost
    BY <1>2, Bounds DEF GatewayCrashes, IInv, TypeInv
  <1>4. TypeInv'
    BY <1>3, Bounds DEF GatewayCrashes, IInv, TypeInv, Free, Handler
  <1>5. \A h \in Handlers : ~HasSent(h)'
    BY DEF GatewayCrashes, HasSent, Free
  <1> QED
    BY <1>4, <1>5, QuietStep DEF GatewayCrashes

LEMMA ButtonStep ==
    ASSUME IInv, NEW b \in Buttons,
           ShowIdle(b) \/ \E h \in Handlers, a \in Addresses : Claim(b, h, a)
    PROVE  IInv'
  <1>1. CASE ShowIdle(b)
    <2>1. TypeInv'
      BY <1>1 DEF ShowIdle, IInv, TypeInv
    <2> QED
      BY <1>1, <2>1, QuietStep DEF ShowIdle
  <1>2. ASSUME NEW h \in Handlers, NEW a \in Addresses, Claim(b, h, a) PROVE IInv'
    <2>1. TypeInv'
      BY <1>2, Bounds DEF Claim, IInv, TypeInv, Free, Handler
    <2> QED
      BY <1>2, <2>1, QuietStep DEF Claim, Free, HasSent, IInv, TypeInv
  <1> QED
    BY <1>1, <1>2

-----------------------------------------------------------------------------
(* Transactions and time *)

\* A transaction more: those before it, and what is known of them, stay.
LEMMA Appended ==
    ASSUME IInv, NEW new \in Sent, ~new.mined, sends' = Append(sends, new),
           UNCHANGED <<cooldownUntil, now>>
    PROVE  /\ sends' \in Seq(Sent) /\ Len(sends') = Len(sends) + 1
           /\ \A i \in 1..Len(sends) : sends'[i] = sends[i]
           /\ sends'[Len(sends) + 1] = new
           /\ MinedInThePast' /\ PaidInv'
  <1>0. sends \in Seq(Sent) /\ Len(sends) \in Nat
    BY SendsLength DEF IInv, TypeInv
  <1>1. /\ sends' \in Seq(Sent) /\ Len(sends') = Len(sends) + 1
        /\ \A i \in 1..Len(sends) : sends'[i] = sends[i]
        /\ sends'[Len(sends) + 1] = new
    BY <1>0, AppendProperties
  <1>2. MinedInThePast'
    <2>1. ASSUME NEW i \in 1..(Len(sends) + 1), sends'[i].mined PROVE sends'[i].time <= now
      <3>1. i \in 1..Len(sends)
        BY <1>0, <1>1, <2>1
      <3> QED
        BY <1>1, <2>1, <3>1 DEF IInv, MinedInThePast
    <2> QED
      BY <1>1, <2>1 DEF MinedInThePast
  <1>3. PaidInv'
    <2>1. 1..Len(sends) \subseteq 1..Len(sends')
      BY <1>0, <1>1
    <2> QED
      BY <1>1, <2>1 DEF IInv, PaidInv
  <1> QED
    BY <1>1, <1>2, <1>3

LEMMA SendStep == ASSUME IInv, NEW h \in Handlers, Send(h) PROVE IInv'
  <1>0. TypeInv /\ Len(sends) \in Nat /\ handlers[h].pc = "send"
    BY SendsLength DEF IInv, Send
  <1>1. CASE Answer(h, "idle") /\ UNCHANGED sends
    <2>1. TypeInv'
      BY <1>0, <1>1, AnswerType DEF Send, TypeInv
    <2> QED
      BY <1>0, <1>1, <2>1, QuietStep DEF Send, Answer, Free, HasSent, TypeInv
  <1> DEFINE new == [to |-> handlers[h].to, mined |-> FALSE, time |-> 0]
  <1>2. CASE /\ handlers[h].nonce = Len(sends) + 1 /\ Len(sends) < MaxSends
             /\ sends' = Append(sends, new) /\ Goto(h, "wait") /\ UNCHANGED button
    <2>1. new \in Sent
      BY <1>0, Bounds DEF TypeInv, Sent
    <2>2. /\ sends' \in Seq(Sent) /\ Len(sends') = Len(sends) + 1
          /\ \A i \in 1..Len(sends) : sends'[i] = sends[i]
          /\ sends'[Len(sends) + 1] = new
          /\ MinedInThePast' /\ PaidInv'
      BY <1>2, <2>1, Appended DEF Send
    <2>3. TypeInv'
      <3>1. Len(sends') <= MaxSends
        BY <1>0, <1>2, <2>2, Bounds
      <3>2. UNCHANGED <<button, cooldownUntil, now, lost>>
        BY <1>2 DEF Send
      <3> QED
        BY <1>0, <1>2, <2>2, <3>1, <3>2, GotoType
    <2>4. /\ handlers'[h].pc = "wait" /\ handlers'[h].nonce = Len(sends) + 1
          /\ handlers'[h].to = handlers[h].to
          /\ \A g \in Handlers \ {h} : handlers'[g] = handlers[g]
      BY <1>0, <1>2 DEF Goto, TypeInv, Handler
    <2>5. \A g \in Handlers \ {h} : HasSent(g)' => HasSent(g) /\ handlers'[g].nonce \in 1..Len(sends)
      BY <2>4 DEF HasSent, IInv, ClaimInv
    <2>6. ClaimInv'
      <3>1. ASSUME NEW g \in Handlers \ {h}
            PROVE  /\ HasSent(g)' => /\ handlers'[g].nonce \in 1..Len(sends')
                                     /\ sends'[handlers'[g].nonce].to = handlers'[g].to
                   /\ handlers'[g].pc = "store" => sends'[handlers'[g].nonce].mined
        BY <1>0, <2>2, <2>4, <2>5 DEF IInv, ClaimInv, HasSent
      <3>2. /\ handlers'[h].nonce \in 1..Len(sends')
            /\ sends'[handlers'[h].nonce].to = handlers'[h].to
        BY <1>0, <2>2, <2>4
      <3> QED
        BY <2>4, <3>1, <3>2 DEF ClaimInv, HasSent
    <2>7. MintsAreNotShared'
      BY <1>0, <2>4, <2>5 DEF IInv, MintsAreNotShared
    <2> QED
      BY <2>2, <2>3, <2>6, <2>7 DEF IInv
  <1> QED
    BY <1>1, <1>2 DEF Send

LEMMA OtherSendStep == IInv /\ OtherSend => IInv'
  <1> SUFFICES ASSUME IInv, OtherSend PROVE IInv'
    OBVIOUS
  <1> DEFINE new == [to |-> Nobody, mined |-> FALSE, time |-> 0]
  <1>0. Len(sends) \in Nat /\ new \in Sent
    BY SendsLength, Bounds DEF IInv, Sent
  <1>1. /\ sends' \in Seq(Sent) /\ Len(sends') = Len(sends) + 1
        /\ \A i \in 1..Len(sends) : sends'[i] = sends[i]
        /\ MinedInThePast' /\ PaidInv'
    BY <1>0, Appended DEF OtherSend
  <1>2. TypeInv'
    BY <1>0, <1>1, Bounds DEF OtherSend, IInv, TypeInv
  <1>3. ClaimInv'
    BY <1>0, <1>1 DEF OtherSend, IInv, ClaimInv, HasSent
  <1>4. MintsAreNotShared'
    BY DEF OtherSend, IInv, MintsAreNotShared, HasSent
  <1> QED
    BY <1>1, <1>2, <1>3, <1>4 DEF IInv

LEMMA MineStep == IInv /\ Mine => IInv'
  <1> SUFFICES ASSUME IInv, Mine PROVE IInv'
    OBVIOUS
  <1>0. sends \in Seq(Sent) /\ Len(sends) \in Nat /\ now \in 0..MaxTime
    BY SendsLength DEF IInv, TypeInv
  <1>1. PICK i \in 1..Len(sends) :
            /\ ~sends[i].mined
            /\ sends' = [sends EXCEPT ![i] = [@ EXCEPT !.mined = TRUE, !.time = now]]
    BY DEF Mine
  <1> DEFINE new == [sends[i] EXCEPT !.mined = TRUE, !.time = now]
  <1>2. sends[i] \in Sent
    BY <1>0, ElementOfSeq
  <1>3. new \in Sent /\ new.mined /\ new.time = now /\ new.to = sends[i].to
    BY <1>0, <1>2 DEF Sent
  <1>4. /\ sends' \in Seq(Sent) /\ Len(sends') = Len(sends)
        /\ \A j \in 1..Len(sends) : sends'[j] = IF j = i THEN new ELSE sends[j]
    BY <1>0, <1>1, <1>3, ExceptSeq
  <1> HIDE DEF new
  <1>5. UNCHANGED <<button, handlers, cooldownUntil, now, lost>>
    BY DEF Mine
  <1>6. \A j \in 1..Len(sends) : /\ sends'[j].to = sends[j].to
                                 /\ sends[j].mined => sends'[j] = sends[j]
    BY <1>1, <1>3, <1>4
  <1>7. TypeInv'
    BY <1>4, <1>5 DEF IInv, TypeInv
  <1>8. ClaimInv'
    BY <1>4, <1>5, <1>6 DEF IInv, ClaimInv, HasSent
  <1>9. MintsAreNotShared'
    BY <1>5 DEF IInv, MintsAreNotShared, HasSent
  <1>10. MinedInThePast'
    BY <1>0, <1>3, <1>4, <1>5 DEF IInv, MinedInThePast
  <1>11. PaidInv'
    BY <1>4, <1>5, <1>6 DEF IInv, PaidInv
  <1> QED
    BY <1>7, <1>8, <1>9, <1>10, <1>11 DEF IInv

LEMMA StoreStep == ASSUME IInv, NEW h \in Handlers, Store(h) PROVE IInv'
  <1>0. /\ TypeInv /\ Len(sends) \in Nat /\ handlers[h].pc = "store"
        /\ now \in 0..MaxTime /\ handlers[h].to \in Addresses
    BY SendsLength DEF IInv, Store, TypeInv
  <1>1. cooldownUntil' = [cooldownUntil EXCEPT ![handlers[h].to] = now + COOLDOWN]
    BY DEF Store
  <1>2. TypeInv'
    BY <1>0, <1>1, Bounds, AnswerType DEF Store, TypeInv
  <1>3. \A g \in Handlers : handlers'[g] = handlers[g] \/ ~HasSent(g)'
    BY <1>0 DEF Store, Answer, Free, HasSent, TypeInv
  <1>4. ClaimInv' /\ MintsAreNotShared'
    BY <1>3 DEF Store, IInv, ClaimInv, MintsAreNotShared, HasSent
  <1>5. MinedInThePast'
    BY DEF Store, IInv, MinedInThePast
  <1>6. PICK i \in 1..Len(sends) : /\ sends[i].to = handlers[h].to /\ sends[i].mined
                                   /\ sends[i].time <= now
    BY <1>0 DEF IInv, ClaimInv, HasSent, MinedInThePast
  <1>7. PaidInv'
    <2> SUFFICES ASSUME NEW a \in Addresses, now < cooldownUntil'[a]
                 PROVE  /\ COOLDOWN <= cooldownUntil'[a]
                        /\ \E j \in 1..Len(sends) :
                              /\ sends[j].to = a /\ sends[j].mined
                              /\ sends[j].time <= cooldownUntil'[a] - COOLDOWN
      BY DEF PaidInv, Store
    <2>1. CASE a = handlers[h].to
      <3>1. cooldownUntil'[a] = now + COOLDOWN
        BY <1>0, <1>1, <2>1 DEF TypeInv
      <3> QED
        BY <1>0, <1>6, <2>1, <3>1, Bounds
    <2>2. CASE a # handlers[h].to
      <3>1. cooldownUntil'[a] = cooldownUntil[a]
        BY <1>0, <1>1, <2>2 DEF TypeInv
      <3> QED
        BY <3>1 DEF IInv, PaidInv
    <2> QED
      BY <2>1, <2>2
  <1> QED
    BY <1>2, <1>4, <1>5, <1>7 DEF IInv

LEMMA TickStep == IInv /\ Tick => IInv'
  <1> SUFFICES ASSUME IInv, Tick PROVE IInv'
    OBVIOUS
  <1>1. now \in Nat /\ now' = now + 1 /\ now' <= MaxTime
    BY Bounds DEF IInv, TypeInv, Tick
  <1>2. TypeInv'
    BY <1>1, Bounds DEF IInv, TypeInv, Tick
  <1>3. ClaimInv' /\ MintsAreNotShared'
    BY DEF IInv, ClaimInv, MintsAreNotShared, HasSent, Tick
  <1>4. \A i \in 1..Len(sends) : sends[i].time \in Nat
    <2>1. \A i \in 1..Len(sends) : sends[i] \in Sent
      BY ElementOfSeq DEF IInv, TypeInv
    <2> QED
      BY <2>1, Bounds DEF Sent
  <1>5. MinedInThePast'
    BY <1>1, <1>4 DEF IInv, MinedInThePast, Tick
  <1>6. cooldownUntil \in [Addresses -> Nat]
    BY Bounds DEF IInv, TypeInv
  <1>7. PaidInv'
    BY <1>1, <1>6 DEF IInv, PaidInv, Tick
  <1> QED
    BY <1>2, <1>3, <1>5, <1>7 DEF IInv

-----------------------------------------------------------------------------
(* The rationing of mints.  Every mint to an address belongs to the request  *)
(* that sent it, or is gone: its claim was lost.  A mint that is not gone is *)
(* held by its handler until the cooldown is stored, and the handler passes  *)
(* no other check for that address before the cooldown ends; so the mints of *)
(* one handler to one address lie a cooldown apart, and a period of one      *)
(* cooldown has at most one mint per handler and those that are gone.        *)

\* The handler has found no cooldown for its address.
Passed(h) == handlers[h].pc \in {"nonce", "send", "wait", "store"}
Holds(h, i) == HasSent(h) /\ handlers[h].nonce = i

Kept(gone) == {i \in 1..Len(sends) : i \notin gone /\ sends[i].to \in Addresses}
CooledDown(i) ==
    sends[i].mined /\ sends[i].time + COOLDOWN <= cooldownUntil[sends[i].to]
Spaced(i, j) ==
    \/ sends[i].time + COOLDOWN <= sends[j].time
    \/ sends[j].time + COOLDOWN <= sends[i].time

\* What h has in hand is its own and not gone.
HeldAreOwn(gone, own) ==
    \A h \in Handlers, i \in 1..Len(sends) : Holds(h, i) => i \notin gone /\ own[i] = h

\* A kept mint has a handler, which holds it or has stored its cooldown ...
KeptAreOwned(gone, own) ==
    \A i \in Kept(gone) : own[i] \in Handlers /\ (Holds(own[i], i) \/ CooledDown(i))

\* ... and which goes on to another mint for the address only a cooldown later.
KeptAreOver(gone, own) ==
    \A i \in Kept(gone), h \in Handlers :
        own[i] = h /\ Passed(h) /\ handlers[h].to = sends[i].to /\ ~Holds(h, i)
            => sends[i].time + COOLDOWN <= now

Rivals(own, i, j) ==
    /\ i # j /\ own[i] = own[j] /\ sends[i].to = sends[j].to
    /\ sends[i].mined /\ sends[j].mined

KeptAreSpaced(gone, own) ==
    \A i, j \in Kept(gone) : Rivals(own, i, j) => Spaced(i, j)

Ration(gone, own) ==
    /\ gone \subseteq 1..Len(sends) /\ Cardinality(gone) <= lost
    /\ HeldAreOwn(gone, own)
    /\ KeptAreOwned(gone, own)
    /\ KeptAreOver(gone, own)
    /\ KeptAreSpaced(gone, own)

RationInv == \E gone, own : Ration(gone, own)

LEMMA FinitePart ==
    ASSUME NEW n \in Nat, NEW S, S \subseteq 1..n
    PROVE  IsFiniteSet(S) /\ Cardinality(S) \in Nat
  <1>1. IsFiniteSet(1..n)
    BY FS_Interval
  <1>2. IsFiniteSet(S)
    BY <1>1, FS_Subset
  <1> QED
    BY <1>2, FS_CardinalityType

\* Handlers move and answer, claims may be lost and cooldowns stored; nothing
\* is sent or mined.
LEMMA RationQuiet ==
    ASSUME IInv, UNCHANGED <<sends, now>>, NEW gone, NEW own, Ration(gone, own),
           NEW gone2, gone \subseteq gone2, gone2 \subseteq 1..Len(sends),
           Cardinality(gone2) <= lost',
           \A h \in Handlers :
               /\ HasSent(h)' => /\ HasSent(h) /\ handlers'[h].nonce = handlers[h].nonce
                                 /\ handlers[h].nonce \notin gone2
               /\ Passed(h)' => /\ handlers'[h].to = handlers[h].to
                                /\ \/ Passed(h) /\ (HasSent(h) => HasSent(h)')
                                   \/ ~Passed(h) /\ cooldownUntil[handlers[h].to] <= now,
           \A i \in 1..Len(sends) : sends[i].to \in Addresses /\ CooledDown(i) => CooledDown(i)',
           \A h \in Handlers, i \in 1..Len(sends) :
               i \notin gone2 /\ Holds(h, i) => Holds(h, i)' \/ CooledDown(i)'
    PROVE  RationInv'
  <1>1. Kept(gone2)' \subseteq Kept(gone)
    BY DEF Kept
  <1>2. HeldAreOwn(gone2, own)'
    BY DEF Ration, HeldAreOwn, Holds
  <1>3. KeptAreOwned(gone2, own)'
    <2> SUFFICES ASSUME NEW i \in Kept(gone2)'
                 PROVE  own[i] \in Handlers /\ (Holds(own[i], i)' \/ CooledDown(i)')
      BY DEF KeptAreOwned
    <2>1. /\ own[i] \in Handlers /\ (Holds(own[i], i) \/ CooledDown(i))
          /\ i \in 1..Len(sends) /\ i \notin gone2 /\ sends[i].to \in Addresses
      BY <1>1 DEF Ration, KeptAreOwned, Kept
    <2> QED
      BY <2>1
  <1>4. KeptAreOver(gone2, own)'
    <2> SUFFICES ASSUME NEW i \in Kept(gone2)', NEW h \in Handlers, own[i] = h, Passed(h)',
                        handlers'[h].to = sends[i].to, ~Holds(h, i)'
                 PROVE  sends[i].time + COOLDOWN <= now
      BY DEF KeptAreOver
    <2>1. i \in Kept(gone) /\ i \notin gone2 /\ i \in 1..Len(sends)
      BY <1>1 DEF Kept
    <2>2. handlers[h].to = sends[i].to /\ sends[i].to \in Addresses
      BY <2>1 DEF Kept
    <2>3. CASE Passed(h) /\ (HasSent(h) => HasSent(h)')
      <3>1. ~Holds(h, i)
        BY <2>3 DEF Holds
      <3> QED
        BY <2>1, <2>2, <2>3, <3>1 DEF Ration, KeptAreOver
    <2>4. CASE ~Passed(h) /\ cooldownUntil[handlers[h].to] <= now
      <3>1. CooledDown(i)
        BY <2>1, <2>4 DEF Ration, KeptAreOwned, Holds, HasSent, Passed
      <3>2. sends[i] \in Sent /\ cooldownUntil[sends[i].to] \in Nat
        BY <2>1, <2>2, ElementOfSeq, Bounds DEF IInv, TypeInv
      <3>3. now \in Nat /\ sends[i].time \in Nat /\ COOLDOWN \in Nat
        BY <3>2, Bounds DEF IInv, TypeInv, Sent
      <3> QED
        BY <2>2, <2>4, <3>1, <3>2, <3>3 DEF CooledDown
    <2> QED
      BY <2>3, <2>4
  <1>5. KeptAreSpaced(gone2, own)'
    BY <1>1 DEF Ration, KeptAreSpaced, Rivals, Spaced
  <1>6. gone2 \subseteq 1..Len(sends')
    OBVIOUS
  <1> QED
    BY <1>2, <1>3, <1>4, <1>5, <1>6 DEF Ration, RationInv

\* Handlers keep what they hold; one that passes its check finds no cooldown.
LEMMA RationMoved ==
    ASSUME IInv, RationInv, UNCHANGED <<sends, now, cooldownUntil, lost>>,
           \A g \in Handlers :
               /\ HasSent(g)' <=> HasSent(g)
               /\ HasSent(g) => handlers'[g].nonce = handlers[g].nonce
               /\ Passed(g)' => /\ handlers'[g].to = handlers[g].to
                                /\ Passed(g) \/ cooldownUntil[handlers[g].to] <= now
    PROVE  RationInv'
  <1>1. PICK gone, own : Ration(gone, own)
    BY DEF RationInv
  <1>2. gone \subseteq 1..Len(sends) /\ Cardinality(gone) <= lost'
    BY <1>1 DEF Ration
  <1>3. \A g \in Handlers, i \in 1..Len(sends) : Holds(g, i) => Holds(g, i)'
    BY DEF Holds
  <1>4. \A g \in Handlers : HasSent(g) => handlers[g].nonce \notin gone
    BY <1>1 DEF IInv, ClaimInv, Ration, HeldAreOwn, Holds
  <1>5. \A i \in 1..Len(sends) : CooledDown(i) => CooledDown(i)'
    BY DEF CooledDown
  <1> QED
    BY <1>1, <1>2, <1>3, <1>4, <1>5, RationQuiet

LEMMA RationServing ==
    ASSUME IInv, RationInv, NEW h \in Handlers,
           \/ Check(h) \/ FetchNonce(h) \/ Receipt(h) \/ Disconnect(h)
           \/ CallFails(h) /\ ~HasSent(h)
           \/ Send(h) /\ Answer(h, "idle") /\ UNCHANGED sends
    PROVE  RationInv'
  <1>1. UNCHANGED <<sends, now, cooldownUntil, lost>>
    BY DEF Check, FetchNonce, Receipt, Disconnect, CallFails, Send
  <1>2. /\ handlers \in [Handlers -> Handler] /\ now \in Nat
        /\ \A a \in Addresses : cooldownUntil[a] \in Nat
        /\ \A g \in Handlers : handlers[g].pc # "idle" => handlers[g].to \in Addresses
    BY Bounds DEF IInv, TypeInv
  <1>3. ASSUME NEW g \in Handlers
        PROVE  /\ HasSent(g)' <=> HasSent(g)
               /\ HasSent(g) => handlers'[g].nonce = handlers[g].nonce
               /\ Passed(g)' => /\ handlers'[g].to = handlers[g].to
                                /\ Passed(g) \/ cooldownUntil[handlers[g].to] <= now
    <2>1. CASE g # h
      <3>1. handlers'[g] = handlers[g]
        BY <1>2, <2>1 DEF Check, FetchNonce, Receipt, Disconnect, CallFails, Goto, Answer
      <3> QED
        BY <3>1 DEF HasSent, Passed
    <2>2. CASE g = h /\ Check(h)
      BY <1>2, <2>2 DEF Check, Goto, Answer, Free, HasSent, Passed, Handler
    <2>3. CASE g = h /\ (FetchNonce(h) \/ Receipt(h) \/ Disconnect(h))
      BY <1>2, <2>3 DEF FetchNonce, Receipt, Disconnect, Goto, HasSent, Passed, Handler
    <2>4. CASE g = h /\ CallFails(h) /\ ~HasSent(h)
      BY <1>2, <2>4 DEF CallFails, Answer, Free, HasSent, Passed
    <2>5. CASE g = h /\ Send(h) /\ Answer(h, "idle")
      BY <1>2, <2>5 DEF Send, Answer, Free, HasSent, Passed
    <2> QED
      BY <2>1, <2>2, <2>3, <2>4, <2>5
  <1> QED
    BY <1>1, <1>3, RationMoved

LEMMA RationClaim ==
    ASSUME IInv, RationInv, NEW h \in Handlers, NEW b \in Buttons, NEW a \in Addresses,
           Claim(b, h, a)
    PROVE  RationInv'
  <1>1. handlers \in [Handlers -> Handler] /\ UNCHANGED <<sends, now, cooldownUntil, lost>>
    BY DEF Claim, IInv, TypeInv
  <1>2. \A g \in Handlers \ {h} : handlers'[g] = handlers[g]
    BY <1>1 DEF Claim
  <1>3. ~HasSent(h) /\ ~HasSent(h)' /\ ~Passed(h)'
    BY <1>1 DEF Claim, Free, HasSent, Passed
  <1> QED
    BY <1>1, <1>2, <1>3, RationMoved DEF HasSent, Passed

\* A claim that fails after its mint was sent adds the mint to those gone.
LEMMA RationLost ==
    ASSUME IInv, RationInv, NEW h \in Handlers, CallFails(h), HasSent(h)
    PROVE  RationInv'
  <1>1. PICK gone, own : Ration(gone, own)
    BY DEF RationInv
  <1> DEFINE gone2 == gone \cup {handlers[h].nonce}
  <1>2. /\ handlers' = [handlers EXCEPT ![h] = Free] /\ lost' = lost + 1
        /\ UNCHANGED <<sends, now, cooldownUntil>>
    BY DEF CallFails, Answer
  <1>3. /\ handlers \in [Handlers -> Handler] /\ Len(sends) \in Nat
        /\ gone \subseteq 1..Len(sends) /\ Cardinality(gone) <= lost /\ lost \in Nat
    BY <1>1, SendsLength, Bounds DEF IInv, TypeInv, Ration
  <1>4. gone2 \subseteq 1..Len(sends) /\ Cardinality(gone2) <= lost'
    <2>1. handlers[h].nonce \in 1..Len(sends)
      BY DEF IInv, ClaimInv
    <2>2. IsFiniteSet(gone) /\ Cardinality(gone) \in Nat
      BY <1>3, FinitePart
    <2>3. Cardinality(gone2) <= Cardinality(gone) + 1
      BY <2>2, FS_AddElement
    <2>4. IsFiniteSet(gone2)
      BY <2>2, FS_AddElement
    <2>5. Cardinality(gone2) \in Nat
      BY <2>4, FS_CardinalityType
    <2>6. gone2 \subseteq 1..Len(sends)
      BY <1>3, <2>1
    <2> HIDE DEF gone2
    <2> QED
      BY <1>2, <1>3, <2>2, <2>3, <2>5, <2>6
  <1>5. ~HasSent(h)' /\ ~Passed(h)' /\ \A g \in Handlers \ {h} : handlers'[g] = handlers[g]
    BY <1>2, <1>3 DEF HasSent, Passed, Free
  <1>6. \A g \in Handlers \ {h} : HasSent(g) => handlers[g].nonce \notin gone2
    <2>1. ASSUME NEW g \in Handlers \ {h}, HasSent(g) PROVE handlers[g].nonce \notin gone2
      <3>1. handlers[g].nonce # handlers[h].nonce
        BY <2>1 DEF IInv, MintsAreNotShared
      <3>2. handlers[g].nonce \notin gone
        BY <1>1, <2>1 DEF IInv, ClaimInv, Ration, HeldAreOwn, Holds
      <3> QED
        BY <3>1, <3>2
    <2> QED
      BY <2>1
  <1>7. /\ gone \subseteq gone2
        /\ \A g \in Handlers, i \in 1..Len(sends) : i \notin gone2 /\ Holds(g, i) => Holds(g, i)'
    BY <1>5 DEF Holds, HasSent
  <1>8. \A i \in 1..Len(sends) : CooledDown(i) => CooledDown(i)'
    BY <1>2 DEF CooledDown
  <1>9. \A g \in Handlers :
           /\ HasSent(g)' => /\ HasSent(g) /\ handlers'[g].nonce = handlers[g].nonce
                             /\ handlers[g].nonce \notin gone2
           /\ Passed(g)' => /\ handlers'[g].to = handlers[g].to
                            /\ Passed(g) /\ (HasSent(g) => HasSent(g)')
    BY <1>5, <1>6 DEF HasSent, Passed
  <1> HIDE DEF gone2
  <1> QED
    BY <1>1, <1>2, <1>4, <1>7, <1>8, <1>9, RationQuiet

\* A crash adds the mints of all claims under way.
LEMMA RationCrash ==
    ASSUME IInv, RationInv, GatewayCrashes
    PROVE  RationInv'
  <1>1. PICK gone, own : Ration(gone, own)
    BY DEF RationInv
  <1> DEFINE S == {h \in Handlers : HasSent(h)}
             held == {handlers[h].nonce : h \in S}
             gone2 == gone \cup held
  <1>2. /\ handlers' = [h \in Handlers |-> Free] /\ lost' = lost + Cardinality(S)
        /\ UNCHANGED <<sends, now, cooldownUntil>>
    BY DEF GatewayCrashes
  <1>3. /\ Len(sends) \in Nat
        /\ gone \subseteq 1..Len(sends) /\ Cardinality(gone) <= lost /\ lost \in Nat
    BY <1>1, SendsLength, Bounds DEF IInv, TypeInv, Ration
  <1>4. IsFiniteSet(S) /\ Cardinality(S) \in Nat
    BY Bounds, FS_Subset, FS_CardinalityType
  <1>5. IsFiniteSet(held) /\ Cardinality(held) \in Nat /\ Cardinality(held) <= Cardinality(S)
    <2> DEFINE f == [h \in S |-> handlers[h].nonce]
    <2>1. f \in Surjection(S, held)
      BY DEF Surjection
    <2>2. IsFiniteSet(held) /\ Cardinality(held) <= Cardinality(S)
      <3> HIDE DEF S, held, f
      <3> QED
        BY <1>4, <2>1, FS_Surjection
    <2> QED
      BY <2>2, FS_CardinalityType
  <1>6. held \subseteq 1..Len(sends)
    BY DEF IInv, ClaimInv
  <1>7. gone2 \subseteq 1..Len(sends) /\ Cardinality(gone2) <= lost'
    <2>1. IsFiniteSet(gone) /\ Cardinality(gone) \in Nat
      BY <1>3, FinitePart
    <2> HIDE DEF held, S
    <2>2. IsFiniteSet(gone \cap held) /\ Cardinality(gone \cap held) \in Nat
      BY <2>1, FS_Subset, FS_CardinalityType
    <2>3. /\ IsFiniteSet(gone2)
          /\ Cardinality(gone2) = Cardinality(gone) + Cardinality(held) - Cardinality(gone \cap held)
      BY <1>5, <2>1, FS_Union
    <2> QED
      BY <1>2, <1>3, <1>4, <1>5, <1>6, <2>1, <2>2, <2>3
  <1>8. \A h \in Handlers : ~HasSent(h)' /\ ~Passed(h)'
    BY <1>2 DEF HasSent, Passed, Free
  <1>9. \A h \in Handlers, i \in 1..Len(sends) : ~(i \notin gone2 /\ Holds(h, i))
    BY DEF Holds
  <1>10. \A i \in 1..Len(sends) : CooledDown(i) => CooledDown(i)'
    BY <1>2 DEF CooledDown
  <1>11. gone \subseteq gone2
    OBVIOUS
  <1> HIDE DEF gone2
  <1> QED
    BY <1>1, <1>2, <1>7, <1>8, <1>9, <1>10, <1>11, RationQuiet

\* Storing the cooldown lets go of a mint: both end a cooldown after it.
LEMMA RationStore ==
    ASSUME IInv, RationInv, NEW h \in Handlers, Store(h)
    PROVE  RationInv'
  <1>1. PICK gone, own : Ration(gone, own)
    BY DEF RationInv
  <1>2. /\ handlers' = [handlers EXCEPT ![h] = Free]
        /\ UNCHANGED <<sends, now, lost>>
        /\ cooldownUntil' = [cooldownUntil EXCEPT ![handlers[h].to] = now + COOLDOWN]
        /\ handlers[h].pc = "store"
    BY DEF Store, Answer
  <1>3. /\ handlers \in [Handlers -> Handler] /\ handlers[h].to \in Addresses
        /\ now \in Nat /\ COOLDOWN \in Nat
        /\ cooldownUntil \in [Addresses -> Nat]
        /\ \A i \in 1..Len(sends) : sends[i].time \in Nat
    <2>1. \A i \in 1..Len(sends) : sends[i] \in Sent
      BY ElementOfSeq DEF IInv, TypeInv
    <2> QED
      BY <1>2, <2>1, Bounds DEF IInv, TypeInv, Sent
  <1>4. gone \subseteq 1..Len(sends) /\ Cardinality(gone) <= lost'
    BY <1>1, <1>2 DEF Ration
  <1>5. ~HasSent(h)' /\ ~Passed(h)' /\ \A g \in Handlers \ {h} : handlers'[g] = handlers[g]
    BY <1>2, <1>3 DEF HasSent, Passed, Free
  <1>6. \A g \in Handlers : HasSent(g) => handlers[g].nonce \notin gone
    BY <1>1 DEF IInv, ClaimInv, Ration, HeldAreOwn, Holds
  <1>7. \A g \in Handlers :
           /\ HasSent(g)' => /\ HasSent(g) /\ handlers'[g].nonce = handlers[g].nonce
                             /\ handlers[g].nonce \notin gone
           /\ Passed(g)' => /\ handlers'[g].to = handlers[g].to
                            /\ Passed(g) /\ (HasSent(g) => HasSent(g)')
    BY <1>5, <1>6 DEF HasSent, Passed
  <1>8. ASSUME NEW i \in 1..Len(sends), sends[i].mined, sends[i].to = handlers[h].to
        PROVE  CooledDown(i)'
    <2>1. cooldownUntil'[sends[i].to] = now + COOLDOWN
      BY <1>2, <1>3, <1>8
    <2>2. sends[i].time <= now
      BY <1>8 DEF IInv, MinedInThePast
    <2> QED
      BY <1>2, <1>3, <1>8, <2>1, <2>2 DEF CooledDown
  <1>9. ASSUME NEW i \in 1..Len(sends), sends[i].to \in Addresses, CooledDown(i) PROVE CooledDown(i)'
    <2>1. CASE sends[i].to = handlers[h].to
      BY <1>8, <1>9, <2>1 DEF CooledDown
    <2>2. CASE sends[i].to # handlers[h].to
      <3>1. cooldownUntil'[sends[i].to] = cooldownUntil[sends[i].to]
        BY <1>2, <1>3, <1>9, <2>2
      <3> QED
        BY <1>2, <1>9, <3>1 DEF CooledDown
    <2> QED
      BY <2>1, <2>2
  <1>10. ASSUME NEW g \in Handlers, NEW i \in 1..Len(sends), Holds(g, i)
         PROVE  Holds(g, i)' \/ CooledDown(i)'
    <2>1. CASE g = h
      <3>1. sends[i].mined /\ sends[i].to = handlers[h].to
        BY <1>2, <1>10, <2>1 DEF IInv, ClaimInv, Holds
      <3> QED
        BY <1>8, <3>1
    <2>2. CASE g # h
      BY <1>5, <1>10, <2>2 DEF Holds, HasSent
    <2> QED
      BY <2>1, <2>2
  <1> QED
    BY <1>1, <1>2, <1>4, <1>7, <1>9, <1>10, RationQuiet

\* A transaction more, the deployer's or that of a handler which then holds it.
LEMMA RationAppend ==
    ASSUME IInv, RationInv, NEW new \in Sent, ~new.mined, sends' = Append(sends, new),
           UNCHANGED <<cooldownUntil, now, lost>>,
           \/ new.to \notin Addresses /\ UNCHANGED handlers
           \/ \E h \in Handlers :
                  /\ handlers[h].pc = "send" /\ handlers[h].nonce = Len(sends) + 1
                  /\ Goto(h, "wait")
    PROVE  RationInv'
  <1>0. PICK n : n = Len(sends) + 1
    OBVIOUS
  <1>1. PICK gone, own : Ration(gone, own)
    BY DEF RationInv
  <1>2. /\ Len(sends) \in Nat /\ Len(sends') = n /\ n \notin 1..Len(sends)
        /\ sends'[n] = new /\ \A i \in 1..Len(sends) : sends'[i] = sends[i]
        /\ \A i \in 1..n : i = n \/ i \in 1..Len(sends)
        /\ handlers \in [Handlers -> Handler]
    BY <1>0, SendsLength, Appended DEF IInv, TypeInv
  <1>3. gone \subseteq 1..Len(sends) /\ Cardinality(gone) <= lost
    BY <1>1 DEF Ration
  <1>4. PICK g : \/ new.to \notin Addresses /\ UNCHANGED handlers
                \/ /\ g \in Handlers
                   /\ handlers[g].pc = "send" /\ handlers[g].nonce = n
                   /\ Goto(g, "wait")
    BY <1>0
  <1> DEFINE own2 == [i \in 1..n |-> IF i = n THEN g ELSE own[i]]
  <1>5. own2[n] = g /\ \A i \in 1..Len(sends) : own2[i] = own[i]
    BY <1>2
  <1> HIDE DEF own2
  <1>6. /\ \A i \in Kept(gone)' : i = n \/ i \in Kept(gone)
        /\ \A i \in Kept(gone) : i \in 1..Len(sends) /\ i # n /\ sends'[i] = sends[i] /\ own2[i] = own[i]
    BY <1>2, <1>5 DEF Kept
  <1>7. \A h \in Handlers :
           /\ Passed(h)' => Passed(h) /\ handlers'[h].to = handlers[h].to
           /\ \A i \in 1..Len(sends) : Holds(h, i)' <=> Holds(h, i)
    <2>1. CASE UNCHANGED handlers
      BY <2>1 DEF Passed, Holds, HasSent
    <2>2. CASE g \in Handlers /\ handlers[g].pc = "send" /\ handlers[g].nonce = n /\ Goto(g, "wait")
      <3>1. \A h \in Handlers \ {g} : handlers'[h] = handlers[h]
        BY <1>2, <2>2 DEF Goto
      <3>2. /\ Passed(g) /\ ~HasSent(g) /\ handlers'[g].to = handlers[g].to
            /\ handlers'[g].nonce = n
        BY <1>2, <2>2 DEF Goto, Passed, HasSent, Handler
      <3> QED
        BY <1>2, <3>1, <3>2 DEF Passed, Holds, HasSent
    <2> QED
      BY <1>4, <2>1, <2>2
  <1>8. n \in Kept(gone)' => g \in Handlers /\ Holds(g, n)'
    <2>1. n \in Kept(gone)' => new.to \in Addresses
      BY <1>2 DEF Kept
    <2>2. Goto(g, "wait") /\ g \in Handlers /\ handlers[g].nonce = n => Holds(g, n)'
      BY <1>2 DEF Goto, Holds, HasSent, Handler
    <2> QED
      BY <1>4, <2>1, <2>2
  <1>9. ASSUME NEW h \in Handlers, Holds(h, n)' PROVE h = g
    <2>1. ~Holds(h, n)
      BY <1>2 DEF Holds, IInv, ClaimInv
    <2>2. handlers'[h] # handlers[h]
      BY <1>9, <2>1 DEF Holds, HasSent
    <2> QED
      BY <1>2, <1>4, <2>2 DEF Goto
  <1>10. \A i \in Kept(gone) : (CooledDown(i) => CooledDown(i)')
    BY <1>6 DEF CooledDown
  <1>11. HeldAreOwn(gone, own2)'
    <2> SUFFICES ASSUME NEW h \in Handlers, NEW i \in 1..n, Holds(h, i)'
                 PROVE  i \notin gone /\ own2[i] = h
      BY <1>2 DEF HeldAreOwn
    <2>1. CASE i = n
      BY <1>2, <1>3, <1>5, <1>9, <2>1
    <2>2. CASE i \in 1..Len(sends)
      BY <1>1, <1>5, <1>7, <2>2 DEF Ration, HeldAreOwn
    <2> QED
      BY <1>2, <2>1, <2>2
  <1>12. KeptAreOwned(gone, own2)'
    <2> SUFFICES ASSUME NEW i \in Kept(gone)'
                 PROVE  own2[i] \in Handlers /\ (Holds(own2[i], i)' \/ CooledDown(i)')
      BY DEF KeptAreOwned
    <2>1. CASE i = n
      BY <1>5, <1>8, <2>1
    <2>2. CASE i \in Kept(gone)
      <3>1. own[i] \in Handlers /\ (Holds(own[i], i) \/ CooledDown(i))
        BY <1>1, <2>2 DEF Ration, KeptAreOwned
      <3> QED
        BY <1>6, <1>7, <1>10, <2>2, <3>1
    <2> QED
      BY <1>6, <2>1, <2>2
  <1>13. KeptAreOver(gone, own2)'
    <2> SUFFICES ASSUME NEW i \in Kept(gone)', NEW h \in Handlers, own2[i] = h, Passed(h)',
                        handlers'[h].to = sends'[i].to, ~Holds(h, i)'
                 PROVE  sends'[i].time + COOLDOWN <= now
      BY DEF KeptAreOver
    <2>1. i \in Kept(gone)
      BY <1>5, <1>6, <1>8
    <2>2. own[i] = h /\ Passed(h) /\ handlers[h].to = sends[i].to /\ ~Holds(h, i)
      BY <1>6, <1>7, <2>1
    <2>3. sends[i].time + COOLDOWN <= now
      BY <1>1, <2>1, <2>2 DEF Ration, KeptAreOver
    <2> QED
      BY <1>6, <2>1, <2>3
  <1>14. KeptAreSpaced(gone, own2)'
    <2> SUFFICES ASSUME NEW i \in Kept(gone)', NEW j \in Kept(gone)', Rivals(own2, i, j)'
                 PROVE  Spaced(i, j)'
      BY DEF KeptAreSpaced
    <2>1. i \in Kept(gone) /\ j \in Kept(gone)
      BY <1>2, <1>6 DEF Rivals
    <2>2. Spaced(i, j)
      BY <1>1, <1>6, <2>1 DEF Ration, KeptAreSpaced, Rivals
    <2> QED
      BY <1>6, <2>1, <2>2 DEF Spaced
  <1>15. gone \subseteq 1..Len(sends') /\ Cardinality(gone) <= lost'
    BY <1>0, <1>2, <1>3
  <1> QED
    BY <1>11, <1>12, <1>13, <1>14, <1>15 DEF Ration, RationInv

\* A mint is mined when its request has passed its check, a cooldown after
\* the mints of the same handler before it.
LEMMA RationMine ==
    ASSUME IInv, RationInv, Mine
    PROVE  RationInv'
  <1>0. sends \in Seq(Sent) /\ Len(sends) \in Nat /\ now \in 0..MaxTime
    BY SendsLength DEF IInv, TypeInv
  <1>1. PICK gone, own : Ration(gone, own)
    BY DEF RationInv
  <1>2. PICK k \in 1..Len(sends) :
            /\ ~sends[k].mined
            /\ sends' = [sends EXCEPT ![k] = [@ EXCEPT !.mined = TRUE, !.time = now]]
    BY DEF Mine
  <1> DEFINE new == [sends[k] EXCEPT !.mined = TRUE, !.time = now]
  <1>3. /\ new \in Sent /\ new.mined /\ new.time = now /\ new.to = sends[k].to
        /\ Len(sends') = Len(sends)
        /\ \A i \in 1..Len(sends) : sends'[i] = IF i = k THEN new ELSE sends[i]
    <2>1. sends[k] \in Sent
      BY <1>0, ElementOfSeq
    <2>2. new \in Sent /\ new.mined /\ new.time = now /\ new.to = sends[k].to
      BY <1>0, <2>1 DEF Sent
    <2> QED
      BY <1>0, <1>2, <2>2, ExceptSeq
  <1> HIDE DEF new
  <1>4. UNCHANGED <<handlers, cooldownUntil, now, lost>>
    BY DEF Mine
  <1>5. \A h, i : (Holds(h, i)' <=> Holds(h, i)) /\ (Passed(h)' <=> Passed(h))
    BY <1>4 DEF Holds, HasSent, Passed
  <1>6. \A i \in Kept(gone)' : /\ i \in Kept(gone) /\ i \in 1..Len(sends)
                               /\ sends'[i].to = sends[i].to
                               /\ i # k => sends'[i] = sends[i]
    BY <1>3 DEF Kept
  <1>7. k \in Kept(gone) => own[k] \in Handlers /\ Holds(own[k], k)
    BY <1>1, <1>2 DEF Ration, KeptAreOwned, CooledDown
  <1>8. gone \subseteq 1..Len(sends') /\ Cardinality(gone) <= lost'
    BY <1>1, <1>3, <1>4 DEF Ration
  <1>9. HeldAreOwn(gone, own)'
    BY <1>1, <1>3, <1>5 DEF Ration, HeldAreOwn
  <1>10. KeptAreOwned(gone, own)'
    <2> SUFFICES ASSUME NEW i \in Kept(gone)'
                 PROVE  own[i] \in Handlers /\ (Holds(own[i], i)' \/ CooledDown(i)')
      BY DEF KeptAreOwned
    <2>1. CASE i = k
      BY <1>5, <1>6, <1>7, <2>1
    <2>2. CASE i # k
      <3>1. own[i] \in Handlers /\ (Holds(own[i], i) \/ CooledDown(i))
        BY <1>1, <1>6 DEF Ration, KeptAreOwned
      <3> QED
        BY <1>4, <1>5, <1>6, <2>2, <3>1 DEF CooledDown
    <2> QED
      BY <2>1, <2>2
  <1>11. KeptAreOver(gone, own)'
    <2> SUFFICES ASSUME NEW i \in Kept(gone)', NEW h \in Handlers, own[i] = h, Passed(h)',
                        handlers'[h].to = sends'[i].to, ~Holds(h, i)'
                 PROVE  sends'[i].time + COOLDOWN <= now
      BY <1>4 DEF KeptAreOver
    <2>1. i # k /\ sends'[i] = sends[i]
      BY <1>5, <1>6, <1>7
    <2>2. sends[i].time + COOLDOWN <= now
      BY <1>1, <1>4, <1>5, <1>6 DEF Ration, KeptAreOver
    <2> QED
      BY <2>1, <2>2
  <1>12. ASSUME NEW i \in Kept(gone), i # k, k \in Kept(gone), own[i] = own[k],
                sends[i].to = sends[k].to
         PROVE  sends[i].time + COOLDOWN <= now
    <2> DEFINE h == own[k]
    <2>1. h \in Handlers /\ HasSent(h) /\ handlers[h].nonce = k
      BY <1>7, <1>12 DEF Holds
    <2>2. handlers[h].to = sends[i].to
      BY <1>12, <2>1 DEF IInv, ClaimInv
    <2>3. Passed(h) /\ ~Holds(h, i)
      BY <1>12, <2>1 DEF Passed, HasSent, Holds
    <2> HIDE DEF h
    <2>4. own[i] = h
      BY <1>12 DEF h
    <2> QED
      BY <1>1, <1>12, <2>1, <2>2, <2>3, <2>4 DEF Ration, KeptAreOver
  <1>13. KeptAreSpaced(gone, own)'
    <2> SUFFICES ASSUME NEW i \in Kept(gone)', NEW j \in Kept(gone)', Rivals(own, i, j)'
                 PROVE  Spaced(i, j)'
      BY DEF KeptAreSpaced
    <2>1. CASE i # k /\ j # k
      <3>1. Spaced(i, j)
        BY <1>1, <1>6, <2>1 DEF Ration, KeptAreSpaced, Rivals
      <3> QED
        BY <1>6, <2>1, <3>1 DEF Spaced
    <2>2. CASE i = k
      <3>1. sends[j].time + COOLDOWN <= now
        BY <1>6, <1>12, <2>2 DEF Rivals
      <3>2. sends'[j].time = sends[j].time /\ sends'[i].time = now
        BY <1>3, <1>6, <2>2 DEF Rivals
      <3> QED
        BY <3>1, <3>2 DEF Spaced
    <2>3. CASE j = k
      <3>1. sends[i].time + COOLDOWN <= now
        BY <1>6, <1>12, <2>3 DEF Rivals
      <3>2. sends'[i].time = sends[i].time /\ sends'[j].time = now
        BY <1>3, <1>6, <2>3 DEF Rivals
      <3> QED
        BY <3>1, <3>2 DEF Spaced
    <2> QED
      BY <2>1, <2>2, <2>3
  <1> QED
    BY <1>8, <1>9, <1>10, <1>11, <1>13 DEF Ration, RationInv

LEMMA RationSend ==
    ASSUME IInv, RationInv, NEW h \in Handlers, Send(h)
    PROVE  RationInv'
  <1>1. CASE Answer(h, "idle") /\ UNCHANGED sends
    BY <1>1, RationServing
  <1> DEFINE new == [to |-> handlers[h].to, mined |-> FALSE, time |-> 0]
  <1>2. CASE /\ handlers[h].nonce = Len(sends) + 1 /\ sends' = Append(sends, new)
             /\ Goto(h, "wait")
    <2>1. new \in Sent /\ ~new.mined
      BY Bounds DEF Send, IInv, TypeInv, Sent
    <2> QED
      BY <1>2, <2>1, RationAppend DEF Send
  <1> QED
    BY <1>1, <1>2 DEF Send

LEMMA RationStill ==
    ASSUME IInv, RationInv, UNCHANGED <<handlers, cooldownUntil, sends, lost>>,
           now' = now \/ now' = now + 1
    PROVE  RationInv'
  <1>1. PICK gone, own : Ration(gone, own)
    BY DEF RationInv
  <1>2. now \in Nat /\ COOLDOWN \in Nat /\ \A i \in 1..Len(sends) : sends[i].time \in Nat
    <2>1. \A i \in 1..Len(sends) : sends[i] \in Sent
      BY ElementOfSeq DEF IInv, TypeInv
    <2> QED
      BY <2>1, Bounds DEF IInv, TypeInv, Sent
  <1>3. KeptAreOver(gone, own)'
    <2> SUFFICES ASSUME NEW i \in Kept(gone), NEW h \in Handlers, own[i] = h, Passed(h),
                        handlers[h].to = sends[i].to, ~Holds(h, i)
                 PROVE  sends[i].time + COOLDOWN <= now'
      BY DEF KeptAreOver, Kept, Passed, Holds, HasSent
    <2>1. sends[i].time + COOLDOWN <= now /\ sends[i].time \in Nat
      BY <1>1, <1>2 DEF Ration, KeptAreOver, Kept
    <2> QED
      BY <1>2, <2>1
  <1>4. HeldAreOwn(gone, own)' /\ KeptAreOwned(gone, own)' /\ KeptAreSpaced(gone, own)'
    BY <1>1 DEF Ration, HeldAreOwn, KeptAreOwned, KeptAreSpaced, Rivals, Kept, Holds,
                HasSent, CooledDown, Spaced
  <1> QED
    BY <1>1, <1>3, <1>4 DEF Ration, RationInv

LEMMA RationStep ==
    ASSUME IInv, RationInv, [Next]_vars
    PROVE  RationInv'
  <1>1. CASE UNCHANGED vars \/ Tick
    BY <1>1, RationStill DEF vars, Tick
  <1>2. ASSUME NEW b \in Buttons, ShowIdle(b) \/ \E h \in Handlers, a \in Addresses : Claim(b, h, a)
        PROVE  RationInv'
    <2>1. CASE ShowIdle(b)
      BY <2>1, RationStill DEF ShowIdle
    <2>2. ASSUME NEW h \in Handlers, NEW a \in Addresses, Claim(b, h, a) PROVE RationInv'
      BY <2>2, RationClaim
    <2> QED
      BY <1>2, <2>1, <2>2
  <1>3. ASSUME NEW h \in Handlers,
               Check(h) \/ FetchNonce(h) \/ Receipt(h) \/ CallFails(h) \/ Disconnect(h)
        PROVE  RationInv'
    BY <1>3, RationServing, RationLost
  <1>4. ASSUME NEW h \in Handlers, Send(h) PROVE RationInv'
    BY <1>4, RationSend
  <1>5. ASSUME NEW h \in Handlers, Store(h) PROVE RationInv'
    BY <1>5, RationStore
  <1>6. CASE OtherSend
    <2> DEFINE new == [to |-> Nobody, mined |-> FALSE, time |-> 0]
    <2>1. new \in Sent /\ ~new.mined /\ new.to \notin Addresses
      BY Bounds DEF Sent
    <2> QED
      BY <1>6, <2>1, RationAppend DEF OtherSend
  <1>7. CASE Mine
    BY <1>7, RationMine
  <1>8. CASE GatewayCrashes
    BY <1>8, RationCrash
  <1> QED
    BY <1>1, <1>2, <1>3, <1>4, <1>5, <1>6, <1>7, <1>8 DEF Next

LEMMA RationInit == Init => RationInv
  <1> SUFFICES ASSUME Init PROVE RationInv
    OBVIOUS
  <1>1. Len(sends) = 0 /\ 1..Len(sends) = {}
    BY EmptySeq DEF Init
  <1>2. Cardinality({}) <= lost
    BY FS_EmptySet DEF Init
  <1>3. \A own : Ration({}, own)
    BY <1>1, <1>2 DEF Ration, HeldAreOwn, KeptAreOwned, KeptAreOver, KeptAreSpaced, Kept
  <1> QED
    BY <1>3 DEF RationInv

-----------------------------------------------------------------------------
(* Theorems *)

LEMMA Invariant == Spec => []IInv
  <1>1. IInv /\ UNCHANGED vars => IInv'
    BY DEF vars, IInv, TypeInv, ClaimInv, HasSent, MintsAreNotShared, MinedInThePast, PaidInv
  <1>2. IInv /\ [Next]_vars => IInv'
    BY <1>1, ServingStep, CrashStep, ButtonStep, SendStep, OtherSendStep, MineStep,
       StoreStep, TickStep DEF Next
  <1> QED
    BY <1>2, InvInit, PTL DEF Spec

\* TypeOK of buttons, handlers, cooldowns and transactions.
THEOREM TypeCorrect == Spec => []TypeOK
  <1>1. TypeInv => TypeOK
    <2> SUFFICES ASSUME TypeInv PROVE TypeOK
      OBVIOUS
    <2>1. \A i \in 1..Len(sends) : sends[i] \in Sent
      BY ElementOfSeq DEF TypeInv
    <2> QED
      BY <2>1 DEF TypeInv, TypeOK, Handler, Sent
  <1> QED
    BY <1>1, Invariant, PTL DEF IInv

\* No two claims that are under way count the same mint, though POST /faucet
\* fetches the nonce and sends in separate steps.
THEOREM MintsAreOwn == Spec => []MintsAreNotShared
  <1> QED
    BY Invariant, PTL DEF IInv

\* Who is in cooldown has got a mint before it began.
THEOREM CooldownsArePaidFor == Spec => []CooldownIsPaidFor
  <1>1. IInv => CooldownIsPaidFor
    <2> SUFFICES ASSUME IInv, NEW a \in Addresses, now < cooldownUntil[a]
                 PROVE  MintsTo(a, 0, cooldownUntil[a] - COOLDOWN) # {}
      BY DEF CooldownIsPaidFor
    <2>1. PICK i \in 1..Len(sends) : /\ sends[i].to = a /\ sends[i].mined
                                     /\ sends[i].time <= cooldownUntil[a] - COOLDOWN
      BY DEF IInv, PaidInv
    <2>2. sends[i] \in Sent
      BY ElementOfSeq DEF IInv, TypeInv
    <2>3. cooldownUntil[a] \in Nat
      BY Bounds DEF IInv, TypeInv
    <2>4. sends[i].time \in 0..(cooldownUntil[a] - COOLDOWN)
      BY <2>1, <2>2, <2>3, Bounds DEF Sent
    <2> QED
      BY <2>1, <2>4 DEF MintsTo
  <1> QED
    BY <1>1, Invariant, PTL

\* No period of one cooldown has more mints to an address than there are
\* requests served at once, and claims lost after their mint was sent.
THEOREM FaucetRations == Spec => []MintsAreRationed
  <1>1. ASSUME IInv, RationInv PROVE MintsAreRationed
    <2> SUFFICES ASSUME NEW a \in Addresses, NEW t \in 0..MaxTime
                 PROVE  Cardinality(MintsTo(a, t, t + COOLDOWN - 1)) <= Cardinality(Handlers) + lost
      BY DEF MintsAreRationed
    <2>1. PICK gone, own : Ration(gone, own)
      BY <1>1 DEF RationInv
    <2> DEFINE mints == MintsTo(a, t, t + COOLDOWN - 1)
               kept == mints \ gone
               f == [i \in kept |-> own[i]]
    <2>2. Len(sends) \in Nat /\ mints \subseteq 1..Len(sends)
      BY <1>1, SendsLength DEF IInv, MintsTo
    <2>3. f \in Injection(kept, Handlers)
      <3>1. ASSUME NEW i \in kept
            PROVE  /\ i \in Kept(gone) /\ sends[i].to = a /\ sends[i].mined
                   /\ t <= sends[i].time /\ sends[i].time <= t + COOLDOWN - 1
                   /\ sends[i].time \in Nat
        <4>1. sends[i] \in Sent
          BY <1>1, <2>2, <3>1, ElementOfSeq DEF IInv, TypeInv
        <4> QED
          BY <3>1, <4>1, Bounds DEF MintsTo, Kept, Sent
      <3>2. \A i \in kept : own[i] \in Handlers
        BY <2>1, <3>1 DEF Ration, KeptAreOwned
      <3>3. ASSUME NEW i \in kept, NEW j \in kept, own[i] = own[j], i # j PROVE FALSE
        <4> HIDE DEF kept
        <4>1. Spaced(i, j)
          BY <2>1, <3>1, <3>3 DEF Ration, KeptAreSpaced, Rivals
        <4> QED
          BY <3>1, <4>1, Bounds DEF Spaced
      <3> HIDE DEF kept
      <3>4. f \in [kept -> Handlers] /\ \A i, j \in kept : f[i] = f[j] => i = j
        BY <3>2, <3>3
      <3> QED
        BY <3>4 DEF Injection, IsInjective
    <2>4. Cardinality(kept) <= Cardinality(Handlers) /\ IsFiniteSet(kept)
      BY <2>3, Bounds, FS_Injection
    <2>5. gone \subseteq 1..Len(sends) /\ Cardinality(gone) <= lost
      BY <2>1 DEF Ration
    <2>6. IsFiniteSet(gone) /\ Cardinality(gone) \in Nat
      BY <2>2, <2>5, FinitePart
    <2>7. mints \subseteq kept \cup gone
      OBVIOUS
    <2> HIDE DEF kept, mints, f
    <2>8. /\ IsFiniteSet(kept \cup gone)
          /\ Cardinality(kept \cup gone) = Cardinality(kept) + Cardinality(gone) - Cardinality(kept \cap gone)
      BY <2>4, <2>6, FS_Union
    <2>9. IsFiniteSet(kept \cap gone)
      BY <2>4, FS_Subset
    <2>10. /\ Cardinality(kept) \in Nat /\ Cardinality(kept \cap gone) \in Nat
           /\ Cardinality(mints) \in Nat /\ Cardinality(kept \cup gone) \in Nat
           /\ Cardinality(Handlers) \in Nat
      BY <2>2, <2>4, <2>8, <2>9, FinitePart, FS_CardinalityType, Bounds
    <2>11. Cardinality(mints) <= Cardinality(kept \cup gone)
      BY <2>7, <2>8, FS_Subset
    <2>12. lost \in Nat
      BY <1>1, Bounds DEF IInv, TypeInv
    <2>13. Cardinality(mints) <= Cardinality(Handlers) + lost
      BY <2>4, <2>5, <2>6, <2>8, <2>10, <2>11, <2>12
    <2> QED
      BY <2>13 DEF mints
  <1>2. Init => IInv /\ RationInv
    BY InvInit, RationInit
  <1> QED
    BY <1>1, <1>2, Invariant, RationStep, PTL DEF Spec

=============================================================================
