------------------------------ MODULE StakeMirror ------------------------------
(*****************************************************************************)
(* The database's copy of the stakes of one market: recordStake              *)
(* (market.service.ts) as the handler of POST /stakes runs it.  Each await   *)
(* is a step, so that handlers interleave between reading the market and     *)
(* writing the stake with the new pool:                                      *)
(*                                                                           *)
(*   market -> existing -> write -> ok | failed                              *)
(*****************************************************************************)
EXTENDS FiniteSetsExt, Naturals

CONSTANT Handlers           \* requests the api-gateway serves at once

Sides == {"YES", "NO"}

VARIABLES
    row,            \* status of the market, pool per side
    stakes,         \* the stake table: [tx, side, amount], tx is unique
    handlers,       \* per handler: pc, the stake reported, the pool it has read
    overlapped      \* history: the sides on which two handlers have overlapped

mirrorVars == <<row, stakes, handlers, overlapped>>

NoStake == [tx |-> 0, side |-> "YES", amount |-> 0]
Free == [pc |-> "idle", req |-> NoStake, seen |-> 0]

MirrorInit ==
    /\ row = [status |-> "OPEN", pool |-> [s \in Sides |-> 0]]
    /\ stakes = {}
    /\ handlers = [h \in Handlers |-> Free]
    /\ overlapped = {}

Move(h, pc) == handlers' = [handlers EXCEPT ![h].pc = pc]
Answer(h, pc) == handlers' = [handlers EXCEPT ![h].pc = pc, ![h].seen = 0]

\* requireAuth and the schema have let the request pass.
Accept(h, stake) ==
    /\ handlers[h] = Free
    /\ handlers' = [handlers EXCEPT ![h] = [Free EXCEPT !.pc = "market", !.req = stake]]
    /\ UNCHANGED <<row, stakes, overlapped>>

\* A handler between its read of the pools and its write of one of them.
HoldsPool(h, side) ==
    handlers[h].pc \in {"existing", "write"} /\ handlers[h].req.side = side

\* findUnique of the market: not OPEN is an error, else the pool of the side is in hand.
ReadMarket(h) ==
    /\ handlers[h].pc = "market"
    /\ \/ /\ row.status # "OPEN"
          /\ Answer(h, "failed")
          /\ UNCHANGED overlapped
       \/ /\ row.status = "OPEN"
          /\ LET side == handlers[h].req.side
             IN  /\ handlers' = [handlers EXCEPT ![h].pc = "existing", ![h].seen = row.pool[side]]
                 /\ overlapped' = IF \E g \in Handlers \ {h} : HoldsPool(g, side)
                                  THEN overlapped \cup {side} ELSE overlapped
    /\ UNCHANGED <<row, stakes>>

Known(stake) == \E s \in stakes : s.tx = stake.tx

\* findUnique by txHash: a stake already recorded is returned as it is.
FindExisting(h) ==
    /\ handlers[h].pc = "existing"
    /\ IF Known(handlers[h].req) THEN Answer(h, "ok") ELSE Move(h, "write")
    /\ UNCHANGED <<row, stakes, overlapped>>

\* Mutant: the pool is set to the amount alone.
WriteStakeFromZero(h) ==
    LET req == handlers[h].req
    IN  /\ handlers[h].pc = "write"
        /\ ~Known(req)
        /\ stakes' = stakes \cup {req}
        /\ row' = [row EXCEPT !.pool[req.side] = req.amount]
        /\ Answer(h, "ok")
        /\ UNCHANGED overlapped

\* One database transaction: the stake row, whose txHash is unique, and the
\* pool, set to the sum of what was read and the amount.
WriteStake(h) ==
    LET req == handlers[h].req
    IN  /\ handlers[h].pc = "write"
        /\ \/ /\ Known(req)
              /\ Answer(h, "failed")
              /\ UNCHANGED <<row, stakes>>
           \/ /\ ~Known(req)
              /\ stakes' = stakes \cup {req}
              /\ row' = [row EXCEPT !.pool[req.side] = handlers[h].seen + req.amount]
              /\ Answer(h, "ok")
        /\ UNCHANGED overlapped

\* A database call throws.
MirrorFails(h) ==
    /\ handlers[h].pc \in {"market", "existing", "write"}
    /\ Answer(h, "failed")
    /\ UNCHANGED <<row, stakes, overlapped>>

\* The lock worker's write (WriteLocked of MarketLifecycle).
LockRow ==
    /\ row.status = "OPEN"
    /\ row' = [row EXCEPT !.status = "LOCKED"]
    /\ UNCHANGED <<stakes, handlers, overlapped>>

MirrorStep(h) == ReadMarket(h) \/ FindExisting(h) \/ WriteStake(h) \/ MirrorFails(h)

-----------------------------------------------------------------------------
TotalOn(side) == MapThenSumSet(LAMBDA s : s.amount, {s \in stakes : s.side = side})

\* Only two stakes recorded at once on one side can make a pool of the row
\* differ from the sum of its stakes.
PoolExactUnlessOverlapped ==
    \A side \in Sides \ overlapped : row.pool[side] = TotalOn(side)

=============================================================================
