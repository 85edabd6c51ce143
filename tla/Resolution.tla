------------------------------ MODULE Resolution ------------------------------
(*****************************************************************************)
(* How a prediction becomes a verdict: the parser turns it into a condition  *)
(* with a source (intent.parser.ts); after the deadline the resolver asks    *)
(* that source (market.resolver.ts with chainlink.adapter.ts or              *)
(* websearch.adapter.ts) and the agent decides (resolution.agent.ts).  The   *)
(* feed moves and time passes between any two awaits, every call to a node   *)
(* or to the model may fail, and the model may answer anything.              *)
(* What happens to the verdict afterwards is MarketLifecycle's matter.       *)
(*****************************************************************************)
EXTENDS PriceText

CONSTANTS
    Sources,        \* resolution sources the parser may be given
    Operators,
    Thresholds,     \* decimal numbers, [whole, frac]
    RawAnswers,     \* integers the feed may report
    FeedDecimals,   \* decimals a feed may have
    STALE,          \* age beyond which a price is refused (two hours)
    MaxTime         \* bound on the clock

ASSUME ResolutionAssumption ==
    /\ STALE \in Nat /\ MaxTime \in Nat \ {0}
    /\ Operators \subseteq {"gt", "gte", "lt", "lte", "eq", "neq"}
    /\ RawAnswers \subseteq Int /\ \A a \in RawAnswers : a < 10 ^ (SCALE + SIG)
    /\ FeedDecimals \subseteq 0..SCALE
    /\ \A t \in Thresholds :
          /\ t.whole \in Nat /\ t.whole < 10 ^ (SCALE + SIG)
          /\ t.frac \in Seq(0..9) /\ Len(t.frac) <= SCALE

VARIABLES
    now,
    market,     \* the row: source, whether the key names a feed, condition, deadline
    feed,       \* the feed's decimals, latest answer and its time
    pc,         \* where the resolution is
    read,       \* what fetchPrice has read of the feed, and when
    oracle,     \* kind of oracle value and, for a price, its text
    outcome

vars == <<now, market, feed, pc, read, oracle, outcome>>

Outcomes == {"YES", "NO", "VOID"}
NoText == [whole |-> 0, frac |-> <<>>]
NoMarket == [source |-> "NONE", feedKnown |-> FALSE, operator |-> "NONE",
             threshold |-> NoText, deadline |-> 0]
NoRead == [answer |-> 0, updatedAt |-> 0, at |-> 0]
NoOracle == [kind |-> "none", text |-> NoText]

Init ==
    /\ now = 1
    /\ market = NoMarket
    /\ \E a \in RawAnswers, d \in FeedDecimals :
          feed = [decimals |-> d, answer |-> a, updatedAt |-> 1]
    /\ pc = "asked"
    /\ read = NoRead
    /\ oracle = NoOracle
    /\ outcome = "NONE"

-----------------------------------------------------------------------------
(* The parser *)

\* No text, no JSON, not the schema, a failed call: the prediction is refused.
ParseFails ==
    /\ pc = "asked"
    /\ pc' = "refused"
    /\ UNCHANGED <<now, market, feed, read, oracle, outcome>>

\* Mutant: no look at the deadline.
ParseAnyDeadline ==
    /\ pc = "asked"
    /\ \E s \in Sources, known \in BOOLEAN, op \in Operators, t \in Thresholds, d \in 1..MaxTime :
          market' = [source |-> s, feedKnown |-> known, operator |-> op,
                     threshold |-> t, deadline |-> d]
    /\ pc' = "open"
    /\ UNCHANGED <<now, feed, read, oracle, outcome>>

\* A reply that satisfies the schema and has its deadline ahead; a low
\* confidence is only logged.
Parse ==
    /\ pc = "asked"
    /\ \E s \in Sources, known \in BOOLEAN, op \in Operators, t \in Thresholds, d \in 1..MaxTime :
          /\ d > now
          /\ s # "CHAINLINK_PRICE" => ~known
          /\ market' = [source |-> s, feedKnown |-> known, operator |-> op,
                        threshold |-> t, deadline |-> d]
    /\ pc' = "open"
    /\ UNCHANGED <<now, feed, read, oracle, outcome>>

-----------------------------------------------------------------------------
(* The resolver *)

Void ==
    /\ outcome' = "VOID"
    /\ pc' = "settle"

\* resolve() of the LOCKED market, up to the first call to the outside; a
\* source without an oracle and a key without a feed throw.
StartResolve ==
    /\ pc = "open"
    /\ now >= market.deadline
    /\ \/ market.source = "CHAINLINK_PRICE" /\ market.feedKnown
          /\ pc' = "round" /\ UNCHANGED outcome
       \/ market.source = "AI_WEB_SEARCH" /\ pc' = "search" /\ UNCHANGED outcome
       \/ market.source = "CHAINLINK_PRICE" /\ ~market.feedKnown /\ Void
       \/ market.source \in {"MANUAL", "CHAINLINK_EVENT"} /\ Void
    /\ UNCHANGED <<now, market, feed, read, oracle>>

\* A failing oracle refunds everybody.
OracleFails ==
    /\ pc \in {"round", "description", "search"}
    /\ Void
    /\ UNCHANGED <<now, market, feed, read, oracle>>

\* latestRoundData
ReadRound ==
    /\ pc = "round"
    /\ read' = [answer |-> feed.answer, updatedAt |-> feed.updatedAt, at |-> now]
    /\ pc' = "description"
    /\ UNCHANGED <<now, market, feed, oracle, outcome>>

\* Mutant: a price of any age will do.
FinishPriceAnyAge ==
    /\ pc = "description"
    /\ oracle' = [kind |-> "price", text |-> PrintPrice(read.answer, feed.decimals)]
    /\ pc' = "evaluate"
    /\ UNCHANGED <<now, market, feed, read, outcome>>

\* Mutant: an old price is read again instead of refused.
FinishPriceWaits ==
    /\ pc = "description"
    /\ IF now - read.updatedAt > STALE
       THEN pc' = "round" /\ UNCHANGED oracle
       ELSE /\ oracle' = [kind |-> "price", text |-> PrintPrice(read.answer, feed.decimals)]
            /\ pc' = "evaluate"
    /\ UNCHANGED <<now, market, feed, read, outcome>>

\* The last await of fetchPrice is over: the age of what was read counts now.
FinishPrice ==
    /\ pc = "description"
    /\ \/ /\ now - read.updatedAt > STALE
          /\ Void
          /\ UNCHANGED oracle
       \/ /\ now - read.updatedAt <= STALE
          /\ oracle' = [kind |-> "price", text |-> PrintPrice(read.answer, feed.decimals)]
          /\ pc' = "evaluate"
          /\ UNCHANGED outcome
    /\ UNCHANGED <<now, market, feed, read>>

\* The search's reply: a finding, or "not found", which is also what becomes
\* of a reply without text, without JSON or not of the schema.
SearchReplies ==
    /\ pc = "search"
    /\ \E kind \in {"finding", "not found"} : oracle' = [NoOracle EXCEPT !.kind = kind]
    /\ pc' = "evaluate"
    /\ UNCHANGED <<now, market, feed, read, outcome>>

-----------------------------------------------------------------------------
(* The agent *)

\* resolveNumericLocally: the schema's thresholds and the adapter's prices are
\* always numbers, its operators always known.
NumericVerdict(text) ==
    IF Compare(market.operator, ParseFloat(text), ParseFloat(market.threshold))
    THEN "YES" ELSE "NO"

EvaluatePrice ==
    /\ pc = "evaluate"
    /\ market.source = "CHAINLINK_PRICE"
    /\ outcome' = NumericVerdict(oracle.text)
    /\ pc' = "settle"
    /\ UNCHANGED <<now, market, feed, read, oracle>>

\* The model's valid reply decides; what it was told is in its prompt only.
AgentReplies ==
    /\ pc = "evaluate"
    /\ market.source # "CHAINLINK_PRICE"
    /\ \E o \in Outcomes : outcome' = o
    /\ pc' = "settle"
    /\ UNCHANGED <<now, market, feed, read, oracle>>

\* No text, no JSON, not the schema, a failed call: everybody is refunded.
AgentFails ==
    /\ pc = "evaluate"
    /\ market.source # "CHAINLINK_PRICE"
    /\ Void
    /\ UNCHANGED <<now, market, feed, read, oracle>>

\* resolve() is sent with the outcome's number.
Settle ==
    /\ pc = "settle"
    /\ pc' = "settled"
    /\ UNCHANGED <<now, market, feed, read, oracle, outcome>>

-----------------------------------------------------------------------------
(* The world *)

Tick ==
    /\ now < MaxTime
    /\ now' = now + 1
    /\ UNCHANGED <<market, feed, pc, read, oracle, outcome>>

FeedMoves ==
    /\ feed.updatedAt < now
    /\ \E a \in RawAnswers : feed' = [feed EXCEPT !.answer = a, !.updatedAt = now]
    /\ UNCHANGED <<now, market, pc, read, oracle, outcome>>

-----------------------------------------------------------------------------
Resolve ==
    \/ StartResolve \/ OracleFails \/ ReadRound \/ FinishPrice \/ SearchReplies
    \/ EvaluatePrice \/ AgentReplies \/ AgentFails \/ Settle

Next == ParseFails \/ Parse \/ Resolve \/ Tick \/ FeedMoves

\* Every call ends, with a result or an error, and time passes.  Nobody has to
\* ask for a market and the feed need not move.
FairSpec == Init /\ [][Next]_vars /\ WF_vars(Resolve) /\ WF_vars(Tick)

-----------------------------------------------------------------------------
(* Properties *)

TypeOK ==
    /\ now \in 1..MaxTime
    /\ market = NoMarket \/ /\ market.source \in Sources
                            /\ market.feedKnown \in BOOLEAN
                            /\ market.operator \in Operators
                            /\ market.threshold \in Thresholds
                            /\ market.deadline \in 2..MaxTime
    /\ feed.decimals \in FeedDecimals
    /\ feed.answer \in RawAnswers /\ feed.updatedAt \in 1..now
    /\ pc \in {"asked", "refused", "open", "round", "description", "search",
              "evaluate", "settle", "settled"}
    /\ read = NoRead \/ (read.answer \in RawAnswers /\ read.updatedAt \in 1..read.at)
    /\ oracle.kind \in {"none", "price", "finding", "not found"}
    /\ oracle.kind = "price" => Len(oracle.text.frac) \in 1..SCALE
    /\ outcome \in Outcomes \cup {"NONE"}

DecidedByPrice == market.source = "CHAINLINK_PRICE" /\ outcome \in {"YES", "NO"}

\* Different numbers that parseFloat makes the same: they differ by less than
\* a unit of the SIG-th digit.
TooClose(x, y) ==
    /\ x # y
    /\ Rounded(x) = Rounded(y)
    /\ (x - y) * 10 ^ (SIG - 1) < x
    /\ (y - x) * 10 ^ (SIG - 1) < y

\* The verdict on a price is the one exact arithmetic gives on the integer
\* the feed reported, through scaling, printing, trimming and two parseFloats;
\* only numbers that are the same in all of a double's digits may be taken for
\* equal, so that a price is never put on the wrong side of its threshold.
VerdictMatchesPrice ==
    DecidedByPrice =>
        LET price == Max({read.answer, 0}) * 10 ^ (SCALE - feed.decimals)
            threshold == Exact(market.threshold)
        IN  \/ TooClose(price, threshold)
            \/ (outcome = "YES") = Compare(market.operator, price, threshold)

\* A verdict on a price rests on one that the feed still reported after the
\* deadline and that was not older than STALE when the market closed, however
\* slowly the calls are answered while the feed moves on.
PriceIsOfTheDeadline ==
    DecidedByPrice => /\ read.at >= market.deadline
                      /\ read.updatedAt + STALE >= market.deadline

\* Whatever fails, an accepted prediction is settled in the end: no oracle, an
\* old price, a mute model refund the stakes instead of keeping them locked.
PredictionsConclude == pc = "open" ~> pc = "settled"

=============================================================================
