# predchain in TLA+

predchain is a prediction-market platform: users describe a market in plain
language, an escrow contract on Base Sepolia holds the stakes, and after the
deadline an oracle and an AI agent settle it. This directory holds TLA+ models
of the parts in which order, failure and rounding matter, the TLC runs that
check them on small instances, and proofs that TLAPS checks for all instances.

## The system

| Part | State it keeps | Operations | Correct when |
| --- | --- | --- | --- |
| `PredictionMarket.sol` (one per market) | status, outcome, two pools, stakes per side, claims; the tokens it holds | `stakeYes`, `stakeNo`, `lock`, `resolve`, `claimPayout`, `claimRefund` | every claim is covered, everybody is paid exactly once, terms never change after the fact |
| `MarketFactory.sol` | id -> market, list of markets, current resolver and treasury | `createMarket`, `updateResolver`, `updateTreasury`, paged reads | one market per id, pages give each market once |
| `PredToken.sol` | ERC-20 balances | `mint`, transfers | conservation |
| market-service (`market.service.ts`, `market.jobs.ts`, `market.worker.ts`, `factory.client.ts`) | the market's row and its stakes in PostgreSQL, three BullMQ queues in Redis | `createMarket`, `recordStake`, `listMarkets`, deploy worker, lock worker | the row follows the contract and never runs ahead; stakes are copied once; each stage hands over to the next |
| resolution-service (`market.resolver.ts`, `deadline.monitor.ts`, `index.ts`) | nothing of its own | `resolve` from the resolve-market job and from the polls of the DeadlineMonitor | each market is settled once, and the row and its evidence tell what happened on chain |
| oracle adapters, AI agents | nothing | `fetchPrice`, `search`, `evaluate`, `parse` | a price falls on the right side of the threshold; every failure refunds |
| api-gateway (`auth.ts`, routes, `market.socket.ts`) | nonces in memory, faucet cooldowns in Redis, what the last poll saw, subscriptions of sockets | nonce and signature, stake, faucet, listing, subscribe and poll | a user can get in, the faucet rations, clients see each change |
| apps/web (`useAuth.ts`, `useStake.ts`, `useMarkets.ts`, `websocket.ts`, faucet buttons) | token in local storage, steps of the staking flow, cached markets, a socket per page | sign in, approve, stake, report; fetch and listen | "done" is true; what is shown does not go back |

The services share no memory. They interact through the market's row (several
handlers read it, act for a minute, and write it back by id), through jobs
(delivered at least once, three attempts each) and through the chain (a
transaction is sent, mined later or never seen again, and may revert). Browser
and gateway interact through requests that may be answered late, twice or not at
all, and through sockets that break. The hard behaviours all come from there: a
status or a pool read long before it is acted on, two runs settling one market,
a crash or a late receipt between chain and row, a contract function that
outsiders may call too, polls that overtake each other, tabs that share one
nonce and one allowance. Each is listed with its line and the properties about
it under `hazards` in `PROJECT.json`.

## Modules

| Module | What it is |
| --- | --- |
| `PredictionMarket` | the escrow contract and the token balances it moves |
| `MarketLifecycle` | one market across database, jobs, services and chain |
| `MarketLife` | abstract: what the services promise about one market; implemented by `MarketLifecycle` |
| `WalletAuth` | signing in with a wallet: the gateway's nonces and the browser's `authenticate()` |
| `StakeMirror` | `recordStake` as handlers of `POST /stakes` run it, await by await |
| `Staking` | the staking flow in every tab, composed with `WalletAuth`, `StakeMirror` and the chain |
| `PoolMirror` | abstract: what the database promises of stakes and pools; implemented by `Staking` |
| `Faucet` | `POST /faucet` with its cooldown, the deployer's nonces and the two buttons |
| `MarketFeed` | from the row through the gateway's polls and sockets to the page |
| `MarketFactory` | the registry contract: operators and actions on its state |
| `MarketRegistry` | many markets: rows, deploy jobs, the factory, and a reader that pages |
| `PriceText` | a price printed and read back: pure functions |
| `Resolution` | parser, oracle adapters and agent: from a prediction to a verdict, over `PriceText` |
| `Sums` | sums over finite sets: measures, folds and the lemmas about them that the proofs need |
| `MC...` | symmetry and constants of the instances for TLC |
| `...Proofs` | the theorems about a module (below) |

Definitions whose comment says *mutant* are not part of the model: they are
plausible mistakes, each of which makes one of the properties fail.

### PredictionMarket

Variables and functions keep the names of the Solidity source. One action is one
successful call; a revert is a guard that is false. All calls are
`nonReentrant` (or touch no token), and the token is a plain ERC-20, so a call is
atomic. Modelled are both ways the contract can be fed (`StakeYes`, `StakeNo`
below and above `MIN_STAKE`), the lock by anybody, the resolver's decision and
the two claims, with shares and fees floored as in the source. `Transfer`
debits, then credits, so that it is right when both ends are the same account;
the treasury may be one of the users. Left out: allowances (in `Staking`),
tokens sent to the contract without staking (they could only add to its
balance), overflow at 2^256 (a pool would have to exceed 2^128 base units, about
3 * 10^20 PRED), and the views.

With no stake on the winning side nobody can call `claimPayout`: the losing pool
then stays in the contract and no fee is paid on it.

### MarketLifecycle and MarketLife

`db` is the market's row with its evidence, `jobs` the three BullMQ jobs, `txs`
the transactions sent, `chain` the contract, `clock` whether the deadline has
passed for the services and for the chain, `api` what is left of `createMarket`.
`runs` holds the activations of handlers: `DeployRunners`, `LockRunners`,
`ResolveRunners` and `PollRunners`. Each goes through the awaits of its source:

    read -> [decide ->] send -> wait -> write -> [enqueue ->] idle

* `read` is `findUnique` and the early return for a status the handler is not for.
* `decide` is oracle and agent. Their answer is a choice from `Answers` (`Resolution`
  says how it comes about); sources without an oracle (`MANUAL`,
  `CHAINLINK_EVENT`) throw and become VOID.
* `send` estimates gas, so a call that would revert now throws (`SendReverts`);
  one that passes may still revert when it is mined.
* `wait` ends when the transaction is mined. Only the deploy handler looks at
  the receipt's status.
* `write` is the database update; the resolver's is one database transaction that
  fails when the evidence already exists.
* `enqueue` adds the next job; adding an id that exists does nothing.

A throw counts as an attempt of the job, if the run still owns it; a poll just
ends. All transactions come from `DEPLOYER_PRIVATE_KEY`, so nonces fix the order
in which they are mined. `Faults` names the kinds of trouble an instance allows
and `MaxFaults` how many: refused transactions, lost receipts, failing database
calls, crashes, redelivery, clock skew, deadlines too short for the deployment,
outsiders calling `lock()`.

`MarketLife` has three stages, `real` on chain and `shown` in the row, and a
verdict that comes with the last. The refinement maps a status to its stage, so
that no step of the services may skip a stage, show one before it is real, take
one back, or change a verdict.

### Staking, WalletAuth, StakeMirror and PoolMirror

`step` is the state of `useStake` per tab; `Approve`, `SendStake`, `StakeReceipt`
and `Reply` are its awaits, `SignIn` the nested `authenticate()`. What the user
chooses (side and amount) shows in the action that first uses it. A wallet has a
browser of its own whose tabs share the token; the wallet's balance suffices.
The contract is reduced to what the flow can tell: it accepts a stake while open
and within the allowance, which a stake uses up and `approve` replaces. A report
to `POST /stakes` may arrive late and `MaxCopies` times, each time with the
token check of that moment. The timer that clears a success after three seconds
is `Reset`; one that fires during the *next* stake only frees the button early,
so that one panel then runs two flows, which behave as those of two tabs do.

`StakeMirror` splits `recordStake` at its awaits: the market is read with its
pools (`ReadMarket`), the transaction looked up (`FindExisting`), then stake and
pool are written in one transaction (`WriteStake`). `overlapped` records the sides
on which a handler read the pool while another held a value of it. In
`WalletAuth` the nonce is read, verification awaited, and whatever nonce is
stored by then deleted; the token may be lost on its way back. A wait for the
receipt of `approve` that fails is seen after it was mined. Clocks are left open there: a nonce or a token may
expire at any moment.

`PoolMirror` says what remains true of it all: what is recorded is a confirmed
stake, recorded once, and a shown pool never exceeds what was recorded.

### Faucet

Each await of `POST /faucet` is a step: cooldown read, nonce fetched, transaction
sent (refused if the nonce is used by then), receipt awaited, cooldown stored.
The services' other transactions use the same account (`OtherSend`). Calls fail,
the gateway dies, browsers disconnect; `lost` counts mints whose claim was not
stored. The gateway's SIGTERM handler builds a second server and closes that
one, so requests under way end as in a crash. The receipt's status is not
looked at; `mint()` by the owner does not revert. A nonce that is used is refused:
left out is a node that lets a transaction with a higher fee replace a pending one,
of which then only the second is mined.

### MarketFeed

The row's status and a version number of its pools; the polls' `lastSeen`; the
sockets with the messages on their way; the page's cached copy and its fetch. A
poll either happens at once (`Poll`) or takes its time while others come and go
(`SlowPollRead`, `SlowPollDone`). `Receive` distinguishes what the hook does:
an update invalidates the copy, a pool is written into it. Leaving the page
closes the socket, whose close handler connects again: `Unmount` leaves such
sockets in the model, and they stay subscribed as in the source. Clients other
than this page's are left out: they only matter in keeping the poll running,
which the page's own sockets do. A GET is answered in the end, the query's
retry included. `StatusReachesPage` starts when the gateway has seen the market,
which is OPEN then: that a PENDING market opens is never broadcast.

### MarketFactory and MarketRegistry

A contract is its entry in `allMarkets`, its address the place of that entry.
Deploy jobs of several ids run concurrently over one account; a job may start
over whatever became of its transaction. Whether the deadline has passed when
`createMarket` is mined is left open (`inFuture`). The reader pages through
`getMarkets` or `GET /markets` while both grow; the listing is read without its
`status` filter (with one, rows leave the pages as their status changes and
offsets may skip others) and no two rows have the same `createdAt`. `getMarkets` with a limit near
2^256 and an offset other than 0 overflows and reverts (`MarketFactory.sol:158`);
the model keeps that (`PageReverts`). A change of resolver leaves the markets
that exist to the old key, as `RotateRoles` shows: the services resolve all of
them with one key, so after a rotation only new markets can be settled.

### Resolution and PriceText

`Parse` to `Settle` follow one prediction through the calls that may fail and
the replies that may be anything. `PriceText` prints the feed's integer as
`fetchPrice` does (whole part, padded and trimmed fraction) and reads it back;
`ParseFloat` rounds to `SIG` significant digits, which stand for a double's
15. A negative answer counts as 0, as in the code. The number of decimals of a
feed does not change, so its separate read is a failure of `OracleFails` or
nothing. `SCALE` is taken large enough for every number that occurs
(`ResolutionAssumption`): at most `SCALE` digits after the point and `SCALE + SIG`
before it, so that `Width` can count the digits of all of them. Retries of a failed settlement belong to `MarketLifecycle`.

## Runs

| Run | What it shows | Bounds |
| --- | --- | --- |
| `escrow` | Every claim is covered in whatever order (`EveryClaimPayable`); balances are exactly what stakes and claims explain (`UserLedger`, `MarketLedger`); fewer base units than winners remain, and without a winner exactly the losing pool (`OnlyDustRemains`); the fee is the stated share of the losing pool up to two units per winner (`FeeIsShareOfLosingPool`); nothing a payout depends on changes after lock and settlement (`TermsFinal`). | three users with 151 tokens, stakes of 7 (too small), 41 and 76, fee 200 of 10000: shares and fees round in both directions, a user may stake three times and on both sides; two clock values |
| `lifecycle_safety` | The row never runs ahead of the contract (`DbFollowsChain`) nor of the deadline (`NothingSettlesEarly`); a resolution has sound evidence (`PaperTrail`), written once (`SettledOnce`); a completed job has done its work (`CompletedJobsDidTheirWork`) and, unless it was interrupted, has left the next one behind (`HandOversAreMade`); the whole implements `MarketLife`. | the resolve job and two polls, any two faults: one trouble may strike the recovery from another. `MaxTxs = 6` is never reached |
| `lifecycle_liveness` | Retries suffice while only sending fails: PENDING leads to OPEN, overdue OPEN to LOCKED, LOCKED to RESOLVED. | two refused transactions, one below `ATTEMPTS` |
| `staking` | Tabs that sign in at once are never all refused (`SomeTabSignsIn`); "done" is in the database (`DoneMeansRecorded`); a pool differs from its stakes only where handlers overlapped (`PoolExactUnlessOverlapped`); the database implements `PoolMirror`. | two tabs of one wallet, two handlers, two stakes of one amount, two nonces, two copies of each report: any pair of flows, handlers or copies may race |
| `faucet` | In no period of one cooldown does an address get more mints than there are concurrent requests and lost claims (`MintsAreRationed`); no mint is counted twice (`MintsAreNotShared`); a cooldown has been paid for (`CooldownIsPaidFor`). | two buttons, handlers and addresses, a clock of one cooldown, four transactions, one lost claim |
| `market_feed` | The status shown never goes back (`StatusNeverGoesBack`); a change of pool reaches the socket (`PoolReachesSocket`) and one of status the page (`StatusReachesPage`) while it listens. | one slow poll, two sockets, two versions of the pools, two messages queued: an overtaken poll and a socket left behind |
| `registry` | One contract per market (`OneContractPerMarket`), found by its own row (`RowsNameTheirContract`); a reader gets a prefix of the contracts (`PagesAreAPrefix`) and misses no row that was there when it began (`ListingMissesNothing`). | three ids, three transactions, one rotation, pages of one entry, `MAX_UINT = 7`: a page boundary between any two markets, and an overflow |
| `resolution` | The verdict is that of exact arithmetic on the feed's integer, except where price and threshold differ by less than a unit of the last digit kept and parse as equal (`VerdictMatchesPrice`); the price was read after the deadline and at most `STALE` old when the market closed (`PriceIsOfTheDeadline`); every accepted prediction is settled (`PredictionsConclude`). | answers and thresholds on both sides of zero, equal, with zeros behind the point and inside the fraction, and differing beyond the digits kept; feeds of one and three decimals; a clock of 4 with `STALE = 1` |
| `outcome_differs` | violated: does the row show the contract's outcome? | job and one poll |
| `manual_market` | violated: are MANUAL markets left to an administrator? | one runner each |
| `locked_stuck` | violated: is a market resolved after a crash behind the settlement? | one crash |
| `pools_drift` | violated: do the cached pools mirror the recorded stakes? | as `staking` |

The systems stop when their bounds are exhausted or their work is done, so
deadlock is not checked. Symmetric model values are used in the safety runs only.

Three properties deserve a word. `DbFollowsChain` holds although the lock handler
and the resolver ignore the receipt's status: the estimate has seen the contract
in the state the transaction needs, and such a transaction can only revert because
another one has done its work. What that argument does not give is the *outcome*
(`outcome_differs`). `StatusNeverGoesBack` holds although polls broadcast in any
order, because an update only makes the page ask again and a new question
cancels the old one; for pools, which are written into the copy, the page may
show an older value: an answer read before a pool message and delivered after
it stays until the next message or fetch. And `ListingMissesNothing` holds
although the listing is paged by offset, because it is newest first and rows
are only added: a reader meets some rows twice instead.

### Fairness

Liveness is checked under weak fairness of what timers, workers and networks do
in the end. In `lifecycle_liveness`: workers take waiting jobs, polls recur (a
timer every minute), a handler that can proceed does, the chain mines, the
deadline passes, stalled jobs are found (BullMQ's checker). In `market_feed`: the
poll's timer fires while a client is connected, a slow query ends, connections
are retried and deliver, a GET is answered. In `resolution`: each call ends with a
result or an error, and time passes. Nothing obliges a user to act, a row to
change or a fault to happen. The liveness run of the lifecycle excludes `short`,
since a market whose deadline passes before its contract exists can never be
deployed.

## What is proved

Each theorem holds for all constants its module's assumptions allow: any number
of users, runners, faults, tabs, handlers, sockets, markets and transactions, any
stakes, fees, prices and thresholds. Each follows from an inductive invariant
that its module explains, since the properties themselves are not inductive.
All invariants, step properties and refinements of the passing runs are proved:
a run shows a property on a small instance, its theorem for every instance.

| Module | Theorems | What the invariant adds |
| --- | --- | --- |
| `PredictionMarketProofs` | `TypeCorrect` (no balance below zero), `ClaimsArePayable`, `LedgerIsExact`, `LedgerBalances`, `DustIsBounded`, `FeesAreTheShare`, `TermsAreFinal` | which outcomes go with which status, that pools are totals of stakes, `ClaimsCovered` and the accounts of a settled market (below) |
| `MarketLifecycleProofs` | `TypeCorrect`, `RowFollowsChain`, `SettlesAfterDeadline`, `EvidenceHolds`, `FirstSettlementStays`; `ResolutionsAreOnPaper`, `CompletedJobsAreDone`, `JobsAreHandedOver` and `LifeIsImplemented` (the refinement) with one run per handler at a time | a transaction was accepted only when it would have succeeded and the contract never goes back, so one that reverts found its stage reached without it; a job never interrupted finds the row at its own stage, because only its own run moves it on (`ChainInv`) |
| `StakingProofs` | `TypeCorrect`, `DoneIsRecorded`, `SomeTabGetsIn`, `StakesAreConfirmed`, `PoolsAreExact`, `StakesAreMirrored` (the refinement) | only successful transactions are reported and handled; what a handler holds and what is recorded is the stake as it was sent; an account of each pool (below); for signing in, that among the tabs of a wallet one is *hopeful*: nobody refused it, and only a tab that becomes hopeful thereby can spoil its nonce |
| `FaucetProofs` | `TypeCorrect`, `MintsAreOwn`, `CooldownsArePaidFor`, `FaucetRations` | handlers that have sent hold different nonces, each that of a transaction to their address; mints lie in the past; each mint has an owner or is gone (below) |
| `MarketRegistryProofs` | `TypeCorrect`, `ContractsAreUnique`, `RowsAreRight`, `PagesAreSound`, `ListingIsComplete` | index and list of the factory say the same; what the reader has got reaches to its offset, and what it still seeks lies behind it although the list grows at its head |
| `MarketFeedProofs` | `TypeCorrect`, `PageGoesForward` | the copy is behind the answer under way, and both are behind the row |
| `ResolutionProofs` | `TypeCorrect`, `VerdictsAreExact`, `PricesAreTimely` | what is evaluated is the text of the price that was read, at an age that was compared with a clock behind the deadline, against the condition that was accepted |

The hypotheses beyond the assumptions on constants are few and named.
`RowFollowsChain`, `SettlesAfterDeadline`, `EvidenceHolds` and
`FirstSettlementStays` cover redelivered jobs, with two runs of one handler at a
time. The last four theorems of that module assume `OneRunPerHandler`, and need
it: the slower of two runs writes its status by id and can take a stage back.
That is also why `lifecycle_safety` has one runner per handler. `FeesAreTheShare` assumes that the treasury does not stake, for its
balance would mix stakes with fees. `TypeCorrect` and `VerdictsAreExact` of
`Resolution` assume `PowersOfTen`, the law 10^(k+1) = 10 * 10^k, which is true
but not known to the provers.

**The escrow.** `ClaimsCovered` says, with winning pool W, losing pool L, the
contract's balance t and the winning stakes R that are still unclaimed,

    R <= t   and   R * L <= W * (t - R).

At settlement R = W and t = W + L. A claim on stake s takes s plus at most
s * L / W, which preserves both (`ClaimStep`); and since s <= R they leave at
least that much for each claimant. For dust and fees the same account is kept
from the other side (`Spread`): each claim loses less than one base unit of its
share and less than one of its fee to the flooring, so what is left in the
contract and what the treasury is short of are bounded by the number of claims
made, which in the end is that of the winners.

**The pools.** For each side there is a total T of the recorded stakes that
neither the row nor the value in a handler's hands exceeds (`Accounts`). As long
as no two handlers have overlapped on the side, both equal T and at most one
handler holds a value, so that its write leaves the row equal to the new total.
`StakesAreMirrored` follows: recorded stakes are confirmed ones, each once, and
no pool exceeds its stakes, step by step.

**The faucet.** A mint to an address is owned by the request that sent it, or is
gone when the claim was lost, which `lost` counts (`Ration`). The owner holds a
mint that is not gone until it has stored the cooldown, and then passes no check
for that address before the cooldown ends. So two mints of one owner to one
address lie a cooldown apart, and those of one period map one to one to the
handlers, but for the ones that are gone.

**Sums.** The ledgers speak of folds, which are recursive and about which the
library says nothing. `Sums` gives them a meaning that needs no recursion: a
measure is a function on the subsets of a set that grows by f[x] when x is added,
and `SumsTo(D, f, T)` says that one exists which gives D the value T. A finite
set has exactly one such T, and the fold of the community modules is it
(`FoldIsMeasure`). `SumMember`, `SumChange`, `SumPlus` and `SumAdd` are all the
proofs then need. Induction is done by hand, from the fact that a family of
subsets of a finite set has a smallest member (`SmallestMember`).

**The digits.** `Least` and `AllNumbers` do the same for the natural numbers and
carry the laws of powers (`PowerSum`, `PowerGrows`), of `Width`, and of the value
of a sequence of digits, again with the fold shown to compute it
(`ValueOfPrefixes`). Printing keeps the value (`PrintedPrice`): the digits of
n < 10^d padded to d have the value n (`PaddedValue`), and only zeros are trimmed
(`TrimmedValue`). Rounding to `SIG` digits keeps the order of numbers
(`RoundedInOrder`) and makes different ones equal only when they are close
(`RoundedApart`), whence `ComparedExactly`. The
assumptions that came with these proofs say only that `SCALE` and `SIG` are large
enough to write down every price and threshold, and that a feed has no more
decimals than `SCALE`.

**Only model-checked** is all liveness (`PredictionsConclude`, the two leads-to
properties of the feed, the three of the lifecycle), which together with ENABLED
is out of the prover's reach; the four violated runs are counterexamples of TLC's.
The inductions above could be made because they are over sets of numbers or
subsets, not over an operator: the library's own induction theorems stay
unusable.

## Where code and documentation disagree

The four violated runs are described with their lines under `findings` in
`PROJECT.json`. Read in the code, and without a run of their own:

* A row regresses when a job is redelivered while its first run still goes on: the
  slower lock handler writes LOCKED over RESOLVED (see above).
* A market stays PENDING when the receipt of its deployment is lost for good:
  the retry finds the id taken and fails at the estimate. It stays OPEN when an
  outsider locks the contract first or the lock's receipt is lost, for then
  `lock()` reverts for ever and neither job nor poll resolves an OPEN market.
* A crash or a failing call between a handler's write and its enqueueing breaks
  the chain of jobs for good: the redelivered job finds the row moved on and
  returns (`HandOversAreMade` confines the loss to such jobs). A market left OPEN
  in this way is never locked by the services.
* `PredToken.sol:12` says that the API "enforces 24hr cooldown using Redis". The
  route checks, mints and only then stores the cooldown, so requests at once all
  mint, and a claim that fails after its mint leaves no cooldown:
  `MintsAreRationed` bounds what gets through, and is weaker than that line.
* A confidence below 0.4 is said to route a market to manual resolution
  (`market.service.ts:57`) and is only logged; a voided market is RESOLVED with
  outcome VOID in the database, never CANCELLED (`schema.prisma:22`).
* PENDING rows are not polled, so PENDING to OPEN is never broadcast; and the
  `market:resolved` message that `README.md:455` and `api-gateway/README.md:258`
  describe is never sent: a resolution arrives as an update.
* `market-service/README.md:125` lists a StakeVerifier; `recordStake` verifies
  nothing on chain. `StakesAreConfirmed` therefore rests on the web application,
  which reports what the contract has confirmed.
* The price a verdict rests on is that of the time of resolution, which may be
  long after the deadline, while the prompts speak of the deadline
  (`prompt.templates.ts:90`, `:107`). `PriceIsOfTheDeadline` bounds how old it may
  be, not how new.
* `websocket.ts:71` connects again after the page was left, so sockets add up.

## Not modelled

Declarations and one-off scripts (shared types, schemas, database schema, deploy
script): they have no behaviour over time; what they constrain is in the modules
that use it (the unique transaction hash and evidence). Pages and components
that only show data. Validation of requests, plugins and configuration of the
server. The wording of prompts and what a model answers: any reply the schema
lets pass is possible. Token ownership and initial supply, the contracts' views
and events. The heartbeat of the gateway, which only ends connections as `Drop`
does, and its other clients. The polling interval and other durations, beyond
the order they allow.

`CHAINLINK_EVENT` and `MANUAL` have no oracle in the code; both are modelled by the
error they end in.
