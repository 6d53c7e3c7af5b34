# Verification of kalshi-kernel

TLA+ models of the kernel's trading core, the TLC runs that check them and the
TLAPS proofs about them. All paths are relative to the repository; `live/`,
`ledger/` and `marketdata/` are under `internal/kernel/`.

## 1. The system

The kernel is one process that serves MCP tools to an agent. It starts in paper
mode or in live mode and stays there. The MCP SDK runs each tool call on a
goroutine of its own; all of them share one `Handler`.

| Component | State | Operations | Interacts with |
|---|---|---|---|
| Live write path (`live/trading.go`, `live/client.go`, `handler_live.go`) | arm flag, one HTTP client | `arm_live_trading`, `place_order`, `amend_order`, `cancel_order` | risk tracker, exchange |
| Risk tracker (`live/trading.go`) | UTC day, orders and cents counted in it, under a mutex | `rollDay`, `checkOrder`, `record`, `Snapshot` | live write path, clock |
| Paper handlers (`handler_paper.go`) | pointer to the lazily built ledger | `place_order`, `get_portfolio` (`amend_order`, `cancel_order` only fail) | market data, paper ledger |
| Paper ledger (`ledger/ledger.go`) | cash, positions, fill journal, index by `client_order_id`, under a mutex | `New`, `Execute`, `Snapshot` | paper handlers |
| Fixed-point arithmetic (`ledger.go`, `trading.go`) | none | `NewMoney`, `Mul`, `Fee`, `halfUp`, `dollarsToCents` | ledger, tracker |
| Handler state (`handler.go`, `handler_live.go`) | configuration, arm flag, lazily built live client and tracker | mode and arm gates, `liveClient`, `liveTracker`, `trackerSnapshot` | every tool |
| Live account reads (`live/client.go`) | none | `GetPortfolio`, four requests one after the other | exchange |
| Market data (`marketdata/client.go`, `handler_marketdata.go`) | none | search, market, order book, candles, trades, weather, last quote | exchange |
| Contract fetch and promotion (`cmd/specfetch`, `scripts/`) | files in `specs/`, the provenance lock | fetch, validate, replace, lock, promote | upstream documentation |
| Tool generator (`cmd/mcpgen`) | generated files | checks a curated overlay against the contracts, writes the tools | contract promotion |
| Startup configuration (`internal/config`, `cmd/kalshi-kernel`) | none after start | `Load` | environment |
| MCP surface, release audits | none | registration, tests | |

### What is hard

- **Interleaving.** `checkOrder` and `record` are two critical sections a network
  round trip apart. The arm flag is read twice and then not again. The paper
  ledger, live client and tracker are built on first use without a lock.
- **Uncertain outcomes.** A write may be refused, take effect with its answer
  lost, cut off or replaced by a gateway's error, or take effect after its caller
  gave up. Reconciliation asks
  the exchange and must say neither too much nor too little.
- **Ordering and time.** Orders fill, expire or are cancelled between a state
  gate and the write it admits. The UTC day may change between check and record.
- **Reads made of several reads.** A listing changes between two pages, an
  account between the four sections of a portfolio.
- **Fetching twice.** The promotion script fetches the contracts, compares and
  generates, then fetches again while upstream may publish.
- **Restart.** Arm flag and tracker are lost, and requests may still be under way.
- **Consent in two steps.** Startup acknowledgement and arming are given at
  different times by different parties, and three gates in two packages check
  them while other goroutines arm and disarm.
- **Numbers.** Two decimal parsers, four scales, truncation and half-up rounding
  in one formula, int64 products.

`PROJECT.json` lists the hazards with the line where each bites and the
properties about it.

### What makes each part correct

- Live writes: a success is true, a plain failure is clean, doubt is said to be
  doubt; nothing is retried; nothing is placed by a process that was not armed;
  caps hold per order, and for a day up to a stated overrun.
- Paper book: an order is filled at most once and whole, every reported fill is
  kept, books balance, nothing is bought on credit, callers see their own fills.
- Arithmetic: the fee is the published formula, roundings never make a sale cost
  money, and a quantity means the same thing wherever it is read.
- Contract promotion: the lock that is promoted names the contracts that were
  tested, with clients generated from them; no contract is replaced before all
  were fetched and found valid. The tools the generator writes exist in every contract that is promoted.
- Process: nothing is signed without the operator's consent, no order is placed
  and no key loaded for one without the second; the tracker built without a lock
  still sees every order, or how many it can miss is bounded.
- Reads: following cursors shows every row once; the fills of a portfolio explain
  what is recent in its other sections; every read ends.

## 2. Modules

| Module | Models | How state and actions correspond |
|---|---|---|
| `RiskTracker` | the tracker | a record `[day, orders, notional]`; one operator per critical section, a function of the record and the UTC day |
| `LiveTrading` | live writes, the process, the exchange | see below |
| `OutcomeContract` | *abstract*: what a caller is promised about one write | `Ask`, `TakeEffect`, `GiveUp`, `SayOk`, `SayFailed`, `SayUnknown`, `LateEffect`, `Crash` |
| `MCLiveTrading` | instance for TLC | values of constants and symmetry |
| `LiveTrading_proofs` | proofs: types, caps, arming | |
| `LiveOutcome_proofs` | proofs: outcomes, `OutcomeContract`, what the exchange accepted | |
| `FixedPoint` | paper arithmetic | a decimal of a known scale is its integer |
| `LiveAmounts` | `dollarsToCents` and the capped notional | integers of `IntBits` bits |
| `FixedPoint_proofs` | proofs about the operators of `FixedPoint` | |
| `OrderAmounts` | what both modes make of an order's amounts, and the properties of it | one order after another: any price, count and number of decimals; it has no other state |
| `MCFixedPoint`, `OrderAmounts_proofs` | instance for TLC; proofs | |
| `PaperLedger` | `ledger.Ledger` | a record; `Execute` is `AfterExecute` and `Answer` |
| `PaperTrading` | paper handlers around the ledger | see below |
| `PaperAccount` | *abstract*: an account on which each key is filled at most once | `FillOnce` is its only step |
| `MCPaperTrading`, `PaperTrading_proofs` | instance for TLC; proofs, of `PaperAccount` too | |
| `SpecFetch` | `specfetch` and the promotion script | see below |
| `MCSpecFetch`, `SpecFetch_proofs` | instance for TLC; proofs | |
| `KernelProcess` | startup, the gates, arming, and what the live tools share | composes `RiskTracker` with the lazily built state of `Handler`; see below |
| `MCKernelProcess`, `KernelProcess_proofs` | instance for TLC; proofs | |
| `ReadTools` | every read-only tool, and the agent that follows cursors | see below; its run uses it directly |
| `ReadTools_proofs` | proofs | |

**LiveTrading.** Each goroutine is a record with a program counter; a step is
what it does between two points where another goroutine may run, that is one
critical section, one round trip, or the local code after it.

| Code | Action |
|---|---|
| tool call arrives | `Begin` |
| handler gate, credentials | `Gate` |
| second arm check, field checks | `Interlock` |
| `checkOrder` (rolls the day), then time in force | `RiskCheck` |
| `GetOrder` before amend and cancel | `StateGate` |
| sign and send | `Submit` |
| answer, with `record` on success | `Answered` |
| `http.Client` error | `Unreachable` |
| query on a fresh context | `Recheck` |
| outcome after the query | `ConcludePlace`, `ConcludeAmend`, `ConcludeCancel` |
| result delivered | `Return` |
| `arm_live_trading` | `Arm`, `Disarm` (both report usage, which rolls the day) |
| process restart | `Restart` |

The exchange is external and modelled from the answers the client tells apart:
`ExchangeAccepts`, `ExchangeRefuses`, `LateArrival`, `OrderEnds`. `Faults`
chooses what else may go wrong: `"late"`, requests arrive after their caller gave
up; `"misleading"`, a write takes effect and the client reports an error all the
same, because the answer breaks off, cannot be read, or is a gateway's error
status; `"crowded"`, the query by `client_order_id`, which reads one page of
orders (`FindOrderByClientID`), misses one on another; `"restart"`, the process
restarts. Requests and answers may always be lost (`Unreachable`).
`upstream_error` stands for every refusal or unreadable answer, `invalid_input`
for every local refusal.

**PaperTrading.** A call fetches the order book and compares its price
(`Fetch`, `FetchFails`), finds or builds the ledger in three steps that other goroutines may
interleave (`OpenLedger`, `Publish`, `Reread`), and runs `Execute` or `Snapshot`
under the ledger's mutex. The market moves at any time: `Fetch` is the only step
that looks at its book, and may find any of `Orderbooks`.
`FirstAlone` says whether agents wait for an answer before there is a ledger;
the code does not require it, so both values are checked. A price or touch is
its value at scale 4: the handler compares them as text, so an agent's price in
any other spelling is one more price that is not the touch.

**SpecFetch.** One run of `scripts/test-upstream.sh` after another, in a copy of
the checkout. `FetchOne` is a goroutine of `fetchAll`, `Collect` its wait group;
`WriteFile`, `WrittenAll` and `WriteLock` are `writeSnapshot` the first time and
`fetch-specs.sh`, called from `check-generated.sh`, the second time, when the
lock is not written. `Compare`, `Generate`, `Test`, `Conformance`, `Promote` and
`Verdict` follow the script; `Test` can pass only if `Audit`, the provenance test
of `internal/specaudit`, does. `Publish` may happen between any two steps and
`Abort` is a failing command or a killed script. A content stands for its digest.
The generated MCP file, promoted beside the lock, is made from a curated overlay:
upstream decides whether it can be made, never what is in it. So only the check
is modelled, as `ManifestHolds`, `validateManifest` of `cmd/mcpgen`: every
operation or channel a tool names (`Sources`) is offered by its contract
(`Offers`). It guards `Generate`, and the end of the second fetch, where
`check-generated.sh` generates again. One script runs at a time on a checkout.

**KernelProcess.** One process after another, each started in any environment
`load` tells apart: mode and acknowledgement by word and spelling, credentials
set or not, risk variables usable or not. `LiveTrading` takes client and tracker
as built and follows one write in full; here a write is its gates, one round trip
and its record, and the building is in full.

| Code | Action |
|---|---|
| `config.load`, `main` | `Load`, `Start`; `Stop` may cut off every call |
| mode test of each handler | `Dispatch` |
| `ArmLiveTrading` | `Arm` |
| handler arm gate, `liveClient` | `Gate`, `Credentials` |
| `liveTracker`: test and build, assign, read again | `OpenTracker`, `PublishTracker`, `RereadTracker` |
| second arm check, or the totals in the reply to arming | `Interlock` |
| `checkOrder`; answer and `record` | `RiskCheck`, `Answered` |

`armsAlone` says whether the agent waits for the answer to `arm_live_trading`
before it calls anything else. The code does not require it; both are checked.
Reading nil, loading the key and assigning the client are one step, because
clients built twice do not differ; trackers do, and take three.

**ReadTools.** A call checks its arguments (`Check`), sends a read (`Send`) and
gets an answer (`Answered`), a refusal (`Refused`) or nothing in time
(`Unreachable`); `get_portfolio` does so four times. `Query` is what is passed
on of an agent's cursor and limit, which for perpetual markets is neither. The
exchange serves each read at one moment (`Serve`) and may `List`, `Delist` and
`Execute` between any two. The agent may start a walk, follow a cursor, change
its limit, ask again after an error or give up (`Ask`, `AskOn`, `Leave`). A row
is its position in a listing, and what fields it has is left out. A section of a
portfolio is the set of executions it shows. `GetPortfolio` sends neither limit
nor cursor, so a section is a first page (`IsFirstPage`): a balance shows all
that happened, a page of fills the newest `FillPage`, a page of positions or
orders whichever are on it.

Amounts in `LiveTrading` are whole cents and in `PaperTrading` integers of a
scale; how text becomes one is the subject of `LiveAmounts` and `FixedPoint`.

## 3. Runs

| Run | Asks | Bounds, and why they are enough |
|---|---|---|
| `live_caps` | do the caps hold, how far are they overrun, is anything the exchange accepted missing from the tracker? | two goroutines, three orders, two days, caps that two orders reach: a third order shows an overrun of more than one, and a day's totals can be carried over midnight |
| `live_outcomes` | is every caller told the truth? | two goroutines with all three tools on one order, late requests, queries that miss an order, restarts |
| `live_progress` | is every call answered, do writes stop after disarming? | the same without faults |
| `live_caps_amend`, `live_cutoff` | two statements of the documentation | violated, see section 6 |
| `paper_trading` | is the paper book an account? | two goroutines, one market, one id and its omission under two policies, so three keys for a journal of two: repeats and a new order meet it full; bids and asks, one order larger than displayed, cash for one bid |
| `paper_init` | a statement of the documentation | violated, see section 6 |
| `fixed_point` | fee, sales, live parsing | prices at, between and beside whole cents, counts up to 300 hundredths or contracts; integers of 22 bits, so that some products overflow |
| `fixed_counts` | does the paper book read a count for its worth? | violated |
| `spec_promotion` | is what is promoted what was tested? | two contracts, two valid contents and an invalid one: the second fetch can bring the same, one new or a broken contract, and a valid content that lacks an operation a tool names; every set of arguments; the script runs any number of times |
| `kernel_process` | is nothing signed without consent, and does the unlocked building lose orders? | two goroutines and a cap of two orders: a tracker can be replaced while it holds orders, and one more recorded on it; every environment, any number of processes |
| `read_tools` | do cursors and portfolios tell the truth about a moving exchange? | a listing of three with pages of one and two: full, short and empty last pages, rows appearing and vanishing on both sides of the cursor; three executions before and between the four reads of a portfolio, one more than a page of fills |

What the passing runs show:

- `OrderCapHolds`: every order at the exchange is within the per-order cap.
- `OverrunIsBounded`, `AcceptedOverrunIsBounded`: daily caps are exceeded by at
  most one order for each goroutine but one, in the tracker and at the exchange.
- `TrackerCoversExchange`: what the exchange accepted today is in the tracker or
  in a call still under way. Checked with `place` only, proved with
  cancels too; without amendments and faults, where the code gives it up
  (section 6).
- `SuccessIsTrue`, `CleanFailureIsClean`, `NeverBlindRetry`,
  `KeepsOutcomeContract`: the reconciliation logic, with `OutcomeContract` as
  the whole promise and a refinement mapping from program counters to phases; under
  every fault but `"misleading"`, which breaks the second and is the subject of
  `live_cutoff`.
- `ArmingIsPerProcess`: a placing or amending request comes from a process that
  was itself armed.
- `EveryCallReturns`, `DisarmStopsWrites`: liveness.
- `OneFillPerKey`, `FillAnswersTheOrder`, `ToldFillsStay`, `ReadsOwnFills`,
  `BooksBalance`, `CashNeverNegative`, `KeepsAccount`: the paper book, the last
  as a refinement of `PaperAccount`. `RetryIsAnswered`: once a fill was reported,
  the ledger answers the same order with a fill and never refuses it, for cash,
  size or a full journal; only an unreachable exchange or a market that has moved
  stops it. `OneFillPerKey` includes that the journal stays within its cap.
- `FeeMatchesFormula`, `AskNeverCosts`, `LiveReadsTheCount`,
  `CapMissesLessThanACent`: the arithmetic. The fee is the published one at
  prices in whole cents; at finer ones it is short of it by at most a cent and 7
  more for every 10000 contracts.
- `PromotesWhatPassed`, `SuccessMeansParity`: the second fetch cannot slip
  untested contracts under a lock, because the audit compares it with the lock of
  the first, and what is promoted offers every operation a tool names.
  `ReplacesOnlyAfterAllValid`: nothing is replaced before all is fetched and
  valid; a stop while contracts are replaced does leave some old and some new,
  under the old lock. `FetchEnds`: liveness.
- `SignedWithConsent`, `KeyUntouched`: the two consents, across processes and
  with goroutines arming and disarming between a write's gates.
- `OneTrackerKnowsAll`: with an agent that waits for the answer to arming, that
  answer has built the one tracker, so its missing lock does no harm.
  `RecordedIsBounded`: with one that does not wait, `k` goroutines and a cap of
  `N` orders record at most `k*N + k(k-1)/2` in a day, not `N + k - 1`.
- `NoRowTwice`, `WalkReadsAll`: cursors lead through a changing listing without
  repeating a row or missing one that stayed. `FillsExplainRecent`: because fills
  are read last, an execution that another section shows is among the fills, or
  these are a full page of newer ones. So nothing recent is left unexplained; what
  is older than a page of fills may be. `EveryReadReturns`: liveness.

Every property has a mutant in `PROJECT.json`, a plausible mistake in the code
(`Record` that does not roll the day, a cancel that takes "not resting" for
"cancelled", cash compared without the fee) that makes the same run fail.

**Bounds.** `LastDay` bounds the clock; `JournalCap` is 10000 in the code and
small here so that it is reached; the sets of goroutines, orders, notionals,
prices, counts and levels are the constants above. In `ReadTools`, `Last` bounds
the listing, `FillPage` a page of fills and `MaxExecutions` the account; one agent is enough, because the
kernel keeps nothing that calls could share. Symmetry is used over
goroutines and orders, never where a temporal property needs liveness.

**Fairness.** `LiveTrading!Spec` assumes weak fairness of each goroutine's own
steps (`WF_vars(Step(c))`), nothing of the exchange, the clock, the agent or the
process. It is justified because no lock is held across a round trip, both
mutexes guard a few lines of straight code, and every round trip ends: the HTTP
client has a 10 s timeout and reconciliation runs on a context with its own
deadline. `SpecFetch!Spec` assumes it of the downloads and of `Collect` only:
client and context time out, and nothing is said of how long tests take.
`ReadTools!Spec` assumes it of each goroutine's own steps: both HTTP clients time
out after 10 s, so a read that is waiting can always end; of exchange and agent
nothing is assumed. `PaperTrading` and `KernelProcess` have no liveness property
and assume no fairness.

## 4. Proofs

The theorems hold for every value of the constants that satisfies the named
assumptions: `CapsAssumption` (caps are natural numbers), `LiveAssumption` (a
finite non-empty set of goroutines), `LedgerAssumption` (non-negative start),
`PaperAssumption` (keys are pairs of a market and an id or time in force),
`FetchAssumption` (at least one contract; contents are not the markers used for
"no result"), `ManifestAssumption` (tools name contracts that exist),
`ProcessAssumption` and `NoConfigAssumption` (a finite non-empty set of
goroutines; "none" is no tracker and no configuration), `ReadAssumption`
(a finite listing, limits and page sizes are natural numbers), `IntBitsAssumption` (integers
have a bit at least) and `AmountsAssumption` (prices strictly between nothing and
a dollar, digits are natural numbers). A theorem with a hypothesis beyond these
says so below, with the behaviour of the code that makes it necessary. Every
safety invariant, action property and refinement of the passing runs is proved.

**Live** (`LiveTrading_proofs`).

- `TypeCorrect`: types, with `WireInv`: a request or answer is on the wire only
  for a call waiting for it. Without it, an answer could be delivered to a call
  that has moved on.
- `OverrunBounded`. The bound itself is not inductive: nothing in it speaks of
  calls that have passed `checkOrder` and will still record. The invariant
  `Accounted` keeps an account of them: each owes at most the per-order cap, each
  takes an order slot, and for at least one of them, the last to be admitted, the
  total with everybody else's maximum stays below the ceiling. Admission adds
  that call, recording and refusal remove one, and midnight and restart empty
  the totals while the calls remain.
- `ArmedByThisProcess`: from `ArmInv`, that an armed process was armed here and
  every call past the gate was let through here; `Restart` clears both.
- `OrderCapKept`: every write past `checkOrder`, on the wire, late or in a record
  is within the per-order cap.

**Outcomes** (`LiveOutcome_proofs`).

- `SuccessesAreTrue`, `WritesOnce`: for all faults. `CleanFailuresAreClean` and
  `ContractIsKept`: unless a write that took effect is answered with an error
  (`"misleading"`), where `live_cutoff` shows the first to be false. What a caller is told is decided
  steps after its write took effect, so the invariant `OutcomeInv` says at each
  place of a call whether its write may have landed, what its answer or its query
  can have said, and what a landed write leaves true of its order however the
  exchange goes on: a placed order exists, a cancelled one stays cancelled.
- `ContractIsKept` is the step simulation: `OutcomeInv` gives the guard of the
  contract's step, one lemma per action of `LiveTrading` gives the step or the
  stutter. A success maps to `SayOk` only because a landed write is still visible.
- `ExchangeIsCovered`, `AcceptedOverrunBounded`: when there is no fault and
  nothing is amended. Late requests, misleading answers, crowded accounts,
  restarts and amendments each make the exchange accept what is never
  recorded or is forgotten (section 6; a restart empties the tracker). The
  invariant `CoverInv` compares the orders of today with what the tracker holds
  of today and the calls that landed and have not recorded yet: landing moves an
  order to those calls, recording moves it to the tracker, midnight empties the orders of today and
  the tracker.
  With `Accounted` it bounds the overrun at the exchange. The sum of amounts over
  a set is stated as the size of a set of single cents, `Units`, which the
  theorems about finite sets can reason about.

**Paper** (`PaperTrading_proofs`, `FixedPoint_proofs`, `OrderAmounts_proofs`).

- `FeeAtMostNotional`: for every price below a dollar and every count the rounded
  fee is no more than the truncated notional. `SpreadBound` and `DivBounds` carry
  the two truncations.
- `PaperSound`: types, `CashNeverNegative`, `OneFillPerKey`,
  `FillAnswersTheOrder`, for any interleaving, first call alone or not. The
  argument has two layers. `Sound(l)` is about one ledger as a value:
  `ExecuteKeepsSound` proves it of the operators, and uses `FeeAtMostNotional`
  for sales. `SoundInv` lifts it to every ledger any goroutine holds.
  `FillAnswersTheOrder` needs one strengthening, that an order's key names its
  market, so that a replay stays in the market asked for. `PaperTypes`,
  `NeverOverdrawn` and `FillIsTheOrder` state its parts.
- `ToldFillsAreKept`, `ReadersSeeTheirFills`, `RetriesAreAnswered` and
  `PaperIsAnAccount`, the refinement of `PaperAccount`: if the first answer is
  awaited (`FirstAlone`), without which `paper_init` shows the first to be false.
  None is inductive, because a call may be about to put an empty ledger in the
  place of a full one. `AloneInv` excludes that: while there is no ledger at most
  one call is under way, what it publishes is empty, and every call that executes
  holds the handler's ledger. `KnownInv` then says that what was told is in that
  ledger, and what a call was owed when it asked was told.
- `BooksAlwaysBalance`: first call alone or not. The running total is a recursive
  function, of which nothing can be proved by induction; so the invariant
  `Booked` carries the fact along: what a ledger has booked is the last value of
  any function that runs through its journal (`ComesTo`), and a fill adds its own
  amount to both.
- `FeeIsTheFormula`, `AsksNeverCost`: cutting a natural number off twice and
  rounding it is rounding it once (`OneRounding`), and in whole cents the first
  truncation of the fee, of `price*(1-price)`, loses nothing. At finer prices it
  loses less than a hundredth of a cent a contract, times 0.07, and `RoundingMore` says how much
  of that the rounding can show.
- `LiveReadsCounts`, `CapsMissLessThanACent`: for integers of any width. `Wraps`
  says that overflow changes a value by a multiple of 2^`IntBits`, and that such
  a multiple does not show in what an integer holds. So the product that the caps
  are held against is right whenever it fits, even where the count did not.

**Promotion** (`SpecFetch_proofs`).

- `ParityProved`, `FetchTypes`, `PromotionSound`, `ReplacementSound`: for any
  number of contracts and any overlay. The invariant `FetchInv` says stage by stage which of contracts,
  lock, clients and results are the same: contracts and lock after the first
  fetch, clients and lock through the second, all three past the audit. Without
  the middle stage (`SecondInv`) the audit would say nothing of the clients.
  That the promoted lock holds what tools name follows from the same chain: it
  was checked of the contracts the clients come from.

**Process** (`KernelProcess_proofs`).

- `TypeCorrect`, `SignedOnlyWithConsent`, `KeyStaysUntouched`. Consent is not
  visible where a request leaves, so the invariant carries it from gate to gate:
  `PlaceInv` says which labels each tool can reach, `ConsentInv` that an armed
  process and every write past its gate were given the literal and that a live
  configuration came with consent, `TrackerInv` that a call that uses a tracker
  holds one, and from usable variables.
- `AwaitedArmingIsSafe`. `AloneInv`: while an agent that waits has an arming call
  under way nothing else is, and once the process is armed and nobody arms, the
  tracker is built. So a write that could find none cannot exist.
- `RecordedBounded`, for agents that do not wait. `RankInv` says there is a
  ranking of the trackers, later ones higher, in which a tracker of rank `r` is
  used by at most `r + 1` calls at once and so records at most the cap and `r`
  more: a call that is about to replace a tracker is not using one, so each
  replacement still to come costs the present tracker one user. The ranks are
  different numbers below `k`, hence the triangular number in the bound.

**Reads** (`ReadTools_proofs`).

- `TypeCorrect`, `NothingTwice`, `NothingMissed`: for any listing, limits and
  page size. The invariant relates what a walk has seen to its cursor: every
  row seen lies at or before it, every row that stayed and lies at or before it
  was seen. A page under way covers exactly the stretch up to its own cursor,
  less what was delisted since it was served.
- `RecentExplained`: for any page size. Whatever was read shows only executions
  that had happened, and a page of fills with fewer than `FillPage` of them shows
  all, otherwise as many of the newest.

**Only model-checked.** The liveness properties `EveryCallReturns`,
`DisarmStopsWrites`, `FetchEnds` and `EveryReadReturns`, which rest on fairness
and so are outside the proof system. The disagreements of section 6 are
counterexamples that TLC finds, on the instances of their runs.

## 5. Not modelled

- What is in a row: the projection of market, order, trade, candle and weather
  fields. `ReadTools` follows which rows are read and when.
- Later pages of positions, orders and fills: `GetPortfolio` asks for no other
  than the first, and the models of its sections are of that page. That the first
  page of fills is the newest is an assumption about the exchange.
- Prices of the order book with other than four decimals: the handler strips the
  point and takes the digits as ten-thousandths, and the exchange writes four
  (`marketdata/client_test.go:88`). The model takes them as such.
- The second file of a promotion: the script installs the lock and then the
  generated file. A stop in between leaves the old generated file, in which
  nothing comes from the contracts.
- The generator beyond `validateManifest`'s test of operations and channels: the
  well-formedness of the overlay and the text it writes are functions of files.
- `kernel_status`, which reports the mode and constants; registration and schema
  checks of the MCP layer; rendering of amounts; the conformance server.
- Release audits: tests over the repository's files, no state of the kernel.
- The lazy building of tracker and client inside the full write path:
  `LiveTrading` starts with them built, `KernelProcess` builds them around a
  shortened write. The UTC day does not change in `KernelProcess`.
- Exchange semantics are only what the client relies on: one order for a
  `client_order_id`, an amend or cancel acts on a resting order, 409 for an id in
  use.

## 6. Disagreements found

Each is a run that TLC ends with a counterexample.

1. `live_caps_amend`: an amend with a lost answer is never recorded, a place is.
2. `live_cutoff`: a timeout inside the response body is reported as
   `upstream_payload_invalid`, a plain failure, although the write took effect. An
   error status that a gateway gives to a write that went through is reported as
   `upstream_error`, as plainly.
3. `paper_init`: two first calls each build a ledger, and a reported fill is lost.
4. `fixed_counts`: the count `10` is read as 0.10 contracts.

Seen while modelling, with no run of their own:

- `ArmState.Disarm` "revokes write authority for this process immediately"
  (`live/trading.go:60`), but a call past its two arm checks still writes.
- Two place calls may pass `checkOrder` before either records, and exceed the
  day's cap. `OverrunBounded` proves by how much.
- An agent that does not wait for the answer to arming may have its first orders
  recorded in a tracker that is then replaced; `RecordedIsBounded` says how many.
- Two downloads of one fetch may straddle a publication, so a lock may name a
  combination of contracts that upstream never served at one time.
- `PlaceOrder` documents a price band (step 3) that it does not implement;
  `README.md` says so.
- A timeout whose query finds an *earlier* order with the same id reports success
  and records its cents again; a request that arrives after "not found" is never
  recorded.
- An order already filled is refused when it is sent again after the market has
  moved: the handler compares prices before the ledger looks for the key, although
  "a repeated client_order_id returns the original result unchanged".
- At prices finer than a cent, `price*(1-price)` is cut off at four decimals before
  the count is applied, so the fee is not "exact until one final half-up round":
  `FeeMatchesFormula` bounds what it is short.
- An omitted `client_order_id` becomes one shared key per market and time in force,
  so an ask can be answered with the fill of a bid; the tool schema says the kernel
  generates an id.
- `findOrderByClientID` says it "pages get_orders" and reads one page: in a crowded
  account an order that landed may be reported as not found, which is still
  "indeterminate", and is not recorded.
- The positions of an account with more executions than a page of fills are not
  explained by the fills of its portfolio.
- A replay carries the cash of now.
- `kernel_status` always reports `live_trading_armed: false`.
- `SearchMarginMarkets` returns a cursor and sends neither cursor nor limit: an
  agent that follows it reads the first page again. It reads the list from
  `data`, `GetMarginLastQuote` reads it from `markets`.
- Every failure of the signed reads of a live portfolio becomes `internal_error`:
  `respondError` asks for the code of a market data error only.

## 7. Plan

1. *Done:* `RiskTracker`, `LiveTrading` with `OutcomeContract`; `FixedPoint`,
   `LiveAmounts`; `PaperLedger`, `PaperTrading` with `PaperAccount`; the
   theorems about them in section 4.
2. *Done:* `SpecFetch` and its theorems.
3. *Done:* `KernelProcess`, with the lazy building of tracker and client, and its
   theorems.
4. *Done:* `ReadTools`, with cursors and live portfolios, and its theorems; the
   generator's test of the contracts in `SpecFetch`.
5. *Done:* the theorems about outcomes, what the exchange accepted, the paper
   account, its balance, the arithmetic of orders, and `RecordedBounded`: every
   safety property of the passing runs.
6. What remains of proof: the conditions in which theorems with a hypothesis can
   be had with a weaker one, such as how many reported fills an agent can lose
   that does not await the first answer, or what an amendment can hide from the
   tracker.
