# Tokenized fractional real-world assets: a TLA+ verification project

The repository is a marketplace for fractional shares of real-world assets: a
Soroban (Stellar) contract in Rust that keeps the shares and the money, a
Node.js backend around it, and a React front end. This directory models the
contract `src/contracts/src/lib.rs`, whose mistakes cannot be undone, and the
parts of the backend and of the front end whose correctness depends on the order
in which things happen. TLC checks the models on small instances; TLAPS proves the
invariants that matter most for all instances. Line numbers without a path are
lines of `src/contracts/src/lib.rs`.

## 1. Inventory

### The marketplace contract

| Part | State | Operations | What makes it correct |
|---|---|---|---|
| Share ledger | total, unsold pool, balances, sell orders, vesting schedules, bridge locks, unlock times, holder list | `buy_shares`, `batch_buy_shares`, `buy_vested_shares`, `claim_vested_shares`, `place_sell_order`, `cancel_sell_order`, `buy_from_order`, `batch_transfer`, `buyback_shares`, `burn_shares`, `lock_for_bridge`, `unlock_from_bridge`, `set_total_shares`, `increase_total_shares`, `delist_asset` | no call mints or loses a share; orders and schedules stay whole; a seller can always leave; lock-ups and vesting are kept |
| Pull-based income | accumulator, per-holder snapshot and pending amount, sum unclaimed, contract's token balance | `deposit_distribution`, `claim_distribution`, `_settle_distribution` inside every balance change, `emergency_withdraw` | promises never exceed deposits; moving shares never changes what anyone can claim |
| Push dividends | policy, positions, schedule, last distribution, history | `distribute_dividends`, `process_scheduled_dividend`, `claim_dividends`, `set_dividend_*`, `update_payment_token` | never more out than declared; everybody who holds is paid; a migration leaves no debt |
| Trading halts | paused, closed, delisted, function mask, breaker | `pause`, `unpause`, `wind_down`, `pause_function`, `configure_/trigger_/reset_circuit_breaker` | a pause stops trade but not exit; a wind-down is final |
| Eligibility | whitelist, expiry, tier, allowlist switch, transfer whitelist, restrictions | add, remove, batch, expiry, tier, restriction calls | only cleared addresses buy |
| Sale terms | price, oracle, per-address cap, certificate contract | `set_price`, `update_price`, `set_oracle`, `clear_oracle`, `set_max_shares_per_user`, `set_nft_contract` | every purchase reads the terms in force |
| Purchase limits | limits, tier multipliers, exemptions, counters | `set_purchase_limits`, `set_tier_limits`, `set_limit_exempt`, `reset_user_purchase_limits` | every limited purchase is counted |
| Re-entrancy guard | one flag | `reentrancy_guard_enter` / `_exit` and aliases | one guarded body at a time; never left taken |
| Roles, upgrades, auto-buyback, snapshots | roles, pending admin, pending upgrade, buyback budget, snapshots | `set_pauser`, `transfer_admin`, `schedule_upgrade`, `process_auto_buyback`, `create_state_snapshot` ... | not modelled yet (section 8) |

Components meet in one place, the contract's storage: every trading function
reads the halts, eligibility, terms and limits, and every function that changes
a balance first settles the holder's income. Calls are transactions, atomic and
rolled back on a panic, so what is hard here is not interleaving inside a call
but long sequences of legal calls by several parties, rounding, u32 limits, time,
and the one place where a call is not alone: the external token contract it calls
in the middle.

### The backend

| Part | State | Operations | What is hard, and what makes it correct |
|---|---|---|---|
| Matching engine, settlement worker (`backend/src/engine`) | books per contract and side, trades not yet taken | `addOrder`, `start`, `stop`, `settle` | partial fills over several levels, equal and late timestamps, trades taken by the worker while orders arrive: price-time priority, no crossed book, no share lost or traded twice |
| Ledger indexing (`backend/src/services/indexingEngine.js`) | chain head, history, events, worker pool and its queue, re-org flag | `processLedgerBlock`, `handleLedgerReorg`, worker messages | every call is cut by awaits: blocks finish out of order, forks roll back, decoding fails, threads die |
| Asset catalogue (`backend/index.js`, `graphql.js`, `cache.js`) | one JSON file, search index, Redis cache | REST and GraphQL writes, cached reads, uploads, searches | reads and uploads wait while others write; invalidations are sent and forgotten; Redis comes and goes |
| Webhooks (`backend/index.js` 367-490, 1808-1942) | one JSON file, firings under way | register, change, delete, fire with retries | a firing saves what it loaded before its deliveries; failures in a row disable a webhook |
| WebSocket hub (`backend/websocket.js`, `websocketDLQService.js`) | clients, subscriptions (twice), sequence numbers, replay buffers | connect, subscribe, unsubscribe, broadcast, replay, close | sockets that close late or throw in the middle of a broadcast, this instance's or another's; a bounded buffer with ages |

They meet in the API process: a REST write to the catalogue fires webhooks in
the same step, the GraphQL mutations and the uploads do not. One thread runs all
of it, so a handler is one step except where it awaits. Other backend parts are
token revocation, API keys, job queue, rate limits, database access and
HTTP/GraphQL plumbing (section 8).

### The front end

| Part | State | Operations | What is hard, and what makes it correct |
|---|---|---|---|
| Live feed (`frontend/src/hooks/useWebSocket.js`) | refs to a socket, a timer and a set of topics, React state | connect, disconnect, effects, socket events, timers | refs are shared by sockets whose events come late; the page re-renders and turns to other assets meanwhile |
| Wallet session (`machines/freighterWalletMachine.js`, `context/FreighterWalletContext.jsx`) | the machine and its context, one timer | connect, answers, timeout, disconnect, network change | answers arrive late or never and belong to abandoned requests |
| Offline queue (`services/offlineQueue.js`, `hooks/useOfflineSync.js`, `service-worker.js`) | entries in IndexedDB, flushes under way | queue, flush, mark, clear, reload, background replay | flushes overlap, answers are lost, transactions fail or abort, pages are reloaded |

The hook and the hub are two ends of one connection, each of which learns in its
own time that it is over.

### The rest

`src/contracts/multi_asset` (a registry of several assets), `src/contracts/nft`
(share certificates; only its batch limit is used here), `src/contracts/vault`
(storage helpers), the SDK, the pages of the front end, deployment and
monitoring. What is hard to test in all modelled parts is listed, at its line,
under `hazards` in PROJECT.json.

## 2. Modules

| Module | Models |
|---|---|
| `ShareUnits` | sums of a function (as the cardinality of its set of units, so that facts about sums need no recursion), Rust's saturating operations, and what JavaScript's `filter` picks of a sequence (`Picked`, by counting positions, for the same reason) |
| `LedgerClock` | the ledger timestamp |
| `TradingHalts`, `Eligibility`, `SaleTerms`, `PurchaseLimits` | the four groups of rules, one action per admin call |
| `Marketplace` | the share ledger and the pull-based income on top of those; one action per contract function; composes the four groups in `RuleStep` |
| `ShareRegistry` | the abstract specification: a pool, one position per holder, shares retired |
| `Dividends` | push dividends, withholding and claims, payment-token migration, on top of `Marketplace` |
| `CallGuard` | the re-entrancy guard, one step per host operation |
| `MatchingEngine` | order books and the settlement worker |
| `LedgerIndexing` | block processing between its awaits, the worker pool, re-organisation |
| `AssetCatalogue` | the catalogue's file, its search index, the cache and the commands on the wire to Redis |
| `WebhookHub` | registrations, firings, attempts and counted failures |
| `CatalogueServer` | the two together: a write and the webhook event of its handler are one step |
| `SocketHub` | the server's side of the live feed with its replay buffer |
| `SocketHook` | the browser's side of the live feed |
| `LiveFeed` | both ends together: handshake, messages under way, closings |
| `WalletSession` | the wallet's state machine driven by its provider |
| `OfflineSync` | the offline queue and its flushes |
| `MC...` | inputs, symmetry and state constraints for TLC; `MCDividends`, `MCEngines`, `MCCatalogue` and `MCClient` put parts that share no state into one run (section 4) |
| `ShareUnits_proofs`, `Marketplace_proofs`, `Income_proofs`, `Registry_proofs`, `Dividends_proofs`, `Engines_proofs`, `Backend_proofs`, `Client_proofs` | the theorems (section 6) |

`SaleTerms` extends `TradingHalts` (`update_price` needs the pause);
`PurchaseLimits` extends `Eligibility` (limits read tiers), which extends
`LedgerClock`; `Marketplace` extends them all, `Dividends` extends `Marketplace`.

How the contract's modules correspond to the code:

- A variable is a `DataKey` (the comment on it says which). A missing key is
  `None`, or the default the code reads for it. Balances, orders, schedules and
  bridge locks are functions; a vesting schedule is a record in one of the slots
  `Grants`, since only owner and contents matter, not the position in a vector.
- An action is one successful call: its guard is the conjunction of the
  function's checks, and a checked addition is a bound `<= MaxU32`. A failed check
  panics and rolls back, which is a step that changes nothing.
- `retired` and `paidOut` are history variables; nothing reads them but properties.
- External wallets are not kept. A payment the caller cannot make is a call that
  panics. The contract's own balance (`custody`) is kept where the code depends
  on it: redemption, dividends, claims and withdrawals.
- The oracle answers any price of `OraclePrices`; 0 is allowed, as the code
  does not check it. The token contract's callbacks are in `CallGuard`.
- The purchase counters wrap at `MaxU32` (`Wrapped`): the code adds with `+=`, and
  `src/contracts/Cargo.toml` leaves overflow checks off in the release profile.
- `transfer_shares`, `transfer_shares_from` and `execute_approved_transfer` have
  no action because they can never commit (finding 1 below).

How the JavaScript modules correspond to the code:

- A variable is a field, a ref, a React state, a stored file or what is under way
  on a connection; its comment gives the name. A function that awaits nothing is
  one action; one that awaits is cut there, and what it read before stays in a
  variable of its own (`uploads`, `firings`, `todo`, `calls`), as in the
  closure. An answer and the continuation it wakes are one step, as in the event loop.
- `LedgerIndexing`: blocks have hashes, parents and heights; contents of events are
  left out, an event is the block it came from and whether it was decoded.
- `AssetCatalogue`: a record is the number of its last write, that of its last
  change of text, and whether it is approved; fields are left out. Redis executes
  commands in the order of the one connection (`enableOfflineQueue: false`: none is
  kept while it is down). `rwa:all` is deleted by the code and never read.
- `MatchingEngine`: `settle` takes the list and logs its length. Its catch block, which
  would put the batch back, is reached by nothing and is left out.
- `WebhookHub`: the pauses between attempts are part of a slow attempt. The url and the
  secret of a webhook are left out; `present` tells a registration from none.
- `SocketHub`: `index.js` never calls the replay buffer's `initialize`, so it
  works in memory and nothing of it survives a restart. Nothing then restarts
  the numbering under old messages, and a crash is not a case to model. Broadcasts of
  other instances arrive through Redis (`RemoteBroadcast`): they take no number here and
  change something only when a send throws. What this instance publishes to the others
  changes nothing of its own state and is left out.
- `SocketHook`: the hook's `connect` is a new function whenever one of its callbacks
  is; `Rerun` is such a render. `reconnectAttempts` is at its default, Infinity.
- `WalletSession`: networks are compared for equality; the code looks for one name
  within the other, which agrees on the names Freighter reports.
- `OfflineSync`: the handler of `online` has the `processQueue` of the first render
  (its effect has no dependencies), whose `syncing` is false for ever. The actions are
  POSTs to `/api/`, the requests that the service worker routes through background sync.
  An action counts as queued once it is stored; `enqueueAction` resolves a little
  earlier, before its transaction commits. A transaction of a flush ends in one of three
  ways: it completes; the database does not open or its first request fails, and the
  promise rejects (`StorageFails`, a disjunct of `MarkCompleted`); or it aborts later, and
  the promise never settles (`TransactionAborts`).

## 3. Properties

Each is stated with its reason beside its definition.

- `SharesConserved`: every share outside the pool is in exactly one place.
- `BooksCoherent`: order keys live and die together and only under ids handed
  out; schedules never pay more than they hold.
- `SellersCanAlwaysExit`: cancelling an open order is possible in every state.
- `ImplementsRegistry`: `Marketplace` refines `ShareRegistry` under
  `position[h] =` balance + bridged + escrowed + vesting. Offering, cancelling,
  claiming, bridging and delisting are stutters of the abstract registry: they
  never change whose shares they are.
- `DistributionSolvent`, `EntitlementsExact`: income promised is covered by what
  was deposited and not paid, and only a deposit or one's own claim changes what one
  can claim. Both are about the pairing of settlement and balance change.
- `LockupHolds`, `VestingOnSchedule`: over every step that could move shares.
- `PausedMeansNoTrade`, `ClosedForGood`: over every step, admin calls included.
- `LimitedPurchasesCounted`: three purchase functions, one set of counters. The fourth,
  `batch_buy_shares`, is excepted by name: it neither validates nor records a limit (4705).
- `DividendsWithinDeclared`: paid + withheld + accrued stays within declared.
- `OneGuardedBody`, `NeverLockedOut`: the guard under nesting and panics. These
  justify treating a call as one step in the other modules.

- `ImplementsRegistry` is the refinement; `TypeOK` and its like are one type
  invariant per run.

Backend:

- `OrdersConserved`: the amount of an order is at rest, or in exactly one trade.
- `BooksUncrossed`, `PriceTimePriority`: against the callers' clocks, equal and late
  ones included, with arrival order deciding among equals.
- `HeadIsTip`, `ServedEventsExact`: the head is the end of an ascending history
  whatever order blocks finish in; and a caller that waits for each block and is let
  through by the re-org guard sees exactly the events of that history.
- `PoolFull`, `BlocksAnswered` (liveness): no block is stranded in the queue.
- `CacheFollowsFile`, `CacheConverges` (liveness): what Redis will hold is right
  unless no invalidation followed a change, and then expiry makes it right.
- `SearchIndexFresh`: the index never names a missing asset or an old text.
- `FailuresCounted`, `FiringsEnd` (liveness): counts are those of the firings in a
  row, through overlapping firings and edits; retries end.
- `SubscriptionsMirrored`, `ReplayExact`: the hub's two books agree; a replay is the
  latest live messages that had a subscriber.

Front end:

- `FeedRecovers`, `TopicRestored` (liveness): after the last disturbance the hook
  holds an open socket for good, and the server has it subscribed to the asset shown,
  unless a socket was replaced before its close event or the hub has cut the socket off.
- `BothEndsAgree`: at every moment before that, what the page believes an open socket
  is subscribed to is what the server will have once the messages under way arrive.
- `KeyOnlyWhileLinked`, `RequestsEnd` (liveness): for every order of late answers.
- `ClearedWasExecuted`, `FlushesSettle` (liveness): no action is dropped unexecuted;
  no flush runs for ever, and the page leaves its syncing state, unless an aborted
  transaction left a flush hanging in it.

Four of the liveness properties rest on a safety half, stated beside them and proved
(section 6): `NeverStranded` (a wanted hook has a socket or a timer) for `FeedRecovers`,
`BothEndsAgree` for `TopicRestored`, `RequestsTimed` (who asks for access has a timer)
for `RequestsEnd`, `FlushesShrink` and `SyncingIsFlushing` (each step of a flush lowers
`FlushRank`, the last one clears `syncing` or hangs, and the page syncs only while one
runs or since one hung) for `FlushesSettle`. What TLC adds
is the fairness.

Several of these name what they except: a change no DEL followed
(`uninvalidated`), a webhook that a firing put back (`overwritten`), a text that an
upload put back (`undone`), a socket replaced before its close event (`superseded`), a
call overlapped by another (`overlapped`), a flush that hung in an aborted transaction (`hung`). Each is a history
variable set by exactly the step of the code that breaks the promise; `CutOff` (a socket
that is open although the hub has dropped its client, because a send to it threw) needs
none, as the state shows it. All are weaknesses of the code (section 5); everything
outside them is promised and checked. TLC refutes `TopicRestored` without either of
its two exceptions.

### Fairness

The contract claims no liveness: nobody is obliged to call it, so no fairness is
assumed there. What matters to a user is that an exit stays *possible*, which
`SellersCanAlwaysExit` and `NeverLockedOut` state as safety. Elsewhere the fairness is
weak, and on steps that the runtime takes by itself:

| Assumed | Because |
|---|---|
| a live worker thread answers (`IndexFairness`) | its handler has a try and always posts; a dead thread is excepted |
| Redis executes, answers, expires keys, and the client reconnects (`CatalogueFairness`) | every SET has an expiry, ioredis retries for ever; a run has finitely many outages |
| an attempt of a delivery ends, and a firing whose deliveries are settled goes on (`HookFairness`) | `postWebhook` has a time limit; `Promise.allSettled` resumes |
| sockets open and close, messages arrive, timers fire, effects run (`FeedFairness`) | what the browser and `ws` do; drops are `Drop`, bounded |
| the wallet's timer fires (`WalletFairness`) | `setTimeout`; nothing is assumed of the extension |
| a flush takes its next step (`OfflineFairness`) | a fetch is answered or fails; a transaction completes, fails at its first request, or aborts, after which the flush has no step left to take; nothing is assumed of the network |

No user, caller, client or peer is assumed to do anything. `RequestsEnd` needs the
number of requests to be bounded: a user who keeps clicking connect restarts the
timer each time.

`CHECK_DEADLOCK FALSE` is set where a run whose bounded inputs are used up may stop,
which is every passing run; `MCTransferGuard` checks deadlock.

## 4. Runs

The runs of the contract have two holders (the smallest number with a trade, a transfer and a bystander's
balance), two or three shares (a partial and a full fill, a split schedule), one or
two orders. Every bound is a CONSTANT of its .cfg. An empty input set closes the
calls a run is not about; MaxU32 is 2 or 3, so that the overflow checks are met.

| Run | Question | Bounds worth knowing |
|---|---|---|
| `MCBooks` | do all share-moving calls keep the books? | 3 shares, 2 orders, one schedule, bridge, supply changes, batches with a failing item |
| `MCIncome` | is income solvent and exact while shares move? | scale 3 against 2 shares (so divisions round), two deposits |
| `MCClock` | can a lock-up be bypassed or a schedule run ahead? | time 0..4, lock-up 2, durations 2 and 3 |
| `MCHalts` | does anything trade through a pause or wind-down? | all orders of admin calls, function pauses of orders and buybacks |
| `MCSaleRules` | is every limited purchase counted? | at most two rules changed at once (`RulesOnly`), symmetry over holders |
| `MCDividends` | do dividends stay within what was declared? can nesting or a panic break the guard? | amounts that do not divide, 50 % withholding, both tokens, schedule, supply 1 to 2; depth 4, entry points that take the guard 0, 1 and 2 times |
| `MCEngines` | does matching keep priority and amounts while the worker takes trades? does the index follow the chain? | three orders, two prices, amounts and timestamps, two contracts; four calls over a chain of three with a fork, XDR in all but the second ledger, so that the first, the only one that can be put in twice, may fail to decode; two workers, one of which may die |
| `MCCatalogue` | are cache, index and webhook counts right under every interleaving? | two assets, one of them made by GraphQL, an upload, an outage; two webhooks, firings that overlap, limit small enough to be reached |
| `MCClient` | do both ends of the feed, the wallet and the offline queue come to rest in the right state? | five sockets and two disturbances (a reconnection inside a reconnection), sends that throw, two topics; two accounts, three requests; two actions, two flushes, four faults |

Four runs put parts that share no state side by side: a variable fixed in the
initial state (`part`, `engine`, `setup`, `side`) says which part a behaviour is
about, and the others keep their initial state. The states of such a run are the sum
of the parts' states and not their product; every invariant and every liveness
property is checked in each. `MCCatalogue` is different in that both halves are the
same process, once with Redis and no webhook, once with webhooks and no Redis:
`setup` only keeps a run from multiplying what never looks at each other.

Symmetry (`HolderSymmetry`) is used in `MCSaleRules`, `MCDividends` only; no
definition names a holder. State constraints (`BooksOnly`, `IncomeOnly`,
`RulesOnly`, `DividendsOnly`) cut off what other runs explore, for example
wound-down states outside `MCHalts`; a state outside is still checked.

## 5. Where the code departs from its documentation

Three runs find a counterexample to a sentence of the repository. PROJECT.json
quotes the lines.

1. `MCTransferGuard`: the two direct transfers take the guard twice (3850 and 3854,
   3951 and 3955) and refuse themselves; the test at 6536 expects them to work.
2. `MCDelisted`: `unpause` ignores `Delisted`; the doc at 2821 says irreversible.
3. `MCWrongNetwork`: a disconnection puts the wallet's initial context back and with
   it the default `expectedNetwork`; the header of the machine promises a strict
   mismatch. Shown for a page that expects `public`.

Seen while modelling, kept in the model as the code has it, without a run of
their own. The contract:

- `buy_vested_shares` (2261) reads neither whitelist nor allowlist; the doc at 1606
  says it enforces the allowlist unconditionally.
- A distribution (1902) drops holders without liquid shares from the holder list, and
  cancelling an order, claiming, unlocking or a delisting does not put them
  back; the doc at 1852 says all current holders are paid.
- The migration check (901) ignores income not yet settled; the doc at 1776 says
  every obligation.
- A dividend is paid in the token the policy names at the time of the claim (2010).
- After a change of admin the roles assigned at init stay with the old one (8556).
- `burn_shares` (2784) reduces neither total nor pool, although 2783 says supply.
- Dividends, redemptions and withdrawals may spend deposited income (2069, 2096).
- `set_whitelist_expiry(0)` means "never" (1670) to `is_whitelisted` and "expired"
  to `_validate_whitelist` (1170).
- An oracle that fails makes the purchase fail (1188), while 3430 describes a
  fall-back to the admin's price.
- `remove_from_whitelist` keeps expiry and tier, the batch form clears them.
- Removing an address from the transfer whitelist deletes a key whose default is
  "allowed" (4433).
- `batch_transfer` reads no halt, and a transfer to oneself loses the shares.
- `process_scheduled_dividend` does not read the dividend pause (2520).
- Purchase limits never reset with time and are not applied to `batch_buy_shares`,
  unlike `PURCHASE_LIMITS_IMPLEMENTATION.md` says.

Backend and front end:

- A document upload saves the file it had loaded before it waited for Pinata
  (`backend/index.js` 1546, 1574), a firing the webhooks it had loaded (452, 488):
  both undo what was written meanwhile.
- The comment at 229 says the search index is rebuilt after every mutating
  operation; approvals, rejections and uploads do not, and a REST search
  rebuilds the shared index from the approved assets alone.
- The GraphQL mutations invalidate no cache; `createAsset` says `pending: true`
  (`graphql.js` 449) but sets no status, which the REST API takes for approved.
- A worker thread that exits is only logged; the pool goes on posting to it.
- `SettlementWorker.js` 18-22: the worker logs the batch and forgets it; its catch block
  cannot be reached.
- A client to which a send throws is dropped by the hub (`websocket.js` 280-289, 327-337)
  but keeps an open socket and is never told; the page shows itself connected.
- `PATCH /webhooks/:id` validates nothing (1897): the events may become none, unlike at
  registration.
- A ledger with sequence 1 cannot be rolled back (`Math.max(1, ...)`).
- Broadcasts that nobody listens to take a number and are not stored; the page
  never asks for missed messages.
- `useWebSocket`: the close event of a replaced socket empties the ref of its
  successor (219), the topic effect may then run in vain, and a hook unmounted
  with an open socket reconnects, against the comment at 313.
- A late answer of the wallet decides the next request.
- Overlapping flushes may carry an action out twice, and the service worker
  replays a request that the queue also retries; a completed entry can be marked
  failed; after a reload while online nothing flushes.
- `offlineQueue.js` 56-101, 140-157: the promises hear of no abort. If a `put`, a `delete`
  or the commit fails, the flush hangs and the page stays syncing until another flush
  ends or it is reloaded. `enqueueAction` (23) resolves before its transaction commits.
- The second fetch listener of `service-worker.js` (146-179) answers 202 when a PUT
  fails, which a queued PUT would take for success; POSTs to `/api/` never reach it.
- `App()` reads `handleSubscriptionEvent` (775) and `fetchShares` (1011) before their
  declarations, so its first render throws.
- `useOptimisticBuyShare`: overlapping rollbacks restore a stale snapshot.

## 6. Proofs

Every theorem holds for all finite sets of holders, orders, schedules, assets, sockets
or actions, and for every bound, price, limit and other constant that meets the named
assumptions of its modules; TLC evaluates these in the runs. PROJECT.json lists the
theorems with the property each states.

| Module | Inductive invariant | Properties proved |
|---|---|---|
| `ShareUnits_proofs` | - | lemmas on sums and on filtering |
| `Marketplace_proofs` | `BooksInv` | `BooksCoherent`, `SharesConserved` |
| `Income_proofs` | `MarketInv`, `VestingInv` | `TypeOK`, `DistributionSolvent`, `EntitlementsExact`, `LockupHolds`, `VestingOnSchedule` |
| `Registry_proofs` | `BooksInv` | `ImplementsRegistry`, `PausedMeansNoTrade`, `ClosedForGood`, `LimitedPurchasesCounted`, `ReturnsFit` |
| `Dividends_proofs` | `DividendsInv`, `GuardInv` | `ContractTypeOK`, `DividendsWithinDeclared`, `OneGuardedBody`, `NeverLockedOut`; the promises of `Marketplace` with dividends beside it |
| `Engines_proofs` | `MatchInv`, `IndexInv`, `ServedInv` | `OrdersConserved`, `BooksUncrossed`, `PriceTimePriority`, `PoolFull`, `HeadIsTip`, `ServedEventsExact`, `EnginesTypeOK` |
| `Backend_proofs` | `ServerInv` | `CacheFollowsFile`, `SearchIndexFresh`, `FailuresCounted`, `ServerTypeOK` |
| `Client_proofs` | one per part, `AgreementInv` for the feed, `SideInv` for all | `SubscriptionsMirrored`, `ReplayExact`, `BothEndsAgree`, `KeyOnlyWhileLinked`, `ClearedWasExecuted`, `ClientTypeOK`; `NeverStranded`, `RequestsTimed`, `FlushesShrink`, `SyncingIsFlushing` |

### The contract

**Books.** `SharesConserved` is not inductive alone. A vested claim credits with a
*saturating* addition, exact only because conservation and types bound the sum; a
new order writes the keys of its id, which loses nothing only because ids not handed
out are free; the rest of a schedule is a difference that must not go negative.
`BooksInv` therefore joins the types, the clock, `BooksCoherent` and
conservation. The proof has one lemma per action
(`BuySharesInv`, `BuyFromOrderInv`, `DelistAssetInv`, ...), which `NextBooksInv`
combines. Each reduces to an arithmetic identity between four sums, through the
lemmas of `ShareUnits_proofs`: a sum is the cardinality of a set of units, so
`TotalAdd` (sums add), `TotalRaise` (one value changes) and `TotalByClass`
(summing by class, for delisting) follow from facts about finite cardinalities, with
no induction over data. `FractionBound` and `VestedBound` are the arithmetic of
vesting: a rounded fraction of a grant stays within the grant, whatever time it is.
`FilledBound` does the same for batches: the accepted items never exceed the pool.

**Income.** A deposit adds a rounded rate times the sum of the balances to what is
owed; that is covered by the deposit only because the sum of the balances is at most
the issued shares, which is conservation. The rate applies to each balance since its
snapshot, so each step that moves a balance must have settled it first. One fact
about steps, `SettledFirst`, says so, and carries both `DistributionSolvent` and
`EntitlementsExact`. `MarketInv` is `BooksInv`, the types of the rules, snapshots
that are not ahead of the accumulator, and solvency.

**Lock-up and vesting.** Three calls read the lock before they debit, two are the
exceptions that `LockupHolds` names, and every other call leaves balances alone or
credits them. The invariant is needed for the credits: a claim, a batch and a
delisting credit a sum, which cannot lower a balance only because all its terms
are natural numbers. `VestingInv` multiplies the rounding out: what a schedule has
paid, times its duration, is at most its amount times the time elapsed.

**The refinement.** `MarketplaceImplementsRegistry` goes call by call through what happens to
each holder's position, the sum of four books, two of which are kept by order and by
schedule: `ClassRaise` says what one order or schedule gives to or takes from its
holder's sum. A call that moves shares between books leaves every position as it
was (`KeptIsStutter`) and is a stutter of the registry; the others are matched with
its steps one at a time. From the same positions follow the halts (a step while
paused only returns shares to the one whose position they were in) and the purchase
counters (who gains a position by a purchase was counted). `ReturnsAlwaysFit` is the part of
`SellersCanAlwaysExit` that is not ENABLED: crediting the shares of an open order to
its seller never overflows.

**Dividends.** `DividendsInv` adds `DividendsWithinDeclared` to `MarketInv`: rounded
slices of a distribution fit because the balances add up to at most the total that
the slices are divided by (`SlicesBound`), and what is withheld from a slice is no more
than the slice (`WithheldBound`). What the marketplace promises alone it promises with
dividends running beside it: a dividend step moves the contract's funds and the list of
registered holders and nothing else (`ShareBooksKept`), a stutter for the registry
(`DividendsKeepRegistry`) and for what the action properties speak of
(`DividendsKeepPromises`). The exception is worth knowing: it may spend the funds that
back deposited income, which `DistributionSolvent`, a statement about promises and not
about funds, does not exclude (section 5).

**The guard.** Any set of entry points, any number of takes per entry point and any
depth. Mutual exclusion is not inductive alone: `GuardInv` adds who holds the flag. A
frame `Holds` it once it has taken it at least once; at most one frame holds
(`OneHolder`), and the flag is set exactly while one does (`FlagHeld`).

### The engines

**Matching.** `MatchInv` says that each book is ranked (`Booked`): its orders are orders of
the log on their own terms, and each outranks those behind it. Then the head
stands for the whole book, and what the loop of `addOrder` tests of it holds of
every order: an order that does not match the head crosses nobody, and a trade with the
head passes over nobody. The loop is a recursive function; `WalkInv` holds after
each of its iterations, by induction on their number. `NatSetInduction`, with the
hypothesis given as a set instead of an operator, makes that possible. Sums over trades
are `Total`s over positions of a sequence, so `TotalJoined` and `TotalShifted` apply.

**Indexing.** `PoolFull` needs that what a worker holds is what was posted to it, once, and
that the count of the pool is that of what is posted (`PoolOK`). `HeadIsTip` needs that the
history ascends, which a rollback and the append after it keep only because a ledger
comes after its parent: `IndexAssumption` says so of the chain, and it is the one
assumption about the outside world. `ServedEventsExact` joins the two: in an ascending
history a rollback keeps a prefix of the ledgers and a prefix of their events, though
the code filters the two lists apart; and while a re-organisation is under way, its
call is the only one and its block the last of the history (`ServedInv`). The attempt
first failed for a good reason. What is not decoded was named by its block, which is
ambiguous for ledger 1, the only one the code can put into the history twice; it is
now named by its position, and the run gives ledger 1 something to decode.

`EnginesRunBoth` shows that a behaviour of the joint run is one of each engine, which
carries the theorems of the parts over.

### The server

**Cache.** `CacheFollowsFile` is about the last command on the wire for a key, so
its invariant speaks of sequences: `CatalogueInv` joins the types, `Unborn`
(a random id not handed out is in no version of the file, nor in one an upload has
loaded; needed because `GraphqlCreate` sends no invalidation) and the property for
every contract (`AllFollow`). The lemmas `AppendOther`, `AppendLast`, `TailOther` and
`TailSame` say what sending and executing a command does to the last command of each
key; after them each action is a case of "the last word is a DEL", "the file did not
change for this key", or "the key became an exception".

**Search and webhooks.** `SearchIndexFresh` is inductive with the types. For
`FailuresCounted`, `HookInv` says of the file and of every version that a firing has
loaded that no count exceeds the number of firings that are over, and that a webhook
not registered yet has none: a firing saves a version it loaded long before.
`ServerInv` is the three together, and `ServerRunsBothParts` shows that the composed
process implements the catalogue and the webhooks.

### The client

**The hub.** `SubscriptionsMirrored` is inductive with the types of the two books: that
it names only connected clients is what makes a new connection start with neither. For
`ReplayExact`, `BufferOK` says that a buffer ascends, holds only messages among the
latest `BufferSize` that had a subscriber, and misses none of them that has not expired;
trimming and expiry are `Picked`s, whose lemmas say when the picked part is a suffix.

**The feed.** `FeedRunsTheHub` shows that the composed feed takes only steps of the hub:
it needs that messages under way are about topics there are and that handshakes, losses
and closings happen to sockets in the state the hub expects (`Ends`). Its types are a
matter of their own: a socket reference is 0 or a socket (`RefOK`), and there are never
more timers than sockets that closed. `BothEndsAgree` then takes `AgreementInv`, the two
together with `Agreed` (a topic is in the hook's set exactly when the last message under
way about it asks for it or, with none under way, the server has it) and `Follows` (what
the state and the topic effect know of the socket, as long as none was replaced before
its close event). `WillListen` is the point: the statement about now is false while
messages travel, and the one about what will be is inductive. `StrandedInv` is the
hook's own: every path that empties the reference makes a socket or sets a timer.

**The wallet.** `KeyOnlyWhileLinked` needs that the machine is in one of its four
states; `RequestsTimed` is inductive with the types: an answer that clears the timer of
another request also ends the state that needed it.

**The queue.** `ClearedWasExecuted` holds for any number of flushes that overlap: the
inductive part is `SuccessesExecuted`, that a flush about to mark an action completed
has had it carried out, which must survive the other flushes' marking and clearing.
`FlushesEndOrHang` is the variant of the same loop: `FlushRank` counts the stages and
entries a flush has left, and each of its steps lowers it, though others add and remove
entries meanwhile; and the step after which nothing is left is either the finally block,
which clears `syncing`, or the abort that hangs the flush. It does not say that a hung
flush ends: it does not. `OfflineTyped` carries it: a flush holds entries of the queue only while it
works on them.

**All of it.** `SideInv` carries the parts through the joint run: `ClientTyped` proves
`ClientTypeOK`, and `SideKeepsPromises` the other invariants of that run.

### Only model-checked

- `SellersCanAlwaysExit`: it states ENABLED, which the provers do not handle.
- The liveness properties `BlocksAnswered`, `CacheConverges`, `FiringsEnd`,
  `FeedRecovers`, `TopicRestored`, `RequestsEnd`, `FlushesSettle`.

Induction over data is out of reach where a library operator is recursive
(`SelectSeq`, a fold over a set): its induction theorem takes an operator. That is why
`Total` and `Picked` count instead of recursing. A recursive *function* of the model is
within reach through `NatSetInduction`.

## 7. Mutants

Every property has a mutant of the code that breaks it, defined just before the
definition it changes (`SettleNothing`, `OrderKeptWhenEmpty`, `VestedRoundedUp`,
`RecordDailyPurchase`, ...): a dropped guard, a missing settlement, a wrong
rounding direction, a loop that keeps a stale balance. They are no part of any
specification.

## 8. Plan and what is not modelled

Done: the modules of section 2 and the theorems of section 6. Every invariant and
action property that a run checks has a theorem, except `SellersCanAlwaysExit`, which
states ENABLED.

Worth modelling next: `TokenRotation` (concurrent refreshes, per-user revocation, API
keys rotated in two statements), `AutoBuyback` (interval and budget), `AccessRoles`
(roles, two-step admin, upgrade timelock), `MultiAsset`.

Not modelled:

- Contract: transfers that never commit, with the approvals and fees only they read;
  snapshots (restoring one restores nothing); metadata, events, history and quotes
  (written and read by no check); certificate minting (library code).
- Backend: publication of broadcasts to other instances and the Redis adapter that carries
  them (`websocket.js` 258-260, connected at `index.js` 2192), of which only the arrival is
  modelled; job queue and e-mail (delivery and retries are BullMQ's), rate limits and
  time windows, database access, archive and backups (SQL and I/O), HTTP, GraphQL and
  tRPC plumbing, tracing. `services/webhookService.js`, a second implementation of
  webhooks, is called by no route.
- Front end: the pages. `App()` does not get past its first render (section 5), so the
  purchase flow it composes has no behaviour to be faithful to. Most of the
  repository's JavaScript is display, routes without state and API documentation, with
  no behaviour for a model to decide; the modelled files are its small, stateful core.
