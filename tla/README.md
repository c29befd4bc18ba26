# StreamPay: formal models, model checking and proofs

StreamPay pays money out over time. A *stream* deposits tokens and releases
them to a recipient linearly between a start and an end. The repository has
three places that keep that promise: a Soroban contract that holds the tokens,
a Next.js backend with a store of stream rows, and the browser. This directory
holds TLA+ models of the parts of each that are hard to test, TLC
configurations that check them on small instances, and TLAPS proofs of most of
their safety properties for every instance.

Paths below are relative to the repository root (`src/` in `PROJECT.json`).
`contract/` stands for `contracts/contracts/streampay-stream/src/`.

## 1. Inventory

| Part | State it keeps | Operations | Talks to | Hard because |
|---|---|---|---|---|
| Escrow contract, linear streams (`contract/lib.rs`, `release.rs`, `fees.rs`, `limits.rs`, `cooloff.rs`, `withdrawer.rs`) | rows, next id, per-sender counter and cooloff, withdrawer lists, one token balance for all | create, draft, start, withdraw (2), pause, resume, settle, cancel, amend, add/remove withdrawer | token contracts | long sequences of calls rewrite the schedule the next payout is computed from; streams share a balance |
| Escrow contract, configuration (`admin.rs`, `allowlist.rs`, `storage.rs`, `migrate.rs`) | admin, pause switch, allow/deny lists, fees, limits, nonce, last override, version | 14 admin calls, `admin_override` | gates every call above | three keys per organisation entry must agree; nonce and cooldown together |
| Split and recurring streams (`multi.rs`, `recurring.rs`) | rows of their own, the same balance | create, withdraw, process, cancel | tokens | rounding per recipient, checked products, cycles processed late |
| Stream API, lifecycle (`app/api/streams/[id]`, batches, groups) | rows, a promise-chain lock per stream, idempotency records, requests in progress | start, stop, pause, cancel, settle, withdraw, batch start/stop, group start/pause/stop | settlement client, Horizon, webhook outbox, event bus | requests interleave at each await; retries race the request they repeat; several locks at once |
| Stream API, creation (`app/api/streams/route.ts`, `batch`, `multi`, `import`, `app/api/v2/streams`) | idempotency records, import reservations, records of imported rows | create, batch, multi, import, v2 | as above | deadlines that leave a handler running, retries, files cut off half way |
| Withdrawal finality (`app/lib/withdraw-finality.ts`) | withdrawal record of a row, page cursor | evaluate on each poll | Horizon | time limit, paging, a history that grows meanwhile |
| Webhooks (`app/lib/webhook-*.ts`, `admin-guard.ts`) | outbox, delivery records, dead letters, breaker per endpoint, admin switch | enqueue, drain, attempt, back off, replay, redeliver, halt | customers' endpoints | awaits between claim and result; two breakers; lost answers |
| Live events (`stream-publish.ts`, `event-bus.ts`, `sse.ts`, three SSE routes) | row as announced, subscriptions, timers | publish, subscribe, heartbeat, close | API routes, browsers | announcements leave the lock behind; four ways to close a connection |
| Indexer (`lib/indexer.ts`) | cursor, processed events, loops | main loop, backfill, start, stop | Horizon, database | cursor and events persisted apart; several loops on one cursor |
| Soroban retry queue (`lib/sorobanRetryQueue.ts`) | entries in memory, a copy in localStorage | enqueue, dequeue, complete, fail, requeue, configure, clear, load | localStorage, the caller of dequeue | reload between any two steps; storage that fails |
| Account fetch coordinator (`lib/accountFetchCoordinator.ts`) | epoch, requests in flight, map of shared calls | fetch, retry, time out, switch account | API, the hook that shows data | late answers of an earlier account |
| Organisations, authentication, audit, filters | approvals, quotas, challenges, counters, caches | per request | all routes | see section 8 |
| Everything else (UI, logging, metrics, KMS, job queue, Temporal spike, scripts) | – | – | – | not modelled, see section 8 |

What makes each of them correct:

* contract: nobody is paid more than has vested, vesting only grows, a pause
  earns nothing, the balance is exactly what live programs owe, tokens reach
  only parties, overrides are rare, the pause switch stops everything but
  refunds; a split pays each share to the unit, a keeper changes nothing for
  the recipient of a recurring stream;
* API: a payout is counted in the row, a key acts once and creates once,
  status follows the table in `state-machine.ts`, vesting does not fall, every
  request ends, no reservation is left behind;
* finality: withdrawn means buried deep enough, paging skips nothing;
* webhooks: an event is decided on in the end, "delivered" means it arrived,
  a halt halts, a broken endpoint is left alone;
* live events: who listens sees every announcement; nothing outlives its
  connection;
* indexer: behind the cursor nothing is missing that no crash explains;
* browser: a reload loses nothing, a call is tried a bounded number of times,
  data of one account is never shown to another.

`PROJECT.json` lists every component with its status, and under `hazards` the
places in the code where these can go wrong, with the property that covers
each, or the reason why none does.

## 2. Modules

```
Accrual, Sums --- StreamContract -------- MCStreamContract     (escrow, governance)
   |                  |
AccrualProofs --- StreamContractProofs

Accrual --- ProgramLedger -+- SplitStream, Sums -+- EscrowPrograms - MCEscrowPrograms
                           +- RecurringStream ---+        |           (programs)
                                        AccrualProofs - ProgramsProofs

StreamApi --------------- MCStreamApi          (stream_api, withdraw_twice)
    +-------------------------------------------------- StreamApiProofs
StreamCreation ---------- MCStreamCreation     (creation)
    +-------------------------------------------------- StreamCreationProofs
WithdrawFinality                               (finality) ----+
Indexer ----------------- MCIndexer            (indexer) -----+ ChainProofs
LiveEvents -------------- MCLiveEvents         (live_events) -+
WebhookPromise <== WebhookDelivery - MCWebhookDelivery (webhook) + DeliveryProofs
SorobanRetryQueue                              (retry_queue) -+
AccountFetch                                   (fetches) -----+ BrowserProofs
```

A line is EXTENDS; `<==` is "is implemented by" (INSTANCE with a refinement
mapping). A definition named `Mutant...` is a faulty form of the one it
precedes. No specification uses one; each shows that a property can fail.

Three modules of proofs are about two components each that share no state:
`ChainProofs`, `DeliveryProofs`, `BrowserProofs`. They extend both models, so
the second of each pair has the component in the names every specification
has: `LiveInit`, `LiveSpec`, `FetchSpec`, `IndexerSpec`, and so on.

### Sums

`SumUpTo(v, n)` is `v[1] + ... + v[n]`, a recursive function: the totals that
a loop of the contract, or a reader of its balance, would add up.

### Accrual (`contract/release.rs`, `fees.rs`)

Pure arithmetic: `EffectiveNow`, `Elapsed`, `vested_amount`, `withdrawable`,
`FeeAmount`, with rounding down as in the code. i128 and u64 have constant
widths; a checked operation that may fail has an `...OK` guard.

### StreamContract (`contract/lib.rs`, `admin.rs`, `limits.rs`, ...)

The host runs one call at a time and undoes all writes of a call that returns
an error or panics. So one action is one successful call, a failing call is a
disabled action, and a crash in the middle of a call needs no model. `Tick`
closes a ledger. Variables and storage:

| Variable | In the code |
|---|---|
| `streams`, `nextId` | `DataKey::Stream(id)`, `StreamCount` |
| `settings` | instance storage: admin, pause, fees, limits, nonce, last action, version; token and organisation lists |
| `senderCount`, `cooloffUntil` | `limits.rs`, `cooloff.rs` |
| `withdrawers`, `streamFee` | allowlist and `StreamFeeBps` of a stream |
| `balance` | the token contracts, from outside: what a transfer does |
| `held`, `shorted` | history only: tokens moved in minus out per stream; streams whose schedule was rewritten below what had been withdrawn |

The authorising account is a parameter of an action where the code lets it
vary; where the code demands the sender's or the recipient's signature there
is nothing to choose.

### ProgramLedger, SplitStream, RecurringStream, EscrowPrograms (`contract/multi.rs`, `recurring.rs`)

Again one action per call. `ProgramLedger` holds what both kinds share: clock,
configuration that gates calls, one token balance. `SplitStream` keeps rows
with a roster of weighted recipients: what has vested is cut into shares, each
rounded down, and products are checked against i128, so a call may be
impossible (`...OK` guards). `RecurringStream` books whole cycles
(`process_period` by anybody, and inside `withdraw` and `cancel`).
`EscrowPrograms` composes them over one balance. No entrypoint pauses such a
stream, so their rows have no pause.

### StreamApi (routes under `app/api/streams/[id]`, batches, groups)

Node runs one stretch of code at a time, so a request is a sequence of
stretches between awaits: arrive and look the key up (`Arrive`), wait for one
lock after another (`Acquire`: `held` is the set it has, `NextLock` the least of
what remains), run the handler (one action per route), be
answered by the settlement client (`settled`) or Horizon
(`evaluateWithdrawalState`), store the response (`Store`). The lock of a stream
is the queue of requests in its promise chain, `IsNext` is the turn. `requests`
keeps what a handler holds in local variables across an await, above all the
`row` it will write back. `paid`, `settledOnChain`, `applied`, `appliedTwice`
are history. Which of three outcomes Horizon yields is a choice; a response
that is not JSON ends the request with no stored answer, as it does in the
code.

### StreamCreation (the five routes that create streams)

Every await is a point where another request may run. `/streams` holds a lock
on its key and looks the key up under it; `/batch`, `/multi` and v2 look the
key up without one; `/import` reserves the key and records each row it has
created under a record of its own. The deadline of `with-timeout.ts` answers
504 while the handler runs on; only `/import` looks at the abort signal. For
it, the release in `finally` and the abort are one action, because both run in
one drain of the microtask queue. Parsing, validation and quota are failures
that may happen. An empty file is answered at once and left out.

### WithdrawFinality (`app/lib/withdraw-finality.ts`)

A poll (`evaluateWithdrawalState`) looks a hash up directly, or pages through
the account's history from the saved cursor; a page and the newest ledger are
two requests with ledger closes between. The history grows at its new end
while pages are read towards the old one. Attempts and age run out during a
poll. What Horizon answers follows from the modelled ledger, or fails.

### LiveEvents (`stream-publish.ts`, `event-bus.ts`, `sse.ts`)

A change is stored under the lock of its stream and announced after further
awaits: `row` and `published` differ in between. Each connection is a record
with its listener, timers and what it has seen. `Abort`, the idle deadline, a
limit of heartbeats and a rejected write close it; a client may vanish without
any of them. The queue in front of a socket never holds more than the frame
being written, so the overflow policies of `sseBackpressure.ts` do not arise.

### Indexer (`lib/indexer.ts`)

One action per stretch between awaits of the main loop and of a backfill; a
crash, a stop or a failed save may cut a batch at any event. `tip` is the chain;
what `fetchEvents` answers is up to its caller, here all closed ledgers from
the one asked. `dropped` is history: events given up with their batch.
`startMainLoop` has no guard, so two loops run after two calls, or after a stop
and a start.

### WebhookDelivery and WebhookPromise (`app/lib/webhook-*.ts`, `admin-guard.ts`)

An action is a stretch between a `fetch` and a backoff timer. `Attempt` is the
head of the loop in `processDelivery` together with the checks of
`attemptDelivery` up to the fetch; `Accepted`, `Refused` and `Failed` are how
the fetch ends, and each runs on to the end of `processDelivery` and of
`processOutboxEntry` if the code does. `WebhookPromise` is what a caller of
the outbox relies on; the mapping reads the fate of an event off its entry:
pending and processing are "waiting", `dlq` is "parked".

### SorobanRetryQueue (`lib/sorobanRetryQueue.ts`)

One action per public method. Each ends in `_persist`, which is part of it.
`hydrate` is a page load. `inFlight` is the caller that got an entry from
`dequeue` and has not reported yet; a load forgets it. `markFailed` is given a
`SorobanError` or something else. What is no `SorobanError` is refused before the
entry is looked at, and an entry that was processing stays so, with nobody left
to report it, until the page is loaded or the queue cleared; `refused` is the
history of that. Of the configuration only `maxRetries` changes; the delays are
constants, and the jitter is a share of the delay, as in `computeBackoff`.
localStorage may stop taking writes, take them again, or lose what it holds.
Entry ids are numbered in order of insertion, which is the order `Map` iterates
in and breaks ties in `dequeue`.

### AccountFetch (`lib/accountFetchCoordinator.ts`, `app/hooks/useAccountFetch.ts`, `lib/apiClient.ts`)

Calls of one instance of the hook and of other callers, shared under a key, with
the time-out, the abort signal, one retry and the clean-up after each as separate
steps; a second instance of the hook is one of the other callers, whose state is
not kept. A switch of account raises the epoch and cancels what is in flight. The Sets of
controllers are objects on a heap, because an old request keeps hold of the Set
it was added to.

## 3. Runs

| Run | Asks | Instance | Result |
|---|---|---|---|
| `escrow` | can any order of calls pay ahead of vesting, take vested money back, let a pause earn, or let a stream live off another one's deposit? does the counter keep a sender out? | two streams sharing a token, senders equal or different, four timestamps, two amounts, amendments | `NeverOverReleased`, `EscrowAccounted`, `Solvent`, `CountNeverOverstates`, `VestedNeverRegresses`, `PauseFreezesAccrual` hold |
| `governance` | who can be paid, how often can an admin override? | three accounts, one of them admin, delegate and collector, a 50 % fee, every admin call | `OverrideRateLimited`, `OnlyPartiesArePaid` hold |
| `programs` | is the common balance what splits and recurring streams owe, is each share exact, can a split always be ended, does it matter when a keeper calls? | one split with two or three shares (one account listed twice), one recurring stream of two cycles, amounts on both sides of i128 | `ProgramsSolvent`, `SplitSharesExact`, `SplitCanBeCancelled`, `PayoutFollowsClock` hold |
| `stream_api` | any three overlapping requests | two streams, one group of both, both orders of a batch, one key, partial and full withdrawal | `PayoutsAccounted`, `AppliedOnce`, `FollowsTable`, `VestedNeverFalls`, `EveryRequestAnswered` hold |
| `withdraw_twice` | docs/api/idempotency-scoping.md: a retry must not withdraw twice | one stream, two keys | `WrappedOnce` is **violated** |
| `creation` | can retries, deadlines and failures create twice, import a row twice, or leave a key reserved? | three requests, two keys, files `<<r1, r1>>` and `<<r2>>`, one expiry | `CreatedOnce`, `ImportedOnce`, `OneImporter`, `ReservationsEnd` hold |
| `finality` | is a withdrawn payout on the ledger and deep enough; does paging skip, does giving up lose? | up to four transactions, pages of one, two pages a poll, three attempts | `WithdrawnIsBuried`, `NeverSkipped`, `PendingIsOnLedger` hold |
| `live_events` | does an open subscription miss an announcement; does anything outlive a connection? | two connections on any of the three routes, three changes, one edit without the lock | `FeedIsCurrent`, `NothingOutlives`, `ConnectionsEnd` hold |
| `indexer` | can an event be skipped; does a backfill heal; does the loop arrive? | two loops and a backfill, four events in three ledgers, one fault | `GapsOnlyAtCuts`, `BackfillHeals`, `EventsIndexed` hold |
| `webhook` | does the outbox keep its promise through failures, halts and manual sends? | two events, one endpoint, two attempts, breaker at three failures, one halt, one manual send | `ProcessingIsRunning`, `HaltStopsTraffic`, `BrokenEndpointRests`, `PromiseKept`, `EveryEventSettles` hold |
| `retry_queue` | what do reloads and storage faults do to entries? | two entries, limits 1 and 2, one reload, one requeue, one fault, no jitter | `RunsBounded`, `ReloadLosesNothing` hold; `EveryEntrySettles` holds, which excepts a refused failure until the page is loaded (section 6) |
| `fetches` | can data of another account or of an earlier stay be shown; does loading end? | two accounts, two switches, three requests, one retry | `DataIsCurrent`, `LoadingEnds` hold |

Deadlock is not checked except in `fetches` (`CHECK_DEADLOCK FALSE`): the
models stop at their bounds (last timestamp, requests served, events
enqueued), and a system with nothing to do is idle, not stuck. That nobody
waits for ever is stated as liveness instead (`EveryRequestAnswered`,
`EveryEventSettles`, `EveryEntrySettles`, `EventsIndexed`, `ConnectionsEnd`,
`ReservationsEnd`, `LoadingEnds`).

### Why the bounds are enough

* Contract. Rows interact only through a sender's counter, the cooloff and
  the balance; two streams of one or two senders show each. The schedule of a
  stream is linear, so two or three units over two or three seconds give every
  case of rounding (exact, down, to zero). Time reaches the last end. The
  proofs of section 5 lift the invariants to any instance.
* Programs. A third of a deposit that three does not divide rounds; an account
  listed twice is the one case in which two shares meet. Two cycles are the
  least with one processed late and one on time. `I128Max` lies between the
  products of the two deposits, so both sides of each check occur.
* API. A bad interleaving needs a request that waits, one that overtakes it,
  and one that undoes the first (restart between two stops): three requests.
  Opposite lock orders need two streams. A pause, a resume and a reading of
  what has vested need `Duration` 2.
* Creation. A retry meets the first request at any of its awaits, a third
  request meets what the two left behind; a file that repeats its row and a row
  two files have need two rows.
* Finality. A cursor that goes wrong needs a page that is not the last, so
  pages of one; a transaction must be able to arrive before, behind and between
  them, which four allow.
* Live events. Two connections see different suffixes of three changes. The
  edit without the lock can overlap each of them.
* Indexer. Two events share a ledger, so that a batch can be cut inside one;
  two loops and a job read, process and save in every order. One fault (a stop,
  a crash or a failed save) cuts a batch; more of them are covered by the proofs
  of the two safety properties, which hold for any number.
* Webhooks. An attempt that fails, one that is the last, a breaker that opens
  across two deliveries; the halt comes before, between and after.
* Retry queue. Two entries order the queue; limit 1 is the smallest at which a
  first failure is final, 2 the smallest with a retry. The reload and the fault
  may come between any two steps, so also between a call and its outcome. Jitter
  only moves the time of a retry, which is already before or after `MaxTime`.
* Fetches. Leaving and coming back needs two switches; a request of each stay
  and one to share a key with make three.

`SYMMETRY` over accounts is used in `escrow` and `governance`, over those that
no argument of a configuration call names; the properties checked there are
invariants and step properties, for which it is sound.

## 4. Fairness

* Contract, all kinds of streams: none. Nobody has to call a contract.
* `StreamApi`: each request that can go on does so, one weak fairness per
  request. The event loop runs every promise that is settled; it also says
  that the settlement client and Horizon answer, or fail, in the end, as
  `fetch` does. Nothing makes a client send a request or time pass.
* `StreamCreation`: the timer of an import fires unless the import ends first.
  Nothing is assumed about the awaits of a handler: that is what the deadline
  is for.
* `LiveEvents`: heartbeat and idle timers fire, and the runtime delivers an
  abort it owes. A client that vanishes owes none.
* `Indexer`: ledgers close, a loop or job that is running goes on, and Horizon
  answers in the end if it is asked again and again (strong fairness of the
  answer: a failed fetch is retried). Nobody has to start, stop or backfill.
* `AccountFetch`: a fetch ends and a timer fires.
* `WebhookDelivery`: the worker's timer and loop, the end of each fetch (it is
  aborted after 30 s) and each backoff timer. Not the operator, nor the
  endpoint: how it answers is open. `EveryEventSettles` assumes further that
  the operator does not halt for ever. **The fairness of the drain assumes that
  `startOutboxWorker` is running; no file of the application calls it**, so a
  deployment has to.
* `SorobanRetryQueue`: a caller that polls `dequeue` and whose calls come back
  with a result or an error, of whatever kind, and time. docs/soroban-retry-queue.md describes such a processor; no file of
  the application has one.
* `WithdrawFinality` states fairness for `PendingResolves` alone, which fails
  all the same (section 6).

## 5. Proofs

All proofs are checked by `tlapm`; they take nothing on trust. Each holds for
every value of the constants that the named assumption of its module allows:
any accounts, tokens, streams, times and rates; any number of connections,
requests, loops and events; any limits and depths.

| Module | Theorems | Properties of runs they state |
|---|---|---|
| `AccrualProofs` | `VestedBounds`, `VestedMonotone`, `FeeBounds` | – |
| `StreamContractProofs` | `ContractInvariant`, `TypeCorrect`, `EscrowIsAccounted`, `ReleasesWithinVested`, `NothingVestedIsLost`, `PausesEarnNothing`, `OverridesAreSpaced`, `OrgListsAreConsistent`, `PauseStopsTokens`, `PayeesAreParties`, `ContractIsSolvent`, `CounterIsAtMostOpen` | all of `escrow` and `governance` |
| `ProgramsProofs` | `ProgramsInvariant`, `KeepersChangeNothing`, `SharesAreExact`, `ProgramsAreSolvent`, `SplitsHaveAWayOut` | all of `programs` |
| `StreamApiProofs` | `ApiInvariant`, `ApiTypes`, `RowsAccountForPayouts`, `KeysActOnce`, `StatusesFollowTable`, `VestedIsKept`; `NobodyWaitsInACircle` | all of `stream_api` but its liveness |
| `StreamCreationProofs` | `CreationInvariant`, `CreationTyped`, `KeysCreateOnce`, `RowsImportOnce`, `ReservationsAreOwn` | the three invariants of `creation` |
| `ChainProofs` | `FinalityInvariant`, `FinalityTyped`, `WithdrawnMeansBuried`, `ScanSkipsNothing`, `PendingHasLanded`; `IndexerInvariant`, `IndexerTyped`, `NoGapsButCuts`, `BackfillsHeal` | all of `finality`; `GapsOnlyAtCuts`, `BackfillHeals` |
| `DeliveryProofs` | `HookInvariant`, `HookTypes`, `ClaimsAreHeld`, `OutboxKeepsItsPromise`, `HaltsAreObeyed`, `BreakersAreObeyed`; `FeedInvariant`, `LiveEventsTyped`, `FeedsAreCurrent`, `ConnectionsCleanUp` | all of `webhook` but its liveness; `FeedIsCurrent`, `NothingOutlives` |
| `BrowserProofs` | `QueueInvariant`, `RunsAreBounded`, `ReloadsAreExact`; `DataIsOfThisStay` | `RunsBounded`, `ReloadLosesNothing`; `DataIsCurrent` |

**Accrual.** What has vested lies between zero and the deposit, never falls as
the clock advances, and a fee is between zero and the amount. The facts about
division they rest on are lemmas of that module, and so are those about
`SumUpTo`: that the recursive function exists for every length, what one
changed term or one more term does to a sum, and that sums are monotone. They
are proved without the induction rules of the library, which the provers cannot
instantiate: the lengths at which a claim holds are a set, and a set of naturals
that has 0 and the successor of each member is all of them, because its
complement has no least member.

**Contract.** `TypeOK`, `EscrowAccounted` and `NeverOverReleased` are inductive
only together. `NeverOverReleased` needs the row to be well formed (`RowOK`),
because the schedule is a quotient by its duration, and a pause that lies in
the past, because a resume shifts the end by its length. `EscrowAccounted`
needs it too: a cancellation pays `vested - released` and refunds
`total - vested`, and these add up to what the stream holds only if
`released <= vested`. That is exactly what an amendment can break, so the
invariant carries `shorted`, the streams for which it did, and claims less of
these: over, they may have cost more than their deposit. The proof has one
lemma per call; each replaces one row and moves tokens for one id.

The step properties rest on `RowMove`, the ways in which one step may
change a row, and on one more invariant, `EndsCover`: a stream under way ends
no earlier than its duration after its start, because pauses only push the end
back. Without it an amendment during a pause could keep the duration and move
the end, and the pause would earn.

`OverridesAreSpaced`: after n overrides the clock at the last one has passed
n - 1 cooldowns, for every cooldown and across changes of admin.
`OrgListsAreConsistent`: the three keys of an organisation agree.
`PauseStopsTokens`: while the contract is paused, a step that moves tokens is a
cancellation. `PayeesAreParties`: a transfer out of escrow changes no balance
but the payee's, a deposit enriches nobody, and each payout names a recipient,
a sender who cancels, the collector or the admin.

`ContractIsSolvent`: the strengthening is `EscrowIsHeld`, that the balance of a
token is the sum over all rows of what history says each holds of it, the
shorted ones included; it is the equation every call keeps, because each moves
tokens of one id and changes one term of the sum. `Solvent` follows with
`EscrowAccounted`. `CounterIsAtMostOpen` counts the open ids of a sender as a
set: a call adds or removes at most the one id it names, and the counter goes
up only with an id added.

**Programs.** For a recurring row: what is booked is due, what was withdrawn
does not exceed what is due, a row that ended is complete and one cancelled is
exact. For a split: rows are well formed and every allocation is the floor of
its share or less. Two facts about products carry the checked arithmetic.
`ProgramsAreSolvent` has one lemma per call, that the balance moves by as much
as the debt of the one row that changes. For a split this needs that
`total_weight` and `total_released` are the sums of the roster (`SumsOK`), since
a withdrawal adds to one allocation and to the total in two assignments.
`SplitsHaveAWayOut` needs besides that shares rounded down add up to no more
than what they are shares of, so that no refund is negative.

**Stream API.** Every row fits together at every time (`RowFits`: no pause
without its time, no pause longer than the stream, nothing paid beyond what has
vested), and each route changes a row in one of a few ways (`RowMove`) that keep
it so. What carries this across an await is the lock discipline (`LockOK`): who
holds a lock is first in its queue, and a request that awaits the settlement
client or Horizon holds the lock of its stream, so the row it has in hand is
the row in the store when it writes it back. `AppliedOK` ties keys to history:
a token that has changed a stream has its response stored, or was of a
cancellation whose handler failed afterwards, and then the stream stays
cancelled. Each action
is shown to be a `Stretch` of one request: it moves only rows whose lock that
request holds, counts at most one effect, and leaves the others their places.
`NobodyWaitsInACircle` is the safety part of `EveryRequestAnswered`: while a
request is unanswered, one of them heads the lock it awaits, or has only a
service or its own store to wait for. `LinesOK`, its strengthening, says that
whoever stands in a queue awaits that lock, or heads the queue and holds it,
that nobody stands in one twice, and that what a request holds comes before all
it has yet to ask for. The head of the greatest lock that is awaited can
therefore wait for no other. TLC found both formulas to hold of the `stream_api`
instance before they were proved, and both to fail once locks are taken in the
order of the request.

**Finality.** A row is withdrawn only through an evaluation that saw its
transaction and a ledger deep enough above it; ledgers only close. The scan's
cursor has nothing below it that was there when polling began: the
strengthening follows the page in hand, its cursor and how much was skipped.

**Creation.** `WorkersHold` is the heart: whoever creates under a key of
`/streams` is first in its queue and found no record. For imports the record of
a row is written in the stretch that creates its stream, so a second handler
finds it; a reservation carries the request that holds it.

**Live events.** A subscription that is open has been called with what was
published last, since publishing calls each listener before it returns.
Closing, whichever of the four ways, takes listener and timers with it.

**Indexer.** An event behind the cursor is processed, or in the batch of a
loop that has it still ahead, or dropped. A backfill that succeeds has gone
through every event of its range.

**Webhooks.** `HookInv` says that records fit the outbox; that the entry which
is processing, the delivery which runs for it, and `current` name each other or
there is none of them (`ClaimsAgree`); and that what the drain has yet to
process is pending. A turn of the worker passes through states in which this
does not hold: an entry is claimed before its delivery exists, and concluded
after it is over. So `Working` describes the state in the middle of a turn, and
`Attempt` and `Conclude`, the two ways a turn goes on, are each shown to lead
from there back to `HookInv`. The refinement is by turns: each one maps to one
step of `WebhookPromise` (an event enqueued, arrived, delivered, parked) or to a
stutter. For the two step properties, whatever starts an attempt does so in a
state in which neither the operator nor the breaker forbids it (`Allowed`).

The model keeps the snapshot that `drainOutbox` iterates over as the set of what
is left of it, the oldest first to be processed: the outbox numbers its entries
in order of insertion.

**Retry queue.** Each entry lives within an account: its runs are at most its
attempts and what requeues and reloads add. An entry that runs has an attempt
left, and a dead one has none. A refused failure changes no entry. The disk holds the queue as of the last
successful save, entry by entry (`Agrees`), which is what a reload returns.
The time of the next retry stays untyped: the backoff is a power of two, which
the provers do not know to be a number, and no property needs it.

**Account fetches.** The operators of the model work on a record of the
coordinator's state. `Good` of that record says that whoever awaits a call
awaits it for the account it was made for, that a shared call exists, and that
what the hook shows was fetched in the stay that lasts. One lemma for each
operator shows that `Good` survives it, among them that a switch of account
leads away from the account the hook is on; actions are compositions of these.

**Only model-checked.** Liveness under fairness (`EveryRequestAnswered`,
`EveryEventSettles`, `EveryEntrySettles`, `EventsIndexed`, `ConnectionsEnd`,
`ReservationsEnd`, `LoadingEnds`) and ENABLED are beyond the prover and stay
with TLC. So does `WrappedOnce`, which is false. Every other property of a
run is a theorem. Induction over data is out of reach where it needs the
library's rules; the sums and the greatest of finitely many locks are the two
places that did without them.

## 6. Where the code and its documents disagree

`withdraw_twice` is a run with a `findings` entry: the first response is stored
after the stream lock is released, and the key is looked up only before the
lock is taken. The others are stated as properties next to their model, with a
comment that TLC refutes them, and are not kept as runs:

| Property | Module | What happens |
|---|---|---|
| `RefundWithinEscrow` (docs/invariants.md:9) | `MCStreamContract` | withdraw, amend to a later end so that less has vested than was withdrawn, cancel: the sender is refunded `total - vested`, another stream's deposit pays |
| `SettledMeansOnChain` | `MCStreamApi` | the row is written as ended before the settlement client is asked, and stays so when it fails |
| `ResumeEarnsNothing` (docs/STATE_MACHINE.md) | `MCStreamApi` | batches and groups forget the pause when they resume |
| `BatchOnce` (comment at batch/route.ts:100) | `StreamCreation` | `/batch`, `/multi` and v2 look the key up, await, then create: two requests under one key both do |
| `DeadLettersFound` (docs/webhook-delivery.md) | `MCWebhookDelivery` | an event that meets an open breaker on its first attempt has no attempt to its name, and `moveToDLQ` ignores it |
| `PendingResolves` | `WithdrawFinality` | the saved cursor is at the oldest page, so a transaction that lands after the first poll is never seen |
| `AbandonedIsReleased` (docs/SSE-HEARTBEATS.md:17, :33) | `LiveEvents` | only `/streams/events` uses `createSseConnection`; `/streams/:id/events` pings without a limit, so a client that vanished is kept for ever |
| `AtRestAnnounced` (docs/SSE-HEARTBEATS.md:74) | `LiveEvents` | a settlement that failed leaves the row ended and unannounced, group actions never announce, and an edit of a label writes the row it read earlier back |
| `NothingIsStuck` (docs/soroban-retry-queue.md:42) | `SorobanRetryQueue` | the processor of the same document (:135) and of the file header hands `markFailed` whatever it has caught; an error that is no `SorobanError` is refused (`sorobanRetryQueue.ts:837`, pinned by its test at :484) and the entry stays processing, though its caller has gone, until the page is loaded |
| `IdenticalRequestsShare` | `AccountFetch` | the clean-up of an old request removes the newer entry for its key |

Other disagreements met while modelling:

* contract: `create_stream` never increments the sender counter (`lib.rs:824`
  against `:496`), so the limit binds only drafts; the comment at `lib.rs:1539`
  says an amendment never takes back vested money, and an extension does;
  `README.md:108` says both withdrawals charge the stream's rate to the
  collector, and `withdraw_with_max_fee_bps` charges the contract's rate to the
  admin (`lib.rs:696`); `admin.rs` says a nonce is spent even on failure, and
  the host rolls it back; a split whose `total * elapsed` passes i128 can
  never again be withdrawn or cancelled; the top-up of a cancelled recurring
  stream carries no fee; an account listed twice in a split gets its
  second share only by cancellation;
* finality: the code gives up after 10 attempts or 5 minutes, the documents say
  5 and 90 seconds; `REORG_DETECTED` cannot be reached; the id sent to Horizon
  is the stream's; any confirmed withdrawal, a partial one too, makes the
  stream withdrawn; `failed` is not final;
* API: `cancel/route.ts:316` reads a field that does not exist and answers 500
  for a stream with a webhook after it has been cancelled; the token of
  `/streams` is not scoped by caller; v2 looks the key up before it reads the
  body and keeps no fingerprint; quota is charged for requests that fail
  afterwards;
* indexer: with a `fetchEvents` that answers the asked ledger only, an empty
  ledger or one whose events are all duplicates stops the loop for ever, since
  the cursor is saved only for new events; `lagLedgers` is a constant, so
  `syncing` is never reported; the breaker does not halt the loop;
* fetches: a time-out that ends as "switched", and a refetch after the hook has
  aborted, leave `isLoading` true for ever; `LoadingEnds` excepts requests that
  were cut off.

Hazards not listed in `PROJECT.json` for room: `allowlist.rs:55` (three keys per
entry) and `admin.rs:224` (the pause switch), both proved; `batch/start/route.ts:86`
(the key of a batch is not looked up again under the locks);
`webhook-delivery-store.ts:132` (see `DeadLettersFound`);
`sorobanRetryQueue.ts:540` (two tabs share localStorage and not their memory);
`org-policy.ts:390` (an expired approval blocks a new one until someone looks).

## 7. Plan

Sections 2 to 5 are done. What would come next, in this order:

1. The settlement client that is asked after the row says ended, and POST and
   DELETE on one stream against a settlement in flight, once the bodies they
   accept are bounded by something.
2. Two tabs over one localStorage.

Runs are kept to one per distinct question. A later module that asks a new
question of the same component joins its run.

## 8. What is not modelled

* Token contracts, Horizon, the settlement client, customers' endpoints,
  localStorage and clocks are external: only what the code relies on is there.
* Contract: storage time-to-live, events, `last_update` and metering, which no
  branch reads; views and snapshots, which write nothing. Code upgrade: what
  new code does is another contract. Version handshake: `lib.rs` re-exports its
  views and calls none of its steps. `sweep_fees`: nothing accrues the fees it
  sweeps.
* API: authorisation, rate limits, caching, history and audit, which change
  nothing that a modelled guard reads; parsing and validation beyond success or
  failure; the Postgres store, which has no `withLock`. POST on one stream
  writes any body over the row, status included, without the lock, and DELETE
  removes a row without it: the properties of `StreamApi` hold of a backend in
  which these are not called while requests are served.
* Organisations: a vote is one synchronous step on one record, an approval
  executes nothing although ADR-001 says it does, and the routes answer 409
  whenever more than one approval is required: there is nothing to interleave.
* Authentication and wallet link: a challenge is issued or used up in one
  synchronous step; the rest is cryptography.
* Audit log and archive: appends and purges of one array by one process.
* The second outbox (`lib/outbox.ts`): no route uses it. Webhook endpoints and
  secrets: each operation is one statement of a store.
* Fee bumps: no evaluation yields the failure that asks for one. Reconciliation
  compares two snapshots. Job queue: mock classes that log and drop.
* A restart of the Node process, which empties every in-memory store.
* Rendering, calendars, logging, metrics, key management, the Temporal spike
  and the scripts.
