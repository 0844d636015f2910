# Verification of perps-stats

TLA+ models of the stateful core of perps-stats: the local reconstruction of
order books and the manager of the WebSocket sessions, the adapters that keep a
book themselves, the REST clients with limiter, retry and symbol cache, the
commands that collect (`start`, `stream`, `backfill`, `import`) and the
partitioned tables they write to. TLC checks the models on small instances; all
their safety properties are also proved with TLAPS, for every value of the
constants. `PROJECT.json` has the source lines of every
definition, and for every property a plausible slip of the code that breaks it.

Paths are relative to the repository. `OM` is
`crates/perps-core/src/orderbook_manager.rs`, `WS` is
`crates/perps-core/src/ws_orderbook_manager.rs`.

## 1. The system

perps-stats collects market data of perpetual futures from 21 exchanges,
reconstructs order books, and stores and reports what it finds.

| Part | State | Operations | Hard behaviour | Correct when |
|---|---|---|---|---|
| Local orderbook (`OM`) | bids, asks, `last_update_id`, ring buffer, `crossed`, `bootstrap_pending` | `apply_delta` (Rules 1-4), `apply_snapshot` with replay, (re)initialisation | updates and snapshots of two channels in any order; a ring buffer that overflows; the seam between them | the book is the exchange's at `last_update_id`, or an error was raised |
| WebSocket manager: a symbol (`WS`) | generation, connected, ready, cached book | `run_session`, `Shared::reset`, `get_multi`, `get_orderbook` (REST refill) | a REST answer after a reset or an update; reconnects; Rule 4 errors | readers see nothing or the exchange's book, never going back under a connection; no Rule 4 error in the middle of a sound stream |
| WebSocket manager: driver and shards (`WS`) | `known`, `pending`, deadline, shards, handles | `subscribe`, `prewarm`, `assign`, `run_shard`, `Drop` | restart while the old session runs; debounce against prewarm; drop in the middle | each symbol in one shard, one session at a time, none orphaned, all connected in the end |
| WebSocket manager: readers (`WS`) | refill mutex, `Notify` | `get_orderbook`, `wait_for_orderbook` | thundering herd, lost wakeup | misses share a refill, nobody is stuck |
| Adapters that keep the book (`crates/perps-exchanges/src/<venue>/ws_client.rs`) | a book per symbol and connection | seed, apply a frame, detect a gap | lost frames, reconnects | venues that detect gaps serve the exchange's book; the others err only on what they missed |
| Rate limiter (`rate_limiter.rs`), retry (`retry.rs`), symbol caches (`cache.rs`) | request times per limit; attempt; a once-filled set | `execute`, `execute_with_retry`, `get_or_init` | callers that overlap; a limiter inside a retry | limits, delays and the first answer hold |
| Partitions (`partitions.rs`) | tables and their rows | create a partition, moving rows out of the default one; drop | writers and creators between two statements; deadlock | no row lost or stored twice |
| Stream and import commands (`stream.rs`, `import.rs`) | batches | collect, flush, stop | a failed store; shutdown looked at only when quiet | rows accounted for, the command stops |
| Backfill command (`backfill.rs`) | discovery cache, chunk position, buffer | find the earliest kline, fetch in chunks, resume | failed chunks, crashes, runs that carry on from each other | holes only where known; stored again only at seams, or by a run that could not read where to resume |
| Collection service (`start.rs`) | report cycles, klines tasks, repository mutex, shutdown flag | fetch with permits, store, stop | partial failure, missed ticks, shutdown in the middle | answers are stored under their cycle, every task stops |
| Repository (`repository.rs`) | the database | one transaction for each store | conflict targets without a constraint | see the users above |
| Periodic commands (`run.rs`, `ticker.rs`, `liquidity.rs`) | lists in memory | fetch, append, rewrite files or store | a failed store or write | not modelled |
| Aggregator, reports, HTTP API, Parquet | none of their own | arithmetic, queries, formatting | none | per-call results |

How they interact. A reader's first `get_orderbook` subscribes the symbol: a
command goes through a channel to the driver task, which collects commands for a
debounce interval, places symbols into shards of limited size and (re)starts a
session task for each changed shard. A session marks its symbols connected and
feeds each update to the local orderbook (managers with deltas) or stores the
whole book an adapter yields (without); an error ends the session, which resets
its symbols and reconnects. A reader that misses takes the symbol's refill
mutex, fetches a snapshot over REST while updates pile up in the ring buffer, and
applies it with a replay, unless the connection has changed under it. `start`
asks all clients for books and tickers in cycles and stores the answers through
one repository behind a mutex; `stream`, `import` and `backfill` are processes of
their own that store batches. All of them write to tables whose partitions are
created at the start of a service, at an import, or by hand, while the others run.

## 2. Modules

| Module | Models | State and actions in terms of the code |
|---|---|---|
| `ExchangeFeed` | what an exchange sends (external) | `history` and `cuts`: the changes of a book by id, and the ids at which an update ends, chosen once. `Update(c, pid)` is a `DepthUpdate`, `TruthAt(s)` the exchange's book and its REST snapshot at id `s`. Idle ids stand for sequences shared with other symbols. |
| `LocalOrderbook` | `OM`: `LocalOrderbook` | One variable per field of `OrderbookData`. `ApplyDelta(e)` is `Buffered` (Rules 2, 3), `Rejected` (Rule 4) or `Applied`, each with Rule 1; `ApplySnapshot` is the whole of `apply_snapshot`. Both hold the locks throughout, so each is one action. Any update of the feed may arrive at any time, any number of times. |
| `OrderbookCache` | what readers are promised | Abstract: `Show`, `Hide`, `Disconnect` over `shown`, `connection`, `floor`. |
| `DeltaSession` | `WS`: one symbol of a manager with deltas | Composes `LocalOrderbook`'s actions with `session` (where `run_shard` is), `state` (`SymbolState`) and `refill` (the `get_orderbook` that holds the mutex, with what it captured before its await). `overrun` is history: the ring had forgotten updates that the snapshot it served did not have. Implements `OrderbookCache`. |
| `VenueStreams` | adapters without deltas: lighter, risex, edgex, o1, gravity | `local` is the adapter's book, `state` the manager's; the venues differ in `Accepts`, in the seed and in whole-book frames. Any frame may be lost, the whole book a connection begins with too (`LoseFirst`, `headless`): lighter then takes its first changes for the book, edgex makes them to an empty one, risex ignores them. arcus, bitget, standx and hyperliquid behave like gravity. Implements `OrderbookCache` on the venues that detect gaps. |
| `ShardDriver` | `WS`: driver, `assign`, session tasks, `Drop` | `driver` is the point the task is at. The synchronous part of `assign` goes symbol by symbol; `Abort` and `Restart` are separated by the await of the aborted task, which may still act. |
| `OrderbookReaders` | `WS`: concurrent `get_orderbook` and `wait_for_orderbook` | A step per await: mutex, re-checks, capture, fetch, settle. The book is none, visible or hidden (stale or crossed); a whole book, from either kind of stream, makes the symbol ready. Waiters follow `Notified::enable`, look, await. |
| `RateLimiter` | `rate_limiter.rs`: `execute` | `Calculate` is `calculate_wait_time` under the lock; the sleep is the gap to `Record`, which takes the lock again. |
| `RestClient` | a venue's `get`: retry around the limiter, filling `SymbolsCache` | Extends `RateLimiter`; a call misses, enters the limiter, sends, and succeeds, backs off or fails. |
| `PartitionedTable` | `partitions.rs` against PostgreSQL | Every statement of `create_partition_for_date` is a step with its own snapshot (READ COMMITTED); locks are held to the end of the transaction; IF NOT EXISTS looks for the partition before it waits for the parent's lock, so that a creator overtaken while it waits fails; a cycle of waits is broken by aborting a member; a writer inserts row by row and commits. |
| `StreamIngest` | `stream.rs`; an import worker likewise | Extends `PartitionedTable`: its writers are stream commands with buffer, flush, stop and end. An import stores a batch exchange by exchange: the model is an import of one exchange's rows. |
| `Backfill` | `backfill.rs`: one exchange's task | Runs with discovery, klines, funding rates and trades; a run fails, crashes, and the next carries on from what is stored, or starts over if the query for it fails (`_ => start_date`, 1228 and 1452; `restarts` counts these). A discovery cache that cannot be read is taken for an empty one. Rates and trades share their loop (`Series`) and differ in what an exchange returns. |
| `CollectionService` | `start.rs` | `cycle` is a report task with its permits and answers, `kline` a klines task, `queue` the repository's mutex. |
| `ExchangeFeedProofs`, `OrderbookProofs` | | theorems about `ExchangeFeed`, `LocalOrderbook`, `DeltaSession` |
| `ManagerProofs` | | theorems about `ShardDriver` and `OrderbookReaders`, which share no name |
| `VenueStreamsProofs`, `RestClientProofs`, `StreamIngestProofs`, `CollectionServiceProofs`, `BackfillProofs` | | theorems about the module they are named after |
| `MC*` | | initial histories, lists and limits for TLC |

Composition: `DeltaSession` extends `LocalOrderbook`, which extends
`ExchangeFeed`; `VenueStreams` and `OrderbookCache` extend `ExchangeFeed` too.
`RestClient` extends `RateLimiter`, `StreamIngest` extends `PartitionedTable`.
`ShardDriver` and `OrderbookReaders` share `SymbolState` with `DeltaSession`, and
each abstracts what the others have in detail.

Refinement. `Cache == INSTANCE OrderbookCache WITH ...` in `DeltaSession` maps
what `get_multi` hands out to `shown`, the generation to `connection`, and the
cached id, or the id at which the connection was subscribed, to `floor`; the runs
check `Cache!CacheSpec` as a property. `VenueStreams` does the same with
the adapter's book and no reconstruction at all.

A definition that stands right before another with the same parameters, is used
nowhere, and is named after what went wrong (`NeverStale`, `OldTaskAborted`,
`StopAtError`, ...) is a slip the code could have made. In the place of its
neighbour it breaks the property it is listed with in `PROJECT.json`.

Abstractions to know about. Timers (debounce, staleness, buffer delay, 100 ms
polls) may fire whenever they are armed. In `CollectionService` an answer stands
for all the rows made from it, in each table but those in `Gaps`: a book whose
depth cannot be computed gives no depth row, one too thin for every size no
slippage row. In `Backfill` one symbol and one interval stand for all, and time does
not pass during a run, which asks for nothing after its start. A venue's checksum
is taken to tell all books apart. The data types of `stream` have a buffer and a
table each and do not interact: one is modelled.

## 3. Runs

Twelve runs. `Prices`, `MaxQty`, `MaxId` bound the exchange; `MaxFailures`,
`MaxFaults`, `MaxCalls`, `MaxReads`, `MaxEvents`, `MaxRuns`, `MaxStoreErrors` and
`MaxTime` what is repeated or goes wrong.

| Run | Shows | Bounds, and why they are enough |
|---|---|---|
| `LocalOrderbook` | Under any order, loss, repetition and delay, a book that skipped no change in silence is the exchange's (`Synced`); the Rule 4 exemption is armed only at the seam; a flagged two-sided book has lost a change; deltas never go back | every uncrossed history of three ids over two prices, cut in every way, previous ids filled and zero; a buffer of two overflows |
| `DeltaSession` | On a lossless feed with reconnects and a racing refill, what is served is true and the promise of `OrderbookCache` is kept, but for a book whose ring was outrun (`overrun`); Rule 4 ends a session at the seam only | four ids on two levels (a quantity tells its id), so that an update comes before, during and after the fetch and one is left to show a gap; a ring of two, which overflows with and without harm; one failure |
| `LossySession` | With lost updates, whole-book frames and a lagging REST, gaps in live updates are errors | three ids, any number of losses, lag of one, one failure besides Rule 4 errors, which are not bounded |
| `ShardDriver` | Placement, one session per symbol, nothing published by an old session, prewarm acknowledged when assigned, no orphans, every asked symbol connected for good | three symbols, connections of two: one full and one open shard; three calls after an initial list |
| `OrderbookReaders` | Refills are shared, no wakeup is lost, every reader returns, every waiter is served by a lasting book | three readers (a holder and two queued), one waiter (they do not interact), four misses, two spoiling events, with and without deltas |
| `RestClient` | Calls in turn respect every limit, nobody waits too long, retries keep their doubling delays through the limiter, a filled symbol cache never changes | two callers, a short window inside a longer one, time for the longer to pass; two retries, two listings |
| `VenueStreams` | Venues that detect gaps keep the promise of `OrderbookCache` whatever is lost (for lighter, any frame but a connection's first); on all five a wrong level is one whose change was missed; a nonce or checksum that does not fit is never a false alarm | four ids on two levels, any number of losses, first frames included, one dropped connection |
| `StreamIngest` | Each row is buffered, stored, or lost in one of the three known ways; none twice; creators return in spite of deadlocks; the stream stops once quiet | a full batch and a rest across midnight, two creators of the same two days, two faults (drop or lost connection), one store error |
| `Backfill` | A completed run has only known holes, rows are stored again only at chunk seams and by runs that could not read where to resume, discovery is late by less than a window, runs end | three runs, two faults, three search windows, rates more and less frequent than a resume assumes, answers at their limit, batches that span chunks |
| `CollectionService` | Answers are stored under their cycle unless that table's INSERT failed; a timestamp is shared only by late cycles; every task stops after Ctrl+C | two exchanges with different symbols, one permit, one klines task, two ticks, one fault, a book without a depth row and one without a slippage row; the three tables of the liquidity report queue with the other tasks |
| `SeamHidesGap`, `EvacuationKeepsRows` | refute what a comment says, see section 6 | smallest bounds with a counterexample |

Deadlock is not checked where the system may stop: a dropped manager with its
tasks cancelled, a service shut down, a stream at its end, no runs left, a clock
at its bound.

No readiness of a single symbol is claimed for `DeltaSession` and `VenueStreams`,
which state safety only: whether a snapshot meets the stream at an update's end, or
a venue's next connection loses a frame again, is a matter of timing that no
fairness decides, and the code restarts for as long as it goes wrong. What is
claimed is that nothing else makes it restart (`RestartsOnlyAtSeam`,
`OnlyLossesRestart`).

Fairness:

- `ShardDriver`: the driver runs; each session's attempt to connect, its reset
  and its cancellation happen. Nothing forces calls, failures or the drop.
- `OrderbookReaders`: each reader takes its own steps, the mutex is handed on in
  order (`tokio::sync::Mutex` is FIFO), a REST call ends. `wait_timeout` is not
  needed: no fairness for `GiveUp`.
- `StreamIngest`: executable statements are executed, the loop runs. Nothing
  forces the stream's end: `StopsOnceQuiet` rests on a feed that pauses.
- `Backfill`: a run's steps happen.
- `CollectionService`: ready tasks run, requests and queries return. A klines
  task between ticks sees the shutdown if it is there again and again (strong
  fairness: the 100 ms branch of its `select!` is taken infinitely often, though
  ticks come in between).

The REST clients set no timeout of their own. That a request ends is an
assumption about the exchanges on which `EveryReadReturns` and `EveryTaskStops`
rest: one that never ends holds a cycle for every exchange, and the shutdown.

## 4. Proofs

TLAPS proves every invariant and every safety property of steps that a passing
run checks (36 listed theorems in seven modules; `ExchangeFeedProofs` has lemmas
only), for every value of the constants that meets the assumptions of the model:
any number of symbols, callers, readers, writers, creators, exchanges, runs and
faults, and any bounds. The inductive invariants were model-checked first. The
theorems of a module rest on one invariant or a few, built up in turn.

**`ExchangeFeedProofs`**: what a cut, an update and the exchange's book at an id
are; a level nobody touched between two ids is the same at both.

**`OrderbookProofs`**, about `LocalOrderbook` (any order, loss, repetition and
delay of updates):

- `TypeCorrect`: `TypeOK`. Inductive; the buffer's bound comes from Rule 1.
- `BookIsSynced`: `Synced`. Two lemmas carry it. `AppliedSyncs`: an update that
  skips nothing and is not stale takes the true book at `last_update_id` to the
  true book at its final id, because the levels it mentions are all that changed
  since the previous cut, with absolute quantities. `ReplaySyncs`: a level after a
  replay is what the last replayed update to mention it says; if the replayed
  updates go forward and cover every id up to the last, no later change of that
  level is missing. The history variable `tainted` says that a change was skipped
  and no error raised; without it the statement would be false (section 6).
- `LiveGapsDetected`: with previous ids filled and no seam exemption, only a
  snapshot's replay can skip a change in silence.
- `DeltasGoForward`, `ExemptionArmedAtSeam`: Rule 3; where the exemption is armed.
- `FlagTellsOfALoss`: `FlaggedBookLostAChange`, from `Synced`, as the exchange's
  own book is never crossed, and the flag is the present book's (`FlagIsOfTheBook`).

and about `DeltaSession`:

- `SessionDrivesTheBook`: `DeltaSpec => Spec`. Sessions, resets and refills do to
  the reconstruction what `LocalOrderbook` allows, so the theorems above hold of
  it; `LiveGapsEndTheSession` follows for any frames and losses.
- `CacheFollows`: the cached book is the reconstruction's own and none is cached
  without a connection, without any condition on the feed.
- `ServedBook`, `CachePromiseKept`: what readers see is the exchange's book, and
  the whole implements `OrderbookCache`. Their condition `OrderlyFeed`: the
  exchange sends changes that name their predecessor, nothing is lost, the REST
  book is not behind the stream when it is fetched, and there is no seam
  exemption (every delta venue but Nado; section 6 has what the exemption does).
  The ring may have any size. The invariant `Synchronous` says what a refill may
  rely on between its awaits: a generation tells connections apart, a snapshot that
  will be used lies within what the ring buffer has, and replaying takes the book
  no further back than it was. `Contiguous` says that the ring has no holes.
- A ring (`update_buffer_size`, 100 to 100000 places) may forget, while a snapshot
  is on its way, an update that the snapshot does not have; the book is then served
  with a hole, until the next reset or snapshot. Both theorems except exactly these
  books: `overrun` is set when a snapshot is used after more updates than the ring
  has places were delivered that it does not have. `RingForgetsLate` is the
  invariant: a full ring reaches back to each id, or was outrun since.
- `NoRestartMidstream`: `RestartsOnlyAtSeam`. By `AtTheLastCut`, a book that has come
  to where an update ended is at the last update delivered, and the next one names
  that as its predecessor.

**`VenueStreamsProofs`**: `OnlyMissedDiffers`, on every venue and for any losses
(levels not missed are the exchange's and have not changed in what was delivered or
lost since), and `VenuesKeepCachePromise`: where a gap is detected (lighter, unless
its first frame is lost), or books come whole, the adapter's book is `TruthAt` of its
id, and the whole implements `OrderbookCache`. `InStep` orders the ids of a
connection. `RestartsHaveACause`: a lighter book behind what was delivered has missed
a change (`BehindOnlyByLosses`), and a book that the checksum does not match differs
on a level that was missed.

**`ManagerProofs`**, about `ShardDriver`:

- `DriverTypeCorrect`, with `DriverInOrder`: what an assignment has still to do.
- `ShardsPartition`: `Partitioned`, element by element, so that `Place` disturbs
  one shard.
- `OneSession`: a live session is its shard's (`LiveIsCurrent`), and streams
  symbols of its shard only, all of them unless a restart is due
  (`SessionsCover`). Two live sessions of one symbol would be two shards with it.
- `OldSessionsNeverPublish`: what is on show for a symbol was published by its
  shard's present session (`ShownByCurrent`), because `Restart` awaits the old
  task, whose reset is its last act.
- `PrewarmAssigns`, `DropLeavesNoSession`: from the same facts.

and about `OrderbookReaders`, from one inductive invariant `IInv`:

- `WakeupsAreNotLost`: the step that makes a book visible completes every enabled
  `Notified`; a waiter enables its own before it looks. That a connection coming
  up shows no old book (`VisibleWhileConnected`) closes the remaining case.
- `RefillsAreShared`: `HeadWorks` says that only the head of the mutex' queue is
  past it. `Covered` counts: wherever a reader may still come to fetch, or what was
  fetched is of no use, every fetch so far has a spoiling event of its own. The
  count alone is not inductive: a reader about to fetch adds to it without an
  event, which is allowed because it saw no book and nobody else was fetching.

**`RestClientProofs`**, for any list of limits:

- `LimiterInvariant`, with `LimitsRespectedInTurn` and `WaitIsMinimal`. Each
  history is the end of the sequence of all requests (`HistoryIsTail`): what was
  dropped from it had left its window and never counts again. A caller that is
  alone has room in every limit at its deadline (`ReadyInTurn`); time only makes
  room.
- `ClientImplementsLimiter`: `RestSpec => Spec`, which takes those two properties
  to the client (`LimitsHoldInTurn`, `NoNeedlessWait`).
- `RetriesAreDelayed`: by `LateEnough`, what a call has waited is at least the sum
  of its delays up to the attempt it is at, a power of two.
- `SymbolsAreSetOnce`.

**`StreamIngestProofs`**, over `PartitionedTable` and its writers:

- `NoRowStoredTwice`. `TableInv` says of each creator, at each of its statements,
  what its temporary copy and its locks guarantee (`RecordOK`): a row it is about to
  insert into its partition is out of the default one, and nobody else moves rows
  of that day. With `NotStoredYet`, a row still in a feed or a buffer is nowhere in
  the table.
- `RowsAreAccounted`: `Settled`, every event that is through is in the table or in
  one of the three records of losses.
- Assumed: `EachRowOnce`, an event is one row. Rows have no identity beyond that;
  two trades with equal fields are two rows.

**`CollectionServiceProofs`**:

- `CyclesStoreTheirAnswers`: `CycleOK`, table by table: counted as stored means
  failed or in the database; no step takes rows away.
- `PunctualCyclesAreApart`: the rows of a report that was never late are of
  seconds before the next tick's (`PunctualOK`), as intervals are whole seconds.
- Assumed: a task's symbols are a sequence, an interval is a whole number of
  seconds (`--report-interval` is in seconds).

**`BackfillProofs`**:

- `DiscoveryIsWithinAWindow`: `Searched`, unless a request failed no window before
  the next one has a kline older than what was found. A window that has none, after
  one that had some, shows that no later window has any: the symbol was not yet
  listed when it ended.
- `HolesAreKnown`: `StoredInOrder` and `PassedIsKept`. Of what is older than a row
  stored, nothing is missing unnoticed, across runs; that is what entitles a run to
  resume after the latest row. What a run has passed and is neither stored nor
  known to be missing is in its buffer.
- `RowsCopiedOnlyByRestarts`: `CopiesOnlyByRestarts`, from `RowsUpToRun`. A pass is
  the first run or one that started over. Rows stored and buffered together are at
  most two for each pass at each time up to where the run is, the last pass adds at
  most one exactly there and only at a chunk's end, and none beyond.
- Assumed: the discovery windows grow by more than what a probe covers (7 days;
  the code's grow by 60 and more), times and lengths are natural numbers, and a
  run asks for data types that exist.

Recursion is written as recursive functions or in closed form (the replay loop: the
last mention of a level wins), so that it can be proved about.

Only model-checked: the liveness properties (`EventuallyConnected`, `EveryReadReturns`, `EveryWaiterIsServed`,
`EveryCreatorReturns`, `StopsOnceQuiet`, `EveryRunEnds`, `EveryTaskStops`), which
rest on fairness and `ENABLED`, out of the prover's reach; and the two
refutations of section 6, which are counterexamples.

## 5. Hazards

`PROJECT.json` lists them at their lines. The ones that shaped the models:

- state read before an await and used after it: the refill's generation and
  connected flag, the limiter's room, the aborted session that still runs, the
  rows copied before they are deleted;
- results out of order: REST snapshots against the stream, a replay of updates
  already applied, redelivered updates, frames missing on venues with and without
  a nonce or checksum;
- partial failure: a batch whose store fails, one table of three, a chunk
  skipped, a creator of partitions aborted, a run killed between two stores;
- things that must happen: every symbol connected, waiters woken, creators and
  runs that end, every task stopped by Ctrl+C.

Five have no property, with the reason in their note: a stream too busy to notice
its shutdown, a discovery cut short by one bad answer, o1's channel limit,
Extended's mixed ids, and the periodic commands' output.

## 6. Where code and comments disagree

Refuted by a run each:

1. `SeamHidesGap`: `OM` 406-409 calls the exempted Rule 4 mismatch "a false
   positive, not a real gap". Rule 3 may just have discarded the update that
   straddles the snapshot; the exemption then lets the next one through over the
   hole.
2. `EvacuationKeepsRows`: `partitions.rs` 34 calls creating partitions "Safe to
   call concurrently". A row committed to the default partition between the copy
   and the DELETE is deleted without having been copied.

Seen while modelling, without a run:

- `OM` 383 says that both ids of an update "must be > lastUpdateId"; the code drops
  it on `<` only. After a snapshot ahead of the stream an update whose ids equal the
  snapshot's goes on to Rule 4, which finds another predecessor and ends a session
  that missed nothing.
- Klines are never stored. `repository.rs` 656 names the conflict target
  (exchange_id, symbol, interval, open_time); the only unique constraint of the
  table (`migrations/00_initial_schema.sql` 172) has `ts` as well, so PostgreSQL
  refuses the statement. `Backfill` and `CollectionService` model the refusal.
- `backfill.rs` 690-702: `backfill_klines(...).await?` leaves the whole exchange's
  task, though 746 says "Continue to next data type instead of failing the entire
  exchange task".
- `backfill.rs` 478 sets `start_date` as "Placeholder, will be overridden"; rates
  and trades really start there, not at what was discovered. Trades ask for the
  most recent 1000 in every hourly chunk and filter.
- `docs/architecture.md` 236 calls writes idempotent by ON CONFLICT DO NOTHING;
  funding_rates, trades and tickers have no unique constraint.
- `OM` 178 and 226 say the first replayed update should straddle the snapshot; the
  code only logs whether it does. After the ring buffer overflowed during a fetch
  the replay starts after a hole, without an error.
- `OM` 56 and 733 define crossed as best bid >= best ask. Line 638 compares
  `Option`s, and `None` is less than every `Some`: a book that lost all its asks is
  flagged crossed, and hidden. With equal best prices the quantities decide.
- `rate_limiter.rs` 306 promises to respect all limits; callers that overlap see
  the same room (336-350) and exceed them. `LimitsRespectedInTurn` says what holds.
- `rate_limiter.rs` 409 calls `total_requests` all-time though it counts the
  cleaned history; the lighter preset's test (595) expects another number than
  the code (165).
- The o1 seed comment calls a first mismatch expected and harmless: changes
  between the REST snapshot and the connection are never delivered and their
  levels stay wrong until they change again (`OnlyMissedLevelsDiffer`).
- o1 refuses more than 12 channels on a connection; the manager puts up to 20
  symbols on one.
- `start.rs` 1599: `create_partitions(...)?` ends the start of the service when
  PostgreSQL picks its transaction as a deadlock's victim.
- A failed klines task is noticed only at the shutdown, by `join_all`.

## 7. Not modelled

- Conversion of each venue's messages and REST answers, the largest part of the
  repository (over half of its lines): one client per exchange that maps JSON to
  the common types, without state beyond what `VenueStreams` and `RestClient` have.
- Reports, charts, statistics, market lists, the HTTP API and Parquet: queries,
  arithmetic and formatting over data that is already there. This and the
  conversions are why the map covers a small share of the lines, though it has
  nearly every function whose state is shared or lasts.
- The periodic commands `run`, `ticker` and `liquidity`: one sequential loop each,
  which fetches every symbol, appends to lists in memory and rewrites its files or
  stores the snapshot; what can go wrong there is in the hazards.
- The aggregator: decimal arithmetic over one book.
- Incremental mode of the reconstruction (no exchange uses it), `from_snapshot` and
  the legacy `initialize_orderbook`; statistics and logs.
- Extended's REST snapshots, which a clock numbers while the stream has its own
  sequence: `LocalOrderbook` states everything in terms of one sequence.
- `--force-refetch`, import's workers for liquidity and slippage, the API server
  task of `start`, its streaming task (never spawned), `ensure_partition` (no command
  calls it).

## 8. Plan

Proved already: every invariant and action property of the runs, and three
refinements. What would say more:

- that the order of ids, not only the book, survives in `DeltaSession` when the
  feed loses updates (with `LiveGapsDetected`, a served book that is wrong would
  need a replay over a hole);
- how many updates a fetch may take for a ring of a given size, in terms of the
  venue's rate of updates, so that `overrun` cannot happen;
- for liveness, the safety half: that in each state a waiting process is in,
  some step of those it waits for is possible (no deadlock), for any constants.
