# HEDGE-ROD backend: TLA+ verification project

TLA+ models of the stateful parts of the HEDGE-ROD backend, the TLC runs that
check them on small instances, and proofs, checked by TLAPS, that hold for
every instance. File and line references are to the repository's sources
(`detection/storage.py:264`); in `PROJECT.json` they carry the prefix `src/`.

## 1. The system

A Python service that detects wash trading on the Stellar DEX. Its processes
share one SQLite file and nothing else:

| process | started by | what it does with the file |
|---|---|---|
| pipeline run | `cli.py score`, `run_pipeline.py` | saves scores, rings, correlations, feature vectors; queues webhook alerts; submits high scores on chain and writes the audit table |
| stream worker | `cli.py stream` | scores accounts trade by trade, saves and queues alerts |
| webhook worker | `cli.py webhook-worker` | polls the queue, POSTs, marks rows |
| API | `cli.py serve` | reads scores; registers and deactivates subscribers |
| operator tools | `cli.py db-migrate`, `train`, `retrain-check` | migrates the schema, writes model files |

Every storage operation begins with `init_db`, which runs `migrate_db`; so all
of these processes may migrate the file.

### Inventory

| component | state | operations | hard behaviour | what makes it correct |
|---|---|---|---|---|
| Webhook queue and worker (`detection/webhook_queue.py`, `webhook_worker.py`) | rows with status, attempt count, next attempt; per worker the event loop, its round, its tasks | enqueue, due query, POST, mark_delivered, mark_failed | tasks of a round interleave; rounds are abandoned when a task raises; crashes between POST and mark; several workers; timeouts after the subscriber took the POST | delivered means acknowledged; dead means tried eight times; settled is final; every alert settles; bounded parallelism |
| Webhook registry (`webhook_registry.py`) | subscribers, active flag | register, deactivate, lookup, match | deactivation after an alert was matched or queued | inactive subscribers get no POST |
| On-chain publisher (`soroban_publisher.py`) | failure timestamps; audit rows; the account's sequence number and transactions on the network | submit_batch, circuit check, retries | timed-out transactions execute later; audit writes fail; the window moves while a submission runs | failures per window bounded; 'submitted' rows are true; a score lands once unless a poll timed out |
| Schema migration (`storage.py`, `migrate_db`) | schema_version, schema_migrations, the schema itself | init_db | two processes at once; crashes inside a script; lock timeouts; manual repair | the version never claims more than the schema has; interruptions are visible; recovery works |
| Score store (`storage.py`) | scores, correlations, rings, routes, pools | save_*, get_latest_*, paged reads | rows with equal timestamps, empty runs, rows inserted between two pages, filter after paging, the same trades stored by every run | the latest view is the last run's; a walk through the pages reads the list |
| Stream worker (`streaming.py`) | buffers, latest scores, stop flag, source queue | publish, close, process_trade, run, stop | publish against close; stop while waiting; partial failure of a trade | no trade lost or scored twice; stop stops |
| Pipeline (`run_pipeline.py`) | none of its own | run, async_run | order of persistence, alerts, submission; flags dropped on one path | no submission with --no-submit; alerts for saved scores |
| Drift monitor, retraining (`drift_monitor.py`, `cli.py`) | snapshot table, promotion decision | record, prune, report, promote | pruning by timestamp | the row cap holds |
| Model files (`model_registry.py`, `model_training.py`, `model_inference.py`, `cli.py train`) | models, reference data set and metadata in one directory; versioned files and a pointer | train, save_models, load_models; save, load, list, roll back a version | files written in place, one after another; crash inside a write; several writers; reader between writes | models loaded together were trained together; the pointer's version loads |
| HTTP clients (`ingestion/`) | semaphore, retry counters, the page cursor | get_with_retry, AsyncHorizonClient.get, paging, gather | retries, refusals, one failure among many requests, trades added while pages are read | bounded concurrency, no trade lost or repeated, every load ends |
| Detection algorithms (`graph_engine.py`, `feature_engineering.py`, `amm_engine.py`, `cross_pair_engine.py`, `path_payment_engine.py`, `risk_score.py`) | none | trade graph, ring score, features, round trips, bursts, score combination | pool trades without a counterparty, self-trades, trades of one moment, the same question answered by two loops | ring scores tell cycles from one-way flow; a fraction is one; two loops agree |
| API (`api/main.py`) | the loaded models | lists, pool risk, registration | paging over a table that grows | see the score store |
| CLI, settings, SDK, synthetic data, evaluation | none or thin | wiring | - | - |

## 2. Modules

| module | models | state and actions |
|---|---|---|
| `AlertQueue` | the promise the README and `webhook_queue.py`'s docstring make of each alert | status, acknowledgement, failed tries; Submit, Receive, Confirm, Retry, GiveUp |
| `WebhookDelivery` | queue table, registry, worker processes | see 2.1 |
| `MCWebhookDelivery` | instances for TLC | owners of rows, symmetry |
| `WebhookDelivery_proofs` | theorems about `WebhookDelivery` | |
| `SorobanPublisher` | publisher, audit table, network | see 2.2 |
| `MCSorobanPublisher`, `SorobanPublisher_proofs` | instances; theorems | |
| `SchemaMigration` | `migrate_db` in several processes, the file | see 2.3 |
| `MCSchemaMigration`, `SchemaMigration_proofs` | instances; theorems | |
| `StreamWorker` | `streaming.py`: the in-memory source, the run loop, `process_trade` | see 2.4 |
| `MCStreamWorker`, `StreamWorker_proofs` | instances; theorems | |
| `ScoringRun` | `run`, `run(multi_pair=True)`, `async_run` in several processes, and the tables they write | see 2.5 |
| `MCScoringRun`, `ScoringRun_proofs` | instances; theorems | |
| `ModelFiles` | the model directory, its writers and its loaders | see 2.6 |
| `MCModelFiles`, `ModelFiles_proofs` | instances; theorems | |
| `HorizonClient` | the loading of one pair from Horizon | see 2.7 |
| `MCHorizonClient` | instances | |
| `ScoreReads` | a client that reads a list of the API page by page | see 2.8 |
| `MCScoreReads` | instances | |
| `Paging_proofs` | theorems about `HorizonClient` and `ScoreReads`, the two that read page by page | |
| `RiskScore` | `RiskScore.combine` | see 2.9 |
| `TradeGraph` | trades, the trade graph and the scores of its communities (extends `RiskScore`) | see 2.9 |
| `TradeFeatures` | features, bursts, pool round trips, stored pool trades (extends `TradeGraph`) | see 2.9 |
| `MCTradeFeatures`, `TradeFeatures_proofs` | instances; theorems about these three modules | |

### 2.1 WebhookDelivery

`status`, `attempts` and `nextAttempt` are columns of `webhook_delivery_queue`;
`subscriber` is the registry's active flag; `loop`, `round` and `tasks` are a
worker's `run_delivery_worker` coroutine, the round it awaits in `gather`, and
the `_deliver_one` tasks still alive. `posts`, `received` and `failures` are
history variables for the properties.

The unit of interleaving is what lies between two awaits of one event loop, cut
further at the database statements another process can interleave with:

- `Poll`: the loop wakes, fetches due rows (`get_due_deliveries`: pending, due,
  oldest first, limited) and creates the round's tasks under a new semaphore.
- `BeginPost` / `SkipInactive`: a task passes the semaphore and looks its
  subscriber up; with no active subscriber it returns and leaves the row alone.
- `Accept`: the subscriber (environment) takes the POST. It may never do so,
  and its answer may be lost.
- `MarkDelivered`, `ReadAttempts`, `MarkFailed`: the outcome; `mark_failed` is two
  statements, and another process may act between them. `LoopFree` says that no
  other code of the same process can.
- `Raise`: a database error leaves the task; `gather` re-raises the first one of
  its round, the loop goes to sleep, the other tasks live on with their semaphore.
- `Crash`, `Restart`, `Tick`, `Enqueue`, `Register`, `Deactivate`.

Rows are pre-assigned ids; time advances only while some row waits for it.

### 2.2 SorobanPublisher

`failures` is `_failure_timestamps` (with the score that failed, so that equal
times stay distinct); `pc`, `dryRun`, `remaining`, `current`, `attempt`,
`error`, `sequence` are the position in `submit_batch`, `submit_score`,
`_execute_with_retries` and `_submit_once`; `audit` is `on_chain_submissions`.
`pool` and `ledger` are the network: a transaction carries the account's next
sequence number at the time of `load_account`, at most one transaction per
number executes, successfully or not, at any later time. The error strings are
the kinds `_execute_with_retries` distinguishes. The 1.5x fee path is a retry
whose failure ends the loop, like the second iteration's. A transaction that
differs only in its fee is not told apart from the first one. `taken`, `sends` and
`unresolved` are history: the scores whose `submit_score` was called, what each of them
sent, and whose polls timed out. `AuditedOnce` is about every score taken whose
submission is over, whether it was sent, failed before anything could be sent, was a dry
run or met the open circuit.

### 2.3 SchemaMigration

`version` and `log` are the two meta tables, `present` the schema objects;
`pc`, `target`, `step` are each process's call of `migrate_db`. The script list
is a parameter; `Repeatable` are the objects created with `IF NOT EXISTS`. Each
statement of a script commits by itself (`executescript`), the closing UPDATEs
are one transaction. `LockTimeout` is `database is locked` at each place it can
be raised, `ReadLocked` the one place where it is swallowed: `get_schema_version`
answers 0. `Repair` is the operator who does exactly what the
`SchemaMigrationError` says, with every process stopped.

### 2.4 StreamWorker

`queue`, `closed` and `closing` are an `InMemoryStreamSource` and the threads
inside `close`; `fate` says where each trade is, from the caller of `publish`
to the worker's outcome. `loop`, `limit`, `processed`, `trade`, `rest` and
`alerts` are the locals of `run` and `process_trade`; `buffers` and `latest`
the worker's attributes; `saved` and `queued` the tables it writes. `late`,
`ended` and `unsaved` are history variables.

`queue.Queue` is atomic, the source's flag is not: `publish` and `close` read it
in one step and act on it in the next (`CheckOpen`/`Put`,
`CheckClosed`/`MarkClosed`/`PutSentinel`). The worker's steps are the points
where another thread, a fault or a `KeyboardInterrupt` can come between: taking
a trade, scoring one account, inserting the alerts, queueing them, counting.
`Stop` only sets the event, `Interrupt` leaves the loop wherever it is, as the
`stream` command does, which then calls `stop`.

A score is the trade that caused it and whether it reaches the threshold: every
property here is about which scores exist and where they went, none about their
value. `Serialisable` is FALSE because `enqueue`'s `json.dumps` refuses the
`datetime` that `score.model_dump()` leaves in the payload.

### 2.5 ScoringRun

`pc`, `mode` and `next` are a run's place in the code and in `asset_pairs`;
`trades`, `computed` (`scores` with `scored_features`), `found` (`all_rings`),
`correlated` and `todo` its local lists; `moment` the `ts` of the save in
progress. `scores`, `vectors`, `rings`, `correlations`, `raw` (pool trades, path
payments, circular routes) and `snapshots` are tables, `submitted` what
`SorobanPublisher.submit_batch` was given. `loaded` and `overlap` are history: when
a pair's trades were read, and which runs ran at the same time.

- `Preload`, `LoadTrades`, `UsePreloaded`: the pair's trades, with Horizon's answer as
  input; a pair without trades is skipped.
- `SavePools`, `SavePayments`, `SaveRoutes`, `ScorePair`: one pair. Which raw rows a
  pair yields are constants of the instance.
- `Record`, `Prune`, `RecordFails`: `record_scored_features` and the try around it.
- `TakeMoment` is the first half of a save that stamps its rows with one `ts`
  (correlations, rings, vectors), taken before the database is entered; `SaveX`
  is the transaction. Another run may act in between.
- `SaveScores` inserts rows stamped when the pair was scored, long before.
- `Explain` writes to the newest vector of wallet and pair (`save_shap_values`);
  `ExplainFails` is also what an absent xgboost model amounts to.
- `Enqueue` queues nothing: the payload cannot be serialised (2.4).
- `Submit` assumes that a contract is configured; `async_run` ignores `no_submit`.
- `Abort` is an exception the code does not catch, or a kill, at any step.

No two readings of the clock are equal (microseconds in the code). A row of
`snapshots` stands for all the features of one vector, so the caps are counted in
vectors.

`LatestScoreIsFreshest`, `ReportsOfOneRun` and `ExplanationIsOwn` speak of runs that
did not overlap, since for two that did the code promises nothing: the one that
read Horizon first may write last.

### 2.6 ModelFiles

`files` is the model directory: of each file, who wrote it last and whether it
is whole. `job`, `at` and `opened` are what each writing process does: the call,
the place in the list of files it writes (`Plan`), and whether it has that file
open; `current` the version it has remembered with `get_current_version`.
`loading` and `models` are a process inside `load_models` and what it has
collected. `overlapped`, `finished`, `quiet` and `doubtful` are history.

- `Train` is `cli.py train`: the reference data set, then `save_models`, the models
  in the order of the results and the metadata last. `SaveVersioned` is
  `save_versioned_model` (the model, then the pointer), `Rollback` writes the
  pointer only. Hashes have the granularity of a minute, so two saves may choose
  the same version.
- `Open` truncates a file, `Close` completes it: nothing writes elsewhere and
  renames. Two processes that have one file open leave one's data, the other's or
  a mixture (`Outcomes`). `Crash` leaves what is there.
- `LoadModel`, `SkipAbsent`, `LoadRaises`: the loop of `load_models`, which accepts
  any subset of the ensemble.

The versioned files and the directory's models are independent of each other in
the code, as they are here.

### 2.7 HorizonClient

One pair in either pipeline: the pages of trades, then account metadata and order
book events together, then path payments. `pc`, `tries` and `permits` are the
requests, their attempts and the semaphore; `stage` and `wanted` what the pipeline
awaits; `cursor` and `records` the paging. `newest` is Horizon, which takes trades
all the while; a trade is its place in time.

- `Call`: `gather` makes all requests of a stage at once, the synchronous loaders one
  after another. `Send` takes a permit and makes the attempt; `TryFails`, `Refuse`,
  `PageArrives` and `Answer` are the ways it ends, all of which return the permit;
  `Retry` is the end of the sleep, during which none is held.
- `PageArrives` keeps the page down to the cutoff and follows the next link, whose
  cursor is the last trade of the page: `Asked` is the request, the loader's choice,
  `Page` Horizon's answer to it.
- `Raise` is the first exception leaving `gather` and the client's `async with`;
  `Cancel` what `asyncio.run` does to the requests that are left.

The synchronous client has no semaphore and no more than one request at a time;
taking a permit then changes nothing.

### 2.8 ScoreReads

`rows` is the table of a list (scores, rings or routes), `pending` the rows whose
timestamp is taken and which are not inserted yet. `walk`, `offset` and `got` are the
client. It is not part of the repository, whose handlers only take `limit` and
`offset`: it is assumed to ask for the next page as long as pages are full, with the
offset moved on by its page size. `View` is the query before LIMIT and OFFSET: `Listed`
are for scores the latest row of each key, for rings the rows of the latest run, for
routes everything, and `Column` is what they are sorted by, for scores the score, the
confidence or the time. `Filtered` is what `list_scores` does after it has read the page.
Both are written with `InOrder`: the n-th of a set is the member that has n - 1 others
ahead of it, so that the place of an entry in the list is a cardinality. Rows that
compare equal come in the order of insertion. A save of several scores, each with its
own timestamp, is as many saves of one between which no page is read.

`WalkIsExact` says of an undisturbed walk what is true for every sort order: it has read
what passes the filter of the part of the list its pages came through. That this part
is all that matters holds only without a filter or with `sort_by=score` (section 5).

### 2.9 RiskScore, TradeGraph, TradeFeatures

Operators rather than processes: the state is the set of trades, payments and order
book events that have arrived, one by one, so that every reachable state is an input.
Each operator
has the name of the function it models.

- `RiskScore`: `combine` in thousandths, with Python's rounding of halves to even.
- `TradeGraph`: `Edges` is `build_trade_graph`, `RingScore` is `_score_ring` with its
  three parts (the exact sum, where the code adds floats), `Cycles` is
  `nx.simple_cycles` up to the length bound. Which communities networkx finds is
  open: every set of enough wallets is one.
- `TradeFeatures`: features are pairs of numerator and denominator. An order by time
  is any order that respects the times (`Sorted`), since the code's sort is not
  stable. `FractionsInRange` covers every feature whose docstring says "fraction of" or
  names a share, where it is one (section 5 has the exceptions). In
  `volume_spike_frequency` a moment is an hourly bucket; that a bucket exceeds the mean
  by two standard deviations is compared in squares of integers, without the root.
- `Run` stores the pool trades of a pair again, as every pipeline run does; `PoolRisk`
  is what the API computes from these rows. `RoundTrips` (one wallet's trades, in
  `pool_round_trip_ratio`) and `Matched` (the rows after a row, in
  `pool_risk_from_trade_rows`) are two translations of two loops, which
  `PoolRiskAgrees` compares.

### How the modules fit together

A pipeline run loads a pair as `HorizonClient` does, computes what `TradeFeatures`,
`TradeGraph` and `RiskScore` define with models loaded as in `ModelFiles`, and
stores it as `ScoringRun` does in a file that `SchemaMigration` has prepared; the
stream worker does the same trade by trade (`StreamWorker`). Both queue the alerts
of `WebhookDelivery`, the run submits through `SorobanPublisher`, and the API's
clients read what is stored (`ScoreReads`). The modules meet at these interfaces
by assumption: `ScoringRun` takes any trades from Horizon, `ScoreReads` any runs
that insert, `ModelFiles` any loaders. Only `AlertQueue` and `WebhookDelivery` are
formally composed, by refinement.

## 3. Runs

| run | instance | result |
|---|---|---|
| `webhook_solo` | 1 worker, 3 rows of 2 subscribers, 2 attempts, 1 permit, batches of 2, 1 crash, fair | PostsBounded, QueueSpec (refinement of AlertQueue), AlertsSettle hold |
| `webhook_pair` | 2 workers, 2 rows, 1 database error, symmetry | DeliveredWasReceived, DeadWasTried, ParallelBounded hold |
| `webhook_starvation` | 1 worker, batches of 1, fair | AlertsOfActiveSettle fails |
| `soroban` | 2 scores, threshold 1, window 2, reset 1, all error kinds, 1 fault, 3 moments, fair | BreakerBounds, SubmittedLanded, TwiceOnlyAfterTimeout, AuditedOnce, LandedIsReported, BatchEnds hold |
| `migration` | 2 processes, 3 versions (tables, a column, a table), 1 crash, 1 lock timeout, any repairs, fair | VersionIsComplete, ReadyIsComplete, InterruptionVisible, CallReturns hold |
| `stream` | 3 trades (order book, self-trade, pool), 1 closer, limits 0 and 1, 2 calls of `run`, buffer of 2, 1 interrupt, 1 failing insertion, fair | DrainedAtEnd, OneLostPerRun, AlertsSavedOnce, LatestAlertIsSaved, ClosedRunEnds hold |
| `scoring_overlap` | 2 runs, each of two modes, 1 pair, 1 wallet, 1 failure, cap 2 | LatestScoreIsFreshest, ExplanationIsOwn, SnapshotsBounded hold |
| `scoring_pairs` | 2 multi-pair runs, 2 pairs, 1 wallet, 1 failure, symmetry, quiet phases run on | ScoresAllOrNone, SubmittedIsSaved, ReportsOfOneRun hold |
| `models` | 2 writers, 1 loader, 2 models, 2 versions, 2 trainings among 3 calls, 1 crash, symmetry | LoadedTogether, MetadataIsLast, LatestLoads hold |
| `horizon` | 2 accounts, 3 trades and 2 more, 1 before the cutoff, pages of 2, 2 permits, 1 retry, both modes, fair | InFlightBounded, PagesComplete, FailedWasTried, LoadsEnd hold |
| `reads` | 3 keys, 2 values, 3 sort orders, 4 rows, 2 timestamps ahead, pages of 1, symmetry | WalkIsExact, NoneSkipped hold |
| `detection` | 3 wallets, 2 pairs, a pool, up to 5 trades, payments or order book events, 2 runs, symmetry | CyclesTellRings, FractionsInRange, CrossPairAgrees, PoolRiskAgrees hold |

Deadlock is not checked: every system here may come to rest (no alert left, all
scores submitted, bounds used up).

### Bounds and why they suffice

- *Webhooks.* Two attempts separate "retry" from "give up"; one permit and
  batches of two make tasks wait both for the semaphore and for the next batch;
  three rows leave one outside a full batch. `BackoffAssumption` only needs the
  delay to be positive, so a delay of one tick keeps every ordering. With one
  fault a round can be abandoned and overlap its successor. `MaxTime` 12 is
  never reached: time stops when nothing waits.
- *Publisher.* The reset branch needs `Reset < Window` (1 < 2 here); with the
  deployed values it is unreachable, which is a theorem. With a threshold of one
  the first failure of a submission opens the circuit, so the second score meets
  it open, half open or closed, depending on the clock. Two scores are what it
  takes to compete for one sequence number.
- *Migration.* Three versions give a repeatable one with two statements, a
  non-repeatable one and a successor. Rows of `schema_migrations` that are equal
  in every column are one row, since nothing reads how many there are.
- *Stream.* The three trades are the shapes `_involved_accounts` tells apart:
  two accounts, one account twice, a pool and an account. A buffer of two is
  overrun by the third trade of one wallet. Limits 0 and 1 are the boundary of
  `processed >= max_trades`; two calls of `run` show what the first leaves to
  the second. One closer suffices for the race with `publish`; a second one
  only adds a sentinel (the proofs allow any number).
- *Scoring.* Two runs are what an overlap takes. Over one pair (`scoring_overlap`) the
  modes meet and one failure may hit anywhere. Over two pairs (`scoring_pairs`) a
  save has several rows and a run several pairs; both runs may write rings and
  correlations, as only multi-pair runs do, so that either report may be the later
  one, and one of the two may fail anywhere. To keep that small, a run in a phase
  that writes none of the tables `ScoresAllOrNone`, `SubmittedIsSaved` and
  `ReportsOfOneRun` read, and takes no moment they compare, goes on before the other
  run acts (`QuietGoesOn`): steps that commute in all that these properties see. An
  asynchronous run over two pairs is left to the proofs, as is a batch of more than
  one row in the excess of `SnapshotsBounded`. One wallet suffices: rows of different
  wallets never meet, a second pair gives a save its second row. Two snapshots of
  earlier runs fill the cap, so the first batch passes it.
- *Model files.* Two writers and a loader are what an overlap takes; with two models
  a set can be mixed or partial. Three calls let a save or a rollback meet a
  training that follows another one, and one crash leaves any one file partial.
- *Horizon.* Five trades and pages of two give full pages, a page that reaches the
  cutoff, a page that is there only because of trades that came meanwhile, and a
  pool trade with one account. Two permits for up to three requests of a stage
  make one wait; one retry separates the first attempt from the last.
- *Reads.* With pages of one, each further row is a page; four rows of three keys
  let one key's row be replaced during the walk, two timestamps ahead let rows be
  inserted in an order other than that of their timestamps. Two values of score and
  confidence make ties and both sides of a filter; they are told apart only where the
  query sorts or filters by them. The page size and the number of rows only matter
  relative to each other.
- *Detection.* Three wallets form every shape of community up to a triangle with
  both directions; five trades cover each window boundary (`Window` apart, further,
  at once) in two pairs and the pool. A large pool trade at moment 7 is a spike after
  empty buckets, in the night, and `Baseline` 6 leaves the earliest trades out. With
  `MaxTrades` 2 the third trade after one no longer reverses it. Two events per wallet
  give none, some and all cancelled.

### Fairness

- Workers: a ready task runs, the loop wakes from its sleep, a POST returns
  within `REQUEST_TIMEOUT` in some way, a crashed worker is restarted (the README
  asks for systemd or supervisor), the clock ticks. Nothing is assumed of
  subscribers. Fairness is per worker and per kind of step, weak throughout.
- Publisher: the thread keeps running; polls are limited to thirty. Nothing is
  assumed of the network.
- Migration: a call keeps running; SQLite's busy timeout ends every wait.
- Stream: a `close` that has begun ends, and `run` waits only for the queue.
  Nothing is assumed of publishers, of who calls `close`, `stop` or `run`.
- Horizon client: a request in flight ends in some way (both clients have a timeout of
  30 s), a sleep ends, the event loop runs what is ready. Nothing is assumed of what
  Horizon answers, nor that trading stops: the pages go down from a cursor.
- Model files, reads, detection and scoring runs: no fairness, no liveness is stated.

### What the failing run shows

`webhook_starvation`: rows of deactivated subscribers are skipped but never updated;
with `LIMIT 50` fifty of them block the queue for ever, although the README
(`README.md:575-582`) promises that unacknowledged alerts are retried or dead-lettered
and that slow subscribers do not block others.

## 4. Proofs

All proofs are for any values of the constants that satisfy the modules' named
assumptions. Each module's type invariant is part of its inductive invariant and
is proved; the runs do not repeat it. `RoundOwnsItsRows`, `SettledIsFinal`,
`AppliedIsComplete` and `RawBeforeScores` are proved and not run either. The other
inductive invariants below were given to TLC as invariants of the runs of their
module before they were proved, and held.

Two assumptions on constants were found by proof attempts that failed. With two
migrations that create the same object, the interruption of the first would be
blamed on the second: `ObjectsAssumption` says they create distinct ones, as those of
`_MIGRATIONS` do. And a snapshot table that starts with more rows of one moment than
a batch has exceeds the cap whatever the pruning does: `RunAssumption` asks of the
`Earlier` rows what runs of the same program have left.

- **WebhookDelivery.** `TypeCorrect`; `DeliveredCorrect` from the invariant that an
  'accepted' task's row has been received; `DeadCorrect` from the invariant that
  the attempt count, in the table and in what a task has read, never exceeds the
  failures recorded (a lost update only lowers it). For one worker without
  faults: `RoundOwnership` and `SettledFinal` need that live tasks belong to the
  current round, hold distinct pending due rows, and that the row's count is
  exactly its failures; `Refinement` maps every step to a step of `AlertQueue` or
  a stutter, `tries` being the failures recorded. `PostsCorrect` adds what a POST
  may have come to (`PostsInv`): a recorded failure, a crash, or it is the last one,
  which is under way or has delivered the row. `ParallelCorrect` counts the rounds that
  database errors have left with live tasks, one error each at most (`ParallelInv`),
  and numbers the POSTs of each by the permits of its semaphore.
- **SorobanPublisher.** `PublisherTypeCorrect`; `BreakerCorrect` by the cardinality of the
  window: a submission starts only below the threshold, adds at most one failure,
  and the window only loses elements as time passes; `SubmittedIsOnChain`;
  `ResetIsUnreachable`. `TwiceCorrect`, `ReportedCorrect` and `AuditCorrect` follow from
  `SubmissionInv` (`SubmissionCorrect`). It is about the live transactions of a
  score, those in the pool or executed: a score not yet sent has none; one whose polls
  have not timed out has one at most, that being polled for, and none when another
  is built (`OnceInv`); one whose polls were all answered has none when an error is
  being handled, so that its row says 'submitted' if it has one afterwards
  (`ReportedInv`). A transaction in the pool waits for a sequence number that is not
  used yet (`LedgerInv`), which makes a second execution of it impossible. For
  `AuditCorrect` the invariant says that a score not taken has no row, the one in hand
  none before its submission ends, and every other taken one exactly one, unless an
  insertion failed.
- **SchemaMigration.** `MigrationTypeCorrect`; `VersionCorrect`, `ReadyCorrect` and
  `AppliedCorrect` from `SchemaInv`: a call that is applying version v has found
  or made everything below v, and of v everything below its current statement.
  The schema only grows, so no other process can undo that. `VisibleCorrect` needs
  `LoneInv`: undisturbed, at most one call is under way, it looks at one version
  above `schema_version`, its row is the only 'applying' one from its insertion to
  its update, and every object above `schema_version` is explained by a row of its own
  version.

- **StreamWorker.** `StreamTypeCorrect`; `DrainedCorrect` from `SourceInv`: every
  trade in the queue behind the first sentinel was put there after the flag was
  written, and a sentinel exists only once it has been. `OneLostCorrect` counts:
  the lost trades are at most the calls that have ended, since a loss ends its
  call. `SavedOnceCorrect` from the invariant that the rows a trade has, plus
  those its pending alerts will make, plus its accounts still to be scored,
  never exceed its sides; `LatestSavedCorrect` from the invariant that an alert
  of the trade in hand is saved or still in the local list.

- **ScoringRun.** `ScoringTypeCorrect` needs that a run which is loading has a
  pair in hand and one which saves has none left (`Positioned`).
  `AllOrNoneCorrect` and `SubmittedCorrect` follow from `SavedInv`: before
  `save_scores` a run has no row, afterwards exactly its list, which no longer
  grows, and only then does it submit.
  `RawFirstCorrect` adds what is stored of the pair in hand at each place of its
  saves (`RawInv`). `ExplanationCorrect` rests on `ShapInv`: a ts is later than
  every vector in the table when it is taken, so whatever is newer afterwards
  was inserted by a run that is under way too, and a run that explains has a
  vector of its own with that ts.
  `FreshestCorrect` compares moments: no two runs share one (`TimesInv`), and of two
  runs that did not overlap one has ended, all its moments before all of the
  other's (`OrderInv`), so that the order of the scores is that of the loads.
  `ReportsCorrect` adds `ReportInv`: a run's rows in a report table are none, or all it
  found, at one moment. `SnapshotsCorrect` counts rows: a moment has a batch at
  most, the pruning keeps whole moments, of which there is a newest set of
  `SnapshotKeep` rows or less than one batch more (`SnapshotInv`); that such a set exists
  in a finite table is by well-founded induction over its subsets.

- **ModelFiles.** `IInv` is `TypeOK` with `DiskInv` (whole and opened files exist),
  `TrainInv` and `PointerInv`. `TrainInv` holds as long as no two trainings have
  overlapped: the files a training has passed hold its data, no file is older than
  the metadata, and a loader that no training disturbed has collected the models of
  the last one up to where it is. `PointerInv`: the version the pointer names, and
  every version a call under way will make it name, is whole, unless it is doubtful
  or its one writer is still storing it. `TogetherCorrect`, `MetadataCorrect` and
  `LatestCorrect` follow.

- **HorizonClient.** `IInv` is `TypeOK` with `PermitInv` (permits and requests in
  flight add up to the semaphore's size, by cardinality), `RequestInv` (a request
  that is busy is wanted, one at a time in synchronous mode; what has raised was
  refused or has made all its attempts), `PageInv` (the records go from the newest
  trade of the first page down to the cursor, then to the cutoff, so that trades
  added later never enter) and `AskedInv` (what a stage has asked for is wanted or has
  returned). `InFlightCorrect`, `PagesCorrect` and `FailedCorrect` follow.

- **ScoreReads.** A strict total order on a finite set gives each member a number of
  others ahead of it, all numbers below the cardinality are taken, and each once
  (`RankIsOnto`, by the pigeonhole principle, without induction); so `View` lists what
  is listed, each entry once, in order (`ViewIs`), and filtering a list is filtering a
  first part and then the rest (`FilteredJoins`). `ReadsInv` is the type with
  `RowsDistinct` (a row is inserted once, a key has one row of a moment, and a moment
  that is not over has no rows), `PrefixRead` and `SteadyBehind`. `PrefixRead`: while
  nothing has been inserted and all pages were full, the client has what passes the
  filter up to the offset, which is not beyond the end. This is the
  first half of `WalkCorrect`, for every order. The page that is not full
  reaches the end, or has dropped an entry, and with `sort_by=score` all entries
  after it are dropped too (`BelowStays`): the second half. `SteadyBehind`: what was
  listed all the while has been read or has as many entries ahead of it as the offset
  says. An insertion does not lower that number, since a key ahead remains ahead with
  its newest row (`AheadGrows`, an injection of the old entries ahead into the new
  ones): `SkippedCorrect`. The conditions of the two properties leave
  out what is false of the scores (section 5); of the rings a new run replaces the
  whole list, so that there is nothing to be skipped.

- **RiskScore.** Lemmas bound the rounding (`RoundedBounds`, `RoundedMonotone`);
  `ScoreMonotone` and `AlertsHaveMlFlag` follow by arithmetic.

- **TradeGraph.** `RingsCorrect` holds for any number of wallets and trades and any
  communities. A set of wallets each of which has an edge to another one of the
  set contains a cycle, a smallest such set being one (`CycleExists`); without such
  a set the wallets can be ranked, the one without an edge to the rest last
  (`RankExists`); and what is ranked has no cycle (`RankedHasNoCycle`). So a community
  is either one-way, and its edges fill at most half of the possible ones
  (`OneWayEdges`, 25 / 2 rounds to 12), or has a cycle of two or more members, which
  outweighs the density (`LoopWeight`). The proof showed that the second half needs
  cycles of the community's size to be searched for: with `max_cycle_length` 2 or 3 a
  loop of four gets nothing for it, and the property says so now.

- **TradeFeatures.** The inductive invariant is `TablesInv`: the tables are finite and
  a run stores only pool trades that it has loaded. The rest is about sums over
  finite sets: that the library's fold is defined on every one, does not depend on the
  order, grows with its terms and counts disjoint parts (`UnfoldsExists`,
  `SumRemoves`, `SumMonotone`, `SumOfParts`). Each is an induction over the subsets of a
  set, taken from a minimal counterexample (`MinimalSubset`), which needs no operator
  parameter. `FractionsCorrect`, `CrossPairCorrect` and `PoolRiskCorrect` follow: a share
  is a sum over a subset of its total's; spikes are some of the buckets; of a wallet's
  trades the last has no later one (`LastHasNoLater`), so the round trips are never all
  of them. The bursts a wallet is listed for and those
  it is scored by are the same couples, each with a trade of its own if there are
  two pairs. What the second loop matches among an account's rows is what the first
  matches among its trades, and the round trips of a pool are the disjoint ones of its
  wallets.

Only model-checked: all liveness (`AlertsSettle`, `BatchEnds`, `CallReturns`,
`ClosedRunEnds`, `LoadsEnd`), which is beyond the prover. Every safety property of the
passing runs has a theorem.

## 5. Not modelled, and known from reading

Not modelled: encryption, signatures, payload layout, URL validation, logging; Benford
statistics, rank correlation, training and inference of models, drift statistics,
backtests, synthetic data (floating point and random numbers); `amm_loader`, which no
pipeline calls; the TypeScript SDK. `HorizonStreamSource` and `CallableStreamSource`
keep no state: of the former, `_decode_event` turns Horizon's "byebye" message into a
string, which makes the parser raise outside `run`'s try and ends it.

What reading and modelling have shown, by component. A model of the code concerned
contains the behaviour; its properties say what remains true.

Webhooks
- No alert of the stream worker or of the pipeline is ever queued: `_enqueue`
  (`streaming.py:254`) and `_enqueue_webhook_alerts` (`run_pipeline.py:223`) pass
  `score.model_dump()`, whose `timestamp` is a datetime, `json.dumps`
  (`webhook_queue.py:85`) raises TypeError, and the except clause logs it.
  `WebhookDelivery` models the queue for payloads `enqueue` accepts.
- "at most 10 deliveries run in parallel" (`README.md:581`) is exceeded after a
  database error in a task: `gather` does not collect exceptions and each round
  makes its own semaphore. What remains true is `ParallelBounded`.

Publisher
- The circuit "auto-resets after `SOROBAN_CIRCUIT_RESET_SECONDS`" (`README.md:197`): it
  closes when the 60 s window empties, the reset branch being unreachable with the
  deployed values (`ResetIsUnreachable`). The README speaks of *consecutive*
  failures; `_check_circuit` counts failures in the window, successes in between
  change nothing.

Migration
- Overlapping first starts can set `schema_version` back: a process that read
  version 0 finishes migration 1 after another has finished migration 2
  (`storage.py:289`, against the comment at line 280). Its own `ALTER TABLE` then
  fails and every later start is refused. The same happens to a single process
  whose version read hits the lock (`ReadLocked`).
- The recovery the error text prescribes (`storage.py:246-247`) leaves
  `schema_version` behind: after a crash in version 2 the next start adds the column
  again and fails.

Streaming
- A second iteration of a closed source waits for ever, its sentinel being spent;
  `stop` is noticed only when another trade arrives. `ClosedRunEnds` is about the
  first end. A limit of 0 lets one trade through.

Pipeline and store
- `async_run` has no `no_submit` and submits regardless (`run_pipeline.py:356`,
  `cli.py:247`); it saves no rings and no vectors either, so after it the
  explanations shown are those of the last synchronous run.
- `save_wash_rings` and `save_pair_correlations` do nothing for an empty list, so a
  run that finds nothing leaves an older run's report as the latest.
- Path payments between two listed accounts are loaded once for each and stored
  twice, and again by every run. Pool trades are stored again by every run, and the
  ratio of `/amm/pools/{id}/risk` then weighs old trades more (`PoolRiskAgrees`
  holds for rows that are stored equally often).
- `/scores` applies `min_score` after LIMIT and OFFSET: with `sort_by=timestamp` or
  `confidence` a short page need not be the last one. With `sort_by=score` a walk may skip an
  entry when another's score drops; a walk through the rings may mix two runs.
- `/admin/drift-reports` and `/admin/retrain-runs` call functions that are defined
  nowhere (`api/main.py:238`, `247`); `cli.py retrain-check` imports two more
  (`cli.py:113`) and raises ImportError before it does anything.

Model files
- Nothing that loads models uses the versioned files or the pointer, although the
  README (`README.md:379-384`) describes rollback through them. `load_models` reads
  the unversioned files, and silently accepts fewer models than the ensemble has.
- A loader that meets a training reads models of two trainings or a truncated file;
  the API's lifespan catches only `FileNotFoundError`. Overlapping trainings leave a
  mixture. A crash between truncating and writing the pointer makes
  `load_latest_model` fail until the next save.
- `list_model_versions` promises "newest first" and sorts hashes.

Horizon clients
- Only trades are paged: order book events, path payments and pool operations are one
  page of 200 (`operations_loader.py:151`).

Detection
- `cross_pair_burst_overlap_ratio` counts at most one trade for each ordered couple of
  pairs (the `break` at `feature_engineering.py:347` leaves the loop over trades), not
  the documented fraction of trades; with three active pairs it can exceed 1, so
  `CrossPairAgrees` states it for two.
- `network_centrality` can exceed 1 for a wallet that traded with itself.
  `counterparty_concentration_ratio` leaves the pools' volume out of its total;
  `path_cycle_volume_ratio` leaves out payments to oneself, also in the same asset.
- `pool_round_trip_ratio` counts a sell followed by a buy too (its docstring names
  the other order), and the outcome for trades of one moment depends on an unstable
  sort. `find_correlated_pairs` ranks equal volumes by their position.
- `funding_source_similarity_score` is documented as the "fraction of an account's
  counterparties" with its funding source; it is the fraction of its trades, a
  counterparty counting once for each.
- `round_trip_trade_frequency` ignores `base_is_seller`, which `graph_engine` uses.
- A loop longer than `max_cycle_length` gets no credit for its cycle; a pure loop of
  three wallets scores 20. A threshold of 0 sets `benford_flag` and adds nothing to
  the score. The code's float sums round as the exact sum in communities of up to
  four wallets.

## 6. Plan

What would come next, most valuable first; each module is written to be proved about
(constants with named assumptions, one action per operation, no RECURSIVE operator).

1. Composition: the runs of `ScoringRun` over the file of `SchemaMigration`, and its
   submissions as batches of `SorobanPublisher`.
2. The matching of alerts to subscribers (`get_matching_subscribers`), with secrets
   that do not decrypt, once an alert can be queued.
3. The feature over account age, and the reads by wallet, flag and pair.
