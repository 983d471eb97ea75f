# Verification of the telemetry ingestion engine

This directory specifies and verifies the ingestion engine of this repository
in TLA+. The system proper is the Go service under `go-engine/`; the
Node/TypeScript gateway `server.ts` is its twin, which the web console talks to.
Source paths below are relative to the repository root.

Contents: 1 inventory, 2 modules, 3 properties and runs, 4 bounds, 5 fairness,
6 proofs, 7 what the code does that its documentation does not say, 8 what is
not modelled, 9 plan.

## 1. Inventory

| Component | Source | State it keeps | Operations |
|---|---|---|---|
| Batch processor | `go-engine/internal/batch/processor.go` | `inCh`, `buffer`, `mu`, `ctx`, three atomic counters | `Submit`, `run`, `doFlush`, `drainAndFlush`, `Stop`, `Metrics` |
| Worker pool | `go-engine/internal/worker/pool.go` | `taskCh`, `ctx`, `isShuttingDown`, three atomic counters | `Enqueue`, `EnqueueBatch`, `workerRoutine`, `QueueStats`, `Shutdown` |
| Rate limiter | `go-engine/internal/ratelimit/token_bucket.go` | per bucket `tokens`, `lastRefill`; the map of buckets | `AllowN`, `Available`, `KeyedRateLimiter.Allow` |
| Router | `go-engine/internal/router/router.go`, `internal/event/event.go` | none of its own | the rate-limit middleware, single and batch ingestion, healthz, metrics |
| Process lifecycle | `go-engine/cmd/server/main.go` | how far the shutdown sequence is | start-up, signal, HTTP shutdown, pool shutdown, batch stop |
| Storage | `go-engine/internal/storage/mongo.go`, the flusher in `main.go` | a MongoDB client and its collection | `NewMongoStorage`, `FlushBatch`, `Close` |
| Node gateway | `server.ts` | queue, batch buffer, workers, tokens, shutdown flag, timers | ingest, tick loops, flush, config, load test, simulated shutdown |
| Web console | `src/App.tsx`; `Header`, `ConfigPanel`, `EventSenderModal`, `LoadTestStudio`, `ShutdownSimulationBanner` under `src/components/` | the last metrics and their trend, the flags of what is under way, the form, the sender | polling, load test buttons, simulated shutdown, config form, event sender |
| Console views | `ArchitectureFlow`, `MetricsCards`, `StructuredLogViewer`, `GoCodeExplorer` under `src/components/` | a filter or a selection | drawing |
| Benchmarks, build, deployment | `go-engine/benchmarks`, `Dockerfile`, ... | none | none |

### How the components interact

A request passes the rate limiter (429 if refused), is parsed by the router
(400 if it cannot be; only the single-event endpoint also validates), and goes
event by event through `Pool.Enqueue` into the bounded channel `taskCh`. The
client is answered 202 or 503 as soon as the channel has or has not taken its
events. Worker goroutines move events from `taskCh` to the batch processor's
`Submit`, a second bounded channel half as long. One goroutine, `run`, moves
events from there into `buffer` and flushes it to the storage sink when it has
reached the threshold, when the window timer fires, or at shutdown. A signal
makes `main` do three things in order: `httpServer.Shutdown` with a deadline of
15 s, `pool.Shutdown`, `batchProc.Stop`.

Shared state: `p.mu` of the batch processor, the mutexes of the buckets and of
their map, atomic counters, and the two channels. In the Node gateway there is
one thread, and what interleaves are callbacks: request handlers, a 10 ms worker
interval with an 8 ms timeout, a 50 ms flush interval, a load-test interval and
the 2 s timeout of a simulated shutdown. The console is one thread too, whose
handlers are cut in two by every `fetch`: between the halves other clicks are
handled, other answers arrive, and the gateway may restart.

### What is hard, and what makes each component correct

* **Batch processor.** The batch leaves `buffer` at three places (threshold,
  timer, shutdown), each a swap under the lock and a flush outside of it, while
  submitters and `Stop` go on; `drainAndFlush` flushes with the lock held.
  Correct: no event is lost, doubled or overtaken, batches are bounded and never
  empty, counters agree with what was written, `Stop` ends with nothing left.
* **Worker pool.** `Enqueue` loads the shutdown flag and sends later; `Shutdown`
  sets the flag, closes the channel and cancels in between; a worker may leave
  its select by any ready case. Correct: every answer is the truth about the
  event, nothing that entered the channel is stranded or forwarded twice, and
  all of it is forwarded when `Shutdown` returns.
* **Rate limiter.** `Allow` takes three locks one after the other; two first
  requests of a client race for its bucket; refill is lazy, and happens on
  denied calls too. Correct: in any window of time nobody gets more than burst
  plus rate, and every answer is what a meter that fills with time would give.
* **Composition.** The reply is sent while the event is on its way; a signal,
  a slow client, a full channel or a failing store may come at any point.
  Correct: what clients were told stays true, and the service ends.
* **Node gateway.** Configuration changes under a running queue, overlapping
  shutdowns, a flush that may come from three places. Correct: accepted events
  stay in order and are flushed, and the console's numbers add up.
* **Storage.** A bulk write that reports an error may have stored any part of
  its batch; the batch processor counts batches, not documents. Correct: what is
  counted as flushed is in the collection, and nothing else is but the documents
  of failed batches.
* **Web console.** It polls without waiting for answers, decides by state that
  may be old, unmounts forms while their requests are under way. Correct: its
  flags tell what is on the wire, a green answer was earned, the gateway never
  has two load generators, and what is shown becomes true.

`PROJECT.json` lists the hazards one by one, each at its line with the
properties that would catch it.

## 2. Modules

| Module | Kind | Models |
|---|---|---|
| `BatchProcessor` | component | `processor.go` |
| `Conveyor` | abstract | what the batch processor promises: a lossless FIFO from `Submit` to the sink, emptied in non-empty batches |
| `ConcatLemmas`, `BatchProcessorProof` | proofs | about `BatchProcessor` |
| `MongoStorage` | component | `mongo.go` and the memory flusher of `main.go`; EXTENDS `BatchProcessor` |
| `MongoStorageProof` | proofs | about `MongoStorage`, from those about `BatchProcessor` |
| `WorkerPool` | component | `pool.go` |
| `WorkerPoolProof` | proofs | about `WorkerPool` |
| `Bucket` | operators | the arithmetic of `TokenBucket.AllowN` |
| `KeyedRateLimiter` | component | `KeyedRateLimiter.Allow` over a heap of buckets |
| `Metering` | abstract | what the limiter promises: meters that fill with the clock |
| `KeyedRateLimiterProof` | proofs | about `KeyedRateLimiter` |
| `GoEngine` | composition | router, pool, batch processor and `main.go`; INSTANCEs of `WorkerPool` and `BatchProcessor` over shared variables |
| `Ledger` | abstract | what the service promises its clients |
| `GoEngineProof` | proofs | about `GoEngine`, from those about `WorkerPool` and `BatchProcessor` |
| `NodeEngine` | component | the `IngestionEngine` of `server.ts` |
| `NodeEngineProof` | proofs | about `NodeEngine` |
| `ConfigPanel`, `EventSender` | components | the config form and the event sender of the console: their state and handlers |
| `Console` | composition | `App.tsx`, header, studio and banner, with the two above, the wire, and the part of `server.ts` they talk to |
| `ConsoleProof` | proofs | about `Console` |
| `MC*` | TLC | constants and symmetry of the runs |

Variables and actions have the names of the fields and functions they model;
`PROJECT.json` ("map") names the source lines of each definition. Variables
marked *history* in a module's declarations exist in the specification only, and
no guard of an action that models code reads one, with one exception: `fresh` in
`WorkerPool` says which event names a call may still use, so that every event is
posted once and its name stands for the occurrence.

### BatchProcessor

A step is what other goroutines can see as one: a channel operation, a lock, an
atomic add, the call of the sink. `runPc` is where `run()` is: at the select,
with a received event in hand (`append`), after a tick (`ticked`), in `doFlush`
(`flush`, `addFlushed`, `addBatches`, `commit`), or in `drainAndFlush`
(`drainLock`, `drain`). At the select every ready case may be taken. `mu` is the
part of `p.mu` that is visible: it is held across steps only by
`drainAndFlush`; the other critical sections are single steps that need it
free. `CallFlush` is `doFlush`'s own
early return: an empty batch never reaches the sink, whoever calls.
`FlushFails` and `FlushSucceeds` are the two outcomes of the sink. A
`Submit` that finds the channel full changes nothing and is not a step. The
ticker's channel holds one tick.

### WorkerPool

`Enqueue` is four steps (load the flag, try to send, count, return), because
`Shutdown` may run between any two of them. A send on the closed channel panics:
`net/http` recovers the panic, the goroutine ends and its client gets no answer.
`EnqueueBatch` is `Enqueue` for each event in turn. `Forward(w, ok)` is a
worker's call of `Submit`; its result is a free choice in this module and comes
from `BatchProcessor` in `GoEngine`. After the cancel a worker ranges over the
closed channel (`drain`). `QueueStats` is four reads.

### MongoStorage

Every return from `FlushBatch` in `BatchProcessor` is joined with what the sink
did; every other step of the processor leaves the sink alone. `sink` is what
`main` chose at boot: the database, when there is a URI and the ping succeeds,
else the flusher that logs the batch. A document is named by its position among
all those handed over. `BulkWrite` is `InsertMany` with `SetOrdered(false)`: on
success all documents of the batch are in the collection, on an error any set
of them is, up to all (the answer was lost). The retryable writes of the driver
do not write a document twice. `Close` has no caller.

### Bucket and KeyedRateLimiter

Tokens are integers: one token is `Unit` parts, so that any rational rate is a
whole number of parts per tick. `float64` rounding is not modelled. The buckets
are addresses in a heap, since a handler holds a pointer to a bucket between the
lock of the map and the lock of the bucket. The history variable `window` is
opened once, at any moment, and counts from then on: a property about it is a
property about every window. `Metering` has no handler, lock or pointer: its
`Fill` moves all meters with the clock, whereas a bucket of the code is refilled
only when it is asked. The refinement mapping gives a client nobody has heard of
a full meter, and a bucket nobody has asked the level it would be refilled to.

### GoEngine

Instances of `WorkerPool` and `BatchProcessor` over the same variables. A
worker's `Submit` is a joint step: `SubmitTaken` when the batch processor can
take the event, `SubmitRefused` when it cannot. `BufferSize` is half of
`QueueCap`, as in `main.go:76`. A handler goes from `serving` (accepted, reading
the body; the client may never finish) to the pool and to `Reply`, which sets
what the response says of each event: `accepted`, `refused`, or `counted` when a
batch was taken in part and the body only has two numbers. `Reject` is every
early return of the middleware and the handlers; the limiter is a free choice
here, `KeyedRateLimiter` says what it does. `main` is `mainPc`; its exit ends
every goroutine, so all actions have `Running` as a guard.

### NodeEngine

Node runs one callback at a time, so an action is a whole callback: `WorkerTick`
is the 10 ms interval with the flush it may trigger, `Release` its 8 ms timeout,
`BatchTick` the flush interval, `Reset` the 2 s timeout of a shutdown.

* The timeout of a tick fires before the next tick, hence `~releasePending` in
  `WorkerTick`.
* Time is left to chance: a refill raises the tokens to any level up to the
  burst, and the flush interval finds the window over or not.
* `IngestBatch(n, read)` reads `read` of `n` elements: the loop throws at one that
  is no object (`server.ts:290`). `read = n` is the batch without such an element.
  The field `broken` of `turnedAway` counts what was then in no counter.
* `Shutdown` empties queue and buffer but leaves `activeWorkers` alone.
  `ShutdownThrows` is the `RangeError` of `push(...queue)` for a queue too long
  for V8's stack, which `updateConfig` allows; the flag is set by then, the
  timeout is not.
* `WorkersFree` is the early return of the interval, the guard by which the
  workers can stall (section 7).
* The configuration may change at any moment among the values of the run.
  `isPaused` is never set in the code and is left out.
* The constants 25, 50, 50, 300 of the code are `Chunk`, `Share`, `Sample` and
  `Keep`, so that small instances reach their limits.

### Console, ConfigPanel and EventSender

A handler of the console is two steps. The first runs to its `fetch`: it sets
the flags and puts a request on the wire (`Poll`, `Start`, `Halt`, `Toggle`,
`SimulateShutdown`, `SubmitConfig`, `SendEvents`). The gateway handles the
request in one callback (`Handle`), and the rest of the handler runs when the
answer or a network error arrives (`Deliver`). Most handlers end by fetching the
metrics again, which puts a new request on the wire (`FetchAfter`).

* The wire is a set of slots, each with one request: what is asked, whether it
  is sent, answered or failed, and its body. Slots are handled and delivered in
  any order, so requests and answers overtake each other.
* `Lose` loses a request or its answer. `Restart` starts the gateway anew with
  its defaults and breaks off what is on the wire, but for any answers that had
  left it. `Elsewhere` is another console or a script: it saves settings, starts
  and stops load tests, or simulates a shutdown.
* The gateway of this module is smaller than `NodeEngine`: the load test and its
  interval, the shutdown flag and its timeouts, the settings, and how many
  events of a send were taken. `generators` counts running intervals, of which
  the code keeps one handle, `loadTestTimer`.
* The settings are in two parts, each standing for three fields: `watched`, in the
  dependencies of the effect that loads the form (`ConfigPanel.tsx:29`), and
  `other`, not in them. A save posts both.
* A tab switch unmounts `ConfigPanel`. Its save goes on as an `orphan`: the
  gateway obeys it, and no panel hears of the answer. The modal of the sender
  stays mounted when it is closed.
* `taken` and `meddled` are history: how many events of the last send the
  gateway took, and whether the settings were set by someone else, by a restart
  or by an orphan. `unsaved` says that the form was edited since it was loaded
  or saved. `session` is fixed at the start: which of the console's tools the user works
  with in one behaviour. It, `commands`, `others` and `faults` are bounds.

## 3. Properties and runs

| Run | Module | Checks | Distinct states | Time |
|---|---|---|---|---|
| `batch` | `MCBatchProcessor` | `TypeOK`, `OrderPreserved`, `BatchBound`, `CountersSettle`, `LoopEndLeavesNothing`, `CountedIsStored`, `ImplementsConveyor`, `EventuallyDispatched`, `StopEndsOrWedges` | 117 thousand | 80 s |
| `batch_stop_hangs` | `MCBatchProcessor` | `StopReturns`, violated | | 2 s |
| `pool` | `MCWorkerPool` | `TypeOK`, `NothingStranded`, `NothingDuplicated`, `ShutdownDrains`, `AnswerIsTruth`, `CountersAddUp` | 882 thousand | 50 s |
| `limiter` | `MCKeyedRateLimiter` | `TypeOK`, `ClientBound`, `GlobalBound`, `OneBucketPerKey`, `ImplementsMetering` | 199 thousand | 20 s |
| `go` | `MCGoEngine` | `TypeOK`, `PanicOnlyAfterTimeout`, `ReplyIsTrue`, `ExitLosesOnlyOverflow`, `ImplementsLedger` | 831 thousand | 150 s |
| `go_ends` | `MCGoEngine` | `SignalEnds`, `QueuedIsForwarded` | 87 thousand | 150 s |
| `go_accepted_is_kept` | `MCGoEngine` | `AcceptedIsKept`, violated | | 3 s |
| `go_drain_drops` | `MCGoEngine` | `DrainReachesAccumulator`, violated | | 10 s |
| `go_batch_unvalidated` | `MCGoEngine` | `ValidatedBeforeQueuing`, violated | | 2 s |
| `gateway` | `MCNodeEngine` | `TypeOK`, `NothingLostOrReordered`, `MetricsAddUp`, `ShutdownIsTimed`, `BufferedIsFlushed`, `ProcessedUnlessStalled` | 181 thousand | 170 s |
| `gateway_stalls` | `MCNodeEngine` | `QueueIsProcessed`, violated | | 4 s |
| `console` | `MCConsole` | `TypeOK`, `FlagsTellTheWire`, `GreenMeansTaken`, `OneGenerator`, `ConsoleCatchesUp`, `WatchedSettingsFollow` | 538 thousand | 130 s |

What they say, component by component:

* **Batch processor.** `OrderPreserved`: the events submitted are, in order,
  those given to the sink, those in flight, in the buffer, in hand and in the
  channel. `ImplementsConveyor` is the same seen from outside, as a refinement.
  `BatchBound`: outside the shutdown no batch is larger than `Threshold`, and the
  loop is never back at the select with a full buffer.
  `CountersSettle`: counted is what was written or failed, one atomic add apart.
  `LoopEndLeavesNothing`: when the loop ends, what is not dispatched is still in
  the channel, submitted after the drain. `EventuallyDispatched`: what was
  submitted before `Stop` reaches the sink. `StopEndsOrWedges`: `Stop` returns
  or the loop is waiting for its own mutex (section 7); nothing else can hold it.
* **Storage.** `CountedIsStored` relates the counters of the processor to the
  collection: as many documents are stored as are counted, plus at most those of
  failed batches.
* **Worker pool.** `NothingStranded`, `NothingDuplicated`: an event that entered
  the channel is in one place, or was forwarded once. `ShutdownDrains`: nothing
  is left when `Shutdown` returns, although a handler that saw the flag clear
  may send after it was set. `AnswerIsTruth`: accepted is in, refused is out.
  `CountersAddUp`: the three counters, exact but for the gap between an act and
  its count.
* **Rate limiter.** `ClientBound`, `GlobalBound`, `OneBucketPerKey` and the
  refinement of `Metering`, which also says that a client is never refused what
  its meter has, that a denied call costs nothing, and that idle time counts.
* **Go service.** `PanicOnlyAfterTimeout`: a handler panics on the closed channel
  only if the 15 s of the HTTP shutdown were over. `ReplyIsTrue`: the answer a
  client gets, the two numbers of a batch included, is what became of each of
  its events at the queue. `ExitLosesOnlyOverflow`: at exit every event
  taken in was written, was in a flush reported as failed, or met a full batch
  channel. `ImplementsLedger`: a refused event is never stored, an accepted one
  was taken in before the reply, and leaves once. `SignalEnds`: a signal leads
  past `pool.Shutdown`, whatever clients and the store do, and to the exit (or
  to the mutex) if the store answers. `QueuedIsForwarded`: no event stays in the
  queue for ever, whether the store answers or not: a full batch channel drops
  events, it does not block the workers.
* **Node gateway.** `NothingLostOrReordered`: flushed, buffered and queued
  events are the accepted ones in order. `MetricsAddUp`: the identities between
  the numbers the console shows; what they miss of the events offered is exactly
  the unread rest of batches that broke off. `BufferedIsFlushed`: also while a shutdown or a
  stall keeps the workers from running. `ProcessedUnlessStalled`: nothing but a
  shutdown and the stall of section 7 can hold a queued event up for ever.
  `ShutdownIsTimed`: the flag is clear once all shutdowns are over, however they
  overlapped, unless a push threw; then the queue is too long ever to be drained.
* **Web console.** `FlagsTellTheWire`: `shutdownSimulating`, `loading` and
  `isSaving` are set exactly while one request of their kind is on its way, so
  no button stays disabled and none posts twice. `GreenMeansTaken`: a green
  answer means that events of the last request were taken, though the modal was
  closed and opened in between. The converse does not hold: when the answer is
  lost the sender shows a 500 for events that were taken. `OneGenerator`: two
  starts on a double click, or a stop that overtakes a start, never leave two
  generators, nor one that nobody stops. `ConsoleCatchesUp`: once commands end
  the console shows what the gateway does, for good. `WatchedSettingsFollow`: an
  open form without unsaved edits ends up with the watched settings in force.

Every property of a passing run has a mutant in its module, a definition changed
the way a plausible bug would change it (a swap without a reset, a check outside
the lock, a missing return), under which TLC finds the property violated. A
mutant is named after the definition, with a suffix for the bug.

`CHECK_DEADLOCK FALSE` is set where the system really stops: a pool after its
shutdown, a process that has exited, a limiter at the end of the bounded clock.
The `gateway` runs check for deadlock.

## 4. Bounds

* `batch`: four submissions of two kinds of events, a channel of 2 and a
  threshold of 2. The channel, the buffer and a batch in flight can be full at
  once with one event to spare, and there is room for a threshold flush followed
  by a timer flush or a shutdown flush. Submissions may be equal events: nothing
  depends on their being different. Either sink is chosen at the start, and any
  flush may fail with any part of its batch stored.
* `pool`: three events, two handlers, two workers, a queue of 2, calls of one or
  two events. The queue can be full while a third event arrives, both workers
  can drain, and both handlers can be between check and send when the channel
  is closed. `QueueStats` is called once, at any moment.
* `limiter`: two clients, two handlers, three addresses (one more than needed,
  for the mutant that makes two buckets), one token per burst and half a token a
  tick, twice that for the ceiling as in `main.go`, and four ticks: refill,
  overflow of the cap, and a window that opens at any of them.
* `go`: three events, two workers, one handler, channels of 2 and 1, batches of
  up to 2. One handler at a time is enough here, since handlers meet only in the
  pool, where the run `pool` has two. `go_ends` has one worker and two events,
  the price of fairness; one of the events is invalid. With two events the batch
  channel behind a silent store can be full, but no third event meets it there;
  `go`, which has three, checks safety only.
* `gateway`: three events in all, in requests of up to two, two values for each
  of workers, capacity and burst, a queue of 3 above the stack limit of 2, two
  overlapping shutdowns. A busy worker is reckoned for one event, so that two
  events queued at a release stall two workers and `BufferedIsFlushed` is checked
  in stalls, too. `gateway_stalls` keeps the proportions of the defaults
  (a worker takes 25 and is reckoned for 50): 2 workers, 5 events.
* `console`: two requests on the wire at a time (so that one may overtake the
  other), two commands of this console, one event that comes from elsewhere (a
  command, a shutdown or a restart), one loss, two levels of each part of the settings, one
  scenario, a trend of one point. A behaviour is one of three sessions: the config tab; the
  sender; load tests with the simulated shutdown. The tools of two sessions share only
  the wire and the metrics, so what is lost are combinations like a save during
  a load test. The proofs hold for every choice of sessions and of these numbers.
* `MaxEvents`, `MaxBatch`, `MaxStats`, `MaxTime`, `MaxRefused`, `MaxTimers` bound
  histories and counters that are unbounded in the code. They appear only in the
  guards of actions of the environment.

Symmetry is used only where values are compared for equality, and never in a run
with a liveness property.

## 5. Fairness

* **Go.** Weak fairness of a goroutine: the Go scheduler is preemptive and runs
  every goroutine that can run. Strong fairness of a `select` case (`Receive`, `TakeTick`,
  `SeeCancel`): Go picks among the ready cases at random, so a case that is ready
  again and again is picked in the end. The ticker ticks, and the deadline of
  `httpServer.Shutdown` passes. Nobody is obliged to call `Submit` or `Stop`, to
  send a request or its body, or to send a signal.
* **The store.** In `batch`, fairness of `run()` includes the two outcomes of
  `FlushBatch`: it returns, with success or failure. The memory flusher always
  does. For MongoDB this is an assumption about the server, not a fact of the
  code: `processor.go:121` calls it with `context.Background()`, and the socket
  timeout of the client is 0. `go_ends` does not assume it: the fairness of
  `run()` leaves the call of the sink out, and the part of `SignalEnds` that
  needs an answer says so (`StoreAnswers`). No safety property depends on it.
* **Node.** Intervals and timeouts fire. For `BatchTick` this assumes that
  clients do not reconfigure the engine faster than its interval for ever, which
  would restart it each time. Nobody is obliged to send a request.
* **Console.** The interval polls, the gateway handles what it receives, answers
  or network errors arrive, timeouts fire. Nobody is obliged to click. That
  `Poll` finds a free slot is a consequence: every request is delivered in the
  end.

## 6. Proofs

Checked by TLAPS, for every value of the constants that meets the modules'
`ASSUME`s: positive capacities and thresholds, at least one worker, natural
rates, a nil pointer that is no address. `GoEngine` assumes in addition that the
queue has room for two events, since the batch channel has half of it, and that
the events posted are finitely many, which they are up to any moment of a
behaviour, and only a prefix of a behaviour can violate a safety property.

| Module | Theorem | Statement |
|---|---|---|
| `BatchProcessorProof` | `TypeCorrect` | `Spec => []TypeOK` |
| | `OrderCorrect` | `Spec => []OrderPreserved` |
| | `BoundCorrect` | `Spec => []BatchBound` |
| | `CountCorrect` | `Spec => []CountersSettle` |
| | `DrainCorrect` | `Spec => []LoopEndLeavesNothing` |
| | `ConveyorImplemented` | `Spec => ImplementsConveyor` |
| `WorkerPoolProof` | `TypeCorrect` | `Spec => []TypeOK` |
| | `NothingStrandedCorrect` | `Spec => []NothingStranded` |
| | `ShutdownDrainsCorrect` | `Spec => []ShutdownDrains` |
| | `AnswerIsTruthCorrect` | `Spec => []AnswerIsTruth` |
| | `NothingDuplicatedCorrect` | `Spec => []NothingDuplicated` |
| | `CountersAddUpCorrect` | `Spec => []CountersAddUp` |
| `GoEngineProof` | `TypeCorrect` | `Spec => []TypeOK` |
| | `PanicOnlyAfterTimeoutCorrect` | `Spec => []PanicOnlyAfterTimeout` |
| | `ReplyIsTrueCorrect` | `Spec => []ReplyIsTrue` |
| | `ExitLosesOnlyOverflowCorrect` | `Spec => []ExitLosesOnlyOverflow` |
| | `LedgerImplemented` | `Spec => ImplementsLedger` |
| | `PromisesKept` | `Spec => []Settled` |
| | `AccumulatorImplemented` | `Spec => BatchP!Spec` |
| | `StoreInOrder` | `Spec => BatchP!ImplementsConveyor` |
| | `PoolKeepsItsProperties` | the five safety properties of `WorkerPool` |
| | `SubmitUnboundedCorrect` | `Spec => []SubmitUnbounded` |
| | `WaitsOnlyForItselfCorrect` | `Spec => []WaitsOnlyForItself` |
| `MongoStorageProof` | `StorageTypeCorrect` | `StorageSpec => []StorageTypeOK` |
| | `CountedIsStoredCorrect` | `StorageSpec => []CountedIsStored` |
| `KeyedRateLimiterProof` | `TypeCorrect` | `Spec => []TypeOK` |
| | `OneBucketCorrect` | `Spec => []OneBucketPerKey` |
| | `ClientBoundCorrect` | `Spec => []ClientBound` |
| | `GlobalBoundCorrect` | `Spec => []GlobalBound` |
| | `MeteringImplemented` | `Spec => ImplementsMetering` |
| `NodeEngineProof` | `TypeCorrect` | `Spec => []TypeOK` |
| | `NothingLostOrReorderedCorrect` | `Spec => []NothingLostOrReordered` |
| | `MetricsAddUpCorrect` | `Spec => []MetricsAddUp` |
| | `ShutdownIsTimedCorrect` | `Spec => []ShutdownIsTimed` |
| | `StallBeginsCorrect` | `Spec => [][StallBegins]_vars` |
| | `StallStaysCorrect` | `Spec => [][StallStays]_vars` |
| | `ShortQueuesNeverStall` | `Spec => [](ShortQueues => ~Stalled)` |
| | `StuckStaysCorrect` | `Spec => [][StuckStays]_vars` |
| `ConsoleProof` | `TypeCorrect` | `Spec => []TypeOK` |
| | `OneGeneratorCorrect` | `Spec => []OneGenerator` |
| | `FlagsCorrect` | `Spec => []FlagsTellTheWire` |
| | `GreenCorrect` | `Spec => []GreenMeansTaken` |

The arguments:

* **Batch processor.** None of the properties is inductive alone: whether
  `OrderPreserved` survives a swap depends on where the loop is. `ControlOK` says
  what the loop holds at each place (an event in hand only at `append`, an empty
  buffer from the flush on, the lock held only by the drain). The invariant is
  `TypeOK /\ ControlOK /\ OrderPreserved /\ BatchBound /\ Counted`. The step
  lemmas rest on facts about concatenation in `ConcatLemmas`. The refinement maps
  `Submit` to `Admit`, the two outcomes of a flush to `Dispatch` of a prefix
  (`OrderPreserved` says that it is one), and every other step to a stutter.
* **Worker pool.** `AnswerIsTruth` needs to know whose an event is between the
  check and the count: `RequestsOK` says that the events of a call belong to one
  handler, were not answered, and that only the one about to be counted is in
  the channel. `ShutdownDrains` needs `WorkersOK` (a worker is done only when the
  channel is closed and empty, and holds an event only on its way to `Submit`),
  `ShutdownOK` (where `Shutdown` is says what it has done) and `Conserved`, the
  equality of which `NothingStranded` is one half. It uses that there is a
  worker: with none, `Shutdown` would return over a full channel.
  `NothingDuplicated` and `CountersAddUp` equate cardinalities, and a sum over
  places tells nothing about a step unless the places are apart. `Once` says
  so element by element: the channel holds an event once, no two workers hold
  the same one, and channel, hands and the two results of `Submit` have none in
  common. `Counted` is then the two equations with the hands counted by where
  the workers are, together with `Finite`: every set counted is finite, though
  `Event`, `Worker` and `Handler` need not be, since a step moves one worker or
  one handler (`WorkerMoves`, `HandlerMoves`).
* **Go service.** The components' invariants are cited, not proved again:
  `PoolP` and `BatchP` are instances of the proof modules over the variables of
  `GoEngine`. `BatchSteps` shows that every step of the service is a step of the
  accumulator or leaves it alone. For the pool `PoolSteps` has one exception:
  `Reject` takes events a client posted from `fresh` without a call, which keeps
  the pool's invariant because it says nothing of an event but what calls do with
  it. On top of these, `EngineInv` says where the parts are in relation to each
  other. `PhasesOK` orders `mainPc`, `shutPc`, `stopPc` and the loop's place: what
  each of them has reached implies what the one before has finished. `ServedOK`
  ties a call of the pool to a request the router serves; it is what makes
  `PanicOnlyAfterTimeout` inductive, since a handler at its send when the channel
  closes is one main did not wait for. `AdmittedOnce` turns the sets of `HandOver`
  (what the pool forwarded is what the batch processor admitted) into positions,
  so that one more on either side is one more on the other.
  `DrainedOK`: nothing enters the channel of the accumulator behind its drain,
  because a worker that could submit keeps main before `batchProc.Stop`.
  `UnwrittenOK`: a failed flush is of dispatched events. `PostedOK` and `CountsOK`
  relate a request to what its reply will say: its events are nobody else's, have
  no answer yet, and its tally counts those the queue took and turned away; that
  a count of events in sequence is a count of a set rests on `HeadOnce`, that no
  event is in a request twice.
  `ExitLosesOnlyOverflow` is then an argument about places, from the pool's
  `ShutdownDrains`, `HandOver` and the accumulator's `LoopEndLeavesNothing`. The
  refinement maps the send into `taskCh` to `TakeIn`, a reply and a rejection to
  `Tell`, the outcomes of a flush to `Store` and `Lose`, a refused `Submit` to
  `Lose`, and all else to a stutter.
* **Go service, consequences.** `PromisesKept` reads the ledger as a state: an
  event accepted is inside, written or lost and never two of these, one refused
  is none of them. `AccumulatorImplemented`, `StoreInOrder` and
  `PoolKeepsItsProperties` say that what was proved of each component alone, with
  any caller, holds of it inside the service. `SubmitUnboundedCorrect` shows that
  the bound `MaxEvents` of `BatchProcessor` takes nothing away here.
  `WaitsOnlyForItselfCorrect` is the safety half of `SignalEnds`: past the close
  of the channel no worker can be waiting, and past the cancel the loop can wait
  for one thing, the mutex it holds itself (section 7).
* **Rate limiter.** The bound follows from an account: what a bucket granted in
  the window plus its level now is at most its capacity plus what its rate added
  since the window opened. The level is that of the lazily refilled bucket, and
  the account has to hold between the lookup and the draw, so the invariant
  includes which bucket a handler's pointer leads to (`PointersOK`,
  `OneBucketPerKey`). The refinement is the lemma that refilling in one step what
  was refilled up to an earlier time gives what refilling tick by tick gives,
  the cap included.
* **Storage.** `StepIsProcessorStep` shows that a step with the sink is a step of
  `BatchProcessor`, so its invariant carries over. `StoredOK` adds what the
  collection is between the write and the atomic add that counts it: the size of
  `stored` lies between what is written and what is written or failed.
* **Node gateway.** The invariant is the conjunction of `TypeOK`,
  `NothingLostOrReordered` and `MetricsAddUp`. It
  is inductive because the type invariant speaks of *some* capacity, threshold
  and number of workers among those that can be set, which a change of the
  configuration keeps. One lemma, `AnsweredOK`, covers every outcome of a
  request; `FlushIs`, `FlushKeepsOrder` and `FlushCounts` say what a flush does
  to order and sums, wherever it is triggered from. That a flushed batch is never
  empty, which `totalBatchesFlushed <= totalEventsFlushed` needs, rests on the
  assumption that thresholds are positive.
* **Node gateway, what holds it up.** The run `gateway_stalls` finds one stall;
  three theorems say what stalls are. They begin at a release that finds more than
  `Share * (workerCount - 1)` events queued, or when the workers are made fewer,
  and nothing ends them but more workers. They never begin if that product is at
  least the capacity in every configuration in use: with the 50 of the code and 32
  workers, up to a capacity of 1550. The default is 50000, and the largest number
  of workers `updateConfig` allows, 256, is good for 12750. A
  shutdown has one way to stick. `ShutdownIsTimed` is inductive, because requests
  only lengthen the queue (`QueueGrows`) and nothing that shortens it runs while
  the flag is set but another shutdown, which sets a timeout; where it holds by
  its second half, with no timeout left, `StuckStaysCorrect` says that the
  shutdown is never over.
* **Console.** `FlagsTellTheWire` needs to know that a slot of the wire holds what
  the flag stands for and that an orphan is no save of the open panel; `WireOK`
  types every request by its operation, `GatewayOK` ties `loadTimer`,
  `generators` and the test shown, `FlagsOK` states the flags by existence and
  uniqueness of a slot (cardinalities follow at the end), and `SentOK` says what
  an answered or failed send has taken.

Only model-checked: the liveness properties, since TLAPS treats neither fairness
nor `ENABLED`. They are `EventuallyDispatched`, `StopEndsOrWedges`, `SignalEnds`,
`QueuedIsForwarded`, `BufferedIsFlushed`, `ProcessedUnlessStalled`,
`ConsoleCatchesUp` and `WatchedSettingsFollow`. Every safety
property and every refinement a passing run checks is also proved. The five
properties the code violates have a counterexample and no theorem.

## 7. Where the code and its documentation part

Each with a run's name is a run that TLC ends with a counterexample.

* **`Stop` never returns after a successful final flush** (`batch_stop_hangs`).
  `drainAndFlush` holds `p.mu` (`processor.go:149`) and calls `doFlush`, which
  locks it again (`:137`). The batch is written by then, so what is lost is the
  exit, not data. A failing flush does not hang: it returns before the lock.
* **An event answered 202 may be dropped** (`go_accepted_is_kept`). The batch
  channel has half the capacity of the queue; a worker that finds it full counts
  the event as dropped (`pool.go:88`).
* **The drain at shutdown ignores the result of `Submit`** (`go_drain_drops`,
  `pool.go:75`): an event lost there is counted as processed.
* **The batch endpoint queues events that were never validated**
  (`go_batch_unvalidated`, `router.go:131`).
* **The gateway's workers stall** (`gateway_stalls`, `server.ts:162`). The
  timeout that should release the workers sets how many of them are busy from the
  length of the queue, one for every 50 events begun. When that is all of them,
  the interval returns early and no timeout is ever set again. With 32 workers one batch of 2351
  events is enough: 800 are taken, and the 1551 left make `ceil(1551/50) = 32`.
* Five smaller things, seen while modelling and not the subject of a run.
  `QueueStats` is four reads (`pool.go:126`, `:128`-`131`), so it may show more
  events queued than accepted. The effect that loads the config form
  (`ConfigPanel.tsx:29`) names three of the six settings it loads: the other
  three stay as they were when only they change in the gateway, and since a save
  posts all six, saving from such a form sets them back.
  `simulateGracefulShutdown` sets its flag before `push(...queue)`
  (`server.ts:437`, `:449`), which throws for a queue too long for V8's stack; the timeout
  that would clear the flag is not set then, and the workers do not run again
  (`StuckStaysCorrect`). A `null` among the `events` of a batch throws in the loop
  of `ingestBatch` (`server.ts:290`): the client is told 500, the events before it
  are queued and counted, it and those behind it are in no counter; a client that
  sends the batch again stores the first ones twice. `router.go:61` says that the
  limit is per client IP; the key is `RemoteAddr`, IP and port, unless a proxy
  names the client, so a new connection has a new bucket.

`processor.go:88` calls a method `flushCurrent` that does not exist, so the file
does not compile as committed. The call is in the branch for a closed `inCh`,
and nothing closes `inCh`; the model has no such branch and describes the code
with that line replaced by any call.

## 8. What is not modelled

* **Storage**: pool sizes, timeouts and indexes, which are settings of the
  driver, and `Close`, which nothing calls. The collection is written by this
  service only.
* **Web console**: `fetchLogs`, which works like `fetchMetrics` for a list nothing
  acts on; the texts and pretended latencies of answers; what only draws: charts,
  cards, the log viewer, the architecture and code views (*Console views*).
* **Reads** that change nothing: `Metrics` of the batch processor, `Available`,
  healthz and the metrics endpoint. `Metrics` reads the pending length under the
  lock and the counters after it, so an event flushed in between shows as pending
  and as flushed.
* **The edges of the configuration** of the Go service: a channel capacity below
  2 makes the batch channel unbuffered; no workers at all; a threshold of 0 or
  less; a flush window of 0, on which `NewTicker` panics. The `ASSUME`s exclude
  them. A failing listener exits the process without a shutdown.
* **Arithmetic**: `float64` rounding in the buckets; wrap-around of 64-bit
  counters, which no run of the program reaches.
* **The map of buckets** has no bound and no eviction; a global token drawn for a
  request the client's bucket then refuses is not given back. Both are modelled
  as they are, and nothing in the code promises otherwise.
* **Node gateway**: latencies, the log ring, the per-second rates, static files
  and the code browser. A negative `rateLimitRps` or `rateLimitBurst`, which
  `updateConfig` does not clamp, is outside the modelled configurations.
* **Benchmarks, build and deployment** keep no state.

## 9. Plan

Done: the Go service module by module and composed, its storage, the gateway, the
console, and the proofs of section 6: every safety property and refinement of
the runs. Left, in this order:

1. `Console` over `NodeEngine` in place of its smaller gateway, if the product of
   the two can be kept within TLC's reach.
2. For the console, what `ConsoleCatchesUp` and `WatchedSettingsFollow` rest on and
   needs no fairness, as theorems: which answers an older one may overwrite.

## 10. Running the checks

    tlc -config batch.cfg MCBatchProcessor.tla      # likewise the other runs
    tlapm BatchProcessorProof.tla                   # likewise the other proofs
