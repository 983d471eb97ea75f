----------------------------- MODULE NodeEngine -----------------------------
(***************************************************************************)
(* The IngestionEngine of server.ts, the Node twin of the Go engine that   *)
(* the console talks to.  Node runs one callback at a time, so an action   *)
(* is a whole callback: a request handler, an interval or a timeout.  What *)
(* interleaves is the order of the callbacks.                              *)
(*                                                                         *)
(* Events are numbered in the order they are accepted.  Time is left to    *)
(* chance: how much a bucket has been refilled and whether the flush       *)
(* window is over is any value the clock allows.  Latencies, the log and   *)
(* the per-second rates are left out; isPaused is never set.               *)
(***************************************************************************)
EXTENDS Integers, Sequences, FiniteSets, SequencesExt

CONSTANTS
    WorkerCounts, Capacities, Thresholds, Bursts,   \* what updateConfig can set
    Chunk,          \* items a free worker takes in one tick (25)
    Share,          \* items a busy worker is reckoned for (50)
    PerToken,       \* events of a batch paid for with one token (50)
    Sample, Keep,   \* events of a batch that are persisted (50), and of all (300)
    SpreadLimit,    \* arguments a call of push can have on V8's stack
    MaxEvents,      \* bound: events in all requests together
    MaxBatch,       \* bound: events in a request
    MaxRefused,     \* bound: batches answered 429, which may be empty
    MaxTimers       \* bound: shutdowns less than 2 s old

ASSUME ConfigAssumption ==
    /\ \A S \in {WorkerCounts, Capacities, Thresholds, Bursts} :
         S # {} /\ IsFiniteSet(S) /\ S \subseteq Nat \ {0}
    /\ {Chunk, Share, PerToken, Sample, Keep} \subseteq Nat \ {0}
    /\ MaxBatch \in Nat /\ SpreadLimit \in Nat

VARIABLES
    workerCount, channelCapacity, batchThreshold, rateLimitBurst,   \* the configuration
    availableTokens,
    queue, batchBuffer,
    activeWorkers,
    releasePending,     \* a tick's 8 ms timeout has not fired
    isShuttingDown,
    resetTimers,        \* how many shutdowns' 2 s timeouts have not fired
    loadTestActive,
    persistedTimeSeries,
    totalAccepted, totalDropped, totalProcessed, rateLimitedRequests,
    totalBatchesFlushed, totalEventsFlushed, totalBatchErrors,
    offered,            \* history: events in all requests so far
    turnedAway,         \* history: [limited, batches, invalid, broken], the events 429,
                        \* 400 and 500 answered, and how many batches got a 429
    flushed,            \* history: all flushed events, in order
    drained             \* history: events shutdowns moved past the workers

config   == <<workerCount, channelCapacity, batchThreshold, rateLimitBurst>>
answers  == <<totalDropped, rateLimitedRequests, offered, turnedAway>>
flushes  == <<persistedTimeSeries, totalBatchesFlushed, totalEventsFlushed,
              totalBatchErrors, flushed>>
workers  == <<activeWorkers, releasePending, totalProcessed>>
shutdown == <<isShuttingDown, resetTimers, drained>>
vars == <<config, answers, flushes, workers, shutdown, availableTokens, queue,
          batchBuffer, totalAccepted, loadTestActive>>

Least(a, b) == IF a < b THEN a ELSE b
CeilDiv(a, b) == (a + b - 1) \div b

Init ==
    /\ workerCount \in WorkerCounts /\ channelCapacity \in Capacities
    /\ batchThreshold \in Thresholds /\ rateLimitBurst \in Bursts
    /\ availableTokens = rateLimitBurst
    /\ queue = <<>> /\ batchBuffer = <<>>
    /\ activeWorkers = 0 /\ releasePending = FALSE
    /\ isShuttingDown = FALSE /\ resetTimers = 0 /\ drained = 0
    /\ loadTestActive = FALSE
    /\ persistedTimeSeries = <<>>
    /\ totalAccepted = 0 /\ totalDropped = 0 /\ totalProcessed = 0
    /\ rateLimitedRequests = 0
    /\ totalBatchesFlushed = 0 /\ totalEventsFlushed = 0 /\ totalBatchErrors = 0
    /\ offered = 0
    /\ turnedAway = [limited |-> 0, batches |-> 0, invalid |-> 0, broken |-> 0]
    /\ flushed = <<>>

-----------------------------------------------------------------------------
(* The rate limiter.                                                       *)

\* refillTokens for whatever time has passed: any level up to the burst.
RefillLevels == availableTokens..rateLimitBurst

\* getMetrics refills, and changes nothing else.
GetMetrics ==
    /\ availableTokens' \in RefillLevels
    /\ UNCHANGED <<config, answers, flushes, workers, shutdown, queue, batchBuffer,
                   totalAccepted, loadTestActive>>

-----------------------------------------------------------------------------
(* Ingestion.  Nothing here looks at isShuttingDown.                       *)

Numbered(from, n) == [i \in 1..n |-> from + i]

\* n more events are accepted.
Accept(n) ==
    /\ queue' = queue \o Numbered(totalAccepted, n)
    /\ totalAccepted' = totalAccepted + n

IngestSingle(valid) ==
    /\ offered < MaxEvents
    /\ offered' = offered + 1
    /\ \E tokens \in RefillLevels :
         IF tokens < 1
           THEN /\ availableTokens' = tokens
                /\ rateLimitedRequests' = rateLimitedRequests + 1
                /\ turnedAway' = [turnedAway EXCEPT !.limited = @ + 1]
                /\ UNCHANGED <<queue, totalAccepted, totalDropped>>
           ELSE /\ availableTokens' = tokens - 1
                /\ UNCHANGED rateLimitedRequests
                /\ \/ /\ ~valid
                      /\ turnedAway' = [turnedAway EXCEPT !.invalid = @ + 1]
                      /\ UNCHANGED <<queue, totalAccepted, totalDropped>>
                   \/ /\ valid /\ Len(queue) >= channelCapacity
                      /\ totalDropped' = totalDropped + 1
                      /\ UNCHANGED <<queue, totalAccepted, turnedAway>>
                   \/ /\ valid /\ Len(queue) < channelCapacity
                      /\ Accept(1)
                      /\ UNCHANGED <<totalDropped, turnedAway>>
    /\ UNCHANGED <<config, flushes, workers, shutdown, batchBuffer, loadTestActive>>

\* The queue may hold more than a capacity that was lowered since.
Room == channelCapacity - Len(queue)

\* Events are taken one by one while there is room, without validation.  A
\* refused batch is counted once by allowRateLimit, then event by event.  The
\* loop throws at an element that is no object: the request is answered 500, the
\* events read before it stay, it and the ones behind it are counted nowhere.
IngestBatch(n, read) ==
    /\ offered + n <= MaxEvents /\ turnedAway.batches < MaxRefused
    /\ offered' = offered + n
    /\ \E tokens \in RefillLevels :
         LET cost == IF n = 0 THEN 1 ELSE CeilDiv(n, PerToken)
             fit  == IF Room <= 0 THEN 0 ELSE Least(read, Room)
         IN IF tokens < cost
              THEN /\ availableTokens' = tokens
                   /\ rateLimitedRequests' = rateLimitedRequests + 1 + n
                   /\ turnedAway' = [turnedAway EXCEPT !.limited = @ + n, !.batches = @ + 1]
                   /\ UNCHANGED <<queue, totalAccepted, totalDropped>>
              ELSE /\ availableTokens' = tokens - cost
                   /\ Accept(fit)
                   /\ totalDropped' = totalDropped + (read - fit)
                   /\ turnedAway' = [turnedAway EXCEPT !.broken = @ + (n - read)]
                   /\ UNCHANGED rateLimitedRequests
    /\ UNCHANGED <<config, flushes, workers, shutdown, batchBuffer, loadTestActive>>

\* The load generator: an interval that ingests batches while it is active.
StartLoadTest ==
    /\ loadTestActive' = TRUE
    /\ UNCHANGED <<config, answers, flushes, workers, shutdown, availableTokens,
                   queue, batchBuffer, totalAccepted>>

StopLoadTest ==
    /\ loadTestActive' = FALSE
    /\ UNCHANGED <<config, answers, flushes, workers, shutdown, availableTokens,
                   queue, batchBuffer, totalAccepted>>

LoadTick(n) == loadTestActive /\ n > 0 /\ IngestBatch(n, n)

-----------------------------------------------------------------------------
(* The flush.                                                              *)

FirstOf(s, n) == SubSeq(s, 1, Least(n, Len(s)))

\* Mutant of Flush: the buffer is not replaced by an empty one.
Flush_NoReset(buffer) ==
    /\ batchBuffer' = buffer
    /\ totalBatchesFlushed' = totalBatchesFlushed + 1
    /\ totalEventsFlushed' = totalEventsFlushed + Len(buffer)
    /\ flushed' = flushed \o buffer
    /\ persistedTimeSeries' =
         FirstOf(Reverse(FirstOf(buffer, Sample)) \o persistedTimeSeries, Keep)
    /\ UNCHANGED totalBatchErrors

\* triggerFlush with this buffer: the first events of the batch are put at the
\* front of the time series one by one, the oldest fall off its end.  The batch
\* counts as flushed when the bulk write fails too.
Flush(buffer) ==
    /\ batchBuffer' = <<>>
    /\ totalBatchesFlushed' = totalBatchesFlushed + 1
    /\ totalEventsFlushed' = totalEventsFlushed + Len(buffer)
    /\ flushed' = flushed \o buffer
    /\ persistedTimeSeries' =
         FirstOf(Reverse(FirstOf(buffer, Sample)) \o persistedTimeSeries, Keep)
    /\ totalBatchErrors' \in {totalBatchErrors, totalBatchErrors + 1}

NoFlush(buffer) == batchBuffer' = buffer /\ UNCHANGED flushes

\* Mutant of BatchTick: the interval flushes full batches only.
BatchTick_FullOnly ==
    /\ Len(batchBuffer) >= batchThreshold
    /\ Flush(batchBuffer)
    /\ UNCHANGED <<config, answers, workers, shutdown, availableTokens, queue,
                   totalAccepted, loadTestActive>>

\* The interval finds the window over.
BatchTick ==
    /\ batchBuffer # <<>>
    /\ Flush(batchBuffer)
    /\ UNCHANGED <<config, answers, workers, shutdown, availableTokens, queue,
                   totalAccepted, loadTestActive>>

-----------------------------------------------------------------------------
(* The workers.                                                            *)

ThresholdReached(buffer) == Len(buffer) >= batchThreshold

\* Mutant of WorkersFree: the workers wait for a full batch.
WorkersFree_FullOnly == workerCount > activeWorkers /\ Len(queue) >= batchThreshold

\* The interval does not return early.
WorkersFree == workerCount > activeWorkers /\ queue # <<>>

\* The 10 ms interval.  The 8 ms timeout of the tick before has fired.
WorkerTick ==
    /\ ~isShuttingDown /\ ~releasePending /\ WorkersFree
    /\ LET n == Least((workerCount - activeWorkers) * Chunk, Len(queue))
           buffer == batchBuffer \o SubSeq(queue, 1, n)
       IN /\ activeWorkers' = Least(workerCount, CeilDiv(Len(queue), Share) + 1)
          /\ queue' = SubSeq(queue, n + 1, Len(queue))
          /\ totalProcessed' = totalProcessed + n
          /\ IF ThresholdReached(buffer) THEN Flush(buffer) ELSE NoFlush(buffer)
    /\ releasePending' = TRUE
    /\ UNCHANGED <<config, answers, shutdown, availableTokens, totalAccepted, loadTestActive>>

\* The timeout reckons the busy workers from what is queued by then.
Release ==
    /\ releasePending
    /\ releasePending' = FALSE
    /\ activeWorkers' = Least(workerCount, CeilDiv(Len(queue), Share))
    /\ UNCHANGED <<config, answers, flushes, shutdown, availableTokens, queue,
                   batchBuffer, totalAccepted, totalProcessed, loadTestActive>>

-----------------------------------------------------------------------------
(* The simulated shutdown.                                                 *)

\* Mutant of Shutdown: the queue is put in front of the buffer.
Shutdown_QueueFirst ==
    /\ resetTimers < MaxTimers /\ Len(queue) <= SpreadLimit
    /\ isShuttingDown' = TRUE /\ loadTestActive' = FALSE
    /\ LET buffer == queue \o batchBuffer
       IN IF buffer = <<>> THEN NoFlush(buffer) ELSE Flush(buffer)
    /\ queue' = <<>>
    /\ drained' = drained + Len(queue)
    /\ resetTimers' = resetTimers + 1
    /\ UNCHANGED <<config, answers, workers, availableTokens, totalAccepted>>

\* The queue goes to the buffer, past the workers and their counter, and is
\* flushed with it; a timeout is set to end the shutdown.
Shutdown ==
    /\ resetTimers < MaxTimers /\ Len(queue) <= SpreadLimit
    /\ isShuttingDown' = TRUE /\ loadTestActive' = FALSE
    /\ LET buffer == batchBuffer \o queue
       IN IF buffer = <<>> THEN NoFlush(buffer) ELSE Flush(buffer)
    /\ queue' = <<>>
    /\ drained' = drained + Len(queue)
    /\ resetTimers' = resetTimers + 1
    /\ UNCHANGED <<config, answers, workers, availableTokens, totalAccepted>>

\* push(...queue) throws when the queue is too long to be spread on the stack:
\* the flag is set by then, the timeout is not.
ShutdownThrows ==
    /\ Len(queue) > SpreadLimit
    /\ isShuttingDown' = TRUE /\ loadTestActive' = FALSE
    /\ UNCHANGED <<config, answers, flushes, workers, availableTokens, queue,
                   batchBuffer, totalAccepted, resetTimers, drained>>

\* Mutant of Reset: a shutdown is over only if the queue has stayed empty.
Reset_WhenEmpty ==
    /\ resetTimers > 0
    /\ resetTimers' = resetTimers - 1
    /\ isShuttingDown' = (queue # <<>>)
    /\ UNCHANGED <<config, answers, flushes, workers, availableTokens, queue, drained,
                   batchBuffer, totalAccepted, loadTestActive>>

\* A timeout fires: the flag is cleared whichever shutdown set it.
Reset ==
    /\ resetTimers > 0
    /\ resetTimers' = resetTimers - 1
    /\ isShuttingDown' = FALSE
    /\ UNCHANGED <<config, answers, flushes, workers, availableTokens, queue, drained,
                   batchBuffer, totalAccepted, loadTestActive>>

-----------------------------------------------------------------------------
(* updateConfig.  A field that is left out keeps its value.                *)

\* Mutant of UpdateConfig: a lower burst leaves the tokens alone.
UpdateConfig_KeepsTokens ==
    /\ workerCount' \in WorkerCounts /\ channelCapacity' \in Capacities
    /\ batchThreshold' \in Thresholds /\ rateLimitBurst' \in Bursts
    /\ UNCHANGED <<answers, flushes, workers, shutdown, queue, batchBuffer,
                   totalAccepted, loadTestActive, availableTokens>>

UpdateConfig ==
    /\ workerCount' \in WorkerCounts /\ channelCapacity' \in Capacities
    /\ batchThreshold' \in Thresholds /\ rateLimitBurst' \in Bursts
    /\ availableTokens' = Least(availableTokens, rateLimitBurst')
    /\ UNCHANGED <<answers, flushes, workers, shutdown, queue, batchBuffer,
                   totalAccepted, loadTestActive>>

-----------------------------------------------------------------------------
Next ==
    \/ \E valid \in BOOLEAN : IngestSingle(valid)
    \/ \E n \in 0..MaxBatch : LoadTick(n) \/ \E read \in 0..n : IngestBatch(n, read)
    \/ StartLoadTest \/ StopLoadTest
    \/ WorkerTick \/ Release \/ BatchTick
    \/ Shutdown \/ ShutdownThrows \/ Reset
    \/ UpdateConfig \/ GetMetrics

Spec == Init /\ [][Next]_vars

\* Intervals and timeouts fire.  Nobody is obliged to send a request.
FairSpec == Spec /\ WF_vars(WorkerTick) /\ WF_vars(Release)
                 /\ WF_vars(BatchTick) /\ WF_vars(Reset)

-----------------------------------------------------------------------------
(* Properties.                                                             *)

\* The values every variable ranges over.
TypeOK ==
    /\ workerCount \in WorkerCounts /\ channelCapacity \in Capacities
    /\ batchThreshold \in Thresholds /\ rateLimitBurst \in Bursts
    /\ availableTokens \in 0..rateLimitBurst
    /\ queue \in Seq(Nat) /\ \E c \in Capacities : Len(queue) <= c
    /\ batchBuffer \in Seq(Nat) /\ \E c \in Thresholds : Len(batchBuffer) < c
    /\ activeWorkers \in Nat /\ \E c \in WorkerCounts : activeWorkers <= c
    /\ resetTimers \in Nat
    /\ releasePending \in BOOLEAN /\ isShuttingDown \in BOOLEAN /\ loadTestActive \in BOOLEAN
    /\ totalAccepted \in Nat /\ totalDropped \in Nat /\ totalProcessed \in Nat
    /\ rateLimitedRequests \in Nat /\ drained \in Nat /\ offered \in Nat
    /\ totalBatchesFlushed \in Nat /\ totalEventsFlushed \in Nat /\ totalBatchErrors \in Nat
    /\ turnedAway \in [limited : Nat, batches : Nat, invalid : Nat, broken : Nat]
    /\ persistedTimeSeries \in Seq(Nat) /\ Len(persistedTimeSeries) <= Keep
    /\ flushed \in Seq(Nat)

\* Whatever the order of requests, ticks, timeouts, shutdowns and changes of the
\* configuration, no accepted event is lost, doubled or overtaken: what was
\* flushed, what is buffered and what is queued are the accepted events in order.
NothingLostOrReordered ==
    flushed \o batchBuffer \o queue = Numbered(0, totalAccepted)

\* The metrics of the console add up: every offered event is accepted, dropped,
\* invalid, rate limited (batches are counted once more than they have events) or
\* in the unread rest of a batch that broke the loop; every accepted event is queued, processed, or drained by a shutdown, which
\* counts no event as processed; every event flushed was processed or drained.
MetricsAddUp ==
    /\ offered = totalAccepted + totalDropped + turnedAway.invalid + turnedAway.limited
                  + turnedAway.broken
    /\ rateLimitedRequests = turnedAway.limited + turnedAway.batches
    /\ totalAccepted = Len(queue) + totalProcessed + drained
    /\ totalProcessed + drained = Len(batchBuffer) + totalEventsFlushed
    /\ totalBatchErrors <= totalBatchesFlushed /\ totalBatchesFlushed <= totalEventsFlushed

\* What the workers have put into the buffer is flushed in the end, also while
\* a shutdown keeps the workers from running.
BufferedIsFlushed == \A i \in 1..MaxEvents : (i \in ToSet(batchBuffer)) ~> (i \in ToSet(flushed))

\* However shutdowns overlap, their timeouts fire and requests come in between,
\* the flag is clear once every shutdown is over: while it is set, a timeout is
\* left to clear it.  The exception is the push that threw (server.ts:447): it
\* leaves a queue too long to be spread, which then can never be drained.
ShutdownIsTimed == isShuttingDown => resetTimers > 0 \/ Len(queue) > SpreadLimit

\* All workers count as busy and no timeout is left that would release them.
Stalled == activeWorkers >= workerCount /\ ~releasePending

\* An event in the queue leaves it, whatever else happens, unless the workers
\* stall or a shutdown is on: nothing but these two can hold it up.
ProcessedUnlessStalled == \A i \in 1..MaxEvents :
    (i \in ToSet(queue)) ~> (i \notin ToSet(queue) \/ Stalled \/ isShuttingDown)

\* The interval processes what is queued (server.ts:137, "Process queue items
\* concurrently via bounded worker logic").  Violated: when more is queued at the
\* release than the workers are reckoned for, all of them count as busy, the
\* interval returns early and no timeout is left that would release them.
QueueIsProcessed == \A i \in 1..MaxEvents :
    (i \in ToSet(queue) /\ ~isShuttingDown) ~> (i \notin ToSet(queue) \/ isShuttingDown)
=============================================================================
