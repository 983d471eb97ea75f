------------------------------ MODULE GoEngine ------------------------------
(***************************************************************************)
(* The Go service: the HTTP handlers of internal/router, the worker pool,  *)
(* the batch processor and the shutdown sequence of cmd/server/main.go,    *)
(* composed.  WorkerPool and BatchProcessor are instances over shared      *)
(* variables; a worker's call of Submit is a joint step of the two.  The   *)
(* rate limiter is a free choice here: KeyedRateLimiter says what it does. *)
(***************************************************************************)
EXTENDS Naturals, Sequences, FiniteSets, SequencesExt

CONSTANTS
    Event,          \* the events clients post
    Valid,          \* those that event.Validate accepts
    Worker, Handler,
    QueueCap,       \* CHANNEL_BUFFER_CAP
    Threshold,      \* BATCH_THRESHOLD
    MaxBatch        \* bound: events in one request

\* Up to any moment clients have posted finitely many events.  With QueueCap below
\* 2 the batch channel is unbuffered (main.go:76), which is not modelled.
ASSUME EventAssumption == IsFiniteSet(Event)
ASSUME ValidAssumption == Valid \subseteq Event
ASSUME WorkerAssumption == Worker # {}
ASSUME QueueCapAssumption == QueueCap \in Nat \ {0, 1}
ASSUME ThresholdAssumption == Threshold \in Nat \ {0}
ASSUME MaxBatchAssumption == MaxBatch \in Nat

BufferSize == QueueCap \div 2

VARIABLES
    taskCh, chClosed, poolCtxDone, shuttingDown, accepted, dropped, processed,
    workerPc, task, handlerPc, request, tally, shutPc, statsPc, stats, statsCalls,
    fresh, answer, sent, submitted, refused,
    inCh, buffer, mu, runPc, held, toFlush, ctxDone, tick, stopPc, totalFlushed,
    totalBatches, flushErrors, admitted, dispatched, failed,
    mainPc,         \* where main() is
    httpPc,         \* [Handler -> where the request it serves is]
    posted,         \* [Handler -> the events of that request]
    httpTimedOut,   \* history: httpServer.Shutdown gave up waiting
    told,           \* history: what the response said of each event
    unwritten       \* history: events of failed flushes

Pool  == INSTANCE WorkerPool WITH MaxStats <- 0
Batch == INSTANCE BatchProcessor WITH MaxEvents <- Cardinality(Event)

poolCore == <<taskCh, chClosed, poolCtxDone, shuttingDown, accepted, dropped, processed,
              workerPc, task, handlerPc, request, tally, shutPc, statsPc, stats, statsCalls>>
poolHist == <<answer, sent, submitted, refused>>
poolVars == <<poolCore, poolHist, fresh>>
batchVars == <<inCh, buffer, mu, runPc, held, toFlush, ctxDone, tick, stopPc, totalFlushed,
               totalBatches, flushErrors, admitted, dispatched, failed>>
routerVars == <<httpPc, posted, told>>
mainVars == <<mainPc, httpTimedOut>>
vars == <<poolVars, batchVars, routerVars, mainVars, unwritten>>

Init ==
    /\ Pool!Init /\ Batch!Init
    /\ mainPc = "serving" /\ httpTimedOut = FALSE
    /\ httpPc = [h \in Handler |-> "idle"]
    /\ posted = [h \in Handler |-> <<>>]
    /\ told = [e \in Event |-> "none"]
    /\ unwritten = {}

Running == mainPc # "exited"

-----------------------------------------------------------------------------
(* The router.                                                             *)

\* The response to handler h's request says what of all its events.
Respond(events, what) ==
    told' = [e \in Event |-> IF e \in ToSet(events) THEN what ELSE told[e]]

\* A request arrives while the listener is open.
Accept(h) ==
    /\ mainPc = "serving"
    /\ httpPc[h] = "idle"
    /\ httpPc' = [httpPc EXCEPT ![h] = "serving"]
    /\ UNCHANGED <<poolVars, batchVars, posted, told, mainVars, unwritten>>

\* 429 from the middleware, 400 for a body that cannot be read or parsed: the
\* handler returns before the pool is called.
Reject(h, events) ==
    /\ Running /\ httpPc[h] = "serving"
    /\ fresh' = fresh \ ToSet(events)
    /\ Respond(events, "refused")
    /\ httpPc' = [httpPc EXCEPT ![h] = "idle"]
    /\ UNCHANGED <<poolCore, poolHist, batchVars, posted, mainVars, unwritten>>

\* handleSingleEvent lets an event past ParseEvent, which validates it.
\* handleBatchEvents only decodes: it never calls Validate.
PassesParsing(events, kind) == kind = "single" => ToSet(events) \subseteq Valid

HandleEvents(h, events, kind) ==
    /\ Running /\ httpPc[h] = "serving"
    /\ kind = "single" => Len(events) = 1
    /\ PassesParsing(events, kind)
    /\ Pool!Call(h, events)
    /\ posted' = [posted EXCEPT ![h] = events]
    /\ httpPc' = [httpPc EXCEPT ![h] = kind]
    /\ UNCHANGED <<batchVars, told, mainVars, unwritten>>

\* One event of the request goes through Enqueue.
EnqueueStep(h) ==
    /\ Running
    /\ Pool!Enqueue(h)
    /\ UNCHANGED <<batchVars, routerVars, mainVars, unwritten>>

\* Mutant of Reply: a batch is answered 202 unless all of it was accepted.
Outcome_Swapped(kind, t) ==
    IF t.dropped > 0 /\ t.accepted = 0 THEN "accepted"
    ELSE IF t.dropped > 0 THEN "counted" ELSE "accepted"

\* What the status and the body say: 202 or 503 for a single event, for a batch
\* 503 only if nothing was accepted, else 202 with two numbers.
Outcome(kind, t) ==
    IF t.dropped > 0 /\ t.accepted = 0 THEN "refused"
    ELSE IF t.dropped > 0 THEN "counted" ELSE "accepted"

Reply(h) ==
    /\ Running
    /\ httpPc[h] \in {"single", "batch"} /\ handlerPc[h] = "idle"
    /\ Respond(posted[h], Outcome(httpPc[h], tally[h]))
    /\ httpPc' = [httpPc EXCEPT ![h] = "idle"]
    /\ posted' = [posted EXCEPT ![h] = <<>>]
    /\ UNCHANGED <<poolVars, batchVars, mainVars, unwritten>>

-----------------------------------------------------------------------------
(* The goroutines of the pool and of the batch processor.                  *)

WorkerStep(w) ==
    /\ Running
    /\ Pool!WorkerStep(w)
    /\ UNCHANGED <<batchVars, routerVars, mainVars, unwritten>>

\* A worker calls Submit: the batch processor takes the event, or its channel
\* is full and the event is gone.
SubmitTaken(w) ==
    /\ Running
    /\ Pool!Forward(w, TRUE)
    /\ Batch!Submit(Head(task[w]))
    /\ UNCHANGED <<routerVars, mainVars, unwritten>>

SubmitRefused(w) ==
    /\ Running
    /\ ~Batch!CanSubmit
    /\ Pool!Forward(w, FALSE)
    /\ UNCHANGED <<batchVars, routerVars, mainVars, unwritten>>

BatchStep ==
    /\ Running
    /\ Batch!Run \/ Batch!TickerFires
    /\ unwritten' = IF flushErrors' # flushErrors THEN unwritten \cup ToSet(toFlush)
                                                  ELSE unwritten
    /\ UNCHANGED <<poolVars, routerVars, mainVars>>

-----------------------------------------------------------------------------
(* main(): a signal, then three steps in order.                            *)

Go(from, to) == mainPc = from /\ mainPc' = to

Signal ==
    /\ Go("serving", "httpShutdown")
    /\ UNCHANGED <<poolVars, batchVars, routerVars, httpTimedOut, unwritten>>

Serving(h) == httpPc[h] # "idle" /\ handlerPc[h] # "panicked"

\* httpServer.Shutdown returns when no request is being served, or after 15 s.
HttpDrained_NotWaiting ==       \* mutant of HttpDrained
    /\ Go("httpShutdown", "poolShutdown")
    /\ UNCHANGED <<poolVars, batchVars, routerVars, httpTimedOut, unwritten>>

HttpDrained ==
    /\ Go("httpShutdown", "poolShutdown")
    /\ \A h \in Handler : ~Serving(h)
    /\ UNCHANGED <<poolVars, batchVars, routerVars, httpTimedOut, unwritten>>

HttpTimeout_NoDeadline == FALSE     \* mutant of HttpTimeout

HttpTimeout ==
    /\ Go("httpShutdown", "poolShutdown")
    /\ \E h \in Handler : Serving(h)
    /\ httpTimedOut' = TRUE
    /\ UNCHANGED <<poolVars, batchVars, routerVars, unwritten>>

\* Mutant of PoolShutdown: main goes on to stop the batch processor at once.
PoolShutdown_NotWaiting ==
    /\ mainPc = "poolShutdown"
    /\ Pool!ShutFlag \/ Pool!ShutStep
    /\ mainPc' = IF shutPc' = "wait" THEN "batchStop" ELSE mainPc
    /\ UNCHANGED <<batchVars, routerVars, httpTimedOut, unwritten>>

PoolShutdown ==
    /\ mainPc = "poolShutdown"
    /\ Pool!ShutFlag \/ Pool!ShutStep
    /\ mainPc' = IF shutPc' = "returned" THEN "batchStop" ELSE mainPc
    /\ UNCHANGED <<batchVars, routerVars, httpTimedOut, unwritten>>

BatchStop ==
    /\ mainPc = "batchStop"
    /\ Batch!StopCancel \/ Batch!StopReturn
    /\ mainPc' = IF stopPc' = "returned" THEN "exited" ELSE mainPc
    /\ UNCHANGED <<poolVars, routerVars, httpTimedOut, unwritten>>

-----------------------------------------------------------------------------
Requests == {s \in UNION {[1..n -> fresh] : n \in 1..MaxBatch} : IsInjective(s)}

Next ==
    \/ \E h \in Handler :
         \/ Accept(h) \/ EnqueueStep(h) \/ Reply(h)
         \/ \E events \in Requests :
              \/ Reject(h, events)
              \/ \E kind \in {"single", "batch"} : HandleEvents(h, events, kind)
    \/ \E w \in Worker : WorkerStep(w) \/ SubmitTaken(w) \/ SubmitRefused(w)
    \/ BatchStep
    \/ Signal \/ HttpDrained \/ HttpTimeout \/ PoolShutdown \/ BatchStop

Spec == Init /\ [][Next]_vars

\* Every goroutine that can run does, and the select of run() does not overlook
\* the cancel for ever.  No client is obliged to send a request or its body, and
\* nobody to send a signal; httpServer.Shutdown's deadline passes.  The store is
\* not obliged to answer: FlushBatch has neither a deadline nor a timeout.
Fairness ==
    /\ \A h \in Handler : WF_vars(EnqueueStep(h) \/ Reply(h))
    /\ \A w \in Worker : WF_vars(WorkerStep(w) \/ SubmitTaken(w) \/ SubmitRefused(w))
    /\ WF_vars(BatchStep /\ Batch!Run /\ runPc # "flush")
    /\ SF_vars(BatchStep /\ Batch!SeeCancel)
    /\ WF_vars(HttpDrained \/ HttpTimeout)
    /\ WF_vars(PoolShutdown) /\ WF_vars(BatchStop)

FairSpec == Spec /\ Fairness

-----------------------------------------------------------------------------
(* Properties.                                                             *)

\* Where the events that were taken in are now.
Written == ToSet(dispatched) \ unwritten
Lost    == unwritten \cup refused
Inside  == sent \ (ToSet(dispatched) \cup refused)

\* The values of all variables, the channels within their capacities.
TypeOK ==
    /\ Pool!TypeOK /\ Batch!TypeOK
    /\ mainPc \in {"serving", "httpShutdown", "poolShutdown", "batchStop", "exited"}
    /\ httpPc \in [Handler -> {"idle", "serving", "single", "batch"}]
    /\ posted \in [Handler -> Seq(Event)]
    /\ httpTimedOut \in BOOLEAN
    /\ told \in [Event -> {"none", "accepted", "counted", "refused"}]
    /\ unwritten \subseteq Event

\* A handler panics on the closed channel only if main stopped waiting for it.
PanicOnlyAfterTimeout == (\E h \in Handler : handlerPc[h] = "panicked") => httpTimedOut

\* The numbers a response is about to report are true of the queue: accepted
\* are the events of its request that entered the pool's channel, dropped those
\* that did not, whatever refused them and wherever between two events of a
\* batch the shutdown began.
ReplyIsTrue ==
    \A h \in Handler :
        httpPc[h] \in {"single", "batch"} /\ handlerPc[h] = "idle" =>
            /\ tally[h].accepted = Cardinality(ToSet(posted[h]) \cap sent)
            /\ tally[h].dropped = Cardinality(ToSet(posted[h]) \ sent)

\* When main is past the shutdown, or stuck at its last step, every event that
\* was taken in was written or reported failed to write, or found the channel of
\* the batch processor full.  Overflow and a failing store are the only losses.
ExitLosesOnlyOverflow == (mainPc = "exited" \/ Batch!Wedged) => Inside = {}

\* The store answers every FlushBatch.
StoreAnswers == []<>(runPc # "flush")

\* After a signal main gets to batchProc.Stop, and no request, worker, client or
\* store can hold it up.  If the store answers, main exits, or run() is stuck
\* behind its own mutex with everything written.
SignalEnds ==
    /\ (mainPc = "httpShutdown") ~> (mainPc \in {"batchStop", "exited"})
    /\ StoreAnswers => ((mainPc = "httpShutdown") ~> (mainPc = "exited" \/ Batch!Wedged))

\* No event stays in the pool's channel for ever, with or without a shutdown, and
\* whether the store answers or not: no worker waits for the accumulator.
QueuedIsForwarded == Pool!QueuedIsForwarded

\* The service keeps the ledger's promises to its clients.
Promise == INSTANCE Ledger WITH inside <- Inside, stored <- Written, lost <- Lost
ImplementsLedger == Promise!LedgerSpec

\* An accepted event is not dropped (README.md:9, go-engine/README.md:3).
\* Violated: 202 is sent before the event reaches the batch processor, whose
\* channel is half as long and may be full.
AcceptedIsKept == \A e \in Event : told[e] = "accepted" => e \notin refused

\* The shutdown drains all remaining events into the accumulator (README.md:85).
\* Violated: the drain ignores the result of Submit.
DrainReachesAccumulator ==
    [][\A w \in Worker : (workerPc[w] = "drainForward" /\ task[w] # task'[w])
                            => ToSet(task[w]) \subseteq submitted']_vars

\* Required fields are checked before an event is queued (event.go:35).
\* Violated by the batch endpoint.
ValidatedBeforeQueuing == sent \subseteq Valid
=============================================================================
