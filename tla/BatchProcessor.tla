--------------------------- MODULE BatchProcessor ---------------------------
(***************************************************************************)
(* The dual-trigger batch accumulator of go-engine/internal/batch.         *)
(*                                                                         *)
(* Three kinds of goroutine meet here: the accumulator loop run(), callers *)
(* of Submit, and the caller of Stop.  A step is what one of them does     *)
(* between two points where another can observe it: one channel operation, *)
(* one critical section of p.mu, one atomic add.  p.mu is held across      *)
(* steps by drainAndFlush only, so it is a variable of its own.  Metrics   *)
(* changes nothing and is left out.                                        *)
(*                                                                         *)
(* admitted, dispatched and failed are history variables: nothing reads    *)
(* them but the properties.                                                *)
(***************************************************************************)
EXTENDS Naturals, Sequences

CONSTANTS
    Event,          \* the events callers submit
    Threshold,      \* cfg.Threshold
    BufferSize,     \* cfg.BufferSize, the capacity of inCh
    MaxEvents       \* bound: events ever submitted successfully

ASSUME ThresholdAssumption == Threshold \in Nat \ {0}
ASSUME BufferSizeAssumption == BufferSize \in Nat \ {0}
ASSUME BoundAssumption == MaxEvents \in Nat

VARIABLES
    inCh,           \* the inbound channel
    buffer,         \* p.buffer
    mu,             \* TRUE while drainAndFlush holds p.mu
    runPc,          \* where run() is
    held,           \* the event received and not yet appended: <<>> or <<ev>>
    toFlush,        \* the batch being flushed
    ctxDone,        \* p.cancel() was called
    tick,           \* ticker.C holds a tick
    stopPc,         \* where the caller of Stop is
    totalFlushed, totalBatches, flushErrors,
    admitted,       \* history: events for which Submit returned true
    dispatched,     \* history: events passed to FlushBatch
    failed          \* history: how many of them FlushBatch failed on

accVars   == <<inCh, buffer, mu, runPc, held, toFlush>>
countVars == <<totalFlushed, totalBatches, flushErrors>>
ctlVars   == <<ctxDone, tick, stopPc>>
histVars  == <<admitted, dispatched, failed>>
vars == <<accVars, countVars, ctlVars, histVars>>

RunPc == {"select", "append", "ticked", "flush", "addFlushed", "addBatches",
          "commit", "drainLock", "drain", "done"}

Init ==
    /\ inCh = <<>> /\ buffer = <<>> /\ held = <<>> /\ toFlush = <<>>
    /\ mu = FALSE
    /\ runPc = "select"
    /\ ctxDone = FALSE /\ tick = FALSE
    /\ stopPc = "idle"
    /\ totalFlushed = 0 /\ totalBatches = 0 /\ flushErrors = 0
    /\ admitted = <<>> /\ dispatched = <<>> /\ failed = 0

-----------------------------------------------------------------------------
(* Callers of Submit.  A refused Submit changes nothing.                   *)

CanSubmit_OffByOne == Len(inCh) <= BufferSize       \* mutant of CanSubmit

CanSubmit == Len(inCh) < BufferSize

Submit(e) ==
    /\ CanSubmit
    /\ Len(admitted) < MaxEvents
    /\ inCh' = Append(inCh, e)
    /\ admitted' = Append(admitted, e)
    /\ UNCHANGED <<buffer, mu, runPc, held, toFlush, countVars, ctlVars, dispatched, failed>>

-----------------------------------------------------------------------------
(* The accumulator loop.  At the select every ready case may be taken.     *)

TickerFires ==
    /\ runPc # "done"       \* defer ticker.Stop()
    /\ ~tick
    /\ tick' = TRUE
    /\ UNCHANGED <<accVars, countVars, ctxDone, stopPc, histVars>>

Receive ==
    /\ runPc = "select"
    /\ inCh # <<>>
    /\ held' = <<Head(inCh)>>
    /\ inCh' = Tail(inCh)
    /\ runPc' = "append"
    /\ UNCHANGED <<buffer, mu, toFlush, countVars, ctlVars, histVars>>

\* doFlush returns: to the select, or out of drainAndFlush and run().
FlushReturns ==
    /\ toFlush' = <<>>
    /\ IF mu THEN mu' = FALSE /\ runPc' = "done" ELSE runPc' = "select" /\ UNCHANGED mu

\* doFlush up to its call of FlushBatch: an empty batch never gets that far.
CallFlush(batch) ==
    IF batch = <<>> THEN FlushReturns
                    ELSE toFlush' = batch /\ runPc' = "flush" /\ UNCHANGED mu

\* The batch is swapped out of p.buffer under the lock, to be flushed next.
SwapOut(batch) ==
    /\ buffer' = <<>>
    /\ CallFlush(batch)

Keep(batch) ==
    /\ buffer' = batch
    /\ runPc' = "select"
    /\ UNCHANGED <<toFlush, mu>>

ThresholdReached_OffByOne(batch) == Len(batch) > Threshold  \* mutant of ThresholdReached

ThresholdReached(batch) == Len(batch) >= Threshold

AppendHeld ==
    /\ runPc = "append"
    /\ ~mu
    /\ LET grown == buffer \o held
       IN  IF ThresholdReached(grown) THEN SwapOut(grown) ELSE Keep(grown)
    /\ held' = <<>>
    /\ UNCHANGED <<inCh, countVars, ctlVars, histVars>>

TakeTick ==
    /\ runPc = "select"
    /\ tick
    /\ tick' = FALSE
    /\ runPc' = "ticked"
    /\ UNCHANGED <<inCh, buffer, mu, held, toFlush, countVars, ctxDone, stopPc, histVars>>

\* Mutant of TickFlush: the swap forgets to give p.buffer a new slice.
TickFlush_NoReset ==
    IF buffer # <<>> THEN CallFlush(buffer) /\ UNCHANGED buffer ELSE Keep(buffer)

\* Mutant of TickFlush: the timer only helps a batch of two or more.
TickFlush_SkipsSingle == IF Len(buffer) > 1 THEN SwapOut(buffer) ELSE Keep(buffer)

TickFlush == IF buffer # <<>> THEN SwapOut(buffer) ELSE Keep(buffer)

FlushOnTick ==
    /\ runPc = "ticked"
    /\ ~mu
    /\ TickFlush
    /\ UNCHANGED <<inCh, held, countVars, ctlVars, histVars>>

-----------------------------------------------------------------------------
(* doFlush from its call of FlushBatch on, which succeeds or fails; a      *)
(* failed batch is not kept.                                               *)

FlushFails ==
    /\ runPc = "flush"
    /\ dispatched' = dispatched \o toFlush
    /\ failed' = failed + Len(toFlush)
    /\ flushErrors' = flushErrors + 1
    /\ FlushReturns
    /\ UNCHANGED <<inCh, buffer, held, totalFlushed, totalBatches, ctlVars, admitted>>

FlushSucceeds ==
    /\ runPc = "flush"
    /\ dispatched' = dispatched \o toFlush
    /\ runPc' = "addFlushed"
    /\ UNCHANGED <<inCh, buffer, mu, held, toFlush, countVars, ctlVars, admitted, failed>>

\* Mutant of AddFlushed: counts batches where it should count events.
AddFlushed_CountsBatch ==
    /\ runPc = "addFlushed"
    /\ totalFlushed' = totalFlushed + 1
    /\ runPc' = "addBatches"
    /\ UNCHANGED <<inCh, buffer, mu, held, toFlush, totalBatches, flushErrors,
                   ctlVars, histVars>>

AddFlushed ==
    /\ runPc = "addFlushed"
    /\ totalFlushed' = totalFlushed + Len(toFlush)
    /\ runPc' = "addBatches"
    /\ UNCHANGED <<inCh, buffer, mu, held, toFlush, totalBatches, flushErrors,
                   ctlVars, histVars>>

AddBatches ==
    /\ runPc = "addBatches"
    /\ totalBatches' = totalBatches + 1
    /\ runPc' = "commit"
    /\ UNCHANGED <<inCh, buffer, mu, held, toFlush, totalFlushed, flushErrors,
                   ctlVars, histVars>>

\* doFlush locks p.mu to set lastFlushTime.  sync.Mutex is not reentrant: a
\* flush called by drainAndFlush, which holds p.mu, waits here for itself.
Commit ==
    /\ runPc = "commit"
    /\ ~mu
    /\ FlushReturns
    /\ UNCHANGED <<inCh, buffer, held, countVars, ctlVars, histVars>>

-----------------------------------------------------------------------------
(* Shutdown of the loop: drainAndFlush under p.mu.                         *)

SeeCancel ==
    /\ runPc = "select"
    /\ ctxDone
    /\ runPc' = "drainLock"
    /\ UNCHANGED <<inCh, buffer, mu, held, toFlush, countVars, ctlVars, histVars>>

DrainLock ==
    /\ runPc = "drainLock"
    /\ ~mu
    /\ mu' = TRUE
    /\ runPc' = "drain"
    /\ UNCHANGED <<inCh, buffer, held, toFlush, countVars, ctlVars,
                   histVars>>

DrainReceive ==
    /\ runPc = "drain"
    /\ inCh # <<>>
    /\ buffer' = Append(buffer, Head(inCh))
    /\ inCh' = Tail(inCh)
    /\ UNCHANGED <<mu, runPc, held, toFlush, countVars, ctlVars, histVars>>

\* Mutant of DrainEnd: the loop ends without the final flush.
DrainEnd_NoFlush ==
    /\ runPc = "drain"
    /\ inCh = <<>>
    /\ FlushReturns
    /\ UNCHANGED <<inCh, buffer, held, countVars, ctlVars, histVars>>

DrainEnd ==
    /\ runPc = "drain"
    /\ inCh = <<>>
    /\ IF buffer # <<>> THEN SwapOut(buffer) ELSE FlushReturns /\ UNCHANGED buffer
    /\ UNCHANGED <<inCh, held, countVars, ctlVars, histVars>>

\* Mutant of StopCancel: Stop waits for the loop without cancelling it.
StopCancel_NoCancel ==
    /\ stopPc = "idle"
    /\ stopPc' = "waiting"
    /\ UNCHANGED <<accVars, countVars, ctxDone, tick, histVars>>

StopCancel ==
    /\ stopPc = "idle"
    /\ ctxDone' = TRUE
    /\ stopPc' = "waiting"
    /\ UNCHANGED <<accVars, countVars, tick, histVars>>

StopReturn ==
    /\ stopPc = "waiting"
    /\ runPc = "done"       \* wg.Wait()
    /\ stopPc' = "returned"
    /\ UNCHANGED <<accVars, countVars, ctxDone, tick, histVars>>

-----------------------------------------------------------------------------
(* doFlush past the call of FlushBatch, and everything run() does.         *)
Flush == FlushFails \/ FlushSucceeds \/ AddFlushed \/ AddBatches \/ Commit

Run == \/ Receive \/ AppendHeld \/ TakeTick \/ FlushOnTick \/ Flush
       \/ SeeCancel \/ DrainLock \/ DrainReceive \/ DrainEnd

Next == \/ \E e \in Event : Submit(e)
        \/ TickerFires \/ Run
        \/ StopCancel \/ StopReturn

Spec == Init /\ [][Next]_vars

\* The scheduler runs every goroutine that can run and the ticker ticks.  The
\* store is assumed to answer every FlushBatch: its context sets no deadline.  A
\* select with several ready cases picks one at random, so a case that is ready
\* again and again is picked eventually.  Nobody is obliged to call Submit or Stop.
Fairness ==
    /\ WF_vars(TickerFires)
    /\ WF_vars(Run)
    /\ SF_vars(Receive) /\ SF_vars(TakeTick) /\ SF_vars(SeeCancel)
    /\ WF_vars(StopReturn)

FairSpec == Spec /\ Fairness

-----------------------------------------------------------------------------
(* Properties.                                                             *)

\* The values every variable ranges over; inCh never exceeds its capacity.
TypeOK ==
    /\ inCh \in Seq(Event) /\ Len(inCh) <= BufferSize
    /\ buffer \in Seq(Event) /\ held \in Seq(Event) /\ toFlush \in Seq(Event)
    /\ mu \in BOOLEAN /\ ctxDone \in BOOLEAN /\ tick \in BOOLEAN
    /\ runPc \in RunPc
    /\ stopPc \in {"idle", "waiting", "returned"}
    /\ totalFlushed \in Nat /\ totalBatches \in Nat /\ flushErrors \in Nat
    /\ admitted \in Seq(Event) /\ dispatched \in Seq(Event) /\ failed \in Nat

InFlight == IF runPc = "flush" THEN toFlush ELSE <<>>

\* Every event Submit accepted is in exactly one place between the channel and
\* the sink, and the places taken together keep the order of submission: the
\* swaps of p.buffer neither lose, duplicate nor reorder an event.
OrderPreserved ==
    admitted = dispatched \o (InFlight \o (buffer \o (held \o inCh)))

\* A batch that is not the shutdown batch is never larger than the threshold, and
\* the loop never goes back to the select with a full buffer.
BatchBound ==
    ~mu => /\ Len(buffer) < Threshold
           /\ runPc = "flush" => Len(toFlush) <= Threshold

\* But for the one atomic add between the write and the count, totalFlushed and
\* the events of failed flushes add up to the events handed to the sink: a flush
\* is counted in events, once, and never as both written and failed.
CountersSettle ==
    runPc # "addFlushed" => totalFlushed + failed = Len(dispatched)

\* The goroutine of run() waits for a mutex it holds itself.
Wedged == runPc = "commit" /\ mu

\* When the loop has ended, or is stuck at its last step, nothing is left in the
\* accumulator: an event not yet dispatched was submitted after the drain.
LoopEndLeavesNothing ==
    (runPc = "done" \/ Wedged) => admitted = dispatched \o inCh

\* An event submitted before Stop is called reaches the sink: by the threshold,
\* by the window timer, or by the shutdown drain.
EventuallyDispatched ==
    \A n \in 1..MaxEvents :
        (stopPc = "idle" /\ Len(admitted) >= n) ~> (Len(dispatched) >= n)

\* Once called, Stop returns, or run() is stuck behind its own mutex after the
\* final batch was written; nothing else can keep it from returning.
StopEndsOrWedges == (stopPc = "waiting") ~> (stopPc = "returned" \/ Wedged)

\* Stop waits for the final flush and returns (processor.go:168).  Violated.
StopReturns == (stopPc = "waiting") ~> (stopPc = "returned")

\* The accumulator behaves as a lossless FIFO conveyor from Submit to the sink.
Belt == INSTANCE Conveyor
ImplementsConveyor == Belt!ConveyorSpec
=============================================================================
