----------------------------- MODULE WorkerPool -----------------------------
(***************************************************************************)
(* The bounded worker pool of go-engine/internal/worker.                   *)
(*                                                                         *)
(* HTTP handlers call Enqueue or EnqueueBatch, workers forward events from *)
(* the channel to the batch processor, one goroutine calls Shutdown.  A    *)
(* step is one channel operation, one atomic access or one call of the     *)
(* batch processor's Submit, whose result is an argument of the action: it *)
(* is chosen here by Next, and by the batch processor in GoEngine.         *)
(*                                                                         *)
(* Every event is enqueued by one call, so an event names its occurrence.  *)
(* fresh, answer, sent, submitted and refused are history variables.       *)
(***************************************************************************)
EXTENDS Naturals, Sequences, FiniteSets, SequencesExt

CONSTANTS
    Event,          \* the events handlers enqueue
    Worker,         \* the worker goroutines
    Handler,        \* the HTTP handler goroutines
    QueueCap,       \* cfg.QueueSize, the capacity of taskCh
    MaxBatch,       \* bound: events in one call of EnqueueBatch
    MaxStats        \* bound: calls of QueueStats

ASSUME WorkerAssumption == Worker # {}
ASSUME QueueCapAssumption == QueueCap \in Nat \ {0}
ASSUME MaxBatchAssumption == MaxBatch \in Nat

VARIABLES
    taskCh,         \* the channel
    chClosed,       \* close(taskCh) happened
    poolCtxDone,    \* p.cancel() was called
    shuttingDown,   \* p.isShuttingDown
    accepted, dropped, processed,
    workerPc,       \* [Worker -> where the routine is]
    task,           \* [Worker -> <<>> or <<the event in hand>>]
    handlerPc,      \* [Handler -> where its call of Enqueue is]
    request,        \* [Handler -> the events still to enqueue]
    tally,          \* [Handler -> acceptedCount and droppedCount of its call]
    shutPc,         \* where the caller of Shutdown is
    statsPc, stats, \* where the caller of QueueStats is, and what it has read
    statsCalls,
    fresh,          \* history: events no handler has had yet
    answer,         \* history: what Enqueue returned for each event
    sent,           \* history: events that entered taskCh
    submitted,      \* history: events for which Submit returned true
    refused         \* history: events for which Submit returned false

queueVars   == <<taskCh, chClosed>>
countVars   == <<accepted, dropped, processed>>
workerVars  == <<workerPc, task>>
handlerVars == <<handlerPc, request, tally>>
shutVars    == <<poolCtxDone, shuttingDown, shutPc>>
statsVars   == <<statsPc, stats, statsCalls>>
histVars    == <<fresh, answer, sent, submitted, refused>>
vars == <<queueVars, countVars, workerVars, handlerVars, shutVars, statsVars, histVars>>

Init ==
    /\ taskCh = <<>> /\ chClosed = FALSE
    /\ poolCtxDone = FALSE /\ shuttingDown = FALSE /\ shutPc = "idle"
    /\ accepted = 0 /\ dropped = 0 /\ processed = 0
    /\ workerPc = [w \in Worker |-> "select"]
    /\ task = [w \in Worker |-> <<>>]
    /\ handlerPc = [h \in Handler |-> "idle"]
    /\ request = [h \in Handler |-> <<>>]
    /\ tally = [h \in Handler |-> [accepted |-> 0, dropped |-> 0]]
    /\ statsPc = "idle" /\ statsCalls = 0
    /\ stats = [length |-> 0, accepted |-> 0, dropped |-> 0, processed |-> 0]
    /\ fresh = Event
    /\ answer = [e \in Event |-> "none"]
    /\ sent = {} /\ submitted = {} /\ refused = {}

-----------------------------------------------------------------------------
(* Enqueue, once for each event of the call.                               *)

\* Handler h calls Enqueue with one event, or EnqueueBatch with several.
Call(h, events) ==
    /\ handlerPc[h] = "idle"
    /\ events # <<>> /\ ToSet(events) \subseteq fresh
    /\ request' = [request EXCEPT ![h] = events]
    /\ tally' = [tally EXCEPT ![h] = [accepted |-> 0, dropped |-> 0]]
    /\ handlerPc' = [handlerPc EXCEPT ![h] = "check"]
    /\ fresh' = fresh \ ToSet(events)
    /\ UNCHANGED <<queueVars, countVars, workerVars, shutVars, statsVars,
                   answer, sent, submitted, refused>>

\* Mutant of EnqueueReturns: the caller takes only ErrQueueFull for a drop.
EnqueueReturns_OnlyFull(h, result) ==
    /\ answer' = [answer EXCEPT ![Head(request[h])] = result]
    /\ request' = [request EXCEPT ![h] = Tail(@)]
    /\ tally' = CASE result = "accepted" -> [tally EXCEPT ![h].accepted = @ + 1]
                  [] result = "full"     -> [tally EXCEPT ![h].dropped = @ + 1]
                  [] OTHER               -> tally
    /\ handlerPc' = [handlerPc EXCEPT ![h] =
                        IF Len(request[h]) = 1 THEN "idle" ELSE "check"]

\* Enqueue returns; the call goes on with its next event, if there is one.
EnqueueReturns(h, result) ==
    /\ answer' = [answer EXCEPT ![Head(request[h])] = result]
    /\ request' = [request EXCEPT ![h] = Tail(@)]
    /\ tally' = IF result = "accepted" THEN [tally EXCEPT ![h].accepted = @ + 1]
                                       ELSE [tally EXCEPT ![h].dropped = @ + 1]
    /\ handlerPc' = [handlerPc EXCEPT ![h] =
                        IF Len(request[h]) = 1 THEN "idle" ELSE "check"]

\* The flag is loaded; what is done with it happens later.
CheckFlag(h) ==
    /\ handlerPc[h] = "check"
    /\ IF shuttingDown
         THEN EnqueueReturns(h, "shut")
         ELSE /\ handlerPc' = [handlerPc EXCEPT ![h] = "send"]
              /\ UNCHANGED <<request, tally, answer>>
    /\ UNCHANGED <<queueVars, countVars, workerVars, shutVars, statsVars,
                   fresh, sent, submitted, refused>>

HasRoom_OffByOne == Len(taskCh) <= QueueCap     \* mutant of HasRoom

HasRoom == Len(taskCh) < QueueCap

SendTask(h) ==
    /\ handlerPc[h] = "send"
    /\ ~chClosed /\ HasRoom
    /\ taskCh' = Append(taskCh, Head(request[h]))
    /\ sent' = sent \cup {Head(request[h])}
    /\ handlerPc' = [handlerPc EXCEPT ![h] = "count"]
    /\ UNCHANGED <<chClosed, countVars, workerVars, request, tally, shutVars,
                   statsVars, fresh, answer, submitted, refused>>

\* Mutant of SendFull: the default case counts the drop and falls through.
SendFull_NoReturn(h) ==
    /\ handlerPc[h] = "send"
    /\ ~chClosed /\ ~HasRoom
    /\ dropped' = dropped + 1
    /\ EnqueueReturns(h, "accepted")
    /\ UNCHANGED <<queueVars, accepted, processed, workerVars, shutVars, statsVars,
                   fresh, sent, submitted, refused>>

SendFull(h) ==
    /\ handlerPc[h] = "send"
    /\ ~chClosed /\ ~HasRoom
    /\ dropped' = dropped + 1
    /\ EnqueueReturns(h, "full")
    /\ UNCHANGED <<queueVars, accepted, processed, workerVars, shutVars, statsVars,
                   fresh, sent, submitted, refused>>

\* A send on a closed channel panics.  net/http recovers the panic of a
\* handler: the goroutine ends, its request is never answered.
SendPanics(h) ==
    /\ handlerPc[h] = "send"
    /\ chClosed
    /\ handlerPc' = [handlerPc EXCEPT ![h] = "panicked"]
    /\ UNCHANGED <<queueVars, countVars, workerVars, request, tally, shutVars,
                   statsVars, histVars>>

CountAccepted(h) ==
    /\ handlerPc[h] = "count"
    /\ accepted' = accepted + 1
    /\ EnqueueReturns(h, "accepted")
    /\ UNCHANGED <<queueVars, dropped, processed, workerVars, shutVars, statsVars,
                   fresh, sent, submitted, refused>>

Enqueue(h) == CheckFlag(h) \/ SendTask(h) \/ SendFull(h) \/ SendPanics(h) \/ CountAccepted(h)

-----------------------------------------------------------------------------
(* A worker.                                                               *)

\* Mutant of Take: after the cancel a received event is put down.
Take_ChecksCancel(w, pc) ==
    /\ taskCh # <<>>
    /\ task' = [task EXCEPT ![w] = IF poolCtxDone THEN <<>> ELSE <<Head(taskCh)>>]
    /\ taskCh' = Tail(taskCh)
    /\ workerPc' = [workerPc EXCEPT ![w] = IF poolCtxDone THEN "drain" ELSE pc]
    /\ UNCHANGED <<chClosed, countVars, handlerVars, shutVars, statsVars, histVars>>

\* The worker takes the oldest event and goes to forward it.
Take(w, pc) ==
    /\ taskCh # <<>>
    /\ task' = [task EXCEPT ![w] = <<Head(taskCh)>>]
    /\ taskCh' = Tail(taskCh)
    /\ workerPc' = [workerPc EXCEPT ![w] = pc]
    /\ UNCHANGED <<chClosed, countVars, handlerVars, shutVars, statsVars, histVars>>

\* The worker moves without touching the queue or an event.
Move(w, pc) ==
    /\ workerPc' = [workerPc EXCEPT ![w] = pc]
    /\ UNCHANGED <<queueVars, countVars, task, handlerVars, shutVars, statsVars, histVars>>

SelectTask(w) == workerPc[w] = "select" /\ Take(w, "forward")

SelectClosed(w) == workerPc[w] = "select" /\ chClosed /\ taskCh = <<>> /\ Move(w, "done")

SelectCancel(w) == workerPc[w] = "select" /\ poolCtxDone /\ Move(w, "drain")

DrainTask(w) == workerPc[w] = "drain" /\ Take(w, "drainForward")

\* Mutant of DrainEnd: the worker stops at the cancel without draining.
DrainEnd_Early(w) == workerPc[w] = "drain" /\ Move(w, "done")

DrainEnd(w) == workerPc[w] = "drain" /\ chClosed /\ taskCh = <<>> /\ Move(w, "done")

\* Mutant of Forward: the drain retries, with the test the wrong way round: it
\* submits an event until it is refused.
Forward_RetriesTaken(w, ok) ==
    /\ workerPc[w] \in {"forward", "drainForward"}
    /\ IF ok THEN submitted' = submitted \cup ToSet(task[w]) /\ UNCHANGED refused
             ELSE refused' = refused \cup ToSet(task[w]) /\ UNCHANGED submitted
    /\ IF workerPc[w] = "drainForward" /\ ok
         THEN UNCHANGED workerVars
         ELSE /\ workerPc' = [workerPc EXCEPT ![w] =
                                 IF @ = "drainForward" THEN "drainCount"
                                 ELSE IF ok THEN "countProcessed" ELSE "countDropped"]
              /\ task' = [task EXCEPT ![w] = <<>>]
    /\ UNCHANGED <<queueVars, countVars, handlerVars, shutVars, statsVars, fresh,
                   answer, sent>>

\* The event in hand is passed to batchProc.Submit, which returns ok.  The
\* drain does not look at ok.
Forward(w, ok) ==
    /\ workerPc[w] \in {"forward", "drainForward"}
    /\ workerPc' = [workerPc EXCEPT ![w] =
                       IF @ = "drainForward" THEN "drainCount"
                       ELSE IF ok THEN "countProcessed" ELSE "countDropped"]
    /\ IF ok THEN submitted' = submitted \cup ToSet(task[w]) /\ UNCHANGED refused
             ELSE refused' = refused \cup ToSet(task[w]) /\ UNCHANGED submitted
    /\ task' = [task EXCEPT ![w] = <<>>]
    /\ UNCHANGED <<queueVars, countVars, handlerVars, shutVars, statsVars, fresh,
                   answer, sent>>

CountProcessed(w) ==
    /\ workerPc[w] \in {"countProcessed", "drainCount"}
    /\ processed' = processed + 1
    /\ workerPc' = [workerPc EXCEPT ![w] = IF @ = "drainCount" THEN "drain" ELSE "select"]
    /\ UNCHANGED <<queueVars, accepted, dropped, task, handlerVars, shutVars,
                   statsVars, histVars>>

CountDropped_Forgotten(w) ==        \* mutant of CountDropped
    /\ workerPc[w] = "countDropped"
    /\ Move(w, "select")

CountDropped(w) ==
    /\ workerPc[w] = "countDropped"
    /\ dropped' = dropped + 1
    /\ workerPc' = [workerPc EXCEPT ![w] = "select"]
    /\ UNCHANGED <<queueVars, accepted, processed, task, handlerVars, shutVars,
                   statsVars, histVars>>

\* What a worker does but for the call of Submit.
WorkerStep(w) ==
    \/ SelectTask(w) \/ SelectClosed(w) \/ SelectCancel(w)
    \/ DrainTask(w) \/ DrainEnd(w)
    \/ CountProcessed(w) \/ CountDropped(w)

-----------------------------------------------------------------------------
(* Shutdown.  A second call finds the flag set and returns at once.        *)

ShutFlag ==
    /\ shutPc = "idle" /\ ~shuttingDown
    /\ shuttingDown' = TRUE
    /\ shutPc' = "close"
    /\ UNCHANGED <<queueVars, countVars, workerVars, handlerVars, poolCtxDone,
                   statsVars, histVars>>

ShutClose ==
    /\ shutPc = "close"
    /\ chClosed' = TRUE
    /\ shutPc' = "cancel"
    /\ UNCHANGED <<taskCh, countVars, workerVars, handlerVars, poolCtxDone,
                   shuttingDown, statsVars, histVars>>

ShutCancel ==
    /\ shutPc = "cancel"
    /\ poolCtxDone' = TRUE
    /\ shutPc' = "wait"
    /\ UNCHANGED <<queueVars, countVars, workerVars, handlerVars, shuttingDown,
                   statsVars, histVars>>

ShutReturn ==
    /\ shutPc = "wait"
    /\ \A w \in Worker : workerPc[w] = "done"
    /\ shutPc' = "returned"
    /\ UNCHANGED <<queueVars, countVars, workerVars, handlerVars, poolCtxDone,
                   shuttingDown, statsVars, histVars>>

ShutStep == ShutClose \/ ShutCancel \/ ShutReturn

-----------------------------------------------------------------------------
(* QueueStats: the length of the channel, then three atomics in turn.      *)

ReadStat(at, field, value, next) ==
    /\ statsPc = at
    /\ stats' = [stats EXCEPT ![field] = value]
    /\ statsPc' = next
    /\ UNCHANGED <<queueVars, countVars, workerVars, handlerVars, shutVars, histVars>>

StatsLength == statsCalls < MaxStats /\ ReadStat("idle", "length", Len(taskCh), "accepted")
                                     /\ UNCHANGED statsCalls
StatsAccepted  == ReadStat("accepted", "accepted", accepted, "dropped") /\ UNCHANGED statsCalls
StatsDropped   == ReadStat("dropped", "dropped", dropped, "processed") /\ UNCHANGED statsCalls
StatsProcessed == ReadStat("processed", "processed", processed, "idle")
                  /\ statsCalls' = statsCalls + 1

QueueStats == StatsLength \/ StatsAccepted \/ StatsDropped \/ StatsProcessed

-----------------------------------------------------------------------------
\* The calls a handler can make: one event, or up to MaxBatch of them.
Calls == UNION {[1..n -> fresh] : n \in 1..MaxBatch}

Next ==
    \/ \E h \in Handler : \E events \in {s \in Calls : IsInjective(s)} : Call(h, events)
    \/ \E h \in Handler : Enqueue(h)
    \/ \E w \in Worker : WorkerStep(w)
    \/ \E w \in Worker, ok \in BOOLEAN : Forward(w, ok)
    \/ ShutFlag \/ ShutStep
    \/ QueueStats

Spec == Init /\ [][Next]_vars

-----------------------------------------------------------------------------
(* Properties.                                                             *)

\* The values every variable ranges over; taskCh never exceeds its capacity.
TypeOK ==
    /\ taskCh \in Seq(Event) /\ Len(taskCh) <= QueueCap
    /\ chClosed \in BOOLEAN /\ poolCtxDone \in BOOLEAN /\ shuttingDown \in BOOLEAN
    /\ accepted \in Nat /\ dropped \in Nat /\ processed \in Nat
    /\ workerPc \in [Worker -> {"select", "forward", "countProcessed", "countDropped",
                                "drain", "drainForward", "drainCount", "done"}]
    /\ task \in [Worker -> Seq(Event)]
    /\ handlerPc \in [Handler -> {"idle", "check", "send", "count", "panicked"}]
    /\ request \in [Handler -> Seq(Event)]
    /\ tally \in [Handler -> [accepted : Nat, dropped : Nat]]
    /\ shutPc \in {"idle", "close", "cancel", "wait", "returned"}
    /\ statsPc \in {"idle", "accepted", "dropped", "processed"}
    /\ stats \in [length : Nat, accepted : Nat, dropped : Nat, processed : Nat]
    /\ statsCalls \in Nat
    /\ fresh \subseteq Event
    /\ answer \in [Event -> {"none", "accepted", "full", "shut"}]
    /\ sent \subseteq Event /\ submitted \subseteq Event /\ refused \subseteq Event

InHand == UNION {ToSet(task[w]) : w \in Worker}

\* An event that entered the channel is still there, in a worker's hands, or
\* was passed to the batch processor: no path of a worker, at work or draining,
\* puts an event down.
NothingStranded == sent \subseteq ToSet(taskCh) \cup InHand \cup submitted \cup refused

\* No event is in two of these places at once, or twice in one of them: two
\* workers never forward the same event.
NothingDuplicated ==
    Cardinality(sent) = Len(taskCh) + Cardinality({w \in Worker : task[w] # <<>>})
                          + Cardinality(submitted) + Cardinality(refused)

\* When Shutdown returns, every event that ever entered the channel was passed
\* to the batch processor: the drain leaves nothing behind and nothing can enter
\* the channel behind its back.
ShutdownDrains == shutPc = "returned" => sent = submitted \cup refused

\* The answer Enqueue gave is the truth about the event: accepted means that it
\* entered the channel, and a refusal means that it never did.
AnswerIsTruth ==
    \A e \in Event : /\ answer[e] = "accepted" => e \in sent
                     /\ answer[e] \in {"full", "shut"} => e \notin sent

Count(f, at) == Cardinality({i \in DOMAIN f : f[i] \in at})

\* Gaps between an act and its count apart, every event accepted is queued, in
\* hand, or counted as processed or dropped exactly once, and every other drop
\* is an event refused for a full queue.
CountersAddUp ==
    /\ accepted + Count(handlerPc, {"count"}) = Cardinality(sent)
    /\ processed + dropped + Count(workerPc, {"countProcessed", "drainCount", "countDropped"})
         = Cardinality(submitted) + Cardinality(refused) + Count(answer, {"full"})

\* An event in the channel is forwarded, before a shutdown or by it (under the
\* fairness of GoEngine).
QueuedIsForwarded == \A e \in Event : (e \in sent) ~> (e \in submitted \cup refused)
=============================================================================
