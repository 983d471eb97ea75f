---------------------------- MODULE GoEngineProof ----------------------------
(***************************************************************************)
(* What is proved of the composed Go service for every set of events,      *)
(* workers and handlers, every capacity, threshold and length of a batch:  *)
(* the joint steps keep the invariants of the worker pool and of the batch *)
(* processor, which are proved in WorkerPoolProof and BatchProcessorProof  *)
(* and cited from there, and with them the service keeps the ledger's      *)
(* promises.                                                               *)
(***************************************************************************)
EXTENDS GoEngine, SequenceTheorems, FiniteSetTheorems, TLAPS

\* The proved modules, over the same variables as Pool and Batch.
PoolP  == INSTANCE WorkerPoolProof WITH MaxStats <- 0
BatchP == INSTANCE BatchProcessorProof WITH MaxEvents <- Cardinality(Event)

-----------------------------------------------------------------------------
(* Every step of the service is a step of each component, or leaves it     *)
(* alone; only Reject touches the pool's history from outside.             *)

LEMMA CapacityAssumption ==
    /\ QueueCap \in Nat \ {0} /\ BufferSize \in Nat \ {0} /\ Cardinality(Event) \in Nat
BY QueueCapAssumption, EventAssumption, FS_CardinalityType DEF BufferSize

LEMMA PoolHandlerSteps ==
    /\ \A h \in Handler : \A events : Pool!Call(h, events) => PoolP!Call(h, events)
    /\ \A h \in Handler : Pool!Enqueue(h) => PoolP!Enqueue(h)
<1> USE DEF Pool!queueVars, PoolP!queueVars, Pool!countVars, PoolP!countVars,
            Pool!workerVars, PoolP!workerVars, Pool!shutVars, PoolP!shutVars,
            Pool!statsVars, PoolP!statsVars, Pool!histVars, PoolP!histVars
<1>1. ASSUME NEW h \in Handler, NEW events, Pool!Call(h, events) PROVE PoolP!Call(h, events)
  BY <1>1 DEF Pool!Call, PoolP!Call, Pool!ToSet, PoolP!ToSet
<1>2. ASSUME NEW h \in Handler, NEW result, Pool!EnqueueReturns(h, result)
      PROVE  PoolP!EnqueueReturns(h, result)
  BY <1>2 DEF Pool!EnqueueReturns, PoolP!EnqueueReturns
<1>3. ASSUME NEW h \in Handler, Pool!Enqueue(h) PROVE PoolP!Enqueue(h)
  BY <1>2, <1>3
     DEF Pool!Enqueue, PoolP!Enqueue, Pool!CheckFlag, PoolP!CheckFlag, Pool!SendTask,
         PoolP!SendTask, Pool!SendFull, PoolP!SendFull, Pool!SendPanics, PoolP!SendPanics,
         Pool!CountAccepted, PoolP!CountAccepted, Pool!HasRoom, PoolP!HasRoom
<1>. QED  BY <1>1, <1>3

LEMMA PoolWorkerSteps ==
    /\ \A w \in Worker : Pool!WorkerStep(w) => PoolP!WorkerStep(w)
    /\ \A w \in Worker, ok \in BOOLEAN : Pool!Forward(w, ok) => PoolP!Forward(w, ok)
<1> USE DEF Pool!queueVars, PoolP!queueVars, Pool!countVars, PoolP!countVars,
            Pool!handlerVars, PoolP!handlerVars, Pool!shutVars, PoolP!shutVars,
            Pool!statsVars, PoolP!statsVars, Pool!histVars, PoolP!histVars
<1>1. ASSUME NEW w, NEW pc
      PROVE  /\ Pool!Take(w, pc) => PoolP!Take(w, pc)
             /\ Pool!Move(w, pc) => PoolP!Move(w, pc)
  BY DEF Pool!Take, PoolP!Take, Pool!Move, PoolP!Move
<1>2. ASSUME NEW w \in Worker, Pool!WorkerStep(w) PROVE PoolP!WorkerStep(w)
  BY <1>1, <1>2
     DEF Pool!WorkerStep, PoolP!WorkerStep, Pool!SelectTask, PoolP!SelectTask,
         Pool!SelectClosed, PoolP!SelectClosed, Pool!SelectCancel, PoolP!SelectCancel,
         Pool!DrainTask, PoolP!DrainTask, Pool!DrainEnd, PoolP!DrainEnd,
         Pool!CountProcessed, PoolP!CountProcessed, Pool!CountDropped, PoolP!CountDropped
<1>3. ASSUME NEW w \in Worker, NEW ok \in BOOLEAN, Pool!Forward(w, ok)
      PROVE  PoolP!Forward(w, ok)
  BY <1>3 DEF Pool!Forward, PoolP!Forward, Pool!ToSet, PoolP!ToSet
<1>. QED  BY <1>2, <1>3

LEMMA PoolShutSteps ==
    Pool!ShutFlag \/ Pool!ShutStep => PoolP!ShutFlag \/ PoolP!ShutStep
BY DEF Pool!ShutFlag, PoolP!ShutFlag, Pool!ShutStep, PoolP!ShutStep, Pool!ShutClose,
       PoolP!ShutClose, Pool!ShutCancel, PoolP!ShutCancel, Pool!ShutReturn, PoolP!ShutReturn,
       Pool!queueVars, PoolP!queueVars, Pool!countVars, PoolP!countVars,
       Pool!workerVars, PoolP!workerVars, Pool!handlerVars, PoolP!handlerVars,
       Pool!statsVars, PoolP!statsVars, Pool!histVars, PoolP!histVars

LEMMA PoolUnchanged == UNCHANGED poolVars => UNCHANGED PoolP!vars
BY DEF poolVars, poolCore, poolHist, PoolP!vars, PoolP!queueVars, PoolP!countVars,
       PoolP!workerVars, PoolP!handlerVars, PoolP!shutVars, PoolP!statsVars, PoolP!histVars

\* Reject takes fresh events away, and nothing else of the pool.
Rejected == UNCHANGED <<poolCore, poolHist>> /\ fresh' \subseteq fresh

LEMMA PoolSteps == [Next]_vars => [PoolP!Next]_(PoolP!vars) \/ Rejected
<1> SUFFICES ASSUME [Next]_vars PROVE [PoolP!Next]_(PoolP!vars) \/ Rejected
  OBVIOUS
<1>1. ASSUME UNCHANGED poolVars PROVE [PoolP!Next]_(PoolP!vars)
  BY <1>1, PoolUnchanged
<1>2. ASSUME NEW h \in Handler, NEW events \in Requests, Reject(h, events) PROVE Rejected
  BY <1>2 DEF Reject, Rejected
<1>3. ASSUME NEW h \in Handler, NEW events \in Requests, NEW kind, HandleEvents(h, events, kind)
      PROVE  PoolP!Next
  <2>1. events \in {s \in PoolP!Calls : PoolP!IsInjective(s)}
    BY DEF Requests, PoolP!Calls, IsInjective, PoolP!IsInjective
  <2>2. PoolP!Call(h, events)
    BY <1>3, PoolHandlerSteps DEF HandleEvents
  <2>. QED  BY <2>1, <2>2 DEF PoolP!Next
<1>4. ASSUME NEW h \in Handler, EnqueueStep(h) PROVE PoolP!Next
  BY <1>4, PoolHandlerSteps DEF EnqueueStep, PoolP!Next
<1>5. ASSUME NEW w \in Worker, WorkerStep(w) PROVE PoolP!Next
  BY <1>5, PoolWorkerSteps DEF WorkerStep, PoolP!Next
<1>6. ASSUME NEW w \in Worker, SubmitTaken(w) \/ SubmitRefused(w) PROVE PoolP!Next
  BY <1>6, PoolWorkerSteps DEF SubmitTaken, SubmitRefused, PoolP!Next
<1>7. CASE PoolShutdown
  BY <1>7, PoolShutSteps DEF PoolShutdown, PoolP!Next
<1>8. ASSUME NEW h \in Handler, Accept(h) \/ Reply(h) PROVE UNCHANGED poolVars
  BY <1>8 DEF Accept, Reply
<1>9. CASE BatchStep \/ Signal \/ HttpDrained \/ HttpTimeout \/ BatchStop
  BY <1>1, <1>9 DEF BatchStep, Signal, HttpDrained, HttpTimeout, BatchStop
<1>10. CASE UNCHANGED vars
  BY <1>1, <1>10 DEF vars
<1>. QED
  BY <1>1, <1>2, <1>3, <1>4, <1>5, <1>6, <1>7, <1>8, <1>9, <1>10 DEF Next

LEMMA SubmitSteps == \A e : Batch!Submit(e) => BatchP!Submit(e)
BY DEF Batch!Submit, BatchP!Submit, Batch!CanSubmit, BatchP!CanSubmit,
       Batch!countVars, BatchP!countVars, Batch!ctlVars, BatchP!ctlVars

LEMMA RunSteps == Batch!Run => BatchP!Run
<1> SUFFICES ASSUME Batch!Run PROVE BatchP!Run
  OBVIOUS
<1> USE DEF Batch!countVars, BatchP!countVars, Batch!ctlVars, BatchP!ctlVars,
            Batch!histVars, BatchP!histVars
<1>1. /\ Batch!Receive => BatchP!Receive
      /\ Batch!TakeTick => BatchP!TakeTick
      /\ Batch!SeeCancel => BatchP!SeeCancel
      /\ Batch!DrainLock => BatchP!DrainLock
      /\ Batch!DrainReceive => BatchP!DrainReceive
  BY DEF Batch!Receive, BatchP!Receive, Batch!TakeTick, BatchP!TakeTick,
         Batch!SeeCancel, BatchP!SeeCancel, Batch!DrainLock, BatchP!DrainLock,
         Batch!DrainReceive, BatchP!DrainReceive
<1>2. ASSUME NEW b PROVE /\ Batch!SwapOut(b) => BatchP!SwapOut(b)
                         /\ Batch!Keep(b) => BatchP!Keep(b)
                         /\ Batch!ThresholdReached(b) <=> BatchP!ThresholdReached(b)
  BY DEF Batch!SwapOut, BatchP!SwapOut, Batch!CallFlush, BatchP!CallFlush,
         Batch!FlushReturns, BatchP!FlushReturns, Batch!Keep, BatchP!Keep,
         Batch!ThresholdReached, BatchP!ThresholdReached
<1>3. /\ Batch!AppendHeld => BatchP!AppendHeld
      /\ Batch!FlushOnTick => BatchP!FlushOnTick
  BY <1>2 DEF Batch!AppendHeld, BatchP!AppendHeld, Batch!FlushOnTick, BatchP!FlushOnTick,
              Batch!TickFlush, BatchP!TickFlush
<1>4. Batch!FlushReturns => BatchP!FlushReturns
  BY DEF Batch!FlushReturns, BatchP!FlushReturns
<1>5. Batch!DrainEnd => BatchP!DrainEnd
  BY <1>2, <1>4 DEF Batch!DrainEnd, BatchP!DrainEnd
<1>6. Batch!Flush => BatchP!Flush
  BY <1>4 DEF Batch!Flush, BatchP!Flush, Batch!FlushFails, BatchP!FlushFails,
              Batch!FlushSucceeds, BatchP!FlushSucceeds, Batch!AddFlushed, BatchP!AddFlushed,
              Batch!AddBatches, BatchP!AddBatches, Batch!Commit, BatchP!Commit
<1>. QED  BY <1>1, <1>3, <1>5, <1>6 DEF Batch!Run, BatchP!Run

LEMMA OtherBatchSteps ==
    /\ Batch!TickerFires => BatchP!TickerFires
    /\ Batch!StopCancel => BatchP!StopCancel
    /\ Batch!StopReturn => BatchP!StopReturn
    /\ UNCHANGED batchVars => UNCHANGED BatchP!vars
BY DEF Batch!TickerFires, BatchP!TickerFires, Batch!StopCancel, BatchP!StopCancel,
       Batch!StopReturn, BatchP!StopReturn, Batch!accVars, BatchP!accVars,
       Batch!countVars, BatchP!countVars, Batch!histVars, BatchP!histVars,
       BatchP!ctlVars, batchVars, BatchP!vars

\* A worker that submits has one event in hand.
LEMMA BatchSteps == PoolP!HandsOK /\ [Next]_vars => [BatchP!Next]_(BatchP!vars)
<1> SUFFICES ASSUME PoolP!HandsOK, [Next]_vars PROVE [BatchP!Next]_(BatchP!vars)
  OBVIOUS
<1>1. ASSUME UNCHANGED batchVars PROVE [BatchP!Next]_(BatchP!vars)
  BY <1>1, OtherBatchSteps
<1>2. ASSUME NEW w \in Worker, SubmitTaken(w) PROVE BatchP!Next
  <2>1. workerPc[w] \in {"forward", "drainForward"}
    BY <1>2 DEF SubmitTaken, Pool!Forward
  <2>2. Head(task[w]) \in Event
    BY <2>1 DEF PoolP!HandsOK
  <2>3. BatchP!Submit(Head(task[w]))
    BY <1>2, SubmitSteps DEF SubmitTaken
  <2>. QED  BY <2>2, <2>3 DEF BatchP!Next
<1>3. CASE BatchStep
  BY <1>3, RunSteps, OtherBatchSteps DEF BatchStep, BatchP!Next
<1>4. CASE BatchStop
  BY <1>4, OtherBatchSteps DEF BatchStop, BatchP!Next
<1>5. ASSUME NEW h \in Handler, NEW events, NEW kind,
             \/ Accept(h) \/ EnqueueStep(h) \/ Reply(h) \/ Reject(h, events)
             \/ HandleEvents(h, events, kind)
      PROVE  UNCHANGED batchVars
  BY <1>5 DEF Accept, EnqueueStep, Reply, Reject, HandleEvents
<1>6. ASSUME NEW w \in Worker, WorkerStep(w) \/ SubmitRefused(w) PROVE UNCHANGED batchVars
  BY <1>6 DEF WorkerStep, SubmitRefused
<1>7. CASE Signal \/ HttpDrained \/ HttpTimeout \/ PoolShutdown
  BY <1>1, <1>7 DEF Signal, HttpDrained, HttpTimeout, PoolShutdown
<1>8. CASE UNCHANGED vars
  BY <1>1, <1>8 DEF vars
<1>. QED
  BY <1>1, <1>2, <1>3, <1>4, <1>5, <1>6, <1>7, <1>8 DEF Next

-----------------------------------------------------------------------------
(* The components' invariants hold in the composition.                     *)

PoolInv  == PoolP!IInv /\ PoolP!Once /\ PoolP!Counted
BatchInv == BatchP!IInv

LEMMA RejectKeepsPool == PoolInv /\ Rejected => PoolInv'
<1> SUFFICES ASSUME PoolInv, Rejected PROVE PoolInv'
  OBVIOUS
<1>1. /\ UNCHANGED <<taskCh, chClosed, poolCtxDone, shuttingDown, accepted, dropped, processed,
                     workerPc, task, handlerPc, request, tally, shutPc, statsPc, stats,
                     statsCalls, answer, sent, submitted, refused>>
      /\ fresh' \subseteq fresh
  BY DEF Rejected, poolCore, poolHist
<1>2. PoolP!TypeOK'
  BY <1>1 DEF PoolInv, PoolP!IInv, PoolP!TypeOK
<1>3. PoolP!RequestsOK'
  BY <1>1 DEF PoolInv, PoolP!IInv, PoolP!RequestsOK, PoolP!BusyHasEvent, PoolP!OwnEvents,
              PoolP!Apart, PoolP!FreshIsNew
<1>4. PoolP!WorkersOK' /\ PoolP!ShutdownOK' /\ PoolP!AnswerIsTruth'
  BY <1>1 DEF PoolInv, PoolP!IInv, PoolP!WorkersOK, PoolP!ShutdownOK, PoolP!AnswerIsTruth
<1>5. PoolP!InHand' = PoolP!InHand
  BY <1>1 DEF PoolP!InHand
<1>6. PoolP!Conserved'
  BY <1>1, <1>5 DEF PoolInv, PoolP!IInv, PoolP!Conserved
<1>7. PoolP!Once'
  BY <1>1, <1>5 DEF PoolInv, PoolP!Once, PoolP!HandsOK, PoolP!QueueOnce, PoolP!HandsApart,
                    PoolP!PlacesApart
<1>8. PoolP!Counted'
  BY <1>1 DEF PoolInv, PoolP!Counted, PoolP!Finite, PoolP!Balanced, PoolP!Recorded
<1>. QED  BY <1>2, <1>3, <1>4, <1>6, <1>7, <1>8 DEF PoolInv, PoolP!IInv

LEMMA PoolInvStep == PoolInv /\ [Next]_vars => PoolInv'
<1>1. PoolInv /\ [PoolP!Next]_(PoolP!vars) => PoolInv'
  <2>1. PoolP!IInv /\ [PoolP!Next]_(PoolP!vars) => PoolP!IInv'
    BY PoolP!InvStep, CapacityAssumption, MaxBatchAssumption, WorkerAssumption
       DEF PoolP!InvStep
  <2>2. PoolInv /\ [PoolP!Next]_(PoolP!vars) => PoolP!Once'
    BY PoolP!OnceStep, CapacityAssumption, MaxBatchAssumption, WorkerAssumption
       DEF PoolP!OnceStep, PoolInv, PoolP!IInv
  <2>3. PoolInv /\ [PoolP!Next]_(PoolP!vars) => PoolP!Counted'
    BY PoolP!CountedStep, CapacityAssumption, MaxBatchAssumption, WorkerAssumption
       DEF PoolP!CountedStep, PoolInv, PoolP!IInv
  <2>. QED  BY <2>1, <2>2, <2>3 DEF PoolInv
<1>. QED  BY <1>1, PoolSteps, RejectKeepsPool

LEMMA BatchInvStep == PoolInv /\ BatchInv /\ [Next]_vars => BatchInv'
<1>1. BatchInv /\ [BatchP!Next]_(BatchP!vars) => BatchInv'
  BY BatchP!InvStep, CapacityAssumption, ThresholdAssumption
     DEF BatchP!InvStep, BatchInv
<1>. QED  BY <1>1, BatchSteps DEF PoolInv, PoolP!Once

LEMMA ComponentsInit == Init => PoolInv /\ BatchInv
<1> SUFFICES ASSUME Init PROVE PoolInv /\ BatchInv
  OBVIOUS
<1>1. PoolP!Init
  BY DEF Init, Pool!Init, PoolP!Init
<1>2. PoolP!IInv
  BY <1>1, PoolP!InvInit, CapacityAssumption, MaxBatchAssumption, WorkerAssumption
     DEF PoolP!InvInit
<1>3. PoolP!Once /\ PoolP!Counted
  BY <1>1, PoolP!CountedInit, CapacityAssumption, MaxBatchAssumption, WorkerAssumption
     DEF PoolP!CountedInit
<1>4. BatchP!Init
  BY DEF Init, Batch!Init, BatchP!Init
<1>5. BatchP!IInv
  BY <1>4, BatchP!InvInit, CapacityAssumption, ThresholdAssumption DEF BatchP!InvInit
<1>. QED  BY <1>2, <1>3, <1>5 DEF PoolInv, BatchInv

-----------------------------------------------------------------------------
(* Sequences of events.                                                    *)

LEMMA Elements ==
    /\ <<>> \in Seq(Event) /\ ToSet(<<>>) = {}
    /\ \A e \in Event : ToSet(<<e>>) = {e}
    /\ \A s \in Seq(Event) : ToSet(s) \subseteq Event
    /\ \A s \in Seq(Event), e \in Event : /\ Append(s, e) \in Seq(Event)
                                          /\ Len(Append(s, e)) = Len(s) + 1
                                          /\ ToSet(Append(s, e)) = ToSet(s) \cup {e}
<1>1. <<>> \in Seq(Event) /\ ToSet(<<>>) = {}
  BY EmptySeq DEF ToSet
<1>2. \A e \in Event : ToSet(<<e>>) = {e}
  BY DEF ToSet
<1>3. \A s \in Seq(Event) : ToSet(s) \subseteq Event
  BY ElementOfSeq DEF ToSet
<1>4. ASSUME NEW s \in Seq(Event), NEW e \in Event
      PROVE  /\ Append(s, e) \in Seq(Event) /\ Len(Append(s, e)) = Len(s) + 1
             /\ ToSet(Append(s, e)) = ToSet(s) \cup {e}
  BY PoolP!ElementsAppend, CapacityAssumption, MaxBatchAssumption, WorkerAssumption
     DEF PoolP!ElementsAppend, PoolP!ToSet, ToSet
<1>. QED  BY <1>1, <1>2, <1>3, <1>4

\* A request's events are fresh, each of them once.
LEMMA RequestTypes ==
    ASSUME PoolInv, NEW events \in Requests
    PROVE  /\ events \in Seq(Event) /\ ToSet(events) \subseteq fresh
           /\ events \in {s \in PoolP!Calls : PoolP!IsInjective(s)}
<1>1. events \in {s \in PoolP!Calls : PoolP!IsInjective(s)}
  BY DEF Requests, PoolP!Calls, IsInjective, PoolP!IsInjective
<1>2. PoolP!TypeOK
  BY DEF PoolInv, PoolP!IInv
<1>3. events \in Seq(Event) /\ PoolP!ToSet(events) \subseteq fresh
  BY <1>1, <1>2, PoolP!CallTypes, CapacityAssumption, MaxBatchAssumption, WorkerAssumption
     DEF PoolP!CallTypes
<1>. QED  BY <1>1, <1>3 DEF ToSet, PoolP!ToSet

-----------------------------------------------------------------------------
(* Type correctness.                                                       *)

EngineTypes ==
    /\ mainPc \in {"serving", "httpShutdown", "poolShutdown", "batchStop", "exited"}
    /\ httpPc \in [Handler -> {"idle", "serving", "single", "batch"}]
    /\ posted \in [Handler -> Seq(Event)]
    /\ httpTimedOut \in BOOLEAN
    /\ told \in [Event -> {"none", "accepted", "counted", "refused"}]
    /\ unwritten \subseteq Event

LEMMA TypesInit == Init => EngineTypes
BY Elements DEF Init, EngineTypes

LEMMA TypesStep == PoolInv /\ BatchInv /\ EngineTypes /\ [Next]_vars => EngineTypes'
<1> SUFFICES ASSUME PoolInv, BatchInv, EngineTypes, [Next]_vars PROVE EngineTypes'
  OBVIOUS
<1> USE DEF routerVars, mainVars
<1>1. ASSUME UNCHANGED <<routerVars, mainVars, unwritten>> PROVE EngineTypes'
  BY <1>1 DEF EngineTypes
<1>2. ASSUME NEW h \in Handler, Accept(h) PROVE EngineTypes'
  BY <1>2 DEF Accept, EngineTypes
<1>3. ASSUME NEW h \in Handler, NEW events \in Requests, Reject(h, events) PROVE EngineTypes'
  BY <1>3 DEF Reject, Respond, EngineTypes
<1>4. ASSUME NEW h \in Handler, NEW events \in Requests, NEW kind \in {"single", "batch"},
             HandleEvents(h, events, kind)
      PROVE  EngineTypes'
  BY <1>4, RequestTypes DEF HandleEvents, EngineTypes
<1>5. ASSUME NEW h \in Handler, Reply(h) PROVE EngineTypes'
  <2>1. Outcome(httpPc[h], tally[h]) \in {"accepted", "counted", "refused"}
    BY DEF Outcome
  <2>. QED  BY <1>5, <2>1, Elements DEF Reply, Respond, EngineTypes
<1>6. CASE BatchStep
  <2>1. ToSet(toFlush) \subseteq Event
    BY Elements DEF BatchInv, BatchP!IInv, BatchP!TypeOK
  <2>. QED  BY <1>6, <2>1 DEF BatchStep, EngineTypes
<1>7. CASE Signal \/ HttpDrained \/ HttpTimeout \/ PoolShutdown \/ BatchStop
  BY <1>7 DEF Signal, HttpDrained, HttpTimeout, PoolShutdown, BatchStop, Go, EngineTypes
<1>8. ASSUME NEW h \in Handler, EnqueueStep(h) PROVE EngineTypes'
  BY <1>1, <1>8 DEF EnqueueStep
<1>9. ASSUME NEW w \in Worker, WorkerStep(w) \/ SubmitTaken(w) \/ SubmitRefused(w)
      PROVE  EngineTypes'
  BY <1>1, <1>9 DEF WorkerStep, SubmitTaken, SubmitRefused
<1>10. CASE UNCHANGED vars
  BY <1>1, <1>10 DEF vars
<1>. QED
  BY <1>2, <1>3, <1>4, <1>5, <1>6, <1>7, <1>8, <1>9, <1>10 DEF Next

-----------------------------------------------------------------------------
(* The shutdown: how far it is, and whom it has waited for.                *)

\* main closes the pool's channel after it stopped waiting for requests, and
\* stops the accumulator after the pool.
PhasesOK ==
    /\ shutPc # "idle" => mainPc \notin {"serving", "httpShutdown"}
    /\ chClosed => shutPc # "idle"
    /\ mainPc \in {"batchStop", "exited"} => shutPc = "returned"
    /\ stopPc # "idle" => mainPc \in {"batchStop", "exited"}
    /\ ctxDone => stopPc # "idle"
    /\ mu \/ runPc \in {"drainLock", "done"} => ctxDone
    /\ stopPc = "returned" => runPc = "done"
    /\ mainPc = "exited" => stopPc = "returned"

\* A request in the pool is one the router serves.  Once main no longer waits
\* for requests there is none, unless it gave up on some.
ServedOK ==
    /\ \A h \in Handler : handlerPc[h] # "idle" => httpPc[h] \in {"single", "batch"}
    /\ mainPc \notin {"serving", "httpShutdown"} /\ ~httpTimedOut
         => \A h \in Handler : httpPc[h] = "idle"

LEMMA PhasesInit == Init => PhasesOK /\ ServedOK /\ PanicOnlyAfterTimeout
BY DEF Init, Pool!Init, Batch!Init, PhasesOK, ServedOK, PanicOnlyAfterTimeout

\* What the loop does to its phase.
LEMMA RunPhases ==
    ASSUME BatchP!ControlOK, Batch!Run \/ Batch!TickerFires
    PROVE  /\ UNCHANGED <<ctxDone, stopPc>>
           /\ runPc = "done" => runPc' = "done"
           /\ mu' \/ runPc' \in {"drainLock", "done"}
                => mu \/ runPc \in {"drainLock", "done"} \/ ctxDone
<1> USE DEF Batch!accVars, Batch!countVars, Batch!ctlVars, Batch!histVars
<1>1. CASE \/ Batch!Receive \/ Batch!AppendHeld \/ Batch!TakeTick \/ Batch!FlushOnTick
           \/ Batch!TickerFires
  BY <1>1 DEF Batch!Receive, Batch!AppendHeld, Batch!TakeTick, Batch!FlushOnTick,
              Batch!TickerFires, Batch!TickFlush, Batch!SwapOut, Batch!CallFlush,
              Batch!FlushReturns, Batch!Keep, BatchP!ControlOK
<1>2. CASE Batch!Flush
  BY <1>2 DEF Batch!Flush, Batch!FlushFails, Batch!FlushSucceeds, Batch!AddFlushed,
              Batch!AddBatches, Batch!Commit, Batch!FlushReturns
<1>3. CASE \/ Batch!SeeCancel \/ Batch!DrainLock \/ Batch!DrainReceive \/ Batch!DrainEnd
  BY <1>3 DEF Batch!SeeCancel, Batch!DrainLock, Batch!DrainReceive, Batch!DrainEnd,
              Batch!SwapOut, Batch!CallFlush, Batch!FlushReturns, BatchP!ControlOK
<1>. QED  BY <1>1, <1>2, <1>3 DEF Batch!Run

LEMMA PhasesStep == BatchInv /\ PhasesOK /\ [Next]_vars => PhasesOK'
<1> SUFFICES ASSUME BatchP!ControlOK, PhasesOK, [Next]_vars PROVE PhasesOK'
  BY DEF BatchInv, BatchP!IInv
<1> USE DEF poolVars, poolCore, batchVars, mainVars
<1>1. ASSUME UNCHANGED <<shutPc, chClosed, mainPc, stopPc, ctxDone, mu, runPc>> PROVE PhasesOK'
  BY <1>1 DEF PhasesOK
<1>2. ASSUME NEW h \in Handler, NEW events, NEW kind,
             \/ Accept(h) \/ EnqueueStep(h) \/ Reply(h) \/ Reject(h, events)
             \/ HandleEvents(h, events, kind)
      PROVE  PhasesOK'
  <2>1. UNCHANGED <<shutPc, chClosed, mainPc, stopPc, ctxDone, mu, runPc>>
    BY <1>2 DEF Accept, EnqueueStep, Reply, Reject, HandleEvents, Pool!Call, Pool!Enqueue,
       Pool!CheckFlag, Pool!SendTask, Pool!SendFull, Pool!SendPanics, Pool!CountAccepted,
       Pool!queueVars, Pool!shutVars
  <2>. QED  BY <1>1, <2>1
<1>3. ASSUME NEW w \in Worker, WorkerStep(w) \/ SubmitTaken(w) \/ SubmitRefused(w)
      PROVE  PhasesOK'
  <2>1. UNCHANGED <<shutPc, chClosed, mainPc>>
    BY <1>3 DEF WorkerStep, SubmitTaken, SubmitRefused, Pool!WorkerStep, Pool!Forward,
       Pool!SelectTask, Pool!SelectClosed, Pool!SelectCancel, Pool!DrainTask, Pool!DrainEnd,
       Pool!CountProcessed, Pool!CountDropped, Pool!Take, Pool!Move,
       Pool!queueVars, Pool!shutVars
  <2>2. UNCHANGED <<stopPc, ctxDone, mu, runPc>>
    BY <1>3 DEF WorkerStep, SubmitTaken, SubmitRefused, Batch!Submit, Batch!ctlVars
  <2>. QED  BY <1>1, <2>1, <2>2
<1>4. CASE BatchStep
  BY <1>4, RunPhases DEF BatchStep, PhasesOK
<1>5. CASE Signal \/ HttpDrained \/ HttpTimeout
  BY <1>5 DEF Signal, HttpDrained, HttpTimeout, Go, PhasesOK
<1>6. CASE PoolShutdown
  BY <1>6 DEF PoolShutdown, Pool!ShutFlag, Pool!ShutStep, Pool!ShutClose, Pool!ShutCancel,
     Pool!ShutReturn, Pool!queueVars, PhasesOK
<1>7. CASE BatchStop
  BY <1>7 DEF BatchStop, Batch!StopCancel, Batch!StopReturn, Batch!accVars, PhasesOK
<1>8. CASE UNCHANGED vars
  BY <1>1, <1>8 DEF vars
<1>. QED
  BY <1>2, <1>3, <1>4, <1>5, <1>6, <1>7, <1>8 DEF Next

LEMMA ServedStep ==
    /\ PoolInv /\ EngineTypes /\ PhasesOK /\ ServedOK /\ PanicOnlyAfterTimeout /\ [Next]_vars
    => ServedOK' /\ PanicOnlyAfterTimeout'
<1> SUFFICES ASSUME PoolP!TypeOK, EngineTypes, PhasesOK, ServedOK, PanicOnlyAfterTimeout,
                    [Next]_vars
             PROVE  ServedOK' /\ PanicOnlyAfterTimeout'
  BY DEF PoolInv, PoolP!IInv
<1> USE DEF poolVars, poolCore, batchVars, mainVars, routerVars
<1>1. ASSUME UNCHANGED <<handlerPc, httpPc, mainPc, httpTimedOut>>
      PROVE  ServedOK' /\ PanicOnlyAfterTimeout'
  BY <1>1 DEF ServedOK, PanicOnlyAfterTimeout
<1>2. ASSUME NEW h \in Handler, NEW events, Accept(h) \/ Reject(h, events) \/ Reply(h)
      PROVE  ServedOK' /\ PanicOnlyAfterTimeout'
  <2>1. PICK pc \in {"idle", "serving"} : httpPc' = [httpPc EXCEPT ![h] = pc]
    BY <1>2 DEF Accept, Reject, Reply
  <2>2. /\ UNCHANGED <<handlerPc, mainPc, httpTimedOut>>
        /\ handlerPc[h] = "idle"
        /\ pc = "serving" => mainPc = "serving"
    BY <1>2, <2>1 DEF Accept, Reject, Reply, ServedOK, EngineTypes
  <2>3. httpPc'[h] = pc /\ \A k \in Handler \ {h} : httpPc'[k] = httpPc[k]
    BY <2>1 DEF EngineTypes
  <2>. QED  BY <2>1, <2>2, <2>3 DEF ServedOK, PanicOnlyAfterTimeout
<1>3. ASSUME NEW h \in Handler, NEW events, NEW kind \in {"single", "batch"},
             HandleEvents(h, events, kind)
      PROVE  ServedOK' /\ PanicOnlyAfterTimeout'
  <2>1. /\ httpPc[h] = "serving" /\ httpPc' = [httpPc EXCEPT ![h] = kind]
        /\ handlerPc' = [handlerPc EXCEPT ![h] = "check"]
        /\ UNCHANGED <<mainPc, httpTimedOut>>
    BY <1>3 DEF HandleEvents, Pool!Call
  <2>2. /\ httpPc'[h] = kind /\ handlerPc'[h] = "check"
        /\ \A k \in Handler \ {h} : httpPc'[k] = httpPc[k] /\ handlerPc'[k] = handlerPc[k]
    BY <2>1 DEF EngineTypes, PoolP!TypeOK
  <2>. QED  BY <2>1, <2>2 DEF ServedOK, PanicOnlyAfterTimeout
<1>4. ASSUME NEW h \in Handler, EnqueueStep(h) PROVE ServedOK' /\ PanicOnlyAfterTimeout'
  <2>1. PICK pc : handlerPc' = [handlerPc EXCEPT ![h] = pc]
    BY <1>4 DEF EnqueueStep, Pool!Enqueue, Pool!CheckFlag, Pool!SendTask, Pool!SendFull,
       Pool!SendPanics, Pool!CountAccepted, Pool!EnqueueReturns
  <2>2. /\ handlerPc[h] # "idle" /\ UNCHANGED <<httpPc, mainPc, httpTimedOut>>
    BY <1>4 DEF EnqueueStep, Pool!Enqueue, Pool!CheckFlag, Pool!SendTask, Pool!SendFull,
       Pool!SendPanics, Pool!CountAccepted
  <2>3. handlerPc'[h] = "panicked" => chClosed
    BY <1>4 DEF EnqueueStep, Pool!Enqueue, Pool!CheckFlag, Pool!SendTask, Pool!SendFull,
       Pool!SendPanics, Pool!CountAccepted, Pool!EnqueueReturns, PoolP!TypeOK
  <2>4. handlerPc'[h] = pc /\ \A k \in Handler \ {h} : handlerPc'[k] = handlerPc[k]
    BY <2>1 DEF PoolP!TypeOK
  <2>5. chClosed => httpTimedOut
    BY <2>2 DEF PhasesOK, ServedOK, EngineTypes
  <2>. QED  BY <2>2, <2>3, <2>4, <2>5 DEF ServedOK, PanicOnlyAfterTimeout
<1>5. ASSUME NEW w \in Worker, WorkerStep(w) \/ SubmitTaken(w) \/ SubmitRefused(w)
      PROVE  ServedOK' /\ PanicOnlyAfterTimeout'
  <2>1. UNCHANGED <<handlerPc, httpPc, mainPc, httpTimedOut>>
    BY <1>5 DEF WorkerStep, SubmitTaken, SubmitRefused, Pool!WorkerStep, Pool!Forward,
       Pool!SelectTask, Pool!SelectClosed, Pool!SelectCancel, Pool!DrainTask, Pool!DrainEnd,
       Pool!CountProcessed, Pool!CountDropped, Pool!Take, Pool!Move, Pool!handlerVars
  <2>. QED  BY <1>1, <2>1
<1>6. CASE Signal \/ HttpDrained \/ HttpTimeout
  <2>1. UNCHANGED <<handlerPc, httpPc>>
    BY <1>6 DEF Signal, HttpDrained, HttpTimeout
  <2>2. CASE Signal
    BY <2>1, <2>2 DEF Signal, Go, ServedOK, PanicOnlyAfterTimeout
  <2>3. CASE HttpDrained
    BY <2>1, <2>3 DEF HttpDrained, Serving, ServedOK, PanicOnlyAfterTimeout
  <2>4. CASE HttpTimeout
    BY <2>1, <2>4 DEF HttpTimeout, ServedOK, PanicOnlyAfterTimeout
  <2>. QED  BY <1>6, <2>2, <2>3, <2>4
<1>7. CASE PoolShutdown
  <2>1. /\ UNCHANGED <<handlerPc, httpPc, httpTimedOut>>
        /\ mainPc = "poolShutdown"
    BY <1>7 DEF PoolShutdown, Pool!ShutFlag, Pool!ShutStep, Pool!ShutClose, Pool!ShutCancel,
       Pool!ShutReturn, Pool!handlerVars
  <2>. QED  BY <2>1 DEF ServedOK, PanicOnlyAfterTimeout
<1>8. CASE BatchStop
  BY <1>8 DEF BatchStop, ServedOK, PanicOnlyAfterTimeout
<1>9. CASE BatchStep \/ UNCHANGED vars
  BY <1>1, <1>9 DEF BatchStep, vars
<1>. QED
  BY <1>2, <1>3, <1>4, <1>5, <1>6, <1>7, <1>8, <1>9 DEF Next

-----------------------------------------------------------------------------
(* The joint step: what a worker hands over the accumulator takes in.      *)

\* What the pool handed over is what the accumulator took in, once.
HandOver == ToSet(admitted) = submitted /\ Len(admitted) = Cardinality(submitted)

AdmittedOnce == \A i, j \in 1..Len(admitted) : admitted[i] = admitted[j] => i = j

\* A worker that calls Submit has one event, which nobody passed on before.
LEMMA InHandOnce ==
    ASSUME PoolInv, NEW w \in Worker, workerPc[w] \in {"forward", "drainForward"}
    PROVE  \E e \in Event : /\ task[w] = <<e>> /\ Head(task[w]) = e
                            /\ ToSet(task[w]) = {e} /\ Pool!ToSet(task[w]) = {e}
                            /\ e \in sent /\ e \notin submitted \cup refused
<1>1. PICK e \in Event : task[w] = <<e>>
  BY DEF PoolInv, PoolP!Once, PoolP!HandsOK
<1>2. Head(task[w]) = e /\ ToSet(task[w]) = {e}
  BY <1>1, Elements
<1>3. Pool!ToSet(task[w]) = {e} /\ PoolP!ToSet(task[w]) = {e}
  BY <1>2 DEF ToSet, Pool!ToSet, PoolP!ToSet
<1>4. e \in PoolP!InHand
  BY <1>3 DEF PoolP!InHand
<1>5. e \in sent /\ e \notin submitted \cup refused
  BY <1>4 DEF PoolInv, PoolP!IInv, PoolP!Conserved, PoolP!Once, PoolP!PlacesApart
<1>. QED  BY <1>1, <1>2, <1>3, <1>5

\* Nothing else touches the books of either side.
LEMMA LoopAdmitsNothing ==
    \/ Batch!Run \/ Batch!TickerFires \/ Batch!StopCancel \/ Batch!StopReturn
    => UNCHANGED admitted
BY DEF Batch!Run, Batch!TickerFires, Batch!StopCancel, Batch!StopReturn, Batch!Receive,
       Batch!AppendHeld, Batch!TakeTick, Batch!FlushOnTick, Batch!Flush, Batch!FlushFails,
       Batch!FlushSucceeds, Batch!AddFlushed, Batch!AddBatches, Batch!Commit,
       Batch!SeeCancel, Batch!DrainLock, Batch!DrainReceive, Batch!DrainEnd, Batch!histVars

LEMMA HandOverFrame ==
    ASSUME [Next]_vars
    PROVE  \/ \E w \in Worker : SubmitTaken(w)
           \/ UNCHANGED <<admitted, submitted>>
<1> USE DEF poolVars, poolHist, batchVars, Pool!histVars
<1>1. ASSUME NEW h \in Handler, NEW events, NEW kind,
             \/ Accept(h) \/ EnqueueStep(h) \/ Reply(h) \/ Reject(h, events)
             \/ HandleEvents(h, events, kind)
      PROVE  UNCHANGED <<admitted, submitted>>
  BY <1>1 DEF Accept, EnqueueStep, Reply, Reject, HandleEvents, Pool!Call, Pool!Enqueue,
     Pool!CheckFlag, Pool!SendTask, Pool!SendFull, Pool!SendPanics, Pool!CountAccepted
<1>2. ASSUME NEW w \in Worker, WorkerStep(w) \/ SubmitRefused(w)
      PROVE  UNCHANGED <<admitted, submitted>>
  BY <1>2 DEF WorkerStep, SubmitRefused, Pool!WorkerStep, Pool!Forward,
     Pool!SelectTask, Pool!SelectClosed, Pool!SelectCancel, Pool!DrainTask, Pool!DrainEnd,
     Pool!CountProcessed, Pool!CountDropped, Pool!Take, Pool!Move
<1>3. CASE BatchStep \/ BatchStop
  BY <1>3, LoopAdmitsNothing DEF BatchStep, BatchStop
<1>4. CASE Signal \/ HttpDrained \/ HttpTimeout \/ PoolShutdown
  BY <1>4 DEF Signal, HttpDrained, HttpTimeout, PoolShutdown, Pool!ShutFlag, Pool!ShutStep,
     Pool!ShutClose, Pool!ShutCancel, Pool!ShutReturn
<1>5. CASE UNCHANGED vars
  BY <1>5 DEF vars
<1>. QED  BY <1>1, <1>2, <1>3, <1>4, <1>5 DEF Next

LEMMA HandOverInit == Init => HandOver /\ AdmittedOnce
<1> SUFFICES ASSUME Init PROVE HandOver /\ AdmittedOnce
  OBVIOUS
<1>1. admitted = <<>> /\ submitted = {}
  BY DEF Init, Pool!Init, Batch!Init
<1>2. Len(admitted) = 0 /\ ToSet(admitted) = {} /\ Cardinality(submitted) = 0
  BY <1>1, Elements, FS_EmptySet
<1>. QED  BY <1>1, <1>2 DEF HandOver, AdmittedOnce

LEMMA HandOverStep ==
    PoolInv /\ BatchInv /\ HandOver /\ AdmittedOnce /\ [Next]_vars => HandOver' /\ AdmittedOnce'
<1> SUFFICES ASSUME PoolInv, BatchInv, HandOver, AdmittedOnce, [Next]_vars
             PROVE  HandOver' /\ AdmittedOnce'
  OBVIOUS
<1>1. ASSUME UNCHANGED <<admitted, submitted>> PROVE HandOver' /\ AdmittedOnce'
  BY <1>1 DEF HandOver, AdmittedOnce
<1>2. ASSUME NEW w \in Worker, SubmitTaken(w) PROVE HandOver' /\ AdmittedOnce'
  <2>1. workerPc[w] \in {"forward", "drainForward"}
    BY <1>2 DEF SubmitTaken, Pool!Forward
  <2>2. PICK e \in Event : /\ Head(task[w]) = e /\ Pool!ToSet(task[w]) = {e}
                           /\ e \notin submitted
    BY <2>1, InHandOnce
  <2>3. submitted' = submitted \cup {e} /\ admitted' = Append(admitted, e)
    BY <1>2, <2>2 DEF SubmitTaken, Pool!Forward, Batch!Submit
  <2>4. admitted \in Seq(Event) /\ IsFiniteSet(submitted)
    <3>1. BatchP!TypeOK /\ PoolP!Finite
      BY DEF PoolInv, PoolP!Counted, BatchInv, BatchP!IInv
    <3>. QED  BY <3>1 DEF PoolP!Finite, BatchP!TypeOK, IsFiniteSet, PoolP!IsFiniteSet
  <2>5. /\ Len(admitted') = Len(admitted) + 1 /\ ToSet(admitted') = ToSet(admitted) \cup {e}
    BY <2>3, <2>4, Elements
  <2>6. Cardinality(submitted') = Cardinality(submitted) + 1
    BY <2>2, <2>3, <2>4, FS_AddElement
  <2>7. HandOver'
    BY <2>3, <2>5, <2>6 DEF HandOver
  <2>8. e \notin PoolP!ToSet(admitted)
    BY <2>2 DEF HandOver, ToSet, PoolP!ToSet
  <2>9. AdmittedOnce'
    BY <2>3, <2>4, <2>8, PoolP!OnceAppend, CapacityAssumption, MaxBatchAssumption,
       WorkerAssumption DEF PoolP!OnceAppend, AdmittedOnce
  <2>. QED  BY <2>7, <2>9
<1>. QED  BY <1>1, <1>2, HandOverFrame

-----------------------------------------------------------------------------
(* The end: nothing enters the accumulator behind its drain.               *)

\* Once the accumulator has drained its channel, the channel stays empty.
DrainedOK == runPc = "done" \/ (mu /\ runPc # "drain") => inCh = <<>>

LEMMA RunDrains ==
    ASSUME BatchP!ControlOK, DrainedOK, Batch!Run \/ Batch!TickerFires
    PROVE  DrainedOK'
<1> USE DEF Batch!accVars, Batch!countVars, Batch!ctlVars, Batch!histVars, DrainedOK
<1>1. CASE Batch!Receive \/ Batch!AppendHeld \/ Batch!TakeTick \/ Batch!FlushOnTick
  BY <1>1 DEF Batch!Receive, Batch!AppendHeld, Batch!TakeTick, Batch!FlushOnTick,
              Batch!TickFlush, Batch!SwapOut, Batch!CallFlush, Batch!FlushReturns,
              Batch!Keep, BatchP!ControlOK
<1>2. CASE Batch!Flush
  BY <1>2 DEF Batch!Flush, Batch!FlushFails, Batch!FlushSucceeds, Batch!AddFlushed,
              Batch!AddBatches, Batch!Commit, Batch!FlushReturns
<1>3. CASE Batch!SeeCancel \/ Batch!DrainLock \/ Batch!DrainReceive
  BY <1>3 DEF Batch!SeeCancel, Batch!DrainLock, Batch!DrainReceive, BatchP!ControlOK
<1>4. CASE Batch!DrainEnd
  BY <1>4 DEF Batch!DrainEnd
<1>5. CASE Batch!TickerFires
  BY <1>5 DEF Batch!TickerFires
<1>. QED  BY <1>1, <1>2, <1>3, <1>4, <1>5 DEF Batch!Run

\* A worker that submits keeps main from stopping the accumulator.
LEMMA NotStopped ==
    ASSUME PoolInv, PhasesOK, NEW w \in Worker, workerPc[w] # "done"
    PROVE  ~mu /\ runPc # "done" /\ shutPc # "returned"
BY DEF PoolInv, PoolP!IInv, PoolP!ShutdownOK, PhasesOK

LEMMA DrainedStep ==
    PoolInv /\ BatchInv /\ PhasesOK /\ DrainedOK /\ [Next]_vars => DrainedOK'
<1> SUFFICES ASSUME PoolInv, BatchP!ControlOK, PhasesOK, DrainedOK, [Next]_vars
             PROVE  DrainedOK'
  BY DEF BatchInv, BatchP!IInv
<1> USE DEF batchVars
<1>1. ASSUME UNCHANGED <<runPc, mu, inCh>> PROVE DrainedOK'
  BY <1>1 DEF DrainedOK
<1>2. ASSUME NEW w \in Worker, SubmitTaken(w) PROVE DrainedOK'
  <2>1. workerPc[w] # "done" /\ UNCHANGED <<runPc, mu>>
    BY <1>2 DEF SubmitTaken, Pool!Forward, Batch!Submit
  <2>. QED  BY <2>1, NotStopped DEF DrainedOK
<1>3. CASE BatchStep
  BY <1>3, RunDrains DEF BatchStep
<1>4. CASE BatchStop
  BY <1>1, <1>4 DEF BatchStop, Batch!StopCancel, Batch!StopReturn, Batch!accVars
<1>5. ASSUME NEW h \in Handler, NEW events, NEW kind,
             \/ Accept(h) \/ EnqueueStep(h) \/ Reply(h) \/ Reject(h, events)
             \/ HandleEvents(h, events, kind)
      PROVE  DrainedOK'
  BY <1>1, <1>5 DEF Accept, EnqueueStep, Reply, Reject, HandleEvents
<1>6. ASSUME NEW w \in Worker, WorkerStep(w) \/ SubmitRefused(w) PROVE DrainedOK'
  BY <1>1, <1>6 DEF WorkerStep, SubmitRefused
<1>7. CASE Signal \/ HttpDrained \/ HttpTimeout \/ PoolShutdown
  BY <1>1, <1>7 DEF Signal, HttpDrained, HttpTimeout, PoolShutdown
<1>8. CASE UNCHANGED vars
  BY <1>1, <1>8 DEF vars
<1>. QED
  BY <1>2, <1>3, <1>4, <1>5, <1>6, <1>7, <1>8 DEF Next

LEMMA NothingInside ==
    PoolInv /\ BatchInv /\ PhasesOK /\ HandOver /\ DrainedOK => ExitLosesOnlyOverflow
<1> SUFFICES ASSUME PoolInv, BatchInv, PhasesOK, HandOver, DrainedOK,
                    mainPc = "exited" \/ Batch!Wedged
             PROVE  Inside = {}
  BY DEF ExitLosesOnlyOverflow
<1>1. runPc = "done" \/ Batch!Wedged
  BY DEF PhasesOK
<1>2. inCh = <<>> /\ shutPc = "returned"
  BY <1>1 DEF Batch!Wedged, DrainedOK, PhasesOK
<1>3. sent = submitted \cup refused
  <2>1. PoolP!ShutdownDrains
    BY PoolP!AllForwarded, CapacityAssumption, MaxBatchAssumption, WorkerAssumption
       DEF PoolP!AllForwarded, PoolInv
  <2>. QED  BY <1>2, <2>1 DEF PoolP!ShutdownDrains
<1>4. admitted = dispatched
  <2>1. BatchP!LoopEndLeavesNothing
    BY BatchP!AllDispatched, CapacityAssumption, ThresholdAssumption
       DEF BatchP!AllDispatched, BatchInv
  <2>2. admitted = dispatched \o <<>>
    BY <1>1, <1>2, <2>1 DEF BatchP!LoopEndLeavesNothing, Batch!Wedged, BatchP!Wedged
  <2>3. dispatched \in Seq(Event)
    BY DEF BatchInv, BatchP!IInv, BatchP!TypeOK
  <2>. QED  BY <2>2, <2>3, ConcatEmptySeq
<1>. QED  BY <1>3, <1>4 DEF Inside, HandOver

-----------------------------------------------------------------------------
(* The accumulator's books: what is dispatched was handed over, once.      *)

LEMMA ConcatElements ==
    ASSUME NEW s \in Seq(Event), NEW t \in Seq(Event)
    PROVE  /\ s \o t \in Seq(Event) /\ ToSet(s \o t) = ToSet(s) \cup ToSet(t)
           /\ (\A i, j \in 1..Len(s \o t) : (s \o t)[i] = (s \o t)[j] => i = j)
                => ToSet(s) \cap ToSet(t) = {}
<1> DEFINE u == s \o t
           m == Len(s)
           n == Len(t)
<1>1. /\ u \in Seq(Event) /\ Len(u) = m + n /\ m \in Nat /\ n \in Nat
      /\ \A i \in 1..(m + n) : u[i] = IF i <= m THEN s[i] ELSE t[i - m]
      /\ DOMAIN s = 1..m /\ DOMAIN t = 1..n /\ DOMAIN u = 1..(m + n)
  BY ConcatProperties, LenProperties
<1>2. \A i \in 1..m : i \in 1..(m + n) /\ u[i] = s[i]
  BY <1>1
<1>3. \A j \in 1..n : m + j \in 1..(m + n) /\ u[m + j] = t[j]
  <2> SUFFICES ASSUME NEW j \in 1..n PROVE m + j \in 1..(m + n) /\ u[m + j] = t[j]
    OBVIOUS
  <2>1. m + j \in 1..(m + n) /\ ~(m + j <= m) /\ (m + j) - m = j
    BY <1>1
  <2>. QED  BY <1>1, <2>1
<1>4. \A i \in 1..(m + n) : i \in 1..m \/ \E j \in 1..n : i = m + j
  <2> SUFFICES ASSUME NEW i \in 1..(m + n), i \notin 1..m PROVE \E j \in 1..n : i = m + j
    OBVIOUS
  <2>1. i - m \in 1..n /\ i = m + (i - m)
    BY <1>1
  <2>. QED  BY <2>1
<1>5. \A i \in 1..m, j \in 1..n : i # m + j
  BY <1>1
<1> HIDE DEF u, m, n
<1>e. /\ \A x : x \in ToSet(s) <=> \E i \in 1..m : x = s[i]
      /\ \A x : x \in ToSet(t) <=> \E i \in 1..n : x = t[i]
      /\ \A x : x \in ToSet(u) <=> \E i \in 1..(m + n) : x = u[i]
  BY <1>1 DEF ToSet
<1>6. ToSet(u) = ToSet(s) \cup ToSet(t)
  <2>1. ASSUME NEW x \in ToSet(u) PROVE x \in ToSet(s) \/ x \in ToSet(t)
    <3>1. PICK i \in 1..(m + n) : x = u[i]
      BY <1>e, <2>1
    <3>2. CASE i \in 1..m
      BY <1>2, <1>e, <3>1, <3>2
    <3>3. ASSUME NEW j \in 1..n, i = m + j PROVE x \in ToSet(t)
      BY <1>3, <1>e, <3>1, <3>3
    <3>. QED  BY <1>4, <3>2, <3>3
  <2>2. \A x \in ToSet(s) : x \in ToSet(u)
    BY <1>2, <1>e
  <2>3. ASSUME NEW j \in 1..n PROVE t[j] \in ToSet(u)
    BY <1>3, <1>e
  <2>. QED  BY <1>e, <2>1, <2>2, <2>3
<1>7. (\A i, j \in 1..(m + n) : u[i] = u[j] => i = j) => ToSet(s) \cap ToSet(t) = {}
  <2> SUFFICES ASSUME \A i, j \in 1..(m + n) : u[i] = u[j] => i = j,
                      NEW i \in 1..m, NEW j \in 1..n, s[i] = t[j]
               PROVE  FALSE
    BY <1>1 DEF ToSet
  <2>. QED  BY <1>2, <1>3, <1>5
<1>. QED  BY <1>1, <1>6, <1>7 DEF u

\* What a flush does to the books; no other step of the loop touches them.
LEMMA RunBooks ==
    ASSUME BatchP!TypeOK, Batch!Run \/ Batch!TickerFires
    PROVE  \/ UNCHANGED <<dispatched, flushErrors>>
           \/ /\ runPc = "flush" /\ dispatched' = dispatched \o toFlush
              /\ flushErrors' # flushErrors \/ UNCHANGED flushErrors
<1> USE DEF Batch!countVars, Batch!histVars
<1>1. CASE Batch!Flush
  BY <1>1 DEF Batch!Flush, Batch!FlushFails, Batch!FlushSucceeds, Batch!AddFlushed,
              Batch!AddBatches, Batch!Commit
<1>2. CASE \/ Batch!Receive \/ Batch!AppendHeld \/ Batch!TakeTick \/ Batch!FlushOnTick
           \/ Batch!SeeCancel \/ Batch!DrainLock \/ Batch!DrainReceive \/ Batch!DrainEnd
           \/ Batch!TickerFires
  BY <1>2 DEF Batch!Receive, Batch!AppendHeld, Batch!TakeTick, Batch!FlushOnTick,
              Batch!SeeCancel, Batch!DrainLock, Batch!DrainReceive, Batch!DrainEnd,
              Batch!TickerFires
<1>. QED  BY <1>1, <1>2 DEF Batch!Run

\* Where events can be: all that is dispatched was handed over, all that is being
\* flushed too and not before, and all of it came through the pool.
LEMMA Places ==
    ASSUME PoolInv, BatchInv, HandOver, AdmittedOnce
    PROVE  /\ ToSet(dispatched) \subseteq submitted
           /\ submitted \subseteq sent /\ refused \subseteq sent /\ sent \subseteq Event
           /\ submitted \cap refused = {}
           /\ runPc = "flush" => ToSet(toFlush) \subseteq submitted \ ToSet(dispatched)
           /\ dispatched \in Seq(Event) /\ toFlush \in Seq(Event)
<1>1. /\ submitted \subseteq sent /\ refused \subseteq sent /\ sent \subseteq Event
      /\ submitted \cap refused = {}
  BY DEF PoolInv, PoolP!IInv, PoolP!TypeOK, PoolP!Conserved, PoolP!Once, PoolP!PlacesApart
<1>2. BatchP!TypeOK /\ BatchP!OrderPreserved
  BY DEF BatchInv, BatchP!IInv
<1> DEFINE rest == buffer \o (held \o inCh)
           all == BatchP!InFlight \o rest
<1>3. /\ dispatched \in Seq(Event) /\ toFlush \in Seq(Event) /\ rest \in Seq(Event)
      /\ BatchP!InFlight \in Seq(Event)
  BY <1>2, ConcatProperties, Elements DEF BatchP!TypeOK, BatchP!InFlight
<1>4. admitted = dispatched \o all
  BY <1>2 DEF BatchP!OrderPreserved
<1> HIDE DEF rest
<1>5. all \in Seq(Event) /\ ToSet(all) = ToSet(BatchP!InFlight) \cup ToSet(rest)
  BY <1>3, ConcatElements
<1> HIDE DEF all
<1>6. ToSet(admitted) = ToSet(dispatched) \cup ToSet(all) /\ ToSet(dispatched) \cap ToSet(all) = {}
  <2> DEFINE whole == dispatched \o all
  <2>1. /\ ToSet(whole) = ToSet(dispatched) \cup ToSet(all)
        /\ (\A i, j \in 1..Len(whole) : whole[i] = whole[j] => i = j)
             => ToSet(dispatched) \cap ToSet(all) = {}
    BY <1>3, <1>5, ConcatElements
  <2> HIDE DEF whole
  <2>2. admitted = whole
    BY <1>4 DEF whole
  <2>. QED  BY <2>1, <2>2 DEF AdmittedOnce
<1>7. runPc = "flush" => ToSet(toFlush) \subseteq ToSet(all)
  BY <1>5 DEF BatchP!InFlight
<1>. QED  BY <1>1, <1>3, <1>6, <1>7 DEF HandOver

\* An event that failed to be written was dispatched.
UnwrittenOK == unwritten \subseteq ToSet(dispatched)

LEMMA DispatchedFrame ==
    ASSUME [Next]_vars PROVE BatchStep \/ UNCHANGED <<dispatched, unwritten>>
<1> USE DEF batchVars, Batch!histVars
<1>1. ASSUME NEW h \in Handler, NEW events, NEW kind,
             \/ Accept(h) \/ EnqueueStep(h) \/ Reply(h) \/ Reject(h, events)
             \/ HandleEvents(h, events, kind)
      PROVE  UNCHANGED <<dispatched, unwritten>>
  BY <1>1 DEF Accept, EnqueueStep, Reply, Reject, HandleEvents
<1>2. ASSUME NEW w \in Worker, WorkerStep(w) \/ SubmitTaken(w) \/ SubmitRefused(w)
      PROVE  UNCHANGED <<dispatched, unwritten>>
  BY <1>2 DEF WorkerStep, SubmitTaken, SubmitRefused, Batch!Submit
<1>3. CASE Signal \/ HttpDrained \/ HttpTimeout \/ PoolShutdown \/ BatchStop \/ UNCHANGED vars
  BY <1>3 DEF Signal, HttpDrained, HttpTimeout, PoolShutdown, BatchStop, Batch!StopCancel,
     Batch!StopReturn, vars
<1>. QED  BY <1>1, <1>2, <1>3 DEF Next

LEMMA UnwrittenStep ==
    PoolInv /\ BatchInv /\ HandOver /\ AdmittedOnce /\ UnwrittenOK /\ [Next]_vars => UnwrittenOK'
<1> SUFFICES ASSUME PoolInv, BatchInv, HandOver, AdmittedOnce, UnwrittenOK, [Next]_vars
             PROVE  UnwrittenOK'
  OBVIOUS
<1>1. CASE UNCHANGED <<dispatched, unwritten>>
  BY <1>1 DEF UnwrittenOK
<1>2. CASE BatchStep
  <2>1. \/ UNCHANGED <<dispatched, flushErrors>>
        \/ dispatched' = dispatched \o toFlush
    BY <1>2, RunBooks DEF BatchStep, BatchInv, BatchP!IInv
  <2>2. ToSet(dispatched \o toFlush) = ToSet(dispatched) \cup ToSet(toFlush)
    BY Places, ConcatElements
  <2>. QED  BY <1>2, <2>1, <2>2 DEF BatchStep, UnwrittenOK
<1>. QED  BY <1>1, <1>2, DispatchedFrame

-----------------------------------------------------------------------------
(* The router's books: a request and what it will say of its events.       *)

\* The events of a request are its own, and their clients wait for an answer.
Waiting == \A h \in Handler : \A e \in ToSet(posted[h]) : told[e] = "none" /\ e \notin fresh

PostedOK ==
    /\ \A h \in Handler : httpPc[h] \notin {"single", "batch"} => posted[h] = <<>>
    /\ \A h \in Handler : ToSet(request[h]) \subseteq ToSet(posted[h])
    /\ \A h, k \in Handler : h # k => ToSet(posted[h]) \cap ToSet(posted[k]) = {}
    /\ Waiting
    /\ \A e \in fresh : told[e] = "none"

\* A request's tally counts what Enqueue answered for the events it is done with.
Done(h)   == ToSet(posted[h]) \ ToSet(request[h])
Taken(h)  == {e \in Done(h) : answer[e] = "accepted"}
Turned(h) == {e \in Done(h) : answer[e] \in {"full", "shut"}}

CountsOK ==
    \A h \in Handler :
        httpPc[h] \in {"single", "batch"} =>
            /\ tally[h].accepted = Cardinality(Taken(h))
            /\ tally[h].dropped = Cardinality(Turned(h))
            /\ Done(h) = Taken(h) \cup Turned(h)

LEMMA PostedInit == Init => PostedOK
<1> SUFFICES ASSUME Init PROVE PostedOK
  OBVIOUS
<1>1. \A h \in Handler : ToSet(posted[h]) = {} /\ ToSet(request[h]) = {}
  BY Elements DEF Init, Pool!Init
<1>2. posted = [h \in Handler |-> <<>>] /\ fresh \subseteq Event /\ told = [e \in Event |-> "none"]
  BY DEF Init, Pool!Init
<1>. QED  BY <1>1, <1>2 DEF PostedOK, Waiting

\* A step of Enqueue returns for the first event of the request, or moves none.
LEMMA EnqueueMoves ==
    ASSUME PoolInv, NEW h \in Handler, EnqueueStep(h)
    PROVE  \/ UNCHANGED <<request, tally, answer>>
           \/ \E result \in {"accepted", "full", "shut"} :
                 Pool!EnqueueReturns(h, result) /\ handlerPc[h] \in {"check", "send", "count"}
BY DEF EnqueueStep, Pool!Enqueue, Pool!CheckFlag, Pool!SendTask, Pool!SendFull, Pool!SendPanics,
       Pool!CountAccepted, Pool!histVars

\* The head of a sequence without repetitions is not in its tail.
Apart(s) == \A i, j \in 1..Len(s) : s[i] = s[j] => i = j

LEMMA HeadOnce ==
    ASSUME NEW s \in Seq(Event), s # <<>>, Apart(s)
    PROVE  Head(s) \notin ToSet(Tail(s))
<1>1. /\ Len(s) \in Nat /\ Len(s) > 0 /\ Head(s) = s[1] /\ Len(Tail(s)) = Len(s) - 1
      /\ \A i \in 1..Len(Tail(s)) : Tail(s)[i] = s[i + 1]
  BY HeadTailProperties, LenProperties, EmptySeq
<1>2. \A i \in 1..Len(Tail(s)) : i + 1 \in 1..Len(s) /\ 1 \in 1..Len(s) /\ i + 1 # 1
  BY <1>1
<1>. QED  BY <1>1, <1>2 DEF Apart, ToSet

LEMMA Returned ==
    ASSUME PoolInv, NEW h \in Handler, NEW result \in {"accepted", "full", "shut"},
           Pool!EnqueueReturns(h, result), handlerPc[h] \in {"check", "send", "count"}
    PROVE  \E e \in Event :
             /\ ToSet(request[h]) = {e} \cup ToSet(request'[h]) /\ e \notin ToSet(request'[h])
             /\ \A k \in Handler \ {h} : request'[k] = request[k] /\ tally'[k] = tally[k]
             /\ answer'[e] = result /\ \A d \in Event \ {e} : answer'[d] = answer[d]
             /\ result = "accepted" => /\ tally'[h].accepted = tally[h].accepted + 1
                                       /\ tally'[h].dropped = tally[h].dropped
             /\ result # "accepted" => /\ tally'[h].dropped = tally[h].dropped + 1
                                       /\ tally'[h].accepted = tally[h].accepted
<1> DEFINE e == Head(request[h])
<1>1. PoolP!TypeOK /\ request[h] \in Seq(Event) /\ request[h] # <<>>
  BY DEF PoolInv, PoolP!IInv, PoolP!TypeOK, PoolP!RequestsOK, PoolP!BusyHasEvent
<1>2. e \in Event /\ ToSet(request[h]) = {e} \cup ToSet(Tail(request[h]))
  BY <1>1, PoolP!ElementsHeadTail, CapacityAssumption, MaxBatchAssumption, WorkerAssumption
     DEF PoolP!ElementsHeadTail, ToSet, PoolP!ToSet
<1>3. /\ answer' = [answer EXCEPT ![e] = result]
      /\ request' = [request EXCEPT ![h] = Tail(request[h])]
      /\ tally' = IF result = "accepted" THEN [tally EXCEPT ![h].accepted = @ + 1]
                                         ELSE [tally EXCEPT ![h].dropped = @ + 1]
  BY DEF Pool!EnqueueReturns
<1>4. /\ tally \in [Handler -> [accepted : Nat, dropped : Nat]]
      /\ request \in [Handler -> Seq(Event)]
      /\ answer \in [Event -> {"none", "accepted", "full", "shut"}]
  BY <1>1 DEF PoolP!TypeOK
<1> HIDE DEF e
<1>5. request'[h] = Tail(request[h]) /\ \A k \in Handler \ {h} : request'[k] = request[k]
  BY <1>3, <1>4
<1>6. \A k \in Handler \ {h} : tally'[k] = tally[k]
  BY <1>3, <1>4
<1>7. answer'[e] = result /\ \A d \in Event \ {e} : answer'[d] = answer[d]
  BY <1>2, <1>3, <1>4
<1>8. tally[h] \in [accepted : Nat, dropped : Nat]
  BY <1>4
<1>9. result = "accepted" => /\ tally'[h].accepted = tally[h].accepted + 1
                             /\ tally'[h].dropped = tally[h].dropped
  BY <1>3, <1>4
<1>10. result # "accepted" => /\ tally'[h].dropped = tally[h].dropped + 1
                              /\ tally'[h].accepted = tally[h].accepted
  BY <1>3, <1>4
<1>11. e \notin ToSet(Tail(request[h]))
  <2>1. Apart(request[h])
    BY DEF PoolInv, PoolP!IInv, PoolP!RequestsOK, PoolP!Apart, Apart
  <2>. QED  BY <1>1, <2>1, HeadOnce DEF e
<1>. QED  BY <1>2, <1>5, <1>6, <1>7, <1>9, <1>10, <1>11

LEMMA PostedFrame ==
    ASSUME [Next]_vars
    PROVE  \/ \E h \in Handler :
                 \/ Accept(h) \/ EnqueueStep(h) \/ Reply(h)
                 \/ \E events \in Requests :
                      \/ Reject(h, events)
                      \/ \E kind \in {"single", "batch"} : HandleEvents(h, events, kind)
           \/ UNCHANGED <<posted, told, httpPc, request, tally, answer, fresh>>
<1> USE DEF routerVars, poolVars, poolCore, poolHist, Pool!handlerVars, Pool!histVars
<1>1. ASSUME NEW w \in Worker, WorkerStep(w) \/ SubmitTaken(w) \/ SubmitRefused(w)
      PROVE  UNCHANGED <<posted, told, httpPc, request, tally, answer, fresh>>
  BY <1>1 DEF WorkerStep, SubmitTaken, SubmitRefused, Pool!WorkerStep, Pool!Forward,
     Pool!SelectTask, Pool!SelectClosed, Pool!SelectCancel, Pool!DrainTask, Pool!DrainEnd,
     Pool!CountProcessed, Pool!CountDropped, Pool!Take, Pool!Move
<1>2. CASE \/ BatchStep \/ Signal \/ HttpDrained \/ HttpTimeout \/ BatchStop \/ UNCHANGED vars
  BY <1>2 DEF BatchStep, Signal, HttpDrained, HttpTimeout, BatchStop, vars
<1>3. CASE PoolShutdown
  BY <1>3 DEF PoolShutdown, Pool!ShutFlag, Pool!ShutStep, Pool!ShutClose, Pool!ShutCancel,
     Pool!ShutReturn
<1>. QED  BY <1>1, <1>2, <1>3 DEF Next

LEMMA PostedStep ==
    PoolInv /\ EngineTypes /\ PostedOK /\ [Next]_vars => PostedOK'
<1> SUFFICES ASSUME PoolInv, EngineTypes, PostedOK, [Next]_vars PROVE PostedOK'
  OBVIOUS
<1>t. /\ fresh \subseteq Event /\ request \in [Handler -> Seq(Event)]
      /\ tally \in [Handler -> [accepted : Nat, dropped : Nat]]
      /\ httpPc \in [Handler -> {"idle", "serving", "single", "batch"}]
      /\ posted \in [Handler -> Seq(Event)]
      /\ told \in [Event -> {"none", "accepted", "counted", "refused"}]
      /\ \A h \in Handler : ToSet(posted[h]) \subseteq Event
  BY Elements DEF PoolInv, PoolP!IInv, PoolP!TypeOK, EngineTypes
<1>1. ASSUME UNCHANGED <<posted, told, httpPc, request, tally, answer, fresh>>
      PROVE  PostedOK'
  BY <1>1 DEF PostedOK, Waiting
<1>2. ASSUME NEW h \in Handler, Accept(h) PROVE PostedOK'
  <2>1. /\ httpPc[h] = "idle" /\ httpPc' = [httpPc EXCEPT ![h] = "serving"]
        /\ UNCHANGED <<posted, told, request, tally, answer, fresh>>
    BY <1>2 DEF Accept, poolVars, poolCore, poolHist
  <2>. QED  BY <1>t, <2>1 DEF PostedOK, Waiting
<1>3. ASSUME NEW h \in Handler, NEW events \in Requests, Reject(h, events)
      PROVE  PostedOK'
  <2>1. /\ httpPc[h] = "serving" /\ httpPc' = [httpPc EXCEPT ![h] = "idle"]
        /\ fresh' = fresh \ ToSet(events)
        /\ told' = [e \in Event |-> IF e \in ToSet(events) THEN "refused" ELSE told[e]]
        /\ UNCHANGED <<posted, request, tally, answer>>
    BY <1>3 DEF Reject, Respond, poolCore, poolHist
  <2>2. ToSet(events) \subseteq fresh
    BY RequestTypes
  <2>3. \A e \in Event : e \notin fresh \/ e \notin ToSet(events) => told'[e] = told[e]
    BY <2>1, <2>2
  <2>4. Waiting' /\ \A e \in fresh' : told'[e] = "none"
    BY <1>t, <2>1, <2>3 DEF PostedOK, Waiting
  <2>. QED  BY <1>t, <2>1, <2>4 DEF PostedOK
<1>4. ASSUME NEW h \in Handler, NEW events \in Requests, NEW kind \in {"single", "batch"},
             HandleEvents(h, events, kind)
      PROVE  PostedOK'
  <2>1. /\ httpPc[h] = "serving" /\ httpPc' = [httpPc EXCEPT ![h] = kind]
        /\ posted' = [posted EXCEPT ![h] = events]
        /\ request' = [request EXCEPT ![h] = events]
        /\ tally' = [tally EXCEPT ![h] = [accepted |-> 0, dropped |-> 0]]
        /\ fresh' = fresh \ Pool!ToSet(events)
        /\ UNCHANGED <<told, answer>>
    BY <1>4 DEF HandleEvents, Pool!Call
  <2>2. ToSet(events) \subseteq fresh /\ fresh' = fresh \ ToSet(events)
    BY <2>1, RequestTypes DEF ToSet, Pool!ToSet
  <2>3. /\ httpPc'[h] = kind /\ posted'[h] = events /\ request'[h] = events
        /\ \A k \in Handler \ {h} : /\ httpPc'[k] = httpPc[k] /\ posted'[k] = posted[k]
                                    /\ request'[k] = request[k] /\ tally'[k] = tally[k]
    BY <1>t, <2>1
  <2>4. \A k \in Handler : ToSet(posted[k]) \cap ToSet(events) = {}
    BY <2>2 DEF PostedOK, Waiting
  <2>5. Waiting' /\ \A e \in fresh' : told'[e] = "none"
    BY <2>1, <2>2, <2>3 DEF PostedOK, Waiting
  <2>6. \A k, l \in Handler : k # l => ToSet(posted'[k]) \cap ToSet(posted'[l]) = {}
    BY <2>3, <2>4 DEF PostedOK
  <2>. QED  BY <2>3, <2>5, <2>6 DEF PostedOK
<1>5. ASSUME NEW h \in Handler, EnqueueStep(h) PROVE PostedOK'
  <2>1. UNCHANGED <<httpPc, posted, told, fresh>>
    BY <1>5 DEF EnqueueStep, routerVars, Pool!Enqueue, Pool!CheckFlag, Pool!SendTask,
       Pool!SendFull, Pool!SendPanics, Pool!CountAccepted, Pool!histVars
  <2>2. CASE UNCHANGED <<request, tally, answer>>
    BY <1>1, <2>1, <2>2
  <2>3. ASSUME NEW result \in {"accepted", "full", "shut"}, Pool!EnqueueReturns(h, result),
               handlerPc[h] \in {"check", "send", "count"}
        PROVE  PostedOK'
    <3>1. PICK e \in Event : /\ ToSet(request[h]) = {e} \cup ToSet(request'[h])
                             /\ \A k \in Handler \ {h} : request'[k] = request[k]
      BY <2>3, Returned
    <3>. QED
      BY <2>1, <3>1 DEF PostedOK, Waiting
  <2>. QED  BY <1>5, <2>2, <2>3, EnqueueMoves
<1>6. ASSUME NEW h \in Handler, Reply(h) PROVE PostedOK'
  <2> DEFINE what == Outcome(httpPc[h], tally[h])
  <2>1. /\ handlerPc[h] = "idle" /\ httpPc' = [httpPc EXCEPT ![h] = "idle"]
        /\ posted' = [posted EXCEPT ![h] = <<>>]
        /\ told' = [e \in Event |-> IF e \in ToSet(posted[h]) THEN what ELSE told[e]]
        /\ UNCHANGED <<request, tally, answer, fresh>>
    BY <1>6 DEF Reply, Respond, poolVars, poolCore, poolHist
  <2> HIDE DEF what
  <2>2. /\ httpPc'[h] = "idle" /\ posted'[h] = <<>> /\ ToSet(posted'[h]) = {}
        /\ \A k \in Handler \ {h} : httpPc'[k] = httpPc[k] /\ posted'[k] = posted[k]
    BY <1>t, <2>1, Elements
  <2>3. request[h] = <<>> /\ ToSet(request[h]) = {}
    BY <2>1, Elements DEF PoolInv, PoolP!IInv, PoolP!RequestsOK, PoolP!BusyHasEvent
  <2>4. \A e \in Event : e \notin ToSet(posted[h]) => told'[e] = told[e]
    BY <2>1
  <2>5. \A k \in Handler \ {h} : \A e \in ToSet(posted[k]) : told'[e] = "none" /\ e \notin fresh
    BY <1>t, <2>4 DEF PostedOK, Waiting
  <2>6. \A e \in fresh : told'[e] = "none"
    BY <1>t, <2>4 DEF PostedOK, Waiting
  <2>7. Waiting'
    BY <2>1, <2>2, <2>5 DEF Waiting
  <2>8. \A k \in Handler : httpPc'[k] \notin {"single", "batch"} => posted'[k] = <<>>
    BY <2>2 DEF PostedOK
  <2>9. \A k \in Handler : ToSet(request'[k]) \subseteq ToSet(posted'[k])
    BY <2>1, <2>2, <2>3 DEF PostedOK
  <2>10. \A k, l \in Handler : k # l => ToSet(posted'[k]) \cap ToSet(posted'[l]) = {}
    BY <2>2 DEF PostedOK
  <2>. QED  BY <2>1, <2>6, <2>7, <2>8, <2>9, <2>10 DEF PostedOK
<1>. QED  BY <1>1, <1>2, <1>3, <1>4, <1>5, <1>6, PostedFrame

\* The counts of a request stay right while nothing of it changes.
LEMMA CountsKept ==
    ASSUME CountsOK, NEW k \in Handler,
           httpPc'[k] \in {"single", "batch"} => httpPc'[k] = httpPc[k],
           posted'[k] = posted[k], request'[k] = request[k], tally'[k] = tally[k],
           \A d \in ToSet(posted[k]) : answer'[d] = answer[d]
    PROVE  httpPc'[k] \in {"single", "batch"} =>
              /\ tally'[k].accepted = Cardinality(Taken(k)')
              /\ tally'[k].dropped = Cardinality(Turned(k)')
              /\ Done(k)' = Taken(k)' \cup Turned(k)'
<1>1. Done(k)' = Done(k) /\ Done(k) \subseteq ToSet(posted[k])
  BY DEF Done
<1>2. Taken(k)' = Taken(k) /\ Turned(k)' = Turned(k)
  BY <1>1 DEF Taken, Turned
<1>. QED  BY <1>1, <1>2 DEF CountsOK

LEMMA CountsStep ==
    PoolInv /\ EngineTypes /\ PostedOK /\ CountsOK /\ [Next]_vars => CountsOK'
<1> SUFFICES ASSUME PoolInv, EngineTypes, PostedOK, CountsOK, [Next]_vars PROVE CountsOK'
  OBVIOUS
<1> DEFINE Right(k) == httpPc[k] \in {"single", "batch"} =>
                          /\ tally[k].accepted = Cardinality(Taken(k))
                          /\ tally[k].dropped = Cardinality(Turned(k))
                          /\ Done(k) = Taken(k) \cup Turned(k)
<1>q. (\A k \in Handler : Right(k)') => CountsOK'
  BY DEF CountsOK
<1>t. /\ tally \in [Handler -> [accepted : Nat, dropped : Nat]]
      /\ request \in [Handler -> Seq(Event)]
      /\ httpPc \in [Handler -> {"idle", "serving", "single", "batch"}]
      /\ posted \in [Handler -> Seq(Event)]
      /\ \A h \in Handler : ToSet(posted[h]) \subseteq Event
  BY Elements DEF PoolInv, PoolP!IInv, PoolP!TypeOK, EngineTypes
<1>1. CASE UNCHANGED <<posted, told, httpPc, request, tally, answer, fresh>>
  BY <1>1 DEF CountsOK, Taken, Turned, Done
\* A handler that has no request to answer has no counts to be right.
<1>2. ASSUME NEW h \in Handler, Accept(h) \/ Reply(h) \/ \E events \in Requests : Reject(h, events)
      PROVE  CountsOK'
  <2>1. /\ httpPc'[h] \notin {"single", "batch"} /\ UNCHANGED <<request, tally, answer>>
        /\ \A k \in Handler \ {h} : httpPc'[k] = httpPc[k] /\ posted'[k] = posted[k]
    BY <1>2, <1>t DEF Accept, Reply, Reject, poolVars, poolCore, poolHist
  <2>2. ASSUME NEW k \in Handler \ {h} PROVE Right(k)'
    BY <2>1, CountsKept
  <2>. QED  BY <1>q, <2>1, <2>2
<1>3. ASSUME NEW h \in Handler, NEW events \in Requests, NEW kind \in {"single", "batch"},
             HandleEvents(h, events, kind)
      PROVE  CountsOK'
  <2>1. /\ httpPc' = [httpPc EXCEPT ![h] = kind]
        /\ posted' = [posted EXCEPT ![h] = events]
        /\ request' = [request EXCEPT ![h] = events]
        /\ tally' = [tally EXCEPT ![h] = [accepted |-> 0, dropped |-> 0]]
        /\ UNCHANGED answer
    BY <1>3 DEF HandleEvents, Pool!Call
  <2>2. /\ \A k \in Handler \ {h} : /\ httpPc'[k] = httpPc[k] /\ posted'[k] = posted[k]
                                    /\ request'[k] = request[k] /\ tally'[k] = tally[k]
        /\ posted'[h] = request'[h] /\ tally'[h].accepted = 0 /\ tally'[h].dropped = 0
    BY <1>t, <2>1
  <2>3. Done(h)' = {} /\ Taken(h)' = {} /\ Turned(h)' = {}
    BY <2>2 DEF Done, Taken, Turned
  <2>4. Right(h)'
    BY <2>2, <2>3, FS_EmptySet
  <2>5. ASSUME NEW k \in Handler \ {h} PROVE Right(k)'
    BY <2>1, <2>2, CountsKept
  <2>. QED  BY <1>q, <2>4, <2>5
<1>4. ASSUME NEW h \in Handler, EnqueueStep(h) PROVE CountsOK'
  <2>1. UNCHANGED <<httpPc, posted, told, fresh>>
    BY <1>4 DEF EnqueueStep, routerVars, Pool!Enqueue, Pool!CheckFlag, Pool!SendTask,
       Pool!SendFull, Pool!SendPanics, Pool!CountAccepted, Pool!histVars
  <2>2. CASE UNCHANGED <<request, tally, answer>>
    BY <1>1, <2>1, <2>2
  <2>3. ASSUME NEW result \in {"accepted", "full", "shut"}, Pool!EnqueueReturns(h, result),
               handlerPc[h] \in {"check", "send", "count"}
        PROVE  CountsOK'
    <3>1. PICK e \in Event :
             /\ ToSet(request[h]) = {e} \cup ToSet(request'[h]) /\ e \notin ToSet(request'[h])
             /\ \A k \in Handler \ {h} : request'[k] = request[k] /\ tally'[k] = tally[k]
             /\ answer'[e] = result /\ \A d \in Event \ {e} : answer'[d] = answer[d]
             /\ result = "accepted" => /\ tally'[h].accepted = tally[h].accepted + 1
                                       /\ tally'[h].dropped = tally[h].dropped
             /\ result # "accepted" => /\ tally'[h].dropped = tally[h].dropped + 1
                                       /\ tally'[h].accepted = tally[h].accepted
      BY <2>3, Returned
    <3>2. e \in ToSet(posted[h])
      BY <3>1 DEF PostedOK
    <3>3. ASSUME NEW k \in Handler \ {h} PROVE Right(k)'
      <4>1. e \notin ToSet(posted[k])
        BY <3>2 DEF PostedOK
      <4>2. \A d \in ToSet(posted[k]) : answer'[d] = answer[d]
        BY <1>t, <3>1, <4>1
      <4>. QED  BY <2>1, <3>1, <4>2, CountsKept
    <3>4. /\ Done(h)' = Done(h) \cup {e} /\ e \notin Done(h) /\ Done(h) \subseteq Event
          /\ \A d \in Done(h) : answer'[d] = answer[d]
      BY <1>t, <2>1, <3>1, <3>2 DEF Done
    <3>5. IsFiniteSet(Taken(h)) /\ IsFiniteSet(Turned(h)) /\ e \notin Taken(h) \cup Turned(h)
      BY <3>4, EventAssumption, FS_Subset DEF Taken, Turned
    <3>6. CASE result = "accepted"
      <4>1. Taken(h)' = Taken(h) \cup {e} /\ Turned(h)' = Turned(h)
        BY <3>1, <3>4, <3>6 DEF Taken, Turned
      <4>2. Cardinality(Taken(h)') = Cardinality(Taken(h)) + 1
        BY <3>5, <4>1, FS_AddElement
      <4>3. Right(h)'
        BY <2>1, <3>1, <3>4, <3>6, <4>1, <4>2 DEF CountsOK
      <4>. QED  BY <1>q, <3>3, <4>3
    <3>7. CASE result \in {"full", "shut"}
      <4>1. Turned(h)' = Turned(h) \cup {e} /\ Taken(h)' = Taken(h)
        BY <3>1, <3>4, <3>7 DEF Taken, Turned
      <4>2. Cardinality(Turned(h)') = Cardinality(Turned(h)) + 1
        BY <3>5, <4>1, FS_AddElement
      <4>3. Right(h)'
        BY <2>1, <3>1, <3>4, <3>7, <4>1, <4>2 DEF CountsOK
      <4>. QED  BY <1>q, <3>3, <4>3
    <3>. QED  BY <3>6, <3>7
  <2>. QED  BY <1>4, <2>2, <2>3, EnqueueMoves
<1>. QED  BY <1>1, <1>2, <1>3, <1>4, PostedFrame

-----------------------------------------------------------------------------
(* The inductive invariant, and what follows from it.                      *)

EngineInv ==
    /\ PoolInv /\ BatchInv /\ EngineTypes
    /\ PhasesOK /\ ServedOK /\ PanicOnlyAfterTimeout
    /\ HandOver /\ AdmittedOnce /\ DrainedOK
    /\ UnwrittenOK /\ PostedOK /\ CountsOK

LEMMA EngineInit == Init => EngineInv
<1>1. Init => DrainedOK /\ UnwrittenOK /\ CountsOK
  BY DEF Init, Batch!Init, DrainedOK, UnwrittenOK, CountsOK
<1>. QED
  BY <1>1, ComponentsInit, TypesInit, PhasesInit, HandOverInit, PostedInit DEF EngineInv

LEMMA EngineStep == EngineInv /\ [Next]_vars => EngineInv'
BY PoolInvStep, BatchInvStep, TypesStep, PhasesStep, ServedStep, HandOverStep, DrainedStep,
   UnwrittenStep, PostedStep, CountsStep
   DEF EngineInv

LEMMA EngineCorrect == Spec => []EngineInv
BY EngineInit, EngineStep, PTL DEF Spec

\* Every variable of the service keeps its type at every interleaving of
\* requests, workers, accumulator and shutdown; both channels stay within their
\* capacities (pool.go:46, processor.go:50).
THEOREM TypeCorrect == Spec => []TypeOK
<1>1. EngineInv => TypeOK
  <2> SUFFICES ASSUME EngineInv PROVE TypeOK
    OBVIOUS
  <2>1. PoolP!TypeOK /\ BatchP!TypeOK /\ EngineTypes
    BY DEF EngineInv, PoolInv, PoolP!IInv, BatchInv, BatchP!IInv
  <2>2. Pool!TypeOK
    BY <2>1 DEF Pool!TypeOK, PoolP!TypeOK
  <2>3. Batch!TypeOK
    BY <2>1 DEF Batch!TypeOK, BatchP!TypeOK, Batch!RunPc, BatchP!RunPc
  <2>. QED  BY <2>1, <2>2, <2>3 DEF TypeOK, EngineTypes
<1>. QED  BY <1>1, EngineCorrect, PTL

\* A handler finds the pool's channel closed under it only if httpServer.Shutdown
\* gave up waiting for a request (main.go:117-127, pool.go:97-109, 134-143).
THEOREM PanicOnlyAfterTimeoutCorrect == Spec => []PanicOnlyAfterTimeout
<1>1. EngineInv => PanicOnlyAfterTimeout
  BY DEF EngineInv
<1>. QED  BY <1>1, EngineCorrect, PTL

\* A finished request's counts, put in terms of the queue.
LEMMA NumbersTrue == EngineInv => ReplyIsTrue
<1> SUFFICES ASSUME EngineInv, NEW h \in Handler,
                    httpPc[h] \in {"single", "batch"}, handlerPc[h] = "idle"
             PROVE  /\ tally[h].accepted = Cardinality(ToSet(posted[h]) \cap sent)
                    /\ tally[h].dropped = Cardinality(ToSet(posted[h]) \ sent)
  BY DEF ReplyIsTrue
<1>1. request[h] = <<>>
  BY DEF EngineInv, PoolInv, PoolP!IInv, PoolP!RequestsOK, PoolP!BusyHasEvent
<1>2. Done(h) = ToSet(posted[h]) /\ Done(h) \subseteq Event
  BY <1>1, Elements DEF Done, EngineInv, EngineTypes
<1>3. \A e \in Event : /\ answer[e] = "accepted" => e \in sent
                       /\ answer[e] \in {"full", "shut"} => e \notin sent
  BY DEF EngineInv, PoolInv, PoolP!IInv, PoolP!AnswerIsTruth
<1>4. CountsOK /\ Done(h) = Taken(h) \cup Turned(h)
  BY DEF EngineInv, CountsOK
<1>5. Taken(h) = Done(h) \cap sent /\ Turned(h) = Done(h) \ sent
  BY <1>2, <1>3, <1>4 DEF Taken, Turned
<1>. QED  BY <1>2, <1>4, <1>5 DEF CountsOK

\* The two numbers of a response are those of the events of its request that are
\* in the queue and that are not: whatever refused them, and also when the
\* shutdown begins half way through a batch (pool.go:97-126, router.go:131-145).
THEOREM ReplyIsTrueCorrect == Spec => []ReplyIsTrue
BY NumbersTrue, EngineCorrect, PTL

\* The order in which main() stops the server, the pool and the accumulator
\* leaves no event behind: when it is at its end every event taken in was passed
\* to the store or found the accumulator's channel full (main.go:116-130).
THEOREM ExitLosesOnlyOverflowCorrect == Spec => []ExitLosesOnlyOverflow
<1>1. EngineInv => ExitLosesOnlyOverflow
  BY NothingInside DEF EngineInv
<1>. QED  BY <1>1, EngineCorrect, PTL

-----------------------------------------------------------------------------
(* The service implements the ledger.                                      *)

LEMMA LedgerInit == Init => Promise!LedgerInit
<1> SUFFICES ASSUME Init PROVE Promise!LedgerInit
  OBVIOUS
<1>1. /\ sent = {} /\ refused = {} /\ dispatched = <<>> /\ unwritten = {}
      /\ told = [e \in Event |-> "none"]
  BY DEF Init, Pool!Init, Batch!Init
<1>. QED  BY <1>1, Elements DEF Promise!LedgerInit, Inside, Written, Lost

\* What the ledger has taken in is what entered the pool's channel.
LEMMA TakenIsSent == EngineInv => Promise!Taken = sent
BY Places DEF EngineInv, UnwrittenOK, Promise!Taken, Inside, Written, Lost

\* A step that tells nobody anything and moves no event is none of the ledger's.
LEMMA LedgerStutter ==
    ASSUME UNCHANGED <<told, sent, refused, dispatched, unwritten>>
    PROVE  UNCHANGED Promise!ledgerVars
BY DEF Promise!ledgerVars, Inside, Written, Lost

\* A handler's step takes the event in that it sends.
LEMMA EnqueueTakesIn ==
    ASSUME EngineInv, NEW h \in Handler, EnqueueStep(h)
    PROVE  (\E e \in Event : Promise!TakeIn(e)) \/ UNCHANGED Promise!ledgerVars
<1>1. UNCHANGED <<told, refused, dispatched, unwritten>>
  BY DEF EnqueueStep, routerVars, batchVars, Pool!Enqueue, Pool!CheckFlag, Pool!SendTask,
     Pool!SendFull, Pool!SendPanics, Pool!CountAccepted, Pool!histVars
<1>2. CASE UNCHANGED sent
  BY <1>1, <1>2, LedgerStutter
<1>3. CASE Pool!SendTask(h)
  <2> DEFINE e == Head(request[h])
  <2>1. handlerPc[h] = "send" /\ sent' = sent \cup {e}
    BY <1>3 DEF Pool!SendTask
  <2>2. PoolP!TypeOK /\ PoolP!BusyHasEvent /\ PoolP!OwnEvents
    BY DEF EngineInv, PoolInv, PoolP!IInv, PoolP!RequestsOK
  <2>3. /\ request[h] \in Seq(Event) /\ request[h] # <<>> /\ e \in Event
        /\ e = request[h][1] /\ 1 \in 1..Len(request[h])
    BY <2>1, <2>2, PoolP!HeadTypes, CapacityAssumption, MaxBatchAssumption, WorkerAssumption
       DEF PoolP!HeadTypes
  <2>4. e \notin sent
    BY <2>1, <2>2, <2>3 DEF PoolP!OwnEvents
  <2>5. e \in ToSet(request[h])
    BY <2>3, LenProperties DEF ToSet
  <2>6. told[e] = "none"
    BY <2>5 DEF EngineInv, PostedOK, Waiting
  <2> HIDE DEF e
  <2>7. e \notin ToSet(dispatched) /\ e \notin refused
    BY <2>4, Places DEF EngineInv
  <2>8. Inside' = Inside \cup {e} /\ UNCHANGED <<Written, Lost>>
    BY <1>1, <2>1, <2>7 DEF Inside, Written, Lost
  <2>9. Promise!TakeIn(e)
    BY <1>1, <2>4, <2>6, <2>8, TakenIsSent DEF Promise!TakeIn
  <2>. QED  BY <2>3, <2>9
<1>. QED
  BY <1>2, <1>3 DEF EnqueueStep, Pool!Enqueue, Pool!CheckFlag, Pool!SendFull, Pool!SendPanics,
     Pool!CountAccepted, Pool!histVars

\* A request turned away was never taken in.
LEMMA RejectTells ==
    ASSUME EngineInv, NEW h \in Handler, NEW events \in Requests, Reject(h, events)
    PROVE  ToSet(events) \in SUBSET Event /\ Promise!Tell(ToSet(events), "refused")
<1>1. ToSet(events) \subseteq fresh /\ ToSet(events) \subseteq Event
  BY RequestTypes, Elements DEF EngineInv
<1>2. /\ told' = [e \in Event |-> IF e \in ToSet(events) THEN "refused" ELSE told[e]]
      /\ UNCHANGED <<sent, refused, dispatched, unwritten>>
  BY DEF Reject, Respond, poolHist, batchVars
<1>3. UNCHANGED <<Inside, Written, Lost>>
  BY <1>2 DEF Inside, Written, Lost
<1>4. \A e \in ToSet(events) : told[e] = "none" /\ e \notin sent
  BY <1>1 DEF EngineInv, PostedOK, PoolInv, PoolP!IInv, PoolP!RequestsOK, PoolP!FreshIsNew
<1>. QED  BY <1>1, <1>2, <1>3, <1>4, TakenIsSent DEF Promise!Tell

\* What a response says of all events of its request is true of each.
LEMMA ReplyTells ==
    ASSUME EngineInv, NEW h \in Handler, Reply(h)
    PROVE  \E what \in {"accepted", "counted", "refused"} :
              ToSet(posted[h]) \in SUBSET Event /\ Promise!Tell(ToSet(posted[h]), what)
<1> DEFINE what == Outcome(httpPc[h], tally[h])
<1>1. /\ told' = [e \in Event |-> IF e \in ToSet(posted[h]) THEN what ELSE told[e]]
      /\ handlerPc[h] = "idle"
      /\ UNCHANGED <<sent, refused, dispatched, unwritten>>
  BY DEF Reply, Respond, poolVars, poolHist, batchVars
<1>2. UNCHANGED <<Inside, Written, Lost>>
  BY <1>1 DEF Inside, Written, Lost
<1>3. /\ tally[h].accepted = Cardinality(ToSet(posted[h]) \cap sent)
      /\ tally[h].dropped = Cardinality(ToSet(posted[h]) \ sent)
  BY NumbersTrue DEF Reply, ReplyIsTrue
<1>4. ToSet(posted[h]) \subseteq Event /\ \A e \in ToSet(posted[h]) : told[e] = "none"
  BY Elements DEF EngineInv, EngineTypes, PostedOK, Waiting
<1>5. tally[h].accepted \in Nat /\ tally[h].dropped \in Nat
  BY DEF EngineInv, PoolInv, PoolP!IInv, PoolP!TypeOK
<1>6. /\ what \in {"accepted", "counted", "refused"}
      /\ what = "accepted" => tally[h].dropped = 0
      /\ what = "refused" => tally[h].accepted = 0
  BY <1>5 DEF Outcome
<1> HIDE DEF what
<1>7. \A e \in ToSet(posted[h]) : /\ what = "accepted" => e \in sent
                                  /\ what = "refused" => e \notin sent
  <2>1. IsFiniteSet(ToSet(posted[h]) \cap sent) /\ IsFiniteSet(ToSet(posted[h]) \ sent)
    BY <1>4, EventAssumption, FS_Subset
  <2>. QED  BY <1>3, <1>6, <2>1, FS_EmptySet
<1>8. Promise!Tell(ToSet(posted[h]), what)
  BY <1>1, <1>2, <1>4, <1>7, TakenIsSent DEF Promise!Tell
<1>. QED  BY <1>4, <1>6, <1>8

\* An event the accumulator has no room for is lost, and was not before.
LEMMA RefusedLoses ==
    ASSUME EngineInv, NEW w \in Worker, SubmitRefused(w)
    PROVE  \E e \in Event : Promise!Lose({e})
<1>1. workerPc[w] \in {"forward", "drainForward"}
  BY DEF SubmitRefused, Pool!Forward
<1>2. PICK e \in Event : Pool!ToSet(task[w]) = {e} /\ e \in sent /\ e \notin submitted \cup refused
  BY <1>1, InHandOnce DEF EngineInv
<1>3. /\ refused' = refused \cup {e}
      /\ UNCHANGED <<told, sent, dispatched, unwritten>>
  BY <1>2 DEF SubmitRefused, Pool!Forward, batchVars, routerVars
<1>4. e \notin ToSet(dispatched)
  BY <1>2, Places DEF EngineInv
<1>5. Inside' = Inside \ {e} /\ Written' = Written /\ Lost' = Lost \cup {e} /\ e \in Inside
  BY <1>2, <1>3, <1>4 DEF Inside, Written, Lost
<1>. QED  BY <1>3, <1>5 DEF Promise!Lose

\* A flush stores its batch or loses it.
LEMMA FlushSettles ==
    ASSUME EngineInv, BatchStep
    PROVE  \/ \E events \in SUBSET Event : Promise!Store(events) \/ Promise!Lose(events)
           \/ UNCHANGED Promise!ledgerVars
<1>1. UNCHANGED <<told, sent, refused>>
  BY DEF BatchStep, poolVars, poolHist, routerVars
<1>2. /\ unwritten' = IF flushErrors' # flushErrors THEN unwritten \cup ToSet(toFlush)
                                                    ELSE unwritten
      /\ BatchP!TypeOK /\ (Batch!Run \/ Batch!TickerFires)
  BY DEF BatchStep, EngineInv, BatchInv, BatchP!IInv
<1>3. CASE UNCHANGED <<dispatched, flushErrors>>
  BY <1>1, <1>2, <1>3, LedgerStutter
<1>4. CASE runPc = "flush" /\ dispatched' = dispatched \o toFlush
  <2> DEFINE batch == ToSet(toFlush)
  <2>1. /\ batch \subseteq submitted \ ToSet(dispatched) /\ submitted \subseteq sent
        /\ sent \subseteq Event /\ submitted \cap refused = {}
        /\ dispatched \in Seq(Event) /\ toFlush \in Seq(Event)
    BY <1>4, Places DEF EngineInv
  <2>2. ToSet(dispatched') = ToSet(dispatched) \cup batch
    BY <1>4, <2>1, ConcatElements
  <2>3. unwritten \subseteq ToSet(dispatched)
    BY DEF EngineInv, UnwrittenOK
  <2> HIDE DEF batch
  <2>4. batch \subseteq Inside /\ Inside' = Inside \ batch /\ batch \in SUBSET Event
    BY <1>1, <2>1, <2>2 DEF Inside
  <2>5. CASE unwritten' = unwritten
    <3>1. Written' = Written \cup batch /\ Lost' = Lost
      BY <1>1, <2>1, <2>2, <2>3, <2>5 DEF Written, Lost
    <3>. QED  BY <1>1, <2>4, <3>1 DEF Promise!Store
  <2>6. CASE unwritten' = unwritten \cup batch
    <3>1. Written' = Written /\ Lost' = Lost \cup batch
      BY <1>1, <2>1, <2>2, <2>3, <2>6 DEF Written, Lost
    <3>. QED  BY <1>1, <2>4, <3>1 DEF Promise!Lose
  <2>. QED  BY <1>2, <2>5, <2>6 DEF batch
<1>. QED  BY <1>2, <1>3, <1>4, RunBooks

LEMMA LedgerStep == EngineInv /\ [Next]_vars => [Promise!LedgerNext]_(Promise!ledgerVars)
<1> SUFFICES ASSUME EngineInv, [Next]_vars PROVE [Promise!LedgerNext]_(Promise!ledgerVars)
  OBVIOUS
<1> USE DEF poolVars, poolHist, batchVars, routerVars
<1>1. ASSUME UNCHANGED <<told, sent, refused, dispatched, unwritten>>
      PROVE  [Promise!LedgerNext]_(Promise!ledgerVars)
  BY <1>1, LedgerStutter
<1>2. ASSUME NEW h \in Handler, EnqueueStep(h) PROVE [Promise!LedgerNext]_(Promise!ledgerVars)
  BY <1>2, EnqueueTakesIn DEF Promise!LedgerNext
<1>3. ASSUME NEW h \in Handler, NEW events \in Requests, Reject(h, events)
      PROVE  [Promise!LedgerNext]_(Promise!ledgerVars)
  BY <1>3, RejectTells DEF Promise!LedgerNext
<1>4. ASSUME NEW h \in Handler, Reply(h) PROVE [Promise!LedgerNext]_(Promise!ledgerVars)
  BY <1>4, ReplyTells DEF Promise!LedgerNext
<1>5. ASSUME NEW w \in Worker, SubmitRefused(w) PROVE [Promise!LedgerNext]_(Promise!ledgerVars)
  <2>1. PICK e \in Event : Promise!Lose({e})
    BY <1>5, RefusedLoses
  <2>2. {e} \in SUBSET Event
    OBVIOUS
  <2>. QED  BY <2>1, <2>2 DEF Promise!LedgerNext
<1>6. CASE BatchStep
  BY <1>6, FlushSettles DEF Promise!LedgerNext
<1>7. ASSUME NEW h \in Handler, NEW events, NEW kind, Accept(h) \/ HandleEvents(h, events, kind)
      PROVE  [Promise!LedgerNext]_(Promise!ledgerVars)
  BY <1>1, <1>7 DEF Accept, HandleEvents, Pool!Call
<1>8. ASSUME NEW w \in Worker, WorkerStep(w) \/ SubmitTaken(w)
      PROVE  [Promise!LedgerNext]_(Promise!ledgerVars)
  <2>1. CASE WorkerStep(w)
    BY <1>1, <2>1 DEF WorkerStep, Pool!WorkerStep, Pool!SelectTask, Pool!SelectClosed,
       Pool!SelectCancel, Pool!DrainTask, Pool!DrainEnd, Pool!CountProcessed,
       Pool!CountDropped, Pool!Take, Pool!Move, Pool!histVars
  <2>2. CASE SubmitTaken(w)
    BY <1>1, <2>2 DEF SubmitTaken, Pool!Forward, Batch!Submit
  <2>. QED  BY <1>8, <2>1, <2>2
<1>9. CASE Signal \/ HttpDrained \/ HttpTimeout \/ UNCHANGED vars
  BY <1>1, <1>9 DEF Signal, HttpDrained, HttpTimeout, vars
<1>10. CASE PoolShutdown
  BY <1>1, <1>10 DEF PoolShutdown, Pool!ShutFlag, Pool!ShutStep, Pool!ShutClose,
     Pool!ShutCancel, Pool!ShutReturn, Pool!histVars
<1>11. CASE BatchStop
  BY <1>1, <1>11 DEF BatchStop, Batch!StopCancel, Batch!StopReturn, Batch!histVars
<1>. QED
  BY <1>2, <1>3, <1>4, <1>5, <1>6, <1>7, <1>8, <1>9, <1>10, <1>11 DEF Next

\* Whatever the interleaving of clients, workers, accumulator, store and
\* shutdown: a client told "accepted" had its event taken in, one told "refused"
\* did not and never will, and an event taken in leaves once (router.go:83-153).
THEOREM LedgerImplemented == Spec => ImplementsLedger
BY LedgerInit, LedgerStep, EngineCorrect, PTL DEF Spec, ImplementsLedger, Promise!LedgerSpec

-----------------------------------------------------------------------------
(* What the composition inherits, and what the ledger's promises amount to. *)

\* The accumulator inside the service behaves as the one that was proved alone:
\* its only submitters are the workers, and all they submit are events.
THEOREM AccumulatorImplemented == Spec => BatchP!Spec
<1>1. Init => BatchP!Init
  BY DEF Init, Batch!Init, BatchP!Init
<1>2. EngineInv /\ [Next]_vars => [BatchP!Next]_(BatchP!vars)
  BY BatchSteps DEF EngineInv, PoolInv, PoolP!Once
<1>. QED  BY <1>1, <1>2, EngineCorrect, PTL DEF Spec, BatchP!Spec

\* What reaches the store is what the workers handed over, in that order and in
\* batches that are not empty (processor.go:64-72, 75-169).
THEOREM StoreInOrder == Spec => BatchP!ImplementsConveyor
<1>1. BatchP!Spec => BatchP!ImplementsConveyor
  BY BatchP!ConveyorImplemented, CapacityAssumption, ThresholdAssumption
     DEF BatchP!ConveyorImplemented
<1>. QED  BY <1>1, AccumulatorImplemented, PTL

\* The model's bound on submitted events keeps no worker from submitting.
SubmitUnbounded ==
    \A w \in Worker : workerPc[w] \in {"forward", "drainForward"}
                         => Len(admitted) < Cardinality(Event)

\* A worker that calls Submit is refused only for a full channel (processor.go:64-72).
THEOREM SubmitUnboundedCorrect == Spec => []SubmitUnbounded
<1>1. EngineInv => SubmitUnbounded
  <2> SUFFICES ASSUME EngineInv, NEW w \in Worker,
                      workerPc[w] \in {"forward", "drainForward"}
               PROVE  Len(admitted) < Cardinality(Event)
    BY DEF SubmitUnbounded
  <2>1. PICK e \in Event : e \notin submitted
    BY InHandOnce DEF EngineInv
  <2>2. submitted \subseteq Event /\ submitted # Event
    BY <2>1, Places DEF EngineInv
  <2>3. Cardinality(submitted) < Cardinality(Event)
    <3>1. /\ IsFiniteSet(submitted) /\ Cardinality(submitted) <= Cardinality(Event)
          /\ Cardinality(submitted) # Cardinality(Event)
      BY <2>2, EventAssumption, FS_Subset
    <3>2. Cardinality(submitted) \in Nat /\ Cardinality(Event) \in Nat
      BY <3>1, EventAssumption, FS_CardinalityType
    <3>. QED  BY <3>1, <3>2
  <2>. QED  BY <2>3 DEF EngineInv, HandOver
<1>. QED  BY <1>1, EngineCorrect, PTL

\* What the ledger's rules make of the books of every client.
Settled ==
    /\ \A e \in Event : /\ told[e] = "accepted" => e \in Inside \cup Written \cup Lost
                        /\ told[e] = "refused" => e \notin Inside \cup Written \cup Lost
    /\ Inside \cap Written = {} /\ Inside \cap Lost = {} /\ Written \cap Lost = {}

\* An event whose client was told "accepted" is inside, written or lost, never
\* two of these; one whose client was told "refused" is none of them, then or
\* later (router.go:83-153).
THEOREM PromisesKept == Spec => []Settled
<1>1. Promise!LedgerInit => Settled
  BY DEF Promise!LedgerInit, Settled
<1>2. Settled /\ [Promise!LedgerNext]_(Promise!ledgerVars) => Settled'
  <2> SUFFICES ASSUME Settled, [Promise!LedgerNext]_(Promise!ledgerVars) PROVE Settled'
    OBVIOUS
  <2>1. ASSUME NEW e \in Event, Promise!TakeIn(e) PROVE Settled'
    BY <2>1 DEF Promise!TakeIn, Promise!Taken, Settled
  <2>2. ASSUME NEW events \in SUBSET Event, NEW what \in {"accepted", "counted", "refused"},
               Promise!Tell(events, what)
        PROVE  Settled'
    BY <2>2 DEF Promise!Tell, Promise!Taken, Settled
  <2>3. ASSUME NEW events \in SUBSET Event, Promise!Store(events) \/ Promise!Lose(events)
        PROVE  Settled'
    <3>1. CASE Promise!Store(events)
      BY <3>1 DEF Promise!Store, Settled
    <3>2. CASE Promise!Lose(events)
      BY <3>2 DEF Promise!Lose, Settled
    <3>. QED  BY <2>3, <3>1, <3>2
  <2>4. CASE UNCHANGED Promise!ledgerVars
    BY <2>4 DEF Promise!ledgerVars, Settled
  <2>. QED  BY <2>1, <2>2, <2>3, <2>4 DEF Promise!LedgerNext
<1>. QED
  BY <1>1, <1>2, LedgerImplemented, PTL DEF ImplementsLedger, Promise!LedgerSpec

\* The pool's properties survive in the service, where the accumulator decides
\* what Submit returns and main() when Shutdown is called (pool.go:66-143).
THEOREM PoolKeepsItsProperties ==
    Spec => [](/\ PoolP!NothingStranded /\ PoolP!NothingDuplicated /\ PoolP!ShutdownDrains
               /\ PoolP!AnswerIsTruth /\ PoolP!CountersAddUp)
<1> USE CapacityAssumption, MaxBatchAssumption, WorkerAssumption
<1>1. PoolInv => PoolP!NothingDuplicated /\ PoolP!CountersAddUp
  BY PoolP!CountsAgree DEF PoolP!CountsAgree, PoolInv
<1>2. PoolInv => PoolP!ShutdownDrains
  BY PoolP!AllForwarded DEF PoolP!AllForwarded, PoolInv
<1>3. PoolInv => PoolP!NothingStranded /\ PoolP!AnswerIsTruth
  BY DEF PoolInv, PoolP!IInv, PoolP!Conserved, PoolP!NothingStranded
<1>4. EngineInv => PoolInv
  BY DEF EngineInv
<1>. QED  BY <1>1, <1>2, <1>3, <1>4, EngineCorrect, PTL

-----------------------------------------------------------------------------
(* Who can be waiting for whom once the shutdown is under way.             *)

\* A worker waits when its select has nothing to receive: a task, the end of the
\* channel or, before the drain, the cancel.
WorkerWaits(w) ==
    /\ workerPc[w] \in {"select", "drain"}
    /\ taskCh = <<>> /\ ~chClosed
    /\ workerPc[w] = "select" => ~poolCtxDone

\* The accumulator loop waits at its select, or for p.mu.
LoopWaits ==
    \/ runPc = "select" /\ inCh = <<>> /\ ~tick /\ ~ctxDone
    \/ runPc \in {"append", "ticked", "commit", "drainLock"} /\ mu

WaitsOnlyForItself ==
    /\ shutPc \in {"cancel", "wait"} => \A w \in Worker : ~WorkerWaits(w)
    /\ ctxDone /\ LoopWaits => Batch!Wedged

\* While main waits for the workers none of them waits; while it waits for the
\* accumulator, the loop can wait only for the mutex it holds itself
\* (pool.go:66-92, 134-143, processor.go:75-172).
THEOREM WaitsOnlyForItselfCorrect == Spec => []WaitsOnlyForItself
<1>1. EngineInv => WaitsOnlyForItself
  <2> SUFFICES ASSUME EngineInv PROVE WaitsOnlyForItself
    OBVIOUS
  <2>1. PoolP!ShutdownOK /\ BatchP!ControlOK
    BY DEF EngineInv, PoolInv, PoolP!IInv, BatchInv, BatchP!IInv
  <2>. QED
    BY <2>1 DEF PoolP!ShutdownOK, BatchP!ControlOK, WaitsOnlyForItself, WorkerWaits, LoopWaits,
               Batch!Wedged
<1>. QED  BY <1>1, EngineCorrect, PTL
=============================================================================
