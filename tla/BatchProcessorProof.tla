------------------------ MODULE BatchProcessorProof -------------------------
(***************************************************************************)
(* What is proved of the batch accumulator for every set of events, every  *)
(* threshold, every channel capacity and every bound.                      *)
(***************************************************************************)
EXTENDS BatchProcessor, ConcatLemmas

USE ThresholdAssumption, BufferSizeAssumption, BoundAssumption

-----------------------------------------------------------------------------
(* Type correctness.                                                       *)

LEMMA EmptyBatch == <<>> \in Seq(Event) /\ Len(<<>>) = 0
BY EmptySeq

\* A batch that is swapped out and is not empty is flushed next.
LEMMA SwapOutFlushes ==
    ASSUME NEW batch, batch # <<>>, SwapOut(batch)
    PROVE  toFlush' = batch /\ buffer' = <<>> /\ runPc' = "flush" /\ UNCHANGED mu
BY DEF SwapOut, CallFlush

LEMMA TypeInit == Init => TypeOK
<1> SUFFICES ASSUME Init PROVE TypeOK
  OBVIOUS
<1>2. inCh \in Seq(Event) /\ Len(inCh) <= BufferSize
  BY EmptyBatch DEF Init
<1>. QED
  BY <1>2, EmptyBatch DEF Init, TypeOK, RunPc

LEMMA TypeStep == TypeOK /\ [Next]_vars => TypeOK'
<1> SUFFICES ASSUME TypeOK, [Next]_vars PROVE TypeOK'
  OBVIOUS
<1> USE DEF TypeOK, RunPc, accVars, countVars, ctlVars, histVars
<1>1. ASSUME NEW e \in Event, Submit(e) PROVE TypeOK'
  <2>1. Len(inCh') = Len(inCh) + 1 /\ inCh' \in Seq(Event)
    BY <1>1, AppendProperties DEF Submit
  <2>. QED  BY <1>1, <2>1 DEF Submit, CanSubmit
<1>2. CASE TickerFires
  BY <1>2 DEF TickerFires
<1>3. CASE Receive
  <2>1. inCh # <<>> /\ inCh' = Tail(inCh) /\ held' = <<Head(inCh)>>
    BY <1>3 DEF Receive
  <2>2. Head(inCh) \in Event /\ Tail(inCh) \in Seq(Event) /\ Len(Tail(inCh)) <= BufferSize
    BY <2>1, HeadTailProperties, LenProperties
  <2>. QED  BY <1>3, <2>1, <2>2 DEF Receive
<1>4. CASE AppendHeld
  <2>1. buffer \o held \in Seq(Event)
    BY ConcatProperties
  <2>2. \/ SwapOut(buffer \o held)
        \/ Keep(buffer \o held)
    BY <1>4 DEF AppendHeld
  <2>3. /\ buffer' \in Seq(Event) /\ toFlush' \in Seq(Event)
        /\ runPc' \in RunPc /\ mu' \in BOOLEAN
    BY <2>1, <2>2, EmptyBatch DEF SwapOut, CallFlush, FlushReturns, Keep
  <2>4. /\ held' = <<>>
        /\ UNCHANGED <<inCh, countVars, ctlVars, histVars>>
    BY <1>4 DEF AppendHeld
  <2>. QED  BY <2>3, <2>4, EmptyBatch
<1>5. CASE TakeTick
  BY <1>5 DEF TakeTick
<1>6. CASE FlushOnTick
  BY <1>6, EmptyBatch, SwapOutFlushes DEF FlushOnTick, TickFlush, Keep
<1>7. CASE FlushFails
  <2>1. dispatched \o toFlush \in Seq(Event) /\ Len(toFlush) \in Nat
    BY ConcatProperties, LenProperties
  <2>2. /\ toFlush' = <<>>
        /\ mu' \in BOOLEAN
        /\ runPc' \in RunPc
    BY <1>7 DEF FlushFails, FlushReturns
  <2>. QED  BY <1>7, <2>1, <2>2, EmptyBatch DEF FlushFails
<1>8. CASE FlushSucceeds
  <2>1. dispatched \o toFlush \in Seq(Event)
    BY ConcatProperties
  <2>. QED  BY <1>8, <2>1 DEF FlushSucceeds
<1>9. CASE AddFlushed
  BY <1>9, LenProperties DEF AddFlushed
<1>10. CASE AddBatches
  BY <1>10 DEF AddBatches
<1>11. CASE Commit
  BY <1>11, EmptyBatch DEF Commit, FlushReturns
<1>12. CASE SeeCancel
  BY <1>12 DEF SeeCancel
<1>13. CASE DrainLock
  BY <1>13 DEF DrainLock
<1>14. CASE DrainReceive
  <2>1. inCh # <<>> /\ inCh' = Tail(inCh) /\ buffer' = Append(buffer, Head(inCh))
    BY <1>14 DEF DrainReceive
  <2>2. Head(inCh) \in Event /\ Tail(inCh) \in Seq(Event) /\ Len(Tail(inCh)) <= BufferSize
    BY <2>1, HeadTailProperties, LenProperties
  <2>. QED  BY <1>14, <2>1, <2>2 DEF DrainReceive
<1>15. CASE DrainEnd
  BY <1>15, EmptyBatch, SwapOutFlushes DEF DrainEnd, FlushReturns
<1>16. CASE StopCancel
  BY <1>16 DEF StopCancel
<1>17. CASE StopReturn
  BY <1>17 DEF StopReturn
<1>19. CASE UNCHANGED vars
  BY <1>19 DEF vars
<1>. QED
  BY <1>1, <1>2, <1>3, <1>4, <1>5, <1>6, <1>7, <1>8, <1>9, <1>10, <1>11, <1>12,
     <1>13, <1>14, <1>15, <1>16, <1>17, <1>19 DEF Next, Run, Flush


-----------------------------------------------------------------------------
(* The inductive invariant: where the loop is says what it holds.          *)

ControlOK ==
    /\ runPc # "append" => held = <<>>
    /\ runPc = "append" => Len(held) = 1
    /\ mu => runPc \in {"drain", "flush", "addFlushed", "addBatches", "commit"}
    /\ runPc = "drain" => mu
    /\ runPc = "flush" => toFlush # <<>>
    /\ runPc \in {"flush", "addFlushed", "addBatches", "commit", "done"} => buffer = <<>>

LEMMA ControlInit == Init => ControlOK
BY DEF Init, ControlOK

LEMMA ControlStep == TypeOK /\ ControlOK /\ [Next]_vars => ControlOK'
<1> SUFFICES ASSUME TypeOK, ControlOK, [Next]_vars PROVE ControlOK'
  OBVIOUS
<1> USE DEF ControlOK, accVars
<1>t. /\ mu \in BOOLEAN /\ buffer \in Seq(Event) /\ held \in Seq(Event)
  BY DEF TypeOK
<1>1. ASSUME NEW e \in Event, Submit(e) PROVE ControlOK'
  BY <1>1 DEF Submit
<1>2. CASE TickerFires
  BY <1>2 DEF TickerFires
<1>3. CASE Receive
  <2>1. held' = <<Head(inCh)>> /\ Len(<<Head(inCh)>>) = 1
    BY <1>3 DEF Receive
  <2>. QED  BY <1>3, <2>1 DEF Receive
<1>4. CASE AppendHeld
  <2>1. held' = <<>> /\ ~mu
    BY <1>4 DEF AppendHeld
  <2>2. CASE SwapOut(buffer \o held)
    <3>1. held # <<>>
      BY <1>4, EmptyBatch DEF AppendHeld
    <3>2. buffer \o held # <<>>
      BY <1>t, <3>1, ConcatEqualIffEmpty
    <3>3. toFlush' = buffer \o held /\ buffer' = <<>> /\ runPc' = "flush" /\ ~mu'
      BY <2>1, <2>2, <3>2, SwapOutFlushes
    <3>. QED  BY <2>1, <3>2, <3>3
  <2>3. CASE Keep(buffer \o held)
    BY <2>1, <2>3 DEF Keep
  <2>. QED  BY <1>4, <2>2, <2>3 DEF AppendHeld
<1>5. CASE TakeTick
  BY <1>5 DEF TakeTick
<1>6. CASE FlushOnTick
  BY <1>6, SwapOutFlushes DEF FlushOnTick, TickFlush, Keep
<1>7. CASE FlushFails
  BY <1>7 DEF FlushFails, FlushReturns
<1>8. CASE FlushSucceeds
  BY <1>8 DEF FlushSucceeds
<1>9. CASE AddFlushed
  BY <1>9 DEF AddFlushed
<1>10. CASE AddBatches
  BY <1>10 DEF AddBatches
<1>11. CASE Commit
  BY <1>11 DEF Commit, FlushReturns
<1>12. CASE SeeCancel
  BY <1>12 DEF SeeCancel
<1>13. CASE DrainLock
  BY <1>13 DEF DrainLock
<1>14. CASE DrainReceive
  BY <1>14 DEF DrainReceive
<1>15. CASE DrainEnd
  BY <1>15, <1>t, SwapOutFlushes DEF DrainEnd, FlushReturns
<1>16. CASE StopCancel
  BY <1>16 DEF StopCancel
<1>17. CASE StopReturn
  BY <1>17 DEF StopReturn
<1>19. CASE UNCHANGED vars
  BY <1>19 DEF vars
<1>. QED
  BY <1>1, <1>2, <1>3, <1>4, <1>5, <1>6, <1>7, <1>8, <1>9, <1>10, <1>11, <1>12,
     <1>13, <1>14, <1>15, <1>16, <1>17, <1>19 DEF Next, Run, Flush

-----------------------------------------------------------------------------
(* No event is lost, duplicated or overtaken.                              *)

\* The laws of concatenation, for sequences of events.
LEMMA EventConcat ==
    \A s, t, u \in Seq(Event) : s \o t \in Seq(Event) /\ (s \o t) \o u = s \o (t \o u)
BY ConcatProperties, ConcatAssociative

LEMMA EventAppend ==
    \A s, t \in Seq(Event), e \in Event : Append(s \o t, e) = s \o Append(t, e)
<1> TAKE s, t \in Seq(Event), e \in Event
<1>1. <<e>> \in Seq(Event) /\ s \o t \in Seq(Event)
  BY ConcatProperties
<1>2. Append(s \o t, e) = (s \o t) \o <<e>> /\ Append(t, e) = t \o <<e>>
  BY <1>1, AppendIsConcat
<1>. QED
  BY <1>1, <1>2, EventConcat

LEMMA OrderInit == Init => OrderPreserved
<1> SUFFICES ASSUME Init PROVE OrderPreserved
  OBVIOUS
<1>1. InFlight = <<>> /\ <<>> \in Seq(Event)
  BY EmptyBatch DEF Init, InFlight
<1>2. <<>> \o <<>> = <<>>
  BY EmptyBatch, ConcatEmptySeq
<1>. QED
  BY <1>1, <1>2 DEF Init, OrderPreserved

\* An event handed to the sink is taken from the front of what was in flight.
LEMMA FlushKeepsOrder ==
    ASSUME TypeOK, ControlOK, OrderPreserved, runPc = "flush",
           dispatched' = dispatched \o toFlush, runPc' # "flush",
           UNCHANGED <<admitted, buffer, held, inCh>>
    PROVE  OrderPreserved'
<1> DEFINE rest == buffer \o (held \o inCh)
<1>1. rest \in Seq(Event) /\ toFlush \in Seq(Event) /\ dispatched \in Seq(Event)
  BY ConcatProperties DEF TypeOK
<1>2. <<>> \o rest = rest
  BY <1>1, ConcatEmptySeq
<1>3. dispatched \o (toFlush \o rest) = (dispatched \o toFlush) \o rest
  <2> HIDE DEF rest
  <2>. QED  BY <1>1, EventConcat
<1>4. InFlight = toFlush /\ InFlight' = <<>>
  BY DEF InFlight
<1>. QED
  BY <1>2, <1>3, <1>4 DEF OrderPreserved

LEMMA OrderStep == TypeOK /\ ControlOK /\ OrderPreserved /\ [Next]_vars => OrderPreserved'
<1> SUFFICES ASSUME TypeOK, ControlOK, OrderPreserved, [Next]_vars PROVE OrderPreserved'
  OBVIOUS
<1> USE DEF accVars, histVars
<1>t. /\ inCh \in Seq(Event) /\ buffer \in Seq(Event) /\ held \in Seq(Event)
      /\ toFlush \in Seq(Event) /\ dispatched \in Seq(Event)
      /\ InFlight \in Seq(Event) /\ held \o inCh \in Seq(Event)
      /\ buffer \o (held \o inCh) \in Seq(Event)
  BY EmptyBatch, ConcatProperties DEF TypeOK, InFlight
<1>o. admitted = dispatched \o (InFlight \o (buffer \o (held \o inCh)))
  BY DEF OrderPreserved
\* A step that moves no event keeps the order.
<1>s. ASSUME UNCHANGED <<admitted, dispatched, buffer, held, inCh>>,
             UNCHANGED InFlight
      PROVE  OrderPreserved'
  BY <1>s DEF OrderPreserved
<1>1. ASSUME NEW e \in Event, Submit(e) PROVE OrderPreserved'
  <2> DEFINE waiting == held \o inCh
             kept    == buffer \o waiting
             rest    == InFlight \o kept
  <2>1. /\ waiting \in Seq(Event) /\ kept \in Seq(Event) /\ rest \in Seq(Event)
    BY <1>t, ConcatProperties
  <2>2. Append(waiting, e) = held \o Append(inCh, e)
    BY <1>t, EventAppend
  <2>3. Append(kept, e) = buffer \o Append(waiting, e)
    <3> HIDE DEF waiting
    <3>. QED  BY <1>t, <2>1, EventAppend
  <2>4. Append(rest, e) = InFlight \o Append(kept, e)
    <3> HIDE DEF kept
    <3>. QED  BY <1>t, <2>1, EventAppend
  <2>5. Append(dispatched \o rest, e) = dispatched \o Append(rest, e)
    <3> HIDE DEF rest
    <3>. QED  BY <1>t, <2>1, EventAppend
  <2>. QED  BY <1>1, <1>o, <2>2, <2>3, <2>4, <2>5 DEF Submit, OrderPreserved, InFlight
<1>3. CASE Receive
  <2>1. /\ held = <<>> /\ InFlight = <<>> /\ InFlight' = <<>> /\ inCh # <<>>
        /\ held' = <<Head(inCh)>> /\ inCh' = Tail(inCh)
        /\ UNCHANGED <<admitted, dispatched, buffer>>
    BY <1>3 DEF Receive, ControlOK, InFlight
  <2>2. held' \o inCh' = inCh /\ held \o inCh = inCh
    BY <1>t, <2>1, MoveHead, ConcatEmptySeq
  <2>. QED  BY <1>o, <2>1, <2>2 DEF OrderPreserved
<1>4. CASE AppendHeld
  <2>1. /\ held' = <<>> /\ InFlight = <<>>
        /\ UNCHANGED <<admitted, dispatched, inCh>>
    BY <1>4 DEF AppendHeld, InFlight
  <2>a. <<>> \o inCh = inCh /\ <<>> \o (buffer \o (held \o inCh)) = buffer \o (held \o inCh)
    BY <1>t, ConcatEmptySeq
  <2>2. (buffer \o held) \o inCh = buffer \o (held \o inCh)
    BY <1>t, EventConcat
  <2>3. CASE SwapOut(buffer \o held)
    <3>1. InFlight' = buffer \o held /\ buffer' = <<>>
      BY <2>3 DEF SwapOut, CallFlush, FlushReturns, InFlight
    <3>. QED  BY <1>o, <2>1, <2>a, <2>2, <3>1 DEF OrderPreserved
  <2>4. CASE Keep(buffer \o held)
    <3>1. InFlight' = <<>> /\ buffer' = buffer \o held
      BY <2>4 DEF Keep, InFlight
    <3>2. <<>> \o ((buffer \o held) \o inCh) = (buffer \o held) \o inCh
      BY <2>a, <2>2
    <3>. QED  BY <1>o, <2>1, <2>a, <2>2, <3>1, <3>2 DEF OrderPreserved
  <2>. QED  BY <1>4, <2>3, <2>4 DEF AppendHeld
<1>6. CASE FlushOnTick
  <2>1. UNCHANGED <<admitted, dispatched, held, inCh>> /\ InFlight = <<>>
    BY <1>6 DEF FlushOnTick, InFlight
  <2>2. CASE SwapOut(buffer)
    <3>1. InFlight' = buffer /\ buffer' = <<>>
      BY <2>2 DEF SwapOut, CallFlush, FlushReturns, InFlight
    <3>2. /\ <<>> \o (held \o inCh) = held \o inCh
          /\ <<>> \o (buffer \o (held \o inCh)) = buffer \o (held \o inCh)
      BY <1>t, ConcatEmptySeq
    <3>. QED  BY <1>o, <2>1, <3>1, <3>2 DEF OrderPreserved
  <2>3. CASE Keep(buffer)
    BY <1>s, <2>1, <2>3 DEF Keep, InFlight
  <2>. QED  BY <1>6, <2>2, <2>3 DEF FlushOnTick, TickFlush
<1>7. CASE FlushFails
  <2>1. runPc' # "flush"
    BY <1>7 DEF FlushFails, FlushReturns
  <2>. QED  BY <1>7, <2>1, FlushKeepsOrder DEF FlushFails
<1>8. CASE FlushSucceeds
  BY <1>8, FlushKeepsOrder DEF FlushSucceeds
<1>14. CASE DrainReceive
  <2>1. /\ held = <<>> /\ inCh # <<>> /\ UNCHANGED <<admitted, dispatched, held, InFlight>>
        /\ buffer' = Append(buffer, Head(inCh)) /\ inCh' = Tail(inCh)
    BY <1>14 DEF DrainReceive, ControlOK, InFlight
  <2>2. buffer' \o inCh' = buffer \o inCh /\ inCh' \in Seq(Event)
    BY <1>t, <2>1, MoveHead
  <2>3. <<>> \o inCh = inCh /\ <<>> \o inCh' = inCh'
    BY <1>t, <2>2, ConcatEmptySeq
  <2>. QED  BY <1>o, <2>1, <2>2, <2>3 DEF OrderPreserved
<1>15. CASE DrainEnd
  <2>1. UNCHANGED <<admitted, dispatched, held, inCh>> /\ InFlight = <<>>
    BY <1>15 DEF DrainEnd, InFlight
  <2>2. CASE SwapOut(buffer)
    <3>1. InFlight' = buffer /\ buffer' = <<>>
      BY <2>2 DEF SwapOut, CallFlush, FlushReturns, InFlight
    <3>2. /\ <<>> \o (held \o inCh) = held \o inCh
          /\ <<>> \o (buffer \o (held \o inCh)) = buffer \o (held \o inCh)
      BY <1>t, ConcatEmptySeq
    <3>. QED  BY <1>o, <2>1, <3>1, <3>2 DEF OrderPreserved
  <2>3. CASE FlushReturns /\ UNCHANGED buffer
    BY <1>s, <2>1, <2>3 DEF FlushReturns, InFlight
  <2>. QED  BY <1>15, <2>2, <2>3 DEF DrainEnd
<1>20. CASE \/ TickerFires \/ TakeTick \/ AddFlushed \/ AddBatches \/ Commit
            \/ SeeCancel \/ DrainLock \/ StopCancel \/ StopReturn
            \/ UNCHANGED vars
  <2>1. UNCHANGED <<admitted, dispatched, buffer, held, inCh>>
    BY <1>20 DEF TickerFires, TakeTick, AddFlushed, AddBatches, Commit, SeeCancel,
         DrainLock, StopCancel, StopReturn, vars
  <2>2. UNCHANGED InFlight
    BY <1>20 DEF TickerFires, TakeTick, AddFlushed, AddBatches, Commit, SeeCancel,
         DrainLock, StopCancel, StopReturn, vars, InFlight, FlushReturns
  <2>. QED  BY <1>s, <2>1, <2>2
<1>. QED
  BY <1>1, <1>3, <1>4, <1>6, <1>7, <1>8, <1>14, <1>15, <1>20 DEF Next, Run, Flush

-----------------------------------------------------------------------------
(* The size of a batch.                                                    *)

LEMMA BoundInit == Init => BatchBound
BY EmptyBatch DEF Init, BatchBound

LEMMA BoundStep == TypeOK /\ ControlOK /\ BatchBound /\ [Next]_vars => BatchBound'
<1> SUFFICES ASSUME TypeOK, ControlOK, BatchBound, [Next]_vars PROVE BatchBound'
  OBVIOUS
<1> USE DEF accVars
<1>t. /\ mu \in BOOLEAN /\ buffer \in Seq(Event) /\ held \in Seq(Event)
      /\ Len(buffer) \in Nat /\ Threshold \in Nat /\ Threshold > 0
  BY LenProperties DEF TypeOK
<1>s. ASSUME UNCHANGED <<mu, buffer, toFlush>>, runPc' = "flush" => runPc = "flush"
      PROVE  BatchBound'
  BY <1>s DEF BatchBound
\* The batch a flush was given is gone, and p.buffer with it if this was the last.
<1>r. ASSUME runPc \in {"flush", "commit", "drain"}, buffer' = <<>>, runPc' # "flush"
      PROVE  BatchBound'
  BY <1>r, <1>t, EmptyBatch DEF BatchBound
<1>4. CASE AppendHeld
  <2> DEFINE grown == buffer \o held
  <2>0. Len(held) = 1
    BY <1>4 DEF AppendHeld, ControlOK
  <2>1. Len(grown) = Len(buffer) + 1
    BY <1>t, <2>0, ConcatProperties
  <2>2. ~mu /\ Len(buffer) < Threshold
    BY <1>4 DEF AppendHeld, BatchBound
  <2>3. CASE ThresholdReached(grown) /\ SwapOut(grown)
    <3>1. grown # <<>>
      BY <2>1, <1>t, EmptySeq
    <3>2. buffer' = <<>> /\ toFlush' = grown
      BY <2>3, <3>1, SwapOutFlushes
    <3> HIDE DEF grown
    <3>. QED  BY <1>t, <2>1, <2>2, <3>2, EmptyBatch DEF BatchBound
  <2>4. CASE ~ThresholdReached(grown) /\ Keep(grown)
    <3>1. buffer' = grown /\ runPc' = "select" /\ Len(grown) < Threshold
      BY <1>t, <2>1, <2>4 DEF Keep, ThresholdReached
    <3> HIDE DEF grown
    <3>. QED  BY <3>1 DEF BatchBound
  <2>. QED  BY <1>4, <2>3, <2>4 DEF AppendHeld
<1>6. CASE FlushOnTick
  <2>1. ~mu /\ Len(buffer) < Threshold
    BY <1>6 DEF FlushOnTick, BatchBound
  <2>2. CASE buffer # <<>> /\ SwapOut(buffer)
    <3>1. buffer' = <<>> /\ toFlush' = buffer
      BY <2>2, SwapOutFlushes
    <3>. QED  BY <1>t, <2>1, <3>1, EmptyBatch DEF BatchBound
  <2>3. CASE Keep(buffer)
    BY <2>1, <2>3 DEF Keep, BatchBound
  <2>. QED  BY <1>6, <2>2, <2>3 DEF FlushOnTick, TickFlush
<1>7. CASE FlushFails
  BY <1>7, <1>r DEF FlushFails, FlushReturns, ControlOK
<1>11. CASE Commit
  BY <1>11, <1>r DEF Commit, FlushReturns, ControlOK
<1>13. CASE DrainLock
  BY <1>13 DEF DrainLock, BatchBound
<1>14. CASE DrainReceive
  BY <1>14 DEF DrainReceive, ControlOK, BatchBound
<1>15. CASE DrainEnd
  <2>1. CASE buffer # <<>> /\ SwapOut(buffer)
    BY <1>15, <2>1, SwapOutFlushes DEF DrainEnd, ControlOK, BatchBound
  <2>2. CASE buffer = <<>> /\ FlushReturns /\ UNCHANGED buffer
    BY <1>15, <1>r, <2>2 DEF DrainEnd, FlushReturns
  <2>. QED  BY <1>15, <2>1, <2>2 DEF DrainEnd
<1>20. CASE \/ \E e \in Event : Submit(e)
            \/ TickerFires \/ Receive \/ TakeTick \/ FlushSucceeds \/ AddFlushed \/ AddBatches
            \/ SeeCancel \/ StopCancel \/ StopReturn \/ UNCHANGED vars
  BY <1>20, <1>s DEF Submit, TickerFires, Receive, TakeTick, FlushSucceeds, AddFlushed,
     AddBatches, SeeCancel, StopCancel, StopReturn, vars
<1>. QED
  BY <1>4, <1>6, <1>7, <1>11, <1>13, <1>14, <1>15, <1>20 DEF Next, Run, Flush

-----------------------------------------------------------------------------
(* The counters.                                                           *)

Uncounted == IF runPc = "addFlushed" THEN Len(toFlush) ELSE 0

Counted == totalFlushed + failed + Uncounted = Len(dispatched)

LEMMA CountInit == Init => Counted
BY EmptyBatch DEF Init, Counted, Uncounted

LEMMA CountStep == TypeOK /\ Counted /\ [Next]_vars => Counted'
<1> SUFFICES ASSUME TypeOK, Counted, [Next]_vars PROVE Counted'
  OBVIOUS
<1> USE DEF accVars, histVars, countVars
<1>t. /\ Len(toFlush) \in Nat /\ totalFlushed \in Nat /\ failed \in Nat /\ Len(dispatched) \in Nat
      /\ Len(dispatched \o toFlush) = Len(dispatched) + Len(toFlush)
  BY LenProperties, ConcatProperties DEF TypeOK
<1>s. ASSUME UNCHANGED <<dispatched, failed, totalFlushed>>,
             runPc # "addFlushed", runPc' # "addFlushed"
      PROVE  Counted'
  BY <1>s DEF Counted, Uncounted
<1>u. ASSUME UNCHANGED <<dispatched, failed, totalFlushed, runPc, toFlush>>
      PROVE  Counted'
  BY <1>u DEF Counted, Uncounted
<1>7. CASE FlushFails
  <2>1. /\ dispatched' = dispatched \o toFlush /\ failed' = failed + Len(toFlush)
        /\ UNCHANGED totalFlushed /\ runPc # "addFlushed" /\ runPc' # "addFlushed"
    BY <1>7 DEF FlushFails, FlushReturns
  <2>2. Uncounted = 0 /\ Uncounted' = 0
    BY <2>1 DEF Uncounted
  <2>3. Len(dispatched') = Len(dispatched) + Len(toFlush)
    BY <1>t, <2>1
  <2>4. failed' = failed + Len(toFlush) /\ UNCHANGED totalFlushed
    BY <2>1
  <2>. QED  BY <1>t, <2>2, <2>3, <2>4 DEF Counted
<1>8. CASE FlushSucceeds
  <2>1. Uncounted = 0 /\ Uncounted' = Len(toFlush)
    BY <1>8 DEF FlushSucceeds, Uncounted
  <2>2. Len(dispatched') = Len(dispatched) + Len(toFlush)
    BY <1>8, <1>t DEF FlushSucceeds
  <2>3. UNCHANGED <<totalFlushed, failed>>
    BY <1>8 DEF FlushSucceeds
  <2>. QED  BY <1>t, <2>1, <2>2, <2>3 DEF Counted
<1>9. CASE AddFlushed
  BY <1>9, <1>t DEF AddFlushed, Counted, Uncounted
<1>20. CASE \/ Receive \/ AppendHeld \/ TakeTick \/ FlushOnTick \/ AddBatches \/ Commit
            \/ SeeCancel \/ DrainLock \/ DrainReceive \/ DrainEnd
  <2>1. UNCHANGED <<dispatched, failed, totalFlushed>>
    BY <1>20 DEF Receive, AppendHeld, TakeTick, FlushOnTick, AddBatches, Commit,
       SeeCancel, DrainLock, DrainReceive, DrainEnd
  <2>2. runPc # "addFlushed" /\ runPc' # "addFlushed"
    BY <1>20 DEF Receive, AppendHeld, TakeTick, FlushOnTick, TickFlush, AddBatches, Commit,
       SeeCancel, DrainLock, DrainReceive, DrainEnd, SwapOut, CallFlush, Keep, FlushReturns
  <2>. QED  BY <1>s, <2>1, <2>2
<1>21. CASE \/ \E e \in Event : Submit(e)
            \/ TickerFires \/ StopCancel \/ StopReturn \/ UNCHANGED vars
  BY <1>21, <1>u DEF Submit, TickerFires, StopCancel, StopReturn, vars
<1>. QED
  BY <1>7, <1>8, <1>9, <1>20, <1>21 DEF Next, Run, Flush

-----------------------------------------------------------------------------
(* The theorems.                                                           *)

IInv == TypeOK /\ ControlOK /\ OrderPreserved /\ BatchBound /\ Counted

LEMMA InvInit == Init => IInv
BY TypeInit, ControlInit, OrderInit, BoundInit, CountInit DEF IInv

LEMMA InvStep == IInv /\ [Next]_vars => IInv'
BY TypeStep, ControlStep, OrderStep, BoundStep, CountStep DEF IInv

LEMMA Inductive == Spec => []IInv
BY InvInit, InvStep, PTL DEF Spec

\* Every variable of the accumulator keeps its type; the inbound channel never
\* holds more than BufferSize events.
THEOREM TypeCorrect == Spec => []TypeOK
BY Inductive, PTL DEF IInv

\* Between Submit and the sink no event is lost, duplicated or overtaken.
THEOREM OrderCorrect == Spec => []OrderPreserved
BY Inductive, PTL DEF IInv

\* A batch flushed by the threshold or by the timer has at most Threshold events.
THEOREM BoundCorrect == Spec => []BatchBound
BY Inductive, PTL DEF IInv

\* Outside doFlush's gap between write and count, the counters add up.
THEOREM CountCorrect == Spec => []CountersSettle
<1>1. IInv => CountersSettle
  BY DEF IInv, TypeOK, Counted, Uncounted, CountersSettle
<1>. QED
  BY <1>1, Inductive, PTL

LEMMA AllDispatched == IInv => LoopEndLeavesNothing
<1> SUFFICES ASSUME IInv, runPc = "done" \/ Wedged
             PROVE  admitted = dispatched \o inCh
  BY DEF LoopEndLeavesNothing
<1>1. InFlight = <<>> /\ buffer = <<>> /\ held = <<>>
  BY DEF IInv, ControlOK, Wedged, InFlight
<1>2. inCh \in Seq(Event) /\ <<>> \o inCh = inCh
  BY ConcatEmptySeq DEF IInv, TypeOK
<1>. QED  BY <1>1, <1>2 DEF IInv, OrderPreserved

\* The drain leaves nothing behind in the accumulator, whether or not the loop
\* then gets past its own mutex.
THEOREM DrainCorrect == Spec => []LoopEndLeavesNothing
BY AllDispatched, Inductive, PTL

-----------------------------------------------------------------------------
(* The accumulator implements the conveyor.                                *)

LEMMA BeltInit == Init => Belt!ConveyorInit
BY DEF Init, Belt!ConveyorInit

\* A flush dispatches a non-empty prefix of what the conveyor has pending.
LEMMA FlushIsDispatch ==
    ASSUME TypeOK, ControlOK, OrderPreserved, runPc = "flush",
           dispatched' = dispatched \o toFlush, UNCHANGED admitted
    PROVE  \E n \in 1..Len(Belt!Pending) : Belt!Dispatch(n)
<1> DEFINE rest == buffer \o (held \o inCh)
<1>1. /\ dispatched \in Seq(Event) /\ toFlush \in Seq(Event) /\ toFlush # <<>>
      /\ rest \in Seq(Event)
  BY ConcatProperties DEF TypeOK, ControlOK
<1>2. admitted = dispatched \o (toFlush \o rest)
  BY DEF OrderPreserved, InFlight
<1>3. Belt!Pending = SubSeq(admitted, Len(dispatched) + 1, Len(admitted))
  BY DEF Belt!Pending
<1> HIDE DEF rest
<1>4. Len(toFlush) \in 1..Len(Belt!Pending) /\ SubSeq(Belt!Pending, 1, Len(toFlush)) = toFlush
  BY ONLY <1>1, <1>2, <1>3, PrefixOfRest
<1>. QED
  BY <1>4 DEF Belt!Dispatch

LEMMA BeltStep == IInv /\ [Next]_vars => [Belt!ConveyorNext]_(Belt!conveyorVars)
<1> SUFFICES ASSUME IInv, [Next]_vars PROVE [Belt!ConveyorNext]_(Belt!conveyorVars)
  OBVIOUS
<1> USE DEF Belt!ConveyorNext, Belt!conveyorVars, histVars
<1>1. ASSUME NEW e \in Event, Submit(e) PROVE Belt!Admit(e)
  BY <1>1 DEF Submit, Belt!Admit
<1>2. CASE FlushFails \/ FlushSucceeds
  <2>1. \E n \in 1..Len(Belt!Pending) : Belt!Dispatch(n)
    BY <1>2, FlushIsDispatch DEF FlushFails, FlushSucceeds, IInv
  <2>. QED  BY <2>1
<1>3. CASE \/ TickerFires \/ Receive \/ AppendHeld \/ TakeTick \/ FlushOnTick \/ AddFlushed
           \/ AddBatches \/ Commit \/ SeeCancel \/ DrainLock \/ DrainReceive \/ DrainEnd
           \/ StopCancel \/ StopReturn \/ UNCHANGED vars
  <2>1. UNCHANGED <<admitted, dispatched>>
    BY <1>3 DEF TickerFires, Receive, AppendHeld, TakeTick, FlushOnTick, AddFlushed,
       AddBatches, Commit, SeeCancel, DrainLock, DrainReceive, DrainEnd, StopCancel,
       StopReturn, vars
  <2>. QED  BY <2>1
<1>. QED
  BY <1>1, <1>2, <1>3 DEF Next, Run, Flush

\* Whatever the interleaving of submitters, timer, loop and shutdown, the
\* accumulator is a FIFO conveyor: what reaches the sink is what was submitted,
\* in order, in non-empty batches.
THEOREM ConveyorImplemented == Spec => ImplementsConveyor
BY BeltInit, BeltStep, Inductive, PTL DEF Spec, ImplementsConveyor, Belt!ConveyorSpec
=============================================================================
