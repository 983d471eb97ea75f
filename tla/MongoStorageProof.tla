------------------------- MODULE MongoStorageProof --------------------------
(***************************************************************************)
(* What is proved of the processor joined with its sink.  A behaviour of   *)
(* the two is one of the processor, so that its invariants are at hand.    *)
(***************************************************************************)
EXTENDS MongoStorage, BatchProcessorProof, FiniteSetTheorems

LEMMA StepIsProcessorStep == [StorageNext]_storageVars => [Next]_vars
BY DEF StorageNext, storageVars, vars, FlushBatch, BulkWrite, LogBatch, ProcessorStep,
       Next, Run, Flush

LEMMA StorageInductive == StorageSpec => []IInv
<1>1. StorageSpec => Spec
  BY StepIsProcessorStep, PTL DEF StorageSpec, StorageInit, Spec
<1>. QED
  BY <1>1, Inductive, PTL

-----------------------------------------------------------------------------
(* The inductive invariant: the collection has every document that was     *)
(* written without an error, counted or about to be, and of the rest at    *)
(* most what the failed writes were given.                                 *)

Written == totalFlushed + Uncounted

StoredOK ==
    /\ sink \in {"mongo", "memory"}
    /\ stored \subseteq 1..Len(dispatched)
    /\ sink = "memory" => stored = {} /\ flushErrors = 0
    /\ sink = "mongo" => Cardinality(stored) \in Written..(Written + failed)

LEMMA StoredInit == StorageInit => StoredOK
BY EmptyBatch, FS_EmptySet DEF Init, StorageInit, StoredOK, Written, Uncounted

\* A write adds at most the documents it was given to those that were there.
LEMMA WriteAdds ==
    ASSUME NEW n \in Nat, NEW k \in Nat,
           NEW old \in SUBSET (1..n), NEW new \in SUBSET (n + 1 .. n + k)
    PROVE  /\ old \cup new \subseteq 1..n + k
           /\ Cardinality(old) \in Nat
           /\ Cardinality(old \cup new) \in Cardinality(old)..Cardinality(old) + k
           /\ new = n + 1 .. n + k => Cardinality(old \cup new) = Cardinality(old) + k
<1>1. IsFiniteSet(1..n) /\ IsFiniteSet(n + 1 .. n + k) /\ Cardinality(n + 1 .. n + k) = k
  BY FS_Interval
<1>2. IsFiniteSet(old) /\ IsFiniteSet(new) /\ Cardinality(new) <= k
  BY <1>1, FS_Subset
<1>3. Cardinality(old) \in Nat /\ Cardinality(new) \in Nat
  BY <1>2, FS_CardinalityType
<1>4. old \cap new = {}
  OBVIOUS
<1>5. Cardinality(old \cup new) = Cardinality(old) + Cardinality(new) - Cardinality(old \cap new)
  BY <1>2, FS_Union
<1>6. Cardinality(old \cap new) = 0
  BY <1>4, FS_EmptySet
<1>7. old \cup new \subseteq 1..n + k
  OBVIOUS
<1>. QED
  BY <1>1, <1>2, <1>3, <1>5, <1>6, <1>7

\* The same of the collection, while a batch is with the sink.
LEMMA BulkWriteAdds ==
    ASSUME TypeOK, StoredOK, NEW S \in SUBSET Documents, stored' = stored \cup S,
           dispatched' = dispatched \o toFlush
    PROVE  /\ stored' \subseteq 1..Len(dispatched')
           /\ Cardinality(stored) \in Nat
           /\ Cardinality(stored') \in Cardinality(stored)..Cardinality(stored) + Len(toFlush)
           /\ S = Documents => Cardinality(stored') = Cardinality(stored) + Len(toFlush)
<1>1. /\ Len(dispatched) \in Nat /\ Len(toFlush) \in Nat
      /\ Len(dispatched') = Len(dispatched) + Len(toFlush)
  BY LenProperties, ConcatProperties DEF TypeOK
<1>2. stored \in SUBSET (1..Len(dispatched))
  BY DEF StoredOK
<1>3. S \in SUBSET (Len(dispatched) + 1 .. Len(dispatched) + Len(toFlush))
  BY DEF Documents
<1>. QED
  BY <1>1, <1>2, <1>3, WriteAdds DEF Documents

LEMMA StoredStep == TypeOK /\ StoredOK /\ [StorageNext]_storageVars => StoredOK'
<1> SUFFICES ASSUME TypeOK, StoredOK, [StorageNext]_storageVars PROVE StoredOK'
  OBVIOUS
<1> USE DEF accVars, countVars, histVars, ctlVars
<1>t. /\ Len(dispatched) \in Nat /\ Len(toFlush) \in Nat /\ totalFlushed \in Nat /\ failed \in Nat
      /\ Len(dispatched \o toFlush) = Len(dispatched) + Len(toFlush)
  BY LenProperties, ConcatProperties DEF TypeOK
<1>1. CASE FlushSucceeds /\ sink = "mongo" /\ stored' = stored \cup Documents /\ UNCHANGED sink
  <2>1. Written = totalFlushed /\ Written' = totalFlushed + Len(toFlush)
    BY <1>t, <1>1 DEF FlushSucceeds, Written, Uncounted
  <2>2. dispatched' = dispatched \o toFlush /\ UNCHANGED failed
    BY <1>1 DEF FlushSucceeds
  <2>3. /\ stored' \subseteq 1..Len(dispatched')
        /\ Cardinality(stored) \in Nat
        /\ Cardinality(stored') = Cardinality(stored) + Len(toFlush)
    BY <1>1, <2>2, BulkWriteAdds
  <2>4. Cardinality(stored) \in Written..(Written + failed)
    BY <1>1 DEF StoredOK
  <2>5. Cardinality(stored') \in Written'..(Written' + failed')
    BY <1>t, <2>1, <2>2, <2>3, <2>4
  <2>. QED  BY <1>1, <2>3, <2>5 DEF StoredOK
<1>2. CASE /\ FlushFails /\ sink = "mongo" /\ UNCHANGED sink
           /\ \E S \in SUBSET Documents : stored' = stored \cup S
  <2>1. Written = totalFlushed /\ Written' = totalFlushed
    BY <1>t, <1>2 DEF FlushFails, FlushReturns, Written, Uncounted
  <2>2. dispatched' = dispatched \o toFlush /\ failed' = failed + Len(toFlush)
    BY <1>2 DEF FlushFails
  <2>3. /\ stored' \subseteq 1..Len(dispatched')
        /\ Cardinality(stored) \in Nat
        /\ Cardinality(stored') \in Cardinality(stored)..Cardinality(stored) + Len(toFlush)
    BY <1>2, <2>2, BulkWriteAdds
  <2>4. Cardinality(stored) \in Written..(Written + failed)
    BY <1>2 DEF StoredOK
  <2>5. Cardinality(stored') \in Written'..(Written' + failed')
    BY <1>t, <2>1, <2>2, <2>3, <2>4
  <2>. QED  BY <1>2, <2>3, <2>5 DEF StoredOK
<1>3. CASE FlushSucceeds /\ sink = "memory" /\ UNCHANGED <<sink, stored>>
  BY <1>3 DEF FlushSucceeds, StoredOK
<1>4. ASSUME UNCHANGED <<sink, stored, dispatched, failed, flushErrors, Written>>
      PROVE  StoredOK'
  BY <1>4 DEF StoredOK
<1>5. CASE AddFlushed /\ UNCHANGED <<sink, stored>>
  <2>1. UNCHANGED Written
    BY <1>5, <1>t DEF AddFlushed, Written, Uncounted
  <2>. QED  BY <1>4, <1>5, <2>1 DEF AddFlushed
<1>6. CASE /\ UNCHANGED <<sink, stored>>
           /\ \/ \E e \in Event : Submit(e)
              \/ TickerFires \/ StopCancel \/ StopReturn \/ UNCHANGED vars
  <2>1. UNCHANGED <<dispatched, failed, flushErrors, totalFlushed, runPc, toFlush>>
    BY <1>6 DEF Submit, TickerFires, StopCancel, StopReturn, vars
  <2>. QED  BY <1>4, <1>6, <2>1 DEF Written, Uncounted
<1>7. CASE /\ UNCHANGED <<sink, stored>>
           /\ \/ Receive \/ AppendHeld \/ TakeTick \/ FlushOnTick \/ AddBatches \/ Commit
              \/ SeeCancel \/ DrainLock \/ DrainReceive \/ DrainEnd
  <2>1. UNCHANGED <<dispatched, failed, flushErrors, totalFlushed>>
    BY <1>7 DEF Receive, AppendHeld, TakeTick, FlushOnTick, AddBatches, Commit,
       SeeCancel, DrainLock, DrainReceive, DrainEnd
  <2>2. runPc # "addFlushed" /\ runPc' # "addFlushed"
    BY <1>7 DEF Receive, AppendHeld, TakeTick, FlushOnTick, TickFlush, AddBatches, Commit,
       SeeCancel, DrainLock, DrainReceive, DrainEnd, SwapOut, CallFlush, Keep, FlushReturns
  <2>. QED  BY <1>4, <1>7, <2>1, <2>2 DEF Written, Uncounted
<1>8. CASE UNCHANGED storageVars
  BY <1>6, <1>8 DEF storageVars
<1>. QED
  BY <1>1, <1>2, <1>3, <1>5, <1>6, <1>7, <1>8
     DEF StorageNext, FlushBatch, BulkWrite, LogBatch, ProcessorStep

LEMMA StoredInductive == StorageSpec => [](IInv /\ StoredOK)
<1>1. IInv /\ StoredOK /\ [StorageNext]_storageVars => StoredOK'
  BY StoredStep DEF IInv
<1>. QED
  BY <1>1, StoredInit, StorageInductive, PTL DEF StorageSpec

-----------------------------------------------------------------------------
(* The theorems.                                                           *)

\* Only what the processor handed over is stored, and without a database
\* nothing is, and no error is counted.
THEOREM StorageTypeCorrect == StorageSpec => []StorageTypeOK
BY StoredInductive, PTL DEF StoredOK, StorageTypeOK

\* But for the step between write and count, every event counted as flushed is
\* in the collection, and what else is there came with a failed bulk write.
THEOREM CountedIsStoredCorrect == StorageSpec => []CountedIsStored
<1>1. IInv /\ StoredOK => CountedIsStored
  BY DEF IInv, TypeOK, StoredOK, CountedIsStored, Written, Uncounted
<1>. QED
  BY <1>1, StoredInductive, PTL
=============================================================================
