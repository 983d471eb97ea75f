---------------------------- MODULE MongoStorage ----------------------------
(***************************************************************************)
(* The sink of the batch processor: internal/storage/mongo.go, or the      *)
(* DevMemoryFlusher of main.go when there is no database at boot.  Each    *)
(* step of BatchProcessor that returns from FlushBatch is joined with what *)
(* the sink did.  A document is named by the position of its event among   *)
(* those handed to the sink.  An empty batch, for which mongo.go has a     *)
(* test of its own, is stopped by doFlush before it gets here.             *)
(***************************************************************************)
EXTENDS BatchProcessor, FiniteSets

VARIABLES
    sink,       \* what main chose at boot
    stored      \* the documents in the collection

storageVars == <<vars, sink, stored>>

\* NewMongoStorage connects and pings; without a URI, or on an error, main
\* takes the flusher that keeps nothing.
StorageInit ==
    /\ Init
    /\ sink \in {"mongo", "memory"}
    /\ stored = {}

Documents == Len(dispatched) + 1 .. Len(dispatched) + Len(toFlush)

\* Mutant of BulkWrite: the driver's error is dropped.
BulkWrite_IgnoresError ==
    \/ /\ FlushSucceeds
       /\ \E S \in SUBSET Documents : stored' = stored \cup S
    \/ /\ FlushFails
       /\ \E S \in SUBSET Documents : stored' = stored \cup S

\* An unordered bulk write goes on after a document that fails: with an error,
\* any of the documents may be in the collection, all of them when only the
\* answer was lost.  The driver retries a write, and writes a document once.
BulkWrite ==
    \/ /\ FlushSucceeds
       /\ stored' = stored \cup Documents
    \/ /\ FlushFails
       /\ \E S \in SUBSET Documents : stored' = stored \cup S

\* DevMemoryFlusher logs the batch and never fails.
LogBatch ==
    /\ FlushSucceeds
    /\ UNCHANGED stored

FlushBatch ==
    /\ \/ sink = "mongo" /\ BulkWrite
       \/ sink = "memory" /\ LogBatch
    /\ UNCHANGED sink

\* Everything of the batch processor but the return of FlushBatch.
ProcessorStep ==
    \/ \E e \in Event : Submit(e)
    \/ TickerFires
    \/ Receive \/ AppendHeld \/ TakeTick \/ FlushOnTick
    \/ AddFlushed \/ AddBatches \/ Commit
    \/ SeeCancel \/ DrainLock \/ DrainReceive \/ DrainEnd
    \/ StopCancel \/ StopReturn

StorageNext == FlushBatch \/ (ProcessorStep /\ UNCHANGED <<sink, stored>>)

StorageSpec == StorageInit /\ [][StorageNext]_storageVars

\* The processor's fairness; the sink answers every FlushBatch.
FairStorageSpec == StorageSpec /\ Fairness /\ WF_storageVars(FlushBatch)

-----------------------------------------------------------------------------
(* Properties.                                                             *)

\* The sink's values; only documents handed to it are stored.
StorageTypeOK ==
    /\ sink \in {"mongo", "memory"}
    /\ stored \subseteq 1..Len(dispatched)
    /\ sink = "memory" => stored = {} /\ flushErrors = 0

\* Between the counters of the processor and the collection: what is counted as
\* flushed is in the database, and what a failed bulk write has stored all the
\* same is at most what it was given.  flushErrors counts batches, so it does not
\* say how much is missing.
CountedIsStored ==
    sink = "mongo" /\ runPc # "addFlushed" =>
        Cardinality(stored) \in totalFlushed..(totalFlushed + failed)
=============================================================================
