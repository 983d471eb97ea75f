-------------------------- MODULE MCBatchProcessor --------------------------
(* The instance of BatchProcessor for TLC: four events fill the channel,   *)
(* the buffer and a batch in flight, with one to spare, and end in a count *)
(* flush, a timer flush or the shutdown flush.                             *)
EXTENDS MongoStorage

MCThreshold == 2
MCBufferSize == 2
MCMaxEvents == 4
=============================================================================
