---------------------------- MODULE MCWorkerPool ----------------------------
(* Instances of WorkerPool for TLC: goroutines and events are model values. *)
EXTENDS WorkerPool, TLC

\* Workers, handlers and events are only compared for equality.
PoolSymmetry == Permutations(Worker) \cup Permutations(Handler) \cup Permutations(Event)
=============================================================================
