---------------------------- MODULE MCNodeEngine ----------------------------
(* Instances of NodeEngine for TLC.  In gateway a busy worker is reckoned  *)
(* for one event, so that two events in the queue at a release stall two   *)
(* workers; gateway_stalls keeps the proportion of server.ts: a worker     *)
(* takes half of what it is reckoned for.                                  *)
EXTENDS NodeEngine

MCWorkerCounts == {2, 3}
MCCapacities == {1, 3}
MCThresholds == {2}
MCBursts == {1, 2}

\* One configuration, for the run about the stall.
Two == {2}
Five == {5}
=============================================================================
