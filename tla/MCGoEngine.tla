----------------------------- MODULE MCGoEngine -----------------------------
(* Instances of GoEngine for TLC.                                          *)
EXTENDS GoEngine, TLC

\* Events of the same validity, workers and handlers are interchangeable.
EngineSymmetry == Permutations(Valid) \cup Permutations(Event \ Valid)
                    \cup Permutations(Worker) \cup Permutations(Handler)
=============================================================================
