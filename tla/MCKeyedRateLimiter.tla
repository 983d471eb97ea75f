------------------------- MODULE MCKeyedRateLimiter -------------------------
(* Instances of KeyedRateLimiter for TLC.  The global limits are twice the *)
(* client's, as in cmd/server/main.go.                                     *)
EXTENDS KeyedRateLimiter, TLC

MCKeyCapacity == 2      \* one token
MCKeyRate == 1          \* half a token a tick
MCGlobalCapacity == 2 * MCKeyCapacity
MCGlobalRate == 2 * MCKeyRate
MCUnit == 2

LimiterSymmetry == Permutations(Key) \cup Permutations(Handler) \cup Permutations(Address)
=============================================================================
