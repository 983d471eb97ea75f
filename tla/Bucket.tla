------------------------------- MODULE Bucket -------------------------------
(***************************************************************************)
(* The arithmetic of go-engine/internal/ratelimit's TokenBucket, on the    *)
(* record of its fields.  Time is counted in ticks of the monotonic clock. *)
(* Amounts are integers: one token is Unit parts, so that any rational     *)
(* rate is a whole number of parts per tick.  The float64 rounding of the  *)
(* code is not modelled.                                                   *)
(***************************************************************************)
EXTENDS Naturals

CONSTANTS
    Capacity,       \* tb.capacity, in parts of a token
    Rate,           \* tb.refillRate, in parts of a token per tick
    Unit            \* the parts of one token

BucketRec == [tokens : 0..Capacity, lastRefill : Nat]

New(t) == [tokens |-> Capacity, lastRefill |-> t]

Capped(x) == IF x > Capacity THEN Capacity ELSE x

Refilled_NoCap(b, t) == b.tokens + Rate * (t - b.lastRefill)    \* mutant of Refilled

\* Mutant of Refilled: the elapsed time is that of the last tick only.
Refilled_Truncated(b, t) == Capped(b.tokens + IF t > b.lastRefill THEN Rate ELSE 0)

\* What the bucket holds at time t, of which nothing has been taken since lastRefill.
Refilled(b, t) == Capped(b.tokens + Rate * (t - b.lastRefill))

Allows_OffByOne(b, t, n) == Refilled(b, t) + 1 >= n * Unit      \* mutant of Allows

Allows(b, t, n) == Refilled(b, t) >= n * Unit

\* Mutant of After: only a granted call moves lastRefill, but all keep the refill.
After_StaleRefill(b, t, n) ==
    IF Allows(b, t, n) THEN [tokens |-> Refilled(b, t) - n * Unit, lastRefill |-> t]
                       ELSE [tokens |-> Refilled(b, t), lastRefill |-> b.lastRefill]

\* The bucket after a call of AllowN(n) at time t, granted or not.
After(b, t, n) ==
    [tokens |-> Refilled(b, t) - (IF Allows(b, t, n) THEN n * Unit ELSE 0),
     lastRefill |-> t]
=============================================================================
