-------------------------- MODULE KeyedRateLimiter --------------------------
(***************************************************************************)
(* KeyedRateLimiter of go-engine/internal/ratelimit: a global bucket in    *)
(* front of one bucket for each client key, called by concurrent HTTP      *)
(* handlers.  Allow takes three locks one after the other: that of the     *)
(* global bucket, that of the map, that of the client's bucket; a step is  *)
(* one of the critical sections.  Handlers hold pointers to buckets, so a  *)
(* bucket is an address in a heap.                                         *)
(*                                                                         *)
(* Two history variables: a window, opened once at any moment, counts what *)
(* each bucket lets through from then on; last is the latest answer of a   *)
(* bucket.                                                                 *)
(***************************************************************************)
EXTENDS Naturals

CONSTANTS
    Key,                        \* client addresses
    Handler,                    \* HTTP handler goroutines
    Address,                    \* where buckets can be allocated
    NoBucket,                   \* the nil pointer
    KeyCapacity, KeyRate,       \* k.capacity and k.ratePerSec
    GlobalCapacity, GlobalRate, \* those of k.globalLimit
    Unit,                       \* the parts of a token the amounts are counted in
    MaxTime                     \* bound: ticks of the clock

ASSUME NoBucketAssumption == NoBucket \notin Address
ASSUME LimitsAssumption ==
    /\ KeyCapacity \in Nat /\ KeyRate \in Nat
    /\ GlobalCapacity \in Nat /\ GlobalRate \in Nat
    /\ Unit \in Nat \ {0}

KeyBucket    == INSTANCE Bucket WITH Capacity <- KeyCapacity, Rate <- KeyRate
GlobalBucket == INSTANCE Bucket WITH Capacity <- GlobalCapacity, Rate <- GlobalRate

VARIABLES
    now,            \* the clock
    global,         \* k.globalLimit
    buckets,        \* k.buckets: [Key -> address or NoBucket]
    heap,           \* [Address -> the bucket there]
    allocated,      \* the addresses in use
    pc, key, ref,   \* for each handler: where its call is, its key, its pointer
    window,         \* history: [open, start, global, granted]
    last            \* history: [who, ok], the last answer of a bucket

vars == <<now, global, buckets, heap, allocated, pc, key, ref, window, last>>

\* Whose bucket answered, and what.  The ceiling is nobody's: an empty set.
Answer(who, ok) == [who |-> who, ok |-> ok]
Nobody == Answer({}, TRUE)

Init ==
    /\ now = 0
    /\ global = GlobalBucket!New(0)
    /\ buckets = [k \in Key |-> NoBucket]
    /\ heap = [a \in Address |-> KeyBucket!New(0)]
    /\ allocated = {}
    /\ pc = [h \in Handler |-> "idle"]
    /\ key \in [Handler -> Key]
    /\ ref = [h \in Handler |-> NoBucket]
    /\ window = [open |-> FALSE, start |-> 0, global |-> 0, granted |-> [k \in Key |-> 0]]
    /\ last = Nobody

Tick ==
    /\ now < MaxTime
    /\ now' = now + 1
    /\ UNCHANGED <<global, buckets, heap, allocated, pc, key, ref, window, last>>

OpenWindow ==
    /\ ~window.open
    /\ window' = [window EXCEPT !.open = TRUE, !.start = now]
    /\ UNCHANGED <<now, global, buckets, heap, allocated, pc, key, ref, last>>

\* Mutant of AllowGlobal: a request the global ceiling refuses goes on.
AllowGlobal_NoReturn(h, k) ==
    /\ pc[h] = "idle"
    /\ global' = GlobalBucket!After(global, now, 1)
    /\ key' = [key EXCEPT ![h] = k]
    /\ pc' = [pc EXCEPT ![h] = "lookup"]
    /\ window' = [window EXCEPT !.global = @ + (IF window.open THEN 1 ELSE 0)]
    /\ last' = Answer({}, GlobalBucket!Allows(global, now, 1))
    /\ UNCHANGED <<now, buckets, heap, allocated, ref>>

\* Handler h calls Allow(k): the global ceiling comes first.
AllowGlobal(h, k) ==
    /\ pc[h] = "idle"
    /\ global' = GlobalBucket!After(global, now, 1)
    /\ key' = [key EXCEPT ![h] = k]
    /\ IF GlobalBucket!Allows(global, now, 1)
         THEN /\ pc' = [pc EXCEPT ![h] = "lookup"]
              /\ window' = [window EXCEPT !.global = @ + (IF window.open THEN 1 ELSE 0)]
         ELSE UNCHANGED <<pc, window>>
    /\ last' = Answer({}, GlobalBucket!Allows(global, now, 1))
    /\ UNCHANGED <<now, buckets, heap, allocated, ref>>

\* Mutant of Lookup: the bucket of a new key is made outside the lock, by every
\* handler that found none.
Lookup_CheckThenMake(h) ==
    /\ pc[h] = "lookup"
    /\ IF ref[h] = NoBucket /\ buckets[key[h]] = NoBucket
         THEN \E a \in Address \ allocated :
                /\ heap' = [heap EXCEPT ![a] = KeyBucket!New(now)]
                /\ allocated' = allocated \cup {a}
                /\ ref' = [ref EXCEPT ![h] = a]
                /\ UNCHANGED <<buckets, pc>>
         ELSE /\ IF ref[h] = NoBucket
                   THEN ref' = [ref EXCEPT ![h] = buckets[key[h]]] /\ UNCHANGED buckets
                   ELSE buckets' = [buckets EXCEPT ![key[h]] = ref[h]] /\ UNCHANGED ref
              /\ pc' = [pc EXCEPT ![h] = "bucket"]
              /\ UNCHANGED <<heap, allocated>>
    /\ UNCHANGED <<now, global, key, window, last>>

\* Under k.mu the client's bucket is found, or made.
Lookup(h) ==
    /\ pc[h] = "lookup"
    /\ IF buckets[key[h]] # NoBucket
         THEN /\ ref' = [ref EXCEPT ![h] = buckets[key[h]]]
              /\ UNCHANGED <<heap, allocated, buckets>>
         ELSE \E a \in Address \ allocated :
                /\ heap' = [heap EXCEPT ![a] = KeyBucket!New(now)]
                /\ allocated' = allocated \cup {a}
                /\ buckets' = [buckets EXCEPT ![key[h]] = a]
                /\ ref' = [ref EXCEPT ![h] = a]
    /\ pc' = [pc EXCEPT ![h] = "bucket"]
    /\ UNCHANGED <<now, global, key, window, last>>

\* The client's own bucket has the last word.  The pointer goes out of scope.
AllowKey(h) ==
    /\ pc[h] = "bucket"
    /\ heap' = [heap EXCEPT ![ref[h]] = KeyBucket!After(@, now, 1)]
    /\ window' = IF window.open /\ KeyBucket!Allows(heap[ref[h]], now, 1)
                   THEN [window EXCEPT !.granted[key[h]] = @ + 1] ELSE window
    /\ last' = Answer({key[h]}, KeyBucket!Allows(heap[ref[h]], now, 1))
    /\ ref' = [ref EXCEPT ![h] = NoBucket]
    /\ pc' = [pc EXCEPT ![h] = "idle"]
    /\ UNCHANGED <<now, global, buckets, allocated, key>>

Next ==
    \/ Tick \/ OpenWindow
    \/ \E h \in Handler, k \in Key : AllowGlobal(h, k)
    \/ \E h \in Handler : Lookup(h) \/ AllowKey(h)

Spec == Init /\ [][Next]_vars

-----------------------------------------------------------------------------
(* Properties.                                                             *)

\* The values every variable ranges over.
TypeOK ==
    /\ now \in Nat
    /\ global \in GlobalBucket!BucketRec
    /\ buckets \in [Key -> Address \cup {NoBucket}]
    /\ heap \in [Address -> KeyBucket!BucketRec]
    /\ allocated \subseteq Address
    /\ pc \in [Handler -> {"idle", "lookup", "bucket"}]
    /\ key \in [Handler -> Key] /\ ref \in [Handler -> Address \cup {NoBucket}]
    /\ window \in [open : BOOLEAN, start : Nat, global : Nat, granted : [Key -> Nat]]
    /\ window.start <= now
    /\ last \in [who : SUBSET Key, ok : BOOLEAN]

\* Whatever the interleaving of handlers, no client gets more through in any
\* window of time than one burst and what its rate adds: its handlers all draw
\* on the same bucket, even when they race for the first request.
ClientBound ==
    window.open =>
        \A k \in Key :
            window.granted[k] * Unit <= KeyCapacity + KeyRate * (now - window.start)

\* All clients together never get past the global ceiling in any window.  Calls
\* already past it when the window opens are not counted in it.
GlobalBound ==
    window.open =>
        window.global * Unit <= GlobalCapacity + GlobalRate * (now - window.start)

\* A handler past the lookup holds the bucket the map has for its key, and no
\* two keys share a bucket.
OneBucketPerKey ==
    /\ \A h \in Handler : pc[h] = "bucket" => ref[h] = buckets[key[h]]
    /\ \A k1, k2 \in Key : (k1 # k2 /\ buckets[k1] # NoBucket) => buckets[k1] # buckets[k2]

\* Handlers, locks, pointers and lazily refilled buckets amount to one meter for
\* each client and one for all, all of them full at the start and filled tick by
\* tick: a client nobody has heard of has a full meter, a bucket nobody calls
\* fills all the same, and every answer is the one its meter dictates.
Level(k) == IF buckets[k] = NoBucket THEN KeyCapacity
                                     ELSE KeyBucket!Refilled(heap[buckets[k]], now)
Meters == INSTANCE Metering WITH ceiling <- GlobalBucket!Refilled(global, now),
                                 level <- [k \in Key |-> Level(k)]
ImplementsMetering == Meters!MeteringSpec
=============================================================================
