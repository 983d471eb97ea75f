------------------------ MODULE KeyedRateLimiterProof ------------------------
(***************************************************************************)
(* Proofs about KeyedRateLimiter, for any clients, handlers, addresses and *)
(* limits, and whatever the bound on time is.                              *)
(***************************************************************************)
EXTENDS KeyedRateLimiter, TLAPS

-----------------------------------------------------------------------------
(* The arithmetic of a bucket.                                             *)

\* A tick more of a rate.
LEMMA TickMore ==
    ASSUME NEW rate \in Nat, NEW t \in Nat, NEW s \in Nat, s <= t
    PROVE  /\ rate * (t - s) \in Nat
           /\ rate * ((t + 1) - s) = rate * (t - s) + rate
  <1>1. PICK d \in Nat : d = t - s
    BY SMT
  <1>2. (t + 1) - s = d + 1
    BY <1>1, SMT
  <1>3. rate * d \in Nat /\ rate * (d + 1) = rate * d + rate
    BY SMT
  <1> QED
    BY <1>1, <1>2, <1>3

\* The client's bucket and the ceiling are the same code with other numbers.
\* What a bucket holds is within its capacity, one tick adds the rate up to the
\* capacity, a call takes a token if it is granted and nothing if it is not.
LEMMA KeyBucketFacts ==
    ASSUME NEW b \in KeyBucket!BucketRec, NEW t \in Nat, b.lastRefill <= t
    PROVE  /\ KeyBucket!Refilled(b, t) \in 0..KeyCapacity
           /\ KeyBucket!Refilled(b, t + 1) =
                IF KeyBucket!Refilled(b, t) + KeyRate > KeyCapacity
                  THEN KeyCapacity ELSE KeyBucket!Refilled(b, t) + KeyRate
           /\ KeyBucket!Allows(b, t, 1) <=> KeyBucket!Refilled(b, t) >= Unit
           /\ KeyBucket!After(b, t, 1) \in KeyBucket!BucketRec
           /\ KeyBucket!After(b, t, 1).lastRefill = t
           /\ KeyBucket!Refilled(KeyBucket!After(b, t, 1), t) =
                IF KeyBucket!Refilled(b, t) >= Unit
                  THEN KeyBucket!Refilled(b, t) - Unit ELSE KeyBucket!Refilled(b, t)
  <1> DEFINE level == KeyBucket!Refilled(b, t)
             more == KeyRate * (t - b.lastRefill)
             after == KeyBucket!After(b, t, 1)
  <1>1. b.tokens \in 0..KeyCapacity /\ b.lastRefill \in Nat
    BY DEF KeyBucket!BucketRec
  <1>2. more \in Nat /\ KeyRate * ((t + 1) - b.lastRefill) = more + KeyRate
    BY <1>1, TickMore, LimitsAssumption
  <1>3. /\ level = IF b.tokens + more > KeyCapacity THEN KeyCapacity ELSE b.tokens + more
        /\ KeyBucket!Refilled(b, t + 1) =
             IF b.tokens + (more + KeyRate) > KeyCapacity
               THEN KeyCapacity ELSE b.tokens + (more + KeyRate)
    BY <1>2 DEF KeyBucket!Refilled, KeyBucket!Capped
  <1> HIDE DEF level, more
  <1>4. level \in 0..KeyCapacity
    BY <1>1, <1>2, <1>3, LimitsAssumption
  <1>5. KeyBucket!Refilled(b, t + 1) =
          IF level + KeyRate > KeyCapacity THEN KeyCapacity ELSE level + KeyRate
    BY <1>1, <1>2, <1>3, LimitsAssumption
  <1>6. KeyBucket!Allows(b, t, 1) <=> level >= Unit
    <2>1. 1 * Unit = Unit
      BY LimitsAssumption
    <2> QED
      BY <2>1 DEF KeyBucket!Allows, level
  <1>7. after = [tokens |-> IF level >= Unit THEN level - Unit ELSE level, lastRefill |-> t]
    <2>1. 1 * Unit = Unit
      BY LimitsAssumption
    <2>2. after = [tokens |-> level - (IF level >= Unit THEN Unit ELSE 0), lastRefill |-> t]
      BY <1>6, <2>1 DEF KeyBucket!After, level
    <2>3. level - (IF level >= Unit THEN Unit ELSE 0) = IF level >= Unit THEN level - Unit ELSE level
      BY <1>4, LimitsAssumption
    <2> QED
      BY <2>2, <2>3
  <1> HIDE DEF after
  <1>8. after.tokens \in 0..KeyCapacity /\ after.lastRefill = t
    BY <1>4, <1>7, LimitsAssumption
  <1>9. after \in KeyBucket!BucketRec
    BY <1>7, <1>8 DEF KeyBucket!BucketRec
  <1>10. KeyBucket!Refilled(after, t) = after.tokens
    <2>1. KeyRate * (t - t) = 0
      BY LimitsAssumption
    <2> QED
      BY <1>8, <2>1, LimitsAssumption DEF KeyBucket!Refilled, KeyBucket!Capped
  <1> QED
    BY <1>4, <1>5, <1>6, <1>7, <1>8, <1>9, <1>10 DEF level, after

LEMMA GlobalBucketFacts ==
    ASSUME NEW b \in GlobalBucket!BucketRec, NEW t \in Nat, b.lastRefill <= t
    PROVE  /\ GlobalBucket!Refilled(b, t) \in 0..GlobalCapacity
           /\ GlobalBucket!Refilled(b, t + 1) =
                IF GlobalBucket!Refilled(b, t) + GlobalRate > GlobalCapacity
                  THEN GlobalCapacity ELSE GlobalBucket!Refilled(b, t) + GlobalRate
           /\ GlobalBucket!Allows(b, t, 1) <=> GlobalBucket!Refilled(b, t) >= Unit
           /\ GlobalBucket!After(b, t, 1) \in GlobalBucket!BucketRec
           /\ GlobalBucket!After(b, t, 1).lastRefill = t
           /\ GlobalBucket!Refilled(GlobalBucket!After(b, t, 1), t) =
                IF GlobalBucket!Refilled(b, t) >= Unit
                  THEN GlobalBucket!Refilled(b, t) - Unit ELSE GlobalBucket!Refilled(b, t)
  <1> DEFINE level == GlobalBucket!Refilled(b, t)
             more == GlobalRate * (t - b.lastRefill)
             after == GlobalBucket!After(b, t, 1)
  <1>1. b.tokens \in 0..GlobalCapacity /\ b.lastRefill \in Nat
    BY DEF GlobalBucket!BucketRec
  <1>2. more \in Nat /\ GlobalRate * ((t + 1) - b.lastRefill) = more + GlobalRate
    BY <1>1, TickMore, LimitsAssumption
  <1>3. /\ level = IF b.tokens + more > GlobalCapacity THEN GlobalCapacity ELSE b.tokens + more
        /\ GlobalBucket!Refilled(b, t + 1) =
             IF b.tokens + (more + GlobalRate) > GlobalCapacity
               THEN GlobalCapacity ELSE b.tokens + (more + GlobalRate)
    BY <1>2 DEF GlobalBucket!Refilled, GlobalBucket!Capped
  <1> HIDE DEF level, more
  <1>4. level \in 0..GlobalCapacity
    BY <1>1, <1>2, <1>3, LimitsAssumption
  <1>5. GlobalBucket!Refilled(b, t + 1) =
          IF level + GlobalRate > GlobalCapacity THEN GlobalCapacity ELSE level + GlobalRate
    BY <1>1, <1>2, <1>3, LimitsAssumption
  <1>6. GlobalBucket!Allows(b, t, 1) <=> level >= Unit
    <2>1. 1 * Unit = Unit
      BY LimitsAssumption
    <2> QED
      BY <2>1 DEF GlobalBucket!Allows, level
  <1>7. after = [tokens |-> IF level >= Unit THEN level - Unit ELSE level, lastRefill |-> t]
    <2>1. 1 * Unit = Unit
      BY LimitsAssumption
    <2>2. after = [tokens |-> level - (IF level >= Unit THEN Unit ELSE 0), lastRefill |-> t]
      BY <1>6, <2>1 DEF GlobalBucket!After, level
    <2>3. level - (IF level >= Unit THEN Unit ELSE 0) = IF level >= Unit THEN level - Unit ELSE level
      BY <1>4, LimitsAssumption
    <2> QED
      BY <2>2, <2>3
  <1> HIDE DEF after
  <1>8. after.tokens \in 0..GlobalCapacity /\ after.lastRefill = t
    BY <1>4, <1>7, LimitsAssumption
  <1>9. after \in GlobalBucket!BucketRec
    BY <1>7, <1>8 DEF GlobalBucket!BucketRec
  <1>10. GlobalBucket!Refilled(after, t) = after.tokens
    <2>1. GlobalRate * (t - t) = 0
      BY LimitsAssumption
    <2> QED
      BY <1>8, <2>1, LimitsAssumption DEF GlobalBucket!Refilled, GlobalBucket!Capped
  <1> QED
    BY <1>4, <1>5, <1>6, <1>7, <1>8, <1>9, <1>10 DEF level, after

-----------------------------------------------------------------------------
(* The types, and what the three critical sections of a call agree on.     *)

\* Buckets are never dated in the future; a handler past the lookup points to
\* the bucket the map has for its key; what the map points to is allocated.
PointersOK ==
    /\ global.lastRefill <= now
    /\ \A a \in Address : heap[a].lastRefill <= now
    /\ \A k \in Key : buckets[k] # NoBucket => buckets[k] \in allocated
    /\ \A h \in Handler : pc[h] = "bucket" => ref[h] \in Address

Sound == TypeOK /\ PointersOK /\ OneBucketPerKey

LEMMA NewBucket ==
    ASSUME NEW t \in Nat
    PROVE  /\ KeyBucket!New(t) \in KeyBucket!BucketRec
           /\ KeyBucket!New(t).lastRefill = t
           /\ KeyBucket!Refilled(KeyBucket!New(t), t) = KeyCapacity
           /\ GlobalBucket!New(t) \in GlobalBucket!BucketRec
           /\ GlobalBucket!New(t).lastRefill = t
           /\ GlobalBucket!Refilled(GlobalBucket!New(t), t) = GlobalCapacity
  <1>1. KeyRate * (t - t) = 0 /\ GlobalRate * (t - t) = 0
    BY LimitsAssumption
  <1>2. KeyBucket!New(t) \in KeyBucket!BucketRec /\ GlobalBucket!New(t) \in GlobalBucket!BucketRec
    BY LimitsAssumption DEF KeyBucket!New, KeyBucket!BucketRec, GlobalBucket!New, GlobalBucket!BucketRec
  <1> QED
    BY <1>1, <1>2, LimitsAssumption DEF KeyBucket!New, KeyBucket!Refilled, KeyBucket!Capped,
       GlobalBucket!New, GlobalBucket!Refilled, GlobalBucket!Capped

LEMMA SoundInit == Init => Sound
  <1> SUFFICES ASSUME Init PROVE Sound
    OBVIOUS
  <1>1. KeyBucket!New(0) \in KeyBucket!BucketRec /\ KeyBucket!New(0).lastRefill = 0
        /\ GlobalBucket!New(0) \in GlobalBucket!BucketRec /\ GlobalBucket!New(0).lastRefill = 0
    BY NewBucket
  <1>2. TypeOK
    BY <1>1 DEF Init, TypeOK, Nobody, Answer
  <1>3. PointersOK
    BY <1>1, NoBucketAssumption DEF Init, PointersOK
  <1>4. OneBucketPerKey
    BY DEF Init, OneBucketPerKey
  <1> QED
    BY <1>2, <1>3, <1>4 DEF Sound

LEMMA SoundStep == Sound /\ [Next]_vars => Sound'
  <1> SUFFICES ASSUME Sound, [Next]_vars PROVE Sound'
    OBVIOUS
  <1> USE DEF Sound
  <1>1. CASE Tick
    <2>1. now \in Nat /\ now' = now + 1
      BY <1>1 DEF Tick, TypeOK
    <2>2. TypeOK'
      BY <1>1, <2>1 DEF Tick, TypeOK
    <2>3. PointersOK'
      BY <1>1, <2>1 DEF Tick, TypeOK, PointersOK, KeyBucket!BucketRec, GlobalBucket!BucketRec
    <2>4. OneBucketPerKey'
      BY <1>1 DEF Tick, OneBucketPerKey
    <2> QED
      BY <2>2, <2>3, <2>4
  <1>2. CASE OpenWindow
    <2>1. TypeOK'
      <3>1. window' = [window EXCEPT !.open = TRUE, !.start = now]
        BY <1>2 DEF OpenWindow
      <3>2. now \in Nat /\ now <= now
        BY DEF TypeOK
      <3>3. /\ window' \in [open : BOOLEAN, start : Nat, global : Nat, granted : [Key -> Nat]]
            /\ window'.start <= now
        BY <3>1, <3>2 DEF TypeOK
      <3> QED
        BY <1>2, <3>3 DEF OpenWindow, TypeOK
    <2>2. PointersOK' /\ OneBucketPerKey'
      BY <1>2 DEF OpenWindow, PointersOK, OneBucketPerKey
    <2> QED
      BY <2>1, <2>2
  <1>3. ASSUME NEW h \in Handler, NEW k \in Key, AllowGlobal(h, k) PROVE Sound'
    <2>1. global' \in GlobalBucket!BucketRec /\ global'.lastRefill = now
      BY <1>3, GlobalBucketFacts DEF AllowGlobal, TypeOK, PointersOK
    <2>2. (GlobalBucket!Allows(global, now, 1)) \in BOOLEAN
      BY DEF GlobalBucket!Allows
    <2>3. last' \in [who : SUBSET Key, ok : BOOLEAN]
      BY <1>3, <2>2 DEF AllowGlobal, Answer
    <2>4. pc' \in [Handler -> {"idle", "lookup", "bucket"}] /\ key' \in [Handler -> Key]
      BY <1>3 DEF AllowGlobal, TypeOK
    <2>5. /\ window' \in [open : BOOLEAN, start : Nat, global : Nat, granted : [Key -> Nat]]
          /\ window'.start <= now'
      <3>1. window' = window \/ \E n \in Nat : window' = [window EXCEPT !.global = n]
        <4>1. window.global + (IF window.open THEN 1 ELSE 0) \in Nat
          BY DEF TypeOK
        <4> QED
          BY <1>3, <4>1 DEF AllowGlobal
      <3> QED
        BY <1>3, <3>1 DEF AllowGlobal, TypeOK
    <2>6. TypeOK'
      BY <1>3, <2>1, <2>3, <2>4, <2>5 DEF AllowGlobal, TypeOK
    <2>7. \A g \in Handler : pc'[g] = "bucket" => pc[g] = "bucket" /\ key'[g] = key[g]
      BY <1>3 DEF AllowGlobal, TypeOK
    <2>8. PointersOK'
      BY <1>3, <2>1, <2>7 DEF AllowGlobal, TypeOK, PointersOK
    <2>9. OneBucketPerKey'
      BY <1>3, <2>7 DEF AllowGlobal, TypeOK, OneBucketPerKey
    <2> QED
      BY <2>6, <2>8, <2>9
  <1>4. ASSUME NEW h \in Handler, Lookup(h) PROVE Sound'
    <2>0. key[h] \in Key /\ pc[h] = "lookup" /\ pc' = [pc EXCEPT ![h] = "bucket"]
      BY <1>4 DEF Lookup, TypeOK
    <2>1. CASE buckets[key[h]] # NoBucket
      <3>1. /\ ref' = [ref EXCEPT ![h] = buckets[key[h]]]
            /\ UNCHANGED <<heap, allocated, buckets, now, global, key, window, last>>
        BY <1>4, <2>1 DEF Lookup
      <3>2. buckets[key[h]] \in Address
        BY <2>0, <2>1 DEF TypeOK
      <3>3. TypeOK'
        BY <2>0, <3>1, <3>2 DEF TypeOK
      <3>4. PointersOK'
        BY <2>0, <3>1, <3>2 DEF TypeOK, PointersOK
      <3>5. OneBucketPerKey'
        BY <2>0, <3>1 DEF TypeOK, OneBucketPerKey
      <3> QED
        BY <3>3, <3>4, <3>5
    <2>2. CASE buckets[key[h]] = NoBucket
      <3>1. PICK a \in Address \ allocated :
              /\ heap' = [heap EXCEPT ![a] = KeyBucket!New(now)]
              /\ allocated' = allocated \cup {a}
              /\ buckets' = [buckets EXCEPT ![key[h]] = a]
              /\ ref' = [ref EXCEPT ![h] = a]
        BY <1>4, <2>2 DEF Lookup
      <3>2. UNCHANGED <<now, global, key, window, last>>
        BY <1>4 DEF Lookup
      <3>3. KeyBucket!New(now) \in KeyBucket!BucketRec /\ KeyBucket!New(now).lastRefill = now
        BY NewBucket DEF TypeOK
      <3>4. TypeOK'
        BY <2>0, <3>1, <3>2, <3>3 DEF TypeOK
      <3>5. PointersOK'
        <4>1. \A b \in Address : heap'[b].lastRefill <= now
          BY <3>1, <3>3 DEF TypeOK, PointersOK
        <4>2. \A k \in Key : buckets'[k] # NoBucket => buckets'[k] \in allocated'
          BY <2>0, <3>1 DEF TypeOK, PointersOK
        <4>3. \A g \in Handler : pc'[g] = "bucket" => ref'[g] \in Address
          BY <2>0, <3>1 DEF TypeOK, PointersOK
        <4> QED
          BY <3>2, <4>1, <4>2, <4>3 DEF PointersOK
      <3>6. OneBucketPerKey'
        <4>1. \A g \in Handler : pc[g] = "bucket" => key[g] # key[h]
          BY <2>0, <2>2, NoBucketAssumption DEF OneBucketPerKey, PointersOK, TypeOK
        <4>2. \A g \in Handler : pc'[g] = "bucket" => ref'[g] = buckets'[key'[g]]
          BY <2>0, <3>1, <3>2, <4>1 DEF OneBucketPerKey, TypeOK
        <4>3. \A k1, k2 \in Key : k1 # k2 /\ buckets'[k1] # NoBucket => buckets'[k1] # buckets'[k2]
          BY <2>0, <3>1, NoBucketAssumption DEF OneBucketPerKey, PointersOK, TypeOK
        <4> QED
          BY <4>2, <4>3 DEF OneBucketPerKey
      <3> QED
        BY <3>4, <3>5, <3>6
    <2> QED
      BY <2>1, <2>2
  <1>5. ASSUME NEW h \in Handler, AllowKey(h) PROVE Sound'
    <2>0. pc[h] = "bucket" /\ ref[h] \in Address /\ key[h] \in Key
      BY <1>5 DEF AllowKey, TypeOK, PointersOK
    <2>1. LET b == KeyBucket!After(heap[ref[h]], now, 1)
          IN  b \in KeyBucket!BucketRec /\ b.lastRefill = now
      BY <2>0, KeyBucketFacts DEF TypeOK, PointersOK
    <2>2. heap' = [heap EXCEPT ![ref[h]] = KeyBucket!After(heap[ref[h]], now, 1)]
      BY <1>5 DEF AllowKey
    <2>3. (KeyBucket!Allows(heap[ref[h]], now, 1)) \in BOOLEAN
      BY DEF KeyBucket!Allows
    <2>4. last' \in [who : SUBSET Key, ok : BOOLEAN]
      BY <1>5, <2>0, <2>3 DEF AllowKey, Answer
    <2>5. /\ window' \in [open : BOOLEAN, start : Nat, global : Nat, granted : [Key -> Nat]]
          /\ window'.start <= now'
      <3>1. window' = window
            \/ window' = [window EXCEPT !.granted = [window.granted EXCEPT ![key[h]] = @ + 1]]
        BY <1>5 DEF AllowKey
      <3>2. [window.granted EXCEPT ![key[h]] = @ + 1] \in [Key -> Nat]
        BY <2>0 DEF TypeOK
      <3> QED
        BY <1>5, <3>1, <3>2 DEF AllowKey, TypeOK
    <2>6. heap' \in [Address -> KeyBucket!BucketRec]
      BY <2>0, <2>1, <2>2 DEF TypeOK
    <2>7. TypeOK'
      BY <1>5, <2>4, <2>5, <2>6 DEF AllowKey, TypeOK
    <2>8. \A a \in Address : heap'[a].lastRefill <= now
      BY <2>0, <2>1, <2>2 DEF TypeOK, PointersOK
    <2>9. PointersOK'
      BY <1>5, <2>8 DEF AllowKey, TypeOK, PointersOK
    <2>10. OneBucketPerKey'
      BY <1>5 DEF AllowKey, TypeOK, OneBucketPerKey
    <2> QED
      BY <2>7, <2>9, <2>10
  <1>6. CASE UNCHANGED vars
    BY <1>6 DEF vars, TypeOK, PointersOK, OneBucketPerKey
  <1> QED
    BY <1>1, <1>2, <1>3, <1>4, <1>5, <1>6 DEF Next

-----------------------------------------------------------------------------
(* What each action does to the levels of the meters.                      *)

Ceiling == GlobalBucket!Refilled(global, now)

LEMMA LevelType == Sound => Ceiling \in 0..GlobalCapacity /\ \A k \in Key : Level(k) \in 0..KeyCapacity
  <1> SUFFICES ASSUME Sound
      PROVE Ceiling \in 0..GlobalCapacity /\ \A k \in Key : Level(k) \in 0..KeyCapacity
    OBVIOUS
  <1>1. Ceiling \in 0..GlobalCapacity
    BY GlobalBucketFacts DEF Ceiling, Sound, TypeOK, PointersOK
  <1>2. ASSUME NEW k \in Key PROVE Level(k) \in 0..KeyCapacity
    <2>1. CASE buckets[k] = NoBucket
      BY <2>1, LimitsAssumption DEF Level
    <2>2. CASE buckets[k] # NoBucket
      <3>1. buckets[k] \in Address
        BY <2>2 DEF Sound, TypeOK
      <3> QED
        BY <2>2, <3>1, KeyBucketFacts DEF Level, Sound, TypeOK, PointersOK
    <2> QED
      BY <2>1, <2>2
  <1> QED
    BY <1>1, <1>2

\* A tick fills every meter, whether it has a bucket or not.
LEMMA TickFills ==
    ASSUME Sound, Tick
    PROVE  /\ Ceiling' = IF Ceiling + GlobalRate > GlobalCapacity
                           THEN GlobalCapacity ELSE Ceiling + GlobalRate
           /\ \A k \in Key : Level(k)' = IF Level(k) + KeyRate > KeyCapacity
                                          THEN KeyCapacity ELSE Level(k) + KeyRate
  <1>1. now' = now + 1 /\ UNCHANGED <<global, buckets, heap>> /\ now \in Nat
    BY DEF Tick, Sound, TypeOK
  <1>2. Ceiling' = IF Ceiling + GlobalRate > GlobalCapacity
                     THEN GlobalCapacity ELSE Ceiling + GlobalRate
    <2>1. Ceiling' = GlobalBucket!Refilled(global, now + 1)
      BY <1>1 DEF Ceiling
    <2> QED
      BY <1>1, <2>1, GlobalBucketFacts DEF Ceiling, Sound, TypeOK, PointersOK
  <1>3. ASSUME NEW k \in Key
        PROVE Level(k)' = IF Level(k) + KeyRate > KeyCapacity THEN KeyCapacity ELSE Level(k) + KeyRate
    <2>1. CASE buckets[k] = NoBucket
      <3>1. Level(k)' = KeyCapacity /\ Level(k) = KeyCapacity
        BY <1>1, <2>1 DEF Level
      <3> QED
        BY <3>1, LimitsAssumption
    <2>2. CASE buckets[k] # NoBucket
      <3>1. buckets[k] \in Address
        BY <2>2 DEF Sound, TypeOK
      <3>2. /\ Level(k) = KeyBucket!Refilled(heap[buckets[k]], now)
            /\ Level(k)' = KeyBucket!Refilled(heap[buckets[k]], now + 1)
        BY <1>1, <2>2 DEF Level
      <3> QED
        BY <1>1, <3>1, <3>2, KeyBucketFacts DEF Sound, TypeOK, PointersOK
    <2> QED
      BY <2>1, <2>2
  <1> QED
    BY <1>2, <1>3

\* Making a bucket, or finding one, leaves every meter where it is.
LEMMA LookupKeeps ==
    ASSUME Sound, NEW h \in Handler, Lookup(h)
    PROVE  Ceiling' = Ceiling /\ \A k \in Key : Level(k)' = Level(k)
  <1>1. UNCHANGED <<now, global>> /\ key[h] \in Key
    BY DEF Lookup, Sound, TypeOK
  <1>2. Ceiling' = Ceiling
    BY <1>1 DEF Ceiling
  <1>3. CASE buckets[key[h]] # NoBucket
    BY <1>1, <1>2, <1>3 DEF Lookup, Level
  <1>4. CASE buckets[key[h]] = NoBucket
    <2>1. PICK a \in Address \ allocated :
            /\ heap' = [heap EXCEPT ![a] = KeyBucket!New(now)]
            /\ buckets' = [buckets EXCEPT ![key[h]] = a]
      BY <1>4 DEF Lookup
    <2>2. ASSUME NEW k \in Key PROVE Level(k)' = Level(k)
      <3>1. CASE k = key[h]
        <4>1. buckets'[k] = a /\ heap'[a] = KeyBucket!New(now)
          BY <2>1, <3>1 DEF Sound, TypeOK
        <4>2. Level(k)' = KeyBucket!Refilled(KeyBucket!New(now), now)
          BY <1>1, <4>1, NoBucketAssumption DEF Level
        <4>3. Level(k) = KeyCapacity
          BY <1>4, <3>1 DEF Level
        <4> QED
          BY <4>2, <4>3, NewBucket DEF Sound, TypeOK
      <3>2. CASE k # key[h]
        <4>1. buckets'[k] = buckets[k] /\ (buckets[k] # NoBucket => heap'[buckets[k]] = heap[buckets[k]])
          BY <2>1, <3>2 DEF Sound, TypeOK, PointersOK
        <4> QED
          BY <1>1, <4>1 DEF Level
      <3> QED
        BY <3>1, <3>2
    <2> QED
      BY <1>2, <2>2
  <1> QED
    BY <1>3, <1>4

LEMMA AllowGlobalDraws ==
    ASSUME Sound, NEW h \in Handler, NEW k \in Key, AllowGlobal(h, k)
    PROVE  /\ Ceiling' = IF Ceiling >= Unit THEN Ceiling - Unit ELSE Ceiling
           /\ GlobalBucket!Allows(global, now, 1) <=> Ceiling >= Unit
           /\ \A k2 \in Key : Level(k2)' = Level(k2)
  <1>1. now' = now /\ global' = GlobalBucket!After(global, now, 1) /\ UNCHANGED <<buckets, heap>>
    BY DEF AllowGlobal
  <1>2. Ceiling' = GlobalBucket!Refilled(GlobalBucket!After(global, now, 1), now)
    BY <1>1 DEF Ceiling
  <1>3. \A k2 \in Key : Level(k2)' = Level(k2)
    BY <1>1 DEF Level
  <1> QED
    BY <1>2, <1>3, GlobalBucketFacts DEF Ceiling, Sound, TypeOK, PointersOK

\* A client's call draws on its own meter and on no other.
LEMMA AllowKeyDraws ==
    ASSUME Sound, NEW h \in Handler, AllowKey(h)
    PROVE  /\ key[h] \in Key
           /\ Ceiling' = Ceiling
           /\ KeyBucket!Allows(heap[ref[h]], now, 1) <=> Level(key[h]) >= Unit
           /\ Level(key[h])' = IF Level(key[h]) >= Unit THEN Level(key[h]) - Unit ELSE Level(key[h])
           /\ \A k \in Key \ {key[h]} : Level(k)' = Level(k)
  <1>1. /\ key[h] \in Key /\ ref[h] \in Address /\ ref[h] = buckets[key[h]]
        /\ ref[h] # NoBucket
    BY NoBucketAssumption DEF AllowKey, Sound, TypeOK, PointersOK, OneBucketPerKey
  <1>2. /\ UNCHANGED <<now, global, buckets, key>>
        /\ heap' = [heap EXCEPT ![ref[h]] = KeyBucket!After(heap[ref[h]], now, 1)]
    BY DEF AllowKey
  <1>3. Level(key[h]) = KeyBucket!Refilled(heap[ref[h]], now)
    BY <1>1 DEF Level
  <1>4. Level(key[h])' = KeyBucket!Refilled(KeyBucket!After(heap[ref[h]], now, 1), now)
    <2>1. heap'[ref[h]] = KeyBucket!After(heap[ref[h]], now, 1)
      BY <1>1, <1>2 DEF Sound, TypeOK
    <2>2. Level(key[h])' = KeyBucket!Refilled(heap'[buckets[key[h]]], now)
      BY <1>1, <1>2 DEF Level
    <2> QED
      BY <1>1, <2>1, <2>2
  <1>5. ASSUME NEW k \in Key \ {key[h]} PROVE Level(k)' = Level(k)
    <2>1. buckets[k] # NoBucket => heap'[buckets[k]] = heap[buckets[k]]
      BY <1>1, <1>2 DEF Sound, TypeOK, OneBucketPerKey
    <2> QED
      BY <1>2, <2>1 DEF Level
  <1>6. Ceiling' = Ceiling
    BY <1>2 DEF Ceiling
  <1> QED
    BY <1>1, <1>3, <1>4, <1>5, <1>6, KeyBucketFacts DEF Sound, TypeOK, PointersOK

-----------------------------------------------------------------------------
(* The bounds.  What went through and what is left in the meter together   *)
(* never exceed a burst and the refill of the window: a grant moves a      *)
(* token from one to the other, a tick raises the meter by at most the     *)
(* rate.                                                                   *)

Elapsed == now - window.start

Metered ==
    /\ ~window.open => window.global = 0 /\ \A k \in Key : window.granted[k] = 0
    /\ window.open =>
         /\ window.global * Unit + Ceiling <= GlobalCapacity + GlobalRate * Elapsed
         /\ \A k \in Key :
              window.granted[k] * Unit + Level(k) <= KeyCapacity + KeyRate * Elapsed

IInv == Sound /\ Metered

\* One more token.
LEMMA UnitMore ==
    ASSUME NEW n \in Nat
    PROVE  n * Unit \in Nat /\ (n + 1) * Unit = n * Unit + Unit
  BY LimitsAssumption

LEMMA MeteredStep == IInv /\ [Next]_vars => Metered'
  <1> SUFFICES ASSUME IInv, [Next]_vars PROVE Metered'
    OBVIOUS
  <1> USE DEF IInv
  <1>0. /\ Ceiling \in 0..GlobalCapacity
        /\ \A k \in Key : Level(k) \in 0..KeyCapacity
        /\ now \in Nat /\ window.start \in Nat /\ window.start <= now
        /\ window.global \in Nat /\ \A k \in Key : window.granted[k] \in Nat
        /\ window.global * Unit \in Nat /\ \A k \in Key : window.granted[k] * Unit \in Nat
    <2>1. window.global \in Nat /\ \A k \in Key : window.granted[k] \in Nat
      BY DEF Sound, TypeOK
    <2> QED
      BY <2>1, LevelType, UnitMore DEF Sound, TypeOK
  <1>1. CASE Tick
    <2>1. now' = now + 1 /\ UNCHANGED window
      BY <1>1 DEF Tick
    <2>2. CASE ~window.open
      BY <2>1, <2>2 DEF Metered
    <2>3. CASE window.open
      <3>1. /\ GlobalRate * Elapsed \in Nat
            /\ GlobalRate * Elapsed' = GlobalRate * Elapsed + GlobalRate
            /\ KeyRate * Elapsed \in Nat
            /\ KeyRate * Elapsed' = KeyRate * Elapsed + KeyRate
        BY <1>0, <2>1, TickMore, LimitsAssumption DEF Elapsed
      <3>2. window.global * Unit + Ceiling' <= GlobalCapacity + GlobalRate * Elapsed'
        <4>1. Ceiling' <= Ceiling + GlobalRate
          BY <1>0, <1>1, TickFills, LimitsAssumption
        <4>2. Ceiling' \in Nat
          BY <1>0, <1>1, TickFills, LimitsAssumption
        <4>3. window.global * Unit + Ceiling <= GlobalCapacity + GlobalRate * Elapsed
          BY <2>3 DEF Metered
        <4> HIDE DEF Ceiling, Elapsed
        <4> QED
          BY <1>0, <3>1, <4>1, <4>2, <4>3, LimitsAssumption
      <3>3. ASSUME NEW k \in Key
            PROVE window.granted[k] * Unit + Level(k)' <= KeyCapacity + KeyRate * Elapsed'
        <4>1. Level(k)' <= Level(k) + KeyRate /\ Level(k)' \in Nat
          BY <1>0, <1>1, TickFills, LimitsAssumption
        <4>2. window.granted[k] * Unit + Level(k) <= KeyCapacity + KeyRate * Elapsed
          BY <2>3 DEF Metered
        <4> QED
          BY <1>0, <3>1, <4>1, <4>2, LimitsAssumption
      <3> QED
        BY <2>1, <2>3, <3>2, <3>3 DEF Metered
    <2> QED
      BY <2>2, <2>3
  <1>2. CASE OpenWindow
    <2>1. /\ ~window.open /\ window' = [window EXCEPT !.open = TRUE, !.start = now]
          /\ UNCHANGED <<now, global, buckets, heap>>
      BY <1>2 DEF OpenWindow
    <2>2. /\ window'.start = now' /\ window'.global = 0
          /\ \A k \in Key : window'.granted[k] = 0
      BY <2>1 DEF Metered, Sound, TypeOK
    <2>3. Ceiling' = Ceiling /\ \A k \in Key : Level(k)' = Level(k)
      BY <2>1 DEF Ceiling, Level
    <2>4. GlobalRate * Elapsed' = 0 /\ KeyRate * Elapsed' = 0
      BY <1>0, <2>1, <2>2, LimitsAssumption DEF Elapsed
    <2>5. 0 * Unit = 0
      BY LimitsAssumption
    <2>6. window'.global * Unit + Ceiling' <= GlobalCapacity + GlobalRate * Elapsed'
      BY <1>0, <2>2, <2>3, <2>4, <2>5, LimitsAssumption
    <2>7. \A k \in Key : window'.granted[k] * Unit + Level(k)' <= KeyCapacity + KeyRate * Elapsed'
      BY <1>0, <2>2, <2>3, <2>4, <2>5, LimitsAssumption
    <2>8. window'.open
      BY <2>1 DEF Sound, TypeOK
    <2> QED
      BY <2>6, <2>7, <2>8 DEF Metered
  <1>3. ASSUME NEW h \in Handler, NEW k \in Key, AllowGlobal(h, k) PROVE Metered'
    <2>1. now' = now /\ \A j \in Key : Level(j)' = Level(j)
      BY <1>3, AllowGlobalDraws DEF AllowGlobal
    <2>2. CASE ~window.open
      <3>1. window' = window \/ window' = [window EXCEPT !.global = window.global + 0]
        BY <1>3, <2>2 DEF AllowGlobal
      <3>2. window' = window
        BY <1>0, <3>1 DEF Sound, TypeOK
      <3> QED
        BY <2>2, <3>2 DEF Metered
    <2>3. CASE window.open
      <3>1. /\ window'.open = window.open /\ window'.start = window.start
            /\ window'.granted = window.granted
            /\ window'.global = window.global + (IF Ceiling >= Unit THEN 1 ELSE 0)
        <4>1. CASE Ceiling >= Unit
          <5>1. window' = [window EXCEPT !.global = window.global + 1]
            BY <1>3, <2>3, <4>1, AllowGlobalDraws DEF AllowGlobal
          <5> QED
            BY <4>1, <5>1 DEF Sound, TypeOK
        <4>2. CASE ~(Ceiling >= Unit)
          <5>1. window' = window
            BY <1>3, <4>2, AllowGlobalDraws DEF AllowGlobal
          <5> QED
            BY <1>0, <4>2, <5>1
        <4> QED
          BY <4>1, <4>2
      <3>2. Elapsed' = Elapsed
        BY <2>1, <3>1 DEF Elapsed
      <3>3. Ceiling' = IF Ceiling >= Unit THEN Ceiling - Unit ELSE Ceiling
        BY <1>3, AllowGlobalDraws
      <3>4. window'.global * Unit + Ceiling' = window.global * Unit + Ceiling
        <4> HIDE DEF Ceiling
        <4>1. CASE Ceiling >= Unit
          BY <1>0, <3>1, <3>3, <4>1, UnitMore, LimitsAssumption
        <4>2. CASE ~(Ceiling >= Unit)
          BY <1>0, <3>1, <3>3, <4>2
        <4> QED
          BY <4>1, <4>2
      <3> QED
        BY <2>1, <2>3, <3>1, <3>2, <3>4 DEF Metered
    <2> QED
      BY <2>2, <2>3
  <1>4. ASSUME NEW h \in Handler, Lookup(h) PROVE Metered'
    <2>1. Ceiling' = Ceiling /\ \A k \in Key : Level(k)' = Level(k)
      BY <1>4, LookupKeeps
    <2>2. UNCHANGED <<now, window>>
      BY <1>4 DEF Lookup
    <2> QED
      BY <2>1, <2>2 DEF Metered, Elapsed
  <1>5. ASSUME NEW h \in Handler, AllowKey(h) PROVE Metered'
    <2>1. /\ key[h] \in Key /\ Ceiling' = Ceiling
          /\ Level(key[h])' = IF Level(key[h]) >= Unit THEN Level(key[h]) - Unit ELSE Level(key[h])
          /\ \A k \in Key \ {key[h]} : Level(k)' = Level(k)
      BY <1>5, AllowKeyDraws
    <2>2. UNCHANGED <<now, key>>
      BY <1>5 DEF AllowKey
    <2>3. CASE ~window.open
      BY <1>5, <2>3 DEF AllowKey, Metered
    <2>4. CASE window.open
      <3>1. /\ window'.open = window.open /\ window'.start = window.start
            /\ window'.global = window.global
            /\ window'.granted[key[h]] = window.granted[key[h]] + (IF Level(key[h]) >= Unit THEN 1 ELSE 0)
            /\ \A k \in Key \ {key[h]} : window'.granted[k] = window.granted[k]
        <4>1. CASE Level(key[h]) >= Unit
          <5>1. window' = [window EXCEPT !.granted = [window.granted EXCEPT ![key[h]] = @ + 1]]
            BY <1>5, <2>4, <4>1, AllowKeyDraws DEF AllowKey
          <5> QED
            BY <2>1, <4>1, <5>1 DEF Sound, TypeOK
        <4>2. CASE ~(Level(key[h]) >= Unit)
          <5>1. window' = window
            BY <1>5, <4>2, AllowKeyDraws DEF AllowKey
          <5> QED
            BY <1>0, <2>1, <4>2, <5>1
        <4> QED
          BY <4>1, <4>2
      <3>2. Elapsed' = Elapsed
        BY <2>2, <3>1 DEF Elapsed
      <3>3. window'.granted[key[h]] * Unit + Level(key[h])' = window.granted[key[h]] * Unit + Level(key[h])
        <4>1. CASE Level(key[h]) >= Unit
          BY <1>0, <2>1, <3>1, <4>1, UnitMore, LimitsAssumption
        <4>2. CASE ~(Level(key[h]) >= Unit)
          BY <1>0, <2>1, <3>1, <4>2
        <4> QED
          BY <4>1, <4>2
      <3>4. ASSUME NEW k \in Key
            PROVE window'.granted[k] * Unit + Level(k)' <= KeyCapacity + KeyRate * Elapsed'
        <4>1. CASE k = key[h]
          <5>1. Level(k)' = Level(key[h])'
            BY <2>2, <4>1
          <5> QED
            BY <2>1, <2>4, <3>2, <3>3, <4>1, <5>1 DEF Metered
        <4>2. CASE k # key[h]
          BY <2>1, <2>4, <3>1, <3>2, <4>2 DEF Metered
        <4> QED
          BY <4>1, <4>2
      <3> QED
        BY <2>1, <2>4, <3>1, <3>2, <3>4 DEF Metered
    <2> QED
      BY <2>3, <2>4
  <1>6. CASE UNCHANGED vars
    BY <1>6 DEF vars, Metered, Elapsed, Ceiling, Level
  <1> QED
    BY <1>1, <1>2, <1>3, <1>4, <1>5, <1>6 DEF Next

LEMMA Inductive == Spec => []IInv
  <1>1. Init => IInv
    <2>1. Init => Metered
      BY DEF Init, Metered
    <2> QED
      BY <2>1, SoundInit DEF IInv
  <1>2. IInv /\ [Next]_vars => IInv'
    BY SoundStep, MeteredStep DEF IInv
  <1> QED
    BY <1>1, <1>2, PTL DEF Spec

\* Every variable of the limiter keeps its type.
THEOREM TypeCorrect == Spec => []TypeOK
  BY Inductive, PTL DEF IInv, Sound

\* However many handlers race, a client draws on one bucket and on no other's.
THEOREM OneBucketCorrect == Spec => []OneBucketPerKey
  BY Inductive, PTL DEF IInv, Sound

\* In any window of time no client gets more through than a burst and the
\* refill of the window.
THEOREM ClientBoundCorrect == Spec => []ClientBound
  <1>1. IInv => ClientBound
    <2> SUFFICES ASSUME IInv, window.open, NEW k \in Key
        PROVE window.granted[k] * Unit <= KeyCapacity + KeyRate * (now - window.start)
      BY DEF ClientBound
    <2>1. window.granted[k] \in Nat /\ Level(k) \in Nat
      BY LevelType, LimitsAssumption DEF IInv, Sound, TypeOK
    <2>2. now \in Nat /\ window.start \in Nat /\ window.start <= now
      BY DEF IInv, Sound, TypeOK
    <2>3. window.granted[k] * Unit \in Nat /\ KeyRate * Elapsed \in Nat
      BY <2>1, <2>2, UnitMore, TickMore, LimitsAssumption DEF Elapsed
    <2>4. window.granted[k] * Unit + Level(k) <= KeyCapacity + KeyRate * Elapsed
      BY DEF IInv, Metered
    <2>5. window.granted[k] * Unit <= KeyCapacity + KeyRate * Elapsed
      BY <2>1, <2>3, <2>4, LimitsAssumption
    <2> QED
      BY <2>5 DEF Elapsed
  <1> QED
    BY <1>1, Inductive, PTL

\* Nor do all clients together get more than the ceiling's through.
THEOREM GlobalBoundCorrect == Spec => []GlobalBound
  <1>1. IInv => GlobalBound
    <2> SUFFICES ASSUME IInv, window.open
        PROVE window.global * Unit <= GlobalCapacity + GlobalRate * (now - window.start)
      BY DEF GlobalBound
    <2>1. window.global \in Nat /\ Ceiling \in Nat
      BY LevelType, LimitsAssumption DEF IInv, Sound, TypeOK
    <2>2. now \in Nat /\ window.start \in Nat /\ window.start <= now
      BY DEF IInv, Sound, TypeOK
    <2>3. window.global * Unit \in Nat /\ GlobalRate * Elapsed \in Nat
      BY <2>1, <2>2, UnitMore, TickMore, LimitsAssumption DEF Elapsed
    <2>4. window.global * Unit + Ceiling <= GlobalCapacity + GlobalRate * Elapsed
      BY DEF IInv, Metered
    <2> HIDE DEF Ceiling
    <2>5. window.global * Unit <= GlobalCapacity + GlobalRate * Elapsed
      BY <2>1, <2>3, <2>4, LimitsAssumption
    <2> QED
      BY <2>5 DEF Elapsed
  <1> QED
    BY <1>1, Inductive, PTL

-----------------------------------------------------------------------------
(* The limiter implements the meters.                                      *)

LEMMA MetersInit == Init => Meters!MeteringInit
  <1> SUFFICES ASSUME Init PROVE Meters!MeteringInit
    OBVIOUS
  <1>1. GlobalBucket!Refilled(global, now) = GlobalCapacity
    BY NewBucket DEF Init
  <1>2. [k \in Key |-> Level(k)] = [k \in Key |-> KeyCapacity]
    BY DEF Init, Level
  <1>3. last = [who |-> {}, ok |-> TRUE]
    BY DEF Init, Nobody, Answer
  <1> QED
    BY <1>1, <1>2, <1>3 DEF Meters!MeteringInit

LEMMA MetersStep == IInv /\ [Next]_vars => [Meters!MeteringNext]_(Meters!meterVars)
  <1> SUFFICES ASSUME IInv, [Next]_vars PROVE [Meters!MeteringNext]_(Meters!meterVars)
    OBVIOUS
  <1> DEFINE levels == [k \in Key |-> Level(k)]
  <1>0. Sound
    BY DEF IInv
  <1>a. ASSUME Ceiling' = Ceiling, \A k \in Key : Level(k)' = Level(k), UNCHANGED last
        PROVE  UNCHANGED Meters!meterVars
    <2>1. levels' = levels
      BY <1>a
    <2> QED
      BY <1>a, <2>1 DEF Meters!meterVars, Ceiling
  <1>1. CASE Tick
    <2>1. /\ Ceiling' = Meters!Filled(Ceiling, GlobalRate, GlobalCapacity)
          /\ \A k \in Key : Level(k)' = Meters!Filled(Level(k), KeyRate, KeyCapacity)
      BY <1>0, <1>1, TickFills DEF Meters!Filled
    <2>2. levels' = [k \in Key |-> Meters!Filled(levels[k], KeyRate, KeyCapacity)]
      BY <2>1
    <2>3. UNCHANGED last
      BY <1>1 DEF Tick
    <2>4. Meters!Fill
      BY <2>1, <2>2, <2>3 DEF Meters!Fill, Ceiling
    <2> QED
      BY <2>4 DEF Meters!MeteringNext
  <1>2. CASE OpenWindow
    <2>1. UNCHANGED <<now, global, buckets, heap, last>>
      BY <1>2 DEF OpenWindow
    <2> QED
      BY <1>a, <2>1 DEF Ceiling, Level
  <1>3. ASSUME NEW h \in Handler, NEW k \in Key, AllowGlobal(h, k)
        PROVE Meters!MeteringNext
    <2>1. /\ Ceiling' = IF Ceiling >= Unit THEN Ceiling - Unit ELSE Ceiling
          /\ GlobalBucket!Allows(global, now, 1) <=> Ceiling >= Unit
          /\ \A k2 \in Key : Level(k2)' = Level(k2)
      BY <1>0, <1>3, AllowGlobalDraws
    <2>2. levels' = levels
      BY <2>1
    <2>3. last' = [who |-> {}, ok |-> GlobalBucket!Allows(global, now, 1)]
      BY <1>3 DEF AllowGlobal, Answer
    <2>4. (GlobalBucket!Allows(global, now, 1)) = (Ceiling >= Unit)
      BY <2>1 DEF GlobalBucket!Allows
    <2>5. Meters!DrawCeiling
      BY <2>1, <2>2, <2>3, <2>4 DEF Meters!DrawCeiling, Ceiling
    <2> QED
      BY <2>5 DEF Meters!MeteringNext
  <1>4. ASSUME NEW h \in Handler, Lookup(h) PROVE UNCHANGED Meters!meterVars
    BY <1>0, <1>4, <1>a, LookupKeeps DEF Lookup
  <1>5. ASSUME NEW h \in Handler, AllowKey(h) PROVE Meters!MeteringNext
    <2>1. /\ key[h] \in Key /\ Ceiling' = Ceiling
          /\ KeyBucket!Allows(heap[ref[h]], now, 1) <=> Level(key[h]) >= Unit
          /\ Level(key[h])' = IF Level(key[h]) >= Unit THEN Level(key[h]) - Unit ELSE Level(key[h])
          /\ \A k \in Key \ {key[h]} : Level(k)' = Level(k)
      BY <1>0, <1>5, AllowKeyDraws
    <2>2. key' = key /\ last' = [who |-> {key[h]}, ok |-> KeyBucket!Allows(heap[ref[h]], now, 1)]
      BY <1>5 DEF AllowKey, Answer
    <2>3. (KeyBucket!Allows(heap[ref[h]], now, 1)) = (Level(key[h]) >= Unit)
      BY <2>1 DEF KeyBucket!Allows
    <2>4. levels' = [levels EXCEPT ![key[h]] = IF @ >= Unit THEN @ - Unit ELSE @]
      <3>1. ASSUME NEW k \in Key
            PROVE Level(k)' = IF k = key[h]
                                THEN (IF levels[k] >= Unit THEN levels[k] - Unit ELSE levels[k])
                                ELSE levels[k]
        <4>1. CASE k = key[h]
          <5>1. Level(k)' = Level(key[h])'
            BY <2>2, <4>1
          <5> QED
            BY <2>1, <4>1, <5>1
        <4>2. CASE k # key[h]
          BY <2>1, <4>2
        <4> QED
          BY <4>1, <4>2
      <3> QED
        BY <3>1
    <2>5. Meters!Draw(key[h])
      <3>1. levels[key[h]] = Level(key[h])
        BY <2>1
      <3> QED
        BY <2>1, <2>2, <2>3, <2>4, <3>1 DEF Meters!Draw, Ceiling
    <2> QED
      BY <2>1, <2>5 DEF Meters!MeteringNext
  <1>6. CASE UNCHANGED vars
    BY <1>6, <1>a DEF vars, Ceiling, Level
  <1> QED
    BY <1>1, <1>2, <1>3, <1>4, <1>5, <1>6 DEF Next

\* The limiter, with its locks, pointers and lazy refill, refines the meters.
THEOREM MeteringImplemented == Spec => ImplementsMetering
  <1>1. Spec => Meters!MeteringInit /\ [][Meters!MeteringNext]_(Meters!meterVars)
    BY MetersInit, MetersStep, Inductive, PTL DEF Spec
  <1> QED
    BY <1>1 DEF ImplementsMetering, Meters!MeteringSpec
=============================================================================
