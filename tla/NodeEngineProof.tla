--------------------------- MODULE NodeEngineProof ---------------------------
(***************************************************************************)
(* What is proved of the gateway for every set of configurations that      *)
(* updateConfig can choose from, every size of request and any number of   *)
(* overlapping shutdowns.                                                  *)
(***************************************************************************)
EXTENDS NodeEngine, SequenceTheorems, TLAPS

-----------------------------------------------------------------------------
(* The operators the actions are built from.                               *)

LEMMA LeastIs ==
    ASSUME NEW a \in Int, NEW b \in Int
    PROVE  Least(a, b) \in {a, b} /\ Least(a, b) <= a /\ Least(a, b) <= b
BY DEF Least

LEMMA CeilDivIs ==
    ASSUME NEW a \in Nat, NEW b \in Nat \ {0}
    PROVE  CeilDiv(a, b) \in Nat
<1>1. a + b - 1 \in Nat
  OBVIOUS
<1>2. \A x \in Nat : x \div b \in Nat
  OBVIOUS
<1>. QED  BY <1>1, <1>2 DEF CeilDiv

LEMMA FirstOfIs ==
    ASSUME NEW s \in Seq(Nat), NEW n \in Nat
    PROVE  FirstOf(s, n) \in Seq(Nat) /\ Len(FirstOf(s, n)) <= n
<1>1. /\ Len(s) \in Nat /\ Least(n, Len(s)) \in Nat
      /\ Least(n, Len(s)) <= Len(s) /\ Least(n, Len(s)) <= n
  BY LeastIs, LenProperties
<1>2. \A i \in 1..Least(n, Len(s)) : s[i] \in Nat
  BY <1>1, ElementOfSeq
<1>. QED  BY <1>1, <1>2, SubSeqProperties DEF FirstOf

\* Concatenation of sequences of events.
LEMMA Associative ==
    ASSUME NEW s \in Seq(Nat), NEW t \in Seq(Nat), NEW u \in Seq(Nat)
    PROVE  (s \o t) \o u = s \o (t \o u)
BY ConcatAssociative

LEMMA ReverseIs ==
    ASSUME NEW s \in Seq(Nat)
    PROVE  Reverse(s) \in Seq(Nat)
<1>1. Len(s) \in Nat /\ \A i \in 1..Len(s) : s[i] \in Nat
  BY LenProperties, ElementOfSeq
<1>2. \A i \in 1..Len(s) : Len(s) - i + 1 \in 1..Len(s)
  BY <1>1
<1>3. Reverse(s) \in [1..Len(s) -> Nat]
  BY <1>1, <1>2 DEF Reverse
<1>. QED  BY <1>1, <1>3, SeqDef

\* A queue is what is taken from its front and what is left.
LEMMA Split ==
    ASSUME NEW s \in Seq(Nat), NEW n \in 0..Len(s)
    PROVE  /\ SubSeq(s, 1, n) \in Seq(Nat) /\ Len(SubSeq(s, 1, n)) = n
           /\ SubSeq(s, n + 1, Len(s)) \in Seq(Nat)
           /\ Len(SubSeq(s, n + 1, Len(s))) = Len(s) - n
           /\ SubSeq(s, 1, n) \o SubSeq(s, n + 1, Len(s)) = s
<1>1. Len(s) \in Nat /\ \A i \in 1..Len(s) : s[i] \in Nat
  BY LenProperties, ElementOfSeq
<1>2. SubSeq(s, 1, n) \in Seq(Nat) /\ Len(SubSeq(s, 1, n)) = n
  BY <1>1, SubSeqProperties
<1>3. SubSeq(s, n + 1, Len(s)) \in Seq(Nat) /\ Len(SubSeq(s, n + 1, Len(s))) = Len(s) - n
  BY <1>1, SubSeqProperties
<1>4. SubSeq(s, 1, n) \o SubSeq(s, n + 1, Len(s)) = s
  <2>1. 1 \in 1..Len(s) + 1 /\ n \in 1 - 1..Len(s) /\ Len(s) \in n..Len(s)
    BY <1>1
  <2>. QED  BY <2>1, ConcatAdjacentSubSeq, SubSeqFull
<1>. QED  BY <1>2, <1>3, <1>4

LEMMA NumberedIs ==
    ASSUME NEW m \in Nat, NEW n \in Nat
    PROVE  /\ Numbered(m, n) \in Seq(Nat) /\ Len(Numbered(m, n)) = n
           /\ \A i \in 1..n : Numbered(m, n)[i] = m + i
<1>1. Numbered(m, n) \in [1..n -> Nat]
  BY DEF Numbered
<1>2. Numbered(m, n) \in Seq(Nat)
  BY <1>1, SeqDef
<1>3. Len(Numbered(m, n)) = n
  BY <1>1, <1>2, LenProperties
<1>. QED  BY <1>2, <1>3 DEF Numbered

\* Events accepted later continue the numbering.
LEMMA NumberedGoesOn ==
    ASSUME NEW m \in Nat, NEW n \in Nat
    PROVE  Numbered(0, m) \o Numbered(m, n) = Numbered(0, m + n)
<1> DEFINE s == Numbered(0, m)
           t == Numbered(m, n)
           u == Numbered(0, m + n)
<1>0. 0 \in Nat /\ m + n \in Nat
  OBVIOUS
<1>1. s \in Seq(Nat) /\ Len(s) = m /\ \A i \in 1..m : s[i] = 0 + i
  BY <1>0, NumberedIs
<1>2. t \in Seq(Nat) /\ Len(t) = n /\ \A i \in 1..n : t[i] = m + i
  BY NumberedIs
<1>3. u \in Seq(Nat) /\ Len(u) = m + n /\ \A i \in 1..m + n : u[i] = 0 + i
  BY <1>0, NumberedIs
<1> HIDE DEF s, t, u
<1>4. s \o t \in Seq(Nat) /\ Len(s \o t) = m + n
  BY <1>1, <1>2, ConcatProperties
<1>5. ASSUME NEW i \in 1..m + n PROVE (s \o t)[i] = u[i]
  <2>1. (s \o t)[i] = IF i <= m THEN s[i] ELSE t[i - m]
    BY <1>1, <1>2, ConcatProperties
  <2>2. CASE i <= m
    BY <1>1, <1>3, <2>1, <2>2
  <2>3. CASE ~(i <= m)
    <3>1. i - m \in 1..n
      BY <2>3
    <3>2. t[i - m] = m + (i - m)
      BY <1>2, <3>1
    <3>3. u[i] = 0 + i
      BY <1>3
    <3>. QED  BY <2>1, <2>3, <3>2, <3>3
  <2>. QED  BY <2>2, <2>3
<1>6. s \o t = u
  BY <1>3, <1>4, <1>5, SeqEqual
<1>. QED  BY <1>6 DEF s, t, u

-----------------------------------------------------------------------------
(* The invariant, and what the parts of the actions keep of it.            *)

IInv == TypeOK /\ NothingLostOrReordered /\ MetricsAddUp

LEMMA AcceptIs ==
    ASSUME IInv, NEW n \in Nat, Accept(n)
    PROVE  /\ queue' \in Seq(Nat) /\ Len(queue') = Len(queue) + n
           /\ totalAccepted' = totalAccepted + n
           /\ flushed \o batchBuffer \o queue' = Numbered(0, totalAccepted')
<1> DEFINE done == flushed \o batchBuffer
           new == Numbered(totalAccepted, n)
<1>1. /\ queue \in Seq(Nat) /\ flushed \in Seq(Nat) /\ batchBuffer \in Seq(Nat)
      /\ totalAccepted \in Nat
  BY DEF IInv, TypeOK
<1>2. new \in Seq(Nat) /\ Len(new) = n
  BY <1>1, NumberedIs
<1>3. done \in Seq(Nat)
  BY <1>1, ConcatProperties
<1>4. queue' = queue \o new /\ totalAccepted' = totalAccepted + n
  BY DEF Accept
<1>5. done \o queue = Numbered(0, totalAccepted)
  BY DEF IInv, NothingLostOrReordered
<1>6. Numbered(0, totalAccepted) \o new = Numbered(0, totalAccepted + n)
  BY <1>1, NumberedGoesOn
<1> HIDE DEF done, new
<1>7. queue' \in Seq(Nat) /\ Len(queue') = Len(queue) + n
  BY <1>1, <1>2, <1>4, ConcatProperties
<1>8. done \o (queue \o new) = (done \o queue) \o new
  BY <1>1, <1>2, <1>3, Associative
<1>9. done \o queue' = Numbered(0, totalAccepted')
  BY <1>4, <1>5, <1>6, <1>8
<1>. QED  BY <1>4, <1>7, <1>9 DEF done

LEMMA FlushIs ==
    ASSUME IInv, NEW buffer \in Seq(Nat), Flush(buffer)
    PROVE  /\ batchBuffer' = <<>> /\ batchBuffer' \in Seq(Nat) /\ Len(batchBuffer') = 0
           /\ flushed' = flushed \o buffer /\ flushed' \in Seq(Nat)
           /\ totalEventsFlushed' = totalEventsFlushed + Len(buffer)
           /\ totalEventsFlushed' \in Nat
           /\ totalBatchesFlushed' = totalBatchesFlushed + 1
           /\ totalBatchErrors' \in {totalBatchErrors, totalBatchErrors + 1}
           /\ persistedTimeSeries' \in Seq(Nat) /\ Len(persistedTimeSeries') <= Keep
<1>1. /\ flushed \in Seq(Nat) /\ persistedTimeSeries \in Seq(Nat) /\ totalEventsFlushed \in Nat
      /\ Len(buffer) \in Nat /\ Sample \in Nat /\ Keep \in Nat
  BY ConfigAssumption, LenProperties DEF IInv, TypeOK
<1>2. flushed \o buffer \in Seq(Nat)
  BY <1>1, ConcatProperties
<1>3. Reverse(FirstOf(buffer, Sample)) \in Seq(Nat)
  BY <1>1, FirstOfIs, ReverseIs
<1>4. Reverse(FirstOf(buffer, Sample)) \o persistedTimeSeries \in Seq(Nat)
  BY <1>1, <1>3, ConcatProperties
<1>5. <<>> \in Seq(Nat) /\ Len(<<>>) = 0
  BY EmptySeq
<1>6. batchBuffer' = <<>> /\ flushed' = flushed \o buffer
      /\ totalEventsFlushed' = totalEventsFlushed + Len(buffer)
      /\ totalBatchesFlushed' = totalBatchesFlushed + 1
      /\ totalBatchErrors' \in {totalBatchErrors, totalBatchErrors + 1}
  BY DEF Flush
<1>7. persistedTimeSeries' \in Seq(Nat) /\ Len(persistedTimeSeries') <= Keep
  BY <1>1, <1>4, FirstOfIs DEF Flush
<1>8. totalEventsFlushed + Len(buffer) \in Nat
  BY <1>1
<1>. QED  BY <1>2, <1>5, <1>6, <1>7, <1>8

\* A buffer that is flushed goes behind what was flushed before.
LEMMA FlushKeepsOrder ==
    ASSUME IInv, NEW buffer \in Seq(Nat), NEW rest \in Seq(Nat), Flush(buffer),
           flushed \o (buffer \o rest) = Numbered(0, totalAccepted)
    PROVE  flushed' \o batchBuffer' \o rest = Numbered(0, totalAccepted)
<1>1. flushed \in Seq(Nat) /\ flushed \o buffer \in Seq(Nat)
  BY ConcatProperties DEF IInv, TypeOK
<1>2. (flushed \o buffer) \o <<>> = flushed \o buffer
  BY <1>1, ConcatEmptySeq
<1>3. (flushed \o buffer) \o rest = flushed \o (buffer \o rest)
  BY <1>1, Associative
<1>. QED  BY <1>2, <1>3, FlushIs

-----------------------------------------------------------------------------
(* Every action preserves the invariant.                                   *)

LEMMA InitOK == Init => IInv
<1> SUFFICES ASSUME Init PROVE IInv
  OBVIOUS
<1>1. <<>> \in Seq(Nat) /\ Len(<<>>) = 0
  BY EmptySeq
<1>2. TypeOK
  <2>1. /\ \A S \in {WorkerCounts, Capacities, Thresholds, Bursts} : S \subseteq Nat \ {0}
        /\ Keep \in Nat
    BY ConfigAssumption
  <2>2. /\ workerCount \in WorkerCounts /\ workerCount \in Nat \ {0}
        /\ channelCapacity \in Capacities /\ channelCapacity \in Nat \ {0}
        /\ batchThreshold \in Thresholds /\ batchThreshold \in Nat \ {0}
        /\ rateLimitBurst \in Bursts /\ rateLimitBurst \in Nat \ {0}
    BY <2>1 DEF Init
  <2>3. /\ \E c \in Capacities : Len(queue) <= c
        /\ \E c \in Thresholds : Len(batchBuffer) < c
        /\ \E c \in WorkerCounts : activeWorkers <= c
    BY <1>1, <2>2 DEF Init
  <2>4. availableTokens \in 0..rateLimitBurst
    BY <2>2 DEF Init
  <2>5. /\ activeWorkers \in Nat /\ resetTimers \in Nat
        /\ releasePending \in BOOLEAN /\ isShuttingDown \in BOOLEAN /\ loadTestActive \in BOOLEAN
        /\ totalAccepted \in Nat /\ totalDropped \in Nat /\ totalProcessed \in Nat
        /\ rateLimitedRequests \in Nat /\ drained \in Nat /\ offered \in Nat
        /\ totalBatchesFlushed \in Nat /\ totalEventsFlushed \in Nat /\ totalBatchErrors \in Nat
        /\ turnedAway \in [limited : Nat, batches : Nat, invalid : Nat, broken : Nat]
    BY DEF Init
  <2>6. /\ {queue, batchBuffer, persistedTimeSeries, flushed} \subseteq Seq(Nat)
        /\ Len(persistedTimeSeries) <= Keep
    BY <1>1, <2>1 DEF Init
  <2>. QED  BY <2>2, <2>3, <2>4, <2>5, <2>6 DEF TypeOK
<1>3. NothingLostOrReordered
  <2>1. Numbered(0, 0) = <<>>
    BY NumberedIs, EmptySeq
  <2>2. <<>> \o <<>> = <<>>
    BY <1>1, ConcatEmptySeq
  <2>. QED  BY <2>1, <2>2 DEF Init, NothingLostOrReordered
<1>4. MetricsAddUp
  BY <1>1 DEF Init, MetricsAddUp
<1>. QED  BY <1>2, <1>3, <1>4 DEF IInv

\* The stages an event goes through do not change.
LEMMA SameStages ==
    ASSUME IInv, UNCHANGED <<queue, batchBuffer, flushed, totalAccepted>>
    PROVE  NothingLostOrReordered'
BY DEF IInv, NothingLostOrReordered

LEMMA GetMetricsOK == IInv /\ GetMetrics => IInv'
<1> SUFFICES ASSUME IInv, GetMetrics PROVE IInv'
  OBVIOUS
<1> USE DEF GetMetrics, config, answers, flushes, workers, shutdown
<1>1. rateLimitBurst \in Nat /\ availableTokens' \in 0..rateLimitBurst
  BY ConfigAssumption DEF IInv, TypeOK, RefillLevels
<1>2. TypeOK'
  BY <1>1 DEF IInv, TypeOK
<1>3. NothingLostOrReordered'
  BY SameStages
<1>4. MetricsAddUp'
  BY DEF IInv, MetricsAddUp
<1>. QED  BY <1>2, <1>3, <1>4 DEF IInv

LEMMA SwitchesOK == IInv /\ (StartLoadTest \/ StopLoadTest) => IInv'
<1> SUFFICES ASSUME IInv, StartLoadTest \/ StopLoadTest PROVE IInv'
  OBVIOUS
<1> USE DEF StartLoadTest, StopLoadTest, config, answers, flushes, workers, shutdown
<1>1. TypeOK'
  BY DEF IInv, TypeOK
<1>2. NothingLostOrReordered'
  BY SameStages
<1>3. MetricsAddUp'
  BY DEF IInv, MetricsAddUp
<1>. QED  BY <1>1, <1>2, <1>3 DEF IInv

LEMMA ResetOK == IInv /\ Reset => IInv'
<1> SUFFICES ASSUME IInv, Reset PROVE IInv'
  OBVIOUS
<1> USE DEF Reset, config, answers, flushes, workers
<1>1. TypeOK'
  <2>1. resetTimers' \in Nat
    BY DEF IInv, TypeOK
  <2>. QED  BY <2>1 DEF IInv, TypeOK
<1>2. NothingLostOrReordered'
  BY SameStages
<1>3. MetricsAddUp'
  BY DEF IInv, MetricsAddUp
<1>. QED  BY <1>1, <1>2, <1>3 DEF IInv

LEMMA ShutdownThrowsOK == IInv /\ ShutdownThrows => IInv'
<1> SUFFICES ASSUME IInv, ShutdownThrows PROVE IInv'
  OBVIOUS
<1> USE DEF ShutdownThrows, config, answers, flushes, workers
<1>1. TypeOK'
  BY DEF IInv, TypeOK
<1>2. NothingLostOrReordered'
  BY SameStages
<1>3. MetricsAddUp'
  BY DEF IInv, MetricsAddUp
<1>. QED  BY <1>1, <1>2, <1>3 DEF IInv

LEMMA UpdateConfigOK == IInv /\ UpdateConfig => IInv'
<1> SUFFICES ASSUME IInv, UpdateConfig PROVE IInv'
  OBVIOUS
<1> USE DEF UpdateConfig, answers, flushes, workers, shutdown
<1>1. rateLimitBurst' \in Nat /\ availableTokens \in Nat
  BY ConfigAssumption DEF IInv, TypeOK
<1>2. availableTokens' \in 0..rateLimitBurst'
  BY <1>1 DEF Least
<1>3. TypeOK'
  BY <1>2 DEF IInv, TypeOK
<1>4. NothingLostOrReordered'
  BY SameStages
<1>5. MetricsAddUp'
  BY DEF IInv, MetricsAddUp
<1>. QED  BY <1>3, <1>4, <1>5 DEF IInv

LEMMA ReleaseOK == IInv /\ Release => IInv'
<1> SUFFICES ASSUME IInv, Release PROVE IInv'
  OBVIOUS
<1> USE DEF Release, config, answers, flushes, shutdown
<1>1. activeWorkers' \in Nat /\ activeWorkers' <= workerCount
  <2>1. workerCount \in Nat /\ CeilDiv(Len(queue), Share) \in Nat
    BY ConfigAssumption, CeilDivIs, LenProperties DEF IInv, TypeOK
  <2>. QED  BY <2>1 DEF Least
<1>2. TypeOK'
  BY <1>1 DEF IInv, TypeOK
<1>3. NothingLostOrReordered'
  BY SameStages
<1>4. MetricsAddUp'
  BY DEF IInv, MetricsAddUp
<1>. QED  BY <1>2, <1>3, <1>4 DEF IInv

Refusals == [limited : Nat, batches : Nat, invalid : Nat, broken : Nat]

TurnedAway(invalid, limited, batches, broken) ==
    /\ turnedAway' \in Refusals
    /\ turnedAway'.limited = turnedAway.limited + limited
    /\ turnedAway'.batches = turnedAway.batches + batches
    /\ turnedAway'.invalid = turnedAway.invalid + invalid
    /\ turnedAway'.broken = turnedAway.broken + broken

LEMMA TurnedAwayIs ==
    ASSUME turnedAway \in Refusals
    PROVE  /\ UNCHANGED turnedAway => TurnedAway(0, 0, 0, 0)
           /\ turnedAway' = [turnedAway EXCEPT !.limited = @ + 1] => TurnedAway(0, 1, 0, 0)
           /\ turnedAway' = [turnedAway EXCEPT !.invalid = @ + 1] => TurnedAway(1, 0, 0, 0)
           /\ \A n \in Nat :
                turnedAway' = [turnedAway EXCEPT !.limited = @ + n, !.batches = @ + 1]
                  => TurnedAway(0, n, 1, 0)
           /\ \A n \in Nat :
                turnedAway' = [turnedAway EXCEPT !.broken = @ + n] => TurnedAway(0, 0, 0, n)
<1>1. /\ turnedAway.limited \in Nat /\ turnedAway.batches \in Nat
      /\ turnedAway.invalid \in Nat /\ turnedAway.broken \in Nat
  BY DEF Refusals
<1>2. UNCHANGED turnedAway => TurnedAway(0, 0, 0, 0)
  BY <1>1 DEF TurnedAway, Refusals
<1>3. ASSUME turnedAway' = [turnedAway EXCEPT !.limited = @ + 1]
      PROVE  TurnedAway(0, 1, 0, 0)
  <2>1. turnedAway' = [limited |-> turnedAway.limited + 1, batches |-> turnedAway.batches,
                       invalid |-> turnedAway.invalid, broken |-> turnedAway.broken]
    BY <1>3 DEF Refusals
  <2>. QED  BY <1>1, <2>1 DEF TurnedAway, Refusals
<1>4. ASSUME turnedAway' = [turnedAway EXCEPT !.invalid = @ + 1]
      PROVE  TurnedAway(1, 0, 0, 0)
  <2>1. turnedAway' = [limited |-> turnedAway.limited, batches |-> turnedAway.batches,
                       invalid |-> turnedAway.invalid + 1, broken |-> turnedAway.broken]
    BY <1>4 DEF Refusals
  <2>. QED  BY <1>1, <2>1 DEF TurnedAway, Refusals
<1>5. ASSUME NEW n \in Nat,
             turnedAway' = [turnedAway EXCEPT !.limited = @ + n, !.batches = @ + 1]
      PROVE  TurnedAway(0, n, 1, 0)
  <2>1. turnedAway' = [limited |-> turnedAway.limited + n, batches |-> turnedAway.batches + 1,
                       invalid |-> turnedAway.invalid, broken |-> turnedAway.broken]
    BY <1>5 DEF Refusals
  <2>. QED  BY <1>1, <2>1 DEF TurnedAway, Refusals
<1>6. ASSUME NEW n \in Nat, turnedAway' = [turnedAway EXCEPT !.broken = @ + n]
      PROVE  TurnedAway(0, 0, 0, n)
  <2>1. turnedAway' = [limited |-> turnedAway.limited, batches |-> turnedAway.batches,
                       invalid |-> turnedAway.invalid, broken |-> turnedAway.broken + n]
    BY <1>6 DEF Refusals
  <2>. QED  BY <1>1, <2>1 DEF TurnedAway, Refusals
<1>. QED  BY <1>2, <1>3, <1>4, <1>5, <1>6

\* A request with some events accepted, dropped, invalid and rate limited, in
\* that order, perhaps counted once more, as a batch, and some never read.
Answered(accepted, dropped, invalid, limited, batches, broken) ==
    /\ offered' = offered + accepted + dropped + invalid + limited + broken
    /\ totalAccepted' = totalAccepted + accepted
    /\ totalDropped' = totalDropped + dropped
    /\ rateLimitedRequests' = rateLimitedRequests + limited + batches
    /\ TurnedAway(invalid, limited, batches, broken)
    /\ queue' \in Seq(Nat) /\ Len(queue') = Len(queue) + accepted
    /\ accepted = 0 \/ Len(queue') <= channelCapacity
    /\ flushed \o batchBuffer \o queue' = Numbered(0, totalAccepted')
    /\ availableTokens' \in 0..rateLimitBurst
    /\ UNCHANGED <<config, flushes, workers, shutdown, batchBuffer, loadTestActive>>

LEMMA AnsweredOK ==
    ASSUME IInv,
           NEW accepted \in Nat, NEW dropped \in Nat, NEW invalid \in Nat,
           NEW limited \in Nat, NEW batches \in Nat, NEW broken \in Nat,
           Answered(accepted, dropped, invalid, limited, batches, broken)
    PROVE  IInv'
<1>1. /\ workerCount' = workerCount /\ channelCapacity' = channelCapacity
      /\ batchThreshold' = batchThreshold /\ rateLimitBurst' = rateLimitBurst
      /\ persistedTimeSeries' = persistedTimeSeries /\ flushed' = flushed
      /\ totalBatchesFlushed' = totalBatchesFlushed /\ totalBatchErrors' = totalBatchErrors
      /\ totalEventsFlushed' = totalEventsFlushed
      /\ batchBuffer' = batchBuffer /\ loadTestActive' = loadTestActive
      /\ activeWorkers' = activeWorkers /\ releasePending' = releasePending
      /\ totalProcessed' = totalProcessed /\ isShuttingDown' = isShuttingDown
      /\ resetTimers' = resetTimers /\ drained' = drained
  BY DEF Answered, config, flushes, workers, shutdown
<1>2. /\ offered' = offered + accepted + dropped + invalid + limited + broken
      /\ totalAccepted' = totalAccepted + accepted
      /\ totalDropped' = totalDropped + dropped
      /\ rateLimitedRequests' = rateLimitedRequests + limited + batches
      /\ queue' \in Seq(Nat) /\ Len(queue') = Len(queue) + accepted
      /\ accepted = 0 \/ Len(queue') <= channelCapacity
      /\ flushed \o batchBuffer \o queue' = Numbered(0, totalAccepted')
      /\ availableTokens' \in 0..rateLimitBurst
  BY DEF Answered
<1>3. /\ turnedAway'.limited = turnedAway.limited + limited
      /\ turnedAway'.batches = turnedAway.batches + batches
      /\ turnedAway'.invalid = turnedAway.invalid + invalid
      /\ turnedAway'.broken = turnedAway.broken + broken
  BY DEF Answered, TurnedAway
<1>4. /\ turnedAway.limited \in Nat /\ turnedAway.batches \in Nat /\ turnedAway.invalid \in Nat
      /\ turnedAway.broken \in Nat
      /\ offered \in Nat /\ totalAccepted \in Nat /\ totalDropped \in Nat
      /\ rateLimitedRequests \in Nat /\ Len(queue) \in Nat
      /\ totalProcessed \in Nat /\ drained \in Nat
  BY LenProperties DEF IInv, TypeOK
<1>5. TypeOK'
  <2>1. \E c \in Capacities : Len(queue') <= c
    <3>1. PICK c \in Capacities : Len(queue) <= c
      BY DEF IInv, TypeOK
    <3>2. channelCapacity \in Capacities
      BY DEF IInv, TypeOK
    <3>. QED  BY <1>2, <1>4, <3>1, <3>2
  <2>2. /\ offered' \in Nat /\ totalAccepted' \in Nat /\ totalDropped' \in Nat
        /\ rateLimitedRequests' \in Nat
    BY <1>2, <1>4
  <2>3. availableTokens' \in 0..rateLimitBurst' /\ queue' \in Seq(Nat)
    BY <1>1, <1>2
  <2>4. turnedAway' \in [limited : Nat, batches : Nat, invalid : Nat, broken : Nat]
    BY DEF Answered, TurnedAway, Refusals
  <2>. QED  BY <1>1, <2>1, <2>2, <2>3, <2>4 DEF IInv, TypeOK
<1>6. NothingLostOrReordered'
  BY <1>1, <1>2 DEF NothingLostOrReordered
<1>7. MetricsAddUp'
  <2>1. /\ offered = totalAccepted + totalDropped + turnedAway.invalid + turnedAway.limited
                     + turnedAway.broken
        /\ rateLimitedRequests = turnedAway.limited + turnedAway.batches
        /\ totalAccepted = Len(queue) + totalProcessed + drained
        /\ totalProcessed + drained = Len(batchBuffer) + totalEventsFlushed
        /\ totalBatchErrors <= totalBatchesFlushed /\ totalBatchesFlushed <= totalEventsFlushed
    BY DEF IInv, MetricsAddUp
  <2>2. /\ offered' = totalAccepted' + totalDropped' + turnedAway'.invalid + turnedAway'.limited
                      + turnedAway'.broken
        /\ rateLimitedRequests' = turnedAway'.limited + turnedAway'.batches
    <3> DEFINE l == turnedAway.limited
               b == turnedAway.batches
               i == turnedAway.invalid
               k == turnedAway.broken
    <3>1. /\ l \in Nat /\ b \in Nat /\ i \in Nat /\ k \in Nat
          /\ turnedAway'.limited = l + limited /\ turnedAway'.batches = b + batches
          /\ turnedAway'.invalid = i + invalid /\ turnedAway'.broken = k + broken
          /\ offered = totalAccepted + totalDropped + i + l + k /\ rateLimitedRequests = l + b
      BY <1>3, <1>4, <2>1
    <3> HIDE DEF l, b, i, k
    <3>. QED  BY <1>2, <1>4, <3>1
  <2>4. totalAccepted' = Len(queue') + totalProcessed' + drained'
    BY <1>1, <1>2, <1>4, <2>1
  <2>3. /\ totalProcessed' + drained' = Len(batchBuffer') + totalEventsFlushed'
        /\ totalBatchErrors' <= totalBatchesFlushed' /\ totalBatchesFlushed' <= totalEventsFlushed'
    BY <1>1, <2>1
  <2>. QED  BY <2>2, <2>3, <2>4 DEF MetricsAddUp
<1>. QED  BY <1>5, <1>6, <1>7 DEF IInv

LEMMA IngestSingleOK == ASSUME IInv, NEW valid \in BOOLEAN, IngestSingle(valid) PROVE IInv'
<1>1. PICK tokens \in RefillLevels :
        IF tokens < 1
          THEN /\ availableTokens' = tokens
               /\ rateLimitedRequests' = rateLimitedRequests + 1
               /\ turnedAway' = [turnedAway EXCEPT !.limited = @ + 1]
               /\ UNCHANGED <<queue, totalAccepted, totalDropped>>
          ELSE /\ availableTokens' = tokens - 1
               /\ UNCHANGED rateLimitedRequests
               /\ \/ /\ turnedAway' = [turnedAway EXCEPT !.invalid = @ + 1]
                     /\ UNCHANGED <<queue, totalAccepted, totalDropped>>
                  \/ /\ totalDropped' = totalDropped + 1
                     /\ UNCHANGED <<queue, totalAccepted, turnedAway>>
                  \/ /\ Len(queue) < channelCapacity
                     /\ Accept(1)
                     /\ UNCHANGED <<totalDropped, turnedAway>>
  BY DEF IngestSingle
<1>2. /\ offered' = offered + 1
      /\ UNCHANGED <<config, flushes, workers, shutdown, batchBuffer, loadTestActive>>
  BY DEF IngestSingle
<1>3. /\ rateLimitBurst \in Nat /\ channelCapacity \in Nat
      /\ tokens \in Nat /\ tokens <= rateLimitBurst
      /\ Len(queue) \in Nat /\ queue \in Seq(Nat)
      /\ turnedAway \in Refusals
      /\ offered \in Nat /\ totalAccepted \in Nat /\ totalDropped \in Nat
      /\ rateLimitedRequests \in Nat
      /\ flushed \o batchBuffer \o queue = Numbered(0, totalAccepted)
  BY ConfigAssumption, LenProperties DEF IInv, TypeOK, RefillLevels, NothingLostOrReordered, Refusals
<1>4. availableTokens' \in 0..rateLimitBurst
  BY <1>1, <1>3
<1>5. CASE /\ rateLimitedRequests' = rateLimitedRequests + 1
           /\ turnedAway' = [turnedAway EXCEPT !.limited = @ + 1]
           /\ UNCHANGED <<queue, totalAccepted, totalDropped>>
  <2>0. TurnedAway(0, 1, 0, 0)
    BY <1>3, <1>5, TurnedAwayIs
  <2>1. rateLimitedRequests' = rateLimitedRequests + 1
        /\ UNCHANGED <<queue, totalAccepted, totalDropped>>
    BY <1>5
  <2>2. Answered(0, 0, 0, 1, 0, 0)
    BY <1>2, <1>3, <1>4, <2>0, <2>1 DEF Answered
  <2>. QED  BY <2>2, AnsweredOK
<1>6. CASE /\ turnedAway' = [turnedAway EXCEPT !.invalid = @ + 1]
           /\ UNCHANGED <<queue, totalAccepted, totalDropped, rateLimitedRequests>>
  <2>0. TurnedAway(1, 0, 0, 0)
    BY <1>3, <1>6, TurnedAwayIs
  <2>1. UNCHANGED <<queue, totalAccepted, totalDropped, rateLimitedRequests>>
    BY <1>6
  <2>2. Answered(0, 0, 1, 0, 0, 0)
    BY <1>2, <1>3, <1>4, <2>0, <2>1 DEF Answered
  <2>. QED  BY <2>2, AnsweredOK
<1>7. CASE /\ totalDropped' = totalDropped + 1
           /\ UNCHANGED <<queue, totalAccepted, turnedAway, rateLimitedRequests>>
  <2>0. TurnedAway(0, 0, 0, 0)
    BY <1>3, <1>7, TurnedAwayIs
  <2>1. Answered(0, 1, 0, 0, 0, 0)
    BY <1>2, <1>3, <1>4, <1>7, <2>0 DEF Answered
  <2>. QED  BY <2>1, AnsweredOK
<1>8. CASE /\ Len(queue) < channelCapacity /\ Accept(1)
           /\ UNCHANGED <<rateLimitedRequests, totalDropped, turnedAway>>
  <2>1. /\ queue' \in Seq(Nat) /\ Len(queue') = Len(queue) + 1
        /\ totalAccepted' = totalAccepted + 1
        /\ flushed \o batchBuffer \o queue' = Numbered(0, totalAccepted')
    BY <1>8, AcceptIs
  <2>2. TurnedAway(0, 0, 0, 0)
    BY <1>3, <1>8, TurnedAwayIs
  <2>3. Answered(1, 0, 0, 0, 0, 0)
    BY <1>2, <1>3, <1>4, <1>8, <2>1, <2>2 DEF Answered
  <2>. QED  BY <2>3, AnsweredOK
<1>. QED  BY <1>1, <1>5, <1>6, <1>7, <1>8

LEMMA IngestBatchOK ==
    ASSUME IInv, NEW n \in Nat, NEW read \in 0..n, IngestBatch(n, read) PROVE IInv'
<1> DEFINE cost == IF n = 0 THEN 1 ELSE CeilDiv(n, PerToken)
           fit  == IF Room <= 0 THEN 0 ELSE Least(read, Room)
<1>1. PICK tokens \in RefillLevels :
        IF tokens < cost
          THEN /\ availableTokens' = tokens
               /\ rateLimitedRequests' = rateLimitedRequests + 1 + n
               /\ turnedAway' = [turnedAway EXCEPT !.limited = @ + n, !.batches = @ + 1]
               /\ UNCHANGED <<queue, totalAccepted, totalDropped>>
          ELSE /\ availableTokens' = tokens - cost
               /\ Accept(fit)
               /\ totalDropped' = totalDropped + (read - fit)
               /\ turnedAway' = [turnedAway EXCEPT !.broken = @ + (n - read)]
               /\ UNCHANGED rateLimitedRequests
  BY DEF IngestBatch
<1>2. /\ offered' = offered + n
      /\ UNCHANGED <<config, flushes, workers, shutdown, batchBuffer, loadTestActive>>
  BY DEF IngestBatch
<1>3. /\ rateLimitBurst \in Nat /\ channelCapacity \in Nat
      /\ tokens \in Nat /\ tokens <= rateLimitBurst
      /\ Len(queue) \in Nat /\ queue \in Seq(Nat)
      /\ turnedAway \in Refusals
      /\ offered \in Nat /\ totalAccepted \in Nat /\ totalDropped \in Nat
      /\ rateLimitedRequests \in Nat
      /\ flushed \o batchBuffer \o queue = Numbered(0, totalAccepted)
  BY ConfigAssumption, LenProperties DEF IInv, TypeOK, RefillLevels, NothingLostOrReordered, Refusals
<1>4. cost \in Nat
  BY ConfigAssumption, CeilDivIs
<1>5. fit \in Nat /\ fit <= read /\ (fit = 0 \/ Len(queue) + fit <= channelCapacity)
  BY <1>3 DEF Room, Least
<1> HIDE DEF cost, fit
<1>6. availableTokens' \in 0..rateLimitBurst
  BY <1>1, <1>3, <1>4
<1>7. CASE tokens < cost
  <2>0. TurnedAway(0, n, 1, 0)
    BY <1>1, <1>3, <1>7, TurnedAwayIs
  <2>1. rateLimitedRequests' = rateLimitedRequests + 1 + n
        /\ UNCHANGED <<queue, totalAccepted, totalDropped>>
    BY <1>1, <1>7
  <2>2. Answered(0, 0, 0, n, 1, 0)
    BY <1>2, <1>3, <1>6, <2>0, <2>1 DEF Answered
  <2>. QED  BY <2>2, AnsweredOK
<1>8. CASE ~(tokens < cost)
  <2>1. /\ queue' \in Seq(Nat) /\ Len(queue') = Len(queue) + fit
        /\ totalAccepted' = totalAccepted + fit
        /\ flushed \o batchBuffer \o queue' = Numbered(0, totalAccepted')
    BY <1>1, <1>5, <1>8, AcceptIs
  <2>2. read - fit \in Nat /\ n - read \in Nat
    BY <1>5
  <2>3. /\ totalDropped' = totalDropped + (read - fit)
        /\ UNCHANGED rateLimitedRequests
        /\ turnedAway' = [turnedAway EXCEPT !.broken = @ + (n - read)]
    BY <1>1, <1>8
  <2>4. offered' = offered + fit + (read - fit) + 0 + 0 + (n - read)
    BY <1>2, <1>3, <1>5
  <2>5. TurnedAway(0, 0, 0, n - read)
    BY <1>3, <2>2, <2>3, TurnedAwayIs
  <2>6. Answered(fit, read - fit, 0, 0, 0, n - read)
    BY <1>2, <1>3, <1>5, <1>6, <2>1, <2>3, <2>4, <2>5 DEF Answered
  <2>. QED  BY <1>5, <2>2, <2>6, AnsweredOK
<1>. QED  BY <1>7, <1>8

\* What Flush leaves of the sums: the batch is counted once, its events all.
LEMMA FlushCounts ==
    ASSUME IInv, NEW buffer \in Seq(Nat), buffer # <<>>, Flush(buffer)
    PROVE  /\ totalBatchesFlushed' \in Nat /\ totalBatchErrors' \in Nat
           /\ totalBatchErrors' <= totalBatchesFlushed'
           /\ totalBatchesFlushed' <= totalEventsFlushed'
<1>1. Len(buffer) \in Nat \ {0}
  BY EmptySeq
<1>2. /\ totalEventsFlushed' = totalEventsFlushed + Len(buffer)
      /\ totalBatchesFlushed' = totalBatchesFlushed + 1
      /\ totalBatchErrors' = totalBatchErrors \/ totalBatchErrors' = totalBatchErrors + 1
  BY FlushIs
<1>3. /\ totalBatchErrors \in Nat /\ totalBatchesFlushed \in Nat /\ totalEventsFlushed \in Nat
      /\ totalBatchErrors <= totalBatchesFlushed /\ totalBatchesFlushed <= totalEventsFlushed
  BY DEF IInv, TypeOK, MetricsAddUp
<1>. QED  BY <1>1, <1>2, <1>3

LEMMA BatchTickOK == IInv /\ BatchTick => IInv'
<1> SUFFICES ASSUME IInv, BatchTick PROVE IInv'
  OBVIOUS
<1>1. Flush(batchBuffer) /\ batchBuffer # <<>>
  BY DEF BatchTick
<1>2. /\ workerCount' = workerCount /\ channelCapacity' = channelCapacity
      /\ batchThreshold' = batchThreshold /\ rateLimitBurst' = rateLimitBurst
      /\ totalDropped' = totalDropped /\ rateLimitedRequests' = rateLimitedRequests
      /\ offered' = offered /\ turnedAway' = turnedAway
      /\ activeWorkers' = activeWorkers /\ releasePending' = releasePending
      /\ totalProcessed' = totalProcessed /\ isShuttingDown' = isShuttingDown
      /\ resetTimers' = resetTimers /\ drained' = drained
      /\ availableTokens' = availableTokens /\ queue' = queue
      /\ totalAccepted' = totalAccepted /\ loadTestActive' = loadTestActive
  BY DEF BatchTick, config, answers, workers, shutdown
<1>3. batchBuffer \in Seq(Nat) /\ queue \in Seq(Nat) /\ flushed \in Seq(Nat)
  BY DEF IInv, TypeOK
<1>4. /\ batchBuffer' \in Seq(Nat) /\ Len(batchBuffer') = 0 /\ flushed' \in Seq(Nat)
      /\ totalEventsFlushed' = totalEventsFlushed + Len(batchBuffer)
      /\ totalEventsFlushed' \in Nat
      /\ persistedTimeSeries' \in Seq(Nat) /\ Len(persistedTimeSeries') <= Keep
  BY <1>1, <1>3, FlushIs
<1>5. /\ totalBatchesFlushed' \in Nat /\ totalBatchErrors' \in Nat
      /\ totalBatchErrors' <= totalBatchesFlushed'
      /\ totalBatchesFlushed' <= totalEventsFlushed'
  BY <1>1, <1>3, FlushCounts
<1>6. TypeOK'
  <2>1. \E c \in Thresholds : Len(batchBuffer') < c
    <3>1. batchThreshold \in Thresholds /\ batchThreshold \in Nat \ {0}
      BY ConfigAssumption DEF IInv, TypeOK
    <3>. QED  BY <1>4, <3>1
  <2>. QED  BY <1>2, <1>4, <1>5, <2>1 DEF IInv, TypeOK
<1>7. NothingLostOrReordered'
  <2>1. flushed \o (batchBuffer \o queue) = Numbered(0, totalAccepted)
    BY <1>3, Associative DEF IInv, NothingLostOrReordered
  <2>2. flushed' \o batchBuffer' \o queue = Numbered(0, totalAccepted)
    BY <1>1, <1>3, <2>1, FlushKeepsOrder
  <2>. QED  BY <1>2, <2>2 DEF NothingLostOrReordered
<1>8. MetricsAddUp'
  <2>1. Len(batchBuffer) \in Nat /\ totalEventsFlushed \in Nat
    BY <1>3, LenProperties DEF IInv, TypeOK
  <2>2. totalProcessed' + drained' = Len(batchBuffer') + totalEventsFlushed'
    BY <1>2, <1>4, <2>1 DEF IInv, MetricsAddUp
  <2>. QED  BY <1>2, <1>5, <2>2 DEF IInv, MetricsAddUp
<1>. QED  BY <1>6, <1>7, <1>8 DEF IInv

LEMMA ShutdownOK == IInv /\ Shutdown => IInv'
<1> SUFFICES ASSUME IInv, Shutdown PROVE IInv'
  OBVIOUS
<1> DEFINE buffer == batchBuffer \o queue
<1>1. IF buffer = <<>> THEN NoFlush(buffer) ELSE Flush(buffer)
  BY DEF Shutdown
<1>2. /\ workerCount' = workerCount /\ channelCapacity' = channelCapacity
      /\ batchThreshold' = batchThreshold /\ rateLimitBurst' = rateLimitBurst
      /\ totalDropped' = totalDropped /\ rateLimitedRequests' = rateLimitedRequests
      /\ offered' = offered /\ turnedAway' = turnedAway
      /\ activeWorkers' = activeWorkers /\ releasePending' = releasePending
      /\ totalProcessed' = totalProcessed
      /\ isShuttingDown' = TRUE /\ loadTestActive' = FALSE
      /\ resetTimers' = resetTimers + 1 /\ drained' = drained + Len(queue)
      /\ availableTokens' = availableTokens /\ queue' = <<>>
      /\ totalAccepted' = totalAccepted
  BY DEF Shutdown, config, answers, workers
<1>3. /\ batchBuffer \in Seq(Nat) /\ queue \in Seq(Nat) /\ flushed \in Seq(Nat)
      /\ Len(queue) \in Nat /\ Len(batchBuffer) \in Nat
      /\ drained \in Nat /\ totalEventsFlushed \in Nat /\ resetTimers \in Nat
      /\ totalProcessed \in Nat
  BY LenProperties DEF IInv, TypeOK
<1>4. buffer \in Seq(Nat) /\ Len(buffer) = Len(batchBuffer) + Len(queue)
  BY <1>3, ConcatProperties
<1>5. <<>> \in Seq(Nat) /\ Len(<<>>) = 0
  BY EmptySeq
<1>6. flushed \o buffer = Numbered(0, totalAccepted)
  BY <1>3, Associative DEF IInv, NothingLostOrReordered
<1> HIDE DEF buffer
<1>7. /\ batchBuffer' = <<>> /\ flushed' = flushed \o buffer /\ flushed' \in Seq(Nat)
      /\ totalEventsFlushed' = totalEventsFlushed + Len(buffer)
      /\ totalEventsFlushed' \in Nat
      /\ persistedTimeSeries' \in Seq(Nat) /\ Len(persistedTimeSeries') <= Keep
      /\ totalBatchesFlushed' \in Nat /\ totalBatchErrors' \in Nat
      /\ totalBatchErrors' <= totalBatchesFlushed'
      /\ totalBatchesFlushed' <= totalEventsFlushed'
  <2>1. CASE buffer = <<>>
    <3>1. batchBuffer' = <<>> /\ UNCHANGED flushes
      BY <1>1, <2>1 DEF NoFlush
    <3>2. flushed \o <<>> = flushed
      BY <1>3, ConcatEmptySeq
    <3>3. totalEventsFlushed + 0 = totalEventsFlushed
      BY <1>3
    <3>. QED  BY <1>5, <2>1, <3>1, <3>2, <3>3 DEF flushes, IInv, TypeOK, MetricsAddUp
  <2>2. CASE buffer # <<>>
    BY <1>1, <1>4, <2>2, FlushIs, FlushCounts
  <2>. QED  BY <2>1, <2>2
<1>8. TypeOK'
  <2>1. /\ \E c \in Thresholds : Len(batchBuffer') < c
        /\ \E c \in Capacities : Len(queue') <= c
    <3>1. /\ batchThreshold \in Thresholds /\ batchThreshold \in Nat \ {0}
          /\ channelCapacity \in Capacities /\ channelCapacity \in Nat \ {0}
      BY ConfigAssumption DEF IInv, TypeOK
    <3>. QED  BY <1>2, <1>5, <1>7, <3>1
  <2>2. resetTimers' \in Nat /\ drained' \in Nat
    BY <1>2, <1>3
  <2>3. batchBuffer' \in Seq(Nat) /\ queue' \in Seq(Nat)
    BY <1>2, <1>5, <1>7
  <2>. QED  BY <1>2, <1>7, <2>1, <2>2, <2>3 DEF IInv, TypeOK
<1>9. NothingLostOrReordered'
  <2>1. flushed' \in Seq(Nat) /\ flushed' \o <<>> = flushed'
    BY <1>7, ConcatEmptySeq
  <2>. QED  BY <1>2, <1>6, <1>7, <2>1 DEF NothingLostOrReordered
<1>10. MetricsAddUp'
  <2>1. totalAccepted' = Len(queue') + totalProcessed' + drained'
    BY <1>2, <1>3, <1>5 DEF IInv, MetricsAddUp
  <2>2. totalProcessed' + drained' = Len(batchBuffer') + totalEventsFlushed'
    <3>1. totalProcessed + drained = Len(batchBuffer) + totalEventsFlushed
      BY DEF IInv, MetricsAddUp
    <3>2. /\ totalProcessed' = totalProcessed /\ drained' = drained + Len(queue)
          /\ Len(batchBuffer') = 0
          /\ totalEventsFlushed' = totalEventsFlushed + (Len(batchBuffer) + Len(queue))
      BY <1>2, <1>4, <1>5, <1>7
    <3>. QED  BY <1>3, <3>1, <3>2
  <2>3. /\ offered' = totalAccepted' + totalDropped' + turnedAway'.invalid + turnedAway'.limited
                      + turnedAway'.broken
        /\ rateLimitedRequests' = turnedAway'.limited + turnedAway'.batches
    BY <1>2 DEF IInv, MetricsAddUp
  <2>. QED  BY <1>7, <2>1, <2>2, <2>3 DEF MetricsAddUp
<1>. QED  BY <1>8, <1>9, <1>10 DEF IInv

\* A tick takes the front of the queue into the buffer, which is flushed if it
\* has reached the threshold.
LEMMA WorkerTickOK == IInv /\ WorkerTick => IInv'
<1> SUFFICES ASSUME IInv, WorkerTick PROVE IInv'
  OBVIOUS
<1> DEFINE n == Least((workerCount - activeWorkers) * Chunk, Len(queue))
           front == SubSeq(queue, 1, n)
           rest == SubSeq(queue, n + 1, Len(queue))
           buffer == batchBuffer \o front
<1>1. /\ activeWorkers' = Least(workerCount, CeilDiv(Len(queue), Share) + 1)
      /\ queue' = rest /\ totalProcessed' = totalProcessed + n
      /\ IF ThresholdReached(buffer) THEN Flush(buffer) ELSE NoFlush(buffer)
  BY DEF WorkerTick
<1>2. /\ workerCount' = workerCount /\ channelCapacity' = channelCapacity
      /\ batchThreshold' = batchThreshold /\ rateLimitBurst' = rateLimitBurst
      /\ totalDropped' = totalDropped /\ rateLimitedRequests' = rateLimitedRequests
      /\ offered' = offered /\ turnedAway' = turnedAway
      /\ releasePending' = TRUE /\ isShuttingDown' = isShuttingDown
      /\ resetTimers' = resetTimers /\ drained' = drained
      /\ availableTokens' = availableTokens
      /\ totalAccepted' = totalAccepted /\ loadTestActive' = loadTestActive
  BY DEF WorkerTick, config, answers, shutdown
<1>3. /\ batchBuffer \in Seq(Nat) /\ queue \in Seq(Nat) /\ flushed \in Seq(Nat)
      /\ Len(queue) \in Nat /\ Len(batchBuffer) \in Nat
      /\ drained \in Nat /\ totalEventsFlushed \in Nat /\ totalProcessed \in Nat
      /\ activeWorkers \in Nat /\ workerCount \in Nat /\ Chunk \in Nat
      /\ batchThreshold \in Thresholds /\ batchThreshold \in Nat \ {0}
  BY LenProperties, ConfigAssumption DEF IInv, TypeOK
<1>4. n \in 0..Len(queue)
  <2>1. workerCount > activeWorkers
    BY DEF WorkerTick, WorkersFree
  <2>2. workerCount - activeWorkers \in Nat
    BY <1>3, <2>1
  <2>3. (workerCount - activeWorkers) * Chunk \in Nat
    BY <1>3, <2>2
  <2>4. n \in {(workerCount - activeWorkers) * Chunk, Len(queue)} /\ n <= Len(queue)
    BY <1>3, <2>3, LeastIs
  <2>. QED  BY <1>3, <2>3, <2>4
<1>5. activeWorkers' \in Nat /\ activeWorkers' <= workerCount
  <2>1. CeilDiv(Len(queue), Share) \in Nat
    BY <1>3, CeilDivIs, ConfigAssumption
  <2>. QED  BY <1>1, <1>3, <2>1 DEF Least
<1> HIDE DEF n
<1>6. /\ front \in Seq(Nat) /\ Len(front) = n
      /\ rest \in Seq(Nat) /\ Len(rest) = Len(queue) - n
      /\ front \o rest = queue
  BY <1>3, <1>4, Split
<1> HIDE DEF front, rest
<1>7. buffer \in Seq(Nat) /\ Len(buffer) = Len(batchBuffer) + n
  BY <1>3, <1>6, ConcatProperties
<1>8. flushed \o (buffer \o rest) = Numbered(0, totalAccepted)
  <2>1. buffer \o rest = batchBuffer \o queue
    BY <1>3, <1>6, Associative
  <2>2. flushed \o batchBuffer \o queue = Numbered(0, totalAccepted)
    BY DEF IInv, NothingLostOrReordered
  <2>3. (flushed \o batchBuffer) \o queue = flushed \o (batchBuffer \o queue)
    BY <1>3, Associative
  <2>. QED  BY <2>1, <2>2, <2>3
<1> HIDE DEF buffer
<1>9. /\ batchBuffer' \in Seq(Nat) /\ Len(batchBuffer') < batchThreshold
      /\ flushed' \in Seq(Nat) /\ totalEventsFlushed' \in Nat
      /\ Len(batchBuffer') + totalEventsFlushed' = Len(buffer) + totalEventsFlushed
      /\ flushed' \o batchBuffer' \o rest = Numbered(0, totalAccepted)
      /\ persistedTimeSeries' \in Seq(Nat) /\ Len(persistedTimeSeries') <= Keep
      /\ totalBatchesFlushed' \in Nat /\ totalBatchErrors' \in Nat
      /\ totalBatchErrors' <= totalBatchesFlushed'
      /\ totalBatchesFlushed' <= totalEventsFlushed'
  <2>1. CASE ThresholdReached(buffer)
    <3>1. Flush(buffer) /\ Len(buffer) >= batchThreshold
      BY <1>1, <2>1 DEF ThresholdReached
    <3>2. buffer # <<>>
      BY <1>3, <3>1, EmptySeq
    <3>3. /\ batchBuffer' \in Seq(Nat) /\ Len(batchBuffer') = 0 /\ flushed' \in Seq(Nat)
          /\ totalEventsFlushed' = totalEventsFlushed + Len(buffer)
          /\ totalEventsFlushed' \in Nat
          /\ persistedTimeSeries' \in Seq(Nat) /\ Len(persistedTimeSeries') <= Keep
      BY <1>7, <3>1, FlushIs
    <3>4. flushed' \o batchBuffer' \o rest = Numbered(0, totalAccepted)
      BY <1>6, <1>7, <1>8, <3>1, FlushKeepsOrder
    <3>5. Len(batchBuffer') + totalEventsFlushed' = Len(buffer) + totalEventsFlushed
      BY <1>3, <1>4, <1>7, <3>3
    <3>. QED  BY <1>3, <1>7, <3>1, <3>2, <3>3, <3>4, <3>5, FlushCounts
  <2>2. CASE ~ThresholdReached(buffer)
    <3>1. batchBuffer' = buffer /\ UNCHANGED flushes
      BY <1>1, <2>2 DEF NoFlush
    <3>2. Len(buffer) < batchThreshold
      BY <1>3, <1>4, <1>7, <2>2 DEF ThresholdReached
    <3>3. flushed \o buffer \o rest = Numbered(0, totalAccepted)
      <4>1. (flushed \o buffer) \o rest = flushed \o (buffer \o rest)
        <5>1. flushed \in Seq(Nat) /\ buffer \in Seq(Nat) /\ rest \in Seq(Nat)
          BY <1>3, <1>6, <1>7
        <5>. QED  BY <5>1, Associative
      <4>. QED  BY <1>8, <4>1
    <3>. QED  BY <1>7, <3>1, <3>2, <3>3 DEF flushes, IInv, TypeOK, MetricsAddUp
  <2>. QED  BY <2>1, <2>2
<1>10. TypeOK'
  <2>1. \E c \in Capacities : Len(queue') <= c
    <3>1. PICK c \in Capacities : Len(queue) <= c
      BY DEF IInv, TypeOK
    <3>2. Len(queue') <= Len(queue)
      BY <1>1, <1>3, <1>4, <1>6
    <3>3. c \in Nat /\ Len(queue') \in Nat
      <4>1. Capacities \subseteq Nat \ {0}
        BY ConfigAssumption
      <4>. QED  BY <1>1, <1>3, <1>4, <1>6, <4>1
    <3>. QED  BY <1>3, <3>1, <3>2, <3>3
  <2>2. totalProcessed' \in Nat /\ queue' \in Seq(Nat)
    BY <1>1, <1>3, <1>4, <1>6
  <2>3. /\ \E c \in Thresholds : Len(batchBuffer') < c
        /\ \E c \in WorkerCounts : activeWorkers' <= c
    BY <1>3, <1>5, <1>9 DEF IInv, TypeOK
  <2>. QED  BY <1>2, <1>5, <1>9, <2>1, <2>2, <2>3 DEF IInv, TypeOK
<1>11. NothingLostOrReordered'
  BY <1>1, <1>2, <1>9 DEF NothingLostOrReordered
<1>12. MetricsAddUp'
  <2>1. totalAccepted' = Len(queue') + totalProcessed' + drained'
    BY <1>1, <1>2, <1>3, <1>4, <1>6 DEF IInv, MetricsAddUp
  <2>2. totalProcessed' + drained' = Len(batchBuffer') + totalEventsFlushed'
    <3>1. Len(batchBuffer') \in Nat
      BY <1>9, LenProperties
    <3>2. totalProcessed + drained = Len(batchBuffer) + totalEventsFlushed
      BY DEF IInv, MetricsAddUp
    <3>3. n \in Nat
      BY <1>3, <1>4
    <3>4. /\ totalEventsFlushed' \in Nat /\ drained' = drained
          /\ totalProcessed' = totalProcessed + n /\ Len(buffer) = Len(batchBuffer) + n
          /\ Len(batchBuffer') + totalEventsFlushed' = Len(buffer) + totalEventsFlushed
      BY <1>1, <1>2, <1>7, <1>9
    <3>5. /\ drained \in Nat /\ totalEventsFlushed \in Nat /\ totalProcessed \in Nat
          /\ Len(batchBuffer) \in Nat
      BY <1>3
    <3>. QED  BY <3>1, <3>2, <3>3, <3>4, <3>5
  <2>3. /\ offered' = totalAccepted' + totalDropped' + turnedAway'.invalid + turnedAway'.limited
                      + turnedAway'.broken
        /\ rateLimitedRequests' = turnedAway'.limited + turnedAway'.batches
    BY <1>2 DEF IInv, MetricsAddUp
  <2>. QED  BY <1>9, <2>1, <2>2, <2>3 DEF MetricsAddUp
<1>. QED  BY <1>10, <1>11, <1>12 DEF IInv

-----------------------------------------------------------------------------
(* The invariant is inductive.                                             *)

LEMMA Inductive == IInv /\ [Next]_vars => IInv'
<1> SUFFICES ASSUME IInv, [Next]_vars PROVE IInv'
  OBVIOUS
<1>1. ASSUME NEW valid \in BOOLEAN, IngestSingle(valid) PROVE IInv'
  BY <1>1, IngestSingleOK
<1>2. ASSUME NEW n \in 0..MaxBatch, LoadTick(n) \/ \E read \in 0..n : IngestBatch(n, read)
      PROVE  IInv'
  <2>1. n \in Nat
    BY ConfigAssumption
  <2>. QED  BY <1>2, <2>1, IngestBatchOK DEF LoadTick
<1>3. CASE StartLoadTest \/ StopLoadTest
  BY <1>3, SwitchesOK
<1>4. CASE WorkerTick
  BY <1>4, WorkerTickOK
<1>5. CASE Release
  BY <1>5, ReleaseOK
<1>6. CASE BatchTick
  BY <1>6, BatchTickOK
<1>7. CASE Shutdown
  BY <1>7, ShutdownOK
<1>8. CASE ShutdownThrows
  BY <1>8, ShutdownThrowsOK
<1>9. CASE Reset
  BY <1>9, ResetOK
<1>10. CASE UpdateConfig
  BY <1>10, UpdateConfigOK
<1>11. CASE GetMetrics
  BY <1>11, GetMetricsOK
<1>12. CASE UNCHANGED vars
  <2> USE <1>12 DEF vars, config, answers, flushes, workers, shutdown
  <2>1. TypeOK'
    BY DEF IInv, TypeOK
  <2>2. NothingLostOrReordered'
    BY SameStages
  <2>3. MetricsAddUp'
    BY DEF IInv, MetricsAddUp
  <2>. QED  BY <2>1, <2>2, <2>3 DEF IInv
<1>. QED
  BY <1>1, <1>2, <1>3, <1>4, <1>5, <1>6, <1>7, <1>8, <1>9, <1>10, <1>11, <1>12 DEF Next

LEMMA InvariantHolds == Spec => []IInv
<1>. QED  BY InitOK, Inductive, PTL DEF Spec

\* No callback ever leaves a variable outside its range: the queue stays within
\* a capacity, the buffer below a threshold, the workers and the tokens within
\* a setting that was in force, however updateConfig changes them under way.
THEOREM TypeCorrect == Spec => []TypeOK
<1>1. IInv => TypeOK
  BY DEF IInv
<1>. QED  BY <1>1, InvariantHolds, PTL

\* Whatever the order of the callbacks, what was flushed, what is buffered and
\* what is queued are the accepted events in order.
THEOREM NothingLostOrReorderedCorrect == Spec => []NothingLostOrReordered
<1>1. IInv => NothingLostOrReordered
  BY DEF IInv
<1>. QED  BY <1>1, InvariantHolds, PTL

\* The numbers getMetrics answers with add up after every callback.
THEOREM MetricsAddUpCorrect == Spec => []MetricsAddUp
<1>1. IInv => MetricsAddUp
  BY DEF IInv
<1>. QED  BY <1>1, InvariantHolds, PTL

-----------------------------------------------------------------------------
(* What holds the workers up.                                              *)

\* The workers reckoned for a items, b to a worker, are w or more exactly when
\* w - 1 of them are not enough.
LEMMA CeilDivReaches ==
    ASSUME NEW a \in Nat, NEW b \in Nat \ {0}, NEW w \in Nat \ {0}
    PROVE  CeilDiv(a, b) >= w <=> a > b * (w - 1)
<1> DEFINE x == a + b - 1
           q == x \div b
<1>1. x \in Nat /\ q \in Nat
  OBVIOUS
<1>2. b * q <= x /\ x <= b * q + b - 1
  OBVIOUS
<1>3. \A m, n \in Nat : m <= n => b * m <= b * n
  OBVIOUS
<1>4. b * w = b * (w - 1) + b
  OBVIOUS
<1>5. b * q \in Nat /\ b * (w - 1) \in Nat /\ w - 1 \in Nat
  BY <1>1
<1> HIDE DEF q
<1>6. CASE q >= w
  <2>1. b * w <= b * q
    BY <1>1, <1>3, <1>6
  <2>. QED  BY <1>2, <1>4, <1>5, <1>6, <2>1 DEF CeilDiv, q
<1>7. CASE q < w
  <2>1. b * q <= b * (w - 1)
    BY <1>1, <1>3, <1>5, <1>7
  <2>. QED  BY <1>2, <1>5, <1>7, <2>1 DEF CeilDiv, q
<1>. QED  BY <1>1, <1>6, <1>7

\* Only a tick, its timeout and a change of the configuration move the workers.
LEMMA WorkersMove ==
    [Next]_vars => \/ WorkerTick \/ Release \/ UpdateConfig
                   \/ UNCHANGED <<activeWorkers, releasePending, workerCount, channelCapacity>>
BY DEF Next, vars, config, workers, IngestSingle, IngestBatch, LoadTick, StartLoadTest,
       StopLoadTest, BatchTick, Shutdown, ShutdownThrows, Reset, GetMetrics

\* The timeout of a tick leaves every worker busy exactly when more is queued
\* than all of them but one are reckoned for.
LEMMA ReleaseStalls ==
    ASSUME IInv, Release
    PROVE  Stalled' <=> Len(queue) > Share * (workerCount - 1)
<1>1. workerCount \in Nat \ {0} /\ Len(queue) \in Nat /\ Share \in Nat \ {0}
  BY ConfigAssumption, LenProperties DEF IInv, TypeOK
<1>2. CeilDiv(Len(queue), Share) \in Nat
  BY <1>1, CeilDivIs
<1>3. Stalled' <=> CeilDiv(Len(queue), Share) >= workerCount
  BY <1>1, <1>2 DEF Release, Stalled, Least, config
<1>. QED  BY <1>1, <1>3, CeilDivReaches

\* How a stall can begin.
StallBegins ==
    ~Stalled /\ Stalled' => \/ Release /\ Len(queue) > Share * (workerCount - 1)
                            \/ workerCount' < workerCount

\* The workers stall when the timeout of a tick finds more queued than all of them
\* but one are reckoned for, or when their number is lowered, and by no other
\* callback (server.ts:161-163, 482).
THEOREM StallBeginsCorrect == Spec => [][StallBegins]_vars
<1>1. IInv /\ [Next]_vars => StallBegins
  <2> SUFFICES ASSUME IInv, [Next]_vars, ~Stalled, Stalled'
               PROVE  \/ Release /\ Len(queue) > Share * (workerCount - 1)
                      \/ workerCount' < workerCount
    BY DEF StallBegins
  <2>1. CASE WorkerTick
    BY <2>1 DEF WorkerTick, Stalled
  <2>2. CASE Release
    BY <2>2, ReleaseStalls
  <2>3. CASE UpdateConfig
    <3>1. workerCount \in Nat /\ workerCount' \in Nat /\ activeWorkers \in Nat
      BY <2>3, ConfigAssumption DEF UpdateConfig, IInv, TypeOK
    <3>. QED  BY <2>3, <3>1 DEF UpdateConfig, workers, Stalled
  <2>4. CASE UNCHANGED <<activeWorkers, releasePending, workerCount>>
    BY <2>4 DEF Stalled
  <2>. QED  BY <2>1, <2>2, <2>3, <2>4, WorkersMove
<1>. QED  BY <1>1, InvariantHolds, PTL DEF Spec

\* What a step does to a stall.
StallStays == Stalled /\ workerCount' <= workerCount => Stalled'

\* A stall is for good: no request, interval, timeout or shutdown ends it, not even
\* one that empties the queue, only more workers (server.ts:140-141).
THEOREM StallStaysCorrect == Spec => [][StallStays]_vars
<1>1. IInv /\ [Next]_vars => StallStays
  <2> SUFFICES ASSUME IInv, [Next]_vars, Stalled, workerCount' <= workerCount
               PROVE  Stalled'
    BY DEF StallStays
  <2>1. workerCount \in Nat /\ workerCount' \in Nat /\ activeWorkers \in Nat
    BY Inductive, ConfigAssumption DEF IInv, TypeOK
  <2>2. ~WorkerTick /\ ~Release
    BY <2>1 DEF WorkerTick, WorkersFree, Release, Stalled
  <2>3. UNCHANGED <<activeWorkers, releasePending>>
    BY <2>2, WorkersMove DEF UpdateConfig, workers
  <2>. QED  BY <2>1, <2>3 DEF Stalled
<1>. QED  BY <1>1, InvariantHolds, PTL DEF Spec

\* All workers but one are enough for the longest queue, in every configuration.
ShortQueues == \A c \in Capacities, w \in WorkerCounts : c <= Share * (w - 1)

ShortNeverStalls ==
    ShortQueues => (~releasePending => \A w \in WorkerCounts : activeWorkers < w)

\* If the settings in use keep the queue that short the gateway never stalls, however
\* requests, shutdowns and changes of the settings follow each other
\* (server.ts:136-164, 482-483).
THEOREM ShortQueuesNeverStall == Spec => [](ShortQueues => ~Stalled)
<1>1. Init => ShortNeverStalls
  BY ConfigAssumption DEF Init, ShortNeverStalls
<1>2. IInv /\ ShortNeverStalls /\ [Next]_vars => ShortNeverStalls'
  <2> SUFFICES ASSUME IInv, ShortNeverStalls, [Next]_vars, ShortQueues, ~releasePending',
                      NEW w \in WorkerCounts
               PROVE  activeWorkers' < w
    BY DEF ShortNeverStalls, ShortQueues
  <2>1. CASE Release
    <3>1. PICK c \in Capacities : Len(queue) <= c
      BY DEF IInv, TypeOK
    <3>2. /\ c \in Nat /\ w \in Nat \ {0} /\ Len(queue) \in Nat /\ Share \in Nat \ {0}
          /\ workerCount \in Nat
      BY ConfigAssumption, LenProperties DEF IInv, TypeOK
    <3>3. c <= Share * (w - 1) /\ Share * (w - 1) \in Int
      BY <3>2 DEF ShortQueues
    <3>4. ~(Len(queue) > Share * (w - 1))
      BY <3>1, <3>2, <3>3
    <3>5. CeilDiv(Len(queue), Share) \in Nat
      BY <3>2, CeilDivIs
    <3>6. CeilDiv(Len(queue), Share) < w
      BY <3>2, <3>4, <3>5, CeilDivReaches
    <3>. QED  BY <2>1, <3>2, <3>5, <3>6 DEF Release, Least
  <2>2. CASE WorkerTick
    BY <2>2 DEF WorkerTick
  <2>3. CASE UNCHANGED <<activeWorkers, releasePending>>
    BY <2>3 DEF ShortNeverStalls
  <2>. QED  BY <2>1, <2>2, <2>3, WorkersMove DEF UpdateConfig, workers
<1>3. IInv /\ ShortNeverStalls => (ShortQueues => ~Stalled)
  <2> SUFFICES ASSUME IInv, ShortNeverStalls, ShortQueues, Stalled PROVE FALSE
    OBVIOUS
  <2>1. workerCount \in WorkerCounts /\ workerCount \in Nat /\ activeWorkers \in Nat
    BY ConfigAssumption DEF IInv, TypeOK
  <2>. QED  BY <2>1 DEF ShortNeverStalls, Stalled
<1>. QED  BY <1>1, <1>2, <1>3, InvariantHolds, PTL DEF Spec

-----------------------------------------------------------------------------
(* The shutdowns.                                                          *)

\* Requests, and the load generator's, only lengthen the queue.
Ingestion ==
    \/ \E valid \in BOOLEAN : IngestSingle(valid)
    \/ \E n \in 0..MaxBatch : LoadTick(n) \/ \E read \in 0..n : IngestBatch(n, read)

LEMMA QueueGrows ==
    ASSUME IInv, Ingestion
    PROVE  UNCHANGED shutdown /\ Len(queue) <= Len(queue')
<1>1. Len(queue) \in Nat /\ channelCapacity \in Nat /\ MaxBatch \in Nat
  BY ConfigAssumption, LenProperties DEF IInv, TypeOK
<1>2. ASSUME NEW n \in Nat, Accept(n) PROVE Len(queue) <= Len(queue')
  BY <1>1, <1>2, AcceptIs
<1>3. ASSUME NEW valid \in BOOLEAN, IngestSingle(valid)
      PROVE  UNCHANGED shutdown /\ Len(queue) <= Len(queue')
  <2>1. UNCHANGED queue \/ Accept(1)
    BY <1>3 DEF IngestSingle
  <2>. QED  BY <1>1, <1>2, <1>3, <2>1 DEF IngestSingle
<1>4. ASSUME NEW n \in 0..MaxBatch, NEW read \in 0..n, IngestBatch(n, read)
      PROVE  UNCHANGED shutdown /\ Len(queue) <= Len(queue')
  <2> DEFINE fit == IF Room <= 0 THEN 0 ELSE Least(read, Room)
  <2>1. UNCHANGED queue \/ Accept(fit)
    BY <1>4 DEF IngestBatch
  <2>2. fit \in Nat
    BY <1>1 DEF Room, Least
  <2>3. UNCHANGED shutdown
    BY <1>4 DEF IngestBatch
  <2> HIDE DEF fit
  <2>. QED  BY <1>1, <1>2, <2>1, <2>2, <2>3
<1>5. ASSUME NEW n \in 0..MaxBatch, LoadTick(n) PROVE IngestBatch(n, n) /\ n \in 0..n
  BY <1>1, <1>5 DEF LoadTick
<1>. QED  BY <1>3, <1>4, <1>5 DEF Ingestion

\* Overlapping shutdowns, their timeouts, throwing pushes and the requests in
\* between leave the flag set only while a timeout will clear it or the queue is
\* too long to be drained (server.ts:437-463).
THEOREM ShutdownIsTimedCorrect == Spec => []ShutdownIsTimed
<1>1. Init => ShutdownIsTimed
  BY DEF Init, ShutdownIsTimed
<1>2. IInv /\ [Next]_vars /\ ShutdownIsTimed => ShutdownIsTimed'
  <2> SUFFICES ASSUME IInv, [Next]_vars, ShutdownIsTimed PROVE ShutdownIsTimed'
    OBVIOUS
  <2>1. Len(queue) \in Nat /\ SpreadLimit \in Nat /\ resetTimers \in Nat
    BY ConfigAssumption, LenProperties DEF IInv, TypeOK
  <2>2. CASE Ingestion
    <3>1. Len(queue') \in Nat
      <4>1. queue' \in Seq(Nat)
        BY Inductive DEF IInv, TypeOK
      <4>. QED  BY <4>1, LenProperties
    <3>2. /\ isShuttingDown' = isShuttingDown /\ resetTimers' = resetTimers
          /\ Len(queue) <= Len(queue')
      BY <2>2, QueueGrows DEF shutdown
    <3>. QED  BY <2>1, <3>1, <3>2 DEF ShutdownIsTimed
  <2>3. CASE Shutdown
    BY <2>1, <2>3 DEF Shutdown, ShutdownIsTimed
  <2>4. CASE ShutdownThrows
    BY <2>4 DEF ShutdownThrows, ShutdownIsTimed
  <2>5. CASE Reset
    BY <2>5 DEF Reset, ShutdownIsTimed
  <2>6. CASE WorkerTick
    BY <2>6 DEF WorkerTick, ShutdownIsTimed, shutdown
  <2>7. CASE UNCHANGED <<shutdown, queue>>
    BY <2>7 DEF ShutdownIsTimed, shutdown
  <2>8. StartLoadTest \/ StopLoadTest \/ Release \/ BatchTick \/ UpdateConfig \/ GetMetrics
          \/ UNCHANGED vars => UNCHANGED <<shutdown, queue>>
    BY DEF StartLoadTest, StopLoadTest, Release, BatchTick, UpdateConfig, GetMetrics, vars
  <2>. QED  BY <2>2, <2>3, <2>4, <2>5, <2>6, <2>7, <2>8 DEF Next, Ingestion
<1>. QED  BY <1>1, <1>2, InvariantHolds, PTL DEF Spec

\* The flag is set, no timeout will clear it, and the queue is too long to spread.
StuckShutdown == isShuttingDown /\ resetTimers = 0 /\ Len(queue) > SpreadLimit

StuckStays == StuckShutdown => StuckShutdown'

\* A shutdown whose push threw is never over: the workers do not run, so the queue
\* only grows, a later shutdown throws again, and no timeout is ever set that
\* would clear the flag (server.ts:138, 437-463).
THEOREM StuckStaysCorrect == Spec => [][StuckStays]_vars
<1>1. IInv /\ [Next]_vars => StuckStays
  <2> SUFFICES ASSUME IInv, [Next]_vars, StuckShutdown PROVE StuckShutdown'
    BY DEF StuckStays
  <2>1. Len(queue) \in Nat /\ SpreadLimit \in Nat
    BY ConfigAssumption, LenProperties DEF IInv, TypeOK
  <2>2. CASE Ingestion
    <3>1. queue' \in Seq(Nat)
      BY <2>2, Inductive DEF IInv, TypeOK
    <3>2. Len(queue') \in Nat
      BY <3>1, LenProperties
    <3>. QED  BY <2>1, <2>2, <3>2, QueueGrows DEF StuckShutdown, shutdown
  <2>3. CASE UNCHANGED <<isShuttingDown, resetTimers, queue>>
    BY <2>3 DEF StuckShutdown
  <2>6. ~WorkerTick /\ ~Shutdown /\ ~Reset
    BY <2>1 DEF WorkerTick, Shutdown, Reset, StuckShutdown
  <2>7. ShutdownThrows => UNCHANGED <<resetTimers, queue>> /\ isShuttingDown'
    BY DEF ShutdownThrows
  <2>8. CASE StartLoadTest \/ StopLoadTest \/ Release \/ BatchTick \/ UpdateConfig \/ GetMetrics
             \/ UNCHANGED vars
    BY <2>3, <2>8 DEF StartLoadTest, StopLoadTest, Release, BatchTick, UpdateConfig,
       GetMetrics, vars, shutdown
  <2>9. CASE ShutdownThrows
    BY <2>7, <2>9 DEF StuckShutdown
  <2>. QED  BY <2>2, <2>6, <2>8, <2>9 DEF Next, Ingestion
<1>. QED  BY <1>1, InvariantHolds, PTL DEF Spec
=============================================================================
