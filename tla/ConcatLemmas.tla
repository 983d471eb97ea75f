---------------------------- MODULE ConcatLemmas ----------------------------
(* Facts about concatenation that the queue proofs share.                  *)
EXTENDS Naturals, Sequences, SequenceTheorems, TLAPS

\* The head of a queue moved behind what went before it.
LEMMA MoveHead ==
    ASSUME NEW S, NEW s \in Seq(S), NEW t \in Seq(S), t # <<>>
    PROVE  /\ <<Head(t)>> \in Seq(S) /\ Tail(t) \in Seq(S)
           /\ <<Head(t)>> \o Tail(t) = t
           /\ Append(s, Head(t)) \o Tail(t) = s \o t
<1>1. Head(t) \in S /\ Tail(t) \in Seq(S) /\ Len(Tail(t)) = Len(t) - 1
  BY HeadTailProperties
<1>2. <<Head(t)>> \in Seq(S) /\ Len(<<Head(t)>>) = 1
  BY <1>1
<1>3. <<Head(t)>> \o Tail(t) = t
  <2>1. t = SubSeq(t, 1, Len(t)) /\ Len(t) \in Nat \ {0}
    BY SubSeqFull, EmptySeq
  <2>2. t = <<t[1]>> \o SubSeq(t, 2, Len(t))
    BY <2>1, SubSeqRecursiveFirst
  <2>3. Head(t) = t[1] /\ Tail(t) = SubSeq(t, 2, Len(t))
    BY TailIsSubSeq
  <2>. QED  BY <2>2, <2>3
<1>4. Append(s, Head(t)) = s \o <<Head(t)>>
  BY <1>1, AppendIsConcat
<1>5. (s \o <<Head(t)>>) \o Tail(t) = s \o (<<Head(t)>> \o Tail(t))
  BY <1>1, <1>2, ConcatAssociative
<1>. QED
  BY <1>1, <1>2, <1>3, <1>4, <1>5

\* What is left of s \o (t \o u) past s begins with t.
LEMMA PrefixOfRest ==
    ASSUME NEW S, NEW s \in Seq(S), NEW t \in Seq(S), NEW u \in Seq(S), t # <<>>,
           NEW all, all = s \o (t \o u),
           NEW rest, rest = SubSeq(all, Len(s) + 1, Len(all))
    PROVE  Len(t) \in 1..Len(rest) /\ SubSeq(rest, 1, Len(t)) = t
<1> DEFINE v == t \o u
<1>1. /\ Len(s) \in Nat /\ Len(u) \in Nat /\ Len(t) \in Nat \ {0}
      /\ v \in Seq(S) /\ Len(v) = Len(t) + Len(u)
  BY EmptySeq, LenProperties, ConcatProperties
<1>2. SubSeq(v, 1, Len(t)) = t
  <2>1. SubSeq(v, 1, Len(t)) = SubSeq(t, 1, Len(t))
    BY <1>1, SubSeqOfConcat1
  <2>. QED  BY <2>1, SubSeqFull
<1> HIDE DEF v
<1>3. all = s \o v /\ Len(all) = Len(s) + Len(v)
  BY <1>1, ConcatProperties DEF v
<1>4. rest = v
  <2>1. Len(s) + 1 \in Len(s) + 1 .. Len(s) + Len(v) /\ Len(all) \in Len(s) + 1 .. Len(s) + Len(v)
    BY <1>1, <1>3
  <2>2. rest = SubSeq(v, Len(s) + 1 - Len(s), Len(all) - Len(s))
    BY <1>1, <1>3, <2>1, SubSeqOfConcat2
  <2>3. Len(s) + 1 - Len(s) = 1 /\ Len(all) - Len(s) = Len(v)
    BY <1>1, <1>3
  <2>. QED  BY <1>1, <2>2, <2>3, SubSeqFull
<1>. QED
  BY <1>1, <1>2, <1>4
=============================================================================
