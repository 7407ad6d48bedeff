----------------------- MODULE BoundedCollectorProofs -----------------------
(***************************************************************************)
(* What a bounded collector keeps, for every limit and every way the       *)
(* output of the process may be cut into buffers.                          *)
(***************************************************************************)
EXTENDS BoundedCollector, SequenceTheorems, TLAPS

\* The first n elements of s \o t, when they fill s and a part of t.
LEMMA BeginningOfConcat ==
    ASSUME NEW S, NEW s \in Seq(S), NEW t \in Seq(S), NEW n \in Nat,
           Len(s) <= n, n <= Len(s) + Len(t)
    PROVE  /\ SubSeq(t, 1, n - Len(s)) \in Seq(S)
           /\ Len(SubSeq(t, 1, n - Len(s))) = n - Len(s)
           /\ SubSeq(s \o t, 1, n) = s \o SubSeq(t, 1, n - Len(s))
<1> DEFINE u == SubSeq(t, 1, n - Len(s))
           v == SubSeq(s \o t, 1, n)
<1>1. Len(s) \in Nat /\ Len(t) \in Nat
  OBVIOUS
<1>2. \A i \in 1..(n - Len(s)) : t[i] \in S
  BY <1>1
<1>3. /\ u \in Seq(S) /\ Len(u) = n - Len(s)
      /\ \A i \in 1..(n - Len(s)) : u[i] = t[i]
  BY <1>1, <1>2, SubSeqProperties
<1>4. /\ Len(s \o t) = Len(s) + Len(t) /\ s \o t \in Seq(S)
      /\ \A i \in 1..(Len(s) + Len(t)) :
            (s \o t)[i] = IF i <= Len(s) THEN s[i] ELSE t[i - Len(s)]
  BY ConcatProperties
<1>5. \A i \in 1..n : (s \o t)[i] \in S
  BY <1>1, <1>4
<1>6. v \in Seq(S) /\ Len(v) = n /\ \A i \in 1..n : v[i] = (s \o t)[i]
  BY <1>1, <1>5, SubSeqProperties
<1> HIDE DEF u, v
<1>7. /\ s \o u \in Seq(S) /\ Len(s \o u) = n
      /\ \A i \in 1..n : (s \o u)[i] = IF i <= Len(s) THEN s[i] ELSE u[i - Len(s)]
  BY <1>1, <1>3, ConcatProperties
<1>8. \A i \in 1..n : v[i] = (s \o u)[i]
  <2> SUFFICES ASSUME NEW i \in 1..n PROVE v[i] = (s \o u)[i]
    OBVIOUS
  <2>1. v[i] = IF i <= Len(s) THEN s[i] ELSE t[i - Len(s)]
    BY <1>1, <1>4, <1>6
  <2>2. (s \o u)[i] = IF i <= Len(s) THEN s[i] ELSE u[i - Len(s)]
    BY <1>7
  <2>3. i > Len(s) => i - Len(s) \in 1..(n - Len(s))
    BY <1>1
  <2> QED
    BY <1>1, <1>3, <2>1, <2>2, <2>3
<1>9. v = s \o u
  BY <1>6, <1>7, <1>8, SeqEqual
<1> QED
  BY <1>3, <1>9 DEF u, v

LEMMA MinimumCases ==
    ASSUME NEW m \in Nat, NEW n \in Nat
    PROVE  /\ m <= n => Minimum(m, n) = m
           /\ n <= m => Minimum(m, n) = n
  BY DEF Minimum

\* The first n elements of s \o t, when s has them all.
LEMMA BeginningOfFirst ==
    ASSUME NEW S, NEW s \in Seq(S), NEW t \in Seq(S), NEW n \in Nat \ {0},
           n <= Len(s)
    PROVE  SubSeq(s \o t, 1, n) = SubSeq(s, 1, n)
<1>1. Len(s) \in Nat
  OBVIOUS
<1>2. 1 \in 1..Len(s) /\ n \in 1..Len(s)
  BY <1>1
<1> QED
  BY <1>2, SubSeqOfConcat1

CollectorInv == TypeOK /\ KeepsBeginning /\ TruncationReported

LEMMA CollectorInit == ASSUME Init PROVE CollectorInv
<1>1. Minimum(0, Limit) = 0
  BY CollectorAssumption DEF Minimum
<1>2. SubSeq(<<>>, 1, 0) = <<>> /\ Len(<<>>) = 0 /\ <<>> \in Seq(Bytes)
  BY SubSeqEmpty, EmptySeq
<1>3. stream = <<>> /\ text = <<>> /\ retainedBytes = 0 /\ totalBytes = 0
      /\ truncated = FALSE
  BY DEF Init
<1>4. KeepsBeginning
  BY <1>1, <1>2, <1>3 DEF KeepsBeginning
<1>5. stream \in Seq(Bytes) /\ text \in Seq(Bytes)
  BY <1>2, <1>3
<1>6. retainedBytes = Len(text) /\ totalBytes = Len(stream)
  BY <1>2, <1>3
<1>7. truncated \in BOOLEAN
  BY <1>3, Zenon
<1>8. TypeOK
  BY <1>5, <1>6, <1>7 DEF TypeOK
<1>9. ~ (Len(text) < Len(stream))
  BY <1>2, <1>3
<1>10. TruncationReported
  BY <1>3, <1>9, Zenon DEF TruncationReported
<1> QED
  BY <1>4, <1>8, <1>10 DEF CollectorInv

\* Nothing has been lost while there is room.
LEMMA RoomMeansAll ==
    ASSUME CollectorInv, retainedBytes < Limit
    PROVE  text = stream /\ truncated = FALSE
<1>1. Limit \in Nat /\ Len(stream) \in Nat /\ stream \in Seq(Bytes) /\ Len(text) < Limit
  BY CollectorAssumption DEF CollectorInv, TypeOK
<1>2. Minimum(Len(stream), Limit) = Len(stream)
  <2>1. CASE Len(stream) < Limit
    BY <2>1 DEF Minimum
  <2>2. CASE Len(stream) >= Limit
    <3>1. text = SubSeq(stream, 1, Limit)
      BY <1>1, <2>2 DEF CollectorInv, KeepsBeginning, Minimum
    <3>2. Len(text) = Limit
      BY <1>1, <2>2, <3>1
    <3> QED
      BY <1>1, <3>2
  <2> QED
    BY <1>1, <2>1, <2>2
<1>3. text = stream
  BY <1>1, <1>2, SubSeqFull DEF CollectorInv, KeepsBeginning
<1> QED
  BY <1>1, <1>3 DEF CollectorInv, TruncationReported, TypeOK

LEMMA CollectStep ==
    ASSUME CollectorInv, NEW buffer \in Buffers, Collect(buffer)
    PROVE  CollectorInv'
<1>1. /\ Limit \in Nat \ {0} /\ stream \in Seq(Bytes) /\ text \in Seq(Bytes)
      /\ buffer \in Seq(Bytes) /\ Len(buffer) \in Nat \ {0}
      /\ Len(stream) \in Nat /\ Len(text) \in Nat
      /\ retainedBytes = Len(text) /\ totalBytes = Len(stream)
  BY CollectorAssumption, EmptySeq DEF CollectorInv, TypeOK
<1>2. /\ stream' = stream \o buffer /\ stream' \in Seq(Bytes)
      /\ Len(stream') = Len(stream) + Len(buffer) /\ totalBytes' = Len(stream')
  BY <1>1 DEF Collect
<1>3. CASE Full(buffer)
  <2>1. Len(text) >= Limit /\ truncated' = TRUE /\ UNCHANGED <<text, retainedBytes>>
    BY <1>1, <1>3 DEF Full
  <2>2. Len(stream) >= Limit /\ text = SubSeq(stream, 1, Limit)
    <3>1. CASE Len(stream) < Limit
      <4>1. text = stream
        BY <1>1, <3>1, SubSeqFull DEF CollectorInv, KeepsBeginning, Minimum
      <4> QED
        BY <1>1, <2>1, <3>1, <4>1
    <3>2. CASE Len(stream) >= Limit
      BY <1>1, <3>2 DEF CollectorInv, KeepsBeginning, Minimum
    <3> QED
      BY <1>1, <3>1, <3>2
  <2>3. text' = SubSeq(stream', 1, Limit)
    BY <1>1, <1>2, <2>1, <2>2, BeginningOfFirst
  <2>4. Minimum(Len(stream'), Limit) = Limit
    BY <1>1, <1>2, <2>2 DEF Minimum
  <2>5. Len(text') = Limit
    BY <1>1, <2>1, <2>2
  <2> QED
    BY <1>1, <1>2, <2>1, <2>2, <2>3, <2>4, <2>5
    DEF CollectorInv, TypeOK, KeepsBeginning, TruncationReported
<1>4. CASE Room(buffer)
  <2>1. text = stream /\ truncated = FALSE /\ Len(stream) < Limit
    BY <1>1, <1>4, RoomMeansAll DEF Room
  <2>2. /\ text' = stream \o Kept(buffer)
        /\ retainedBytes' = Len(stream) + Len(Kept(buffer))
    BY <1>1, <1>4, <2>1 DEF Room
  <2>3. truncated' \in BOOLEAN /\ (truncated' <=> Len(Kept(buffer)) < Len(buffer))
    <3>1. truncated' = (truncated \/ Len(Kept(buffer)) < Len(buffer))
      BY <1>4 DEF Room
    <3> HIDE DEF Kept
    <3> QED
      BY <2>1, <3>1, Zenon
  <2>4. CASE Len(buffer) <= Limit - Len(stream)
    <3>1. Kept(buffer) = buffer
      BY <1>1, <2>1, <2>4 DEF Kept
    <3>2. text' = stream' /\ retainedBytes' = Len(text')
      BY <1>1, <1>2, <2>2, <3>1
    <3>3. truncated' \in BOOLEAN /\ ~truncated'
      BY <1>1, <2>3, <3>1
    <3>4. Minimum(Len(stream'), Limit) = Len(stream')
      BY <1>1, <1>2, <2>4, MinimumCases
    <3>5. KeepsBeginning'
      BY <1>2, <3>2, <3>4, SubSeqFull DEF KeepsBeginning
    <3> QED
      BY <1>1, <1>2, <3>2, <3>3, <3>5 DEF CollectorInv, TypeOK, TruncationReported
  <2>5. CASE Len(buffer) > Limit - Len(stream)
    <3>1. Kept(buffer) = SubSeq(buffer, 1, Limit - Len(stream))
      BY <1>1, <2>1, <2>5 DEF Kept
    <3>2. /\ Kept(buffer) \in Seq(Bytes)
          /\ Len(Kept(buffer)) = Limit - Len(stream)
          /\ SubSeq(stream', 1, Limit) = text'
      BY <1>1, <1>2, <2>1, <2>2, <2>5, <3>1, BeginningOfConcat
    <3>3. text' \in Seq(Bytes) /\ Len(text') = Limit /\ retainedBytes' = Limit
      BY <1>1, <2>1, <2>2, <3>2
    <3>4. truncated' \in BOOLEAN /\ truncated' /\ Limit < Len(stream')
      BY <1>1, <1>2, <2>1, <2>3, <2>5, <3>2
    <3>5. Minimum(Len(stream'), Limit) = Limit
      BY <1>1, <1>2, <3>4 DEF Minimum
    <3> QED
      BY <1>2, <3>2, <3>3, <3>4, <3>5
      DEF CollectorInv, TypeOK, KeepsBeginning, TruncationReported
  <2> QED
    BY <1>1, <2>4, <2>5
<1> QED
  BY <1>3, <1>4 DEF Collect

LEMMA CollectorCorrect == Spec => []CollectorInv
<1>1. Init => CollectorInv
  BY CollectorInit
<1>2. CollectorInv /\ [Next]_vars => CollectorInv'
  <2>1. CASE UNCHANGED vars
    BY <2>1 DEF vars, CollectorInv, TypeOK, KeepsBeginning, TruncationReported
  <2> QED
    BY <2>1, CollectStep DEF Next
<1> QED
  BY <1>1, <1>2, PTL DEF Spec

\* A collector shows the beginning of the output, complete up to its limit.
THEOREM CollectorKeepsBeginning == Spec => []KeepsBeginning
  BY CollectorCorrect, PTL DEF CollectorInv

\* A collector reports truncation exactly when it has lost output.
THEOREM CollectorReportsTruncation == Spec => []TruncationReported
  BY CollectorCorrect, PTL DEF CollectorInv

\* The counters of a collector agree with what it has read and what it keeps.
THEOREM CollectorTypeCorrect == Spec => []TypeOK
  BY CollectorCorrect, PTL DEF CollectorInv

=============================================================================
