-------------------------- MODULE BufferingProofs --------------------------
(***************************************************************************)
(* Proofs about Buffering: for any topics and sizes of frames, any limits, *)
(* credits and budgets, and any number of frames.                          *)
(***************************************************************************)
EXTENDS Buffering, Counting

-----------------------------------------------------------------------------
(* The frames of a sequence *)

\* The set of the frames of a sequence is finite, and Head, Tail and Append do to
\* it what one expects.
LEMMA FramesProperties ==
    ASSUME NEW T, NEW q \in Seq(T)
    PROVE  /\ Frames(q) \subseteq T /\ IsFiniteSet(Frames(q))
           /\ Len(q) \in Nat
           /\ q # <<>> => /\ Frames(q) = Frames(Tail(q)) \cup {Head(q)}
                          /\ Head(q) \in T /\ Tail(q) \in Seq(T)
           /\ \A e \in T : /\ Append(q, e) \in Seq(T)
                           /\ Frames(Append(q, e)) = Frames(q) \cup {e}
<1>1. Len(q) \in Nat
  BY LenProperties
<1>2. \A i \in 1 .. Len(q) : q[i] \in T
  BY ElementOfSeq
<1>3. IsFiniteSet(1 .. Len(q))
  BY <1>1, FS_Interval
<1>4. IsFiniteSet(Frames(q))
  <2> DEFINE f == [i \in 1 .. Len(q) |-> q[i]]
  <2>1. f \in Surjection(1 .. Len(q), Frames(q))
    BY DEF Surjection, Frames
  <2> QED
    BY <1>3, <2>1, FS_Surjection
<1>5. ASSUME q # <<>> PROVE Frames(q) = Frames(Tail(q)) \cup {Head(q)}
  <2>1. /\ Tail(q) \in Seq(T) /\ Len(Tail(q)) = Len(q) - 1 /\ Len(q) \in Nat \ {0}
        /\ \A i \in 1 .. Len(Tail(q)) : Tail(q)[i] = q[i + 1]
    BY <1>5, HeadTailProperties, EmptySeq
  <2>2. Head(q) = q[1]
    OBVIOUS
  <2>3. ASSUME NEW i \in 1 .. Len(q) PROVE q[i] \in Frames(Tail(q)) \cup {Head(q)}
    <3>1. CASE i = 1
      BY <2>2, <3>1
    <3>2. CASE i # 1
      <4>1. i - 1 \in 1 .. Len(Tail(q)) /\ Tail(q)[i - 1] = q[i]
        BY <1>1, <2>1, <3>2
      <4> QED
        BY <4>1 DEF Frames
    <3> QED
      BY <3>1, <3>2
  <2>4. ASSUME NEW i \in 1 .. Len(Tail(q)) PROVE Tail(q)[i] \in Frames(q)
    <3>1. i + 1 \in 1 .. Len(q) /\ Tail(q)[i] = q[i + 1]
      BY <1>1, <2>1
    <3> QED
      BY <3>1 DEF Frames
  <2>5. q[1] \in Frames(q)
    BY <1>1, <2>1 DEF Frames
  <2> QED
    BY <2>2, <2>3, <2>4, <2>5 DEF Frames
<1>6. ASSUME NEW e \in T
      PROVE  Append(q, e) \in Seq(T) /\ Frames(Append(q, e)) = Frames(q) \cup {e}
  <2> DEFINE r == Append(q, e)
  <2>1. /\ r \in Seq(T) /\ Len(r) = Len(q) + 1
        /\ \A i \in 1 .. Len(q) : r[i] = q[i]
        /\ r[Len(q) + 1] = e
    BY <1>1, AppendProperties
  <2> HIDE DEF r
  <2>2. 1 .. Len(r) = (1 .. Len(q)) \cup {Len(q) + 1}
    BY <1>1, <2>1
  <2>3. Frames(r) = Frames(q) \cup {e}
    BY <2>1, <2>2 DEF Frames
  <2> QED
    BY <2>1, <2>3 DEF r
<1>7. q # <<>> => Head(q) \in T /\ Tail(q) \in Seq(T)
  BY HeadTailProperties
<1> QED
  BY <1>1, <1>2, <1>4, <1>5, <1>6, <1>7 DEF Frames

LEMMA FramesEmpty == Frames(<<>>) = {}
<1>1. Len(<<>>) = 0
  BY EmptySeq
<1> QED
  BY <1>1 DEF Frames

-----------------------------------------------------------------------------
(* Order *)

\* The frames of one topic are in the order of their numbers.
Ordered(q, topics) ==
    \A i, j \in 1 .. Len(q) : i < j /\ topics[q[i]] = topics[q[j]] => q[i] < q[j]

\* No two frames have the same topic.
OneEach(q, topics) ==
    \A i, j \in 1 .. Len(q) : topics[q[i]] = topics[q[j]] => i = j

\* r is what is left of q when some elements are taken out.
Within(r, q) ==
    /\ \A i \in 1 .. Len(r) : \E a \in 1 .. Len(q) : r[i] = q[a]
    /\ \A i, j \in 1 .. Len(r) :
         i < j => \E a, b \in 1 .. Len(q) : a < b /\ r[i] = q[a] /\ r[j] = q[b]

\* What is taken out disturbs no order.
LEMMA WithinKeeps ==
    ASSUME NEW topics, NEW q \in Seq(Nat), NEW r \in Seq(Nat), Within(r, q)
    PROVE  /\ Frames(r) \subseteq Frames(q)
           /\ Ordered(q, topics) => Ordered(r, topics)
           /\ OneEach(q, topics) => OneEach(r, topics)
<1>1. Len(r) \in Nat /\ Len(q) \in Nat
  BY LenProperties
<1>2. Frames(r) \subseteq Frames(q)
  BY DEF Frames, Within
<1>3. ASSUME Ordered(q, topics), NEW i \in 1 .. Len(r), NEW j \in 1 .. Len(r),
             i < j, topics[r[i]] = topics[r[j]]
      PROVE  r[i] < r[j]
  <2>1. PICK a, b \in 1 .. Len(q) : a < b /\ r[i] = q[a] /\ r[j] = q[b]
    BY <1>3 DEF Within
  <2> QED
    BY <1>3, <2>1 DEF Ordered
<1>4. ASSUME OneEach(q, topics), NEW i \in 1 .. Len(r), NEW j \in 1 .. Len(r),
             topics[r[i]] = topics[r[j]], i < j
      PROVE  FALSE
  <2>1. PICK a, b \in 1 .. Len(q) : a < b /\ r[i] = q[a] /\ r[j] = q[b]
    BY <1>4 DEF Within
  <2>2. a = b
    BY <1>4, <2>1 DEF OneEach
  <2> QED
    BY <1>1, <2>1, <2>2
<1>5. ASSUME OneEach(q, topics), NEW i \in 1 .. Len(r), NEW j \in 1 .. Len(r),
             topics[r[i]] = topics[r[j]]
      PROVE  i = j
  <2>1. i < j \/ j < i \/ i = j
    BY <1>1
  <2> QED
    BY <1>4, <1>5, <2>1
<1> QED
  BY <1>2, <1>3, <1>5 DEF OneEach, Ordered

LEMMA TailWithin ==
    ASSUME NEW T, NEW q \in Seq(T), q # <<>>
    PROVE  Within(Tail(q), q)
<1>1. /\ Len(q) \in Nat \ {0} /\ Len(Tail(q)) = Len(q) - 1
      /\ \A i \in 1 .. Len(Tail(q)) : Tail(q)[i] = q[i + 1]
  BY HeadTailProperties, EmptySeq
<1>2. ASSUME NEW i \in 1 .. Len(Tail(q)) PROVE i + 1 \in 1 .. Len(q) /\ Tail(q)[i] = q[i + 1]
  BY <1>1
<1>3. ASSUME NEW i \in 1 .. Len(Tail(q)), NEW j \in 1 .. Len(Tail(q)), i < j
      PROVE  \E a, b \in 1 .. Len(q) : a < b /\ Tail(q)[i] = q[a] /\ Tail(q)[j] = q[b]
  <2>1. i + 1 < j + 1
    BY <1>1, <1>3
  <2> QED
    BY <1>2, <2>1
<1> QED
  BY <1>2, <1>3 DEF Within

\* The first of a sequence in order does not come again.
LEMMA TailWithout ==
    ASSUME NEW topics, NEW q \in Seq(Nat), q # <<>>, Ordered(q, topics)
    PROVE  /\ Head(q) \notin Frames(Tail(q))
           /\ \A m \in Frames(Tail(q)) : topics[m] = topics[Head(q)] => Head(q) < m
<1>1. /\ Len(q) \in Nat \ {0} /\ Len(Tail(q)) = Len(q) - 1 /\ Head(q) = q[1] /\ q[1] \in Nat
      /\ \A i \in 1 .. Len(Tail(q)) : Tail(q)[i] = q[i + 1]
  BY HeadTailProperties, EmptySeq
<1>2. ASSUME NEW i \in 1 .. Len(Tail(q)), topics[Tail(q)[i]] = topics[q[1]]
      PROVE  q[1] < Tail(q)[i]
  <2>1. i + 1 \in 1 .. Len(q) /\ 1 \in 1 .. Len(q) /\ 1 < i + 1 /\ Tail(q)[i] = q[i + 1]
    BY <1>1
  <2> QED
    BY <1>2, <2>1 DEF Ordered
<1>3. \A m \in Frames(Tail(q)) : topics[m] = topics[Head(q)] => Head(q) < m
  BY <1>1, <1>2 DEF Frames
<1>4. ~(q[1] < q[1])
  BY <1>1
<1> QED
  BY <1>1, <1>3, <1>4

-----------------------------------------------------------------------------
(* Bytes *)

\* A part of the frames has no more bytes than all of them, and topics of later
\* frames do not count.
LEMMA BytesProperties ==
    ASSUME NEW topics \in Seq(Topics), NEW S \in SUBSET (1 .. Len(topics))
    PROVE  /\ Bytes(topics, S) \in Nat
           /\ \A T \in SUBSET S : Bytes(topics, T) <= Bytes(topics, S)
           /\ \A t \in Topics : Bytes(Append(topics, t), S) = Bytes(topics, S)
           /\ Bytes(topics, {}) = 0
<1> DEFINE f == [n \in DOMAIN topics |-> Size[topics[n]]]
<1>1. Len(topics) \in Nat /\ DOMAIN topics = 1 .. Len(topics)
  BY LenProperties
<1>2. IsFiniteSet(S)
  <2>1. IsFiniteSet(1 .. Len(topics))
    BY <1>1, FS_Interval
  <2> QED
    BY <2>1, FS_Subset
<1>3. \A x \in S : f[x] \in Nat
  <2>1. \A x \in S : x \in 1 .. Len(topics) /\ topics[x] \in Topics
    BY ElementOfSeq
  <2> QED
    BY <1>1, <2>1, ConstantsAssumption
<1>4. Bytes(topics, S) \in Nat
  <2> HIDE DEF f
  <2>1. SumFunctionOnSet(f, S) \in Nat
    BY <1>2, <1>3, SumNat
  <2> QED
    BY <2>1 DEF Bytes, f
<1>5. ASSUME NEW T \in SUBSET S PROVE Bytes(topics, T) <= Bytes(topics, S)
  <2> HIDE DEF f
  <2>1. SumFunctionOnSet(f, T) <= SumFunctionOnSet(f, S)
    BY <1>2, <1>3, SumSubset
  <2> QED
    BY <2>1 DEF Bytes, f
<1>6. ASSUME NEW t \in Topics PROVE Bytes(Append(topics, t), S) = Bytes(topics, S)
  <2> DEFINE more == Append(topics, t)
             g == [n \in DOMAIN more |-> Size[more[n]]]
  <2>1. /\ more \in Seq(Topics) /\ Len(more) = Len(topics) + 1
        /\ \A i \in 1 .. Len(topics) : more[i] = topics[i]
    BY AppendProperties
  <2>2. DOMAIN more = 1 .. Len(topics) + 1
    BY <2>1, LenProperties
  <2> HIDE DEF more
  <2>3. \A x \in S : g[x] = f[x]
    BY <1>1, <2>1, <2>2
  <2> HIDE DEF f, g
  <2>4. SumFunctionOnSet(g, S) = SumFunctionOnSet(f, S)
    BY <1>2, <2>3, SumSame
  <2> QED
    BY <2>4 DEF Bytes, f, g, more
<1>7. Bytes(topics, {}) = 0
  <2> HIDE DEF f
  <2>1. SumFunctionOnSet(f, {}) = 0
    BY SumStep, FS_EmptySet
  <2> QED
    BY <2>1 DEF Bytes, f
<1> QED
  BY <1>4, <1>5, <1>6, <1>7

-----------------------------------------------------------------------------
(* The two policies *)

\* What drop_old leaves: the frames from some position on.
LEMMA DropOldIs ==
    ASSUME NEW topics \in Seq(Topics), topics # <<>>,
           NEW q \in Seq(1 .. Len(topics)), Len(q) <= MaxMessages
    PROVE  LET r == DropOld(q, Len(topics), topics)
               all == Append(q, Len(topics))
           IN  /\ r \in Seq(1 .. Len(topics))
               /\ \E d \in 0 .. Len(all) :
                    /\ Len(r) = Len(all) - d
                    /\ \A i \in 1 .. Len(r) : r[i] = all[i + d]
               /\ Len(r) <= MaxMessages
               /\ MaxBytes = 0 \/ Bytes(topics, Frames(r)) <= MaxBytes
<1> DEFINE n == Len(topics)
           T == 1 .. n
           all == Append(q, n)
           base == IF Len(q) >= MaxMessages THEN Tail(q) ELSE q
           full == Append(base, n)
           c == IF Len(q) >= MaxMessages THEN 1 ELSE 0
           rest(i) == SubSeq(full, i, Len(full))
           Fits(i) == MaxBytes = 0 \/ Bytes(topics, Frames(rest(i))) <= MaxBytes
           from == {i \in 1 .. Len(full) + 1 : Fits(i)}
           k == Min(from)
           r == rest(k)
<1>1. n \in Nat \ {0} /\ n \in T /\ MaxMessages \in Nat \ {0} /\ Len(q) \in Nat
  BY EmptySeq, LenProperties, ConstantsAssumption
<1>2. /\ all \in Seq(T) /\ Len(all) = Len(q) + 1
      /\ \A i \in 1 .. Len(q) : all[i] = q[i]
      /\ all[Len(q) + 1] = n
  BY <1>1, AppendProperties
<1>3. /\ base \in Seq(T) /\ Len(base) = Len(q) - c
      /\ \A i \in 1 .. Len(base) : base[i] = q[i + c]
      /\ Len(base) < MaxMessages /\ Len(base) \in Nat
  <2>1. CASE Len(q) >= MaxMessages
    <3>1. q # <<>>
      BY <1>1, <2>1, EmptySeq
    <3> QED
      BY <1>1, <2>1, <3>1, HeadTailProperties
  <2>2. CASE ~(Len(q) >= MaxMessages)
    <3>1. base = q /\ c = 0 /\ \A i \in 1 .. Len(q) : i + 0 = i
      BY <1>1, <2>2
    <3> HIDE DEF base, c
    <3> QED
      BY <1>1, <2>2, <3>1
  <2> QED
    BY <2>1, <2>2
<1>4. c \in 0 .. 1
  OBVIOUS
<1> HIDE DEF base, c
<1>5. /\ full \in Seq(T) /\ Len(full) = Len(q) + 1 - c /\ Len(full) \in Nat \ {0}
      /\ Len(full) <= MaxMessages
      /\ \A i \in 1 .. Len(full) : full[i] = all[i + c]
  <2>1. /\ full \in Seq(T) /\ Len(full) = Len(base) + 1
        /\ \A i \in 1 .. Len(base) : full[i] = base[i]
        /\ full[Len(base) + 1] = n
    BY <1>1, <1>3, AppendProperties
  <2> HIDE DEF full, all
  <2>2. Len(full) = Len(q) + 1 - c /\ Len(full) \in Nat \ {0} /\ Len(full) <= MaxMessages
    BY <1>1, <1>3, <1>4, <2>1
  <2>3. ASSUME NEW i \in 1 .. Len(full) PROVE full[i] = all[i + c]
    <3>1. CASE i = Len(base) + 1
      <4>1. i + c = Len(q) + 1
        BY <1>1, <1>3, <1>4, <3>1
      <4> QED
        BY <1>2, <2>1, <3>1, <4>1
    <3>2. CASE i # Len(base) + 1
      <4>1. i \in 1 .. Len(base)
        BY <1>3, <2>1, <3>2
      <4>2. i + c \in 1 .. Len(q)
        BY <1>1, <1>3, <1>4, <4>1
      <4> QED
        BY <1>2, <1>3, <2>1, <4>1, <4>2
    <3> QED
      BY <3>1, <3>2
  <2> QED
    BY <2>1, <2>2, <2>3
<1> HIDE DEF full, all
<1>6. ASSUME NEW i \in 1 .. Len(full) + 1
      PROVE  /\ rest(i) \in Seq(T) /\ Len(rest(i)) = Len(full) + 1 - i
             /\ \A j \in 1 .. Len(rest(i)) : rest(i)[j] = full[i + j - 1]
  <2>1. \A j \in i .. Len(full) : full[j] \in T
    BY <1>5, ElementOfSeq
  <2>2. i \in Int /\ Len(full) \in Int
    BY <1>5
  <2>3. /\ rest(i) \in Seq(T) /\ Len(rest(i)) = IF i <= Len(full) THEN Len(full) - i + 1 ELSE 0
        /\ \A j \in 1 .. Len(full) - i + 1 : rest(i)[j] = full[i + j - 1]
    BY <2>1, <2>2, SubSeqProperties
  <2> HIDE DEF rest
  <2> QED
    BY <1>5, <2>3
<1>7. k \in from
  <2>1. Len(full) + 1 \in 1 .. Len(full) + 1
    BY <1>5
  <2>2. Fits(Len(full) + 1)
    <3>1. rest(Len(full) + 1) = <<>>
      BY <1>5, SubSeqEmpty
    <3>2. Bytes(topics, {}) = 0 /\ MaxBytes \in Nat
      BY BytesProperties, ConstantsAssumption
    <3> HIDE DEF rest
    <3>3. Bytes(topics, Frames(rest(Len(full) + 1))) = 0
      BY <3>1, <3>2, FramesEmpty
    <3> QED
      BY <3>2, <3>3
  <2>3. from \in SUBSET Nat
    BY <1>5
  <2> HIDE DEF k, Fits
  <2>4. from # {}
    BY <2>1, <2>2
  <2> HIDE DEF from
  <2> QED
    BY <2>3, <2>4, Least DEF k
<1>8. k \in 1 .. Len(full) + 1 /\ Fits(k)
  <2> HIDE DEF k, Fits
  <2> QED
    BY <1>7
<1>9. /\ r \in Seq(T) /\ Len(r) = Len(full) + 1 - k
      /\ \A j \in 1 .. Len(r) : r[j] = full[k + j - 1]
      /\ MaxBytes = 0 \/ Bytes(topics, Frames(r)) <= MaxBytes
  <2> HIDE DEF k, rest
  <2> QED
    BY <1>6, <1>8
<1>10. DropOld(q, n, topics) = r
  BY DEF DropOld, full, base
<1> HIDE DEF r, k
<1> DEFINE d == k - 1 + c
<1>11. d \in 0 .. Len(all) /\ Len(r) = Len(all) - d /\ Len(r) <= MaxMessages
  BY <1>1, <1>2, <1>4, <1>5, <1>8, <1>9
<1>12. ASSUME NEW i \in 1 .. Len(r) PROVE r[i] = all[i + d]
  <2> DEFINE l == Len(full)
  <2>1. k \in 1 .. l + 1 /\ l \in Nat /\ Len(r) = l + 1 - k /\ i \in 1 .. Len(r)
    BY <1>5, <1>8, <1>9
  <2> HIDE DEF l
  <2>2. k + i - 1 \in 1 .. l
    BY <2>1
  <2>3. (k + i - 1) + c = i + d
    BY <1>4, <2>1
  <2> HIDE DEF d
  <2> QED
    BY <1>5, <1>9, <2>2, <2>3 DEF l
<1>13. \E e \in 0 .. Len(all) :
         /\ Len(r) = Len(all) - e
         /\ \A i \in 1 .. Len(r) : r[i] = all[i + e]
  BY <1>11, <1>12
<1> QED
  BY <1>9, <1>10, <1>11, <1>13 DEF all

\* Whatever gives way under drop_old is older than what stays.
LEMMA DropOldKeeps ==
    ASSUME NEW topics \in Seq(Topics), topics # <<>>,
           NEW q \in Seq(1 .. Len(topics)), Len(q) <= MaxMessages,
           Ordered(q, topics), Len(topics) \notin Frames(q)
    PROVE  LET r == DropOld(q, Len(topics), topics)
           IN  /\ r \in Seq(1 .. Len(topics))
               /\ Frames(r) \subseteq Frames(q) \cup {Len(topics)}
               /\ Ordered(r, topics)
               /\ \A m \in (Frames(q) \cup {Len(topics)}) \ Frames(r), k \in Frames(r) :
                    topics[m] = topics[k] => m < k
               /\ Len(r) <= MaxMessages
               /\ MaxBytes = 0 \/ Bytes(topics, Frames(r)) <= MaxBytes
<1> DEFINE n == Len(topics)
           T == 1 .. n
           all == Append(q, n)
           r == DropOld(q, n, topics)
<1>1. n \in Nat \ {0} /\ n \in T /\ Len(q) \in Nat /\ T \subseteq Nat
  BY EmptySeq, LenProperties
<1>2. /\ all \in Seq(T) /\ Len(all) = Len(q) + 1
      /\ \A i \in 1 .. Len(q) : all[i] = q[i]
      /\ all[Len(q) + 1] = n
  BY <1>1, AppendProperties
<1>3. Frames(all) = Frames(q) \cup {n}
  BY <1>1, FramesProperties
<1>4. \A i \in 1 .. Len(q) : q[i] \in T /\ q[i] < n
  <2>1. ASSUME NEW i \in 1 .. Len(q) PROVE q[i] \in T /\ q[i] # n
    <3>1. q[i] \in T
      BY ElementOfSeq
    <3> QED
      BY <3>1 DEF Frames
  <2> QED
    BY <1>1, <2>1
<1>5. /\ r \in Seq(T) /\ Len(r) <= MaxMessages
      /\ MaxBytes = 0 \/ Bytes(topics, Frames(r)) <= MaxBytes
      /\ \E d \in 0 .. Len(all) :
           /\ Len(r) = Len(all) - d
           /\ \A i \in 1 .. Len(r) : r[i] = all[i + d]
  BY DropOldIs
<1>6. PICK d \in 0 .. Len(all) : /\ Len(r) = Len(all) - d
                                 /\ \A i \in 1 .. Len(r) : r[i] = all[i + d]
  BY <1>5
<1> HIDE DEF r, all
<1>7. Len(all) \in Nat /\ d \in Nat /\ Len(r) \in Nat
  BY <1>1, <1>2, <1>6
<1>8. Ordered(all, topics)
  <2> SUFFICES ASSUME NEW i \in 1 .. Len(all), NEW j \in 1 .. Len(all), i < j,
                      topics[all[i]] = topics[all[j]]
               PROVE  all[i] < all[j]
    BY DEF Ordered
  <2>1. i \in 1 .. Len(q) /\ all[i] = q[i]
    BY <1>1, <1>2
  <2>2. CASE j = Len(q) + 1
    BY <1>2, <1>4, <2>1, <2>2
  <2>3. CASE j # Len(q) + 1
    <3>1. j \in 1 .. Len(q) /\ all[j] = q[j]
      BY <1>1, <1>2, <2>3
    <3> QED
      BY <2>1, <3>1 DEF Ordered
  <2> QED
    BY <2>2, <2>3
<1>9. Within(r, all)
  <2>1. ASSUME NEW i \in 1 .. Len(r) PROVE i + d \in 1 .. Len(all) /\ r[i] = all[i + d]
    BY <1>6, <1>7
  <2>2. ASSUME NEW i \in 1 .. Len(r), NEW j \in 1 .. Len(r), i < j
        PROVE  \E a, b \in 1 .. Len(all) : a < b /\ r[i] = all[a] /\ r[j] = all[b]
    <3>1. i + d < j + d
      BY <1>7, <2>2
    <3> QED
      BY <2>1, <3>1
  <2> QED
    BY <2>1, <2>2 DEF Within
<1>10. all \in Seq(Nat) /\ r \in Seq(Nat)
  BY <1>1, <1>2, <1>5, SeqMonotonic
<1>11. Frames(r) \subseteq Frames(all) /\ Ordered(r, topics)
  BY <1>8, <1>9, <1>10, WithinKeeps
<1>12. ASSUME NEW m \in Frames(all) \ Frames(r), NEW k \in Frames(r), topics[m] = topics[k]
       PROVE  m < k
  <2>1. PICK i \in 1 .. Len(all) : m = all[i]
    BY DEF Frames
  <2>2. PICK j \in 1 .. Len(r) : k = r[j]
    BY DEF Frames
  <2>3. i <= d
    <3>1. CASE i > d
      <4>1. i - d \in 1 .. Len(r) /\ (i - d) + d = i
        BY <1>6, <1>7, <3>1
      <4>2. r[i - d] = m
        BY <1>6, <2>1, <4>1
      <4> QED
        BY <4>1, <4>2 DEF Frames
    <3> QED
      BY <1>7, <3>1
  <2>4. j + d \in 1 .. Len(all) /\ r[j] = all[j + d] /\ i < j + d
    BY <1>6, <1>7, <2>3
  <2> QED
    BY <1>8, <2>1, <2>2, <2>4, <1>12 DEF Ordered
<1> QED
  BY <1>3, <1>5, <1>11, <1>12 DEF r

\* Under conflate the new frame takes the place of that of its topic.
LEMMA LatestIs ==
    ASSUME NEW topics \in Seq(Topics), topics # <<>>,
           NEW q \in Seq(1 .. Len(topics)), OneEach(q, topics), Len(topics) \notin Frames(q)
    PROVE  LET r == Latest(q, Len(topics), topics)
           IN  /\ r \in Seq(1 .. Len(topics))
               /\ Frames(r) \subseteq Frames(q) \cup {Len(topics)}
               /\ Len(topics) \in Frames(r)
               /\ OneEach(r, topics)
<1> DEFINE n == Len(topics)
           T == 1 .. n
           r == Latest(q, n, topics)
           same == {i \in 1 .. Len(q) : topics[q[i]] = topics[n]}
<1>1. n \in Nat \ {0} /\ n \in T /\ Len(q) \in Nat /\ T \subseteq Nat
  BY EmptySeq, LenProperties
<1>2. \A i \in 1 .. Len(q) : q[i] \in T
  BY ElementOfSeq
<1>3. CASE same = {}
  <2>1. r = Append(q, n)
    BY <1>3 DEF Latest
  <2>2. /\ r \in Seq(T) /\ Len(r) = Len(q) + 1
        /\ \A i \in 1 .. Len(q) : r[i] = q[i]
        /\ r[Len(q) + 1] = n
    BY <1>1, <2>1, AppendProperties
  <2>3. Frames(r) = Frames(q) \cup {n}
    BY <1>1, <2>1, FramesProperties
  <2> HIDE DEF r
  <2>4. ASSUME NEW i \in 1 .. Len(r), NEW j \in 1 .. Len(r), topics[r[i]] = topics[r[j]]
        PROVE  i = j
    <3>1. ASSUME NEW h \in 1 .. Len(r), h # Len(q) + 1
          PROVE  h \in 1 .. Len(q) /\ r[h] = q[h] /\ topics[r[h]] # topics[n]
      <4>1. h \in 1 .. Len(q)
        BY <1>1, <2>2, <3>1
      <4> QED
        BY <1>3, <2>2, <4>1
    <3> QED
      BY <2>2, <2>4, <3>1 DEF OneEach
  <2> QED
    BY <2>2, <2>3, <2>4 DEF r, OneEach
<1>4. CASE same # {}
  <2>1. r = [i \in 1 .. Len(q) |-> IF i \in same THEN n ELSE q[i]]
    BY <1>4 DEF Latest
  <2>2. PICK a \in same : TRUE
    BY <1>4
  <2>3. \A i \in same : i = a
    BY <2>2 DEF OneEach
  <2>4. /\ r \in Seq(T) /\ Len(r) = Len(q)
        /\ \A i \in 1 .. Len(q) : r[i] = IF i \in same THEN n ELSE q[i]
    <3> DEFINE g == [i \in 1 .. Len(q) |-> IF i \in same THEN n ELSE q[i]]
    <3>1. g \in [1 .. Len(q) -> T]
      BY <1>1, <1>2
    <3>2. g \in Seq(T) /\ Len(g) = Len(q)
      <4> DEFINE l == Len(q)
      <4>1. l \in Nat /\ g \in [1 .. l -> T]
        BY <1>1, <3>1
      <4> HIDE DEF g, l, T
      <4>2. g \in Seq(T) /\ Len(g) = l
        BY <4>1
      <4> QED
        BY <4>2 DEF l
    <3> QED
      BY <2>1, <3>2
  <2> HIDE DEF r
  <2>5. \A i \in 1 .. Len(q) : topics[r[i]] = topics[q[i]]
    BY <2>4
  <2>6. OneEach(r, topics)
    BY <2>4, <2>5 DEF OneEach
  <2>7. Frames(r) \subseteq Frames(q) \cup {n}
    BY <2>4 DEF Frames
  <2>8. n \in Frames(r)
    <3>1. a \in 1 .. Len(r) /\ r[a] = n
      BY <2>2, <2>4
    <3> QED
      BY <3>1 DEF Frames
  <2> QED
    BY <2>4, <2>6, <2>7, <2>8 DEF r
<1> QED
  BY <1>3, <1>4

-----------------------------------------------------------------------------
(* What conflate keeps *)

Kept(r, m, first) == IF m >= first THEN Append(r, m) ELSE r

\* g gives the frames since first among those at the positions of any subset of S.
Filters(first, q, S, g) ==
    g = [s \in SUBSET S |->
           IF s = {} THEN <<>>
           ELSE LET x == Max(s) IN Kept(g[s \ {x}], q[x], first)]

\* The fold of Since, as a function on the sets of positions, is unique ...
LEMMA FiltersAgree ==
    ASSUME NEW first, NEW q, NEW A \in SUBSET Int, NEW B, NEW g, NEW h,
           Filters(first, q, A, g), Filters(first, q, B, h),
           NEW S, S \subseteq A, S \subseteq B, IsFiniteSet(S)
    PROVE  g[S] = h[S]
<1> DEFINE Bad == {s \in SUBSET S : g[s] # h[s]}
<1>1. SUFFICES ASSUME Bad # {} PROVE FALSE
  OBVIOUS
<1>2. PICK s \in Bad : \A u \in SUBSET s : u # s => u \notin Bad
  <2> HIDE DEF Bad
  <2>1. Bad \subseteq SUBSET S
    BY DEF Bad
  <2> QED
    BY <1>1, <2>1, MinimalSubset
<1>3. s \in SUBSET A /\ s \in SUBSET B /\ IsFiniteSet(s)
  BY <1>2, FS_Subset
<1>4. CASE s = {}
  BY <1>2, <1>3, <1>4 DEF Filters
<1>5. CASE s # {}
  <2> DEFINE x == Max(s)
  <2>1. x \in s
    BY <1>3, <1>5, Greatest
  <2>2. g[s] = Kept(g[s \ {x}], q[x], first) /\ h[s] = Kept(h[s \ {x}], q[x], first)
    BY <1>3, <1>5 DEF Filters
  <2>3. g[s \ {x}] = h[s \ {x}]
    BY <1>2, <2>1
  <2> QED
    BY <1>2, <2>2, <2>3
<1> QED
  BY <1>4, <1>5

\* ... and exists.
LEMMA FiltersExist ==
    ASSUME NEW first, NEW q, NEW S \in SUBSET Int, IsFiniteSet(S)
    PROVE  \E g : Filters(first, q, S, g)
<1> DEFINE Bad == {T \in SUBSET S : ~ \E g : Filters(first, q, T, g)}
<1>1. SUFFICES ASSUME Bad # {} PROVE FALSE
  OBVIOUS
<1>2. PICK T \in Bad : \A U \in SUBSET T : U # T => U \notin Bad
  <2> HIDE DEF Bad
  <2>1. Bad \subseteq SUBSET S
    BY DEF Bad
  <2> QED
    BY <1>1, <2>1, MinimalSubset
<1>3. \A s \in SUBSET T : IsFiniteSet(s) /\ s \subseteq Int
  BY <1>2, FS_Subset
<1> DEFINE G(s) == CHOOSE g : Filters(first, q, s, g)
           Grown(s) == IF s = {} THEN <<>>
                      ELSE LET x == Max(s) IN Kept(G(s \ {x})[s \ {x}], q[x], first)
           all == [s \in SUBSET T |-> Grown(s)]
<1>4. ASSUME NEW s \in SUBSET T, s # T PROVE Filters(first, q, s, G(s))
  <2>1. \E g : Filters(first, q, s, g)
    BY <1>2, <1>4
  <2> QED
    BY <2>1
<1>5. ASSUME NEW s \in SUBSET T, s # T PROVE G(s)[s] = Grown(s)
  <2>1. CASE s = {}
    <3>1. Filters(first, q, s, G(s))
      BY <1>4, <1>5
    <3> HIDE DEF G
    <3> QED
      BY <2>1, <3>1 DEF Filters
  <2>2. CASE s # {}
    <3> DEFINE x == Max(s)
    <3>1. x \in s
      BY <1>3, <2>2, Greatest
    <3>2. Filters(first, q, s, G(s)) /\ Filters(first, q, s \ {x}, G(s \ {x}))
      BY <1>4, <1>5, <3>1
    <3>3. IsFiniteSet(s \ {x}) /\ s \subseteq Int
      BY <1>3
    <3> HIDE DEF G
    <3>4. G(s)[s \ {x}] = G(s \ {x})[s \ {x}]
      BY <3>2, <3>3, FiltersAgree
    <3>5. G(s)[s] = Kept(G(s)[s \ {x}], q[x], first)
      BY <2>2, <3>2 DEF Filters
    <3> QED
      BY <2>2, <3>4, <3>5
  <2> QED
    BY <2>1, <2>2
<1>6. Filters(first, q, T, all)
  <2> HIDE DEF G
  <2>1. ASSUME NEW s \in SUBSET T, s # {}
        PROVE  LET x == Max(s) IN Grown(s) = Kept(all[s \ {x}], q[x], first)
    <3> DEFINE x == Max(s)
    <3>1. x \in s
      BY <1>3, <2>1, Greatest
    <3>2. G(s \ {x})[s \ {x}] = Grown(s \ {x})
      BY <1>5, <3>1
    <3>3. all[s \ {x}] = Grown(s \ {x})
      OBVIOUS
    <3>4. Grown(s) = Kept(G(s \ {x})[s \ {x}], q[x], first)
      BY <2>1
    <3> HIDE DEF Grown, all
    <3> QED
      BY <3>2, <3>3, <3>4
  <2>2. Grown({}) = <<>>
    OBVIOUS
  <2> HIDE DEF Grown
  <2> QED
    BY <2>1, <2>2 DEF Filters
<1> QED
  BY <1>2, <1>6

\* r has the elements of q at the positions s that are not below first, in order.
Filtered(r, T, q, s, first) ==
    /\ r \in Seq(T)
    /\ \A i \in 1 .. Len(r) : \E a \in s : r[i] = q[a] /\ q[a] >= first
    /\ \A i, j \in 1 .. Len(r) : i < j => \E a, b \in s : a < b /\ r[i] = q[a] /\ r[j] = q[b]
    /\ \A a \in s : q[a] >= first => \E i \in 1 .. Len(r) : r[i] = q[a]

\* One step of the fold keeps what Filtered says.
LEMMA FilteredStep ==
    ASSUME NEW T \in SUBSET Nat, NEW q \in Seq(T), NEW first \in Nat,
           NEW s \in SUBSET (1 .. Len(q)), NEW x \in s, \A y \in s : x >= y,
           NEW before, Filtered(before, T, q, s \ {x}, first)
    PROVE  Filtered(Kept(before, q[x], first), T, q, s, first)
<1>1. q[x] \in T /\ x \in Nat /\ \A y \in s \ {x} : y \in Nat /\ y < x
  <2>1. \A y \in s : y \in Nat
    OBVIOUS
  <2> QED
    BY <2>1, ElementOfSeq
<1>2. CASE ~(q[x] >= first)
  BY <1>2 DEF Filtered, Kept
<1>3. CASE q[x] >= first
  <2> DEFINE l == Len(before)
             r == Append(before, q[x])
  <2>1. Kept(before, q[x], first) = r /\ before \in Seq(T)
    BY <1>3 DEF Kept, Filtered
  <2>2. /\ r \in Seq(T) /\ Len(r) = l + 1 /\ l \in Nat
        /\ \A i \in 1 .. l : r[i] = before[i]
        /\ r[l + 1] = q[x]
    BY <1>1, <2>1, AppendProperties, LenProperties
  <2>3. \A i \in 1 .. Len(r) : i \in 1 .. l \/ i = l + 1
    BY <2>2
  <2>4. ASSUME NEW i \in 1 .. l
        PROVE  i \in 1 .. Len(r) /\ r[i] = before[i] /\ \E a \in s \ {x} : before[i] = q[a] /\ q[a] >= first
    BY <2>2 DEF Filtered
  <2> HIDE DEF r
  <2>5. ASSUME NEW i \in 1 .. Len(r) PROVE \E a \in s : r[i] = q[a] /\ q[a] >= first
    BY <1>3, <2>2, <2>3, <2>4
  <2>6. ASSUME NEW i \in 1 .. Len(r), NEW j \in 1 .. Len(r), i < j
        PROVE  \E a, b \in s : a < b /\ r[i] = q[a] /\ r[j] = q[b]
    <3>1. i \in 1 .. l
      BY <2>2, <2>6
    <3>2. CASE j \in 1 .. l
      <4>1. \E a, b \in s \ {x} : a < b /\ before[i] = q[a] /\ before[j] = q[b]
        BY <2>6, <3>1, <3>2 DEF Filtered
      <4> QED
        BY <2>4, <3>1, <3>2, <4>1
    <3>3. CASE j = l + 1
      <4>1. PICK a \in s \ {x} : before[i] = q[a]
        BY <2>4, <3>1
      <4>2. a \in s /\ a < x /\ r[i] = q[a] /\ r[j] = q[x]
        BY <1>1, <2>2, <2>4, <3>1, <3>3, <4>1
      <4> QED
        BY <4>2
    <3> QED
      BY <2>3, <3>2, <3>3
  <2>7. ASSUME NEW a \in s, q[a] >= first PROVE \E i \in 1 .. Len(r) : r[i] = q[a]
    <3>1. CASE a = x
      <4>1. l + 1 \in 1 .. Len(r)
        BY <2>2
      <4> QED
        BY <2>2, <3>1, <4>1
    <3>2. CASE a # x
      <4>1. PICK i \in 1 .. l : before[i] = q[a]
        BY <2>7, <3>2 DEF Filtered
      <4> QED
        BY <2>4, <4>1
    <3> QED
      BY <3>1, <3>2
  <2> QED
    BY <2>1, <2>2, <2>5, <2>6, <2>7 DEF Filtered
<1> QED
  BY <1>2, <1>3

\* Since leaves the frames from first on, in their order.
LEMMA SinceIs ==
    ASSUME NEW T \in SUBSET Nat, NEW q \in Seq(T), NEW first \in Nat
    PROVE  LET r == Since(first, q)
           IN  /\ r \in Seq(T)
               /\ Within(r, q)
               /\ \A m \in Frames(r) : m >= first
               /\ \A m \in Frames(q) : m >= first => m \in Frames(r)
<1> DEFINE D == 1 .. Len(q)
           g == CHOOSE g : Filters(first, q, D, g)
<1>1. Len(q) \in Nat /\ DOMAIN q = D
  BY LenProperties
<1>2. IsFiniteSet(D) /\ D \in SUBSET Int
  <2>1. Len(q) \in Int /\ 1 \in Int
    BY <1>1
  <2> QED
    BY <2>1, FS_Interval
<1>3. Since(first, q) = g[D]
  BY <1>1 DEF Since, FoldLeft, MapThenFoldSet, Filters, Kept
<1>4. Filters(first, q, D, g)
  <2> HIDE DEF D
  <2>1. \E h : Filters(first, q, D, h)
    BY <1>2, FiltersExist
  <2> QED
    BY <2>1
<1> HIDE DEF g
<1> DEFINE Good(s) == Filtered(g[s], T, q, s, first)
           Bad == {s \in SUBSET D : ~Good(s)}
<1>5. Bad = {}
  <2>1. SUFFICES ASSUME Bad # {} PROVE FALSE
    OBVIOUS
  <2>2. PICK s \in Bad : \A u \in SUBSET s : u # s => u \notin Bad
    <3>1. Bad \subseteq SUBSET D
      OBVIOUS
    <3> HIDE DEF Bad, D
    <3> QED
      BY <1>2, <2>1, <3>1, MinimalSubset
  <2>3. s \in SUBSET D /\ IsFiniteSet(s)
    BY <1>2, <2>2, FS_Subset
  <2>4. CASE s = {}
    <3>1. g[s] = <<>>
      BY <1>4, <2>4 DEF Filters
    <3>2. <<>> \in Seq(T) /\ Len(<<>>) = 0
      BY EmptySeq
    <3>3. Filtered(<<>>, T, q, {}, first)
      BY <3>2 DEF Filtered
    <3> QED
      BY <2>2, <2>4, <3>1, <3>3
  <2>5. CASE s # {}
    <3> DEFINE x == Max(s)
    <3>1. x \in s /\ \A y \in s : x >= y
      BY <1>2, <2>3, <2>5, Greatest
    <3>2. g[s] = Kept(g[s \ {x}], q[x], first)
      BY <1>4, <2>3, <2>5 DEF Filters
    <3>3. Good(s \ {x})
      BY <2>2, <2>3, <3>1
    <3> HIDE DEF x
    <3>4. Good(s)
      BY <2>3, <3>1, <3>2, <3>3, FilteredStep
    <3> QED
      BY <2>2, <3>4
  <2> QED
    BY <2>4, <2>5
<1>6. Filtered(g[D], T, q, D, first)
  <2>1. D \in SUBSET D
    OBVIOUS
  <2> HIDE DEF D
  <2> QED
    BY <1>5, <2>1
<1> DEFINE r == g[D]
<1>7. Filtered(r, T, q, D, first)
  BY <1>6
<1> HIDE DEF r
<1>8. r \in Seq(T) /\ Within(r, q)
  BY <1>7 DEF Filtered, Within
<1>9. \A i \in 1 .. Len(r) : r[i] >= first
  BY <1>7 DEF Filtered
<1>10. \A i \in D : q[i] >= first => \E j \in 1 .. Len(r) : r[j] = q[i]
  BY <1>7 DEF Filtered
<1> QED
  BY <1>3, <1>8, <1>9, <1>10 DEF r, Frames

\* Whatever gives way under conflate is older than the frame of its topic that
\* stays, the new frame stays, and alone if it is too big.
LEMMA ConflateKeeps ==
    ASSUME NEW topics \in Seq(Topics), topics # <<>>,
           NEW q \in Seq(1 .. Len(topics)), OneEach(q, topics), Len(topics) \notin Frames(q)
    PROVE  LET r == Conflate(q, Len(topics), topics)
           IN  /\ r \in Seq(1 .. Len(topics))
               /\ Frames(r) \subseteq Frames(q) \cup {Len(topics)}
               /\ OneEach(r, topics)
               /\ \A m \in (Frames(q) \cup {Len(topics)}) \ Frames(r), k \in Frames(r) :
                    topics[m] = topics[k] => m < k
               /\ MaxBytes = 0 \/ Bytes(topics, Frames(r)) <= MaxBytes \/ Len(r) = 1
<1> DEFINE n == Len(topics)
           T == 1 .. n
           full == Latest(q, n, topics)
           late(k) == {m \in Frames(full) : m >= k}
           Fits(k) == MaxBytes = 0 \/ k = n \/ Bytes(topics, late(k)) <= MaxBytes
           from == {k \in Frames(full) : Fits(k)}
           first == Min(from)
           r == Since(first, full)
<1>1. n \in Nat \ {0} /\ n \in T /\ T \in SUBSET Nat
  BY EmptySeq
<1>2. /\ full \in Seq(T) /\ Frames(full) \subseteq Frames(q) \cup {n} /\ n \in Frames(full)
      /\ OneEach(full, topics)
  BY LatestIs
<1>3. Frames(full) \subseteq T /\ Frames(q) \subseteq T
  BY <1>2, FramesProperties
<1>4. first \in Frames(full) /\ first <= n /\ Fits(first)
  <2> HIDE DEF full
  <2>1. n \in from /\ from \in SUBSET Nat
    BY <1>1, <1>2, <1>3
  <2>2. first \in from /\ first <= n
    <3> HIDE DEF from
    <3> QED
      BY <2>1, Least
  <2> HIDE DEF first
  <2> QED
    BY <2>2
<1> HIDE DEF first, full
<1>5. first \in Nat
  BY <1>1, <1>3, <1>4
<1>6. /\ r \in Seq(T) /\ Within(r, full)
      /\ \A m \in Frames(r) : m >= first
      /\ \A m \in Frames(full) : m >= first => m \in Frames(r)
  <2> HIDE DEF r, T
  <2> QED
    BY <1>1, <1>2, <1>5, SinceIs DEF r
<1>7. Conflate(q, n, topics) = r
  BY DEF Conflate, full, first
<1> HIDE DEF r
<1>8. Frames(r) \subseteq Frames(full) /\ OneEach(r, topics)
  <2>1. full \in Seq(Nat) /\ r \in Seq(Nat)
    BY <1>1, <1>2, <1>6, SeqMonotonic
  <2> QED
    BY <1>2, <1>6, <2>1, WithinKeeps
<1>9. n \in Frames(r)
  BY <1>1, <1>2, <1>4, <1>5, <1>6
<1>10. Frames(r) = late(first)
  BY <1>6, <1>8
<1>11. ASSUME first = n PROVE Len(r) = 1
  <2>1. \A m \in Frames(r) : m = n
    BY <1>1, <1>3, <1>6, <1>8, <1>11
  <2>2. \A i \in 1 .. Len(r) : r[i] = n
    BY <2>1 DEF Frames
  <2>3. Len(r) \in Nat
    BY <1>6, LenProperties
  <2>4. \A i, j \in 1 .. Len(r) : i = j
    BY <1>8, <2>2 DEF OneEach
  <2>5. PICK i \in 1 .. Len(r) : TRUE
    BY <1>9 DEF Frames
  <2>6. 1 \in 1 .. Len(r) /\ Len(r) \in 1 .. Len(r)
    BY <2>3, <2>5
  <2> QED
    BY <2>4, <2>6
<1>12. MaxBytes = 0 \/ Bytes(topics, Frames(r)) <= MaxBytes \/ Len(r) = 1
  <2> HIDE DEF late
  <2> QED
    BY <1>4, <1>10, <1>11
<1>13. ASSUME NEW m \in (Frames(q) \cup {n}) \ Frames(r), NEW k \in Frames(r),
              topics[m] = topics[k]
       PROVE  m < k
  <2>1. m \in Frames(q) /\ m # n /\ m \in T /\ k \in T
    BY <1>3, <1>8, <1>9, <1>13
  <2>2. CASE k = n
    BY <1>1, <2>1, <2>2
  <2>3. CASE k # n
    <3>1. k \in Frames(q)
      BY <1>2, <1>8, <2>3
    <3>2. m = k
      BY <1>13, <2>1, <3>1 DEF OneEach, Frames
    <3> QED
      BY <1>13, <3>2
  <2> QED
    BY <2>2, <2>3
<1> QED
  BY <1>2, <1>6, <1>7, <1>8, <1>12, <1>13

Buffer(n) == [policy : {"drop_old", "conflate"}, q : Seq(1 .. n)]

Sorted(b, topics) ==
    /\ Ordered(b.q, topics)
    /\ b.policy = "conflate" => OneEach(b.q, topics)

Limited(b, topics) ==
    /\ b.policy = "drop_old" => Len(b.q) <= MaxMessages
    /\ \/ MaxBytes = 0
       \/ Bytes(topics, Frames(b.q)) <= MaxBytes
       \/ b.policy = "conflate" /\ Len(b.q) = 1

\* What either policy does with a new frame.
LEMMA EnqueuedKeeps ==
    ASSUME NEW topics \in Seq(Topics), topics # <<>>,
           NEW b \in Buffer(Len(topics)), Sorted(b, topics), Limited(b, topics),
           Len(topics) \notin Frames(b.q)
    PROVE  LET r == Enqueued(b, Len(topics), topics)
           IN  /\ r \in Buffer(Len(topics)) /\ r.policy = b.policy
               /\ Sorted(r, topics) /\ Limited(r, topics)
               /\ Frames(r.q) \subseteq Frames(b.q) \cup {Len(topics)}
               /\ \A m \in (Frames(b.q) \cup {Len(topics)}) \ Frames(r.q), k \in Frames(r.q) :
                    topics[m] = topics[k] => m < k
<1> DEFINE n == Len(topics)
           r == Enqueued(b, n, topics)
<1>1. b.q \in Seq(1 .. n) /\ b.policy \in {"drop_old", "conflate"}
  BY DEF Buffer
<1>2. CASE b.policy = "drop_old"
  <2> DEFINE p == DropOld(b.q, n, topics)
  <2>1. /\ p \in Seq(1 .. n) /\ Frames(p) \subseteq Frames(b.q) \cup {n}
        /\ Ordered(p, topics)
        /\ \A m \in (Frames(b.q) \cup {n}) \ Frames(p), k \in Frames(p) :
             topics[m] = topics[k] => m < k
        /\ Len(p) <= MaxMessages
        /\ MaxBytes = 0 \/ Bytes(topics, Frames(p)) <= MaxBytes
    BY <1>1, <1>2, DropOldKeeps DEF Sorted, Limited
  <2>2. r = [b EXCEPT !.q = p]
    BY <1>2 DEF Enqueued
  <2> HIDE DEF p, r
  <2>3. r \in Buffer(n) /\ r.policy = b.policy /\ r.q = p
    BY <2>1, <2>2 DEF Buffer
  <2> QED
    BY <1>2, <2>1, <2>3 DEF Sorted, Limited, r
<1>3. CASE b.policy = "conflate"
  <2> DEFINE p == Conflate(b.q, n, topics)
  <2>1. /\ p \in Seq(1 .. n) /\ Frames(p) \subseteq Frames(b.q) \cup {n}
        /\ OneEach(p, topics)
        /\ \A m \in (Frames(b.q) \cup {n}) \ Frames(p), k \in Frames(p) :
             topics[m] = topics[k] => m < k
        /\ MaxBytes = 0 \/ Bytes(topics, Frames(p)) <= MaxBytes \/ Len(p) = 1
    BY <1>1, <1>3, ConflateKeeps DEF Sorted
  <2>2. r = [b EXCEPT !.q = p]
    BY <1>3 DEF Enqueued
  <2> HIDE DEF p, r
  <2>3. r \in Buffer(n) /\ r.policy = b.policy /\ r.q = p
    BY <2>1, <2>2 DEF Buffer
  <2>4. Ordered(p, topics)
    <3>1. \A i, j \in 1 .. Len(p) : i < j => i # j
      <4>1. Len(p) \in Nat
        BY <2>1, LenProperties
      <4> QED
        BY <4>1
    <3> QED
      BY <2>1, <3>1 DEF Ordered, OneEach
  <2> QED
    BY <1>3, <2>1, <2>3, <2>4 DEF Sorted, Limited, r
<1> QED
  BY <1>1, <1>2, <1>3

-----------------------------------------------------------------------------
(* The inductive invariant *)

Data ==
    [pc : {"idle", "enqueue", "credit", "window", "drain"}, slot : 0 .. 2,
     credit : {-1} \cup Nat, budget : {-1} \cup Nat, sent : 0 .. DrainBudget,
     now : Nat, win : {"none", "same", "gone"}]

Reasons == {"evicted", "expired", "conflated", "refused", "lost"}

Windows == [credit : Nat, spent : Nat]

Typed ==
    /\ slot \in [1 .. 2 -> Buffer(Len(topicOf))]
    /\ current \in 0 .. 2
    /\ credit \in {-1} \cup Nat
    /\ window \in {NoWindow} \cup Windows
    /\ data \in Data
    /\ control \in [pc : {"idle", "open", "clear"}, credit : Nat]
    /\ pipe \in 0 .. Pipe /\ old \in 0 .. Len(topicOf)
    /\ topicOf \in Seq(Topics) /\ sent \in Seq(Numbers)
    /\ count \in [Reasons -> SUBSET Numbers]
    /\ spent \in Nat /\ overhang \in 0 .. DrainBudget

\* What the locals of the data thread are outside a drain, and what is cleared.
LocalsOK ==
    /\ data.pc # "drain" => data.sent = 0 /\ data.win = "none"
    /\ data.slot # 0 <=> data.pc \in {"credit", "window", "drain"}
    /\ data.win = "same" => window # NoWindow
    /\ data.pc = "enqueue" => topicOf # <<>>
    /\ control.pc = "clear" => current # 0

\* Only one buffer holds frames: the one that is drained, or else the one in use.
InUse == IF data.slot # 0 THEN data.slot ELSE current

SlotsOK ==
    \A i \in 1 .. 2 :
       /\ slot[i].q # <<>> => i = InUse
       /\ Sorted(slot[i], topicOf) /\ Limited(slot[i], topicOf)

\* A frame is in one of the places.
OneOf(places, n) ==
    \E k \in 1 .. 9 : n \in places[k] /\ \A i \in 1 .. 9 : n \in places[i] => i = k

PlacesOK == \A n \in Numbers : OneOf(Places, n)

\* What is sent is older than what waits in a buffer, and so is what gave way.
SentFirst ==
    \A i \in 1 .. 2 : \A m \in Frames(slot[i].q), k \in Frames(sent) :
        topicOf[m] = topicOf[k] => k < m

OrderOK == SentInOrder /\ SentFirst /\ OldestGivesWay

\* What the drain under way can still send.
StillToSend ==
    LET rest == DrainBudget - data.sent
    IN IF data.budget \in 0 .. rest THEN data.budget ELSE rest

\* The window is that of the last heartbeat; what was sent since it was opened
\* is written down in it, or to be written down by the drain that counts in it,
\* or was allowed by a window before.
WindowOK ==
    /\ control.pc = "open" => credit = control.credit
    /\ window # NoWindow =>
         /\ control.pc = "idle" => credit = window.credit
         /\ window.spent <= window.credit
         /\ data.pc # "drain" => spent <= window.spent + overhang
         /\ data.pc = "drain" /\ data.win = "same" =>
              /\ data.budget \in Nat /\ data.sent + data.budget = window.credit - window.spent
              /\ spent <= window.spent + data.sent + overhang
         /\ data.pc = "drain" /\ data.win # "same" => spent + StillToSend <= overhang

Inv == Typed /\ LocalsOK /\ SlotsOK /\ PlacesOK /\ OrderOK /\ WindowOK

-----------------------------------------------------------------------------
(* Types *)

\* A buffer of frames numbered up to n is one of frames numbered up to n + 1.
LEMMA BufferGrows ==
    ASSUME NEW n \in Nat, NEW b \in Buffer(n)
    PROVE  b \in Buffer(n + 1)
<1>1. b.q \in Seq(1 .. n + 1)
  <2>1. 1 .. n \subseteq 1 .. n + 1 /\ b.q \in Seq(1 .. n)
    BY DEF Buffer
  <2> QED
    BY <2>1, SeqMonotonic
<1> QED
  BY <1>1 DEF Buffer

LEMMA BufferTail ==
    ASSUME NEW n \in Nat, NEW b \in Buffer(n), b.q # <<>>
    PROVE  [b EXCEPT !.q = Tail(@)] \in Buffer(n)
<1>1. Tail(b.q) \in Seq(1 .. n)
  <2>1. b.q \in Seq(1 .. n)
    BY DEF Buffer
  <2> QED
    BY <2>1, HeadTailProperties
<1> QED
  BY <1>1 DEF Buffer

LEMMA EmptyBuffer ==
    ASSUME NEW n, NEW p \in {"drop_old", "conflate"}
    PROVE  Empty(p) \in Buffer(n) /\ Unused \in Buffer(n)
  BY EmptySeq DEF Empty, Unused, Buffer

\* What a newly routed frame does to the types.
LEMMA TypesGrow ==
    ASSUME Typed, NEW t \in Topics, topicOf' = Append(topicOf, t)
    PROVE  /\ topicOf' \in Seq(Topics) /\ Len(topicOf') = Len(topicOf) + 1
           /\ Len(topicOf) \in Nat
           /\ Numbers' = Numbers \cup {Len(topicOf) + 1}
           /\ slot \in [1 .. 2 -> Buffer(Len(topicOf'))]
           /\ sent \in Seq(Numbers')
           /\ count \in [Reasons -> SUBSET (Numbers')]
           /\ old \in 0 .. Len(topicOf')
           /\ \A i \in 1 .. Len(topicOf) : topicOf'[i] = topicOf[i]
           /\ topicOf'[Len(topicOf) + 1] = t
<1>1. /\ topicOf \in Seq(Topics) /\ sent \in Seq(Numbers) /\ count \in [Reasons -> SUBSET Numbers]
      /\ slot \in [1 .. 2 -> Buffer(Len(topicOf))] /\ old \in 0 .. Len(topicOf)
  BY DEF Typed
<1>2. /\ topicOf' \in Seq(Topics) /\ Len(topicOf') = Len(topicOf) + 1
      /\ \A i \in 1 .. Len(topicOf) : topicOf'[i] = topicOf[i]
      /\ topicOf'[Len(topicOf) + 1] = t
  BY <1>1, AppendProperties
<1>3. Len(topicOf) \in Nat
  BY <1>1, LenProperties
<1>4. Numbers' = Numbers \cup {Len(topicOf) + 1}
  BY <1>2, <1>3 DEF Numbers
<1>5. slot \in [1 .. 2 -> Buffer(Len(topicOf'))]
  BY <1>1, <1>2, <1>3, BufferGrows
<1>6. sent \in Seq(Numbers')
  BY <1>1, <1>4, SeqMonotonic
<1> QED
  BY <1>1, <1>2, <1>3, <1>4, <1>5, <1>6

LEMMA TypedInit == Init => Typed /\ LocalsOK
<1> SUFFICES ASSUME Init PROVE Typed /\ LocalsOK
  OBVIOUS
<1>1. /\ <<>> \in Seq(Topics) /\ Len(<<>>) = 0 /\ <<>> \in Seq(Numbers) /\ topicOf = <<>>
  BY EmptySeq DEF Init
<1>2. slot \in [1 .. 2 -> Buffer(Len(topicOf))]
  BY EmptyBuffer DEF Init
<1>3. count \in [Reasons -> SUBSET Numbers]
  BY DEF Init, Reasons
<1>4. data \in Data /\ pipe \in 0 .. Pipe
  BY ConstantsAssumption DEF Init, Data, Idle
<1>5. overhang \in 0 .. DrainBudget
  BY ConstantsAssumption DEF Init
<1> QED
  BY <1>1, <1>2, <1>3, <1>4, <1>5 DEF Init, Typed, LocalsOK, Idle

\* The frames of the buffers have numbers.
LEMMA SlotTypes ==
    ASSUME Typed, NEW i \in 1 .. 2
    PROVE  /\ slot[i] \in Buffer(Len(topicOf)) /\ slot[i].q \in Seq(Numbers)
           /\ slot[i].q \in Seq(Nat) /\ Len(topicOf) \in Nat
           /\ Frames(slot[i].q) \subseteq Numbers
<1>1. slot[i] \in Buffer(Len(topicOf)) /\ slot[i].q \in Seq(Numbers)
  BY DEF Typed, Buffer, Numbers
<1>2. topicOf \in Seq(Topics)
  BY DEF Typed
<1>3. Len(topicOf) \in Nat
  BY <1>2, LenProperties
<1>4. Numbers \subseteq Nat
  BY <1>3 DEF Numbers
<1>5. slot[i].q \in Seq(Nat)
  BY <1>1, <1>4, SeqMonotonic
<1>6. Frames(slot[i].q) \subseteq Numbers
  BY <1>1, FramesProperties
<1> QED
  BY <1>1, <1>3, <1>5, <1>6

\* The frame in the hands of the data thread is nowhere else.
LEMMA InHand ==
    ASSUME Inv, data.pc = "enqueue"
    PROVE  /\ topicOf # <<>> /\ Len(topicOf) \in Numbers
           /\ Len(topicOf) \notin Frames(slot[1].q) /\ Len(topicOf) \notin Frames(slot[2].q)
           /\ Len(topicOf) \notin Frames(sent)
           /\ \A r \in Reasons : Len(topicOf) \notin count[r]
<1> DEFINE n == Len(topicOf)
<1>1. topicOf # <<>> /\ topicOf \in Seq(Topics)
  BY DEF Inv, LocalsOK, Typed
<1>2. n \in Numbers
  <2>1. n \in Nat \ {0}
    BY <1>1, EmptySeq
  <2> QED
    BY <2>1 DEF Numbers
<1>3. PICK k \in 1 .. 9 : n \in Places[k] /\ \A i \in 1 .. 9 : n \in Places[i] => i = k
  BY <1>2 DEF Inv, PlacesOK, OneOf
<1>4. Places[1] = {n}
  BY DEF Places
<1>5. k = 1
  BY <1>3, <1>4
<1>6. \A i \in 2 .. 9 : n \notin Places[i]
  BY <1>3, <1>5
<1>7. /\ Places[2] = Frames(slot[1].q) /\ Places[3] = Frames(slot[2].q)
      /\ Places[4] = Frames(sent) /\ Places[5] = count["evicted"]
      /\ Places[6] = count["expired"] /\ Places[7] = count["conflated"]
      /\ Places[8] = count["refused"] /\ Places[9] = count["lost"]
  BY DEF Places
<1> QED
  BY <1>1, <1>2, <1>6, <1>7 DEF Reasons

\* What enqueue() does with a buffer.
LEMMA EnqueueIs ==
    ASSUME Inv, Enqueue, current # 0
    PROVE  \E r \in Buffer(Len(topicOf)) :
             \E same \in SUBSET ((Frames(slot[current].q) \cup {Len(topicOf)}) \ Frames(r.q)) :
               LET n == Len(topicOf)
                   gone == (Frames(slot[current].q) \cup {n}) \ Frames(r.q)
               IN  /\ slot' = [slot EXCEPT ![current] = r]
                   /\ count' = [count EXCEPT !["conflated"] = @ \cup same,
                                             !["evicted"] = @ \cup (gone \ same)]
                   /\ Sorted(r, topicOf) /\ Limited(r, topicOf)
                   /\ Frames(r.q) \subseteq Frames(slot[current].q) \cup {n}
                   /\ \A m \in gone, k \in Frames(r.q) : topicOf[m] = topicOf[k] => m < k
<1> DEFINE n == Len(topicOf)
           r == Enqueued(slot[current], n, topicOf)
           gone == (Frames(slot[current].q) \cup {n}) \ Frames(r.q)
           same == {m \in gone \ {n} : r.policy = "conflate" /\ topicOf[m] = topicOf[n]}
<1>1. current \in 1 .. 2 /\ data.pc = "enqueue" /\ topicOf \in Seq(Topics)
  BY DEF Inv, Typed, Enqueue
<1>2. /\ topicOf # <<>> /\ n \notin Frames(slot[current].q)
  <2>1. current = 1 \/ current = 2
    BY <1>1
  <2> QED
    BY <1>1, <2>1, InHand
<1>3. slot[current] \in Buffer(n) /\ Sorted(slot[current], topicOf) /\ Limited(slot[current], topicOf)
  BY <1>1, SlotTypes DEF Inv, SlotsOK
<1>4. /\ r \in Buffer(n) /\ Sorted(r, topicOf) /\ Limited(r, topicOf)
      /\ Frames(r.q) \subseteq Frames(slot[current].q) \cup {n}
      /\ \A m \in gone, k \in Frames(r.q) : topicOf[m] = topicOf[k] => m < k
  BY <1>1, <1>2, <1>3, EnqueuedKeeps
<1>5. /\ slot' = [slot EXCEPT ![current] = r]
      /\ count' = [count EXCEPT !["conflated"] = @ \cup same, !["evicted"] = @ \cup (gone \ same)]
  BY DEF Enqueue
<1>6. same \in SUBSET gone
  OBVIOUS
<1> HIDE DEF r, same
<1> QED
  BY <1>4, <1>5, <1>6

\* What the data thread does with the buffer it lets go of.
LEMMA LetGoIs ==
    ASSUME Typed, data.slot \in 1 .. 2, LetGo
    PROVE  /\ slot' = IF data.slot = current THEN slot ELSE [slot EXCEPT ![data.slot] = Unused]
           /\ count' = IF data.slot = current THEN count
                       ELSE [count EXCEPT !["lost"] = @ \cup Frames(slot[data.slot].q)]
           /\ slot' \in [1 .. 2 -> Buffer(Len(topicOf))]
           /\ count' \in [Reasons -> SUBSET Numbers]
<1>1. /\ slot' = IF data.slot = current THEN slot ELSE [slot EXCEPT ![data.slot] = Unused]
      /\ count' = IF data.slot = current THEN count
                  ELSE [count EXCEPT !["lost"] = @ \cup Frames(slot[data.slot].q)]
  BY DEF LetGo
<1>2. slot \in [1 .. 2 -> Buffer(Len(topicOf))] /\ count \in [Reasons -> SUBSET Numbers]
  BY DEF Typed
<1>3. Unused \in Buffer(Len(topicOf)) /\ Frames(slot[data.slot].q) \subseteq Numbers
  BY EmptyBuffer, SlotTypes
<1> QED
  BY <1>1, <1>2, <1>3 DEF Reasons

\* A drain takes the first frame out of a buffer.
LEMMA TailTyped ==
    ASSUME Typed, NEW s \in 1 .. 2, slot[s].q # <<>>, slot' = [slot EXCEPT ![s].q = Tail(@)]
    PROVE  /\ slot' \in [1 .. 2 -> Buffer(Len(topicOf))]
           /\ slot'[s].policy = slot[s].policy /\ slot'[s].q = Tail(slot[s].q)
           /\ \A i \in 1 .. 2 : i # s => slot'[i] = slot[i]
<1> DEFINE r == [slot[s] EXCEPT !.q = Tail(@)]
<1>1. r \in Buffer(Len(topicOf)) /\ r.policy = slot[s].policy /\ r.q = Tail(slot[s].q)
  <2>1. slot[s] \in Buffer(Len(topicOf)) /\ Len(topicOf) \in Nat
    BY SlotTypes
  <2>2. r \in Buffer(Len(topicOf))
    BY <2>1, BufferTail
  <2> QED
    BY <2>1, <2>2 DEF Buffer
<1>2. slot' = [slot EXCEPT ![s] = r] /\ slot \in [1 .. 2 -> Buffer(Len(topicOf))]
  BY DEF Typed
<1> HIDE DEF r
<1> QED
  BY <1>1, <1>2

\* What clear() does with the buffer in use.
LEMMA ClearIs ==
    ASSUME Typed, LocalsOK, Clear
    PROVE  /\ current \in 1 .. 2
           /\ slot' = IF data.slot = current THEN slot ELSE [slot EXCEPT ![current] = Unused]
           /\ count' = IF data.slot = current THEN count
                       ELSE [count EXCEPT !["lost"] = @ \cup Frames(slot[current].q)]
           /\ slot' \in [1 .. 2 -> Buffer(Len(topicOf))]
           /\ count' \in [Reasons -> SUBSET Numbers]
<1>1. current \in 1 .. 2
  BY DEF Typed, LocalsOK, Clear
<1>2. /\ slot' = IF data.slot = current THEN slot ELSE [slot EXCEPT ![current] = Unused]
      /\ count' = IF data.slot = current THEN count
                  ELSE [count EXCEPT !["lost"] = @ \cup Frames(slot[current].q)]
  BY DEF Clear
<1>3. slot \in [1 .. 2 -> Buffer(Len(topicOf))] /\ count \in [Reasons -> SUBSET Numbers]
  BY DEF Typed
<1>4. Unused \in Buffer(Len(topicOf)) /\ Frames(slot[current].q) \subseteq Numbers
  BY <1>1, EmptyBuffer, SlotTypes
<1> QED
  BY <1>1, <1>2, <1>3, <1>4 DEF Reasons

\* Every step keeps the types.
LEMMA TypedNext ==
    ASSUME Inv, [Next]_vars
    PROVE  Typed' /\ LocalsOK'
<1>1. /\ Typed /\ LocalsOK
      /\ slot \in [1 .. 2 -> Buffer(Len(topicOf))] /\ current \in 0 .. 2
      /\ credit \in {-1} \cup Nat /\ window \in {NoWindow} \cup Windows
      /\ data \in Data /\ control \in [pc : {"idle", "open", "clear"}, credit : Nat]
      /\ pipe \in 0 .. Pipe /\ old \in 0 .. Len(topicOf)
      /\ topicOf \in Seq(Topics) /\ sent \in Seq(Numbers)
      /\ count \in [Reasons -> SUBSET Numbers]
      /\ spent \in Nat /\ overhang \in 0 .. DrainBudget
  BY DEF Inv, Typed
<1>2. /\ Len(topicOf) \in Nat /\ Pipe \in Nat /\ DrainBudget \in Nat \ {0}
  BY <1>1, LenProperties, ConstantsAssumption
<1>3. Idle \in Data /\ Idle.pc = "idle" /\ Idle.slot = 0 /\ Idle.sent = 0 /\ Idle.win = "none"
  BY <1>2 DEF Idle, Data
<1>4. UNCHANGED topicOf => Numbers' = Numbers
  BY DEF Numbers
<1>5. CASE UNCHANGED vars
  BY <1>1, <1>4, <1>5 DEF vars, Typed, LocalsOK
<1>6. ASSUME NEW t \in Topics, ToBuffer(t) PROVE Typed' /\ LocalsOK'
  <2>1. topicOf' = Append(topicOf, t) /\ data' = [data EXCEPT !.pc = "enqueue"] /\ data.pc = "idle"
    BY <1>6 DEF ToBuffer
  <2>2. topicOf' # <<>>
    BY <1>1, <1>2, <2>1, TypesGrow, EmptySeq
  <2>3. data' \in Data
    BY <1>1, <2>1 DEF Data
  <2>4. data'.pc = "enqueue" /\ data'.slot = 0 /\ data'.sent = 0 /\ data'.win = "none"
    BY <1>1, <2>1 DEF LocalsOK, Data
  <2> QED
    BY <1>1, <1>6, <2>1, <2>2, <2>3, <2>4, TypesGrow DEF ToBuffer, Typed, LocalsOK
<1>7. ASSUME NEW t \in Topics, Direct(t) PROVE Typed' /\ LocalsOK'
  <2>1. topicOf' = Append(topicOf, t) /\ data' = data
    BY <1>7 DEF Direct
  <2>2. /\ topicOf' \in Seq(Topics) /\ Len(topicOf') = Len(topicOf) + 1
        /\ Numbers' = Numbers \cup {Len(topicOf) + 1}
        /\ slot \in [1 .. 2 -> Buffer(Len(topicOf'))] /\ sent \in Seq(Numbers')
        /\ count \in [Reasons -> SUBSET (Numbers')] /\ old \in 0 .. Len(topicOf')
    BY <1>1, <2>1, TypesGrow
  <2>3. CASE credit = 0 \/ pipe = Pipe
    <3>1. /\ count' = [count EXCEPT !["refused"] = @ \cup {Len(topicOf')}]
          /\ pipe' = pipe /\ sent' = sent
      BY <1>7, <2>3 DEF Direct
    <3>2. count' \in [Reasons -> SUBSET (Numbers')]
      BY <2>2, <3>1 DEF Reasons
    <3> QED
      BY <1>1, <1>7, <2>1, <2>2, <3>1, <3>2 DEF Direct, Typed, LocalsOK
  <2>4. CASE ~(credit = 0 \/ pipe = Pipe)
    <3>1. pipe' = pipe + 1 /\ sent' = Append(sent, Len(topicOf')) /\ count' = count
      BY <1>7, <2>4 DEF Direct, Transmit
    <3>2. pipe' \in 0 .. Pipe
      BY <1>1, <1>2, <2>4, <3>1
    <3>3. sent' \in Seq(Numbers')
      <4>1. Len(topicOf') \in Numbers'
        BY <2>2
      <4> QED
        BY <2>2, <3>1, <4>1, AppendProperties
    <3> QED
      BY <1>1, <1>7, <2>1, <2>2, <3>1, <3>2, <3>3 DEF Direct, Typed, LocalsOK
  <2> QED
    BY <2>3, <2>4
<1>8. CASE Enqueue
  <2>1. data' = Idle /\ UNCHANGED <<current, credit, window, control, pipe, old, topicOf, sent, spent, overhang>>
    BY <1>8 DEF Enqueue
  <2>2. slot' \in [1 .. 2 -> Buffer(Len(topicOf))] /\ count' \in [Reasons -> SUBSET Numbers]
    <3>1. CASE current = 0
      <4>1. slot' = slot /\ count' = [count EXCEPT !["lost"] = @ \cup {Len(topicOf)}]
        BY <1>8, <3>1 DEF Enqueue
      <4>2. Len(topicOf) \in Numbers
        BY <1>8, InHand DEF Enqueue
      <4> QED
        BY <1>1, <4>1, <4>2 DEF Reasons
    <3>2. CASE current # 0
      <4> DEFINE all == Frames(slot[current].q) \cup {Len(topicOf)}
      <4>1. PICK r \in Buffer(Len(topicOf)) : \E same \in SUBSET (all \ Frames(r.q)) :
              /\ slot' = [slot EXCEPT ![current] = r]
              /\ count' = [count EXCEPT !["conflated"] = @ \cup same,
                                        !["evicted"] = @ \cup ((all \ Frames(r.q)) \ same)]
        BY <1>8, <3>2, EnqueueIs
      <4> PICK same \in SUBSET (all \ Frames(r.q)) :
            /\ slot' = [slot EXCEPT ![current] = r]
            /\ count' = [count EXCEPT !["conflated"] = @ \cup same,
                                      !["evicted"] = @ \cup ((all \ Frames(r.q)) \ same)]
        BY <4>1
      <4>2. all \subseteq Numbers
        <5>1. current \in 1 .. 2
          BY <1>1, <3>2
        <5>2. Len(topicOf) \in Numbers
          BY <1>8, InHand DEF Enqueue
        <5> QED
          BY <1>1, <5>1, <5>2, SlotTypes
      <4>3. slot' \in [1 .. 2 -> Buffer(Len(topicOf))]
        BY <1>1, <4>1
      <4> HIDE DEF all
      <4>4. count' \in [Reasons -> SUBSET Numbers]
        BY <1>1, <4>1, <4>2 DEF Reasons
      <4> QED
        BY <4>3, <4>4
    <3> QED
      BY <3>1, <3>2
  <2> QED
    BY <1>1, <1>3, <1>4, <2>1, <2>2 DEF Typed, LocalsOK
<1>9. CASE Pick
  <2>1. /\ data' = [data EXCEPT !.pc = "credit", !.slot = current] /\ current # 0 /\ data.pc = "idle"
        /\ UNCHANGED <<slot, current, credit, window, control, pipe, old, topicOf, sent, count, spent, overhang>>
    BY <1>9 DEF Pick
  <2>2. data' \in Data /\ data'.pc = "credit" /\ data'.slot = current /\ data'.sent = data.sent
        /\ data'.win = data.win
    BY <1>1, <2>1 DEF Data
  <2> QED
    BY <1>1, <1>4, <2>1, <2>2 DEF Typed, LocalsOK
<1>10. CASE ReadCredit
  <2>1. /\ data' = [data EXCEPT !.pc = "window", !.credit = credit] /\ data.pc = "credit"
        /\ UNCHANGED <<slot, current, credit, window, control, pipe, old, topicOf, sent, count, spent, overhang>>
    BY <1>10 DEF ReadCredit
  <2>2. data' \in Data /\ data'.pc = "window" /\ data'.slot = data.slot /\ data'.sent = data.sent
        /\ data'.win = data.win
    BY <1>1, <2>1 DEF Data
  <2> QED
    BY <1>1, <1>4, <2>1, <2>2 DEF Typed, LocalsOK
<1>11. CASE ReadWindow
  <2>1. /\ data.pc = "window"
        /\ UNCHANGED <<current, credit, window, control, pipe, old, topicOf, sent, spent, overhang>>
    BY <1>11 DEF ReadWindow
  <2>2. CASE Starved
    <3>1. LetGo /\ data' = Idle
      BY <1>11, <2>2 DEF ReadWindow
    <3>2. data.slot \in 1 .. 2
      BY <1>1, <2>1 DEF LocalsOK, Data
    <3>3. slot' \in [1 .. 2 -> Buffer(Len(topicOf))] /\ count' \in [Reasons -> SUBSET Numbers]
      BY <1>1, <3>1, <3>2, LetGoIs
    <3> QED
      BY <1>1, <1>3, <1>4, <2>1, <3>1, <3>3 DEF Typed, LocalsOK
  <2>3. CASE ~Starved
    <3> DEFINE b == IF Metered THEN window.credit - window.spent ELSE -1
               w == IF Metered THEN "same" ELSE "none"
    <3>1. /\ data' = [data EXCEPT !.pc = "drain", !.now = old, !.credit = -1, !.budget = b, !.win = w]
          /\ slot' = slot /\ count' = count
      BY <1>11, <2>3 DEF ReadWindow
    <3>2. b \in {-1} \cup Nat /\ (w = "same" => window # NoWindow) /\ w \in {"none", "same", "gone"}
      <4>1. CASE Metered
        <5>1. window # NoWindow
          <6>1. window = NoWindow => Starved
            BY <4>1 DEF Starved, NoWindow
          <6> QED
            BY <2>3, <6>1
        <5>2. window.credit \in Nat /\ window.spent \in Nat
          BY <1>1, <5>1 DEF Windows
        <5>3. window.credit - window.spent > 0
          BY <2>3, <4>1, <5>2 DEF Starved
        <5> QED
          BY <4>1, <5>1, <5>2, <5>3
      <4>2. CASE ~Metered
        BY <4>2
      <4> QED
        BY <4>1, <4>2
    <3> HIDE DEF b, w
    <3>3. old \in Nat
      BY <1>1, <1>2
    <3>4. data' \in Data /\ data'.pc = "drain" /\ data'.slot = data.slot /\ data'.win = w
      BY <1>1, <3>1, <3>2, <3>3 DEF Data
    <3> QED
      BY <1>1, <1>4, <2>1, <3>1, <3>2, <3>4 DEF Typed, LocalsOK
  <2> QED
    BY <2>2, <2>3
<1>12. CASE Expire
  <2> DEFINE s == data.slot
  <2>1. /\ s \in 1 .. 2 /\ slot[s].q # <<>> /\ slot' = [slot EXCEPT ![s].q = Tail(@)]
        /\ count' = [count EXCEPT !["expired"] = @ \cup {Head(slot[s].q)}]
        /\ UNCHANGED <<current, credit, window, data, control, pipe, old, topicOf, sent, spent, overhang>>
    <3>1. data.pc = "drain" /\ slot[s].q # <<>>
      BY <1>12 DEF Expire, Draining
    <3>2. s \in 1 .. 2
      BY <1>1, <3>1 DEF LocalsOK, Data
    <3>3. count' = [count EXCEPT !["expired"] = @ \cup {Head(slot[s].q)}]
      BY <1>12 DEF Expire, Oldest
    <3> QED
      BY <1>12, <3>1, <3>2, <3>3 DEF Expire
  <2>2. slot' \in [1 .. 2 -> Buffer(Len(topicOf))]
    BY <1>1, <1>2, <2>1, TailTyped
  <2>3. Head(slot[s].q) \in Numbers
    BY <1>1, <2>1, SlotTypes, FramesProperties
  <2>4. count' \in [Reasons -> SUBSET Numbers]
    <3> HIDE DEF s
    <3> QED
      BY <1>1, <2>1, <2>3 DEF Reasons
  <2> QED
    BY <1>1, <1>4, <2>1, <2>2, <2>4 DEF Typed, LocalsOK
<1>13. CASE SendOldest
  <2> DEFINE s == data.slot
             b == IF data.budget > 0 THEN data.budget - 1 ELSE data.budget
  <2>1. /\ s \in 1 .. 2 /\ slot[s].q # <<>> /\ slot' = [slot EXCEPT ![s].q = Tail(@)]
        /\ pipe < Pipe /\ pipe' = pipe + 1 /\ sent' = Append(sent, Head(slot[s].q))
        /\ data' = [data EXCEPT !.sent = data.sent + 1, !.budget = b]
        /\ data.sent < DrainBudget /\ data.pc = "drain"
        /\ spent' = IF window = NoWindow THEN 0 ELSE spent + 1
        /\ UNCHANGED <<current, credit, window, control, old, topicOf, count, overhang>>
    BY <1>1, <1>13 DEF SendOldest, Transmits, Sendable, Transmit, Draining, Oldest, LocalsOK, Data
  <2>2. slot' \in [1 .. 2 -> Buffer(Len(topicOf))]
    BY <1>1, <1>2, <2>1, TailTyped
  <2>3. Head(slot[s].q) \in Numbers
    BY <1>1, <2>1, SlotTypes, FramesProperties
  <2>4. sent' \in Seq(Numbers) /\ pipe' \in 0 .. Pipe /\ spent' \in Nat
    BY <1>1, <1>2, <2>1, <2>3, AppendProperties
  <2>5. data.sent + 1 \in 0 .. DrainBudget /\ b \in {-1} \cup Nat
    <3>1. data.sent \in 0 .. DrainBudget /\ data.budget \in {-1} \cup Nat
      BY <1>1 DEF Data
    <3>2. data.sent + 1 \in 0 .. DrainBudget
      BY <1>2, <2>1, <3>1
    <3>3. b \in {-1} \cup Nat
      BY <3>1
    <3> QED
      BY <3>2, <3>3
  <2> HIDE DEF b, s
  <2>6. data' \in Data /\ data'.pc = "drain" /\ data'.slot = data.slot /\ data'.win = data.win
    BY <1>1, <2>1, <2>5 DEF Data
  <2> QED
    BY <1>1, <1>4, <2>1, <2>2, <2>4, <2>6 DEF Typed, LocalsOK
<1>14. CASE Settle
  <2>1. /\ data.pc = "drain" /\ LetGo /\ data' = Idle
        /\ window' = IF data.win = "same" THEN [window EXCEPT !.spent = @ + data.sent] ELSE window
        /\ UNCHANGED <<current, credit, control, pipe, old, topicOf, sent, spent, overhang>>
    BY <1>14 DEF Settle
  <2>2. data.slot \in 1 .. 2
    BY <1>1, <2>1 DEF LocalsOK, Data
  <2>3. slot' \in [1 .. 2 -> Buffer(Len(topicOf))] /\ count' \in [Reasons -> SUBSET Numbers]
    BY <1>1, <2>1, <2>2, LetGoIs
  <2>4. window' \in {NoWindow} \cup Windows
    <3>1. CASE data.win = "same"
      <4>1. window \in Windows /\ data.sent \in Nat
        BY <1>1, <1>2, <3>1 DEF LocalsOK, Data
      <4>2. window.spent + data.sent \in Nat
        BY <4>1 DEF Windows
      <4> QED
        BY <2>1, <3>1, <4>1, <4>2 DEF Windows
    <3>2. CASE data.win # "same"
      BY <1>1, <2>1, <3>2
    <3> QED
      BY <3>1, <3>2
  <2> QED
    BY <1>1, <1>3, <1>4, <2>1, <2>3, <2>4 DEF Typed, LocalsOK
<1>15. ASSUME NEW p \in Policies, Register(p) PROVE Typed' /\ LocalsOK'
  <2> DEFINE free == IF data.slot = 1 THEN 2 ELSE 1
  <2>1. /\ current' = free /\ slot' = [slot EXCEPT ![free] = Empty(p)]
        /\ UNCHANGED <<credit, window, data, control, pipe, old, topicOf, sent, count, spent, overhang>>
    BY <1>15 DEF Register
  <2>2. Empty(p) \in Buffer(Len(topicOf))
    BY ConstantsAssumption, EmptyBuffer
  <2> QED
    BY <1>1, <1>4, <2>1, <2>2 DEF Typed, LocalsOK
<1>16. ASSUME NEW c \in Credits, Heartbeat(c) PROVE Typed' /\ LocalsOK'
  <2>1. c \in Nat
    BY ConstantsAssumption
  <2> QED
    BY <1>1, <1>4, <1>16, <2>1 DEF Heartbeat, Typed, LocalsOK
<1>17. CASE OpenWindow
  <2>1. /\ data' = [data EXCEPT !.win = IF @ = "same" THEN "gone" ELSE @]
        /\ control' = [pc |-> "idle", credit |-> 0] /\ spent' = 0
        /\ overhang' = (IF data.pc # "drain" THEN 0 ELSE StillToSend)
        /\ window' = [credit |-> control.credit, spent |-> 0]
        /\ UNCHANGED <<slot, current, credit, pipe, old, topicOf, sent, count>>
    BY <1>17 DEF OpenWindow, StillToSend, NewWindow
  <2>2. /\ data' \in Data /\ data'.pc = data.pc /\ data'.slot = data.slot /\ data'.sent = data.sent
        /\ data'.win # "same" /\ (data.win = "none" => data'.win = "none")
    BY <1>1, <2>1 DEF Data
  <2>3. StillToSend \in 0 .. DrainBudget
    BY <1>1, <1>2 DEF StillToSend, Data
  <2>4. overhang' \in 0 .. DrainBudget
    BY <1>2, <2>1, <2>3
  <2>5. window' \in Windows /\ control' \in [pc : {"idle", "open", "clear"}, credit : Nat]
    BY <1>1, <2>1 DEF Windows
  <2> QED
    BY <1>1, <1>4, <2>1, <2>2, <2>4, <2>5 DEF Typed, LocalsOK
<1>18. CASE Forget
  BY <1>1, <1>4, <1>18 DEF Forget, Typed, LocalsOK
<1>19. CASE Clear
  <2>1. /\ current' = 0 /\ window' = NoWindow /\ spent' = 0 /\ overhang' = 0
        /\ data' = [data EXCEPT !.win = IF @ = "same" THEN "gone" ELSE @]
        /\ control' = [control EXCEPT !.pc = "idle"]
        /\ UNCHANGED <<credit, pipe, old, topicOf, sent>>
    BY <1>19 DEF Clear
  <2>2. /\ data' \in Data /\ data'.pc = data.pc /\ data'.slot = data.slot /\ data'.sent = data.sent
        /\ data'.win # "same" /\ (data.win = "none" => data'.win = "none")
    BY <1>1, <2>1 DEF Data
  <2>3. slot' \in [1 .. 2 -> Buffer(Len(topicOf))] /\ count' \in [Reasons -> SUBSET Numbers]
    BY <1>1, <1>19, ClearIs
  <2>4. overhang' \in 0 .. DrainBudget
    BY <1>2, <2>1
  <2> QED
    BY <1>1, <1>4, <2>1, <2>2, <2>3, <2>4 DEF Typed, LocalsOK
<1>20. CASE Receive
  <2>1. pipe' \in 0 .. Pipe
    BY <1>1, <1>2, <1>20 DEF Receive
  <2> QED
    BY <1>1, <1>4, <1>20, <2>1 DEF Receive, Typed, LocalsOK
<1>21. CASE Age
  <2>1. old' \in 0 .. Len(topicOf)
    BY <1>1, <1>2, <1>21 DEF Age
  <2> QED
    BY <1>1, <1>4, <1>21, <2>1 DEF Age, Typed, LocalsOK
<1> QED
  BY <1>5, <1>6, <1>7, <1>8, <1>9, <1>10, <1>11, <1>12, <1>13, <1>14, <1>15, <1>16, <1>17,
     <1>18, <1>19, <1>20, <1>21 DEF Next, Broadcast, Drain, Control

-----------------------------------------------------------------------------
(* The buffers *)

\* An empty buffer is in order and within its limits ...
LEMMA EmptyKeeps ==
    ASSUME NEW topics \in Seq(Topics), NEW p \in {"drop_old", "conflate"}
    PROVE  /\ Sorted(Empty(p), topics) /\ Limited(Empty(p), topics)
           /\ Sorted(Unused, topics) /\ Limited(Unused, topics)
           /\ Empty(p).q = <<>> /\ Unused.q = <<>>
<1>1. Len(<<>>) = 0 /\ Frames(<<>>) = {}
  BY EmptySeq, FramesEmpty
<1>2. Bytes(topics, {}) = 0
  BY BytesProperties
<1>3. ASSUME NEW r \in {"drop_old", "conflate"}
      PROVE  Sorted(Empty(r), topics) /\ Limited(Empty(r), topics) /\ Empty(r).q = <<>>
  <2>1. Empty(r).q = <<>>
    BY DEF Empty
  <2>2. Ordered(<<>>, topics) /\ OneEach(<<>>, topics)
    BY <1>1 DEF Ordered, OneEach
  <2>3. 0 <= MaxMessages /\ 0 <= MaxBytes
    BY ConstantsAssumption
  <2> QED
    BY <1>1, <1>2, <2>1, <2>2, <2>3 DEF Sorted, Limited
<1> QED
  BY <1>3 DEF Unused

\* ... a buffer stays so when a frame is routed ...
LEMMA GrowthKeeps ==
    ASSUME NEW topics \in Seq(Topics), NEW t \in Topics, NEW b \in Buffer(Len(topics)),
           Sorted(b, topics), Limited(b, topics)
    PROVE  Sorted(b, Append(topics, t)) /\ Limited(b, Append(topics, t))
<1> DEFINE more == Append(topics, t)
<1>1. b.q \in Seq(1 .. Len(topics))
  BY DEF Buffer
<1>2. Frames(b.q) \subseteq 1 .. Len(topics) /\ \A i \in 1 .. Len(b.q) : b.q[i] \in 1 .. Len(topics)
  BY <1>1, FramesProperties, ElementOfSeq
<1>3. \A i \in 1 .. Len(topics) : more[i] = topics[i]
  BY AppendProperties
<1>4. Bytes(more, Frames(b.q)) = Bytes(topics, Frames(b.q))
  BY <1>2, BytesProperties
<1> HIDE DEF more
<1>5. \A i \in 1 .. Len(b.q) : more[b.q[i]] = topics[b.q[i]]
  BY <1>2, <1>3
<1>6. Sorted(b, more)
  BY <1>5 DEF Sorted, Ordered, OneEach
<1>7. Limited(b, more)
  BY <1>4 DEF Limited
<1> QED
  BY <1>6, <1>7 DEF more

\* ... and when its first frame leaves it.
LEMMA TailKeeps ==
    ASSUME NEW topics \in Seq(Topics), NEW b \in Buffer(Len(topics)), b.q # <<>>,
           Sorted(b, topics), Limited(b, topics),
           NEW r \in Buffer(Len(topics)), r.q = Tail(b.q), r.policy = b.policy
    PROVE  Sorted(r, topics) /\ Limited(r, topics)
<1>1. b.q \in Seq(1 .. Len(topics)) /\ r.q \in Seq(1 .. Len(topics)) /\ Len(topics) \in Nat
  BY LenProperties DEF Buffer
<1>2. b.q \in Seq(Nat) /\ r.q \in Seq(Nat)
  <2>1. 1 .. Len(topics) \subseteq Nat
    BY <1>1
  <2> QED
    BY <1>1, <2>1, SeqMonotonic
<1>3. Within(r.q, b.q)
  BY <1>1, TailWithin
<1>4. Sorted(r, topics)
  BY <1>2, <1>3, WithinKeeps DEF Sorted
<1>5. Len(r.q) = Len(b.q) - 1 /\ Len(b.q) \in Nat
  BY <1>1, HeadTailProperties, LenProperties
<1>6. Frames(r.q) \subseteq Frames(b.q) /\ Frames(b.q) \subseteq 1 .. Len(topics)
  BY <1>1, <1>2, <1>3, WithinKeeps, FramesProperties
<1>7. /\ Bytes(topics, Frames(r.q)) \in Nat /\ Bytes(topics, Frames(b.q)) \in Nat
      /\ Bytes(topics, Frames(r.q)) <= Bytes(topics, Frames(b.q))
  BY <1>6, BytesProperties
<1>8. Len(b.q) = 1 => Bytes(topics, Frames(r.q)) = 0
  <2>1. Len(b.q) = 1 => r.q = <<>>
    <3>1. Len(b.q) = 1 => Len(r.q) = 0
      BY <1>5
    <3> QED
      BY <1>1, <3>1, EmptySeq
  <2> QED
    BY <2>1, FramesEmpty, BytesProperties
<1>9. MaxBytes \in Nat /\ MaxMessages \in Nat
  BY ConstantsAssumption
<1>10. r.policy = "drop_old" => Len(r.q) <= MaxMessages
  BY <1>5, <1>9 DEF Limited
<1>11. MaxBytes = 0 \/ Bytes(topics, Frames(r.q)) <= MaxBytes
  BY <1>7, <1>8, <1>9 DEF Limited
<1>12. Limited(r, topics)
  BY <1>10, <1>11 DEF Limited
<1> QED
  BY <1>4, <1>12

\* A buffer in use takes on another value, or none.
LEMMA OneSlotChanges ==
    ASSUME Typed, SlotsOK, UNCHANGED topicOf,
           NEW s \in 1 .. 2, NEW r, Sorted(r, topicOf), Limited(r, topicOf),
           slot' = [slot EXCEPT ![s] = r],
           InUse' = InUse \/ s = InUse,
           r.q # <<>> => s = InUse'
    PROVE  SlotsOK'
<1>1. slot \in [1 .. 2 -> Buffer(Len(topicOf))]
  BY DEF Typed
<1>2. ASSUME NEW i \in 1 .. 2
      PROVE  /\ slot'[i].q # <<>> => i = InUse'
             /\ Sorted(slot'[i], topicOf) /\ Limited(slot'[i], topicOf)
  BY <1>1 DEF SlotsOK
<1> QED
  BY <1>2 DEF SlotsOK

LEMMA SlotsInit == Init => SlotsOK
<1> SUFFICES ASSUME Init PROVE SlotsOK
  OBVIOUS
<1>1. topicOf \in Seq(Topics)
  BY EmptySeq DEF Init
<1> QED
  BY <1>1, EmptyKeeps DEF Init, SlotsOK

\* Every step keeps the buffers in order, within their limits, and one of them empty.
LEMMA SlotsNext ==
    ASSUME Inv, [Next]_vars
    PROVE  SlotsOK'
<1>1. /\ Typed /\ LocalsOK /\ SlotsOK
      /\ slot \in [1 .. 2 -> Buffer(Len(topicOf))] /\ current \in 0 .. 2 /\ data \in Data
      /\ topicOf \in Seq(Topics)
  BY DEF Inv, Typed
<1>2. UNCHANGED <<slot, topicOf>> /\ InUse' = InUse => SlotsOK'
  BY <1>1 DEF SlotsOK
<1>3. ASSUME NEW t \in Topics, topicOf' = Append(topicOf, t), slot' = slot, InUse' = InUse
      PROVE  SlotsOK'
  <2>1. ASSUME NEW i \in 1 .. 2
        PROVE  Sorted(slot[i], Append(topicOf, t)) /\ Limited(slot[i], Append(topicOf, t))
    BY <1>1, GrowthKeeps DEF SlotsOK
  <2> QED
    BY <1>1, <1>3, <2>1 DEF SlotsOK
<1>4. \A i \in 1 .. 2 : Sorted(Unused, topicOf) /\ Limited(Unused, topicOf) /\ Unused.q = <<>>
  BY <1>1, EmptyKeeps
<1>5. CASE UNCHANGED vars
  BY <1>2, <1>5 DEF vars, InUse
<1>6. ASSUME NEW t \in Topics, ToBuffer(t) PROVE SlotsOK'
  <2>1. data' = [data EXCEPT !.pc = "enqueue"] /\ current' = current /\ slot' = slot
        /\ topicOf' = Append(topicOf, t)
    BY <1>6 DEF ToBuffer
  <2>2. data'.slot = data.slot
    BY <1>1, <2>1 DEF Data
  <2>3. InUse' = InUse
    BY <2>1, <2>2 DEF InUse
  <2> QED
    BY <1>3, <2>1, <2>3
<1>7. ASSUME NEW t \in Topics, Direct(t) PROVE SlotsOK'
  BY <1>3, <1>7 DEF Direct, InUse
<1>8. CASE Enqueue
  <2>1. data.slot = 0 /\ data'.slot = 0 /\ current' = current /\ topicOf' = topicOf
    BY <1>1, <1>8 DEF Enqueue, LocalsOK, Idle
  <2>2. InUse = current /\ InUse' = current
    BY <2>1 DEF InUse
  <2>3. CASE current = 0
    <3>1. slot' = slot
      BY <1>8, <2>3 DEF Enqueue
    <3> QED
      BY <1>2, <2>1, <2>2, <3>1
  <2>4. CASE current # 0
    <3>1. PICK r \in Buffer(Len(topicOf)) :
            slot' = [slot EXCEPT ![current] = r] /\ Sorted(r, topicOf) /\ Limited(r, topicOf)
      BY <1>8, <2>4, EnqueueIs
    <3>2. PICK s \in 1 .. 2 : s = current
      BY <1>1, <2>4
    <3>3. slot' = [slot EXCEPT ![s] = r] /\ s = InUse' /\ InUse' = InUse
      BY <2>2, <3>1, <3>2
    <3> QED
      BY <1>1, <2>1, <3>1, <3>3, OneSlotChanges
  <2> QED
    BY <2>3, <2>4
<1>9. CASE Pick
  <2>1. data' = [data EXCEPT !.pc = "credit", !.slot = current] /\ data.pc = "idle" /\ current # 0
        /\ UNCHANGED <<slot, current, topicOf>>
    BY <1>9 DEF Pick
  <2>2. data'.slot = current /\ data.slot = 0
    BY <1>1, <2>1 DEF Data, LocalsOK
  <2>3. InUse' = InUse
    BY <2>1, <2>2 DEF InUse
  <2> QED
    BY <1>2, <2>1, <2>3
<1>10. CASE ReadCredit
  <2>1. data' = [data EXCEPT !.pc = "window", !.credit = credit] /\ UNCHANGED <<slot, current, topicOf>>
    BY <1>10 DEF ReadCredit
  <2>2. data'.slot = data.slot
    BY <1>1, <2>1 DEF Data
  <2> QED
    BY <1>2, <2>1, <2>2 DEF InUse
<1>11. ASSUME LetGo, data' = Idle, data.slot \in 1 .. 2, UNCHANGED <<current, topicOf>>
       PROVE  SlotsOK'
  <2>1. InUse' = current /\ InUse = data.slot
    BY <1>11 DEF InUse, Idle
  <2>2. CASE data.slot = current
    <3>1. slot' = slot
      BY <1>11, <2>2 DEF LetGo
    <3> QED
      BY <1>2, <1>11, <2>1, <2>2, <3>1
  <2>3. CASE data.slot # current
    <3>1. PICK s \in 1 .. 2 : s = data.slot
      BY <1>11
    <3>2. slot' = [slot EXCEPT ![s] = Unused]
      BY <1>11, <2>3, <3>1 DEF LetGo
    <3> QED
      BY <1>1, <1>4, <1>11, <2>1, <3>1, <3>2, OneSlotChanges
  <2> QED
    BY <2>2, <2>3
<1>12. CASE ReadWindow
  <2>1. data.pc = "window" /\ UNCHANGED <<current, topicOf>>
    BY <1>12 DEF ReadWindow
  <2>2. data.slot \in 1 .. 2
    BY <1>1, <2>1 DEF LocalsOK, Data
  <2>3. CASE Starved
    BY <1>11, <1>12, <2>1, <2>2, <2>3 DEF ReadWindow
  <2>4. CASE ~Starved
    <3> DEFINE b == IF Metered THEN window.credit - window.spent ELSE -1
               w == IF Metered THEN "same" ELSE "none"
    <3>1. /\ data' = [data EXCEPT !.pc = "drain", !.now = old, !.credit = -1, !.budget = b, !.win = w]
          /\ slot' = slot
      BY <1>12, <2>4 DEF ReadWindow
    <3> HIDE DEF b, w
    <3>2. data'.slot = data.slot
      BY <1>1, <3>1 DEF Data
    <3> QED
      BY <1>2, <2>1, <3>1, <3>2 DEF InUse
  <2> QED
    BY <2>3, <2>4
<1>13. ASSUME NEW s \in 1 .. 2, slot[s].q # <<>>, s = InUse, slot' = [slot EXCEPT ![s].q = Tail(@)],
              InUse' = InUse, UNCHANGED topicOf
       PROVE  SlotsOK'
  <2>1. /\ slot' \in [1 .. 2 -> Buffer(Len(topicOf))]
        /\ slot'[s].policy = slot[s].policy /\ slot'[s].q = Tail(slot[s].q)
        /\ \A i \in 1 .. 2 : i # s => slot'[i] = slot[i]
    BY <1>1, <1>13, TailTyped
  <2>2. Sorted(slot'[s], topicOf) /\ Limited(slot'[s], topicOf)
    BY <1>1, <1>13, <2>1, TailKeeps DEF SlotsOK
  <2>3. \A i \in 1 .. 2 : /\ slot'[i].q # <<>> => i = InUse'
                          /\ Sorted(slot'[i], topicOf) /\ Limited(slot'[i], topicOf)
    BY <1>1, <1>13, <2>1, <2>2 DEF SlotsOK
  <2> QED
    BY <1>13, <2>3 DEF SlotsOK
<1>14. CASE Expire
  <2>1. data.pc = "drain" /\ slot[data.slot].q # <<>>
        /\ slot' = [slot EXCEPT ![data.slot].q = Tail(@)]
        /\ UNCHANGED <<current, data, topicOf>>
    BY <1>14 DEF Expire, Draining
  <2>2. data.slot \in 1 .. 2
    BY <1>1, <2>1 DEF LocalsOK, Data
  <2>3. InUse = data.slot /\ InUse' = InUse
    BY <2>1, <2>2 DEF InUse
  <2> QED
    BY <1>13, <2>1, <2>2, <2>3
<1>15. CASE SendOldest
  <2> DEFINE b == IF data.budget > 0 THEN data.budget - 1 ELSE data.budget
  <2>1. data.pc = "drain" /\ slot[data.slot].q # <<>>
        /\ slot' = [slot EXCEPT ![data.slot].q = Tail(@)]
        /\ data' = [data EXCEPT !.sent = data.sent + 1, !.budget = b]
        /\ UNCHANGED <<current, topicOf>>
    BY <1>15 DEF SendOldest, Transmits, Draining
  <2> HIDE DEF b
  <2>2. data.slot \in 1 .. 2 /\ data'.slot = data.slot
    BY <1>1, <2>1 DEF LocalsOK, Data
  <2>3. InUse = data.slot /\ InUse' = InUse
    BY <2>1, <2>2 DEF InUse
  <2> QED
    BY <1>13, <2>1, <2>2, <2>3
<1>16. CASE Settle
  <2>1. data.pc = "drain" /\ LetGo /\ data' = Idle /\ UNCHANGED <<current, topicOf>>
    BY <1>16 DEF Settle
  <2>2. data.slot \in 1 .. 2
    BY <1>1, <2>1 DEF LocalsOK, Data
  <2> QED
    BY <1>11, <2>1, <2>2
<1>17. ASSUME NEW p \in Policies, Register(p) PROVE SlotsOK'
  <2>1. PICK s \in 1 .. 2 : s = IF data.slot = 1 THEN 2 ELSE 1
    OBVIOUS
  <2>2. current = 0 /\ current' = s /\ slot' = [slot EXCEPT ![s] = Empty(p)] /\ UNCHANGED <<data, topicOf>>
    BY <1>17, <2>1 DEF Register
  <2>3. Sorted(Empty(p), topicOf) /\ Limited(Empty(p), topicOf) /\ Empty(p).q = <<>>
    BY <1>1, ConstantsAssumption, EmptyKeeps
  <2>4. ASSUME NEW i \in 1 .. 2
        PROVE  /\ slot'[i].q # <<>> => i = InUse'
               /\ Sorted(slot'[i], topicOf) /\ Limited(slot'[i], topicOf)
    <3>1. slot'[i] = IF i = s THEN Empty(p) ELSE slot[i]
      BY <1>1, <2>2
    <3>2. slot[i].q # <<>> => i = InUse' 
      BY <1>1, <2>2 DEF SlotsOK, InUse
    <3> QED
      BY <1>1, <2>3, <3>1, <3>2 DEF SlotsOK
  <2> QED
    BY <2>2, <2>4 DEF SlotsOK
<1>18. ASSUME NEW c \in Credits, Heartbeat(c) PROVE SlotsOK'
  BY <1>2, <1>18 DEF Heartbeat, InUse
<1>19. CASE OpenWindow
  <2>1. data' = [data EXCEPT !.win = IF @ = "same" THEN "gone" ELSE @] /\ UNCHANGED <<slot, current, topicOf>>
    BY <1>19 DEF OpenWindow
  <2>2. data'.slot = data.slot
    BY <1>1, <2>1 DEF Data
  <2> QED
    BY <1>2, <2>1, <2>2 DEF InUse
<1>20. CASE Forget
  BY <1>2, <1>20 DEF Forget, InUse
<1>21. CASE Clear
  <2>1. /\ data' = [data EXCEPT !.win = IF @ = "same" THEN "gone" ELSE @]
        /\ current' = 0 /\ UNCHANGED topicOf
    BY <1>21 DEF Clear
  <2>2. data'.slot = data.slot
    BY <1>1, <2>1 DEF Data
  <2>3. /\ current \in 1 .. 2
        /\ slot' = IF data.slot = current THEN slot ELSE [slot EXCEPT ![current] = Unused]
    BY <1>1, <1>21, ClearIs
  <2>4. CASE data.slot = current
    BY <1>2, <2>1, <2>2, <2>3, <2>4 DEF InUse
  <2>5. CASE data.slot # current
    <3>1. PICK s \in 1 .. 2 : s = current
      BY <2>3
    <3>2. slot' = [slot EXCEPT ![s] = Unused]
      BY <2>3, <2>5, <3>1
    <3>3. InUse' = InUse \/ s = InUse
      BY <2>1, <2>2, <3>1 DEF InUse
    <3> QED
      BY <1>1, <1>4, <2>1, <3>2, <3>3, OneSlotChanges
  <2> QED
    BY <2>4, <2>5
<1>22. CASE Receive
  BY <1>2, <1>22 DEF Receive, InUse
<1>23. CASE Age
  BY <1>2, <1>23 DEF Age, InUse
<1> QED
  BY <1>5, <1>6, <1>7, <1>8, <1>9, <1>10, <1>12, <1>14, <1>15, <1>16, <1>17, <1>18, <1>19,
     <1>20, <1>21, <1>22, <1>23 DEF Next, Broadcast, Drain, Control

-----------------------------------------------------------------------------
(* Where the frames are *)

\* The nine places one by one, before a step and after it.
LEMMA PlacesAre ==
    /\ Places[1] = (IF data.pc = "enqueue" THEN {Len(topicOf)} ELSE {})
    /\ Places[2] = Frames(slot[1].q) /\ Places[3] = Frames(slot[2].q)
    /\ Places[4] = Frames(sent) /\ Places[5] = count["evicted"]
    /\ Places[6] = count["expired"] /\ Places[7] = count["conflated"]
    /\ Places[8] = count["refused"] /\ Places[9] = count["lost"]
  BY DEF Places

LEMMA PlacesWillBe ==
    /\ Places'[1] = (IF data'.pc = "enqueue" THEN {Len(topicOf')} ELSE {})
    /\ Places'[2] = Frames(slot'[1].q) /\ Places'[3] = Frames(slot'[2].q)
    /\ Places'[4] = Frames(sent') /\ Places'[5] = count'["evicted"]
    /\ Places'[6] = count'["expired"] /\ Places'[7] = count'["conflated"]
    /\ Places'[8] = count'["refused"] /\ Places'[9] = count'["lost"]
  BY DEF Places

LEMMA Nine == \A i \in 1 .. 9 : i \in {1, 2, 3, 4, 5, 6, 7, 8, 9}
  OBVIOUS

\* The frames S are moved from place a to place b.
Move(p, a, b, S) ==
    [i \in 1 .. 9 |-> IF i = a THEN p[i] \ S ELSE IF i = b THEN p[i] \cup S ELSE p[i]]

\* A frame that was in one place is in one place after a move.
LEMMA Moved ==
    ASSUME NEW p, NEW n, OneOf(p, n), NEW a \in 1 .. 9, NEW b \in 1 .. 9, a # b,
           NEW S, S \subseteq p[a]
    PROVE  OneOf(Move(p, a, b, S), n)
<1> DEFINE q == Move(p, a, b, S)
<1>1. PICK k \in 1 .. 9 : n \in p[k] /\ \A i \in 1 .. 9 : n \in p[i] => i = k
  BY DEF OneOf
<1>2. \A i \in 1 .. 9 : q[i] = IF i = a THEN p[i] \ S ELSE IF i = b THEN p[i] \cup S ELSE p[i]
  BY DEF Move
<1> HIDE DEF q
<1>3. CASE n \in S
  <2>1. k = a
    BY <1>1, <1>3
  <2>2. n \in q[b] /\ \A i \in 1 .. 9 : n \in q[i] => i = b
    BY <1>1, <1>2, <1>3, <2>1
  <2> QED
    BY <2>2 DEF OneOf, q
<1>4. CASE n \notin S
  <2>1. n \in q[k] /\ \A i \in 1 .. 9 : n \in q[i] => i = k
    BY <1>1, <1>2, <1>4
  <2> QED
    BY <2>1 DEF OneOf, q
<1> QED
  BY <1>3, <1>4

LEMMA SamePlaces ==
    ASSUME NEW p, NEW q, NEW n, OneOf(p, n), \A i \in 1 .. 9 : q[i] = p[i]
    PROVE  OneOf(q, n)
  BY DEF OneOf

\* A step that changes no place keeps every frame in one.
LEMMA StayPut ==
    ASSUME PlacesOK, UNCHANGED topicOf, \A i \in 1 .. 9 : Places'[i] = Places[i]
    PROVE  PlacesOK'
<1>1. Numbers' = Numbers
  BY DEF Numbers
<1>2. \A n \in Numbers : OneOf(Places', n)
  BY SamePlaces DEF PlacesOK
<1> QED
  BY <1>1, <1>2 DEF PlacesOK

\* Frames leave a buffer.
LEMMA MoveOut ==
    ASSUME PlacesOK, UNCHANGED topicOf, NEW s \in 1 .. 2, NEW b \in 4 .. 9,
           NEW S, S \subseteq Frames(slot[s].q),
           \A i \in 1 .. 2 : Frames(slot'[i].q) = IF i = s THEN Frames(slot[i].q) \ S
                                                   ELSE Frames(slot[i].q),
           \A i \in 1 .. 9 : i \notin 2 .. 3 =>
               Places'[i] = IF i = b THEN Places[i] \cup S ELSE Places[i]
    PROVE  PlacesOK'
<1> DEFINE a == s + 1
<1>1. a \in 1 .. 9 /\ b \in 1 .. 9 /\ a # b
  OBVIOUS
<1>2. Places[a] = Frames(slot[s].q)
  <2>1. s = 1 \/ s = 2
    OBVIOUS
  <2> QED
    BY <2>1, PlacesAre
<1>3. ASSUME NEW i \in 1 .. 9 PROVE Places'[i] = Move(Places, a, b, S)[i]
  <2>1. Move(Places, a, b, S)[i] = IF i = a THEN Places[i] \ S
                                   ELSE IF i = b THEN Places[i] \cup S ELSE Places[i]
    BY DEF Move
  <2>2. CASE i \in 2 .. 3
    <3>1. PICK j \in 1 .. 2 : i = j + 1
      <4>1. i = 1 + 1 \/ i = 2 + 1
        BY <2>2
      <4> QED
        BY <4>1
    <3>2. Places[i] = Frames(slot[j].q) /\ Places'[i] = Frames(slot'[j].q)
      <4>1. (j = 1 /\ i = 2) \/ (j = 2 /\ i = 3)
        BY <3>1
      <4> QED
        BY <4>1, PlacesAre, PlacesWillBe
    <3>3. i = a <=> j = s
      BY <3>1
    <3>4. i # b
      BY <2>2
    <3> QED
      BY <2>1, <3>2, <3>3, <3>4
  <2>3. CASE i \notin 2 .. 3
    <3>1. i # a
      BY <2>3
    <3> QED
      BY <2>1, <2>3, <3>1
  <2> QED
    BY <2>2, <2>3
<1>4. Numbers' = Numbers
  BY DEF Numbers
<1> HIDE DEF a
<1>5. ASSUME NEW n \in Numbers PROVE OneOf(Places', n)
  <2>1. OneOf(Places, n)
    BY DEF PlacesOK
  <2>2. OneOf(Move(Places, a, b, S), n)
    BY <1>1, <1>2, <2>1, Moved
  <2> QED
    BY <1>3, <2>2, SamePlaces
<1> QED
  BY <1>4, <1>5 DEF PlacesOK

\* Only frames that were routed are in a place.
LEMMA PlacesTyped ==
    ASSUME Typed, LocalsOK
    PROVE  \A i \in 1 .. 9 : Places[i] \subseteq Numbers
<1>1. (IF data.pc = "enqueue" THEN {Len(topicOf)} ELSE {}) \subseteq Numbers
  <2>1. CASE data.pc = "enqueue"
    <3>1. Len(topicOf) \in Nat \ {0}
      BY <2>1, EmptySeq DEF Typed, LocalsOK
    <3> QED
      BY <2>1, <3>1 DEF Numbers
  <2>2. CASE data.pc # "enqueue"
    BY <2>2
  <2> QED
    BY <2>1, <2>2
<1>2. Frames(slot[1].q) \subseteq Numbers /\ Frames(slot[2].q) \subseteq Numbers
  <2>1. 1 \in 1 .. 2 /\ 2 \in 1 .. 2
    OBVIOUS
  <2> QED
    BY <2>1, SlotTypes
<1>3. Frames(sent) \subseteq Numbers
  BY FramesProperties DEF Typed
<1>4. \A r \in Reasons : count[r] \subseteq Numbers
  BY DEF Typed
<1>5. /\ count["evicted"] \subseteq Numbers /\ count["expired"] \subseteq Numbers
      /\ count["conflated"] \subseteq Numbers /\ count["refused"] \subseteq Numbers
      /\ count["lost"] \subseteq Numbers
  BY <1>4 DEF Reasons
<1>6. ASSUME NEW i \in {1, 2, 3, 4, 5, 6, 7, 8, 9} PROVE Places[i] \subseteq Numbers
  BY <1>1, <1>2, <1>3, <1>5, PlacesAre
<1> QED
  BY <1>6, Nine

\* A new frame appears in one place.
LEMMA Appear ==
    ASSUME Typed, LocalsOK, PlacesOK, NEW t \in Topics, topicOf' = Append(topicOf, t),
           NEW b \in 1 .. 9,
           \A i \in 1 .. 9 : Places'[i] = IF i = b THEN Places[i] \cup {Len(topicOf) + 1}
                                          ELSE Places[i]
    PROVE  PlacesOK'
<1>1. Numbers' = Numbers \cup {Len(topicOf) + 1} /\ Len(topicOf) \in Nat
  BY TypesGrow
<1>2. Len(topicOf) + 1 \notin Numbers
  BY <1>1 DEF Numbers
<1>3. \A i \in 1 .. 9 : Places[i] \subseteq Numbers
  BY PlacesTyped
<1>4. OneOf(Places', Len(topicOf) + 1)
  <2>1. /\ Len(topicOf) + 1 \in Places'[b]
        /\ \A i \in 1 .. 9 : Len(topicOf) + 1 \in Places'[i] => i = b
    BY <1>2, <1>3
  <2> QED
    BY <2>1 DEF OneOf
<1>5. ASSUME NEW n \in Numbers PROVE OneOf(Places', n)
  <2>1. PICK k \in 1 .. 9 : n \in Places[k] /\ \A i \in 1 .. 9 : n \in Places[i] => i = k
    BY DEF PlacesOK, OneOf
  <2>2. n # Len(topicOf) + 1
    BY <1>2
  <2>3. n \in Places'[k] /\ \A i \in 1 .. 9 : n \in Places'[i] => i = k
    BY <2>1, <2>2
  <2> QED
    BY <2>3 DEF OneOf
<1> QED
  BY <1>1, <1>4, <1>5 DEF PlacesOK

LEMMA PlacesInit == Init => PlacesOK
<1>1. Init => topicOf = <<>> /\ Len(<<>>) = 0
  BY EmptySeq DEF Init
<1> QED
  BY <1>1 DEF PlacesOK, Numbers

\* A frame is put into a place, and what does not stay there goes to two others.
PutIn(p, q, c, n, stay, same) ==
    /\ p[1] = {n} /\ c \in 2 .. 3
    /\ stay \subseteq p[c] \cup {n} /\ same \subseteq (p[c] \cup {n}) \ stay
    /\ q[1] = {} /\ q[c] = stay
    /\ q[5] = p[5] \cup (((p[c] \cup {n}) \ stay) \ same) /\ q[7] = p[7] \cup same
    /\ \A i \in {2, 3, 4, 6, 8, 9} : i # c => q[i] = p[i]

\* enqueue() as a move: the frame was in one place and is in one place.
LEMMA PutInKeeps ==
    ASSUME NEW p, NEW q, NEW c, NEW n, NEW stay, NEW same, PutIn(p, q, c, n, stay, same),
           NEW m, OneOf(p, m)
    PROVE  OneOf(q, m)
<1> DEFINE all == p[c] \cup {n}
           out == (all \ stay) \ same
<1> USE DEF PutIn
<1>1. PICK k \in 1 .. 9 : m \in p[k] /\ \A i \in 1 .. 9 : m \in p[i] => i = k
  BY DEF OneOf
<1>2. c \in 1 .. 9 /\ c # 5 /\ c # 7 /\ c # 1 /\ 1 \in 1 .. 9 /\ 5 \in 1 .. 9 /\ 7 \in 1 .. 9
  OBVIOUS
<1>3. ASSUME NEW i \in 1 .. 9, i # 1, i # c, i # 5, i # 7 PROVE q[i] = p[i]
  BY <1>3, Nine
<1>4. q[5] = p[5] \cup out /\ q[7] = p[7] \cup same
  OBVIOUS
<1>5. all = stay \cup same \cup out
  OBVIOUS
<1>6. CASE m \in all
  <2>1. k = 1 \/ k = c
    BY <1>1, <1>2, <1>6
  <2>2. \A i \in 1 .. 9 : i # 1 /\ i # c => m \notin p[i]
    BY <1>1, <2>1, <1>2, <1>6
  <2>3. m \notin p[5] /\ m \notin p[7]
    BY <1>2, <2>2
  <2> HIDE DEF all, out
  <2>4. ASSUME NEW i \in 1 .. 9, m \in q[i]
        PROVE  (i = c /\ m \in stay) \/ (i = 5 /\ m \in out) \/ (i = 7 /\ m \in same)
    BY <1>3, <1>4, <2>2, <2>3, <2>4
  <2>5. \/ m \in stay /\ m \notin same /\ m \notin out
        \/ m \in same /\ m \notin stay /\ m \notin out
        \/ m \in out /\ m \notin stay /\ m \notin same
    BY <1>5, <1>6 DEF all, out
  <2>6. CASE m \in stay
    BY <1>2, <2>4, <2>5, <2>6 DEF OneOf
  <2>7. CASE m \in same
    BY <1>2, <1>4, <2>4, <2>5, <2>7 DEF OneOf
  <2>8. CASE m \in out
    BY <1>2, <1>4, <2>4, <2>5, <2>8 DEF OneOf
  <2> QED
    BY <2>5, <2>6, <2>7, <2>8
<1>7. CASE m \notin all
  <2>1. k # 1 /\ k # c
    BY <1>1, <1>7
  <2>2. m \notin stay /\ m \notin same /\ m \notin out
    BY <1>5, <1>7
  <2> HIDE DEF all, out
  <2>3. m \in q[k]
    BY <1>1, <1>3, <1>4, <2>1
  <2>4. ASSUME NEW i \in 1 .. 9, m \in q[i] PROVE m \in p[i]
    <3>1. CASE i \in {1, c}
      BY <2>2, <2>4, <3>1
    <3>2. CASE i \in {5, 7}
      BY <1>4, <2>2, <2>4, <3>2
    <3>3. CASE i \notin {1, c, 5, 7}
      BY <1>3, <2>4, <3>3
    <3> QED
      BY <3>1, <3>2, <3>3
  <2> QED
    BY <1>1, <2>3, <2>4 DEF OneOf
<1> QED
  BY <1>6, <1>7

\* A frame leaves the hands of the data thread.
LEMMA PlacesEnqueue ==
    ASSUME Inv, Enqueue
    PROVE  PlacesOK'
<1> DEFINE n == Len(topicOf)
<1>1. /\ Typed /\ LocalsOK /\ PlacesOK /\ data.pc = "enqueue"
      /\ data'.pc = "idle" /\ UNCHANGED <<topicOf, sent>>
      /\ slot \in [1 .. 2 -> Buffer(n)] /\ current \in 0 .. 2
      /\ count \in [Reasons -> SUBSET Numbers]
  BY DEF Inv, Typed, Enqueue, Idle
<1>2. Numbers' = Numbers
  BY <1>1 DEF Numbers
<1>3. Places[1] = {n} /\ Places'[1] = {}
  BY <1>1, PlacesAre, PlacesWillBe
<1>4. CASE current = 0
  <2>1. slot' = slot /\ count' = [count EXCEPT !["lost"] = @ \cup {n}]
    BY <1>4 DEF Enqueue
  <2> DEFINE q == Move(Places, 1, 9, {n})
  <2>2. /\ q[1] = Places[1] \ {n} /\ q[9] = Places[9] \cup {n}
        /\ \A i \in {2, 3, 4, 5, 6, 7, 8} : q[i] = Places[i]
    BY DEF Move
  <2>3. /\ count'["lost"] = count["lost"] \cup {n}
        /\ \A r \in Reasons : r # "lost" => count'[r] = count[r]
    BY <1>1, <2>1 DEF Reasons
  <2>4. /\ count'["evicted"] = count["evicted"] /\ count'["expired"] = count["expired"]
        /\ count'["conflated"] = count["conflated"] /\ count'["refused"] = count["refused"]
    BY <2>3 DEF Reasons
  <2> HIDE DEF q
  <2>5. Places'[1] = q[1] /\ Places'[9] = q[9]
    BY <1>3, <2>2, <2>3, PlacesAre, PlacesWillBe
  <2>6. \A i \in {2, 3, 4, 5, 6, 7, 8} : Places'[i] = Places[i]
    BY <1>1, <2>1, <2>4, PlacesAre, PlacesWillBe
  <2>7. \A i \in 1 .. 9 : Places'[i] = q[i]
    <3>1. \A i \in {2, 3, 4, 5, 6, 7, 8} : Places'[i] = q[i]
      BY <2>2, <2>6
    <3> QED
      BY <2>5, <3>1, Nine
  <2>8. ASSUME NEW m \in Numbers PROVE OneOf(Places', m)
    <3>1. OneOf(Places, m)
      BY <1>1 DEF PlacesOK
    <3>2. OneOf(q, m)
      BY <1>3, <3>1, Moved DEF q
    <3> QED
      BY <2>7, <3>2, SamePlaces
  <2> QED
    BY <1>2, <2>8 DEF PlacesOK
<1>5. CASE current # 0
  <2> DEFINE all == Frames(slot[current].q) \cup {n}
  <2>1. PICK r \in Buffer(n) : \E same \in SUBSET (all \ Frames(r.q)) :
          /\ slot' = [slot EXCEPT ![current] = r]
          /\ count' = [count EXCEPT !["conflated"] = @ \cup same,
                                    !["evicted"] = @ \cup ((all \ Frames(r.q)) \ same)]
          /\ Frames(r.q) \subseteq all
    BY <1>5, EnqueueIs
  <2> PICK same \in SUBSET (all \ Frames(r.q)) :
        /\ slot' = [slot EXCEPT ![current] = r]
        /\ count' = [count EXCEPT !["conflated"] = @ \cup same,
                                  !["evicted"] = @ \cup ((all \ Frames(r.q)) \ same)]
        /\ Frames(r.q) \subseteq all
    BY <2>1
  <2>2. PICK c \in 2 .. 3 : c = current + 1
    BY <1>1, <1>5
  <2>3. /\ slot'[current] = r
        /\ \A i \in 1 .. 2 : i # current => slot'[i] = slot[i]
    BY <1>1, <1>5
  <2>4. Places[c] = Frames(slot[current].q) /\ Places'[c] = Frames(r.q)
    <3>1. (current = 1 /\ c = 2) \/ (current = 2 /\ c = 3)
      BY <1>1, <2>2
    <3> QED
      BY <2>3, <3>1, PlacesAre, PlacesWillBe
  <2>5. ASSUME NEW i \in {2, 3}, i # c PROVE Places'[i] = Places[i]
    <3>1. (current = 1 /\ i = 3) \/ (current = 2 /\ i = 2)
      BY <1>1, <2>2, <2>5
    <3> QED
      BY <2>3, <3>1, PlacesAre, PlacesWillBe
  <2> HIDE DEF all
  <2>6. /\ count'["conflated"] = count["conflated"] \cup same
        /\ count'["evicted"] = count["evicted"] \cup ((all \ Frames(r.q)) \ same)
        /\ \A k \in Reasons : k # "conflated" /\ k # "evicted" => count'[k] = count[k]
    BY <1>1 DEF Reasons
  <2>7. /\ count'["expired"] = count["expired"] /\ count'["refused"] = count["refused"]
        /\ count'["lost"] = count["lost"]
    BY <2>6 DEF Reasons
  <2>8. /\ Places'[5] = Places[5] \cup ((all \ Frames(r.q)) \ same)
        /\ Places'[7] = Places[7] \cup same
    BY <2>6, PlacesAre, PlacesWillBe
  <2>9. \A i \in {4, 6, 8, 9} : Places'[i] = Places[i]
    BY <1>1, <2>7, PlacesAre, PlacesWillBe
  <2>10. \A i \in {2, 3, 4, 6, 8, 9} : i # c => Places'[i] = Places[i]
    BY <2>5, <2>9
  <2>11. all = Places[c] \cup {n}
    BY <2>4 DEF all
  <2>12. ASSUME NEW m \in Numbers PROVE OneOf(Places', m)
    <3>1. OneOf(Places, m)
      BY <1>1 DEF PlacesOK
    <3> DEFINE p == Places
               q == Places'
    <3>2. /\ OneOf(p, m) /\ p[1] = {n} /\ q[1] = {} /\ q[c] = Frames(r.q)
          /\ q[5] = p[5] \cup ((all \ Frames(r.q)) \ same) /\ q[7] = p[7] \cup same
          /\ \A i \in {2, 3, 4, 6, 8, 9} : i # c => q[i] = p[i]
      BY <1>3, <2>4, <2>8, <2>10, <3>1
    <3>3. /\ Frames(r.q) \subseteq p[c] \cup {n}
          /\ same \subseteq (p[c] \cup {n}) \ Frames(r.q)
          /\ q[5] = p[5] \cup (((p[c] \cup {n}) \ Frames(r.q)) \ same)
      BY <2>11, <3>2
    <3> DEFINE stay == Frames(r.q)
    <3> HIDE DEF p, q, n, stay
    <3>4. /\ OneOf(p, m) /\ p[1] = {n} /\ q[1] = {} /\ q[7] = p[7] \cup same
          /\ \A i \in {2, 3, 4, 6, 8, 9} : i # c => q[i] = p[i]
          /\ q[c] = stay /\ c \in 2 .. 3 /\ stay \subseteq p[c] \cup {n}
          /\ same \subseteq (p[c] \cup {n}) \ stay
          /\ q[5] = p[5] \cup (((p[c] \cup {n}) \ stay) \ same)
      BY <3>2, <3>3 DEF stay, n
    <3>5. PutIn(p, q, c, n, stay, same)
      BY <3>4 DEF PutIn
    <3>6. OneOf(q, m)
      BY <3>4, <3>5, PutInKeeps
    <3> QED
      BY <3>6 DEF q
  <2> QED
    BY <1>2, <2>12 DEF PlacesOK
<1> QED
  BY <1>4, <1>5

\* Every step keeps every frame in exactly one place.
LEMMA PlacesNext ==
    ASSUME Inv, [Next]_vars
    PROVE  PlacesOK'
<1>1. /\ Typed /\ LocalsOK /\ SlotsOK /\ PlacesOK
      /\ slot \in [1 .. 2 -> Buffer(Len(topicOf))] /\ current \in 0 .. 2 /\ data \in Data
      /\ topicOf \in Seq(Topics) /\ count \in [Reasons -> SUBSET Numbers]
      /\ sent \in Seq(Numbers)
  BY DEF Inv, Typed
<1>2. Unused.q = <<>> /\ \A p \in {"drop_old", "conflate"} : Empty(p).q = <<>>
  BY <1>1, EmptyKeeps
<1>3. ASSUME \A i \in 1 .. 2 : Frames(slot'[i].q) = Frames(slot[i].q),
             UNCHANGED <<sent, count, topicOf>>, data'.pc = "enqueue" <=> data.pc = "enqueue"
      PROVE  PlacesOK'
  <2>1. Frames(slot'[1].q) = Frames(slot[1].q) /\ Frames(slot'[2].q) = Frames(slot[2].q)
    BY <1>3
  <2>2. \A i \in {1, 2, 3, 4, 5, 6, 7, 8, 9} : Places'[i] = Places[i]
    BY <1>3, <2>1, PlacesAre, PlacesWillBe
  <2> QED
    BY <1>1, <1>3, <2>2, Nine, StayPut
<1>4. CASE UNCHANGED vars
  BY <1>3, <1>4 DEF vars
<1>5. ASSUME NEW t \in Topics, ToBuffer(t) PROVE PlacesOK'
  <2>1. /\ data.pc = "idle" /\ data' = [data EXCEPT !.pc = "enqueue"]
        /\ topicOf' = Append(topicOf, t) /\ UNCHANGED <<slot, sent, count>>
    BY <1>5 DEF ToBuffer
  <2>2. data'.pc = "enqueue"
    BY <1>1, <2>1 DEF Data
  <2>3. Len(topicOf') = Len(topicOf) + 1
    BY <1>1, <2>1, TypesGrow
  <2>4. \A i \in {1, 2, 3, 4, 5, 6, 7, 8, 9} :
          Places'[i] = IF i = 1 THEN Places[i] \cup {Len(topicOf) + 1} ELSE Places[i]
    BY <2>1, <2>2, <2>3, PlacesAre, PlacesWillBe
  <2>5. 1 \in 1 .. 9
    OBVIOUS
  <2> QED
    BY <1>1, <2>1, <2>4, <2>5, Nine, Appear
<1>6. ASSUME NEW t \in Topics, Direct(t) PROVE PlacesOK'
  <2>1. /\ data' = data /\ data.pc = "idle" /\ topicOf' = Append(topicOf, t) /\ slot' = slot
    BY <1>6 DEF Direct
  <2>2. Len(topicOf') = Len(topicOf) + 1
    BY <1>1, <2>1, TypesGrow
  <2>3. CASE credit = 0 \/ pipe = Pipe
    <3>1. sent' = sent /\ count' = [count EXCEPT !["refused"] = @ \cup {Len(topicOf) + 1}]
      BY <1>6, <2>2, <2>3 DEF Direct
    <3>2. /\ count'["refused"] = count["refused"] \cup {Len(topicOf) + 1}
          /\ \A r \in Reasons : r # "refused" => count'[r] = count[r]
      BY <1>1, <3>1 DEF Reasons
    <3>3. /\ count'["evicted"] = count["evicted"] /\ count'["expired"] = count["expired"]
          /\ count'["conflated"] = count["conflated"] /\ count'["lost"] = count["lost"]
      BY <3>2 DEF Reasons
    <3>4. \A i \in {1, 2, 3, 4, 5, 6, 7, 8, 9} :
            Places'[i] = IF i = 8 THEN Places[i] \cup {Len(topicOf) + 1} ELSE Places[i]
      BY <2>1, <3>1, <3>2, <3>3, PlacesAre, PlacesWillBe
    <3>5. 8 \in 1 .. 9
      OBVIOUS
    <3> QED
      BY <1>1, <2>1, <3>4, <3>5, Nine, Appear
  <2>4. CASE ~(credit = 0 \/ pipe = Pipe)
    <3>1. sent' = Append(sent, Len(topicOf) + 1) /\ count' = count
      BY <1>6, <2>2, <2>4 DEF Direct, Transmit
    <3>2. Frames(sent') = Frames(sent) \cup {Len(topicOf) + 1}
      <4>1. sent \in Seq(Nat) /\ Len(topicOf) + 1 \in Nat
        <5>1. Len(topicOf) \in Nat
          BY <1>1, LenProperties
        <5>2. Numbers \subseteq Nat
          BY <5>1 DEF Numbers
        <5>3. sent \in Seq(Nat)
          BY <1>1, <5>2, SeqMonotonic
        <5> QED
          BY <5>1, <5>3
      <4> QED
        BY <3>1, <4>1, FramesProperties
    <3>3. \A i \in {1, 2, 3, 4, 5, 6, 7, 8, 9} :
            Places'[i] = IF i = 4 THEN Places[i] \cup {Len(topicOf) + 1} ELSE Places[i]
      BY <2>1, <3>1, <3>2, PlacesAre, PlacesWillBe
    <3>4. 4 \in 1 .. 9
      OBVIOUS
    <3> QED
      BY <1>1, <2>1, <3>3, <3>4, Nine, Appear
  <2> QED
    BY <2>3, <2>4
<1>7. CASE Enqueue
  BY <1>7, PlacesEnqueue
<1>8. CASE Pick
  <2>1. data.pc = "idle" /\ data' = [data EXCEPT !.pc = "credit", !.slot = current]
        /\ UNCHANGED <<slot, sent, count, topicOf>>
    BY <1>8 DEF Pick
  <2>2. data'.pc = "credit"
    BY <1>1, <2>1 DEF Data
  <2> QED
    BY <1>3, <2>1, <2>2
<1>9. CASE ReadCredit
  <2>1. data.pc = "credit" /\ data' = [data EXCEPT !.pc = "window", !.credit = credit]
        /\ UNCHANGED <<slot, sent, count, topicOf>>
    BY <1>9 DEF ReadCredit
  <2>2. data'.pc = "window"
    BY <1>1, <2>1 DEF Data
  <2> QED
    BY <1>3, <2>1, <2>2
<1>10. ASSUME NEW s \in 1 .. 2, slot' = [slot EXCEPT ![s] = Unused],
              count' = [count EXCEPT !["lost"] = @ \cup Frames(slot[s].q)],
              UNCHANGED <<sent, topicOf>>, data'.pc = "enqueue" <=> data.pc = "enqueue"
       PROVE  PlacesOK'
  <2> DEFINE S == Frames(slot[s].q)
  <2>1. slot'[s].q = <<>> /\ \A i \in 1 .. 2 : i # s => slot'[i] = slot[i]
    BY <1>1, <1>2, <1>10
  <2>2. \A i \in 1 .. 2 : Frames(slot'[i].q) = IF i = s THEN Frames(slot[i].q) \ S
                                               ELSE Frames(slot[i].q)
    BY <2>1, FramesEmpty
  <2> HIDE DEF S
  <2>3. /\ count'["lost"] = count["lost"] \cup S
        /\ \A r \in Reasons : r # "lost" => count'[r] = count[r]
    BY <1>1, <1>10 DEF Reasons, S
  <2>4. /\ count'["evicted"] = count["evicted"] /\ count'["expired"] = count["expired"]
        /\ count'["conflated"] = count["conflated"] /\ count'["refused"] = count["refused"]
    BY <2>3 DEF Reasons
  <2>5. \A i \in {1, 4, 5, 6, 7, 8, 9} :
          Places'[i] = IF i = 9 THEN Places[i] \cup S ELSE Places[i]
    BY <1>10, <2>3, <2>4, PlacesAre, PlacesWillBe
  <2>6. \A i \in 1 .. 9 : i \notin 2 .. 3 =>
          Places'[i] = IF i = 9 THEN Places[i] \cup S ELSE Places[i]
    BY <2>5, Nine
  <2>7. S \subseteq Frames(slot[s].q) /\ 9 \in 4 .. 9
    BY DEF S
  <2> QED
    BY <1>1, <1>10, <2>2, <2>6, <2>7, MoveOut
<1>11. ASSUME LetGo, data' = Idle, data.slot \in 1 .. 2, data.pc # "enqueue",
              UNCHANGED <<sent, topicOf>>
       PROVE  PlacesOK'
  <2>1. data'.pc = "idle"
    BY <1>11 DEF Idle
  <2>2. CASE data.slot = current
    <3>1. slot' = slot /\ count' = count
      BY <1>11, <2>2 DEF LetGo
    <3> QED
      BY <1>3, <1>11, <2>1, <3>1
  <2>3. CASE data.slot # current
    <3>1. PICK s \in 1 .. 2 : s = data.slot
      BY <1>11
    <3>2. slot' = [slot EXCEPT ![s] = Unused] /\ count' = [count EXCEPT !["lost"] = @ \cup Frames(slot[s].q)]
      BY <1>11, <2>3, <3>1 DEF LetGo
    <3> QED
      BY <1>10, <1>11, <2>1, <3>2
  <2> QED
    BY <2>2, <2>3
<1>12. CASE ReadWindow
  <2>1. data.pc = "window" /\ UNCHANGED <<sent, topicOf>>
    BY <1>12 DEF ReadWindow
  <2>2. data.slot \in 1 .. 2
    BY <1>1, <2>1 DEF LocalsOK, Data
  <2>3. CASE Starved
    BY <1>11, <1>12, <2>1, <2>2, <2>3 DEF ReadWindow
  <2>4. CASE ~Starved
    <3> DEFINE b == IF Metered THEN window.credit - window.spent ELSE -1
               w == IF Metered THEN "same" ELSE "none"
    <3>1. /\ data' = [data EXCEPT !.pc = "drain", !.now = old, !.credit = -1, !.budget = b, !.win = w]
          /\ slot' = slot /\ count' = count
      BY <1>12, <2>4 DEF ReadWindow
    <3> HIDE DEF b, w
    <3>2. data'.pc = "drain"
      BY <1>1, <3>1 DEF Data
    <3> QED
      BY <1>3, <2>1, <3>1, <3>2
  <2> QED
    BY <2>3, <2>4
<1>13. ASSUME NEW s \in 1 .. 2, slot[s].q # <<>>, slot' = [slot EXCEPT ![s].q = Tail(@)]
       PROVE  /\ {Head(slot[s].q)} \subseteq Frames(slot[s].q)
              /\ \A i \in 1 .. 2 : Frames(slot'[i].q) =
                   IF i = s THEN Frames(slot[i].q) \ {Head(slot[s].q)} ELSE Frames(slot[i].q)
  <2>1. slot'[s].q = Tail(slot[s].q) /\ \A i \in 1 .. 2 : i # s => slot'[i] = slot[i]
    BY <1>1, <1>13, TailTyped
  <2>2. slot[s].q \in Seq(Nat) /\ Ordered(slot[s].q, topicOf)
    BY <1>1, SlotTypes DEF SlotsOK, Sorted
  <2>3. Head(slot[s].q) \notin Frames(Tail(slot[s].q))
    BY <1>13, <2>2, TailWithout
  <2>4. Frames(slot[s].q) = Frames(Tail(slot[s].q)) \cup {Head(slot[s].q)}
    BY <1>13, <2>2, FramesProperties
  <2> QED
    BY <2>1, <2>3, <2>4
<1>14. CASE Expire
  <2>1. /\ data.pc = "drain" /\ slot[data.slot].q # <<>>
        /\ slot' = [slot EXCEPT ![data.slot].q = Tail(@)]
        /\ count' = [count EXCEPT !["expired"] = @ \cup {Head(slot[data.slot].q)}]
        /\ UNCHANGED <<data, topicOf, sent>>
    BY <1>14 DEF Expire, Draining, Oldest
  <2>2. PICK s \in 1 .. 2 : s = data.slot
    BY <1>1, <2>1 DEF LocalsOK, Data
  <2> DEFINE S == {Head(slot[s].q)}
  <2>3. /\ S \subseteq Frames(slot[s].q)
        /\ \A i \in 1 .. 2 : Frames(slot'[i].q) = IF i = s THEN Frames(slot[i].q) \ S
                                                  ELSE Frames(slot[i].q)
    BY <1>13, <2>1, <2>2
  <2>4. count' = [count EXCEPT !["expired"] = @ \cup S]
    BY <2>1, <2>2
  <2> HIDE DEF S
  <2>5. /\ count'["expired"] = count["expired"] \cup S
        /\ \A r \in Reasons : r # "expired" => count'[r] = count[r]
    BY <1>1, <2>4 DEF Reasons
  <2>6. /\ count'["evicted"] = count["evicted"] /\ count'["lost"] = count["lost"]
        /\ count'["conflated"] = count["conflated"] /\ count'["refused"] = count["refused"]
    BY <2>5 DEF Reasons
  <2>7. \A i \in {1, 4, 5, 6, 7, 8, 9} :
          Places'[i] = IF i = 6 THEN Places[i] \cup S ELSE Places[i]
    <3>1. Places'[6] = Places[6] \cup S
      BY <2>5, PlacesAre, PlacesWillBe
    <3>2. \A i \in {1, 4, 5, 7, 8, 9} : Places'[i] = Places[i]
      BY <2>1, <2>6, PlacesAre, PlacesWillBe
    <3> QED
      BY <3>1, <3>2
  <2>8. \A i \in 1 .. 9 : i \notin 2 .. 3 =>
          Places'[i] = IF i = 6 THEN Places[i] \cup S ELSE Places[i]
    BY <2>7, Nine
  <2>9. 6 \in 4 .. 9
    OBVIOUS
  <2> QED
    BY <1>1, <2>1, <2>3, <2>8, <2>9, MoveOut
<1>15. CASE SendOldest
  <2> DEFINE b == IF data.budget > 0 THEN data.budget - 1 ELSE data.budget
  <2>1. /\ data.pc = "drain" /\ slot[data.slot].q # <<>>
        /\ slot' = [slot EXCEPT ![data.slot].q = Tail(@)]
        /\ data' = [data EXCEPT !.sent = data.sent + 1, !.budget = b]
        /\ sent' = Append(sent, Head(slot[data.slot].q))
        /\ UNCHANGED <<topicOf, count>>
    BY <1>15 DEF SendOldest, Transmits, Draining, Sendable, Transmit, Oldest
  <2> HIDE DEF b
  <2>2. PICK s \in 1 .. 2 : s = data.slot
    BY <1>1, <2>1 DEF LocalsOK, Data
  <2>3. data'.pc = "drain"
    BY <1>1, <2>1 DEF Data
  <2> DEFINE S == {Head(slot[s].q)}
  <2>4. /\ S \subseteq Frames(slot[s].q)
        /\ \A i \in 1 .. 2 : Frames(slot'[i].q) = IF i = s THEN Frames(slot[i].q) \ S
                                                  ELSE Frames(slot[i].q)
    BY <1>13, <2>1, <2>2
  <2>5. Frames(sent') = Frames(sent) \cup S
    <3>1. Head(slot[s].q) \in Numbers
      BY <1>1, <2>1, <2>2, SlotTypes, FramesProperties
    <3> QED
      BY <1>1, <2>1, <2>2, <3>1, FramesProperties
  <2> HIDE DEF S
  <2>6. \A i \in {1, 4, 5, 6, 7, 8, 9} :
          Places'[i] = IF i = 4 THEN Places[i] \cup S ELSE Places[i]
    BY <2>1, <2>3, <2>5, PlacesAre, PlacesWillBe
  <2>7. \A i \in 1 .. 9 : i \notin 2 .. 3 =>
          Places'[i] = IF i = 4 THEN Places[i] \cup S ELSE Places[i]
    BY <2>6, Nine
  <2>8. 4 \in 4 .. 9
    OBVIOUS
  <2> QED
    BY <1>1, <2>1, <2>4, <2>7, <2>8, MoveOut
<1>16. CASE Settle
  <2>1. data.pc = "drain" /\ LetGo /\ data' = Idle /\ UNCHANGED <<sent, topicOf>>
    BY <1>16 DEF Settle
  <2>2. data.slot \in 1 .. 2
    BY <1>1, <2>1 DEF LocalsOK, Data
  <2> QED
    BY <1>11, <2>1, <2>2
<1>17. ASSUME NEW p \in Policies, Register(p) PROVE PlacesOK'
  <2>1. PICK s \in 1 .. 2 : s = IF data.slot = 1 THEN 2 ELSE 1
    OBVIOUS
  <2>2. current = 0 /\ slot' = [slot EXCEPT ![s] = Empty(p)] /\ UNCHANGED <<data, sent, count, topicOf>>
    BY <1>17, <2>1 DEF Register
  <2>3. Empty(p).q = <<>>
    BY <1>2, ConstantsAssumption
  <2>4. slot[s].q = <<>>
    BY <1>1, <2>1, <2>2 DEF SlotsOK, InUse
  <2>5. \A i \in 1 .. 2 : Frames(slot'[i].q) = Frames(slot[i].q)
    BY <1>1, <2>2, <2>3, <2>4
  <2> QED
    BY <1>3, <2>2, <2>5
<1>18. ASSUME NEW c \in Credits, Heartbeat(c) PROVE PlacesOK'
  BY <1>3, <1>18 DEF Heartbeat
<1>19. CASE OpenWindow
  <2>1. data' = [data EXCEPT !.win = IF @ = "same" THEN "gone" ELSE @]
        /\ UNCHANGED <<slot, sent, count, topicOf>>
    BY <1>19 DEF OpenWindow
  <2>2. data'.pc = data.pc
    BY <1>1, <2>1 DEF Data
  <2> QED
    BY <1>3, <2>1, <2>2
<1>20. CASE Forget
  BY <1>3, <1>20 DEF Forget
<1>21. CASE Clear
  <2>1. /\ data' = [data EXCEPT !.win = IF @ = "same" THEN "gone" ELSE @]
        /\ UNCHANGED <<sent, topicOf>>
    BY <1>21 DEF Clear
  <2>2. data'.pc = data.pc
    BY <1>1, <2>1 DEF Data
  <2>3. /\ current \in 1 .. 2
        /\ slot' = IF data.slot = current THEN slot ELSE [slot EXCEPT ![current] = Unused]
        /\ count' = IF data.slot = current THEN count
                    ELSE [count EXCEPT !["lost"] = @ \cup Frames(slot[current].q)]
    BY <1>1, <1>21, ClearIs
  <2>4. CASE data.slot = current
    BY <1>3, <2>1, <2>2, <2>3, <2>4
  <2>5. CASE data.slot # current
    BY <1>10, <2>1, <2>2, <2>3, <2>5
  <2> QED
    BY <2>4, <2>5
<1>22. CASE Receive
  BY <1>3, <1>22 DEF Receive
<1>23. CASE Age
  BY <1>3, <1>23 DEF Age
<1> QED
  BY <1>4, <1>5, <1>6, <1>7, <1>8, <1>9, <1>12, <1>14, <1>15, <1>16, <1>17, <1>18, <1>19,
     <1>20, <1>21, <1>22, <1>23 DEF Next, Broadcast, Drain, Control

-----------------------------------------------------------------------------
(* The order of the frames *)

LEMMA OrderInit == Init => OrderOK
<1> SUFFICES ASSUME Init PROVE OrderOK
  OBVIOUS
<1>1. Len(sent) = 0 /\ Frames(sent) = {} /\ current = 0
  BY EmptySeq, FramesEmpty DEF Init
<1>2. SentInOrder
  BY <1>1 DEF SentInOrder
<1> QED
  BY <1>1, <1>2 DEF OrderOK, SentFirst, OldestGivesWay

\* The numbers that order speaks of.
LEMMA OrderTypes ==
    ASSUME Typed
    PROVE  /\ Numbers \subseteq Nat /\ Len(topicOf) \in Nat /\ topicOf \in Seq(Topics)
           /\ \A n \in Numbers : n <= Len(topicOf)
           /\ sent \in Seq(Numbers) /\ sent \in Seq(Nat) /\ Len(sent) \in Nat
           /\ Frames(sent) \subseteq Numbers
           /\ \A i \in 1 .. Len(sent) : sent[i] \in Numbers
           /\ count["evicted"] \subseteq Numbers /\ count["conflated"] \subseteq Numbers
<1>1. topicOf \in Seq(Topics) /\ sent \in Seq(Numbers) /\ count \in [Reasons -> SUBSET Numbers]
  BY DEF Typed
<1>2. Len(topicOf) \in Nat /\ Len(sent) \in Nat
  BY <1>1, LenProperties
<1>3. Numbers \subseteq Nat /\ \A n \in Numbers : n <= Len(topicOf)
  BY <1>2 DEF Numbers
<1>4. sent \in Seq(Nat)
  BY <1>1, <1>3, SeqMonotonic
<1>5. Frames(sent) \subseteq Numbers /\ \A i \in 1 .. Len(sent) : sent[i] \in Numbers
  BY <1>1, FramesProperties, ElementOfSeq
<1>6. count["evicted"] \subseteq Numbers /\ count["conflated"] \subseteq Numbers
  BY <1>1 DEF Reasons
<1> QED
  BY <1>1, <1>2, <1>3, <1>4, <1>5, <1>6

\* Nothing is sent, evicted or conflated, and the buffers take in nothing.
LEMMA OrderStays ==
    ASSUME Typed, OrderOK, UNCHANGED <<topicOf, sent>>,
           \A i \in 1 .. 2 : Frames(slot'[i].q) \subseteq Frames(slot[i].q),
           count'["evicted"] = count["evicted"], count'["conflated"] = count["conflated"],
           \/ current' \in {0, current}
           \/ current' \in 1 .. 2 /\ Frames(slot'[current'].q) = {}
    PROVE  OrderOK'
<1>1. SentInOrder'
  BY DEF OrderOK, SentInOrder
<1>2. SentFirst'
  BY DEF OrderOK, SentFirst
<1>3. current \in 0 .. 2
  BY DEF Typed
<1>4. ASSUME current' # 0, NEW n \in Frames(slot'[current'].q),
             NEW m \in count["evicted"] \cup count["conflated"], topicOf[m] = topicOf[n]
      PROVE  m < n
  <2>1. current' = current /\ current \in 1 .. 2
    BY <1>3, <1>4
  <2>2. n \in Frames(slot[current].q)
    BY <1>4, <2>1
  <2> QED
    BY <1>4, <2>1, <2>2 DEF OrderOK, OldestGivesWay
<1>5. OldestGivesWay'
  BY <1>4 DEF OldestGivesWay
<1> QED
  BY <1>1, <1>2, <1>5 DEF OrderOK

\* A frame is sent that comes after all frames of its topic that were sent.
LEMMA SentGrows ==
    ASSUME Typed, SentInOrder, NEW n \in Nat, sent' = Append(sent, n),
           \A k \in Frames(sent) : topicOf'[k] = topicOf[k],
           \A k \in Frames(sent) : topicOf'[k] = topicOf'[n] => k < n
    PROVE  SentInOrder' /\ Frames(sent') = Frames(sent) \cup {n}
<1> DEFINE l == Len(sent)
<1>1. /\ sent \in Seq(Nat) /\ l \in Nat /\ \A i \in 1 .. l : sent[i] \in Frames(sent)
  BY OrderTypes DEF Frames
<1>2. /\ Len(sent') = l + 1
      /\ \A i \in 1 .. l : sent'[i] = sent[i]
      /\ sent'[l + 1] = n
  BY <1>1, AppendProperties
<1>3. Frames(sent') = Frames(sent) \cup {n}
  BY <1>1, FramesProperties
<1> HIDE DEF l
<1>4. ASSUME NEW i \in 1 .. Len(sent'), NEW j \in 1 .. Len(sent'), i < j,
             topicOf'[sent'[i]] = topicOf'[sent'[j]]
      PROVE  sent'[i] < sent'[j]
  <2>1. i \in 1 .. l /\ (j \in 1 .. l \/ j = l + 1)
    BY <1>1, <1>2, <1>4
  <2>2. sent[i] \in Frames(sent) /\ sent'[i] = sent[i]
    BY <1>1, <1>2, <2>1
  <2>3. CASE j \in 1 .. l
    <3>1. sent[j] \in Frames(sent) /\ sent'[j] = sent[j]
      BY <1>1, <1>2, <2>3
    <3>2. topicOf[sent[i]] = topicOf[sent[j]]
      BY <1>4, <2>2, <3>1
    <3>3. sent[i] < sent[j]
      BY <1>4, <2>1, <2>3, <3>2 DEF SentInOrder, l
    <3> QED
      BY <2>2, <3>1, <3>3
  <2>4. CASE j = l + 1
    BY <1>2, <1>4, <2>2, <2>4
  <2> QED
    BY <2>1, <2>3, <2>4
<1>5. SentInOrder'
  BY <1>4 DEF SentInOrder
<1> QED
  BY <1>3, <1>5

\* enqueue() puts the newest frame behind whatever was sent or gave way.
LEMMA OrderEnqueue ==
    ASSUME Inv, Enqueue, current # 0
    PROVE  OrderOK'
<1> DEFINE n == Len(topicOf)
           all == Frames(slot[current].q) \cup {n}
<1>1. /\ Typed /\ OrderOK /\ data.pc = "enqueue"
      /\ UNCHANGED <<topicOf, sent, current>>
      /\ slot \in [1 .. 2 -> Buffer(n)] /\ current \in 1 .. 2
      /\ count \in [Reasons -> SUBSET Numbers]
  BY DEF Inv, Typed, Enqueue
<1>2. PICK r \in Buffer(n) : \E same \in SUBSET (all \ Frames(r.q)) :
        /\ slot' = [slot EXCEPT ![current] = r]
        /\ count' = [count EXCEPT !["conflated"] = @ \cup same,
                                  !["evicted"] = @ \cup ((all \ Frames(r.q)) \ same)]
        /\ Frames(r.q) \subseteq all
        /\ \A m \in all \ Frames(r.q), k \in Frames(r.q) : topicOf[m] = topicOf[k] => m < k
  BY EnqueueIs
<1> PICK same \in SUBSET (all \ Frames(r.q)) :
      /\ slot' = [slot EXCEPT ![current] = r]
      /\ count' = [count EXCEPT !["conflated"] = @ \cup same,
                                !["evicted"] = @ \cup ((all \ Frames(r.q)) \ same)]
      /\ Frames(r.q) \subseteq all
      /\ \A m \in all \ Frames(r.q), k \in Frames(r.q) : topicOf[m] = topicOf[k] => m < k
  BY <1>2
<1>3. slot'[current] = r /\ \A i \in 1 .. 2 : i # current => slot'[i] = slot[i]
  BY <1>1
<1> HIDE DEF all
<1>4. count'["conflated"] \cup count'["evicted"] =
        (count["conflated"] \cup count["evicted"]) \cup (all \ Frames(r.q))
  BY <1>1 DEF Reasons
<1>5. /\ \A k \in Frames(sent) : k < n
      /\ \A m \in count["conflated"] \cup count["evicted"] : m < n
  <2>1. n \notin Frames(sent) /\ \A c \in Reasons : n \notin count[c]
    BY <1>1, InHand
  <2>2. n \notin count["conflated"] /\ n \notin count["evicted"]
    BY <2>1 DEF Reasons
  <2>3. /\ Numbers \subseteq Nat /\ n \in Nat /\ \A k \in Numbers : k <= n
        /\ Frames(sent) \subseteq Numbers
        /\ count["evicted"] \subseteq Numbers /\ count["conflated"] \subseteq Numbers
    BY <1>1, OrderTypes
  <2> HIDE DEF n
  <2>4. \A k \in Numbers : k # n => k < n
    BY <2>3
  <2> QED
    BY <2>1, <2>2, <2>3, <2>4
<1>6. SentInOrder'
  BY <1>1 DEF OrderOK, SentInOrder
<1> HIDE DEF n
<1>7. ASSUME NEW i \in 1 .. 2, NEW m \in Frames(slot'[i].q), NEW k \in Frames(sent),
             topicOf[m] = topicOf[k]
      PROVE  k < m
  <2>1. CASE m = n
    BY <1>5, <2>1
  <2>2. CASE m # n
    <3>1. m \in Frames(slot[i].q)
      BY <1>3, <1>7, <2>2 DEF all
    <3> QED
      BY <1>1, <1>7, <3>1 DEF OrderOK, SentFirst
  <2> QED
    BY <2>1, <2>2
<1>8. ASSUME NEW k \in Frames(r.q), NEW m \in count'["conflated"] \cup count'["evicted"],
             topicOf[m] = topicOf[k]
      PROVE  m < k
  <2>1. CASE m \in all \ Frames(r.q)
    BY <1>8, <2>1
  <2>2. CASE m \in count["conflated"] \cup count["evicted"]
    <3>1. CASE k = n
      BY <1>5, <2>2, <3>1
    <3>2. CASE k # n
      <4>1. k \in Frames(slot[current].q)
        BY <1>8, <3>2 DEF all
      <4> QED
        BY <1>1, <1>8, <2>2, <4>1 DEF OrderOK, OldestGivesWay
    <3> QED
      BY <3>1, <3>2
  <2> QED
    BY <1>4, <1>8, <2>1, <2>2
<1>9. SentFirst'
  BY <1>1, <1>7 DEF SentFirst
<1>10. OldestGivesWay'
  BY <1>1, <1>3, <1>8 DEF OldestGivesWay
<1> QED
  BY <1>6, <1>9, <1>10 DEF OrderOK

\* A frame is routed: whatever order there was speaks of older frames.
LEMMA OrderGrows ==
    ASSUME Typed, OrderOK, NEW t \in Topics, topicOf' = Append(topicOf, t), UNCHANGED <<slot, current>>,
           count'["evicted"] = count["evicted"], count'["conflated"] = count["conflated"]
    PROVE  /\ \A k \in Numbers : topicOf'[k] = topicOf[k]
           /\ OldestGivesWay'
           /\ UNCHANGED sent => OrderOK'
<1>1. \A k \in Numbers : topicOf'[k] = topicOf[k]
  BY TypesGrow DEF Numbers
<1>2. /\ Frames(sent) \subseteq Numbers /\ \A i \in 1 .. Len(sent) : sent[i] \in Numbers
      /\ count["evicted"] \subseteq Numbers /\ count["conflated"] \subseteq Numbers
  BY OrderTypes
<1>3. \A i \in 1 .. 2 : Frames(slot[i].q) \subseteq Numbers
  BY SlotTypes
<1>4. current \in 0 .. 2
  BY DEF Typed
<1>5. OldestGivesWay'
  <2>1. ASSUME current # 0, NEW n \in Frames(slot[current].q),
               NEW m \in count["evicted"] \cup count["conflated"], topicOf'[m] = topicOf'[n]
        PROVE  m < n
    <3>1. current \in 1 .. 2
      BY <1>4, <2>1
    <3>2. m \in Numbers /\ n \in Numbers
      BY <1>2, <1>3, <2>1, <3>1
    <3>3. topicOf[m] = topicOf[n]
      BY <1>1, <2>1, <3>2
    <3> QED
      BY <2>1, <3>3 DEF OrderOK, OldestGivesWay
  <2> QED
    BY <2>1 DEF OldestGivesWay
<1>6. ASSUME UNCHANGED sent PROVE SentInOrder' /\ SentFirst'
  <2>1. SentInOrder'
    <3>1. ASSUME NEW i \in 1 .. Len(sent), NEW j \in 1 .. Len(sent), i < j,
                 topicOf'[sent[i]] = topicOf'[sent[j]]
          PROVE  sent[i] < sent[j]
      <4>1. sent[i] \in Numbers /\ sent[j] \in Numbers
        BY <1>2
      <4>2. topicOf[sent[i]] = topicOf[sent[j]]
        BY <1>1, <3>1, <4>1
      <4> QED
        BY <3>1, <4>2 DEF OrderOK, SentInOrder
    <3> QED
      BY <1>6, <3>1 DEF SentInOrder
  <2>2. ASSUME NEW i \in 1 .. 2, NEW m \in Frames(slot[i].q), NEW k \in Frames(sent),
               topicOf'[m] = topicOf'[k]
        PROVE  k < m
    <3>1. m \in Numbers /\ k \in Numbers
      BY <1>2, <1>3
    <3> QED
      BY <1>1, <2>2, <3>1 DEF OrderOK, SentFirst
  <2>3. SentFirst'
    BY <1>6, <2>2 DEF SentFirst
  <2> QED
    BY <2>1, <2>3
<1> QED
  BY <1>1, <1>5, <1>6 DEF OrderOK

\* Every step keeps the order.
LEMMA OrderNext ==
    ASSUME Inv, [Next]_vars
    PROVE  OrderOK'
<1>1. /\ Typed /\ LocalsOK /\ SlotsOK /\ OrderOK
      /\ slot \in [1 .. 2 -> Buffer(Len(topicOf))] /\ current \in 0 .. 2 /\ data \in Data
      /\ topicOf \in Seq(Topics) /\ count \in [Reasons -> SUBSET Numbers]
  BY DEF Inv, Typed
<1>2. /\ Unused.q = <<>> /\ \A p \in {"drop_old", "conflate"} : Empty(p).q = <<>>
      /\ Frames(<<>>) = {}
  BY <1>1, EmptyKeeps, FramesEmpty
<1>3. UNCHANGED <<slot, current, topicOf, sent, count>> => OrderOK'
  BY <1>1, OrderStays
<1>4. CASE UNCHANGED vars
  BY <1>3, <1>4 DEF vars
<1>5. ASSUME NEW t \in Topics, ToBuffer(t) PROVE OrderOK'
  BY <1>1, <1>5, OrderGrows DEF ToBuffer
<1>6. ASSUME NEW t \in Topics, Direct(t) PROVE OrderOK'
  <2> DEFINE n == Len(topicOf) + 1
  <2>1. data.pc = "idle" /\ current = 0 /\ topicOf' = Append(topicOf, t) /\ UNCHANGED <<slot, current>>
    BY <1>6 DEF Direct, Buffered
  <2>2. /\ Len(topicOf') = n /\ topicOf'[n] = t /\ n \in Nat
    BY <1>1, <2>1, TypesGrow
  <2>3. /\ Numbers \subseteq Nat /\ \A m \in Numbers : m <= Len(topicOf)
        /\ Frames(sent) \subseteq Numbers /\ Len(topicOf) \in Nat
    BY <1>1, OrderTypes
  <2>4. CASE credit = 0 \/ pipe = Pipe
    <3>1. sent' = sent /\ count' = [count EXCEPT !["refused"] = @ \cup {n}]
      BY <1>6, <2>2, <2>4 DEF Direct
    <3>2. count'["evicted"] = count["evicted"] /\ count'["conflated"] = count["conflated"]
      BY <1>1, <3>1 DEF Reasons
    <3> QED
      BY <1>1, <2>1, <3>1, <3>2, OrderGrows
  <2>5. CASE ~(credit = 0 \/ pipe = Pipe)
    <3>1. sent' = Append(sent, n) /\ count' = count
      BY <1>6, <2>2, <2>5 DEF Direct, Transmit
    <3>2. (\A k \in Numbers : topicOf'[k] = topicOf[k]) /\ OldestGivesWay'
      BY <1>1, <2>1, <3>1, OrderGrows
    <3>3. \A k \in Frames(sent) : topicOf'[k] = topicOf[k] /\ k < n
      <4>1. \A k \in Numbers : k < n
        BY <2>3
      <4> QED
        BY <2>3, <3>2, <4>1
    <3> HIDE DEF n
    <3>4. SentInOrder' /\ Frames(sent') = Frames(sent) \cup {n}
      BY <1>1, <2>2, <3>1, <3>3, SentGrows DEF OrderOK
    <3>5. \A i \in 1 .. 2 : Frames(slot'[i].q) = {}
      BY <1>1, <1>2, <2>1 DEF SlotsOK, InUse, LocalsOK
    <3>6. SentFirst'
      BY <3>5 DEF SentFirst
    <3> QED
      BY <3>2, <3>4, <3>6 DEF OrderOK
  <2> QED
    BY <2>4, <2>5
<1>7. CASE Enqueue
  <2>1. CASE current = 0
    <3>1. /\ count' = [count EXCEPT !["lost"] = @ \cup {Len(topicOf)}]
          /\ UNCHANGED <<slot, current, topicOf, sent>>
      BY <1>7, <2>1 DEF Enqueue
    <3>2. count'["evicted"] = count["evicted"] /\ count'["conflated"] = count["conflated"]
      BY <1>1, <3>1 DEF Reasons
    <3> QED
      BY <1>1, <3>1, <3>2, OrderStays
  <2>2. CASE current # 0
    BY <1>7, <2>2, OrderEnqueue
  <2> QED
    BY <2>1, <2>2
<1>8. CASE Pick
  BY <1>3, <1>8 DEF Pick
<1>9. CASE ReadCredit
  BY <1>3, <1>9 DEF ReadCredit
<1>10. ASSUME NEW s \in 1 .. 2, slot' = [slot EXCEPT ![s] = Unused],
              count' = [count EXCEPT !["lost"] = @ \cup Frames(slot[s].q)],
              UNCHANGED <<sent, topicOf>>, current' \in {0, current}
       PROVE  OrderOK'
  <2>1. slot'[s].q = <<>> /\ \A i \in 1 .. 2 : i # s => slot'[i] = slot[i]
    BY <1>1, <1>2, <1>10
  <2>2. \A i \in 1 .. 2 : Frames(slot'[i].q) \subseteq Frames(slot[i].q)
    BY <1>2, <2>1
  <2>3. count'["evicted"] = count["evicted"] /\ count'["conflated"] = count["conflated"]
    <3> DEFINE S == Frames(slot[s].q)
    <3> HIDE DEF S
    <3>1. count' = [count EXCEPT !["lost"] = @ \cup S]
      BY <1>10 DEF S
    <3> QED
      BY <1>1, <3>1 DEF Reasons
  <2> QED
    BY <1>1, <1>10, <2>2, <2>3, OrderStays
<1>11. ASSUME LetGo, data.slot \in 1 .. 2, UNCHANGED <<current, sent, topicOf>>
       PROVE  OrderOK'
  <2>1. CASE data.slot = current
    <3>1. slot' = slot /\ count' = count
      BY <1>11, <2>1 DEF LetGo
    <3> QED
      BY <1>3, <1>11, <3>1
  <2>2. CASE data.slot # current
    BY <1>10, <1>11, <2>2 DEF LetGo
  <2> QED
    BY <2>1, <2>2
<1>12. CASE ReadWindow
  <2>1. data.pc = "window" /\ UNCHANGED <<current, sent, topicOf>>
    BY <1>12 DEF ReadWindow
  <2>2. data.slot \in 1 .. 2
    BY <1>1, <2>1 DEF LocalsOK, Data
  <2>3. CASE Starved
    BY <1>11, <1>12, <2>1, <2>2, <2>3 DEF ReadWindow
  <2>4. CASE ~Starved
    BY <1>3, <1>12, <2>1, <2>4 DEF ReadWindow
  <2> QED
    BY <2>3, <2>4
<1>13. ASSUME NEW s \in 1 .. 2, slot[s].q # <<>>, s = InUse, slot' = [slot EXCEPT ![s].q = Tail(@)]
       PROVE  /\ \A i \in 1 .. 2 : Frames(slot'[i].q) \subseteq Frames(slot[i].q)
              /\ Head(slot[s].q) \in Nat /\ Head(slot[s].q) \in Frames(slot[s].q)
              /\ \A i \in 1 .. 2 : \A m \in Frames(slot'[i].q) :
                   topicOf[m] = topicOf[Head(slot[s].q)] => Head(slot[s].q) < m
  <2>1. slot'[s].q = Tail(slot[s].q) /\ \A i \in 1 .. 2 : i # s => slot'[i] = slot[i]
    BY <1>1, <1>13, TailTyped
  <2>2. slot[s].q \in Seq(Nat) /\ Ordered(slot[s].q, topicOf)
    BY <1>1, SlotTypes DEF SlotsOK, Sorted
  <2>3. \A m \in Frames(Tail(slot[s].q)) : topicOf[m] = topicOf[Head(slot[s].q)] => Head(slot[s].q) < m
    BY <1>13, <2>2, TailWithout
  <2>4. /\ Frames(slot[s].q) = Frames(Tail(slot[s].q)) \cup {Head(slot[s].q)}
        /\ Head(slot[s].q) \in Nat
    BY <1>13, <2>2, FramesProperties
  <2>5. \A i \in 1 .. 2 : i # s => Frames(slot[i].q) = {}
    BY <1>1, <1>2, <1>13 DEF SlotsOK
  <2> QED
    BY <2>1, <2>3, <2>4, <2>5
<1>14. CASE Expire
  <2>1. /\ data.pc = "drain" /\ slot[data.slot].q # <<>>
        /\ slot' = [slot EXCEPT ![data.slot].q = Tail(@)]
        /\ UNCHANGED <<current, topicOf, sent>>
    BY <1>14 DEF Expire, Draining
  <2>2. PICK s \in 1 .. 2 : s = data.slot /\ s = InUse
    BY <1>1, <2>1 DEF LocalsOK, Data, InUse
  <2>3. \A i \in 1 .. 2 : Frames(slot'[i].q) \subseteq Frames(slot[i].q)
    BY <1>13, <2>1, <2>2
  <2>4. count'["evicted"] = count["evicted"] /\ count'["conflated"] = count["conflated"]
    <3>1. count' = [count EXCEPT !["expired"] = @ \cup {Oldest}]
      BY <1>14 DEF Expire
    <3> QED
      BY <1>1, <3>1 DEF Reasons
  <2> QED
    BY <1>1, <2>1, <2>3, <2>4, OrderStays
<1>15. CASE SendOldest
  <2>1. /\ data.pc = "drain" /\ slot[data.slot].q # <<>>
        /\ slot' = [slot EXCEPT ![data.slot].q = Tail(@)]
        /\ sent' = Append(sent, Head(slot[data.slot].q))
        /\ UNCHANGED <<current, topicOf, count>>
    BY <1>15 DEF SendOldest, Transmits, Draining, Sendable, Transmit, Oldest
  <2>2. PICK s \in 1 .. 2 : s = data.slot /\ s = InUse
    BY <1>1, <2>1 DEF LocalsOK, Data, InUse
  <2>3. PICK h \in Nat : h = Head(slot[s].q)
    BY <1>13, <2>1, <2>2
  <2>4. /\ \A i \in 1 .. 2 : Frames(slot'[i].q) \subseteq Frames(slot[i].q)
        /\ h \in Frames(slot[s].q)
        /\ \A i \in 1 .. 2 : \A m \in Frames(slot'[i].q) : topicOf[m] = topicOf[h] => h < m
    BY <1>13, <2>1, <2>2, <2>3
  <2>5. \A k \in Frames(sent) : topicOf[k] = topicOf[h] => k < h
    BY <1>1, <2>4 DEF OrderOK, SentFirst
  <2>6. sent' = Append(sent, h)
    BY <2>1, <2>2, <2>3
  <2>7. SentInOrder' /\ Frames(sent') = Frames(sent) \cup {h}
    BY <1>1, <2>1, <2>5, <2>6, SentGrows DEF OrderOK
  <2>8. SentFirst'
    <3>1. ASSUME NEW i \in 1 .. 2, NEW m \in Frames(slot'[i].q), NEW k \in Frames(sent'),
                 topicOf[m] = topicOf[k]
          PROVE  k < m
      BY <1>1, <2>4, <2>7, <3>1 DEF OrderOK, SentFirst
    <3> QED
      BY <2>1, <3>1 DEF SentFirst
  <2>9. OldestGivesWay'
    <3>1. ASSUME current # 0, NEW n \in Frames(slot'[current].q),
                 NEW m \in count["evicted"] \cup count["conflated"], topicOf[m] = topicOf[n]
          PROVE  m < n
      <4>1. n \in Frames(slot[current].q)
        BY <1>1, <2>4, <3>1
      <4> QED
        BY <1>1, <3>1, <4>1 DEF OrderOK, OldestGivesWay
    <3> QED
      BY <2>1, <3>1 DEF OldestGivesWay
  <2> QED
    BY <2>7, <2>8, <2>9 DEF OrderOK
<1>16. CASE Settle
  <2>1. data.pc = "drain" /\ LetGo /\ UNCHANGED <<current, sent, topicOf>>
    BY <1>16 DEF Settle
  <2>2. data.slot \in 1 .. 2
    BY <1>1, <2>1 DEF LocalsOK, Data
  <2> QED
    BY <1>11, <2>1, <2>2
<1>17. ASSUME NEW p \in Policies, Register(p) PROVE OrderOK'
  <2>1. PICK s \in 1 .. 2 : s = IF data.slot = 1 THEN 2 ELSE 1
    OBVIOUS
  <2>2. /\ current' = s /\ slot' = [slot EXCEPT ![s] = Empty(p)] /\ UNCHANGED <<sent, count, topicOf>>
    BY <1>17, <2>1 DEF Register
  <2>3. Empty(p).q = <<>>
    BY <1>2, ConstantsAssumption
  <2>4. Frames(slot'[s].q) = {} /\ \A i \in 1 .. 2 : Frames(slot'[i].q) \subseteq Frames(slot[i].q)
    BY <1>1, <1>2, <2>2, <2>3
  <2> QED
    BY <1>1, <2>2, <2>4, OrderStays
<1>18. ASSUME NEW c \in Credits, Heartbeat(c) PROVE OrderOK'
  BY <1>3, <1>18 DEF Heartbeat
<1>19. CASE OpenWindow
  BY <1>3, <1>19 DEF OpenWindow
<1>20. CASE Forget
  BY <1>3, <1>20 DEF Forget
<1>21. CASE Clear
  <2>1. current' = 0 /\ UNCHANGED <<sent, topicOf>>
    BY <1>21 DEF Clear
  <2>2. /\ current \in 1 .. 2
        /\ slot' = IF data.slot = current THEN slot ELSE [slot EXCEPT ![current] = Unused]
        /\ count' = IF data.slot = current THEN count
                    ELSE [count EXCEPT !["lost"] = @ \cup Frames(slot[current].q)]
    BY <1>1, <1>21, ClearIs
  <2>3. CASE data.slot = current
    BY <1>1, <2>1, <2>2, <2>3, OrderStays
  <2>4. CASE data.slot # current
    BY <1>10, <2>1, <2>2, <2>4
  <2> QED
    BY <2>3, <2>4
<1>22. CASE Receive
  BY <1>3, <1>22 DEF Receive
<1>23. CASE Age
  BY <1>3, <1>23 DEF Age
<1> QED
  BY <1>4, <1>5, <1>6, <1>7, <1>8, <1>9, <1>12, <1>14, <1>15, <1>16, <1>17, <1>18, <1>19,
     <1>20, <1>21, <1>22, <1>23 DEF Next, Broadcast, Drain, Control

-----------------------------------------------------------------------------
(* The credit windows *)

LEMMA WindowInit == Init => WindowOK
  BY DEF Init, WindowOK

\* The numbers the windows speak of.
LEMMA WindowTypes ==
    ASSUME Typed
    PROVE  /\ window # NoWindow => window.credit \in Nat /\ window.spent \in Nat
           /\ spent \in Nat /\ overhang \in Nat
           /\ data.sent \in 0 .. DrainBudget /\ data.budget \in {-1} \cup Nat /\ data \in Data
           /\ DrainBudget \in Nat
           /\ StillToSend \in Nat
<1>1. /\ window \in {NoWindow} \cup Windows /\ spent \in Nat /\ overhang \in 0 .. DrainBudget
      /\ data \in Data /\ DrainBudget \in Nat
  BY ConstantsAssumption DEF Typed
<1>2. data.sent \in 0 .. DrainBudget /\ data.budget \in {-1} \cup Nat
  BY <1>1 DEF Data
<1>3. window # NoWindow => window.credit \in Nat /\ window.spent \in Nat
  BY <1>1 DEF Windows
<1>4. StillToSend \in Nat
  BY <1>1, <1>2 DEF StillToSend
<1> QED
  BY <1>1, <1>2, <1>3, <1>4

\* Every step keeps the windows.
LEMMA WindowNext ==
    ASSUME Inv, [Next]_vars
    PROVE  WindowOK'
<1>1. Typed /\ LocalsOK /\ WindowOK /\ data \in Data
  BY DEF Inv, Typed
<1>2. /\ window # NoWindow => window.credit \in Nat /\ window.spent \in Nat
      /\ spent \in Nat /\ overhang \in Nat
      /\ data.sent \in 0 .. DrainBudget /\ data.budget \in {-1} \cup Nat
      /\ DrainBudget \in Nat /\ StillToSend \in Nat
  BY <1>1, WindowTypes
<1>3. ASSUME UNCHANGED <<window, spent, overhang, credit, control, data>> PROVE WindowOK'
  BY <1>1, <1>3 DEF WindowOK, StillToSend
<1>4. ASSUME UNCHANGED <<window, spent, overhang, credit, control>>,
             data.pc # "drain", data'.pc # "drain"
      PROVE  WindowOK'
  BY <1>1, <1>4 DEF WindowOK
<1>5. CASE UNCHANGED vars
  BY <1>3, <1>5 DEF vars
<1>6. ASSUME NEW t \in Topics, ToBuffer(t) PROVE WindowOK'
  <2>1. data' = [data EXCEPT !.pc = "enqueue"] /\ data.pc = "idle"
        /\ UNCHANGED <<window, spent, overhang, credit, control>>
    BY <1>6 DEF ToBuffer
  <2>2. data'.pc = "enqueue"
    BY <1>1, <2>1 DEF Data
  <2> QED
    BY <1>4, <2>1, <2>2
<1>7. ASSUME NEW t \in Topics, Direct(t) PROVE WindowOK'
  BY <1>3, <1>7 DEF Direct
<1>8. CASE Enqueue
  BY <1>4, <1>8 DEF Enqueue, Idle
<1>9. CASE Pick
  <2>1. data' = [data EXCEPT !.pc = "credit", !.slot = current] /\ data.pc = "idle"
        /\ UNCHANGED <<window, spent, overhang, credit, control>>
    BY <1>9 DEF Pick
  <2>2. data'.pc = "credit"
    BY <1>1, <2>1 DEF Data
  <2> QED
    BY <1>4, <2>1, <2>2
<1>10. CASE ReadCredit
  <2>1. data' = [data EXCEPT !.pc = "window", !.credit = credit] /\ data.pc = "credit"
        /\ UNCHANGED <<window, spent, overhang, credit, control>>
    BY <1>10 DEF ReadCredit
  <2>2. data'.pc = "window"
    BY <1>1, <2>1 DEF Data
  <2> QED
    BY <1>4, <2>1, <2>2
<1>11. CASE ReadWindow
  <2>1. data.pc = "window" /\ UNCHANGED <<window, spent, overhang, credit, control>>
    BY <1>11 DEF ReadWindow
  <2>2. CASE Starved
    BY <1>4, <1>11, <2>1, <2>2 DEF ReadWindow, Idle
  <2>3. CASE ~Starved
    <3> DEFINE b == IF Metered THEN window.credit - window.spent ELSE -1
               w == IF Metered THEN "same" ELSE "none"
    <3>1. data' = [data EXCEPT !.pc = "drain", !.now = old, !.credit = -1, !.budget = b, !.win = w]
      BY <1>11, <2>3 DEF ReadWindow
    <3> HIDE DEF b, w
    <3>2. data'.pc = "drain" /\ data'.budget = b /\ data'.win = w /\ data'.sent = data.sent
      BY <1>1, <3>1 DEF Data
    <3>3. data.sent = 0
      BY <1>1, <2>1 DEF LocalsOK
    <3>4. CASE window = NoWindow
      BY <1>1, <2>1, <3>4 DEF WindowOK
    <3>5. CASE window # NoWindow
      <4>1. Metered
        BY <3>5 DEF Metered
      <4>2. w = "same" /\ b = window.credit - window.spent
        BY <4>1 DEF w, b
      <4>3. b > 0 /\ b \in Nat
        BY <1>2, <2>3, <3>5, <4>1, <4>2 DEF Starved
      <4>4. spent <= window.spent + overhang /\ window.spent <= window.credit
        BY <1>1, <2>1, <3>5 DEF WindowOK
      <4> QED
        BY <1>1, <1>2, <2>1, <3>2, <3>3, <3>5, <4>2, <4>3, <4>4 DEF WindowOK
    <3> QED
      BY <3>4, <3>5
  <2> QED
    BY <2>2, <2>3
<1>12. CASE Expire
  BY <1>3, <1>12 DEF Expire
<1>13. CASE SendOldest
  <2> DEFINE b == IF data.budget > 0 THEN data.budget - 1 ELSE data.budget
  <2>1. /\ data.pc = "drain" /\ data.sent < DrainBudget /\ data.budget # 0
        /\ data' = [data EXCEPT !.sent = data.sent + 1, !.budget = b]
        /\ spent' = IF window = NoWindow THEN 0 ELSE spent + 1
        /\ UNCHANGED <<window, credit, control, overhang>>
    BY <1>13 DEF SendOldest, Transmits, Draining, Sendable
  <2>2. (data.budget > 0 => b = data.budget - 1) /\ (~(data.budget > 0) => b = data.budget)
    OBVIOUS
  <2> HIDE DEF b
  <2>3. data'.pc = "drain" /\ data'.sent = data.sent + 1 /\ data'.budget = b /\ data'.win = data.win
    BY <1>1, <2>1 DEF Data
  <2>4. CASE window = NoWindow
    BY <1>1, <2>1, <2>4 DEF WindowOK
  <2>5. CASE window # NoWindow /\ data.win = "same"
    <3>1. /\ data.budget \in Nat /\ data.sent + data.budget = window.credit - window.spent
          /\ spent <= window.spent + data.sent + overhang
          /\ window.spent <= window.credit
      BY <1>1, <2>1, <2>5 DEF WindowOK
    <3>2. b = data.budget - 1 /\ b \in Nat
      BY <2>1, <2>2, <3>1
    <3>3. data'.sent + data'.budget = window.credit - window.spent
      BY <1>2, <2>3, <2>5, <3>1, <3>2
    <3>4. spent' <= window.spent + data'.sent + overhang
      BY <1>2, <2>1, <2>3, <2>5, <3>1
    <3> QED
      BY <1>1, <2>1, <2>3, <2>5, <3>1, <3>2, <3>3, <3>4 DEF WindowOK
  <2>6. CASE window # NoWindow /\ data.win # "same"
    <3>1. spent + StillToSend <= overhang /\ window.spent <= window.credit
      BY <1>1, <2>1, <2>6 DEF WindowOK
    <3>2. StillToSend' = StillToSend - 1
      <4> DEFINE rest == DrainBudget - data.sent
      <4>1. rest \in Nat /\ rest >= 1 /\ DrainBudget - data'.sent = rest - 1
        BY <1>2, <2>1, <2>3
      <4>2. /\ StillToSend = IF data.budget \in 0 .. rest THEN data.budget ELSE rest
            /\ StillToSend' = IF b \in 0 .. rest - 1 THEN b ELSE rest - 1
        BY <2>3, <4>1 DEF StillToSend
      <4> HIDE DEF rest
      <4>3. CASE data.budget \in 1 .. rest
        BY <2>2, <4>1, <4>2, <4>3
      <4>4. CASE data.budget \notin 1 .. rest
        BY <1>2, <2>1, <2>2, <4>1, <4>2, <4>4
      <4> QED
        BY <4>3, <4>4
    <3>3. spent' + StillToSend' <= overhang
      BY <1>2, <2>1, <2>6, <3>1, <3>2
    <3> QED
      BY <1>1, <2>1, <2>3, <2>6, <3>1, <3>3 DEF WindowOK
  <2> QED
    BY <2>4, <2>5, <2>6
<1>14. CASE Settle
  <2>1. /\ data.pc = "drain" /\ data' = Idle /\ UNCHANGED <<credit, control, spent, overhang>>
        /\ window' = IF data.win = "same" THEN [window EXCEPT !.spent = @ + data.sent] ELSE window
    BY <1>14 DEF Settle
  <2>2. data'.pc = "idle"
    BY <2>1 DEF Idle
  <2>3. CASE data.win = "same"
    <3>1. window # NoWindow /\ window \in Windows
      BY <1>1, <2>3 DEF LocalsOK, Typed
    <3>2. /\ data.budget \in Nat /\ data.sent + data.budget = window.credit - window.spent
          /\ spent <= window.spent + data.sent + overhang
      BY <1>1, <2>1, <2>3, <3>1 DEF WindowOK
    <3>3. window'.credit = window.credit /\ window'.spent = window.spent + data.sent
      BY <2>1, <2>3, <3>1 DEF Windows
    <3>4. window.spent + data.sent <= window.credit
      BY <1>2, <3>1, <3>2
    <3> QED
      BY <1>1, <2>1, <2>2, <3>1, <3>2, <3>3, <3>4 DEF WindowOK
  <2>4. CASE data.win # "same"
    <3>1. window' = window
      BY <2>1, <2>4
    <3>2. window # NoWindow => spent <= window.spent + overhang
      <4>1. window # NoWindow => spent + StillToSend <= overhang
        BY <1>1, <2>1, <2>4 DEF WindowOK
      <4> QED
        BY <1>2, <4>1
    <3> QED
      BY <1>1, <2>1, <2>2, <3>1, <3>2 DEF WindowOK
  <2> QED
    BY <2>3, <2>4
<1>15. ASSUME NEW p \in Policies, Register(p) PROVE WindowOK'
  BY <1>3, <1>15 DEF Register
<1>16. ASSUME NEW c \in Credits, Heartbeat(c) PROVE WindowOK'
  <2>1. credit' = c /\ control' = [pc |-> "open", credit |-> c]
        /\ UNCHANGED <<window, spent, overhang, data>>
    BY <1>16 DEF Heartbeat
  <2>2. StillToSend' = StillToSend
    BY <2>1 DEF StillToSend
  <2> QED
    BY <1>1, <2>1, <2>2 DEF WindowOK
<1>17. CASE OpenWindow
  <2>1. /\ control.pc = "open" /\ credit' = credit
        /\ data' = [data EXCEPT !.win = IF @ = "same" THEN "gone" ELSE @]
        /\ control' = [pc |-> "idle", credit |-> 0] /\ spent' = 0
        /\ overhang' = (IF data.pc # "drain" THEN 0 ELSE StillToSend)
        /\ window' = [credit |-> control.credit, spent |-> 0]
    BY <1>17 DEF OpenWindow, StillToSend, NewWindow
  <2>2. data'.pc = data.pc /\ data'.win # "same" /\ data'.sent = data.sent /\ data'.budget = data.budget
    BY <1>1, <2>1 DEF Data
  <2>3. StillToSend' = StillToSend
    BY <2>2 DEF StillToSend
  <2>4. credit = control.credit /\ control.credit \in Nat
    BY <1>1, <2>1 DEF WindowOK, Typed
  <2> QED
    BY <1>2, <2>1, <2>2, <2>3, <2>4 DEF WindowOK
<1>18. CASE Forget
  <2>1. control'.pc = "clear" /\ UNCHANGED <<window, spent, overhang, data>>
    BY <1>1, <1>18 DEF Forget, Typed
  <2>2. StillToSend' = StillToSend
    BY <2>1 DEF StillToSend
  <2> QED
    BY <1>1, <2>1, <2>2 DEF WindowOK
<1>19. CASE Clear
  BY <1>1, <1>19 DEF Clear, WindowOK, Typed
<1>20. CASE Receive
  BY <1>3, <1>20 DEF Receive
<1>21. CASE Age
  BY <1>3, <1>21 DEF Age
<1> QED
  BY <1>5, <1>6, <1>7, <1>8, <1>9, <1>10, <1>11, <1>12, <1>13, <1>14, <1>15, <1>16, <1>17,
     <1>18, <1>19, <1>20, <1>21 DEF Next, Broadcast, Drain, Control

\* The invariant of the windows bounds what is drained.
LEMMA WindowIsKept ==
    ASSUME Typed, WindowOK
    PROVE  WindowKept
<1> SUFFICES ASSUME window # NoWindow, control.pc = "idle" PROVE spent <= credit + overhang
  BY DEF WindowKept
<1>1. /\ window.credit \in Nat /\ window.spent \in Nat /\ spent \in Nat /\ overhang \in Nat
      /\ data.sent \in 0 .. DrainBudget /\ DrainBudget \in Nat /\ StillToSend \in Nat
  BY WindowTypes
<1>2. credit = window.credit /\ window.spent <= window.credit
  BY DEF WindowOK
<1>3. CASE data.pc # "drain"
  <2>1. spent <= window.spent + overhang
    BY <1>3 DEF WindowOK
  <2> QED
    BY <1>1, <1>2, <2>1
<1>4. CASE data.pc = "drain" /\ data.win = "same"
  <2>1. /\ data.budget \in Nat /\ data.sent + data.budget = window.credit - window.spent
        /\ spent <= window.spent + data.sent + overhang
    BY <1>4 DEF WindowOK
  <2> QED
    BY <1>1, <1>2, <2>1
<1>5. CASE data.pc = "drain" /\ data.win # "same"
  <2>1. spent + StillToSend <= overhang
    BY <1>5 DEF WindowOK
  <2> QED
    BY <1>1, <1>2, <2>1
<1> QED
  BY <1>3, <1>4, <1>5

-----------------------------------------------------------------------------
(* The invariant, and what follows from it *)

\* The invariant holds in every reachable state.
LEMMA InvAlways == Spec => []Inv
<1>1. Init => Inv
  BY TypedInit, SlotsInit, PlacesInit, OrderInit, WindowInit DEF Inv
<1>2. Inv /\ [Next]_vars => Inv'
  BY TypedNext, SlotsNext, PlacesNext, OrderNext, WindowNext DEF Inv
<1> QED
  BY <1>1, <1>2, PTL DEF Spec

\* Exactly one place of the nine: one index.
LEMMA InOnePlace ==
    ASSUME PlacesOK
    PROVE  Accounted
<1>1. DOMAIN Places = 1 .. 9
  BY DEF Places
<1>2. ASSUME NEW n \in Numbers PROVE Cardinality({i \in DOMAIN Places : n \in Places[i]}) = 1
  <2>1. PICK k \in 1 .. 9 : n \in Places[k] /\ \A i \in 1 .. 9 : n \in Places[i] => i = k
    BY DEF PlacesOK, OneOf
  <2>2. {i \in DOMAIN Places : n \in Places[i]} = {k}
    BY <1>1, <2>1
  <2> QED
    BY <2>2, FS_Singleton
<1> QED
  BY <1>2 DEF Accounted

\* The types, and the limits of the buffers: whatever is buffered, evicted and
\* conflated, a buffer of drop_old never holds more than MaxMessages frames, and
\* no buffer more than MaxBytes bytes, unless one frame alone is that big.
THEOREM TypeAlways == Spec => []TypeOK
<1>1. Inv => TypeOK
  <2> SUFFICES ASSUME Inv PROVE TypeOK
    OBVIOUS
  <2>1. Typed /\ SlotsOK
    BY DEF Inv
  <2>2. slot \in [1 .. 2 -> [policy : {"drop_old", "conflate"}, q : Seq(Numbers)]]
    BY <2>1 DEF Typed, Buffer, Numbers
  <2>3. \A i \in 1 .. 2 : Limited(slot[i], topicOf)
    BY <2>1 DEF SlotsOK
  <2> QED
    BY <2>1, <2>2, <2>3 DEF Typed, TypeOK, Limited, Data, Windows, Reasons
<1> QED
  BY <1>1, InvAlways, PTL

\* Every frame routed to the subscriber is at every moment in exactly one place:
\* waiting, sent, or dropped for one reason (broadcast(), drain_all(), clear()).
THEOREM AccountedAlways == Spec => []Accounted
<1>1. Inv => Accounted
  BY InOnePlace DEF Inv
<1> QED
  BY <1>1, InvAlways, PTL

\* The frames of a topic are sent in the order they were routed, each at most
\* once, whatever is evicted or conflated between them (drain_all()).
THEOREM SentInOrderAlways == Spec => []SentInOrder
<1>1. Inv => SentInOrder
  BY DEF Inv, OrderOK
<1> QED
  BY <1>1, InvAlways, PTL

\* A frame gives way only to newer ones of its topic (enqueue()).
THEOREM OldestGivesWayAlways == Spec => []OldestGivesWay
<1>1. Inv => OldestGivesWay
  BY DEF Inv, OrderOK
<1> QED
  BY <1>1, InvAlways, PTL

\* After a heartbeat no more is drained than its credit and what the drain that
\* was under way could still send (set_credit(), drain_all()).
THEOREM WindowKeptAlways == Spec => []WindowKept
<1>1. Inv => WindowKept
  BY WindowIsKept DEF Inv
<1> QED
  BY <1>1, InvAlways, PTL
=============================================================================
