----------------------------- MODULE SequenceFacts ----------------------------
(***************************************************************************)
(* What proofs about queues and loops need: what inserting into a sequence *)
(* and removing from it make of its positions, and that a function defined *)
(* by recursion over the positions of a sequence exists and stays in every *)
(* set that its steps do not leave.                                        *)
(***************************************************************************)
EXTENDS Integers, Sequences, SequencesExt, FiniteSetTheorems, SequenceTheorems, TLAPS

LEMMA InsertAtFacts ==
    ASSUME NEW S, NEW s \in Seq(S), NEW e \in S, NEW i \in 1 .. Len(s) + 1
    PROVE  /\ InsertAt(s, i, e) \in Seq(S)
           /\ Len(InsertAt(s, i, e)) = Len(s) + 1
           /\ \A j \in 1 .. Len(s) + 1 :
                 InsertAt(s, i, e)[j] = IF j < i THEN s[j] ELSE IF j = i THEN e ELSE s[j - 1]
<1> DEFINE before == SubSeq(s, 1, i - 1)
           after == SubSeq(s, i, Len(s))
           one == <<e>>
<1>1. Len(s) \in Nat /\ \A j \in 1 .. Len(s) : s[j] \in S
  BY LenProperties, ElementOfSeq
<1>2. before \in Seq(S) /\ Len(before) = i - 1 /\ \A j \in 1 .. i - 1 : before[j] = s[j]
  <2>1. /\ SubSeq(s, 1, i - 1) \in Seq(S)
        /\ Len(SubSeq(s, 1, i - 1)) = IF 1 <= i - 1 THEN (i - 1) - 1 + 1 ELSE 0
        /\ \A j \in 1 .. (i - 1) - 1 + 1 : SubSeq(s, 1, i - 1)[j] = s[1 + j - 1]
    BY <1>1, SubSeqProperties
  <2> QED  BY <1>1, <2>1
<1>3. /\ after \in Seq(S) /\ Len(after) = Len(s) - i + 1
      /\ \A j \in 1 .. Len(s) - i + 1 : after[j] = s[i + j - 1]
  BY <1>1, SubSeqProperties
<1>4. one \in Seq(S) /\ Len(one) = 1 /\ one[1] = e
  OBVIOUS
<1> HIDE DEF before, after, one
<1>5. /\ before \o one \in Seq(S) /\ Len(before \o one) = i
      /\ \A j \in 1 .. i : (before \o one)[j] = IF j < i THEN s[j] ELSE e
  <2>1. /\ before \o one \in Seq(S) /\ Len(before \o one) = Len(before) + Len(one)
        /\ \A j \in 1 .. Len(before) + Len(one) : (before \o one)[j] =
              IF j <= Len(before) THEN before[j] ELSE one[j - Len(before)]
    BY <1>2, <1>4, ConcatProperties
  <2> QED  BY <1>2, <1>4, <2>1
<1> DEFINE most == before \o one
<1>6. InsertAt(s, i, e) = most \o after
  BY DEF InsertAt, before, after, one
<1>7. most \in Seq(S) /\ Len(most) = i /\ \A j \in 1 .. i : most[j] = IF j < i THEN s[j] ELSE e
  BY <1>5
<1> HIDE DEF most
<1>8. /\ most \o after \in Seq(S) /\ Len(most \o after) = Len(most) + Len(after)
      /\ \A j \in 1 .. Len(most) + Len(after) : (most \o after)[j] =
            IF j <= Len(most) THEN most[j] ELSE after[j - Len(most)]
  BY <1>3, <1>7, ConcatProperties
<1>9. ASSUME NEW j \in 1 .. Len(s) + 1
      PROVE  (most \o after)[j] = IF j < i THEN s[j] ELSE IF j = i THEN e ELSE s[j - 1]
  <2>1. CASE j <= i
    BY <1>1, <1>3, <1>7, <1>8, <2>1
  <2>2. CASE j > i
    <3>1. j - i \in 1 .. Len(s) - i + 1
      BY <1>1, <2>2
    <3>2. after[j - i] = s[j - 1]
      BY <1>1, <1>3, <3>1
    <3> QED  BY <1>1, <1>3, <1>7, <1>8, <2>2, <3>2
  <2>3. j <= i \/ j > i
    BY <1>1
  <2> QED  BY <2>1, <2>2, <2>3
<1> QED  BY <1>1, <1>3, <1>6, <1>7, <1>8, <1>9

LEMMA RemoveAtFacts ==
    ASSUME NEW S, NEW s \in Seq(S), NEW i \in 1 .. Len(s)
    PROVE  /\ RemoveAt(s, i) \in Seq(S)
           /\ Len(RemoveAt(s, i)) = Len(s) - 1
           /\ \A j \in 1 .. Len(s) - 1 : RemoveAt(s, i)[j] = IF j < i THEN s[j] ELSE s[j + 1]
<1> DEFINE before == SubSeq(s, 1, i - 1)
           after == SubSeq(s, i + 1, Len(s))
<1>1. Len(s) \in Nat /\ \A j \in 1 .. Len(s) : s[j] \in S
  BY LenProperties, ElementOfSeq
<1>2. before \in Seq(S) /\ Len(before) = i - 1 /\ \A j \in 1 .. i - 1 : before[j] = s[j]
  <2>1. /\ SubSeq(s, 1, i - 1) \in Seq(S)
        /\ Len(SubSeq(s, 1, i - 1)) = IF 1 <= i - 1 THEN (i - 1) - 1 + 1 ELSE 0
        /\ \A j \in 1 .. (i - 1) - 1 + 1 : SubSeq(s, 1, i - 1)[j] = s[1 + j - 1]
    BY <1>1, SubSeqProperties
  <2> QED  BY <1>1, <2>1
<1>3. /\ after \in Seq(S) /\ Len(after) = Len(s) - i
      /\ \A j \in 1 .. Len(s) - i : after[j] = s[i + j]
  <2>1. /\ SubSeq(s, i + 1, Len(s)) \in Seq(S)
        /\ Len(SubSeq(s, i + 1, Len(s)))
               = IF i + 1 <= Len(s) THEN Len(s) - (i + 1) + 1 ELSE 0
        /\ \A j \in 1 .. Len(s) - (i + 1) + 1 : SubSeq(s, i + 1, Len(s))[j] = s[i + 1 + j - 1]
    BY <1>1, SubSeqProperties
  <2> QED  BY <1>1, <2>1
<1>4. RemoveAt(s, i) = before \o after
  BY DEF RemoveAt
<1> HIDE DEF before, after
<1>5. /\ before \o after \in Seq(S) /\ Len(before \o after) = Len(before) + Len(after)
      /\ \A j \in 1 .. Len(before) + Len(after) : (before \o after)[j] =
            IF j <= Len(before) THEN before[j] ELSE after[j - Len(before)]
  BY <1>2, <1>3, ConcatProperties
<1>6. ASSUME NEW j \in 1 .. Len(s) - 1
      PROVE  (before \o after)[j] = IF j < i THEN s[j] ELSE s[j + 1]
  <2>1. CASE j < i
    BY <1>1, <1>2, <1>3, <1>5, <2>1
  <2>2. CASE j >= i
    <3>1. j - (i - 1) \in 1 .. Len(s) - i
      BY <1>1, <2>2
    <3>2. after[j - (i - 1)] = s[j + 1]
      BY <1>1, <1>3, <3>1
    <3> QED  BY <1>1, <1>2, <1>3, <1>5, <2>2, <3>2
  <2>3. j < i \/ j >= i
    BY <1>1
  <2> QED  BY <2>1, <2>2, <2>3
<1> QED  BY <1>1, <1>2, <1>3, <1>4, <1>5, <1>6

\* Induction, with a set in the place of the property.
LEMMA SetInduction ==
    ASSUME NEW S, 0 \in S, \A n \in Nat : n \in S => n + 1 \in S
    PROVE  Nat \subseteq S
<1> SUFFICES ASSUME NEW n \in Nat, n \notin S PROVE FALSE
  OBVIOUS
<1> DEFINE T == {i \in 0 .. n : i \notin S}
           down == [i \in T |-> i - 1]
<1>1. IsFiniteSet(T)
  <2>1. IsFiniteSet(0 .. n) /\ T \subseteq 0 .. n
    BY FS_Interval
  <2> QED  BY <2>1, FS_Subset
<1>2. n \in T
  OBVIOUS
<1>3. IsFiniteSet(T \ {n}) /\ Cardinality(T \ {n}) = Cardinality(T) - 1 /\ Cardinality(T) \in Nat
  BY <1>1, <1>2, FS_RemoveElement, FS_CardinalityType
<1>4. ASSUME NEW i \in T PROVE i - 1 \in T \ {n}
  <2>1. i # 0
    OBVIOUS
  <2>2. i - 1 \in Nat /\ i - 1 \in 0 .. n
    BY <2>1
  <2>3. i - 1 \notin S
    BY <2>2
  <2> QED  BY <2>2, <2>3
<1>5. down \in [T -> T \ {n}]
  BY <1>4
<1>6. \A i \in T : i \in Int /\ down[i] = i - 1
  OBVIOUS
<1> HIDE DEF T, down
<1>7. PICK x \in T, y \in T : x # y /\ down[x] = down[y]
  BY <1>1, <1>3, <1>5, FS_PigeonHole
<1> QED  BY <1>6, <1>7

\* Positions have a first one among them.
LEMMA FirstOf ==
    ASSUME NEW S \in SUBSET (Nat \ {0}), S # {}
    PROVE  \E i \in S : \A j \in 1 .. i - 1 : j \notin S
<1> SUFFICES ASSUME \A i \in S : \E j \in 1 .. i - 1 : j \in S
             PROVE  FALSE
  OBVIOUS
<1> DEFINE T == {n \in Nat : \A j \in 1 .. n : j \notin S}
<1>1. 0 \in T
  OBVIOUS
<1>2. ASSUME NEW n \in T PROVE n + 1 \in T
  <2>1. n + 1 \notin S
    OBVIOUS
  <2>2. \A j \in 1 .. n + 1 : j = n + 1 \/ j \in 1 .. n
    OBVIOUS
  <2> QED  BY <2>1, <2>2
<1> HIDE DEF T
<1>3. Nat \subseteq T
  BY <1>1, <1>2, SetInduction
<1>4. PICK i \in S : TRUE
  OBVIOUS
<1>5. i \in T /\ i \in 1 .. i
  BY <1>3
<1> QED  BY <1>5 DEF T

\* A function that starts in S and is led from S to S by every step.
Steps(S, n, step) == step \in [1 .. n -> [S -> S]]
Recursion(S, first, n, step) ==
    \E f \in [0 .. n -> S] : f[0] = first /\ \A i \in 1 .. n : f[i] = step[i][f[i - 1]]

LEMMA RecursionExists ==
    ASSUME NEW S, NEW first \in S, NEW n \in Nat, NEW step, Steps(S, n, step)
    PROVE  Recursion(S, first, n, step)
<1> DEFINE Good(m) == \E f \in [0 .. m -> S] :
                          f[0] = first /\ \A i \in 1 .. m : f[i] = step[i][f[i - 1]]
           T == {m \in Nat : m <= n => Good(m)}
<1>1. 0 \in T
  <2>1. PICK f : f = [i \in 0 .. 0 |-> first]
    OBVIOUS
  <2>2. f \in [0 .. 0 -> S] /\ f[0] = first /\ 1 .. 0 = {}
    BY <2>1
  <2>3. Good(0)
    BY <2>2
  <2> QED  BY <2>3
<1>2. ASSUME NEW m \in Nat, m \in T PROVE m + 1 \in T
  <2> SUFFICES ASSUME m + 1 <= n PROVE Good(m + 1)
    OBVIOUS
  <2>1. PICK f \in [0 .. m -> S] :
                f[0] = first /\ \A i \in 1 .. m : f[i] = step[i][f[i - 1]]
    BY <1>2
  <2> DEFINE g == [i \in 0 .. m + 1 |-> IF i = m + 1 THEN step[m + 1][f[m]] ELSE f[i]]
  <2>2. step[m + 1] \in [S -> S] /\ f[m] \in S
    <3>1. m + 1 \in 1 .. n /\ m \in 0 .. m
      OBVIOUS
    <3> QED  BY <3>1 DEF Steps
  <2>3. \A i \in 0 .. m : g[i] = f[i]
    OBVIOUS
  <2>4. g[m + 1] = step[m + 1][f[m]]
    OBVIOUS
  <2>5. g \in [0 .. m + 1 -> S]
    BY <2>2
  <2>6. \A i \in 1 .. m + 1 : g[i] = step[i][g[i - 1]]
    <3> SUFFICES ASSUME NEW i \in 1 .. m + 1 PROVE g[i] = step[i][g[i - 1]]
      OBVIOUS
    <3>1. CASE i = m + 1
      BY <2>3, <2>4, <3>1
    <3>2. CASE i # m + 1
      <4>1. i \in 1 .. m /\ i \in 0 .. m /\ i - 1 \in 0 .. m
        BY <3>2
      <4> HIDE DEF g
      <4> QED  BY <2>1, <2>3, <4>1
    <3> QED  BY <3>1, <3>2
  <2>7. g[0] = first
    BY <2>1, <2>3
  <2> HIDE DEF g
  <2> QED  BY <2>5, <2>6, <2>7
<1> HIDE DEF T
<1>3. Nat \subseteq T
  BY <1>1, <1>2, SetInduction
<1> QED  BY <1>3 DEF T, Recursion

\* A finite set, one member after another.
LEMMA SetToSeqFacts ==
    ASSUME NEW T, IsFiniteSet(T)
    PROVE  SetToSeq(T) \in Seq(T)
<1>1. Cardinality(T) \in Nat /\ ExistsBijection(1 .. Cardinality(T), T)
  BY FS_CardinalityType
<1>2. \E f \in [1 .. Cardinality(T) -> T] : IsInjective(f)
  BY <1>1 DEF ExistsBijection, Bijection, Injection
<1>3. SetToSeq(T) \in [1 .. Cardinality(T) -> T]
  BY <1>2 DEF SetToSeq
<1> QED  BY <1>1, <1>3

\* A sequence of values that a set keeps.
LEMMA Stays ==
    ASSUME NEW S, NEW n \in Nat, NEW f, f[0] \in S,
           \A i \in 1 .. n : f[i - 1] \in S => f[i] \in S
    PROVE  \A i \in 0 .. n : f[i] \in S
<1> DEFINE T == {m \in Nat : m <= n => f[m] \in S}
<1>1. 0 \in T
  OBVIOUS
<1>2. ASSUME NEW m \in Nat, m \in T PROVE m + 1 \in T
  BY <1>2
<1> HIDE DEF T
<1>3. Nat \subseteq T
  BY <1>1, <1>2, SetInduction
<1> QED  BY <1>3 DEF T

\* It has every member, and each once.
LEMMA SetToSeqCovers ==
    ASSUME NEW T, IsFiniteSet(T)
    PROVE  /\ Cardinality(T) \in Nat
           /\ SetToSeq(T) \in Bijection(1 .. Cardinality(T), T)
<1> DEFINE n == Cardinality(T)
           S == 1 .. n
           t == SetToSeq(T)
<1>1. n \in Nat /\ ExistsBijection(S, T)
  BY FS_CardinalityType
<1>2. \E f \in [S -> T] : IsInjective(f)
  BY <1>1 DEF ExistsBijection, Bijection, Injection
<1>3. t \in [S -> T] /\ IsInjective(t)
  BY <1>2 DEF SetToSeq
<1>4. IsFiniteSet(S) /\ Cardinality(S) = n
  BY <1>1, FS_Interval
<1> HIDE DEF n, S, t
<1>5. t \in Injection(S, T)
  BY <1>3 DEF Injection, IsInjective
<1>6. t \in Surjection(S, T)
  BY <1>4, <1>5, FS_Injection DEF n
<1>7. t \in Bijection(S, T)
  BY <1>5, <1>6 DEF Bijection
<1> QED  BY <1>1, <1>7 DEF n, S, t

=============================================================================
