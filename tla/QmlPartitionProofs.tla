-------------------------- MODULE QmlPartitionProofs --------------------------
(***************************************************************************)
(* Proofs about QmlPartition, for any number of partition objects and any  *)
(* calls of the application: callbacks are called once, when the request   *)
(* they were given with is answered; what the daemon has accepted is     *)
(* what the objects watch; a notification object hears what it asked for;  *)
(* a partition object knows the state of its partition.                    *)
(*                                                                         *)
(* The operators of the model lead from one state of the objects to the    *)
(* next.  Sound says what every one of them keeps of the callbacks; most   *)
(* of them are quiet: they leave the callbacks and the query object alone  *)
(* and do with the connection only what sending a request or deleting a    *)
(* watcher does.  Tidy, after that, says what they keep of the watchers,   *)
(* Mine and Told what they keep of the notification object and of a        *)
(* partition object.                                                       *)
(***************************************************************************)
EXTENDS QmlPartitionInductive, SequenceFacts

-----------------------------------------------------------------------------
(***************************************************************************)
(* Sequences of requests.                                                  *)
(***************************************************************************)
LEMMA IsSeqOf ==
    ASSUME NEW S, NEW s \in Seq(S)
    PROVE  /\ IsSeq(s) /\ Members(s) \subseteq S
           /\ Len(s) \in Nat /\ DOMAIN s = 1 .. Len(s)
           /\ Members(s) = {s[i] : i \in 1 .. Len(s)}
<1>1. Len(s) \in Nat /\ DOMAIN s = 1 .. Len(s) /\ \A i \in 1 .. Len(s) : s[i] \in S
  BY LenProperties, ElementOfSeq
<1>2. Members(s) = {s[i] : i \in 1 .. Len(s)}
  BY <1>1 DEF Members
<1>3. s \in Seq(Members(s))
  <2> DEFINE T == Members(s)
  <2>1. s = [i \in 1 .. Len(s) |-> s[i]] /\ \A i \in 1 .. Len(s) : s[i] \in T
    BY <1>1, <1>2
  <2> HIDE DEF T
  <2>2. s \in [1 .. Len(s) -> T]
    BY <2>1
  <2> QED  BY <1>1, <2>2, SeqDef DEF T
<1> QED  BY <1>1, <1>2, <1>3 DEF IsSeq

LEMMA NothingSent ==
    /\ IsSeq(<<>>) /\ Members(<<>>) = {} /\ Distinct(<<>>)
    /\ Len(<<>>) = 0
<1>1. PICK e, S : e = <<>> /\ S = Nat
  OBVIOUS
<1>2. e \in Seq(S) /\ Len(e) = 0
  BY <1>1, EmptySeq
<1>3. DOMAIN e = 1 .. 0 /\ IsSeq(e) /\ Members(e) = {e[i] : i \in 1 .. 0}
  BY <1>2, IsSeqOf
<1>4. Members(e) = {} /\ Distinct(e)
  BY <1>3 DEF Distinct
<1> QED  BY <1>1, <1>2, <1>3, <1>4

LEMMA AppendFacts ==
    ASSUME NEW s, IsSeq(s), NEW e
    PROVE  /\ IsSeq(Append(s, e)) /\ Members(Append(s, e)) = Members(s) \cup {e}
           /\ Len(Append(s, e)) = Len(s) + 1
           /\ Distinct(s) /\ e.id \notin Ids(Members(s)) => Distinct(Append(s, e))
<1> DEFINE S == Members(s) \cup {e}
           t == Append(s, e)
<1>1. s \in Seq(S) /\ e \in S
  <2>1. s \in Seq(Members(s)) /\ Members(s) \subseteq S
    BY DEF IsSeq
  <2> HIDE DEF S
  <2>2. s \in Seq(S)
    BY <2>1, SeqMonotonic
  <2> QED  BY <2>2 DEF S
<1>2. Len(s) \in Nat /\ DOMAIN s = 1 .. Len(s) /\ Members(s) = {s[i] : i \in 1 .. Len(s)}
  BY <1>1, IsSeqOf
<1> HIDE DEF S
<1>3. /\ t \in Seq(S) /\ Len(t) = Len(s) + 1 /\ t[Len(s) + 1] = e
      /\ \A i \in 1 .. Len(s) : t[i] = s[i]
  BY <1>1, AppendProperties
<1>4. IsSeq(t) /\ DOMAIN t = 1 .. Len(t) /\ Members(t) = {t[i] : i \in 1 .. Len(t)}
  BY <1>3, IsSeqOf
<1> HIDE DEF t
<1>5. \A i : i \in 1 .. Len(t) <=> i \in 1 .. Len(s) \/ i = Len(s) + 1
  BY <1>2, <1>3
<1>6. Members(t) = Members(s) \cup {e}
  BY <1>2, <1>3, <1>4, <1>5
<1>7. ASSUME Distinct(s), e.id \notin Ids(Members(s)) PROVE Distinct(t)
  <2>1. \A i \in 1 .. Len(s) : t[i].id # e.id
    BY <1>2, <1>3, <1>7 DEF Ids
  <2>2. \A i, j \in 1 .. Len(s) : t[i].id = t[j].id => i = j
    BY <1>2, <1>3, <1>7 DEF Distinct
  <2> QED  BY <1>3, <1>4, <1>5, <2>1, <2>2 DEF Distinct
<1> QED  BY <1>3, <1>4, <1>6, <1>7 DEF t

LEMMA TailFacts ==
    ASSUME NEW s, IsSeq(s), s # <<>>
    PROVE  /\ IsSeq(Tail(s)) /\ Members(s) = {Head(s)} \cup Members(Tail(s))
           /\ Distinct(s) => Distinct(Tail(s)) /\ Head(s).id \notin Ids(Members(Tail(s)))
<1> DEFINE S == Members(s)
           t == Tail(s)
<1>1. s \in Seq(S)
  BY DEF IsSeq
<1>2. Len(s) \in Nat /\ DOMAIN s = 1 .. Len(s) /\ Members(s) = {s[i] : i \in 1 .. Len(s)}
  BY <1>1, IsSeqOf
<1> HIDE DEF S
<1>3. /\ t \in Seq(S) /\ Len(t) = Len(s) - 1 /\ Len(s) # 0 /\ Head(s) = s[1]
      /\ \A i \in 1 .. Len(s) - 1 : t[i] = s[i + 1]
  <2>1. Head(s) = s[1] /\ Tail(s) \in Seq(S) /\ Len(s) # 0
    BY <1>1, HeadTailProperties, NothingSent
  <2>2. Len(Tail(s)) = Len(s) - 1 /\ \A i \in 1 .. Len(Tail(s)) : Tail(s)[i] = s[i + 1]
    BY <1>1, HeadTailProperties
  <2> QED  BY <2>1, <2>2
<1>4. IsSeq(t) /\ DOMAIN t = 1 .. Len(t) /\ Members(t) = {t[i] : i \in 1 .. Len(t)}
  BY <1>3, IsSeqOf
<1> HIDE DEF t
<1>6. \A i \in 1 .. Len(t) : i + 1 \in 1 .. Len(s) /\ t[i] = s[i + 1]
  BY <1>2, <1>3
<1>7. Members(s) = {s[1]} \cup Members(t)
  <2>1. ASSUME NEW i \in 1 .. Len(s) PROVE s[i] \in {s[1]} \cup Members(t)
    <3>1. CASE i # 1
      <4>1. i - 1 \in 1 .. Len(t) /\ t[i - 1] = s[i]
        BY <1>2, <1>3, <3>1
      <4> QED  BY <1>4, <4>1
    <3> QED  BY <3>1
  <2>2. 1 \in 1 .. Len(s)
    BY <1>2, <1>3
  <2> QED  BY <1>2, <1>4, <1>6, <2>1, <2>2
<1>8. ASSUME Distinct(s) PROVE Distinct(t) /\ s[1].id \notin Ids(Members(t))
  <2>1. \A i, j \in 1 .. Len(s) : s[i].id = s[j].id => i = j
    BY <1>2, <1>8 DEF Distinct
  <2>2. \A i, j \in 1 .. Len(t) : t[i].id = t[j].id => i = j
    BY <1>6, <2>1
  <2>3. \A i \in 1 .. Len(t) : t[i].id # s[1].id
    <3>1. \A i \in 1 .. Len(t) : i + 1 # 1 /\ 1 \in 1 .. Len(s)
      BY <1>2, <1>3
    <3> QED  BY <1>6, <2>1, <3>1
  <2> QED  BY <1>4, <2>2, <2>3 DEF Distinct, Ids
<1> QED  BY <1>3, <1>4, <1>7, <1>8 DEF t

LEMMA InsertedFacts ==
    ASSUME NEW s, IsSeq(s), NEW r
    PROVE  /\ IsSeq(Inserted(s, r)) /\ Members(Inserted(s, r)) = Members(s) \cup {r}
           /\ Distinct(s) /\ r.id \notin Ids(Members(s)) => Distinct(Inserted(s, r))
<1>1. CASE ~Internal(r)
  BY <1>1, AppendFacts DEF Inserted
<1>2. CASE Internal(r)
  <2> DEFINE S == Members(s) \cup {r}
             before == {i \in DOMAIN s : \A j \in 1 .. i : Internal(s[j])}
             at == Cardinality(before) + 1
             t == InsertAt(s, at, r)
  <2>1. s \in Seq(S) /\ r \in S
    <3>1. s \in Seq(Members(s)) /\ Members(s) \subseteq S
      BY DEF IsSeq
    <3> HIDE DEF S
    <3>2. s \in Seq(S)
      BY <3>1, SeqMonotonic
    <3> QED  BY <3>2 DEF S
  <2>2. Len(s) \in Nat /\ DOMAIN s = 1 .. Len(s) /\ Members(s) = {s[i] : i \in 1 .. Len(s)}
    BY <2>1, IsSeqOf
  <2>3. at \in 1 .. Len(s) + 1
    <3>1. IsFiniteSet(1 .. Len(s)) /\ Cardinality(1 .. Len(s)) = Len(s)
      <4> DEFINE n == Len(s)
      <4>1. n \in Nat /\ 1 \in Int
        BY <2>2
      <4> HIDE DEF n
      <4>2. IsFiniteSet(1 .. n) /\ Cardinality(1 .. n) = IF 1 > n THEN 0 ELSE n - 1 + 1
        BY <4>1, FS_Interval
      <4>3. IsFiniteSet(1 .. n) /\ Cardinality(1 .. n) = n
        BY <4>1, <4>2
      <4> QED  BY <4>3 DEF n
    <3>2. before \subseteq 1 .. Len(s)
      BY <2>2
    <3> HIDE DEF before
    <3>3. Cardinality(before) <= Len(s) /\ Cardinality(before) \in Nat
      BY <3>1, <3>2, FS_Subset, FS_CardinalityType
    <3> QED  BY <2>2, <3>3
  <2> HIDE DEF S, at
  <2>4. /\ t \in Seq(S) /\ Len(t) = Len(s) + 1
        /\ \A j \in 1 .. Len(s) + 1 :
              t[j] = IF j < at THEN s[j] ELSE IF j = at THEN r ELSE s[j - 1]
    BY <2>1, <2>3, InsertAtFacts
  <2>5. IsSeq(t) /\ DOMAIN t = 1 .. Len(t) /\ Members(t) = {t[i] : i \in 1 .. Len(t)}
    BY <2>4, IsSeqOf
  <2>6. Inserted(s, r) = t
    BY <1>2 DEF Inserted, at
  <2> HIDE DEF t, before
  <2>7. Members(t) = Members(s) \cup {r}
    <3>1. ASSUME NEW j \in 1 .. Len(s) + 1 PROVE t[j] \in Members(s) \cup {r}
      <4>1. j < at => j \in 1 .. Len(s)
        BY <2>2, <2>3
      <4>2. j > at => j - 1 \in 1 .. Len(s)
        BY <2>2, <2>3
      <4>3. j < at \/ j = at \/ j > at
        BY <2>2, <2>3
      <4> QED  BY <2>2, <2>3, <2>4, <4>1, <4>2, <4>3
    <3>2. ASSUME NEW j \in 1 .. Len(s) PROVE s[j] \in Members(t)
      <4>1. CASE j < at
        <5>1. j \in 1 .. Len(t) /\ t[j] = s[j]
          BY <2>2, <2>4, <4>1
        <5> QED  BY <2>5, <5>1
      <4>2. CASE ~(j < at)
        <5>1. j + 1 \in 1 .. Len(t) /\ t[j + 1] = s[j]
          BY <2>2, <2>3, <2>4, <4>2
        <5> QED  BY <2>5, <5>1
      <4> QED  BY <4>1, <4>2
    <3>3. r \in Members(t)
      <4>1. at \in 1 .. Len(t) /\ t[at] = r
        BY <2>3, <2>4
      <4> QED  BY <2>5, <4>1
    <3> QED  BY <2>2, <2>4, <2>5, <3>1, <3>2, <3>3
  <2>8. ASSUME Distinct(s), r.id \notin Ids(Members(s)) PROVE Distinct(t)
    <3>1. \A i, j \in 1 .. Len(s) : s[i].id = s[j].id => i = j
      BY <2>2, <2>8 DEF Distinct
    <3>2. \A i \in 1 .. Len(s) : s[i].id # r.id
      BY <2>2, <2>8 DEF Ids
    <3> SUFFICES ASSUME NEW i \in 1 .. Len(s) + 1, NEW j \in 1 .. Len(s) + 1, t[i].id = t[j].id
                 PROVE  i = j
      BY <2>4, <2>5 DEF Distinct
    <3>3. ASSUME NEW k \in 1 .. Len(s) + 1
          PROVE  /\ k < at => k \in 1 .. Len(s) /\ t[k] = s[k]
                 /\ k = at => t[k] = r
                 /\ k > at => k - 1 \in 1 .. Len(s) /\ t[k] = s[k - 1]
                 /\ k < at \/ k = at \/ k > at
      BY <2>2, <2>3, <2>4
    <3>4. i = at => j = at
      BY <3>2, <3>3
    <3>5. j = at => i = at
      BY <3>2, <3>3
    <3>6. i < at /\ j < at => i = j
      BY <3>1, <3>3
    <3>7. i > at /\ j > at => i = j
      BY <3>1, <3>3
    <3>8. ~(i < at /\ j > at) /\ ~(i > at /\ j < at)
      <4>1. i < at /\ j > at => i = j - 1
        BY <3>1, <3>3
      <4>2. i > at /\ j < at => i - 1 = j
        BY <3>1, <3>3
      <4> QED  BY <2>2, <2>3, <4>1, <4>2
    <3> QED  BY <3>3, <3>4, <3>5, <3>6, <3>7, <3>8
  <2> QED  BY <2>5, <2>6, <2>7, <2>8
<1> QED  BY <1>1, <1>2

\* What Without keeps of the first requests.
Keeping(s, gone, kept) ==
    /\ kept[0] = <<>>
    /\ \A i \in 1 .. Len(s) :
          kept[i] = IF s[i] \in gone THEN kept[i - 1] ELSE Append(kept[i - 1], s[i])

LEMMA WithoutIs ==
    ASSUME NEW s, IsSeq(s), NEW gone
    PROVE  \E kept : Keeping(s, gone, kept) /\ Without(s, gone) = kept[Len(s)]
<1> DEFINE n == Len(s)
           S == Seq(Members(s))
           Step(i, t) == IF s[i] \in gone THEN t ELSE Append(t, s[i])
           kept == CHOOSE f : f = [i \in 0 .. n |-> IF i = 0 THEN <<>> ELSE
                                      IF s[i] \in gone THEN f[i - 1] ELSE Append(f[i - 1], s[i])]
           step == [i \in 1 .. n |-> [t \in S |-> Step(i, t)]]
<1>1. n \in Nat /\ DOMAIN s = 1 .. n /\ Members(s) = {s[i] : i \in 1 .. n}
  BY IsSeqOf DEF IsSeq
<1>2. Without(s, gone) = kept[n]
  BY DEF Without
<1>3. <<>> \in S /\ \A i \in 1 .. n, t \in S : Step(i, t) \in S
  <2>1. <<>> \in S
    BY EmptySeq
  <2>2. ASSUME NEW i \in 1 .. n, NEW t \in S PROVE Step(i, t) \in S
    <3>1. s[i] \in Members(s)
      BY <1>1
    <3>2. Append(t, s[i]) \in Seq(Members(s))
      BY <3>1, AppendProperties
    <3> QED  BY <3>2
  <2> QED  BY <2>1, <2>2
<1>4. PICK f \in [0 .. n -> S] : f[0] = <<>> /\ \A i \in 1 .. n : f[i] = Step(i, f[i - 1])
  <2> HIDE DEF n, S, Step
  <2>1. Steps(S, n, step)
    BY <1>1, <1>3 DEF Steps
  <2> HIDE DEF step
  <2>2. Recursion(S, <<>>, n, step)
    BY <1>1, <1>3, <2>1, RecursionExists
  <2>3. PICK f \in [0 .. n -> S] : f[0] = <<>> /\ \A i \in 1 .. n : f[i] = step[i][f[i - 1]]
    BY <2>2 DEF Recursion
  <2>4. \A i \in 1 .. n : i - 1 \in 0 .. n
    BY <1>1
  <2>5. \A i \in 1 .. n : f[i] = Step(i, f[i - 1])
    BY <2>3, <2>4 DEF step
  <2> QED  BY <2>3, <2>5
<1>5. f = [i \in 0 .. n |-> IF i = 0 THEN <<>> ELSE
              IF s[i] \in gone THEN f[i - 1] ELSE Append(f[i - 1], s[i])]
  <2> HIDE DEF n, S
  <2>1. \A i \in 0 .. n : i = 0 \/ i \in 1 .. n
    BY <1>1
  <2> QED  BY <1>4, <2>1
<1>6. kept = [i \in 0 .. n |-> IF i = 0 THEN <<>> ELSE
                 IF s[i] \in gone THEN kept[i - 1] ELSE Append(kept[i - 1], s[i])]
  BY <1>5
<1> HIDE DEF kept
<1>7. kept[0] = <<>> /\ \A i \in 1 .. n : kept[i] = Step(i, kept[i - 1])
  <2> HIDE DEF n
  <2>1. 0 \in 0 .. n /\ \A i \in 1 .. n : i \in 0 .. n /\ i # 0
    BY <1>1
  <2> QED  BY <1>6, <2>1
<1> QED  BY <1>2, <1>7 DEF Keeping

LEMMA WithoutFacts ==
    ASSUME NEW s, IsSeq(s), NEW gone
    PROVE  /\ IsSeq(Without(s, gone)) /\ Members(Without(s, gone)) = Members(s) \ gone
           /\ Distinct(s) => Distinct(Without(s, gone))
<1> DEFINE n == Len(s)
           Step(i, t) == IF s[i] \in gone THEN t ELSE Append(t, s[i])
<1>1. n \in Nat /\ DOMAIN s = 1 .. n /\ Members(s) = {s[i] : i \in 1 .. n}
  BY IsSeqOf DEF IsSeq
<1>2. PICK kept : Keeping(s, gone, kept) /\ Without(s, gone) = kept[n]
  BY WithoutIs
<1>3. kept[0] = <<>> /\ \A i \in 1 .. n : kept[i] = Step(i, kept[i - 1])
  BY <1>2 DEF Keeping
<1> DEFINE Upto(i) == {s[j] : j \in 1 .. i}
           Good(i) == /\ IsSeq(kept[i]) /\ Members(kept[i]) = Upto(i) \ gone
                      /\ Distinct(s) => Distinct(kept[i])
           T == {i \in Nat : i <= n => Good(i)}
<1>4. 0 \in T
  <2>1. Upto(0) = {}
    OBVIOUS
  <2> QED  BY <1>3, <2>1, NothingSent
<1>5. ASSUME NEW i \in Nat, i \in T PROVE i + 1 \in T
  <2> SUFFICES ASSUME i + 1 <= n PROVE Good(i + 1)
    OBVIOUS
  <2>1. Good(i) /\ i + 1 \in 1 .. n /\ (i + 1) - 1 = i
    BY <1>1, <1>5
  <2>2. kept[i + 1] = IF s[i + 1] \in gone THEN kept[i] ELSE Append(kept[i], s[i + 1])
    BY <1>3, <2>1
  <2>3. Upto(i + 1) = Upto(i) \cup {s[i + 1]}
    <3>1. \A j : j \in 1 .. i + 1 <=> j \in 1 .. i \/ j = i + 1
      OBVIOUS
    <3> HIDE DEF n
    <3> QED  BY <3>1
  <2>4. Distinct(s) => s[i + 1].id \notin Ids(Members(kept[i]))
    <3> SUFFICES ASSUME Distinct(s), s[i + 1].id \in Ids(Upto(i)) PROVE FALSE
      BY <2>1 DEF Ids
    <3>1. PICK j \in 1 .. i : s[j].id = s[i + 1].id
      BY DEF Ids
    <3>2. j \in 1 .. n /\ j # i + 1
      BY <1>1, <2>1
    <3> QED  BY <1>1, <2>1, <3>1, <3>2 DEF Distinct
  <2> HIDE DEF Upto, n
  <2>5. CASE s[i + 1] \in gone
    BY <2>1, <2>2, <2>3, <2>5
  <2>6. CASE s[i + 1] \notin gone
    <3>1. kept[i + 1] = Append(kept[i], s[i + 1])
      BY <2>2, <2>6
    <3>2. /\ IsSeq(kept[i + 1]) /\ Members(kept[i + 1]) = Members(kept[i]) \cup {s[i + 1]}
          /\ Distinct(kept[i]) /\ s[i + 1].id \notin Ids(Members(kept[i])) => Distinct(kept[i + 1])
      <4> DEFINE t == kept[i]
                 e == s[i + 1]
      <4>1. IsSeq(t) /\ kept[i + 1] = Append(t, e)
        BY <2>1, <3>1
      <4> HIDE DEF t, e
      <4>2. /\ IsSeq(Append(t, e)) /\ Members(Append(t, e)) = Members(t) \cup {e}
            /\ Distinct(t) /\ e.id \notin Ids(Members(t)) => Distinct(Append(t, e))
        BY <4>1, AppendFacts
      <4> QED  BY <4>1, <4>2 DEF t, e
    <3> QED  BY <2>1, <2>3, <2>4, <2>6, <3>2
  <2> QED  BY <2>5, <2>6
<1> HIDE DEF T
<1>6. Nat \subseteq T
  BY <1>4, <1>5, SetInduction
<1>7. Good(n)
  BY <1>1, <1>6 DEF T
<1>8. Upto(n) = Members(s)
  BY <1>1
<1> QED  BY <1>2, <1>7, <1>8

-----------------------------------------------------------------------------
(***************************************************************************)
(* What leaves the callbacks and the query object alone.                   *)
(***************************************************************************)
LEMMA WaitingIs ==
    ASSUME NEW c
    PROVE  WaitingOf(c) = Ids(Members(c.queue)) \cup {id \in Ids(Members(c.wire)) : id = c.current}
BY DEF WaitingOf, Pending, Ids, Members

LEMMA WaitingIsSent ==
    ASSUME NEW c, Line(c)
    PROVE  /\ WaitingOf(c) \subseteq Ids(Sent(c)) /\ 0 \notin WaitingOf(c)
           /\ \A r \in Sent(c) : r.id \in 1 .. c.lastId
<1>1. \A r \in Sent(c) : r.id \in 1 .. c.lastId
  BY DEF Line, Ids
<1>2. WaitingOf(c) \subseteq Ids(Sent(c))
  BY WaitingIs DEF Ids, Sent
<1> QED  BY <1>1, <1>2 DEF Ids

LEMMA CarriedSame ==
    ASSUME NEW c, NEW d, Sent(d) = Sent(c), WaitingOf(d) = WaitingOf(c)
    PROVE  Carried(c, d)
<1>1. \A r \in Sent(d) : r \in Sent(c)
  OBVIOUS
<1>2. \A id \in WaitingOf(c) : id \in WaitingOf(d)
  OBVIOUS
<1>3. \A id \in WaitingOf(d) : id \in WaitingOf(c)
  OBVIOUS
<1> QED  BY <1>1, <1>2, <1>3, Zenon DEF Carried

LEMMA StillSound ==
    ASSUME NEW c, Sound(c), NEW d, Frame(c, d), Line(d), Carried(c, d)
    PROVE  Sound(d)
<1> USE DEF Carried
<1>1. /\ c.lastId \in Nat /\ d.lastId \in Nat /\ c.lastId <= d.lastId
      /\ c.promised \subseteq 1 .. c.lastId /\ c.query.request \in 0 .. c.lastId
  BY DEF Sound, Line, Kept, Loading, Frame
<1>2. CalledOf(d) = CalledOf(c)
  BY DEF Frame, CalledOf
<1>3. Ids(c.writeCallbacks) \cup Ids(c.findCallbacks) = c.promised \ CalledOf(c)
  BY DEF Sound, Kept, Ids
<1>4. Owned(d)
  <2> SUFFICES ASSUME NEW r \in Sent(d) PROVE Own(d, r)
    BY DEF Owned
  <2>1. CASE r \in Sent(c)
    BY <2>1 DEF Sound, Owned, Own, Frame
  <2>2. CASE r.id > c.lastId /\ Unowned(r)
    <3>1. r.id \notin 1 .. c.lastId /\ r.id # c.query.request
      BY <1>1, <2>2
    <3>2. r.id \notin Ids(c.writeCallbacks) /\ r.id \notin Ids(c.findCallbacks)
      BY <1>1, <1>3, <3>1
    <3> QED  BY <2>2, <3>1, <3>2 DEF Own, Unowned, Frame
  <2> QED  BY <2>1, <2>2
<1>5. Kept(d)
  <2>1. d.promised \subseteq 1 .. d.lastId
    BY <1>1 DEF Frame
  <2>2. d.promised \subseteq WaitingOf(d) \cup CalledOf(d)
    BY <1>2 DEF Sound, Kept, Frame, Awaited
  <2> QED  BY <1>2, <2>1, <2>2 DEF Sound, Kept, Frame
<1>6. CalledOnce(d)
  BY <1>2 DEF Sound, CalledOnce, Frame
<1>7. Loading(d)
  <2>1. c.query.request \in WaitingOf(d) <=> c.query.request \in WaitingOf(c)
    BY <1>1 DEF Awaited
  <2> QED  BY <1>1, <2>1 DEF Sound, Loading, Frame
<1>8. Shaped(d)
  BY DEF Frame
<1> QED  BY <1>4, <1>5, <1>6, <1>7, <1>8 DEF Sound

LEMMA SameIsQuiet ==
    ASSUME NEW c, Sound(c), NEW d, Frame(c, d), SameLine(c, d)
    PROVE  Quiet(c, d)
<1>1. Line(d) /\ Sent(d) = Sent(c) /\ WaitingOf(d) = WaitingOf(c)
  BY WaitingIs DEF SameLine, Sound, Line, Sent
<1>2. Carried(c, d)
  BY <1>1, CarriedSame
<1>3. Sound(d)
  BY <1>1, <1>2, StillSound
<1> QED  BY <1>3 DEF Quiet

LEMMA QuietFollows ==
    ASSUME NEW c, NEW d, NEW e, Quiet(c, d), Quiet(d, e), Sound(c)
    PROVE  Quiet(c, e)
<1>1. c.lastId \in Nat /\ d.lastId \in Nat /\ e.lastId \in Nat
  BY DEF Quiet, Sound, Line
<1>2. c.lastId <= e.lastId
  BY <1>1 DEF Quiet, Frame
<1> QED  BY <1>2 DEF Quiet, Frame

LEMMA NothingIsQuiet ==
    ASSUME NEW c, Sound(c)
    PROVE  Quiet(c, c)
<1>1. c.lastId \in Nat
  BY DEF Sound, Line
<1> QED  BY <1>1 DEF Quiet, Frame, Sound

LEMMA ExposedIsQuiet ==
    ASSUME NEW c, Sound(c), NEW e
    PROVE  Quiet(c, Exposed(c, e))
<1>1. c.lastId \in Nat /\ Shaped(c)
  BY DEF Sound, Line
<1>2. Frame(c, Exposed(c, e)) /\ SameLine(c, Exposed(c, e))
  BY <1>1 DEF Frame, SameLine, Exposed, Shaped, Fields
<1> QED  BY <1>2, SameIsQuiet

-----------------------------------------------------------------------------
(***************************************************************************)
(* The connection.                                                         *)
(***************************************************************************)
LEMMA QuietQueue ==
    ASSUME NEW c, Sound(c)
    PROVE  /\ Quiet(c, handleRequestQueue(c))
           /\ handleRequestQueue(c).lastId = c.lastId
           /\ Sent(handleRequestQueue(c)) = Sent(c)
           /\ WaitingOf(handleRequestQueue(c)) = WaitingOf(c)
<1> DEFINE d == handleRequestQueue(c)
<1>1. CASE c.current # None \/ c.queue = <<>>
  <2>1. d = c
    BY <1>1 DEF handleRequestQueue
  <2> QED  BY <2>1, NothingIsQuiet
<1>2. CASE c.current = None /\ c.queue # <<>>
  <2>1. d = [c EXCEPT !.current = Head(c.queue).id, !.wire = Append(@, Head(c.queue)),
                      !.queue = Tail(@)]
    BY <1>2 DEF handleRequestQueue
  <2>2. Shaped(c) /\ Line(c)
    BY DEF Sound
  <2>3. /\ d.current = Head(c.queue).id /\ d.wire = Append(c.wire, Head(c.queue))
        /\ d.queue = Tail(c.queue) /\ d.lastId = c.lastId /\ Frame(c, d)
    BY <2>1, <2>2 DEF Shaped, Fields, Frame, Line
  <2> HIDE DEF d
  <2>4. /\ IsSeq(d.queue) /\ Members(c.queue) = {Head(c.queue)} \cup Members(d.queue)
        /\ Distinct(d.queue) /\ Head(c.queue).id \notin Ids(Members(d.queue))
    BY <1>2, <2>2, <2>3, TailFacts DEF Line
  <2>5. IsSeq(d.wire) /\ Members(d.wire) = Members(c.wire) \cup {Head(c.queue)}
    <3>1. IsSeq(c.wire)
      BY <2>2 DEF Line
    <3> QED  BY <2>3, <3>1, AppendFacts
  <2>6. Sent(d) = Sent(c)
    BY <2>4, <2>5 DEF Sent
  <2>7. Head(c.queue).id \in 1 .. c.lastId
    BY <2>2, <2>4 DEF Line, Sent, Ids
  <2>8. WaitingOf(d) = WaitingOf(c)
    <3>1. \A r \in Members(c.wire) : r.id # 0
      BY <2>2 DEF Line, Sent, Ids
    <3>2. WaitingOf(c) = Ids(Members(c.queue))
      BY <1>2, <3>1, WaitingIs DEF Ids, None
    <3>3. WaitingOf(d) = Ids(Members(d.queue)) \cup {Head(c.queue).id}
      BY <2>3, <2>5, WaitingIs DEF Ids
    <3> QED  BY <2>4, <3>2, <3>3 DEF Ids
  <2>9. Line(d)
    BY <2>2, <2>3, <2>4, <2>5, <2>6, <2>7 DEF Line
  <2>10. Carried(c, d)
    BY <2>6, <2>8, CarriedSame
  <2>11. Sound(d)
    BY <2>3, <2>9, <2>10, StillSound
  <2> QED  BY <2>3, <2>6, <2>8, <2>11 DEF Quiet, d
<1> QED  BY <1>1, <1>2

LEMMA SendFacts ==
    ASSUME NEW c, Sound(c), NEW kind, NEW of, NEW name, NEW w,
           kind \in {"write", "find", "query"} => w = NoWatcher
    PROVE  LET d == send(c, Request(kind, of, name, w))
           IN /\ Quiet(c, d) /\ d.lastId = c.lastId + 1
              /\ d.lastId \in WaitingOf(d)
              /\ \A r \in Sent(d) : r.id = d.lastId => r.kind = kind
<1> DEFINE id == c.lastId + 1
           q == [Request(kind, of, name, w) EXCEPT !.id = id]
           e == [c EXCEPT !.lastId = id, !.queue = Inserted(@, q)]
           d == send(c, Request(kind, of, name, w))
<1>1. d = handleRequestQueue(e)
  BY DEF send
<1>2. q.id = id /\ q.kind = kind /\ q.watcher = w
  BY DEF Request
<1>3. Shaped(c) /\ Line(c) /\ c.lastId \in Nat
  BY DEF Sound, Line
<1>4. /\ e.queue = Inserted(c.queue, q) /\ e.lastId = id /\ e.wire = c.wire
      /\ e.current = c.current /\ Frame(c, e)
  BY <1>3 DEF Shaped, Fields, Frame
<1>5. \A r \in Sent(c) : r.id \in 1 .. c.lastId
  BY <1>3, WaitingIsSent
<1> HIDE DEF d, e, q
<1>6. /\ IsSeq(e.queue) /\ Members(e.queue) = Members(c.queue) \cup {q} /\ Distinct(e.queue)
  <2>1. q.id \notin Ids(Members(c.queue))
    BY <1>2, <1>3, <1>5 DEF Ids, Sent
  <2> QED  BY <1>3, <1>4, <2>1, InsertedFacts DEF Line
<1>7. Sent(e) = Sent(c) \cup {q}
  BY <1>4, <1>6 DEF Sent
<1>8. Line(e)
  <2>1. Ids(Sent(e)) \subseteq 1 .. e.lastId
    BY <1>2, <1>3, <1>4, <1>5, <1>7 DEF Ids
  <2>2. e.current \notin Ids(Members(e.queue))
    BY <1>2, <1>3, <1>4, <1>6 DEF Line, Ids
  <2> QED  BY <1>3, <1>4, <1>6, <2>1, <2>2 DEF Line
<1>9. WaitingOf(e) = WaitingOf(c) \cup {id}
  <2>1. Ids(Members(e.queue)) = Ids(Members(c.queue)) \cup {id}
    BY <1>2, <1>6 DEF Ids
  <2> HIDE DEF id
  <2> QED  BY <1>4, <2>1, WaitingIs
<1>10. Carried(c, e)
  <2>1. \A r \in Sent(e) : r \in Sent(c) \/ (r.id > c.lastId /\ Unowned(r))
    <3>1. q.id > c.lastId /\ Unowned(q)
      BY <1>2, <1>3 DEF Unowned
    <3> QED  BY <1>7, <3>1
  <2>2. \A n \in WaitingOf(c) : n \in WaitingOf(e)
    BY <1>9
  <2>3. \A n \in WaitingOf(e) : n \in WaitingOf(c) \/ n > c.lastId
    BY <1>3, <1>9
  <2> QED  BY <2>1, <2>2, <2>3, Zenon DEF Carried
<1>11. Sound(e)
  BY <1>4, <1>8, <1>10, StillSound
<1>12. /\ Quiet(e, d) /\ d.lastId = e.lastId /\ Sent(d) = Sent(e) /\ WaitingOf(d) = WaitingOf(e)
  BY <1>1, <1>11, QuietQueue
<1>13. Quiet(c, d)
  BY <1>4, <1>11, <1>12, QuietFollows DEF Quiet
<1>14. \A r \in Sent(d) : r.id = d.lastId => r.kind = kind
  BY <1>2, <1>3, <1>4, <1>5, <1>7, <1>12
<1> QED  BY <1>4, <1>9, <1>12, <1>13, <1>14 DEF d

LEMMA QuietSend ==
    ASSUME NEW c, Sound(c), NEW kind, NEW of, NEW name, NEW w,
           kind \in {"write", "find", "query"} => w = NoWatcher
    PROVE  Quiet(c, send(c, Request(kind, of, name, w)))
BY SendFacts

LEMMA QuietAddWatcher ==
    ASSUME NEW c, Sound(c), NEW w
    PROVE  Quiet(c, addWatcher(c, w)) /\ addWatcher(c, w).lastId = c.lastId + 1
<1> DEFINE e == [c EXCEPT !.watchers = @ \cup {w}]
<1>1. Shaped(c) /\ c.lastId \in Nat
  BY DEF Sound, Line
<1>2. Frame(c, e) /\ SameLine(c, e)
  BY <1>1 DEF Frame, SameLine, Shaped, Fields
<1>3. Quiet(c, e)
  BY <1>2, SameIsQuiet
<1> DEFINE d == send(e, Request("add", w.of, w.name, w))
<1>4. Quiet(e, d) /\ d.lastId = e.lastId + 1
  <2> HIDE DEF e
  <2>1. Sound(e) /\ "add" \notin {"write", "find", "query"}
    BY <1>3 DEF Quiet
  <2> QED  BY <2>1, SendFacts
<1>5. addWatcher(c, w) = d
  BY DEF addWatcher
<1> HIDE DEF d, e
<1> QED  BY <1>2, <1>3, <1>4, <1>5, QuietFollows DEF SameLine

LEMMA QuietRemoveWatcher ==
    ASSUME NEW c, Sound(c), NEW w
    PROVE  Quiet(c, removeWatcher(c, w))
<1> DEFINE e == [c EXCEPT !.watchers = @ \ {w}]
           d == send(e, Request("remove", w.of, w.name, w))
<1>1. Shaped(c) /\ c.lastId \in Nat
  BY DEF Sound, Line
<1>2. Frame(c, e) /\ SameLine(c, e)
  BY <1>1 DEF Frame, SameLine, Shaped, Fields
<1>3. Quiet(c, e)
  BY <1>2, SameIsQuiet
<1>4. Quiet(e, d)
  <2> HIDE DEF e
  <2>1. Sound(e) /\ "remove" \notin {"write", "find", "query"}
    BY <1>3 DEF Quiet
  <2> QED  BY <2>1, QuietSend
<1>5. removeWatcher(c, w) = c \/ removeWatcher(c, w) = d
  BY DEF removeWatcher
<1> HIDE DEF d, e
<1> QED  BY <1>3, <1>4, <1>5, QuietFollows, NothingIsQuiet

\* The requests of a watcher go with it, and none that anybody waits for.
LEMMA QuietDeleteWatcher ==
    ASSUME NEW c, Sound(c), NEW w
    PROVE  Quiet(c, DeleteWatcher(c, w))
<1> DEFINE own == {r \in Pending(c) : r.watcher = w}
           d == [c EXCEPT !.watchers = @ \ {w}, !.queue = Without(@, own),
                          !.current = IF \E r \in own : r.id = @ THEN None ELSE @]
<1>1. Shaped(c) /\ Line(c) /\ c.lastId \in Nat
  BY DEF Sound, Line
<1>2. CASE w = NoWatcher
  <2>1. DeleteWatcher(c, w) = c
    BY <1>2 DEF DeleteWatcher
  <2> QED  BY <2>1, NothingIsQuiet
<1>3. CASE w # NoWatcher
  <2>1. DeleteWatcher(c, w) = d \/ DeleteWatcher(c, w) = Exposed(d, "dropped")
    BY <1>3 DEF DeleteWatcher
  <2>2. own \subseteq Sent(c) /\ \A r \in own : r.watcher = w
    BY DEF Pending, Sent, Members
  <2> HIDE DEF own
  <2>3. /\ d.queue = Without(c.queue, own) /\ d.wire = c.wire /\ d.lastId = c.lastId
        /\ d.current = IF \E r \in own : r.id = c.current THEN None ELSE c.current
        /\ Frame(c, d)
    BY <1>1 DEF Shaped, Fields, Frame
  <2> HIDE DEF d
  <2>4. IsSeq(d.queue) /\ Members(d.queue) = Members(c.queue) \ own /\ Distinct(d.queue)
    BY <1>1, <2>3, WithoutFacts DEF Line
  <2>5. Sent(d) \subseteq Sent(c)
    BY <2>3, <2>4 DEF Sent
  <2>6. \A r \in Sent(c) : r.id \in 1 .. c.lastId
    BY <1>1, WaitingIsSent
  <2>7. Line(d)
    <3>1. d.current \in 0 .. c.lastId
      BY <1>1, <2>3 DEF Line, None
    <3>2. d.current \notin Ids(Members(d.queue))
      <4>1. \A r \in Members(d.queue) : r \in Members(c.queue) /\ r.id # 0
        BY <2>4, <2>6 DEF Sent
      <4>2. c.current \notin Ids(Members(d.queue))
        BY <1>1, <4>1 DEF Line, Ids
      <4>3. None \notin Ids(Members(d.queue))
        BY <4>1 DEF Ids, None
      <4> QED  BY <2>3, <4>2, <4>3
    <3>3. Ids(Sent(d)) \subseteq 1 .. c.lastId
      BY <2>5, <2>6 DEF Ids
    <3> QED  BY <1>1, <2>3, <2>4, <3>1, <3>2, <3>3 DEF Line
  <2>8. \A id \in WaitingOf(d) : id \in WaitingOf(c)
    <3> SUFFICES ASSUME NEW id \in WaitingOf(d) PROVE id \in WaitingOf(c)
      OBVIOUS
    <3>1. CASE id \in Ids(Members(d.queue))
      BY <2>4, <3>1, WaitingIs DEF Ids
    <3>2. CASE id \in Ids(Members(d.wire)) /\ id = d.current
      <4>1. id # None
        BY <2>6, <2>3, <3>2 DEF Ids, Sent, None
      <4> QED  BY <2>3, <3>2, <4>1, WaitingIs
    <3> QED  BY <3>1, <3>2, WaitingIs
  <2>9. ASSUME NEW id \in Awaited(c), id \in WaitingOf(c) PROVE id \in WaitingOf(d)
    <3>1. id \in Ids(c.writeCallbacks) \cup Ids(c.findCallbacks) \cup {c.query.request}
      BY <2>9 DEF Awaited, Sound, Kept, Ids
    <3>2. \A r \in Sent(c) : r.id = id => r \notin own
      <4>1. \A r \in Sent(c) : r.id = id => r.watcher = NoWatcher
        BY <3>1 DEF Sound, Owned, Own
      <4> QED  BY <1>3, <2>2, <4>1
    <3>3. CASE id \in Ids(Members(c.queue))
      <4>1. PICK r \in Members(c.queue) : r.id = id
        BY <3>3 DEF Ids
      <4>2. r \in Members(d.queue)
        BY <2>4, <3>2, <4>1 DEF Sent
      <4>3. id \in Ids(Members(d.queue))
        BY <4>1, <4>2 DEF Ids
      <4> QED  BY <4>3, WaitingIs
    <3>4. CASE id \in Ids(Members(c.wire)) /\ id = c.current
      <4>1. d.current = c.current
        BY <2>2, <2>3, <3>2, <3>4
      <4> QED  BY <2>3, <3>4, <4>1, WaitingIs
    <3> QED  BY <2>9, <3>3, <3>4, WaitingIs
  <2>10. Carried(c, d)
    <3>1. \A r \in Sent(d) : r \in Sent(c)
      BY <2>5
    <3> QED  BY <2>8, <2>9, <3>1, Zenon DEF Carried
  <2>11. Quiet(c, d)
    BY <2>3, <2>7, <2>10, StillSound DEF Quiet
  <2>12. Quiet(c, Exposed(d, "dropped"))
    <3>1. Quiet(d, Exposed(d, "dropped"))
      BY <2>11, ExposedIsQuiet DEF Quiet
    <3> QED  BY <2>11, <3>1, QuietFollows
  <2> QED  BY <2>1, <2>11, <2>12
<1> QED  BY <1>2, <1>3

-----------------------------------------------------------------------------
(***************************************************************************)
(* The notification object and the partition objects.                      *)
(***************************************************************************)
\* A change of other fields.
Elsewhere(c, d) ==
    /\ DOMAIN d = DOMAIN c
    /\ \A field \in Fields \ {"partition", "notify", "watchers", "exposed"} : d[field] = c[field]

LEMMA ElsewhereIsQuiet ==
    ASSUME NEW c, Sound(c), NEW d, Elsewhere(c, d)
    PROVE  Quiet(c, d)
<1>1. Shaped(c) /\ c.lastId \in Nat
  BY DEF Sound, Line
<1>2. /\ DOMAIN d = Fields
      /\ d.query = c.query /\ d.promised = c.promised /\ d.called = c.called
      /\ d.writeCallbacks = c.writeCallbacks /\ d.findCallbacks = c.findCallbacks
      /\ SameLine(c, d)
  BY <1>1 DEF Elsewhere, Shaped, Fields, SameLine
<1>3. Frame(c, d)
  BY <1>1, <1>2 DEF Frame, Shaped, SameLine
<1> QED  BY <1>2, <1>3, SameIsQuiet

LEMMA QuietRemoveNotification ==
    ASSUME NEW c, Sound(c)
    PROVE  Quiet(c, removeNotification(c))
<1> DEFINE w == c.notify.watcher
           e == [c EXCEPT !.partition[c.notify.partition].watchers = @ \ {w}]
<1>1. removeNotification(c) = c \/ removeNotification(c) = removeWatcher(e, w)
  BY DEF removeNotification
<1>2. Elsewhere(c, e)
  BY DEF Elsewhere, Sound, Shaped, Fields
<1> HIDE DEF e, w
<1>3. Quiet(c, e)
  BY <1>2, ElsewhereIsQuiet
<1>4. Quiet(e, removeWatcher(e, w))
  BY <1>3, QuietRemoveWatcher DEF Quiet
<1> QED  BY <1>1, <1>3, <1>4, QuietFollows, NothingIsQuiet

LEMMA QuietInitNotify ==
    ASSUME NEW c, Sound(c)
    PROVE  Quiet(c, initNotify(c))
<1> DEFINE n == c.notify
           less == removeNotification(c)
           rid == DeleteWatcher(less, n.watcher)
           w == [id |-> rid.lastId + 1, of |-> Notifier, name |-> rid.partition[n.partition].name,
                 query |-> n.query, actions |-> n.actions]
           quiet == [c EXCEPT !.notify.status = "Null"]
           set == [rid EXCEPT !.notify.watcher = w, !.notify.status = "Registering",
                              !.partition[n.partition].watchers = @ \cup {w}]
           added == addWatcher(set, w)
<1>1. initNotify(c) \in {quiet, Exposed(quiet, "emptied"), c, added}
  <2>1. CASE ~parametersReady(n)
    BY <2>1 DEF initNotify
  <2>2. CASE parametersReady(n) /\ ~n.enabled
    BY <2>2 DEF initNotify
  <2>3. CASE parametersReady(n) /\ n.enabled
    BY <2>3 DEF initNotify
  <2> QED  BY <2>1, <2>2, <2>3
<1>2. Elsewhere(c, quiet)
  BY DEF Elsewhere, Sound, Shaped, Fields
<1> HIDE DEF quiet
<1>3. Quiet(c, quiet) /\ Quiet(c, Exposed(quiet, "emptied"))
  <2>1. Quiet(c, quiet)
    BY <1>2, ElsewhereIsQuiet
  <2>2. Quiet(quiet, Exposed(quiet, "emptied"))
    BY <2>1, ExposedIsQuiet DEF Quiet
  <2> QED  BY <2>1, <2>2, QuietFollows
<1> HIDE DEF w, added
<1>4. Quiet(c, less)
  BY QuietRemoveNotification
<1> HIDE DEF less, n
<1>5. Quiet(less, rid)
  BY <1>4, QuietDeleteWatcher DEF Quiet
<1> HIDE DEF rid
<1>6. Elsewhere(rid, set)
  BY <1>5 DEF Elsewhere, Quiet, Sound, Shaped, Fields
<1> HIDE DEF set
<1>7. Quiet(rid, set)
  BY <1>5, <1>6, ElsewhereIsQuiet DEF Quiet
<1>8. Quiet(set, added)
  BY <1>7, QuietAddWatcher DEF Quiet, added
<1>9. Quiet(c, rid)
  BY <1>4, <1>5, QuietFollows
<1>10. Quiet(c, set)
  BY <1>7, <1>9, QuietFollows
<1>11. Quiet(c, added)
  BY <1>8, <1>10, QuietFollows
<1> QED  BY <1>1, <1>3, <1>11, NothingIsQuiet

LEMMA QuietSetEnabled ==
    ASSUME NEW c, Sound(c), NEW enabled
    PROVE  Quiet(c, setEnabled(c, enabled))
<1> DEFINE less == removeNotification(c)
           null == [less EXCEPT !.notify.status = "Null"]
           off == IF c.notify.enabled /\ parametersReady(c.notify) THEN null ELSE c
           set == [off EXCEPT !.notify.enabled = enabled]
<1>1. setEnabled(c, enabled) \in {c, set, initNotify(set)}
  BY DEF setEnabled
<1>2. Quiet(c, less)
  BY QuietRemoveNotification
<1> HIDE DEF less
<1>3. Elsewhere(less, null)
  BY <1>2 DEF Elsewhere, Quiet, Sound, Shaped, Fields
<1> HIDE DEF null
<1>4. Quiet(less, null)
  BY <1>2, <1>3, ElsewhereIsQuiet DEF Quiet
<1>5. Quiet(c, off)
  BY <1>2, <1>4, QuietFollows, NothingIsQuiet
<1> HIDE DEF off
<1>6. Elsewhere(off, set)
  BY <1>5 DEF Elsewhere, Quiet, Sound, Shaped, Fields
<1> HIDE DEF set
<1>7. Quiet(off, set)
  BY <1>5, <1>6, ElsewhereIsQuiet DEF Quiet
<1>8. Quiet(c, set)
  BY <1>5, <1>7, QuietFollows
<1>9. Quiet(set, initNotify(set))
  BY <1>8, QuietInitNotify DEF Quiet
<1>10. Quiet(c, initNotify(set))
  BY <1>8, <1>9, QuietFollows
<1> QED  BY <1>1, <1>8, <1>10, NothingIsQuiet

LEMMA QuietSetPartition ==
    ASSUME NEW c, Sound(c), NEW p
    PROVE  Quiet(c, setPartition(c, p))
<1> DEFINE less == removeNotification(c)
           set == [less EXCEPT !.notify.partition = p, !.notify.follows = @ \cup {p}]
<1>1. setPartition(c, p) \in {c, initNotify(set)}
  BY DEF setPartition
<1>2. Quiet(c, less)
  BY QuietRemoveNotification
<1> HIDE DEF less
<1>3. Elsewhere(less, set)
  BY <1>2 DEF Elsewhere, Quiet, Sound, Shaped, Fields
<1> HIDE DEF set
<1>4. Quiet(less, set)
  BY <1>2, <1>3, ElsewhereIsQuiet DEF Quiet
<1>5. Quiet(set, initNotify(set))
  BY <1>4, QuietInitNotify DEF Quiet
<1>6. Quiet(c, set)
  BY <1>2, <1>4, QuietFollows
<1>7. Quiet(c, initNotify(set))
  BY <1>5, <1>6, QuietFollows
<1> QED  BY <1>1, <1>7, NothingIsQuiet

LEMMA QuietNameChanged ==
    ASSUME NEW c, Sound(c), NEW p
    PROVE  Quiet(c, nameChanged(c, p))
BY QuietInitNotify, NothingIsQuiet DEF nameChanged

LEMMA QuietDeleteNotify ==
    ASSUME NEW c, Sound(c)
    PROVE  Quiet(c, DeleteNotify(c))
<1> DEFINE n == c.notify
           less == removeNotification(c)
           removed == IF n.enabled THEN less ELSE c
           rid == DeleteWatcher(removed, n.watcher)
           set == DeleteNotify(c)
<1>1. set = [rid EXCEPT
            !.notify = [n EXCEPT !.alive = FALSE, !.watcher = NoWatcher, !.partition = None,
                                 !.follows = {}, !.query = "", !.actions = {}, !.status = "Null"]]
  BY DEF DeleteNotify
<1>2. Quiet(c, removed)
  <2>1. Quiet(c, less) /\ Quiet(c, c)
    BY QuietRemoveNotification, NothingIsQuiet
  <2> HIDE DEF less
  <2> QED  BY <2>1
<1> HIDE DEF removed, set
<1>3. Quiet(removed, rid)
  BY <1>2, QuietDeleteWatcher DEF Quiet
<1> HIDE DEF rid
<1>4. Elsewhere(rid, set)
  BY <1>1, <1>3 DEF Elsewhere, Quiet, Sound, Shaped, Fields
<1>5. Quiet(rid, set)
  BY <1>3, <1>4, ElsewhereIsQuiet DEF Quiet
<1>6. Quiet(c, rid)
  BY <1>2, <1>3, QuietFollows
<1>7. Quiet(c, set)
  BY <1>5, <1>6, QuietFollows
<1> QED  BY <1>7 DEF set

LEMMA QuietStatusOf ==
    ASSUME NEW c, Sound(c), NEW w, NEW status
    PROVE  Quiet(c, StatusOf(c, w, status))
<1> DEFINE set == [c EXCEPT !.notify.status = status]
<1>1. StatusOf(c, w, status) \in {c, set}
  BY DEF StatusOf
<1>2. Elsewhere(c, set)
  BY DEF Elsewhere, Sound, Shaped, Fields
<1> HIDE DEF set
<1> QED  BY <1>1, <1>2, ElsewhereIsQuiet, NothingIsQuiet

LEMMA QuietInit ==
    ASSUME NEW c, Sound(c), NEW p
    PROVE  Quiet(c, init(c, p))
<1> DEFINE w == [NoWatcher EXCEPT !.id = c.lastId + 1, !.of = p, !.name = c.partition[p].name]
           set == [c EXCEPT !.partition[p].partitionWatcher = w]
           added == addWatcher(set, w)
           d == send(added, Request("state", p, w.name, NoWatcher))
<1>1. init(c, p) = d
  BY DEF init
<1> HIDE DEF w
<1>2. Elsewhere(c, set)
  BY DEF Elsewhere, Sound, Shaped, Fields
<1> HIDE DEF set
<1>3. Quiet(c, set)
  BY <1>2, ElsewhereIsQuiet
<1>4. Quiet(set, added)
  BY <1>3, QuietAddWatcher DEF Quiet
<1> HIDE DEF added
<1>5. Quiet(added, d)
  <2>1. Sound(added) /\ "state" \notin {"write", "find", "query"}
    BY <1>4 DEF Quiet
  <2> QED  BY <2>1, QuietSend
<1>6. Quiet(c, added)
  BY <1>3, <1>4, QuietFollows
<1> HIDE DEF d
<1> QED  BY <1>1, <1>5, <1>6, QuietFollows

LEMMA QuietUnwatched ==
    ASSUME NEW c, Sound(c), NEW p
    PROVE  Quiet(c, Unwatched(c, p))
<1> DEFINE w == c.partition[p].partitionWatcher
           less == removeWatcher(c, w)
<1>1. Unwatched(c, p) = DeleteWatcher(less, w)
  BY DEF Unwatched
<1>2. Quiet(c, less)
  BY QuietRemoveWatcher
<1> HIDE DEF less, w
<1>3. Quiet(less, DeleteWatcher(less, w))
  BY <1>2, QuietDeleteWatcher DEF Quiet
<1> QED  BY <1>1, <1>2, <1>3, QuietFollows

LEMMA QuietSetName ==
    ASSUME NEW c, Sound(c), NEW p, NEW name
    PROVE  Quiet(c, setName(c, p, name))
<1> DEFINE less == Unwatched(c, p)
           set == [less EXCEPT !.partition[p].state = "None", !.partition[p].name = name]
           anew == init(set, p)
           d == nameChanged(anew, p)
<1>1. setName(c, p, name) \in {c, d}
  BY DEF setName
<1>2. Quiet(c, less)
  BY QuietUnwatched
<1> HIDE DEF less
<1>3. Elsewhere(less, set)
  BY <1>2 DEF Elsewhere, Quiet, Sound, Shaped, Fields
<1> HIDE DEF set
<1>4. Quiet(less, set)
  BY <1>2, <1>3, ElsewhereIsQuiet DEF Quiet
<1>5. Quiet(set, anew)
  BY <1>4, QuietInit DEF Quiet
<1> HIDE DEF anew
<1>6. Quiet(anew, d)
  BY <1>5, QuietNameChanged DEF Quiet
<1> HIDE DEF d
<1>7. Quiet(c, set)
  BY <1>2, <1>4, QuietFollows
<1>8. Quiet(c, anew)
  BY <1>5, <1>7, QuietFollows
<1>9. Quiet(c, d)
  BY <1>6, <1>8, QuietFollows
<1> QED  BY <1>1, <1>9, NothingIsQuiet

LEMMA QuietPartitionQueryFinished ==
    ASSUME NEW c, Sound(c), NEW p, NEW name, NEW found
    PROVE  Quiet(c, partitionQueryFinished(c, p, name, found))
<1> DEFINE taken == [c EXCEPT !.partition[p].state = found]
           known == IF \E r \in Pending(c) : r.kind = "state" /\ r.of = p
                    THEN Exposed(taken, "outdated") ELSE taken
           set == [known EXCEPT !.partition[p].name = name]
           named == nameChanged(set, p)
           d == partitionQueryFinished(c, p, name, found)
<1>1. d \in {c, known, named, Exposed(named, "renamed")}
  <2>1. CASE ~c.partition[p].alive \/ found = "unknown" \/ ~OwnName(c, p, name)
    BY <2>1 DEF partitionQueryFinished
  <2>2. CASE /\ ~(~c.partition[p].alive \/ found = "unknown" \/ ~OwnName(c, p, name))
             /\ c.partition[p].name = ""
    <3> DEFINE first == CASE ~c.partition[p].alive \/ found = "unknown" \/ ~OwnName(c, p, name) -> c
                          [] c.partition[p].alive /\ found # "unknown"
                            /\ c.partition[p].name = "" ->
                                IF c.notify.watcher # named.notify.watcher
                                THEN Exposed(named, "renamed") ELSE named
                          [] OTHER -> known
    <3>1. d = first
      BY DEF partitionQueryFinished
    <3> HIDE DEF d, named, known
    <3>2. first \in {named, Exposed(named, "renamed")}
      BY <2>2
    <3> QED  BY <3>1, <3>2
  <2>3. CASE /\ ~(~c.partition[p].alive \/ found = "unknown" \/ ~OwnName(c, p, name))
             /\ c.partition[p].name # ""
    BY <2>3 DEF partitionQueryFinished
  <2> QED  BY <2>1, <2>2, <2>3
<1> HIDE DEF d
<1>2. Elsewhere(c, taken)
  BY DEF Elsewhere, Sound, Shaped, Fields
<1> HIDE DEF taken
<1>3. Quiet(c, taken)
  BY <1>2, ElsewhereIsQuiet
<1>4. Quiet(taken, Exposed(taken, "outdated"))
  BY <1>3, ExposedIsQuiet DEF Quiet
<1>5. Quiet(c, known)
  <2>1. Quiet(c, Exposed(taken, "outdated"))
    BY <1>3, <1>4, QuietFollows
  <2> QED  BY <1>3, <2>1
<1> HIDE DEF known
<1>6. Elsewhere(known, set)
  BY <1>5 DEF Elsewhere, Quiet, Sound, Shaped, Fields
<1> HIDE DEF set
<1>7. Quiet(known, set)
  BY <1>5, <1>6, ElsewhereIsQuiet DEF Quiet
<1>8. Quiet(set, named)
  BY <1>7, QuietNameChanged DEF Quiet
<1> HIDE DEF named
<1>9. Quiet(named, Exposed(named, "renamed"))
  BY <1>8, ExposedIsQuiet DEF Quiet
<1>10. Quiet(c, set)
  BY <1>5, <1>7, QuietFollows
<1>11. Quiet(c, named)
  BY <1>8, <1>10, QuietFollows
<1>12. Quiet(c, Exposed(named, "renamed"))
  BY <1>9, <1>11, QuietFollows
<1> QED  BY <1>1, <1>5, <1>11, <1>12, NothingIsQuiet DEF d

LEMMA QuietPartitionQueryError ==
    ASSUME NEW c, Sound(c), NEW p
    PROVE  Quiet(c, partitionQueryError(c, p))
<1> DEFINE set == [c EXCEPT !.partition[p].state = "Error"]
<1>1. partitionQueryError(c, p) \in {c, Exposed(set, "refused")}
  BY DEF partitionQueryError
<1>2. Elsewhere(c, set)
  BY DEF Elsewhere, Sound, Shaped, Fields
<1> HIDE DEF set
<1>3. Quiet(c, set)
  BY <1>2, ElsewhereIsQuiet
<1>4. Quiet(set, Exposed(set, "refused"))
  BY <1>3, ExposedIsQuiet DEF Quiet
<1>5. Quiet(c, Exposed(set, "refused"))
  BY <1>3, <1>4, QuietFollows
<1> QED  BY <1>1, <1>5, NothingIsQuiet

LEMMA QuietNotificationsAvailable ==
    ASSUME NEW c, Sound(c), NEW p, NEW found
    PROVE  Quiet(c, notificationsAvailable(c, p, found))
<1> DEFINE d == notificationsAvailable(c, p, found)
<1>1. Elsewhere(c, d)
  BY DEF notificationsAvailable, Elsewhere, Sound, Shaped, Fields
<1> HIDE DEF d
<1>2. Quiet(c, d)
  BY <1>1, ElsewhereIsQuiet
<1> QED  BY <1>2 DEF d

LEMMA QuietCreateNotification ==
    ASSUME NEW c, Sound(c), NEW p, NEW query
    PROVE  Quiet(c, createNotification(c, p, query))
<1> DEFINE set == [c EXCEPT !.notify =
                      [alive |-> TRUE, partition |-> p, query |-> query, actions |-> Action,
                       enabled |-> TRUE, status |-> "Null", watcher |-> NoWatcher, follows |-> {p}]]
<1>1. createNotification(c, p, query) = initNotify(set)
  BY DEF createNotification
<1>2. Elsewhere(c, set)
  BY DEF Elsewhere, Sound, Shaped, Fields
<1> HIDE DEF set
<1>3. Quiet(c, set)
  BY <1>2, ElsewhereIsQuiet
<1>4. Quiet(set, initNotify(set))
  BY <1>3, QuietInitNotify DEF Quiet
<1> QED  BY <1>1, <1>3, <1>4, QuietFollows

LEMMA QuietWithQuery ==
    ASSUME NEW c, Sound(c)
    PROVE  Quiet(c, WithQuery(c))
<1> DEFINE w == [NoWatcher EXCEPT !.id = c.lastId + 1]
           added == addWatcher(c, w)
           asked == send(added, Request("nothing", None, "", NoWatcher))
           less == removeWatcher(asked, w)
           d == DeleteWatcher(less, w)
<1>1. WithQuery(c) = d
  BY DEF WithQuery
<1> HIDE DEF w
<1>2. Quiet(c, added)
  BY QuietAddWatcher
<1> HIDE DEF added
<1>3. Quiet(added, asked)
  <2>1. Sound(added) /\ "nothing" \notin {"write", "find", "query"}
    BY <1>2 DEF Quiet
  <2> QED  BY <2>1, QuietSend
<1> HIDE DEF asked
<1>4. Quiet(asked, less)
  BY <1>3, QuietRemoveWatcher DEF Quiet
<1> HIDE DEF less
<1>5. Quiet(less, d)
  BY <1>4, QuietDeleteWatcher DEF Quiet
<1> HIDE DEF d
<1>6. Quiet(c, asked)
  BY <1>2, <1>3, QuietFollows
<1>7. Quiet(c, less)
  BY <1>4, <1>6, QuietFollows
<1> QED  BY <1>1, <1>5, <1>7, QuietFollows

-----------------------------------------------------------------------------
(***************************************************************************)
(* Requests with a callback, and the query object.                         *)
(***************************************************************************)
LEMMA IdsUnion ==
    ASSUME NEW A, NEW B
    PROVE  Ids(A \cup B) = Ids(A) \cup Ids(B)
BY DEF Ids

WriteAdded(c, d) ==
    /\ Ids(d.writeCallbacks) = Ids(c.writeCallbacks) \cup {c.lastId}
    /\ d.findCallbacks = c.findCallbacks
    /\ \A r \in Sent(c) : r.id = c.lastId => r.kind = "write"
FindAdded(c, d) ==
    /\ Ids(d.findCallbacks) = Ids(c.findCallbacks) \cup {c.lastId}
    /\ d.writeCallbacks = c.writeCallbacks
    /\ \A r \in Sent(c) : r.id = c.lastId => r.kind = "find"

\* The last request gets a callback.
LEMMA CallbackAdded ==
    ASSUME NEW c, Sound(c), c.lastId \notin c.promised, c.lastId \in WaitingOf(c),
           c.lastId # c.query.request,
           NEW d, Shaped(d), SameLine(c, d), d.query = c.query, d.called = c.called,
           d.promised = c.promised \cup {c.lastId},
           WriteAdded(c, d) \/ FindAdded(c, d)
    PROVE  Sound(d)
<1> DEFINE id == c.lastId
<1>1. /\ Line(c) /\ Owned(c) /\ Kept(c) /\ CalledOnce(c) /\ Loading(c) /\ c.lastId \in Nat
  BY DEF Sound, Line
<1>2. Line(d) /\ Sent(d) = Sent(c) /\ WaitingOf(d) = WaitingOf(c) /\ CalledOf(d) = CalledOf(c)
  BY <1>1, WaitingIs DEF SameLine, Line, Sent, CalledOf
<1>3. id \notin CalledOf(c)
  BY <1>1 DEF CalledOnce
<1>4. Owned(d)
  <2> SUFFICES ASSUME NEW r \in Sent(c) PROVE Own(d, r)
    BY <1>2 DEF Owned
  <2>1. Own(c, r)
    BY <1>1 DEF Owned
  <2>2. CASE WriteAdded(c, d)
    BY <2>1, <2>2 DEF Own, WriteAdded
  <2>3. CASE FindAdded(c, d)
    BY <2>1, <2>3 DEF Own, FindAdded
  <2> QED  BY <2>2, <2>3
<1>5. Kept(d)
  <2>1. Ids(d.writeCallbacks \cup d.findCallbacks)
            = Ids(c.writeCallbacks \cup c.findCallbacks) \cup {id}
    <3>1. Ids(d.writeCallbacks \cup d.findCallbacks) = Ids(d.writeCallbacks)
            \cup Ids(d.findCallbacks)
      BY IdsUnion
    <3>2. Ids(c.writeCallbacks \cup c.findCallbacks) = Ids(c.writeCallbacks)
            \cup Ids(c.findCallbacks)
      BY IdsUnion
    <3>3. CASE WriteAdded(c, d)
      BY <3>1, <3>2, <3>3 DEF WriteAdded
    <3>4. CASE FindAdded(c, d)
      BY <3>1, <3>2, <3>4 DEF FindAdded
    <3> QED  BY <3>3, <3>4
  <2>2. Ids(d.writeCallbacks \cup d.findCallbacks) = d.promised \ CalledOf(d)
    BY <1>1, <1>2, <1>3, <2>1 DEF Kept
  <2>3. d.promised \subseteq 1 .. d.lastId
    <3>1. c.lastId \in 1 .. c.lastId
      BY <1>1, WaitingIsSent DEF Ids
    <3> QED  BY <1>1, <3>1 DEF Kept, SameLine
  <2>4. d.promised \subseteq WaitingOf(d) \cup CalledOf(d)
    BY <1>1, <1>2 DEF Kept
  <2> QED  BY <2>2, <2>3, <2>4 DEF Kept
<1>6. CalledOnce(d)
  BY <1>1, <1>2 DEF CalledOnce
<1>7. Loading(d)
  BY <1>1, <1>2 DEF Loading, SameLine
<1> QED  BY <1>2, <1>4, <1>5, <1>6, <1>7 DEF Sound

LEMMA SentIsNew ==
    ASSUME NEW c, Sound(c), NEW kind, kind \in {"write", "find", "query"}, NEW of, NEW name
    PROVE  LET d == send(c, Request(kind, of, name, NoWatcher))
           IN /\ Sound(d) /\ Frame(c, d)
              /\ d.lastId \notin d.promised /\ d.lastId \in WaitingOf(d)
              /\ d.lastId # d.query.request
              /\ \A r \in Sent(d) : r.id = d.lastId => r.kind = kind
<1> DEFINE d == send(c, Request(kind, of, name, NoWatcher))
<1>1. /\ Quiet(c, d) /\ d.lastId = c.lastId + 1 /\ d.lastId \in WaitingOf(d)
      /\ \A r \in Sent(d) : r.id = d.lastId => r.kind = kind
  BY SendFacts
<1> HIDE DEF d
<1>2. c.lastId \in Nat /\ c.promised \subseteq 1 .. c.lastId /\ c.query.request \in 0 .. c.lastId
  BY DEF Sound, Line, Kept, Loading
<1>3. d.lastId \notin d.promised /\ d.lastId # d.query.request
  BY <1>1, <1>2 DEF Quiet, Frame
<1> QED  BY <1>1, <1>3 DEF Quiet, d

LEMMA IdsAdded ==
    ASSUME NEW A, NEW id, NEW of
    PROVE  Ids(A \cup {[id |-> id, of |-> of]}) = Ids(A) \cup {id}
<1> DEFINE e == [id |-> id, of |-> of]
<1>1. Ids({e}) = {id}
  <2>1. e.id = id
    OBVIOUS
  <2> HIDE DEF e
  <2> QED  BY <2>1 DEF Ids
<1> HIDE DEF e
<1>2. Ids(A \cup {e}) = Ids(A) \cup Ids({e})
  BY IdsUnion
<1> QED  BY <1>1, <1>2 DEF e

LEMMA SoundWrite ==
    ASSUME NEW c, Sound(c), NEW p, NEW callback
    PROVE  Sound(Write(c, p, callback))
<1> DEFINE sent == send(c, Request("write", p, "", NoWatcher))
           d == [sent EXCEPT !.writeCallbacks = @ \cup {[id |-> sent.lastId, of |-> p]},
                             !.promised = @ \cup {sent.lastId}]
<1>1. Write(c, p, callback) = IF callback THEN d ELSE sent
  BY DEF Write
<1>2. /\ Sound(sent) /\ sent.lastId \notin sent.promised /\ sent.lastId \in WaitingOf(sent)
      /\ sent.lastId # sent.query.request
      /\ \A r \in Sent(sent) : r.id = sent.lastId => r.kind = "write"
  BY SentIsNew
<1> HIDE DEF sent
<1>3. Shaped(sent)
  BY <1>2 DEF Sound
<1>4. /\ Shaped(d) /\ SameLine(sent, d) /\ d.query = sent.query /\ d.called = sent.called
      /\ d.promised = sent.promised \cup {sent.lastId}
      /\ d.findCallbacks = sent.findCallbacks
      /\ d.writeCallbacks = sent.writeCallbacks \cup {[id |-> sent.lastId, of |-> p]}
  BY <1>3 DEF Shaped, Fields, SameLine
<1> HIDE DEF d
<1>5. WriteAdded(sent, d)
  <2> DEFINE id == sent.lastId
             old == sent.writeCallbacks
  <2>1. Ids(old \cup {[id |-> id, of |-> p]}) = Ids(old) \cup {id}
    BY IdsAdded
  <2>2. Ids(d.writeCallbacks) = Ids(sent.writeCallbacks) \cup {sent.lastId}
    BY <1>4, <2>1
  <2> QED  BY <1>2, <1>4, <2>2 DEF WriteAdded
<1>6. Sound(d)
  BY <1>2, <1>4, <1>5, CallbackAdded
<1> QED  BY <1>1, <1>2, <1>6

LEMMA SoundFind ==
    ASSUME NEW c, Sound(c), NEW p, NEW query, NEW callback
    PROVE  LET d == find(c, p, query, callback) IN Sound(d) \/ "unasked" \in d.exposed
<1> DEFINE made == WithQuery(c)
           sent == send(made, Request("find", p, "", NoWatcher))
           d == [sent EXCEPT !.findCallbacks = @ \cup {[id |-> sent.lastId, of |-> p]},
                             !.promised = @ \cup {sent.lastId}]
           unsent == [made EXCEPT !.findCallbacks = @ \cup {[id |-> None, of |-> p]},
                                  !.promised = @ \cup {None}]
           unasked == IF callback THEN unsent ELSE made
<1>1. find(c, p, query, callback) =
         IF query = "" THEN Exposed(unasked, "unasked") ELSE IF callback THEN d ELSE sent
  BY DEF find
<1>2. Sound(made)
  BY QuietWithQuery DEF Quiet
<1> HIDE DEF made
<1>3. "unasked" \in Exposed(unasked, "unasked").exposed
  <2>1. DOMAIN unasked = Fields
    BY <1>2 DEF Sound, Shaped
  <2> HIDE DEF unasked
  <2> QED  BY <2>1 DEF Exposed, Fields
<1>4. /\ Sound(sent) /\ sent.lastId \notin sent.promised /\ sent.lastId \in WaitingOf(sent)
      /\ sent.lastId # sent.query.request
      /\ \A r \in Sent(sent) : r.id = sent.lastId => r.kind = "find"
  BY <1>2, SentIsNew
<1> HIDE DEF sent, unasked
<1>5. Shaped(sent)
  BY <1>4 DEF Sound
<1>6. /\ Shaped(d) /\ SameLine(sent, d) /\ d.query = sent.query /\ d.called = sent.called
      /\ d.promised = sent.promised \cup {sent.lastId}
      /\ d.writeCallbacks = sent.writeCallbacks
      /\ d.findCallbacks = sent.findCallbacks \cup {[id |-> sent.lastId, of |-> p]}
  BY <1>5 DEF Shaped, Fields, SameLine
<1> HIDE DEF d
<1>7. FindAdded(sent, d)
  <2> DEFINE id == sent.lastId
             old == sent.findCallbacks
  <2>1. Ids(old \cup {[id |-> id, of |-> p]}) = Ids(old) \cup {id}
    BY IdsAdded
  <2>2. Ids(d.findCallbacks) = Ids(sent.findCallbacks) \cup {sent.lastId}
    BY <1>6, <2>1
  <2> QED  BY <1>4, <1>6, <2>2 DEF FindAdded
<1>8. Sound(d)
  BY <1>4, <1>6, <1>7, CallbackAdded
<1> QED  BY <1>1, <1>3, <1>4, <1>8

\* A query object that asks nothing, or for what it asks with the last request.
LEMMA QuerySet ==
    ASSUME NEW c, Sound(c), NEW d, Shaped(d), SameLine(c, d),
           d.called = c.called, d.promised = c.promised,
           d.writeCallbacks = c.writeCallbacks, d.findCallbacks = c.findCallbacks,
           d.query.request \in 0 .. c.lastId,
           d.query.status = "Loading" <=> d.query.request \in WaitingOf(c),
           \A r \in Sent(c) : r.id = d.query.request => r.kind = "query"
    PROVE  Sound(d)
<1>1. Line(c) /\ Owned(c) /\ Kept(c) /\ CalledOnce(c)
  BY DEF Sound
<1>2. Line(d) /\ Sent(d) = Sent(c) /\ WaitingOf(d) = WaitingOf(c) /\ CalledOf(d) = CalledOf(c)
  BY <1>1, WaitingIs DEF SameLine, Line, Sent, CalledOf
<1>3. Owned(d)
  BY <1>1, <1>2 DEF Owned, Own
<1>4. Kept(d) /\ CalledOnce(d)
  BY <1>1, <1>2 DEF Kept, CalledOnce, SameLine
<1>5. Loading(d)
  BY <1>2 DEF Loading, SameLine
<1> QED  BY <1>2, <1>3, <1>4, <1>5 DEF Sound

LEMMA SoundCreateQuery ==
    ASSUME NEW c, Sound(c), NEW p
    PROVE  Sound(createQuery(c, p))
<1> DEFINE made == WithQuery(c)
           d == [made EXCEPT !.query = [alive |-> TRUE, partition |-> p, status |-> "Null",
                                        request |-> 0]]
<1>1. createQuery(c, p) = d
  BY DEF createQuery
<1>2. Sound(made)
  BY QuietWithQuery DEF Quiet
<1> HIDE DEF made
<1>3. Line(made) /\ Shaped(made)
  BY <1>2 DEF Sound
<1>4. /\ DOMAIN d = Fields /\ SameLine(made, d)
      /\ d.called = made.called /\ d.promised = made.promised
      /\ d.writeCallbacks = made.writeCallbacks /\ d.findCallbacks = made.findCallbacks
      /\ d.query = [alive |-> TRUE, partition |-> p, status |-> "Null", request |-> 0]
  BY <1>3 DEF Shaped, Fields, SameLine
<1> HIDE DEF d
<1>5. Shaped(d) /\ d.query.request = 0 /\ d.query.status = "Null"
  BY <1>4 DEF Shaped
<1>6. 0 \notin WaitingOf(made) /\ 0 \in 0 .. made.lastId /\ \A r \in Sent(made) : r.id # 0
  BY <1>3, WaitingIsSent DEF Line
<1>7. Sound(d)
  BY <1>2, <1>4, <1>5, <1>6, QuerySet
<1> QED  BY <1>1, <1>7

\* What is sent has nothing to do with the query object.
Alike(c, d) ==
    /\ DOMAIN c = Fields /\ DOMAIN d = Fields
    /\ \A field \in Fields \ {"query"} : d[field] = c[field]

LEMMA SendAlike ==
    ASSUME NEW c, NEW d, Alike(c, d), NEW r
    PROVE  Alike(send(c, r), send(d, r)) /\ send(c, r).query = c.query
<1> DEFINE q == [r EXCEPT !.id = c.lastId + 1]
           a == [c EXCEPT !.lastId = c.lastId + 1, !.queue = Inserted(@, q)]
           b == [d EXCEPT !.lastId = d.lastId + 1, !.queue = Inserted(@, q)]
<1>1. d.lastId = c.lastId
  BY DEF Alike, Fields
<1>2. send(c, r) = handleRequestQueue(a) /\ send(d, r) = handleRequestQueue(b)
  BY <1>1 DEF send
<1> HIDE DEF q
<1>3. Alike(a, b) /\ a.query = c.query
  BY <1>1 DEF Alike, Fields
<1> HIDE DEF a, b
<1> DEFINE Next1(e) == [e EXCEPT !.current = Head(e.queue).id, !.wire = Append(@, Head(e.queue)),
                                 !.queue = Tail(@)]
<1>4. a.current = b.current /\ a.queue = b.queue
  BY <1>3 DEF Alike, Fields
<1>5. CASE a.current # None \/ a.queue = <<>>
  BY <1>2, <1>3, <1>4, <1>5 DEF handleRequestQueue
<1>6. CASE ~(a.current # None \/ a.queue = <<>>)
  <2>1. handleRequestQueue(a) = Next1(a) /\ handleRequestQueue(b) = Next1(b)
    BY <1>4, <1>6 DEF handleRequestQueue
  <2>2. Alike(Next1(a), Next1(b)) /\ Next1(a).query = a.query
    BY <1>3, <1>4 DEF Alike, Fields
  <2> QED  BY <1>2, <1>3, <2>1, <2>2
<1> QED  BY <1>5, <1>6

\* start() without the request it had.
LEMMA StartForgets ==
    ASSUME NEW c, Sound(c)
    PROVE  LET old == c.query.request
           IN Sound([c EXCEPT !.queue = Without(@, {r \in Pending(c) : r.id = old}),
                              !.current = IF @ = old THEN None ELSE @,
                              !.query = [c.query EXCEPT !.status = "Null", !.request = 0]])
<1> DEFINE old == c.query.request
           gone == {r \in Pending(c) : r.id = old}
           e == [c EXCEPT !.query = [c.query EXCEPT !.status = "Null", !.request = 0]]
           d == [c EXCEPT !.queue = Without(@, gone),
                          !.current = IF @ = old THEN None ELSE @,
                          !.query = [c.query EXCEPT !.status = "Null", !.request = 0]]
<1>1. Shaped(c) /\ Line(c) /\ Owned(c) /\ c.lastId \in Nat
  BY DEF Sound, Line
<1>2. /\ Shaped(e) /\ SameLine(c, e) /\ e.called = c.called /\ e.promised = c.promised
      /\ e.writeCallbacks = c.writeCallbacks /\ e.findCallbacks = c.findCallbacks
      /\ e.query.request = 0 /\ e.query.status = "Null"
  BY <1>1 DEF Shaped, Fields, SameLine
<1>3. /\ Shaped(d) /\ d.called = c.called /\ d.promised = c.promised
      /\ d.writeCallbacks = c.writeCallbacks /\ d.findCallbacks = c.findCallbacks
      /\ d.query.request = 0 /\ d.query.status = "Null" /\ d.lastId = c.lastId
      /\ d.wire = c.wire /\ d.queue = Without(c.queue, gone)
      /\ d.current = IF c.current = old THEN None ELSE c.current
  BY <1>1 DEF Shaped, Fields
<1> HIDE DEF d, e
<1>4. 0 \notin WaitingOf(c) /\ \A r \in Sent(c) : r.id \in 1 .. c.lastId
  BY <1>1, WaitingIsSent
<1>5. Sound(e)
  <2>1. /\ e.query.request \in 0 .. c.lastId
        /\ e.query.status = "Loading" <=> e.query.request \in WaitingOf(c)
        /\ \A r \in Sent(c) : r.id = e.query.request => r.kind = "query"
    BY <1>1, <1>2, <1>4
  <2> QED  BY <1>2, <2>1, QuerySet
<1>6. Sent(e) = Sent(c) /\ WaitingOf(e) = WaitingOf(c) /\ CalledOf(e) = CalledOf(c)
  BY <1>2, WaitingIs DEF SameLine, Sent, CalledOf
<1>7. Frame(e, d)
  BY <1>1, <1>2, <1>3 DEF Frame, SameLine
<1>8. IsSeq(d.queue) /\ Members(d.queue) = Members(c.queue) \ gone /\ Distinct(d.queue)
  BY <1>1, <1>3, WithoutFacts DEF Line
<1>9. gone = {r \in Members(c.queue) : r.id = old} \cup
             {r \in Members(c.wire) : r.id = c.current /\ r.id = old}
  BY DEF Pending, Members
<1> HIDE DEF gone
<1>10. Sent(d) \subseteq Sent(c)
  BY <1>3, <1>8 DEF Sent
<1>11. Line(d)
  <2>1. d.current \in 0 .. c.lastId
    BY <1>1, <1>3 DEF Line, None
  <2>2. d.current \notin Ids(Members(d.queue))
    <3>1. \A r \in Members(d.queue) : r \in Members(c.queue) /\ r.id # 0
      BY <1>4, <1>8 DEF Sent
    <3>2. c.current \notin Ids(Members(d.queue))
      BY <1>1, <3>1 DEF Line, Ids
    <3>3. None \notin Ids(Members(d.queue))
      BY <3>1 DEF Ids, None
    <3> QED  BY <1>3, <3>2, <3>3
  <2>3. Ids(Sent(d)) \subseteq 1 .. c.lastId
    BY <1>4, <1>10 DEF Ids
  <2> QED  BY <1>1, <1>3, <1>8, <2>1, <2>2, <2>3 DEF Line
<1>12. \A id \in WaitingOf(d) : id \in WaitingOf(e)
  <2> SUFFICES ASSUME NEW id \in WaitingOf(d) PROVE id \in WaitingOf(c)
    BY <1>6
  <2>1. CASE id \in Ids(Members(d.queue))
    BY <1>8, <2>1, WaitingIs DEF Ids
  <2>2. CASE id \in Ids(Members(d.wire)) /\ id = d.current
    <3>1. id # None
      BY <1>3, <1>4, <2>2 DEF Ids, Sent, None
    <3> QED  BY <1>3, <2>2, <3>1, WaitingIs
  <2> QED  BY <2>1, <2>2, WaitingIs
<1>13. ASSUME NEW id \in Awaited(e), id \in WaitingOf(e) PROVE id \in WaitingOf(d)
  <2>1. id \in WaitingOf(c) /\ id # 0
    BY <1>4, <1>6, <1>13
  <2>2. id \in Ids(c.writeCallbacks) \cup Ids(c.findCallbacks)
    <3>1. id \in c.promised \ CalledOf(c)
      BY <1>2, <1>6, <2>1, <1>13 DEF Awaited
    <3> QED  BY <3>1, IdsUnion DEF Sound, Kept
  <2>3. id # old
    <3> SUFFICES ASSUME id = old PROVE FALSE
      OBVIOUS
    <3>1. PICK r \in Sent(c) : r.id = id
      BY <1>1, <2>1, WaitingIsSent DEF Ids
    <3>2. Own(c, r)
      BY <1>1 DEF Owned
    <3> QED  BY <2>2, <3>1, <3>2 DEF Own
  <2>4. CASE id \in Ids(Members(c.queue))
    <3>1. PICK r \in Members(c.queue) : r.id = id
      BY <2>4 DEF Ids
    <3>2. r \in Members(d.queue)
      BY <1>8, <1>9, <2>3, <3>1
    <3>3. id \in Ids(Members(d.queue))
      BY <3>1, <3>2 DEF Ids
    <3> QED  BY <3>3, WaitingIs
  <2>5. CASE id \in Ids(Members(c.wire)) /\ id = c.current
    <3>1. d.current = c.current
      BY <1>3, <2>3, <2>5
    <3> QED  BY <1>3, <2>5, <3>1, WaitingIs
  <2> QED  BY <2>1, <2>4, <2>5, WaitingIs
<1>14. Carried(e, d)
  <2>1. \A r \in Sent(d) : r \in Sent(e)
    BY <1>6, <1>10
  <2> QED  BY <1>12, <1>13, <2>1, Zenon DEF Carried
<1>15. Sound(d)
  BY <1>5, <1>7, <1>11, <1>14, StillSound
<1> QED  BY <1>15 DEF d, gone

LEMMA SoundStart ==
    ASSUME NEW c, Sound(c)
    PROVE  Sound(start(c))
<1> DEFINE old == c.query.request
           rid == [c EXCEPT !.queue = Without(@, {r \in Pending(c) : r.id = old}),
                            !.current = IF @ = old THEN None ELSE @]
           apart == [c EXCEPT !.queue = Without(@, {r \in Pending(c) : r.id = old}),
                              !.current = IF @ = old THEN None ELSE @,
                              !.query = [c.query EXCEPT !.status = "Null", !.request = 0]]
           request == Request("query", c.query.partition, "", NoWatcher)
           sent == send(rid, request)
           other == send(apart, request)
           d == [sent EXCEPT !.query.status = "Loading", !.query.request = sent.lastId]
<1>1. start(c) \in {c, d}
  <2>1. start(c) = IF c.query.partition = None THEN c ELSE d
    BY DEF start
  <2> HIDE DEF d
  <2> QED  BY <2>1
<1>2. Sound(apart)
  BY StartForgets
<1>3. Alike(rid, apart) /\ DOMAIN rid = Fields /\ rid.query = c.query
  BY DEF Sound, Shaped, Alike, Fields
<1> HIDE DEF rid, apart, d
<1>4. Alike(sent, other) /\ sent.query = c.query
  BY <1>3, SendAlike
<1>5. /\ Sound(other) /\ other.lastId \in WaitingOf(other)
      /\ \A r \in Sent(other) : r.id = other.lastId => r.kind = "query"
  BY <1>2, SentIsNew
<1> HIDE DEF sent, other
<1>6. /\ DOMAIN d = Fields /\ SameLine(other, d)
      /\ d.called = other.called /\ d.promised = other.promised
      /\ d.writeCallbacks = other.writeCallbacks /\ d.findCallbacks = other.findCallbacks
      /\ d.query = [sent.query EXCEPT !.status = "Loading", !.request = sent.lastId]
      /\ sent.lastId = other.lastId
  BY <1>4 DEF Alike, Fields, SameLine, d
<1>7. Shaped(d) /\ d.query.status = "Loading" /\ d.query.request = other.lastId
  BY <1>4, <1>6 DEF Sound, Shaped
<1>8. other.lastId \in 0 .. other.lastId
  BY <1>5 DEF Sound, Line
<1>9. Sound(d)
  <2>1. d.query.request \in 0 .. other.lastId
    BY <1>7, <1>8
  <2>2. d.query.status = "Loading" <=> d.query.request \in WaitingOf(other)
    BY <1>5, <1>7
  <2>3. \A r \in Sent(other) : r.id = d.query.request => r.kind = "query"
    BY <1>5, <1>7
  <2> QED  BY <1>5, <1>6, <1>7, <2>1, <2>2, <2>3, QuerySet
<1> QED  BY <1>1, <1>9

LEMMA SoundDeletePartition ==
    ASSUME NEW c, Sound(c), NEW p
    PROVE  LET d == DeletePartition(c, p) IN Sound(d) \/ "left" \in d.exposed
<1> DEFINE less == Unwatched(c, p)
           gone == [less EXCEPT
                    !.partition[p].alive = FALSE,
                    !.writeCallbacks = {r \in @ : r.of # p}, !.findCallbacks = {r \in @ : r.of # p},
                    !.notify.partition = IF @ = p THEN None ELSE @,
                    !.query.partition = IF @ = p THEN None ELSE @]
           waiting == \E r \in c.writeCallbacks \cup c.findCallbacks : r.of = p
           one == IF waiting THEN Exposed(gone, "left") ELSE gone
           d == DeletePartition(c, p)
<1>1. d \in {one, Exposed(one, "orphaned")}
  BY DEF DeletePartition
<1>2. Quiet(c, less)
  BY QuietUnwatched
<1> HIDE DEF less, d
<1>3. Shaped(less)
  BY <1>2 DEF Quiet, Frame
<1>4. /\ DOMAIN gone = Fields /\ SameLine(less, gone) /\ gone.called = less.called
      /\ gone.promised = less.promised
      /\ gone.writeCallbacks = {r \in less.writeCallbacks : r.of # p}
      /\ gone.findCallbacks = {r \in less.findCallbacks : r.of # p}
      /\ gone.query = [less.query EXCEPT !.partition = IF less.query.partition = p THEN None ELSE @]
  BY <1>3 DEF Shaped, Fields, SameLine
<1>5. Shaped(gone) /\ gone.query.status = less.query.status
        /\ gone.query.request = less.query.request
  BY <1>3, <1>4 DEF Shaped
<1> HIDE DEF gone
<1>6. CASE waiting
  <2>1. DOMAIN one = Fields /\ "left" \in one.exposed
    BY <1>4, <1>6 DEF Exposed, Fields
  <2> HIDE DEF one
  <2>2. "left" \in Exposed(one, "orphaned").exposed
    BY <2>1 DEF Exposed, Fields
  <2> QED  BY <1>1, <2>1, <2>2 DEF d
<1>7. CASE ~waiting
  <2>1. less.writeCallbacks = c.writeCallbacks /\ less.findCallbacks = c.findCallbacks
    BY <1>2 DEF Quiet, Frame
  <2>2. gone.writeCallbacks = less.writeCallbacks /\ gone.findCallbacks = less.findCallbacks
    BY <1>4, <1>7, <2>1
  <2>3. less.lastId \in Nat /\ Sound(less)
    BY <1>2 DEF Quiet, Sound, Line
  <2>4. Frame(less, gone)
    BY <1>4, <1>5, <2>2, <2>3 DEF Frame, SameLine
  <2>5. Sound(gone)
    BY <1>4, <2>3, <2>4, SameIsQuiet DEF Quiet
  <2>6. Sound(Exposed(gone, "orphaned"))
    BY <2>5, ExposedIsQuiet DEF Quiet
  <2> QED  BY <1>1, <1>7, <2>5, <2>6 DEF d
<1> QED  BY <1>6, <1>7

-----------------------------------------------------------------------------
(***************************************************************************)
(* Answers.                                                                *)
(***************************************************************************)
\* Request id of c was read, and is what the connection waited for.
Read(c, d, id) ==
    /\ Frame(c, d) /\ Line(d) /\ d.lastId = c.lastId
    /\ Sent(d) \subseteq Sent(c) /\ WaitingOf(d) = WaitingOf(c) \ {id}

\* One that nobody waits for.
LEMMA ReadInVain ==
    ASSUME NEW c, Sound(c), NEW d, NEW id, Read(c, d, id), id \notin Awaited(c)
    PROVE  Sound(d)
<1>1. \A r \in Sent(d) : r \in Sent(c)
  BY DEF Read
<1>2. \A n \in Awaited(c) : n \in WaitingOf(c) => n \in WaitingOf(d)
  BY DEF Read
<1>3. \A n \in WaitingOf(d) : n \in WaitingOf(c)
  BY DEF Read
<1>4. Carried(c, d)
  BY <1>1, <1>2, <1>3, Zenon DEF Carried
<1> QED  BY <1>4, StillSound DEF Read

\* A callback is called and forgotten.
CalledBack(c, d, id) ==
    /\ Shaped(d) /\ SameLine(c, d) /\ d.query = c.query /\ d.promised = c.promised
    /\ \E ok : d.called = Append(c.called, [id |-> id, ok |-> ok])
    /\ Ids(d.writeCallbacks) \subseteq Ids(c.writeCallbacks)
    /\ Ids(d.findCallbacks) \subseteq Ids(c.findCallbacks)
    /\ Ids(d.writeCallbacks) \cup Ids(d.findCallbacks)
          = (Ids(c.writeCallbacks) \cup Ids(c.findCallbacks)) \ {id}

LEMMA CalledBackIsSound ==
    ASSUME NEW c, Sound(c), NEW e, NEW id, Read(c, e, id), NEW d, CalledBack(e, d, id),
           id \in Ids(c.writeCallbacks) \cup Ids(c.findCallbacks), id # c.query.request
    PROVE  Sound(d)
<1>1. Owned(c) /\ Kept(c) /\ CalledOnce(c) /\ Loading(c)
  BY DEF Sound
<1>2. /\ e.promised = c.promised /\ e.called = c.called /\ e.lastId = c.lastId
      /\ e.writeCallbacks = c.writeCallbacks /\ e.findCallbacks = c.findCallbacks
      /\ e.query.status = c.query.status /\ e.query.request = c.query.request
  BY DEF Read, Frame
<1>3. /\ Line(d) /\ Sent(d) = Sent(e) /\ WaitingOf(d) = WaitingOf(c) \ {id} /\ d.lastId = c.lastId
      /\ d.promised = c.promised /\ d.query.status = c.query.status
      /\ d.query.request = c.query.request
  BY <1>2, WaitingIs DEF SameLine, Read, Line, Sent, CalledBack
<1>4. id \in c.promised /\ id \notin CalledOf(c)
  BY <1>1, IdsUnion DEF Kept
<1>5. PICK ok : d.called = Append(c.called, [id |-> id, ok |-> ok])
  BY <1>2 DEF CalledBack
<1>6. IsSeq(d.called) /\ CalledOf(d) = CalledOf(c) \cup {id} /\ Len(d.called) = Len(c.called) + 1
  <2> DEFINE one == [id |-> id, ok |-> ok]
             old == c.called
  <2>1. IsSeq(old) /\ d.called = Append(old, one) /\ Ids({one}) = {id}
    <3>1. one.id = id
      OBVIOUS
    <3> HIDE DEF one
    <3>2. Ids({one}) = {id}
      BY <3>1 DEF Ids
    <3> QED  BY <1>1, <1>5, <3>2 DEF CalledOnce, one
  <2> HIDE DEF one, old
  <2>2. /\ IsSeq(Append(old, one)) /\ Members(Append(old, one)) = Members(old) \cup {one}
        /\ Len(Append(old, one)) = Len(old) + 1
    BY <2>1, AppendFacts
  <2>3. Ids(Members(old) \cup {one}) = Ids(Members(old)) \cup Ids({one})
    BY IdsUnion
  <2> QED  BY <2>1, <2>2, <2>3 DEF CalledOf, old
<1>7. Owned(d)
  <2> SUFFICES ASSUME NEW r \in Sent(d) PROVE Own(d, r)
    BY DEF Owned
  <2>1. Own(c, r)
    BY <1>1, <1>3 DEF Owned, Read
  <2> QED  BY <1>2, <1>3, <2>1 DEF Own, CalledBack
<1>8. Kept(d)
  <2>1. Ids(d.writeCallbacks \cup d.findCallbacks) = Ids(c.writeCallbacks
          \cup c.findCallbacks) \ {id}
    BY <1>2, IdsUnion DEF CalledBack
  <2>2. Ids(d.writeCallbacks \cup d.findCallbacks) = d.promised \ CalledOf(d)
    BY <1>1, <1>3, <1>6, <2>1 DEF Kept
  <2> QED  BY <1>1, <1>3, <1>6, <2>2 DEF Kept
<1>9. CalledOnce(d)
  <2>1. IsFiniteSet(CalledOf(c)) /\ Cardinality(CalledOf(c)) = Len(c.called)
    BY <1>1 DEF CalledOnce
  <2>2. /\ IsFiniteSet(CalledOf(c) \cup {id})
        /\ Cardinality(CalledOf(c) \cup {id}) = Cardinality(CalledOf(c)) + 1
    BY <1>4, <2>1, FS_AddElement
  <2> QED  BY <1>1, <1>3, <1>4, <1>6, <2>1, <2>2 DEF CalledOnce
<1>10. Loading(d)
  BY <1>1, <1>3 DEF Loading
<1>11. Shaped(d)
  BY DEF CalledBack
<1> QED  BY <1>3, <1>7, <1>8, <1>9, <1>10, <1>11 DEF Sound

LEMMA IdsLess ==
    ASSUME NEW A, NEW id
    PROVE  Ids({r \in A : r.id # id}) = Ids(A) \ {id}
BY DEF Ids

LEMMA WriteCalledBack ==
    ASSUME NEW c, Shaped(c), NEW id, NEW ok,
           id \in Ids(c.writeCallbacks), id \notin Ids(c.findCallbacks)
    PROVE  CalledBack(c, [Called(c, id, ok) EXCEPT !.writeCallbacks = {r \in @ : r.id # id}], id)
<1> DEFINE d == [Called(c, id, ok) EXCEPT !.writeCallbacks = {r \in @ : r.id # id}]
<1>1. /\ Shaped(d) /\ SameLine(c, d) /\ d.query = c.query /\ d.promised = c.promised
      /\ d.called = Append(c.called, [id |-> id, ok |-> ok])
      /\ d.findCallbacks = c.findCallbacks
      /\ d.writeCallbacks = {r \in c.writeCallbacks : r.id # id}
  BY DEF Called, Shaped, Fields, SameLine
<1> HIDE DEF d
<1>2. Ids(d.writeCallbacks) = Ids(c.writeCallbacks) \ {id}
  BY <1>1, IdsLess
<1>3. CalledBack(c, d, id)
  BY <1>1, <1>2 DEF CalledBack
<1> QED  BY <1>3 DEF d

LEMMA FindCalledBack ==
    ASSUME NEW c, Shaped(c), NEW id, NEW ok,
           id \in Ids(c.findCallbacks), id \notin Ids(c.writeCallbacks)
    PROVE  CalledBack(c, [Called(c, id, ok) EXCEPT !.findCallbacks = {r \in @ : r.id # id}], id)
<1> DEFINE d == [Called(c, id, ok) EXCEPT !.findCallbacks = {r \in @ : r.id # id}]
<1>1. /\ Shaped(d) /\ SameLine(c, d) /\ d.query = c.query /\ d.promised = c.promised
      /\ d.called = Append(c.called, [id |-> id, ok |-> ok])
      /\ d.writeCallbacks = c.writeCallbacks
      /\ d.findCallbacks = {r \in c.findCallbacks : r.id # id}
  BY DEF Called, Shaped, Fields, SameLine
<1> HIDE DEF d
<1>2. Ids(d.findCallbacks) = Ids(c.findCallbacks) \ {id}
  BY <1>1, IdsLess
<1>3. CalledBack(c, d, id)
  BY <1>1, <1>2 DEF CalledBack
<1> QED  BY <1>3 DEF d

\* What becomes of an answer, by the kind of its request.
LEMMA HandledIs ==
    ASSUME NEW c, NEW r, NEW ok \in BOOLEAN
    PROVE  /\ r.kind = "write" => Handled(c, r, ok) =
                 IF ok THEN requestFinished(c, r.id) ELSE requestError(c, r.id)
           /\ r.kind = "find" => Handled(c, r, ok) =
                 IF ok THEN queryFinished(c, r.id) ELSE queryStatusChanged(c, r.id)
           /\ r.kind = "query" => Handled(c, r, ok) =
                 IF c.query.request = r.id
                 THEN [c EXCEPT !.query.status = IF ok THEN "Ready" ELSE "Error"] ELSE c
           /\ r.kind \notin {"write", "find", "query"} =>
                 \/ Handled(c, r, ok) = c
                 \/ \E w, status : Handled(c, r, ok) = StatusOf(c, w, status)
                 \/ \E p, name, found : Handled(c, r, ok) = partitionQueryFinished(c, p, name,
                      found)
                 \/ \E p : Handled(c, r, ok) = partitionQueryError(c, p)
<1>1. CASE r.kind = "write"
  BY <1>1 DEF Handled
<1>2. CASE r.kind = "find"
  BY <1>2 DEF Handled
<1>3. CASE r.kind = "query"
  BY <1>3 DEF Handled
<1>4. CASE r.kind \notin {"write", "find", "query"}
  <2>1. CASE r.kind = "add" /\ r.watcher \in c.watchers
    BY <2>1 DEF Handled
  <2>2. CASE r.kind = "remove" /\ ok
    BY <2>2 DEF Handled
  <2>3. CASE r.kind = "state" /\ ok
    BY <2>3 DEF Handled
  <2>4. CASE r.kind = "state" /\ ~ok
    BY <2>4 DEF Handled
  <2>5. CASE /\ ~(r.kind = "add" /\ r.watcher \in c.watchers)
             /\ ~(r.kind = "remove" /\ ok) /\ r.kind # "state"
    BY <1>4, <2>5 DEF Handled
  <2> QED  BY <1>4, <2>1, <2>2, <2>3, <2>4, <2>5
<1> QED  BY <1>1, <1>2, <1>3, <1>4

\* The answer to the current request.
LEMMA SoundHandled ==
    ASSUME NEW c, Sound(c), NEW r \in Sent(c), NEW e, Read(c, e, r.id), NEW ok \in BOOLEAN
    PROVE  Sound(Handled(e, r, ok))
<1>1. Owned(c) /\ Own(c, r) /\ Loading(c) /\ Kept(c)
  BY DEF Sound, Owned
<1>2. /\ Shaped(e) /\ e.promised = c.promised
      /\ e.writeCallbacks = c.writeCallbacks /\ e.findCallbacks = c.findCallbacks
      /\ e.query.status = c.query.status /\ e.query.request = c.query.request
  BY DEF Read, Frame
<1>3. \A id : (\E a \in e.writeCallbacks : a.id = id) <=> id \in Ids(e.writeCallbacks)
  BY DEF Ids
<1>4. \A id : (\E a \in e.findCallbacks : a.id = id) <=> id \in Ids(e.findCallbacks)
  BY DEF Ids
<1>5. CASE r.id \in Ids(c.writeCallbacks)
  <2>1. r.kind = "write" /\ r.id \notin Ids(c.findCallbacks) /\ r.id # c.query.request
    BY <1>1, <1>5 DEF Own
  <2> DEFINE d == [Called(e, r.id, ok) EXCEPT !.writeCallbacks = {a \in @ : a.id # r.id}]
  <2>2. Handled(e, r, ok) = d
    <3>1. Handled(e, r, ok) = IF ok THEN requestFinished(e, r.id) ELSE requestError(e, r.id)
      BY <2>1, HandledIs
    <3>2. CASE ok = TRUE
      <4>1. requestFinished(e, r.id) = call(e, r.id)
        BY <1>2, <1>3, <1>5 DEF requestFinished
      <4> QED  BY <3>1, <3>2, <4>1 DEF call
    <3>3. CASE ok = FALSE
      <4>1. requestError(e, r.id) = callErrorCallback(e, r.id)
        BY <1>2, <1>3, <1>5 DEF requestError
      <4> QED  BY <3>1, <3>3, <4>1 DEF callErrorCallback
    <3> QED  BY <3>2, <3>3
  <2>3. CalledBack(e, d, r.id)
    <3> DEFINE id == r.id
    <3>1. id \in Ids(e.writeCallbacks) /\ id \notin Ids(e.findCallbacks)
      BY <1>2, <1>5, <2>1
    <3> HIDE DEF id
    <3>2. CalledBack(e, [Called(e, id, ok) EXCEPT !.writeCallbacks = {a \in @ : a.id # id}], id)
      BY <1>2, <3>1, WriteCalledBack
    <3> QED  BY <3>2 DEF id
  <2> HIDE DEF d
  <2>4. Sound(d)
    BY <1>5, <2>1, <2>3, CalledBackIsSound
  <2> QED  BY <2>2, <2>4
<1>6. CASE r.id \in Ids(c.findCallbacks)
  <2>1. r.kind = "find" /\ r.id \notin Ids(c.writeCallbacks) /\ r.id # c.query.request
    BY <1>1, <1>6 DEF Own
  <2> DEFINE d == [Called(e, r.id, ok) EXCEPT !.findCallbacks = {a \in @ : a.id # r.id}]
  <2>2. Handled(e, r, ok) = d
    <3>1. Handled(e, r, ok) = IF ok THEN queryFinished(e, r.id) ELSE queryStatusChanged(e, r.id)
      BY <2>1, HandledIs
    <3>2. CASE ok = TRUE
      BY <1>2, <1>4, <1>6, <3>1, <3>2 DEF queryFinished
    <3>3. CASE ok = FALSE
      BY <1>2, <1>4, <1>6, <3>1, <3>3 DEF queryStatusChanged
    <3> QED  BY <3>2, <3>3
  <2>3. CalledBack(e, d, r.id)
    <3> DEFINE id == r.id
    <3>1. id \in Ids(e.findCallbacks) /\ id \notin Ids(e.writeCallbacks)
      BY <1>2, <1>6, <2>1
    <3> HIDE DEF id
    <3>2. CalledBack(e, [Called(e, id, ok) EXCEPT !.findCallbacks = {a \in @ : a.id # id}], id)
      BY <1>2, <3>1, FindCalledBack
    <3> QED  BY <3>2 DEF id
  <2> HIDE DEF d
  <2>4. Sound(d)
    BY <1>6, <2>1, <2>3, CalledBackIsSound
  <2> QED  BY <2>2, <2>4
<1>7. CASE r.id = c.query.request
  <2>1. r.kind = "query"
    BY <1>1, <1>7 DEF Own
  <2> DEFINE status == IF ok THEN "Ready" ELSE "Error"
             d == [e EXCEPT !.query.status = status]
  <2>2. Handled(e, r, ok) = d
    BY <1>2, <1>7, <2>1, HandledIs
  <2>3. status # "Loading"
    OBVIOUS
  <2> HIDE DEF status
  <2>4. /\ Shaped(d) /\ SameLine(e, d) /\ d.called = e.called /\ d.promised = e.promised
        /\ d.writeCallbacks = e.writeCallbacks /\ d.findCallbacks = e.findCallbacks
        /\ d.query.status = status /\ d.query.request = e.query.request
    BY <1>2 DEF Shaped, Fields, SameLine
  <2> HIDE DEF d
  <2>5. /\ Line(d) /\ Sent(d) \subseteq Sent(c) /\ WaitingOf(d) = WaitingOf(c) \ {r.id}
        /\ CalledOf(d) = CalledOf(c) /\ d.lastId = c.lastId /\ d.called = c.called
    <3>1. Line(d) /\ Sent(d) = Sent(e)
      BY <2>4 DEF SameLine, Read, Line, Sent
    <3>2. WaitingOf(d) = WaitingOf(e)
      BY <2>4, WaitingIs DEF SameLine
    <3>3. CalledOf(d) = CalledOf(c) /\ d.lastId = c.lastId /\ d.called = c.called
      BY <2>4 DEF SameLine, Read, Frame, CalledOf
    <3> QED  BY <3>1, <3>2, <3>3 DEF Read
  <2>6. r.id \notin c.promised \ CalledOf(c)
    BY <1>1, <1>7, <2>1, IdsUnion DEF Own, Kept
  <2>7. Owned(d)
    BY <1>1, <1>2, <2>4, <2>5 DEF Owned, Own
  <2>8. Kept(d) /\ CalledOnce(d)
    <3>1. Kept(d)
      BY <1>1, <1>2, <2>4, <2>5, <2>6 DEF Kept
    <3>2. CalledOnce(c)
      BY DEF Sound
    <3> QED  BY <1>2, <2>4, <2>5, <3>1, <3>2 DEF CalledOnce
  <2>9. Loading(d)
    BY <1>1, <1>2, <1>7, <2>3, <2>4, <2>5 DEF Loading
  <2> QED  BY <2>2, <2>4, <2>5, <2>7, <2>8, <2>9 DEF Sound
<1>8. CASE r.id \notin Ids(c.writeCallbacks) \cup Ids(c.findCallbacks) \cup {c.query.request}
  <2>1. r.id \notin Awaited(c)
    BY <1>1, <1>8, IdsUnion DEF Awaited, Kept
  <2>2. Sound(e)
    BY <2>1, ReadInVain
  <2>3. CASE r.kind = "write"
    <3>1. requestFinished(e, r.id) = e /\ requestError(e, r.id) = e
      BY <1>2, <1>3, <1>8 DEF requestFinished, requestError
    <3> QED  BY <2>2, <2>3, <3>1, HandledIs
  <2>4. CASE r.kind = "find"
    <3>1. queryFinished(e, r.id) = e /\ queryStatusChanged(e, r.id) = e
      BY <1>2, <1>4, <1>8 DEF queryFinished, queryStatusChanged
    <3> QED  BY <2>2, <2>4, <3>1, HandledIs
  <2>5. CASE r.kind = "query"
    BY <1>2, <1>8, <2>2, <2>5, HandledIs
  <2>6. CASE r.kind \notin {"write", "find", "query"}
    <3> DEFINE h == Handled(e, r, ok)
    <3>1. \/ h = e
          \/ \E w, status : h = StatusOf(e, w, status)
          \/ \E p, name, found : h = partitionQueryFinished(e, p, name, found)
          \/ \E p : h = partitionQueryError(e, p)
      BY <2>6, HandledIs
    <3> SUFFICES Sound(h)
      BY DEF h
    <3> HIDE DEF h
    <3>2. ASSUME NEW w, NEW status, h = StatusOf(e, w, status) PROVE Sound(h)
      BY <2>2, <3>2, QuietStatusOf DEF Quiet
    <3>3. ASSUME NEW p, NEW name, NEW found, h = partitionQueryFinished(e, p, name, found)
          PROVE  Sound(h)
      BY <2>2, <3>3, QuietPartitionQueryFinished DEF Quiet
    <3>4. ASSUME NEW p, h = partitionQueryError(e, p) PROVE Sound(h)
      BY <2>2, <3>4, QuietPartitionQueryError DEF Quiet
    <3> QED  BY <2>2, <3>1, <3>2, <3>3, <3>4
  <2> QED  BY <2>3, <2>4, <2>5, <2>6
<1> QED  BY <1>5, <1>6, <1>7, <1>8

LEMMA SoundAnswered ==
    ASSUME NEW c, Sound(c), c.wire # <<>>, NEW ok \in BOOLEAN
    PROVE  Sound(Answered(c, Head(c.wire), ok))
<1> DEFINE r == Head(c.wire)
           read == [c EXCEPT !.wire = Tail(@)]
           e == [read EXCEPT !.current = None]
<1>1. Shaped(c) /\ Line(c) /\ c.lastId \in Nat
  BY DEF Sound, Line
<1>2. Answered(c, r, ok) = IF r.id = c.current THEN handleRequestQueue(Handled(e, r, ok))
                           ELSE handleRequestQueue(read)
  BY DEF Answered
<1>3. IsSeq(Tail(c.wire)) /\ Members(c.wire) = {r} \cup Members(Tail(c.wire))
  BY <1>1, TailFacts DEF Line
<1>4. /\ Frame(c, read) /\ read.queue = c.queue /\ read.wire = Tail(c.wire)
      /\ read.current = c.current /\ read.lastId = c.lastId
  BY <1>1 DEF Shaped, Fields, Frame
<1>5. /\ Frame(c, e) /\ e.queue = c.queue /\ e.wire = Tail(c.wire)
      /\ e.current = None /\ e.lastId = c.lastId
  BY <1>1 DEF Shaped, Fields, Frame
<1> HIDE DEF e, read, r
<1>6. \A a \in Sent(c) : a.id \in 1 .. c.lastId
  BY <1>1, WaitingIsSent
<1>7. CASE r.id # c.current
  <2>1. Sent(read) \subseteq Sent(c)
    BY <1>3, <1>4 DEF Sent
  <2>2. Line(read)
    <3>1. Ids(Sent(read)) \subseteq 1 .. c.lastId
      BY <1>6, <2>1 DEF Ids
    <3> QED  BY <1>1, <1>3, <1>4, <3>1 DEF Line
  <2>3. WaitingOf(read) = WaitingOf(c)
    <3>1. Ids(Members(c.wire)) = {r.id} \cup Ids(Members(Tail(c.wire)))
      BY <1>3 DEF Ids
    <3> QED  BY <1>4, <1>7, <3>1, WaitingIs
  <2>4. Carried(c, read)
    <3>1. \A a \in Sent(read) : a \in Sent(c)
      BY <2>1
    <3>2. \A id : id \in WaitingOf(read) <=> id \in WaitingOf(c)
      BY <2>3
    <3> QED  BY <3>1, <3>2, Zenon DEF Carried
  <2>5. Sound(read)
    BY <1>4, <2>2, <2>4, StillSound
  <2>6. Sound(handleRequestQueue(read))
    BY <2>5, QuietQueue DEF Quiet
  <2> QED  BY <1>2, <1>7, <2>6 DEF r
<1>8. CASE r.id = c.current
  <2>1. r \in Sent(c) /\ Sent(e) \subseteq Sent(c)
    BY <1>3, <1>5 DEF Sent
  <2>2. \A a \in Members(e.queue) \cup Members(e.wire) : a.id # None
    BY <1>6, <2>1 DEF Sent, None
  <2>3. Line(e)
    <3>1. Ids(Sent(e)) \subseteq 1 .. c.lastId
      BY <1>6, <2>1 DEF Ids
    <3>2. e.current \in 0 .. e.lastId /\ e.current \notin Ids(Members(e.queue))
      BY <1>1, <1>5, <2>2 DEF Ids, None
    <3> QED  BY <1>1, <1>3, <1>5, <3>1, <3>2 DEF Line
  <2>4. WaitingOf(e) = WaitingOf(c) \ {r.id}
    <3>1. WaitingOf(e) = Ids(Members(c.queue))
      <4>1. None \notin Ids(Members(e.wire))
        BY <2>2 DEF Ids
      <4> QED  BY <1>5, <4>1, WaitingIs
    <3>2. WaitingOf(c) = Ids(Members(c.queue)) \cup {r.id}
      <4>1. r.id \in Ids(Members(c.wire))
        BY <1>3 DEF Ids
      <4> QED  BY <1>8, <4>1, WaitingIs
    <3>3. r.id \notin Ids(Members(c.queue))
      BY <1>1, <1>8 DEF Line
    <3> QED  BY <3>1, <3>2, <3>3
  <2>5. Read(c, e, r.id)
    BY <1>5, <2>1, <2>3, <2>4 DEF Read
  <2>6. Sound(Handled(e, r, ok))
    BY <2>1, <2>5, SoundHandled
  <2>7. Sound(handleRequestQueue(Handled(e, r, ok)))
    BY <2>6, QuietQueue DEF Quiet
  <2> QED  BY <1>2, <1>8, <2>7 DEF r
<1> QED  BY <1>7, <1>8

-----------------------------------------------------------------------------
(***************************************************************************)
(* The specification.                                                      *)
(***************************************************************************)
LEMMA NoObjectsAreSound == Sound(NoObjects)
<1> DEFINE c == NoObjects
<1>1. /\ Shaped(c) /\ c.queue = <<>> /\ c.wire = <<>> /\ c.called = <<>> /\ c.current = 0
      /\ c.lastId = 0 /\ c.promised = {} /\ c.writeCallbacks = {} /\ c.findCallbacks = {}
      /\ c.query.status = "Null" /\ c.query.request = 0
  BY DEF NoObjects, Shaped, Fields, None
<1> HIDE DEF c
<1>2. Sent(c) = {} /\ WaitingOf(c) = {} /\ CalledOf(c) = {}
  <2>1. Ids({}) = {}
    BY DEF Ids
  <2> QED  BY <1>1, <2>1, NothingSent, WaitingIs DEF Sent, CalledOf
<1>3. Line(c)
  BY <1>1, <1>2, NothingSent DEF Line, Ids
<1>4. Kept(c)
  BY <1>1, <1>2 DEF Kept, Ids
<1>5. CalledOnce(c)
  BY <1>1, <1>2, NothingSent, FS_EmptySet DEF CalledOnce
<1>6. Owned(c) /\ Loading(c)
  BY <1>1, <1>2 DEF Owned, Loading
<1> QED  BY <1>1, <1>3, <1>4, <1>5, <1>6 DEF Sound, c

\* How the partition objects are made.
MadeBy(made) ==
    /\ Len(FirstName) \in Nat /\ Made = made[Len(FirstName)] /\ made[0] = NoObjects
    /\ \A i \in 1 .. Len(FirstName) : made[i] = init(made[i - 1], i)

LEMMA MadeIs == \E made : MadeBy(made)
<1> DEFINE n == Len(FirstName)
           Objects(m, f) == f = [i \in 0 .. m |-> IF i = 0 THEN NoObjects ELSE init(f[i - 1], i)]
           T == {m \in Nat : \E f : Objects(m, f)}
           made == CHOOSE f : Objects(n, f)
<1>1. n \in Nat
  <2> DEFINE S == Name \cup {""}
  <2>1. FirstName \in Seq(S)
    BY QmlAssumption
  <2> HIDE DEF S
  <2> QED  BY <2>1, LenProperties
<1>2. 0 \in T
  <2> DEFINE f == [i \in 0 .. 0 |-> NoObjects]
  <2>1. f = [i \in 0 .. 0 |-> IF i = 0 THEN NoObjects ELSE init(f[i - 1], i)]
    OBVIOUS
  <2> QED  BY <2>1
<1>3. ASSUME NEW m \in Nat, m \in T PROVE m + 1 \in T
  <2>1. PICK f : Objects(m, f)
    BY <1>3
  <2> DEFINE g == [i \in 0 .. m + 1 |-> IF i = m + 1 THEN init(f[m], m + 1) ELSE f[i]]
  <2>2. \A i \in 0 .. m : g[i] = f[i] /\ f[i] = IF i = 0 THEN NoObjects ELSE init(f[i - 1], i)
    BY <2>1
  <2>3. g[m + 1] = init(f[m], m + 1) /\ g[m] = f[m]
    OBVIOUS
  <2>4. g = [i \in 0 .. m + 1 |-> g[i]]
    OBVIOUS
  <2> HIDE DEF g
  <2>5. \A i \in 0 .. m + 1 : g[i] = IF i = 0 THEN NoObjects ELSE init(g[i - 1], i)
    <3> SUFFICES ASSUME NEW i \in 0 .. m + 1
                 PROVE  g[i] = IF i = 0 THEN NoObjects ELSE init(g[i - 1], i)
      OBVIOUS
    <3>1. CASE i = m + 1
      BY <2>3, <3>1
    <3>2. CASE i # m + 1
      <4>1. i \in 0 .. m /\ (i # 0 => i - 1 \in 0 .. m)
        BY <3>2
      <4> QED  BY <2>2, <4>1
    <3> QED  BY <3>1, <3>2
  <2>6. Objects(m + 1, g)
    BY <2>4, <2>5
  <2> QED  BY <2>6
<1> HIDE DEF T
<1>4. Nat \subseteq T
  BY <1>2, <1>3, SetInduction
<1>5. Objects(n, made)
  <2>1. \E f : Objects(n, f)
    BY <1>1, <1>4 DEF T
  <2> HIDE DEF Objects
  <2> QED  BY <2>1
<1>6. Made = made[n]
  BY DEF Made
<1> HIDE DEF made, n
<1>7. made[0] = NoObjects /\ \A i \in 1 .. n : made[i] = init(made[i - 1], i)
  <2>1. \A i \in 0 .. n : made[i] = IF i = 0 THEN NoObjects ELSE init(made[i - 1], i)
    BY <1>5
  <2>2. 0 \in 0 .. n /\ \A i \in 1 .. n : i \in 0 .. n /\ i # 0
    BY <1>1
  <2> QED  BY <2>1, <2>2
<1>8. MadeBy(made)
  BY <1>1, <1>6, <1>7 DEF MadeBy, n
<1> QED  BY <1>8

LEMMA MadeIsSound == Sound(Made)
<1> DEFINE n == Len(FirstName)
<1>1. PICK made : MadeBy(made)
  BY MadeIs
<1>2. /\ n \in Nat /\ Made = made[n] /\ made[0] = NoObjects
      /\ \A i \in 1 .. n : made[i] = init(made[i - 1], i)
  BY <1>1 DEF MadeBy
<1> HIDE DEF n
<1> DEFINE S == {m \in Nat : m <= n => Sound(made[m])}
<1>3. 0 \in S
  BY <1>2, NoObjectsAreSound
<1>4. ASSUME NEW m \in Nat, m \in S PROVE m + 1 \in S
  <2> SUFFICES ASSUME m + 1 <= n PROVE Sound(made[m + 1])
    OBVIOUS
  <2>1. m + 1 \in 1 .. n /\ (m + 1) - 1 = m /\ Sound(made[m])
    BY <1>2, <1>4
  <2>2. made[m + 1] = init(made[m], m + 1)
    BY <1>2, <2>1
  <2> QED  BY <2>1, <2>2, QuietInit DEF Quiet
<1> HIDE DEF S
<1>5. Nat \subseteq S
  BY <1>3, <1>4, SetInduction
<1> QED  BY <1>2, <1>5 DEF S

LEMMA SoundAtFirst ==
    ASSUME Init
    PROVE  Sound(x)
<1>1. CASE x = Made
  BY <1>1, MadeIsSound
<1>2. CASE \E p \in Partition, query \in Query : x = createNotification(Made, p, query)
  BY <1>2, MadeIsSound, QuietCreateNotification DEF Quiet
<1> QED  BY <1>1, <1>2 DEF Init

LEMMA SoundCall ==
    ASSUME CallersWait, NEW c, Call(c), Sound(c) \/ "left" \in c.exposed \/ "unasked" \in c.exposed
    PROVE  Sound(x')
BY DEF Call, Becomes, CallersWait

LEMMA SoundPartitionCall ==
    ASSUME CallersWait, Sound(x), PartitionCall
    PROVE  Sound(x')
<1>1. PICK p \in Partition :
        \/ \E name \in Name : Call(setName(x, p, name))
        \/ \E callback \in BOOLEAN : Call(Write(x, p, callback))
        \/ \E query \in Query \cup {""}, callback \in BOOLEAN : Call(find(x, p, query, callback))
        \/ \E query \in Query : Call(createNotification(x, p, query))
        \/ Call(createQuery(x, p))
        \/ Call(DeletePartition(x, p))
  BY Zenon DEF PartitionCall, create, update, remove
<1>2. ASSUME NEW name, Call(setName(x, p, name)) PROVE Sound(x')
  BY <1>2, SoundCall, QuietSetName DEF Quiet
<1>3. ASSUME NEW callback, Call(Write(x, p, callback)) PROVE Sound(x')
  BY <1>3, SoundCall, SoundWrite
<1>4. ASSUME NEW query, NEW callback, Call(find(x, p, query, callback)) PROVE Sound(x')
  BY <1>4, SoundCall, SoundFind
<1>5. ASSUME NEW query, Call(createNotification(x, p, query)) PROVE Sound(x')
  BY <1>5, SoundCall, QuietCreateNotification DEF Quiet
<1>6. CASE Call(createQuery(x, p))
  BY <1>6, SoundCall, SoundCreateQuery
<1>7. CASE Call(DeletePartition(x, p))
  BY <1>7, SoundCall, SoundDeletePartition
<1> QED  BY <1>1, <1>2, <1>3, <1>4, <1>5, <1>6, <1>7, Zenon

LEMMA SoundNotifyCall ==
    ASSUME CallersWait, Sound(x), NotifyCall
    PROVE  Sound(x')
<1>1. \/ \E query : Call(initNotify([x EXCEPT !.notify.query = query]))
      \/ \E actions : Call(initNotify([x EXCEPT !.notify.actions = actions]))
      \/ \E p : Call(setPartition(x, p))
      \/ \E enabled : Call(setEnabled(x, enabled))
      \/ Call(DeleteNotify(x))
  BY Zenon DEF NotifyCall
<1>2. ASSUME NEW query, Call(initNotify([x EXCEPT !.notify.query = query])) PROVE Sound(x')
  <2> DEFINE c == [x EXCEPT !.notify.query = query]
  <2>1. Elsewhere(x, c)
    BY DEF Elsewhere, Sound, Shaped, Fields
  <2> HIDE DEF c
  <2>2. Sound(c)
    BY <2>1, ElsewhereIsQuiet DEF Quiet
  <2>3. Sound(initNotify(c)) /\ Call(initNotify(c))
    BY <1>2, <2>2, QuietInitNotify DEF Quiet, c
  <2> QED  BY <2>3, SoundCall
<1>3. ASSUME NEW actions, Call(initNotify([x EXCEPT !.notify.actions = actions])) PROVE Sound(x')
  <2> DEFINE c == [x EXCEPT !.notify.actions = actions]
  <2>1. Elsewhere(x, c)
    BY DEF Elsewhere, Sound, Shaped, Fields
  <2> HIDE DEF c
  <2>2. Sound(c)
    BY <2>1, ElsewhereIsQuiet DEF Quiet
  <2>3. Sound(initNotify(c)) /\ Call(initNotify(c))
    BY <1>3, <2>2, QuietInitNotify DEF Quiet, c
  <2> QED  BY <2>3, SoundCall
<1>4. ASSUME NEW p, Call(setPartition(x, p)) PROVE Sound(x')
  BY <1>4, SoundCall, QuietSetPartition DEF Quiet
<1>5. ASSUME NEW enabled, Call(setEnabled(x, enabled)) PROVE Sound(x')
  BY <1>5, SoundCall, QuietSetEnabled DEF Quiet
<1>6. CASE Call(DeleteNotify(x))
  BY <1>6, SoundCall, QuietDeleteNotify DEF Quiet
<1> QED  BY <1>1, <1>2, <1>3, <1>4, <1>5, <1>6, Zenon

LEMMA SoundDeliver ==
    ASSUME Sound(x), Deliver
    PROVE  Sound(x')
<1> DEFINE w == Head(events).watcher
           e == Head(events).event
<1>1. \/ x' = x
      \/ Hear(e)
      \/ Becomes(notificationsAvailable(x, w.of, e))
  BY DEF Deliver
<1> HIDE DEF w, e
<1>2. CASE Hear(e)
  <2> DEFINE c == [x EXCEPT !.notify.status = "Ready"]
  <2>1. x' = c
    BY <1>2 DEF Hear, Becomes
  <2>2. Elsewhere(x, c)
    BY DEF Elsewhere, Sound, Shaped, Fields
  <2> HIDE DEF c
  <2> QED  BY <2>1, <2>2, ElsewhereIsQuiet DEF Quiet
<1>3. CASE Becomes(notificationsAvailable(x, w.of, e))
  BY <1>3, QuietNotificationsAvailable DEF Becomes, Quiet
<1> QED  BY <1>1, <1>2, <1>3

LEMMA SoundStays ==
    ASSUME CallersWait, Sound(x), [Next]_vars
    PROVE  Sound(x')
<1>1. CASE QueryCall
  BY <1>1, SoundCall, SoundStart DEF QueryCall
<1>2. ASSUME NEW ok \in BOOLEAN, Answer(ok) PROVE Sound(x')
  BY <1>2, SoundAnswered DEF Answer, Becomes
<1>3. ASSUME NEW name, NEW state, PartitionChanges(name, state) PROVE Sound(x')
  BY <1>3 DEF PartitionChanges
<1>4. ASSUME NEW name, NEW query, NEW action, ObjectChanges(name, query, action) PROVE Sound(x')
  BY <1>4 DEF ObjectChanges
<1>5. CASE UNCHANGED vars
  BY <1>5 DEF vars
<1> QED  BY <1>1, <1>2, <1>3, <1>4, <1>5, SoundPartitionCall, SoundNotifyCall, SoundDeliver DEF Next

\* What the objects of a thread keep, whatever the application calls and the
\* daemon answers (jsondbpartition.cpp, jsondbnotification.cpp,
\* jsondbqueryobject.cpp): ids of requests are told apart, no request is taken
\* away from a callback or a query object that waits for it, and no callback is
\* kept that was called.
THEOREM Invariance ==
    ASSUME CallersWait
    PROVE  Spec => []ObjectsAreSound
<1>1. Init => ObjectsAreSound
  BY SoundAtFirst DEF ObjectsAreSound
<1>2. ObjectsAreSound /\ [Next]_vars => ObjectsAreSound'
  BY SoundStays DEF ObjectsAreSound
<1> QED  BY <1>1, <1>2, PTL DEF Spec

\* "The callback will be called in case of failure or success"
\* (jsondbpartition.cpp:430), for any number of partition objects: while one is
\* kept its request is on the way, and none is called twice; a query object
\* is loading as long as the request of its last start is on the way.
THEOREM CallbacksAreCalled ==
    ASSUME CallersWait
    PROVE  Spec => []AnswersArrive
<1>1. ObjectsAreSound => AnswersArrive
  <2> SUFFICES ASSUME Sound(x) PROVE AnswersArrive
    BY DEF ObjectsAreSound
  <2>1. Waiting = WaitingOf(x) /\ CalledIds = CalledOf(x)
          /\ {r.id : r \in Callbacks} = Ids(Callbacks)
    BY DEF Waiting, WaitingOf, CalledIds, CalledOf, Ids, Members
  <2>2. Kept(x) /\ CalledOnce(x) /\ Loading(x)
    BY DEF Sound
  <2> QED  BY <2>1, <2>2 DEF AnswersArrive, Kept, CalledOnce, Loading, Callbacks
<1> QED  BY <1>1, Invariance, PTL

-----------------------------------------------------------------------------
(***************************************************************************)
(* Registrations.  Sequences in order.                                     *)
(***************************************************************************)
\* t is what remains of s when some of it is taken out.
Picks(s, t) ==
    \E g : /\ \A k \in DOMAIN t : g[k] \in DOMAIN s /\ t[k] = s[g[k]]
           /\ \A j, k \in DOMAIN t : j < k => g[j] < g[k]

LEMMA PicksKeepOrder ==
    ASSUME NEW s, NEW t, Picks(s, t)
    PROVE  /\ Rises(s) => Rises(t)
           /\ Leads(s) => Leads(t)
<1>1. PICK g : /\ \A k \in DOMAIN t : g[k] \in DOMAIN s /\ t[k] = s[g[k]]
               /\ \A j, k \in DOMAIN t : j < k => g[j] < g[k]
  BY DEF Picks
<1>2. ASSUME Rises(s) PROVE Rises(t)
  BY <1>1, <1>2 DEF Rises
<1>3. ASSUME Leads(s) PROVE Leads(t)
  BY <1>1, <1>3 DEF Leads
<1> QED  BY <1>2, <1>3

LEMMA TailPicks ==
    ASSUME NEW s, IsSeq(s), s # <<>>
    PROVE  /\ Picks(s, Tail(s))
           /\ Distinct(s) => Distinct(Tail(s))
           /\ Rises(s) => \A r \in Members(Tail(s)) :
                 Internal(Head(s)) /\ Internal(r) => Head(s).id < r.id
           /\ Leads(s) => \A r \in Members(Tail(s)) : Internal(r) => Internal(Head(s))
<1> DEFINE S == Members(s)
           t == Tail(s)
           g == [k \in DOMAIN t |-> k + 1]
<1>1. s \in Seq(S)
  BY DEF IsSeq
<1>2. Len(s) \in Nat /\ DOMAIN s = 1 .. Len(s)
  BY <1>1, IsSeqOf
<1> HIDE DEF S
<1>3. Head(s) = s[1] /\ t \in Seq(S) /\ Len(s) # 0
  BY <1>1, HeadTailProperties, NothingSent
<1>4. Len(t) = Len(s) - 1 /\ \A i \in 1 .. Len(t) : t[i] = s[i + 1]
  BY <1>1, <1>3, HeadTailProperties
<1>5. DOMAIN t = 1 .. Len(t) /\ Members(t) = {t[i] : i \in 1 .. Len(t)}
  BY <1>3, IsSeqOf
<1> HIDE DEF t
<1>6. \A k \in DOMAIN t : k \in Nat /\ g[k] = k + 1 /\ g[k] \in DOMAIN s /\ t[k] = s[g[k]]
  BY <1>2, <1>3, <1>4, <1>5
<1> HIDE DEF g
<1>7. \A j, k \in DOMAIN t : j < k => g[j] < g[k]
  BY <1>6
<1>8. Picks(s, t)
  BY <1>6, <1>7 DEF Picks
<1>9. \A r \in Members(t) : \E k \in DOMAIN s : 1 < k /\ r = s[k]
  BY <1>2, <1>3, <1>4, <1>5, <1>6
<1>10. 1 \in DOMAIN s
  BY <1>2, <1>3
<1>11. Rises(s) => \A r \in Members(t) : Internal(s[1]) /\ Internal(r) => s[1].id < r.id
  BY <1>9, <1>10 DEF Rises
<1>12. Leads(s) => \A r \in Members(t) : Internal(r) => Internal(s[1])
  BY <1>9, <1>10 DEF Leads
<1> QED  BY <1>3, <1>8, <1>11, <1>12, TailFacts DEF t

LEMMA AppendKeepsOrder ==
    ASSUME NEW s, IsSeq(s), NEW r
    PROVE  /\ /\ Rises(s)
              /\ \A t \in Members(s) : Internal(t) /\ Internal(r) => t.id < r.id
              => Rises(Append(s, r))
           /\ Leads(s) /\ ~Internal(r) => Leads(Append(s, r))
<1> DEFINE S == Members(s) \cup {r}
           t == Append(s, r)
<1>1. s \in Seq(S) /\ r \in S
  <2>1. s \in Seq(Members(s)) /\ Members(s) \subseteq S
    BY DEF IsSeq
  <2> HIDE DEF S
  <2>2. s \in Seq(S)
    BY <2>1, SeqMonotonic
  <2> QED  BY <2>2 DEF S
<1>2. Len(s) \in Nat /\ DOMAIN s = 1 .. Len(s) /\ Members(s) = {s[i] : i \in 1 .. Len(s)}
  BY <1>1, IsSeqOf
<1> HIDE DEF S
<1>3. /\ t \in Seq(S) /\ Len(t) = Len(s) + 1 /\ t[Len(s) + 1] = r
      /\ \A i \in 1 .. Len(s) : t[i] = s[i]
  BY <1>1, AppendProperties
<1>4. DOMAIN t = 1 .. Len(t)
  BY <1>3, IsSeqOf
<1> HIDE DEF t
<1>5. \A i : i \in DOMAIN t <=> i \in DOMAIN s \/ i = Len(s) + 1
  BY <1>2, <1>3, <1>4
<1>6. \A i \in DOMAIN s : i \in Nat /\ i < Len(s) + 1 /\ t[i] = s[i] /\ s[i] \in Members(s)
  BY <1>2, <1>3
<1>7. ASSUME Rises(s), \A q \in Members(s) : Internal(q) /\ Internal(r) => q.id < r.id
      PROVE  Rises(t)
  <2> SUFFICES ASSUME NEW i \in DOMAIN t, NEW j \in DOMAIN t, i < j,
                      Internal(t[i]), Internal(t[j])
               PROVE  t[i].id < t[j].id
    BY DEF Rises
  <2>1. i \in DOMAIN s
    BY <1>2, <1>5, <1>6
  <2>2. CASE j \in DOMAIN s
    BY <1>6, <1>7, <2>1, <2>2 DEF Rises
  <2>3. CASE j = Len(s) + 1
    BY <1>3, <1>6, <1>7, <2>1, <2>3
  <2> QED  BY <1>5, <2>2, <2>3
<1>8. ASSUME Leads(s), ~Internal(r) PROVE Leads(t)
  <2> SUFFICES ASSUME NEW i \in DOMAIN t, NEW j \in DOMAIN t, i < j, Internal(t[j])
               PROVE  Internal(t[i])
    BY DEF Leads
  <2>1. j \in DOMAIN s
    BY <1>3, <1>5, <1>8
  <2>2. i \in DOMAIN s
    BY <1>2, <1>5, <1>6, <2>1
  <2> QED  BY <1>6, <1>8, <2>1, <2>2 DEF Leads
<1> QED  BY <1>7, <1>8 DEF t

\* A set of numbers without a gap.
LEMMA NoGap ==
    ASSUME NEW n \in Nat, NEW B \in SUBSET (1 .. n), \A i \in B : 1 .. i \subseteq B
    PROVE  Cardinality(B) \in 0 .. n /\ B = 1 .. Cardinality(B)
<1> DEFINE C == (1 .. n + 1) \ B
<1>1. C \in SUBSET (Nat \ {0}) /\ n + 1 \in C
  OBVIOUS
<1>2. PICK k \in C : \A j \in 1 .. k - 1 : j \notin C
  <2> HIDE DEF C
  <2> QED  BY <1>1, FirstOf
<1>3. B = 1 .. k - 1 /\ k - 1 \in 0 .. n
  <2>1. \A j \in 1 .. k - 1 : j \in B
    BY <1>2
  <2>2. ASSUME NEW j \in B PROVE j \in 1 .. k - 1
    <3>1. j \in 1 .. n /\ 1 .. j \subseteq B
      OBVIOUS
    <3>2. k \notin 1 .. j
      BY <1>2, <3>1
    <3> QED  BY <1>2, <3>1, <3>2
  <2>3. k - 1 \in 0 .. n
    BY <1>2
  <2>4. \A j : j \in B <=> j \in 1 .. k - 1
    BY <2>1, <2>2
  <2> HIDE DEF C
  <2> QED  BY <2>3, <2>4
<1> DEFINE m == k - 1
<1>4. m \in Nat /\ 1 \in Int
  BY <1>2
<1> HIDE DEF m
<1>5. Cardinality(1 .. m) = IF 1 > m THEN 0 ELSE m - 1 + 1
  BY <1>4, FS_Interval
<1>6. Cardinality(1 .. m) = m
  BY <1>4, <1>5
<1> QED  BY <1>3, <1>6 DEF m

LEMMA InsertedKeepsOrder ==
    ASSUME NEW s, IsSeq(s), Rises(s), Leads(s), NEW r,
           \A t \in Members(s) : Internal(t) /\ Internal(r) => t.id < r.id
    PROVE  Rises(Inserted(s, r)) /\ Leads(Inserted(s, r))
<1>1. CASE ~Internal(r)
  BY <1>1, AppendKeepsOrder DEF Inserted
<1>2. CASE Internal(r)
  <2> DEFINE S == Members(s) \cup {r}
             before == {i \in DOMAIN s : \A j \in 1 .. i : Internal(s[j])}
             m == Cardinality(before)
             at == m + 1
             t == InsertAt(s, at, r)
  <2>1. s \in Seq(S) /\ r \in S
    <3>1. s \in Seq(Members(s)) /\ Members(s) \subseteq S
      BY DEF IsSeq
    <3> HIDE DEF S
    <3>2. s \in Seq(S)
      BY <3>1, SeqMonotonic
    <3> QED  BY <3>2 DEF S
  <2>2. Len(s) \in Nat /\ DOMAIN s = 1 .. Len(s) /\ Members(s) = {s[i] : i \in 1 .. Len(s)}
    BY <2>1, IsSeqOf
  <2>3. m \in 0 .. Len(s) /\ before = 1 .. m
    <3> DEFINE n == Len(s)
    <3>1. n \in Nat /\ before \in SUBSET (1 .. n)
      BY <2>2
    <3>2. \A i \in before : 1 .. i \subseteq before
      <4> SUFFICES ASSUME NEW i \in before, NEW j \in 1 .. i PROVE j \in before
        OBVIOUS
      <4>1. i \in 1 .. Len(s) /\ j \in 1 .. Len(s) /\ 1 .. j \subseteq 1 .. i
        BY <2>2
      <4> QED  BY <2>2, <4>1
    <3> HIDE DEF n, before
    <3>3. m \in 0 .. n /\ before = 1 .. m
      BY <3>1, <3>2, NoGap
    <3> QED  BY <3>3 DEF n
  <2>4. \A i \in 1 .. Len(s) : Internal(s[i]) <=> i <= m
    <3> SUFFICES ASSUME NEW i \in 1 .. Len(s) PROVE Internal(s[i]) <=> i \in before
      BY <2>3
    <3>1. ASSUME Internal(s[i]), NEW j \in 1 .. i PROVE Internal(s[j])
      <4>1. j = i \/ j < i
        OBVIOUS
      <4>2. j \in 1 .. Len(s)
        BY <2>2
      <4> QED  BY <2>2, <3>1, <4>1, <4>2 DEF Leads
    <3>2. i \in 1 .. i
      OBVIOUS
    <3> QED  BY <2>2, <3>1, <3>2
  <2> HIDE DEF before, S, m
  <2>5. at \in 1 .. Len(s) + 1
    BY <2>2, <2>3
  <2>6. /\ t \in Seq(S) /\ Len(t) = Len(s) + 1
        /\ \A j \in 1 .. Len(s) + 1 :
              t[j] = IF j < at THEN s[j] ELSE IF j = at THEN r ELSE s[j - 1]
    <3> HIDE DEF at
    <3> QED  BY <2>1, <2>5, InsertAtFacts
  <2>7. DOMAIN t = 1 .. Len(s) + 1
    BY <2>6, IsSeqOf
  <2>8. Inserted(s, r) = t
    BY <1>2 DEF Inserted, m, before
  <2> HIDE DEF t
  <2>9. \A k \in 1 .. m : k \in 1 .. Len(s) /\ t[k] = s[k]
    BY <2>2, <2>3, <2>6
  <2>10. t[m + 1] = r
    BY <2>2, <2>3, <2>6
  <2>11. \A k \in 1 .. Len(s) + 1 : Internal(t[k]) => k \in 1 .. m \/ k = m + 1
    <3> SUFFICES ASSUME NEW k \in 1 .. Len(s) + 1, Internal(t[k]), k > m + 1 PROVE FALSE
      BY <2>2, <2>3
    <3>1. t[k] = s[k - 1] /\ k - 1 \in 1 .. Len(s) /\ ~(k - 1 <= m)
      BY <2>2, <2>3, <2>6
    <3> QED  BY <2>4, <3>1
  <2>12. Rises(t)
    <3> SUFFICES ASSUME NEW i \in 1 .. Len(s) + 1, NEW j \in 1 .. Len(s) + 1, i < j,
                        Internal(t[i]), Internal(t[j])
                 PROVE  t[i].id < t[j].id
      BY <2>7 DEF Rises
    <3>1. i \in 1 .. m
      BY <2>3, <2>11
    <3>2. CASE j \in 1 .. m
      BY <2>2, <2>9, <3>1, <3>2 DEF Rises
    <3>3. CASE j = m + 1
      <4>1. t[i] \in Members(s) /\ t[j] = r
        BY <2>2, <2>9, <2>10, <3>1, <3>3
      <4> QED  BY <4>1
    <3> QED  BY <2>11, <3>2, <3>3
  <2>13. Leads(t)
    <3> SUFFICES ASSUME NEW i \in 1 .. Len(s) + 1, NEW j \in 1 .. Len(s) + 1, i < j, Internal(t[j])
                 PROVE  Internal(t[i])
      BY <2>7 DEF Leads
    <3>1. i \in 1 .. m
      BY <2>3, <2>11
    <3> QED  BY <2>3, <2>4, <2>9, <3>1
  <2> QED  BY <2>8, <2>12, <2>13
<1> QED  BY <1>1, <1>2

LEMMA WithoutPicks ==
    ASSUME NEW s, IsSeq(s), NEW gone
    PROVE  Picks(s, Without(s, gone))
<1> DEFINE n == Len(s)
<1>1. n \in Nat /\ DOMAIN s = 1 .. n
  BY IsSeqOf DEF IsSeq
<1>2. PICK kept : Keeping(s, gone, kept) /\ Without(s, gone) = kept[n]
  BY WithoutIs
<1> DEFINE Good(i) ==
              /\ kept[i] \in Seq(Members(s))
              /\ \E g : /\ \A k \in DOMAIN kept[i] : g[k] \in 1 .. i /\ kept[i][k] = s[g[k]]
                        /\ \A j, k \in DOMAIN kept[i] : j < k => g[j] < g[k]
           T == {i \in Nat : i <= n => Good(i)}
<1>3. 0 \in T
  <2>1. kept[0] = <<>>
    BY <1>2 DEF Keeping
  <2>2. kept[0] \in Seq(Members(s)) /\ DOMAIN kept[0] = {}
    <3> DEFINE e == kept[0]
               S == Members(s)
    <3>1. e = <<>>
      BY <2>1
    <3> HIDE DEF e, S
    <3>2. e \in Seq(S) /\ Len(e) = 0
      BY <3>1, EmptySeq
    <3>3. DOMAIN e = 1 .. 0
      BY <3>2, IsSeqOf
    <3> QED  BY <3>2, <3>3 DEF e, S
  <2> QED  BY <2>2
<1>4. ASSUME NEW i \in Nat, i \in T PROVE i + 1 \in T
  <2> SUFFICES ASSUME i + 1 <= n PROVE Good(i + 1)
    OBVIOUS
  <2>1. Good(i) /\ i + 1 \in 1 .. n /\ (i + 1) - 1 = i
    BY <1>1, <1>4
  <2>2. kept[i + 1] = IF s[i + 1] \in gone THEN kept[i] ELSE Append(kept[i], s[i + 1])
    BY <1>2, <2>1 DEF Keeping
  <2>3. PICK g : /\ \A k \in DOMAIN kept[i] : g[k] \in 1 .. i /\ kept[i][k] = s[g[k]]
                 /\ \A j, k \in DOMAIN kept[i] : j < k => g[j] < g[k]
    BY <2>1
  <2>4. CASE s[i + 1] \in gone
    <3>1. kept[i + 1] = kept[i] /\ \A m : m \in 1 .. i => m \in 1 .. i + 1
      BY <2>2, <2>4
    <3> QED  BY <2>1, <2>3, <3>1
  <2>5. CASE s[i + 1] \notin gone
    <3> DEFINE t == kept[i]
               u == kept[i + 1]
               e == s[i + 1]
               S == Members(s)
               h == [k \in DOMAIN u |-> IF k = Len(t) + 1 THEN i + 1 ELSE g[k]]
    <3>1. t \in Seq(S) /\ e \in S /\ u = Append(t, e)
      BY <1>1, <2>1, <2>2, <2>5 DEF Members
    <3>2. \A k \in DOMAIN t : g[k] \in 1 .. i /\ t[k] = s[g[k]]
      BY <2>3
    <3>3. \A j, k \in DOMAIN t : j < k => g[j] < g[k]
      BY <2>3
    <3> HIDE DEF t, u, S
    <3>4. Len(t) \in Nat /\ DOMAIN t = 1 .. Len(t)
      BY <3>1, IsSeqOf
    <3>5. /\ u \in Seq(S) /\ Len(u) = Len(t) + 1 /\ u[Len(t) + 1] = e
          /\ \A k \in 1 .. Len(t) : u[k] = t[k]
      BY <3>1, AppendProperties
    <3>6. DOMAIN u = 1 .. Len(u)
      BY <3>5, IsSeqOf
    <3>7. \A k \in DOMAIN u : k \in DOMAIN t \/ k = Len(t) + 1
      BY <3>4, <3>5, <3>6
    <3>8. \A k \in DOMAIN t : k \in DOMAIN u /\ h[k] = g[k] /\ k < Len(t) + 1
      BY <3>4, <3>5, <3>6
    <3>9. Len(t) + 1 \in DOMAIN u /\ h[Len(t) + 1] = i + 1
      BY <3>4, <3>5, <3>6
    <3> HIDE DEF h
    <3>10. \A k \in DOMAIN u : h[k] \in 1 .. i + 1 /\ u[k] = s[h[k]]
      <4> SUFFICES ASSUME NEW k \in DOMAIN u PROVE h[k] \in 1 .. i + 1 /\ u[k] = s[h[k]]
        OBVIOUS
      <4>1. CASE k \in DOMAIN t
        BY <3>2, <3>4, <3>5, <3>8, <4>1
      <4>2. CASE k = Len(t) + 1
        BY <3>5, <3>9, <4>2
      <4> QED  BY <3>7, <4>1, <4>2
    <3>11. ASSUME NEW j \in DOMAIN u, NEW k \in DOMAIN u, j < k PROVE h[j] < h[k]
      <4>1. j \in DOMAIN t
        BY <3>4, <3>7, <3>8, <3>11
      <4>2. CASE k \in DOMAIN t
        BY <3>3, <3>8, <3>11, <4>1, <4>2
      <4>3. CASE k = Len(t) + 1
        BY <3>2, <3>8, <3>9, <4>1, <4>3
      <4> QED  BY <3>7, <4>2, <4>3
    <3> QED  BY <3>5, <3>10, <3>11 DEF u, S
  <2> QED  BY <2>4, <2>5
<1> HIDE DEF T
<1>5. Nat \subseteq T
  BY <1>3, <1>4, SetInduction
<1>6. Good(n)
  BY <1>1, <1>5 DEF T
<1>7. PICK g : /\ \A k \in DOMAIN kept[n] : g[k] \in 1 .. n /\ kept[n][k] = s[g[k]]
               /\ \A j, k \in DOMAIN kept[n] : j < k => g[j] < g[k]
  BY <1>6
<1> QED  BY <1>1, <1>2, <1>7 DEF Picks
-----------------------------------------------------------------------------
(***************************************************************************)
(* Requests of watchers.                                                   *)
(***************************************************************************)
LEMMA SentOnce ==
    ASSUME NEW c, Line(c), InOrder(c), NEW r \in Sent(c), NEW t \in Sent(c), r.id = t.id
    PROVE  r = t
<1>1. \A a \in Members(c.wire), b \in Members(c.queue) : a.id # b.id
  BY DEF InOrder
<1>2. CASE r \in Members(c.wire) /\ t \in Members(c.wire)
  BY <1>2 DEF InOrder, Distinct, Members
<1>3. CASE r \in Members(c.queue) /\ t \in Members(c.queue)
  BY <1>3 DEF Line, Distinct, Members
<1> QED  BY <1>1, <1>2, <1>3 DEF Sent

\* The next request goes on the wire.
LEMMA QueueInOrder ==
    ASSUME NEW c, Formed(c), Line(c), InOrder(c)
    PROVE  LET d == handleRequestQueue(c)
           IN /\ Formed(d) /\ Line(d) /\ InOrder(d) /\ Sent(d) = Sent(c) /\ SameObjects(c, d)
              /\ d.watchers = c.watchers /\ d.lastId = c.lastId /\ d.exposed = c.exposed
              /\ \/ d.wire = c.wire /\ d.current = c.current
                 \/ /\ c.current = None
                    /\ \E r : d.current = r.id /\ Members(d.wire) = Members(c.wire) \cup {r}
<1> DEFINE d == handleRequestQueue(c)
<1>1. CASE c.current # None \/ c.queue = <<>>
  <2>1. d = c
    BY <1>1 DEF handleRequestQueue
  <2> QED  BY <2>1 DEF SameObjects
<1>2. CASE c.current = None /\ c.queue # <<>>
  <2> DEFINE r == Head(c.queue)
  <2>1. d = [c EXCEPT !.current = r.id, !.wire = Append(@, r), !.queue = Tail(@)]
    BY <1>2 DEF handleRequestQueue
  <2>2. /\ d.current = r.id /\ d.wire = Append(c.wire, r)
        /\ d.queue = Tail(c.queue) /\ d.lastId = c.lastId /\ Formed(d) /\ SameObjects(c, d)
        /\ d.watchers = c.watchers /\ d.exposed = c.exposed
    BY <2>1 DEF Formed, Shaped, Fields, SameObjects
  <2> HIDE DEF d, r
  <2>3. /\ IsSeq(d.queue) /\ Members(c.queue) = {r} \cup Members(d.queue)
        /\ Distinct(d.queue) /\ r.id \notin Ids(Members(d.queue))
    BY <1>2, <2>2, TailFacts DEF Line, r
  <2>4. IsSeq(d.wire) /\ Members(d.wire) = Members(c.wire) \cup {r}
    BY <2>2, AppendFacts DEF Line
  <2>5. Sent(d) = Sent(c)
    BY <2>3, <2>4 DEF Sent
  <2>6. r \in Members(c.queue) /\ r.id \in 1 .. c.lastId
    BY <2>3 DEF Line, Sent, Ids
  <2>7. Line(d)
    BY <2>2, <2>3, <2>4, <2>5, <2>6 DEF Line
  <2>8. /\ Picks(c.queue, d.queue)
        /\ \A t \in Members(d.queue) : Internal(t) => r.id < t.id
    BY <1>2, <2>2, TailPicks DEF Line, InOrder, r
  <2>9. Rises(d.queue) /\ Leads(d.queue)
    BY <2>8, PicksKeepOrder DEF InOrder
  <2>10. Rises(d.wire)
    BY <2>2, <2>6, AppendKeepsOrder DEF Line, InOrder
  <2>11. Distinct(d.wire)
    <3>1. IsSeq(c.wire) /\ Distinct(c.wire) /\ r.id \notin Ids(Members(c.wire))
      BY <2>6 DEF Line, InOrder, Ids
    <3> QED  BY <2>2, <3>1, AppendFacts
  <2>12. \A a \in Members(d.wire), t \in Members(d.queue) :
             a.id # t.id /\ (Internal(t) => a.id < t.id)
    <3>1. \A t \in Members(d.queue) : t \in Members(c.queue) /\ r.id # t.id
      BY <2>3 DEF Ids
    <3> QED  BY <2>4, <2>8, <3>1 DEF InOrder
  <2>13. InOrder(d)
    BY <2>9, <2>10, <2>11, <2>12 DEF InOrder
  <2> QED  BY <1>2, <2>2, <2>4, <2>5, <2>7, <2>13 DEF d
<1> QED  BY <1>1, <1>2

LEMMA TidyQueue ==
    ASSUME NEW R, NEW V, NEW c, Tidy(c, R, V)
    PROVE  LET d == handleRequestQueue(c)
           IN Tidy(d, R, V) /\ SameObjects(c, d) /\ d.watchers = c.watchers /\ d.lastId = c.lastId
<1> DEFINE d == handleRequestQueue(c)
<1>1. /\ Formed(c) /\ Line(c) /\ InOrder(c) /\ Tagged(c) /\ Known(c, R, V) /\ Followed(c, R)
      /\ OneOfMine(c) /\ Heard(c, R, V)
  BY DEF Tidy, Loose
<1>2. /\ Formed(d) /\ Line(d) /\ InOrder(d) /\ Sent(d) = Sent(c) /\ SameObjects(c, d)
      /\ d.watchers = c.watchers /\ d.lastId = c.lastId /\ d.exposed = c.exposed
      /\ \/ d.wire = c.wire /\ d.current = c.current
         \/ /\ c.current = None
            /\ \E r : d.current = r.id /\ Members(d.wire) = Members(c.wire) \cup {r}
  BY <1>1, QueueInOrder
<1> HIDE DEF d
<1>3. Tagged(d) /\ Known(d, R, V)
  BY <1>1, <1>2 DEF Tagged, Known, SameObjects
<1>4. Followed(d, R) /\ OneOfMine(d)
  BY <1>1, <1>2 DEF Followed, Added, Removed, OneOfMine, SameObjects
<1>5. Heard(d, R, V)
  <2>1. CASE d.wire = c.wire /\ d.current = c.current
    BY <1>1, <1>2, <2>1 DEF Heard, SameObjects
  <2>2. CASE /\ c.current = None
             /\ \E r : d.current = r.id /\ Members(d.wire) = Members(c.wire) \cup {r}
    <3>1. \A r \in Members(c.wire) : r.id # None
      <4>1. c.lastId \in Nat /\ \A r \in Sent(c) : r.id \in 1 .. c.lastId
        BY <1>1, WaitingIsSent DEF Line
      <4>2. 0 \notin 1 .. c.lastId
        BY <4>1
      <4> QED  BY <4>1, <4>2 DEF Sent, None
    <3>2. \A r \in Members(c.wire) : ~(Internal(r) /\ r.watcher = c.notify.watcher)
      BY <1>1, <2>2, <3>1 DEF Heard
    <3> QED  BY <1>1, <1>2, <2>2, <3>2 DEF Heard, SameObjects
  <2> QED  BY <1>2, <2>1, <2>2
<1> QED  BY <1>2, <1>3, <1>4, <1>5 DEF Tidy, Loose, d

\* A request with the next number comes to the queue.
Queued(c, e, q) ==
    /\ q.id = c.lastId + 1 /\ e.lastId = c.lastId + 1
    /\ e.queue = Inserted(c.queue, q) /\ e.wire = c.wire /\ e.current = c.current

LEMMA QueuedInOrder ==
    ASSUME NEW c, Line(c), InOrder(c), NEW e, NEW q, Queued(c, e, q)
    PROVE  Line(e) /\ InOrder(e) /\ Sent(e) = Sent(c) \cup {q}
<1>1. c.lastId \in Nat /\ \A r \in Sent(c) : r.id \in 1 .. c.lastId
  BY WaitingIsSent DEF Line
<1>2. \A r \in Sent(c) : r.id < q.id
  BY <1>1 DEF Queued
<1>3. Members(c.queue) \subseteq Sent(c) /\ Members(c.wire) \subseteq Sent(c)
  BY DEF Sent
<1>4. q.id \notin Ids(Members(c.queue))
  BY <1>1, <1>3 DEF Ids, Queued
<1>5. IsSeq(e.queue) /\ Members(e.queue) = Members(c.queue) \cup {q} /\ Distinct(e.queue)
  BY <1>4, InsertedFacts DEF Line, Queued
<1>6. Sent(e) = Sent(c) \cup {q}
  BY <1>5 DEF Sent, Queued
<1>7. Line(e)
  <2>1. Ids(Sent(e)) \subseteq 1 .. e.lastId
    BY <1>1, <1>6 DEF Ids, Queued
  <2>2. e.current \in 0 .. e.lastId /\ e.current # q.id
    BY <1>1 DEF Line, Queued
  <2>3. e.current \notin Ids(Members(e.queue))
    BY <1>5, <2>2 DEF Line, Ids, Queued
  <2> QED  BY <1>1, <1>5, <2>1, <2>2, <2>3 DEF Line, Queued
<1>8. Rises(e.queue) /\ Leads(e.queue)
  BY <1>2, <1>3, InsertedKeepsOrder DEF Line, InOrder, Queued
<1>9. \A r \in Members(e.wire), t \in Members(e.queue) :
          r.id # t.id /\ (Internal(t) => r.id < t.id)
  <2>1. \A r \in Members(c.wire) : r.id < q.id /\ r.id # q.id
    BY <1>1, <1>3 DEF Queued
  <2> QED  BY <1>5, <2>1 DEF InOrder, Queued
<1> QED  BY <1>6, <1>7, <1>8, <1>9 DEF InOrder, Queued

LEMMA TidySend ==
    ASSUME NEW R, NEW V, NEW c, Tidy(c, R, V),
           NEW kind, NEW of, NEW name, kind \notin {"add", "remove"}
    PROVE  LET d == send(c, Request(kind, of, name, NoWatcher))
           IN Tidy(d, R, V) /\ SameObjects(c, d) /\ d.watchers = c.watchers
             /\ d.lastId = c.lastId + 1
<1> DEFINE q == [Request(kind, of, name, NoWatcher) EXCEPT !.id = c.lastId + 1]
           e == [c EXCEPT !.lastId = c.lastId + 1, !.queue = Inserted(@, q)]
           d == send(c, Request(kind, of, name, NoWatcher))
<1>1. /\ Formed(c) /\ Line(c) /\ InOrder(c) /\ Tagged(c) /\ Known(c, R, V) /\ Followed(c, R)
      /\ OneOfMine(c) /\ Heard(c, R, V) /\ c.lastId \in Nat
  BY DEF Tidy, Loose, Line
<1>2. d = handleRequestQueue(e)
  BY DEF send
<1>3. q.id = c.lastId + 1 /\ q.kind = kind /\ q.watcher = NoWatcher
  BY DEF Request
<1> HIDE DEF q
<1>4. /\ Formed(e) /\ Queued(c, e, q) /\ SameObjects(c, e)
      /\ e.watchers = c.watchers /\ e.exposed = c.exposed
  BY <1>1, <1>3 DEF Formed, Shaped, Fields, Queued, SameObjects
<1> HIDE DEF d, e
<1>5. Line(e) /\ InOrder(e) /\ Sent(e) = Sent(c) \cup {q}
  BY <1>1, <1>4, QueuedInOrder
<1>6. e.lastId = c.lastId + 1 /\ e.wire = c.wire /\ e.current = c.current /\ ~Internal(q)
  BY <1>3, <1>4 DEF Queued, Internal
<1>7. Tagged(e)
  <2>1. \A n : n \in 1 .. c.lastId => n \in 1 .. e.lastId
    BY <1>1, <1>6
  <2>2. c.query.request # q.id
    BY <1>1, <1>3 DEF Known
  <2> QED  BY <1>1, <1>3, <1>4, <1>5, <1>6, <2>1, <2>2 DEF Tagged, SameObjects
<1>8. Known(e, R, V)
  <2>1. \A n : n \in 0 .. c.lastId => n \in 0 .. e.lastId
    BY <1>1, <1>6
  <2>2. \A n : n \in 1 .. c.lastId => n \in 1 .. e.lastId
    BY <1>1, <1>6
  <2> QED  BY <1>1, <1>3, <1>4, <1>5, <2>1, <2>2 DEF Known, SameObjects
<1>9. Added(e) = Added(c) /\ Removed(e) = Removed(c)
  <2>1. {t \in Sent(e) : t.kind = "add"} = {t \in Sent(c) : t.kind = "add"}
    BY <1>3, <1>5
  <2>2. {t \in Sent(e) : t.kind = "remove"} = {t \in Sent(c) : t.kind = "remove"}
    BY <1>3, <1>5
  <2> QED  BY <2>1, <2>2 DEF Added, Removed
<1>10. Followed(e, R) /\ OneOfMine(e) /\ Heard(e, R, V)
  BY <1>1, <1>4, <1>6, <1>9 DEF Followed, OneOfMine, Heard, SameObjects
<1>11. Tidy(e, R, V)
  BY <1>4, <1>5, <1>7, <1>8, <1>10 DEF Tidy, Loose
<1> QED  BY <1>2, <1>4, <1>6, <1>11, TidyQueue DEF SameObjects, d

\* A new watcher.
LEMMA TidyAdd ==
    ASSUME NEW R, NEW V, NEW c, Tidy(c, R, V), NEW w, w.id = c.lastId + 1,
           w.of = Notifier => w = c.notify.watcher
    PROVE  LET d == addWatcher(c, w)
           IN /\ Tidy(d, R, V) /\ SameObjects(c, d)
              /\ d.watchers = c.watchers \cup {w} /\ d.lastId = c.lastId + 1
<1> DEFINE W == c.watchers \cup {w}
           q == [Request("add", w.of, w.name, w) EXCEPT !.id = c.lastId + 1]
           b == [c EXCEPT !.watchers = W]
           e == [b EXCEPT !.lastId = b.lastId + 1, !.queue = Inserted(@, [Request("add", w.of,
             w.name, w)
                                                                  EXCEPT !.id = b.lastId + 1])]
           d == addWatcher(c, w)
<1>1. /\ Formed(c) /\ Line(c) /\ InOrder(c) /\ Tagged(c) /\ Known(c, R, V) /\ Followed(c, R)
      /\ OneOfMine(c) /\ Heard(c, R, V) /\ c.lastId \in Nat
  BY DEF Tidy, Loose, Line
<1>2. d = handleRequestQueue(e)
  BY DEF send, addWatcher
<1>3. q.id = c.lastId + 1 /\ q.kind = "add" /\ q.watcher = w
  BY DEF Request
<1>4. b.lastId = c.lastId
  BY <1>1 DEF Formed, Shaped, Fields
<1>5. e = [b EXCEPT !.lastId = c.lastId + 1, !.queue = Inserted(@, q)]
  BY <1>4
<1> HIDE DEF q, e
<1>6. /\ Formed(e) /\ Queued(c, e, q) /\ SameObjects(c, e)
      /\ e.watchers = W /\ e.exposed = c.exposed
  BY <1>1, <1>3, <1>5 DEF Formed, Shaped, Fields, Queued, SameObjects
<1> HIDE DEF b, d
<1>7. Line(e) /\ InOrder(e) /\ Sent(e) = Sent(c) \cup {q}
  BY <1>1, <1>6, QueuedInOrder
<1>8. /\ e.lastId = c.lastId + 1 /\ e.wire = c.wire /\ e.current = c.current
      /\ w # NoWatcher /\ Internal(q)
  <2>1. w.id # 0
    BY <1>1
  <2>2. w # NoWatcher
    <3>1. NoWatcher.id = 0
      BY DEF NoWatcher
    <3> QED  BY <2>1, <3>1
  <2> QED  BY <1>3, <1>6, <2>2 DEF Queued, Internal
<1>9. /\ \A n : n \in 1 .. c.lastId => n \in 1 .. e.lastId /\ n # w.id
      /\ \A n : n \in 0 .. c.lastId => n \in 0 .. e.lastId /\ n # w.id
      /\ w.id \in 1 .. e.lastId
  BY <1>1, <1>8
<1>10. Tagged(e)
  <2> SUFFICES ASSUME NEW r \in Sent(e)
               PROVE  /\ Internal(r) <=> r.kind \in {"add", "remove"}
                      /\ Internal(r) => r.watcher.id \in 1 .. e.lastId
                      /\ r.kind = "add" => r.watcher.id = r.id
                      /\ r.kind = "remove" => r.watcher.id < r.id /\ r.watcher \notin e.watchers
                      /\ r.id = e.query.request => r.kind = "query"
    BY DEF Tagged
  <2>1. CASE r = q
    <3>1. e.query.request # q.id
      BY <1>1, <1>3, <1>6, <1>9 DEF Known, SameObjects
    <3> QED  BY <1>3, <1>8, <1>9, <2>1, <3>1
  <2>2. CASE r \in Sent(c)
    <3>1. r.kind = "remove" => r.watcher # w
      BY <1>1, <1>9, <2>2 DEF Tagged
    <3> QED  BY <1>1, <1>6, <1>9, <2>2, <3>1 DEF Tagged, SameObjects
  <2> QED  BY <1>7, <2>1, <2>2
<1>11. Known(e, R, V)
  <2>1. e.query.request \in 0 .. e.lastId
    BY <1>1, <1>6, <1>9 DEF Known, SameObjects
  <2>2. \A u \in e.watchers \cup R : u # NoWatcher /\ u.id \in 1 .. e.lastId
    BY <1>1, <1>6, <1>8, <1>9 DEF Known
  <2>3. \A u \in V.noticed : u.id \in 1 .. e.lastId /\ (u \in e.watchers => u \in R)
    BY <1>1, <1>6, <1>9 DEF Known
  <2>4. w \notin R
    BY <1>1, <1>9 DEF Known
  <2> QED  BY <1>1, <1>3, <1>7, <2>1, <2>2, <2>3, <2>4 DEF Known
<1>12. Added(e) = Added(c) \cup {w} /\ Removed(e) = Removed(c)
  <2>1. {t \in Sent(e) : t.kind = "add"} = {t \in Sent(c) : t.kind = "add"} \cup {q}
    BY <1>3, <1>7
  <2>2. {t \in Sent(e) : t.kind = "remove"} = {t \in Sent(c) : t.kind = "remove"}
    BY <1>3, <1>7
  <2> QED  BY <1>3, <2>1, <2>2 DEF Added, Removed
<1>13. Followed(e, R)
  BY <1>1, <1>6, <1>12 DEF Followed
<1>14. OneOfMine(e) /\ Heard(e, R, V)
  BY <1>1, <1>6, <1>8 DEF OneOfMine, Heard, SameObjects
<1>15. Tidy(e, R, V)
  BY <1>6, <1>7, <1>10, <1>11, <1>13, <1>14 DEF Tidy, Loose
<1> HIDE DEF W
<1>16. /\ Tidy(d, R, V) /\ SameObjects(e, d) /\ d.watchers = e.watchers /\ d.lastId = e.lastId
  BY <1>2, <1>15, TidyQueue
<1> QED  BY <1>6, <1>8, <1>16 DEF SameObjects, d, W

LEMMA TidyRemove ==
    ASSUME NEW R, NEW V, NEW c, Tidy(c, R, V), NEW w
    PROVE  LET d == removeWatcher(c, w)
           IN Tidy(d, R, V) /\ SameObjects(c, d) /\ d.watchers = c.watchers \ {w}
             /\ d.lastId >= c.lastId
<1> DEFINE W == c.watchers \ {w}
           q == [Request("remove", w.of, w.name, w) EXCEPT !.id = c.lastId + 1]
           b == [c EXCEPT !.watchers = W]
           e == [b EXCEPT !.lastId = b.lastId + 1,
                          !.queue = Inserted(@, [Request("remove", w.of, w.name, w)
                                                 EXCEPT !.id = b.lastId + 1])]
           d == removeWatcher(c, w)
<1>1. /\ Formed(c) /\ Line(c) /\ InOrder(c) /\ Tagged(c) /\ Known(c, R, V) /\ Followed(c, R)
      /\ OneOfMine(c) /\ Heard(c, R, V) /\ c.lastId \in Nat
  BY DEF Tidy, Loose, Line
<1>2. CASE w \notin c.watchers
  <2>1. d = c
    BY <1>2 DEF removeWatcher
  <2>2. c.watchers \ {w} = c.watchers
    BY <1>2
  <2> QED  BY <1>1, <2>1, <2>2 DEF SameObjects
<1>3. CASE w \in c.watchers
  <2>2. d = handleRequestQueue(e)
    BY <1>3 DEF send, removeWatcher
  <2>3. q.id = c.lastId + 1 /\ q.kind = "remove" /\ q.watcher = w
    BY DEF Request
  <2>4. b.lastId = c.lastId
    BY <1>1 DEF Formed, Shaped, Fields
  <2>5. e = [b EXCEPT !.lastId = c.lastId + 1, !.queue = Inserted(@, q)]
    BY <2>4
  <2> HIDE DEF q, e
  <2>6. /\ Formed(e) /\ Queued(c, e, q) /\ SameObjects(c, e)
        /\ e.watchers = W /\ e.exposed = c.exposed
    BY <1>1, <2>3, <2>5 DEF Formed, Shaped, Fields, Queued, SameObjects
  <2> HIDE DEF b, d
  <2>7. Line(e) /\ InOrder(e) /\ Sent(e) = Sent(c) \cup {q}
    BY <1>1, <2>6, QueuedInOrder
  <2>8. /\ e.lastId = c.lastId + 1 /\ e.wire = c.wire /\ e.current = c.current
        /\ w # NoWatcher /\ Internal(q) /\ w.id \in 1 .. c.lastId
    BY <1>1, <1>3, <2>3, <2>6 DEF Queued, Internal, Known
  <2>9. /\ \A n : n \in 1 .. c.lastId => n \in 1 .. e.lastId
        /\ \A n : n \in 0 .. c.lastId => n \in 0 .. e.lastId /\ n # q.id
        /\ w.id < q.id /\ e.lastId >= c.lastId
    BY <1>1, <2>3, <2>8
  <2>10. Tagged(e)
    <3> SUFFICES ASSUME NEW r \in Sent(e)
                 PROVE  /\ Internal(r) <=> r.kind \in {"add", "remove"}
                        /\ Internal(r) => r.watcher.id \in 1 .. e.lastId
                        /\ r.kind = "add" => r.watcher.id = r.id
                        /\ r.kind = "remove" => r.watcher.id < r.id /\ r.watcher \notin e.watchers
                        /\ r.id = e.query.request => r.kind = "query"
      BY DEF Tagged
    <3>1. CASE r = q
      <4>1. e.query.request # q.id
        BY <1>1, <2>6, <2>9 DEF Known, SameObjects
      <4> QED  BY <2>3, <2>6, <2>8, <2>9, <3>1, <4>1
    <3>2. CASE r \in Sent(c)
      BY <1>1, <2>6, <2>9, <3>2 DEF Tagged, SameObjects
    <3> QED  BY <2>7, <3>1, <3>2
  <2>11. Known(e, R, V)
    <3>1. e.query.request \in 0 .. e.lastId
      BY <1>1, <2>6, <2>9 DEF Known, SameObjects
    <3>2. \A u \in e.watchers \cup R : u # NoWatcher /\ u.id \in 1 .. e.lastId
      BY <1>1, <2>6, <2>9 DEF Known
    <3>3. \A u \in V.noticed : u.id \in 1 .. e.lastId /\ (u \in e.watchers => u \in R)
      BY <1>1, <2>6, <2>9 DEF Known
    <3> QED  BY <1>1, <2>3, <2>7, <3>1, <3>2, <3>3 DEF Known
  <2>12. Added(e) = Added(c) /\ Removed(e) = Removed(c) \cup {w}
    <3>1. {t \in Sent(e) : t.kind = "add"} = {t \in Sent(c) : t.kind = "add"}
      BY <2>3, <2>7
    <3>2. {t \in Sent(e) : t.kind = "remove"} = {t \in Sent(c) : t.kind = "remove"} \cup {q}
      BY <2>3, <2>7
    <3> QED  BY <2>3, <3>1, <3>2 DEF Added, Removed
  <2>13. Followed(e, R)
    BY <1>1, <2>6, <2>12 DEF Followed
  <2>14. OneOfMine(e) /\ Heard(e, R, V)
    BY <1>1, <2>6, <2>8 DEF OneOfMine, Heard, SameObjects
  <2>15. Tidy(e, R, V)
    BY <2>6, <2>7, <2>10, <2>11, <2>13, <2>14 DEF Tidy, Loose
  <2> HIDE DEF W
  <2>16. /\ Tidy(d, R, V) /\ SameObjects(e, d) /\ d.watchers = e.watchers /\ d.lastId = e.lastId
    BY <2>2, <2>15, TidyQueue
  <2> QED  BY <2>6, <2>9, <2>16 DEF SameObjects, d, W
<1> QED  BY <1>2, <1>3

\* Requests leave the queue, and the one in flight is no more waited for.
Cut(c, d, gone) ==
    /\ gone \subseteq Pending(c)
    /\ d.queue = Without(c.queue, gone) /\ d.wire = c.wire /\ d.lastId = c.lastId
    /\ d.current \in {c.current, None}

LEMMA CutInOrder ==
    ASSUME NEW c, Line(c), InOrder(c), NEW d, NEW gone, Cut(c, d, gone)
    PROVE  /\ Line(d) /\ InOrder(d) /\ Sent(d) \subseteq Sent(c)
           /\ \A r \in Sent(c) : r \in Sent(d) \/ (r \in gone /\ r \in Members(c.queue))
           /\ \A r \in gone : r \in Sent(d) => r \in Members(c.wire) /\ r.id = c.current
<1>1. c.lastId \in Nat /\ \A r \in Sent(c) : r.id \in 1 .. c.lastId
  BY WaitingIsSent DEF Line
<1>2. \A r \in Sent(c) : r.id # None
  BY <1>1 DEF None
<1>3. IsSeq(d.queue) /\ Members(d.queue) = Members(c.queue) \ gone /\ Distinct(d.queue)
  BY WithoutFacts DEF Line, Cut
<1>4. Sent(d) \subseteq Sent(c) /\ Members(d.wire) = Members(c.wire)
  BY <1>3 DEF Sent, Cut
<1>5. Line(d)
  <2>1. Ids(Sent(d)) \subseteq 1 .. d.lastId
    BY <1>1, <1>4 DEF Ids, Cut
  <2>2. d.current \in 0 .. d.lastId
    BY <1>1 DEF Line, Cut, None
  <2>3. d.current \notin Ids(Members(d.queue))
    <3>1. \A r \in Members(d.queue) : r \in Members(c.queue) /\ r.id # None
      BY <1>2, <1>3 DEF Sent
    <3> QED  BY <3>1 DEF Line, Ids, Cut
  <2> QED  BY <1>1, <1>3, <2>1, <2>2, <2>3 DEF Line, Cut
<1>6. Rises(d.queue) /\ Leads(d.queue)
  BY WithoutPicks, PicksKeepOrder DEF Line, InOrder, Cut
<1>7. InOrder(d)
  BY <1>3, <1>6 DEF InOrder, Cut
<1>8. \A r \in Sent(c) : r \in Sent(d) \/ (r \in gone /\ r \in Members(c.queue))
  BY <1>3 DEF Sent, Cut
<1>9. ASSUME NEW r \in gone, r \in Sent(d) PROVE r \in Members(c.wire) /\ r.id = c.current
  <2>1. r \in Members(c.wire)
    BY <1>3, <1>9 DEF Sent, Cut
  <2>2. r \in Members(c.queue) \/ r.id = c.current
    BY <1>9 DEF Cut, Pending, Members
  <2>3. r \notin Members(c.queue)
    BY <2>1 DEF InOrder
  <2> QED  BY <2>1, <2>2, <2>3
<1> QED  BY <1>4, <1>5, <1>7, <1>8, <1>9

\* A watcher is deleted: what it sent is answered, or was not sent.
LEMMA LooseDelete ==
    ASSUME NEW R, NEW V, NEW c, Tidy(c, R, V), NEW w
    PROVE  LET d == DeleteWatcher(c, w)
           IN /\ Loose(d, R, V) /\ SameObjects(c, d)
              /\ d.watchers = c.watchers \ {w} /\ d.lastId = c.lastId
              /\ w # c.notify.watcher \/ w = NoWatcher => Heard(d, R, V)
<1> DEFINE own == {r \in Pending(c) : r.watcher = w}
           unsent == {r \in own : r.id # c.current}
           stays == /\ w \in c.watchers \/ \E r \in unsent : r.kind = "remove"
                    /\ \A r \in unsent : r.kind # "add"
           gone == [c EXCEPT !.watchers = @ \ {w}, !.queue = Without(@, own),
                             !.current = IF \E r \in own : r.id = @ THEN None ELSE @]
           d == DeleteWatcher(c, w)
<1>1. /\ Formed(c) /\ Line(c) /\ InOrder(c) /\ Tagged(c) /\ Known(c, R, V) /\ Followed(c, R)
      /\ OneOfMine(c) /\ Heard(c, R, V)
  BY DEF Tidy, Loose
<1>2. CASE w = NoWatcher
  <2>1. d = c
    BY <1>2 DEF DeleteWatcher
  <2>2. c.watchers \ {w} = c.watchers
    BY <1>1, <1>2 DEF Known
  <2> HIDE DEF d
  <2>3. Loose(d, R, V) /\ Heard(d, R, V) /\ SameObjects(c, d)
    BY <2>1 DEF Tidy, SameObjects
  <2> QED  BY <2>1, <2>2, <2>3 DEF d
<1>3. CASE w # NoWatcher
  <2>1. d = IF stays THEN Exposed(gone, "dropped") ELSE gone
    BY <1>3 DEF DeleteWatcher
  <2>2. own \subseteq Pending(c) /\ \A r \in own : r.watcher = w
    OBVIOUS
  <2>3. \A r \in Sent(c) : r \in own => r.watcher = w
    BY <2>2
  <2> HIDE DEF own
  <2>4. /\ Formed(gone) /\ Cut(c, gone, own) /\ SameObjects(c, gone)
        /\ gone.watchers = c.watchers \ {w} /\ gone.exposed = c.exposed
        /\ gone.current = IF \E r \in own : r.id = c.current THEN None ELSE c.current
    BY <1>1, <2>2 DEF Formed, Shaped, Fields, Cut, SameObjects
  <2> HIDE DEF gone
  <2>5. /\ Formed(d) /\ Cut(c, d, own) /\ SameObjects(c, d) /\ d.watchers = c.watchers \ {w}
        /\ d.exposed = IF stays THEN c.exposed \cup {"dropped"} ELSE c.exposed
        /\ d.current = gone.current
    <3> HIDE DEF stays
    <3>1. /\ Formed(Exposed(gone, "dropped")) /\ Cut(c, Exposed(gone, "dropped"), own)
          /\ SameObjects(c, Exposed(gone, "dropped"))
          /\ Exposed(gone, "dropped").watchers = gone.watchers
          /\ Exposed(gone, "dropped").exposed = c.exposed \cup {"dropped"}
          /\ Exposed(gone, "dropped").current = gone.current
      BY <2>4 DEF Formed, Shaped, Fields, Cut, SameObjects, Exposed
    <3> QED  BY <2>1, <2>4, <3>1
  <2> HIDE DEF d
  <2>6. /\ Line(d) /\ InOrder(d) /\ Sent(d) \subseteq Sent(c)
        /\ \A r \in Sent(c) : r \in Sent(d) \/ (r \in own /\ r \in Members(c.queue))
        /\ \A r \in own : r \in Sent(d) => r \in Members(c.wire) /\ r.id = c.current
    BY <1>1, <2>5, CutInOrder
  <2>7. d.lastId = c.lastId /\ d.wire = c.wire
        /\ d.current = IF \E r \in own : r.id = c.current THEN None ELSE c.current
    BY <2>4, <2>5 DEF Cut
  <2>8. own \subseteq Sent(c)
    BY <2>2 DEF Pending, Sent, Members
  <2>9. Tagged(d) /\ Known(d, R, V)
    <3>1. Tagged(d)
      BY <1>1, <2>5, <2>6, <2>7 DEF Tagged, SameObjects
    <3>2. Known(d, R, V)
      BY <1>1, <2>5, <2>6, <2>7 DEF Known, SameObjects
    <3> QED  BY <3>1, <3>2
  <2>10. Followed(d, R)
    <3>1. CASE "dropped" \in c.exposed \/ stays
      BY <2>5, <3>1 DEF Followed
    <3>2. CASE "dropped" \notin c.exposed /\ ~stays
      <4> SUFFICES ASSUME NEW u \in R \cup Added(d) PROVE u \in d.watchers \cup Removed(d)
        BY DEF Followed
      <4>1. u \in R \cup Added(c)
        BY <2>6 DEF Added
      <4>2. u \in c.watchers \cup Removed(c)
        BY <1>1, <3>2, <4>1 DEF Followed
      <4>3. CASE u # w
        <5>1. CASE u \in c.watchers
          BY <2>5, <4>3, <5>1
        <5>2. CASE u \in Removed(c)
          <6>1. PICK r \in Sent(c) : r.kind = "remove" /\ r.watcher = u
            BY <5>2 DEF Removed
          <6>2. r \in Sent(d)
            BY <2>2, <2>6, <4>3, <6>1
          <6> QED  BY <6>1, <6>2 DEF Removed
        <5> QED  BY <4>2, <5>1, <5>2
      <4>4. CASE u = w /\ \E r \in unsent : r.kind = "add"
        <5>1. PICK r \in own : r.id # c.current /\ r.kind = "add"
          BY <4>4
        <5>2. r \in Sent(c) /\ r.watcher = w /\ r \notin Sent(d)
          BY <2>2, <2>6, <2>8, <5>1
        <5>3. w \notin R /\ r.id = w.id
          BY <1>1, <5>1, <5>2 DEF Known, Tagged
        <5>4. PICK t \in Sent(d) : t.kind = "add" /\ t.watcher = w
          BY <4>4, <5>3 DEF Added
        <5>5. t \in Sent(c) /\ t.id = r.id
          BY <1>1, <2>6, <5>3, <5>4 DEF Tagged
        <5>6. t = r
          BY <1>1, <5>2, <5>5, SentOnce
        <5> QED  BY <5>2, <5>4, <5>6
      <4>5. CASE u = w /\ ~\E r \in unsent : r.kind = "add"
        <5>1. w \notin c.watchers /\ \A r \in own : r.id # c.current => r.kind # "remove"
          BY <3>2, <4>5
        <5>2. PICK r \in Sent(c) : r.kind = "remove" /\ r.watcher = w
          BY <4>2, <4>5, <5>1 DEF Removed
        <5>3. r \in Members(c.queue) => r.id # c.current
          BY <1>1 DEF Line, Ids
        <5>4. r \in Sent(d)
          BY <2>6, <5>1, <5>2, <5>3
        <5> QED  BY <4>5, <5>2, <5>4 DEF Removed
      <4> QED  BY <4>3, <4>4, <4>5
    <3> QED  BY <3>1, <3>2
  <2>11. OneOfMine(d)
    BY <1>1, <2>5 DEF OneOfMine, SameObjects
  <2>12. ASSUME w # c.notify.watcher PROVE Heard(d, R, V)
    <3>1. d.notify = c.notify
      BY <2>5 DEF SameObjects
    <3> SUFFICES ASSUME NEW r \in Members(c.wire), Internal(r), r.watcher = c.notify.watcher
                 PROVE  r.id = d.current
      BY <1>1, <2>7, <3>1 DEF Heard
    <3>2. r.id = c.current
      BY <1>1 DEF Heard
    <3>3. ASSUME NEW t \in own, t.id = c.current PROVE FALSE
      <4>1. t = r
        BY <1>1, <2>8, <3>2, <3>3, SentOnce DEF Sent
      <4> QED  BY <2>2, <2>12, <4>1
    <3> QED  BY <2>7, <3>2, <3>3
  <2>13. Loose(d, R, V)
    BY <2>5, <2>6, <2>9, <2>10, <2>11 DEF Loose
  <2> QED  BY <1>3, <2>5, <2>7, <2>12, <2>13 DEF d
<1> QED  BY <1>2, <1>3

LEMMA TidyDelete ==
    ASSUME NEW R, NEW V, NEW c, Tidy(c, R, V), NEW w, w # c.notify.watcher \/ w = NoWatcher
    PROVE  LET d == DeleteWatcher(c, w)
           IN /\ Tidy(d, R, V) /\ SameObjects(c, d)
              /\ d.watchers = c.watchers \ {w} /\ d.lastId = c.lastId
BY LooseDelete DEF Tidy

\* A change of the objects only.
Aside(c, d) ==
    /\ Formed(d) /\ SameLine(c, d) /\ d.watchers = c.watchers /\ c.exposed \subseteq d.exposed
    /\ d.query.request = c.query.request

LEMMA LooseAside ==
    ASSUME NEW R, NEW V, NEW c, Loose(c, R, V), NEW d, Aside(c, d), OneOfMine(d)
    PROVE  Loose(d, R, V)
<1>1. /\ Line(c) /\ InOrder(c) /\ Tagged(c) /\ Known(c, R, V) /\ Followed(c, R)
  BY DEF Loose
<1>2. Sent(d) = Sent(c)
  BY DEF Sent, Aside, SameLine
<1>3. Line(d) /\ InOrder(d)
  BY <1>1, <1>2 DEF Line, InOrder, Aside, SameLine
<1>4. Tagged(d) /\ Known(d, R, V)
  BY <1>1, <1>2 DEF Tagged, Known, Aside, SameLine
<1>5. Followed(d, R)
  BY <1>1, <1>2 DEF Followed, Added, Removed, Aside
<1> QED  BY <1>3, <1>4, <1>5 DEF Loose, Aside

\* An object changes, but not its watcher.
Changed(c, d, R) ==
    /\ Aside(c, d)
    /\ \A p \in Partition : d.partition[p].partitionWatcher = c.partition[p].partitionWatcher
    /\ d.notify.watcher = c.notify.watcher /\ d.notify.alive = c.notify.alive
    /\ d.notify.alive \/ d.notify.query = c.notify.query
    /\ d.notify.status = "Ready" => c.notify.status = "Ready" \/ c.notify.watcher \in R

LEMMA TidyChanged ==
    ASSUME NEW R, NEW V, NEW c, Tidy(c, R, V), NEW d, Changed(c, d, R)
    PROVE  Tidy(d, R, V)
<1>1. OneOfMine(d)
  BY DEF Tidy, Loose, OneOfMine, Changed, Aside
<1>2. Heard(d, R, V)
  BY DEF Tidy, Heard, Changed, Aside, SameLine
<1> QED  BY <1>1, <1>2, LooseAside DEF Tidy, Changed

\* The fields of the partition and notification objects that matter here.
LEMMA PartitionEdited ==
    ASSUME NEW c, Formed(c), NEW p, NEW rec,
           p \in Partition => DOMAIN rec = PartitionFields
                              /\ rec.partitionWatcher = c.partition[p].partitionWatcher
    PROVE  LET f == [c.partition EXCEPT ![p] = rec]
           IN /\ DOMAIN f = Partition
              /\ \A q \in Partition : /\ DOMAIN f[q] = PartitionFields
                                      /\ f[q].partitionWatcher = c.partition[q].partitionWatcher
BY DEF Formed

LEMMA PartitionSet ==
    ASSUME NEW R, NEW c, Formed(c), NEW p, NEW rec,
           p \in Partition => DOMAIN rec = PartitionFields
                              /\ rec.partitionWatcher = c.partition[p].partitionWatcher
    PROVE  Changed(c, [c EXCEPT !.partition[p] = rec], R)
<1> DEFINE f == [c.partition EXCEPT ![p] = rec]
           d == [c EXCEPT !.partition[p] = rec]
<1>1. /\ DOMAIN f = Partition
      /\ \A q \in Partition : /\ DOMAIN f[q] = PartitionFields
                              /\ f[q].partitionWatcher = c.partition[q].partitionWatcher
  BY PartitionEdited
<1>2. d = [c EXCEPT !.partition = f]
  OBVIOUS
<1> HIDE DEF f, d
<1>3. /\ DOMAIN d = Fields /\ d.partition = f
      /\ \A field \in Fields \ {"partition"} : d[field] = c[field]
  BY <1>2 DEF Formed, Shaped, Fields
<1>4. Formed(d) /\ SameLine(c, d) /\ d.notify = c.notify /\ d.query = c.query
      /\ d.watchers = c.watchers /\ d.exposed = c.exposed
  BY <1>1, <1>3 DEF Formed, Shaped, Fields, SameLine
<1> QED  BY <1>1, <1>3, <1>4 DEF Changed, Aside, d

LEMMA NotifySet ==
    ASSUME NEW R, NEW c, Formed(c), NEW n, DOMAIN n = NotifyFields,
           n.watcher = c.notify.watcher, n.alive = c.notify.alive,
           n.alive \/ n.query = c.notify.query,
           n.status = "Ready" => c.notify.status = "Ready" \/ c.notify.watcher \in R
    PROVE  Changed(c, [c EXCEPT !.notify = n], R)
<1> DEFINE d == [c EXCEPT !.notify = n]
<1>1. /\ DOMAIN d = Fields /\ d.notify = n
      /\ \A field \in Fields \ {"notify"} : d[field] = c[field]
  BY DEF Formed, Shaped, Fields
<1> HIDE DEF d
<1>2. Formed(d) /\ SameLine(c, d) /\ d.partition = c.partition /\ d.query = c.query
      /\ d.watchers = c.watchers /\ d.exposed = c.exposed
  BY <1>1 DEF Formed, Shaped, Fields, SameLine
<1> QED  BY <1>1, <1>2 DEF Changed, Aside, d

LEMMA TidyExposed ==
    ASSUME NEW R, NEW V, NEW c, Tidy(c, R, V), NEW e
    PROVE  LET d == Exposed(c, e)
           IN Tidy(d, R, V) /\ SameObjects(c, d) /\ d.watchers = c.watchers /\ d.lastId = c.lastId
<1> DEFINE d == Exposed(c, e)
<1>1. Formed(c)
  BY DEF Tidy, Loose
<1>2. Changed(c, d, R) /\ SameObjects(c, d) /\ d.watchers = c.watchers /\ d.lastId = c.lastId
  BY <1>1 DEF Changed, Aside, SameLine, SameObjects, Exposed, Formed, Shaped, Fields
<1> HIDE DEF d
<1> QED  BY <1>2, TidyChanged DEF d

-----------------------------------------------------------------------------
(***************************************************************************)
(* The notification object.                                                *)
(***************************************************************************)
LEMMA TidyRemoveNotification ==
    ASSUME NEW R, NEW V, NEW c, Tidy(c, R, V)
    PROVE  LET d == removeNotification(c)
           IN Tidy(d, R, V) /\ d.notify = c.notify
<1> DEFINE p == c.notify.partition
           w == c.notify.watcher
           rec == [c.partition[p] EXCEPT !.watchers = @ \ {w}]
           e == [c EXCEPT !.partition[p] = rec]
<1>1. removeNotification(c) = c \/ removeNotification(c) = removeWatcher(e, w)
  <2>1. e = [c EXCEPT !.partition[p].watchers = @ \ {w}]
    OBVIOUS
  <2> HIDE DEF e
  <2> QED  BY <2>1 DEF removeNotification
<1>2. Formed(c)
  BY DEF Tidy, Loose
<1>3. p \in Partition => DOMAIN rec = PartitionFields
                         /\ rec.partitionWatcher = c.partition[p].partitionWatcher
  BY <1>2 DEF Formed, PartitionFields
<1> HIDE DEF rec, p, w
<1>4. Changed(c, e, R)
  BY <1>2, <1>3, PartitionSet
<1>5. e.notify = c.notify
  BY <1>2 DEF Formed, Shaped, Fields
<1> HIDE DEF e
<1>6. Tidy(e, R, V)
  BY <1>4, TidyChanged
<1>7. Tidy(removeWatcher(e, w), R, V) /\ removeWatcher(e, w).notify = e.notify
  BY <1>6, TidyRemove DEF SameObjects
<1> QED  BY <1>1, <1>5, <1>7

\* No watcher of the notification object is left, so that it may have a new one.
Anew(c, p, w) ==
    [c EXCEPT !.notify.watcher = w, !.notify.status = "Registering",
              !.partition[p].watchers = @ \cup {w}]

LEMMA OneMore ==
    ASSUME NEW R, NEW V, NEW c, Loose(c, R, V), c.notify.watcher \notin c.watchers, c.notify.alive,
           NEW p, NEW w, w.id = c.lastId + 1, w.of = Notifier
    PROVE  LET d == Anew(c, p, w)
           IN Tidy(d, R, V) /\ d.lastId = c.lastId /\ d.notify.watcher = w
<1> DEFINE rec == [c.partition[p] EXCEPT !.watchers = @ \cup {w}]
           f == [c.partition EXCEPT ![p] = rec]
           n == [c.notify EXCEPT !.watcher = w, !.status = "Registering"]
           d == Anew(c, p, w)
<1>1. Formed(c) /\ Line(c) /\ Tagged(c) /\ OneOfMine(c) /\ c.lastId \in Nat
  BY DEF Loose, Line
<1>2. p \in Partition => DOMAIN rec = PartitionFields
                         /\ rec.partitionWatcher = c.partition[p].partitionWatcher
  BY <1>1 DEF Formed, PartitionFields
<1>3. d = [c EXCEPT !.notify = n, !.partition = f]
  BY <1>1 DEF Anew, Formed, Shaped, Fields
<1> HIDE DEF rec, d
<1>4. /\ DOMAIN f = Partition
      /\ \A q \in Partition : /\ DOMAIN f[q] = PartitionFields
                              /\ f[q].partitionWatcher = c.partition[q].partitionWatcher
  BY <1>1, <1>2, PartitionEdited
<1>5. DOMAIN n = NotifyFields /\ n.watcher = w /\ n.status = "Registering"
        /\ n.alive = c.notify.alive
  BY <1>1 DEF Formed, NotifyFields
<1> HIDE DEF f, n
<1>6. /\ DOMAIN d = Fields /\ d.partition = f /\ d.notify = n
      /\ \A field \in Fields \ {"partition", "notify"} : d[field] = c[field]
  BY <1>1, <1>3 DEF Formed, Shaped, Fields
<1>7. Aside(c, d) /\ d.wire = c.wire
  BY <1>1, <1>4, <1>5, <1>6 DEF Aside, Formed, Shaped, Fields, SameLine
<1>8. OneOfMine(d)
  BY <1>1, <1>4, <1>5, <1>6, <1>7 DEF OneOfMine, Aside
<1>9. Heard(d, R, V)
  <2>1. \A r \in Members(c.wire) : Internal(r) => r.watcher # w
    BY <1>1 DEF Tagged, Sent
  <2> QED  BY <1>5, <1>6, <1>7, <2>1 DEF Heard
<1>10. Loose(d, R, V)
  BY <1>7, <1>8, LooseAside
<1> QED  BY <1>5, <1>6, <1>7, <1>9, <1>10 DEF Tidy, Aside, SameLine, d

LEMMA TidyInitNotify ==
    ASSUME NEW R, NEW V, NEW c, Tidy(c, R, V)
    PROVE  Tidy(initNotify(c), R, V)
<1> DEFINE n == c.notify
           less == removeNotification(c)
           rid == DeleteWatcher(less, n.watcher)
           w == [id |-> rid.lastId + 1, of |-> Notifier, name |-> rid.partition[n.partition].name,
                 query |-> n.query, actions |-> n.actions]
           still == [n EXCEPT !.status = "Null"]
           quiet == [c EXCEPT !.notify = still]
           set == [rid EXCEPT !.notify.watcher = w, !.notify.status = "Registering",
                              !.partition[n.partition].watchers = @ \cup {w}]
           added == addWatcher(set, w)
<1>1. Formed(c) /\ OneOfMine(c)
  BY DEF Tidy, Loose
<1>2. CASE ~parametersReady(n)
  <2>1. initNotify(c) \in {quiet, Exposed(quiet, "emptied")}
    BY <1>2 DEF initNotify
  <2>2. DOMAIN still = NotifyFields /\ still.watcher = c.notify.watcher
          /\ still.alive = c.notify.alive
        /\ still.query = c.notify.query /\ still.status = "Null"
    BY <1>1 DEF Formed, NotifyFields
  <2> HIDE DEF still
  <2>3. Changed(c, quiet, R)
    BY <1>1, <2>2, NotifySet
  <2> HIDE DEF quiet
  <2>4. Tidy(quiet, R, V)
    BY <2>3, TidyChanged
  <2>5. Tidy(Exposed(quiet, "emptied"), R, V)
    BY <2>4, TidyExposed
  <2> QED  BY <2>1, <2>4, <2>5
<1>3. CASE parametersReady(n) /\ ~n.enabled
  BY <1>3 DEF initNotify
<1>4. CASE parametersReady(n) /\ n.enabled
  <2>1. initNotify(c) = added
    BY <1>4 DEF initNotify
  <2>2. n.alive
    BY <1>1, <1>4 DEF OneOfMine, parametersReady
  <2>3. w.id = rid.lastId + 1 /\ w.of = Notifier
    OBVIOUS
  <2> HIDE DEF w, added
  <2>4. Tidy(less, R, V) /\ less.notify = n
    BY TidyRemoveNotification
  <2> HIDE DEF less, n
  <2>5. Loose(rid, R, V) /\ rid.notify = n /\ rid.watchers = less.watchers \ {n.watcher}
    BY <2>4, LooseDelete DEF SameObjects
  <2> HIDE DEF rid
  <2>6. Tidy(set, R, V) /\ set.lastId = rid.lastId /\ set.notify.watcher = w
    <3>1. rid.notify.watcher \notin rid.watchers /\ rid.notify.alive
      BY <2>2, <2>5
    <3>2. set = Anew(rid, n.partition, w)
      BY DEF Anew
    <3> HIDE DEF set
    <3> QED  BY <2>3, <2>5, <3>1, <3>2, OneMore
  <2> HIDE DEF set
  <2>7. Tidy(added, R, V)
    BY <2>3, <2>6, TidyAdd DEF added
  <2> QED  BY <2>1, <2>7
<1> QED  BY <1>2, <1>3, <1>4

LEMMA TidyNotifySet ==
    ASSUME NEW R, NEW V, NEW c, Tidy(c, R, V), NEW n, DOMAIN n = NotifyFields,
           n.watcher = c.notify.watcher, n.alive = c.notify.alive,
           n.alive \/ n.query = c.notify.query,
           n.status = "Ready" => c.notify.status = "Ready" \/ c.notify.watcher \in R
    PROVE  LET d == [c EXCEPT !.notify = n] IN Tidy(d, R, V) /\ d.notify = n
<1> DEFINE d == [c EXCEPT !.notify = n]
<1>1. Formed(c)
  BY DEF Tidy, Loose
<1>2. Changed(c, d, R)
  BY <1>1, NotifySet
<1>3. d.notify = n
  BY <1>1 DEF Formed, Shaped, Fields
<1> HIDE DEF d
<1>4. Tidy(d, R, V)
  BY <1>2, TidyChanged
<1> QED  BY <1>3, <1>4 DEF d

LEMMA TidyPartitionSet ==
    ASSUME NEW R, NEW V, NEW c, Tidy(c, R, V), NEW p, NEW rec,
           p \in Partition => DOMAIN rec = PartitionFields
                              /\ rec.partitionWatcher = c.partition[p].partitionWatcher
    PROVE  LET d == [c EXCEPT !.partition[p] = rec] IN Tidy(d, R, V)
<1> DEFINE d == [c EXCEPT !.partition[p] = rec]
<1>1. Formed(c)
  BY DEF Tidy, Loose
<1>2. Changed(c, d, R)
  BY <1>1, PartitionSet
<1> HIDE DEF d
<1>3. Tidy(d, R, V)
  BY <1>2, TidyChanged
<1> QED  BY <1>3 DEF d

LEMMA TidySetEnabled ==
    ASSUME NEW R, NEW V, NEW c, Tidy(c, R, V), NEW enabled
    PROVE  Tidy(setEnabled(c, enabled), R, V)
<1> DEFINE n == c.notify
           less == removeNotification(c)
           idle == [n EXCEPT !.status = "Null"]
           quiet == [less EXCEPT !.notify.status = "Null"]
           off == IF n.enabled /\ parametersReady(n) THEN quiet ELSE c
           marked == [off.notify EXCEPT !.enabled = enabled]
           set == [off EXCEPT !.notify.enabled = enabled]
<1>1. DOMAIN n = NotifyFields
  BY DEF Tidy, Loose, Formed
<1>2. Tidy(less, R, V) /\ less.notify = n
  BY TidyRemoveNotification
<1>3. quiet = [less EXCEPT !.notify = idle]
  BY <1>2
<1>4. /\ DOMAIN idle = NotifyFields /\ idle.watcher = n.watcher /\ idle.alive = n.alive
      /\ idle.query = n.query /\ idle.status = "Null"
  BY <1>1 DEF NotifyFields
<1>5. setEnabled(c, enabled) \in {c, initNotify(set), set}
  BY DEF setEnabled
<1>6. set = [off EXCEPT !.notify = marked]
  OBVIOUS
<1> HIDE DEF less, idle, quiet, set
<1>7. Tidy(quiet, R, V)
  BY <1>2, <1>3, <1>4, TidyNotifySet
<1>8. Tidy(off, R, V)
  BY <1>7
<1> HIDE DEF off
<1>9. /\ DOMAIN marked = NotifyFields /\ marked.watcher = off.notify.watcher
      /\ marked.alive = off.notify.alive /\ marked.query = off.notify.query
      /\ marked.status = off.notify.status
  BY <1>8 DEF Tidy, Loose, Formed, NotifyFields
<1> HIDE DEF marked
<1>10. Tidy(set, R, V)
  BY <1>6, <1>8, <1>9, TidyNotifySet
<1> QED  BY <1>5, <1>10, TidyInitNotify

LEMMA TidySetPartition ==
    ASSUME NEW R, NEW V, NEW c, Tidy(c, R, V), NEW p
    PROVE  Tidy(setPartition(c, p), R, V)
<1> DEFINE n == c.notify
           less == removeNotification(c)
           moved == [n EXCEPT !.partition = p, !.follows = @ \cup {p}]
           set == [less EXCEPT !.notify.partition = p, !.notify.follows = @ \cup {p}]
<1>1. Formed(less) /\ Tidy(less, R, V) /\ less.notify = n /\ DOMAIN n = NotifyFields
  BY TidyRemoveNotification DEF Tidy, Loose, Formed
<1>2. setPartition(c, p) \in {c, initNotify(set)}
  BY DEF setPartition
<1> HIDE DEF less
<1>3. set = [less EXCEPT !.notify = moved]
  BY <1>1 DEF Formed, Shaped, Fields
<1>4. /\ DOMAIN moved = NotifyFields /\ moved.watcher = n.watcher /\ moved.alive = n.alive
      /\ moved.query = n.query /\ moved.status = n.status
  BY <1>1 DEF NotifyFields
<1> HIDE DEF set, moved
<1>5. Tidy(set, R, V)
  BY <1>1, <1>3, <1>4, TidyNotifySet
<1> QED  BY <1>2, <1>5, TidyInitNotify

LEMMA TidyNameChanged ==
    ASSUME NEW R, NEW V, NEW c, Tidy(c, R, V), NEW p
    PROVE  Tidy(nameChanged(c, p), R, V)
BY TidyInitNotify DEF nameChanged

LEMMA TidyStatusOf ==
    ASSUME NEW R, NEW V, NEW c, Tidy(c, R, V), NEW w, NEW status, status = "Ready" => w \in R
    PROVE  Tidy(StatusOf(c, w, status), R, V)
<1> DEFINE n == [c.notify EXCEPT !.status = status]
           set == [c EXCEPT !.notify.status = status]
<1>1. /\ DOMAIN n = NotifyFields /\ n.watcher = c.notify.watcher /\ n.alive = c.notify.alive
      /\ n.query = c.notify.query /\ n.status = status
  BY DEF Tidy, Loose, Formed, NotifyFields
<1>2. set = [c EXCEPT !.notify = n]
  OBVIOUS
<1>3. StatusOf(c, w, status) = IF c.notify.watcher = w THEN set ELSE c
  BY DEF StatusOf
<1> HIDE DEF n, set
<1>4. CASE c.notify.watcher = w
  <2>1. Tidy(set, R, V)
    BY <1>1, <1>2, <1>4, TidyNotifySet
  <2> QED  BY <1>3, <1>4, <2>1
<1> QED  BY <1>3, <1>4

\* The notification object is destroyed; it lets go of its watcher.
Ended(c, n) == [c EXCEPT !.notify = n]

LEMMA TidyEnded ==
    ASSUME NEW R, NEW V, NEW c, Loose(c, R, V), c.notify.watcher \notin c.watchers,
           NEW n, DOMAIN n = NotifyFields, n.watcher = NoWatcher, ~n.alive, n.query = "",
           n.status = "Null"
    PROVE  Tidy(Ended(c, n), R, V)
<1> DEFINE d == Ended(c, n)
<1>1. Formed(c) /\ OneOfMine(c)
  BY DEF Loose
<1>2. /\ DOMAIN d = Fields /\ d.notify = n
      /\ \A field \in Fields \ {"notify"} : d[field] = c[field]
  BY <1>1 DEF Formed, Shaped, Fields, Ended
<1> HIDE DEF d
<1>3. Aside(c, d) /\ d.partition = c.partition /\ d.watchers = c.watchers
  BY <1>1, <1>2 DEF Aside, Formed, Shaped, Fields, SameLine
<1>4. OneOfMine(d)
  BY <1>1, <1>2, <1>3 DEF OneOfMine
<1>5. Loose(d, R, V)
  BY <1>3, <1>4, LooseAside
<1>6. Heard(d, R, V)
  BY <1>2 DEF Heard, Internal
<1> QED  BY <1>5, <1>6 DEF Tidy, d

LEMMA TidyDeleteNotify ==
    ASSUME NEW R, NEW V, NEW c, Tidy(c, R, V)
    PROVE  Tidy(DeleteNotify(c), R, V)
<1> DEFINE n == c.notify
           removed == IF n.enabled THEN removeNotification(c) ELSE c
           rid == DeleteWatcher(removed, n.watcher)
           none == [n EXCEPT !.alive = FALSE, !.watcher = NoWatcher, !.partition = None,
                             !.follows = {}, !.query = "", !.actions = {}, !.status = "Null"]
<1>1. DeleteNotify(c) = Ended(rid, none)
  BY DEF DeleteNotify, Ended
<1>2. Tidy(removed, R, V) /\ removed.notify = n
  BY TidyRemoveNotification
<1> HIDE DEF removed
<1>3. /\ DOMAIN none = NotifyFields /\ none.watcher = NoWatcher /\ ~none.alive
      /\ none.query = "" /\ none.status = "Null"
  BY DEF Tidy, Loose, Formed, NotifyFields
<1>4. Loose(rid, R, V) /\ rid.notify = n /\ rid.watchers = removed.watchers \ {n.watcher}
  BY <1>2, LooseDelete DEF SameObjects
<1>5. rid.notify.watcher \notin rid.watchers
  BY <1>4
<1> HIDE DEF rid, none, n
<1>6. Tidy(Ended(rid, none), R, V)
  BY <1>3, <1>4, <1>5, TidyEnded
<1> QED  BY <1>1, <1>6

-----------------------------------------------------------------------------
(***************************************************************************)
(* The partition and query objects.                                        *)
(***************************************************************************)
\* Callbacks are none of the watchers' business.
LEMMA TidyCallbacks ==
    ASSUME NEW R, NEW V, NEW c, Tidy(c, R, V), NEW d, DOMAIN d = Fields,
           \A field \in Fields \ {"writeCallbacks", "findCallbacks", "called", "promised"} :
               d[field] = c[field]
    PROVE  Tidy(d, R, V)
<1>1. Formed(c)
  BY DEF Tidy, Loose
<1>2. /\ SameLine(c, d) /\ SameObjects(c, d) /\ Formed(d)
      /\ d.watchers = c.watchers /\ d.exposed = c.exposed
  BY <1>1 DEF Formed, Shaped, Fields, SameLine, SameObjects
<1>3. Changed(c, d, R)
  BY <1>2 DEF Changed, Aside, SameObjects
<1> QED  BY <1>3, TidyChanged

PartitionsApart == \A p \in Partition : p # Notifier

LEMMA NotifierIsNoPartition == PartitionsApart /\ None # Notifier
<1> DEFINE S == Name \cup {""}
<1>1. FirstName \in Seq(S)
  BY QmlAssumption
<1> HIDE DEF S
<1>2. Len(FirstName) \in Nat /\ DOMAIN FirstName = 1 .. Len(FirstName)
  BY <1>1, LenProperties
<1> QED  BY <1>2 DEF PartitionsApart, Partition, Notifier, None

\* A partition object gets a watcher.
Given(c, p, w) == [c EXCEPT !.partition[p].partitionWatcher = w]

LEMMA TidyGiven ==
    ASSUME NEW R, NEW V, NEW c, Tidy(c, R, V), NEW p \in Partition, NEW w, w.of # Notifier
    PROVE  LET d == Given(c, p, w)
           IN Tidy(d, R, V) /\ d.notify = c.notify /\ d.watchers = c.watchers /\ d.lastId = c.lastId
<1> DEFINE rec == [c.partition[p] EXCEPT !.partitionWatcher = w]
           f == [c.partition EXCEPT ![p] = rec]
           d == Given(c, p, w)
<1>1. Formed(c) /\ OneOfMine(c) /\ Loose(c, R, V) /\ Heard(c, R, V)
  BY DEF Tidy, Loose
<1>2. d = [c EXCEPT !.partition = f]
  BY DEF Given
<1>3. DOMAIN rec = PartitionFields /\ rec.partitionWatcher = w
  BY <1>1 DEF Formed, PartitionFields
<1> HIDE DEF rec, d
<1>4. /\ DOMAIN f = Partition
      /\ \A q \in Partition : /\ DOMAIN f[q] = PartitionFields
                              /\ f[q].partitionWatcher.of # Notifier
  BY <1>1, <1>3 DEF Formed, OneOfMine
<1> HIDE DEF f
<1>5. /\ DOMAIN d = Fields /\ d.partition = f
      /\ \A field \in Fields \ {"partition"} : d[field] = c[field]
  BY <1>1, <1>2 DEF Formed, Shaped, Fields
<1>6. /\ Aside(c, d) /\ d.notify = c.notify /\ d.wire = c.wire /\ d.current = c.current
      /\ d.watchers = c.watchers /\ d.lastId = c.lastId
  BY <1>1, <1>4, <1>5 DEF Aside, Formed, Shaped, Fields, SameLine
<1>7. OneOfMine(d) /\ Heard(d, R, V)
  BY <1>1, <1>4, <1>5, <1>6 DEF OneOfMine, Heard
<1> QED  BY <1>1, <1>6, <1>7, LooseAside DEF Tidy, d

LEMMA TidyInit ==
    ASSUME NEW R, NEW V, NEW c, Tidy(c, R, V), NEW p \in Partition
    PROVE  Tidy(init(c, p), R, V) /\ init(c, p).notify = c.notify
<1> DEFINE w == [NoWatcher EXCEPT !.id = c.lastId + 1, !.of = p, !.name = c.partition[p].name]
           given == [c EXCEPT !.partition[p].partitionWatcher = w]
           added == addWatcher(given, w)
           d == send(added, Request("state", p, w.name, NoWatcher))
<1>1. init(c, p) = d
  BY DEF init
<1>2. w.id = c.lastId + 1 /\ w.of # Notifier
  BY NotifierIsNoPartition DEF NoWatcher, PartitionsApart
<1>3. given = Given(c, p, w)
  BY DEF Given
<1> HIDE DEF w, given, added
<1>4. Tidy(given, R, V) /\ given.notify = c.notify /\ given.lastId = c.lastId
  BY <1>2, <1>3, TidyGiven
<1>5. Tidy(added, R, V) /\ added.notify = given.notify
  BY <1>2, <1>4, TidyAdd DEF added, SameObjects
<1>6. Tidy(d, R, V) /\ d.notify = added.notify
  BY <1>5, TidySend DEF SameObjects
<1> QED  BY <1>1, <1>4, <1>5, <1>6

LEMMA TidyUnwatched ==
    ASSUME NEW R, NEW V, NEW c, Tidy(c, R, V), NEW p \in Partition
    PROVE  Tidy(Unwatched(c, p), R, V) /\ SameObjects(c, Unwatched(c, p))
<1> DEFINE w == c.partition[p].partitionWatcher
           less == removeWatcher(c, w)
<1>1. Unwatched(c, p) = DeleteWatcher(less, w)
  BY DEF Unwatched
<1>2. w # c.notify.watcher \/ w = NoWatcher
  BY DEF Tidy, Loose, OneOfMine
<1> HIDE DEF w
<1>3. Tidy(less, R, V) /\ SameObjects(c, less)
  BY TidyRemove
<1> HIDE DEF less
<1>4. w # less.notify.watcher \/ w = NoWatcher
  BY <1>2, <1>3 DEF SameObjects
<1>5. Tidy(DeleteWatcher(less, w), R, V) /\ SameObjects(less, DeleteWatcher(less, w))
  BY <1>3, <1>4, TidyDelete
<1> QED  BY <1>1, <1>3, <1>5 DEF SameObjects

LEMMA TidySetName ==
    ASSUME NEW R, NEW V, NEW c, Tidy(c, R, V), NEW p \in Partition, NEW name
    PROVE  Tidy(setName(c, p, name), R, V)
<1> DEFINE u == Unwatched(c, p)
           rec == [u.partition[p] EXCEPT !.state = "None", !.name = name]
           d == [u EXCEPT !.partition[p].state = "None", !.partition[p].name = name]
<1>1. setName(c, p, name) \in {c, nameChanged(init(d, p), p)}
  BY DEF setName
<1>2. Tidy(u, R, V)
  BY TidyUnwatched
<1> HIDE DEF u
<1>3. Formed(u)
  BY <1>2 DEF Tidy, Loose
<1>4. d = [u EXCEPT !.partition[p] = rec]
  BY <1>3 DEF Formed, Shaped, Fields, PartitionFields
<1>5. DOMAIN rec = PartitionFields /\ rec.partitionWatcher = u.partition[p].partitionWatcher
  BY <1>3 DEF Formed, PartitionFields
<1> HIDE DEF rec, d
<1>6. Tidy(d, R, V)
  BY <1>2, <1>4, <1>5, TidyPartitionSet
<1>7. Tidy(nameChanged(init(d, p), p), R, V)
  BY <1>6, TidyInit, TidyNameChanged
<1> QED  BY <1>1, <1>7

\* Another state or name.
LEMMA TidyState ==
    ASSUME NEW R, NEW V, NEW c, Tidy(c, R, V), NEW p, NEW value
    PROVE  /\ Tidy([c EXCEPT !.partition[p].state = value], R, V)
           /\ Tidy([c EXCEPT !.partition[p].name = value], R, V)
<1> DEFINE a == [c.partition[p] EXCEPT !.state = value]
           b == [c.partition[p] EXCEPT !.name = value]
<1>1. p \in Partition =>
        /\ DOMAIN a = PartitionFields /\ a.partitionWatcher = c.partition[p].partitionWatcher
        /\ DOMAIN b = PartitionFields /\ b.partitionWatcher = c.partition[p].partitionWatcher
  BY DEF Tidy, Loose, Formed, PartitionFields
<1>2. /\ [c EXCEPT !.partition[p].state = value] = [c EXCEPT !.partition[p] = a]
      /\ [c EXCEPT !.partition[p].name = value] = [c EXCEPT !.partition[p] = b]
  OBVIOUS
<1> HIDE DEF a, b
<1>3. Tidy([c EXCEPT !.partition[p] = a], R, V) /\ Tidy([c EXCEPT !.partition[p] = b], R, V)
  BY <1>1, TidyPartitionSet
<1> QED  BY <1>2, <1>3

LEMMA TidyPartitionQueryFinished ==
    ASSUME NEW R, NEW V, NEW c, Tidy(c, R, V), NEW p, NEW name, NEW found
    PROVE  Tidy(partitionQueryFinished(c, p, name, found), R, V)
<1> DEFINE taken == [c EXCEPT !.partition[p].state = found]
           known == IF \E r \in Pending(c) : r.kind = "state" /\ r.of = p
                    THEN Exposed(taken, "outdated") ELSE taken
           given == [known EXCEPT !.partition[p].name = name]
           named == nameChanged(given, p)
           d == partitionQueryFinished(c, p, name, found)
<1>1. d \in {c, known, named, Exposed(named, "renamed")}
  BY DEF partitionQueryFinished
<1> HIDE DEF d
<1>2. Tidy(taken, R, V)
  BY TidyState
<1> HIDE DEF taken
<1>3. Tidy(known, R, V)
  BY <1>2, TidyExposed
<1> HIDE DEF known
<1>4. Tidy(given, R, V)
  BY <1>3, TidyState
<1> HIDE DEF given
<1>5. Tidy(named, R, V)
  BY <1>4, TidyNameChanged
<1> HIDE DEF named
<1>6. Tidy(Exposed(named, "renamed"), R, V)
  BY <1>5, TidyExposed
<1> QED  BY <1>1, <1>3, <1>5, <1>6 DEF d

LEMMA TidyPartitionQueryError ==
    ASSUME NEW R, NEW V, NEW c, Tidy(c, R, V), NEW p
    PROVE  Tidy(partitionQueryError(c, p), R, V)
<1> DEFINE d == [c EXCEPT !.partition[p].state = "Error"]
<1>1. partitionQueryError(c, p) \in {c, Exposed(d, "refused")}
  BY DEF partitionQueryError
<1>2. Tidy(d, R, V)
  BY TidyState
<1> HIDE DEF d
<1> QED  BY <1>1, <1>2, TidyExposed

LEMMA TidyNotificationsAvailable ==
    ASSUME NEW R, NEW V, NEW c, Tidy(c, R, V), NEW p, NEW found
    PROVE  Tidy(notificationsAvailable(c, p, found), R, V)
BY TidyState DEF notificationsAvailable

LEMMA TidyDeletePartition ==
    ASSUME NEW R, NEW V, NEW c, Tidy(c, R, V), NEW p \in Partition
    PROVE  Tidy(DeletePartition(c, p), R, V)
<1> DEFINE u == Unwatched(c, p)
           gone == [u EXCEPT
                       !.partition[p].alive = FALSE,
                       !.writeCallbacks = {r \in @ : r.of # p},
                         !.findCallbacks = {r \in @ : r.of # p},
                       !.notify.partition = IF @ = p THEN None ELSE @,
                       !.query.partition = IF @ = p THEN None ELSE @]
           waiting == \E r \in c.writeCallbacks \cup c.findCallbacks : r.of = p
           one == IF waiting THEN Exposed(gone, "left") ELSE gone
           rec == [u.partition[p] EXCEPT !.alive = FALSE]
           f == [u.partition EXCEPT ![p] = rec]
<1>1. DeletePartition(c, p) \in {one, Exposed(one, "orphaned")}
  BY DEF DeletePartition
<1>2. Tidy(u, R, V)
  BY TidyUnwatched
<1> HIDE DEF u, waiting
<1>3. Formed(u)
  BY <1>2 DEF Tidy, Loose
<1>4. DOMAIN rec = PartitionFields /\ rec.partitionWatcher = u.partition[p].partitionWatcher
  BY <1>3 DEF Formed, PartitionFields
<1>5. gone.partition = f
  BY <1>3 DEF Formed, Shaped, Fields
<1> HIDE DEF rec
<1>6. /\ DOMAIN f = Partition
      /\ \A q \in Partition : /\ DOMAIN f[q] = PartitionFields
                              /\ f[q].partitionWatcher = u.partition[q].partitionWatcher
  BY <1>3, <1>4, PartitionEdited
<1> HIDE DEF f
<1>7. /\ DOMAIN gone = Fields /\ DOMAIN gone.notify = NotifyFields
      /\ DOMAIN gone.query = {"alive", "partition", "status", "request"}
      /\ gone.query.request = u.query.request
      /\ \A field \in {"watcher", "alive", "query", "status"} : gone.notify[field] = u.notify[field]
      /\ \A field \in {"watchers", "queue", "wire", "current", "lastId", "exposed"} :
            gone[field] = u[field]
  BY <1>3 DEF Formed, Shaped, Fields, NotifyFields
<1> HIDE DEF gone
<1>8. Formed(gone) /\ SameLine(u, gone) /\ gone.watchers = u.watchers /\ gone.exposed = u.exposed
  BY <1>5, <1>6, <1>7 DEF Formed, Shaped, Fields, SameLine
<1>9. Changed(u, gone, R)
  BY <1>5, <1>6, <1>7, <1>8 DEF Changed, Aside
<1>10. Tidy(gone, R, V)
  BY <1>2, <1>9, TidyChanged
<1>11. Tidy(one, R, V)
  BY <1>10, TidyExposed
<1> HIDE DEF one
<1> QED  BY <1>1, <1>11, TidyExposed

LEMMA TidyWrite ==
    ASSUME NEW R, NEW V, NEW c, Tidy(c, R, V), NEW p, NEW callback
    PROVE  Tidy(Write(c, p, callback), R, V)
<1> DEFINE sent == send(c, Request("write", p, "", NoWatcher))
           d == [sent EXCEPT !.writeCallbacks = @ \cup {[id |-> sent.lastId, of |-> p]},
                             !.promised = @ \cup {sent.lastId}]
<1>1. Write(c, p, callback) \in {sent, d}
  BY DEF Write
<1>2. Tidy(sent, R, V)
  BY TidySend
<1> HIDE DEF sent
<1>3. DOMAIN d = Fields
        /\ \A field \in Fields \ {"writeCallbacks", "promised"} : d[field] = sent[field]
  BY <1>2 DEF Tidy, Loose, Formed, Shaped, Fields
<1> HIDE DEF d
<1>4. Tidy(d, R, V)
  BY <1>2, <1>3, TidyCallbacks
<1> QED  BY <1>1, <1>2, <1>4

LEMMA TidyWithQuery ==
    ASSUME NEW R, NEW V, NEW c, Tidy(c, R, V)
    PROVE  Tidy(WithQuery(c), R, V) /\ SameObjects(c, WithQuery(c))
<1> DEFINE w == [NoWatcher EXCEPT !.id = c.lastId + 1]
           added == addWatcher(c, w)
           asked == send(added, Request("nothing", None, "", NoWatcher))
           less == removeWatcher(asked, w)
           d == DeleteWatcher(less, w)
<1>1. WithQuery(c) = d
  BY DEF WithQuery
<1>2. w.id = c.lastId + 1 /\ w.of # Notifier /\ w # NoWatcher
  <2>1. c.lastId \in Nat
    BY DEF Tidy, Loose, Line
  <2>2. w.id = c.lastId + 1 /\ w.of = None /\ NoWatcher.id = 0
    BY DEF NoWatcher
  <2>3. w.id # NoWatcher.id
    BY <2>1, <2>2
  <2> HIDE DEF w
  <2> QED  BY <2>2, <2>3, NotifierIsNoPartition
<1> HIDE DEF w, added, asked, less, d
<1>3. Tidy(added, R, V) /\ SameObjects(c, added)
  BY <1>2, TidyAdd DEF added
<1>4. Tidy(asked, R, V) /\ SameObjects(added, asked)
  BY <1>3, TidySend DEF asked
<1>5. Tidy(less, R, V) /\ SameObjects(asked, less)
  BY <1>4, TidyRemove DEF less
<1>6. w # less.notify.watcher
  BY <1>2, <1>5 DEF Tidy, Loose, OneOfMine
<1>7. Tidy(d, R, V) /\ SameObjects(less, d)
  BY <1>5, <1>6, TidyDelete DEF d
<1> QED  BY <1>1, <1>3, <1>4, <1>5, <1>7 DEF SameObjects

LEMMA TidyFind ==
    ASSUME NEW R, NEW V, NEW c, Tidy(c, R, V), NEW p, NEW query, NEW callback
    PROVE  Tidy(find(c, p, query, callback), R, V)
<1> DEFINE made == WithQuery(c)
           sent == send(made, Request("find", p, "", NoWatcher))
           waiting(d, id) ==
               IF callback THEN [d EXCEPT !.findCallbacks = @ \cup {[id |-> id, of |-> p]},
                                          !.promised = @ \cup {id}] ELSE d
<1>1. find(c, p, query, callback) \in {Exposed(waiting(made, None), "unasked"), waiting(sent,
        sent.lastId)}
  BY DEF find
<1>2. Tidy(made, R, V)
  BY TidyWithQuery
<1> HIDE DEF made
<1>3. Tidy(sent, R, V)
  BY <1>2, TidySend
<1> HIDE DEF sent
<1>4. ASSUME NEW d, Tidy(d, R, V), NEW id PROVE Tidy(waiting(d, id), R, V)
  <2> DEFINE e == [d EXCEPT !.findCallbacks = @ \cup {[id |-> id, of |-> p]},
                            !.promised = @ \cup {id}]
  <2>1. waiting(d, id) \in {e, d}
    OBVIOUS
  <2>2. DOMAIN e = Fields
          /\ \A field \in Fields \ {"findCallbacks", "promised"} : e[field] = d[field]
    BY <1>4 DEF Tidy, Loose, Formed, Shaped, Fields
  <2> HIDE DEF e
  <2>3. Tidy(e, R, V)
    BY <1>4, <2>2, TidyCallbacks
  <2> QED  BY <1>4, <2>1, <2>3
<1> HIDE DEF waiting
<1>5. Tidy(waiting(made, None), R, V) /\ Tidy(waiting(sent, sent.lastId), R, V)
  BY <1>2, <1>3, <1>4
<1> QED  BY <1>1, <1>5, TidyExposed

\* A new one.
Created(c, p, query) ==
    [c EXCEPT !.notify = [alive |-> TRUE, partition |-> p, query |-> query, actions |-> Action,
                          enabled |-> TRUE, status |-> "Null", watcher |-> NoWatcher,
                            follows |-> {p}]]

LEMMA TidyCreated ==
    ASSUME NEW R, NEW V, NEW c, Tidy(c, R, V), ~c.notify.alive, NEW p, NEW query
    PROVE  LET d == Created(c, p, query)
           IN /\ Tidy(d, R, V) /\ d.partition = c.partition /\ d.watchers = c.watchers
              /\ d.lastId = c.lastId
              /\ d.notify = [alive |-> TRUE, partition |-> p, query |-> query, actions |-> Action,
                             enabled |-> TRUE, status |-> "Null", watcher |-> NoWatcher,
                             follows |-> {p}]
<1> DEFINE n == [alive |-> TRUE, partition |-> p, query |-> query, actions |-> Action,
                 enabled |-> TRUE, status |-> "Null", watcher |-> NoWatcher, follows |-> {p}]
           d == Created(c, p, query)
<1>1. d = [c EXCEPT !.notify = n]
  BY DEF Created
<1>2. Formed(c) /\ OneOfMine(c) /\ Loose(c, R, V) /\ c.notify.watcher = NoWatcher
  BY DEF Tidy, Loose, OneOfMine
<1>3. DOMAIN n = NotifyFields /\ n.watcher = NoWatcher /\ n.alive /\ n.status = "Null"
  BY DEF NotifyFields
<1> HIDE DEF n, d
<1>4. /\ DOMAIN d = Fields /\ d.notify = n
      /\ \A field \in Fields \ {"notify"} : d[field] = c[field]
  BY <1>1, <1>2 DEF Formed, Shaped, Fields
<1>5. /\ Aside(c, d) /\ d.partition = c.partition /\ d.watchers = c.watchers
      /\ d.lastId = c.lastId
  BY <1>2, <1>3, <1>4 DEF Aside, Formed, Shaped, Fields, SameLine
<1>6. OneOfMine(d)
  BY <1>2, <1>3, <1>4, <1>5 DEF OneOfMine
<1>7. Loose(d, R, V)
  BY <1>2, <1>5, <1>6, LooseAside
<1>8. Heard(d, R, V)
  BY <1>3, <1>4 DEF Heard, Internal
<1> QED  BY <1>4, <1>5, <1>7, <1>8 DEF Tidy, n, d

LEMMA TidyCreateNotification ==
    ASSUME NEW R, NEW V, NEW c, Tidy(c, R, V), ~c.notify.alive, NEW p, NEW query
    PROVE  Tidy(createNotification(c, p, query), R, V)
<1>1. createNotification(c, p, query) = initNotify(Created(c, p, query))
  BY DEF createNotification, Created
<1>2. Tidy(Created(c, p, query), R, V)
  BY TidyCreated
<1> QED  BY <1>1, <1>2, TidyInitNotify

\* The query object asks something else.
LEMMA TidyQuerySet ==
    ASSUME NEW R, NEW V, NEW c, Tidy(c, R, V), NEW q,
           DOMAIN q = {"alive", "partition", "status", "request"},
           q.request \in 0 .. c.lastId,
           \A r \in Sent(c) : r.id = q.request => r.kind = "query"
    PROVE  Tidy([c EXCEPT !.query = q], R, V)
<1> DEFINE d == [c EXCEPT !.query = q]
<1>1. /\ Formed(c) /\ Line(c) /\ InOrder(c) /\ Tagged(c) /\ Known(c, R, V) /\ Followed(c, R)
      /\ OneOfMine(c) /\ Heard(c, R, V)
  BY DEF Tidy, Loose
<1>2. /\ DOMAIN d = Fields /\ d.query = q
      /\ \A field \in Fields \ {"query"} : d[field] = c[field]
  BY <1>1 DEF Formed, Shaped, Fields
<1> HIDE DEF d
<1>3. /\ Formed(d) /\ SameLine(c, d) /\ d.partition = c.partition /\ d.notify = c.notify
      /\ d.watchers = c.watchers /\ d.exposed = c.exposed
  BY <1>1, <1>2 DEF Formed, Shaped, Fields, SameLine
<1>4. Sent(d) = Sent(c) /\ Line(d) /\ InOrder(d)
  BY <1>1, <1>3 DEF Sent, Line, InOrder, SameLine
<1>5. Tagged(d)
  BY <1>1, <1>2, <1>3, <1>4 DEF Tagged, SameLine
<1>6. Known(d, R, V)
  BY <1>1, <1>2, <1>3, <1>4 DEF Known, SameLine
<1>7. Followed(d, R) /\ OneOfMine(d) /\ Heard(d, R, V)
  BY <1>1, <1>3, <1>4 DEF Followed, Added, Removed, OneOfMine, Heard, SameLine
<1> QED  BY <1>3, <1>4, <1>5, <1>6, <1>7 DEF Tidy, Loose, d

LEMMA TidyCreateQuery ==
    ASSUME NEW R, NEW V, NEW c, Tidy(c, R, V), NEW p
    PROVE  Tidy(createQuery(c, p), R, V)
<1> DEFINE made == WithQuery(c)
           q == [alive |-> TRUE, partition |-> p, status |-> "Null", request |-> 0]
<1>1. createQuery(c, p) = [made EXCEPT !.query = q]
  BY DEF createQuery
<1>2. Tidy(made, R, V)
  BY TidyWithQuery
<1> HIDE DEF made
<1>3. made.lastId \in Nat /\ \A r \in Sent(made) : r.id \in 1 .. made.lastId
  BY <1>2, WaitingIsSent DEF Tidy, Loose, Line
<1>4. /\ DOMAIN q = {"alive", "partition", "status", "request"} /\ q.request = 0
      /\ 0 \in 0 .. made.lastId /\ \A r \in Sent(made) : r.id # 0
  BY <1>3
<1> HIDE DEF q
<1> QED  BY <1>1, <1>2, <1>4, TidyQuerySet

\* What was sent last.
LEMMA SentLast ==
    ASSUME NEW R, NEW V, NEW c, Tidy(c, R, V), NEW of, NEW name
    PROVE  LET d == send(c, Request("query", of, name, NoWatcher))
           IN \A r \in Sent(d) : r.id = d.lastId => r.kind = "query"
<1> DEFINE q == [Request("query", of, name, NoWatcher) EXCEPT !.id = c.lastId + 1]
           e == [c EXCEPT !.lastId = c.lastId + 1, !.queue = Inserted(@, q)]
           d == send(c, Request("query", of, name, NoWatcher))
<1>1. Formed(c) /\ Line(c) /\ InOrder(c) /\ c.lastId \in Nat
  BY DEF Tidy, Loose, Line
<1>2. d = handleRequestQueue(e)
  BY DEF send
<1>3. q.id = c.lastId + 1 /\ q.kind = "query"
  BY DEF Request
<1> HIDE DEF q
<1>4. Formed(e) /\ Queued(c, e, q)
  BY <1>1, <1>3 DEF Formed, Shaped, Fields, Queued
<1> HIDE DEF d, e
<1>5. Line(e) /\ InOrder(e) /\ Sent(e) = Sent(c) \cup {q}
  BY <1>1, <1>4, QueuedInOrder
<1>6. Sent(d) = Sent(e) /\ d.lastId = c.lastId + 1
  BY <1>2, <1>4, <1>5, QueueInOrder DEF Queued
<1>7. \A r \in Sent(c) : r.id # c.lastId + 1
  <2>1. \A r \in Sent(c) : r.id \in 1 .. c.lastId
    BY <1>1, WaitingIsSent
  <2> QED  BY <1>1, <2>1
<1> QED  BY <1>3, <1>5, <1>6, <1>7 DEF d

\* The request under way is deleted.
Stopped(c) ==
    LET old == c.query.request
    IN [c EXCEPT !.queue = Without(@, {r \in Pending(c) : r.id = old}),
                 !.current = IF @ = old THEN None ELSE @]

LEMMA TidyStopped ==
    ASSUME NEW R, NEW V, NEW c, Tidy(c, R, V)
    PROVE  LET rid == Stopped(c)
           IN /\ Tidy(rid, R, V) /\ SameObjects(c, rid)
              /\ rid.watchers = c.watchers /\ rid.lastId = c.lastId /\ rid.exposed = c.exposed
<1> DEFINE old == c.query.request
           gone == {r \in Pending(c) : r.id = old}
           rid == [c EXCEPT !.queue = Without(@, gone), !.current = IF @ = old THEN None ELSE @]
<1>0. Stopped(c) = rid
  BY DEF Stopped
<1>1. /\ Formed(c) /\ Line(c) /\ InOrder(c) /\ Tagged(c) /\ Known(c, R, V) /\ Followed(c, R)
      /\ OneOfMine(c) /\ Heard(c, R, V)
  BY DEF Tidy, Loose
<1>2. gone \subseteq Pending(c) /\ \A r \in gone : r.id = old
  OBVIOUS
<1>3. \A r \in Sent(c) : r.id = old => r.kind = "query" /\ ~Internal(r)
  BY <1>1 DEF Tagged
<1> HIDE DEF gone, old
<1>4. /\ Formed(rid) /\ Cut(c, rid, gone) /\ SameObjects(c, rid)
      /\ rid.watchers = c.watchers /\ rid.exposed = c.exposed
      /\ rid.current = IF c.current = old THEN None ELSE c.current
      /\ rid.wire = c.wire /\ rid.lastId = c.lastId
  BY <1>1, <1>2 DEF Formed, Shaped, Fields, Cut, SameObjects
<1> HIDE DEF rid
<1>5. /\ Line(rid) /\ InOrder(rid) /\ Sent(rid) \subseteq Sent(c)
      /\ \A r \in Sent(c) : r \in Sent(rid) \/ r \in gone
  BY <1>1, <1>4, CutInOrder
<1>6. Tagged(rid) /\ Known(rid, R, V)
  <2>1. Tagged(rid)
    BY <1>1, <1>4, <1>5 DEF Tagged, SameObjects
  <2>2. Known(rid, R, V)
    BY <1>1, <1>4, <1>5 DEF Known, SameObjects
  <2> QED  BY <2>1, <2>2
<1>7. Added(rid) = Added(c) /\ Removed(rid) = Removed(c)
  <2>1. \A r \in Sent(c) : r.kind \in {"add", "remove"} => r \in Sent(rid)
    BY <1>1, <1>2, <1>3, <1>5 DEF Tagged
  <2>2. {t \in Sent(rid) : t.kind = "add"} = {t \in Sent(c) : t.kind = "add"}
    BY <1>5, <2>1
  <2>3. {t \in Sent(rid) : t.kind = "remove"} = {t \in Sent(c) : t.kind = "remove"}
    BY <1>5, <2>1
  <2> QED  BY <2>2, <2>3 DEF Added, Removed
<1>8. Followed(rid, R) /\ OneOfMine(rid)
  BY <1>1, <1>4, <1>7 DEF Followed, OneOfMine, SameObjects
<1>9. Heard(rid, R, V)
  <2> SUFFICES ASSUME NEW r \in Members(c.wire), Internal(r), r.watcher = c.notify.watcher
               PROVE  r.id = rid.current
    BY <1>1, <1>4 DEF Heard, SameObjects
  <2>1. r.id = c.current
    BY <1>1 DEF Heard
  <2>2. r.id # old
    BY <1>3 DEF Sent
  <2> QED  BY <1>4, <2>1, <2>2
<1>10. Tidy(rid, R, V)
  BY <1>4, <1>5, <1>6, <1>8, <1>9 DEF Tidy, Loose
<1> QED  BY <1>0, <1>4, <1>10

LEMMA TidyStart ==
    ASSUME NEW R, NEW V, NEW c, Tidy(c, R, V)
    PROVE  Tidy(start(c), R, V)
<1> DEFINE rid == Stopped(c)
           sent == send(rid, Request("query", c.query.partition, "", NoWatcher))
           q == [sent.query EXCEPT !.status = "Loading", !.request = sent.lastId]
           d == [sent EXCEPT !.query.status = "Loading", !.query.request = sent.lastId]
<1>1. start(c) \in {c, d}
  BY DEF start, Stopped
<1>2. Tidy(rid, R, V)
  BY TidyStopped
<1> HIDE DEF rid, d
<1>3. Tidy(sent, R, V)
  BY <1>2, TidySend
<1>4. \A r \in Sent(sent) : r.id = sent.lastId => r.kind = "query"
  <2> DEFINE of == c.query.partition
             name == ""
             e == send(rid, Request("query", of, name, NoWatcher))
  <2>1. sent = e
    OBVIOUS
  <2> HIDE DEF of, name, sent
  <2>2. \A r \in Sent(e) : r.id = e.lastId => r.kind = "query"
    BY <1>2, SentLast, Zenon
  <2> QED  BY <2>1, <2>2
<1> HIDE DEF sent
<1>5. Formed(sent) /\ sent.lastId \in Nat
  BY <1>3 DEF Tidy, Loose, Line
<1>6. d = [sent EXCEPT !.query = q]
  BY <1>5 DEF d, Formed, Shaped, Fields
<1>7. DOMAIN q = {"alive", "partition", "status", "request"} /\ q.request = sent.lastId
  BY <1>5 DEF Formed, Shaped
<1>8. q.request \in 0 .. sent.lastId
  BY <1>5, <1>7
<1> HIDE DEF q
<1>9. Tidy([sent EXCEPT !.query = q], R, V)
  BY <1>3, <1>4, <1>7, <1>8, TidyQuerySet
<1> QED  BY <1>1, <1>6, <1>9

-----------------------------------------------------------------------------
(***************************************************************************)
(* Answers.                                                                *)
(***************************************************************************)
\* What is accepted when a request is answered.
Listed(r, ok, R) ==
    CASE r.kind = "add" /\ ok -> R \cup {r.watcher}
      [] r.kind = "remove" -> R \ {r.watcher}
      [] OTHER -> R

LEMMA ListedIs ==
    ASSUME NEW r, NEW ok \in BOOLEAN, NEW R
    PROVE  /\ r.kind = "add" /\ ok => Listed(r, ok, R) = R \cup {r.watcher}
           /\ r.kind = "remove" => Listed(r, ok, R) = R \ {r.watcher}
           /\ ~(r.kind = "add" /\ ok) /\ r.kind # "remove" => Listed(r, ok, R) = R
BY DEF Listed

\* The head of the wire is read.
Popped(c, d) ==
    /\ Formed(d) /\ SameObjects(c, d) /\ d.watchers = c.watchers /\ d.exposed = c.exposed
    /\ d.wire = Tail(c.wire) /\ d.queue = c.queue /\ d.lastId = c.lastId
    /\ d.current \in {c.current, None}

LEMMA LoosePopped ==
    ASSUME NEW R, NEW V, NEW c, Loose(c, R, V), c.wire # <<>>, NEW d, Popped(c, d),
           NEW ok \in BOOLEAN
    PROVE  /\ Loose(d, Listed(Head(c.wire), ok, R), V)
           /\ Head(c.wire) \in Sent(c) /\ Head(c.wire) \in Members(c.wire)
           /\ Members(d.wire) \subseteq Members(c.wire)
           /\ \A t \in Sent(d) : t \in Sent(c) /\ t.id # Head(c.wire).id
<1> DEFINE r == Head(c.wire)
           L == Listed(r, ok, R)
<1>1. /\ Formed(c) /\ Line(c) /\ InOrder(c) /\ Tagged(c) /\ Known(c, R, V) /\ Followed(c, R)
      /\ OneOfMine(c) /\ c.lastId \in Nat
  BY DEF Loose, Line
<1>2. /\ IsSeq(d.wire) /\ Members(c.wire) = {r} \cup Members(d.wire) /\ Distinct(d.wire)
      /\ r.id \notin Ids(Members(d.wire))
  BY <1>1, TailFacts DEF Line, InOrder, Popped
<1>3. /\ Picks(c.wire, d.wire)
      /\ \A t \in Members(d.wire) : Internal(r) /\ Internal(t) => r.id < t.id
  BY <1>1, TailPicks DEF Line, InOrder, Popped
<1>4. /\ r.kind = "add" /\ ok => L = R \cup {r.watcher}
      /\ r.kind = "remove" => L = R \ {r.watcher}
      /\ ~(r.kind = "add" /\ ok) /\ r.kind # "remove" => L = R
  BY ListedIs
<1> HIDE DEF r, L
<1>5. /\ d.queue = c.queue /\ d.lastId = c.lastId /\ d.watchers = c.watchers
      /\ d.exposed = c.exposed /\ SameObjects(c, d)
  BY DEF Popped
<1>6. r \in Sent(c) /\ Sent(d) \subseteq Sent(c) /\ Sent(c) = {r} \cup Sent(d)
  BY <1>2, <1>5 DEF Sent
<1>7. \A t \in Members(d.queue) : r.id # t.id /\ (Internal(r) /\ Internal(t) => r.id < t.id)
  BY <1>1, <1>2, <1>5 DEF InOrder
<1>8. \A t \in Sent(d) : r.id # t.id /\ (Internal(r) /\ Internal(t) => r.id < t.id)
  BY <1>2, <1>3, <1>7 DEF Sent, Ids
<1>9. Line(d)
  <2>1. Ids(Sent(d)) \subseteq 1 .. d.lastId
    BY <1>1, <1>5, <1>6 DEF Line, Ids
  <2>2. d.current \in 0 .. d.lastId
    BY <1>1, <1>5 DEF Line, Popped, None
  <2>3. d.current \notin Ids(Members(d.queue))
    <3>1. \A t \in Members(c.queue) : t.id \in 1 .. c.lastId
      BY <1>1, WaitingIsSent DEF Sent
    <3>2. None \notin Ids(Members(c.queue))
      BY <1>1, <3>1 DEF Ids, None
    <3> QED  BY <1>1, <1>5, <3>2 DEF Line, Popped
  <2> QED  BY <1>1, <1>2, <1>5, <2>1, <2>2, <2>3 DEF Line
<1>10. InOrder(d)
  <2>1. Rises(d.wire)
    BY <1>1, <1>3, PicksKeepOrder DEF InOrder
  <2> QED  BY <1>1, <1>2, <1>5, <2>1 DEF InOrder
<1>11. Tagged(d)
  BY <1>1, <1>5, <1>6 DEF Tagged, SameObjects
<1>12. Known(d, L, V)
  <2>1. d.query.request \in 0 .. d.lastId
    BY <1>1, <1>5 DEF Known, SameObjects
  <2>2. \A w \in d.watchers \cup L : w # NoWatcher /\ w.id \in 1 .. d.lastId
    <3>1. r.kind = "add" => r.watcher # NoWatcher /\ r.watcher.id \in 1 .. c.lastId
      BY <1>1, <1>6 DEF Tagged, Internal
    <3>2. \A w \in L : w \in R \/ (r.kind = "add" /\ w = r.watcher)
      BY <1>4
    <3> QED  BY <1>1, <1>5, <3>1, <3>2 DEF Known
  <2>3. \A w \in V.noticed : w.id \in 1 .. d.lastId /\ (w \in d.watchers => w \in L)
    <3>1. r.kind = "remove" => r.watcher \notin c.watchers
      BY <1>1, <1>6 DEF Tagged
    <3>2. \A w \in R : w \in c.watchers => w \in L
      BY <1>4, <3>1
    <3> QED  BY <1>1, <1>5, <3>2 DEF Known
  <2>4. \A t \in Sent(d) : t.kind = "add" => t.watcher \notin L
    <3> SUFFICES ASSUME NEW t \in Sent(d), t.kind = "add", t.watcher \in L PROVE FALSE
      OBVIOUS
    <3>1. t.watcher \notin R
      BY <1>1, <1>6 DEF Known
    <3>2. r.kind = "add" /\ t.watcher = r.watcher
      BY <1>4, <3>1
    <3>3. t.id = r.id
      BY <1>1, <1>6, <3>2 DEF Tagged
    <3> QED  BY <1>8, <3>3
  <2> QED  BY <2>1, <2>2, <2>3, <2>4 DEF Known
<1>13. Followed(d, L)
  <2>1. CASE r.kind # "remove"
    <3>1. L \cup Added(d) \subseteq R \cup Added(c)
      <4>1. Added(d) \subseteq Added(c)
        BY <1>6 DEF Added
      <4>2. r.kind = "add" => r.watcher \in Added(c)
        BY <1>6 DEF Added
      <4> QED  BY <1>4, <2>1, <4>1, <4>2
    <3>2. Removed(c) = Removed(d)
      <4>1. {t \in Sent(c) : t.kind = "remove"} = {t \in Sent(d) : t.kind = "remove"}
        BY <1>6, <2>1
      <4> QED  BY <4>1 DEF Removed
    <3> QED  BY <1>1, <1>5, <3>1, <3>2 DEF Followed
  <2>2. CASE r.kind = "remove"
    <3> SUFFICES ASSUME "dropped" \notin c.exposed, NEW u \in L \cup Added(d)
                 PROVE  u \in c.watchers \cup Removed(d)
      BY <1>5 DEF Followed
    <3>1. u \in R \cup Added(c)
      BY <1>4, <1>6, <2>2 DEF Added
    <3>2. u \in c.watchers \cup Removed(c)
      BY <1>1, <3>1 DEF Followed
    <3>3. u # r.watcher
      <4>1. CASE u \in L
        BY <1>4, <2>2, <4>1
      <4>2. CASE u \in Added(d)
        <5>1. PICK t \in Sent(d) : t.kind = "add" /\ t.watcher = u
          BY <4>2 DEF Added
        <5>2. Internal(t) /\ Internal(r) /\ t.id = t.watcher.id /\ r.watcher.id < r.id
          BY <1>1, <1>6, <2>2, <5>1 DEF Tagged
        <5>3. r.id < t.id
          BY <1>8, <5>2
        <5>4. r.id \in Int /\ t.id \in Int
          BY <1>1, <1>6, WaitingIsSent
        <5> QED  BY <5>1, <5>2, <5>3, <5>4
      <4> QED  BY <4>1, <4>2
    <3>4. CASE u \in Removed(c)
      <4>1. PICK t \in Sent(c) : t.kind = "remove" /\ t.watcher = u
        BY <3>4 DEF Removed
      <4>2. t \in Sent(d)
        BY <1>6, <3>3, <4>1
      <4> QED  BY <4>1, <4>2 DEF Removed
    <3> QED  BY <3>2, <3>4
  <2> QED  BY <2>1, <2>2
<1>14. OneOfMine(d)
  BY <1>1, <1>5 DEF OneOfMine, SameObjects
<1>15. Loose(d, L, V)
  BY <1>9, <1>10, <1>11, <1>12, <1>13, <1>14 DEF Loose, Popped
<1> QED  BY <1>2, <1>6, <1>8, <1>15 DEF r, L

LEMMA TidyCalledBack ==
    ASSUME NEW R, NEW V, NEW c, Tidy(c, R, V), NEW id
    PROVE  /\ Tidy(requestFinished(c, id), R, V) /\ Tidy(requestError(c, id), R, V)
           /\ Tidy(queryFinished(c, id), R, V) /\ Tidy(queryStatusChanged(c, id), R, V)
<1> DEFINE A(ok) == [Called(c, id, ok) EXCEPT !.writeCallbacks = {r \in @ : r.id # id}]
           B(ok) == [Called(c, id, ok) EXCEPT !.findCallbacks = {r \in @ : r.id # id}]
<1>1. DOMAIN c = Fields
  BY DEF Tidy, Loose, Formed, Shaped
<1>2. ASSUME NEW ok PROVE Tidy(A(ok), R, V) /\ Tidy(B(ok), R, V)
  <2> DEFINE a == A(ok)
             b == B(ok)
  <2>1. /\ DOMAIN a = Fields
             /\ \A field \in Fields \ {"writeCallbacks", "called"} : a[field] = c[field]
        /\ DOMAIN b = Fields
             /\ \A field \in Fields \ {"findCallbacks", "called"} : b[field] = c[field]
    BY <1>1 DEF Called, Fields
  <2> SUFFICES Tidy(a, R, V) /\ Tidy(b, R, V)
    OBVIOUS
  <2> HIDE DEF a, b
  <2> QED  BY <2>1, TidyCallbacks
<1>3. /\ requestFinished(c, id) \in {c, A(TRUE)} /\ requestError(c, id) \in {c, A(FALSE)}
      /\ queryFinished(c, id) \in {c, B(TRUE)} /\ queryStatusChanged(c, id) \in {c, B(FALSE)}
  BY DEF requestFinished, requestError, queryFinished, queryStatusChanged, call, callErrorCallback
<1> HIDE DEF A, B
<1> QED  BY <1>2, <1>3

LEMMA TidyHandled ==
    ASSUME NEW R, NEW V, NEW c, Tidy(c, R, V), NEW r, NEW ok \in BOOLEAN,
           r.kind = "add" /\ ok => r.watcher \in R, ~(r.kind = "remove" /\ ok)
    PROVE  Tidy(Handled(c, r, ok), R, V)
<1>1. CASE r.kind \in {"write", "find"}
  BY <1>1, HandledIs, TidyCalledBack
<1>2. CASE r.kind = "query"
  <2> DEFINE q == [c.query EXCEPT !.status = IF ok THEN "Ready" ELSE "Error"]
             d == [c EXCEPT !.query = q]
  <2>1. Handled(c, r, ok) \in {c, d}
    BY <1>2, HandledIs
  <2>2. /\ DOMAIN q = {"alive", "partition", "status", "request"} /\ q.request = c.query.request
        /\ c.query.request \in 0 .. c.lastId
        /\ \A t \in Sent(c) : t.id = c.query.request => t.kind = "query"
    BY DEF Tidy, Loose, Formed, Shaped, Known, Tagged
  <2> HIDE DEF q
  <2>3. Tidy(d, R, V)
    BY <2>2, TidyQuerySet
  <2> QED  BY <2>1, <2>3
<1>3. CASE r.kind = "add" /\ r.watcher \in c.watchers
  <2>1. PICK status : /\ Handled(c, r, ok) = StatusOf(c, r.watcher, status)
                      /\ status = "Ready" => ok
    BY <1>3 DEF Handled
  <2>2. status = "Ready" => r.watcher \in R
    BY <1>3, <2>1
  <2> QED  BY <2>1, <2>2, TidyStatusOf
<1>4. CASE r.kind = "state" /\ ok
  <2>1. \E p, name, found : Handled(c, r, ok) = partitionQueryFinished(c, p, name, found)
    BY <1>4 DEF Handled
  <2> QED  BY <2>1, TidyPartitionQueryFinished
<1>5. CASE r.kind = "state" /\ ~ok
  <2>1. \E p : Handled(c, r, ok) = partitionQueryError(c, p)
    BY <1>5 DEF Handled
  <2> QED  BY <2>1, TidyPartitionQueryError
<1>6. CASE /\ ~(r.kind = "add" /\ r.watcher \in c.watchers)
           /\ r.kind \notin {"write", "find", "query", "state"}
  <2>1. Handled(c, r, ok) = c
    BY <1>6 DEF Handled
  <2> QED  BY <2>1
<1> QED  BY <1>1, <1>2, <1>3, <1>4, <1>5, <1>6

\* A watcher is removed: whose it was is ready no more.
LEMMA TidyUnlisted ==
    ASSUME NEW R, NEW V, NEW c, NEW w, Loose(c, R \ {w}, V),
           c.notify.status = "Ready" => c.notify.watcher \in R \cup V.forgotten,
           \A r \in Members(c.wire) : Internal(r) => r.watcher # c.notify.watcher
    PROVE  Tidy(StatusOf(c, w, "Null"), R \ {w}, V)
<1> DEFINE n == [c.notify EXCEPT !.status = "Null"]
           d == Ended(c, n)
<1>1. Formed(c) /\ OneOfMine(c)
  BY DEF Loose
<1>2. CASE c.notify.watcher = w
  <2>1. StatusOf(c, w, "Null") = d
    BY <1>2 DEF StatusOf, Ended
  <2>2. /\ DOMAIN n = NotifyFields /\ n.watcher = c.notify.watcher /\ n.alive = c.notify.alive
        /\ n.query = c.notify.query /\ n.status = "Null"
    BY <1>1 DEF Formed, NotifyFields
  <2> HIDE DEF n
  <2>3. /\ DOMAIN d = Fields /\ d.notify = n
        /\ \A field \in Fields \ {"notify"} : d[field] = c[field]
    BY <1>1 DEF Formed, Shaped, Fields, Ended
  <2> HIDE DEF d
  <2>4. Aside(c, d) /\ d.partition = c.partition /\ d.watchers = c.watchers /\ d.wire = c.wire
    BY <1>1, <2>2, <2>3 DEF Aside, Formed, Shaped, Fields, SameLine
  <2>5. OneOfMine(d)
    BY <1>1, <2>2, <2>3, <2>4 DEF OneOfMine
  <2>6. Loose(d, R \ {w}, V)
    BY <2>4, <2>5, LooseAside
  <2>7. Heard(d, R \ {w}, V)
    BY <2>2, <2>3, <2>4 DEF Heard
  <2> QED  BY <2>1, <2>6, <2>7 DEF Tidy
<1>3. CASE c.notify.watcher # w
  <2>1. StatusOf(c, w, "Null") = c
    BY <1>3 DEF StatusOf
  <2>2. Heard(c, R \ {w}, V)
    BY <1>3 DEF Heard
  <2> QED  BY <2>1, <2>2 DEF Tidy
<1> QED  BY <1>2, <1>3

\* The answer at the head of the wire: to a request that is no more, or to the
\* one that is current.
LEMMA TidyRead ==
    ASSUME NEW R, NEW V, NEW c, Tidy(c, R, V), c.wire # <<>>, NEW ok \in BOOLEAN,
           Head(c.wire).kind = "remove" /\ ~ok => Head(c.wire).watcher \notin R \ V.forgotten
    PROVE  LET r == Head(c.wire)
               L == Listed(r, ok, R)
               read == [c EXCEPT !.wire = Tail(@)]
               e == [read EXCEPT !.current = None]
           IN /\ Popped(c, read) /\ Popped(c, e) /\ r \in Members(c.wire)
              /\ r.id # c.current => Tidy(read, L, V)
              /\ r.id = c.current /\ ~(r.kind = "remove" /\ ok) => Tidy(e, L, V)
              /\ r.id = c.current => Tidy(Handled(e, r, ok), L, V)
<1> DEFINE r == Head(c.wire)
           L == Listed(r, ok, R)
           read == [c EXCEPT !.wire = Tail(@)]
           e == [read EXCEPT !.current = None]
<1>1. /\ Formed(c) /\ Line(c) /\ InOrder(c) /\ Tagged(c) /\ Loose(c, R, V) /\ Heard(c, R, V)
  BY DEF Tidy, Loose
<1>2. Popped(c, read) /\ read.current = c.current /\ Popped(c, e) /\ e.current = None
  BY <1>1 DEF Popped, Formed, Shaped, Fields, SameObjects
<1> HIDE DEF read, e
<1>3. /\ Loose(read, L, V) /\ Loose(e, L, V) /\ r \in Sent(c) /\ r \in Members(c.wire)
      /\ Members(read.wire) \subseteq Members(c.wire) /\ Members(e.wire) \subseteq Members(c.wire)
      /\ \A t \in Sent(e) : t.id # r.id
  BY <1>1, <1>2, LoosePopped
<1>4. /\ r.kind = "add" /\ ok => L = R \cup {r.watcher}
      /\ r.kind = "remove" => L = R \ {r.watcher}
      /\ ~(r.kind = "add" /\ ok) /\ r.kind # "remove" => L = R
  BY ListedIs
<1>5. r.kind = "remove" => Internal(r)
  BY <1>1, <1>3 DEF Tagged
<1>6. r.kind = "remove" /\ ~ok => r.watcher \notin R \ V.forgotten
  OBVIOUS
<1> HIDE DEF r, L
<1>7. ASSUME r.id # c.current PROVE Tidy(read, L, V)
  <2>1. r.kind = "remove" => r.watcher # c.notify.watcher
    BY <1>1, <1>3, <1>5, <1>7 DEF Heard
  <2>2. read.notify = c.notify
    BY <1>2 DEF Popped, SameObjects
  <2>3. c.notify.watcher \in R => c.notify.watcher \in L
    BY <1>4, <2>1
  <2>4. Heard(read, L, V)
    BY <1>1, <1>2, <1>3, <2>2, <2>3 DEF Heard
  <2> QED  BY <1>3, <2>4 DEF Tidy
<1>8. e.notify = c.notify
  BY <1>2 DEF Popped, SameObjects
<1>9. r.id = c.current => \A t \in Members(e.wire) : Internal(t) => t.watcher # e.notify.watcher
  BY <1>1, <1>3, <1>8 DEF Heard, Sent
<1>10. ASSUME r.id = c.current, ~(r.kind = "remove" /\ ok) PROVE Tidy(e, L, V)
  <2>1. R \subseteq L \cup V.forgotten
    BY <1>4, <1>6, <1>10
  <2>2. Heard(e, L, V)
    BY <1>1, <1>8, <1>9, <1>10, <2>1 DEF Heard
  <2> QED  BY <1>3, <2>2 DEF Tidy
<1>11. ASSUME r.id = c.current PROVE Tidy(Handled(e, r, ok), L, V)
  <2>1. CASE r.kind = "remove" /\ ok
    <3>1. Handled(e, r, ok) = StatusOf(e, r.watcher, "Null")
      BY <2>1 DEF Handled
    <3>2. e.notify.status = "Ready" => e.notify.watcher \in R \cup V.forgotten
      BY <1>1, <1>8 DEF Heard
    <3>3. Tidy(StatusOf(e, r.watcher, "Null"), R \ {r.watcher}, V)
      BY <1>3, <1>4, <1>9, <1>11, <2>1, <3>2, TidyUnlisted
    <3> QED  BY <1>4, <2>1, <3>1, <3>3
  <2>2. CASE ~(r.kind = "remove" /\ ok)
    <3>1. r.kind = "add" /\ ok => r.watcher \in L
      BY <1>4
    <3> QED  BY <1>10, <1>11, <2>2, <3>1, TidyHandled
  <2> QED  BY <2>1, <2>2
<1> QED  BY <1>2, <1>3, <1>7, <1>10, <1>11 DEF r, L, read, e

LEMMA TidyAnswered ==
    ASSUME NEW R, NEW V, NEW c, Tidy(c, R, V), c.wire # <<>>, NEW ok \in BOOLEAN,
           Head(c.wire).kind = "remove" /\ ~ok => Head(c.wire).watcher \notin R \ V.forgotten
    PROVE  Tidy(Answered(c, Head(c.wire), ok), Listed(Head(c.wire), ok, R), V)
<1> DEFINE r == Head(c.wire)
           L == Listed(r, ok, R)
           read == [c EXCEPT !.wire = Tail(@)]
           e == [read EXCEPT !.current = None]
<1>1. Answered(c, r, ok) = IF r.id = c.current THEN handleRequestQueue(Handled(e, r, ok))
                           ELSE handleRequestQueue(read)
  BY DEF Answered
<1>2. /\ r.id # c.current => Tidy(read, L, V)
      /\ r.id = c.current => Tidy(Handled(e, r, ok), L, V)
  BY TidyRead
<1> HIDE DEF r, L, read, e
<1>3. CASE r.id # c.current
  <2>1. Tidy(handleRequestQueue(read), L, V)
    BY <1>2, <1>3, TidyQueue
  <2> QED  BY <1>1, <1>3, <2>1 DEF r, L
<1>4. CASE r.id = c.current
  <2>1. Tidy(handleRequestQueue(Handled(e, r, ok)), L, V)
    BY <1>2, <1>4, TidyQueue
  <2> QED  BY <1>1, <1>4, <2>1 DEF r, L
<1> QED  BY <1>3, <1>4

-----------------------------------------------------------------------------
(***************************************************************************)
(* The specification.                                                      *)
(***************************************************************************)
LEMMA NoObjectsAreTidy == Tidy(NoObjects, {}, NoPast)
<1> DEFINE c == NoObjects
<1>1. /\ Shaped(c) /\ Line(c)
  BY NoObjectsAreSound DEF Sound
<1>2. /\ Formed(c) /\ c.queue = <<>> /\ c.wire = <<>> /\ c.lastId = 0 /\ c.watchers = {}
      /\ c.query.request = 0 /\ c.notify.watcher = NoWatcher /\ c.notify.query = ""
      /\ c.notify.status = "Null"
      /\ \A p \in Partition : c.partition[p].partitionWatcher = NoWatcher
  BY <1>1 DEF NoObjects, Formed, PartitionFields, NotifyFields
<1> HIDE DEF c
<1>3. Sent(c) = {} /\ Members(c.wire) = {} /\ Members(c.queue) = {}
  BY <1>2, NothingSent DEF Sent
<1>4. DOMAIN c.wire = {} /\ DOMAIN c.queue = {}
  <2>1. PICK e, S : e = <<>> /\ S = Nat
    OBVIOUS
  <2>2. DOMAIN e = 1 .. 0
    BY <2>1, EmptySeq, LenProperties
  <2>3. c.wire = e /\ c.queue = e
    BY <1>2, <2>1
  <2> QED  BY <2>2, <2>3
<1>5. InOrder(c) /\ Tagged(c)
  BY <1>3, <1>4 DEF InOrder, Rises, Leads, Distinct, Tagged
<1>6. Known(c, {}, NoPast) /\ Followed(c, {})
  <2>1. c.query.request \in 0 .. c.lastId
    <3>1. \A m, n : m = 0 /\ n = 0 => m \in 0 .. n
      OBVIOUS
    <3> QED  BY <1>2, <3>1
  <2>2. Known(c, {}, NoPast)
    BY <1>2, <1>3, <2>1 DEF Known, NoPast
  <2>3. Added(c) = {}
    BY <1>3 DEF Added
  <2>4. Followed(c, {})
    BY <2>3 DEF Followed
  <2> QED  BY <2>2, <2>4
<1>7. OneOfMine(c) /\ Heard(c, {}, NoPast)
  <2>1. NoWatcher.of = None
    BY DEF NoWatcher
  <2> QED  BY <1>2, <1>3, <2>1, NotifierIsNoPartition DEF OneOfMine, Heard
<1> QED  BY <1>1, <1>2, <1>5, <1>6, <1>7 DEF Tidy, Loose, c

LEMMA MadeIsTidy ==
    Tidy(Made, {}, NoPast) /\ ~Made.notify.alive /\ Made.notify = NoObjects.notify
<1> DEFINE n == Len(FirstName)
           Good(c) == Tidy(c, {}, NoPast) /\ c.notify = NoObjects.notify
<1>1. PICK made : MadeBy(made)
  BY MadeIs
<1>2. /\ n \in Nat /\ Made = made[n] /\ made[0] = NoObjects
      /\ \A i \in 1 .. n : made[i] = init(made[i - 1], i)
  BY <1>1 DEF MadeBy
<1>3. Partition = 1 .. n
  <2> DEFINE S == Name \cup {""}
  <2>1. FirstName \in Seq(S)
    BY QmlAssumption
  <2> HIDE DEF S
  <2> QED  BY <2>1, LenProperties DEF Partition
<1> HIDE DEF n
<1> DEFINE S == {m \in Nat : m <= n => Good(made[m])}
<1>4. 0 \in S
  BY <1>2, NoObjectsAreTidy
<1>5. ASSUME NEW m \in Nat, m \in S PROVE m + 1 \in S
  <2> SUFFICES ASSUME m + 1 <= n PROVE Good(made[m + 1])
    OBVIOUS
  <2>1. m + 1 \in 1 .. n /\ (m + 1) - 1 = m /\ Good(made[m])
    BY <1>2, <1>5
  <2>2. made[m + 1] = init(made[m], m + 1)
    BY <1>2, <2>1
  <2>3. m + 1 \in Partition
    BY <1>3, <2>1
  <2>4. Tidy(init(made[m], m + 1), {}, NoPast) /\ init(made[m], m + 1).notify = made[m].notify
    BY <2>1, <2>3, TidyInit
  <2> QED  BY <2>1, <2>2, <2>4
<1> HIDE DEF S
<1>6. Nat \subseteq S
  BY <1>4, <1>5, SetInduction
<1>7. ~NoObjects.notify.alive
  BY DEF NoObjects
<1> QED  BY <1>2, <1>6, <1>7 DEF S

LEMMA NoticedIs == Noticed = {m.watcher : m \in Members(events)}
BY DEF Noticed, Members

LEMMA LessNoticed ==
    ASSUME NEW R, NEW V, NEW c, Tidy(c, R, V), NEW W,
           W.noticed \subseteq V.noticed \cup R, V.forgotten \subseteq W.forgotten
    PROVE  Tidy(c, R, W)
<1>1. \A w \in W.noticed : w.id \in 1 .. c.lastId /\ (w \in c.watchers => w \in R)
  BY DEF Tidy, Loose, Known
<1>2. Heard(c, R, W)
  BY DEF Tidy, Heard
<1> QED  BY <1>1, <1>2 DEF Tidy, Loose, Known

LEMMA RegistrationsAtFirst ==
    ASSUME Init
    PROVE  Registrations
<1>1. accepted = {} /\ forgotten = {} /\ events = <<>>
  BY DEF Init
<1>2. Past = NoPast /\ IsSeq(events)
  BY <1>1, NothingSent, NoticedIs DEF Past, NoPast
<1>3. Tidy(x, {}, NoPast)
  <2>1. CASE x = Made
    BY <2>1, MadeIsTidy
  <2>2. CASE \E p \in Partition, query \in Query : x = createNotification(Made, p, query)
    <3>1. PICK p, query : x = createNotification(Made, p, query)
      BY <2>2
    <3>2. Tidy(Made, {}, NoPast) /\ ~Made.notify.alive
      BY MadeIsTidy
    <3>3. Tidy(createNotification(Made, p, query), {}, NoPast)
      BY <3>2, TidyCreateNotification
    <3> QED  BY <3>1, <3>3
  <2> QED  BY <2>1, <2>2 DEF Init
<1> QED  BY <1>1, <1>2, <1>3, FS_EmptySet DEF Registrations

LEMMA RegistrationsCall ==
    ASSUME Registrations, NEW c, Call(c), Tidy(c, accepted, Past)
    PROVE  Registrations'
BY DEF Registrations, Call, Becomes, Past, Noticed, IsSeq, Members

LEMMA RegistrationsPartitionCall ==
    ASSUME Registrations, PartitionCall
    PROVE  Registrations'
<1> DEFINE R == accepted
           V == Past
<1>1. PICK p \in Partition :
        \/ \E name \in Name : Call(setName(x, p, name))
        \/ \E callback \in BOOLEAN : Call(Write(x, p, callback))
        \/ \E query \in Query \cup {""}, callback \in BOOLEAN : Call(find(x, p, query, callback))
        \/ \E query \in Query : ~x.notify.alive /\ Call(createNotification(x, p, query))
        \/ Call(createQuery(x, p))
        \/ Call(DeletePartition(x, p))
  BY Zenon DEF PartitionCall, create, update, remove
<1>2. Tidy(x, R, V)
  BY DEF Registrations
<1> HIDE DEF R, V
<1>3. ASSUME NEW name, Call(setName(x, p, name)) PROVE Registrations'
  BY <1>2, <1>3, RegistrationsCall, TidySetName DEF R, V
<1>4. ASSUME NEW callback, Call(Write(x, p, callback)) PROVE Registrations'
  BY <1>2, <1>4, RegistrationsCall, TidyWrite DEF R, V
<1>5. ASSUME NEW query, NEW callback, Call(find(x, p, query, callback)) PROVE Registrations'
  BY <1>2, <1>5, RegistrationsCall, TidyFind DEF R, V
<1>6. ASSUME NEW query, ~x.notify.alive, Call(createNotification(x, p, query)) PROVE Registrations'
  BY <1>2, <1>6, RegistrationsCall, TidyCreateNotification DEF R, V
<1>7. CASE Call(createQuery(x, p))
  BY <1>2, <1>7, RegistrationsCall, TidyCreateQuery DEF R, V
<1>8. CASE Call(DeletePartition(x, p))
  BY <1>2, <1>8, RegistrationsCall, TidyDeletePartition DEF R, V
<1> QED  BY <1>1, <1>3, <1>4, <1>5, <1>6, <1>7, <1>8, Zenon

LEMMA RegistrationsNotifyCall ==
    ASSUME Registrations, NotifyCall
    PROVE  Registrations'
<1> DEFINE R == accepted
           V == Past
<1>1. \/ \E query : Call(initNotify([x EXCEPT !.notify.query = query]))
      \/ \E actions : Call(initNotify([x EXCEPT !.notify.actions = actions]))
      \/ \E p : Call(setPartition(x, p))
      \/ \E enabled : Call(setEnabled(x, enabled))
      \/ Call(DeleteNotify(x))
  BY Zenon DEF NotifyCall
<1>2. Tidy(x, R, V) /\ x.notify.alive /\ DOMAIN x.notify = NotifyFields
  BY DEF Registrations, NotifyCall, Tidy, Loose, Formed
<1>3. ASSUME NEW n, n.watcher = x.notify.watcher, n.alive = x.notify.alive,
               n.status = x.notify.status,
             DOMAIN n = NotifyFields, Call(initNotify([x EXCEPT !.notify = n]))
      PROVE  Registrations'
  <2>1. Tidy([x EXCEPT !.notify = n], R, V)
    BY <1>2, <1>3, TidyNotifySet
  <2>2. Tidy(initNotify([x EXCEPT !.notify = n]), R, V)
    BY <2>1, TidyInitNotify
  <2> QED  BY <1>3, <2>2, RegistrationsCall
<1>4. ASSUME NEW query, Call(initNotify([x EXCEPT !.notify.query = query])) PROVE Registrations'
  <2> DEFINE n == [x.notify EXCEPT !.query = query]
  <2>1. n.watcher = x.notify.watcher /\ n.alive = x.notify.alive /\ n.status = x.notify.status
        /\ DOMAIN n = NotifyFields
    BY <1>2 DEF NotifyFields
  <2>2. [x EXCEPT !.notify.query = query] = [x EXCEPT !.notify = n]
    OBVIOUS
  <2> HIDE DEF n
  <2> QED  BY <1>3, <1>4, <2>1, <2>2
<1>5. ASSUME NEW actions,
               Call(initNotify([x EXCEPT !.notify.actions = actions])) PROVE Registrations'
  <2> DEFINE n == [x.notify EXCEPT !.actions = actions]
  <2>1. n.watcher = x.notify.watcher /\ n.alive = x.notify.alive /\ n.status = x.notify.status
        /\ DOMAIN n = NotifyFields
    BY <1>2 DEF NotifyFields
  <2>2. [x EXCEPT !.notify.actions = actions] = [x EXCEPT !.notify = n]
    OBVIOUS
  <2> HIDE DEF n
  <2> QED  BY <1>3, <1>5, <2>1, <2>2
<1> HIDE DEF R, V
<1>6. ASSUME NEW p, Call(setPartition(x, p)) PROVE Registrations'
  BY <1>2, <1>6, RegistrationsCall, TidySetPartition DEF R, V
<1>7. ASSUME NEW enabled, Call(setEnabled(x, enabled)) PROVE Registrations'
  BY <1>2, <1>7, RegistrationsCall, TidySetEnabled DEF R, V
<1>8. CASE Call(DeleteNotify(x))
  BY <1>2, <1>8, RegistrationsCall, TidyDeleteNotify DEF R, V
<1> QED  BY <1>1, <1>4, <1>5, <1>6, <1>7, <1>8, Zenon

LEMMA RegistrationsAnswer ==
    ASSUME Registrations, NEW ok \in BOOLEAN, Answer(ok)
    PROVE  Registrations'
<1> DEFINE r == Head(x.wire)
           R == accepted
           V == Past
<1>1. Tidy(x, R, V) /\ IsFiniteSet(R) /\ IsSeq(events)
  BY DEF Registrations
<1>2. /\ x.wire # <<>> /\ (Internal(r) => ok = Accepts(r)) /\ accepted' = Listed(r, ok, R)
      /\ x' = Answered(x, r, ok) /\ events' = events /\ forgotten' = forgotten
  BY DEF Answer, Becomes, Listed
<1>3. r \in Sent(x)
  <2>1. IsSeq(x.wire)
    BY <1>1 DEF Tidy, Loose, Line
  <2>2. Members(x.wire) = {r} \cup Members(Tail(x.wire))
    BY <1>2, <2>1, TailFacts
  <2> QED  BY <2>2 DEF Sent
<1>4. r.kind = "remove" /\ ~ok => r.watcher \notin R \ V.forgotten
  <2>1. r.kind = "remove" => Internal(r)
    BY <1>1, <1>3 DEF Tidy, Loose, Tagged
  <2>2. r.kind = "remove" => Accepts(r) = (r.watcher \in R \ V.forgotten)
    BY DEF Accepts, registered, Past
  <2> QED  BY <1>2, <2>1, <2>2
<1>5. Tidy(Answered(x, r, ok), Listed(r, ok, R), V)
  BY <1>1, <1>2, <1>4, TidyAnswered
<1>6. IsFiniteSet(Listed(r, ok, R))
  <2>1. IsFiniteSet(R \cup {r.watcher}) /\ IsFiniteSet(R \ {r.watcher})
    BY <1>1, FS_AddElement, FS_RemoveElement
  <2>2. Listed(r, ok, R) \in {R \cup {r.watcher}, R \ {r.watcher}, R}
    BY ListedIs
  <2> QED  BY <1>1, <2>1, <2>2
<1>7. Past' = V
  BY <1>2 DEF Past, Noticed
<1>8. IsSeq(events')
  BY <1>1, <1>2
<1> HIDE DEF r, R, V
<1>9. /\ Tidy(x', accepted', Past') /\ IsFiniteSet(accepted') /\ IsSeq(events')
      /\ \A w \in forgotten' : w.of = Notifier
  BY <1>2, <1>5, <1>6, <1>7, <1>8 DEF Registrations
<1> QED  BY <1>9 DEF Registrations, Past, Noticed, IsSeq, Members

\* The daemon notifies some of those that are accepted.
LEMMA RegistrationsNotified ==
    ASSUME Registrations, x' = x, accepted' = accepted,
           NEW W \in SUBSET registered, NEW event, events' = Notified(W, event),
           forgotten \subseteq forgotten', \A w \in forgotten' : w.of = Notifier
    PROVE  Registrations'
<1> DEFINE T == {[watcher |-> w, event |-> event] : w \in W}
           E == Members(events)
           S == E \cup T
           t == SetToSeq(T)
<1>1. IsFiniteSet(accepted) /\ events \in Seq(E) /\ Tidy(x, accepted, Past)
  BY DEF Registrations, IsSeq
<1>2. IsFiniteSet(T)
  <2> DEFINE f == [w \in W |-> [watcher |-> w, event |-> event]]
  <2>1. IsFiniteSet(W)
    <3>1. W \in SUBSET accepted
      BY DEF registered
    <3> QED  BY <1>1, <3>1, FS_Subset
  <2>2. f \in Surjection(W, T)
    BY DEF Surjection
  <2> HIDE DEF f, T
  <2> QED  BY <2>1, <2>2, FS_Surjection
<1>3. events' = events \o t
  BY DEF Notified
<1> HIDE DEF T, E
<1>4. t \in Seq(T)
  BY <1>2, SetToSeqFacts
<1> HIDE DEF t
<1>5. E \subseteq S /\ T \subseteq S
  OBVIOUS
<1> HIDE DEF S
<1>6. events \in Seq(S) /\ t \in Seq(S)
  BY <1>1, <1>4, <1>5, SeqMonotonic
<1>7. events' \in Seq(S)
  BY <1>3, <1>6, ConcatProperties
<1>8. IsSeq(events') /\ Members(events') \subseteq S
  BY <1>7, IsSeqOf
<1>9. Noticed' \in SUBSET (Noticed \cup accepted)
  <2>1. Noticed' = {m.watcher : m \in Members(events')}
    BY DEF Noticed, Members
  <2>2. \A m \in T : m.watcher \in accepted
    BY DEF T, registered
  <2>3. \A m \in E : m.watcher \in Noticed
    BY NoticedIs DEF E
  <2> QED  BY <1>8, <2>1, <2>2, <2>3 DEF S
<1>10. Tidy(x, accepted, Past')
  BY <1>1, <1>9, LessNoticed DEF Past
<1>11. Tidy(x', accepted', Past') /\ IsFiniteSet(accepted') /\ IsSeq(events')
  BY <1>1, <1>8, <1>10
<1> QED  BY <1>11 DEF Registrations, Past, Noticed, IsSeq, Members

LEMMA RegistrationsDeliver ==
    ASSUME Registrations, Deliver
    PROVE  Registrations'
<1> DEFINE w == Head(events).watcher
           e == Head(events).event
<1>1. /\ Tidy(x, accepted, Past) /\ IsFiniteSet(accepted) /\ IsSeq(events)
      /\ events # <<>> /\ events' = Tail(events) /\ accepted' = accepted
      /\ forgotten' = forgotten /\ \A v \in forgotten : v.of = Notifier
  BY DEF Registrations, Deliver
<1>2. IsSeq(events') /\ Members(events) = {Head(events)} \cup Members(events')
  BY <1>1, TailFacts
<1>3. Noticed' \subseteq Noticed /\ w \in Noticed
  <2>1. Noticed' = {m.watcher : m \in Members(events')}
    BY DEF Noticed, Members
  <2> QED  BY <1>2, <2>1, NoticedIs
<1>4. \/ x' = x
      \/ w \in x.watchers /\ w.of = Notifier /\ Hear(e)
      \/ x' = notificationsAvailable(x, w.of, e)
  BY DEF Deliver, Becomes
<1> HIDE DEF w, e
<1>5. Tidy(x', accepted, Past)
  <2>1. CASE w \in x.watchers /\ w.of = Notifier /\ Hear(e)
    <3>1. w \in accepted /\ w = x.notify.watcher
      BY <1>1, <1>3, <2>1 DEF Tidy, Loose, Known, OneOfMine, Past
    <3>2. x' = StatusOf(x, w, "Ready")
      BY <2>1, <3>1 DEF Hear, Becomes, StatusOf
    <3> QED  BY <1>1, <3>1, <3>2, TidyStatusOf
  <2>2. CASE x' = notificationsAvailable(x, w.of, e)
    BY <1>1, <2>2, TidyNotificationsAvailable
  <2> QED  BY <1>1, <1>4, <2>1, <2>2
<1>6. Noticed' \in SUBSET (Noticed \cup accepted)
  BY <1>3
<1>7. Tidy(x', accepted, Past')
  BY <1>1, <1>5, <1>6, LessNoticed DEF Past
<1>8. Tidy(x', accepted', Past') /\ IsFiniteSet(accepted') /\ IsSeq(events')
  BY <1>1, <1>2, <1>7
<1> QED  BY <1>1, <1>8 DEF Registrations, Past, Noticed, IsSeq, Members

LEMMA RegistrationsStay ==
    ASSUME Registrations, [Next]_vars
    PROVE  Registrations'
<1>1. CASE QueryCall
  BY <1>1, RegistrationsCall, TidyStart DEF QueryCall, Registrations
<1>2. ASSUME NEW ok \in BOOLEAN, Answer(ok) PROVE Registrations'
  BY <1>2, RegistrationsAnswer
<1>3. ASSUME NEW name, NEW state, PartitionChanges(name, state) PROVE Registrations'
  <2> DEFINE W == {w \in registered : w.of # Notifier /\ Resolved(w.name) = name}
  <2>1. /\ x' = x /\ accepted' = accepted /\ events' = Notified(W, state)
        /\ W \in SUBSET registered
        /\ forgotten \subseteq forgotten' /\ \A w \in forgotten' : w.of = Notifier
    BY <1>3 DEF PartitionChanges, Undefined, Registrations
  <2> HIDE DEF W
  <2> QED  BY <2>1, RegistrationsNotified
<1>4. ASSUME NEW name, NEW query, NEW action, ObjectChanges(name, query,
               action) PROVE Registrations'
  <2> DEFINE W == {w \in registered : w.of = Notifier /\ Fits(w, name, query, action)}
             e == [name |-> name, query |-> query, action |-> action]
  <2>1. /\ x' = x /\ accepted' = accepted /\ events' = Notified(W, e)
        /\ W \in SUBSET registered
        /\ forgotten' = forgotten /\ \A w \in forgotten : w.of = Notifier
    BY <1>4 DEF ObjectChanges, Registrations
  <2> HIDE DEF W, e
  <2> QED  BY <2>1, RegistrationsNotified
<1>5. CASE UNCHANGED vars
  BY <1>5 DEF vars, Registrations, Past, Noticed, IsSeq, Members
<1> QED  BY <1>1, <1>2, <1>3, <1>4, <1>5, RegistrationsPartitionCall, RegistrationsNotifyCall,
            RegistrationsDeliver DEF Next

\* What the daemon has accepted, and what is on its way to it and from it,
\* is what the objects watch (jsondbnotification.cpp, jsondbpartition.cpp,
\* qjsondbconnection.cpp): in every state, whatever they do, the daemon answers
\* and it deletes with a partition (dbserver.cpp).
THEOREM RegistrationsAreKept == Spec => []Registrations
<1>1. Init => Registrations
  BY RegistrationsAtFirst
<1>2. Registrations /\ [Next]_vars => Registrations'
  BY RegistrationsStay
<1> QED  BY <1>1, <1>2, PTL DEF Spec

\* Nothing stays registered that nobody listens to, unless a watcher was
\* deleted before its removal was sent, and a notification object that says it
\* is ready is registered, unless the daemon deleted its Notification with its
\* partition; for any number of partition objects.
THEOREM NothingStaysRegistered == Spec => []NothingStays
<1>1. Registrations => NothingStays
  <2> SUFFICES ASSUME Tidy(x, accepted, Past), Idle PROVE NothingStays
    BY DEF Registrations, NothingStays
  <2>1. Sent(x) = {}
    BY NothingSent DEF Idle, Sent
  <2>2. Removed(x) = {}
    BY <2>1 DEF Removed
  <2>3. "dropped" \notin x.exposed => accepted \subseteq x.watchers
    BY <2>2 DEF Tidy, Loose, Followed
  <2>4. x.notify.status = "Ready" => x.notify.watcher \in accepted \cup forgotten
    BY DEF Tidy, Heard, Past
  <2> QED  BY <2>3, <2>4 DEF NothingStays, registered
<1> QED  BY <1>1, RegistrationsAreKept, PTL

(***************************************************************************)
(* The notification object and the state of a partition object: it hears   *)
(* what is written, and nothing that it did not ask for, and a partition   *)
(* object knows the state of its partition.                                *)
(*                                                                         *)
(* Most operators leave Mine untouched; the others set it anew.  Told says *)
(* the same of a partition object: an operator that is not about it leaves *)
(* it Apart.                                                               *)
(***************************************************************************)
LEMMA BesideNext ==
    ASSUME NEW c, NEW d, NEW e
    PROVE  /\ Beside(c, d) /\ Beside(d, e) => Beside(c, e)
           /\ Untouched(c, d) /\ Untouched(d, e) => Untouched(c, e)
BY DEF Beside, Untouched

LEMMA MineUntouched ==
    ASSUME NEW R, NEW c, Mine(c, R), NEW d, Untouched(c, d)
    PROVE  Mine(d, R)
<1>1. OwnPartition(d)
  BY DEF Mine, OwnPartition, Untouched, Beside
<1>2. AsAsked(d)
  <2>1. CASE Watched(d)
    <3>1. c.notify.partition \in Partition
      BY <2>1 DEF Mine, OwnPartition, AsAsked, parametersReady, Untouched, Beside
    <3> QED  BY <2>1, <3>1 DEF Mine, AsAsked, Untouched, Beside
  <2> QED  BY <2>1 DEF AsAsked
<1>3. Numbered(d)
  BY DEF Mine, Numbered, Untouched, Beside
<1> QED  BY <1>1, <1>2, <1>3 DEF Mine, Untouched, Beside

\* Operations of the connection.
LEMMA TidyNumbers ==
    ASSUME NEW R, NEW V, NEW c, Tidy(c, R, V)
    PROVE  /\ c.lastId \in Nat /\ NoWatcher \notin c.watchers
           /\ c.notify.watcher = NoWatcher \/ c.notify.watcher.of = Notifier
           /\ \A w \in c.watchers \cup R \cup V.noticed : w.id \in 1 .. c.lastId
BY DEF Tidy, Loose, Line, Known, OneOfMine

LEMMA UntouchedSame ==
    ASSUME NEW R, NEW V, NEW c, Tidy(c, R, V), NEW d, SameObjects(c, d),
           d.lastId \in Nat, c.lastId <= d.lastId, Watched(d) <=> Watched(c)
    PROVE  Untouched(c, d)
BY TidyNumbers DEF SameObjects, Untouched, Beside

LEMMA SendUntouched ==
    ASSUME NEW R, NEW V, NEW c, Tidy(c, R, V),
           NEW kind, NEW of, NEW name, kind \notin {"add", "remove"}
    PROVE  Untouched(c, send(c, Request(kind, of, name, NoWatcher)))
<1> DEFINE d == send(c, Request(kind, of, name, NoWatcher))
<1>1. Tidy(d, R, V) /\ SameObjects(c, d) /\ d.watchers = c.watchers /\ d.lastId = c.lastId + 1
  BY TidySend
<1> HIDE DEF d
<1>2. c.lastId <= d.lastId /\ d.lastId \in Nat
  BY <1>1, TidyNumbers
<1>3. Watched(d) <=> Watched(c)
  BY <1>1 DEF Watched, SameObjects
<1> QED  BY <1>1, <1>2, <1>3, UntouchedSame DEF d

LEMMA AddUntouched ==
    ASSUME NEW R, NEW V, NEW c, Tidy(c, R, V), NEW w, w.id = c.lastId + 1, w.of # Notifier
    PROVE  Untouched(c, addWatcher(c, w))
<1> DEFINE d == addWatcher(c, w)
<1>1. /\ Tidy(d, R, V) /\ SameObjects(c, d)
      /\ d.watchers = c.watchers \cup {w} /\ d.lastId = c.lastId + 1
  BY TidyAdd
<1> HIDE DEF d
<1>2. c.lastId <= d.lastId /\ d.lastId \in Nat
  BY <1>1, TidyNumbers
<1>3. w # c.notify.watcher
  <2>1. c.lastId \in Nat
    BY TidyNumbers
  <2>2. NoWatcher.id = 0 /\ w.id # 0
    BY <2>1 DEF NoWatcher
  <2> QED  BY <2>2, TidyNumbers
<1>4. Watched(d) <=> Watched(c)
  BY <1>1, <1>3 DEF Watched, SameObjects
<1> QED  BY <1>1, <1>2, <1>4, UntouchedSame DEF d

LEMMA RemoveUntouched ==
    ASSUME NEW R, NEW V, NEW c, Tidy(c, R, V), NEW w, w # c.notify.watcher \/ w = NoWatcher
    PROVE  Untouched(c, removeWatcher(c, w)) /\ Untouched(c, DeleteWatcher(c, w))
<1> DEFINE d == removeWatcher(c, w)
           e == DeleteWatcher(c, w)
<1>1. /\ Tidy(d, R, V) /\ SameObjects(c, d)
      /\ d.watchers = c.watchers \ {w} /\ d.lastId >= c.lastId
  BY TidyRemove
<1>2. /\ Tidy(e, R, V) /\ SameObjects(c, e)
      /\ e.watchers = c.watchers \ {w} /\ e.lastId = c.lastId
  BY TidyDelete
<1> HIDE DEF d, e
<1>3. c.lastId <= d.lastId /\ d.lastId \in Nat /\ c.lastId <= e.lastId /\ e.lastId \in Nat
  BY <1>1, <1>2, TidyNumbers
<1>4. (Watched(d) <=> Watched(c)) /\ (Watched(e) <=> Watched(c))
  BY <1>1, <1>2, TidyNumbers DEF Watched, SameObjects
<1> QED  BY <1>1, <1>2, <1>3, <1>4, UntouchedSame DEF d, e

LEMMA QueueUntouched ==
    ASSUME NEW R, NEW V, NEW c, Tidy(c, R, V)
    PROVE  /\ Untouched(c, handleRequestQueue(c))
           /\ handleRequestQueue(c).exposed = c.exposed
<1> DEFINE d == handleRequestQueue(c)
<1>1. Tidy(d, R, V) /\ SameObjects(c, d) /\ d.watchers = c.watchers /\ d.lastId = c.lastId
  BY TidyQueue
<1>2. d.exposed = c.exposed
  BY DEF handleRequestQueue, Tidy, Loose, Formed, Shaped, Fields
<1> HIDE DEF d
<1>3. Watched(d) <=> Watched(c)
  BY <1>1 DEF Watched, SameObjects
<1> QED  BY <1>1, <1>2, <1>3, TidyNumbers, UntouchedSame DEF d

\* Operations of the partition and query objects.
LEMMA StateUntouched ==
    ASSUME NEW R, NEW V, NEW c, Tidy(c, R, V), NEW p, NEW value
    PROVE  LET d == [c EXCEPT !.partition[p].state = value]
               e == [c EXCEPT !.partition[p].name = value]
           IN /\ Untouched(c, d) /\ d.exposed = c.exposed
              /\ Beside(c, e) /\ e.exposed = c.exposed
              /\ c.notify.partition \notin Partition \/ p # c.notify.partition => Untouched(c, e)
<1> DEFINE a == [c.partition[p] EXCEPT !.state = value]
           b == [c.partition[p] EXCEPT !.name = value]
           f == [c.partition EXCEPT ![p] = a]
           g == [c.partition EXCEPT ![p] = b]
           d == [c EXCEPT !.partition[p].state = value]
           e == [c EXCEPT !.partition[p].name = value]
<1>1. Formed(c) /\ c.lastId \in Nat
  BY DEF Tidy, Loose, Line
<1>2. p \in Partition => /\ a.name = c.partition[p].name /\ a.watchers = c.partition[p].watchers
                        /\ b.watchers = c.partition[p].watchers
  BY <1>1 DEF Formed, PartitionFields
<1>3. d = [c EXCEPT !.partition = f] /\ e = [c EXCEPT !.partition = g]
  OBVIOUS
<1> HIDE DEF a, b
<1>4. \A q \in Partition :
        /\ f[q].name = c.partition[q].name /\ f[q].watchers = c.partition[q].watchers
        /\ q # p => g[q] = c.partition[q]
  BY <1>1, <1>2 DEF Formed
<1> HIDE DEF f, g, d, e
<1>5. /\ d.partition = f /\ e.partition = g
      /\ \A field \in Fields \ {"partition"} : d[field] = c[field] /\ e[field] = c[field]
  BY <1>1, <1>3 DEF Formed, Shaped, Fields
<1>6. /\ d.notify = c.notify /\ d.watchers = c.watchers /\ d.lastId = c.lastId
           /\ d.exposed = c.exposed
      /\ e.notify = c.notify /\ e.watchers = c.watchers /\ e.lastId = c.lastId
           /\ e.exposed = c.exposed
  BY <1>5 DEF Fields
<1>7. Beside(c, d) /\ Beside(c, e)
  BY <1>1, <1>6 DEF Beside, Watched
<1>8. Untouched(c, d)
      /\ (c.notify.partition \notin Partition \/ p # c.notify.partition => Untouched(c, e))
  BY <1>4, <1>5, <1>7 DEF Untouched
<1> QED  BY <1>6, <1>7, <1>8 DEF d, e

LEMMA GivenUntouched ==
    ASSUME NEW R, NEW V, NEW c, Tidy(c, R, V), NEW p \in Partition, NEW w
    PROVE  Untouched(c, Given(c, p, w))
<1> DEFINE rec == [c.partition[p] EXCEPT !.partitionWatcher = w]
           f == [c.partition EXCEPT ![p] = rec]
           d == Given(c, p, w)
<1>1. Formed(c) /\ c.lastId \in Nat
  BY DEF Tidy, Loose, Line
<1>2. rec.name = c.partition[p].name /\ rec.watchers = c.partition[p].watchers
  BY <1>1 DEF Formed, PartitionFields
<1>3. d = [c EXCEPT !.partition = f]
  BY DEF Given
<1> HIDE DEF rec
<1>4. \A q \in Partition : f[q].name = c.partition[q].name
        /\ f[q].watchers = c.partition[q].watchers
  BY <1>1, <1>2 DEF Formed
<1> HIDE DEF f, d
<1>5. /\ d.partition = f
      /\ \A field \in Fields \ {"partition"} : d[field] = c[field]
  BY <1>1, <1>3 DEF Formed, Shaped, Fields
<1>6. d.notify = c.notify /\ d.watchers = c.watchers /\ d.lastId = c.lastId
  BY <1>5 DEF Fields
<1> QED  BY <1>1, <1>4, <1>5, <1>6 DEF Untouched, Beside, Watched, d

LEMMA InitUntouched ==
    ASSUME NEW R, NEW V, NEW c, Tidy(c, R, V), NEW p \in Partition
    PROVE  Untouched(c, init(c, p))
<1> DEFINE w == [NoWatcher EXCEPT !.id = c.lastId + 1, !.of = p, !.name = c.partition[p].name]
           given == [c EXCEPT !.partition[p].partitionWatcher = w]
           added == addWatcher(given, w)
           d == send(added, Request("state", p, w.name, NoWatcher))
<1>1. init(c, p) = d
  BY DEF init
<1>2. w.id = c.lastId + 1 /\ w.of # Notifier
  BY NotifierIsNoPartition DEF NoWatcher, PartitionsApart
<1>3. given = Given(c, p, w)
  BY DEF Given
<1> HIDE DEF w, given, added
<1>4. Tidy(given, R, V) /\ given.lastId = c.lastId /\ Untouched(c, given)
  BY <1>2, <1>3, TidyGiven, GivenUntouched
<1>5. Tidy(added, R, V) /\ Untouched(given, added)
  BY <1>2, <1>4, TidyAdd, AddUntouched DEF added
<1>6. Untouched(added, d)
  BY <1>5, SendUntouched
<1> HIDE DEF d
<1> QED  BY <1>1, <1>4, <1>5, <1>6, BesideNext

LEMMA UnwatchedUntouched ==
    ASSUME NEW R, NEW V, NEW c, Tidy(c, R, V), NEW p \in Partition
    PROVE  Untouched(c, Unwatched(c, p))
<1> DEFINE w == c.partition[p].partitionWatcher
           less == removeWatcher(c, w)
<1>1. Unwatched(c, p) = DeleteWatcher(less, w)
  BY DEF Unwatched
<1>2. w # c.notify.watcher \/ w = NoWatcher
  BY DEF Tidy, Loose, OneOfMine
<1> HIDE DEF w
<1>3. Tidy(less, R, V) /\ SameObjects(c, less) /\ Untouched(c, less)
  BY <1>2, TidyRemove, RemoveUntouched
<1> HIDE DEF less
<1>4. w # less.notify.watcher \/ w = NoWatcher
  BY <1>2, <1>3 DEF SameObjects
<1>5. Untouched(less, DeleteWatcher(less, w))
  BY <1>3, <1>4, RemoveUntouched
<1> QED  BY <1>1, <1>3, <1>5, BesideNext

\* Callbacks, queries and exposures are none of its business.
LEMMA OthersUntouched ==
    ASSUME NEW R, NEW V, NEW c, Tidy(c, R, V), NEW d, d.partition = c.partition,
           d.notify = c.notify, d.watchers = c.watchers, d.lastId = c.lastId
    PROVE  Untouched(c, d)
BY TidyNumbers DEF Untouched, Beside, Watched

LEMMA WriteUntouched ==
    ASSUME NEW R, NEW V, NEW c, Tidy(c, R, V), NEW p, NEW callback
    PROVE  Untouched(c, Write(c, p, callback))
<1> DEFINE sent == send(c, Request("write", p, "", NoWatcher))
           d == [sent EXCEPT !.writeCallbacks = @ \cup {[id |-> sent.lastId, of |-> p]},
                             !.promised = @ \cup {sent.lastId}]
<1>1. Write(c, p, callback) \in {sent, d}
  BY DEF Write
<1>2. Tidy(sent, R, V) /\ Untouched(c, sent)
  BY TidySend, SendUntouched
<1> HIDE DEF sent
<1>3. /\ d.partition = sent.partition /\ d.notify = sent.notify
      /\ d.watchers = sent.watchers /\ d.lastId = sent.lastId
  BY <1>2 DEF Tidy, Loose, Formed, Shaped, Fields
<1> HIDE DEF d
<1>4. Untouched(sent, d)
  BY <1>2, <1>3, OthersUntouched
<1> QED  BY <1>1, <1>2, <1>4, BesideNext

LEMMA WithQueryUntouched ==
    ASSUME NEW R, NEW V, NEW c, Tidy(c, R, V)
    PROVE  Untouched(c, WithQuery(c))
<1> DEFINE w == [NoWatcher EXCEPT !.id = c.lastId + 1]
           added == addWatcher(c, w)
           asked == send(added, Request("nothing", None, "", NoWatcher))
           less == removeWatcher(asked, w)
           d == DeleteWatcher(less, w)
<1>1. WithQuery(c) = d
  BY DEF WithQuery
<1>2. w.id = c.lastId + 1 /\ w.of # Notifier /\ w # NoWatcher
  <2>1. c.lastId \in Nat
    BY DEF Tidy, Loose, Line
  <2>2. w.id = c.lastId + 1 /\ w.of = None /\ NoWatcher.id = 0
    BY DEF NoWatcher
  <2>3. w.id # NoWatcher.id
    BY <2>1, <2>2
  <2> HIDE DEF w
  <2> QED  BY <2>2, <2>3, NotifierIsNoPartition
<1> HIDE DEF w, added, asked, less, d
<1>3. Tidy(added, R, V) /\ Untouched(c, added)
  BY <1>2, TidyAdd, AddUntouched DEF added
<1>4. Tidy(asked, R, V) /\ Untouched(added, asked)
  BY <1>3, TidySend, SendUntouched DEF asked
<1>5. w # asked.notify.watcher
  BY <1>2, <1>4, TidyNumbers
<1>6. Tidy(less, R, V) /\ Untouched(asked, less)
  BY <1>4, <1>5, TidyRemove, RemoveUntouched DEF less
<1>7. w # less.notify.watcher
  BY <1>2, <1>6, TidyNumbers
<1>8. Untouched(less, d)
  BY <1>6, <1>7, RemoveUntouched DEF d
<1> QED  BY <1>1, <1>3, <1>4, <1>6, <1>8, BesideNext

LEMMA FindUntouched ==
    ASSUME NEW R, NEW V, NEW c, Tidy(c, R, V), NEW p, NEW query, NEW callback
    PROVE  Untouched(c, find(c, p, query, callback))
<1> DEFINE made == WithQuery(c)
           sent == send(made, Request("find", p, "", NoWatcher))
           waiting(d, id) ==
               IF callback THEN [d EXCEPT !.findCallbacks = @ \cup {[id |-> id, of |-> p]},
                                          !.promised = @ \cup {id}] ELSE d
<1>1. find(c, p, query, callback) \in {Exposed(waiting(made, None), "unasked"), waiting(sent,
        sent.lastId)}
  BY DEF find
<1>2. Tidy(made, R, V) /\ Untouched(c, made)
  BY TidyWithQuery, WithQueryUntouched
<1> HIDE DEF made
<1>3. Tidy(sent, R, V) /\ Untouched(made, sent)
  BY <1>2, TidySend, SendUntouched
<1> HIDE DEF sent
<1>4. ASSUME NEW d, Tidy(d, R, V), NEW id
      PROVE  Untouched(d, waiting(d, id)) /\ Untouched(d, Exposed(waiting(d, id), "unasked"))
  <2> DEFINE e == waiting(d, id)
             h == Exposed(e, "unasked")
  <2>1. DOMAIN d = Fields
    BY <1>4 DEF Tidy, Loose, Formed, Shaped
  <2>2. /\ e.partition = d.partition /\ e.notify = d.notify
        /\ e.watchers = d.watchers /\ e.lastId = d.lastId
        /\ DOMAIN e = Fields
    BY <2>1 DEF Fields
  <2> HIDE DEF e
  <2>3. /\ h.partition = d.partition /\ h.notify = d.notify
        /\ h.watchers = d.watchers /\ h.lastId = d.lastId
    BY <2>2 DEF Exposed, Fields
  <2> HIDE DEF h
  <2>4. Untouched(d, e) /\ Untouched(d, h)
    BY <1>4, <2>2, <2>3, OthersUntouched
  <2> QED  BY <2>4 DEF e, h
<1> HIDE DEF waiting
<1>5. Untouched(made, Exposed(waiting(made, None), "unasked"))
        /\ Untouched(sent, waiting(sent, sent.lastId))
  BY <1>2, <1>3, <1>4
<1> QED  BY <1>1, <1>2, <1>3, <1>5, BesideNext

LEMMA CreateQueryUntouched ==
    ASSUME NEW R, NEW V, NEW c, Tidy(c, R, V), NEW p
    PROVE  Untouched(c, createQuery(c, p))
<1> DEFINE made == WithQuery(c)
           d == createQuery(c, p)
<1>1. Tidy(made, R, V) /\ Untouched(c, made)
  BY TidyWithQuery, WithQueryUntouched
<1>2. DOMAIN made = Fields
  BY <1>1 DEF Tidy, Loose, Formed, Shaped
<1>3. d = [made EXCEPT !.query = [alive |-> TRUE, partition |-> p, status |-> "Null",
        request |-> 0]]
  BY DEF createQuery
<1> HIDE DEF made, d
<1>4. /\ d.partition = made.partition /\ d.notify = made.notify
      /\ d.watchers = made.watchers /\ d.lastId = made.lastId
  BY <1>2, <1>3 DEF Fields
<1>5. Untouched(made, d)
  BY <1>1, <1>4, OthersUntouched
<1> QED  BY <1>1, <1>5, BesideNext DEF d

LEMMA StartUntouched ==
    ASSUME NEW R, NEW V, NEW c, Tidy(c, R, V)
    PROVE  Untouched(c, start(c))
<1> DEFINE rid == Stopped(c)
           sent == send(rid, Request("query", c.query.partition, "", NoWatcher))
           d == [sent EXCEPT !.query.status = "Loading", !.query.request = sent.lastId]
<1>1. start(c) \in {c, d}
  BY DEF start, Stopped
<1>2. /\ Tidy(rid, R, V) /\ SameObjects(c, rid)
      /\ rid.watchers = c.watchers /\ rid.lastId = c.lastId /\ rid.exposed = c.exposed
  BY TidyStopped
<1> HIDE DEF rid, d
<1>3. Untouched(c, rid) /\ Untouched(c, c)
  BY <1>2, OthersUntouched DEF SameObjects
<1>4. Tidy(sent, R, V) /\ Untouched(rid, sent)
  BY <1>2, TidySend, SendUntouched
<1> HIDE DEF sent
<1>5. /\ d.partition = sent.partition /\ d.notify = sent.notify
      /\ d.watchers = sent.watchers /\ d.lastId = sent.lastId
  BY <1>4 DEF d, Tidy, Loose, Formed, Shaped, Fields
<1>6. Untouched(sent, d)
  BY <1>4, <1>5, OthersUntouched
<1> QED  BY <1>1, <1>3, <1>4, <1>6, BesideNext

-----------------------------------------------------------------------------
(***************************************************************************)
(* The notification object is set to something else.                       *)
(***************************************************************************)
\* It may be set up: nothing it watches is watched in vain.
Resettable(c) ==
    /\ OwnPartition(c) /\ Numbered(c)
    /\ Watched(c) => c.notify.enabled
    /\ ~c.notify.enabled => c.notify.status # "Ready"

\* It watches anew, or did not watch and does not.
Again(c, d) ==
    /\ d.notify.enabled = c.notify.enabled
    /\ IF parametersReady(c.notify) /\ c.notify.enabled
       THEN d.notify.watcher.id \in Nat /\ d.notify.watcher.id > c.lastId
       ELSE d.notify.watcher = c.notify.watcher /\ ~Watched(c) /\ ~Watched(d)

LEMMA NoneIsNoPartition == None \notin Partition
<1> DEFINE S == Name \cup {""}
<1>1. FirstName \in Seq(S)
  BY QmlAssumption
<1> HIDE DEF S
<1>2. DOMAIN FirstName = 1 .. Len(FirstName)
  BY <1>1, LenProperties
<1> QED  BY <1>2 DEF Partition, None

LEMMA RemoveNotificationIs ==
    ASSUME NEW R, NEW V, NEW c, Tidy(c, R, V)
    PROVE  LET d == removeNotification(c)
               p == c.notify.partition
           IN /\ Tidy(d, R, V) /\ d.notify = c.notify
              /\ d.lastId \in Nat /\ c.lastId \in Nat /\ c.lastId <= d.lastId
              /\ Watched(d) => Watched(c)
              /\ p # None /\ c.notify.watcher \in c.partition[p].watchers => ~Watched(d)
<1> DEFINE p == c.notify.partition
           w == c.notify.watcher
           rec == [c.partition[p] EXCEPT !.watchers = @ \ {w}]
           e == [c EXCEPT !.partition[p] = rec]
           d == removeNotification(c)
<1>1. Tidy(d, R, V) /\ d.notify = c.notify
  BY TidyRemoveNotification
<1>2. d = IF p = None \/ w \notin c.partition[p].watchers THEN c ELSE removeWatcher(e, w)
  <2>1. e = [c EXCEPT !.partition[p].watchers = @ \ {w}]
    OBVIOUS
  <2> HIDE DEF e
  <2> QED  BY <2>1 DEF removeNotification
<1>3. Formed(c) /\ c.lastId \in Nat
  BY DEF Tidy, Loose, Line
<1>4. p \in Partition => DOMAIN rec = PartitionFields
                         /\ rec.partitionWatcher = c.partition[p].partitionWatcher
  BY <1>3 DEF Formed, PartitionFields
<1> HIDE DEF rec, d
<1>5. Changed(c, e, R)
  BY <1>3, <1>4, PartitionSet
<1>6. e.notify = c.notify /\ e.watchers = c.watchers /\ e.lastId = c.lastId
  BY <1>3 DEF Formed, Shaped, Fields
<1> HIDE DEF e
<1>7. Tidy(e, R, V)
  BY <1>5, TidyChanged
<1>8. removeWatcher(e, w).watchers = e.watchers \ {w} /\ removeWatcher(e, w).lastId >= e.lastId
  BY <1>7, TidyRemove
<1>9. d.lastId \in Nat
  BY <1>1 DEF Tidy, Loose, Line
<1>10. CASE p = None \/ w \notin c.partition[p].watchers
  BY <1>1, <1>2, <1>3, <1>10 DEF d
<1>11. CASE ~(p = None \/ w \notin c.partition[p].watchers)
  <2>1. d = removeWatcher(e, w)
    BY <1>2, <1>11
  <2>2. d.watchers = c.watchers \ {w} /\ c.lastId <= d.lastId
    BY <1>3, <1>6, <1>8, <1>9, <2>1
  <2>3. ~Watched(d)
    BY <1>1, <2>2 DEF Watched
  <2> QED  BY <1>1, <1>3, <1>9, <2>2, <2>3 DEF d
<1> QED  BY <1>10, <1>11

LEMMA AnewIs ==
    ASSUME NEW c, Formed(c), NEW p \in Partition, NEW w
    PROVE  LET d == Anew(c, p, w)
           IN /\ d.notify = [c.notify EXCEPT !.watcher = w, !.status = "Registering"]
              /\ d.partition[p].name = c.partition[p].name /\ w \in d.partition[p].watchers
<1> DEFINE rec == [c.partition[p] EXCEPT !.watchers = @ \cup {w}]
           f == [c.partition EXCEPT ![p] = rec]
           n == [c.notify EXCEPT !.watcher = w, !.status = "Registering"]
           d == Anew(c, p, w)
<1>1. d = [c EXCEPT !.notify = n, !.partition = f]
  BY DEF Anew, Formed, Shaped, Fields
<1>2. rec.name = c.partition[p].name /\ w \in rec.watchers
  BY DEF Formed, PartitionFields
<1> HIDE DEF rec, d, n
<1>3. f[p] = rec
  BY DEF Formed
<1> HIDE DEF f
<1>4. d.notify = n /\ d.partition = f
  BY <1>1 DEF Formed, Shaped, Fields
<1> QED  BY <1>2, <1>3, <1>4 DEF d, n

LEMMA SetAnew ==
    ASSUME NEW R, NEW V, NEW c, Tidy(c, R, V), Resettable(c)
    PROVE  LET d == initNotify(c)
           IN (Watched(c) /\ Lost(d)) \/ (Mine(d, R) /\ Again(c, d))
<1> DEFINE n == c.notify
           p == n.partition
           less == removeNotification(c)
           rid == DeleteWatcher(less, n.watcher)
           w == [id |-> rid.lastId + 1, of |-> Notifier, name |-> rid.partition[p].name,
                 query |-> n.query, actions |-> n.actions]
           still == [n EXCEPT !.status = "Null"]
           quiet == [c EXCEPT !.notify = still]
           set == [rid EXCEPT !.notify.watcher = w, !.notify.status = "Registering",
                              !.partition[p].watchers = @ \cup {w}]
           added == addWatcher(set, w)
           d == initNotify(c)
<1>1. Formed(c) /\ c.lastId \in Nat
  BY DEF Tidy, Loose, Line
<1>2. CASE ~parametersReady(n)
  <2>1. d = IF Watched(c) THEN Exposed(quiet, "emptied") ELSE quiet
    BY <1>2 DEF initNotify, Watched
  <2>2. \A field \in NotifyFields \ {"status"} : still[field] = n[field]
    BY <1>1 DEF Formed, NotifyFields
  <2>3. still.status = "Null"
    BY <1>1 DEF Formed, NotifyFields
  <2> HIDE DEF still, d
  <2>4. /\ DOMAIN quiet = Fields /\ quiet.notify = still
        /\ quiet.watchers = c.watchers /\ quiet.lastId = c.lastId
    BY <1>1 DEF Formed, Shaped, Fields
  <2> HIDE DEF quiet
  <2>5. CASE Watched(c)
    <3>1. "emptied" \in d.exposed
      BY <2>1, <2>4, <2>5 DEF Exposed, Fields
    <3> QED  BY <2>5, <3>1 DEF Lost, d
  <2>6. CASE ~Watched(c)
    <3>1. d = quiet /\ d.notify.watcher = n.watcher /\ d.notify.enabled = n.enabled
          /\ d.notify.partition = n.partition /\ d.notify.follows = n.follows
          /\ d.notify.status = "Null"
      BY <2>1, <2>2, <2>3, <2>4, <2>6 DEF NotifyFields
    <3>2. ~Watched(d)
      BY <2>4, <2>6, <3>1 DEF Watched
    <3>3. OwnPartition(d) /\ Numbered(d) /\ AsAsked(d)
      BY <2>4, <3>1, <3>2 DEF Resettable, OwnPartition, Numbered, AsAsked
    <3>4. Mine(d, R)
      BY <3>1, <3>2, <3>3 DEF Mine
    <3>5. Again(c, d)
      BY <1>2, <2>6, <3>1, <3>2 DEF Again
    <3> QED  BY <3>4, <3>5 DEF d
  <2> QED  BY <2>5, <2>6
<1>3. CASE parametersReady(n) /\ ~n.enabled
  <2>1. d = c
    BY <1>3 DEF initNotify
  <2>2. ~Watched(c) /\ c.notify.status # "Ready"
    BY <1>3 DEF Resettable
  <2> HIDE DEF d
  <2>3. Mine(d, R)
    BY <2>1, <2>2 DEF Mine, AsAsked, Resettable
  <2>4. Again(c, d)
    BY <1>3, <2>1, <2>2 DEF Again
  <2> QED  BY <2>3, <2>4 DEF d
<1>4. CASE parametersReady(n) /\ n.enabled
  <2>1. d = added
    BY <1>4 DEF initNotify
  <2>2. n.alive
    BY <1>4 DEF Tidy, Loose, OneOfMine, parametersReady
  <2>3. p \in Partition /\ p \in n.follows
    BY <1>4 DEF Resettable, OwnPartition, parametersReady
  <2>4. /\ w.id = rid.lastId + 1 /\ w.of = Notifier /\ w.name = rid.partition[p].name
        /\ w.query = n.query /\ w.actions = n.actions
    OBVIOUS
  <2> HIDE DEF w, added, d
  <2>5. Tidy(less, R, V) /\ less.notify = n /\ less.lastId \in Nat /\ c.lastId <= less.lastId
    BY RemoveNotificationIs
  <2> HIDE DEF less, n
  <2>6. /\ Loose(rid, R, V) /\ rid.notify = n /\ rid.watchers = less.watchers \ {n.watcher}
        /\ rid.lastId = less.lastId
    BY <2>5, LooseDelete DEF SameObjects
  <2> HIDE DEF rid
  <2>7. set = Anew(rid, p, w)
    BY DEF Anew
  <2> HIDE DEF set, p
  <2>8. Tidy(set, R, V) /\ set.lastId = rid.lastId /\ set.notify.watcher = w
    <3>1. rid.notify.watcher \notin rid.watchers /\ rid.notify.alive
      BY <2>2, <2>6
    <3> QED  BY <2>4, <2>6, <2>7, <3>1, OneMore
  <2>9. /\ set.notify = [n EXCEPT !.watcher = w, !.status = "Registering"]
        /\ set.partition[p].name = w.name /\ w \in set.partition[p].watchers
    <3>1. Formed(rid)
      BY <2>6 DEF Loose
    <3> DEFINE a == Anew(rid, p, w)
    <3>2. /\ a.notify = [rid.notify EXCEPT !.watcher = w, !.status = "Registering"]
          /\ a.partition[p].name = rid.partition[p].name /\ w \in a.partition[p].watchers
      BY <2>3, <3>1, AnewIs
    <3> HIDE DEF a
    <3> QED  BY <2>4, <2>6, <2>7, <3>2 DEF a
  <2>10. /\ Tidy(added, R, V) /\ SameObjects(set, added)
         /\ added.watchers = set.watchers \cup {w} /\ added.lastId = set.lastId + 1
    BY <2>4, <2>8, TidyAdd DEF added
  <2>11. /\ d.notify.watcher = w /\ d.notify.status = "Registering" /\ d.notify.enabled = n.enabled
         /\ d.notify.partition = p /\ d.notify.follows = n.follows
         /\ d.notify.query = n.query /\ d.notify.actions = n.actions
    BY <1>1, <2>1, <2>9, <2>10 DEF SameObjects, Formed, NotifyFields, n, p
  <2>12. d.partition[p].name = w.name /\ w \in d.partition[p].watchers
    BY <2>1, <2>9, <2>10 DEF SameObjects
  <2>13. w.id = d.lastId /\ d.lastId \in Nat /\ w.id > c.lastId
    BY <1>1, <2>1, <2>4, <2>5, <2>6, <2>8, <2>10
  <2>14. w \notin R
    <3>1. \A v \in R : v.id \in 1 .. rid.lastId
      BY <2>6 DEF Loose, Known
    <3> QED  BY <2>4, <2>5, <2>6, <3>1
  <2>15. OwnPartition(d)
    BY <2>3, <2>11 DEF OwnPartition
  <2>16. AsAsked(d)
    BY <1>4, <2>4, <2>11, <2>12 DEF AsAsked, parametersReady, p
  <2>17. Numbered(d) /\ Watched(d)
    BY <2>1, <2>10, <2>11, <2>13 DEF Numbered, Watched
  <2>18. Mine(d, R)
    BY <2>11, <2>14, <2>15, <2>16, <2>17 DEF Mine
  <2>19. Again(c, d)
    BY <1>4, <2>11, <2>13 DEF Again, n
  <2> QED  BY <2>18, <2>19 DEF d
<1> QED  BY <1>2, <1>3, <1>4

\* What a call leads to, as far as what was owed before it is concerned: what
\* has not changed is watched as before, and what has is new.
Steady(c, d) ==
    IF d.notify.watcher = c.notify.watcher /\ d.notify.enabled = c.notify.enabled
    THEN Watched(d) <=> Watched(c)
    ELSE ~Watched(d) \/ d.notify.watcher.id > c.lastId

LEMMA SteadyUntouched ==
    ASSUME NEW R, NEW c, Mine(c, R), NEW d, Untouched(c, d)
    PROVE  Mine(d, R) /\ Steady(c, d)
BY MineUntouched DEF Steady, Untouched, Beside

LEMMA BesideResettable ==
    ASSUME NEW R, NEW c, Mine(c, R), NEW d, Beside(c, d)
    PROVE  Resettable(d)
BY DEF Mine, AsAsked, OwnPartition, Numbered, Resettable, Beside

LEMMA SteadyAgain ==
    ASSUME NEW R, NEW V, NEW c, Mine(c, R), NEW d, Beside(c, d), Tidy(d, R, V)
    PROVE  LET e == initNotify(d) IN Lost(e) \/ (Mine(e, R) /\ Again(d, e) /\ Steady(c, e))
<1> DEFINE e == initNotify(d)
<1>1. Lost(e) \/ (Mine(e, R) /\ Again(d, e))
  BY BesideResettable, SetAnew
<1> HIDE DEF e
<1>2. ASSUME Again(d, e) PROVE Steady(c, e)
  <2>1. /\ d.notify = c.notify /\ (Watched(d) <=> Watched(c))
        /\ c.lastId \in Nat /\ d.lastId \in Nat /\ c.lastId <= d.lastId
    BY DEF Beside
  <2>2. CASE parametersReady(d.notify) /\ d.notify.enabled
    <3>1. e.notify.watcher.id \in Nat /\ e.notify.watcher.id > d.lastId
      BY <1>2, <2>2 DEF Again
    <3>2. c.notify.watcher.id \in 0 .. c.lastId
      BY DEF Mine, Numbered
    <3>3. e.notify.watcher.id > c.lastId
      BY <2>1, <3>1
    <3>4. e.notify.watcher # c.notify.watcher
      BY <2>1, <3>2, <3>3
    <3> QED  BY <3>3, <3>4 DEF Steady
  <2>3. CASE ~(parametersReady(d.notify) /\ d.notify.enabled)
    BY <1>2, <2>1, <2>3 DEF Again, Steady
  <2> QED  BY <2>2, <2>3
<1> QED  BY <1>1, <1>2 DEF e

LEMMA NameChangedHears ==
    ASSUME NEW R, NEW V, NEW c, Mine(c, R), NEW d, Beside(c, d), Tidy(d, R, V), NEW p,
           p \notin c.notify.follows => Untouched(c, d)
    PROVE  LET e == nameChanged(d, p)
           IN /\ Lost(e) \/ (Mine(e, R) /\ Steady(c, e))
              /\ e = d \/ Lost(e) \/ Again(d, e)
<1>1. CASE p \in d.notify.follows
  BY <1>1, SteadyAgain DEF nameChanged
<1>2. CASE p \notin d.notify.follows
  <2>1. Untouched(c, d)
    BY <1>2 DEF Beside
  <2> QED  BY <1>2, <2>1, SteadyUntouched DEF nameChanged
<1> QED  BY <1>1, <1>2

LEMMA SetEnabledHears ==
    ASSUME NEW R, NEW V, NEW c, Tidy(c, R, V), Mine(c, R), NEW enabled
    PROVE  LET d == setEnabled(c, enabled) IN Lost(d) \/ (Mine(d, R) /\ Steady(c, d))
<1> DEFINE n == c.notify
           less == removeNotification(c)
           idle == [n EXCEPT !.status = "Null"]
           quiet == [less EXCEPT !.notify.status = "Null"]
           off == IF n.enabled /\ parametersReady(n) THEN quiet ELSE c
           marked == [off.notify EXCEPT !.enabled = enabled]
           set == [off EXCEPT !.notify.enabled = enabled]
           d == setEnabled(c, enabled)
<1>1. d = IF n.enabled = enabled THEN c ELSE IF enabled THEN initNotify(set) ELSE set
  BY DEF setEnabled
<1>2. CASE n.enabled = enabled
  BY <1>1, <1>2 DEF Steady
<1>3. CASE n.enabled # enabled
  <2>1. Formed(c) /\ DOMAIN n = NotifyFields
    BY DEF Tidy, Loose, Formed
  <2>2. /\ Tidy(less, R, V) /\ less.notify = n /\ (Watched(less) => Watched(c))
        /\ less.lastId \in Nat /\ c.lastId \in Nat /\ c.lastId <= less.lastId
        /\ n.partition # None /\ n.watcher \in c.partition[n.partition].watchers => ~Watched(less)
    BY RemoveNotificationIs
  <2>3. Formed(less)
    BY <2>2 DEF Tidy, Loose
  <2>4. quiet = [less EXCEPT !.notify = idle]
    BY <2>2
  <2>5. /\ DOMAIN idle = NotifyFields /\ idle.status = "Null"
        /\ \A field \in NotifyFields \ {"status"} : idle[field] = n[field]
    BY <2>1 DEF NotifyFields
  <2>6. set = [off EXCEPT !.notify = marked]
    OBVIOUS
  <2> HIDE DEF less, idle, quiet, d, set
  <2>7. quiet.notify = idle /\ quiet.watchers = less.watchers /\ quiet.lastId = less.lastId
    BY <2>3, <2>4 DEF Formed, Shaped, Fields
  <2>8. /\ idle.watcher = n.watcher /\ idle.alive = n.alive /\ idle.query = n.query
        /\ idle.partition = n.partition /\ idle.follows = n.follows
    BY <2>5 DEF NotifyFields
  <2>9. Tidy(quiet, R, V)
    BY <2>2, <2>4, <2>5, <2>8, TidyNotifySet
  <2>10. Watched(c) => /\ n.enabled /\ parametersReady(n) /\ n.partition # None
                       /\ n.watcher \in c.partition[n.partition].watchers
    BY DEF Mine, AsAsked, parametersReady
  <2>11. /\ Tidy(off, R, V) /\ ~Watched(off) /\ off.notify.status # "Ready"
         /\ off.lastId \in Nat /\ c.lastId <= off.lastId
         /\ off.notify.watcher = n.watcher /\ off.notify.alive = n.alive
         /\ off.notify.query = n.query
         /\ off.notify.partition = n.partition /\ off.notify.follows = n.follows
    <3>1. CASE n.enabled /\ parametersReady(n)
      <4>1. ~Watched(less)
        BY <2>2, <2>10
      <4>2. ~Watched(quiet)
        BY <2>2, <2>7, <2>8, <4>1 DEF Watched
      <4> QED  BY <2>2, <2>5, <2>7, <2>8, <2>9, <3>1, <4>2
    <3>2. CASE ~(n.enabled /\ parametersReady(n))
      <4>1. ~Watched(c)
        BY <2>10, <3>2
      <4>2. n.status # "Ready"
        BY <4>1 DEF Mine
      <4> QED  BY <2>2, <3>2, <4>1, <4>2
    <3> QED  BY <3>1, <3>2
  <2> HIDE DEF off, n
  <2>12. /\ DOMAIN marked = NotifyFields /\ marked.enabled = enabled
         /\ marked.watcher = off.notify.watcher
         /\ marked.alive = off.notify.alive /\ marked.query = off.notify.query
         /\ marked.status = off.notify.status /\ marked.partition = off.notify.partition
         /\ marked.follows = off.notify.follows
    BY <2>11 DEF Tidy, Loose, Formed, NotifyFields
  <2> HIDE DEF marked
  <2>13. Tidy(set, R, V) /\ set.notify = marked
    BY <2>6, <2>11, <2>12, TidyNotifySet
  <2>14. set.watchers = off.watchers /\ set.lastId = off.lastId
    BY <2>6, <2>11 DEF Tidy, Loose, Formed, Shaped, Fields
  <2>15. ~Watched(set) /\ set.notify.status # "Ready"
    BY <2>11, <2>12, <2>13, <2>14 DEF Watched
  <2>16. OwnPartition(set) /\ Numbered(set) /\ AsAsked(set)
    <3>1. OwnPartition(set)
      BY <2>11, <2>12, <2>13 DEF Mine, OwnPartition, n
    <3>2. Numbered(set)
      BY <2>2, <2>11, <2>12, <2>13, <2>14 DEF Mine, Numbered, n
    <3> QED  BY <2>15, <3>1, <3>2 DEF AsAsked
  <2>17. Mine(set, R) /\ Resettable(set)
    BY <2>15, <2>16 DEF Mine, Resettable
  <2>18. CASE ~enabled
    <3>1. d = set
      BY <1>1, <1>3, <2>18 DEF n
    <3>2. Steady(c, set)
      BY <1>3, <2>12, <2>13, <2>15 DEF Steady, n
    <3> QED  BY <2>17, <3>1, <3>2 DEF d
  <2>19. CASE enabled
    <3>1. d = initNotify(set)
      BY <1>1, <1>3, <2>19 DEF n
    <3>2. Lost(d) \/ (Mine(d, R) /\ Again(set, d))
      BY <2>13, <2>17, <3>1, SetAnew
    <3>3. ASSUME Again(set, d) PROVE Steady(c, d)
      <4>1. d.notify.enabled # c.notify.enabled
        BY <1>3, <2>12, <2>13, <3>3 DEF Again, n
      <4>2. ~Watched(d) \/ (d.notify.watcher.id \in Nat /\ d.notify.watcher.id > set.lastId)
        BY <3>3 DEF Again
      <4>3. ~Watched(d) \/ d.notify.watcher.id > c.lastId
        BY <2>2, <2>11, <2>14, <4>2
      <4> QED  BY <4>1, <4>3 DEF Steady
    <3> QED  BY <3>2, <3>3 DEF d
  <2> QED  BY <2>18, <2>19
<1> QED  BY <1>2, <1>3

LEMMA SetPartitionHears ==
    ASSUME NEW R, NEW V, NEW c, Tidy(c, R, V), Mine(c, R), NEW p \in Partition
    PROVE  LET d == setPartition(c, p) IN Lost(d) \/ (Mine(d, R) /\ Steady(c, d))
<1> DEFINE n == c.notify
           less == removeNotification(c)
           moved == [n EXCEPT !.partition = p, !.follows = @ \cup {p}]
           set == [less EXCEPT !.notify.partition = p, !.notify.follows = @ \cup {p}]
           d == setPartition(c, p)
<1>1. d = IF n.partition = p THEN c ELSE initNotify(set)
  BY DEF setPartition
<1>2. CASE n.partition = p
  BY <1>1, <1>2 DEF Steady
<1>3. CASE n.partition # p
  <2>1. DOMAIN n = NotifyFields
    BY DEF Tidy, Loose, Formed
  <2>2. /\ Tidy(less, R, V) /\ less.notify = n /\ (Watched(less) => Watched(c))
        /\ less.lastId \in Nat /\ c.lastId \in Nat /\ c.lastId <= less.lastId
    BY RemoveNotificationIs
  <2> HIDE DEF less
  <2>3. Formed(less)
    BY <2>2 DEF Tidy, Loose
  <2>4. set = [less EXCEPT !.notify = moved]
    BY <2>2, <2>3 DEF Formed, Shaped, Fields
  <2>5. /\ DOMAIN moved = NotifyFields /\ moved.watcher = n.watcher /\ moved.alive = n.alive
        /\ moved.query = n.query /\ moved.status = n.status /\ moved.enabled = n.enabled
        /\ moved.actions = n.actions /\ moved.partition = p /\ moved.follows = n.follows \cup {p}
    BY <2>1 DEF NotifyFields
  <2> HIDE DEF set, moved, d, n
  <2>6. Tidy(set, R, V) /\ set.notify = moved
    BY <2>2, <2>4, <2>5, TidyNotifySet
  <2>7. set.watchers = less.watchers /\ set.lastId = less.lastId
    BY <2>3, <2>4 DEF Formed, Shaped, Fields
  <2>8. Watched(set) => Watched(c)
    BY <2>2, <2>5, <2>6, <2>7 DEF Watched
  <2>9. OwnPartition(set)
    BY <2>5, <2>6 DEF OwnPartition
  <2>10. Numbered(set)
    BY <2>2, <2>5, <2>6, <2>7 DEF Mine, Numbered, n
  <2>11. /\ Watched(c) => c.notify.enabled /\ parametersReady(c.notify)
         /\ c.notify.status = "Ready" => Watched(c)
    BY DEF Mine, AsAsked
  <2>12. Resettable(set)
    BY <2>5, <2>6, <2>8, <2>9, <2>10, <2>11 DEF Resettable, n
  <2>13. Lost(d) \/ (Mine(d, R) /\ Again(set, d))
    BY <1>1, <1>3, <2>6, <2>12, SetAnew
  <2>14. ASSUME Again(set, d) PROVE Steady(c, d)
    <3>1. Watched(c) => set.notify.enabled /\ parametersReady(set.notify)
      BY <2>5, <2>6, <2>11, NoneIsNoPartition DEF parametersReady, n
    <3>2. CASE parametersReady(set.notify) /\ set.notify.enabled
      <4>1. d.notify.watcher.id \in Nat /\ d.notify.watcher.id > set.lastId
        BY <2>14, <3>2 DEF Again
      <4>2. d.notify.watcher.id > c.lastId
        BY <2>2, <2>7, <4>1
      <4>3. c.notify.watcher.id \in 0 .. c.lastId
        BY DEF Mine, Numbered
      <4>4. d.notify.watcher # c.notify.watcher
        BY <2>2, <4>2, <4>3
      <4> QED  BY <4>2, <4>4 DEF Steady
    <3>3. CASE ~(parametersReady(set.notify) /\ set.notify.enabled)
      <4>1. ~Watched(c) /\ ~Watched(d)
        BY <2>14, <3>1, <3>3 DEF Again
      <4> QED  BY <4>1 DEF Steady
    <3> QED  BY <3>2, <3>3
  <2> QED  BY <2>13, <2>14 DEF d
<1> QED  BY <1>2, <1>3

LEMMA DeleteNotifyHears ==
    ASSUME NEW R, NEW V, NEW c, Tidy(c, R, V)
    PROVE  LET d == DeleteNotify(c) IN Mine(d, R) /\ Steady(c, d)
<1> DEFINE n == c.notify
           removed == IF n.enabled THEN removeNotification(c) ELSE c
           rid == DeleteWatcher(removed, n.watcher)
           none == [n EXCEPT !.alive = FALSE, !.watcher = NoWatcher, !.partition = None,
                             !.follows = {}, !.query = "", !.actions = {}, !.status = "Null"]
           d == DeleteNotify(c)
<1>1. d = [rid EXCEPT !.notify = none]
  BY DEF DeleteNotify
<1>2. Tidy(d, R, V)
  BY TidyDeleteNotify
<1>3. Tidy(removed, R, V)
  BY TidyRemoveNotification
<1> HIDE DEF removed
<1>4. Formed(rid)
  BY <1>3, LooseDelete DEF Loose
<1>5. none.watcher = NoWatcher /\ none.partition = None /\ none.status = "Null"
  BY DEF Tidy, Loose, Formed, NotifyFields
<1> HIDE DEF rid, none, d
<1>6. d.notify = none
  BY <1>1, <1>4 DEF Formed, Shaped, Fields
<1>7. d.lastId \in Nat /\ ~Watched(d)
  BY <1>2, <1>5, <1>6, TidyNumbers DEF Watched
<1>8. Mine(d, R)
  <2>1. NoWatcher.id = 0
    BY DEF NoWatcher
  <2>2. OwnPartition(d) /\ AsAsked(d)
    BY <1>5, <1>6, <1>7 DEF OwnPartition, AsAsked
  <2>3. Numbered(d)
    BY <1>5, <1>6, <1>7, <2>1 DEF Numbered
  <2> QED  BY <1>5, <1>6, <1>7, <2>2, <2>3 DEF Mine
<1>9. c.notify.watcher = NoWatcher => ~Watched(c)
  BY TidyNumbers DEF Watched
<1>10. Steady(c, d)
  BY <1>5, <1>6, <1>7, <1>9 DEF Steady
<1> QED  BY <1>8, <1>10 DEF d

LEMMA CreateNotificationHears ==
    ASSUME NEW R, NEW V, NEW c, Tidy(c, R, V), ~c.notify.alive, NEW p \in Partition, NEW query
    PROVE  LET d == createNotification(c, p, query) IN Mine(d, R) /\ Steady(c, d)
<1> DEFINE e == Created(c, p, query)
           d == createNotification(c, p, query)
<1>1. d = initNotify(e)
  BY DEF createNotification, Created
<1>2. /\ Tidy(e, R, V) /\ e.partition = c.partition /\ e.watchers = c.watchers
      /\ e.lastId = c.lastId
      /\ e.notify = [alive |-> TRUE, partition |-> p, query |-> query, actions |-> Action,
                     enabled |-> TRUE, status |-> "Null", watcher |-> NoWatcher,
                     follows |-> {p}]
  BY TidyCreated
<1> HIDE DEF e, d
<1>3. /\ e.notify.watcher = NoWatcher /\ e.notify.enabled /\ e.notify.partition = p
      /\ e.notify.follows = {p} /\ e.lastId \in Nat /\ NoWatcher \notin e.watchers
  BY <1>2, TidyNumbers
<1>4. ~Watched(e)
  BY <1>3 DEF Watched
<1>5. Resettable(e)
  <2>1. NoWatcher.id = 0
    BY DEF NoWatcher
  <2>2. OwnPartition(e) /\ Numbered(e)
    BY <1>3, <2>1 DEF OwnPartition, Numbered
  <2> QED  BY <1>3, <1>4, <2>2 DEF Resettable
<1>6. Mine(d, R) /\ Again(e, d)
  BY <1>1, <1>2, <1>4, <1>5, SetAnew
<1>7. c.notify.watcher = NoWatcher /\ ~Watched(c)
  <2>1. c.notify.watcher = NoWatcher
    BY DEF Tidy, Loose, OneOfMine
  <2> QED  BY <2>1, TidyNumbers DEF Watched
<1>8. Steady(c, d)
  <2>1. CASE parametersReady(e.notify) /\ e.notify.enabled
    <3>1. d.notify.watcher.id \in Nat /\ d.notify.watcher.id > c.lastId
      BY <1>2, <1>6, <2>1 DEF Again
    <3>2. d.notify.watcher # NoWatcher
      <4>1. NoWatcher.id = 0
        BY DEF NoWatcher
      <4> QED  BY <1>2, <1>3, <3>1, <4>1
    <3> QED  BY <1>7, <3>1, <3>2 DEF Steady
  <2>2. CASE ~(parametersReady(e.notify) /\ e.notify.enabled)
    BY <1>6, <1>7, <2>2 DEF Again, Steady
  <2> QED  BY <2>1, <2>2
<1> QED  BY <1>6, <1>8 DEF d

-----------------------------------------------------------------------------
(***************************************************************************)
(* A partition object is renamed or destroyed.                             *)
(***************************************************************************)
LEMMA SetNameHears ==
    ASSUME NEW R, NEW V, NEW c, Tidy(c, R, V), Mine(c, R), NEW p \in Partition, NEW name
    PROVE  LET d == setName(c, p, name) IN Lost(d) \/ (Mine(d, R) /\ Steady(c, d))
<1> DEFINE u == Unwatched(c, p)
           quiet == [u EXCEPT !.partition[p].state = "None"]
           set == [quiet EXCEPT !.partition[p].name = name]
           begun == init(set, p)
<1>1. setName(c, p, name) = IF name = c.partition[p].name THEN c ELSE nameChanged(begun, p)
  BY DEF setName
<1>2. Tidy(u, R, V) /\ Untouched(c, u)
  BY TidyUnwatched, UnwatchedUntouched
<1> HIDE DEF u
<1>3. Tidy(quiet, R, V) /\ Untouched(u, quiet)
  BY <1>2, TidyState, StateUntouched
<1> HIDE DEF quiet
<1>4. /\ Tidy(set, R, V) /\ Beside(quiet, set)
      /\ quiet.notify.partition \notin Partition \/ p # quiet.notify.partition
           => Untouched(quiet, set)
  BY <1>3, TidyState, StateUntouched
<1> HIDE DEF set
<1>5. Tidy(begun, R, V) /\ Untouched(set, begun)
  BY <1>4, TidyInit, InitUntouched
<1> HIDE DEF begun
<1>6. Beside(c, begun)
  BY <1>2, <1>3, <1>4, <1>5, BesideNext DEF Untouched
<1>7. p \notin c.notify.follows => Untouched(c, begun)
  <2> SUFFICES ASSUME p \notin c.notify.follows PROVE Untouched(c, begun)
    OBVIOUS
  <2>1. p # c.notify.partition
    BY NoneIsNoPartition DEF Mine, OwnPartition
  <2>2. p # quiet.notify.partition
    BY <1>2, <1>3, <2>1 DEF Untouched, Beside
  <2>3. Untouched(quiet, set)
    BY <1>4, <2>2
  <2>4. Untouched(c, quiet)
    BY <1>2, <1>3, BesideNext
  <2>5. Untouched(c, set)
    BY <2>3, <2>4, BesideNext
  <2> QED  BY <1>5, <2>5, BesideNext
<1>8. LET e == nameChanged(begun, p) IN Lost(e) \/ (Mine(e, R) /\ Steady(c, e))
  BY <1>5, <1>6, <1>7, NameChangedHears
<1> QED  BY <1>1, <1>8 DEF Steady

\* What an answer leads to: the same watcher, watched as before.
Same(c, d) ==
    /\ d.notify.watcher = c.notify.watcher /\ d.notify.enabled = c.notify.enabled
    /\ Watched(d) <=> Watched(c)

LEMMA SameUntouched ==
    ASSUME NEW R, NEW c, Mine(c, R), NEW d, Untouched(c, d)
    PROVE  Mine(d, R) /\ Same(c, d)
BY MineUntouched DEF Same, Untouched, Beside

LEMMA ExposedUntouched ==
    ASSUME NEW R, NEW V, NEW c, Tidy(c, R, V), NEW e
    PROVE  Untouched(c, Exposed(c, e)) /\ e \in Exposed(c, e).exposed
<1> DEFINE d == Exposed(c, e)
<1>1. DOMAIN c = Fields
  BY DEF Tidy, Loose, Formed, Shaped
<1>2. /\ d.partition = c.partition /\ d.notify = c.notify
      /\ d.watchers = c.watchers /\ d.lastId = c.lastId /\ e \in d.exposed
  BY <1>1 DEF Exposed, Fields
<1> HIDE DEF d
<1> QED  BY <1>2, OthersUntouched DEF d

LEMMA PartitionQueryFinishedHears ==
    ASSUME NEW R, NEW V, NEW c, Tidy(c, R, V), Mine(c, R), NEW p, NEW name, NEW found
    PROVE  LET d == partitionQueryFinished(c, p, name, found)
           IN Lost(d) \/ (Mine(d, R) /\ Same(c, d))
<1> DEFINE taken == [c EXCEPT !.partition[p].state = found]
           known == IF \E r \in Pending(c) : r.kind = "state" /\ r.of = p
                    THEN Exposed(taken, "outdated") ELSE taken
           given == [known EXCEPT !.partition[p].name = name]
           named == nameChanged(given, p)
           moved == IF c.notify.watcher # named.notify.watcher THEN Exposed(named,
             "renamed") ELSE named
           d == partitionQueryFinished(c, p, name, found)
<1>1. d \in {c, known, moved}
  BY DEF partitionQueryFinished
<1> HIDE DEF d
<1>2. Tidy(taken, R, V) /\ Untouched(c, taken)
  BY TidyState, StateUntouched
<1> HIDE DEF taken
<1>3. Tidy(known, R, V) /\ Untouched(c, known)
  <2>1. Tidy(Exposed(taken, "outdated"), R, V) /\ Untouched(taken, Exposed(taken, "outdated"))
    BY <1>2, TidyExposed, ExposedUntouched
  <2>2. Untouched(c, Exposed(taken, "outdated"))
    BY <1>2, <2>1, BesideNext
  <2> QED  BY <1>2, <2>1, <2>2
<1> HIDE DEF known
<1>4. /\ Tidy(given, R, V) /\ Beside(known, given)
      /\ known.notify.partition \notin Partition \/ p # known.notify.partition
           => Untouched(known, given)
  BY <1>3, TidyState, StateUntouched
<1> HIDE DEF given
<1>5. Beside(c, given)
  BY <1>3, <1>4, BesideNext DEF Untouched
<1>6. p \notin c.notify.follows => Untouched(c, given)
  <2> SUFFICES ASSUME p \notin c.notify.follows PROVE Untouched(c, given)
    OBVIOUS
  <2>1. c.notify.partition \notin Partition \/ p # c.notify.partition
    BY NoneIsNoPartition DEF Mine, OwnPartition
  <2>2. known.notify = c.notify
    BY <1>3 DEF Untouched, Beside
  <2> QED  BY <1>3, <1>4, <2>1, <2>2, BesideNext
<1>7. Tidy(named, R, V)
  BY <1>4, TidyNameChanged
<1>8. /\ Lost(named) \/ (Mine(named, R) /\ Steady(c, named))
      /\ named = given \/ Lost(named) \/ Again(given, named)
  BY <1>4, <1>5, <1>6, NameChangedHears
<1> HIDE DEF named
<1>9. Lost(moved) \/ (Mine(moved, R) /\ Same(c, moved))
  <2>1. CASE c.notify.watcher # named.notify.watcher
    <3>1. "renamed" \in Exposed(named, "renamed").exposed
      BY <1>7, ExposedUntouched
    <3> QED  BY <2>1, <3>1 DEF Lost
  <2>2. CASE c.notify.watcher = named.notify.watcher /\ ~Lost(named)
    <3>1. named.notify.enabled = c.notify.enabled
      BY <1>5, <1>8, <2>2 DEF Again, Beside
    <3> QED  BY <1>8, <2>2, <3>1 DEF Steady, Same
  <2>3. CASE c.notify.watcher = named.notify.watcher /\ Lost(named)
    BY <2>3
  <2> QED  BY <2>1, <2>2, <2>3
<1> HIDE DEF moved
<1>10. Mine(c, R) /\ Same(c, c) /\ Mine(known, R) /\ Same(c, known)
  BY <1>3, SameUntouched DEF Same
<1> QED  BY <1>1, <1>9, <1>10 DEF d

LEMMA DeletePartitionHears ==
    ASSUME NEW R, NEW V, NEW c, Tidy(c, R, V), Mine(c, R), NEW p \in Partition
    PROVE  LET d == DeletePartition(c, p) IN Lost(d) \/ (Mine(d, R) /\ Steady(c, d))
<1> DEFINE u == Unwatched(c, p)
           gone == [u EXCEPT
                       !.partition[p].alive = FALSE,
                       !.writeCallbacks = {r \in @ : r.of # p},
                         !.findCallbacks = {r \in @ : r.of # p},
                       !.notify.partition = IF @ = p THEN None ELSE @,
                       !.query.partition = IF @ = p THEN None ELSE @]
           waiting == \E r \in c.writeCallbacks \cup c.findCallbacks : r.of = p
           one == IF waiting THEN Exposed(gone, "left") ELSE gone
           rec == [u.partition[p] EXCEPT !.alive = FALSE]
           f == [u.partition EXCEPT ![p] = rec]
           n == [u.notify EXCEPT !.partition = IF @ = p THEN None ELSE @]
           d == DeletePartition(c, p)
<1>1. d = IF c.notify.partition = p /\ Watched(c) THEN Exposed(one, "orphaned") ELSE one
  BY DEF DeletePartition, Watched
<1>2. Tidy(u, R, V) /\ Untouched(c, u)
  BY TidyUnwatched, UnwatchedUntouched
<1> HIDE DEF u, waiting, d
<1>3. Formed(u) /\ u.lastId \in Nat
  BY <1>2 DEF Tidy, Loose, Line
<1>4. rec.name = u.partition[p].name /\ rec.watchers = u.partition[p].watchers
  BY <1>3 DEF Formed, PartitionFields
<1>5. /\ DOMAIN gone = Fields /\ gone.partition = f /\ gone.notify = n
      /\ gone.watchers = u.watchers /\ gone.lastId = u.lastId
  BY <1>3 DEF Formed, Shaped, Fields
<1>6. \A field \in NotifyFields \ {"partition"} : n[field] = u.notify[field]
  BY <1>3 DEF Formed, NotifyFields
<1>7. n.partition = IF u.notify.partition = p THEN None ELSE u.notify.partition
  BY <1>3 DEF Formed, NotifyFields
<1>8. u.notify.partition # p => \A field \in NotifyFields : n[field] = u.notify[field]
  BY <1>6, <1>7
<1> HIDE DEF rec, n
<1>9. \A q \in Partition : f[q].name = u.partition[q].name
        /\ f[q].watchers = u.partition[q].watchers
  BY <1>3, <1>4 DEF Formed
<1> HIDE DEF f, gone
<1>10. /\ one.partition = f /\ one.notify = n /\ DOMAIN one = Fields
       /\ one.watchers = u.watchers /\ one.lastId = u.lastId
  BY <1>5 DEF Exposed, Fields
<1> HIDE DEF one
<1>11. CASE c.notify.partition = p /\ Watched(c)
  <2>1. "orphaned" \in d.exposed
    BY <1>1, <1>10, <1>11 DEF Exposed, Fields
  <2> QED  BY <2>1 DEF Lost, d
<1>12. CASE c.notify.partition # p
  <2>1. u.notify.partition # p
    BY <1>2, <1>12 DEF Untouched, Beside
  <2>2. d = one
    BY <1>1, <1>12
  <2>3. Mine(u, R) /\ Steady(c, u)
    BY <1>2, SteadyUntouched
  <2>4. /\ n.watcher = u.notify.watcher /\ n.enabled = u.notify.enabled /\ n.query = u.notify.query
        /\ n.actions = u.notify.actions /\ n.status = u.notify.status
        /\ n.partition = u.notify.partition /\ n.follows = u.notify.follows
    BY <1>8, <2>1 DEF NotifyFields
  <2>5. Watched(one) <=> Watched(u)
    BY <1>10, <2>4 DEF Watched
  <2>6. OwnPartition(one) /\ Numbered(one)
    BY <1>10, <2>3, <2>4 DEF Mine, OwnPartition, Numbered
  <2>7. AsAsked(one)
    <3> SUFFICES ASSUME Watched(one) PROVE AsAsked(one)
      BY DEF AsAsked
    <3>1. /\ parametersReady(u.notify) /\ u.notify.enabled
          /\ u.notify.watcher.query = u.notify.query /\ u.notify.watcher.actions = u.notify.actions
          /\ u.notify.watcher.name = u.partition[u.notify.partition].name
          /\ u.notify.watcher \in u.partition[u.notify.partition].watchers
      BY <2>3, <2>5 DEF Mine, AsAsked
    <3>2. u.notify.partition \in Partition
      BY <2>3, <3>1 DEF Mine, OwnPartition, parametersReady
    <3> QED  BY <1>9, <1>10, <2>4, <3>1, <3>2 DEF AsAsked, parametersReady
  <2>8. Mine(one, R)
    BY <1>10, <2>3, <2>4, <2>5, <2>6, <2>7 DEF Mine
  <2>9. Steady(c, one)
    BY <1>10, <2>3, <2>4, <2>5 DEF Steady, Mine
  <2> QED  BY <2>2, <2>8, <2>9 DEF d
<1>13. CASE c.notify.partition = p /\ ~Watched(c)
  <2>1. d = one
    BY <1>1, <1>13
  <2>2. /\ u.notify = c.notify /\ ~Watched(u) /\ c.lastId \in Nat /\ c.lastId <= u.lastId
    BY <1>2, <1>13 DEF Untouched, Beside
  <2>3. /\ n.partition = None /\ n.watcher = c.notify.watcher /\ n.enabled = c.notify.enabled
        /\ n.status = c.notify.status
    BY <1>6, <1>7, <1>13, <2>2 DEF NotifyFields
  <2>4. ~Watched(one)
    BY <1>10, <2>2, <2>3 DEF Watched
  <2>5. OwnPartition(one) /\ AsAsked(one)
    BY <1>10, <2>3, <2>4 DEF OwnPartition, AsAsked
  <2>6. Numbered(one)
    BY <1>3, <1>10, <2>2, <2>3 DEF Mine, Numbered
  <2>7. one.notify.status # "Ready"
    BY <1>10, <1>13, <2>3 DEF Mine
  <2>8. Mine(one, R)
    BY <2>4, <2>5, <2>6, <2>7 DEF Mine
  <2>9. Steady(c, one)
    BY <1>10, <1>13, <2>3, <2>4 DEF Steady
  <2> QED  BY <2>1, <2>8, <2>9 DEF d
<1> QED  BY <1>11, <1>12, <1>13

-----------------------------------------------------------------------------
(***************************************************************************)
(* Answers to the notification object.                                     *)
(***************************************************************************)
\* All but that it says it is ready when it is accepted.
Half(c) ==
    /\ OwnPartition(c) /\ AsAsked(c) /\ Numbered(c)
    /\ c.notify.status = "Ready" => Watched(c)

LEMMA StatusHears ==
    ASSUME NEW L, NEW c, Formed(c), Half(c), NEW w, NEW status,
           c.notify.watcher = w /\ status = "Ready" => Watched(c),
           Watched(c) /\ c.notify.watcher \in L =>
               IF c.notify.watcher = w THEN status = "Ready" ELSE c.notify.status = "Ready"
    PROVE  LET d == StatusOf(c, w, status) IN Mine(d, L) /\ Same(c, d)
<1> DEFINE n == [c.notify EXCEPT !.status = status]
           set == [c EXCEPT !.notify.status = status]
<1>1. StatusOf(c, w, status) = IF c.notify.watcher = w THEN set ELSE c
  BY DEF StatusOf
<1>2. set = [c EXCEPT !.notify = n]
  OBVIOUS
<1>3. CASE c.notify.watcher # w
  <2>1. Mine(c, L)
    BY <1>3 DEF Half, Mine
  <2> QED  BY <1>1, <1>3, <2>1 DEF Same
<1>4. CASE c.notify.watcher = w
  <2>1. /\ n.status = status /\ n.watcher = c.notify.watcher /\ n.enabled = c.notify.enabled
        /\ n.query = c.notify.query /\ n.actions = c.notify.actions
        /\ n.partition = c.notify.partition /\ n.follows = c.notify.follows
    BY DEF Formed, NotifyFields
  <2> HIDE DEF n, set
  <2>2. /\ set.notify = n /\ set.partition = c.partition
        /\ set.watchers = c.watchers /\ set.lastId = c.lastId
    BY <1>2 DEF Formed, Shaped, Fields
  <2>3. Watched(set) <=> Watched(c)
    BY <2>1, <2>2 DEF Watched
  <2>4. OwnPartition(set) /\ Numbered(set)
    BY <2>1, <2>2 DEF Half, OwnPartition, Numbered
  <2>5. AsAsked(set)
    BY <2>1, <2>2, <2>3 DEF Half, AsAsked, parametersReady
  <2>6. Mine(set, L)
    BY <1>4, <2>1, <2>2, <2>3, <2>4, <2>5 DEF Mine
  <2>7. Same(c, set)
    BY <2>1, <2>2, <2>3 DEF Same
  <2> QED  BY <1>1, <1>4, <2>6, <2>7
<1> QED  BY <1>3, <1>4

\* What was sent to the daemon for a watcher that is watched is its
\* registration.
LEMMA HandledHears ==
    ASSUME NEW R, NEW V, NEW c, Formed(c), Half(c), NEW r, NEW ok \in BOOLEAN,
           NEW L, L = Listed(r, ok, R), Watched(c) /\ c.notify.watcher \in R
             => c.notify.status = "Ready",
           ~(r.kind = "remove" /\ ok) => Tidy(c, L, V),
           r.kind = "add" => r.watcher \notin R,
           r.kind = "remove" => r.watcher \notin c.watchers
    PROVE  LET d == Handled(c, r, ok) IN Lost(d) \/ (Mine(d, L) /\ Same(c, d))
<1> DEFINE w == c.notify.watcher
           d == Handled(c, r, ok)
<1>1. /\ r.kind = "add" /\ ok => L = R \cup {r.watcher}
      /\ r.kind = "remove" => L = R \ {r.watcher}
      /\ ~(r.kind = "add" /\ ok) /\ r.kind # "remove" => L = R
  BY ListedIs
<1>2. w \in L /\ w # r.watcher => w \in R
  BY <1>1
<1>3. CASE r.kind = "add" /\ r.watcher \in c.watchers
  <2>1. PICK status : /\ d = StatusOf(c, r.watcher, status)
                      /\ status = "Ready" <=> ok
    <3>1. d = StatusOf(c, r.watcher, IF ok THEN "Ready" ELSE "Error")
      BY <1>3 DEF Handled
    <3> QED  BY <3>1
  <2>2. w = r.watcher => Watched(c)
    BY <1>3 DEF Watched
  <2>3. w = r.watcher /\ w \in L => ok
    BY <1>1, <1>3
  <2>4. LET e == StatusOf(c, r.watcher, status) IN Mine(e, L) /\ Same(c, e)
    BY <1>2, <2>1, <2>2, <2>3, StatusHears
  <2> QED  BY <2>1, <2>4
<1>4. CASE r.kind = "remove" /\ ok
  <2>1. d = StatusOf(c, r.watcher, "Null")
    BY <1>4 DEF Handled
  <2>2. w = r.watcher => ~Watched(c)
    BY <1>4 DEF Watched
  <2>3. LET e == StatusOf(c, r.watcher, "Null") IN Mine(e, L) /\ Same(c, e)
    BY <1>2, <2>2, StatusHears
  <2> QED  BY <2>1, <2>3
<1>5. CASE ~(r.kind = "add" /\ r.watcher \in c.watchers) /\ ~(r.kind = "remove" /\ ok)
  <2>1. w = r.watcher /\ r.kind \in {"add", "remove"} => ~Watched(c)
    BY <1>5 DEF Watched
  <2>2. Watched(c) /\ w \in L => c.notify.status = "Ready"
    BY <1>1, <1>2, <2>1
  <2>3. Mine(c, L) /\ Tidy(c, L, V)
    BY <1>5, <2>2 DEF Mine, Half
  <2>4. Same(c, c)
    BY DEF Same
  <2>5. CASE r.kind = "state" /\ ok
    <3>1. \E p, name, found : d = partitionQueryFinished(c, p, name, found)
      BY <2>5 DEF Handled
    <3> QED  BY <2>3, <3>1, PartitionQueryFinishedHears
  <2>6. CASE r.kind = "state" /\ ~ok
    <3>1. PICK p : d = partitionQueryError(c, p)
      BY <2>6 DEF Handled
    <3> DEFINE e == [c EXCEPT !.partition[p].state = "Error"]
    <3>2. d \in {c, Exposed(e, "refused")}
      BY <3>1 DEF partitionQueryError
    <3>3. Tidy(e, L, V) /\ Untouched(c, e)
      BY <2>3, TidyState, StateUntouched
    <3> HIDE DEF e
    <3>4. Untouched(e, Exposed(e, "refused"))
      BY <3>3, ExposedUntouched
    <3>5. Untouched(c, Exposed(e, "refused"))
      BY <3>3, <3>4, BesideNext
    <3> QED  BY <2>3, <2>4, <3>2, <3>5, SameUntouched
  <2>7. CASE r.kind \in {"write", "find", "query"}
    <3>1. /\ d.partition = c.partition /\ d.notify = c.notify
          /\ d.watchers = c.watchers /\ d.lastId = c.lastId
      BY <2>7 DEF Handled, requestFinished, requestError, queryFinished, queryStatusChanged,
                  call, callErrorCallback, Called, Formed, Shaped, Fields
    <3> HIDE DEF d
    <3>2. Untouched(c, d)
      BY <2>3, <3>1, OthersUntouched
    <3> QED  BY <2>3, <3>2, SameUntouched DEF d
  <2>8. CASE r.kind \notin {"write", "find", "query", "state"}
    <3>1. d = c
      BY <1>5, <2>8 DEF Handled
    <3> QED  BY <2>3, <2>4, <3>1
  <2> QED  BY <2>5, <2>6, <2>7, <2>8
<1> QED  BY <1>3, <1>4, <1>5

LEMMA AnsweredHears ==
    ASSUME NEW R, NEW V, NEW c, Tidy(c, R, V), Mine(c, R), c.wire # <<>>, NEW ok \in BOOLEAN,
           Head(c.wire).kind = "remove" /\ ~ok => Head(c.wire).watcher \notin R \ V.forgotten
    PROVE  LET d == Answered(c, Head(c.wire), ok)
           IN Lost(d) \/ (Mine(d, Listed(Head(c.wire), ok, R)) /\ Same(c, d))
<1> DEFINE r == Head(c.wire)
           L == Listed(r, ok, R)
           read == [c EXCEPT !.wire = Tail(@)]
           e == [read EXCEPT !.current = None]
<1>1. Answered(c, r, ok) = IF r.id = c.current THEN handleRequestQueue(Handled(e, r, ok))
                           ELSE handleRequestQueue(read)
  BY DEF Answered
<1>2. /\ Popped(c, read) /\ Popped(c, e) /\ r \in Members(c.wire)
      /\ r.id # c.current => Tidy(read, L, V)
      /\ r.id = c.current /\ ~(r.kind = "remove" /\ ok) => Tidy(e, L, V)
      /\ r.id = c.current => Tidy(Handled(e, r, ok), L, V)
  BY TidyRead
<1> HIDE DEF read, e
<1>3. /\ r.kind = "add" /\ ok => L = R \cup {r.watcher}
      /\ r.kind = "remove" => L = R \ {r.watcher}
      /\ ~(r.kind = "add" /\ ok) /\ r.kind # "remove" => L = R
  BY ListedIs
<1>4. /\ r.kind = "add" => Internal(r) /\ r.watcher \notin R
      /\ r.kind = "remove" => r.watcher \notin c.watchers
  BY <1>2 DEF Tidy, Loose, Tagged, Known, Sent
<1>5. ASSUME NEW h, Popped(c, h)
      PROVE  /\ Formed(h) /\ Half(h) /\ h.notify = c.notify /\ h.watchers = c.watchers
             /\ Watched(h) <=> Watched(c)
  <2>1. /\ Formed(h) /\ h.notify = c.notify /\ h.watchers = c.watchers
        /\ h.partition = c.partition /\ h.lastId = c.lastId
    BY <1>5 DEF Popped, SameObjects
  <2>2. Watched(h) <=> Watched(c)
    BY <2>1 DEF Watched
  <2>3. Half(h)
    BY <2>1, <2>2 DEF Mine, Half, OwnPartition, AsAsked, Numbered
  <2> QED  BY <2>1, <2>2, <2>3
<1>6. CASE r.id # c.current
  <2>1. c.notify.watcher \in L => c.notify.watcher \in R
    <3>1. r.kind = "add" => r.watcher # c.notify.watcher
      BY <1>2, <1>4, <1>6 DEF Tidy, Heard
    <3> QED  BY <1>3, <3>1
  <2>2. Mine(read, L)
    BY <1>2, <1>5, <2>1 DEF Half, Mine
  <2>3. Tidy(read, L, V)
    BY <1>2, <1>6
  <2> DEFINE d == handleRequestQueue(read)
  <2>4. Untouched(read, d)
    BY <2>3, QueueUntouched
  <2>5. Mine(d, L) /\ Same(read, d)
    BY <2>2, <2>4, SameUntouched
  <2>6. Same(c, d)
    BY <1>2, <1>5, <2>5 DEF Same
  <2> QED  BY <1>1, <1>6, <2>5, <2>6
<1>7. CASE r.id = c.current
  <2> DEFINE h == Handled(e, r, ok)
             d == handleRequestQueue(h)
  <2>1. /\ Formed(e) /\ Half(e) /\ e.notify = c.notify /\ e.watchers = c.watchers
        /\ Watched(e) <=> Watched(c)
    BY <1>2, <1>5
  <2>2. Watched(e) /\ e.notify.watcher \in R => e.notify.status = "Ready"
    BY <2>1 DEF Mine
  <2>3. ~(r.kind = "remove" /\ ok) => Tidy(e, L, V)
    BY <1>2, <1>7
  <2>4. Tidy(h, L, V)
    BY <1>2, <1>7
  <2> HIDE DEF L, r
  <2>5. Lost(h) \/ (Mine(h, L) /\ Same(e, h))
    BY <1>4, <2>1, <2>2, <2>3, HandledHears DEF L
  <2> HIDE DEF h
  <2>6. Untouched(h, d) /\ d.exposed = h.exposed
    BY <2>4, QueueUntouched
  <2>7. Lost(h) => Lost(d)
    BY <2>6 DEF Lost
  <2>8. Mine(h, L) => Mine(d, L) /\ Same(h, d)
    BY <2>6, SameUntouched
  <2>9. Same(e, h) /\ Same(h, d) => Same(c, d)
    BY <2>1 DEF Same
  <2>10. Answered(c, r, ok) = d
    BY <1>1, <1>7 DEF h
  <2> HIDE DEF d
  <2>11. Lost(d) \/ (Mine(d, L) /\ Same(c, d))
    BY <2>5, <2>7, <2>8, <2>9
  <2> QED  BY <2>10, <2>11 DEF L, r
<1> QED  BY <1>6, <1>7

-----------------------------------------------------------------------------
(***************************************************************************)
(* Notifications on their way to a watcher.                                *)
(***************************************************************************)
LEMMA ToIsFinite ==
    ASSUME NEW s, IsSeq(s), NEW w
    PROVE  IsFiniteSet(To(s, w)) /\ Count(s, w) \in Nat /\ (Count(s, w) = 0 <=> To(s, w) = {})
<1> DEFINE n == Len(s)
<1>1. n \in Nat /\ DOMAIN s = 1 .. n
  BY LenProperties DEF IsSeq
<1> HIDE DEF n
<1>2. IsFiniteSet(1 .. n)
  BY <1>1, FS_Interval
<1>3. To(s, w) \in SUBSET (1 .. n)
  BY <1>1 DEF To
<1>4. IsFiniteSet(To(s, w))
  BY <1>2, <1>3, FS_Subset
<1> QED  BY <1>4, FS_CardinalityType, FS_EmptySet DEF Count

LEMMA CountNone ==
    ASSUME NEW s, NEW w, \A i \in DOMAIN s : s[i].watcher # w
    PROVE  Count(s, w) = 0
<1>1. To(s, w) = {}
  BY DEF To
<1> QED  BY <1>1, FS_EmptySet DEF Count

LEMMA CountTail ==
    ASSUME NEW s, IsSeq(s), s # <<>>, NEW w
    PROVE  /\ Count(Tail(s), w) \in Nat
           /\ Count(s, w) = IF Head(s).watcher = w THEN Count(Tail(s), w) + 1 ELSE Count(Tail(s), w)
<1> DEFINE t == Tail(s)
           n == Len(s)
           A == To(t, w)
           B == {i \in To(s, w) : i # 1}
           f == [i \in A |-> i + 1]
<1>1. /\ n \in Nat /\ n > 0 /\ DOMAIN s = 1 .. n /\ Head(s) = s[1]
      /\ DOMAIN t = 1 .. n - 1 /\ \A i \in 1 .. n - 1 : t[i] = s[i + 1]
  <2>1. s \in Seq(Members(s))
    BY DEF IsSeq
  <2>2. n \in Nat /\ DOMAIN s = 1 .. n /\ n > 0
    BY <2>1, LenProperties, EmptySeq
  <2>3. Len(t) = n - 1 /\ (\A i \in 1 .. Len(t) : t[i] = s[i + 1]) /\ t \in Seq(Members(s))
    BY <2>1, HeadTailProperties
  <2>4. DOMAIN t = 1 .. n - 1
    BY <2>3, LenProperties
  <2> QED  BY <2>1, <2>2, <2>3, <2>4, HeadTailProperties
<1>2. IsSeq(t)
  BY TailFacts
<1>3. IsFiniteSet(A) /\ Cardinality(A) \in Nat
  BY <1>2, ToIsFinite DEF Count
<1>4. f \in Bijection(A, B)
  <2>1. \A i \in A : i \in 1 .. n - 1 /\ i + 1 \in B
    BY <1>1 DEF To
  <2>2. \A j \in B : j - 1 \in A /\ (j - 1) + 1 = j
    BY <1>1 DEF To
  <2>3. f \in [A -> B]
    BY <2>1
  <2>4. \A i, j \in A : f[i] = f[j] => i = j
    BY <2>1
  <2>5. \A j \in B : f[j - 1] = j /\ j - 1 \in A
    BY <2>2
  <2>6. DOMAIN f = A
    OBVIOUS
  <2> HIDE DEF A, B, f
  <2>7. f \in Injection(A, B)
    BY <2>3, <2>4, <2>6 DEF Injection, IsInjective
  <2>8. f \in Surjection(A, B)
    BY <2>3, <2>5 DEF Surjection
  <2> QED  BY <2>7, <2>8 DEF Bijection
<1>5. IsFiniteSet(B) /\ Cardinality(B) = Cardinality(A)
  <2> HIDE DEF A, B, f
  <2>1. ExistsBijection(A, B)
    BY <1>4 DEF ExistsBijection
  <2> QED  BY <1>3, <2>1, FS_Bijection
<1>6. CASE Head(s).watcher = w
  <2>1. To(s, w) = B \cup {1} /\ 1 \notin B
    BY <1>1, <1>6 DEF To
  <2> HIDE DEF A, B
  <2>2. Cardinality(To(s, w)) = Cardinality(B) + 1
    BY <1>5, <2>1, FS_AddElement
  <2> QED  BY <1>3, <1>5, <1>6, <2>2 DEF Count, A
<1>7. CASE Head(s).watcher # w
  <2>1. To(s, w) = B
    BY <1>1, <1>7 DEF To
  <2> HIDE DEF A, B
  <2> QED  BY <1>3, <1>5, <1>7, <2>1 DEF Count, A
<1> QED  BY <1>6, <1>7

\* One notification for each watcher of W.
Each(T, W) ==
    /\ \A j \in T : j.watcher \in W
    /\ \A j, l \in T : j.watcher = l.watcher => j = l
    /\ \A v \in W : \E j \in T : j.watcher = v

LEMMA CountNotified ==
    ASSUME NEW s, IsSeq(s), NEW W, NEW T, IsFiniteSet(T), Each(T, W), NEW w
    PROVE  LET t == s \o SetToSeq(T)
           IN /\ IsSeq(t) /\ Members(t) \subseteq Members(s) \cup T
              /\ Count(t, w) = IF w \in W THEN Count(s, w) + 1 ELSE Count(s, w)
<1> DEFINE S == Members(s) \cup T
           u == SetToSeq(T)
           t == s \o u
           m == Len(s)
           k == Cardinality(T)
<1>2. k \in Nat /\ u \in Bijection(1 .. k, T) /\ u \in Seq(T)
  BY SetToSeqCovers, SetToSeqFacts
<1>3. s \in Seq(Members(s)) /\ m \in Nat /\ DOMAIN s = 1 .. m
  BY LenProperties DEF IsSeq
<1>4. /\ \A j \in T : j.watcher \in W
      /\ \A j, l \in T : j.watcher = l.watcher => j = l
      /\ \A v \in W : \E j \in T : j.watcher = v
  BY DEF Each
<1> HIDE DEF u
<1>5. s \in Seq(S) /\ u \in Seq(S)
  <2>1. Members(s) \subseteq S /\ T \subseteq S
    OBVIOUS
  <2> HIDE DEF S
  <2> QED  BY <1>2, <1>3, <2>1, SeqMonotonic
<1>6. /\ DOMAIN u = 1 .. k /\ Len(u) = k /\ \A i \in 1 .. k : u[i] \in T
      /\ \A i, j \in 1 .. k : u[i] = u[j] => i = j
      /\ \A e \in T : \E i \in 1 .. k : u[i] = e
  <2>1. u \in [1 .. k -> T]
    BY <1>2 DEF Bijection, Injection
  <2>2. Len(u) \in Nat /\ DOMAIN u = 1 .. Len(u)
    BY <1>2, LenProperties
  <2>3. Len(u) = k
    BY <1>2, <2>1, <2>2
  <2>4. \A i, j \in 1 .. k : u[i] = u[j] => i = j
    BY <1>2, <2>1 DEF Bijection, Injection, IsInjective
  <2>5. \A e \in T : \E i \in 1 .. k : u[i] = e
    BY <1>2 DEF Bijection, Surjection
  <2> QED  BY <2>1, <2>3, <2>4, <2>5
<1> HIDE DEF S, k
<1>7. /\ t \in Seq(S) /\ DOMAIN t = 1 .. m + k
      /\ \A i \in 1 .. m : t[i] = s[i]
      /\ \A i \in 1 .. k : t[m + i] = u[i]
  <2>1. t \in Seq(S) /\ Len(t) = m + k
    <3>1. s \o u \in Seq(S) /\ Len(s \o u) = Len(s) + Len(u)
      BY <1>5, ConcatProperties
    <3> QED  BY <1>6, <3>1 DEF t, m
  <2>2. \A i \in 1 .. m + k : t[i] = IF i <= m THEN s[i] ELSE u[i - m]
    BY <1>5, <1>6, ConcatProperties
  <2>3. \A i \in 1 .. m : t[i] = s[i]
    BY <1>2, <1>3, <2>2 DEF k
  <2>4. \A i \in 1 .. k : t[m + i] = u[i]
    <3> SUFFICES ASSUME NEW i \in 1 .. k PROVE t[m + i] = u[i]
      OBVIOUS
    <3>1. k \in Nat
      BY <1>2 DEF k
    <3>2. m + i \in 1 .. m + k /\ ~(m + i <= m) /\ (m + i) - m = i
      BY <1>3, <3>1
    <3> QED  BY <2>2, <3>2
  <2> QED  BY <2>1, <2>3, <2>4, LenProperties
<1> HIDE DEF t, m
<1>8. k \in Nat
  BY <1>2 DEF k
<1>9. IsSeq(t) /\ Members(t) \subseteq Members(s) \cup T
  BY <1>7, IsSeqOf DEF S
<1>10. IsFiniteSet(To(s, w)) /\ Count(s, w) = Cardinality(To(s, w))
  BY ToIsFinite DEF Count
<1>11. \A i \in 1 .. m + k : i \in 1 .. m \/ \E j \in 1 .. k : i = m + j
  <2> SUFFICES ASSUME NEW i \in 1 .. m + k, i \notin 1 .. m PROVE i - m \in 1 .. k
                        /\ i = m + (i - m)
    OBVIOUS
  <2> QED  BY <1>3, <1>8
<1>12. \A i \in 1 .. m : i \in 1 .. m + k
  BY <1>3, <1>8
<1>13. \A j \in 1 .. k : m + j \in 1 .. m + k /\ m + j \notin 1 .. m
  BY <1>3, <1>8
<1>14. CASE w \notin W
  <2>1. \A j \in 1 .. k : t[m + j].watcher # w
    BY <1>4, <1>6, <1>7, <1>14
  <2>2. To(t, w) = To(s, w)
    BY <1>3, <1>7, <1>11, <1>12, <2>1 DEF To
  <2> QED  BY <1>9, <1>14, <2>2 DEF Count, t, u
<1>15. CASE w \in W
  <2>1. PICK j \in 1 .. k : u[j].watcher = w
    BY <1>4, <1>6, <1>15
  <2>2. \A i \in 1 .. k : u[i].watcher = w => i = j
    BY <1>4, <1>6, <2>1
  <2>3. m + j \notin To(s, w)
    BY <1>3, <1>13 DEF To
  <2>4. To(t, w) = To(s, w) \cup {m + j}
    <3>1. \A i \in 1 .. m + k : i \in To(t, w) <=> i \in To(s, w) \/ i = m + j
      <4> SUFFICES ASSUME NEW i \in 1 .. m + k
                   PROVE  t[i].watcher = w <=> (i \in 1 .. m /\ s[i].watcher = w) \/ i = m + j
        BY <1>3, <1>7 DEF To
      <4>1. CASE i \in 1 .. m
        BY <1>7, <1>13, <4>1
      <4>2. CASE i \notin 1 .. m
        <5>1. PICK l \in 1 .. k : i = m + l
          BY <1>11, <4>2
        <5>2. l = j <=> i = m + j
          BY <1>3, <1>8, <5>1
        <5> QED  BY <1>7, <2>1, <2>2, <4>2, <5>1, <5>2
      <4> QED  BY <4>1, <4>2
    <3>2. To(t, w) \subseteq 1 .. m + k /\ To(s, w) \subseteq 1 .. m + k /\ m + j \in 1 .. m + k
      BY <1>3, <1>7, <1>12, <1>13 DEF To
    <3> QED  BY <3>1, <3>2
  <2>5. Cardinality(To(t, w)) = Cardinality(To(s, w)) + 1
    BY <1>10, <2>3, <2>4, FS_AddElement
  <2> QED  BY <1>9, <1>10, <1>15, <2>5 DEF Count, t, u
<1> QED  BY <1>14, <1>15

-----------------------------------------------------------------------------
(***************************************************************************)
(* The invariant: what the notification object has to hear is what is on   *)
(* its way to the watcher it has.                                          *)
(***************************************************************************)
LEMMA WatchedIsWanted ==
    ASSUME NEW R, Mine(x, R), Watched(x), NEW name, NEW query, NEW action
    PROVE  Wanted(name, query, action) <=> Fits(x.notify.watcher, name, query, action)
BY DEF Mine, AsAsked, parametersReady, Wanted, Fits

LEMMA HearingAtFirst ==
    ASSUME Init
    PROVE  Hearing
<1>1. Registrations
  BY RegistrationsAtFirst
<1>2. accepted = {} /\ events = <<>> /\ owed = 0 /\ stray = FALSE
  BY DEF Init
<1>3. Fitting(events)
  BY <1>2, NothingSent DEF Fitting
<1>4. ASSUME NEW w PROVE Count(events, w) = 0
  <2>1. To(events, w) = {}
    BY <1>2 DEF To
  <2> QED  BY <2>1, FS_EmptySet DEF Count
<1>5. Mine(x, {})
  <2>1. Tidy(Made, {}, NoPast) /\ ~Made.notify.alive /\ Made.notify = NoObjects.notify
    BY MadeIsTidy
  <2>2. CASE x = Made
    <3> DEFINE n == NoObjects.notify
    <3>1. n.partition = None /\ n.watcher = NoWatcher /\ n.status = "Null"
      BY DEF NoObjects
    <3> HIDE DEF n
    <3>2. x.notify = n
      BY <2>1, <2>2 DEF n
    <3>3. ~Watched(x) /\ x.lastId \in Nat
      BY <2>1, <2>2, <3>1, <3>2, TidyNumbers DEF Watched
    <3>4. NoWatcher.id = 0
      BY DEF NoWatcher
    <3> QED  BY <3>1, <3>2, <3>3, <3>4 DEF Mine, OwnPartition, AsAsked, Numbered
  <2>3. CASE \E p \in Partition, query \in Query : x = createNotification(Made, p, query)
    BY <2>1, <2>3, CreateNotificationHears
  <2> QED  BY <2>2, <2>3 DEF Init
<1> QED  BY <1>1, <1>2, <1>3, <1>4, <1>5 DEF Hearing, OnItsWay

\* Calls of the application.
LEMMA HearingCall ==
    ASSUME ListenersStay, Hearing, NEW c, Call(c), Tidy(c, accepted, Past),
           Lost(c) \/ (Mine(c, accepted) /\ Steady(x, c))
    PROVE  Hearing'
<1>1. Registrations'
  BY RegistrationsCall DEF Hearing
<1>2. /\ x' = c /\ c.exposed \cap Avoided = {} /\ accepted' = accepted /\ events' = events
      /\ stray' = stray
      /\ owed' = IF c.notify.watcher = x.notify.watcher /\ c.notify.enabled = x.notify.enabled
                 THEN owed ELSE 0
  BY DEF Call, Becomes
<1>3. Mine(c, accepted) /\ Steady(x, c)
  BY <1>2 DEF Lost, ListenersStay
<1>4. owed' = IF Watched(c) THEN Count(events, c.notify.watcher) ELSE 0
  <2>1. CASE c.notify.watcher = x.notify.watcher /\ c.notify.enabled = x.notify.enabled
    BY <1>2, <1>3, <2>1 DEF Steady, Hearing, OnItsWay
  <2>2. CASE ~(c.notify.watcher = x.notify.watcher /\ c.notify.enabled = x.notify.enabled)
    <3>1. owed' = 0
      BY <1>2, <2>2
    <3>2. ASSUME Watched(c) PROVE Count(events, c.notify.watcher) = 0
      <4>1. c.notify.watcher.id > x.lastId
        BY <1>3, <2>2, <3>2 DEF Steady
      <4>2. x.lastId \in Nat /\ \A v \in Noticed : v.id \in 1 .. x.lastId
        BY TidyNumbers DEF Hearing, Registrations, Past
      <4>3. c.notify.watcher \notin Noticed
        BY <4>1, <4>2
      <4>4. \A i \in DOMAIN events : events[i].watcher # c.notify.watcher
        BY <4>3 DEF Noticed
      <4> QED  BY <4>4, CountNone
    <3> QED  BY <3>1, <3>2
  <2> QED  BY <2>1, <2>2
<1>5. Mine(x', accepted') /\ Fitting(events') /\ owed' = OnItsWay' /\ ~stray'
  BY <1>2, <1>3, <1>4 DEF Hearing, OnItsWay, Watched, Count, To
<1> QED  BY <1>1, <1>5 DEF Hearing, Mine, OwnPartition, AsAsked, Numbered, Watched, Fitting,
      Members,
             OnItsWay, Count, To

LEMMA ParametersHears ==
    ASSUME NEW R, NEW V, NEW c, Tidy(c, R, V), Mine(c, R), NEW n, DOMAIN n = NotifyFields,
           c.notify.alive, n.alive = c.notify.alive, n.watcher = c.notify.watcher,
           n.status = c.notify.status, n.enabled = c.notify.enabled,
           n.partition = c.notify.partition, n.follows = c.notify.follows
    PROVE  LET d == initNotify([c EXCEPT !.notify = n])
           IN Tidy(d, R, V) /\ (Lost(d) \/ (Mine(d, R) /\ Steady(c, d)))
<1> DEFINE set == [c EXCEPT !.notify = n]
           d == initNotify(set)
<1>1. Tidy(set, R, V) /\ set.notify = n
  <2>1. Tidy([c EXCEPT !.notify = n], R, V)
    BY TidyNotifySet
  <2>2. set.notify = n
    BY DEF Tidy, Loose, Formed, Shaped, Fields
  <2> QED  BY <2>1, <2>2
<1>2. set.watchers = c.watchers /\ set.lastId = c.lastId /\ c.lastId \in Nat
  BY DEF Tidy, Loose, Line, Formed, Shaped, Fields
<1> HIDE DEF set
<1>3. Watched(set) <=> Watched(c)
  BY <1>1, <1>2 DEF Watched
<1>4. Resettable(set)
  BY <1>1, <1>2, <1>3 DEF Mine, OwnPartition, AsAsked, Numbered, Resettable
<1>5. Tidy(d, R, V) /\ (Lost(d) \/ (Mine(d, R) /\ Again(set, d)))
  BY <1>1, <1>4, TidyInitNotify, SetAnew
<1> HIDE DEF d
<1>6. ASSUME Again(set, d) PROVE Steady(c, d)
  <2>1. CASE parametersReady(n) /\ n.enabled
    <3>1. d.notify.watcher.id \in Nat /\ d.notify.watcher.id > c.lastId
      BY <1>1, <1>2, <1>6, <2>1 DEF Again
    <3>2. c.notify.watcher.id \in 0 .. c.lastId
      BY DEF Mine, Numbered
    <3>3. d.notify.watcher # c.notify.watcher
      BY <1>2, <3>1, <3>2
    <3> QED  BY <3>1, <3>3 DEF Steady
  <2>2. CASE ~(parametersReady(n) /\ n.enabled)
    BY <1>1, <1>3, <1>6, <2>2 DEF Again, Steady
  <2> QED  BY <2>1, <2>2
<1> QED  BY <1>5, <1>6 DEF set, d

LEMMA HearingPartitionCall ==
    ASSUME ListenersStay, Hearing, PartitionCall
    PROVE  Hearing'
<1> DEFINE R == accepted
           V == Past
<1>1. PICK p \in Partition :
        \/ \E name \in Name : Call(setName(x, p, name))
        \/ \E callback \in BOOLEAN : Call(Write(x, p, callback))
        \/ \E query \in Query \cup {""}, callback \in BOOLEAN : Call(find(x, p, query, callback))
        \/ \E query \in Query : ~x.notify.alive /\ Call(createNotification(x, p, query))
        \/ Call(createQuery(x, p))
        \/ Call(DeletePartition(x, p))
  BY Zenon DEF PartitionCall, create, update, remove
<1>2. Tidy(x, R, V) /\ Mine(x, R)
  BY DEF Hearing, Registrations
<1> HIDE DEF R, V
<1>3. ASSUME NEW c, Call(c), Tidy(c, R, V), Untouched(x, c) PROVE Hearing'
  <2>1. Mine(c, R) /\ Steady(x, c)
    BY <1>2, <1>3, SteadyUntouched
  <2> QED  BY <1>3, <2>1, HearingCall DEF R, V
<1>4. ASSUME NEW c, Call(c), Tidy(c, R, V), Lost(c) \/ (Mine(c, R) /\ Steady(x, c)) PROVE Hearing'
  BY <1>4, HearingCall DEF R, V
<1>5. ASSUME NEW name, Call(setName(x, p, name)) PROVE Hearing'
  <2> DEFINE d == setName(x, p, name)
  <2>1. Tidy(d, R, V) /\ (Lost(d) \/ (Mine(d, R) /\ Steady(x, d)))
    BY <1>2, TidySetName, SetNameHears
  <2> HIDE DEF d
  <2> QED  BY <1>4, <1>5, <2>1 DEF d
<1>6. ASSUME NEW callback, Call(Write(x, p, callback)) PROVE Hearing'
  BY <1>2, <1>3, <1>6, TidyWrite, WriteUntouched
<1>7. ASSUME NEW query, NEW callback, Call(find(x, p, query, callback)) PROVE Hearing'
  BY <1>2, <1>3, <1>7, TidyFind, FindUntouched
<1>8. ASSUME NEW query, ~x.notify.alive, Call(createNotification(x, p, query)) PROVE Hearing'
  <2> DEFINE d == createNotification(x, p, query)
  <2>1. Tidy(d, R, V) /\ Mine(d, R) /\ Steady(x, d)
    BY <1>2, <1>8, TidyCreateNotification, CreateNotificationHears
  <2> HIDE DEF d
  <2> QED  BY <1>4, <1>8, <2>1 DEF d
<1>9. CASE Call(createQuery(x, p))
  BY <1>2, <1>3, <1>9, TidyCreateQuery, CreateQueryUntouched
<1>10. CASE Call(DeletePartition(x, p))
  <2> DEFINE d == DeletePartition(x, p)
  <2>1. Tidy(d, R, V) /\ (Lost(d) \/ (Mine(d, R) /\ Steady(x, d)))
    BY <1>2, TidyDeletePartition, DeletePartitionHears
  <2> HIDE DEF d
  <2> QED  BY <1>4, <1>10, <2>1 DEF d
<1> QED  BY <1>1, <1>5, <1>6, <1>7, <1>8, <1>9, <1>10, Zenon

LEMMA HearingNotifyCall ==
    ASSUME ListenersStay, Hearing, NotifyCall
    PROVE  Hearing'
<1> DEFINE R == accepted
           V == Past
<1>1. \/ \E query : Call(initNotify([x EXCEPT !.notify.query = query]))
      \/ \E actions : Call(initNotify([x EXCEPT !.notify.actions = actions]))
      \/ \E p \in Partition : Call(setPartition(x, p))
      \/ \E enabled : Call(setEnabled(x, enabled))
      \/ Call(DeleteNotify(x))
  BY Zenon DEF NotifyCall
<1>2. Tidy(x, R, V) /\ Mine(x, R) /\ x.notify.alive /\ DOMAIN x.notify = NotifyFields
  BY DEF Hearing, Registrations, NotifyCall, Tidy, Loose, Formed
<1> HIDE DEF R, V
<1>3. ASSUME NEW c, Call(c), Tidy(c, R, V), Lost(c) \/ (Mine(c, R) /\ Steady(x, c)) PROVE Hearing'
  BY <1>3, HearingCall DEF R, V
<1>4. ASSUME NEW query, Call(initNotify([x EXCEPT !.notify.query = query])) PROVE Hearing'
  <2> DEFINE n == [x.notify EXCEPT !.query = query]
             d == initNotify([x EXCEPT !.notify = n])
  <2>1. /\ n.watcher = x.notify.watcher /\ n.alive = x.notify.alive /\ n.status = x.notify.status
        /\ n.enabled = x.notify.enabled /\ n.partition = x.notify.partition
        /\ n.follows = x.notify.follows /\ DOMAIN n = NotifyFields
    BY <1>2 DEF NotifyFields
  <2>2. [x EXCEPT !.notify.query = query] = [x EXCEPT !.notify = n]
    OBVIOUS
  <2> HIDE DEF n
  <2>3. Tidy(d, R, V) /\ (Lost(d) \/ (Mine(d, R) /\ Steady(x, d)))
    BY <1>2, <2>1, ParametersHears
  <2> HIDE DEF d
  <2> QED  BY <1>3, <1>4, <2>2, <2>3 DEF d
<1>5. ASSUME NEW actions, Call(initNotify([x EXCEPT !.notify.actions = actions])) PROVE Hearing'
  <2> DEFINE n == [x.notify EXCEPT !.actions = actions]
             d == initNotify([x EXCEPT !.notify = n])
  <2>1. /\ n.watcher = x.notify.watcher /\ n.alive = x.notify.alive /\ n.status = x.notify.status
        /\ n.enabled = x.notify.enabled /\ n.partition = x.notify.partition
        /\ n.follows = x.notify.follows /\ DOMAIN n = NotifyFields
    BY <1>2 DEF NotifyFields
  <2>2. [x EXCEPT !.notify.actions = actions] = [x EXCEPT !.notify = n]
    OBVIOUS
  <2> HIDE DEF n
  <2>3. Tidy(d, R, V) /\ (Lost(d) \/ (Mine(d, R) /\ Steady(x, d)))
    BY <1>2, <2>1, ParametersHears
  <2> HIDE DEF d
  <2> QED  BY <1>3, <1>5, <2>2, <2>3 DEF d
<1>6. ASSUME NEW p \in Partition, Call(setPartition(x, p)) PROVE Hearing'
  <2> DEFINE d == setPartition(x, p)
  <2>1. Tidy(d, R, V) /\ (Lost(d) \/ (Mine(d, R) /\ Steady(x, d)))
    BY <1>2, TidySetPartition, SetPartitionHears
  <2> HIDE DEF d
  <2> QED  BY <1>3, <1>6, <2>1 DEF d
<1>7. ASSUME NEW enabled, Call(setEnabled(x, enabled)) PROVE Hearing'
  <2> DEFINE d == setEnabled(x, enabled)
  <2>1. Tidy(d, R, V) /\ (Lost(d) \/ (Mine(d, R) /\ Steady(x, d)))
    BY <1>2, TidySetEnabled, SetEnabledHears
  <2> HIDE DEF d
  <2> QED  BY <1>3, <1>7, <2>1 DEF d
<1>8. CASE Call(DeleteNotify(x))
  <2> DEFINE d == DeleteNotify(x)
  <2>1. Tidy(d, R, V) /\ Mine(d, R) /\ Steady(x, d)
    BY <1>2, TidyDeleteNotify, DeleteNotifyHears
  <2> HIDE DEF d
  <2> QED  BY <1>3, <1>8, <2>1 DEF d
<1> QED  BY <1>1, <1>4, <1>5, <1>6, <1>7, <1>8, Zenon

LEMMA HearingQueryCall ==
    ASSUME ListenersStay, Hearing, QueryCall
    PROVE  Hearing'
<1>1. Tidy(x, accepted, Past) /\ Mine(x, accepted) /\ Call(start(x))
  BY DEF Hearing, Registrations, QueryCall
<1> DEFINE d == start(x)
<1>2. Tidy(d, accepted, Past) /\ Untouched(x, d)
  BY <1>1, TidyStart, StartUntouched
<1> HIDE DEF d
<1>3. Mine(d, accepted) /\ Steady(x, d)
  BY <1>1, <1>2, SteadyUntouched
<1> QED  BY <1>1, <1>2, <1>3, HearingCall DEF d

\* Answers of the daemon.
LEMMA HearingAnswer ==
    ASSUME ListenersStay, Hearing, NEW ok \in BOOLEAN, Answer(ok)
    PROVE  Hearing'
<1> DEFINE r == Head(x.wire)
           d == Answered(x, r, ok)
           L == Listed(r, ok, accepted)
<1>1. Registrations'
  BY RegistrationsAnswer DEF Hearing
<1>2. Tidy(x, accepted, Past) /\ Mine(x, accepted)
  BY DEF Hearing, Registrations
<1>3. /\ x.wire # <<>> /\ (Internal(r) => ok = Accepts(r)) /\ accepted' = L
      /\ x' = d /\ d.exposed \cap Avoided = {}
      /\ events' = events /\ owed' = owed /\ stray' = stray
  BY DEF Answer, Becomes, Listed
<1>4. r.kind = "remove" /\ ~ok => r.watcher \notin accepted \ Past.forgotten
  <2>1. r \in Sent(x)
    <3>1. IsSeq(x.wire)
      BY <1>2 DEF Tidy, Loose, Line
    <3>2. Members(x.wire) = {r} \cup Members(Tail(x.wire))
      BY <1>3, <3>1, TailFacts
    <3> QED  BY <3>2 DEF Sent
  <2>2. r.kind = "remove" => Internal(r)
    BY <1>2, <2>1 DEF Tidy, Loose, Tagged
  <2>3. r.kind = "remove" => Accepts(r) = (r.watcher \in accepted \ Past.forgotten)
    BY DEF Accepts, registered, Past
  <2> QED  BY <1>3, <2>2, <2>3
<1>5. Lost(d) \/ (Mine(d, L) /\ Same(x, d))
  BY <1>2, <1>3, <1>4, AnsweredHears
<1> HIDE DEF d, L, r
<1>6. Mine(d, L) /\ Same(x, d)
  BY <1>3, <1>5 DEF Lost, ListenersStay
<1>7. owed = IF Watched(d) THEN Count(events, d.notify.watcher) ELSE 0
  BY <1>6 DEF Same, Hearing, OnItsWay
<1>8. Mine(x', accepted') /\ Fitting(events') /\ owed' = OnItsWay' /\ ~stray'
  BY <1>3, <1>6, <1>7 DEF Hearing, OnItsWay, Watched, Count, To
<1> QED  BY <1>1, <1>8 DEF Hearing, Mine, OwnPartition, AsAsked, Numbered, Watched, Fitting,
      Members,
             OnItsWay, Count, To

\* The daemon notifies the watchers it has.
LEMMA HearingNotified ==
    ASSUME Hearing, x' = x, accepted' = accepted, stray' = stray,
           NEW W \in SUBSET registered, NEW event, events' = Notified(W, event),
           forgotten \subseteq forgotten', \A w \in forgotten' : w.of = Notifier,
           \A w \in W : w.of = Notifier => Fits(w, event.name, event.query, event.action),
           owed' = IF Watched(x) /\ x.notify.watcher \in W THEN owed + 1 ELSE owed
    PROVE  Hearing'
<1> DEFINE T == {[watcher |-> v, event |-> event] : v \in W}
           t == events \o SetToSeq(T)
<1>1. Registrations'
  BY RegistrationsNotified DEF Hearing
<1>2. IsSeq(events) /\ IsFiniteSet(W)
  <2>1. W \in SUBSET accepted
    BY DEF registered
  <2> QED  BY <2>1, FS_Subset DEF Hearing, Registrations
<1>3. IsFiniteSet(T)
  <2> DEFINE f == [v \in W |-> [watcher |-> v, event |-> event]]
  <2>1. f \in Surjection(W, T)
    BY DEF Surjection
  <2> HIDE DEF f, T
  <2> QED  BY <1>2, <2>1, FS_Surjection
<1>4. Each(T, W) /\ \A m \in T : m.event = event
  <2>1. \A j \in T : j.watcher \in W /\ j.event = event
          /\ j = [watcher |-> j.watcher, event |-> event]
    OBVIOUS
  <2>2. \A v \in W : \E j \in T : j.watcher = v
    <3> SUFFICES ASSUME NEW v \in W PROVE \E j \in T : j.watcher = v
      OBVIOUS
    <3> DEFINE j == [watcher |-> v, event |-> event]
    <3>1. j \in T /\ j.watcher = v
      OBVIOUS
    <3> QED  BY <3>1
  <2> HIDE DEF T
  <2>3. \A j, l \in T : j.watcher = l.watcher => j = l
    BY <2>1
  <2> QED  BY <2>1, <2>2, <2>3 DEF Each
<1>5. events' = t
  BY DEF Notified
<1> HIDE DEF T
<1>6. /\ Members(t) \subseteq Members(events) \cup T
      /\ \A w : Count(t, w) = IF w \in W THEN Count(events, w) + 1 ELSE Count(events, w)
  <2>1. ASSUME NEW w
        PROVE  /\ IsSeq(t) /\ Members(t) \subseteq Members(events) \cup T
               /\ Count(t, w) = IF w \in W THEN Count(events, w) + 1 ELSE Count(events, w)
    BY <1>2, <1>3, <1>4, CountNotified
  <2> HIDE DEF t
  <2> QED  BY <2>1
<1> HIDE DEF t
<1>7. Fitting(t)
  BY <1>4, <1>6 DEF Hearing, Fitting, Each
<1>8. owed' = IF Watched(x) THEN Count(t, x.notify.watcher) ELSE 0
  BY <1>6 DEF Hearing, OnItsWay
<1>9. Mine(x', accepted') /\ Fitting(events') /\ owed' = OnItsWay' /\ ~stray'
  BY <1>5, <1>7, <1>8 DEF Hearing, OnItsWay, Watched, Count, To
<1> QED  BY <1>1, <1>9 DEF Hearing, Mine, OwnPartition, AsAsked, Numbered, Watched, Fitting,
      Members,
             OnItsWay, Count, To

LEMMA HearingPartitionChanges ==
    ASSUME Hearing, NEW name, NEW state, PartitionChanges(name, state)
    PROVE  Hearing'
<1> DEFINE W == {w \in registered : w.of # Notifier /\ Resolved(w.name) = name}
<1>1. /\ x' = x /\ accepted' = accepted /\ events' = Notified(W, state)
      /\ W \in SUBSET registered
      /\ forgotten \subseteq forgotten' /\ \A w \in forgotten' : w.of = Notifier
      /\ owed' = owed /\ stray' = stray
  BY DEF PartitionChanges, Undefined, Hearing, Registrations
<1>2. \A w \in W : w.of # Notifier
  OBVIOUS
<1> HIDE DEF W
<1>3. Watched(x) => x.notify.watcher \notin W
  BY <1>2 DEF Watched, Hearing, Registrations, Tidy, Loose, Known, OneOfMine
<1> QED  BY <1>1, <1>2, <1>3, HearingNotified

LEMMA HearingObjectChanges ==
    ASSUME Hearing, NEW name, NEW query, NEW action, ObjectChanges(name, query, action)
    PROVE  Hearing'
<1> DEFINE W == {w \in registered : w.of = Notifier /\ Fits(w, name, query, action)}
           e == [name |-> name, query |-> query, action |-> action]
<1>1. /\ x' = x /\ accepted' = accepted /\ events' = Notified(W, e)
      /\ W \in SUBSET registered
      /\ forgotten' = forgotten /\ \A w \in forgotten : w.of = Notifier
      /\ owed' = IF /\ x.notify.status = "Ready" /\ x.notify.watcher \notin forgotten
                     /\ Wanted(name, query, action)
                  THEN owed + 1 ELSE owed
      /\ stray' = stray
  BY DEF ObjectChanges, Hearing, Registrations
<1>2. \A w \in W : Fits(w, e.name, e.query, e.action)
  OBVIOUS
<1>3. \A w : w \in W <=> /\ w \in accepted /\ w \notin forgotten /\ w.of = Notifier
                        /\ Fits(w, name, query, action)
  BY DEF registered
<1> HIDE DEF W, e
<1>4. Tidy(x, accepted, Past) /\ Mine(x, accepted)
  BY DEF Hearing, Registrations
<1>5. x.notify.watcher \notin forgotten =>
          (x.notify.status = "Ready" <=> Watched(x) /\ x.notify.watcher \in accepted)
  BY <1>4 DEF Mine, Tidy, Heard, Past
<1>6. Watched(x) => x.notify.watcher.of = Notifier
  BY <1>4, TidyNumbers DEF Watched
<1>7. Watched(x) => (Wanted(name, query, action) <=> Fits(x.notify.watcher, name, query, action))
  BY <1>4, WatchedIsWanted
<1>8. /\ x.notify.status = "Ready" /\ x.notify.watcher \notin forgotten
      /\ Wanted(name, query, action)
      <=> Watched(x) /\ x.notify.watcher \in W
  BY <1>3, <1>5, <1>6, <1>7
<1>9. owed' = IF Watched(x) /\ x.notify.watcher \in W THEN owed + 1 ELSE owed
  BY <1>1, <1>8
<1> QED  BY <1>1, <1>2, <1>9, HearingNotified

\* One of its notifications arrives.
LEMMA HearingDeliver ==
    ASSUME Hearing, Deliver
    PROVE  Hearing'
<1> DEFINE w == Head(events).watcher
           e == Head(events).event
           n == x.notify
<1>1. /\ events # <<>> /\ events' = Tail(events) /\ accepted' = accepted
      /\ w \notin x.watchers => x' = x /\ owed' = owed /\ stray' = stray
      /\ w \in x.watchers /\ w.of = Notifier => Hear(e)
      /\ w \in x.watchers /\ w.of # Notifier =>
            x' = notificationsAvailable(x, w.of, e) /\ owed' = owed /\ stray' = stray
  BY DEF Deliver, Becomes
<1>2. Registrations'
  BY RegistrationsDeliver DEF Hearing
<1>3. /\ Tidy(x, accepted, Past) /\ IsSeq(events) /\ Mine(x, accepted)
      /\ Fitting(events) /\ ~stray
      /\ owed = IF Watched(x) THEN Count(events, n.watcher) ELSE 0
  BY DEF Hearing, Registrations, OnItsWay
<1>4. IsSeq(events') /\ Members(events) = {Head(events)} \cup Members(events')
  BY <1>1, <1>3, TailFacts
<1>5. Fitting(events') /\ (w.of = Notifier => Fits(w, e.name, e.query, e.action))
  <2>1. \A m \in Members(Tail(events)) : m \in Members(events)
    BY <1>1, <1>4
  <2>2. Head(events) \in Members(events)
    BY <1>4
  <2> QED  BY <1>1, <1>3, <2>1, <2>2 DEF Fitting
<1>6. /\ Count(events', n.watcher) \in Nat
      /\ Count(events, n.watcher) =
            IF w = n.watcher THEN Count(events', n.watcher) + 1 ELSE Count(events', n.watcher)
  BY <1>1, <1>3, CountTail
<1> HIDE DEF w, e
<1>7. /\ Mine(x', accepted) /\ (Watched(x') <=> Watched(x)) /\ x'.notify.watcher = n.watcher
           /\ ~stray'
      /\ owed' = IF Watched(x) THEN Count(events', n.watcher) ELSE 0
  <2>1. CASE w \in x.watchers /\ w.of = Notifier
    <3>1. w = n.watcher /\ Watched(x) /\ w \in accepted /\ n.status = "Ready"
      <4>1. w = n.watcher
        BY <1>3, <2>1 DEF Tidy, Loose, OneOfMine
      <4>2. w \in Noticed
        BY <1>4, NoticedIs DEF w
      <4>3. w \in accepted
        BY <1>3, <2>1, <4>2 DEF Tidy, Loose, Known, Past
      <4> QED  BY <1>3, <2>1, <4>1, <4>3 DEF Mine, Watched
    <3>2. x' = StatusOf(x, w, "Ready")
      BY <1>1, <2>1, <3>1 DEF Hear, Becomes, StatusOf
    <3>3. Formed(x) /\ Half(x)
      BY <1>3 DEF Tidy, Loose, Mine, Half
    <3> DEFINE d == StatusOf(x, w, "Ready")
    <3>4. Mine(d, accepted) /\ Same(x, d)
      BY <3>1, <3>3, StatusHears
    <3> HIDE DEF d
    <3>5. n.enabled /\ Wanted(e.name, e.query, e.action)
      BY <1>3, <1>5, <2>1, <3>1, WatchedIsWanted DEF Mine, AsAsked
    <3>6. owed = Count(events', n.watcher) + 1
      BY <1>3, <1>6, <3>1
    <3>7. owed' = owed - 1 /\ ~stray'
      <4>1. Hear(e) /\ owed # 0
        BY <1>1, <1>6, <2>1, <3>6
      <4>2. owed' = owed - 1 /\ stray' = (stray \/ owed = 0 \/ ~Wanted(e.name, e.query, e.action))
        BY <3>5, <4>1 DEF Hear
      <4> QED  BY <1>3, <3>5, <4>1, <4>2, Zenon
    <3>8. owed' = Count(events', n.watcher)
      BY <1>6, <3>6, <3>7
    <3> QED  BY <3>1, <3>2, <3>4, <3>7, <3>8 DEF Same, d
  <2>2. CASE ~(w \in x.watchers /\ w.of = Notifier)
    <3>1. Watched(x) => w # n.watcher
      BY <1>3, <2>2, TidyNumbers DEF Watched
    <3>2. owed' = owed /\ ~stray'
      BY <1>1, <1>3, <2>2
    <3>3. owed' = IF Watched(x) THEN Count(events', n.watcher) ELSE 0
      BY <1>3, <1>6, <3>1, <3>2
    <3>4. Mine(x', accepted) /\ Same(x, x')
      <4>1. CASE x' = x
        BY <1>3, <4>1 DEF Same
      <4>2. CASE x' # x
        <5>1. x' = notificationsAvailable(x, w.of, e)
          BY <1>1, <2>2, <4>2
        <5> DEFINE d == notificationsAvailable(x, w.of, e)
        <5>2. Untouched(x, d)
          BY <1>3, StateUntouched DEF notificationsAvailable
        <5> HIDE DEF d
        <5>3. Mine(d, accepted) /\ Same(x, d)
          BY <1>3, <5>2, SameUntouched
        <5> QED  BY <5>1, <5>3 DEF d
      <4> QED  BY <4>1, <4>2
    <3> QED  BY <3>2, <3>3, <3>4 DEF Same
  <2> QED  BY <2>1, <2>2
<1>8. Mine(x', accepted') /\ Fitting(events') /\ owed' = OnItsWay' /\ ~stray'
  BY <1>1, <1>5, <1>7 DEF OnItsWay, Watched, Count, To
<1> QED  BY <1>2, <1>8 DEF Hearing, Mine, OwnPartition, AsAsked, Numbered, Watched, Fitting,
      Members,
             OnItsWay, Count, To

\* What a notification object still has to hear is on its way to the watcher
\* it has, and everything on its way to it is what it asked for: of its query,
\* its actions and the partition its object is named for now
\* (jsondbnotification.cpp, jsondbpartition.cpp:245).
THEOREM ListenersAreKept == ASSUME ListenersStay PROVE Spec => []Hearing
<1>1. Init => Hearing
  BY HearingAtFirst
<1>2. ASSUME ListenersStay, Hearing, [Next]_vars PROVE Hearing'
  <2>1. ASSUME NEW ok \in BOOLEAN, Answer(ok) PROVE Hearing'
    BY <1>2, <2>1, HearingAnswer
  <2>2. ASSUME NEW name, NEW state, PartitionChanges(name, state) PROVE Hearing'
    BY <1>2, <2>2, HearingPartitionChanges
  <2>3. ASSUME NEW name, NEW query, NEW action, ObjectChanges(name, query, action) PROVE Hearing'
    BY <1>2, <2>3, HearingObjectChanges
  <2>4. CASE UNCHANGED vars
    <3>1. Registrations'
      BY <1>2, RegistrationsStay DEF Hearing
    <3> QED  BY <1>2, <2>4, <3>1 DEF vars, Hearing, Mine, OwnPartition, AsAsked, Numbered, Watched,
                 Fitting, Members, OnItsWay, Count, To
  <2> QED  BY <1>2, <2>1, <2>2, <2>3, <2>4, HearingPartitionCall, HearingNotifyCall,
              HearingQueryCall, HearingDeliver DEF Next
<1> QED  BY <1>1, <1>2, PTL DEF Spec

\* A notification object that says it is ready hears everything that is
\* written until it is told otherwise, and never what it is not asked for
\* (jsondbnotification.cpp), for any number of partition objects, whatever the
\* application calls and however late the daemon answers, as long as it is not
\* left with an old watcher.
THEOREM NotificationsAreHeard == ASSUME ListenersStay PROVE Spec => []HearsWhatItAskedFor
<1>1. Hearing => HearsWhatItAskedFor
  <2> SUFFICES ASSUME Hearing PROVE HearsWhatItAskedFor
    OBVIOUS
  <2>1. ASSUME events = <<>> PROVE owed = 0
    <3>1. \A w : To(events, w) = {}
      BY <2>1 DEF To
    <3>2. \A w : Count(events, w) = 0
      BY <3>1, FS_EmptySet DEF Count
    <3> QED  BY <3>2 DEF Hearing, OnItsWay
  <2> QED  BY <2>1 DEF Hearing, HearsWhatItAskedFor
<1> QED  BY <1>1, ListenersAreKept, PTL

-----------------------------------------------------------------------------
(***************************************************************************)
(* The states of the partition objects.                                    *)
(***************************************************************************)
LEMMA ApartNext ==
    ASSUME NEW c, NEW d, NEW e, NEW p
    PROVE  /\ Apart(c, c, p)
           /\ Apart(c, d, p) /\ Apart(d, e, p) => Apart(c, e, p)
<1>1. Apart(c, c, p)
  BY DEF Apart, Side
<1>2. ASSUME Apart(c, d, p), Apart(d, e, p) PROVE Apart(c, e, p)
  <2>1. Side(c, e, p)
    BY <1>2 DEF Apart, Side
  <2>2. \A w : w.of = p => (w \in e.watchers <=> w \in c.watchers)
    BY <1>2 DEF Apart
  <2>3. \A t : Asks(e, p, t) <=> Asks(c, p, t)
    BY <1>2 DEF Apart
  <2>4. \A a \in Sent(c) : a.kind = "add" /\ a.watcher.of = p => a \in Sent(e)
    BY <1>2 DEF Apart
  <2>5. c.exposed \subseteq e.exposed /\ (Prompt(c) => Prompt(e))
    BY <1>2 DEF Apart
  <2> QED  BY <2>1, <2>2, <2>3, <2>4, <2>5 DEF Apart
<1> QED  BY <1>1, <1>2

LEMMA ToldApart ==
    ASSUME NEW R, NEW s, NEW av, NEW c, NEW d, NEW p, Apart(c, d, p), Told(c, p, R, s, av)
    PROVE  Told(d, p, R, s, av)
<1>1. /\ d.partition[p].name = c.partition[p].name /\ d.partition[p].state = c.partition[p].state
      /\ d.partition[p].alive = c.partition[p].alive
      /\ d.partition[p].partitionWatcher = c.partition[p].partitionWatcher
  BY DEF Apart, Side
<1>2. Prompt(d) /\ Named(d, p)
  <2>1. Prompt(d)
    BY DEF Apart, Told
  <2>2. Named(d, p)
    BY <1>1 DEF Apart, Told, Named
  <2> QED  BY <2>1, <2>2
<1>3. ASSUME d.partition[p].alive PROVE Hearkens(d, p) /\ Learns(d, p, R, s, av)
  <2>1. Hearkens(c, p) /\ Learns(c, p, R, s, av)
    BY <1>1, <1>3 DEF Told
  <2>2. Hearkens(d, p)
    BY <1>1, <2>1 DEF Apart, Hearkens
  <2>3. Expects(c, p) => Expects(d, p)
    BY <1>1 DEF Apart, Expects
  <2>4. Registers(c, p) => Registers(d, p)
    BY <1>1, <2>1 DEF Apart, Registers, Hearkens
  <2>5. Learns(d, p, R, s, av)
    BY <1>1, <2>1, <2>3, <2>4 DEF Learns
  <2> QED  BY <2>2, <2>5
<1> QED  BY <1>2, <1>3 DEF Told

LEMMA NoPartitions ==
    ASSUME NEW p \in Partition
    PROVE  p # Notifier /\ p # None /\ NoWatcher.of # p
<1>1. NoWatcher.of = None
  BY DEF NoWatcher
<1> QED  BY <1>1, NotifierIsNoPartition, NoneIsNoPartition DEF PartitionsApart

LEMMA EditedApart ==
    ASSUME NEW c, NEW d, NEW p, SameLine(c, d), d.watchers = c.watchers, Side(c, d, p),
           c.exposed \subseteq d.exposed
    PROVE  Apart(c, d, p)
<1>1. Sent(d) = Sent(c)
  BY DEF SameLine, Sent
<1>2. Prompt(c) => Prompt(d)
  BY DEF SameLine, Prompt
<1> QED  BY <1>1, <1>2 DEF Apart, Asks

-----------------------------------------------------------------------------
(***************************************************************************)
(* The connection.                                                         *)
(***************************************************************************)
LEMMA QueuePrompt ==
    ASSUME NEW c, Formed(c), Line(c), InOrder(c), Prompt(c)
    PROVE  Prompt(handleRequestQueue(c))
<1> DEFINE d == handleRequestQueue(c)
<1>1. /\ Sent(d) = Sent(c) /\ d.watchers = c.watchers
      /\ \/ d.wire = c.wire /\ d.current = c.current
         \/ /\ c.current = None
            /\ \E r : d.current = r.id /\ Members(d.wire) = Members(c.wire) \cup {r}
  BY QueueInOrder
<1> HIDE DEF d
<1>2. CASE d.wire = c.wire /\ d.current = c.current
  BY <1>1, <1>2 DEF Prompt, d
<1>3. CASE /\ c.current = None
           /\ \E r : d.current = r.id /\ Members(d.wire) = Members(c.wire) \cup {r}
  <2>1. \A r \in Members(c.wire) : r.id # None
    <3>1. \A r \in Sent(c) : r.id \in 1 .. c.lastId
      BY WaitingIsSent
    <3>2. 0 \notin 1 .. c.lastId
      BY DEF Line
    <3> QED  BY <3>1, <3>2 DEF Sent, None
  <2> QED  BY <1>1, <1>3, <2>1 DEF Prompt, d
<1> QED  BY <1>1, <1>2, <1>3

LEMMA SendIs ==
    ASSUME NEW c, Formed(c), Line(c), InOrder(c), NEW kind, NEW of, NEW name, NEW w
    PROVE  LET q == [id |-> c.lastId + 1, kind |-> kind, of |-> of, name |-> name, watcher |-> w]
               d == send(c, Request(kind, of, name, w))
           IN /\ Formed(d) /\ Line(d) /\ InOrder(d)
              /\ Sent(d) = Sent(c) \cup {q} /\ SameObjects(c, d) /\ d.watchers = c.watchers
              /\ d.exposed = c.exposed /\ d.lastId = c.lastId + 1
              /\ Prompt(c) => Prompt(d)
<1> DEFINE q == [id |-> c.lastId + 1, kind |-> kind, of |-> of, name |-> name, watcher |-> w]
           e == [c EXCEPT !.lastId = c.lastId + 1, !.queue = Inserted(@, q)]
           d == send(c, Request(kind, of, name, w))
<1>1. d = handleRequestQueue(e)
  <2>1. [Request(kind, of, name, w) EXCEPT !.id = c.lastId + 1] = q
    BY DEF Request
  <2> HIDE DEF q
  <2> QED  BY <2>1 DEF send
<1>2. q.id = c.lastId + 1
  OBVIOUS
<1> HIDE DEF q
<1>3. /\ Formed(e) /\ Queued(c, e, q) /\ SameObjects(c, e)
      /\ e.watchers = c.watchers /\ e.exposed = c.exposed
  BY <1>2 DEF Formed, Shaped, Fields, Queued, SameObjects
<1> HIDE DEF d, e
<1>4. Line(e) /\ InOrder(e) /\ Sent(e) = Sent(c) \cup {q}
  BY <1>3, QueuedInOrder
<1>5. /\ Formed(d) /\ Line(d) /\ InOrder(d) /\ Sent(d) = Sent(e) /\ SameObjects(e, d)
      /\ d.watchers = e.watchers /\ d.lastId = e.lastId /\ d.exposed = e.exposed
  BY <1>1, <1>3, <1>4, QueueInOrder
<1>6. Prompt(c) => Prompt(d)
  <2>1. Prompt(c) => Prompt(e)
    BY <1>3 DEF Prompt, Queued
  <2> QED  BY <1>1, <1>3, <1>4, <2>1, QueuePrompt
<1>7. SameObjects(c, d) /\ d.lastId = c.lastId + 1
  BY <1>3, <1>5 DEF SameObjects, Queued
<1> QED  BY <1>3, <1>4, <1>5, <1>6, <1>7 DEF d, q

LEMMA SendApart ==
    ASSUME NEW R, NEW V, NEW c, Tidy(c, R, V), NEW p \in Partition,
           NEW kind, NEW of, NEW name, kind \notin {"add", "remove"}, kind = "state" => of # p
    PROVE  Apart(c, send(c, Request(kind, of, name, NoWatcher)), p)
<1> DEFINE q == [id |-> c.lastId + 1, kind |-> kind, of |-> of, name |-> name,
      watcher |-> NoWatcher]
           d == send(c, Request(kind, of, name, NoWatcher))
<1>1. /\ Sent(d) = Sent(c) \cup {q} /\ SameObjects(c, d) /\ d.watchers = c.watchers
      /\ d.exposed = c.exposed /\ (Prompt(c) => Prompt(d))
  BY SendIs DEF Tidy, Loose
<1>2. q.kind = kind /\ q.of = of
  OBVIOUS
<1> HIDE DEF q, d
<1> QED  BY <1>1, <1>2 DEF Apart, Side, Asks, SameObjects, d

LEMMA AddIs ==
    ASSUME NEW R, NEW V, NEW c, Tidy(c, R, V), NEW w, w.id = c.lastId + 1
    PROVE  LET q == [id |-> c.lastId + 1, kind |-> "add", of |-> w.of, name |-> w.name,
             watcher |-> w]
               d == addWatcher(c, w)
           IN /\ Sent(d) = Sent(c) \cup {q} /\ SameObjects(c, d) /\ d.watchers = c.watchers \cup {w}
              /\ d.exposed = c.exposed /\ (Prompt(c) => Prompt(d))
<1> DEFINE q == [id |-> c.lastId + 1, kind |-> "add", of |-> w.of, name |-> w.name, watcher |-> w]
           W == c.watchers \cup {w}
           b == [c EXCEPT !.watchers = W]
           d == addWatcher(c, w)
<1>1. /\ Formed(c) /\ Line(c) /\ InOrder(c) /\ Tagged(c) /\ c.lastId \in Nat
  BY DEF Tidy, Loose, Line
<1>2. d = send(b, Request("add", w.of, w.name, w))
  BY DEF addWatcher
<1> HIDE DEF W
<1>3. /\ Formed(b) /\ SameLine(c, b) /\ SameObjects(c, b) /\ b.watchers = W /\ b.exposed = c.exposed
  BY <1>1 DEF Formed, Shaped, Fields, SameLine, SameObjects
<1> HIDE DEF b, d
<1>4. Line(b) /\ InOrder(b) /\ Sent(b) = Sent(c) /\ b.lastId = c.lastId
  BY <1>1, <1>3 DEF Line, InOrder, Sent, SameLine
<1>5. Prompt(c) => Prompt(b)
  <2>1. \A r \in Members(c.wire) : r.kind = "add" => r.watcher # w
    <3>1. \A r \in Sent(c) : r.id \in 1 .. c.lastId
      BY <1>1, WaitingIsSent
    <3>2. \A r \in Sent(c) : r.kind = "add" => r.watcher.id = r.id
      BY <1>1 DEF Tagged
    <3>3. w.id \notin 1 .. c.lastId
      BY <1>1
    <3> QED  BY <3>1, <3>2, <3>3 DEF Sent
  <2> QED  BY <1>3, <2>1 DEF Prompt, SameLine, W
<1>6. /\ Sent(d) = Sent(b) \cup {q} /\ SameObjects(b, d) /\ d.watchers = b.watchers
      /\ d.exposed = b.exposed /\ (Prompt(b) => Prompt(d))
  <2> DEFINE z == [id |-> b.lastId + 1, kind |-> "add", of |-> w.of, name |-> w.name, watcher |-> w]
             e == send(b, Request("add", w.of, w.name, w))
  <2>1. /\ Sent(e) = Sent(b) \cup {z} /\ SameObjects(b, e) /\ e.watchers = b.watchers
        /\ e.exposed = b.exposed /\ (Prompt(b) => Prompt(e))
    BY <1>3, <1>4, SendIs
  <2>2. z = q
    BY <1>4
  <2> HIDE DEF z, q, e
  <2> QED  BY <1>2, <2>1, <2>2 DEF e
<1> QED  BY <1>3, <1>4, <1>5, <1>6 DEF SameObjects, d, q, W

LEMMA AddApart ==
    ASSUME NEW R, NEW V, NEW c, Tidy(c, R, V), NEW p \in Partition, NEW w, w.id = c.lastId + 1,
             w.of # p
    PROVE  Apart(c, addWatcher(c, w), p)
<1> DEFINE q == [id |-> c.lastId + 1, kind |-> "add", of |-> w.of, name |-> w.name, watcher |-> w]
           d == addWatcher(c, w)
<1>1. /\ Sent(d) = Sent(c) \cup {q} /\ SameObjects(c, d) /\ d.watchers = c.watchers \cup {w}
      /\ d.exposed = c.exposed /\ (Prompt(c) => Prompt(d))
  BY AddIs
<1>2. q.kind = "add"
  OBVIOUS
<1> HIDE DEF q, d
<1>3. \A v : v.of = p => (v \in d.watchers <=> v \in c.watchers)
  BY <1>1
<1>4. \A t : Asks(d, p, t) <=> Asks(c, p, t)
  BY <1>1, <1>2 DEF Asks
<1> QED  BY <1>1, <1>3, <1>4 DEF Apart, Side, SameObjects, d

\* A watcher is removed.
LEMMA RemoveIs ==
    ASSUME NEW R, NEW V, NEW c, Tidy(c, R, V), NEW w
    PROVE  LET d == removeWatcher(c, w)
           IN /\ \A t : t.kind # "remove" => (t \in Sent(d) <=> t \in Sent(c))
              /\ SameObjects(c, d) /\ d.watchers = c.watchers \ {w}
              /\ d.exposed = c.exposed /\ (Prompt(c) => Prompt(d))
<1> DEFINE W == c.watchers \ {w}
           b == [c EXCEPT !.watchers = W]
           d == removeWatcher(c, w)
<1>1. /\ Formed(c) /\ Line(c) /\ InOrder(c)
  BY DEF Tidy, Loose, Line
<1>2. CASE w \notin c.watchers
  <2>1. d = c
    BY <1>2 DEF removeWatcher
  <2>2. c.watchers \ {w} = c.watchers
    BY <1>2
  <2> QED  BY <2>1, <2>2 DEF SameObjects
<1>3. CASE w \in c.watchers
  <2>1. d = send(b, Request("remove", w.of, w.name, w))
    BY <1>3 DEF removeWatcher
  <2> HIDE DEF W
  <2>2. /\ Formed(b) /\ SameLine(c, b) /\ SameObjects(c, b) /\ b.watchers = W
             /\ b.exposed = c.exposed
    BY <1>1 DEF Formed, Shaped, Fields, SameLine, SameObjects
  <2> HIDE DEF b, d
  <2>3. Line(b) /\ InOrder(b) /\ Sent(b) = Sent(c) /\ b.lastId = c.lastId
    BY <1>1, <2>2 DEF Line, InOrder, Sent, SameLine
  <2>4. Prompt(c) => Prompt(b)
    BY <2>2 DEF Prompt, SameLine, W
  <2> DEFINE z == [id |-> b.lastId + 1, kind |-> "remove", of |-> w.of, name |-> w.name,
        watcher |-> w]
             e == send(b, Request("remove", w.of, w.name, w))
  <2>5. /\ Sent(e) = Sent(b) \cup {z} /\ SameObjects(b, e) /\ e.watchers = b.watchers
        /\ e.exposed = b.exposed /\ (Prompt(b) => Prompt(e))
    BY <2>2, <2>3, SendIs
  <2>6. z.kind = "remove"
    OBVIOUS
  <2> HIDE DEF z, e
  <2>7. \A t : t.kind # "remove" => (t \in Sent(e) <=> t \in Sent(c))
    BY <2>3, <2>5, <2>6
  <2> QED  BY <2>1, <2>2, <2>4, <2>5, <2>7 DEF SameObjects, d, e, W
<1> QED  BY <1>2, <1>3

LEMMA RemoveApart ==
    ASSUME NEW R, NEW V, NEW c, Tidy(c, R, V), NEW p \in Partition, NEW w, w.of # p
    PROVE  Apart(c, removeWatcher(c, w), p)
<1> DEFINE d == removeWatcher(c, w)
<1>1. /\ \A t : t.kind # "remove" => (t \in Sent(d) <=> t \in Sent(c))
      /\ SameObjects(c, d) /\ d.watchers = c.watchers \ {w}
      /\ d.exposed = c.exposed /\ (Prompt(c) => Prompt(d))
  BY RemoveIs
<1> HIDE DEF d
<1>2. \A v : v.of = p => (v \in d.watchers <=> v \in c.watchers)
  BY <1>1
<1>3. \A t : Asks(d, p, t) <=> Asks(c, p, t)
  BY <1>1 DEF Asks
<1>4. \A t : t.kind = "add" => (t \in Sent(d) <=> t \in Sent(c))
  BY <1>1
<1> QED  BY <1>1, <1>2, <1>3, <1>4 DEF Apart, Side, SameObjects, d

\* A watcher is deleted.
LEMMA DeleteIs ==
    ASSUME NEW R, NEW V, NEW c, Tidy(c, R, V), NEW w
    PROVE  LET d == DeleteWatcher(c, w)
           IN /\ Sent(d) \subseteq Sent(c)
              /\ \A t \in Sent(c) : t.watcher = NoWatcher \/ t.watcher # w => t \in Sent(d)
              /\ SameObjects(c, d) /\ d.watchers = c.watchers \ {w}
              /\ c.exposed \subseteq d.exposed /\ (Prompt(c) => Prompt(d))
<1> DEFINE own == {r \in Pending(c) : r.watcher = w}
           unsent == {r \in own : r.id # c.current}
           stays == /\ w \in c.watchers \/ \E r \in unsent : r.kind = "remove"
                    /\ \A r \in unsent : r.kind # "add"
           gone == [c EXCEPT !.watchers = @ \ {w}, !.queue = Without(@, own),
                             !.current = IF \E r \in own : r.id = @ THEN None ELSE @]
           d == DeleteWatcher(c, w)
<1>1. /\ Formed(c) /\ Line(c) /\ InOrder(c) /\ Tagged(c)
      /\ SameObjects(c, d) /\ d.watchers = c.watchers \ {w}
  BY LooseDelete DEF Tidy, Loose
<1>2. CASE w = NoWatcher
  <2>1. d = c
    BY <1>2 DEF DeleteWatcher
  <2> QED  BY <1>1, <2>1
<1>3. CASE w # NoWatcher
  <2>1. d = IF stays THEN Exposed(gone, "dropped") ELSE gone
    BY <1>3 DEF DeleteWatcher
  <2>2. own \subseteq Pending(c) /\ \A r \in own : r.watcher = w
    OBVIOUS
  <2>3. own \subseteq Sent(c)
    BY <2>2 DEF Pending, Sent, Members
  <2> HIDE DEF own
  <2>4. /\ Formed(gone) /\ Cut(c, gone, own)
        /\ gone.exposed = c.exposed
        /\ gone.current = IF \E r \in own : r.id = c.current THEN None ELSE c.current
    BY <1>1, <2>2 DEF Formed, Shaped, Fields, Cut
  <2> HIDE DEF gone, stays, d
  <2>5. Cut(c, d, own) /\ c.exposed \subseteq d.exposed /\ d.current = gone.current
    <3>1. /\ Cut(c, Exposed(gone, "dropped"), own)
          /\ c.exposed \subseteq Exposed(gone, "dropped").exposed
          /\ Exposed(gone, "dropped").current = gone.current
      BY <2>4 DEF Formed, Shaped, Fields, Cut, Exposed
    <3> QED  BY <2>1, <2>4, <3>1
  <2>6. /\ Sent(d) \subseteq Sent(c)
        /\ \A r \in Sent(c) : r \in Sent(d) \/ (r \in own /\ r \in Members(c.queue))
    BY <1>1, <2>5, CutInOrder
  <2>7. \A t \in Sent(c) : t.watcher = NoWatcher \/ t.watcher # w => t \in Sent(d)
    BY <1>3, <2>2, <2>6
  <2>8. ASSUME Prompt(c) PROVE Prompt(d)
    <3>1. CASE \A r \in own : r.id # c.current
      BY <1>1, <2>4, <2>5, <2>8, <3>1 DEF Prompt, Cut, d
    <3>2. CASE \E r \in own : r.id = c.current
      <4>1. PICK r \in own : r.id = c.current
        BY <3>2
      <4>2. ASSUME NEW t \in Members(c.wire),
                   t.kind = "state" \/ (t.kind = "add" /\ t.watcher \in c.watchers \ {w})
            PROVE  FALSE
        <5>1. t.id = c.current /\ t \in Sent(c)
          BY <2>8, <4>2 DEF Prompt, Sent
        <5>2. t = r
          BY <1>1, <2>3, <4>1, <5>1, SentOnce
        <5>3. t.watcher = w /\ t.kind \in {"add", "remove"}
          BY <1>1, <1>3, <2>2, <4>1, <5>1, <5>2 DEF Tagged, Internal
        <5> QED  BY <4>2, <5>3
      <4> QED  BY <1>1, <2>5, <4>2 DEF Prompt, Cut, d
    <3> QED  BY <3>1, <3>2
  <2> QED  BY <1>1, <2>5, <2>6, <2>7, <2>8 DEF d
<1> QED  BY <1>2, <1>3

LEMMA DeleteApart ==
    ASSUME NEW R, NEW V, NEW c, Tidy(c, R, V), NEW p \in Partition, NEW w, w.of # p
    PROVE  Apart(c, DeleteWatcher(c, w), p)
<1> DEFINE d == DeleteWatcher(c, w)
<1>1. /\ Sent(d) \subseteq Sent(c)
      /\ \A t \in Sent(c) : t.watcher = NoWatcher \/ t.watcher # w => t \in Sent(d)
      /\ SameObjects(c, d) /\ d.watchers = c.watchers \ {w}
      /\ c.exposed \subseteq d.exposed /\ (Prompt(c) => Prompt(d))
  BY DeleteIs
<1> HIDE DEF d
<1>2. \A v : v.of = p => (v \in d.watchers <=> v \in c.watchers)
  BY <1>1
<1>3. \A t \in Sent(c) : t.kind = "state" => t \in Sent(d)
  BY <1>1 DEF Tidy, Loose, Tagged, Internal
<1>4. \A t : Asks(d, p, t) <=> Asks(c, p, t)
  BY <1>1, <1>3 DEF Asks
<1>5. \A t \in Sent(c) : t.kind = "add" /\ t.watcher.of = p => t \in Sent(d)
  BY <1>1
<1> QED  BY <1>1, <1>2, <1>4, <1>5 DEF Apart, Side, SameObjects, d

\* Whose it is has no watcher of a partition object.
LEMMA NotifierApart ==
    ASSUME NEW R, NEW V, NEW c, Tidy(c, R, V), NEW p \in Partition
    PROVE  c.notify.watcher.of # p
BY NoPartitions DEF Tidy, Loose, OneOfMine

\* A record of a partition object is changed.
LEMMA RecordApart ==
    ASSUME NEW c, Formed(c), NEW p \in Partition, NEW o, NEW rec,
           p = o => /\ rec.name = c.partition[p].name /\ rec.state = c.partition[p].state
                    /\ rec.alive = c.partition[p].alive
                    /\ rec.partitionWatcher = c.partition[p].partitionWatcher
    PROVE  Apart(c, [c EXCEPT !.partition[o] = rec], p)
<1> DEFINE f == [c.partition EXCEPT ![o] = rec]
           d == [c EXCEPT !.partition = f]
<1>1. [c EXCEPT !.partition[o] = rec] = d
  OBVIOUS
<1>2. p \in DOMAIN c.partition
  BY DEF Formed
<1>3. f[p].name = c.partition[p].name /\ f[p].state = c.partition[p].state
      /\ f[p].alive = c.partition[p].alive
           /\ f[p].partitionWatcher = c.partition[p].partitionWatcher
  <2>1. CASE p = o
    BY <1>2, <2>1
  <2>2. CASE p # o
    BY <1>2, <2>2
  <2> QED  BY <2>1, <2>2
<1> HIDE DEF f
<1>4. /\ d.partition = f /\ SameLine(c, d) /\ d.watchers = c.watchers /\ d.exposed = c.exposed
  BY DEF Formed, Shaped, Fields, SameLine
<1> HIDE DEF d
<1>5. Side(c, d, p)
  BY <1>3, <1>4 DEF Side
<1> QED  BY <1>1, <1>4, <1>5, EditedApart

LEMMA OthersApart ==
    ASSUME NEW c, NEW d, NEW p, SameLine(c, d), d.partition = c.partition, d.watchers = c.watchers,
           c.exposed \subseteq d.exposed
    PROVE  Apart(c, d, p)
BY EditedApart DEF Side

LEMMA ExposedApart ==
    ASSUME NEW c, Formed(c), NEW p, NEW e
    PROVE  Apart(c, Exposed(c, e), p) /\ e \in Exposed(c, e).exposed
<1> DEFINE d == Exposed(c, e)
<1>1. /\ SameLine(c, d) /\ d.partition = c.partition /\ d.watchers = c.watchers
      /\ d.exposed = c.exposed \cup {e}
  BY DEF Formed, Shaped, Fields, SameLine, Exposed
<1> HIDE DEF d
<1> QED  BY <1>1, OthersApart DEF d

LEMMA NotifySetApart ==
    ASSUME NEW c, Formed(c), NEW p, NEW n
    PROVE  Apart(c, [c EXCEPT !.notify = n], p)
<1> DEFINE d == [c EXCEPT !.notify = n]
<1>1. /\ SameLine(c, d) /\ d.partition = c.partition /\ d.watchers = c.watchers
      /\ d.exposed = c.exposed
  BY DEF Formed, Shaped, Fields, SameLine
<1> HIDE DEF d
<1> QED  BY <1>1, OthersApart DEF d

-----------------------------------------------------------------------------
(***************************************************************************)
(* The notification object leaves the partition objects to themselves.     *)
(***************************************************************************)
LEMMA RemoveNotificationApart ==
    ASSUME NEW R, NEW V, NEW c, Tidy(c, R, V), NEW p \in Partition
    PROVE  Apart(c, removeNotification(c), p)
<1> DEFINE o == c.notify.partition
           w == c.notify.watcher
           rec == [c.partition[o] EXCEPT !.watchers = @ \ {w}]
           e == [c EXCEPT !.partition[o] = rec]
<1>1. removeNotification(c) = c \/ removeNotification(c) = removeWatcher(e, w)
  <2>1. e = [c EXCEPT !.partition[o].watchers = @ \ {w}]
    OBVIOUS
  <2> HIDE DEF e
  <2> QED  BY <2>1 DEF removeNotification
<1>2. Formed(c)
  BY DEF Tidy, Loose
<1>3. o \in Partition => /\ DOMAIN rec = PartitionFields
                         /\ rec.partitionWatcher = c.partition[o].partitionWatcher
                         /\ rec.name = c.partition[o].name /\ rec.state = c.partition[o].state
                         /\ rec.alive = c.partition[o].alive
  BY <1>2 DEF Formed, PartitionFields
<1>4. w.of # p
  BY NotifierApart
<1> HIDE DEF rec, o, w
<1>5. Changed(c, e, R)
  BY <1>2, <1>3, PartitionSet
<1>6. Apart(c, e, p)
  BY <1>2, <1>3, RecordApart
<1> HIDE DEF e
<1>7. Tidy(e, R, V)
  BY <1>5, TidyChanged
<1>8. Apart(e, removeWatcher(e, w), p)
  BY <1>4, <1>7, RemoveApart
<1> QED  BY <1>1, <1>6, <1>8, ApartNext

LEMMA AnewApart ==
    ASSUME NEW c, Formed(c), NEW p \in Partition, NEW o, NEW w
    PROVE  Apart(c, Anew(c, o, w), p)
<1> DEFINE rec == [c.partition[o] EXCEPT !.watchers = @ \cup {w}]
           e == [c EXCEPT !.partition[o] = rec]
           n == [c.notify EXCEPT !.watcher = w, !.status = "Registering"]
           d == Anew(c, o, w)
<1>1. d = [e EXCEPT !.notify = n] /\ DOMAIN e = Fields
  BY DEF Anew, Formed, Shaped, Fields
<1>2. o \in Partition => /\ rec.partitionWatcher = c.partition[o].partitionWatcher
                         /\ rec.name = c.partition[o].name /\ rec.state = c.partition[o].state
                         /\ rec.alive = c.partition[o].alive
  BY DEF Formed, PartitionFields
<1> HIDE DEF rec, d, n
<1>3. Apart(c, e, p)
  BY <1>2, RecordApart
<1> HIDE DEF e
<1>4. /\ SameLine(e, d) /\ d.partition = e.partition /\ d.watchers = e.watchers
      /\ d.exposed = e.exposed
  BY <1>1 DEF Fields, SameLine
<1>5. Apart(e, d, p)
  BY <1>4, OthersApart
<1> QED  BY <1>3, <1>5, ApartNext DEF d

LEMMA InitNotifyApart ==
    ASSUME NEW R, NEW V, NEW c, Tidy(c, R, V), NEW p \in Partition
    PROVE  Apart(c, initNotify(c), p)
<1> DEFINE n == c.notify
           less == removeNotification(c)
           rid == DeleteWatcher(less, n.watcher)
           w == [id |-> rid.lastId + 1, of |-> Notifier, name |-> rid.partition[n.partition].name,
                 query |-> n.query, actions |-> n.actions]
           still == [n EXCEPT !.status = "Null"]
           quiet == [c EXCEPT !.notify = still]
           set == [rid EXCEPT !.notify.watcher = w, !.notify.status = "Registering",
                              !.partition[n.partition].watchers = @ \cup {w}]
           added == addWatcher(set, w)
<1>1. Formed(c) /\ OneOfMine(c)
  BY DEF Tidy, Loose
<1>2. CASE ~parametersReady(n)
  <2>1. initNotify(c) \in {quiet, Exposed(quiet, "emptied")}
    BY <1>2 DEF initNotify
  <2>2. DOMAIN still = NotifyFields
    BY <1>1 DEF Formed, NotifyFields
  <2> HIDE DEF still
  <2>3. Apart(c, quiet, p)
    BY <1>1, NotifySetApart
  <2>4. Formed(quiet)
    BY <1>1, <2>2 DEF Formed, Shaped, Fields
  <2> HIDE DEF quiet
  <2>5. Apart(quiet, Exposed(quiet, "emptied"), p)
    BY <2>4, ExposedApart
  <2> QED  BY <2>1, <2>3, <2>5, ApartNext
<1>3. CASE parametersReady(n) /\ ~n.enabled
  BY <1>3, ApartNext DEF initNotify
<1>4. CASE parametersReady(n) /\ n.enabled
  <2>1. initNotify(c) = added
    BY <1>4 DEF initNotify
  <2>2. n.alive
    BY <1>1, <1>4 DEF OneOfMine, parametersReady
  <2>3. w.id = rid.lastId + 1 /\ w.of = Notifier
    OBVIOUS
  <2> HIDE DEF w, added
  <2>4. Tidy(less, R, V) /\ less.notify = n /\ Apart(c, less, p)
    BY TidyRemoveNotification, RemoveNotificationApart
  <2>5. n.watcher.of # p
    BY NotifierApart
  <2> HIDE DEF less, n
  <2>6. Loose(rid, R, V) /\ rid.notify = n /\ rid.watchers = less.watchers \ {n.watcher}
    BY <2>4, LooseDelete DEF SameObjects
  <2>7. Apart(less, rid, p)
    BY <2>4, <2>5, DeleteApart
  <2> HIDE DEF rid
  <2>8. set = Anew(rid, n.partition, w)
    BY DEF Anew
  <2> HIDE DEF set
  <2>9. Tidy(set, R, V) /\ set.lastId = rid.lastId
    <3>1. rid.notify.watcher \notin rid.watchers /\ rid.notify.alive
      BY <2>2, <2>6
    <3> QED  BY <2>3, <2>6, <2>8, <3>1, OneMore
  <2>10. Apart(rid, set, p)
    BY <2>6, <2>8, AnewApart DEF Loose
  <2>11. Apart(set, added, p)
    BY <2>3, <2>9, NoPartitions, AddApart DEF added
  <2> QED  BY <2>1, <2>4, <2>7, <2>10, <2>11, ApartNext
<1> QED  BY <1>2, <1>3, <1>4

LEMMA NameChangedApart ==
    ASSUME NEW R, NEW V, NEW c, Tidy(c, R, V), NEW p \in Partition, NEW o
    PROVE  Apart(c, nameChanged(c, o), p)
BY InitNotifyApart, ApartNext DEF nameChanged

LEMMA SetEnabledApart ==
    ASSUME NEW R, NEW V, NEW c, Tidy(c, R, V), NEW p \in Partition, NEW enabled
    PROVE  Apart(c, setEnabled(c, enabled), p)
<1> DEFINE n == c.notify
           less == removeNotification(c)
           idle == [n EXCEPT !.status = "Null"]
           quiet == [less EXCEPT !.notify.status = "Null"]
           off == IF n.enabled /\ parametersReady(n) THEN quiet ELSE c
           marked == [off.notify EXCEPT !.enabled = enabled]
           set == [off EXCEPT !.notify.enabled = enabled]
<1>1. DOMAIN n = NotifyFields
  BY DEF Tidy, Loose, Formed
<1>2. Tidy(less, R, V) /\ less.notify = n /\ Apart(c, less, p)
  BY TidyRemoveNotification, RemoveNotificationApart
<1>3. quiet = [less EXCEPT !.notify = idle]
  BY <1>2
<1>4. /\ DOMAIN idle = NotifyFields /\ idle.watcher = n.watcher /\ idle.alive = n.alive
      /\ idle.query = n.query /\ idle.status = "Null"
  BY <1>1 DEF NotifyFields
<1>5. setEnabled(c, enabled) \in {c, initNotify(set), set}
  BY DEF setEnabled
<1>6. set = [off EXCEPT !.notify = marked]
  OBVIOUS
<1> HIDE DEF less, idle, quiet, set
<1>7. Tidy(quiet, R, V) /\ Apart(c, quiet, p)
  <2>1. Tidy(quiet, R, V)
    BY <1>2, <1>3, <1>4, TidyNotifySet
  <2>2. Apart(less, quiet, p)
    BY <1>2, <1>3, NotifySetApart DEF Tidy, Loose
  <2> QED  BY <1>2, <2>1, <2>2, ApartNext
<1>8. Tidy(off, R, V) /\ Apart(c, off, p)
  BY <1>7, ApartNext
<1> HIDE DEF off
<1>9. /\ DOMAIN marked = NotifyFields /\ marked.watcher = off.notify.watcher
      /\ marked.alive = off.notify.alive /\ marked.query = off.notify.query
      /\ marked.status = off.notify.status
  BY <1>8 DEF Tidy, Loose, Formed, NotifyFields
<1> HIDE DEF marked
<1>10. Tidy(set, R, V) /\ Apart(c, set, p)
  <2>1. Tidy(set, R, V)
    BY <1>6, <1>8, <1>9, TidyNotifySet
  <2>2. Apart(off, set, p)
    BY <1>6, <1>8, NotifySetApart DEF Tidy, Loose
  <2> QED  BY <1>8, <2>1, <2>2, ApartNext
<1>11. Apart(set, initNotify(set), p)
  BY <1>10, InitNotifyApart
<1> QED  BY <1>5, <1>10, <1>11, ApartNext

LEMMA SetPartitionApart ==
    ASSUME NEW R, NEW V, NEW c, Tidy(c, R, V), NEW p \in Partition, NEW o
    PROVE  Apart(c, setPartition(c, o), p)
<1> DEFINE n == c.notify
           less == removeNotification(c)
           moved == [n EXCEPT !.partition = o, !.follows = @ \cup {o}]
           set == [less EXCEPT !.notify.partition = o, !.notify.follows = @ \cup {o}]
<1>1. /\ Formed(less) /\ Tidy(less, R, V) /\ less.notify = n /\ DOMAIN n = NotifyFields
      /\ Apart(c, less, p)
  BY TidyRemoveNotification, RemoveNotificationApart DEF Tidy, Loose, Formed
<1>2. setPartition(c, o) \in {c, initNotify(set)}
  BY DEF setPartition
<1> HIDE DEF less
<1>3. set = [less EXCEPT !.notify = moved]
  BY <1>1 DEF Formed, Shaped, Fields
<1>4. /\ DOMAIN moved = NotifyFields /\ moved.watcher = n.watcher /\ moved.alive = n.alive
      /\ moved.query = n.query /\ moved.status = n.status
  BY <1>1 DEF NotifyFields
<1> HIDE DEF set, moved
<1>5. Tidy(set, R, V)
  BY <1>1, <1>3, <1>4, TidyNotifySet
<1>6. Apart(less, set, p)
  BY <1>1, <1>3, NotifySetApart
<1>7. Apart(set, initNotify(set), p)
  BY <1>5, InitNotifyApart
<1> QED  BY <1>1, <1>2, <1>6, <1>7, ApartNext

LEMMA DeleteNotifyApart ==
    ASSUME NEW R, NEW V, NEW c, Tidy(c, R, V), NEW p \in Partition
    PROVE  Apart(c, DeleteNotify(c), p)
<1> DEFINE n == c.notify
           removed == IF n.enabled THEN removeNotification(c) ELSE c
           rid == DeleteWatcher(removed, n.watcher)
           none == [n EXCEPT !.alive = FALSE, !.watcher = NoWatcher, !.partition = None,
                             !.follows = {}, !.query = "", !.actions = {}, !.status = "Null"]
<1>1. DeleteNotify(c) = [rid EXCEPT !.notify = none]
  BY DEF DeleteNotify
<1>2. Tidy(removed, R, V) /\ removed.notify = n /\ Apart(c, removed, p)
  BY TidyRemoveNotification, RemoveNotificationApart, ApartNext
<1>3. n.watcher.of # p
  BY NotifierApart
<1> HIDE DEF removed, none, n
<1>4. Formed(rid)
  BY <1>2, LooseDelete DEF Loose
<1>5. Apart(removed, rid, p)
  BY <1>2, <1>3, DeleteApart
<1> HIDE DEF rid
<1>6. Apart(rid, [rid EXCEPT !.notify = none], p)
  BY <1>4, NotifySetApart
<1> QED  BY <1>1, <1>2, <1>5, <1>6, ApartNext

LEMMA CreateNotificationApart ==
    ASSUME NEW R, NEW V, NEW c, Tidy(c, R, V), ~c.notify.alive, NEW p \in Partition, NEW o,
             NEW query
    PROVE  Apart(c, createNotification(c, o, query), p)
<1> DEFINE n == [alive |-> TRUE, partition |-> o, query |-> query, actions |-> Action,
                 enabled |-> TRUE, status |-> "Null", watcher |-> NoWatcher, follows |-> {o}]
           d == Created(c, o, query)
<1>1. d = [c EXCEPT !.notify = n] /\ createNotification(c, o, query) = initNotify(d)
  BY DEF Created, createNotification
<1>2. Tidy(d, R, V)
  BY TidyCreated
<1> HIDE DEF d, n
<1>3. Apart(c, d, p)
  BY <1>1, NotifySetApart DEF Tidy, Loose
<1>4. Apart(d, initNotify(d), p)
  BY <1>2, InitNotifyApart
<1> QED  BY <1>1, <1>3, <1>4, ApartNext

LEMMA StatusApart ==
    ASSUME NEW c, Formed(c), NEW p \in Partition, NEW w, NEW status
    PROVE  Apart(c, StatusOf(c, w, status), p)
<1> DEFINE n == [c.notify EXCEPT !.status = status]
<1>1. StatusOf(c, w, status) \in {c, [c EXCEPT !.notify = n]}
  BY DEF StatusOf
<1> QED  BY <1>1, NotifySetApart, ApartNext

-----------------------------------------------------------------------------
(***************************************************************************)
(* So do requests, callbacks and query objects.                            *)
(***************************************************************************)
CallbackFields == {"writeCallbacks", "findCallbacks", "called", "promised", "query"}

LEMMA CallbacksApart ==
    ASSUME NEW c, NEW d, NEW p, \A field \in Fields \ CallbackFields : d[field] = c[field]
    PROVE  Apart(c, d, p)
<1>1. /\ SameLine(c, d) /\ d.partition = c.partition /\ d.watchers = c.watchers
      /\ d.exposed = c.exposed
  BY DEF Fields, CallbackFields, SameLine
<1> QED  BY <1>1, OthersApart

LEMMA WriteApart ==
    ASSUME NEW R, NEW V, NEW c, Tidy(c, R, V), NEW p \in Partition, NEW o, NEW callback
    PROVE  Apart(c, Write(c, o, callback), p)
<1> DEFINE sent == send(c, Request("write", o, "", NoWatcher))
           d == [sent EXCEPT !.writeCallbacks = @ \cup {[id |-> sent.lastId, of |-> o]},
                             !.promised = @ \cup {sent.lastId}]
<1>1. Write(c, o, callback) \in {sent, d}
  BY DEF Write
<1>2. Tidy(sent, R, V) /\ Apart(c, sent, p)
  BY TidySend, SendApart
<1> HIDE DEF sent
<1>3. \A field \in Fields \ CallbackFields : d[field] = sent[field]
  BY <1>2 DEF Tidy, Loose, Formed, Shaped, Fields, CallbackFields
<1> HIDE DEF d
<1>4. Apart(sent, d, p)
  BY <1>3, CallbacksApart
<1> QED  BY <1>1, <1>2, <1>4, ApartNext

LEMMA WithQueryApart ==
    ASSUME NEW R, NEW V, NEW c, Tidy(c, R, V), NEW p \in Partition
    PROVE  Apart(c, WithQuery(c), p)
<1> DEFINE w == [NoWatcher EXCEPT !.id = c.lastId + 1]
           added == addWatcher(c, w)
           asked == send(added, Request("nothing", None, "", NoWatcher))
           less == removeWatcher(asked, w)
           d == DeleteWatcher(less, w)
<1>1. WithQuery(c) = d
  BY DEF WithQuery
<1>2. w.id = c.lastId + 1 /\ w.of = None
  BY DEF NoWatcher
<1>3. w.of # p /\ w.of # Notifier
  BY <1>2, NoPartitions, NotifierIsNoPartition
<1> HIDE DEF w, added, asked, less, d
<1>4. Tidy(added, R, V) /\ Apart(c, added, p)
  BY <1>2, <1>3, TidyAdd, AddApart DEF added
<1>5. Tidy(asked, R, V) /\ Apart(added, asked, p)
  BY <1>4, TidySend, SendApart DEF asked
<1>6. Tidy(less, R, V) /\ Apart(asked, less, p)
  BY <1>3, <1>5, TidyRemove, RemoveApart DEF less
<1>7. Apart(less, d, p)
  BY <1>3, <1>6, DeleteApart DEF d
<1> QED  BY <1>1, <1>4, <1>5, <1>6, <1>7, ApartNext

LEMMA FindApart ==
    ASSUME NEW R, NEW V, NEW c, Tidy(c, R, V), NEW p \in Partition, NEW o, NEW query, NEW callback
    PROVE  Apart(c, find(c, o, query, callback), p)
<1> DEFINE made == WithQuery(c)
           sent == send(made, Request("find", o, "", NoWatcher))
           waiting(d, id) ==
               IF callback THEN [d EXCEPT !.findCallbacks = @ \cup {[id |-> id, of |-> o]},
                                          !.promised = @ \cup {id}] ELSE d
<1>1. find(c, o, query, callback) \in {Exposed(waiting(made, None), "unasked"), waiting(sent,
        sent.lastId)}
  BY DEF find
<1>2. Tidy(made, R, V) /\ Apart(c, made, p)
  BY TidyWithQuery, WithQueryApart
<1> HIDE DEF made
<1>3. Tidy(sent, R, V) /\ Apart(made, sent, p)
  BY <1>2, TidySend, SendApart
<1> HIDE DEF sent
<1>4. ASSUME NEW d, Tidy(d, R, V), NEW id
      PROVE  Apart(d, waiting(d, id), p) /\ Apart(d, Exposed(waiting(d, id), "unasked"), p)
  <2> DEFINE e == waiting(d, id)
  <2>1. Formed(d)
    BY <1>4 DEF Tidy, Loose
  <2>2. /\ \A field \in Fields \ CallbackFields : e[field] = d[field]
        /\ Formed(e)
    BY <2>1 DEF Fields, CallbackFields, Formed, Shaped
  <2> HIDE DEF e
  <2>3. Apart(d, e, p)
    BY <2>2, CallbacksApart
  <2>4. Apart(e, Exposed(e, "unasked"), p)
    BY <2>2, ExposedApart
  <2> QED  BY <2>3, <2>4, ApartNext DEF e
<1> HIDE DEF waiting
<1>5. Apart(made, Exposed(waiting(made, None), "unasked"), p)
        /\ Apart(sent, waiting(sent, sent.lastId), p)
  BY <1>2, <1>3, <1>4
<1> QED  BY <1>1, <1>2, <1>3, <1>5, ApartNext

LEMMA CreateQueryApart ==
    ASSUME NEW R, NEW V, NEW c, Tidy(c, R, V), NEW p \in Partition, NEW o
    PROVE  Apart(c, createQuery(c, o), p)
<1> DEFINE made == WithQuery(c)
           d == createQuery(c, o)
<1>1. Tidy(made, R, V) /\ Apart(c, made, p)
  BY TidyWithQuery, WithQueryApart
<1>2. d = [made EXCEPT !.query = [alive |-> TRUE, partition |-> o, status |-> "Null",
        request |-> 0]]
  BY DEF createQuery
<1> HIDE DEF made, d
<1>3. \A field \in Fields \ CallbackFields : d[field] = made[field]
  BY <1>1, <1>2 DEF Tidy, Loose, Formed, Shaped, Fields, CallbackFields
<1>4. Apart(made, d, p)
  BY <1>3, CallbacksApart
<1> QED  BY <1>1, <1>4, ApartNext DEF d

\* What is under way for the query object is no question for a state.
LEMMA StoppedApart ==
    ASSUME NEW R, NEW V, NEW c, Tidy(c, R, V), NEW p \in Partition
    PROVE  Apart(c, Stopped(c), p)
<1> DEFINE old == c.query.request
           gone == {r \in Pending(c) : r.id = old}
           rid == [c EXCEPT !.queue = Without(@, gone), !.current = IF @ = old THEN None ELSE @]
<1>0. Stopped(c) = rid
  BY DEF Stopped
<1>1. /\ Formed(c) /\ Line(c) /\ InOrder(c) /\ Tagged(c)
  BY DEF Tidy, Loose
<1>2. gone \subseteq Pending(c) /\ \A r \in gone : r.id = old
  OBVIOUS
<1>3. \A r \in Sent(c) : r.id = old => r.kind = "query"
  BY <1>1 DEF Tagged
<1> HIDE DEF gone, old
<1>4. /\ Cut(c, rid, gone) /\ SameObjects(c, rid)
      /\ rid.watchers = c.watchers /\ rid.exposed = c.exposed
      /\ rid.current = IF c.current = old THEN None ELSE c.current
      /\ rid.wire = c.wire
  BY <1>1, <1>2 DEF Formed, Shaped, Fields, Cut, SameObjects
<1> HIDE DEF rid
<1>5. /\ Sent(rid) \subseteq Sent(c)
      /\ \A r \in Sent(c) : r \in Sent(rid) \/ r \in gone
  BY <1>1, <1>4, CutInOrder
<1>6. \A r \in Sent(c) : r.kind # "query" => r \in Sent(rid)
  BY <1>2, <1>3, <1>5
<1>7. \A t : Asks(rid, p, t) <=> Asks(c, p, t)
  BY <1>5, <1>6 DEF Asks
<1>8. Prompt(c) => Prompt(rid)
  BY <1>3, <1>4 DEF Prompt, Sent
<1> QED  BY <1>0, <1>4, <1>6, <1>7, <1>8 DEF Apart, Side, SameObjects

LEMMA StartApart ==
    ASSUME NEW R, NEW V, NEW c, Tidy(c, R, V), NEW p \in Partition
    PROVE  Apart(c, start(c), p)
<1> DEFINE rid == Stopped(c)
           sent == send(rid, Request("query", c.query.partition, "", NoWatcher))
           d == [sent EXCEPT !.query.status = "Loading", !.query.request = sent.lastId]
<1>1. start(c) \in {c, d}
  BY DEF start, Stopped
<1>2. Tidy(rid, R, V) /\ Apart(c, rid, p)
  BY TidyStopped, StoppedApart
<1> HIDE DEF rid, d
<1>3. Tidy(sent, R, V) /\ Apart(rid, sent, p)
  BY <1>2, TidySend, SendApart
<1> HIDE DEF sent
<1>4. \A field \in Fields \ CallbackFields : d[field] = sent[field]
  BY <1>3 DEF d, Tidy, Loose, Formed, Shaped, Fields, CallbackFields
<1>5. Apart(sent, d, p)
  BY <1>4, CallbacksApart
<1> QED  BY <1>1, <1>2, <1>3, <1>5, ApartNext

LEMMA CalledBackApart ==
    ASSUME NEW R, NEW V, NEW c, Tidy(c, R, V), NEW p \in Partition, NEW id
    PROVE  /\ Apart(c, requestFinished(c, id), p) /\ Apart(c, requestError(c, id), p)
           /\ Apart(c, queryFinished(c, id), p) /\ Apart(c, queryStatusChanged(c, id), p)
<1>1. DOMAIN c = Fields
  BY DEF Tidy, Loose, Formed, Shaped
<1>2. ASSUME NEW ok
      PROVE  /\ Apart(c, [Called(c, id, ok) EXCEPT !.writeCallbacks = {r \in @ : r.id # id}], p)
             /\ Apart(c, [Called(c, id, ok) EXCEPT !.findCallbacks = {r \in @ : r.id # id}], p)
  <2> DEFINE d == [Called(c, id, ok) EXCEPT !.writeCallbacks = {r \in @ : r.id # id}]
             e == [Called(c, id, ok) EXCEPT !.findCallbacks = {r \in @ : r.id # id}]
  <2>1. \A field \in Fields \ CallbackFields : d[field] = c[field] /\ e[field] = c[field]
    BY <1>1 DEF Called, Fields, CallbackFields
  <2> HIDE DEF d, e
  <2>2. Apart(c, d, p) /\ Apart(c, e, p)
    BY <2>1, CallbacksApart
  <2> QED  BY <2>2 DEF d, e
<1> QED  BY <1>2, ApartNext DEF requestFinished, requestError, queryFinished, queryStatusChanged,
             call, callErrorCallback

-----------------------------------------------------------------------------
(***************************************************************************)
(* So do the other partition objects.                                      *)
(***************************************************************************)
LEMMA EditsApart ==
    ASSUME NEW c, Formed(c), NEW p \in Partition, NEW o, o # p, NEW value
    PROVE  /\ Apart(c, [c EXCEPT !.partition[o].state = value], p)
           /\ Apart(c, [c EXCEPT !.partition[o].name = value], p)
<1> DEFINE a == [c.partition[o] EXCEPT !.state = value]
           b == [c.partition[o] EXCEPT !.name = value]
<1>1. /\ [c EXCEPT !.partition[o].state = value] = [c EXCEPT !.partition[o] = a]
      /\ [c EXCEPT !.partition[o].name = value] = [c EXCEPT !.partition[o] = b]
  OBVIOUS
<1> HIDE DEF a, b
<1>2. Apart(c, [c EXCEPT !.partition[o] = a], p) /\ Apart(c, [c EXCEPT !.partition[o] = b], p)
  BY RecordApart
<1> QED  BY <1>1, <1>2

LEMMA GivenApart ==
    ASSUME NEW c, Formed(c), NEW p \in Partition, NEW o, o # p, NEW w
    PROVE  Apart(c, Given(c, o, w), p)
<1> DEFINE a == [c.partition[o] EXCEPT !.partitionWatcher = w]
<1>1. Given(c, o, w) = [c EXCEPT !.partition[o] = a]
  BY DEF Given
<1> HIDE DEF a
<1> QED  BY <1>1, RecordApart

LEMMA InitApart ==
    ASSUME NEW R, NEW V, NEW c, Tidy(c, R, V), NEW p \in Partition, NEW o \in Partition, o # p
    PROVE  Apart(c, init(c, o), p)
<1> DEFINE w == [NoWatcher EXCEPT !.id = c.lastId + 1, !.of = o, !.name = c.partition[o].name]
           given == [c EXCEPT !.partition[o].partitionWatcher = w]
           added == addWatcher(given, w)
           d == send(added, Request("state", o, w.name, NoWatcher))
<1>1. init(c, o) = d
  BY DEF init
<1>2. w.id = c.lastId + 1 /\ w.of = o /\ w.of # Notifier
  BY NotifierIsNoPartition DEF NoWatcher, PartitionsApart
<1>3. given = Given(c, o, w)
  BY DEF Given
<1> HIDE DEF w, given, added
<1>4. Tidy(given, R, V) /\ given.lastId = c.lastId /\ Apart(c, given, p)
  BY <1>2, <1>3, TidyGiven, GivenApart DEF Tidy, Loose
<1>5. Tidy(added, R, V) /\ Apart(given, added, p)
  BY <1>2, <1>4, TidyAdd, AddApart DEF added
<1>6. Apart(added, d, p)
  BY <1>5, SendApart
<1> QED  BY <1>1, <1>4, <1>5, <1>6, ApartNext

LEMMA UnwatchedApart ==
    ASSUME NEW R, NEW V, NEW c, Tidy(c, R, V), NEW p \in Partition, NEW o \in Partition,
           c.partition[o].partitionWatcher.of # p
    PROVE  Apart(c, Unwatched(c, o), p)
<1> DEFINE w == c.partition[o].partitionWatcher
           less == removeWatcher(c, w)
<1>1. Unwatched(c, o) = DeleteWatcher(less, w)
  BY DEF Unwatched
<1>2. w.of # p
  OBVIOUS
<1> HIDE DEF w
<1>3. Tidy(less, R, V) /\ Apart(c, less, p)
  BY <1>2, TidyRemove, RemoveApart
<1> HIDE DEF less
<1>4. Apart(less, DeleteWatcher(less, w), p)
  BY <1>2, <1>3, DeleteApart
<1> QED  BY <1>1, <1>3, <1>4, ApartNext

LEMMA SetNameApart ==
    ASSUME NEW R, NEW V, NEW c, Tidy(c, R, V), NEW p \in Partition, NEW o \in Partition, o # p,
           c.partition[o].partitionWatcher.of # p, NEW name
    PROVE  Apart(c, setName(c, o, name), p)
<1> DEFINE u == Unwatched(c, o)
           e == [u EXCEPT !.partition[o].state = "None"]
           f == [e EXCEPT !.partition[o].name = name]
           g == init(f, o)
<1>1. setName(c, o, name) \in {c, nameChanged(init([u EXCEPT !.partition[o].state = "None",
                                                             !.partition[o].name = name], o), o)}
  BY DEF setName
<1>2. Tidy(u, R, V) /\ Apart(c, u, p)
  BY TidyUnwatched, UnwatchedApart
<1> HIDE DEF u
<1>3. [u EXCEPT !.partition[o].state = "None", !.partition[o].name = name] = f
  BY <1>2 DEF Tidy, Loose, Formed, Shaped, Fields
<1>4. Tidy(e, R, V) /\ Apart(u, e, p)
  BY <1>2, TidyState, EditsApart DEF Tidy, Loose
<1> HIDE DEF e
<1>5. Tidy(f, R, V) /\ Apart(e, f, p)
  BY <1>4, TidyState, EditsApart DEF Tidy, Loose
<1> HIDE DEF f
<1>6. Tidy(g, R, V) /\ Apart(f, g, p)
  BY <1>5, TidyInit, InitApart
<1> HIDE DEF g
<1>7. Apart(g, nameChanged(g, o), p)
  BY <1>6, NameChangedApart
<1> QED  BY <1>1, <1>2, <1>3, <1>4, <1>5, <1>6, <1>7, ApartNext DEF g

LEMMA PartitionQueryFinishedApart ==
    ASSUME NEW R, NEW V, NEW c, Tidy(c, R, V), NEW p \in Partition, NEW o, o # p, NEW name,
             NEW found
    PROVE  Apart(c, partitionQueryFinished(c, o, name, found), p)
<1> DEFINE taken == [c EXCEPT !.partition[o].state = found]
           known == IF \E r \in Pending(c) : r.kind = "state" /\ r.of = o
                    THEN Exposed(taken, "outdated") ELSE taken
           given == [known EXCEPT !.partition[o].name = name]
           named == nameChanged(given, o)
           d == partitionQueryFinished(c, o, name, found)
<1>1. d \in {c, known, named, Exposed(named, "renamed")}
  BY DEF partitionQueryFinished
<1> HIDE DEF d
<1>2. Tidy(taken, R, V) /\ Apart(c, taken, p)
  BY TidyState, EditsApart DEF Tidy, Loose
<1> HIDE DEF taken
<1>3. Tidy(known, R, V) /\ Apart(taken, known, p)
  <2>1. Tidy(Exposed(taken, "outdated"), R, V) /\ Apart(taken, Exposed(taken, "outdated"), p)
    BY <1>2, TidyExposed, ExposedApart DEF Tidy, Loose
  <2> QED  BY <1>2, <2>1, ApartNext
<1> HIDE DEF known
<1>4. Tidy(given, R, V) /\ Apart(known, given, p)
  BY <1>3, TidyState, EditsApart DEF Tidy, Loose
<1> HIDE DEF given
<1>5. Tidy(named, R, V) /\ Apart(given, named, p)
  BY <1>4, TidyNameChanged, NameChangedApart
<1> HIDE DEF named
<1>6. Apart(named, Exposed(named, "renamed"), p)
  BY <1>5, ExposedApart DEF Tidy, Loose
<1> QED  BY <1>1, <1>2, <1>3, <1>4, <1>5, <1>6, ApartNext DEF d

LEMMA PartitionQueryErrorApart ==
    ASSUME NEW R, NEW V, NEW c, Tidy(c, R, V), NEW p \in Partition, NEW o, o # p
    PROVE  Apart(c, partitionQueryError(c, o), p)
<1> DEFINE d == [c EXCEPT !.partition[o].state = "Error"]
<1>1. partitionQueryError(c, o) \in {c, Exposed(d, "refused")}
  BY DEF partitionQueryError
<1>2. Tidy(d, R, V) /\ Apart(c, d, p)
  BY TidyState, EditsApart DEF Tidy, Loose
<1> HIDE DEF d
<1>3. Apart(d, Exposed(d, "refused"), p)
  BY <1>2, ExposedApart DEF Tidy, Loose
<1> QED  BY <1>1, <1>2, <1>3, ApartNext

LEMMA NotificationsAvailableApart ==
    ASSUME NEW c, Formed(c), NEW p \in Partition, NEW o, o # p, NEW found
    PROVE  Apart(c, notificationsAvailable(c, o, found), p)
BY EditsApart DEF notificationsAvailable

\* What becomes of a partition object that is deleted, and of the others.
LEMMA DeletePartitionIs ==
    ASSUME NEW R, NEW V, NEW c, Tidy(c, R, V), NEW o \in Partition
    PROVE  LET u == Unwatched(c, o)
               d == DeletePartition(c, o)
           IN /\ SameLine(u, d) /\ d.watchers = u.watchers /\ u.exposed \subseteq d.exposed
              /\ ~d.partition[o].alive /\ d.partition[o].name = u.partition[o].name
              /\ d.partition[o].partitionWatcher = u.partition[o].partitionWatcher
              /\ \A p \in Partition : p # o => d.partition[p] = u.partition[p]
<1> DEFINE u == Unwatched(c, o)
           gone == [u EXCEPT
                       !.partition[o].alive = FALSE,
                       !.writeCallbacks = {r \in @ : r.of # o},
                         !.findCallbacks = {r \in @ : r.of # o},
                       !.notify.partition = IF @ = o THEN None ELSE @,
                       !.query.partition = IF @ = o THEN None ELSE @]
           waiting == \E r \in c.writeCallbacks \cup c.findCallbacks : r.of = o
           one == IF waiting THEN Exposed(gone, "left") ELSE gone
           rec == [u.partition[o] EXCEPT !.alive = FALSE]
           f == [u.partition EXCEPT ![o] = rec]
           d == DeletePartition(c, o)
<1>1. d \in {one, Exposed(one, "orphaned")}
  BY DEF DeletePartition
<1> HIDE DEF d
<1>2. Formed(u)
  BY TidyUnwatched DEF Tidy, Loose
<1> HIDE DEF u, waiting
<1>3. /\ ~rec.alive /\ rec.name = u.partition[o].name
      /\ rec.partitionWatcher = u.partition[o].partitionWatcher
  BY <1>2 DEF Formed, PartitionFields
<1>4. /\ DOMAIN gone = Fields /\ gone.partition = f
      /\ \A field \in {"watchers", "queue", "wire", "current", "lastId", "exposed"} :
            gone[field] = u[field]
  BY <1>2 DEF Formed, Shaped, Fields
<1> HIDE DEF rec
<1>5. f[o] = rec /\ \A p \in Partition : p # o => f[p] = u.partition[p]
  BY <1>2 DEF Formed
<1> HIDE DEF f, gone
<1>6. ASSUME NEW e, NEW b, DOMAIN b = Fields
      PROVE  /\ DOMAIN Exposed(b, e) = Fields /\ SameLine(b, Exposed(b, e))
             /\ Exposed(b, e).watchers = b.watchers /\ Exposed(b, e).partition = b.partition
             /\ b.exposed \subseteq Exposed(b, e).exposed
  BY <1>6 DEF Fields, SameLine, Exposed
<1>7. /\ DOMAIN one = Fields /\ SameLine(gone, one) /\ one.watchers = gone.watchers
      /\ one.partition = gone.partition /\ gone.exposed \subseteq one.exposed
  BY <1>4, <1>6 DEF SameLine
<1> HIDE DEF one
<1>8. /\ SameLine(one, d) /\ d.watchers = one.watchers
      /\ d.partition = one.partition /\ one.exposed \subseteq d.exposed
  BY <1>1, <1>6, <1>7 DEF SameLine
<1>9. SameLine(u, gone) /\ gone.watchers = u.watchers /\ gone.exposed = u.exposed
  BY <1>4 DEF SameLine
<1>10. SameLine(u, d)
  BY <1>7, <1>8, <1>9 DEF SameLine
<1>11. d.watchers = u.watchers /\ u.exposed \subseteq d.exposed /\ d.partition = f
  BY <1>4, <1>7, <1>8, <1>9
<1> QED  BY <1>3, <1>5, <1>10, <1>11 DEF d, u

LEMMA DeletePartitionApart ==
    ASSUME NEW R, NEW V, NEW c, Tidy(c, R, V), NEW p \in Partition, NEW o \in Partition, o # p,
           c.partition[o].partitionWatcher.of # p
    PROVE  Apart(c, DeletePartition(c, o), p)
<1> DEFINE u == Unwatched(c, o)
           d == DeletePartition(c, o)
<1>1. Apart(c, u, p)
  BY UnwatchedApart
<1>2. /\ SameLine(u, d) /\ d.watchers = u.watchers /\ u.exposed \subseteq d.exposed
      /\ d.partition[p] = u.partition[p]
  BY DeletePartitionIs
<1> HIDE DEF u, d
<1>3. Apart(u, d, p)
  BY <1>2, EditedApart DEF Side
<1> QED  BY <1>1, <1>3, ApartNext DEF d

-----------------------------------------------------------------------------
(***************************************************************************)
(* A partition object that is made, named or deleted.                      *)
(***************************************************************************)
\* It knows nothing yet and has no watcher.
Blank(c, p) ==
    LET o == c.partition[p]
    IN /\ Prompt(c)
       /\ o.name \in Name \cup {""} /\ o.state = "None"
       /\ o.name = "" => \A t : Asks(c, p, t) => Resolved(t.name) = Default
       /\ \A v \in c.watchers : v.of # p

LEMMA InitTold ==
    ASSUME NEW R, NEW V, NEW c, Tidy(c, R, V), NEW p \in Partition, Blank(c, p), NEW s, NEW av
    PROVE  Told(init(c, p), p, R, s, av)
<1> DEFINE name == c.partition[p].name
           w == [NoWatcher EXCEPT !.id = c.lastId + 1, !.of = p, !.name = name]
           given == [c EXCEPT !.partition[p].partitionWatcher = w]
           added == addWatcher(given, w)
           d == send(added, Request("state", p, w.name, NoWatcher))
           a == [id |-> given.lastId + 1, kind |-> "add", of |-> w.of, name |-> w.name,
             watcher |-> w]
           q == [id |-> added.lastId + 1, kind |-> "state", of |-> p, name |-> w.name,
             watcher |-> NoWatcher]
           rec == [c.partition[p] EXCEPT !.partitionWatcher = w]
           f == [c.partition EXCEPT ![p] = rec]
<1>1. init(c, p) = d
  BY DEF init
<1>2. w.id = c.lastId + 1 /\ w.of = p /\ w.name = name /\ w.of # Notifier
  BY NotifierIsNoPartition DEF NoWatcher, PartitionsApart
<1>3. given = Given(c, p, w)
  BY DEF Given
<1>4. /\ f[p].partitionWatcher = w /\ f[p].name = name
      /\ f[p].state = "None"
  BY DEF Tidy, Loose, Formed, PartitionFields, Blank
<1>5. given = [c EXCEPT !.partition = f]
  OBVIOUS
<1> HIDE DEF w, rec, f, given, name, a, q, d, added
<1>6. /\ given.partition = f /\ SameLine(c, given) /\ given.watchers = c.watchers
  BY <1>5 DEF Tidy, Loose, Formed, Shaped, Fields, SameLine
<1>7. Tidy(given, R, V) /\ given.lastId = c.lastId
  BY <1>2, <1>3, TidyGiven
<1>8. Prompt(given) /\ Sent(given) = Sent(c)
  BY <1>6 DEF Prompt, SameLine, Sent, Blank
<1>9. Tidy(added, R, V) /\ added.lastId = given.lastId + 1
  BY <1>2, <1>7, TidyAdd DEF added
<1>10. /\ Sent(added) = Sent(given) \cup {a} /\ SameObjects(given, added)
       /\ added.watchers = given.watchers \cup {w} /\ Prompt(added)
  BY <1>2, <1>7, <1>8, AddIs DEF added, a
<1>11. a.kind = "add" /\ a.watcher = w
  BY DEF a
<1>12. /\ Sent(d) = Sent(added) \cup {q} /\ SameObjects(added, d) /\ d.watchers = added.watchers
       /\ Prompt(d)
  BY <1>9, <1>10, SendIs DEF Tidy, Loose, d, q
<1>13. q.kind = "state" /\ q.of = p /\ q.id = added.lastId + 1 /\ q.name = name
  BY <1>2 DEF q
<1>14. d.partition[p].name = name /\ d.partition[p].partitionWatcher = w
         /\ d.partition[p].state = "None"
  BY <1>4, <1>6, <1>10, <1>12 DEF SameObjects
<1>15. d.watchers = c.watchers \cup {w}
  BY <1>6, <1>10, <1>12
<1>16. Sent(d) = (Sent(c) \cup {a}) \cup {q}
  BY <1>8, <1>10, <1>12
<1>17. Named(d, p)
  <2>1. ASSUME name = "", NEW t, Asks(d, p, t) PROVE Resolved(t.name) = Default
    <3>1. t = q \/ Asks(c, p, t)
      BY <1>11, <1>16, <2>1 DEF Asks
    <3>2. \A v : Asks(c, p, v) => Resolved(v.name) = Default
      BY <2>1 DEF Blank, name
    <3> QED  BY <1>13, <2>1, <3>1, <3>2 DEF Resolved
  <2> QED  BY <1>2, <1>14, <1>15, <2>1 DEF Named, Blank, name
<1>18. Hearkens(d, p)
  BY <1>2, <1>14, <1>15 DEF Hearkens
<1>19. Expects(d, p)
  <2>1. Asks(d, p, q) /\ Resolved(q.name) = Resolved(name)
    BY <1>13, <1>16 DEF Asks
  <2>2. q.id > w.id
    <3>1. c.lastId \in Nat
      BY DEF Tidy, Loose, Line
    <3> QED  BY <1>2, <1>7, <1>9, <1>13, <3>1
  <2> QED  BY <1>14, <2>1, <2>2 DEF Expects
<1>20. Registers(d, p)
  BY <1>11, <1>14, <1>16 DEF Registers
<1>21. w \notin R
  <2>1. c.lastId \in Nat /\ \A v \in R : v.id \in 1 .. c.lastId
    BY DEF Tidy, Loose, Line, Known
  <2> QED  BY <1>2, <2>1
<1>22. Learns(d, p, R, s, av)
  BY <1>14, <1>19, <1>20, <1>21 DEF Learns
<1> QED  BY <1>1, <1>12, <1>17, <1>18, <1>22 DEF Told, d

LEMMA UnwatchedIs ==
    ASSUME NEW R, NEW V, NEW c, Tidy(c, R, V), NEW p \in Partition, Prompt(c), Named(c, p)
    PROVE  LET u == Unwatched(c, p)
           IN /\ u.partition = c.partition /\ Prompt(u)
              /\ \A t : Asks(u, p, t) => Asks(c, p, t)
              /\ \A v \in u.watchers : v.of # p
<1> DEFINE w == c.partition[p].partitionWatcher
           less == removeWatcher(c, w)
           u == DeleteWatcher(less, w)
<1>1. Unwatched(c, p) = u
  BY DEF Unwatched
<1>2. \A v \in c.watchers : v.of = p => v = w
  BY DEF Named
<1> HIDE DEF w
<1>3. /\ Tidy(less, R, V) /\ SameObjects(c, less) /\ less.watchers = c.watchers \ {w}
      /\ Prompt(less) /\ \A t : t.kind # "remove" => (t \in Sent(less) <=> t \in Sent(c))
  BY TidyRemove, RemoveIs
<1> HIDE DEF less
<1>4. /\ Sent(u) \subseteq Sent(less) /\ SameObjects(less, u) /\ u.watchers = less.watchers \ {w}
      /\ Prompt(u)
  BY <1>3, DeleteIs
<1> HIDE DEF u
<1>5. \A t : Asks(u, p, t) => Asks(c, p, t)
  BY <1>3, <1>4 DEF Asks
<1>6. u.partition = c.partition
  BY <1>3, <1>4 DEF SameObjects
<1> QED  BY <1>1, <1>2, <1>3, <1>4, <1>5, <1>6

LEMMA SetNameTold ==
    ASSUME NEW R, NEW V, NEW c, Tidy(c, R, V), NEW p \in Partition, NEW name \in Name,
           NEW s, NEW av, Told(c, p, R, s, av)
    PROVE  Told(setName(c, p, name), p, R, s, av)
<1> DEFINE u == Unwatched(c, p)
           rec == [u.partition[p] EXCEPT !.state = "None", !.name = name]
           d == [u EXCEPT !.partition[p].state = "None", !.partition[p].name = name]
           f == [u.partition EXCEPT ![p] = rec]
           g == init(d, p)
<1>1. setName(c, p, name) \in {c, nameChanged(g, p)}
  BY DEF setName
<1>2. /\ Tidy(u, R, V) /\ Prompt(u) /\ (\A t : Asks(u, p, t) => Asks(c, p, t))
      /\ \A v \in u.watchers : v.of # p
  BY TidyUnwatched, UnwatchedIs DEF Told
<1> HIDE DEF u
<1>3. Formed(u)
  BY <1>2 DEF Tidy, Loose
<1>4. d = [u EXCEPT !.partition[p] = rec]
  BY <1>3 DEF Formed, Shaped, Fields, PartitionFields
<1>5. /\ DOMAIN rec = PartitionFields /\ rec.partitionWatcher = u.partition[p].partitionWatcher
      /\ rec.name = name /\ rec.state = "None"
  BY <1>3 DEF Formed, PartitionFields
<1> HIDE DEF rec, d
<1>6. Tidy(d, R, V)
  BY <1>2, <1>4, <1>5, TidyPartitionSet
<1>7. d = [u EXCEPT !.partition = f] /\ f[p] = rec
  BY <1>3, <1>4 DEF Formed
<1> HIDE DEF f
<1>8. /\ d.partition[p].name = name /\ d.partition[p].state = "None" /\ d.watchers = u.watchers
      /\ SameLine(u, d)
  BY <1>3, <1>5, <1>7 DEF Formed, Shaped, Fields, SameLine
<1>9. Prompt(d)
  BY <1>2, <1>8 DEF Prompt, SameLine
<1>10. name # ""
  BY QmlAssumption
<1>11. Told(g, p, R, s, av)
  <2>1. Blank(d, p)
    BY <1>2, <1>8, <1>9, <1>10 DEF Blank
  <2> QED  BY <1>6, <2>1, InitTold
<1>12. Tidy(g, R, V)
  BY <1>6, TidyInit
<1> HIDE DEF g
<1>13. Apart(g, nameChanged(g, p), p)
  BY <1>12, NameChangedApart
<1> QED  BY <1>1, <1>11, <1>13, ToldApart

LEMMA DeletePartitionTold ==
    ASSUME NEW R, NEW V, NEW c, Tidy(c, R, V), NEW p \in Partition,
           NEW s, NEW av, Told(c, p, R, s, av)
    PROVE  Told(DeletePartition(c, p), p, R, s, av)
<1> DEFINE u == Unwatched(c, p)
           d == DeletePartition(c, p)
<1>1. /\ u.partition = c.partition /\ Prompt(u)
      /\ \A t : Asks(u, p, t) => Asks(c, p, t)
      /\ \A v \in u.watchers : v.of # p
  BY UnwatchedIs DEF Told
<1>2. /\ SameLine(u, d) /\ d.watchers = u.watchers /\ ~d.partition[p].alive
      /\ d.partition[p].name = u.partition[p].name
  BY DeletePartitionIs
<1> HIDE DEF u, d
<1>3. Prompt(d) /\ Sent(d) = Sent(u)
  BY <1>1, <1>2 DEF Prompt, SameLine, Sent
<1>4. Named(d, p)
  <2>1. \A t : Asks(d, p, t) => Asks(c, p, t)
    BY <1>1, <1>3 DEF Asks
  <2> QED  BY <1>1, <1>2, <2>1 DEF Named, Told
<1> QED  BY <1>2, <1>3, <1>4 DEF Told, d

-----------------------------------------------------------------------------
(***************************************************************************)
(* The partition objects at first.                                         *)
(***************************************************************************)
\* Not made yet.
Unmade(c, p) ==
    /\ c.partition[p].name = FirstName[p] /\ c.partition[p].state = "None"
    /\ \A v \in c.watchers : v.of # p
    /\ \A t : ~Asks(c, p, t)

LEMMA UnmadeApart ==
    ASSUME NEW c, NEW d, NEW p, Apart(c, d, p), Unmade(c, p)
    PROVE  Unmade(d, p)
<1>1. d.partition[p].name = FirstName[p] /\ d.partition[p].state = "None"
  BY DEF Apart, Side, Unmade
<1>2. \A v \in d.watchers : v.of # p
  BY DEF Apart, Unmade
<1>3. \A t : ~Asks(d, p, t)
  BY DEF Apart, Unmade
<1> QED  BY <1>1, <1>2, <1>3 DEF Unmade

LEMMA MadeIsTold ==
    ASSUME NEW s, NEW av
    PROVE  \A p \in Partition : Told(Made, p, {}, s, av)
<1> DEFINE n == Len(FirstName)
           Good(c, m) == /\ Tidy(c, {}, NoPast) /\ Prompt(c)
                         /\ \A p \in Partition : IF p <= m THEN Told(c, p, {}, s,
                              av) ELSE Unmade(c, p)
<1>1. PICK made : MadeBy(made)
  BY MadeIs
<1>2. /\ n \in Nat /\ Made = made[n] /\ made[0] = NoObjects
      /\ \A i \in 1 .. n : made[i] = init(made[i - 1], i)
  BY <1>1 DEF MadeBy
<1> DEFINE Names == Name \cup {""}
<1>3. Partition = 1 .. n /\ \A p \in Partition : FirstName[p] \in Names
  <2> DEFINE S == Name \cup {""}
  <2>1. FirstName \in Seq(S)
    BY QmlAssumption
  <2> HIDE DEF S
  <2>2. Partition = 1 .. n /\ \A p \in Partition : FirstName[p] \in S
    BY <2>1, LenProperties, ElementOfSeq DEF Partition
  <2> QED  BY <2>2 DEF S
<1> HIDE DEF n, Names
<1>4. Good(NoObjects, 0)
  <2> DEFINE c == NoObjects
  <2>1. /\ c.queue = <<>> /\ c.wire = <<>> /\ c.watchers = {}
        /\ \A p \in Partition : c.partition[p].name = FirstName[p] /\ c.partition[p].state = "None"
    BY DEF NoObjects
  <2>2. Tidy(c, {}, NoPast)
    BY NoObjectsAreTidy
  <2> HIDE DEF c
  <2>3. Sent(c) = {} /\ Members(c.wire) = {}
    BY <2>1, NothingSent DEF Sent
  <2>4. Prompt(c)
    BY <2>3 DEF Prompt
  <2>5. \A p \in Partition : Unmade(c, p)
    BY <2>1, <2>3 DEF Unmade, Asks
  <2>6. \A p \in Partition : ~(p <= 0)
    BY <1>2, <1>3
  <2> QED  BY <2>2, <2>4, <2>5, <2>6 DEF c
<1>5. ASSUME NEW c, NEW o \in Partition, Good(c, o - 1)
      PROVE  Good(init(c, o), o)
  <2>1. Tidy(c, {}, NoPast) /\ Prompt(c) /\ Unmade(c, o)
    <3>1. ~(o <= o - 1)
      BY <1>2, <1>3
    <3> QED  BY <1>5, <3>1
  <2>2. Blank(c, o)
    BY <1>3, <2>1 DEF Blank, Unmade, Names
  <2>3. Told(init(c, o), o, {}, s, av)
    BY <2>1, <2>2, InitTold
  <2>4. Prompt(init(c, o))
    BY <2>3 DEF Told
  <2>5. Tidy(init(c, o), {}, NoPast)
    BY <2>1, TidyInit
  <2>6. ASSUME NEW p \in Partition, p # o
        PROVE  IF p <= o THEN Told(init(c, o), p, {}, s, av) ELSE Unmade(init(c, o), p)
    <3>1. Apart(c, init(c, o), p)
      BY <2>1, <2>6, InitApart
    <3>2. p <= o - 1 <=> p <= o
      BY <1>2, <1>3, <2>6
    <3>3. IF p <= o - 1 THEN Told(c, p, {}, s, av) ELSE Unmade(c, p)
      BY <1>5
    <3>4. CASE p <= o
      BY <3>1, <3>2, <3>3, <3>4, ToldApart
    <3>5. CASE ~(p <= o)
      BY <3>1, <3>2, <3>3, <3>5, UnmadeApart
    <3> QED  BY <3>4, <3>5
  <2>7. o <= o
    BY <1>2, <1>3
  <2> QED  BY <2>3, <2>4, <2>5, <2>6, <2>7
<1> HIDE DEF Good
<1> DEFINE S == {m \in Nat : m <= n => Good(made[m], m)}
<1>6. 0 \in S
  BY <1>2, <1>4
<1>7. ASSUME NEW m \in Nat, m \in S PROVE m + 1 \in S
  <2> SUFFICES ASSUME m + 1 <= n PROVE Good(made[m + 1], m + 1)
    OBVIOUS
  <2>1. m + 1 \in 1 .. n /\ (m + 1) - 1 = m /\ Good(made[m], m)
    BY <1>2, <1>7
  <2>2. made[m + 1] = init(made[m], m + 1)
    BY <1>2, <2>1
  <2>3. m + 1 \in Partition
    BY <1>3, <2>1
  <2>4. Good(init(made[m], m + 1), m + 1)
    BY <1>5, <2>1, <2>3
  <2> QED  BY <2>2, <2>4
<1> HIDE DEF S
<1>8. Nat \subseteq S
  BY <1>6, <1>7, SetInduction
<1>9. Good(Made, n)
  BY <1>2, <1>8 DEF S
<1> QED  BY <1>2, <1>3, <1>9 DEF Good

-----------------------------------------------------------------------------
(***************************************************************************)
(* Answers.                                                                *)
(***************************************************************************)
LEMMA QueueApart ==
    ASSUME NEW R, NEW V, NEW c, Tidy(c, R, V), NEW p
    PROVE  Apart(c, handleRequestQueue(c), p)
<1> DEFINE d == handleRequestQueue(c)
<1>1. /\ Sent(d) = Sent(c) /\ SameObjects(c, d) /\ d.watchers = c.watchers /\ d.exposed = c.exposed
  BY QueueInOrder DEF Tidy, Loose
<1>2. Prompt(c) => Prompt(d)
  BY QueuePrompt DEF Tidy, Loose
<1> HIDE DEF d
<1> QED  BY <1>1, <1>2 DEF Apart, Side, SameObjects, Asks, d

\* What remains when the head of the wire is read.
Remains(c, b) ==
    LET r == Head(c.wire)
    IN /\ Popped(c, b) /\ (b.current = c.current \/ r.id = c.current)
       /\ r \in Members(c.wire) /\ Members(b.wire) \subseteq Members(c.wire)
       /\ Sent(c) = Sent(b) \cup {r} /\ \A t \in Sent(b) : t.id # r.id

LEMMA ReadRemains ==
    ASSUME NEW R, NEW V, NEW c, Tidy(c, R, V), c.wire # <<>>, NEW b, Popped(c, b),
           b.current = c.current \/ Head(c.wire).id = c.current
    PROVE  Remains(c, b)
<1> DEFINE r == Head(c.wire)
<1>1. \A ok \in BOOLEAN :
        /\ r \in Sent(c) /\ r \in Members(c.wire)
        /\ Members(b.wire) \subseteq Members(c.wire)
        /\ \A t \in Sent(b) : t \in Sent(c) /\ t.id # r.id
  BY LoosePopped DEF Tidy
<1>2. Members(c.wire) = {r} \cup Members(b.wire)
  BY TailFacts DEF Tidy, Loose, Line, Popped
<1> HIDE DEF r
<1>3. Sent(c) = Sent(b) \cup {r}
  BY <1>2 DEF Sent, Popped
<1> QED  BY <1>1, <1>3 DEF Remains, r

LEMMA PromptRemains ==
    ASSUME NEW c, NEW b, Remains(c, b), Prompt(c)
    PROVE  Prompt(b)
<1> SUFFICES ASSUME NEW t \in Members(b.wire),
                    t.kind = "state" \/ (t.kind = "add" /\ t.watcher \in b.watchers)
             PROVE  t.id = b.current
  BY DEF Prompt
<1>1. b.watchers = c.watchers
  BY DEF Remains, Popped
<1>2. t \in Members(c.wire) /\ t \in Sent(b) /\ t.id # Head(c.wire).id
  BY DEF Remains, Sent
<1>3. t.id = c.current
  BY <1>1, <1>2 DEF Prompt
<1> QED  BY <1>2, <1>3 DEF Remains

LEMMA NamedRemains ==
    ASSUME NEW c, NEW b, Remains(c, b), NEW p, Named(c, p)
    PROVE  Named(b, p)
<1>1. b.partition = c.partition /\ b.watchers = c.watchers
  BY DEF Remains, Popped, SameObjects
<1>2. \A t : Asks(b, p, t) => Asks(c, p, t)
  BY DEF Remains, Asks
<1> QED  BY <1>1, <1>2 DEF Named

\* Of another request than its own for the state.
LEMMA ToldRemains ==
    ASSUME NEW R, NEW V, NEW c, Tidy(c, R, V), NEW b, Remains(c, b), NEW ok \in BOOLEAN,
           NEW p \in Partition, NEW s, NEW av, Told(c, p, R, s, av),
           ~Asks(c, p, Head(c.wire)),
           \A i \in DOMAIN s : s[i].watcher \in V.noticed,
           Head(c.wire).kind = "add" /\ ~ok => Head(c.wire).watcher.of = Notifier
    PROVE  Told(b, p, Listed(Head(c.wire), ok, R), s, av)
<1> DEFINE r == Head(c.wire)
           L == Listed(r, ok, R)
           w == c.partition[p].partitionWatcher
<1>1. Prompt(b) /\ Named(b, p)
  BY PromptRemains, NamedRemains DEF Told
<1>2. b.partition = c.partition /\ b.watchers = c.watchers
  BY DEF Remains, Popped, SameObjects
<1>3. r \in Sent(c) /\ Sent(c) = Sent(b) \cup {r}
  BY DEF Remains
<1>4. /\ r.kind = "add" /\ ok => L = R \cup {r.watcher}
      /\ r.kind = "remove" => L = R \ {r.watcher}
      /\ ~(r.kind = "add" /\ ok) /\ r.kind # "remove" => L = R
  BY ListedIs
<1>5. /\ ~Asks(c, p, r) /\ (r.kind = "add" /\ ~ok => r.watcher.of = Notifier)
      /\ \A i \in DOMAIN s : s[i].watcher \in V.noticed
  OBVIOUS
<1> HIDE DEF r, L
<1>6. \A t : Asks(b, p, t) <=> Asks(c, p, t)
  BY <1>3, <1>5 DEF Asks
<1>7. ASSUME c.partition[p].alive PROVE Hearkens(b, p) /\ Learns(b, p, L, s, av)
  <2>1. Hearkens(c, p) /\ Learns(c, p, R, s, av)
    BY <1>7 DEF Told
  <2>2. Hearkens(b, p)
    BY <1>2, <2>1 DEF Hearkens
  <2>3. w \in c.watchers /\ w.of # Notifier
    BY <2>1, NoPartitions DEF Hearkens
  <2>4. r.kind = "remove" => r.watcher # w
    BY <1>3, <2>3 DEF Tidy, Loose, Tagged
  <2>5. Expects(c, p) => Expects(b, p)
    BY <1>2, <1>6 DEF Expects
  <2>6. CASE w \in R
    <3>1. w \in L
      BY <1>4, <2>4, <2>6
    <3> QED  BY <1>2, <2>1, <2>2, <2>5, <2>6, <3>1 DEF Learns
  <2>7. CASE w \notin R
    <3>1. c.partition[p].state = "None" /\ Expects(b, p) /\ Registers(c, p)
      BY <2>1, <2>5, <2>7 DEF Learns
    <3>2. CASE r.kind = "add" /\ r.watcher = w
      <4>1. w \in L
        BY <1>4, <1>5, <2>3, <3>2
      <4>2. \A i \in DOMAIN s : s[i].watcher # w
        BY <1>5, <2>3, <2>7 DEF Tidy, Loose, Known
      <4>3. LastSays(s, w, av[Resolved(b.partition[p].name)])
        BY <4>2 DEF LastSays
      <4> QED  BY <1>2, <2>2, <3>1, <4>1, <4>3 DEF Learns
    <3>3. CASE ~(r.kind = "add" /\ r.watcher = w)
      <4>1. w \notin L
        BY <1>4, <2>7, <3>3
      <4>2. Registers(b, p)
        BY <1>2, <1>3, <3>1, <3>3 DEF Registers
      <4> QED  BY <1>2, <2>2, <3>1, <4>1, <4>2 DEF Learns
    <3> QED  BY <3>2, <3>3
  <2> QED  BY <2>6, <2>7
<1> QED  BY <1>1, <1>2, <1>7 DEF Told, r, L

\* A watcher is accepted before the question asked after it is answered.
LEMMA RegisteredFirst ==
    ASSUME NEW R, NEW V, NEW c, Tidy(c, R, V), Prompt(c), NEW p \in Partition, Hearkens(c, p),
           NEW r \in Members(c.wire), Asks(c, p, r), r.id > c.partition[p].partitionWatcher.id
    PROVE  ~Registers(c, p)
<1> DEFINE w == c.partition[p].partitionWatcher
<1> SUFFICES ASSUME NEW a \in Sent(c), a.kind = "add", a.watcher = w PROVE FALSE
  BY DEF Registers
<1>1. w \in c.watchers
  BY DEF Hearkens
<1>2. r.kind = "state" /\ r.id > w.id /\ r \in Sent(c)
  BY DEF Asks
<1> HIDE DEF w
<1>3. w.id = a.id /\ Internal(a)
  BY DEF Tidy, Loose, Tagged
<1>4. a.id \in Int /\ r.id \in Int
  BY <1>2, WaitingIsSent DEF Tidy, Loose
<1>5. CASE a \in Members(c.wire)
  <2>1. a.id = c.current /\ r.id = c.current
    BY <1>1, <1>2, <1>5 DEF Prompt
  <2> QED  BY <1>2, <1>3, <1>4, <2>1
<1>6. CASE a \in Members(c.queue)
  <2>1. r.id < a.id
    BY <1>3, <1>6 DEF Tidy, Loose, InOrder
  <2> QED  BY <1>2, <1>3, <1>4, <2>1
<1> QED  BY <1>5, <1>6 DEF Sent

\* An answer that it does not take.
LEMMA ToldUnmoved ==
    ASSUME NEW R, NEW V, NEW c, Tidy(c, R, V), NEW b, Remains(c, b), NEW p \in Partition,
           NEW s, NEW av, Told(c, p, R, s, av), Asks(c, p, Head(c.wire)),
           Resolved(Head(c.wire).name) = Resolved(c.partition[p].name)
               => ~c.partition[p].alive \/ av[Resolved(c.partition[p].name)] = "unknown"
    PROVE  Told(b, p, R, s, av)
<1> DEFINE r == Head(c.wire)
           w == c.partition[p].partitionWatcher
           found == av[Resolved(c.partition[p].name)]
<1>1. Prompt(b) /\ Named(b, p)
  BY PromptRemains, NamedRemains DEF Told
<1>2. b.partition = c.partition /\ b.watchers = c.watchers
  BY DEF Remains, Popped, SameObjects
<1>3. r \in Members(c.wire) /\ Sent(c) = Sent(b) \cup {r} /\ Asks(c, p, r)
  BY DEF Remains
<1>4. ASSUME c.partition[p].alive PROVE Hearkens(b, p) /\ Learns(b, p, R, s, av)
  <2>1. Hearkens(c, p) /\ Learns(c, p, R, s, av) /\ Prompt(c)
    BY <1>4 DEF Told
  <2>2. Hearkens(b, p)
    BY <1>2, <2>1 DEF Hearkens
  <2>3. Resolved(r.name) = Resolved(c.partition[p].name) => found = "unknown"
    BY <1>4
  <2> HIDE DEF r, found
  <2>4. \/ Expects(b, p)
        \/ ~Expects(c, p)
        \/ r.id > w.id /\ Resolved(r.name) = Resolved(c.partition[p].name)
    <3> SUFFICES ASSUME Expects(c, p) 
                 PROVE  \/ Expects(b, p)
                        \/ r.id > w.id /\ Resolved(r.name) = Resolved(c.partition[p].name)
      OBVIOUS
    <3>1. PICK t : Asks(c, p, t) /\ t.id > w.id /\ Resolved(t.name) = Resolved(c.partition[p].name)
      BY DEF Expects
    <3>2. CASE t = r
      BY <3>1, <3>2
    <3>3. CASE t # r
      <4>1. Asks(b, p, t)
        BY <1>3, <3>1, <3>3 DEF Asks
      <4> QED  BY <1>2, <3>1, <4>1 DEF Expects
    <3> QED  BY <3>2, <3>3
  <2>5. CASE w \in R
    <3>1. /\ LastSays(s, w, found)
          /\ Silent(s, w) => Match(c.partition[p].state, found)
                             \/ (c.partition[p].state = "None" /\ Expects(c, p))
      BY <2>1, <2>5 DEF Learns, found
    <3>2. c.partition[p].state = "None" /\ found = "unknown" => Match(c.partition[p].state, found)
      BY DEF Match
    <3>3. Silent(s, w) => Match(c.partition[p].state, found)
                          \/ (c.partition[p].state = "None" /\ Expects(b, p))
      BY <2>3, <2>4, <3>1, <3>2
    <3> QED  BY <1>2, <2>2, <2>5, <3>1, <3>3 DEF Learns, found
  <2>6. CASE w \notin R
    <3>1. c.partition[p].state = "None" /\ Expects(c, p) /\ Registers(c, p)
      BY <2>1, <2>6 DEF Learns
    <3>2. ~(r.id > w.id)
      BY <1>3, <2>1, <3>1, RegisteredFirst
    <3>3. Expects(b, p)
      BY <2>4, <3>1, <3>2
    <3>4. Registers(b, p)
      BY <1>2, <1>3, <3>1 DEF Registers, Asks
    <3> QED  BY <1>2, <2>2, <2>6, <3>1, <3>3, <3>4 DEF Learns
  <2> QED  BY <2>5, <2>6
<1> QED  BY <1>1, <1>2, <1>4 DEF Told

LEMMA MisledApart ==
    ASSUME NEW c, NEW d, NEW p, Apart(c, d, p), Misled(c)
    PROVE  Misled(d)
BY DEF Apart, Misled

LEMMA ResolvedIs ==
    /\ Default # "" /\ Resolved("") = Default
    /\ \A name : Resolved(name) # "" /\ Resolved(Resolved(name)) = Resolved(name)
BY QmlAssumption DEF Resolved

\* An answer that tells it its state.
LEMMA ToldTaken ==
    ASSUME NEW R, NEW V, NEW c, Tidy(c, R, V), NEW b, Remains(c, b), Tidy(b, R, V),
           NEW p \in Partition, NEW s, NEW av, Told(c, p, R, s, av), Asks(c, p, Head(c.wire)),
           c.partition[p].alive, ~\E t \in Pending(b) : t.kind = "state" /\ t.of = p,
           Resolved(Head(c.wire).name) = Resolved(c.partition[p].name),
           NEW found, found = av[Resolved(c.partition[p].name)], found # "unknown"
    PROVE  Told([b EXCEPT !.partition[p].state = found], p, R, s, av)
<1> DEFINE r == Head(c.wire)
           w == c.partition[p].partitionWatcher
           rec == [b.partition[p] EXCEPT !.state = found]
           f == [b.partition EXCEPT ![p] = rec]
           d == [b EXCEPT !.partition = f]
<1>1. Prompt(b) /\ Named(b, p)
  BY PromptRemains, NamedRemains DEF Told
<1>2. b.partition = c.partition /\ b.watchers = c.watchers
  BY DEF Remains, Popped, SameObjects
<1>3. /\ r \in Members(c.wire) /\ Sent(c) = Sent(b) \cup {r} /\ Asks(c, p, r)
      /\ Members(b.wire) \subseteq Members(c.wire) /\ \A t \in Sent(b) : t.id # r.id
  BY DEF Remains
<1>4. Hearkens(c, p) /\ Learns(c, p, R, s, av) /\ Prompt(c)
  BY DEF Told
<1>5. [b EXCEPT !.partition[p].state = found] = d
  OBVIOUS
<1>6. /\ f[p].state = found /\ f[p].name = c.partition[p].name /\ f[p].partitionWatcher = w
  BY <1>2 DEF Tidy, Loose, Formed, PartitionFields
<1> HIDE DEF r, f, w
<1>7. SameLine(b, d) /\ d.partition = f /\ d.watchers = b.watchers
  BY DEF Tidy, Loose, Formed, Shaped, Fields, SameLine
<1> HIDE DEF d
<1>8. Prompt(d) /\ Sent(d) = Sent(b)
  BY <1>1, <1>7 DEF Prompt, SameLine, Sent
<1>9. \A t : ~Asks(b, p, t)
  <2> SUFFICES ASSUME NEW t \in Sent(b), t.kind = "state", t.of = p PROVE FALSE
    BY DEF Asks
  <2>1. t \notin Members(b.queue)
    BY DEF Pending, Members
  <2>2. t \in Members(c.wire) /\ t.id # r.id
    BY <1>3, <2>1 DEF Sent
  <2>3. t.id = c.current /\ r.id = c.current
    BY <1>3, <1>4, <2>2 DEF Prompt, Asks
  <2> QED  BY <2>2, <2>3
<1>10. w \in R
  <2> SUFFICES ASSUME w \notin R PROVE FALSE
    OBVIOUS
  <2>1. Expects(c, p) /\ Registers(c, p)
    BY <1>4 DEF Learns, w
  <2>2. PICK t : Asks(c, p, t) /\ t.id > w.id
    BY <2>1 DEF Expects, w
  <2>3. t = r
    BY <1>3, <1>9, <2>2 DEF Asks
  <2> QED  BY <1>3, <1>4, <2>1, <2>2, <2>3, RegisteredFirst DEF w
<1>11. Named(d, p)
  <2>1. \A t : ~Asks(d, p, t)
    BY <1>8, <1>9 DEF Asks
  <2> QED  BY <1>1, <1>2, <1>6, <1>7, <2>1 DEF Named, w
<1>12. Hearkens(d, p)
  BY <1>2, <1>4, <1>6, <1>7 DEF Hearkens, w
<1>13. Learns(d, p, R, s, av)
  <2>1. LastSays(s, w, found)
    BY <1>4, <1>10 DEF Learns, w
  <2>2. Match(found, found)
    BY DEF Match
  <2> QED  BY <1>6, <1>7, <1>10, <2>1, <2>2 DEF Learns
<1> QED  BY <1>5, <1>8, <1>11, <1>12, <1>13 DEF Told

\* It learns its name.
LEMMA ToldNamed ==
    ASSUME NEW R, NEW c, Formed(c), NEW p \in Partition, NEW s, NEW av, Told(c, p, R, s, av),
           c.partition[p].name = ""
    PROVE  Told([c EXCEPT !.partition[p].name = Default], p, R, s, av)
<1> DEFINE w == c.partition[p].partitionWatcher
           rec == [c.partition[p] EXCEPT !.name = Default]
           f == [c.partition EXCEPT ![p] = rec]
           d == [c EXCEPT !.partition = f]
<1>1. [c EXCEPT !.partition[p].name = Default] = d
  OBVIOUS
<1>2. /\ f[p].state = c.partition[p].state /\ f[p].name = Default /\ f[p].partitionWatcher = w
      /\ f[p].alive = c.partition[p].alive
  BY DEF Formed, PartitionFields
<1>3. Resolved(c.partition[p].name) = Resolved(Default) /\ Default # "" /\ Default \in Name
  BY ResolvedIs, QmlAssumption
<1> HIDE DEF f, w
<1>4. SameLine(c, d) /\ d.partition = f /\ d.watchers = c.watchers
  BY DEF Formed, Shaped, Fields, SameLine
<1> HIDE DEF d
<1>5. Prompt(d) /\ Sent(d) = Sent(c)
  BY <1>4 DEF Prompt, SameLine, Sent, Told
<1>6. Named(d, p)
  BY <1>2, <1>3, <1>4 DEF Named, Told, w
<1>7. ASSUME c.partition[p].alive PROVE Hearkens(d, p) /\ Learns(d, p, R, s, av)
  <2>1. Hearkens(c, p) /\ Learns(c, p, R, s, av)
    BY <1>7 DEF Told
  <2>2. Hearkens(d, p)
    BY <1>2, <1>3, <1>4, <2>1 DEF Hearkens, w
  <2>3. Expects(c, p) => Expects(d, p)
    BY <1>2, <1>3, <1>4, <1>5 DEF Expects, Asks, w
  <2>4. Registers(c, p) => Registers(d, p)
    BY <1>2, <1>4, <1>5 DEF Registers, w
  <2>5. Learns(d, p, R, s, av)
    BY <1>2, <1>3, <1>4, <2>1, <2>3, <2>4 DEF Learns, w
  <2> QED  BY <2>2, <2>5
<1> QED  BY <1>1, <1>2, <1>4, <1>5, <1>6, <1>7 DEF Told

LEMMA PartitionQueryFinishedTold ==
    ASSUME NEW R, NEW V, NEW c, Tidy(c, R, V), NEW b, Remains(c, b), Tidy(b, R, V),
           NEW p \in Partition, NEW s, NEW av, Told(c, p, R, s, av), Asks(c, p, Head(c.wire)),
           NEW name, name = Resolved(Head(c.wire).name)
    PROVE  LET d == partitionQueryFinished(b, p, name, av[name])
           IN Misled(d) \/ Told(d, p, R, s, av)
<1> DEFINE o == c.partition[p]
           found == av[name]
           taken == [b EXCEPT !.partition[p].state = found]
           asked == \E r \in Pending(b) : r.kind = "state" /\ r.of = p
           known == IF asked THEN Exposed(taken, "outdated") ELSE taken
           given == [known EXCEPT !.partition[p].name = name]
           named == nameChanged(given, p)
           d == partitionQueryFinished(b, p, name, found)
<1>1. b.partition = c.partition
  BY DEF Remains, Popped, SameObjects
<1>2. name # "" /\ Resolved(name) = name /\ Resolved("") = Default
  BY ResolvedIs
<1>3. o.name = "" => name = Default
  BY DEF Told, Named
<1>4. CASE ~o.alive \/ found = "unknown" \/ o.name \notin {"", name}
  <2>1. d = b
    BY <1>1, <1>4 DEF partitionQueryFinished, OwnName
  <2>2. Resolved(Head(c.wire).name) = Resolved(o.name)
          => ~o.alive \/ av[Resolved(o.name)] = "unknown"
    <3>1. ASSUME name = Resolved(o.name), o.name \notin {"", name} PROVE FALSE
      BY <3>1 DEF Resolved
    <3> QED  BY <1>4, <3>1
  <2>3. Told(b, p, R, s, av)
    BY <2>2, ToldUnmoved
  <2> QED  BY <2>1, <2>3
<1>5. CASE o.alive /\ found # "unknown" /\ o.name \in {"", name}
  <2>1. /\ o.name = "" => d \in {named, Exposed(named, "renamed")}
        /\ o.name # "" => d = known
    <3>1. b.partition[p].alive /\ found # "unknown" /\ OwnName(b, p, name)
      BY <1>1, <1>5 DEF OwnName
    <3>2. ASSUME o.name = "" PROVE d \in {named, Exposed(named, "renamed")}
      <4>1. b.partition[p].name = ""
        BY <1>1, <3>2
      <4> QED  BY <3>1, <4>1 DEF partitionQueryFinished
    <3>3. ASSUME o.name # "" PROVE d = known
      <4>1. b.partition[p].name # ""
        BY <1>1, <3>3
      <4> QED  BY <3>1, <4>1 DEF partitionQueryFinished
    <3> QED  BY <3>2, <3>3
  <2> HIDE DEF d
  <2>2. name = Resolved(o.name)
    BY <1>2, <1>3, <1>5
  <2>3. Tidy(taken, R, V)
    BY TidyState
  <2>4. asked => Misled(known)
    <3>1. Misled(Exposed(taken, "outdated"))
      BY <2>3, ExposedApart DEF Tidy, Loose, Misled
    <3> QED  BY <3>1
  <2>5. ~asked => Told(known, p, R, s, av)
    BY <1>5, <2>2, ToldTaken
  <2>6. Tidy(known, R, V)
    <3>1. Tidy(Exposed(taken, "outdated"), R, V)
      BY <2>3, TidyExposed
    <3> QED  BY <2>3, <3>1
  <2>7. known.partition[p].name = o.name
    <3>1. taken.partition[p].name = o.name
      BY <1>1 DEF Tidy, Loose, Formed, Shaped, Fields, PartitionFields
    <3> HIDE DEF taken
    <3>2. Exposed(taken, "outdated").partition = taken.partition
      BY <2>3, ExposedApart DEF Tidy, Loose, Formed, Shaped, Fields, Exposed
    <3> QED  BY <3>1, <3>2
  <2>8. CASE o.name # ""
    <3>1. d = known
      BY <2>1, <2>8
    <3> HIDE DEF known, asked
    <3> QED  BY <2>4, <2>5, <3>1 DEF d
  <2>9. CASE o.name = ""
    <3>1. given = [known EXCEPT !.partition[p].name = Default]
      BY <1>3, <2>9
    <3>2. Formed(known) /\ DOMAIN known = Fields
      BY <2>6 DEF Tidy, Loose, Formed, Shaped
    <3> HIDE DEF known, taken, asked
    <3>3. Tidy(given, R, V)
      BY <2>6, TidyState
    <3>4. Misled(known) => Misled(given)
      BY <3>2 DEF Misled, Fields
    <3>5. Told(known, p, R, s, av) => Told(given, p, R, s, av)
      <4>1. known.partition[p].name = ""
        BY <2>7, <2>9
      <4> HIDE DEF given
      <4> QED  BY <3>1, <3>2, <4>1, ToldNamed
    <3>6. Misled(given) \/ Told(given, p, R, s, av)
      BY <2>4, <2>5, <2>6, <3>4, <3>5
    <3> HIDE DEF given
    <3>7. Tidy(named, R, V) /\ Apart(given, named, p)
      BY <3>3, TidyNameChanged, NameChangedApart
    <3> HIDE DEF named
    <3>8. Apart(named, Exposed(named, "renamed"), p)
      BY <3>7, ExposedApart DEF Tidy, Loose
    <3>9. d = named \/ d = Exposed(named, "renamed")
      BY <2>1, <2>9
    <3>10. Apart(given, d, p)
      BY <3>7, <3>8, <3>9, ApartNext
    <3> QED  BY <3>6, <3>10, ToldApart, MisledApart DEF d
  <2> QED  BY <2>8, <2>9
<1> QED  BY <1>4, <1>5

LEMMA PartitionQueryErrorTold ==
    ASSUME NEW R, NEW V, NEW c, Tidy(c, R, V), NEW b, Remains(c, b), Tidy(b, R, V),
           NEW p \in Partition, NEW s, NEW av, Told(c, p, R, s, av), Asks(c, p, Head(c.wire))
    PROVE  LET d == partitionQueryError(b, p) IN Misled(d) \/ Told(d, p, R, s, av)
<1> DEFINE e == [b EXCEPT !.partition[p].state = "Error"]
           d == partitionQueryError(b, p)
<1>1. b.partition = c.partition
  BY DEF Remains, Popped, SameObjects
<1>2. CASE c.partition[p].alive
  <2>1. d = Exposed(e, "refused")
    BY <1>1, <1>2 DEF partitionQueryError
  <2>2. Tidy(e, R, V)
    BY TidyState
  <2> HIDE DEF e
  <2>3. Misled(Exposed(e, "refused"))
    BY <2>2, ExposedApart DEF Tidy, Loose, Misled
  <2> QED  BY <2>1, <2>3
<1>3. CASE ~c.partition[p].alive
  <2>1. d = b
    BY <1>1, <1>3 DEF partitionQueryError
  <2> QED  BY <1>3, <2>1, ToldUnmoved
<1> QED  BY <1>2, <1>3

\* An answer to another request.
LEMMA HandledApart ==
    ASSUME NEW R, NEW V, NEW c, Formed(c), NEW p \in Partition, NEW r, NEW ok \in BOOLEAN,
           ~(r.kind = "remove" /\ ok) => Tidy(c, R, V), ~(r.kind = "state" /\ r.of = p)
    PROVE  Apart(c, Handled(c, r, ok), p)
<1>1. CASE r.kind \in {"write", "find"}
  BY <1>1, HandledIs, CalledBackApart
<1>2. CASE r.kind = "query"
  <2> DEFINE d == [c EXCEPT !.query.status = IF ok THEN "Ready" ELSE "Error"]
  <2>1. Handled(c, r, ok) \in {c, d}
    BY <1>2, HandledIs
  <2>2. \A field \in Fields \ CallbackFields : d[field] = c[field]
    BY DEF Formed, Shaped, Fields, CallbackFields
  <2> HIDE DEF d
  <2>3. Apart(c, d, p)
    BY <2>2, CallbacksApart
  <2> QED  BY <2>1, <2>3, ApartNext
<1>3. CASE r.kind = "add" /\ r.watcher \in c.watchers
  <2>1. \E status : Handled(c, r, ok) = StatusOf(c, r.watcher, status)
    BY <1>3 DEF Handled
  <2> QED  BY <2>1, StatusApart
<1>4. CASE r.kind = "remove" /\ ok
  <2>1. Handled(c, r, ok) = StatusOf(c, r.watcher, "Null")
    BY <1>4 DEF Handled
  <2> QED  BY <2>1, StatusApart
<1>5. CASE r.kind = "state" /\ ok
  <2>1. \E name, found : Handled(c, r, ok) = partitionQueryFinished(c, r.of, name, found)
    BY <1>5 DEF Handled
  <2> QED  BY <1>5, <2>1, PartitionQueryFinishedApart
<1>6. CASE r.kind = "state" /\ ~ok
  <2>1. Handled(c, r, ok) = partitionQueryError(c, r.of)
    BY <1>6 DEF Handled
  <2> QED  BY <1>6, <2>1, PartitionQueryErrorApart
<1>7. CASE /\ ~(r.kind = "add" /\ r.watcher \in c.watchers) /\ ~(r.kind = "remove" /\ ok)
           /\ r.kind \notin {"write", "find", "query", "state"}
  <2>1. Handled(c, r, ok) = c
    BY <1>7 DEF Handled
  <2> QED  BY <2>1, ApartNext
<1> QED  BY <1>1, <1>2, <1>3, <1>4, <1>5, <1>6, <1>7

LEMMA AnsweredTold ==
    ASSUME NEW R, NEW V, NEW c, Tidy(c, R, V), c.wire # <<>>, NEW ok \in BOOLEAN,
           Head(c.wire).kind = "remove" /\ ~ok => Head(c.wire).watcher \notin R \ V.forgotten,
           Head(c.wire).kind = "add" /\ ~ok => Head(c.wire).watcher.of = Notifier,
           NEW p \in Partition, NEW s, \A i \in DOMAIN s : s[i].watcher \in V.noticed,
           Told(c, p, R, s, available)
    PROVE  LET d == Answered(c, Head(c.wire), ok)
           IN Misled(d) \/ Told(d, p, Listed(Head(c.wire), ok, R), s, available)
<1> DEFINE r == Head(c.wire)
           L == Listed(r, ok, R)
           read == [c EXCEPT !.wire = Tail(@)]
           e == [read EXCEPT !.current = None]
           h == Handled(e, r, ok)
           d == Answered(c, r, ok)
<1>1. d = IF r.id = c.current THEN handleRequestQueue(h) ELSE handleRequestQueue(read)
  BY DEF Answered
<1>2. /\ Popped(c, read) /\ Popped(c, e) /\ r \in Members(c.wire)
      /\ r.id # c.current => Tidy(read, L, V)
      /\ r.id = c.current /\ ~(r.kind = "remove" /\ ok) => Tidy(e, L, V)
      /\ r.id = c.current => Tidy(h, L, V)
  BY TidyRead
<1>3. read.current = c.current
  BY DEF Tidy, Loose, Formed, Shaped, Fields
<1>4. r \in Sent(c)
  BY <1>2 DEF Sent
<1>5. r.kind = "state" => L = R
  BY ListedIs
<1> HIDE DEF read, e, h, d, L
<1>6. CASE r.id # c.current
  <2>1. Remains(c, read)
    BY <1>2, <1>3, ReadRemains
  <2>2. ~Asks(c, p, r)
    BY <1>2, <1>6 DEF Told, Prompt, Asks
  <2>3. Told(read, p, L, s, available)
    BY <2>1, <2>2, ToldRemains DEF L
  <2>4. Apart(read, handleRequestQueue(read), p)
    BY <1>2, <1>6, QueueApart
  <2>5. Told(handleRequestQueue(read), p, L, s, available)
    BY <2>3, <2>4, ToldApart
  <2> QED  BY <1>1, <1>6, <2>5 DEF d, L
<1>7. CASE r.id = c.current
  <2>1. Remains(c, e)
    BY <1>2, <1>7, ReadRemains
  <2>2. Misled(h) \/ Told(h, p, L, s, available)
    <3>1. CASE ~Asks(c, p, r)
      <4>1. Told(e, p, L, s, available)
        BY <2>1, <3>1, ToldRemains DEF L
      <4>2. ~(r.kind = "state" /\ r.of = p)
        BY <1>4, <3>1 DEF Asks
      <4>3. Apart(e, h, p)
        <5>1. Formed(e)
          BY <1>2 DEF Popped
        <5> HIDE DEF r
        <5> QED  BY <1>2, <1>7, <4>2, <5>1, HandledApart DEF h
      <4> QED  BY <4>1, <4>3, ToldApart
    <3>2. CASE Asks(c, p, r)
      <4>1. r.kind = "state" /\ r.of = p /\ L = R
        BY <1>5, <3>2 DEF Asks
      <4>2. Tidy(e, R, V)
        BY <1>2, <1>7, <4>1
      <4>3. CASE ok
        <5>1. h = partitionQueryFinished(e, p, Resolved(r.name), available[Resolved(r.name)])
          BY <4>1, <4>3 DEF h, Handled
        <5> QED  BY <2>1, <3>2, <4>1, <4>2, <5>1, PartitionQueryFinishedTold
      <4>4. CASE ~ok
        <5>1. h = partitionQueryError(e, p)
          BY <4>1, <4>4 DEF h, Handled
        <5> QED  BY <2>1, <3>2, <4>1, <4>2, <5>1, PartitionQueryErrorTold
      <4> QED  BY <4>3, <4>4
    <3> QED  BY <3>1, <3>2
  <2>3. Apart(h, handleRequestQueue(h), p)
    BY <1>2, <1>7, QueueApart
  <2>4. \/ Misled(handleRequestQueue(h))
        \/ Told(handleRequestQueue(h), p, L, s, available)
    BY <2>2, <2>3, ToldApart, MisledApart
  <2> QED  BY <1>1, <1>7, <2>4 DEF d, L
<1> QED  BY <1>6, <1>7

-----------------------------------------------------------------------------
(***************************************************************************)
(* Notifications.                                                          *)
(***************************************************************************)
LEMMA SaysTail ==
    ASSUME NEW s, IsSeq(s), s # <<>>, NEW w, NEW v, LastSays(s, w, v)
    PROVE  /\ LastSays(Tail(s), w, v)
           /\ Silent(Tail(s), w) => IF Head(s).watcher = w THEN Head(s).event = v ELSE Silent(s, w)
           /\ \A i \in DOMAIN Tail(s) : \E j \in DOMAIN s : Tail(s)[i] = s[j]
<1> DEFINE t == Tail(s)
           n == Len(s)
<1>1. /\ n \in Nat /\ n > 0 /\ DOMAIN s = 1 .. n /\ Head(s) = s[1]
      /\ DOMAIN t = 1 .. n - 1 /\ \A i \in 1 .. n - 1 : t[i] = s[i + 1]
  <2>1. s \in Seq(Members(s))
    BY DEF IsSeq
  <2>2. n \in Nat /\ DOMAIN s = 1 .. n /\ n > 0
    BY <2>1, LenProperties, EmptySeq
  <2>3. Len(t) = n - 1 /\ (\A i \in 1 .. Len(t) : t[i] = s[i + 1]) /\ t \in Seq(Members(s))
    BY <2>1, HeadTailProperties
  <2>4. DOMAIN t = 1 .. n - 1
    BY <2>3, LenProperties
  <2> QED  BY <2>1, <2>2, <2>3, <2>4, HeadTailProperties
<1> HIDE DEF t, n
<1>2. \A i \in 1 .. n - 1 : i + 1 \in 1 .. n
  BY <1>1
<1>3. \A j \in 1 .. n : j = 1 \/ (j - 1 \in 1 .. n - 1 /\ t[j - 1] = s[j])
  <2> SUFFICES ASSUME NEW j \in 1 .. n, j # 1 PROVE j - 1 \in 1 .. n - 1 /\ t[j - 1] = s[j]
    OBVIOUS
  <2>1. j - 1 \in 1 .. n - 1 /\ (j - 1) + 1 = j
    BY <1>1
  <2> QED  BY <1>1, <2>1
<1>4. LastSays(t, w, v)
  <2> SUFFICES ASSUME NEW i \in 1 .. n - 1, t[i].watcher = w,
                      \A j \in 1 .. n - 1 : j > i => t[j].watcher # w
               PROVE  t[i].event = v
    BY <1>1 DEF LastSays
  <2>1. s[i + 1].watcher = w /\ i + 1 \in DOMAIN s
    BY <1>1, <1>2
  <2>2. ASSUME NEW j \in DOMAIN s, j > i + 1 PROVE s[j].watcher # w
    <3>1. j # 1 /\ j \in 1 .. n
      BY <1>1, <2>2
    <3>2. j - 1 \in 1 .. n - 1 /\ t[j - 1] = s[j]
      BY <1>3, <3>1
    <3>3. j - 1 > i
      BY <1>1, <2>2
    <3> QED  BY <3>2, <3>3
  <2>3. s[i + 1].event = v
    BY <2>1, <2>2 DEF LastSays
  <2> QED  BY <1>1, <2>3
<1>5. ASSUME Silent(t, w) PROVE IF Head(s).watcher = w THEN Head(s).event = v ELSE Silent(s, w)
  <2>1. \A j \in 1 .. n : j # 1 => s[j].watcher # w
    BY <1>1, <1>3, <1>5 DEF Silent
  <2>2. CASE Head(s).watcher = w
    <3>1. 1 \in DOMAIN s /\ \A j \in DOMAIN s : j > 1 => s[j].watcher # w
      BY <1>1, <2>1
    <3> QED  BY <1>1, <2>2, <3>1 DEF LastSays
  <2>3. CASE Head(s).watcher # w
    BY <1>1, <2>1, <2>3 DEF Silent
  <2> QED  BY <2>2, <2>3
<1>6. \A i \in DOMAIN t : \E j \in DOMAIN s : t[i] = s[j]
  BY <1>1, <1>2
<1> QED  BY <1>4, <1>5, <1>6 DEF t

LEMMA SaysNotified ==
    ASSUME NEW W, IsFiniteSet(W), IsSeq(events), NEW event, events' = Notified(W, event),
           NEW w, NEW v, LastSays(events, w, v)
    PROVE  IF w \in W THEN LastSays(events', w, event) /\ ~Silent(events', w)
           ELSE LastSays(events', w, v) /\ (Silent(events', w) => Silent(events, w))
<1> DEFINE T == {[watcher |-> u, event |-> event] : u \in W}
           m == Len(events)
           k == Cardinality(T)
           u == SetToSeq(T)
           t == events \o u
           S == Members(events) \cup T
<1>1. IsFiniteSet(T)
  <2> DEFINE f == [a \in W |-> [watcher |-> a, event |-> event]]
  <2>1. f \in Surjection(W, T)
    BY DEF Surjection
  <2> HIDE DEF f, T
  <2> QED  BY <2>1, FS_Surjection
<1>2. events' = t
  BY DEF Notified
<1>3. /\ \A a \in T : a.watcher \in W /\ a.event = event
      /\ \A a \in W : \E b \in T : b.watcher = a
  <2>1. \A a \in W : [watcher |-> a, event |-> event] \in T
          /\ [watcher |-> a, event |-> event].watcher = a
    OBVIOUS
  <2>2. \A a \in T : a.watcher \in W /\ a.event = event
    OBVIOUS
  <2> HIDE DEF T
  <2> QED  BY <2>1, <2>2
<1> HIDE DEF T
<1>4. k \in Nat /\ u \in Bijection(1 .. k, T) /\ u \in Seq(T)
  BY <1>1, SetToSeqCovers, SetToSeqFacts
<1>5. m \in Nat /\ DOMAIN events = 1 .. m /\ events \in Seq(Members(events))
  BY LenProperties DEF IsSeq
<1> HIDE DEF u
<1>6. events \in Seq(S) /\ u \in Seq(S)
  <2>1. Members(events) \subseteq S /\ T \subseteq S
    OBVIOUS
  <2> HIDE DEF S
  <2> QED  BY <1>4, <1>5, <2>1, SeqMonotonic
<1>7. /\ Len(u) = k /\ \A i \in 1 .. k : u[i] \in T
      /\ \A a \in T : \E i \in 1 .. k : u[i] = a
  <2>1. u \in [1 .. k -> T]
    BY <1>4 DEF Bijection, Injection
  <2>2. Len(u) \in Nat /\ DOMAIN u = 1 .. Len(u)
    BY <1>4, LenProperties
  <2>3. Len(u) = k
    BY <1>4, <2>1, <2>2
  <2>4. \A a \in T : \E i \in 1 .. k : u[i] = a
    BY <1>4 DEF Bijection, Surjection
  <2> QED  BY <2>1, <2>3, <2>4
<1> HIDE DEF S, k
<1>8. /\ DOMAIN t = 1 .. m + k
      /\ \A i \in 1 .. m + k : t[i] = IF i <= m THEN events[i] ELSE u[i - m]
  <2>1. t \in Seq(S) /\ Len(t) = Len(events) + Len(u)
    BY <1>6, ConcatProperties
  <2>2. Len(t) = m + k
    BY <1>7, <2>1
  <2>3. \A i \in 1 .. m + k : t[i] = IF i <= m THEN events[i] ELSE u[i - m]
    BY <1>6, <1>7, ConcatProperties
  <2> QED  BY <2>1, <2>2, <2>3, LenProperties
<1> HIDE DEF t, m
<1>9. k \in Nat
  BY <1>4 DEF k
<1>10. \A i \in 1 .. m : i \in 1 .. m + k /\ t[i] = events[i]
  <2>1. \A i \in 1 .. m : i \in 1 .. m + k /\ i <= m
    BY <1>5, <1>9
  <2> QED  BY <1>8, <2>1
<1>11. \A i \in 1 .. m + k : i > m => i - m \in 1 .. k /\ t[i] = u[i - m] /\ t[i] \in T
  <2> SUFFICES ASSUME NEW i \in 1 .. m + k, i > m
               PROVE  i - m \in 1 .. k /\ t[i] = u[i - m] /\ t[i] \in T
    OBVIOUS
  <2>1. i - m \in 1 .. k /\ ~(i <= m)
    BY <1>5, <1>9
  <2> QED  BY <1>7, <1>8, <2>1
<1>12. \A j \in 1 .. k : m + j \in 1 .. m + k /\ t[m + j] = u[j]
  <2> SUFFICES ASSUME NEW j \in 1 .. k PROVE m + j \in 1 .. m + k /\ t[m + j] = u[j]
    OBVIOUS
  <2>1. m + j \in 1 .. m + k /\ ~(m + j <= m) /\ (m + j) - m = j
    BY <1>5, <1>9
  <2> QED  BY <1>8, <2>1
<1>13. \A i \in 1 .. m + k : i > m \/ i \in 1 .. m
  BY <1>5, <1>9
<1>14. CASE w \in W
  <2>1. PICK a \in T : a.watcher = w
    BY <1>3, <1>14
  <2>2. PICK j \in 1 .. k : u[j] = a
    BY <1>7
  <2>3. m + j \in 1 .. m + k /\ t[m + j].watcher = w /\ m + j > m
    <3>1. m + j > m
      BY <1>5, <1>9
    <3> QED  BY <1>12, <2>1, <2>2, <3>1
  <2>4. ~Silent(t, w)
    BY <1>8, <2>3 DEF Silent
  <2>5. LastSays(t, w, event)
    <3> SUFFICES ASSUME NEW i \in 1 .. m + k, t[i].watcher = w,
                        \A l \in 1 .. m + k : l > i => t[l].watcher # w
                 PROVE  t[i].event = event
      BY <1>8 DEF LastSays
    <3>1. ~(m + j > i)
      BY <2>3
    <3>2. i > m
      BY <1>5, <1>9, <2>3, <3>1
    <3> QED  BY <1>3, <1>11, <3>2
  <2> QED  BY <1>2, <1>14, <2>4, <2>5
<1>15. CASE w \notin W
  <2>1. \A i \in 1 .. m + k : i > m => t[i].watcher # w
    BY <1>3, <1>11, <1>15
  <2>2. LastSays(t, w, v)
    <3> SUFFICES ASSUME NEW i \in 1 .. m + k, t[i].watcher = w,
                        \A l \in 1 .. m + k : l > i => t[l].watcher # w
                 PROVE  t[i].event = v
      BY <1>8 DEF LastSays
    <3>1. i \in 1 .. m
      BY <1>13, <2>1
    <3>2. \A l \in 1 .. m : l > i => events[l].watcher # w
      BY <1>10
    <3>3. events[i].watcher = w
      BY <1>10, <3>1
    <3>4. events[i].event = v
      BY <1>5, <3>1, <3>2, <3>3 DEF LastSays
    <3> QED  BY <1>10, <3>1, <3>4
  <2>3. Silent(t, w) => Silent(events, w)
    BY <1>5, <1>8, <1>10 DEF Silent
  <2> QED  BY <1>2, <1>15, <2>2, <2>3
<1> QED  BY <1>14, <1>15

-----------------------------------------------------------------------------
(***************************************************************************)
(* The invariant: what a partition object was told is the state, or it     *)
(* will be told.                                                           *)
(***************************************************************************)
LEMMA StatesAtFirst ==
    ASSUME Init
    PROVE  StatesAreTold
<1>1. Registrations
  BY RegistrationsAtFirst
<1>2. DOMAIN available = Name /\ accepted = {}
  BY DEF Init
<1>3. ASSUME NEW p \in Partition PROVE Told(x, p, {}, events, available)
  <2>1. Told(Made, p, {}, events, available)
    BY MadeIsTold
  <2>2. CASE x = Made
    BY <2>1, <2>2
  <2>3. CASE \E o \in Partition, query \in Query : x = createNotification(Made, o, query)
    <3>1. PICK o, query : x = createNotification(Made, o, query)
      BY <2>3
    <3>2. Tidy(Made, {}, NoPast) /\ ~Made.notify.alive
      BY MadeIsTidy
    <3>3. Apart(Made, createNotification(Made, o, query), p)
      BY <3>2, CreateNotificationApart
    <3> QED  BY <2>1, <3>1, <3>3, ToldApart
  <2> QED  BY <2>2, <2>3 DEF Init
<1> QED  BY <1>1, <1>2, <1>3 DEF StatesAreTold

LEMMA StatesCall ==
    ASSUME StatesAreTold, Registrations', NEW c, Call(c),
           \A p \in Partition : Told(c, p, accepted, events, available)
    PROVE  StatesAreTold'
<1>1. /\ x' = c /\ accepted' = accepted /\ events' = events /\ available' = available
  BY DEF Call, Becomes
<1>2. DOMAIN available' = Name
  BY <1>1 DEF StatesAreTold
<1>3. \A p \in Partition : Told(x', p, accepted', events', available')
  BY <1>1
<1> QED  BY <1>2, <1>3 DEF StatesAreTold

\* A call that leaves the partition objects to themselves.
LEMMA StatesApart ==
    ASSUME StatesAreTold, Registrations', NEW c, Call(c), \A p \in Partition : Apart(x, c, p)
    PROVE  StatesAreTold'
<1>1. \A p \in Partition : Told(c, p, accepted, events, available)
  BY ToldApart DEF StatesAreTold
<1> QED  BY <1>1, StatesCall

LEMMA StatesPartitionCall ==
    ASSUME StatesAreTold, PartitionCall
    PROVE  StatesAreTold'
<1> DEFINE R == accepted
           V == Past
<1>1. PICK o \in Partition :
        /\ Alive(o)
        /\ \/ \E name \in Name : Call(setName(x, o, name))
           \/ \E callback \in BOOLEAN : Call(Write(x, o, callback))
           \/ \E query \in Query \cup {""}, callback \in BOOLEAN : Call(find(x, o, query, callback))
           \/ \E query \in Query : ~x.notify.alive /\ Call(createNotification(x, o, query))
           \/ Call(createQuery(x, o))
           \/ Call(DeletePartition(x, o))
  BY Zenon DEF PartitionCall, create, update, remove
<1>2. Tidy(x, R, V) /\ Registrations'
  BY RegistrationsPartitionCall DEF StatesAreTold, Registrations
<1>3. \A p \in Partition : Told(x, p, R, events, available)
  BY DEF StatesAreTold
<1>4. \A p \in Partition : o # p => x.partition[o].partitionWatcher.of # p
  BY <1>1, <1>3 DEF Alive, Told, Hearkens
<1> HIDE DEF R, V
<1>5. ASSUME NEW name \in Name, Call(setName(x, o, name)) PROVE StatesAreTold'
  <2>1. ASSUME NEW p \in Partition PROVE Told(setName(x, o, name), p, R, events, available)
    <3>1. CASE p = o
      BY <1>2, <1>3, <3>1, SetNameTold
    <3>2. CASE p # o
      <4>1. Apart(x, setName(x, o, name), p)
        BY <1>2, <1>4, <3>2, SetNameApart
      <4> QED  BY <1>3, <4>1, ToldApart
    <3> QED  BY <3>1, <3>2
  <2> QED  BY <1>2, <1>5, <2>1, StatesCall DEF R
<1>6. ASSUME NEW callback, Call(Write(x, o, callback)) PROVE StatesAreTold'
  <2>1. \A p \in Partition : Apart(x, Write(x, o, callback), p)
    BY <1>2, WriteApart
  <2> QED  BY <1>2, <1>6, <2>1, StatesApart
<1>7. ASSUME NEW query, NEW callback, Call(find(x, o, query, callback)) PROVE StatesAreTold'
  <2>1. \A p \in Partition : Apart(x, find(x, o, query, callback), p)
    BY <1>2, FindApart
  <2> QED  BY <1>2, <1>7, <2>1, StatesApart
<1>8. ASSUME NEW query, ~x.notify.alive, Call(createNotification(x, o, query)) PROVE StatesAreTold'
  <2>1. \A p \in Partition : Apart(x, createNotification(x, o, query), p)
    BY <1>2, <1>8, CreateNotificationApart
  <2> QED  BY <1>2, <1>8, <2>1, StatesApart
<1>9. CASE Call(createQuery(x, o))
  <2>1. \A p \in Partition : Apart(x, createQuery(x, o), p)
    BY <1>2, CreateQueryApart
  <2> QED  BY <1>2, <1>9, <2>1, StatesApart
<1>10. CASE Call(DeletePartition(x, o))
  <2>1. ASSUME NEW p \in Partition PROVE Told(DeletePartition(x, o), p, R, events, available)
    <3>1. CASE p = o
      BY <1>2, <1>3, <3>1, DeletePartitionTold
    <3>2. CASE p # o
      <4>1. Apart(x, DeletePartition(x, o), p)
        BY <1>2, <1>4, <3>2, DeletePartitionApart
      <4> QED  BY <1>3, <4>1, ToldApart
    <3> QED  BY <3>1, <3>2
  <2> QED  BY <1>2, <1>10, <2>1, StatesCall DEF R
<1> QED  BY <1>1, <1>5, <1>6, <1>7, <1>8, <1>9, <1>10, Zenon

LEMMA StatesNotifyCall ==
    ASSUME StatesAreTold, NotifyCall
    PROVE  StatesAreTold'
<1> DEFINE R == accepted
           V == Past
<1>1. \/ \E query : Call(initNotify([x EXCEPT !.notify.query = query]))
      \/ \E actions : Call(initNotify([x EXCEPT !.notify.actions = actions]))
      \/ \E p : Call(setPartition(x, p))
      \/ \E enabled : Call(setEnabled(x, enabled))
      \/ Call(DeleteNotify(x))
  BY Zenon DEF NotifyCall
<1>2. Tidy(x, R, V) /\ x.notify.alive /\ DOMAIN x.notify = NotifyFields
  BY DEF StatesAreTold, Registrations, NotifyCall, Tidy, Loose, Formed
<1>3. Registrations'
  BY RegistrationsNotifyCall DEF StatesAreTold
<1> HIDE DEF R, V
<1>4. ASSUME NEW n, n.watcher = x.notify.watcher, n.alive = x.notify.alive,
               n.status = x.notify.status,
             DOMAIN n = NotifyFields, Call(initNotify([x EXCEPT !.notify = n]))
      PROVE  StatesAreTold'
  <2> DEFINE e == [x EXCEPT !.notify = n]
  <2>1. Tidy(e, R, V)
    BY <1>2, <1>4, TidyNotifySet
  <2>2. ASSUME NEW p \in Partition PROVE Apart(x, initNotify(e), p)
    <3>1. Apart(x, e, p)
      BY <1>2, NotifySetApart DEF Tidy, Loose
    <3> HIDE DEF e
    <3>2. Apart(e, initNotify(e), p)
      BY <2>1, InitNotifyApart
    <3> QED  BY <3>1, <3>2, ApartNext
  <2> QED  BY <1>3, <1>4, <2>2, StatesApart
<1>5. ASSUME NEW query, Call(initNotify([x EXCEPT !.notify.query = query])) PROVE StatesAreTold'
  <2> DEFINE n == [x.notify EXCEPT !.query = query]
  <2>1. n.watcher = x.notify.watcher /\ n.alive = x.notify.alive /\ n.status = x.notify.status
        /\ DOMAIN n = NotifyFields
    BY <1>2 DEF NotifyFields
  <2>2. [x EXCEPT !.notify.query = query] = [x EXCEPT !.notify = n]
    OBVIOUS
  <2> HIDE DEF n
  <2> QED  BY <1>4, <1>5, <2>1, <2>2
<1>6. ASSUME NEW actions,
               Call(initNotify([x EXCEPT !.notify.actions = actions])) PROVE StatesAreTold'
  <2> DEFINE n == [x.notify EXCEPT !.actions = actions]
  <2>1. n.watcher = x.notify.watcher /\ n.alive = x.notify.alive /\ n.status = x.notify.status
        /\ DOMAIN n = NotifyFields
    BY <1>2 DEF NotifyFields
  <2>2. [x EXCEPT !.notify.actions = actions] = [x EXCEPT !.notify = n]
    OBVIOUS
  <2> HIDE DEF n
  <2> QED  BY <1>4, <1>6, <2>1, <2>2
<1>7. ASSUME NEW o, Call(setPartition(x, o)) PROVE StatesAreTold'
  <2>1. \A p \in Partition : Apart(x, setPartition(x, o), p)
    BY <1>2, SetPartitionApart
  <2> QED  BY <1>3, <1>7, <2>1, StatesApart
<1>8. ASSUME NEW enabled, Call(setEnabled(x, enabled)) PROVE StatesAreTold'
  <2>1. \A p \in Partition : Apart(x, setEnabled(x, enabled), p)
    BY <1>2, SetEnabledApart
  <2> QED  BY <1>3, <1>8, <2>1, StatesApart
<1>9. CASE Call(DeleteNotify(x))
  <2>1. \A p \in Partition : Apart(x, DeleteNotify(x), p)
    BY <1>2, DeleteNotifyApart
  <2> QED  BY <1>3, <1>9, <2>1, StatesApart
<1> QED  BY <1>1, <1>5, <1>6, <1>7, <1>8, <1>9, Zenon

LEMMA StatesQueryCall ==
    ASSUME StatesAreTold, QueryCall
    PROVE  StatesAreTold'
<1>1. Call(start(x)) /\ Tidy(x, accepted, Past)
  BY DEF QueryCall, StatesAreTold, Registrations
<1>2. Registrations'
  BY <1>1, RegistrationsCall, TidyStart DEF StatesAreTold
<1>3. \A p \in Partition : Apart(x, start(x), p)
  BY <1>1, StartApart
<1> QED  BY <1>1, <1>2, <1>3, StatesApart

LEMMA StatesAnswer ==
    ASSUME AnswersStand, StatesAreTold, NEW ok \in BOOLEAN, Answer(ok)
    PROVE  StatesAreTold'
<1> DEFINE r == Head(x.wire)
           R == accepted
           V == Past
<1>1. Tidy(x, R, V) /\ Registrations' /\ DOMAIN available = Name
  BY RegistrationsAnswer DEF StatesAreTold, Registrations
<1>2. /\ x.wire # <<>> /\ (Internal(r) => ok = Accepts(r)) /\ accepted' = Listed(r, ok, R)
      /\ x' = Answered(x, r, ok) /\ events' = events /\ available' = available
      /\ x'.exposed \cap Avoided = {}
  BY DEF Answer, Becomes, Listed
<1>3. r \in Sent(x)
  <2>1. IsSeq(x.wire)
    BY <1>1 DEF Tidy, Loose, Line
  <2>2. Members(x.wire) = {r} \cup Members(Tail(x.wire))
    BY <1>2, <2>1, TailFacts
  <2> QED  BY <2>2 DEF Sent
<1>4. /\ r.kind = "remove" /\ ~ok => r.watcher \notin R \ V.forgotten
      /\ r.kind = "add" /\ ~ok => r.watcher.of = Notifier
  <2>1. r.kind \in {"add", "remove"} => Internal(r)
    BY <1>1, <1>3 DEF Tidy, Loose, Tagged
  <2>2. r.kind = "remove" => Accepts(r) = (r.watcher \in R \ V.forgotten)
    BY DEF Accepts, registered, Past
  <2>3. r.kind = "add" /\ r.watcher.of # Notifier => Accepts(r)
    BY DEF Accepts
  <2> QED  BY <1>2, <2>1, <2>2, <2>3
<1>5. \A i \in DOMAIN events : events[i].watcher \in V.noticed
  BY DEF Noticed, Past
<1>6. ~Misled(x')
  BY <1>2 DEF AnswersStand, Misled
<1>7. ASSUME NEW p \in Partition PROVE Told(x', p, accepted', events', available')
  <2>1. Told(x, p, R, events, available)
    BY DEF StatesAreTold
  <2>2. \/ Misled(Answered(x, r, ok))
        \/ Told(Answered(x, r, ok), p, Listed(r, ok, R), events, available)
    BY <1>1, <1>2, <1>4, <1>5, <2>1, AnsweredTold
  <2> QED  BY <1>2, <1>6, <2>2
<1> QED  BY <1>1, <1>2, <1>7 DEF StatesAreTold

LEMMA StatesPartitionChanges ==
    ASSUME StatesAreTold, NEW name \in Name, NEW state, PartitionChanges(name, state)
    PROVE  StatesAreTold'
<1> DEFINE W == {w \in registered : w.of # Notifier /\ Resolved(w.name) = name}
<1>1. /\ x' = x /\ accepted' = accepted /\ available' = [available EXCEPT ![name] = state]
      /\ events' = Notified(W, state) /\ W \in SUBSET registered
      /\ forgotten \subseteq forgotten' /\ \A v \in forgotten' : v.of = Notifier
  BY DEF PartitionChanges, Undefined, StatesAreTold, Registrations
<1>2. IsFiniteSet(accepted) /\ IsSeq(events) /\ DOMAIN available = Name /\ W \in SUBSET accepted
  BY DEF StatesAreTold, Registrations, registered
<1>3. IsFiniteSet(W)
  BY <1>2, FS_Subset
<1>4. /\ DOMAIN available' = Name /\ available'[name] = state
      /\ \A n \in Name : n # name => available'[n] = available[n]
  BY <1>1, <1>2
<1>5. \A w : w \in W <=> w \in accepted /\ w.of # Notifier /\ Resolved(w.name) = name
  BY DEF StatesAreTold, Registrations, registered
<1> HIDE DEF W
<1>6. Registrations'
  BY <1>1, <1>2, RegistrationsNotified DEF StatesAreTold
<1>7. ASSUME NEW p \in Partition PROVE Told(x, p, accepted, events', available')
  <2> DEFINE o == x.partition[p]
             w == o.partitionWatcher
             n == Resolved(o.name)
  <2>1. Told(x, p, accepted, events, available)
    BY DEF StatesAreTold
  <2>2. n \in Name
    <3>1. o.name \in Name \cup {""}
      BY <2>1 DEF Told, Named
    <3> QED  BY <3>1, QmlAssumption DEF Resolved
  <2>3. ASSUME o.alive PROVE Learns(x, p, accepted, events', available')
    <3>1. Learns(x, p, accepted, events, available) /\ w.of = p /\ Resolved(w.name) = n
      BY <2>1, <2>3 DEF Told, Hearkens
    <3>2. w.of # Notifier
      BY <3>1, NoPartitions
    <3>3. CASE w \notin accepted
      BY <3>1, <3>3 DEF Learns
    <3>4. CASE w \in accepted
      <4>1. /\ LastSays(events, w, available[n])
            /\ Silent(events, w) =>
                   Match(o.state, available[n]) \/ (o.state = "None" /\ Expects(x, p))
        BY <3>1, <3>4 DEF Learns
      <4>2. IF w \in W THEN LastSays(events', w, state) /\ ~Silent(events', w)
            ELSE LastSays(events', w, available[n]) /\ (Silent(events', w) => Silent(events, w))
        BY <1>1, <1>2, <1>3, <4>1, SaysNotified
      <4>3. w \in W <=> n = name
        BY <1>5, <3>1, <3>2, <3>4
      <4>4. IF w \in W THEN available'[n] = state ELSE available'[n] = available[n]
        BY <1>4, <2>2, <4>3
      <4> HIDE DEF o, w, n
      <4>5. /\ LastSays(events', w, available'[n])
            /\ Silent(events', w) =>
                   Match(o.state, available'[n]) \/ (o.state = "None" /\ Expects(x, p))
        BY <4>1, <4>2, <4>4
      <4> QED  BY <3>4, <4>5 DEF Learns, o, w, n
    <3> QED  BY <3>3, <3>4
  <2> QED  BY <2>1, <2>3 DEF Told
<1> QED  BY <1>1, <1>4, <1>6, <1>7 DEF StatesAreTold

LEMMA StatesObjectChanges ==
    ASSUME StatesAreTold, NEW name, NEW query, NEW action, ObjectChanges(name, query, action)
    PROVE  StatesAreTold'
<1> DEFINE W == {w \in registered : w.of = Notifier /\ Fits(w, name, query, action)}
           event == [name |-> name, query |-> query, action |-> action]
<1>1. /\ x' = x /\ accepted' = accepted /\ available' = available /\ events' = Notified(W, event)
      /\ W \in SUBSET registered
      /\ forgotten' = forgotten /\ \A v \in forgotten : v.of = Notifier
  BY DEF ObjectChanges, StatesAreTold, Registrations
<1>2. IsFiniteSet(accepted) /\ IsSeq(events) /\ W \in SUBSET accepted
  BY DEF StatesAreTold, Registrations, registered
<1>3. IsFiniteSet(W)
  BY <1>2, FS_Subset
<1>4. \A w \in W : w.of = Notifier
  OBVIOUS
<1> HIDE DEF W, event
<1>5. Registrations'
  BY <1>1, <1>2, RegistrationsNotified DEF StatesAreTold
<1>6. ASSUME NEW p \in Partition PROVE Told(x, p, accepted, events', available)
  <2> DEFINE w == x.partition[p].partitionWatcher
             found == available[Resolved(x.partition[p].name)]
  <2>1. Told(x, p, accepted, events, available)
    BY DEF StatesAreTold
  <2>2. ASSUME x.partition[p].alive PROVE Learns(x, p, accepted, events', available)
    <3>1. Learns(x, p, accepted, events, available) /\ w.of = p
      BY <2>1, <2>2 DEF Told, Hearkens
    <3>2. w \notin W
      BY <1>4, <3>1, NoPartitions
    <3>3. LastSays(events, w, found)
              => LastSays(events', w, found) /\ (Silent(events', w) => Silent(events, w))
      BY <1>1, <1>2, <1>3, <3>2, SaysNotified
    <3> QED  BY <3>1, <3>3 DEF Learns
  <2> QED  BY <2>1, <2>2 DEF Told
<1>7. DOMAIN available' = Name
  BY <1>1 DEF StatesAreTold
<1> QED  BY <1>1, <1>5, <1>6, <1>7 DEF StatesAreTold

\* A notification that is not for it says nothing to a partition object.
LEMMA ToldTail ==
    ASSUME NEW c, NEW p \in Partition, NEW R, NEW s, NEW av, IsSeq(s), s # <<>>, Told(c, p, R, s,
             av),
           c.partition[p].alive => Head(s).watcher # c.partition[p].partitionWatcher
    PROVE  Told(c, p, R, Tail(s), av)
<1> DEFINE o == c.partition[p]
           w == o.partitionWatcher
           found == av[Resolved(o.name)]
<1>1. ASSUME o.alive PROVE Learns(c, p, R, Tail(s), av)
  <2>1. Learns(c, p, R, s, av) /\ Head(s).watcher # w
    BY <1>1 DEF Told
  <2>2. LastSays(s, w, found)
            => LastSays(Tail(s), w, found) /\ (Silent(Tail(s), w) => Silent(s, w))
    <3> HIDE DEF o, w, found
    <3> QED  BY <2>1, SaysTail
  <2> QED  BY <2>1, <2>2 DEF Learns
<1> QED  BY <1>1 DEF Told

\* The one that is says what the state is, unless another one follows.
LEMMA ToldNow ==
    ASSUME NEW R, NEW c, Formed(c), NEW p \in Partition, NEW s, NEW av, IsSeq(s), s # <<>>,
           Told(c, p, R, s, av), Head(s).watcher = c.partition[p].partitionWatcher,
           Head(s).watcher \in R
    PROVE  Told(notificationsAvailable(c, p, Head(s).event), p, R, Tail(s), av)
<1> DEFINE o == c.partition[p]
           w == o.partitionWatcher
           found == av[Resolved(o.name)]
           event == Head(s).event
           state == IF event = "unknown" THEN "offline" ELSE event
           d == [c EXCEPT !.partition[p].state = state]
           q == d.partition[p]
<1>1. d = notificationsAvailable(c, p, event)
  BY DEF notificationsAvailable
<1>2. /\ q.name = o.name /\ q.alive = o.alive /\ q.partitionWatcher = w /\ q.state = state
      /\ d.wire = c.wire /\ d.queue = c.queue /\ d.current = c.current /\ d.watchers = c.watchers
  BY DEF Formed, Shaped, Fields, PartitionFields
<1> HIDE DEF d, q
<1>3. Sent(d) = Sent(c)
  BY <1>2 DEF Sent
<1>4. Prompt(d)
  BY <1>2 DEF Told, Prompt
<1>5. Named(d, p)
  BY <1>2, <1>3 DEF Told, Named, Asks, q
<1>6. ASSUME o.alive PROVE Hearkens(d, p) /\ Learns(d, p, R, Tail(s), av)
  <2>1. Hearkens(c, p) /\ Learns(c, p, R, s, av) /\ w \in R
    BY <1>6 DEF Told
  <2>2. Hearkens(d, p)
    BY <1>2, <2>1 DEF Hearkens, q
  <2>3. LastSays(s, w, found)
    BY <2>1 DEF Learns
  <2>4. LastSays(Tail(s), w, found) /\ (Silent(Tail(s), w) => event = found)
    <3>1. Head(s).watcher = w
      OBVIOUS
    <3> HIDE DEF o, w, found
    <3> QED  BY <2>3, <3>1, SaysTail
  <2>5. event = found => Match(state, found)
    BY DEF Match
  <2>6. /\ LastSays(Tail(s), q.partitionWatcher, av[Resolved(q.name)])
        /\ Silent(Tail(s), q.partitionWatcher) => Match(q.state, av[Resolved(q.name)])
        /\ q.partitionWatcher \in R
    BY <1>2, <2>1, <2>4, <2>5
  <2> QED  BY <2>2, <2>6 DEF Learns, q
<1>7. q.alive = o.alive
  BY <1>2
<1> QED  BY <1>1, <1>4, <1>5, <1>6, <1>7 DEF Told, q

LEMMA StatesDeliver ==
    ASSUME StatesAreTold, Deliver
    PROVE  StatesAreTold'
<1> DEFINE w == Head(events).watcher
           e == Head(events).event
<1>1. /\ Tidy(x, accepted, Past) /\ IsSeq(events) /\ DOMAIN available = Name
      /\ events # <<>> /\ events' = Tail(events) /\ accepted' = accepted
           /\ available' = available
  BY DEF StatesAreTold, Registrations, Deliver
<1>2. Registrations'
  BY RegistrationsDeliver DEF StatesAreTold
<1>3. w \in Noticed
  <2>1. Head(events) \in Members(events)
    BY <1>1, TailFacts
  <2> QED  BY <2>1, NoticedIs
<1>4. \/ w \notin x.watchers /\ x' = x
      \/ w \in x.watchers /\ w.of = Notifier /\ x' = [x EXCEPT !.notify.status = "Ready"]
      \/ w \in x.watchers /\ w.of # Notifier /\ x' = notificationsAvailable(x, w.of, e)
  BY DEF Deliver, Becomes, Hear
<1>5. ASSUME NEW p \in Partition PROVE Told(x', p, accepted, Tail(events), available)
  <2> DEFINE h == x.partition[p].partitionWatcher
  <2>1. Told(x, p, accepted, events, available)
    BY DEF StatesAreTold
  <2>2. x.partition[p].alive => h \in x.watchers /\ h.of = p /\ p # Notifier
    BY <2>1, NoPartitions DEF Told, Hearkens
  <2>3. CASE w \notin x.watchers /\ x' = x
    BY <1>1, <2>1, <2>2, <2>3, ToldTail
  <2>4. CASE w \in x.watchers /\ w.of = Notifier /\ x' = [x EXCEPT !.notify.status = "Ready"]
    <3>1. Told(x, p, accepted, Tail(events), available)
      BY <1>1, <2>1, <2>2, <2>4, ToldTail
    <3>2. x' = [x EXCEPT !.notify = [x.notify EXCEPT !.status = "Ready"]]
      BY <2>4
    <3>3. Apart(x, x', p)
      BY <1>1, <3>2, NotifySetApart DEF Tidy, Loose
    <3> QED  BY <3>1, <3>3, ToldApart
  <2>5. CASE w \in x.watchers /\ w.of # Notifier /\ x' = notificationsAvailable(x, w.of, e)
    <3>1. CASE w.of # p
      <4>1. Told(x, p, accepted, Tail(events), available)
        BY <1>1, <2>1, <2>2, <3>1, ToldTail
      <4>2. Apart(x, x', p)
        BY <1>1, <2>5, <3>1, NotificationsAvailableApart DEF Tidy, Loose
      <4> QED  BY <4>1, <4>2, ToldApart
    <3>2. CASE w.of = p
      <4>1. w = h
        BY <2>1, <2>5, <3>2 DEF Told, Named
      <4>2. w \in accepted
        BY <1>1, <1>3, <2>5 DEF Tidy, Loose, Known, Past
      <4>3. Formed(x)
        BY <1>1 DEF Tidy, Loose
      <4> QED  BY <1>1, <2>1, <2>5, <3>2, <4>1, <4>2, <4>3, ToldNow
    <3> QED  BY <3>1, <3>2
  <2> QED  BY <1>4, <2>3, <2>4, <2>5
<1>6. \A p \in Partition : Told(x', p, accepted', events', available')
  BY <1>1, <1>5
<1> QED  BY <1>1, <1>2, <1>6 DEF StatesAreTold

LEMMA StatesStay ==
    ASSUME AnswersStand, StatesAreTold, [Next]_vars
    PROVE  StatesAreTold'
<1>1. CASE PartitionCall
  BY <1>1, StatesPartitionCall
<1>2. CASE NotifyCall
  BY <1>2, StatesNotifyCall
<1>3. CASE QueryCall
  BY <1>3, StatesQueryCall
<1>4. CASE \E ok \in BOOLEAN : Answer(ok)
  BY <1>4, StatesAnswer
<1>5. CASE Deliver
  BY <1>5, StatesDeliver
<1>6. CASE \E name \in Name, state \in {"unknown", "offline", "online"} : PartitionChanges(name,
        state)
  BY <1>6, StatesPartitionChanges
<1>7. CASE \E name \in Name, query \in Query, action \in Action : ObjectChanges(name, query, action)
  BY <1>7, StatesObjectChanges
<1>8. CASE UNCHANGED vars
  <2>1. /\ x' = x /\ accepted' = accepted /\ events' = events /\ available' = available
    BY <1>8 DEF vars
  <2>2. Registrations'
    BY RegistrationsStay DEF StatesAreTold
  <2>3. DOMAIN available' = Name
        /\ \A p \in Partition : Told(x', p, accepted', events', available')
    BY <2>1 DEF StatesAreTold
  <2> QED  BY <2>2, <2>3 DEF StatesAreTold
<1> QED  BY <1>1, <1>2, <1>3, <1>4, <1>5, <1>6, <1>7, <1>8 DEF Next

\* When no answer is taken that was not asked for by the present name and no
\* state query is refused, a partition object knows the state of its partition,
\* or what will tell it is on the way.
THEOREM StatesAreKept ==
    ASSUME AnswersStand
    PROVE  Spec => []StatesAreTold
<1>1. Init => StatesAreTold
  BY StatesAtFirst
<1>2. StatesAreTold /\ [Next]_vars => StatesAreTold'
  BY StatesStay
<1> QED  BY <1>1, <1>2, PTL DEF Spec

LEMMA StatesToldFollow ==
    ASSUME StatesAreTold
    PROVE  StateFollows
<1> SUFFICES ASSUME Idle, events = <<>>, NEW p \in Partition, Alive(p)
             PROVE  Match(x.partition[p].state, available[Resolved(x.partition[p].name)])
  BY DEF StateFollows, Match
<1>1. Sent(x) = {}
  <2>1. DOMAIN x.wire = {} /\ DOMAIN x.queue = {}
    BY DEF Idle
  <2> QED  BY <2>1 DEF Sent, Members
<1>2. ~Expects(x, p) /\ ~Registers(x, p)
  BY <1>1 DEF Expects, Asks, Registers
<1>3. Learns(x, p, accepted, events, available)
  BY DEF StatesAreTold, Told, Alive
<1>4. Silent(events, x.partition[p].partitionWatcher)
  BY DEF Silent
<1> QED  BY <1>2, <1>3, <1>4 DEF Learns

\* A partition object knows the state of the partition it is named for once
\* nothing is on the way, however often it was renamed and the partition came
\* and went meanwhile.
THEOREM PartitionsKnowTheirState ==
    ASSUME AnswersStand
    PROVE  Spec => []StateFollows
<1>1. StatesAreTold => StateFollows
  BY StatesToldFollow
<1> QED  BY <1>1, StatesAreKept, PTL
=============================================================================
