--------------------- MODULE JsonDbPartitionWriteProofs ---------------------
(***************************************************************************)
(* Proofs about JsonDbPartitionWrite: whatever is written and merged, in   *)
(* any number of partitions, versions only grow and no branch is lost.     *)
(***************************************************************************)
EXTENDS JsonDbPartitionWrite, SequenceFacts

\* What an optimistic or a replicated write may find or leave of an object,
\* its content aside.
Shape(object) ==
    /\ object \in Object
    /\ IsFiniteSet(object.history) /\ IsFiniteSet(object.conflicts)
    /\ \A c \in object.conflicts :
          /\ c.version # NoVersion
          /\ c.body \in {c.version.hash, Typed(c.version.hash)}
    /\ \A c, d \in object.conflicts : c.version = d.version => c = d
    /\ object.version = NoVersion => object.conflicts = {}

\* The head is the newest.  (A tombstone revived by content a client had read
\* has the conflicts of what was read.)
Tidy(object) == \A c \in object.conflicts : Older(c.version, object.version)

\* A stored object has the content its version names.
Sound(object) ==
    /\ Shape(object)
    /\ object.version = NoVersion => object = Absent
    /\ object # Absent => object.body = Typed(object.version.hash)

Typing ==
    /\ TypeOK
    /\ \A r \in Replica, u \in Uuid : Sound(table[r][u])
    /\ \A s \in seen : /\ s \in [uuid : Uuid, object : Object]
                       /\ Sound(s.object) /\ s.object # Absent

Scraps ==
    "scraps" \notin exposed =>
        /\ \A r \in Replica, u \in Uuid : table[r][u].scraps = 0
        /\ \A s \in seen : s.object.scraps = 0

Tidiness ==
    "revived" \notin exposed =>
        /\ \A r \in Replica, u \in Uuid : Tidy(table[r][u])
        /\ \A s \in seen : Tidy(s.object)

Nameless == "nameless" \notin exposed => \A r \in Replica : table[r][NoUuid] = Absent

Losing == {"replaced", "scraps", "lost", "nameless", "revived", "sidelined"}

IsOpen(branch) == branch \in SUBSET Version /\ IsBranch(branch) /\ ~Ended(branch)

\* What is in the history of an object was overtaken by what stands for it now.
Overtaken(object, branch) ==
    \A x \in object.history \cap branch : \E y \in Heads(object) \cap branch : Older(x, y)

Recorded(object) == \A branch : IsOpen(branch) => Overtaken(object, branch)

Kept ==
    Without(Losing) =>
        /\ \A r \in Replica, u \in Uuid : Recorded(table[r][u])
        /\ \A s \in seen : Recorded(s.object)
        /\ \A branch : IsOpen(branch) =>
              \A r \in Replica, u \in Uuid :
                  branch \cap given[r][u] # {} => branch \cap Heads(table[r][u]) # {}

Told == Without({"silent", "lost"}) =>
            \A r \in Replica : \A k \in Key : announced[r][k] = table[r][k].version

IInv == Typing /\ Scraps /\ Tidiness /\ Nameless /\ Kept /\ Told

-----------------------------------------------------------------------------
(***************************************************************************)
(* Versions.                                                               *)
(***************************************************************************)
LEMMA Names ==
    /\ Body \subseteq Nat \ {0} /\ Tombstone \subseteq Body /\ NoUuid \notin Uuid
    /\ \A b \in Body : /\ Typed(b) \in Body /\ Typed(Typed(b)) = Typed(b)
                       /\ Typed(b) \in Tombstone <=> b \in Tombstone
BY VersionAssumption, WriteAssumption, ContentAssumption

LEMMA VersionTypes ==
    /\ NoVersion \in Version /\ NoVersion.count = 0 /\ NoVersion.hash = 0
    /\ \A v \in Version : v.count \in Nat /\ v.hash \in Nat
    /\ \A v \in Version : v # NoVersion => v.count > 0 /\ v.hash \in Body
    /\ \A n \in Nat \ {0}, b \in Body : [count |-> n, hash |-> b] \in Version \ {NoVersion}
    /\ \A v, w \in Version : v.count = w.count /\ v.hash = w.hash => v = w
<1>1. /\ NoVersion.count = 0 /\ NoVersion.hash = 0 /\ NoVersion \in Version
      /\ \A v \in Version \ {NoVersion} : v.count \in Nat \ {0} /\ v.hash \in Body
  BY DEF NoVersion, Version
<1>2. Body \subseteq Nat \ {0}
  BY Names
<1>3. \A v, w \in Version : v.count = w.count /\ v.hash = w.hash => v = w
  <2> SUFFICES ASSUME NEW v \in Version, NEW w \in Version, v.count = w.count, v.hash = w.hash
               PROVE  v = w
    OBVIOUS
  <2>1. v = [count |-> v.count, hash |-> v.hash] /\ w = [count |-> w.count, hash |-> w.hash]
    BY DEF NoVersion, Version
  <2> QED  BY <2>1
<1>4. \A n \in Nat \ {0}, b \in Body : [count |-> n, hash |-> b] \in Version \ {NoVersion}
  BY DEF NoVersion, Version
<1>5. \A v \in Version : v.count \in Nat /\ v.hash \in Nat
  <2> TAKE v \in Version
  <2>1. CASE v = NoVersion
    BY <1>1, <2>1
  <2>2. CASE v # NoVersion
    BY <1>1, <1>2, <2>2
  <2> QED  BY <2>1, <2>2
<1> QED  BY <1>1, <1>3, <1>4, <1>5

\* Versions are in a total order, which begins with the version of nothing.
LEMMA Order ==
    /\ \A v \in Version : ~Older(v, v) /\ ~Older(v, NoVersion)
    /\ \A v \in Version : v # NoVersion => Older(NoVersion, v)
    /\ \A v, w \in Version : v = w \/ Older(v, w) \/ Older(w, v)
    /\ \A v, w \in Version : ~(Older(v, w) /\ Older(w, v))
    /\ \A v, w, x \in Version : Older(v, w) /\ Older(w, x) => Older(v, x)
BY VersionTypes DEF Older

\* A strict order on a finite set has a maximal element.
LEMMA Maximal ==
    ASSUME NEW D, IsFiniteSet(D), D # {}, NEW R,
           \A d \in D : <<d, d>> \notin R,
           \A d, e, f \in D : <<d, e>> \in R /\ <<e, f>> \in R => <<d, f>> \in R
    PROVE  \E d \in D : \A e \in D : <<d, e>> \notin R
<1> DEFINE S == {n \in Nat : \A E \in SUBSET D : Cardinality(E) = n /\ E # {} =>
                                \E d \in E : \A e \in E : <<d, e>> \notin R}
<1>1. 0 \in S
  <2>1. \A E \in SUBSET D : Cardinality(E) = 0 => E = {}
    BY FS_Subset, FS_EmptySet
  <2> QED  BY <2>1
<1>2. ASSUME NEW n \in Nat, n \in S
      PROVE  n + 1 \in S
  <2> SUFFICES ASSUME NEW E \in SUBSET D, Cardinality(E) = n + 1, E # {}
               PROVE  \E d \in E : \A e \in E : <<d, e>> \notin R
    OBVIOUS
  <2>1. PICK x \in E : TRUE
    OBVIOUS
  <2>2. PICK F : F = E \ {x}
    OBVIOUS
  <2>3. IsFiniteSet(E) /\ F \in SUBSET D /\ Cardinality(F) = n
    <3>1. IsFiniteSet(E)
      BY FS_Subset
    <3>2. Cardinality(F) = Cardinality(E) - 1
      BY <2>1, <2>2, <3>1, FS_RemoveElement
    <3> QED  BY <2>2, <3>1, <3>2
  <2>4. CASE F = {}
    BY <2>1, <2>2, <2>4
  <2>5. CASE F # {}
    <3>1. PICK d \in F : \A e \in F : <<d, e>> \notin R
      BY <1>2, <2>3, <2>5
    <3>2. d \in E /\ x \in D /\ d \in D
      BY <2>1, <2>2, <3>1
    <3>3. CASE <<d, x>> \notin R
      BY <2>2, <3>1, <3>2, <3>3
    <3>4. CASE <<d, x>> \in R
      <4>1. \A e \in F : <<x, e>> \notin R
        BY <2>3, <3>1, <3>2, <3>4
      <4> QED  BY <2>1, <2>2, <3>2, <4>1
    <3> QED  BY <3>3, <3>4
  <2> QED  BY <2>4, <2>5
<1> HIDE DEF S
<1>3. Nat \subseteq S
  BY <1>1, <1>2, SetInduction
<1>4. Cardinality(D) \in S
  BY <1>3, FS_CardinalityType
<1> QED  BY <1>4 DEF S

\* Among finitely many documents of different versions one is the newest.
LEMMA NewestOf ==
    ASSUME NEW D, IsFiniteSet(D), D # {}, \A d \in D : d.version \in Version
    PROVE  \E d \in D : \A e \in D : ~Older(d.version, e.version)
<1> DEFINE R == {p \in D \X D : Older(p[1].version, p[2].version)}
<1>1. \A d, e \in D : <<d, e>> \in R <=> Older(d.version, e.version)
  OBVIOUS
<1> HIDE DEF R
<1>2. \A d \in D : <<d, d>> \notin R
  BY <1>1, Order
<1>3. \A d, e, f \in D : <<d, e>> \in R /\ <<e, f>> \in R => <<d, f>> \in R
  BY <1>1, Order
<1>4. \E d \in D : \A e \in D : <<d, e>> \notin R
  BY <1>2, <1>3, Maximal
<1> QED  BY <1>1, <1>4

LEMMA PositionsType ==
    ASSUME NEW history \in SUBSET (Version \ {NoVersion}), IsFiniteSet(history)
    PROVE  Positions(history) \in Nat /\ (history # {} => Positions(history) > 0)
<1>1. CASE history = {}
  BY <1>1 DEF Positions
<1>2. CASE history # {}
  <2>1. PICK C : C = {v.count : v \in history}
    OBVIOUS
  <2>2. C \in SUBSET (Nat \ {0}) /\ C # {} /\ IsFiniteSet(C)
    <3>1. PICK f : f = [v \in history |-> v.count]
      OBVIOUS
    <3>2. f \in Surjection(history, C)
      BY <2>1, <3>1 DEF Surjection
    <3>3. IsFiniteSet(C)
      BY <3>2, FS_Surjection
    <3>4. C \in SUBSET (Nat \ {0}) /\ C # {}
      BY <1>2, <2>1, VersionTypes
    <3> QED  BY <3>3, <3>4
  <2>3. PICK R : R = {p \in C \X C : p[1] < p[2]}
    OBVIOUS
  <2>4. \A d, e \in C : <<d, e>> \in R <=> d < e
    BY <2>3
  <2>5. \A d \in C : <<d, d>> \notin R
    BY <2>2, <2>4
  <2>6. \A d, e, f \in C : <<d, e>> \in R /\ <<e, f>> \in R => <<d, f>> \in R
    BY <2>2, <2>4
  <2>7. \E d \in C : \A e \in C : <<d, e>> \notin R
    BY <2>2, <2>5, <2>6, Maximal, ZenonT(60)
  <2>8. \E d \in C : \A e \in C : d >= e
    <3>1. PICK d \in C : \A e \in C : <<d, e>> \notin R
      BY <2>7
    <3>2. \A e \in C : ~(d < e)
      BY <2>4, <3>1
    <3> QED  BY <2>2, <3>2
  <2>9. Max(C) \in C
    BY <2>8 DEF Max
  <2>10. Positions(history) = Max(C)
    BY <1>2, <2>1 DEF Positions
  <2>11. \A n \in C : n \in Nat /\ n > 0
    BY <2>2
  <2> QED  BY <2>9, <2>10, <2>11
<1> QED  BY <1>1, <1>2

\* The images of a finite set.
LEMMA Images ==
    ASSUME NEW S, IsFiniteSet(S), NEW f
    PROVE  IsFiniteSet({f[x] : x \in S})
<1>1. PICK T : T = {f[x] : x \in S}
  OBVIOUS
<1>2. PICK g : g = [x \in S |-> f[x]]
  OBVIOUS
<1>3. g \in Surjection(S, T)
  BY <1>1, <1>2 DEF Surjection
<1> QED  BY <1>1, <1>3, FS_Surjection

-----------------------------------------------------------------------------
(***************************************************************************)
(* The replicated write.                                                   *)
(***************************************************************************)
LEMMA ShapeTypes ==
    ASSUME NEW object, Shape(object)
    PROVE  /\ object.version \in Version /\ object.body \in Body \cup {0} /\ object.scraps \in Nat
           /\ object.history \in SUBSET (Version \ {NoVersion})
           /\ object.conflicts \in SUBSET [version : Version, body : Body]
           /\ \A c \in object.conflicts : c.version \in Version \ {NoVersion} /\ c.body \in Body
           /\ \A c \in object.conflicts : c = [version |-> c.version, body |-> c.body]
           /\ IsFiniteSet(object.conflicts) /\ IsFiniteSet(object.history)
           /\ object.version = NoVersion => object.conflicts = {}
<1>1. object \in Object
  BY DEF Shape
<1>2. NoVersion \in Version
  BY VersionTypes
<1>3. /\ object.version \in Version /\ object.body \in Body \cup {0} /\ object.scraps \in Nat
      /\ object.history \in SUBSET (Version \ {NoVersion})
      /\ object.conflicts \in SUBSET [version : Version, body : Body]
  <2>1. CASE object = Absent
    BY <1>2, <2>1 DEF Absent
  <2>2. CASE object # Absent
    BY <1>1, <2>2 DEF Object
  <2> QED  BY <2>1, <2>2
<1>4. \A c \in object.conflicts : c.version \in Version \ {NoVersion} /\ c.body \in Body
  BY <1>3 DEF Shape
<1>5. \A c \in object.conflicts : c = [version |-> c.version, body |-> c.body]
  BY <1>3
<1> QED  BY <1>3, <1>4, <1>5 DEF Shape

LEMMA BareIs ==
    ASSUME NEW version, NEW body
    PROVE  /\ Bare(version, body).version = version /\ Bare(version, body).body = body
           /\ Bare(version, body).history = {} /\ Bare(version, body).conflicts = {}
           /\ Bare(version, body).scraps = 0
BY DEF Bare, Absent

\* The documents of an object: itself and its conflicts.
LEMMA DocumentsFacts ==
    ASSUME NEW object, Shape(object)
    PROVE  /\ IsFiniteSet(Documents(object))
           /\ \A d \in Documents(object) :
                 \/ d = object
                 \/ \E c \in object.conflicts : d = Bare(c.version, c.body)
           /\ \A c \in object.conflicts : Bare(c.version, c.body) \in Documents(object)
           /\ object.scraps = 0 =>
                 \E d \in Documents(object) : d.version = object.version
           /\ \A d, e \in Documents(object) : d.version = e.version => d = e
<1>1. PICK others : others = Alternatives(object)
  OBVIOUS
<1>2. /\ \A c \in object.conflicts : Bare(c.version, c.body) \in others
      /\ \A d \in others : \E c \in object.conflicts : d = Bare(c.version, c.body)
  BY <1>1 DEF Alternatives
<1>3. IsFiniteSet(others)
  <2>1. PICK f : f = [c \in object.conflicts |-> Bare(c.version, c.body)]
    OBVIOUS
  <2>2. others = {f[c] : c \in object.conflicts}
    BY <1>1, <2>1 DEF Alternatives
  <2> QED  BY <2>2, Images, ShapeTypes
<1>4. PICK named \in BOOLEAN : named <=> object.version \in {d.version : d \in others}
  OBVIOUS
<1>5. Documents(object) = others \cup (IF object.scraps > 0 \/ named THEN {} ELSE {object})
  BY <1>1, <1>4 DEF Documents
<1>6. IsFiniteSet(others \cup {object})
  BY <1>3, FS_AddElement
<1>7. IsFiniteSet(Documents(object))
  BY <1>3, <1>5, <1>6
<1>8. \A d, e \in others : d.version = e.version => d = e
  BY <1>2, BareIs DEF Shape
<1>9. \A d, e \in Documents(object) : d.version = e.version => d = e
  BY <1>4, <1>5, <1>8
<1>10. object.scraps = 0 => \E d \in Documents(object) : d.version = object.version
  BY <1>4, <1>5
<1> QED  BY <1>2, <1>5, <1>7, <1>9, <1>10

\* A document: a version, its content, and what it replaced.
IsDocument(d) ==
    /\ d.version \in Version \ {NoVersion}
    /\ d.body \in {d.version.hash, Typed(d.version.hash)} /\ d.body \in Body
    /\ d.history \in SUBSET (Version \ {NoVersion}) /\ IsFiniteSet(d.history)

LEMMA DocumentsAreTyped ==
    ASSUME NEW object, Shape(object), object.version # NoVersion,
           object.body \in {object.version.hash, Typed(object.version.hash)}
    PROVE  \A d \in Documents(object) : IsDocument(d)
<1> SUFFICES ASSUME NEW d \in Documents(object)
             PROVE  IsDocument(d)
  OBVIOUS
<1>1. CASE d = object
  <2>1. object.version \in Version \ {NoVersion} /\ object.version.hash \in Body
    BY ShapeTypes, VersionTypes
  <2> QED  BY <1>1, <2>1, Names, ShapeTypes DEF IsDocument
<1>2. CASE d # object
  <2>1. PICK c \in object.conflicts : d = Bare(c.version, c.body)
    BY <1>2, DocumentsFacts
  <2>2. c.version \in Version \ {NoVersion} /\ c.body \in Body
    BY ShapeTypes
  <2>3. c.body \in {c.version.hash, Typed(c.version.hash)}
    BY DEF Shape
  <2>4. d.version = c.version /\ d.body = c.body /\ d.history = {}
    BY <2>1, BareIs
  <2> QED  BY <2>2, <2>3, <2>4, FS_EmptySet DEF IsDocument
<1> QED  BY <1>1, <1>2

\* A merged object has the content its version names, with or without a type.
Holds(object) ==
    /\ Shape(object)
    /\ object.version = NoVersion => object = Absent
    /\ object # Absent => object.body \in {object.version.hash, Typed(object.version.hash)}

LEMMA SoundHolds ==
    ASSUME NEW object, Sound(object)
    PROVE  Holds(object)
BY DEF Sound, Holds

LEMMA MergedFacts ==
    ASSUME NEW this, Holds(this), NEW other, Shape(other), IsMergeable(other)
    PROVE  /\ IsFiniteSet(Merged(this, other)) /\ Merged(this, other) # {}
           /\ \A d \in Merged(this, other) : IsDocument(d)
           /\ \A d, e \in Merged(this, other) : d.version = e.version => d = e
           /\ \A d \in Documents(other) : \E e \in Merged(this, other) : e.version = d.version
           /\ this # Absent => Documents(this) \subseteq Merged(this, other)
           /\ \A d \in Merged(this, other) :
                 d \in Documents(other) \/ (this # Absent /\ d \in Documents(this))
<1>1. PICK D : D = Merged(this, other)
  OBVIOUS
<1>2. PICK mine : mine = IF this = Absent THEN {} ELSE Documents(this)
  OBVIOUS
<1>3. D = mine \cup {d \in Documents(other) : d.version \notin {m.version : m \in mine}}
  BY <1>1, <1>2 DEF Merged
<1>4. IsFiniteSet(mine)
  BY <1>2, FS_EmptySet, DocumentsFacts DEF Holds
<1>5. IsFiniteSet(D)
  <2>1. IsFiniteSet({d \in Documents(other) : d.version \notin {m.version : m \in mine}})
    BY DocumentsFacts, FS_Subset
  <2> QED  BY <1>3, <1>4, <2>1, FS_Union
<1>6. \A d \in Documents(other) : IsDocument(d)
  <2>1. other.scraps = 0 /\ other.version.count > 0 /\ other.body = other.version.hash
    BY DEF IsMergeable, IsValid
  <2>2. other.version # NoVersion
    BY <2>1, VersionTypes
  <2> QED  BY <2>1, <2>2, DocumentsAreTyped
<1>7. \A d \in mine : IsDocument(d)
  <2>1. CASE this = Absent
    BY <1>2, <2>1
  <2>2. CASE this # Absent
    <3>1. this.version # NoVersion /\ this.body \in {this.version.hash, Typed(this.version.hash)}
      BY <2>2 DEF Holds
    <3>2. \A d \in Documents(this) : IsDocument(d)
      BY <3>1, DocumentsAreTyped DEF Holds
    <3> QED  BY <1>2, <2>2, <3>2
  <2> QED  BY <2>1, <2>2
<1>8. \A d, e \in mine : d.version = e.version => d = e
  BY <1>2, DocumentsFacts DEF Holds
<1>9. \A d, e \in D : d.version = e.version => d = e
  BY <1>3, <1>8, DocumentsFacts
<1>10. \A d \in Documents(other) : \E e \in D : e.version = d.version
  BY <1>3
<1>11. D # {}
  <2>1. Documents(other) # {}
    BY DocumentsFacts DEF IsMergeable
  <2> QED  BY <1>10, <2>1
<1>12. /\ \A d \in D : IsDocument(d)
       /\ this # Absent => Documents(this) \subseteq D
       /\ \A d \in D : d \in Documents(other) \/ (this # Absent /\ d \in Documents(this))
  BY <1>2, <1>3, <1>6, <1>7
<1> QED  BY <1>1, <1>5, <1>9, <1>10, <1>11, <1>12

LEMMA NewestFacts ==
    ASSUME NEW D, IsFiniteSet(D), D # {}, \A d \in D : IsDocument(d),
           \A d, e \in D : d.version = e.version => d = e
    PROVE  /\ Newest(D) \in D
           /\ \A e \in D : e = Newest(D) \/ Older(e.version, Newest(D).version)
<1>1. \A d \in D : d.version \in Version
  BY DEF IsDocument
<1>2. PICK d \in D : \A e \in D : ~Older(d.version, e.version)
  BY <1>1, NewestOf
<1>3. \A e \in D : e = d \/ Older(e.version, d.version)
  BY <1>1, <1>2, Order
<1> QED  BY <1>3 DEF Newest

\* What a merge makes of the documents D, of which w is the newest.
Merges(object, D, w) ==
    /\ w \in D /\ \A e \in D : e = w \/ Older(e.version, w.version)
    /\ object.version = w.version /\ object.body = w.body /\ object.scraps = 0
    /\ \A c \in object.conflicts :
          \E d \in D \ {w} : IsAlive(d, D) /\ c = [version |-> d.version, body |-> d.body]
    /\ \A d \in D \ {w} : IsAlive(d, D) => [version |-> d.version, body |-> d.body] \in object.conflicts
    /\ \A x \in object.history :
          \/ x \in w.history
          \/ \E d \in D \ {w} : ~IsAlive(d, D) /\ (x \in d.history \/ x = d.version)

LEMMA MergeIs ==
    ASSUME NEW this, Holds(this), NEW other, Shape(other), IsMergeable(other)
    PROVE  LET merge == updateVersionReplicating(this, other)
               D == Merged(this, other)
           IN /\ merge.valid = TRUE
              /\ Merges(merge.object, D, Newest(D))
              /\ Shape(merge.object) /\ Tidy(merge.object) /\ merge.object.version # NoVersion
              /\ merge.object.body \in {merge.object.version.hash, Typed(merge.object.version.hash)}
              /\ merge.object.body \in Body
<1>1. PICK D : D = Merged(this, other)
  OBVIOUS
<1>2. PICK w : w = Newest(D)
  OBVIOUS
<1>3. /\ IsFiniteSet(D) /\ D # {} /\ \A d \in D : IsDocument(d)
      /\ \A d, e \in D : d.version = e.version => d = e
  BY <1>1, MergedFacts
<1>4. w \in D /\ \A e \in D : e = w \/ Older(e.version, w.version)
  BY <1>2, <1>3, NewestFacts
<1>5. PICK alive : alive = {d \in D \ {w} : IsAlive(d, D)}
  OBVIOUS
<1>6. PICK replaced : replaced = (D \ {w}) \ alive
  OBVIOUS
<1> DEFINE Histories == UNION {d.history : d \in replaced}
           Past == {d.version : d \in {e \in replaced : e.version.count >= 1}}
<1>7. PICK history : history = w.history \cup Histories \cup Past
  OBVIOUS
<1>8. PICK conflicts : conflicts = {[version |-> d.version, body |-> d.body] : d \in alive}
  OBVIOUS
<1>9. PICK m : m = [version |-> w.version, body |-> w.body, history |-> history,
                    conflicts |-> conflicts, scraps |-> 0]
  OBVIOUS
<1>10. updateVersionReplicating(this, other) = [valid |-> TRUE, object |-> m]
  <2> HIDE DEF Histories, Past
  <2>1. updateVersionReplicating(this, other) =
            LET losers == D \ {w}
                kept == {d \in losers : IsAlive(d, D)}
                rest == losers \ kept
            IN [valid |-> TRUE,
                object |->
                  [version |-> w.version, body |-> w.body,
                   history |-> w.history \cup (UNION {d.history : d \in rest})
                                   \cup {d.version : d \in {e \in rest : e.version.count >= 1}},
                   conflicts |-> {[version |-> d.version, body |-> d.body] : d \in kept},
                   scraps |-> 0]]
    BY <1>1, <1>2, Zenon DEF updateVersionReplicating
  <2>2. m = [version |-> w.version, body |-> w.body,
             history |-> w.history \cup (UNION {d.history : d \in replaced})
                            \cup {d.version : d \in {e \in replaced : e.version.count >= 1}},
             conflicts |-> {[version |-> d.version, body |-> d.body] : d \in alive},
             scraps |-> 0]
    BY <1>7, <1>8, <1>9 DEF Histories, Past
  <2> QED  BY <1>5, <1>6, <2>1, <2>2
<1>11. /\ m.version = w.version /\ m.body = w.body /\ m.history = history
       /\ m.conflicts = conflicts /\ m.scraps = 0
  BY <1>9
<1>15. /\ \A x \in Histories : \E d \in replaced : x \in d.history
       /\ \A x \in Past : \E d \in replaced : x = d.version
  OBVIOUS
<1>12. Merges(m, D, w)
  <2> HIDE DEF Histories, Past
  <2>1. \A x \in history :
          \/ x \in w.history
          \/ \E d \in D \ {w} : ~IsAlive(d, D) /\ (x \in d.history \/ x = d.version)
    BY <1>5, <1>6, <1>7, <1>15
  <2>2. \A c \in conflicts :
          \E d \in D \ {w} : IsAlive(d, D) /\ c = [version |-> d.version, body |-> d.body]
    BY <1>5, <1>8
  <2>3. \A d \in D \ {w} : IsAlive(d, D) => [version |-> d.version, body |-> d.body] \in conflicts
    BY <1>5, <1>8
  <2> QED  BY <1>4, <1>11, <2>1, <2>2, <2>3 DEF Merges
<1>13. IsFiniteSet(history) /\ IsFiniteSet(conflicts)
  <2>1. IsFiniteSet(alive) /\ IsFiniteSet(replaced)
    BY <1>3, <1>5, <1>6, FS_Subset
  <2>2. PICK f : f = [d \in D |-> d.history]
    OBVIOUS
  <2>3. {d.history : d \in replaced} = {f[d] : d \in replaced}
    BY <1>6, <2>2
  <2>4. IsFiniteSet({d.history : d \in replaced})
    BY <2>1, <2>3, Images
  <2>5. \A T \in {d.history : d \in replaced} : IsFiniteSet(T)
    BY <1>3, <1>6 DEF IsDocument
  <2>6. IsFiniteSet(UNION {d.history : d \in replaced})
    BY <2>4, <2>5, FS_UNION
  <2>7. PICK g : g = [d \in D |-> d.version]
    OBVIOUS
  <2>8. PICK versions : versions = {g[d] : d \in replaced}
    OBVIOUS
  <2>9. IsFiniteSet(versions) /\ {d.version : d \in {e \in replaced : e.version.count >= 1}} \subseteq versions
    BY <1>6, <2>1, <2>7, <2>8, Images
  <2>10. IsFiniteSet({d.version : d \in {e \in replaced : e.version.count >= 1}})
    BY <2>9, FS_Subset
  <2>11. IsFiniteSet(w.history)
    BY <1>3, <1>4 DEF IsDocument
  <2>12. IsFiniteSet(history)
    <3>1. IsFiniteSet(Histories) /\ IsFiniteSet(Past)
      BY <2>6, <2>10
    <3> HIDE DEF Histories, Past
    <3>2. IsFiniteSet(w.history \cup Histories)
      BY <2>11, <3>1, FS_Union
    <3> QED  BY <1>7, <3>1, <3>2, FS_Union
  <2>13. PICK h : h = [d \in D |-> [version |-> d.version, body |-> d.body]]
    OBVIOUS
  <2>14. conflicts = {h[d] : d \in alive}
    BY <1>5, <1>8, <2>13
  <2>15. IsFiniteSet(conflicts)
    BY <2>1, <2>14, Images
  <2> QED  BY <2>12, <2>15
<1>14. Shape(m) /\ Tidy(m)
  <2>1. history \in SUBSET (Version \ {NoVersion})
    <3> HIDE DEF Histories, Past
    <3>1. \A d \in D : d.history \in SUBSET (Version \ {NoVersion}) /\ d.version \in Version \ {NoVersion}
      BY <1>3 DEF IsDocument
    <3>2. replaced \subseteq D
      BY <1>6
    <3>3. \A x \in history : x \in Version \ {NoVersion}
      BY <1>4, <1>7, <1>15, <3>1, <3>2
    <3> QED  BY <3>3
  <2>2. conflicts \in SUBSET [version : Version, body : Body]
    BY <1>3, <1>5, <1>8 DEF IsDocument
  <2>3. m \in Object
    BY <1>3, <1>4, <1>9, <2>1, <2>2 DEF Object, IsDocument
  <2>4. \A c \in conflicts : /\ c.version # NoVersion
                             /\ c.body \in {c.version.hash, Typed(c.version.hash)}
                             /\ Older(c.version, w.version)
    BY <1>3, <1>4, <1>5, <1>8 DEF IsDocument
  <2>5. \A c, d \in conflicts : c.version = d.version => c = d
    BY <1>3, <1>5, <1>8
  <2>6. w.version # NoVersion
    BY <1>3, <1>4 DEF IsDocument
  <2> QED  BY <1>11, <1>13, <2>3, <2>4, <2>5, <2>6 DEF Shape, Tidy
<1> QED  BY <1>1, <1>2, <1>3, <1>4, <1>10, <1>11, <1>12, <1>14 DEF IsDocument

LEMMA HeadsAreVersions ==
    ASSUME NEW object, Shape(object)
    PROVE  /\ Heads(object) \subseteq Version
           /\ object # Absent /\ object.scraps = 0 =>
                 \A y \in Heads(object) : \E d \in Documents(object) : d.version = y
<1>1. Heads(object) \subseteq Version
  BY ShapeTypes DEF Heads
<1>2. ASSUME object # Absent, object.scraps = 0, NEW y \in Heads(object)
      PROVE  \E d \in Documents(object) : d.version = y
  <2>1. CASE y = object.version
    BY <1>2, <2>1, DocumentsFacts
  <2>2. CASE y # object.version
    <3>1. PICK c \in object.conflicts : y = c.version
      BY <1>2, <2>2 DEF Heads
    <3> QED  BY <3>1, DocumentsFacts, BareIs
  <2> QED  BY <2>1, <2>2
<1> QED  BY <1>1, <1>2

\* A document of an open branch leaves a head of the branch, its own version or
\* a newer one; so does what the object's history holds of the branch.
LEMMA MergeKeeps ==
    ASSUME NEW this, Sound(this), this.scraps = 0,
           NEW other, Shape(other), IsMergeable(other),
           NEW branch, IsOpen(branch), Overtaken(this, branch), Overtaken(other, branch)
    PROVE  LET m == updateVersionReplicating(this, other).object
           IN /\ \A d \in Merged(this, other) : d.version \in branch =>
                    \E y \in Heads(m) \cap branch : y = d.version \/ Older(d.version, y)
              /\ Overtaken(m, branch)
<1>1. PICK D : D = Merged(this, other)
  OBVIOUS
<1>2. PICK w : w = Newest(D)
  OBVIOUS
<1>3. PICK m : m = updateVersionReplicating(this, other).object
  OBVIOUS
<1>4. /\ IsFiniteSet(D) /\ \A d \in D : IsDocument(d)
      /\ \A d, e \in D : d.version = e.version => d = e
  BY <1>1, MergedFacts, SoundHolds
<1>5. Merges(m, D, w) /\ Shape(m) /\ m.version # NoVersion
  BY <1>1, <1>2, <1>3, MergeIs, SoundHolds
<1>6. Heads(m) = {m.version} \cup {c.version : c \in m.conflicts}
  BY <1>5 DEF Heads, Absent
<1>7. /\ \A d \in D : d.version \in Version
      /\ \A d \in D : d.body \in Tombstone => d.version.hash \in Tombstone
      /\ \A d \in D : d.history \subseteq Version
  <2> SUFFICES ASSUME NEW d \in D
               PROVE  /\ d.version \in Version /\ d.history \subseteq Version
                      /\ d.body \in Tombstone => d.version.hash \in Tombstone
    OBVIOUS
  <2>1. /\ d.version \in Version \ {NoVersion} /\ d.history \subseteq Version
        /\ d.body \in {d.version.hash, Typed(d.version.hash)}
    BY <1>4 DEF IsDocument
  <2>2. d.version.hash \in Body
    BY <2>1, VersionTypes
  <2> QED  BY <2>1, <2>2, Names
<1>8. \A d \in D : d.history # {} => d = other \/ (d = this /\ this # Absent)
  <2>1. \A d \in Documents(other) : d.history # {} => d = other
    BY DocumentsFacts, BareIs
  <2>2. \A d \in Documents(this) : d.history # {} => d = this
    BY DocumentsFacts, BareIs DEF Sound
  <2> QED  BY <1>1, <2>1, <2>2, MergedFacts, SoundHolds
<1>9. \A d \in D : \A x \in d.history \cap branch :
          \E e \in D : e.version \in branch /\ Older(x, e.version)
  <2> SUFFICES ASSUME NEW d \in D, NEW x \in d.history \cap branch
               PROVE  \E e \in D : e.version \in branch /\ Older(x, e.version)
    OBVIOUS
  <2>1. CASE d = other
    <3>1. PICK y \in Heads(other) \cap branch : Older(x, y)
      BY <2>1 DEF Overtaken
    <3>2. other # Absent /\ other.scraps = 0
      BY <3>1 DEF Heads, IsMergeable
    <3>3. PICK e \in Documents(other) : e.version = y
      BY <3>1, <3>2, HeadsAreVersions
    <3>4. PICK f \in D : f.version = e.version
      BY <1>1, <3>3, MergedFacts, SoundHolds
    <3> QED  BY <3>1, <3>3, <3>4
  <2>2. CASE d = this /\ this # Absent
    <3>1. PICK y \in Heads(this) \cap branch : Older(x, y)
      BY <2>2 DEF Overtaken
    <3>2. PICK e \in Documents(this) : e.version = y
      BY <2>2, <3>1, HeadsAreVersions DEF Sound
    <3>3. e \in D
      BY <1>1, <2>2, <3>2, MergedFacts, SoundHolds
    <3> QED  BY <3>1, <3>2, <3>3
  <2> QED  BY <1>8, <2>1, <2>2
<1>10. \A d \in D \ {w} : IsAlive(d, D) => d.version \in Heads(m)
  <2> SUFFICES ASSUME NEW d \in D \ {w}, IsAlive(d, D)
               PROVE  d.version \in Heads(m)
    OBVIOUS
  <2>1. PICK c : c = [version |-> d.version, body |-> d.body]
    OBVIOUS
  <2>2. c \in m.conflicts
    BY <1>5, <2>1 DEF Merges
  <2>3. c.version = d.version
    BY <2>1
  <2> QED  BY <1>6, <2>2, <2>3
<1>11. w \in D /\ w.version \in Heads(m)
  BY <1>5, <1>6 DEF Merges
<1>12. ASSUME NEW d \in D, d.version \in branch
       PROVE  \E y \in Heads(m) \cap branch : y = d.version \/ Older(d.version, y)
  <2>1. PICK C : C = {e \in D : /\ e.version \in branch
                                /\ e = d \/ Older(d.version, e.version)}
    OBVIOUS
  <2>2. IsFiniteSet(C) /\ C # {} /\ \A e \in C : e.version \in Version
    BY <1>4, <1>7, <1>12, <2>1, FS_Subset
  <2>3. PICK e \in C : \A f \in C : ~Older(e.version, f.version)
    BY <2>2, NewestOf
  <2>4. e \in D /\ e.version \in branch /\ (e.version = d.version \/ Older(d.version, e.version))
    BY <2>1, <2>3
  <2>5. ~isDeleted(e)
    BY <1>7, <2>4 DEF isDeleted, IsOpen, Ended
  <2>6. ASSUME NEW f \in D, isAncestorOf(f.history, e.version)
        PROVE  FALSE
    <3>1. e.version \in f.history \cap branch
      BY <2>4, <2>6 DEF isAncestorOf
    <3>2. PICK g \in D : g.version \in branch /\ Older(e.version, g.version)
      BY <1>9, <3>1
    <3>3. g \in C
      BY <1>7, <2>1, <2>4, <3>2, Order
    <3> QED  BY <2>3, <3>2, <3>3
  <2>7. IsAlive(e, D)
    BY <2>5, <2>6 DEF IsAlive
  <2>8. e.version \in Heads(m)
    BY <1>10, <1>11, <2>4, <2>7
  <2> QED  BY <2>4, <2>8
<1>13. ASSUME NEW x \in m.history \cap branch
       PROVE  \E y \in Heads(m) \cap branch : Older(x, y)
  <2>1. ASSUME NEW d \in D, x \in d.history
        PROVE  \E y \in Heads(m) \cap branch : Older(x, y)
    <3>1. PICK e \in D : e.version \in branch /\ Older(x, e.version)
      BY <1>9, <1>13, <2>1
    <3>2. PICK y \in Heads(m) \cap branch : y = e.version \/ Older(e.version, y)
      BY <1>12, <3>1
    <3>3. x \in Version /\ e.version \in Version /\ y \in Version
      BY <1>5, <1>7, <2>1, <3>1, HeadsAreVersions
    <3> QED  BY <3>1, <3>2, <3>3, Order
  <2>2. ASSUME NEW d \in D \ {w}, ~IsAlive(d, D), x = d.version
        PROVE  \E y \in Heads(m) \cap branch : Older(x, y)
    <3>1. PICK y \in Heads(m) \cap branch : y = x \/ Older(x, y)
      BY <1>12, <1>13, <2>2
    <3>2. y # x
      <4> SUFFICES ASSUME y = x
                   PROVE  FALSE
        OBVIOUS
      <4>1. CASE x = m.version
        BY <1>4, <1>5, <1>11, <2>2, <4>1 DEF Merges
      <4>2. CASE x # m.version
        <5>1. PICK c \in m.conflicts : c.version = x
          BY <1>6, <4>2
        <5>2. PICK e \in D \ {w} : IsAlive(e, D) /\ c = [version |-> e.version, body |-> e.body]
          BY <1>5, <5>1 DEF Merges
        <5>3. e.version = x
          BY <5>1, <5>2
        <5>4. e = d
          BY <1>4, <2>2, <5>3
        <5> QED  BY <2>2, <5>2, <5>4
      <4> QED  BY <4>1, <4>2
    <3> QED  BY <3>1, <3>2
  <2> QED  BY <1>5, <1>11, <2>1, <2>2 DEF Merges
<1> QED  BY <1>1, <1>3, <1>12, <1>13 DEF Overtaken

\* The newest version wins.
Named(object) == {object.version} \cup {c.version : c \in object.conflicts}

LEMMA MergeVersion ==
    ASSUME NEW this, Holds(this), this.scraps = 0, NEW other, Shape(other), IsMergeable(other)
    PROVE  LET m == updateVersionReplicating(this, other).object
           IN /\ m.version \in Named(this) \cup Named(other)
              /\ \A v \in Named(this) \cup Named(other) : v = m.version \/ Older(v, m.version)
<1>1. PICK D : D = Merged(this, other)
  OBVIOUS
<1>2. PICK w : w = Newest(D)
  OBVIOUS
<1>3. PICK m : m = updateVersionReplicating(this, other).object
  OBVIOUS
<1>4. m.version = w.version /\ w \in D /\ \A e \in D : e = w \/ Older(e.version, w.version)
  BY <1>1, <1>2, <1>3, MergeIs DEF Merges
<1>5. ASSUME NEW object, Shape(object), object.scraps = 0
      PROVE  /\ \A d \in Documents(object) : d.version \in Named(object)
             /\ \A v \in Named(object) : \E d \in Documents(object) : d.version = v
  <2>1. \A d \in Documents(object) : d.version \in Named(object)
    BY <1>5, DocumentsFacts, BareIs DEF Named
  <2>2. ASSUME NEW v \in Named(object)
        PROVE  \E d \in Documents(object) : d.version = v
    <3>1. CASE v = object.version
      BY <1>5, <3>1, DocumentsFacts
    <3>2. CASE v # object.version
      <4>1. PICK c \in object.conflicts : v = c.version
        BY <3>2 DEF Named
      <4> QED  BY <1>5, <4>1, DocumentsFacts, BareIs
    <3> QED  BY <3>1, <3>2
  <2> QED  BY <2>1, <2>2
<1>6. other.scraps = 0
  BY DEF IsMergeable
<1>7. m.version \in Named(this) \cup Named(other)
  <2>1. w \in Documents(other) \/ w \in Documents(this)
    BY <1>1, <1>4, MergedFacts
  <2> QED  BY <1>4, <1>5, <1>6, <2>1 DEF Holds
<1>8. ASSUME NEW v \in Named(other)
      PROVE  v = m.version \/ Older(v, m.version)
  <2>1. PICK d \in Documents(other) : d.version = v
    BY <1>5, <1>6
  <2>2. PICK e \in D : e.version = v
    BY <1>1, <2>1, MergedFacts
  <2> QED  BY <1>4, <2>2
<1>9. ASSUME NEW v \in Named(this)
      PROVE  v = m.version \/ Older(v, m.version)
  <2>1. CASE this = Absent
    <3>1. v = NoVersion
      BY <2>1 DEF Named, Absent
    <3>2. w.version \in Version \ {NoVersion}
      BY <1>1, <1>4, MergedFacts DEF IsDocument
    <3> QED  BY <1>4, <3>1, <3>2, Order
  <2>2. CASE this # Absent
    <3>1. PICK d \in Documents(this) : d.version = v
      BY <1>5 DEF Holds
    <3>2. d \in D
      BY <1>1, <2>2, <3>1, MergedFacts
    <3> QED  BY <1>4, <3>1, <3>2
  <2> QED  BY <2>1, <2>2
<1> QED  BY <1>3, <1>7, <1>8, <1>9

-----------------------------------------------------------------------------
(***************************************************************************)
(* The optimistic write.                                                   *)
(***************************************************************************)
\* What a client may send: it has read the object, and may have changed it.
Sendable(object) == Shape(object) /\ object.body \in Body

LEMMA NextVersionIs ==
    ASSUME NEW other, Sendable(other)
    PROVE  LET next == NextVersion(other.body, other.version)
           IN /\ next \in Version \ {NoVersion} /\ next.hash = other.body
              /\ IsReplay(other.body, other.version) => next = other.version
              /\ ~IsReplay(other.body, other.version) =>
                    Older(other.version, next) /\ next.count = other.version.count + 1
<1>1. /\ other.version \in Version /\ other.version.count \in Nat
      /\ other.body \in Body /\ other.body > 0 /\ other.body \in Nat
  BY ShapeTypes, VersionTypes, Names DEF Sendable
<1>2. CASE IsReplay(other.body, other.version)
  BY <1>1, <1>2, VersionTypes DEF NextVersion, IsReplay
<1>3. CASE ~IsReplay(other.body, other.version)
  <2>1. PICK next : next = [count |-> other.version.count + 1, hash |-> other.body]
    OBVIOUS
  <2>2. next \in Version \ {NoVersion} /\ next.hash = other.body /\ next.count = other.version.count + 1
    <3>1. other.version.count + 1 \in Nat \ {0}
      BY <1>1
    <3> QED  BY <1>1, <2>1, <3>1, VersionTypes
  <2>3. Older(other.version, next)
    BY <1>1, <2>2 DEF Older
  <2>4. NextVersion(other.body, other.version) = next
    BY <1>3, <2>1 DEF NextVersion
  <2> QED  BY <1>3, <2>2, <2>3, <2>4
<1> QED  BY <1>2, <1>3

Ancestor(version) == IF version = NoVersion THEN {} ELSE {version}

LEMMA AddAncestorIs ==
    ASSUME NEW history, NEW version \in Version
    PROVE  /\ addAncestor(history, version) = history \cup Ancestor(version)
           /\ isAncestorOf(history, version) <=> version \in history \cap Ancestor(version)
BY VersionTypes DEF addAncestor, isAncestorOf, Ancestor

\* What may become of an object: nothing, ...
Refuses(this, other, write) == write.valid = FALSE /\ write.object = this

\* ... nothing, because it has happened before, ...
Repeats(this, other, write) ==
    /\ write.valid = TRUE /\ write.object = this
    /\ write.written = NextVersion(other.body, other.version)
    /\ write.written \in this.history \cup Heads(this)

\* ... an object without content, ...
Names0(this, other, write) ==
    /\ write.valid = TRUE /\ this = Absent /\ IsReplay(other.body, other.version)
    /\ write.written = other.version
    /\ write.object = [this EXCEPT !.version = other.version]

\* ... a new head on top of the one it replaces, ...
Extends(this, other, write) ==
    /\ write.valid = TRUE /\ ~IsReplay(other.body, other.version)
    /\ ProgressesHead(this, other.version)
    /\ write.written = NextVersion(other.body, other.version)
    /\ write.object.version = write.written /\ write.object.body = other.body
    /\ write.object.history = this.history \cup Ancestor(other.version)
                                  \cup (IF Resolves(this, other.version) THEN {write.written} ELSE {})
    /\ write.object.conflicts = {}
    /\ write.object.scraps = 0 /\ Tidy(this) => this.conflicts = {}
    /\ this = Absent => write.object.scraps = 0

\* ... a conflict less, ...
Settles(this, other, write) ==
    /\ write.valid = TRUE /\ ~IsReplay(other.body, other.version)
    /\ Resolves(this, other.version) /\ ~ProgressesHead(this, other.version)
    /\ write.written = NextVersion(other.body, other.version)
    /\ write.object.version = this.version /\ write.object.body = this.body
    /\ write.object.history = this.history \cup {write.written} \cup Ancestor(other.version)
    /\ write.object.conflicts = {}
    /\ write.object.scraps = 0 => \A c \in this.conflicts : c.version = other.version

\* ... or a deleted object that is there again.
Revives(this, other, write) ==
    /\ write.valid = TRUE
    /\ isDeleted(this) /\ ~Resolves(this, other.version) /\ ~ProgressesHead(this, other.version)
    /\ write.written = [count |-> this.version.count + 1, hash |-> other.body]
    /\ write.object.version = write.written /\ write.object.body = other.body
    /\ IF IsReplay(other.body, other.version)
       THEN write.object = [other EXCEPT !.version = write.written]
       ELSE /\ write.object.history = this.history \cup Ancestor(other.version) \cup {this.version}
            /\ write.object.conflicts = {}
            /\ write.object.scraps = 0 => this.conflicts = {}
            /\ this.conflicts = {} /\ this.scraps = 0 => write.object.scraps = 0

LEMMA BookedIs ==
    ASSUME NEW object, object \in Object, NEW history \in SUBSET (Version \ {NoVersion}),
           IsFiniteSet(history), NEW left, NEW scraps \in Nat
    PROVE  LET booked == Booked(object, history, left, scraps, TRUE)
           IN /\ booked.version = object.version /\ booked.body = object.body
              /\ booked.history = history /\ booked.conflicts = {} /\ booked.scraps \in Nat
              /\ left = {} /\ scraps = 0 => booked.scraps = 0
              /\ history # {} /\ booked.scraps = 0 => left = {} /\ scraps = 0
              /\ Shape(booked)
<1>1. PICK n : n = IF left # {} \/ scraps > 0 THEN Positions(history) ELSE 0
  OBVIOUS
<1>2. n \in Nat /\ (left = {} /\ scraps = 0 => n = 0) /\ (history # {} /\ n = 0 => left = {} /\ scraps = 0)
  BY <1>1, PositionsType
<1>3. /\ object = [version |-> object.version, body |-> object.body, history |-> object.history,
                   conflicts |-> object.conflicts, scraps |-> object.scraps]
      /\ object.version \in Version /\ object.body \in Body \cup {0}
  <2>1. CASE object = Absent
    BY <2>1, VersionTypes DEF Absent
  <2>2. CASE object # Absent
    BY <2>2 DEF Object
  <2> QED  BY <2>1, <2>2
<1>4. PICK booked : booked = Booked(object, history, left, scraps, TRUE)
  OBVIOUS
<1>5. booked = [version |-> object.version, body |-> object.body, history |-> history,
                conflicts |-> {}, scraps |-> n]
  BY <1>1, <1>3, <1>4 DEF Booked
<1>6. booked \in Object
  BY <1>2, <1>3, <1>5 DEF Object
<1>7. /\ booked.version = object.version /\ booked.body = object.body
      /\ booked.history = history /\ booked.conflicts = {} /\ booked.scraps = n
  BY <1>5
<1>8. Shape(booked)
  BY <1>6, <1>7, FS_EmptySet DEF Shape
<1> QED  BY <1>2, <1>4, <1>7, <1>8

LEMMA OptimisticIs ==
    ASSUME NEW this, Sound(this), NEW other, Sendable(other)
    PROVE  LET write == updateVersionOptimistic(this, other, TRUE)
           IN /\ \/ Refuses(this, other, write)
                 \/ Repeats(this, other, write)
                 \/ Names0(this, other, write)
                 \/ Extends(this, other, write)
                 \/ Settles(this, other, write)
                 \/ Revives(this, other, write)
              /\ Shape(write.object)
<1>1. PICK b : b = other.version
  OBVIOUS
<1>2. PICK next : next = NextVersion(other.body, b)
  OBVIOUS
<1>3. PICK replay \in BOOLEAN : replay <=> IsReplay(other.body, b)
  OBVIOUS
<1>4. PICK resolves \in BOOLEAN : resolves <=> Resolves(this, b)
  OBVIOUS
<1>5. PICK progresses \in BOOLEAN : progresses <=> ProgressesHead(this, b)
  OBVIOUS
<1>6. PICK revives \in BOOLEAN : revives <=> (~resolves /\ ~progresses /\ isDeleted(this))
  OBVIOUS
<1>7. PICK written : written = IF revives THEN [count |-> this.version.count + 1, hash |-> next.hash] ELSE next
  OBVIOUS
<1>8. PICK head : head = IF revives \/ (progresses /\ ~replay) THEN [other EXCEPT !.version = written]
                         ELSE IF progresses THEN [this EXCEPT !.version = written] ELSE this
  OBVIOUS
<1>9. PICK known : known = IF resolves THEN addAncestor(this.history, next) ELSE this.history
  OBVIOUS
<1>10. PICK before : before = IF revives THEN addAncestor(known, b) ELSE known
  OBVIOUS
<1>11. PICK history : history = addAncestor(before, IF revives THEN this.version ELSE b)
  OBVIOUS
<1>12. PICK left : left = IF replay THEN this.conflicts ELSE {c \in this.conflicts : c.version # b}
  OBVIOUS
<1>13. PICK scraps : scraps = IF replay THEN this.scraps ELSE ScrapsLeft(this, b)
  OBVIOUS
<1>14. PICK write : write = updateVersionOptimistic(this, other, TRUE)
  OBVIOUS
<1>15. /\ resolves \/ progresses \/ revives =>
             write = [valid |-> TRUE, written |-> written,
                      object |-> IF replay THEN head ELSE Booked(head, history, left, scraps, TRUE)]
       /\ ~(resolves \/ progresses \/ revives) /\ isAncestorOf(this.history, next) =>
             write = [valid |-> TRUE, written |-> next, object |-> this]
       /\ ~(resolves \/ progresses \/ revives) /\ ~isAncestorOf(this.history, next) =>
             write = [valid |-> FALSE, written |-> NoVersion, object |-> this]
  BY <1>1, <1>2, <1>3, <1>4, <1>5, <1>6, <1>7, <1>8, <1>9, <1>10, <1>11, <1>12, <1>13, <1>14
     DEF updateVersionOptimistic
<1>16. /\ Shape(this) /\ this \in Object /\ b \in Version /\ this.version \in Version
       /\ this.version.count \in Nat
       /\ this.history \in SUBSET (Version \ {NoVersion}) /\ IsFiniteSet(this.history)
       /\ this.scraps \in Nat
       /\ this.version = NoVersion => this = Absent
  BY <1>1, ShapeTypes, VersionTypes DEF Sound, Sendable, Shape
<1>17. this = Absent => /\ this.version = NoVersion /\ this.conflicts = {} /\ this.scraps = 0
                        /\ this.body = 0 /\ this.history = {}
  BY DEF Absent
<1>18. /\ next \in Version \ {NoVersion} /\ next.hash = other.body
       /\ replay => next = b
       /\ ~replay => Older(b, next)
  BY <1>1, <1>2, <1>3, NextVersionIs
<1>19. written \in Version \ {NoVersion} /\ written.hash = other.body
  <2>1. CASE revives
    <3>1. this.version.count + 1 \in Nat \ {0} /\ other.body \in Body
      BY <1>16 DEF Sendable
    <3>2. written = [count |-> this.version.count + 1, hash |-> other.body]
      BY <1>7, <1>18, <2>1
    <3> QED  BY <3>1, <3>2, VersionTypes
  <2>2. CASE ~revives
    BY <1>7, <1>18, <2>2
  <2> QED  BY <2>1, <2>2
<1>20. history = this.history \cup (IF resolves THEN {next} ELSE {})
                     \cup (IF revives THEN Ancestor(b) \cup {this.version} ELSE Ancestor(b))
  <2>1. known = this.history \cup (IF resolves THEN {next} ELSE {})
    BY <1>9, <1>18, AddAncestorIs DEF Ancestor
  <2>2. before = known \cup (IF revives THEN Ancestor(b) ELSE {})
    BY <1>10, <1>16, AddAncestorIs
  <2>3. revives => Ancestor(this.version) = {this.version}
    <3>1. Absent.body = 0 /\ 0 \notin Tombstone
      BY Names DEF Absent
    <3> QED  BY <1>6, <1>16, <3>1 DEF Ancestor, isDeleted
  <2>4. history = before \cup (IF revives THEN Ancestor(this.version) ELSE Ancestor(b))
    BY <1>11, <1>16, AddAncestorIs
  <2> QED  BY <2>1, <2>2, <2>3, <2>4
<1>21. revives => this.version # NoVersion /\ this # Absent
  <2>1. Absent.body = 0 /\ 0 \notin Tombstone
    BY Names DEF Absent
  <2> QED  BY <1>6, <1>16, <2>1 DEF isDeleted
<1>22. history \in SUBSET (Version \ {NoVersion}) /\ IsFiniteSet(history)
  <2>1. /\ Ancestor(b) \in SUBSET (Version \ {NoVersion}) /\ IsFiniteSet(Ancestor(b))
        /\ IsFiniteSet({next}) /\ IsFiniteSet({this.version})
    BY <1>16, FS_EmptySet, FS_Singleton DEF Ancestor
  <2>2. IsFiniteSet(Ancestor(b) \cup {this.version})
    BY <2>1, FS_Union
  <2>3. IsFiniteSet(this.history \cup (IF resolves THEN {next} ELSE {}))
    BY <1>16, <2>1, FS_Union
  <2>4. IsFiniteSet(history)
    BY <1>20, <2>1, <2>2, <2>3, FS_Union
  <2>5. history \in SUBSET (Version \ {NoVersion})
    BY <1>16, <1>18, <1>20, <1>21, <2>1
  <2> QED  BY <2>4, <2>5
<1>23. scraps \in Nat /\ (this.scraps = 0 => scraps = 0)
  BY <1>13, <1>16 DEF ScrapsLeft
<1>24. /\ [other EXCEPT !.version = written] \in Object
       /\ [other EXCEPT !.version = written].version = written
       /\ [other EXCEPT !.version = written].body = other.body
  <2>1. other.body \in Body /\ other # Absent /\ other \in Object
    <3>1. Absent.body = 0 /\ 0 \notin Body
      BY Names DEF Absent
    <3> QED  BY <3>1 DEF Sendable, Shape
  <2> QED  BY <1>19, <2>1 DEF Object
<1> DEFINE Outcome == /\ \/ Refuses(this, other, write)
                         \/ Repeats(this, other, write)
                         \/ Names0(this, other, write)
                         \/ Extends(this, other, write)
                         \/ Settles(this, other, write)
                         \/ Revives(this, other, write)
                      /\ Shape(write.object)
<1> SUFFICES Outcome
  BY <1>14
<1>25. CASE ~(resolves \/ progresses \/ revives)
  <2>1. CASE isAncestorOf(this.history, next)
    <3>1. next \in this.history
      BY <2>1 DEF isAncestorOf
    <3>2. write.valid = TRUE /\ write.object = this /\ write.written = next
      BY <1>15, <1>25, <2>1
    <3>3. Repeats(this, other, write)
      BY <1>1, <1>2, <3>1, <3>2 DEF Repeats
    <3> QED  BY <1>16, <3>2, <3>3
  <2>2. CASE ~isAncestorOf(this.history, next)
    <3>1. write.valid = FALSE /\ write.object = this
      BY <1>15, <1>25, <2>2
    <3> QED  BY <1>16, <3>1 DEF Refuses
  <2> QED  BY <2>1, <2>2
<1>26. ASSUME replay, resolves \/ progresses \/ revives
       PROVE  write.valid = TRUE /\ write.written = written /\ write.object = head
  BY <1>15, <1>26
<1>27. ASSUME ~replay, resolves \/ progresses \/ revives
       PROVE  /\ write.valid = TRUE /\ write.written = written
              /\ write.object = Booked(head, history, left, scraps, TRUE)
  <2>1. PICK booked : booked = Booked(head, history, left, scraps, TRUE)
    OBVIOUS
  <2>2. write = [valid |-> TRUE, written |-> written, object |-> booked]
    BY <1>15, <1>27, <2>1
  <2> QED  BY <2>1, <2>2
<1>28. ASSUME ~replay, resolves \/ progresses \/ revives, head \in Object
       PROVE  /\ write.object.version = head.version /\ write.object.body = head.body
              /\ write.object.history = history /\ write.object.conflicts = {}
              /\ left = {} /\ scraps = 0 => write.object.scraps = 0
              /\ history # {} /\ write.object.scraps = 0 => left = {} /\ scraps = 0
              /\ Shape(write.object)
  <2>1. PICK booked : booked = Booked(head, history, left, scraps, TRUE)
    OBVIOUS
  <2>2. /\ booked.version = head.version /\ booked.body = head.body
        /\ booked.history = history /\ booked.conflicts = {}
        /\ left = {} /\ scraps = 0 => booked.scraps = 0
        /\ history # {} /\ booked.scraps = 0 => left = {} /\ scraps = 0
        /\ Shape(booked)
    <3>1. /\ head \in Object /\ history \in SUBSET (Version \ {NoVersion})
          /\ IsFiniteSet(history) /\ scraps \in Nat
      BY <1>22, <1>23, <1>28
    <3>2. LET k == Booked(head, history, left, scraps, TRUE)
          IN /\ k.version = head.version /\ k.body = head.body
             /\ k.history = history /\ k.conflicts = {} /\ k.scraps \in Nat
             /\ left = {} /\ scraps = 0 => k.scraps = 0
             /\ history # {} /\ k.scraps = 0 => left = {} /\ scraps = 0
             /\ Shape(k)
      BY ONLY <3>1, BookedIs
    <3> QED  BY <2>1, <3>2
  <2>3. write.valid = TRUE /\ write.written = written /\ write.object = booked
    BY <1>27, <1>28, <2>1
  <2> QED  BY <2>2, <2>3
<1>29. CASE revives
  <2>1. head = [other EXCEPT !.version = written] /\ written = [count |-> this.version.count + 1, hash |-> other.body]
    BY <1>7, <1>8, <1>18, <1>29
  <2>2. /\ isDeleted(this) /\ ~Resolves(this, other.version)
        /\ ~ProgressesHead(this, other.version) /\ ~resolves /\ ~progresses
    BY <1>1, <1>4, <1>5, <1>6, <1>29
  <2>3. CASE replay
    <3>1. write.valid = TRUE /\ write.written = written /\ write.object = [other EXCEPT !.version = written]
      BY <1>26, <1>29, <2>1, <2>3
    <3>2. Revives(this, other, write)
      BY <1>1, <1>3, <1>24, <2>1, <2>2, <2>3, <3>1 DEF Revives
    <3>3. /\ write.object.history = other.history /\ write.object.conflicts = other.conflicts
          /\ write.object.version = written /\ write.object \in Object
      BY <1>24, <3>1
    <3>4. Shape(write.object)
      BY <1>19, <3>3 DEF Shape, Sendable
    <3> QED  BY <3>2, <3>4
  <2>4. CASE ~replay
    <3>1. history = this.history \cup Ancestor(b) \cup {this.version}
      BY <1>20, <1>29, <2>2
    <3>2. /\ write.object.version = written /\ write.object.body = other.body
          /\ write.object.history = history /\ write.object.conflicts = {}
          /\ left = {} /\ scraps = 0 => write.object.scraps = 0
          /\ history # {} /\ write.object.scraps = 0 => left = {} /\ scraps = 0
          /\ Shape(write.object)
      BY <1>24, <1>28, <1>29, <2>1, <2>4
    <3>3. left = this.conflicts
      BY <1>1, <1>4, <1>12, <2>2, <2>4 DEF Resolves
    <3>4. write.valid = TRUE /\ write.written = written
      BY <1>27, <1>29, <2>4
    <3>5. Revives(this, other, write)
      BY <1>1, <1>3, <1>23, <2>1, <2>2, <2>4, <3>1, <3>2, <3>3, <3>4 DEF Revives
    <3> QED  BY <3>2, <3>5
  <2> QED  BY <2>3, <2>4
<1>30. CASE progresses /\ ~revives /\ replay
  <2>1. next = b /\ written = b /\ head = [this EXCEPT !.version = b]
    BY <1>7, <1>8, <1>18, <1>30
  <2>2. write.valid = TRUE /\ write.written = b /\ write.object = [this EXCEPT !.version = b]
    BY <1>26, <1>30, <2>1
  <2>3. CASE this.version = NoVersion
    <3>1. this = Absent
      BY <1>16, <2>3
    <3>2. Names0(this, other, write)
      BY <1>1, <1>3, <1>30, <2>2, <3>1 DEF Names0
    <3>3. write.object = [version |-> b, body |-> 0, history |-> {}, conflicts |-> {}, scraps |-> 0]
      BY <2>2, <3>1 DEF Absent
    <3>4. write.object \in Object
      BY <1>16, <3>3 DEF Object
    <3>5. Shape(write.object)
      BY <3>3, <3>4, FS_EmptySet DEF Shape
    <3> QED  BY <3>2, <3>5
  <2>4. CASE this.version # NoVersion
    <3>1. this.version = b /\ this # Absent
      BY <1>5, <1>17, <1>30, <2>4 DEF ProgressesHead
    <3>2. [this EXCEPT !.version = b] = this
      BY <1>16, <3>1 DEF Object
    <3>3. b \in Heads(this)
      BY <3>1 DEF Heads
    <3>4. Repeats(this, other, write)
      BY <1>1, <1>2, <2>1, <2>2, <3>2, <3>3 DEF Repeats
    <3> QED  BY <1>16, <2>2, <3>2, <3>4
  <2> QED  BY <2>3, <2>4
<1>31. CASE progresses /\ ~revives /\ ~replay
  <2>1. written = next /\ head = [other EXCEPT !.version = written]
    BY <1>7, <1>8, <1>31
  <2>2. /\ write.object.version = written /\ write.object.body = other.body
        /\ write.object.history = history /\ write.object.conflicts = {}
        /\ left = {} /\ scraps = 0 => write.object.scraps = 0
        /\ history # {} /\ write.object.scraps = 0 => left = {} /\ scraps = 0
        /\ Shape(write.object)
    BY <1>24, <1>28, <1>31, <2>1
  <2>3. write.valid = TRUE /\ write.written = next
    BY <1>27, <1>31, <2>1
  <2>4. history = this.history \cup Ancestor(b) \cup (IF resolves THEN {next} ELSE {})
    BY <1>20, <1>31
  <2>5. left = {c \in this.conflicts : c.version # b}
    BY <1>12, <1>31
  <2>6. this = Absent => write.object.scraps = 0
    BY <1>17, <1>23, <2>2, <2>5
  <2>7. write.object.scraps = 0 /\ Tidy(this) => this.conflicts = {}
    <3> SUFFICES ASSUME write.object.scraps = 0, Tidy(this), NEW c \in this.conflicts
                 PROVE  FALSE
      OBVIOUS
    <3>1. b = this.version /\ b # NoVersion
      BY <1>5, <1>16, <1>17, <1>31 DEF ProgressesHead
    <3>2. history # {}
      BY <2>4, <3>1 DEF Ancestor
    <3>3. c.version = b
      BY <2>2, <2>5, <3>2
    <3> QED  BY <1>16, <3>1, <3>3, Order DEF Tidy
  <2>8. Extends(this, other, write)
    BY <1>1, <1>2, <1>3, <1>4, <1>5, <1>31, <2>1, <2>2, <2>3, <2>4, <2>6, <2>7 DEF Extends
  <2> QED  BY <2>2, <2>8
<1>32. CASE resolves /\ ~progresses /\ ~revives /\ replay
  <2>1. next = b /\ written = b /\ head = this
    BY <1>7, <1>8, <1>18, <1>32
  <2>2. write.valid = TRUE /\ write.written = b /\ write.object = this
    BY <1>26, <1>32, <2>1
  <2>3. b # NoVersion
    BY <1>18, <2>1
  <2>4. b \in Heads(this)
    <3>1. PICK c \in this.conflicts : c.version = b
      BY <1>4, <1>32, <2>3 DEF Resolves
    <3>2. this # Absent
      BY <1>17, <3>1
    <3> QED  BY <3>1, <3>2 DEF Heads
  <2>5. Repeats(this, other, write)
    BY <1>1, <1>2, <2>1, <2>2, <2>4 DEF Repeats
  <2> QED  BY <1>16, <2>2, <2>5
<1>33. CASE resolves /\ ~progresses /\ ~revives /\ ~replay
  <2>1. written = next /\ head = this
    BY <1>7, <1>8, <1>33
  <2>2. /\ write.object.version = this.version /\ write.object.body = this.body
        /\ write.object.history = history /\ write.object.conflicts = {}
        /\ left = {} /\ scraps = 0 => write.object.scraps = 0
        /\ history # {} /\ write.object.scraps = 0 => left = {} /\ scraps = 0
        /\ Shape(write.object)
    BY <1>16, <1>28, <1>33, <2>1
  <2>3. write.valid = TRUE /\ write.written = next
    BY <1>27, <1>33, <2>1
  <2>4. history = this.history \cup {next} \cup Ancestor(b)
    BY <1>20, <1>33
  <2>5. left = {c \in this.conflicts : c.version # b}
    BY <1>12, <1>33
  <2>6. write.object.scraps = 0 => \A c \in this.conflicts : c.version = b
    BY <2>2, <2>4, <2>5
  <2>7. Settles(this, other, write)
    BY <1>1, <1>2, <1>3, <1>4, <1>5, <1>33, <2>2, <2>3, <2>4, <2>6 DEF Settles
  <2> QED  BY <2>2, <2>7
<1> HIDE DEF Outcome
<1> QED  BY <1>25, <1>29, <1>30, <1>31, <1>32, <1>33

\* An object that replaces itself.
LEMMA ComputeIs ==
    ASSUME NEW object, Sendable(object)
    PROVE  LET write == computeVersion(object, TRUE)
           IN /\ write.valid = TRUE /\ write.written \in Version \ {NoVersion}
              /\ write.object.version = write.written /\ write.object.body = object.body
              /\ write.object.body = write.written.hash
              /\ Shape(write.object) /\ (Tidy(object) => Tidy(write.object))
<1>1. PICK b : b = object.version
  OBVIOUS
<1>2. PICK next : next = NextVersion(object.body, b)
  OBVIOUS
<1>3. PICK replay \in BOOLEAN : replay <=> IsReplay(object.body, b)
  OBVIOUS
<1>4. PICK resolves \in BOOLEAN : resolves <=> Resolves(object, b)
  OBVIOUS
<1>5. ProgressesHead(object, b)
  BY <1>1 DEF ProgressesHead
<1>6. PICK head : head = [object EXCEPT !.version = next]
  OBVIOUS
<1>7. PICK known : known = IF resolves THEN addAncestor(object.history, next) ELSE object.history
  OBVIOUS
<1>8. PICK history : history = addAncestor(known, b)
  OBVIOUS
<1>9. PICK left : left = IF replay THEN object.conflicts ELSE {c \in object.conflicts : c.version # b}
  OBVIOUS
<1>10. PICK scraps : scraps = IF replay THEN object.scraps ELSE ScrapsLeft(object, b)
  OBVIOUS
<1>11. PICK write : write = computeVersion(object, TRUE)
  OBVIOUS
<1>12. write = [valid |-> TRUE, written |-> next,
                object |-> IF replay THEN head ELSE Booked(head, history, left, scraps, TRUE)]
  BY <1>1, <1>2, <1>3, <1>4, <1>5, <1>6, <1>7, <1>8, <1>9, <1>10, <1>11
     DEF updateVersionOptimistic, computeVersion
<1>13. /\ Shape(object) /\ object \in Object /\ b \in Version /\ object.body \in Body
       /\ object.history \in SUBSET (Version \ {NoVersion}) /\ IsFiniteSet(object.history)
       /\ object.scraps \in Nat
  BY <1>1, ShapeTypes DEF Sendable, Shape
<1>14. /\ next \in Version \ {NoVersion} /\ next.hash = object.body /\ (replay => next = b)
  BY <1>1, <1>2, <1>3, NextVersionIs
<1>15. object # Absent
  BY <1>13, Names DEF Absent
<1>16. /\ head \in Object /\ head.version = next /\ head.body = object.body
       /\ head.history = object.history /\ head.conflicts = object.conflicts
  BY <1>6, <1>13, <1>14, <1>15 DEF Object
<1>17. history \in SUBSET (Version \ {NoVersion}) /\ IsFiniteSet(history)
  <2>1. known = object.history \cup (IF resolves THEN {next} ELSE {})
    BY <1>7, <1>14, AddAncestorIs DEF Ancestor
  <2>2. history = known \cup Ancestor(b)
    BY <1>8, <1>13, AddAncestorIs
  <2>3. Ancestor(b) \in SUBSET (Version \ {NoVersion}) /\ IsFiniteSet(Ancestor(b)) /\ IsFiniteSet({next})
    BY <1>13, FS_EmptySet, FS_Singleton DEF Ancestor
  <2>4. IsFiniteSet(known) /\ known \in SUBSET (Version \ {NoVersion})
    BY <1>13, <1>14, <2>1, <2>3, FS_Union
  <2> QED  BY <2>2, <2>3, <2>4, FS_Union
<1>18. scraps \in Nat
  BY <1>10, <1>13 DEF ScrapsLeft
<1>19. CASE replay
  <2>1. write.valid = TRUE /\ write.written = next /\ write.object = head
    BY <1>12, <1>19
  <2>2. Shape(head)
    BY <1>13, <1>14, <1>16 DEF Shape
  <2>3. head = object
    BY <1>1, <1>6, <1>13, <1>14, <1>15, <1>19 DEF Object
  <2> QED  BY <1>11, <1>14, <1>16, <2>1, <2>2, <2>3
<1>20. CASE ~replay
  <2>1. PICK k : k = Booked(head, history, left, scraps, TRUE)
    OBVIOUS
  <2>2. write.valid = TRUE /\ write.written = next /\ write.object = k
    BY <1>12, <1>20, <2>1
  <2>3. k.version = head.version /\ k.body = head.body /\ k.conflicts = {} /\ Shape(k)
    <3>1. /\ head \in Object /\ history \in SUBSET (Version \ {NoVersion})
          /\ IsFiniteSet(history) /\ scraps \in Nat
      BY <1>16, <1>17, <1>18
    <3>2. LET n == Booked(head, history, left, scraps, TRUE)
          IN /\ n.version = head.version /\ n.body = head.body
             /\ n.history = history /\ n.conflicts = {} /\ n.scraps \in Nat
             /\ left = {} /\ scraps = 0 => n.scraps = 0
             /\ history # {} /\ n.scraps = 0 => left = {} /\ scraps = 0
             /\ Shape(n)
      BY ONLY <3>1, BookedIs
    <3> QED  BY <2>1, <3>2
  <2>4. Tidy(k)
    BY <2>3 DEF Tidy
  <2> QED  BY <1>11, <1>14, <1>16, <2>2, <2>3, <2>4
<1> QED  BY <1>19, <1>20

-----------------------------------------------------------------------------
(***************************************************************************)
(* One object of a batch.                                                  *)
(***************************************************************************)
LEMMA WithTypeIs ==
    ASSUME NEW object, Shape(object)
    PROVE  /\ WithType(object).version = object.version
           /\ WithType(object).history = object.history
           /\ WithType(object).conflicts = object.conflicts
           /\ WithType(object).scraps = object.scraps
           /\ WithType(object).body = IF object.body = 0 THEN 0 ELSE Typed(object.body)
           /\ WithType(object) \in Object /\ Shape(WithType(object))
           /\ Tidy(WithType(object)) <=> Tidy(object)
           /\ object.body = 0 => WithType(object) = object
           /\ Sound(object) => WithType(object) = object
<1>1. object \in Object
  BY DEF Shape
<1>2. object = [version |-> object.version, body |-> object.body, history |-> object.history,
                conflicts |-> object.conflicts, scraps |-> object.scraps]
  <2>1. CASE object = Absent
    BY <2>1 DEF Absent
  <2>2. CASE object # Absent
    BY <1>1, <2>2 DEF Object
  <2> QED  BY <2>1, <2>2
<1>3. PICK body : body = IF object.body = 0 THEN 0 ELSE Typed(object.body)
  OBVIOUS
<1>4. WithType(object) = [version |-> object.version, body |-> body, history |-> object.history,
                          conflicts |-> object.conflicts, scraps |-> object.scraps]
  BY <1>2, <1>3 DEF WithType
<1>5. body \in Body \cup {0}
  BY <1>3, ShapeTypes, Names
<1>6. WithType(object) \in Object
  <2>1. [version |-> object.version, body |-> body, history |-> object.history,
         conflicts |-> object.conflicts, scraps |-> object.scraps]
            \in [version : Version, body : Body \cup {0}, history : SUBSET (Version \ {NoVersion}),
                 conflicts : SUBSET [version : Version, body : Body], scraps : Nat]
    BY <1>5, ShapeTypes
  <2> QED  BY <1>4, <2>1 DEF Object
<1>7. object.body = 0 => WithType(object) = object
  BY <1>2, <1>3, <1>4
<1>8. ASSUME Sound(object) PROVE WithType(object) = object
  <2>1. CASE object = Absent
    BY <1>7, <2>1 DEF Absent
  <2>2. CASE object # Absent
    <3>1. object.body = Typed(object.version.hash) /\ object.version # NoVersion
      BY <1>8, <2>2 DEF Sound
    <3>2. object.version.hash \in Body
      BY <3>1, ShapeTypes, VersionTypes
    <3>3. Typed(object.body) = object.body
      BY <3>1, <3>2, Names
    <3>4. body = object.body
      BY <1>3, <3>3
    <3> QED  BY <1>2, <1>4, <3>4
  <2> QED  BY <2>1, <2>2
<1>9. /\ WithType(object).version = object.version
      /\ WithType(object).history = object.history
      /\ WithType(object).conflicts = object.conflicts
      /\ WithType(object).scraps = object.scraps
      /\ WithType(object).body = body
  BY <1>4
<1>10. Shape(WithType(object))
  BY <1>6, <1>9 DEF Shape
<1>11. Tidy(WithType(object)) <=> Tidy(object)
  BY <1>9 DEF Tidy
<1> QED  BY <1>3, <1>6, <1>7, <1>8, <1>9, <1>10, <1>11

LEMMA SoundOf ==
    ASSUME NEW object, Shape(object), object.version # NoVersion,
           object.body \in {object.version.hash, Typed(object.version.hash)}
    PROVE  Sound(WithType(object)) /\ WithType(object).body # 0
<1>1. object.version \in Version \ {NoVersion}
  BY ShapeTypes
<1>2. object.version.hash \in Body
  BY <1>1, VersionTypes
<1>3. /\ object.body \in Body /\ object.body # 0
      /\ Typed(object.body) = Typed(object.version.hash) /\ Typed(object.version.hash) # 0
  BY <1>2, Names
<1>4. /\ Shape(WithType(object)) /\ WithType(object).version = object.version
      /\ WithType(object).body = Typed(object.body)
  BY <1>3, WithTypeIs
<1> QED  BY <1>3, <1>4 DEF Sound

\* What is stored is sound, unless it is nothing but a version.
LEMMA StoredIs ==
    ASSUME NEW mode \in Mode, NEW master, Sound(master), NEW object, Sendable(object),
           NewVersion(mode, master, object).valid
    PROVE  LET write == NewVersion(mode, master, object)
               stored == WithType(write.object)
           IN /\ write.written \in Version /\ Shape(write.object)
              /\ stored \in Object /\ stored # Absent
              /\ stored.body = 0 => mode = "RejectStale" /\ Names0(master, object, write)
              /\ stored.body # 0 => Sound(stored)
<1>1. PICK write : write = NewVersion(mode, master, object)
  OBVIOUS
<1>2. PICK stored : stored = WithType(write.object)
  OBVIOUS
<1> DEFINE Good == /\ write.written \in Version /\ Shape(write.object)
                   /\ write.object.version # NoVersion
                   /\ \/ write.object.body \in {write.object.version.hash, Typed(write.object.version.hash)}
                      \/ mode = "RejectStale" /\ Names0(master, object, write)
<1>3. ASSUME mode = "ReplicatedWrite" PROVE Good
  <2>1. PICK merge : merge = updateVersionReplicating(master, object)
    OBVIOUS
  <2>2. /\ write.valid = merge.valid /\ write.object = merge.object
        /\ write.written = merge.object.version
    BY <1>1, <1>3, <2>1 DEF NewVersion
  <2>3. IsMergeable(object)
    <3> SUFFICES ASSUME ~IsMergeable(object)
                 PROVE  FALSE
      OBVIOUS
    <3>1. merge.valid = FALSE
      BY <2>1 DEF updateVersionReplicating
    <3> QED  BY <1>1, <2>2, <3>1
  <2>4. /\ Shape(merge.object) /\ merge.object.version # NoVersion
        /\ merge.object.body \in {merge.object.version.hash, Typed(merge.object.version.hash)}
    BY <2>1, <2>3, MergeIs, SoundHolds DEF Sendable
  <2>5. merge.object.version \in Version
    BY <2>4, ShapeTypes
  <2> QED  BY <2>2, <2>4, <2>5
<1>4. ASSUME mode = "Replace" PROVE Good
  <2>1. write = computeVersion(object, TRUE)
    BY <1>1, <1>4 DEF NewVersion
  <2> QED  BY <2>1, ComputeIs
<1>5. ASSUME mode = "RejectStale" PROVE Good
  <2>1. write = updateVersionOptimistic(master, object, TRUE)
    BY <1>1, <1>5 DEF NewVersion
  <2>2. Shape(write.object)
    BY <2>1, OptimisticIs
  <2>3. \/ Refuses(master, object, write) \/ Repeats(master, object, write)
        \/ Names0(master, object, write) \/ Extends(master, object, write)
        \/ Settles(master, object, write) \/ Revives(master, object, write)
    BY <2>1, OptimisticIs
  <2>4. /\ NextVersion(object.body, object.version) \in Version \ {NoVersion}
        /\ NextVersion(object.body, object.version).hash = object.body
        /\ IsReplay(object.body, object.version) => object.version # NoVersion
    BY NextVersionIs
  <2>5. ~Refuses(master, object, write)
    BY <1>1 DEF Refuses
  <2>6. ASSUME Repeats(master, object, write) PROVE Good
    <3>1. master # Absent
      BY <2>6 DEF Repeats, Heads, Absent
    <3>2. master.body = Typed(master.version.hash) /\ master.version # NoVersion
      BY <3>1 DEF Sound
    <3> QED  BY <2>2, <2>4, <2>6, <3>2 DEF Repeats
  <2>7. ASSUME Names0(master, object, write) PROVE Good
    <3>1. write.object.version = object.version /\ write.written = object.version
      BY <2>7 DEF Names0, Absent
    <3>2. object.version \in Version
      BY ShapeTypes DEF Sendable
    <3> QED  BY <1>5, <2>2, <2>4, <2>7, <3>1, <3>2 DEF Names0
  <2>8. ASSUME Extends(master, object, write) PROVE Good
    BY <2>2, <2>4, <2>8 DEF Extends
  <2>9. ASSUME Settles(master, object, write) PROVE Good
    <3>1. master # Absent
      BY <2>9 DEF Settles, Resolves, Absent
    <3>2. master.body = Typed(master.version.hash) /\ master.version # NoVersion
      BY <3>1 DEF Sound
    <3> QED  BY <2>2, <2>4, <2>9, <3>2 DEF Settles
  <2>10. ASSUME Revives(master, object, write) PROVE Good
    <3>1. master.version.count + 1 \in Nat \ {0} /\ object.body \in Body
      BY ShapeTypes, VersionTypes DEF Sound, Sendable
    <3>2. [count |-> master.version.count + 1, hash |-> object.body] \in Version \ {NoVersion}
      BY <3>1, VersionTypes
    <3>3. write.written.hash = object.body
      BY <2>10 DEF Revives
    <3> QED  BY <2>2, <2>10, <3>2, <3>3 DEF Revives
  <2> QED  BY <2>3, <2>5, <2>6, <2>7, <2>8, <2>9, <2>10
<1>6. Good
  <2> HIDE DEF Good
  <2> QED  BY <1>3, <1>4, <1>5 DEF Mode
<1>7. stored \in Object /\ stored # Absent
  <2>1. stored \in Object /\ stored.version = write.object.version
    BY <1>2, <1>6, WithTypeIs
  <2> QED  BY <1>6, <2>1 DEF Absent
<1>8. CASE write.object.body \in {write.object.version.hash, Typed(write.object.version.hash)}
  BY <1>1, <1>2, <1>6, <1>7, <1>8, SoundOf
<1>9. CASE mode = "RejectStale" /\ Names0(master, object, write)
  <2>1. stored.body = 0
    <3>1. write.object.body = 0
      BY <1>9 DEF Names0, Absent
    <3> QED  BY <1>2, <1>6, <3>1, WithTypeIs
  <2> QED  BY <1>1, <1>2, <1>6, <1>7, <1>9, <2>1
<1> QED  BY <1>6, <1>8, <1>9

\* Before the first object of a batch.
Start(partition, code) ==
    [table |-> partition, updated |-> <<>>, written |-> <<>>, code |-> code, returned |-> FALSE]

LEMMA UpdateAllIs ==
    ASSUME NEW partition, NEW mode, NEW batch, Len(batch) \in {1, 2}
    PROVE  LET once == UpdateOne(Start(partition, "NoError"), mode, batch[1])
           IN UpdateAll(partition, mode, batch)
                  = IF Len(batch) = 1 THEN once ELSE UpdateOne(once, mode, batch[2])
<1> DEFINE Step(acc, i) == UpdateOne(acc, mode, batch[i])
           start == Start(partition, "NoError")
           n == Len(batch)
           acc == CHOOSE f : f = [i \in 0 .. n |-> IF i = 0 THEN start ELSE Step(f[i - 1], i)]
<1>1. UpdateAll(partition, mode, batch) = acc[n]
  BY DEF UpdateAll, Start
<1>2. n \in {1, 2}
  OBVIOUS
<1>3. UpdateOne(start, mode, batch[1]) = Step(start, 1)
      /\ UpdateOne(Step(start, 1), mode, batch[2]) = Step(Step(start, 1), 2)
  OBVIOUS
<1> HIDE DEF Step, start, n
<1>4. PICK g : g = [i \in 0 .. n |-> IF i = 0 THEN start ELSE IF i = 1 THEN Step(start, 1)
                                                          ELSE Step(Step(start, 1), 2)]
  OBVIOUS
<1>5. g = [i \in 0 .. n |-> IF i = 0 THEN start ELSE Step(g[i - 1], i)]
  <2>1. \A i \in 0 .. n : g[i] = IF i = 0 THEN start ELSE Step(g[i - 1], i)
    <3> TAKE i \in 0 .. n
    <3>1. CASE i = 0
      BY <1>2, <1>4, <3>1
    <3>2. CASE i = 1
      <4>1. g[0] = start /\ g[1] = Step(start, 1) /\ i - 1 = 0
        BY <1>2, <1>4, <3>2
      <4> QED  BY <3>2, <4>1
    <3>3. CASE i = 2
      <4>1. g[1] = Step(start, 1) /\ g[2] = Step(Step(start, 1), 2) /\ i - 1 = 1
        BY <1>2, <1>4, <3>3
      <4> QED  BY <3>3, <4>1
    <3> QED  BY <1>2, <3>1, <3>2, <3>3
  <2> QED  BY <1>4, <2>1
<1>6. acc = [i \in 0 .. n |-> IF i = 0 THEN start ELSE Step(acc[i - 1], i)]
  BY <1>5
<1> HIDE DEF acc
<1>7. acc[0] = start /\ acc[1] = Step(start, 1) /\ (n = 2 => acc[2] = Step(Step(start, 1), 2))
  <2>1. \A i \in 0 .. n : acc[i] = IF i = 0 THEN start ELSE Step(acc[i - 1], i)
    BY <1>6
  <2>2. acc[0] = start
    BY <1>2, <2>1
  <2>3. acc[1] = Step(acc[0], 1)
    BY <1>2, <2>1
  <2>4. n = 2 => acc[2] = Step(acc[1], 2)
    BY <2>1
  <2> QED  BY <2>2, <2>3, <2>4
<1>8. UpdateAll(partition, mode, batch)
          = IF n = 1 THEN Step(start, 1) ELSE Step(Step(start, 1), 2)
  BY <1>1, <1>2, <1>7
<1> QED  BY <1>3, <1>8 DEF n, start

\* A batch writes nothing, ...
Nothing(partition, result) ==
    result.table = partition /\ result.updated = <<>> /\ result.written = <<>>

\* ... or one object.
Writes(partition, mode, uuid, object, result) ==
    LET write == NewVersion(mode, partition[uuid], object)
        stored == WithType(write.object)
        key == KeyOf(uuid, stored)
    IN /\ write.valid
       /\ result.table = [partition EXCEPT ![key] = stored]
       /\ \E old : result.updated = <<[key |-> key, old |-> old, new |-> stored]>>
       /\ result.written = <<[uuid |-> uuid, base |-> object.version,
                              version |-> write.written, object |-> object]>>

LEMMA WriteObjectIs ==
    ASSUME NEW partition, NEW code, NEW mode, NEW uuid, NEW object
    PROVE  LET result == WriteObject(Start(partition, code), mode, uuid, object)
           IN /\ Nothing(partition, result) \/ Writes(partition, mode, uuid, object, result)
              /\ result = [table |-> result.table, updated |-> result.updated,
                           written |-> result.written, code |-> result.code,
                           returned |-> result.returned]
<1>1. PICK acc : acc = Start(partition, code)
  OBVIOUS
<1>2. PICK write : write = NewVersion(mode, partition[uuid], object)
  OBVIOUS
<1>3. PICK stored : stored = WithType(write.object)
  OBVIOUS
<1>4. PICK key : key = KeyOf(uuid, stored)
  OBVIOUS
<1>5. PICK master : master = partition[uuid]
  OBVIOUS
<1>6. PICK old : old = IF master = Absent \/ isDeleted(master) THEN Absent ELSE master
  OBVIOUS
<1>7. PICK result : result = WriteObject(acc, mode, uuid, object)
  OBVIOUS
<1>8. acc = [table |-> partition, updated |-> <<>>, written |-> <<>>, code |-> code, returned |-> FALSE]
  BY <1>1 DEF Start
<1>9. \A c : Rejected(acc, c) = [table |-> partition, updated |-> <<>>, written |-> <<>>,
                                 code |-> c, returned |-> TRUE]
  <2> TAKE c
  <2>1. Rejected(acc, c) = [acc EXCEPT !.code = c, !.returned = TRUE]
    BY DEF Rejected
  <2> QED  BY <1>8, <2>1
<1>10. PICK change : change = [key |-> key, old |-> old, new |-> stored]
  OBVIOUS
<1>11. PICK entry : entry = [uuid |-> uuid, base |-> object.version,
                             version |-> write.written, object |-> object]
  OBVIOUS
<1>12. Append(acc.updated, change) = <<change>> /\ Append(acc.written, entry) = <<entry>>
  BY <1>8
<1>13. PICK table1 : table1 = [partition EXCEPT ![key] = stored]
  OBVIOUS
<1>14. \/ \E c : result = Rejected(acc, c)
       \/ /\ write.valid
          /\ result = [acc EXCEPT !.table[key] = stored,
                                  !.updated = Append(@, change), !.written = Append(@, entry)]
  BY <1>2, <1>3, <1>4, <1>5, <1>6, <1>7, <1>8, <1>10, <1>11 DEF WriteObject
<1>15. CASE \E c : result = Rejected(acc, c)
  BY <1>1, <1>7, <1>9, <1>15 DEF Nothing
<1>16. CASE write.valid /\ result = [acc EXCEPT !.table[key] = stored,
                                     !.updated = Append(@, change), !.written = Append(@, entry)]
  <2>1. result = [table |-> table1, updated |-> <<change>>, written |-> <<entry>>,
                  code |-> code, returned |-> FALSE]
    BY <1>8, <1>12, <1>13, <1>16
  <2>2. Writes(partition, mode, uuid, object, result)
    <3>1. /\ result.table = table1 /\ result.updated = <<change>> /\ result.written = <<entry>>
      BY <2>1
    <3> QED  BY <1>2, <1>3, <1>4, <1>10, <1>11, <1>13, <1>16, <3>1 DEF Writes
  <2> QED  BY <1>1, <1>7, <2>1, <2>2
<1> QED  BY <1>14, <1>15, <1>16

LEMMA ItemsAre ==
    ASSUME Typing, NEW mode \in Mode, NEW i \in Items(mode)
    PROVE  /\ i.fault = "none" /\ i.uuid \in Uuid /\ Sendable(i.object)
           /\ Tidiness /\ "revived" \notin exposed => Tidy(i.object)
           /\ Scraps /\ "scraps" \notin exposed => i.object.scraps = 0
           /\ mode = "ReplicatedWrite" =>
                 \E s \in seen : i.uuid = s.uuid /\ i.object = s.object
<1>1. ASSUME NEW s \in seen
      PROVE  /\ s.uuid \in Uuid /\ Sendable(s.object) /\ s.object # Absent
             /\ s.object \in [version : Version, body : Body \cup {0},
                              history : SUBSET (Version \ {NoVersion}),
                              conflicts : SUBSET [version : Version, body : Body], scraps : Nat]
  <2>1. s \in [uuid : Uuid, object : Object] /\ Sound(s.object) /\ s.object # Absent
    BY DEF Typing
  <2>2. s.object.version \in Version \ {NoVersion} /\ s.object.body = Typed(s.object.version.hash)
    BY <2>1, ShapeTypes DEF Sound
  <2>3. s.object.body \in Body
    BY <2>2, VersionTypes, Names
  <2> QED  BY <2>1, <2>3 DEF Sendable, Sound, Object
<1>2. ASSUME NEW s \in seen, i = [fault |-> "none", uuid |-> s.uuid, object |-> s.object]
      PROVE  /\ i.fault = "none" /\ i.uuid \in Uuid /\ Sendable(i.object)
             /\ Tidiness /\ "revived" \notin exposed => Tidy(i.object)
             /\ Scraps /\ "scraps" \notin exposed => i.object.scraps = 0
             /\ i.uuid = s.uuid /\ i.object = s.object
  BY <1>1, <1>2 DEF Tidiness, Scraps
<1>3. CASE mode = "ReplicatedWrite"
  <2>1. PICK s \in seen : i = [fault |-> "none", uuid |-> s.uuid, object |-> s.object]
    BY <1>3 DEF Items
  <2> QED  BY <1>2, <2>1
<1>4. CASE mode # "ReplicatedWrite"
  <2>1. CASE \E s \in seen : i = [fault |-> "none", uuid |-> s.uuid, object |-> s.object]
    BY <1>2, <1>4, <2>1
  <2>2. CASE \E s \in seen, b \in Body :
                 i = [[fault |-> "none", uuid |-> s.uuid, object |-> s.object] EXCEPT !.object.body = b]
    <3>1. PICK s \in seen, b \in Body :
              i = [[fault |-> "none", uuid |-> s.uuid, object |-> s.object] EXCEPT !.object.body = b]
      BY <2>2
    <3>2. PICK o : o = [s.object EXCEPT !.body = b]
      OBVIOUS
    <3>3. i = [fault |-> "none", uuid |-> s.uuid, object |-> o]
      BY <3>1, <3>2
    <3>4. /\ o \in Object /\ o.body = b /\ o.version = s.object.version
          /\ o.history = s.object.history /\ o.conflicts = s.object.conflicts
          /\ o.scraps = s.object.scraps
      BY <1>1, <3>2 DEF Object
    <3>5. Sendable(o) /\ (Tidy(s.object) => Tidy(o))
      BY <1>1, <3>4 DEF Sendable, Shape, Tidy
    <3> QED  BY <1>1, <1>4, <3>3, <3>4, <3>5 DEF Tidiness, Scraps
  <2>3. CASE \E u \in Uuid, b \in Body :
                 i = [fault |-> "none", uuid |-> u, object |-> Bare(NoVersion, b)]
    <3>1. PICK u \in Uuid, b \in Body :
              i = [fault |-> "none", uuid |-> u, object |-> Bare(NoVersion, b)]
      BY <2>3
    <3>2. Bare(NoVersion, b) = [version |-> NoVersion, body |-> b, history |-> {},
                                conflicts |-> {}, scraps |-> 0]
      <4>1. PICK none : none = Absent
        OBVIOUS
      <4>2. none = [version |-> NoVersion, body |-> 0, history |-> {}, conflicts |-> {}, scraps |-> 0]
        BY <4>1 DEF Absent
      <4>3. Bare(NoVersion, b) = [none EXCEPT !.version = NoVersion, !.body = b]
        BY <4>1 DEF Bare
      <4> QED  BY <4>2, <4>3
    <3>3. Bare(NoVersion, b) \in Object
      BY <3>2, VersionTypes DEF Object
    <3>4. Sendable(Bare(NoVersion, b)) /\ Tidy(Bare(NoVersion, b)) /\ Bare(NoVersion, b).scraps = 0
      BY <3>2, <3>3, FS_EmptySet DEF Sendable, Shape, Tidy
    <3> QED  BY <1>4, <3>1, <3>4
  <2> QED  BY <1>4, <2>1, <2>2, <2>3 DEF Items
<1> QED  BY <1>3, <1>4

LEMMA UpdateOneIs ==
    ASSUME NEW partition, NEW code, NEW mode, NEW item
    PROVE  LET acc == Start(partition, code)
           IN /\ item.fault = "none" =>
                    UpdateOne(acc, mode, item) = WriteObject(acc, mode, item.uuid, item.object)
              /\ item.fault = "reported" =>
                    UpdateOne(acc, mode, item)
                        = WriteObject(Start(partition, "MissingType"), mode, item.uuid, item.object)
<1>1. PICK acc : acc = Start(partition, code)
  OBVIOUS
<1>2. acc.returned = FALSE
  BY <1>1 DEF Start
<1>3. item.fault = "none" => UpdateOne(acc, mode, item) = WriteObject(acc, mode, item.uuid, item.object)
  BY <1>2 DEF UpdateOne
<1>4. item.fault = "reported" =>
          UpdateOne(acc, mode, item)
              = WriteObject([acc EXCEPT !.code = "MissingType"], mode, item.uuid, item.object)
  BY <1>2 DEF UpdateOne
<1>5. [acc EXCEPT !.code = "MissingType"] = Start(partition, "MissingType")
  <2>1. PICK no : no = FALSE
    OBVIOUS
  <2>2. acc = [table |-> partition, updated |-> <<>>, written |-> <<>>, code |-> code, returned |-> no]
    BY <1>1, <2>1 DEF Start
  <2>3. [acc EXCEPT !.code = "MissingType"]
            = [table |-> partition, updated |-> <<>>, written |-> <<>>,
               code |-> "MissingType", returned |-> no]
    BY <2>2
  <2> QED  BY <2>1, <2>3 DEF Start
<1> QED  BY <1>1, <1>3, <1>4, <1>5

LEMMA BatchIs ==
    ASSUME Typing, NEW mode \in Mode, NEW partition, NEW batch \in Batch(mode)
    PROVE  LET result == UpdateAll(partition, mode, batch)
           IN \/ Nothing(partition, result)
              \/ \E i \in Items(mode) : Writes(partition, mode, i.uuid, i.object, result)
<1> DEFINE Good(result) == \/ Nothing(partition, result)
                           \/ \E i \in Items(mode) : Writes(partition, mode, i.uuid, i.object, result)
<1> SUFFICES Good(UpdateAll(partition, mode, batch))
  OBVIOUS
<1>1. ASSUME NEW i \in Items(mode), NEW code
      PROVE  LET result == WriteObject(Start(partition, code), mode, i.uuid, i.object)
             IN /\ Good(result)
                /\ result = [table |-> result.table, updated |-> result.updated,
                             written |-> result.written, code |-> result.code,
                             returned |-> result.returned]
  BY ItemsAre, WriteObjectIs
<1>5. ASSUME NEW i \in Items(mode)
      PROVE  UpdateOne(Start(partition, "NoError"), mode, i)
                 = WriteObject(Start(partition, "NoError"), mode, i.uuid, i.object)
  BY ItemsAre, UpdateOneIs
<1>2. CASE \E i \in Items(mode) : batch = <<i>>
  <2>1. PICK i \in Items(mode) : batch = <<i>>
    BY <1>2
  <2>2. Len(batch) = 1 /\ batch[1] = i
    BY <2>1
  <2>3. UpdateAll(partition, mode, batch) = UpdateOne(Start(partition, "NoError"), mode, i)
    BY <2>2, UpdateAllIs
  <2> QED  BY <1>1, <1>5, <2>3
<1>3. CASE \E i \in Items(mode) :
               batch = <<[fault |-> "reported", uuid |-> i.uuid, object |-> i.object]>>
  <2>1. PICK i \in Items(mode) :
            batch = <<[fault |-> "reported", uuid |-> i.uuid, object |-> i.object]>>
    BY <1>3
  <2>2. /\ Len(batch) = 1 /\ batch[1].fault = "reported"
        /\ batch[1].uuid = i.uuid /\ batch[1].object = i.object
    BY <2>1
  <2>3. UpdateOne(Start(partition, "NoError"), mode, batch[1])
            = WriteObject(Start(partition, "MissingType"), mode, i.uuid, i.object)
    BY <2>2, UpdateOneIs
  <2>4. UpdateAll(partition, mode, batch) = UpdateOne(Start(partition, "NoError"), mode, batch[1])
    BY <2>2, UpdateAllIs
  <2> QED  BY <1>1, <2>3, <2>4
<1>4. CASE \E i \in Items(mode) : batch = <<i, [fault |-> "rejected"]>>
  <2>1. PICK i \in Items(mode) : batch = <<i, [fault |-> "rejected"]>>
    BY <1>4
  <2>2. Len(batch) = 2 /\ batch[1] = i /\ batch[2] = [fault |-> "rejected"]
    BY <2>1
  <2>3. batch[2].fault = "rejected"
    BY <2>2
  <2>4. PICK once : once = UpdateOne(Start(partition, "NoError"), mode, i)
    OBVIOUS
  <2>5. /\ Good(once)
        /\ once = [table |-> once.table, updated |-> once.updated, written |-> once.written,
                   code |-> once.code, returned |-> once.returned]
    BY <1>1, <1>5, <2>4
  <2>6. PICK result : result = UpdateAll(partition, mode, batch)
    OBVIOUS
  <2>7. result = UpdateOne(once, mode, batch[2])
    BY <2>2, <2>4, <2>6, UpdateAllIs
  <2>8. result = once \/ result = Rejected(once, "Failed")
    BY <2>3, <2>7 DEF UpdateOne
  <2>9. /\ result.table = once.table /\ result.updated = once.updated
        /\ result.written = once.written
    BY <2>5, <2>8 DEF Rejected
  <2>10. Good(result)
    BY <2>5, <2>9 DEF Nothing, Writes
  <2> QED  BY <2>6, <2>10
<1> HIDE DEF Good
<1> QED  BY <1>2, <1>3, <1>4 DEF Batch

-----------------------------------------------------------------------------
(***************************************************************************)
(* A call of updateObjects().                                              *)
(***************************************************************************)
Outcome(r, mode, result) ==
    \/ Nothing(table[r], result)
    \/ \E i \in Items(mode) : Writes(table[r], mode, i.uuid, i.object, result)

Does(r, mode, committed, result) ==
    /\ Outcome(r, mode, result)
    /\ table' = IF committed THEN [table EXCEPT ![r] = result.table] ELSE table
    /\ announced' = IF result.returned THEN announced
                    ELSE [announced EXCEPT ![r] = Announced(@, result.updated)]
    /\ seen' = seen \cup
           (IF committed
            THEN {[uuid |-> u, object |-> result.table[u]] : u \in {x \in Uuid : result.table[x] # Absent}}
            ELSE {})
    /\ basis' = basis \cup Basis(table[r], mode, result)
    /\ given' = IF result.code = "NoError" THEN [given EXCEPT ![r] = Given(r, mode, result)] ELSE given
    /\ exposed' = exposed \cup Exposed(table[r], mode, result, committed)

LEMMA StepIs ==
    ASSUME Typing, Next
    PROVE  \E r \in Replica, mode \in Mode, committed \in BOOLEAN :
               \E result : Does(r, mode, committed, result)
<1>1. PICK r \in Replica, mode \in Mode, committed \in IF "lost" \in Avoided THEN {TRUE} ELSE BOOLEAN :
          \E batch \in Batch(mode) : updateObjects(r, mode, batch, committed)
  BY DEF Next
<1>2. PICK batch \in Batch(mode) : updateObjects(r, mode, batch, committed)
  BY <1>1
<1>3. PICK result : result = UpdateAll(table[r], mode, batch)
  OBVIOUS
<1>4. Outcome(r, mode, result)
  BY <1>2, <1>3, BatchIs DEF Outcome
<1>5. Does(r, mode, committed, result)
  BY <1>2, <1>3, <1>4 DEF updateObjects, Does
<1> QED  BY <1>5

LEMMA WrittenIs ==
    ASSUME NEW entry, NEW result, result.written = <<entry>>
    PROVE  ToSet(result.written) = {entry}
BY DEF ToSet

LEMMA ResultIs ==
    ASSUME Typing, NEW r \in Replica, NEW mode \in Mode, NEW result, Outcome(r, mode, result)
    PROVE  /\ result.table \in [Key -> Object]
           /\ \A u \in Uuid : Sound(result.table[u])
<1>1. table[r] \in [Key -> Object] /\ (\A u \in Uuid : Sound(table[r][u])) /\ NoUuid \notin Uuid
  BY Names DEF Typing, TypeOK
<1>2. CASE Nothing(table[r], result)
  BY <1>1, <1>2 DEF Nothing
<1>3. CASE ~Nothing(table[r], result)
  <2>1. PICK i \in Items(mode) : Writes(table[r], mode, i.uuid, i.object, result)
    BY <1>3 DEF Outcome
  <2>2. PICK write : write = NewVersion(mode, table[r][i.uuid], i.object)
    OBVIOUS
  <2>3. PICK stored : stored = WithType(write.object)
    OBVIOUS
  <2>4. PICK key : key = KeyOf(i.uuid, stored)
    OBVIOUS
  <2>5. write.valid /\ result.table = [table[r] EXCEPT ![key] = stored]
    BY <2>1, <2>2, <2>3, <2>4 DEF Writes
  <2>6. i.uuid \in Uuid /\ Sound(table[r][i.uuid]) /\ Sendable(i.object)
    BY <1>1, ItemsAre
  <2>7. stored \in Object /\ (stored.body # 0 => Sound(stored))
    BY <2>2, <2>3, <2>5, <2>6, StoredIs
  <2>8. key \in Key /\ (key \in Uuid => stored.body # 0)
    BY <1>1, <2>4, <2>6 DEF KeyOf, Key
  <2> QED  BY <1>1, <2>5, <2>7, <2>8
<1> QED  BY <1>2, <1>3

\* What is in the tables after a call.
LEMMA TableIs ==
    ASSUME Typing, NEW r \in Replica, NEW mode \in Mode, NEW committed \in BOOLEAN, NEW result,
           Does(r, mode, committed, result)
    PROVE  /\ table' \in [Replica -> [Key -> Object]]
           /\ \A q \in Replica, k \in Key :
                 table'[q][k] = IF committed /\ q = r THEN result.table[k] ELSE table[q][k]
           /\ \A s \in seen' : s \in seen \/ \E u \in Uuid :
                 committed /\ result.table[u] # Absent /\ s = [uuid |-> u, object |-> result.table[u]]
<1>1. result.table \in [Key -> Object]
  BY ResultIs DEF Does
<1>2. table \in [Replica -> [Key -> Object]]
  BY DEF Typing, TypeOK
<1>3. table' = IF committed THEN [table EXCEPT ![r] = result.table] ELSE table
  BY DEF Does
<1>4. \A s \in seen' : s \in seen \/ \E u \in Uuid :
          committed /\ result.table[u] # Absent /\ s = [uuid |-> u, object |-> result.table[u]]
  BY DEF Does
<1> QED  BY <1>1, <1>2, <1>3, <1>4

LEMMA AnnouncedIs ==
    ASSUME NEW before, NEW updated
    PROVE  /\ updated = <<>> => Announced(before, updated) = [k \in Key |-> before[k]]
           /\ \A c : updated = <<c>> =>
                 Announced(before, updated) = [k \in Key |-> IF k = c.key THEN c.new.version ELSE before[k]]
<1>1. ASSUME updated = <<>> PROVE Announced(before, updated) = [k \in Key |-> before[k]]
  <2>1. DOMAIN updated = {}
    BY <1>1
  <2> QED  BY <2>1 DEF Announced
<1>2. ASSUME NEW c, updated = <<c>>
      PROVE  Announced(before, updated)
                 = [k \in Key |-> IF k = c.key THEN c.new.version ELSE before[k]]
  <2>1. DOMAIN updated = {1} /\ updated[1] = c
    BY <1>2
  <2>2. \A k : {i \in DOMAIN updated : updated[i].key = k} = IF k = c.key THEN {1} ELSE {}
    BY <2>1
  <2>3. Max({1}) = 1
    BY DEF Max
  <2> QED  BY <2>1, <2>2, <2>3 DEF Announced
<1> QED  BY <1>1, <1>2

\* The versions a write is on top of.
LEMMA BasisIs ==
    ASSUME NEW before, NEW mode, NEW result
    PROVE  /\ Nothing(before, result) => Basis(before, mode, result) = {}
           /\ \A u, object : Writes(before, mode, u, object, result) =>
                 LET written == NewVersion(mode, before[u], object).written
                 IN Basis(before, mode, result) =
                        IF mode = "ReplicatedWrite" THEN {}
                        ELSE {<<object.version, written>>,
                              <<IF isDeleted(before[u]) THEN before[u].version ELSE object.version,
                                written>>}
<1>1. ASSUME Nothing(before, result) PROVE Basis(before, mode, result) = {}
  <2>1. ToSet(result.written) = {}
    BY <1>1 DEF Nothing, ToSet
  <2> QED  BY <2>1 DEF Basis
<1>2. ASSUME NEW u, NEW object, Writes(before, mode, u, object, result)
      PROVE  LET written == NewVersion(mode, before[u], object).written
             IN Basis(before, mode, result) =
                    IF mode = "ReplicatedWrite" THEN {}
                    ELSE {<<object.version, written>>,
                          <<IF isDeleted(before[u]) THEN before[u].version ELSE object.version,
                            written>>}
  <2>1. PICK written : written = NewVersion(mode, before[u], object).written
    OBVIOUS
  <2>2. PICK w : w = [uuid |-> u, base |-> object.version, version |-> written, object |-> object]
    OBVIOUS
  <2>3. ToSet(result.written) = {w}
    BY <1>2, <2>1, <2>2, WrittenIs DEF Writes
  <2>4. w.uuid = u /\ w.base = object.version /\ w.version = written
    BY <2>2
  <2>5. mode # "ReplicatedWrite" => Basis(before, mode, result) =
            {<<w.base, w.version>>,
             <<IF isDeleted(before[w.uuid]) THEN before[w.uuid].version ELSE w.base, w.version>>}
    BY <2>3 DEF Basis
  <2> QED  BY <2>1, <2>4, <2>5 DEF Basis
<1> QED  BY <1>1, <1>2

\* The versions a partition has acknowledged or merged.
Others(object) == {c.version : c \in object.conflicts}

LEMMA GivenNothing ==
    ASSUME NEW r, NEW mode, NEW result, NEW x \in Uuid, Nothing(table[r], result)
    PROVE  Given(r, mode, result)[x] = given[r][x]
<1> DEFINE mine == Written(result, x)
<1>1. Given(r, mode, result)[x] =
          CASE mode = "Replace" /\ mine # {} -> {w.version : w \in mine}
            [] mode = "ReplicatedWrite" ->
                  given[r][x] \cup {w.object.version : w \in mine}
                              \cup UNION {{c.version : c \in w.object.conflicts} : w \in mine}
            [] OTHER -> given[r][x] \cup {w.version : w \in mine}
  BY DEF Given
<1>2. mine = {w \in ToSet(result.written) : w.uuid = x}
  BY DEF Written
<1> HIDE DEF mine
<1>3. ASSUME mine = {} PROVE Given(r, mode, result)[x] = given[r][x]
  <2>1. CASE mode = "ReplicatedWrite"
    BY <1>1, <1>3, <2>1
  <2>2. CASE mode # "ReplicatedWrite"
    BY <1>1, <1>3, <2>2
  <2> QED  BY <2>1, <2>2
<1>4. Given(r, mode, result)[x] = given[r][x]
  <2>1. ToSet(result.written) = {}
    BY DEF Nothing, ToSet
  <2> QED  BY <1>2, <1>3, <2>1
<1> QED  BY <1>4

LEMMA GivenIs ==
    ASSUME NEW r, NEW mode, NEW result, NEW x \in Uuid, NEW w, result.written = <<w>>,
           NEW mine, mine = given[r][x]
    PROVE  /\ x # w.uuid => Given(r, mode, result)[x] = mine
           /\ x = w.uuid /\ mode = "Replace" => Given(r, mode, result)[x] = {w.version}
           /\ x = w.uuid /\ mode = "ReplicatedWrite" =>
                 Given(r, mode, result)[x] = mine \cup {w.object.version} \cup Others(w.object)
           /\ x = w.uuid /\ mode \notin {"Replace", "ReplicatedWrite"} =>
                 Given(r, mode, result)[x] = mine \cup {w.version}
<1> DEFINE written == Written(result, x)
<1>1. Given(r, mode, result)[x] =
          CASE mode = "Replace" /\ written # {} -> {v.version : v \in written}
            [] mode = "ReplicatedWrite" ->
                  mine \cup {v.object.version : v \in written}
                       \cup UNION {{c.version : c \in v.object.conflicts} : v \in written}
            [] OTHER -> mine \cup {v.version : v \in written}
  BY DEF Given
<1>2. written = {v \in ToSet(result.written) : v.uuid = x}
  BY DEF Written
<1>3. ToSet(result.written) = {w}
  BY WrittenIs
<1>4. written = IF x = w.uuid THEN {w} ELSE {}
  BY <1>2, <1>3
<1> HIDE DEF written
<1>5. CASE x # w.uuid
  <2>1. written = {}
    BY <1>4, <1>5
  <2>2. CASE mode = "ReplicatedWrite"
    BY <1>1, <1>5, <2>1, <2>2
  <2>3. CASE mode # "ReplicatedWrite"
    BY <1>1, <1>5, <2>1, <2>3
  <2> QED  BY <2>2, <2>3
<1>6. CASE x = w.uuid
  <2>1. written = {w}
    BY <1>4, <1>6
  <2>2. /\ {v.version : v \in written} = {w.version}
        /\ {v.object.version : v \in written} = {w.object.version}
    BY <2>1
  <2>3. UNION {{c.version : c \in v.object.conflicts} : v \in written} = Others(w.object)
    BY <2>1 DEF Others
  <2>4. CASE mode = "Replace"
    BY <1>1, <1>6, <2>1, <2>2, <2>4
  <2>5. CASE mode = "ReplicatedWrite"
    BY <1>1, <1>6, <2>2, <2>3, <2>5
  <2>6. CASE mode \notin {"Replace", "ReplicatedWrite"}
    BY <1>1, <1>6, <2>2, <2>6
  <2> QED  BY <1>6, <2>4, <2>5, <2>6
<1> QED  BY <1>5, <1>6

-----------------------------------------------------------------------------
(***************************************************************************)
(* What every call keeps.                                                  *)
(***************************************************************************)
LEMMA TypingKeeps ==
    ASSUME Typing, NEW r \in Replica, NEW mode \in Mode, NEW committed \in BOOLEAN, NEW result,
           Does(r, mode, committed, result)
    PROVE  Typing'
<1>1. /\ table' \in [Replica -> [Key -> Object]]
      /\ \A q \in Replica, k \in Key :
            table'[q][k] = IF committed /\ q = r THEN result.table[k] ELSE table[q][k]
      /\ \A s \in seen' : s \in seen \/ \E u \in Uuid :
            committed /\ result.table[u] # Absent /\ s = [uuid |-> u, object |-> result.table[u]]
  BY TableIs
<1>2. result.table \in [Key -> Object] /\ \A u \in Uuid : Sound(result.table[u])
  BY ResultIs DEF Does
<1>3. /\ announced[r] \in [Key -> Version] /\ given[r] \in [Uuid -> SUBSET Version]
      /\ announced \in [Replica -> [Key -> Version]]
      /\ given \in [Replica -> [Uuid -> SUBSET Version]]
      /\ table[r] \in [Key -> Object] /\ \A u \in Uuid : Sound(table[r][u])
  BY DEF Typing, TypeOK
<1>4. Uuid \subseteq Key
  BY DEF Key
<1>5. Outcome(r, mode, result)
  BY DEF Does
<1>6. ASSUME ~Nothing(table[r], result)
      PROVE  \E i \in Items(mode) :
                /\ Writes(table[r], mode, i.uuid, i.object, result)
                /\ i.uuid \in Uuid /\ Sendable(i.object)
                /\ i.object.version \in Version
                /\ \A c \in i.object.conflicts : c.version \in Version
                /\ NewVersion(mode, table[r][i.uuid], i.object).written \in Version
  <2>1. PICK i \in Items(mode) : Writes(table[r], mode, i.uuid, i.object, result)
    BY <1>5, <1>6 DEF Outcome
  <2>2. i.uuid \in Uuid /\ Sendable(i.object) /\ Sound(table[r][i.uuid])
    BY <1>3, ItemsAre
  <2>3. NewVersion(mode, table[r][i.uuid], i.object).valid
    BY <2>1 DEF Writes
  <2>4. NewVersion(mode, table[r][i.uuid], i.object).written \in Version
    BY <2>2, <2>3, StoredIs
  <2>5. i.object.version \in Version /\ \A c \in i.object.conflicts : c.version \in Version
    BY <2>2, ShapeTypes DEF Sendable
  <2> QED  BY <2>1, <2>2, <2>4, <2>5
<1>7. Announced(announced[r], result.updated) \in [Key -> Version]
  <2>1. CASE Nothing(table[r], result)
    <3>1. result.updated = <<>>
      BY <2>1 DEF Nothing
    <3> QED  BY <1>3, <3>1, AnnouncedIs
  <2>2. CASE ~Nothing(table[r], result)
    <3>1. PICK i \in Items(mode) : Writes(table[r], mode, i.uuid, i.object, result) /\ i.uuid \in Uuid
      BY <1>6, <2>2
    <3>2. PICK stored : stored = WithType(NewVersion(mode, table[r][i.uuid], i.object).object)
      OBVIOUS
    <3>3. PICK key : key = KeyOf(i.uuid, stored)
      OBVIOUS
    <3>4. PICK old : result.updated = <<[key |-> key, old |-> old, new |-> stored]>>
      BY <3>1, <3>2, <3>3 DEF Writes
    <3>5. PICK c : c = [key |-> key, old |-> old, new |-> stored]
      OBVIOUS
    <3>6. key \in Key
      BY <3>1, <3>3 DEF KeyOf, Key
    <3>7. result.table = [table[r] EXCEPT ![key] = stored]
      BY <3>1, <3>2, <3>3 DEF Writes
    <3>8. stored \in Object
      BY <1>2, <1>3, <3>6, <3>7
    <3>9. c.new.version \in Version
      <4>1. CASE stored = Absent
        BY <3>5, <4>1, VersionTypes DEF Absent
      <4>2. CASE stored # Absent
        BY <3>5, <3>8, <4>2 DEF Object
      <4> QED  BY <4>1, <4>2
    <3>10. Announced(announced[r], result.updated)
               = [k \in Key |-> IF k = c.key THEN c.new.version ELSE announced[r][k]]
      BY <3>4, <3>5, AnnouncedIs
    <3> QED  BY <1>3, <3>9, <3>10
  <2> QED  BY <2>1, <2>2
<1>8. announced' \in [Replica -> [Key -> Version]]
  BY <1>3, <1>7 DEF Does
<1>9. given' \in [Replica -> [Uuid -> SUBSET Version]]
  <2>1. \A x \in Uuid : Given(r, mode, result)[x] \in SUBSET Version
    <3> TAKE x \in Uuid
    <3>1. CASE Nothing(table[r], result)
      BY <1>3, <3>1, GivenNothing
    <3>2. CASE ~Nothing(table[r], result)
      <4>1. PICK i \in Items(mode) :
                /\ Writes(table[r], mode, i.uuid, i.object, result)
                /\ i.uuid \in Uuid
                /\ i.object.version \in Version
                /\ \A c \in i.object.conflicts : c.version \in Version
                /\ NewVersion(mode, table[r][i.uuid], i.object).written \in Version
        BY <1>6, <3>2
      <4>2. given[r][x] \in SUBSET Version
        BY <1>3
      <4>3. PICK w : w = [uuid |-> i.uuid, base |-> i.object.version,
                          version |-> NewVersion(mode, table[r][i.uuid], i.object).written,
                          object |-> i.object]
        OBVIOUS
      <4>4. result.written = <<w>>
        BY <4>1, <4>3 DEF Writes
      <4>5. w.version \in Version /\ w.object.version \in Version /\ Others(w.object) \subseteq Version
        BY <4>1, <4>3 DEF Others
      <4>6. PICK mine : mine = given[r][x]
        OBVIOUS
      <4>7. mine \in SUBSET Version
        BY <4>2, <4>6
      <4>8. \/ Given(r, mode, result)[x] = mine
            \/ Given(r, mode, result)[x] = {w.version}
            \/ Given(r, mode, result)[x] = mine \cup {w.object.version} \cup Others(w.object)
            \/ Given(r, mode, result)[x] = mine \cup {w.version}
        BY <4>4, <4>6, GivenIs
      <4> QED  BY ONLY <4>5, <4>7, <4>8
    <3> QED  BY <3>1, <3>2
  <2>2. DOMAIN Given(r, mode, result) = Uuid /\ Given(r, mode, result) = [x \in Uuid |-> Given(r, mode, result)[x]]
    BY DEF Given
  <2>3. Given(r, mode, result) \in [Uuid -> SUBSET Version]
    BY <2>1, <2>2
  <2> QED  BY <1>3, <2>3 DEF Does
<1>10. basis' \subseteq Version \X Version
  <2>1. Basis(table[r], mode, result) \subseteq Version \X Version
    <3>1. CASE Nothing(table[r], result)
      BY <3>1, BasisIs
    <3>2. CASE ~Nothing(table[r], result)
      <4>1. PICK i \in Items(mode) :
                /\ Writes(table[r], mode, i.uuid, i.object, result)
                /\ i.uuid \in Uuid
                /\ i.object.version \in Version
                /\ NewVersion(mode, table[r][i.uuid], i.object).written \in Version
        BY <1>6, <3>2
      <4>2. table[r][i.uuid].version \in Version
        BY <1>3, <4>1, ShapeTypes DEF Sound
      <4> QED  BY <4>1, <4>2, BasisIs
    <3> QED  BY <3>1, <3>2
  <2> QED  BY <2>1 DEF Does, Typing, TypeOK
<1>11. exposed' \subseteq Exposure
  BY DEF Does, Exposed, Typing, TypeOK
<1>12. \A q \in Replica, u \in Uuid : Sound(table'[q][u])
  BY <1>1, <1>2, <1>4 DEF Typing
<1>13. \A s \in seen' : s \in [uuid : Uuid, object : Object] /\ Sound(s.object) /\ s.object # Absent
  <2> TAKE s \in seen'
  <2>1. CASE s \in seen
    BY <2>1 DEF Typing
  <2>2. CASE s \notin seen
    <3>1. PICK u \in Uuid : result.table[u] # Absent /\ s = [uuid |-> u, object |-> result.table[u]]
      BY <1>1, <2>2
    <3>2. result.table[u] \in Object /\ Sound(result.table[u])
      BY <1>2, <1>4
    <3> QED  BY <3>1, <3>2
  <2> QED  BY <2>1, <2>2
<1> QED  BY <1>1, <1>8, <1>9, <1>10, <1>11, <1>12, <1>13 DEF Typing, TypeOK

\* Exposures are remembered.
LEMMA ExposedIs ==
    ASSUME NEW r \in Replica, NEW mode \in Mode, NEW committed \in BOOLEAN, NEW result,
           Does(r, mode, committed, result)
    PROVE  /\ exposed \subseteq exposed'
           /\ "scraps" \notin exposed' => \A k \in Key : ~(result.table[k].scraps > 0)
           /\ "nameless" \notin exposed' => result.table[NoUuid] = Absent
           /\ "lost" \notin exposed' => committed \/ result.updated = <<>>
           /\ "silent" \notin exposed' => ~(result.returned /\ result.updated # <<>> /\ committed)
           /\ "replaced" \notin exposed' => mode # "Replace" \/ result.written = <<>>
<1>1. \A e \in Exposure : e \notin exposed' => e \notin Exposed(table[r], mode, result, committed)
  BY DEF Does
<1>2. {"scraps", "nameless", "lost", "silent", "replaced", "revived", "sidelined"} \subseteq Exposure
  BY DEF Exposure
<1>3. "scraps" \notin exposed' => \A k \in Key : ~(result.table[k].scraps > 0)
  BY <1>1, <1>2 DEF Exposed
<1>4. "nameless" \notin exposed' => result.table[NoUuid] = Absent
  BY <1>1, <1>2 DEF Exposed
<1>5. "lost" \notin exposed' => committed \/ result.updated = <<>>
  BY <1>1, <1>2 DEF Exposed
<1>6. "silent" \notin exposed' => ~(result.returned /\ result.updated # <<>> /\ committed)
  BY <1>1, <1>2 DEF Exposed
<1>7. "replaced" \notin exposed' => mode # "Replace" \/ result.written = <<>>
  BY <1>1, <1>2 DEF Exposed
<1>8. exposed \subseteq exposed'
  BY DEF Does
<1> QED  BY <1>3, <1>4, <1>5, <1>6, <1>7, <1>8

\* A call that wrote: object i of its batch, onto this, which gave stored.
Wrote(r, mode, result, i, this, write, stored, key) ==
    /\ i \in Items(mode) /\ i.uuid \in Uuid /\ Sendable(i.object)
    /\ this = table[r][i.uuid] /\ Sound(this)
    /\ write = NewVersion(mode, this, i.object) /\ write.valid
    /\ stored = WithType(write.object) /\ stored \in Object
    /\ key = KeyOf(i.uuid, stored) /\ key \in Key
    /\ \A k \in Key : result.table[k] = IF k = key THEN stored ELSE table[r][k]
    /\ \E old : result.updated = <<[key |-> key, old |-> old, new |-> stored]>>
    /\ result.written = <<[uuid |-> i.uuid, base |-> i.object.version,
                          version |-> write.written, object |-> i.object]>>

LEMMA WroteIs ==
    ASSUME Typing, NEW r \in Replica, NEW mode \in Mode, NEW result,
           Outcome(r, mode, result), ~Nothing(table[r], result)
    PROVE  \E i, this, write, stored, key : Wrote(r, mode, result, i, this, write, stored, key)
<1>1. PICK i \in Items(mode) : Writes(table[r], mode, i.uuid, i.object, result)
  BY DEF Outcome
<1>2. i.uuid \in Uuid /\ Sendable(i.object) /\ i.uuid \in Key
  BY ItemsAre DEF Key
<1>3. PICK this : this = table[r][i.uuid]
  OBVIOUS
<1>4. PICK write : write = NewVersion(mode, this, i.object)
  OBVIOUS
<1>5. PICK stored : stored = WithType(write.object)
  OBVIOUS
<1>6. PICK key : key = KeyOf(i.uuid, stored)
  OBVIOUS
<1>7. Sound(this) /\ table[r] \in [Key -> Object]
  BY <1>2, <1>3 DEF Typing, TypeOK
<1>8. /\ write.valid
      /\ result.table = [table[r] EXCEPT ![key] = stored]
      /\ \E old : result.updated = <<[key |-> key, old |-> old, new |-> stored]>>
      /\ result.written = <<[uuid |-> i.uuid, base |-> i.object.version,
                             version |-> write.written, object |-> i.object]>>
  BY <1>1, <1>3, <1>4, <1>5, <1>6 DEF Writes
<1>9. key \in Key
  BY <1>2, <1>6 DEF KeyOf, Key
<1>10. stored \in Object
  BY <1>2, <1>4, <1>5, <1>7, <1>8, StoredIs
<1>11. \A k \in Key : result.table[k] = IF k = key THEN stored ELSE table[r][k]
  BY <1>7, <1>8, <1>9
<1>12. Wrote(r, mode, result, i, this, write, stored, key)
  BY <1>1, <1>2, <1>3, <1>4, <1>5, <1>6, <1>7, <1>8, <1>9, <1>10, <1>11 DEF Wrote
<1> QED  BY <1>12

LEMMA ScrapsKeeps ==
    ASSUME Typing, Scraps, NEW r \in Replica, NEW mode \in Mode, NEW committed \in BOOLEAN,
           NEW result, Does(r, mode, committed, result)
    PROVE  Scraps'
<1> SUFFICES ASSUME "scraps" \notin exposed'
             PROVE  /\ \A q \in Replica, u \in Uuid : table'[q][u].scraps = 0
                    /\ \A s \in seen' : s.object.scraps = 0
  BY DEF Scraps
<1>1. "scraps" \notin exposed /\ \A k \in Key : ~(result.table[k].scraps > 0)
  BY ExposedIs
<1>2. Uuid \subseteq Key
  BY DEF Key
<1>3. ASSUME NEW u \in Uuid PROVE result.table[u].scraps = 0
  <2>1. Sound(result.table[u])
    BY ResultIs DEF Does
  <2>2. result.table[u].scraps \in Nat
    BY <2>1, ShapeTypes DEF Sound
  <2>3. ~(result.table[u].scraps > 0)
    BY <1>1, <1>2
  <2> QED  BY <2>2, <2>3
<1>4. /\ \A q \in Replica, k \in Key :
            table'[q][k] = IF committed /\ q = r THEN result.table[k] ELSE table[q][k]
      /\ \A s \in seen' : s \in seen \/ \E u \in Uuid :
            committed /\ result.table[u] # Absent /\ s = [uuid |-> u, object |-> result.table[u]]
  BY TableIs
<1>5. /\ \A q \in Replica, u \in Uuid : table[q][u].scraps = 0
      /\ \A s \in seen : s.object.scraps = 0
  BY <1>1 DEF Scraps
<1>6. \A q \in Replica, u \in Uuid : table'[q][u].scraps = 0
  BY <1>2, <1>3, <1>4, <1>5
<1>7. \A s \in seen' : s.object.scraps = 0
  BY <1>3, <1>4, <1>5
<1> QED  BY <1>6, <1>7

LEMMA NamelessKeeps ==
    ASSUME Typing, Nameless, NEW r \in Replica, NEW mode \in Mode, NEW committed \in BOOLEAN,
           NEW result, Does(r, mode, committed, result)
    PROVE  Nameless'
<1> SUFFICES ASSUME "nameless" \notin exposed', NEW q \in Replica
             PROVE  table'[q][NoUuid] = Absent
  BY DEF Nameless
<1>1. "nameless" \notin exposed /\ result.table[NoUuid] = Absent
  BY ExposedIs
<1>2. NoUuid \in Key
  BY DEF Key
<1>3. table'[q][NoUuid] = IF committed /\ q = r THEN result.table[NoUuid] ELSE table[q][NoUuid]
  BY <1>2, TableIs
<1> QED  BY <1>1, <1>3 DEF Nameless

LEMMA ToldKeeps ==
    ASSUME Typing, Told, NEW r \in Replica, NEW mode \in Mode, NEW committed \in BOOLEAN,
           NEW result, Does(r, mode, committed, result)
    PROVE  Told'
<1> SUFFICES ASSUME Without({"silent", "lost"})', NEW q \in Replica, NEW k \in Key
             PROVE  announced'[q][k] = table'[q][k].version
  BY DEF Told
<1>1. "silent" \notin exposed' /\ "lost" \notin exposed' /\ exposed \subseteq exposed'
  BY ExposedIs DEF Without
<1>2. \A p \in Replica, j \in Key : announced[p][j] = table[p][j].version
  BY <1>1 DEF Told, Without
<1>3. committed \/ result.updated = <<>>
  BY <1>1, ExposedIs
<1>4. ~(result.returned /\ result.updated # <<>> /\ committed)
  BY <1>1, ExposedIs
<1>5. table'[q][k] = IF committed /\ q = r THEN result.table[k] ELSE table[q][k]
  BY TableIs
<1>6. announced \in [Replica -> [Key -> Version]]
  BY DEF Typing, TypeOK
<1>7. announced' = IF result.returned THEN announced
                   ELSE [announced EXCEPT ![r] = Announced(announced[r], result.updated)]
  BY DEF Does
<1>8. CASE q # r
  BY <1>2, <1>5, <1>6, <1>7, <1>8
<1>9. CASE q = r /\ Nothing(table[r], result)
  <2>1. result.updated = <<>> /\ result.table = table[r]
    BY <1>9 DEF Nothing
  <2>2. Announced(announced[r], result.updated) = [j \in Key |-> announced[r][j]]
    BY <2>1, AnnouncedIs
  <2>3. announced'[r][k] = announced[r][k]
    BY <1>6, <1>7, <2>2
  <2> QED  BY <1>2, <1>5, <1>9, <2>1, <2>3
<1>10. CASE q = r /\ ~Nothing(table[r], result)
  <2>1. PICK i, this, write, stored, key : Wrote(r, mode, result, i, this, write, stored, key)
    BY <1>10, WroteIs DEF Does
  <2>2. PICK old : result.updated = <<[key |-> key, old |-> old, new |-> stored]>>
    BY <2>1 DEF Wrote
  <2>3. PICK c : c = [key |-> key, old |-> old, new |-> stored]
    OBVIOUS
  <2>4. result.updated = <<c>> /\ c.key = key /\ c.new = stored
    BY <2>2, <2>3
  <2>5. result.updated # <<>>
    BY <2>4
  <2>6. committed /\ ~result.returned
    BY <1>3, <1>4, <2>5
  <2>7. Announced(announced[r], result.updated)
            = [j \in Key |-> IF j = c.key THEN c.new.version ELSE announced[r][j]]
    BY <2>4, AnnouncedIs
  <2>8. announced'[r][k] = IF k = key THEN stored.version ELSE announced[r][k]
    BY <1>6, <1>7, <2>4, <2>6, <2>7
  <2>9. result.table[k] = IF k = key THEN stored ELSE table[r][k]
    BY <2>1 DEF Wrote
  <2> QED  BY <1>2, <1>5, <1>10, <2>6, <2>8, <2>9
<1> QED  BY <1>8, <1>9, <1>10

\* The exposures of a write.
LEMMA WroteExposed ==
    ASSUME NEW r \in Replica, NEW mode \in Mode, NEW committed \in BOOLEAN, NEW result,
           Does(r, mode, committed, result),
           NEW i, NEW this, NEW write, NEW stored, NEW key,
           Wrote(r, mode, result, i, this, write, stored, key)
    PROVE  /\ "replaced" \notin exposed' => mode # "Replace"
           /\ "lost" \notin exposed' => committed
           /\ "revived" \notin exposed' /\ mode = "RejectStale" /\ isDeleted(this) =>
                 ~IsReplay(i.object.body, i.object.version) /\ Older(i.object.version, write.written)
           /\ "sidelined" \notin exposed' /\ mode = "RejectStale" /\ Resolves(this, i.object.version) =>
                 isDeleted(i.object) \/ IsReplay(i.object.body, i.object.version)
<1>1. PICK w : w = [uuid |-> i.uuid, base |-> i.object.version,
                    version |-> write.written, object |-> i.object]
  OBVIOUS
<1>2. result.written = <<w>>
  BY <1>1 DEF Wrote
<1>3. ToSet(result.written) = {w}
  BY <1>2, WrittenIs
<1>4. \A e \in Exposure : e \notin exposed' => e \notin Exposed(table[r], mode, result, committed)
  BY DEF Does
<1>5. {"revived", "sidelined"} \subseteq Exposure
  BY DEF Exposure
<1>6. /\ w.uuid = i.uuid /\ w.base = i.object.version /\ w.version = write.written
      /\ w.object = i.object /\ table[r][w.uuid] = this
  BY <1>1 DEF Wrote
<1>7. ASSUME "revived" \notin exposed', mode = "RejectStale", isDeleted(this)
      PROVE  ~IsReplay(i.object.body, i.object.version) /\ Older(i.object.version, write.written)
  <2>1. ~\E v \in ToSet(result.written) :
            /\ isDeleted(table[r][v.uuid])
            /\ v.object.body = v.base.hash \/ ~Older(v.base, v.version)
    BY <1>4, <1>5, <1>7 DEF Exposed
  <2>2. ~(isDeleted(table[r][w.uuid]) /\ (w.object.body = w.base.hash \/ ~Older(w.base, w.version)))
    BY <1>3, <2>1
  <2>3. isDeleted(table[r][w.uuid])
    BY <1>6, <1>7
  <2> QED  BY <1>6, <2>2, <2>3 DEF IsReplay
<1>8. ASSUME "sidelined" \notin exposed', mode = "RejectStale", Resolves(this, i.object.version)
      PROVE  isDeleted(i.object) \/ IsReplay(i.object.body, i.object.version)
  <2>1. ~\E v \in ToSet(result.written) :
            /\ Resolves(table[r][v.uuid], v.base)
            /\ ~isDeleted(v.object) /\ v.object.body # v.base.hash
    BY <1>4, <1>5, <1>8 DEF Exposed
  <2>2. ~(Resolves(table[r][w.uuid], w.base) /\ ~isDeleted(w.object) /\ w.object.body # w.base.hash)
    BY <1>3, <2>1
  <2>3. Resolves(table[r][w.uuid], w.base)
    BY <1>6, <1>8
  <2> QED  BY <1>6, <2>2, <2>3 DEF IsReplay
<1>9. result.written # <<>>
  BY <1>2
<1>10. result.updated # <<>>
  BY DEF Wrote
<1>11. "replaced" \notin exposed' => mode # "Replace"
  BY <1>9, ExposedIs
<1>12. "lost" \notin exposed' => committed
  BY <1>10, ExposedIs
<1> QED  BY <1>7, <1>8, <1>11, <1>12

\* A valid replicated write is a merge.
LEMMA ReplicatedIs ==
    ASSUME NEW this, NEW object, NEW write, write = NewVersion("ReplicatedWrite", this, object),
           write.valid
    PROVE  /\ IsMergeable(object)
           /\ write.object = updateVersionReplicating(this, object).object
<1>1. PICK merge : merge = updateVersionReplicating(this, object)
  OBVIOUS
<1>2. write = [valid |-> merge.valid, object |-> merge.object, written |-> merge.object.version]
  BY <1>1 DEF NewVersion
<1>3. ~IsMergeable(object) => merge = [valid |-> FALSE, object |-> this]
  BY <1>1 DEF updateVersionReplicating
<1>4. IsMergeable(object)
  BY <1>2, <1>3
<1> QED  BY <1>1, <1>2, <1>4

LEMMA TidyKeeps ==
    ASSUME NEW mode \in Mode, NEW this, Sound(this), Tidy(this),
           NEW object, Sendable(object), Tidy(object),
           NEW write, write = NewVersion(mode, this, object), write.valid,
           mode = "RejectStale" /\ isDeleted(this) => ~IsReplay(object.body, object.version)
    PROVE  Tidy(WithType(write.object))
<1>1. Shape(write.object)
  BY StoredIs
<1>2. CASE mode = "Replace"
  <2>1. write = computeVersion(object, TRUE)
    BY <1>2 DEF NewVersion
  <2>2. Tidy(write.object)
    BY <2>1, ComputeIs
  <2> QED  BY <1>1, <2>2, WithTypeIs
<1>3. CASE mode = "ReplicatedWrite"
  <2>1. /\ IsMergeable(object)
        /\ write.object = updateVersionReplicating(this, object).object
    BY <1>3, ReplicatedIs
  <2>2. Tidy(write.object)
    BY <2>1, MergeIs, SoundHolds DEF Sendable
  <2> QED  BY <1>1, <2>2, WithTypeIs
<1>4. CASE mode = "RejectStale"
  <2>1. write = updateVersionOptimistic(this, object, TRUE)
    BY <1>4 DEF NewVersion
  <2>2. \/ Refuses(this, object, write)
        \/ Repeats(this, object, write)
        \/ Names0(this, object, write)
        \/ Extends(this, object, write)
        \/ Settles(this, object, write)
        \/ Revives(this, object, write)
    BY <2>1, OptimisticIs
  <2>3. ~Refuses(this, object, write)
    BY DEF Refuses
  <2>4. Tidy(write.object)
    <3>1. CASE Repeats(this, object, write)
      BY <3>1 DEF Repeats
    <3>2. CASE Names0(this, object, write)
      <4>1. write.object.conflicts = {}
        BY <3>2 DEF Names0, Absent
      <4> QED  BY <4>1 DEF Tidy
    <3>3. CASE Extends(this, object, write)
      BY <3>3 DEF Extends, Tidy
    <3>4. CASE Settles(this, object, write)
      BY <3>4 DEF Settles, Tidy
    <3>5. CASE Revives(this, object, write)
      <4>1. write.object.conflicts = {}
        BY <1>4, <3>5 DEF Revives
      <4> QED  BY <4>1 DEF Tidy
    <3> QED  BY <2>2, <2>3, <3>1, <3>2, <3>3, <3>4, <3>5
  <2> QED  BY <1>1, <2>4, WithTypeIs
<1> QED  BY <1>2, <1>3, <1>4 DEF Mode

LEMMA TidinessKeeps ==
    ASSUME Typing, Tidiness, NEW r \in Replica, NEW mode \in Mode, NEW committed \in BOOLEAN,
           NEW result, Does(r, mode, committed, result)
    PROVE  Tidiness'
<1> SUFFICES ASSUME "revived" \notin exposed'
             PROVE  /\ \A q \in Replica, u \in Uuid : Tidy(table'[q][u])
                    /\ \A s \in seen' : Tidy(s.object)
  BY DEF Tidiness
<1>1. "revived" \notin exposed
  BY ExposedIs
<1>2. Uuid \subseteq Key /\ NoUuid \notin Uuid
  BY Names DEF Key
<1>3. ASSUME NEW u \in Uuid PROVE Tidy(result.table[u])
  <2>1. Tidy(table[r][u])
    BY <1>1 DEF Tidiness
  <2>2. CASE Nothing(table[r], result)
    BY <2>1, <2>2 DEF Nothing
  <2>3. CASE ~Nothing(table[r], result)
    <3>1. PICK i, this, write, stored, key : Wrote(r, mode, result, i, this, write, stored, key)
      BY <2>3, WroteIs DEF Does
    <3>2. Tidy(i.object) /\ Tidy(this) /\ Sound(this) /\ Sendable(i.object)
      BY <1>1, <3>1, ItemsAre DEF Wrote, Tidiness
    <3>3. mode = "RejectStale" /\ isDeleted(this) => ~IsReplay(i.object.body, i.object.version)
      BY <3>1, WroteExposed
    <3>4. write = NewVersion(mode, this, i.object) /\ write.valid /\ stored = WithType(write.object)
      BY <3>1 DEF Wrote
    <3>5. Tidy(stored)
      BY <3>2, <3>3, <3>4, TidyKeeps
    <3>6. result.table[u] = IF u = key THEN stored ELSE table[r][u]
      BY <1>2, <3>1 DEF Wrote
    <3> QED  BY <2>1, <3>5, <3>6
  <2> QED  BY <2>2, <2>3
<1>4. /\ \A q \in Replica, k \in Key :
            table'[q][k] = IF committed /\ q = r THEN result.table[k] ELSE table[q][k]
      /\ \A s \in seen' : s \in seen \/ \E u \in Uuid :
            committed /\ result.table[u] # Absent /\ s = [uuid |-> u, object |-> result.table[u]]
  BY TableIs
<1>5. /\ \A q \in Replica, u \in Uuid : Tidy(table[q][u])
      /\ \A s \in seen : Tidy(s.object)
  BY <1>1 DEF Tidiness
<1>6. \A q \in Replica, u \in Uuid : Tidy(table'[q][u])
  BY <1>2, <1>3, <1>4, <1>5
<1>7. \A s \in seen' : Tidy(s.object)
  BY <1>3, <1>4, <1>5
<1> QED  BY <1>6, <1>7

\* A tidy head that is written leaves no conflict behind.
LEMMA HeadOnlyIs ==
    ASSUME NEW object, Shape(object), object.conflicts = {}
    PROVE  Heads(object) \subseteq {object.version} /\ Others(object) = {}
BY DEF Heads, Others

LEMMA HeadsAre ==
    ASSUME NEW object, object # Absent
    PROVE  Heads(object) = {object.version} \cup Others(object)
BY DEF Heads, Others

\* An optimistic write keeps an open branch: what is written may stand for
\* what it replaced.
LEMMA OptimisticKeeps ==
    ASSUME NEW this, Sound(this), this.scraps = 0, Tidy(this),
           NEW other, Sendable(other),
           NEW write, write = updateVersionOptimistic(this, other, TRUE), write.valid,
           write.object.scraps = 0, write.object.version # NoVersion,
           ~Names0(this, other, write),
           isDeleted(this) => /\ ~IsReplay(other.body, other.version)
                              /\ Older(other.version, write.written),
           Resolves(this, other.version) => isDeleted(other) \/ IsReplay(other.body, other.version),
           NEW branch, IsOpen(branch), Overtaken(this, branch),
           other.version \in branch => write.written \in branch
    PROVE  /\ Overtaken(write.object, branch)
           /\ branch \cap (Heads(this) \cup {write.written}) # {} =>
                 branch \cap Heads(write.object) # {}
<1>1. PICK m, w, v : m = write.object /\ w = write.written /\ v = other.version
  OBVIOUS
<1>2. \/ Refuses(this, other, write)
      \/ Repeats(this, other, write)
      \/ Extends(this, other, write)
      \/ Settles(this, other, write)
      \/ Revives(this, other, write)
  BY OptimisticIs
<1>3. ~Refuses(this, other, write)
  BY DEF Refuses
<1>4. /\ branch \in SUBSET Version
      /\ \A y \in branch : y.hash \notin Tombstone
  BY DEF IsOpen, Ended
<1>5. /\ v \in Version /\ this.version \in Version
      /\ this.history \subseteq Version /\ NoVersion \in Version
  BY <1>1, ShapeTypes, VersionTypes DEF Sound, Sendable
<1>6. /\ NextVersion(other.body, v) \in Version /\ NextVersion(other.body, v).hash = other.body
      /\ ~IsReplay(other.body, v) => Older(v, NextVersion(other.body, v))
  BY <1>1, NextVersionIs
<1>7. \A y : y \in Ancestor(v) <=> y = v /\ v # NoVersion
  BY DEF Ancestor
<1>8. \A x \in this.history \cap branch : \E y \in Heads(this) \cap branch : Older(x, y)
  BY DEF Overtaken
<1>9. m # Absent
  <2>1. Absent.version = NoVersion
    BY DEF Absent
  <2> QED  BY <1>1, <2>1
<1>10. m.version \in Heads(m)
  BY <1>9 DEF Heads
<1>11. v \in branch => w \in branch
  BY <1>1
<1>12. m.version # NoVersion /\ m.scraps = 0
  BY <1>1
<1>13. isDeleted(this) => ~IsReplay(other.body, v) /\ Older(v, w)
  BY <1>1
<1>14. Resolves(this, v) => isDeleted(other) \/ IsReplay(other.body, v)
  BY <1>1
<1>15. CASE Repeats(this, other, write)
  <2>1. m = this /\ w \in this.history \cup Heads(this)
    BY <1>1, <1>15 DEF Repeats
  <2>2. Overtaken(m, branch)
    BY <2>1
  <2>3. branch \cap (Heads(this) \cup {w}) # {} => branch \cap Heads(m) # {}
    BY <1>8, <2>1
  <2> QED  BY <1>1, <2>2, <2>3
<1>16. CASE Extends(this, other, write)
  <2>1. /\ ~IsReplay(other.body, v) /\ this.version \in {NoVersion, v}
        /\ w = NextVersion(other.body, v)
        /\ m.version = w
        /\ m.history = this.history \cup Ancestor(v) \cup (IF Resolves(this, v) THEN {w} ELSE {})
        /\ this.conflicts = {}
    BY <1>1, <1>12, <1>16 DEF Extends, ProgressesHead
  <2>2. ~Resolves(this, v)
    BY <2>1 DEF Resolves
  <2>3. Older(v, w)
    BY <1>6, <2>1
  <2>4. \A y \in Heads(this) : y = v
    <3>1. CASE this = Absent
      BY <3>1 DEF Heads
    <3>2. CASE this # Absent
      <4>1. this.version # NoVersion
        BY <3>2 DEF Sound
      <4> QED  BY <2>1, <4>1, HeadOnlyIs DEF Sound
    <3> QED  BY <3>1, <3>2
  <2>5. \A x \in m.history \cap branch : \E y \in Heads(m) \cap branch : Older(x, y)
    <3> TAKE x \in m.history \cap branch
    <3>1. x \in this.history \/ x = v
      BY <1>7, <2>1, <2>2
    <3>2. CASE x = v
      BY <1>10, <1>11, <2>1, <2>3, <3>2
    <3>3. CASE x \in this.history
      <4>1. v \in branch /\ Older(x, v)
        BY <1>8, <2>4, <3>3
      <4>2. Older(x, w)
        <5>1. x \in Version /\ w \in Version
          BY <1>5, <1>6, <2>1, <3>3
        <5> QED  BY <1>5, <2>3, <4>1, <5>1, Order
      <4> QED  BY <1>10, <1>11, <2>1, <4>1, <4>2
    <3> QED  BY <3>1, <3>2, <3>3
  <2>6. branch \cap (Heads(this) \cup {w}) # {} => branch \cap Heads(m) # {}
    BY <1>10, <1>11, <2>1, <2>4
  <2> QED  BY <1>1, <2>5, <2>6 DEF Overtaken
<1>17. CASE Settles(this, other, write)
  <2>1. /\ ~IsReplay(other.body, v) /\ Resolves(this, v)
        /\ w = NextVersion(other.body, v)
        /\ m.version = this.version
        /\ m.history = this.history \cup {w} \cup Ancestor(v)
        /\ \A c \in this.conflicts : c.version = v
    BY <1>1, <1>12, <1>17 DEF Settles
  <2>2. w.hash \in Tombstone
    BY <1>6, <1>14, <2>1 DEF isDeleted
  <2>3. w \notin branch /\ v \notin branch
    BY <1>4, <1>11, <2>2
  <2>4. \A y \in Heads(this) : y = this.version \/ y = v
    BY <2>1 DEF Heads
  <2>5. \A x \in m.history \cap branch : \E y \in Heads(m) \cap branch : Older(x, y)
    <3> TAKE x \in m.history \cap branch
    <3>1. x \in this.history
      BY <1>7, <2>1, <2>3
    <3>2. PICK y \in Heads(this) \cap branch : Older(x, y)
      BY <1>8, <3>1
    <3>3. y = m.version
      BY <2>1, <2>3, <2>4, <3>2
    <3> QED  BY <1>10, <3>2, <3>3
  <2>6. branch \cap (Heads(this) \cup {w}) # {} => branch \cap Heads(m) # {}
    BY <1>10, <2>1, <2>3, <2>4
  <2> QED  BY <1>1, <2>5, <2>6 DEF Overtaken
<1>18. CASE Revives(this, other, write)
  <2>1. isDeleted(this)
    BY <1>18 DEF Revives
  <2>2. ~IsReplay(other.body, v) /\ Older(v, w)
    BY <1>13, <2>1
  <2>3. /\ m.version = w /\ w = [count |-> this.version.count + 1, hash |-> other.body]
        /\ m.history = this.history \cup Ancestor(v) \cup {this.version}
        /\ this.conflicts = {}
    BY <1>1, <1>12, <1>18, <2>2 DEF Revives
  <2>4. this.version \notin branch
    <3>1. this # Absent /\ this.version # NoVersion
      <4>1. 0 \notin Tombstone
        BY Names
      <4>2. this # Absent
        BY <2>1, <4>1 DEF isDeleted, Absent
      <4> QED  BY <4>2 DEF Sound
    <3>2. this.body = Typed(this.version.hash)
      BY <3>1 DEF Sound
    <3>3. this.version.hash \in Body
      BY <1>5, <3>1, VersionTypes
    <3>4. this.version.hash \in Tombstone
      BY <2>1, <3>2, <3>3, Names DEF isDeleted
    <3> QED  BY <1>4, <3>4
  <2>5. \A y \in Heads(this) : y = this.version
    BY <2>3, HeadOnlyIs DEF Sound
  <2>6. \A x \in m.history \cap branch : \E y \in Heads(m) \cap branch : Older(x, y)
    <3> TAKE x \in m.history \cap branch
    <3>1. x = v
      BY <1>7, <1>8, <2>3, <2>4, <2>5
    <3> QED  BY <1>10, <1>11, <2>2, <2>3, <3>1
  <2>7. branch \cap (Heads(this) \cup {w}) # {} => branch \cap Heads(m) # {}
    BY <1>10, <2>3, <2>4, <2>5
  <2> QED  BY <1>1, <2>6, <2>7 DEF Overtaken
<1> QED  BY <1>2, <1>3, <1>15, <1>16, <1>17, <1>18

\* So does a merge.
LEMMA ReplicatedKeeps ==
    ASSUME NEW this, Sound(this), this.scraps = 0,
           NEW other, Shape(other), other # Absent, IsMergeable(other),
           NEW m, m = updateVersionReplicating(this, other).object,
           NEW branch, IsOpen(branch), Overtaken(this, branch), Overtaken(other, branch)
    PROVE  /\ Overtaken(m, branch)
           /\ branch \cap (Heads(this) \cup Heads(other)) # {} => branch \cap Heads(m) # {}
<1>1. /\ Overtaken(m, branch)
      /\ \A d \in Merged(this, other) : d.version \in branch =>
            \E y \in Heads(m) \cap branch : y = d.version \/ Older(d.version, y)
  BY MergeKeeps
<1>2. other.scraps = 0
  BY DEF IsMergeable
<1>3. \A y \in Heads(other) : \E d \in Merged(this, other) : d.version = y
  <2> TAKE y \in Heads(other)
  <2>1. PICK d \in Documents(other) : d.version = y
    BY <1>2, HeadsAreVersions
  <2> QED  BY <2>1, MergedFacts, SoundHolds
<1>4. \A y \in Heads(this) : \E d \in Merged(this, other) : d.version = y
  <2> TAKE y \in Heads(this)
  <2>1. this # Absent
    BY DEF Heads
  <2>2. PICK d \in Documents(this) : d.version = y
    BY <2>1, HeadsAreVersions DEF Sound
  <2>3. Documents(this) \subseteq Merged(this, other)
    BY <2>1, MergedFacts, SoundHolds
  <2> QED  BY <2>2, <2>3
<1> QED  BY <1>1, <1>3, <1>4

\* A branch that is open after a call was open before it.
LEMMA OpenBefore ==
    ASSUME NEW r \in Replica, NEW mode \in Mode, NEW committed \in BOOLEAN, NEW result,
           Does(r, mode, committed, result), NEW branch, IsOpen(branch)'
    PROVE  IsOpen(branch)
<1>1. basis \subseteq basis'
  BY DEF Does
<1> QED  BY <1>1 DEF IsOpen, IsBranch, Ended

\* What a write that is not left out makes of an open branch.
LEMMA StoredKeeps ==
    ASSUME Typing, Scraps, Tidiness, Nameless, Kept,
           NEW r \in Replica, NEW mode \in Mode, NEW committed \in BOOLEAN, NEW result,
           Does(r, mode, committed, result), Without(Losing)',
           NEW i, NEW this, NEW write, NEW stored, NEW key,
           Wrote(r, mode, result, i, this, write, stored, key),
           NEW branch, IsOpen(branch)'
    PROVE  /\ key = i.uuid
           /\ Overtaken(stored, branch)
           /\ branch \cap Heads(this) # {} => branch \cap Heads(stored) # {}
           /\ mode # "ReplicatedWrite" /\ write.written \in branch => branch \cap Heads(stored) # {}
           /\ mode = "ReplicatedWrite"
                 /\ branch \cap ({i.object.version} \cup Others(i.object)) # {}
                    => branch \cap Heads(stored) # {}
<1>1. \A e \in Losing : e \notin exposed' /\ e \notin exposed
  BY ExposedIs DEF Without
<1>2. /\ "replaced" \notin exposed' /\ "scraps" \notin exposed' /\ "lost" \notin exposed'
      /\ "nameless" \notin exposed' /\ "revived" \notin exposed' /\ "sidelined" \notin exposed'
      /\ "scraps" \notin exposed /\ "revived" \notin exposed /\ "nameless" \notin exposed
      /\ Without(Losing)
  BY <1>1 DEF Losing, Without
<1>3. /\ i \in Items(mode) /\ i.uuid \in Uuid /\ Sendable(i.object)
      /\ this = table[r][i.uuid] /\ Sound(this)
      /\ write = NewVersion(mode, this, i.object) /\ write.valid
      /\ stored = WithType(write.object) /\ key = KeyOf(i.uuid, stored) /\ key \in Key
      /\ \A k \in Key : result.table[k] = IF k = key THEN stored ELSE table[r][k]
  BY DEF Wrote
<1>4. IsOpen(branch)
  BY OpenBefore
<1>5. /\ this.scraps = 0 /\ Tidy(this) /\ Overtaken(this, branch)
      /\ Tidy(i.object) /\ i.object.scraps = 0
  BY <1>2, <1>3, <1>4, ItemsAre DEF Scraps, Tidiness, Kept, Recorded
<1>6. Shape(write.object) /\ stored # Absent
      /\ (stored.body = 0 => mode = "RejectStale" /\ Names0(this, i.object, write))
      /\ (stored.body # 0 => Sound(stored))
  BY <1>3, StoredIs
<1>7. stored.body # 0
  <2>1. SUFFICES ASSUME stored.body = 0 PROVE FALSE
    OBVIOUS
  <2>2. key = NoUuid
    BY <1>3, <2>1 DEF KeyOf
  <2>3. result.table[NoUuid] = stored
    BY <1>3, <2>2
  <2>4. result.table[NoUuid] = Absent
    BY <1>2, ExposedIs
  <2> QED  BY <1>6, <2>3, <2>4
<1>8. key = i.uuid
  BY <1>3, <1>7 DEF KeyOf
<1>9. stored.scraps = 0 /\ stored.version # NoVersion
  <2>1. result.table[key].scraps = stored.scraps
    BY <1>3
  <2>2. ~(stored.scraps > 0)
    BY <1>2, <1>3, <2>1, ExposedIs, SMTT(30)
  <2>3. Sound(stored)
    BY <1>6, <1>7
  <2>4. stored.scraps \in Nat
    BY <2>3, ShapeTypes DEF Sound
  <2> QED  BY <1>6, <2>2, <2>3, <2>4 DEF Sound
<1>10. /\ stored.version = write.object.version /\ stored.history = write.object.history
       /\ stored.conflicts = write.object.conflicts /\ stored.scraps = write.object.scraps
       /\ stored.body = IF write.object.body = 0 THEN 0 ELSE Typed(write.object.body)
  BY <1>3, <1>6, WithTypeIs
<1>11. write.object # Absent
  <2>1. Absent.version = NoVersion
    BY DEF Absent
  <2> QED  BY <1>9, <1>10, <2>1
<1>12. Heads(stored) = Heads(write.object)
  <2>1. Others(stored) = Others(write.object)
    BY <1>10 DEF Others
  <2> QED  BY <1>6, <1>10, <1>11, <2>1, HeadsAre
<1>13. Overtaken(write.object, branch) => Overtaken(stored, branch)
  BY <1>10, <1>12 DEF Overtaken
<1>14. CASE mode = "ReplicatedWrite"
  <2>1. IsMergeable(i.object) /\ write.object = updateVersionReplicating(this, i.object).object
    BY <1>3, <1>14, ReplicatedIs
  <2>2. PICK s \in seen : i.uuid = s.uuid /\ i.object = s.object
    BY <1>3, <1>14, ItemsAre
  <2>3. i.object # Absent /\ Shape(i.object)
    BY <2>2 DEF Typing, Sound
  <2>4. Overtaken(i.object, branch)
    BY <1>2, <1>4, <2>2 DEF Kept, Recorded
  <2>5. /\ Overtaken(write.object, branch)
        /\ branch \cap (Heads(this) \cup Heads(i.object)) # {} => branch \cap Heads(write.object) # {}
    BY <1>3, <1>4, <1>5, <2>1, <2>3, <2>4, ReplicatedKeeps
  <2>6. Heads(i.object) = {i.object.version} \cup Others(i.object)
    BY <2>3, HeadsAre
  <2> QED  BY <1>8, <1>12, <1>13, <1>14, <2>5, <2>6
<1>15. CASE mode = "RejectStale"
  <2>1. write = updateVersionOptimistic(this, i.object, TRUE)
    BY <1>3, <1>15 DEF NewVersion
  <2>2. ~Names0(this, i.object, write)
    <3>1. SUFFICES ASSUME Names0(this, i.object, write) PROVE FALSE
      OBVIOUS
    <3>2. write.object.body = 0
      BY <3>1 DEF Names0, Absent
    <3> QED  BY <1>7, <1>10, <3>2
  <2>3. /\ isDeleted(this) => /\ ~IsReplay(i.object.body, i.object.version)
                              /\ Older(i.object.version, write.written)
        /\ Resolves(this, i.object.version) =>
              isDeleted(i.object) \/ IsReplay(i.object.body, i.object.version)
    BY <1>2, <1>15, WroteExposed
  <2>4. i.object.version \in branch => write.written \in branch
    <3>1. PICK w : w = [uuid |-> i.uuid, base |-> i.object.version,
                        version |-> write.written, object |-> i.object]
      OBVIOUS
    <3>2. result.written = <<w>>
      BY <3>1 DEF Wrote
    <3>3. ToSet(result.written) = {w}
      BY <3>2, WrittenIs
    <3>4. <<w.base, w.version>> \in Basis(table[r], mode, result)
      BY <1>15, <3>3 DEF Basis
    <3>5. <<i.object.version, write.written>> \in basis'
      BY <3>1, <3>4 DEF Does
    <3>6. IsBranch(branch)'
      BY DEF IsOpen
    <3>7. \A p \in basis' : p[1] \in branch => p[2] \in branch
      BY <3>6 DEF IsBranch
    <3> QED  BY <3>5, <3>7
  <2>5. /\ Overtaken(write.object, branch)
        /\ branch \cap (Heads(this) \cup {write.written}) # {} => branch \cap Heads(write.object) # {}
    <3>1. /\ Sound(this) /\ this.scraps = 0 /\ Tidy(this)
          /\ Sendable(i.object) /\ write.valid
          /\ write.object.scraps = 0 /\ write.object.version # NoVersion
          /\ IsOpen(branch) /\ Overtaken(this, branch)
      BY <1>3, <1>4, <1>5, <1>9, <1>10
    <3> QED  BY ONLY <2>1, <2>2, <2>3, <2>4, <3>1, OptimisticKeeps
  <2> QED  BY <1>8, <1>12, <1>13, <1>15, <2>5
<1> QED  BY <1>2, <1>14, <1>15, WroteExposed DEF Mode

LEMMA KeptKeeps ==
    ASSUME Typing, Scraps, Tidiness, Nameless, Kept,
           NEW r \in Replica, NEW mode \in Mode, NEW committed \in BOOLEAN, NEW result,
           Does(r, mode, committed, result)
    PROVE  Kept'
<1> SUFFICES ASSUME Without(Losing)'
             PROVE  /\ \A branch : IsOpen(branch)' =>
                          \A q \in Replica, u \in Uuid : Overtaken(table'[q][u], branch)
                    /\ \A branch : IsOpen(branch)' => \A s \in seen' : Overtaken(s.object, branch)
                    /\ \A branch : IsOpen(branch)' =>
                          \A q \in Replica, u \in Uuid :
                             branch \cap given'[q][u] # {} => branch \cap Heads(table'[q][u]) # {}
  BY DEF Kept, Recorded
<1>1. Without(Losing) /\ "lost" \notin exposed' /\ "replaced" \notin exposed'
  BY ExposedIs DEF Without, Losing
<1>2. /\ \A q \in Replica, u \in Uuid : Recorded(table[q][u])
      /\ \A s \in seen : Recorded(s.object)
      /\ \A branch : IsOpen(branch) =>
            \A q \in Replica, u \in Uuid :
                branch \cap given[q][u] # {} => branch \cap Heads(table[q][u]) # {}
  BY <1>1 DEF Kept
<1>3. \A branch : IsOpen(branch)' => IsOpen(branch)
  BY OpenBefore
<1>4. Uuid \subseteq Key /\ NoUuid \notin Uuid
  BY Names DEF Key
<1>5. /\ \A q \in Replica, k \in Key :
            table'[q][k] = IF committed /\ q = r THEN result.table[k] ELSE table[q][k]
      /\ \A s \in seen' : s \in seen \/ \E u \in Uuid :
            committed /\ result.table[u] # Absent /\ s = [uuid |-> u, object |-> result.table[u]]
  BY TableIs
<1>6. given \in [Replica -> [Uuid -> SUBSET Version]]
  BY DEF Typing, TypeOK
<1>7. given' = IF result.code = "NoError" THEN [given EXCEPT ![r] = Given(r, mode, result)] ELSE given
  BY DEF Does
<1>8. ASSUME NEW branch, IsOpen(branch)', NEW u \in Uuid
      PROVE  Overtaken(result.table[u], branch)
  <2>1. Overtaken(table[r][u], branch)
    BY <1>2, <1>3, <1>8 DEF Recorded
  <2>2. CASE Nothing(table[r], result)
    BY <2>1, <2>2 DEF Nothing
  <2>3. CASE ~Nothing(table[r], result)
    <3>1. PICK i, this, write, stored, key : Wrote(r, mode, result, i, this, write, stored, key)
      BY <2>3, WroteIs DEF Does
    <3>2. Overtaken(stored, branch)
      BY <1>8, <3>1, StoredKeeps
    <3>3. result.table[u] = IF u = key THEN stored ELSE table[r][u]
      BY <1>4, <3>1 DEF Wrote
    <3> QED  BY <2>1, <3>2, <3>3
  <2> QED  BY <2>2, <2>3
<1>9. ASSUME NEW branch, IsOpen(branch)', NEW q \in Replica, NEW u \in Uuid,
             branch \cap given'[q][u] # {}
      PROVE  branch \cap Heads(table'[q][u]) # {}
  <2>1. branch \cap given[q][u] # {} => branch \cap Heads(table[q][u]) # {}
    BY <1>2, <1>3, <1>9
  <2>2. table'[q][u] = IF committed /\ q = r THEN result.table[u] ELSE table[q][u]
    BY <1>4, <1>5
  <2>3. CASE q # r
    <3>1. given'[q][u] = given[q][u]
      BY <1>6, <1>7, <2>3
    <3> QED  BY <1>9, <2>1, <2>2, <2>3, <3>1
  <2>4. CASE q = r /\ Nothing(table[r], result)
    <3>1. Given(r, mode, result)[u] = given[r][u]
      BY <2>4, GivenNothing
    <3>2. given'[r][u] = given[r][u]
      BY <1>6, <1>7, <3>1
    <3>3. table'[r][u] = table[r][u]
      BY <2>2, <2>4 DEF Nothing
    <3> QED  BY <1>9, <2>1, <2>4, <3>2, <3>3
  <2>5. CASE q = r /\ ~Nothing(table[r], result)
    <3>1. PICK i, this, write, stored, key : Wrote(r, mode, result, i, this, write, stored, key)
      BY <2>5, WroteIs DEF Does
    <3>2. /\ key = i.uuid
          /\ branch \cap Heads(this) # {} => branch \cap Heads(stored) # {}
          /\ mode # "ReplicatedWrite" /\ write.written \in branch => branch \cap Heads(stored) # {}
          /\ mode = "ReplicatedWrite"
                /\ branch \cap ({i.object.version} \cup Others(i.object)) # {}
                   => branch \cap Heads(stored) # {}
      BY <1>9, <3>1, StoredKeeps
    <3>3. committed /\ mode # "Replace"
      BY <1>1, <3>1, WroteExposed
    <3>4. table'[r][u] = IF u = key THEN stored ELSE table[r][u]
      BY <1>4, <2>2, <2>5, <3>1, <3>3 DEF Wrote
    <3>5. PICK w : w = [uuid |-> i.uuid, base |-> i.object.version,
                        version |-> write.written, object |-> i.object]
      OBVIOUS
    <3>6. result.written = <<w>> /\ w.uuid = i.uuid /\ w.version = write.written /\ w.object = i.object
      BY <3>1, <3>5 DEF Wrote
    <3>7. PICK mine : mine = given[r][u]
      OBVIOUS
    <3>8. /\ u # w.uuid => Given(r, mode, result)[u] = mine
          /\ u = w.uuid /\ mode = "ReplicatedWrite" =>
                 Given(r, mode, result)[u] = mine \cup {w.object.version} \cup Others(w.object)
          /\ u = w.uuid /\ mode \notin {"Replace", "ReplicatedWrite"} =>
                 Given(r, mode, result)[u] = mine \cup {w.version}
      BY <3>6, <3>7, GivenIs
    <3>9. given'[r][u] \in {mine, Given(r, mode, result)[u]}
      BY <1>6, <1>7, <3>7
    <3>10. CASE u # key
      <4>1. given'[r][u] = mine
        BY <3>2, <3>6, <3>8, <3>9, <3>10
      <4> QED  BY <1>9, <2>1, <2>5, <3>4, <3>7, <3>10, <4>1
    <3>11. CASE u = key
      <4>1. this = table[r][u]
        BY <3>1, <3>2, <3>11 DEF Wrote
      <4>2. branch \cap mine # {} => branch \cap Heads(stored) # {}
        BY <2>1, <2>5, <3>2, <3>7, <4>1
      <4>3. CASE mode = "ReplicatedWrite"
        <5>1. \/ given'[r][u] = mine
              \/ given'[r][u] = mine \cup {i.object.version} \cup Others(i.object)
          BY <3>2, <3>6, <3>8, <3>9, <3>11, <4>3
        <5> QED  BY <1>9, <2>5, <3>2, <3>4, <3>11, <4>2, <4>3, <5>1
      <4>4. CASE mode # "ReplicatedWrite"
        <5>1. given'[r][u] = mine \/ given'[r][u] = mine \cup {write.written}
          BY <3>2, <3>3, <3>6, <3>8, <3>9, <3>11, <4>4
        <5> QED  BY <1>9, <2>5, <3>2, <3>4, <3>11, <4>2, <4>4, <5>1
      <4> QED  BY <4>3, <4>4
    <3> QED  BY <3>10, <3>11
  <2> QED  BY <2>3, <2>4, <2>5
<1>10. ASSUME NEW q \in Replica, NEW u \in Uuid, NEW branch, IsOpen(branch)'
       PROVE  Overtaken(table'[q][u], branch)
  <2>1. Overtaken(table[q][u], branch)
    BY <1>2, <1>3, <1>10 DEF Recorded
  <2>2. Overtaken(result.table[u], branch)
    BY <1>8, <1>10
  <2> QED  BY <1>4, <1>5, <2>1, <2>2
<1>11. ASSUME NEW s \in seen', NEW branch, IsOpen(branch)'
       PROVE  Overtaken(s.object, branch)
  <2>1. CASE s \in seen
    BY <1>2, <1>3, <1>11, <2>1 DEF Recorded
  <2>2. CASE s \notin seen
    <3>1. PICK u \in Uuid : s = [uuid |-> u, object |-> result.table[u]]
      BY <1>5, <1>11, <2>2
    <3> QED  BY <1>8, <1>11, <3>1
  <2> QED  BY <2>1, <2>2
<1> QED  BY <1>9, <1>10, <1>11

-----------------------------------------------------------------------------
(***************************************************************************)
(* The invariant.                                                          *)
(***************************************************************************)
LEMMA AbsentIsSound == Sound(Absent)
<1>1. /\ Absent.version = NoVersion /\ Absent.history = {} /\ Absent.conflicts = {}
      /\ Absent.scraps = 0 /\ Absent \in Object
  BY DEF Absent, Object
<1> QED  BY <1>1, FS_EmptySet DEF Sound, Shape

LEMMA BareIsSound ==
    ASSUME NEW version \in Version \ {NoVersion}
    PROVE  Sound(Bare(version, Typed(version.hash)))
<1>1. version.hash \in Body /\ Typed(version.hash) \in Body
  BY VersionTypes, Names
<1>2. PICK object : object = Bare(version, Typed(version.hash))
  OBVIOUS
<1>3. object = [version |-> version, body |-> Typed(version.hash), history |-> {},
                conflicts |-> {}, scraps |-> 0]
  BY <1>2 DEF Bare, Absent
<1>4. object \in Object
  BY <1>1, <1>3 DEF Object
<1>5. Shape(object)
  BY <1>3, <1>4, FS_EmptySet DEF Shape
<1> QED  BY <1>2, <1>3, <1>5 DEF Sound

LEMMA InitIInv == Init => IInv
<1> SUFFICES ASSUME Init PROVE IInv
  OBVIOUS
<1>1. PICK first \in [Uuid -> First] :
        LET known == {u \in Uuid : first[u] # Absent}
        IN /\ table = [r \in Replica |-> [k \in Key |-> IF k \in Uuid THEN first[k] ELSE Absent]]
           /\ announced = [r \in Replica |-> [k \in Key |-> table[r][k].version]]
           /\ seen = {[uuid |-> u, object |-> first[u]] : u \in known}
           /\ basis = {}
           /\ given = [r \in Replica |-> [u \in Uuid |-> IF u \in known THEN {first[u].version} ELSE {}]]
           /\ exposed = {}
  BY DEF Init
<1>2. Uuid \subseteq Key /\ NoUuid \in Key /\ NoUuid \notin Uuid
  BY Names DEF Key
<1>3. \A r \in Replica, k \in Key : table[r][k] = IF k \in Uuid THEN first[k] ELSE Absent
  BY <1>1
<1>4. ASSUME NEW u \in Uuid
      PROVE  /\ Sound(first[u]) /\ first[u].scraps = 0
             /\ first[u].history = {} /\ first[u].conflicts = {}
  <2>1. first[u] \in First
    BY <1>1
  <2>2. CASE first[u] = Absent
    <3>1. Absent.scraps = 0 /\ Absent.history = {} /\ Absent.conflicts = {}
      BY DEF Absent
    <3> QED  BY <2>2, <3>1, AbsentIsSound
  <2>3. CASE first[u] # Absent
    <3>1. PICK v \in Version \ {NoVersion} : first[u] = Bare(v, Typed(v.hash))
      BY <2>1, <2>3, ContentAssumption
    <3> QED  BY <3>1, BareIsSound, BareIs
  <2> QED  BY <2>2, <2>3
<1>5. \A r \in Replica, k \in Key : table[r][k] \in Object /\ table[r][k].version \in Version
  <2> TAKE r \in Replica, k \in Key
  <2>1. Sound(table[r][k])
    BY <1>3, <1>4, AbsentIsSound
  <2> QED  BY <2>1, ShapeTypes DEF Sound, Shape
<1>6. \A s \in seen : \E u \in Uuid : first[u] # Absent /\ s = [uuid |-> u, object |-> first[u]]
  BY <1>1
<1>7. table \in [Replica -> [Key -> Object]]
  BY <1>1, <1>3, <1>5
<1>8. announced \in [Replica -> [Key -> Version]]
  BY <1>1, <1>5
<1>9. \A r \in Replica, u \in Uuid :
        given[r][u] = IF first[u] # Absent THEN {first[u].version} ELSE {}
  BY <1>1
<1>10. given \in [Replica -> [Uuid -> SUBSET Version]]
  <2>1. \A u \in Uuid : first[u].version \in Version
    BY <1>4, ShapeTypes DEF Sound
  <2> QED  BY <1>1, <2>1
<1>11. Typing
  <2>1. \A r \in Replica, u \in Uuid : Sound(table[r][u])
    BY <1>2, <1>3, <1>4
  <2>2. \A s \in seen : /\ s \in [uuid : Uuid, object : Object]
                        /\ Sound(s.object) /\ s.object # Absent
    <3> TAKE s \in seen
    <3>1. PICK u \in Uuid : first[u] # Absent /\ s = [uuid |-> u, object |-> first[u]]
      BY <1>6
    <3>2. Sound(first[u]) /\ first[u] \in Object
      BY <1>4 DEF Sound, Shape
    <3> QED  BY <3>1, <3>2
  <2>3. basis \subseteq Version \X Version /\ exposed \subseteq Exposure
    BY <1>1
  <2> QED  BY <1>7, <1>8, <1>10, <2>1, <2>2, <2>3 DEF Typing, TypeOK
<1>12. Scraps
  BY <1>2, <1>3, <1>4, <1>6 DEF Scraps
<1>13. Tidiness
  BY <1>2, <1>3, <1>4, <1>6 DEF Tidiness, Tidy
<1>14. Nameless
  BY <1>2, <1>3 DEF Nameless
<1>15. Kept
  <2>1. \A r \in Replica, u \in Uuid : Recorded(table[r][u])
    BY <1>2, <1>3, <1>4 DEF Recorded, Overtaken
  <2>2. \A s \in seen : Recorded(s.object)
    BY <1>4, <1>6 DEF Recorded, Overtaken
  <2>3. \A r \in Replica, u \in Uuid : given[r][u] \subseteq Heads(table[r][u])
    <3> TAKE r \in Replica, u \in Uuid
    <3>1. table[r][u] = first[u]
      BY <1>2, <1>3
    <3>2. CASE first[u] = Absent
      BY <1>9, <3>2
    <3>3. CASE first[u] # Absent
      <4>1. Heads(first[u]) = {first[u].version} \cup Others(first[u])
        BY <3>3, HeadsAre
      <4> QED  BY <1>9, <3>1, <3>3, <4>1
    <3> QED  BY <3>2, <3>3
  <2> QED  BY <2>1, <2>2, <2>3 DEF Kept
<1>16. Told
  BY <1>1 DEF Told
<1> QED  BY <1>11, <1>12, <1>13, <1>14, <1>15, <1>16 DEF IInv

\* The invariant of a partition that is written and merged in any order.
THEOREM Invariance == Spec => []IInv
<1>1. Init => IInv
  BY InitIInv
<1>2. IInv /\ [Next]_vars => IInv'
  <2> SUFFICES ASSUME IInv, [Next]_vars PROVE IInv'
    OBVIOUS
  <2>1. CASE UNCHANGED vars
    <3>1. /\ table' = table /\ announced' = announced /\ seen' = seen
          /\ basis' = basis /\ given' = given /\ exposed' = exposed
      BY <2>1 DEF vars
    <3>2. Typing'
      BY <3>1 DEF IInv, Typing, TypeOK
    <3>3. Scraps' /\ Tidiness' /\ Nameless'
      BY <3>1 DEF IInv, Scraps, Tidiness, Nameless
    <3>4. \A branch : IsOpen(branch)' <=> IsOpen(branch)
      BY <3>1 DEF IsOpen, IsBranch, Ended
    <3>5. Kept'
      BY <3>1, <3>4 DEF IInv, Kept, Recorded, Without
    <3>6. Told'
      BY <3>1 DEF IInv, Told, Without
    <3> QED  BY <3>2, <3>3, <3>5, <3>6 DEF IInv
  <2>2. CASE Next
    <3>0. PICK r \in Replica, mode \in Mode, committed \in BOOLEAN :
              \E result : Does(r, mode, committed, result)
      BY <2>2, StepIs DEF IInv
    <3>1. PICK result : Does(r, mode, committed, result)
      BY <3>0
    <3>2. Typing'
      BY <3>1, TypingKeeps DEF IInv
    <3>3. Scraps'
      BY <3>1, ScrapsKeeps DEF IInv
    <3>4. Tidiness'
      BY <3>1, TidinessKeeps DEF IInv
    <3>5. Nameless'
      BY <3>1, NamelessKeeps DEF IInv
    <3>6. Kept'
      BY <3>1, KeptKeeps DEF IInv
    <3>7. Told'
      BY <3>1, ToldKeeps DEF IInv
    <3> QED  BY <3>2, <3>3, <3>4, <3>5, <3>6, <3>7 DEF IInv
  <2> QED  BY <2>1, <2>2
<1> QED  BY <1>1, <1>2, PTL DEF Spec

\* The state has its type (the records of updateObjects()).
THEOREM TypeIsKept == Spec => []TypeOK
<1>1. IInv => TypeOK
  BY DEF IInv, Typing
<1> QED  BY <1>1, Invariance, PTL

\* Whatever order copies are written and merged in, no branch of an object
\* disappears in silence, and the last event of an object tells what is stored
\* (JsonDbPartition::updateObjects()).
THEOREM NoBranchIsLost == Spec => []NoWriteLost
<1>1. IInv => NoWriteLost
  <2> SUFFICES ASSUME IInv PROVE NoWriteLost
    OBVIOUS
  <2>1. UNION {given[r][u] : r \in Replica, u \in Uuid} \subseteq Version
    BY DEF IInv, Typing, TypeOK
  <2>2. ASSUME Without({"replaced", "scraps", "lost", "nameless", "revived", "sidelined"}),
               NEW branch \in SUBSET UNION {given[r][u] : r \in Replica, u \in Uuid},
               IsBranch(branch), ~Ended(branch), NEW r \in Replica, NEW u \in Uuid,
               branch \cap given[r][u] # {}
        PROVE  branch \cap Heads(table[r][u]) # {}
    <3>1. IsOpen(branch)
      BY <2>1, <2>2 DEF IsOpen
    <3>2. Without(Losing)
      BY <2>2 DEF Losing
    <3> QED  BY <2>2, <3>1, <3>2 DEF IInv, Kept
  <2>3. Told
    BY DEF IInv
  <2> QED  BY <2>2, <2>3 DEF NoWriteLost, Told
<1> QED  BY <1>1, Invariance, PTL

-----------------------------------------------------------------------------
(***************************************************************************)
(* The version of an object.                                               *)
(***************************************************************************)
\* No write makes a version older, unless it replaces the object.
LEMMA NotOlder ==
    ASSUME NEW mode \in Mode, mode # "Replace", NEW this, Sound(this), this.scraps = 0,
           NEW other, Sendable(other), NEW write, write = NewVersion(mode, this, other), write.valid
    PROVE  ~Older(write.object.version, this.version)
<1>1. this.version \in Version /\ other.version \in Version
  BY ShapeTypes DEF Sound, Sendable
<1>2. CASE mode = "ReplicatedWrite"
  <2>1. IsMergeable(other) /\ write.object = updateVersionReplicating(this, other).object
    BY <1>2, ReplicatedIs
  <2>2. PICK m : m = updateVersionReplicating(this, other).object
    OBVIOUS
  <2>3. \A v \in Named(this) \cup Named(other) : v = m.version \/ Older(v, m.version)
    BY <2>1, <2>2, MergeVersion, SoundHolds DEF Sendable
  <2>4. this.version \in Named(this)
    BY DEF Named
  <2>5. m.version \in Version
    <3>1. Shape(m)
      BY <2>1, <2>2, MergeIs, SoundHolds DEF Sendable
    <3> QED  BY <3>1, ShapeTypes
  <2>6. this.version = m.version \/ Older(this.version, m.version)
    BY <2>3, <2>4
  <2>7. ~Older(m.version, this.version)
    BY <1>1, <2>5, <2>6, Order
  <2> QED  BY <2>1, <2>2, <2>7
<1>3. CASE mode = "RejectStale"
  <2>1. PICK m, v : m = write.object /\ v = other.version
    OBVIOUS
  <2>2. write = updateVersionOptimistic(this, other, TRUE)
    BY <1>3 DEF NewVersion
  <2>3. \/ Refuses(this, other, write)
        \/ Repeats(this, other, write)
        \/ Names0(this, other, write)
        \/ Extends(this, other, write)
        \/ Settles(this, other, write)
        \/ Revives(this, other, write)
    BY <2>2, OptimisticIs
  <2>4. CASE Refuses(this, other, write) \/ Repeats(this, other, write)
    <3>1. m = this
      BY <2>1, <2>4 DEF Refuses, Repeats
    <3> QED  BY <1>1, <2>1, <3>1, Order
  <2>5. CASE Names0(this, other, write)
    <3>1. this.version = NoVersion
      BY <2>5 DEF Names0, Absent
    <3>2. m.version = v
      BY <2>1, <2>5 DEF Names0, Absent
    <3> QED  BY <1>1, <2>1, <3>1, <3>2, Order
  <2>6. CASE Extends(this, other, write)
    <3>1. /\ ~IsReplay(other.body, v) /\ this.version \in {NoVersion, v}
          /\ m.version = NextVersion(other.body, v)
      BY <2>1, <2>6 DEF Extends, ProgressesHead
    <3>2. Older(v, m.version) /\ m.version \in Version
      BY <2>1, <3>1, NextVersionIs
    <3>3. ~Older(m.version, this.version)
      BY <1>1, <2>1, <3>1, <3>2, Order
    <3> QED  BY <2>1, <3>3
  <2>7. CASE Settles(this, other, write)
    BY <1>1, <2>7, Order DEF Settles
  <2>8. CASE Revives(this, other, write)
    <3>1. m.version = [count |-> this.version.count + 1, hash |-> other.body]
      BY <2>1, <2>8 DEF Revives
    <3>2. m.version.count = this.version.count + 1 /\ this.version.count \in Nat
      BY <1>1, <3>1, VersionTypes
    <3>3. ~Older(m.version, this.version)
      BY <3>2 DEF Older
    <3> QED  BY <2>1, <3>3
  <2> QED  BY <2>3, <2>4, <2>5, <2>6, <2>7, <2>8
<1> QED  BY <1>2, <1>3 DEF Mode

LEMMA NoneRegresses ==
    ASSUME IInv, NEW r \in Replica, NEW mode \in Mode, NEW committed \in BOOLEAN, NEW result,
           Does(r, mode, committed, result), Without({"replaced", "scraps"})',
           NEW q \in Replica, NEW u \in Uuid
    PROVE  ~Older(table'[q][u].version, table[q][u].version)
<1>1. Typing /\ Scraps
  BY DEF IInv
<1>2. "replaced" \notin exposed' /\ "scraps" \notin exposed' /\ "scraps" \notin exposed
  BY ExposedIs DEF Without
<1>3. Uuid \subseteq Key /\ NoUuid \notin Uuid
  BY Names DEF Key
<1>4. table'[q][u] = IF committed /\ q = r THEN result.table[u] ELSE table[q][u]
  BY <1>1, <1>3, TableIs
<1>5. table[q][u].version \in Version
  BY <1>1, ShapeTypes DEF Typing, Sound
<1>6. ~Older(table[q][u].version, table[q][u].version)
  BY <1>5, Order
<1>7. CASE Nothing(table[r], result)
  BY <1>4, <1>6, <1>7 DEF Nothing
<1>8. CASE ~Nothing(table[r], result)
  <2>1. PICK i, this, write, stored, key : Wrote(r, mode, result, i, this, write, stored, key)
    BY <1>1, <1>8, WroteIs DEF Does
  <2>2. /\ Sendable(i.object) /\ Sound(this) /\ this = table[r][i.uuid] /\ i.uuid \in Uuid
        /\ write = NewVersion(mode, this, i.object) /\ write.valid
        /\ stored = WithType(write.object) /\ key \in {i.uuid, NoUuid}
    BY <2>1 DEF Wrote, KeyOf
  <2>3. this.scraps = 0
    BY <1>1, <1>2, <2>2 DEF Scraps
  <2>4. mode # "Replace"
    BY <1>2, <2>1, WroteExposed
  <2>5. ~Older(write.object.version, this.version)
    BY <2>2, <2>3, <2>4, NotOlder
  <2>6. stored.version = write.object.version
    <3>1. Shape(write.object)
      BY <2>2, StoredIs
    <3> QED  BY <2>2, <3>1, WithTypeIs
  <2>7. result.table[u] = IF u = key THEN stored ELSE table[r][u]
    BY <1>3, <2>1 DEF Wrote
  <2>8. CASE committed /\ q = r /\ u = key
    <3>1. u = i.uuid
      BY <1>3, <2>2, <2>8
    <3> QED  BY <1>4, <2>2, <2>5, <2>6, <2>7, <2>8, <3>1
  <2>9. CASE ~(committed /\ q = r /\ u = key)
    BY <1>4, <1>6, <2>7, <2>9
  <2> QED  BY <2>8, <2>9
<1> QED  BY <1>7, <1>8

\* Clients that order what they read of an object by its version never see it
\* go back (updateVersionOptimistic(), updateVersionReplicating()).
THEOREM VersionsOnlyGrow == Spec => HeadNeverRegresses
<1>1. IInv /\ [Next]_vars =>
        [Without({"replaced", "scraps"})' =>
            \A r \in Replica, u \in Uuid :
                ~Older(table'[r][u].version, table[r][u].version)]_vars
  <2> SUFFICES ASSUME IInv, Next, Without({"replaced", "scraps"})',
                      NEW q \in Replica, NEW u \in Uuid
               PROVE  ~Older(table'[q][u].version, table[q][u].version)
    OBVIOUS
  <2>1. PICK r \in Replica, mode \in Mode, committed \in BOOLEAN :
            \E result : Does(r, mode, committed, result)
    BY StepIs DEF IInv
  <2>2. PICK result : Does(r, mode, committed, result)
    BY <2>1
  <2> QED  BY <2>2, NoneRegresses
<1> QED  BY <1>1, Invariance, PTL DEF Spec, HeadNeverRegresses

\* After two merges the head is the newest version named by any of the three.
LEMMA MergeTwice ==
    ASSUME NEW O, Holds(O), O.scraps = 0,
           NEW A, Shape(A), IsMergeable(A), NEW B, Shape(B), IsMergeable(B),
           NEW x, x = updateVersionReplicating(O, A).object,
           NEW z, z = updateVersionReplicating(x, B).object
    PROVE  /\ z.version \in Version
           /\ z.version \in Named(O) \cup Named(A) \cup Named(B)
           /\ \A v \in Named(O) \cup Named(A) \cup Named(B) : v = z.version \/ Older(v, z.version)
<1>1. /\ Shape(x) /\ Tidy(x) /\ x.version # NoVersion /\ x.scraps = 0
      /\ x.body \in {x.version.hash, Typed(x.version.hash)}
  BY MergeIs DEF Merges
<1>2. Holds(x)
  BY <1>1 DEF Holds
<1>3. /\ x.version \in Named(O) \cup Named(A)
      /\ \A v \in Named(O) \cup Named(A) : v = x.version \/ Older(v, x.version)
  BY MergeVersion
<1>4. /\ z.version \in Named(x) \cup Named(B)
      /\ \A v \in Named(x) \cup Named(B) : v = z.version \/ Older(v, z.version)
  BY <1>1, <1>2, MergeVersion
<1>5. Shape(z)
  BY <1>2, MergeIs
<1>6. x.version \in Version /\ z.version \in Version
  BY <1>1, <1>5, ShapeTypes
<1>7. ASSUME NEW object, Shape(object) PROVE Named(object) \subseteq Version
  BY <1>7, ShapeTypes DEF Named
<1>8. Named(O) \subseteq Version /\ Named(A) \subseteq Version /\ Named(B) \subseteq Version
  BY <1>7 DEF Holds
<1>9. x.version \in Named(x) /\ \A v \in Named(x) : v = x.version \/ Older(v, x.version)
  BY <1>1 DEF Named, Tidy
<1>10. x.version = z.version \/ Older(x.version, z.version)
  BY <1>4, <1>9
<1>11. z.version \in Named(O) \cup Named(A) \cup Named(B)
  <2>1. CASE z.version \in Named(B)
    BY <2>1
  <2>2. CASE z.version \in Named(x)
    <3>1. z.version = x.version \/ Older(z.version, x.version)
      BY <1>9, <2>2
    <3>2. z.version = x.version
      BY <1>6, <1>10, <3>1, Order
    <3> QED  BY <1>3, <3>2
  <2> QED  BY <1>4, <2>1, <2>2
<1>12. ASSUME NEW v \in Named(O) \cup Named(A) \cup Named(B)
       PROVE  v = z.version \/ Older(v, z.version)
  <2>1. CASE v \in Named(B)
    BY <1>4, <2>1
  <2>2. CASE v \in Named(O) \cup Named(A)
    <3>1. v = x.version \/ Older(v, x.version)
      BY <1>3, <2>2
    <3>2. v \in Version
      BY <1>8, <2>2
    <3> QED  BY <1>6, <1>10, <3>1, <3>2, Order
  <2> QED  BY <2>1, <2>2
<1> QED  BY <1>6, <1>11, <1>12

\* Copies of an object may arrive in any order: the same version wins
\* (updateVersionReplicating(), the order of populateMerge()).
THEOREM AnyOrderWillDo == Spec => []HeadIsOrderFree
<1>1. IInv => HeadIsOrderFree
  <2> SUFFICES ASSUME IInv, Without({"scraps"}), NEW r \in Replica, NEW a \in seen, NEW b \in seen,
                      a.uuid = b.uuid, NEW O, O = table[r][a.uuid],
                      NEW x, x = Replicated(O, a), NEW y, y = Replicated(O, b)
               PROVE  Replicated(x, b).version = Replicated(y, a).version
    BY DEF HeadIsOrderFree
  <2>1. PICK A, B : A = a.object /\ B = b.object
    OBVIOUS
  <2>2. Shape(A) /\ Shape(B) /\ a.uuid \in Uuid
    BY <2>1 DEF IInv, Typing, Sound
  <2>3. Holds(O) /\ O.scraps = 0
    BY <2>2, SoundHolds DEF IInv, Typing, Scraps, Without
  <2>4. PICK z : z = updateVersionReplicating(x, B).object
    OBVIOUS
  <2>5. PICK t : t = updateVersionReplicating(y, A).object
    OBVIOUS
  <2>6. /\ x = updateVersionReplicating(O, A).object
        /\ y = updateVersionReplicating(O, B).object
        /\ Replicated(x, b) = z /\ Replicated(y, a) = t
    BY <2>1, <2>4, <2>5 DEF Replicated
  <2>7. ASSUME NEW this, NEW other, ~IsMergeable(other)
        PROVE  updateVersionReplicating(this, other).object = this
    <3>1. updateVersionReplicating(this, other) = [valid |-> FALSE, object |-> this]
      BY <2>7 DEF updateVersionReplicating
    <3> QED  BY <3>1
  <2>8. z.version = t.version
    <3>1. CASE ~IsMergeable(A)
      <4>1. x = O /\ t = y
        BY <2>5, <2>6, <2>7, <3>1
      <4> QED  BY <2>4, <2>6, <4>1
    <3>2. CASE ~IsMergeable(B)
      <4>1. y = O /\ z = x
        BY <2>4, <2>6, <2>7, <3>2
      <4> QED  BY <2>5, <2>6, <4>1
    <3>3. CASE IsMergeable(A) /\ IsMergeable(B)
      <4>1. /\ z.version \in Version
            /\ z.version \in Named(O) \cup Named(A) \cup Named(B)
            /\ \A v \in Named(O) \cup Named(A) \cup Named(B) : v = z.version \/ Older(v, z.version)
        BY <2>2, <2>3, <2>4, <2>6, <3>3, MergeTwice
      <4>2. /\ t.version \in Version
            /\ t.version \in Named(O) \cup Named(B) \cup Named(A)
            /\ \A v \in Named(O) \cup Named(B) \cup Named(A) : v = t.version \/ Older(v, t.version)
        BY <2>2, <2>3, <2>5, <2>6, <3>3, MergeTwice
      <4>3. z.version = t.version \/ Older(z.version, t.version)
        BY <4>1, <4>2
      <4>4. t.version = z.version \/ Older(t.version, z.version)
        BY <4>1, <4>2
      <4> QED  BY <4>1, <4>2, <4>3, <4>4, Order
    <3> QED  BY <3>1, <3>2, <3>3
  <2> QED  BY <2>6, <2>8
<1> QED  BY <1>1, Invariance, PTL

-----------------------------------------------------------------------------
(***************************************************************************)
(* A write that is sent again.                                             *)
(***************************************************************************)
\* What is not there is not deleted.
LEMMA DeletesNothing ==
    ASSUME NEW partition, NEW code, NEW mode, mode # "ReplicatedWrite", NEW uuid,
           NEW object, isDeleted(object),
           partition[uuid] = Absent \/ isDeleted(partition[uuid])
    PROVE  WriteObject(Start(partition, code), mode, uuid, object).table = partition
<1>1. PICK acc : acc = Start(partition, code)
  OBVIOUS
<1>2. acc.table = partition
  BY <1>1 DEF Start
<1>3. PICK c : c = "MissingObject"
  OBVIOUS
<1>4. WriteObject(acc, mode, uuid, object) = Rejected(acc, c)
  BY <1>2, <1>3 DEF WriteObject
<1>5. Rejected(acc, c).table = partition
  BY <1>1 DEF Rejected, Start
<1> QED  BY <1>1, <1>4, <1>5

\* A write that came through and is sent again.
Retried(this, other, write, stored, again) ==
    /\ Sound(this) /\ this.scraps = 0 /\ (isDeleted(this) => this.conflicts = {})
    /\ Sendable(other) /\ (isDeleted(this) => ~isDeleted(other))
    /\ write.valid /\ Sound(stored) /\ stored # Absent
    /\ (isDeleted(stored) => ~isDeleted(other))
    /\ write = updateVersionOptimistic(this, other, TRUE)
    /\ stored = WithType(write.object)
    /\ again = updateVersionOptimistic(stored, other, TRUE)

LEMMA AgainIs ==
    ASSUME NEW this, NEW other, NEW write, NEW stored, NEW again,
           Retried(this, other, write, stored, again)
    PROVE  again.object = stored
<1> USE DEF Retried
<1>1. PICK m, v : m = write.object /\ v = other.version
  OBVIOUS
<1>2. Shape(m)
  BY <1>1, OptimisticIs
<1>3. /\ stored.version = m.version /\ stored.history = m.history
      /\ stored.conflicts = m.conflicts /\ stored.scraps = m.scraps
      /\ stored.body = IF m.body = 0 THEN 0 ELSE Typed(m.body)
  BY <1>1, <1>2, WithTypeIs
<1>4. /\ v \in Version /\ this.version \in Version /\ other.body \in Body /\ 0 \notin Body
      /\ m.body \in Body \cup {0}
  BY <1>1, <1>2, ShapeTypes, Names DEF Sound, Sendable
<1>5. \/ Refuses(stored, other, again)
      \/ Repeats(stored, other, again)
      \/ Names0(stored, other, again)
      \/ Extends(stored, other, again)
      \/ Settles(stored, other, again)
      \/ Revives(stored, other, again)
  BY OptimisticIs
<1>6. ~Names0(stored, other, again)
  BY DEF Names0
<1>7. SUFFICES ASSUME ~Refuses(stored, other, again), ~Repeats(stored, other, again)
               PROVE  FALSE
  BY DEF Refuses, Repeats
<1>8. \/ Extends(stored, other, again)
      \/ Settles(stored, other, again)
      \/ Revives(stored, other, again)
  BY <1>5, <1>6, <1>7
<1>9. /\ ~IsReplay(other.body, v) /\ ProgressesHead(stored, v)
      \/ /\ ~IsReplay(other.body, v) /\ Resolves(stored, v)
      \/ /\ isDeleted(stored) /\ ~ProgressesHead(stored, v)
  BY <1>1, <1>8 DEF Extends, Settles, Revives
<1>10. /\ NextVersion(other.body, v) \in Version \ {NoVersion}
       /\ ~IsReplay(other.body, v) => Older(v, NextVersion(other.body, v))
  BY <1>1, NextVersionIs
<1>11. stored.version # NoVersion
  BY DEF Sound
<1>12. m.body = other.body => (isDeleted(stored) <=> isDeleted(other))
  <2> SUFFICES ASSUME m.body = other.body
               PROVE  isDeleted(stored) <=> isDeleted(other)
    OBVIOUS
  <2>1. stored.body = Typed(other.body)
    BY <1>3, <1>4
  <2>2. PICK b : b = other.body
    OBVIOUS
  <2>3. b \in Body /\ stored.body = Typed(b)
    BY ONLY <1>4, <2>1, <2>2
  <2>4. stored.body \in Tombstone <=> b \in Tombstone
    BY ONLY <2>3, Names
  <2> QED  BY ONLY <2>2, <2>4 DEF isDeleted
<1>13. CASE Refuses(this, other, write)
  BY <1>13 DEF Refuses
<1>14. CASE Repeats(this, other, write)
  <2>1. stored = this
    BY <1>14, WithTypeIs DEF Repeats, Sound
  <2>2. again = write
    BY <2>1
  <2> QED  BY <1>7, <1>14, <2>1, <2>2
<1>15. CASE Names0(this, other, write)
  <2>1. m.body = 0
    <3>1. PICK none : none = Absent
      OBVIOUS
    <3>2. write.object = [none EXCEPT !.version = other.version]
      BY <1>15, <3>1 DEF Names0
    <3>3. none = [version |-> NoVersion, body |-> 0, history |-> {}, conflicts |-> {}, scraps |-> 0]
      BY ONLY <3>1 DEF Absent
    <3>4. write.object.body = 0
      BY ONLY <3>2, <3>3
    <3> QED  BY ONLY <1>1, <3>4
  <2>2. stored.body = Typed(stored.version.hash) /\ stored.version.hash \in Body
    BY <1>3, <1>11, <1>2, ShapeTypes, VersionTypes DEF Sound
  <2>3. stored.body = 0
    BY <1>3, <2>1
  <2> QED  BY <1>4, <2>2, <2>3, Names
<1>16. CASE Extends(this, other, write)
  <2>1. /\ ~IsReplay(other.body, v) /\ this.version \in {NoVersion, v}
        /\ m.version = NextVersion(other.body, v) /\ m.body = other.body
        /\ m.conflicts = {} /\ (this = Absent => m.scraps = 0)
    BY <1>1, <1>16 DEF Extends, ProgressesHead
  <2>2. m.version # v
    BY <1>4, <1>10, <2>1, Order
  <2>3. ~ProgressesHead(stored, v)
    BY <1>3, <1>11, <2>2 DEF ProgressesHead
  <2>4. ~Resolves(stored, v)
    <3>1. v = NoVersion => m.scraps = 0
      BY <2>1 DEF Sound
    <3>2. stored.conflicts = {} /\ stored.scraps = m.scraps
      BY <1>3, <2>1
    <3> QED  BY ONLY <3>1, <3>2 DEF Resolves
  <2> QED  BY <1>9, <1>12, <2>1, <2>3, <2>4
<1>17. CASE Settles(this, other, write)
  <2>1. /\ Resolves(this, v) /\ ~ProgressesHead(this, v)
        /\ m.version = this.version /\ m.body = this.body /\ m.conflicts = {}
    BY <1>1, <1>17 DEF Settles
  <2>2. PICK c \in this.conflicts : c.version = v
    BY <2>1 DEF Resolves
  <2>3. v # NoVersion
    BY <2>2 DEF Sound, Shape
  <2>4. ~ProgressesHead(stored, v)
    BY <1>3, <2>1 DEF ProgressesHead
  <2>5. ~Resolves(stored, v)
    BY <1>3, <2>1, <2>3 DEF Resolves
  <2>6. ~isDeleted(this)
    BY <2>2
  <2>7. stored.body = this.body
    <3>1. this # Absent
      BY <2>2 DEF Absent
    <3>2. this.body = Typed(this.version.hash) /\ this.version.hash \in Body
      BY <1>4, <3>1, VersionTypes DEF Sound
    <3> QED  BY <1>3, <1>4, <2>1, <3>2, Names
  <2> QED  BY <1>9, <2>4, <2>5, <2>6, <2>7 DEF isDeleted
<1>18. CASE Revives(this, other, write)
  <2>1. /\ isDeleted(this) /\ m.body = other.body
        /\ m.version = [count |-> this.version.count + 1, hash |-> other.body]
        /\ ~IsReplay(other.body, v) => m.conflicts = {} /\ m.scraps = 0
    BY <1>1, <1>18 DEF Revives
  <2>2. ~isDeleted(stored)
    BY <1>12, <2>1
  <2>3. ASSUME ~IsReplay(other.body, v) PROVE m.version # v
    BY <2>1, <2>3 DEF IsReplay
  <2>4. ASSUME ~IsReplay(other.body, v)
        PROVE  ~ProgressesHead(stored, v) /\ ~Resolves(stored, v)
    <3>1. m.version # v /\ m.conflicts = {} /\ m.scraps = 0
      BY <2>1, <2>3, <2>4
    <3>2. stored.conflicts = {} /\ stored.scraps = 0 /\ stored.version = m.version
      BY <1>3, <3>1
    <3>3. ~Resolves(stored, v)
      BY ONLY <3>2 DEF Resolves
    <3> QED  BY <1>11, <3>1, <3>2, <3>3 DEF ProgressesHead
  <2> QED  BY <1>9, <2>2, <2>4
<1> QED  BY <1>13, <1>14, <1>15, <1>16, <1>17, <1>18, OptimisticIs

\* A client that sends a write again, because it never heard of it, changes
\* nothing (JsonDbPartition::updateObjects(), updateVersionOptimistic()).
THEOREM SendingAgainIsHarmless == Spec => []RetryIsHarmless
<1>1. IInv => RetryIsHarmless
  <2> SUFFICES ASSUME IInv, Without({"scraps", "nameless"}),
                      NEW r \in Replica, NEW i \in Items("RejectStale"),
                      isDeleted(table[r][i.uuid]) => table[r][i.uuid].conflicts = {},
                      NEW once, once = UpdateAll(table[r], "RejectStale", <<i>>).table,
                      once[NoUuid] = Absent
               PROVE  UpdateAll(once, "RejectStale", <<i>>).table = once
    BY DEF RetryIsHarmless
  <2>1. "RejectStale" \in Mode
    BY DEF Mode
  <2>2. i.fault = "none" /\ i.uuid \in Uuid /\ Sendable(i.object)
    BY <2>1, ItemsAre DEF IInv
  <2>3. PICK before, u, other, mode, this, code :
            /\ before = table[r] /\ u = i.uuid /\ other = i.object
            /\ mode = "RejectStale" /\ this = before[u] /\ code = "NoError"
    OBVIOUS
  <2>4. ASSUME NEW partition
        PROVE  UpdateAll(partition, mode, <<i>>) = WriteObject(Start(partition, code), mode, u, other)
    <3>1. PICK batch : batch = <<i>>
      OBVIOUS
    <3>2. Len(batch) = 1 /\ batch[1] = i
      BY <3>1
    <3>3. UpdateAll(partition, mode, batch) = UpdateOne(Start(partition, "NoError"), mode, batch[1])
      BY <3>2, UpdateAllIs
    <3>4. UpdateOne(Start(partition, code), mode, i) = WriteObject(Start(partition, code), mode, i.uuid, i.object)
      BY <2>2, UpdateOneIs
    <3> QED  BY <2>3, <3>1, <3>2, <3>3, <3>4
  <2>5. PICK first : first = WriteObject(Start(before, code), mode, u, other)
    OBVIOUS
  <2>6. PICK second : second = WriteObject(Start(once, code), mode, u, other)
    OBVIOUS
  <2>7. /\ once = first.table
        /\ UpdateAll(once, "RejectStale", <<i>>) = second
    BY <2>3, <2>4, <2>5, <2>6
  <2>8. Nothing(before, first) \/ Writes(before, mode, u, other, first)
    BY <2>5, WriteObjectIs
  <2>9. Nothing(once, second) \/ Writes(once, mode, u, other, second)
    BY <2>6, WriteObjectIs
  <2>10. /\ u \in Uuid /\ u \in Key /\ NoUuid \in Key /\ NoUuid # u /\ Sendable(other)
         /\ before \in [Key -> Object] /\ Sound(this) /\ this.scraps = 0
         /\ isDeleted(this) => this.conflicts = {}
         /\ once[NoUuid] = Absent
    BY <2>2, <2>3, Names DEF Key, IInv, Typing, TypeOK, Scraps, Without
  <2>11. mode = "RejectStale" /\ mode \in Mode /\ this = before[u]
    BY <2>1, <2>3
  <2>12. second.table = once
    <3>1. CASE Nothing(before, first)
      <4>1. once = before
        BY <2>7, <3>1 DEF Nothing
      <4> QED  BY <2>5, <2>6, <2>7, <4>1
    <3>2. CASE Nothing(once, second)
      BY <3>2 DEF Nothing
    <3>3. CASE Writes(before, mode, u, other, first) /\ Writes(once, mode, u, other, second)
      <4>1. PICK write : write = NewVersion(mode, this, other)
        OBVIOUS
      <4>2. PICK stored : stored = WithType(write.object)
        OBVIOUS
      <4>3. PICK key : key = KeyOf(u, stored)
        OBVIOUS
      <4>4. write.valid /\ once = [before EXCEPT ![key] = stored]
        BY <2>7, <2>11, <3>3, <4>1, <4>2, <4>3 DEF Writes
      <4>5. /\ stored # Absent
            /\ stored.body # 0 => Sound(stored)
        BY <2>10, <2>11, <4>1, <4>2, <4>4, StoredIs
      <4>6. key = u /\ Sound(stored)
        <5>1. CASE stored.body = 0
          <6>1. key = NoUuid
            BY <4>3, <5>1 DEF KeyOf
          <6>2. once[NoUuid] = stored
            BY <2>10, <4>4, <6>1
          <6> QED  BY <2>10, <4>5, <6>2
        <5>2. CASE stored.body # 0
          BY <4>3, <4>5, <5>2 DEF KeyOf
        <5> QED  BY <5>1, <5>2
      <4>7. once[u] = stored
        BY <2>10, <4>4, <4>6
      <4>8. PICK again : again = updateVersionOptimistic(stored, other, TRUE)
        OBVIOUS
      <4>9. write = updateVersionOptimistic(this, other, TRUE) /\ again = NewVersion(mode, once[u], other)
        BY <2>11, <4>1, <4>7, <4>8 DEF NewVersion
      <4>10. CASE isDeleted(this) /\ isDeleted(other)
        <5>1. first.table = before
          BY <2>5, <2>11, <4>10, DeletesNothing
        <5> QED  BY <2>5, <2>6, <2>7, <5>1
      <4>11. CASE isDeleted(stored) /\ isDeleted(other)
        <5>1. mode # "ReplicatedWrite" /\ isDeleted(once[u])
          BY <2>11, <4>7, <4>11
        <5> QED  BY <2>6, <4>11, <5>1, DeletesNothing
      <4>12. CASE ~(isDeleted(this) /\ isDeleted(other)) /\ ~(isDeleted(stored) /\ isDeleted(other))
        <5>1. again.object = stored
          <6>1. /\ Sound(this) /\ this.scraps = 0 /\ (isDeleted(this) => this.conflicts = {})
                /\ Sendable(other) /\ (isDeleted(this) => ~isDeleted(other))
                /\ write.valid /\ Sound(stored) /\ stored # Absent
                /\ (isDeleted(stored) => ~isDeleted(other))
            BY <2>10, <4>4, <4>5, <4>6, <4>12
          <6>2. /\ write = updateVersionOptimistic(this, other, TRUE)
                /\ stored = WithType(write.object)
                /\ again = updateVersionOptimistic(stored, other, TRUE)
            BY <4>2, <4>8, <4>9
          <6>3. Retried(this, other, write, stored, again)
            BY ONLY <6>1, <6>2 DEF Retried
          <6> QED  BY ONLY <6>3, AgainIs
        <5>2. WithType(again.object) = stored
          BY <4>6, <5>1, WithTypeIs DEF Sound
        <5>3. KeyOf(u, stored) = u
          BY <4>3, <4>6
        <5>4. second.table = [once EXCEPT ![u] = stored]
          BY <3>3, <4>9, <5>2, <5>3 DEF Writes
        <5>5. DOMAIN once = Key /\ once = [k \in Key |-> once[k]]
          BY <2>10, <4>4
        <5> QED  BY <2>10, <4>7, <5>4, <5>5
      <4> QED  BY <4>10, <4>11, <4>12
    <3> QED  BY <2>8, <2>9, <3>1, <3>2, <3>3
  <2> QED  BY <2>7, <2>12
<1> QED  BY <1>1, Invariance, PTL
=============================================================================
