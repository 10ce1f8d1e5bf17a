---------------------- MODULE JsonDbNotificationProofs ----------------------
(***************************************************************************)
(* Proofs about JsonDbNotification, for any objects, states, breaks and    *)
(* crashes: what the application makes of the notifications is what the    *)
(* query finds, nothing is missing of a state it was told, and every       *)
(* notification fits what it knows.                                        *)
(*                                                                         *)
(* Says tells what the application will know of an object when the first i *)
(* messages on the stream have arrived.  The invariant compares this with  *)
(* the states in the log: with one of those whose events are still queued, *)
(* with the one that the notification sent last, and with the one that a   *)
(* watcher resumes from.                                                   *)
(***************************************************************************)
EXTENDS JsonDbNotification, SequenceFacts

Action == {"create", "update", "remove"}
Message ==
    [kind : {"notify"}, action : Action, key : Key, value : Content, state : Nat]
        \cup [kind : {"stateChange"}, state : Nat] \cup [kind : {"response"}, ok : BOOLEAN]
Tells(m) == m.kind = "notify"
Changes(m) == m.kind = "stateChange"
Update == [key : Key, old : Content, new : Content]
Entry == [table : Table, written : SUBSET Key]
Event == [state : Nat, updates : SUBSET Update]

\* What the query finds of a content, and of an object in a state.
Seen(content) == IF content \in Matching THEN content ELSE 0
Found(l, i, k) == Seen(l[i].table[k])

About(m, k) == Tells(m) /\ m.key = k
Effect(m) == IF m.action = "remove" THEN 0 ELSE m.value
Says(view, s, i, k, v) ==
    /\ \A j \in 1 .. i : About(s[j], k) /\ (\A l \in j + 1 .. i : ~About(s[l], k))
         => Effect(s[j]) = v
    /\ (\A j \in 1 .. i : ~About(s[j], k)) => view[k] = v

-----------------------------------------------------------------------------
(***************************************************************************)
(* What is said.                                                           *)
(***************************************************************************)
LEMMA MessageIs ==
    ASSUME NEW m \in Message
    PROVE  /\ m.kind \in {"notify", "stateChange", "response"}
           /\ Tells(m) => /\ m.action \in Action /\ m.key \in Key /\ m.value \in Content
                          /\ m.state \in Nat
           /\ Changes(m) => m.state \in Nat /\ m = StateChange(m.state)
           /\ m.kind = "response" => m.ok \in BOOLEAN
<1>1. CASE m \in [kind : {"notify"}, action : Action, key : Key, value : Content, state : Nat]
  BY <1>1 DEF Tells, Changes
<1>2. CASE m \in [kind : {"stateChange"}, state : Nat]
  BY <1>2 DEF Tells, Changes, StateChange
<1>3. CASE m \in [kind : {"response"}, ok : BOOLEAN]
  BY <1>3 DEF Tells, Changes
<1> QED  BY <1>1, <1>2, <1>3 DEF Message

\* The three kinds of messages are apart.
LEMMA MessagesAre ==
    /\ \A action \in Action, k \in Key, v \in Content, state \in Nat :
           LET m == Notify(action, k, v, state)
           IN /\ m \in Message /\ Tells(m) /\ ~Changes(m)
              /\ m.action = action /\ m.key = k /\ m.value = v /\ m.state = state
    /\ \A state \in Nat : LET m == StateChange(state)
                          IN m \in Message /\ ~Tells(m) /\ Changes(m) /\ m.state = state
    /\ \A ok \in BOOLEAN : LET m == Response(ok) IN m \in Message /\ ~Tells(m) /\ ~Changes(m)
<1>1. \A action \in Action, k \in Key, v \in Content, state \in Nat :
          LET m == Notify(action, k, v, state)
          IN /\ m \in Message /\ Tells(m) /\ ~Changes(m)
             /\ m.action = action /\ m.key = k /\ m.value = v /\ m.state = state
  BY DEF Notify, Message, Tells, Changes
<1>2. \A state \in Nat : LET m == StateChange(state)
                         IN m \in Message /\ ~Tells(m) /\ Changes(m) /\ m.state = state
  BY DEF StateChange, Message, Tells, Changes
<1>3. \A ok \in BOOLEAN : LET m == Response(ok) IN m \in Message /\ ~Tells(m) /\ ~Changes(m)
  BY DEF Response, Message, Tells, Changes
<1> QED  BY <1>1, <1>2, <1>3

\* The first message arrives.
LEMMA SaysTail ==
    ASSUME NEW s \in Seq(Message), s # <<>>, NEW view, NEW after, NEW k, NEW v,
           NEW i \in 1 .. Len(s), Says(view, s, i, k, v),
           after[k] = IF About(Head(s), k) THEN Effect(Head(s)) ELSE view[k]
    PROVE  Says(after, Tail(s), i - 1, k, v)
<1> DEFINE t == Tail(s)
<1>1. Len(s) \in Nat /\ Len(t) = Len(s) - 1 /\ Head(s) = s[1]
        /\ \A j \in 1 .. Len(t) : t[j] = s[j + 1]
  BY HeadTailProperties, LenProperties
<1> HIDE DEF t
<1>2. i \in Nat /\ i > 0 /\ i <= Len(s)
  BY <1>1
<1>3. \A j \in 1 .. i - 1 : j + 1 \in 1 .. i /\ t[j] = s[j + 1]
  <2>1. \A j \in 1 .. i - 1 : j + 1 \in 1 .. i /\ j \in 1 .. Len(t)
    BY <1>1, <1>2
  <2> QED  BY <1>1, <2>1
<1>4. ASSUME NEW j \in 1 .. i - 1, About(t[j], k), \A l \in j + 1 .. i - 1 : ~About(t[l], k)
      PROVE  Effect(t[j]) = v
  <2>1. ASSUME NEW l \in (j + 1) + 1 .. i PROVE ~About(s[l], k)
    <3>1. l - 1 \in j + 1 .. i - 1 /\ l - 1 \in 1 .. i - 1 /\ (l - 1) + 1 = l
      BY <1>2
    <3> QED  BY <1>3, <1>4, <3>1
  <2>2. j + 1 \in 1 .. i /\ t[j] = s[j + 1]
    BY <1>3
  <2> QED  BY <1>4, <2>1, <2>2 DEF Says
<1>5. ASSUME \A j \in 1 .. i - 1 : ~About(t[j], k) PROVE after[k] = v
  <2>1. ASSUME NEW l \in 2 .. i PROVE ~About(s[l], k)
    <3>1. l - 1 \in 1 .. i - 1 /\ (l - 1) + 1 = l
      BY <1>2
    <3> QED  BY <1>3, <1>5, <3>1
  <2>2. CASE About(s[1], k)
    <3>1. 1 \in 1 .. i /\ 1 + 1 = 2
      BY <1>2
    <3>2. Effect(s[1]) = v
      BY <2>1, <2>2, <3>1 DEF Says
    <3> QED  BY <1>1, <2>2, <3>2
  <2>3. CASE ~About(s[1], k)
    <3>1. \A j \in 1 .. i : j = 1 \/ j \in 2 .. i
      BY <1>2
    <3>2. \A j \in 1 .. i : ~About(s[j], k)
      BY <2>1, <2>3, <3>1
    <3>3. view[k] = v
      BY <3>2 DEF Says
    <3> QED  BY <1>1, <2>3, <3>3
  <2> QED  BY <2>2, <2>3
<1> QED  BY <1>4, <1>5 DEF Says, t

\* More messages follow, none of which is about the object.
LEMMA SaysMore ==
    ASSUME NEW s, NEW t, NEW m \in Nat, NEW i \in Nat, m <= i, \A j \in 1 .. m : t[j] = s[j],
           NEW view, NEW k, NEW v, Says(view, s, m, k, v), \A j \in m + 1 .. i : ~About(t[j], k)
    PROVE  Says(view, t, i, k, v)
<1>1. \A j \in 1 .. i : j \in 1 .. m \/ j \in m + 1 .. i
  OBVIOUS
<1>2. ASSUME NEW j \in 1 .. i, About(t[j], k), \A l \in j + 1 .. i : ~About(t[l], k)
      PROVE  Effect(t[j]) = v
  <2>1. j \in 1 .. m /\ t[j] = s[j]
    BY <1>1, <1>2
  <2>2. \A l \in j + 1 .. m : l \in j + 1 .. i /\ t[l] = s[l]
    BY <2>1
  <2> QED  BY <1>2, <2>1, <2>2 DEF Says
<1>3. ASSUME \A j \in 1 .. i : ~About(t[j], k) PROVE view[k] = v
  <2>1. \A j \in 1 .. m : j \in 1 .. i /\ t[j] = s[j]
    OBVIOUS
  <2> QED  BY <1>3, <2>1 DEF Says
<1> QED  BY <1>2, <1>3 DEF Says

\* One that is about it says what all of these say.
LEMMA SaysAnew ==
    ASSUME NEW t, NEW m \in Nat, NEW i \in Nat, NEW e \in m + 1 .. i, NEW view, NEW k, NEW v,
           About(t[e], k), \A j \in m + 1 .. i : About(t[j], k) => Effect(t[j]) = v
    PROVE  Says(view, t, i, k, v)
<1>1. e \in 1 .. i
  OBVIOUS
<1>2. ASSUME NEW j \in 1 .. i, About(t[j], k), \A l \in j + 1 .. i : ~About(t[l], k)
      PROVE  Effect(t[j]) = v
  <2>1. j \in m + 1 .. i
    <3>1. ~(e \in j + 1 .. i)
      BY <1>2
    <3> QED  BY <3>1
  <2> QED  BY <1>2, <2>1
<1>3. ~\A j \in 1 .. i : ~About(t[j], k)
  BY <1>1
<1> QED  BY <1>2, <1>3 DEF Says

LEMMA SaysNow ==
    ASSUME NEW view, NEW s, NEW k, NEW v
    PROVE  Says(view, s, 0, k, v) <=> view[k] = v
BY DEF Says

-----------------------------------------------------------------------------
(***************************************************************************)
(* What a notification sends of some updates.                              *)
(***************************************************************************)
Hears(u) == effectiveAction(u) # "none"
Note(u, state) == Notify(effectiveAction(u), u.key, u.new, state)
Keyed(U) == \A a, b \in U : a.key = b.key => a = b

\* t is s and what is sent of U: a note of each update that is heard, in some
\* order, and behind them what is no note.
Batch(s, t, U, state, last) ==
    /\ t \in Seq(Message) /\ Len(s) <= Len(t) /\ \A j \in 1 .. Len(s) : t[j] = s[j]
    /\ \A i \in Len(s) + 1 .. Len(t) : Tells(t[i]) => \E u \in U : Hears(u) /\ t[i] = Note(u, state)
    /\ \A u \in U : Hears(u) => \E i \in Len(s) + 1 .. Len(t) : t[i] = Note(u, state)
    /\ \A i, j \in Len(s) + 1 .. Len(t) :
           Tells(t[i]) /\ Tells(t[j]) /\ t[i].key = t[j].key => i = j
    /\ \A i, j \in Len(s) + 1 .. Len(t) : Changes(t[i]) /\ Tells(t[j]) => j < i
    /\ \A i \in Len(s) + 1 .. Len(t) : Changes(t[i]) => t[i].state = last

LEMMA ContentIs ==
    ASSUME NEW c \in Content
    PROVE  Seen(c) \in Content /\ (Seen(c) = 0 <=> c \notin Matching)
BY NotificationAssumption DEF Content, Seen

\* effectiveAction() tells what the query begins or ceases to find, and is silent
\* about an object it neither finds nor found.
LEMMA ActionIs ==
    ASSUME NEW u \in Update, NEW state \in Nat
    PROVE  /\ Hears(u) => /\ Note(u, state) \in Message /\ Tells(Note(u, state))
                          /\ Note(u, state).key = u.key /\ Note(u, state).state = state
                          /\ Effect(Note(u, state)) = Seen(u.new)
           /\ ~Hears(u) => Seen(u.old) = 0 /\ Seen(u.new) = 0
           /\ u.old \in Matching \/ u.new \in Matching => Hears(u)
           /\ Hears(u) /\ (u.old # u.new \/ u.old \in Matching) =>
                /\ Note(u, state).action = "create" <=> Seen(u.old) = 0
                /\ Note(u, state).action = "remove" <=> Note(u, state).value \notin Matching
<1> DEFINE action == effectiveAction(u)
           m == Note(u, state)
<1>1. u.old \in Content /\ u.new \in Content /\ u.key \in Key
  BY DEF Update
<1>2. CASE u.old \in Matching /\ u.new \in Matching
  <2> HIDE DEF m
  <2>0. u.old # 0 /\ u.new # 0
    BY <1>2, NotificationAssumption
  <2>1. action = "update"
    BY <1>2, <2>0 DEF effectiveAction
  <2>2. m \in Message /\ Tells(m) /\ m.action = "update" /\ m.key = u.key /\ m.value = u.new
        /\ m.state = state
    BY <1>1, <2>1, MessagesAre DEF m, Note, Action
  <2>3. Seen(u.old) # 0 /\ Seen(u.new) = u.new
    BY <1>1, <1>2, ContentIs DEF Seen
  <2> QED  BY <1>2, <2>1, <2>2, <2>3 DEF m, Hears, Effect
<1>3. CASE u.old \notin Matching /\ u.new \in Matching
  <2>1. action = "create"
    BY <1>3 DEF effectiveAction
  <2>2. m \in Message /\ Tells(m) /\ m.action = "create" /\ m.key = u.key /\ m.value = u.new
        /\ m.state = state
    BY <1>1, <2>1, MessagesAre DEF Note, Action
  <2>3. Seen(u.old) = 0 /\ Seen(u.new) = u.new
    BY <1>3 DEF Seen
  <2> HIDE DEF m
  <2> QED  BY <1>3, <2>1, <2>2, <2>3 DEF m, Hears, Effect
<1>4. CASE u.old \in Matching /\ u.new \notin Matching
  <2>1. action = "remove"
    BY <1>4 DEF effectiveAction
  <2>2. m \in Message /\ Tells(m) /\ m.action = "remove" /\ m.key = u.key /\ m.value = u.new
        /\ m.state = state
    BY <1>1, <2>1, MessagesAre DEF Note, Action
  <2>3. Seen(u.old) # 0 /\ Seen(u.new) = 0
    BY <1>1, <1>4, ContentIs DEF Seen
  <2> HIDE DEF m
  <2> QED  BY <1>4, <2>1, <2>2, <2>3 DEF m, Hears, Effect
<1>5. CASE u.old \notin Matching /\ u.new \notin Matching
  <2>1. Seen(u.old) = 0 /\ Seen(u.new) = 0
    BY <1>5 DEF Seen
  <2>2. CASE u.old = 0 /\ u.new = 0
    <3>1. action = "create"
      BY <1>5, <2>2 DEF effectiveAction
    <3>2. m \in Message /\ Tells(m) /\ m.action = "create" /\ m.key = u.key /\ m.value = u.new
          /\ m.state = state
      BY <1>1, <3>1, MessagesAre DEF Note, Action
    <3> HIDE DEF m
    <3> QED  BY <1>5, <2>1, <2>2, <3>1, <3>2 DEF m, Hears, Effect
  <2>3. CASE ~(u.old = 0 /\ u.new = 0)
    <3>1. action = "none"
      BY <1>5, <2>3 DEF effectiveAction
    <3> QED  BY <1>5, <2>1, <3>1 DEF Hears
  <2> QED  BY <2>2, <2>3
<1> QED  BY <1>2, <1>3, <1>4, <1>5

\* What notifyIfMatches() sends of the updates of one write is a batch.
LEMMA NotesAre ==
    ASSUME NEW U \in SUBSET Update, IsFiniteSet(U), Keyed(U), NEW note, NEW s \in Seq(Message),
           stateNumber \in Nat, NEW last
    PROVE  LET r == notifyIfMatches(note, U)
           IN /\ r.sent \in Seq(Message)
              /\ Batch(s, s \o r.sent, U, stateNumber, last)
              /\ r.n = IF \E u \in U : Hears(u) THEN [note EXCEPT !.last = stateNumber] ELSE note
<1> DEFINE H == {u \in U : effectiveAction(u) # "none"}
           f == [u \in H |-> Note(u, stateNumber)]
           T == {Notify(effectiveAction(u), u.key, u.new, stateNumber) : u \in H}
           k == Cardinality(T)
           sent == SetToSeq(T)
           r == notifyIfMatches(note, U)
           m == Len(s)
           t == s \o sent
<1>1. /\ r.sent = sent
      /\ r.n = IF T = {} THEN note ELSE [note EXCEPT !.last = stateNumber]
  BY DEF notifyIfMatches
<1>2. \A a : a \in T <=> \E u \in U : Hears(u) /\ a = Note(u, stateNumber)
  BY DEF Hears, Note
<1>3. IsFiniteSet(T)
  <2>1. IsFiniteSet(H)
    BY FS_Subset
  <2>2. f \in Surjection(H, T)
    BY DEF Surjection, Note
  <2> HIDE DEF f, T, H
  <2> QED  BY <2>1, <2>2, FS_Surjection
<1> HIDE DEF T, r, H, f
<1>4. k \in Nat /\ sent \in Bijection(1 .. k, T) /\ sent \in Seq(T)
  BY <1>3, SetToSeqCovers, SetToSeqFacts
<1> HIDE DEF sent
<1>5. \A a \in T : a \in Message /\ Tells(a)
  BY <1>2, ActionIs
<1>6. \A a, b \in T : a.key = b.key => a = b
  <2> SUFFICES ASSUME NEW a \in T, NEW b \in T, a.key = b.key PROVE a = b
    OBVIOUS
  <2>1. PICK u \in U : Hears(u) /\ a = Note(u, stateNumber)
    BY <1>2
  <2>2. PICK o \in U : Hears(o) /\ b = Note(o, stateNumber)
    BY <1>2
  <2>3. u.key = o.key
    BY <2>1, <2>2, ActionIs
  <2> QED  BY <2>1, <2>2, <2>3 DEF Keyed
<1>7. /\ sent \in Seq(Message) /\ Len(sent) = k
      /\ \A i \in 1 .. k : sent[i] \in T
      /\ \A a \in T : \E i \in 1 .. k : sent[i] = a
      /\ \A i, j \in 1 .. k : sent[i] = sent[j] => i = j
  <2>1. sent \in [1 .. k -> T]
    BY <1>4 DEF Bijection, Injection
  <2>2. Len(sent) \in Nat /\ DOMAIN sent = 1 .. Len(sent)
    BY <1>4, LenProperties
  <2>3. Len(sent) = k
    BY <1>4, <2>1, <2>2
  <2>4. \A a \in T : \E i \in 1 .. k : sent[i] = a
    BY <1>4 DEF Bijection, Surjection
  <2>5. \A i, j \in 1 .. k : sent[i] = sent[j] => i = j
    BY <1>4 DEF Bijection, Injection, IsInjective
  <2>6. sent \in Seq(Message)
    BY <1>4, <1>5, SeqMonotonic
  <2> QED  BY <2>1, <2>3, <2>4, <2>5, <2>6
<1> HIDE DEF k
<1>8. m \in Nat /\ k \in Nat
  BY <1>4, LenProperties DEF k
<1>9. /\ t \in Seq(Message) /\ Len(t) = m + k
      /\ \A i \in 1 .. m + k : t[i] = IF i <= m THEN s[i] ELSE sent[i - m]
  <2> HIDE DEF t
  <2>1. sent \in Seq(Message) /\ Len(sent) = k
    BY <1>7
  <2>2. /\ s \o sent \in Seq(Message) /\ Len(s \o sent) = Len(s) + Len(sent)
        /\ \A i \in 1 .. Len(s) + Len(sent) :
               (s \o sent)[i] = IF i <= Len(s) THEN s[i] ELSE sent[i - Len(s)]
    BY ONLY <2>1, s \in Seq(Message), ConcatProperties
  <2>3. t = s \o sent
    BY DEF t
  <2> QED  BY <2>1, <2>2, <2>3
<1> HIDE DEF t, m
<1>10. \A j \in 1 .. m : t[j] = s[j]
  <2>1. \A j \in 1 .. m : j \in 1 .. m + k /\ j <= m
    BY <1>8
  <2> QED  BY <1>9, <2>1
<1>11. \A i \in m + 1 .. m + k : i - m \in 1 .. k /\ t[i] = sent[i - m] /\ t[i] \in T
  <2>1. \A i \in m + 1 .. m + k : i - m \in 1 .. k /\ i \in 1 .. m + k /\ ~(i <= m)
    BY <1>8
  <2> QED  BY <1>7, <1>9, <2>1
<1>12. \A i \in 1 .. k : m + i \in m + 1 .. m + k /\ (m + i) - m = i
  BY <1>8
<1>13. \A a \in T : \E i \in m + 1 .. m + k : t[i] = a
  BY <1>7, <1>11, <1>12
<1>14. \A i, j \in m + 1 .. m + k : t[i].key = t[j].key => i = j
  <2> SUFFICES ASSUME NEW i \in m + 1 .. m + k, NEW j \in m + 1 .. m + k, t[i].key = t[j].key
               PROVE  i = j
    OBVIOUS
  <2>1. i - m = j - m
    BY <1>6, <1>7, <1>11
  <2> QED  BY <1>8, <2>1
<1>15. \A i \in m + 1 .. m + k : ~Changes(t[i])
  BY <1>5, <1>11 DEF Tells, Changes
<1>16. m <= m + k
  BY <1>8
<1>17. Batch(s, t, U, stateNumber, last)
  BY <1>2, <1>9, <1>10, <1>11, <1>13, <1>14, <1>15, <1>16 DEF Batch, m
<1>18. r.n = IF \E u \in U : Hears(u) THEN [note EXCEPT !.last = stateNumber] ELSE note
  BY <1>1, <1>2
<1> QED  BY <1>1, <1>7, <1>17, <1>18 DEF r, t

\* The state change that follows is part of the batch.
LEMMA BatchMore ==
    ASSUME NEW s \in Seq(Message), NEW t, NEW U, NEW state, NEW last, Batch(s, t, U, state, last),
           NEW a \in Message, ~Tells(a), Changes(a) => a.state = last
    PROVE  Batch(s, Append(t, a), U, state, last)
<1> DEFINE e == Append(t, a)
           m == Len(s)
           h == Len(t)
<1>1. t \in Seq(Message) /\ m \in Nat /\ h \in Nat /\ m <= h
  BY LenProperties DEF Batch
<1>2. e \in Seq(Message) /\ Len(e) = h + 1 /\ e[h + 1] = a /\ \A j \in 1 .. h : e[j] = t[j]
  BY <1>1, AppendProperties
<1> HIDE DEF e
<1>3. /\ \A j \in 1 .. m : j \in 1 .. h
      /\ \A i \in m + 1 .. h + 1 : i = h + 1 \/ i \in m + 1 .. h
      /\ \A i \in m + 1 .. h : i \in m + 1 .. h + 1 /\ i \in 1 .. h /\ i < h + 1
  BY <1>1
<1>4. \A i \in m + 1 .. h : e[i] = t[i]
  BY <1>2, <1>3
<1>5. \A j \in 1 .. m : e[j] = s[j]
  BY <1>2, <1>3 DEF Batch
<1>6. \A i \in m + 1 .. h + 1 : Tells(e[i]) => i \in m + 1 .. h /\ e[i] = t[i]
  BY <1>2, <1>3, <1>4
<1>7. \A i \in m + 1 .. h + 1 : Tells(e[i]) => \E u \in U : Hears(u) /\ e[i] = Note(u, state)
  BY <1>6 DEF Batch
<1>8. \A u \in U : Hears(u) => \E i \in m + 1 .. h + 1 : e[i] = Note(u, state)
  <2> SUFFICES ASSUME NEW u \in U, Hears(u) PROVE \E i \in m + 1 .. h + 1 : e[i] = Note(u, state)
    OBVIOUS
  <2>1. PICK i \in m + 1 .. h : t[i] = Note(u, state)
    BY DEF Batch
  <2> QED  BY <1>3, <1>4, <2>1
<1>9. \A i, j \in m + 1 .. h + 1 : Tells(e[i]) /\ Tells(e[j]) /\ e[i].key = e[j].key => i = j
  BY <1>6 DEF Batch
<1>10. \A i, j \in m + 1 .. h + 1 : Changes(e[i]) /\ Tells(e[j]) => j < i
  <2> SUFFICES ASSUME NEW i \in m + 1 .. h + 1, NEW j \in m + 1 .. h + 1, Changes(e[i]), Tells(e[j])
               PROVE  j < i
    OBVIOUS
  <2>1. j \in m + 1 .. h /\ e[j] = t[j] /\ j < h + 1
    BY <1>3, <1>6
  <2>2. CASE i = h + 1
    BY <2>1, <2>2
  <2>3. CASE i \in m + 1 .. h
    BY <1>4, <2>1, <2>3 DEF Batch
  <2> QED  BY <1>3, <2>2, <2>3
<1>11. \A i \in m + 1 .. h + 1 : Changes(e[i]) => e[i].state = last
  BY <1>2, <1>3, <1>4 DEF Batch
<1>12. m <= h + 1
  BY <1>1
<1> QED  BY <1>2, <1>5, <1>7, <1>8, <1>9, <1>10, <1>11, <1>12 DEF Batch, e

\* After all notes of a batch the application knows what they tell.
LEMMA BatchHeard ==
    ASSUME NEW s \in Seq(Message), NEW t, NEW U \in SUBSET Update, NEW state \in Nat, NEW last,
           Batch(s, t, U, state, last),
           NEW i \in Len(s) .. Len(t), \A j \in i + 1 .. Len(t) : ~Tells(t[j]),
           NEW view, NEW k, NEW now,
           \A u \in U : u.key = k => now = Seen(u.new),
           \E u \in U : Hears(u) /\ u.key = k
    PROVE  Says(view, t, i, k, now)
<1>1. Len(s) \in Nat /\ t \in Seq(Message) /\ Len(t) \in Nat
  BY LenProperties DEF Batch
<1>2. i \in Nat /\ Len(s) <= i /\ i <= Len(t)
  BY <1>1 DEF Batch
<1>3. /\ \A j \in Len(s) + 1 .. Len(t) : j \in i + 1 .. Len(t) \/ j \in Len(s) + 1 .. i
      /\ \A j \in Len(s) + 1 .. i : j \in Len(s) + 1 .. Len(t)
  BY <1>1, <1>2
<1>4. ASSUME NEW j \in Len(s) + 1 .. i, About(t[j], k)
      PROVE  Effect(t[j]) = now
  <2>1. PICK u \in U : Hears(u) /\ t[j] = Note(u, state)
    BY <1>3, <1>4 DEF Batch, About
  <2>2. Note(u, state).key = u.key /\ Effect(Note(u, state)) = Seen(u.new)
    BY <2>1, ActionIs
  <2>3. u.key = k
    BY <1>4, <2>1, <2>2 DEF About
  <2> QED  BY <2>1, <2>2, <2>3
<1>5. PICK u \in U : Hears(u) /\ u.key = k
  OBVIOUS
<1>6. PICK e \in Len(s) + 1 .. Len(t) : t[e] = Note(u, state)
  BY <1>5 DEF Batch
<1>7. Tells(t[e]) /\ t[e].key = k
  BY <1>5, <1>6, ActionIs
<1>8. e \in Len(s) + 1 .. i /\ About(t[e], k)
  BY <1>3, <1>7 DEF About
<1> QED  BY <1>1, <1>2, <1>4, <1>8, SaysAnew

\* Of the rest it knows what it knew.
LEMMA BatchQuiet ==
    ASSUME NEW s \in Seq(Message), NEW t, NEW U \in SUBSET Update, NEW state \in Nat, NEW last,
           Batch(s, t, U, state, last),
           NEW i \in Len(s) .. Len(t),
           NEW view, NEW k, NEW v, Says(view, s, Len(s), k, v),
           ~\E u \in U : Hears(u) /\ u.key = k
    PROVE  Says(view, t, i, k, v)
<1>1. Len(s) \in Nat /\ t \in Seq(Message) /\ Len(t) \in Nat
  BY LenProperties DEF Batch
<1>2. i \in Nat /\ Len(s) <= i /\ i <= Len(t) /\ \A j \in 1 .. Len(s) : t[j] = s[j]
  BY <1>1 DEF Batch
<1>3. \A j \in Len(s) + 1 .. i : j \in Len(s) + 1 .. Len(t)
  BY <1>1, <1>2
<1>4. ASSUME NEW j \in Len(s) + 1 .. i, About(t[j], k) PROVE FALSE
  <2>1. PICK u \in U : Hears(u) /\ t[j] = Note(u, state)
    BY <1>3, <1>4 DEF Batch, About
  <2>2. Note(u, state).key = u.key
    BY <2>1, ActionIs
  <2> QED  BY <1>4, <2>1, <2>2 DEF About
<1>5. \A j \in Len(s) + 1 .. i : ~About(t[j], k)
  BY <1>4
<1> QED  BY <1>1, <1>2, <1>5, SaysMore

\* Before the note of an object it knows what it knew.
LEMMA BatchBefore ==
    ASSUME NEW s \in Seq(Message), NEW t, NEW U, NEW state, NEW last, Batch(s, t, U, state, last),
           NEW i \in Len(s) + 1 .. Len(t), Tells(t[i]),
           NEW view, NEW v, Says(view, s, Len(s), t[i].key, v)
    PROVE  Says(view, t, i - 1, t[i].key, v)
<1>1. Len(s) \in Nat /\ t \in Seq(Message) /\ Len(t) \in Nat
  BY LenProperties DEF Batch
<1>2. i - 1 \in Nat /\ Len(s) <= i - 1 /\ \A j \in 1 .. Len(s) : t[j] = s[j]
  BY <1>1 DEF Batch
<1>3. ASSUME NEW j \in Len(s) + 1 .. i - 1 PROVE ~About(t[j], t[i].key)
  <2>1. j \in Len(s) + 1 .. Len(t) /\ j # i
    BY <1>1
  <2> QED  BY <2>1 DEF Batch, About
<1> QED  BY <1>1, <1>2, <1>3, SaysMore

-----------------------------------------------------------------------------
(***************************************************************************)
(* The invariant.                                                          *)
(***************************************************************************)
Clean(e) == e \notin exposed
Trusted ==
    /\ Clean("half") /\ Clean("idle") /\ Clean("rolledback")
    /\ Clean("dangling") \/ Clean("reopened")
Timely == breaks = 0 \/ Clean("overtaken")

\* The state that the events delivered so far have led to.
Base == stateNumber - Len(events)

Change(l, i) == Updates(l[i].written, l[i - 1].table, l[i].table)

\* The log is a chain of changes, and the events queued are the last of them.
LogOk ==
    /\ log \in Seq(Entry) /\ stateNumber > 0
    /\ events \in Seq(Event) /\ Len(events) < stateNumber
    /\ \A i \in 2 .. stateNumber :
           \A k \in Key \ log[i].written : log[i].table[k] = log[i - 1].table[k]
    /\ \A i \in 1 .. Len(events) :
           events[i].state = Base + i /\ events[i].updates = Change(log, Base + i)
    /\ Clean("dangling") => isOpen \/ events = <<>>
    /\ Clean("stillborn") =>
           \A i \in 2 .. stateNumber :
               \A k \in log[i].written : log[i].table[k] # log[i - 1].table[k]

Notification == [on : BOOLEAN, attached : BOOLEAN, initial : Int, last : Nat]
Watcher == [status : {"Activating", "Active"}, initial : Int, last : Nat, within : BOOLEAN,
            view : [Key -> Content \cup {-1}]]

Typed ==
    /\ isOpen \in BOOLEAN /\ connected \in BOOLEAN /\ breaks \in Nat
    /\ n \in Notification /\ w \in Watcher
    /\ toServer \in Seq(Int) /\ toClient \in Seq(Message)

\* The connection carries either the request or what follows it.
Conn ==
    /\ Typed
    /\ w.initial >= -1
    /\ n.attached <=> n.on /\ isOpen
    /\ n.last <= stateNumber
    /\ n.on => connected /\ toServer = <<>> /\ n.initial \in 0 .. stateNumber
    /\ ~n.on => n = NoNotification /\ toClient \in {<<>>, <<Response(FALSE)>>}
    /\ ~connected => toServer = <<>> /\ toClient = <<>>
    /\ toServer # <<>> => toServer = <<Resume(w)>> /\ toClient = <<>> /\ ~n.on
    /\ \A i \in 1 .. Len(toClient) :
           /\ Tells(toClient[i]) => toClient[i].state \in 1 .. stateNumber
           /\ Changes(toClient[i]) => toClient[i].state <= stateNumber

\* The states on the stream rise, from those that the watcher knows.
Numbered(m) == Tells(m) \/ (Changes(m) /\ m.state > 0)
Above(state) ==
    /\ state <= stateNumber
    /\ n.last > 0 => state <= n.last
    /\ \A i \in 1 .. Len(toClient) : Numbered(toClient[i]) => state <= toClient[i].state
Rising ==
    Clean("rolledback") =>
        /\ Above(w.initial) /\ Above(w.last)
        /\ \A i \in 1 .. Len(toClient) : Numbered(toClient[i]) => toClient[i].state <= n.last
        /\ \A i, j \in 1 .. Len(toClient) :
               i < j /\ Numbered(toClient[i]) /\ Numbered(toClient[j]) =>
                   toClient[i].state <= toClient[j].state
        /\ w.last > 0 /\ ~w.within => w.initial <= w.last

\* The application knows what the watcher will resume from.
Ready ==
    LET from == Resume(w)
    IN /\ ~w.within
       /\ from = -1 => w.view = Unread
       /\ from = 0 => w.view = Nothing
       /\ from > 0 => from <= stateNumber /\ \A k \in Key : w.view[k] = Found(log, from, k)

\* What it will know when all that is on the stream has arrived.
Told(k, v) == Says(w.view, toClient, Len(toClient), k, v)

Catching ==
    Trusted /\ Timely =>
        /\ n.on => \A k \in Key : \E i \in Base .. stateNumber : Told(k, Found(log, i, k))
        /\ ~n.on => Ready

\* What is told of a state holds of it.
Known ==
    IF w.within
    THEN \A k \in Key : \E i \in 1 .. stateNumber : i >= w.last /\ w.view[k] = Found(log, i, k)
    ELSE \A k \in Key : w.view[k] = Found(log, w.last, k)
Settled ==
    Trusted /\ Clean("overtaken") =>
        /\ n.last > 0 => \A k \in Key : Told(k, Found(log, n.last, k))
        /\ \A i \in 1 .. Len(toClient) :
               Changes(toClient[i]) /\ toClient[i].state > 0 =>
                   \A k \in Key :
                       Says(w.view, toClient, i, k, Found(log, toClient[i].state, k))
        /\ \A i \in 1 .. Len(toClient) :
               Tells(toClient[i]) =>
                   Effect(toClient[i]) = Found(log, toClient[i].state, toClient[i].key)
        /\ w.last > 0 => Known

\* A note fits what the application will know when it arrives.
FitsAt(view, s, i) ==
    \E v \in Content :
        /\ Says(view, s, i - 1, s[i].key, v)
        /\ s[i].action = "create" <=> v = 0
        /\ s[i].action = "remove" <=> s[i].value \notin Matching
Punctual ==
    Trusted /\ Clean("overtaken") /\ Clean("early") /\ Clean("reopened") /\ Clean("stillborn")
Exact ==
    Punctual =>
        /\ n.on => \A k \in Key : Told(k, Found(log, Base, k))
        /\ \A i \in 1 .. Len(toClient) : Tells(toClient[i]) => FitsAt(w.view, toClient, i)

Invariant == LogOk /\ Conn /\ Rising /\ Catching /\ Settled /\ Exact

\* The queued events are the writes of the states after Base.
LEMMA NumbersAre ==
    ASSUME LogOk
    PROVE  /\ stateNumber \in Nat /\ stateNumber > 0 /\ Len(events) \in Nat
           /\ Base \in Nat /\ Base > 0 /\ Base <= stateNumber /\ stateNumber = Base + Len(events)
           /\ \A i \in 1 .. stateNumber : log[i].table \in Table /\ log[i].written \subseteq Key
           /\ table \in Table
           /\ \A i \in 1 .. Len(events) : Base + i \in 2 .. stateNumber
<1>1. stateNumber \in Nat /\ stateNumber > 0 /\ Len(events) \in Nat /\ Len(events) < stateNumber
  <2>1. log \in Seq(Entry) /\ events \in Seq(Event) /\ stateNumber > 0 /\ Len(events) < stateNumber
    BY DEF LogOk
  <2> QED  BY <2>1, LenProperties DEF stateNumber
<1>2. \A i \in 1 .. stateNumber : log[i] \in Entry
  <2>1. log \in Seq(Entry)
    BY DEF LogOk
  <2> QED  BY <2>1, ElementOfSeq DEF stateNumber
<1>3. \A i \in 1 .. stateNumber : log[i].table \in Table /\ log[i].written \subseteq Key
  BY <1>2 DEF Entry
<1>4. stateNumber \in 1 .. stateNumber
  BY <1>1
<1>5. table \in Table
  BY <1>3, <1>4 DEF table
<1>6. Base \in Nat /\ Base > 0 /\ Base <= stateNumber /\ stateNumber = Base + Len(events)
  BY <1>1 DEF Base
<1>7. \A i \in 1 .. Len(events) : Base + i \in 2 .. stateNumber
  BY <1>1, <1>6
<1> QED  BY <1>1, <1>3, <1>5, <1>6, <1>7

LEMMA FoundIs ==
    ASSUME LogOk, NEW i \in 1 .. stateNumber, NEW k \in Key
    PROVE  /\ Found(log, i, k) \in Content /\ Found(log, i, k) = Seen(log[i].table[k])
           /\ log[i].table[k] \in Content
           /\ Shown(log[i].table)[k] = Found(log, i, k)
<1>1. log[i].table \in Table
  BY NumbersAre
<1>2. log[i].table[k] \in Content
  BY <1>1 DEF Table
<1> QED  BY <1>2, ContentIs DEF Found, Shown, Seen

\* One update for each key that was written.
LEMMA UpdatesAre ==
    ASSUME NEW keys, keys \subseteq Key, NEW before \in Table, NEW after \in Table
    PROVE  /\ Updates(keys, before, after) \in SUBSET Update
           /\ IsFiniteSet(Updates(keys, before, after))
           /\ Keyed(Updates(keys, before, after))
           /\ \A u \in Updates(keys, before, after) :
                  u.key \in keys /\ u.old = before[u.key] /\ u.new = after[u.key]
           /\ \A k \in keys : \E u \in Updates(keys, before, after) : u.key = k
<1> DEFINE U == Updates(keys, before, after)
           f == [k \in keys |-> [key |-> k, old |-> before[k], new |-> after[k]]]
<1>1. \A u \in U : \E k \in keys : u = [key |-> k, old |-> before[k], new |-> after[k]]
  BY DEF Updates
<1>2. \A k \in keys : [key |-> k, old |-> before[k], new |-> after[k]] \in U
  BY DEF Updates
<1>3. IsFiniteSet(U)
  <2>1. IsFiniteSet(keys)
    BY NotificationAssumption, FS_Subset
  <2>2. f \in Surjection(keys, U)
    BY <1>1, <1>2 DEF Surjection
  <2> HIDE DEF f, U
  <2> QED  BY <2>1, <2>2, FS_Surjection
<1> HIDE DEF U, f
<1>4. \A u \in U : u.key \in keys /\ u.old = before[u.key] /\ u.new = after[u.key]
  BY <1>1
<1>5. U \in SUBSET Update
  <2> SUFFICES ASSUME NEW u \in U PROVE u \in Update
    OBVIOUS
  <2>1. PICK k \in keys : u = [key |-> k, old |-> before[k], new |-> after[k]]
    BY <1>1
  <2>2. k \in Key /\ before[k] \in Content /\ after[k] \in Content
    BY DEF Table
  <2> QED  BY <2>1, <2>2 DEF Update
<1>6. Keyed(U)
  <2> SUFFICES ASSUME NEW a \in U, NEW b \in U, a.key = b.key PROVE a = b
    BY DEF Keyed
  <2>1. PICK k \in keys : a = [key |-> k, old |-> before[k], new |-> after[k]]
    BY <1>1
  <2>2. PICK o \in keys : b = [key |-> o, old |-> before[o], new |-> after[o]]
    BY <1>1
  <2> QED  BY <2>1, <2>2
<1>7. \A k \in keys : \E u \in U : u.key = k
  BY <1>2
<1> QED  BY <1>3, <1>4, <1>5, <1>6, <1>7 DEF U

\* The change that led to a state, which may have left out some objects.
LEMMA ChangeIs ==
    ASSUME LogOk, NEW i \in 2 .. stateNumber
    PROVE  /\ Change(log, i) \in SUBSET Update /\ IsFiniteSet(Change(log, i))
                /\ Keyed(Change(log, i))
           /\ \A u \in Change(log, i) :
                  /\ u.key \in Key /\ u.old = log[i - 1].table[u.key] /\ u.new = log[i].table[u.key]
                  /\ Seen(u.old) = Found(log, i - 1, u.key) /\ Seen(u.new) = Found(log, i, u.key)
                  /\ Clean("stillborn") => u.old # u.new
           /\ \A k \in Key : (\A u \in Change(log, i) : u.key # k)
                => Found(log, i, k) = Found(log, i - 1, k)
<1>1. i \in 1 .. stateNumber /\ i - 1 \in 1 .. stateNumber
  BY NumbersAre
<1>2. log[i].written \subseteq Key /\ log[i].table \in Table /\ log[i - 1].table \in Table
  BY <1>1, NumbersAre
<1> DEFINE keys == log[i].written
<1>3. /\ Change(log, i) \in SUBSET Update /\ IsFiniteSet(Change(log, i)) /\ Keyed(Change(log, i))
      /\ \A u \in Change(log, i) : u.key \in keys /\ u.old = log[i - 1].table[u.key]
                                /\ u.new = log[i].table[u.key]
      /\ \A k \in keys : \E u \in Change(log, i) : u.key = k
  BY <1>2, UpdatesAre DEF Change
<1>4. \A k \in Key \ keys : log[i].table[k] = log[i - 1].table[k]
  BY DEF LogOk
<1>5. Clean("stillborn") => \A k \in keys : log[i].table[k] # log[i - 1].table[k]
  BY DEF LogOk
<1> HIDE DEF keys
<1>6. \A u \in Change(log, i) :
          /\ u.key \in Key /\ u.old = log[i - 1].table[u.key] /\ u.new = log[i].table[u.key]
          /\ Seen(u.old) = Found(log, i - 1, u.key) /\ Seen(u.new) = Found(log, i, u.key)
          /\ Clean("stillborn") => u.old # u.new
  BY <1>2, <1>3, <1>5 DEF Found, keys
<1>7. \A k \in Key : (\A u \in Change(log, i) : u.key # k)
        => Found(log, i, k) = Found(log, i - 1, k)
  BY <1>3, <1>4 DEF Found
<1> QED  BY <1>3, <1>6, <1>7

LEMMA ExposeIs ==
    ASSUME NEW condition, NEW e, ExposeIf(condition, e)
    PROVE  exposed \subseteq exposed' /\ (Clean(e)' => ~condition)
BY DEF ExposeIf, Expose, Clean

\* A step forgets no exposure.
LEMMA CleanWas ==
    ASSUME exposed \subseteq exposed'
    PROVE  /\ \A e : Clean(e)' => Clean(e)
           /\ Trusted' => Trusted
           /\ Punctual' => Punctual
<1>1. \A e : Clean(e)' => Clean(e)
  BY DEF Clean
<1>2. Trusted' => Trusted
  BY <1>1 DEF Trusted
<1>3. Punctual' => Punctual
  BY <1>1, <1>2 DEF Punctual
<1> QED  BY <1>1, <1>2, <1>3

LEMMA TimelyWas ==
    ASSUME exposed \subseteq exposed', breaks' = breaks \/ breaks' = breaks + 1, breaks \in Nat
    PROVE  Timely' => Timely
<1>1. Clean("overtaken")' => Clean("overtaken")
  BY DEF Clean
<1>2. breaks' = 0 => breaks = 0
  OBVIOUS
<1> QED  BY <1>1, <1>2 DEF Timely

LEMMA AppendOver ==
    ASSUME NEW s \in Seq(Message), NEW r \in Seq(Message), NEW a \in Message
    PROVE  /\ s \o r \in Seq(Message)
           /\ s \o Append(r, a) = Append(s \o r, a)
           /\ s \o <<a>> = Append(s, a)
<1>1. s \o r \in Seq(Message)
  BY ConcatProperties
<1>2. <<a>> \in Seq(Message)
  OBVIOUS
<1>3. s \o <<a>> = Append(s, a)
  BY AppendIsConcat
<1>4. Append(r, a) = r \o <<a>> /\ Append(s \o r, a) = (s \o r) \o <<a>>
  BY <1>1, AppendIsConcat
<1>5. (s \o r) \o <<a>> = s \o (r \o <<a>>)
  BY <1>2, ConcatAssociative
<1> QED  BY <1>1, <1>3, <1>4, <1>5

LEMMA StateChangeIs ==
    ASSUME NEW note, NEW U
    PROVE  LET r == notifyIfMatches(note, U)
           IN /\ notifyStateChange(r).n = r.n
              /\ notifyStateChange(r).sent = Append(r.sent, StateChange(r.n.last))
BY DEF notifyIfMatches, notifyStateChange

-----------------------------------------------------------------------------
(***************************************************************************)
(* What an action sends.                                                   *)
(***************************************************************************)
Sends(U) ==
    /\ U \in SUBSET Update
    /\ Batch(toClient, toClient', U, stateNumber, n'.last)
    /\ n'.last = IF \E u \in U : Hears(u) THEN stateNumber ELSE n.last

\* What is told of the past, from the state asked for.
History(from) ==
    IF from = 0 THEN Updates({k \in Key : table[k] \in Matching}, Nothing, table)
    ELSE changesSince(from)

LEMMA NothingIs == Nothing \in Table /\ \A k \in Key : Nothing[k] = 0
BY DEF Nothing, Table, Content

\* An object that no state after the given one wrote is the same in it and now.
LEMMA SameSince ==
    ASSUME LogOk, NEW from \in 1 .. stateNumber, NEW k \in Key, k \notin ChangedSince(from)
    PROVE  log[from].table[k] = log[stateNumber].table[k]
<1> DEFINE m == stateNumber - from
           f == [i \in 0 .. m |-> log[from + i].table[k]]
           S == {log[from].table[k]}
<1>1. stateNumber \in Nat /\ from \in Nat /\ from > 0 /\ m \in Nat /\ from + m = stateNumber
  BY NumbersAre
<1>2. ASSUME NEW i \in 1 .. m PROVE f[i] = f[i - 1]
  <2>1. from + i \in 2 .. stateNumber /\ from + i \in from + 1 .. stateNumber
    BY <1>1
  <2>2. from + (i - 1) = (from + i) - 1 /\ i - 1 \in 0 .. m /\ i \in 0 .. m
    BY <1>1
  <2>3. k \notin log[from + i].written
    BY <2>1 DEF ChangedSince
  <2>4. log[from + i].table[k] = log[(from + i) - 1].table[k]
    BY <2>1, <2>3 DEF LogOk
  <2> QED  BY <2>2, <2>4
<1>3. f[0] = log[from].table[k]
  BY <1>1
<1>4. f[m] = log[stateNumber].table[k]
  BY <1>1
<1> HIDE DEF f, m
<1>5. \A i \in 0 .. m : f[i] \in S
  <2>1. f[0] \in S
    BY <1>3
  <2>2. \A i \in 1 .. m : f[i - 1] \in S => f[i] \in S
    BY <1>2
  <2> HIDE DEF S
  <2> QED  BY <1>1, <2>1, <2>2, Stays
<1>6. m \in 0 .. m
  BY <1>1
<1>7. f[m] \in S
  BY <1>5, <1>6
<1> QED  BY <1>4, <1>7

\* The historical changes lead from the state that is resumed from to the present one.
LEMMA HistoryIs ==
    ASSUME LogOk, NEW from \in 0 .. stateNumber
    PROVE  LET U == History(from)
               was(k) == IF from = 0 THEN 0 ELSE Found(log, from, k)
           IN /\ U \in SUBSET Update /\ IsFiniteSet(U) /\ Keyed(U)
              /\ \A u \in U : /\ u.key \in Key /\ Seen(u.new) = Found(log, stateNumber, u.key)
                              /\ Seen(u.old) = was(u.key)
                              /\ Hears(u) /\ (u.old # u.new \/ u.old \in Matching)
              /\ \A k \in Key : (\A u \in U : u.key # k) => was(k) = Found(log, stateNumber, k)
<1> DEFINE U == History(from)
           was(k) == IF from = 0 THEN 0 ELSE Found(log, from, k)
<1>1. /\ stateNumber \in Nat /\ stateNumber > 0 /\ table \in Table
      /\ \A i \in 1 .. stateNumber : log[i].table \in Table /\ log[i].written \subseteq Key
  BY NumbersAre
<1>2. table = log[stateNumber].table
  BY DEF table
<1>3. \A u \in Update : (u.old \in Matching \/ u.new \in Matching) =>
          Hears(u) /\ (u.old # u.new \/ u.old \in Matching)
  <2> SUFFICES ASSUME NEW u \in Update, u.old \in Matching \/ u.new \in Matching
               PROVE  Hears(u) /\ (u.old # u.new \/ u.old \in Matching)
    OBVIOUS
  <2>1. Hears(u)
    BY <1>1, ActionIs
  <2> QED  BY <2>1
<1>4. CASE from = 0
  <2> DEFINE keys == {k \in Key : table[k] \in Matching}
  <2>1. U = Updates(keys, Nothing, table)
    BY <1>4 DEF History
  <2>2. keys \subseteq Key
    OBVIOUS
  <2>3. \A k : k \in keys <=> k \in Key /\ table[k] \in Matching
    OBVIOUS
  <2> HIDE DEF keys, U
  <2>4. /\ U \in SUBSET Update /\ IsFiniteSet(U) /\ Keyed(U)
        /\ \A u \in U : u.key \in keys /\ u.old = Nothing[u.key] /\ u.new = table[u.key]
        /\ \A k \in keys : \E u \in U : u.key = k
    BY <1>1, <2>1, <2>2, NothingIs, UpdatesAre
  <2>5. ASSUME NEW u \in U
        PROVE  /\ u.key \in Key /\ Seen(u.new) = Found(log, stateNumber, u.key)
               /\ Seen(u.old) = was(u.key)
               /\ Hears(u) /\ (u.old # u.new \/ u.old \in Matching)
    <3>1. u.key \in Key /\ u.new = table[u.key] /\ u.new \in Matching /\ u.old = 0 /\ u \in Update
      BY <2>3, <2>4, NothingIs
    <3>2. Seen(u.new) = Found(log, stateNumber, u.key)
      BY <1>2, <3>1 DEF Found
    <3>3. Seen(u.old) = 0
      BY <3>1 DEF Seen
    <3> QED  BY <1>3, <1>4, <3>1, <3>2, <3>3
  <2>6. ASSUME NEW k \in Key, \A u \in U : u.key # k PROVE was(k) = Found(log, stateNumber, k)
    <3>1. table[k] \notin Matching
      BY <2>3, <2>4, <2>6
    <3> QED  BY <1>2, <1>4, <3>1 DEF Found, Seen
  <2> HIDE DEF was
  <2> QED  BY <2>4, <2>5, <2>6 DEF U, was
<1>5. CASE from # 0
  <2> DEFINE keys == ChangedSince(from)
             all == Updates(keys, log[from].table, table)
  <2>1. from \in 1 .. stateNumber
    BY <1>1, <1>5
  <2>2. keys \subseteq Key
    <3>1. \A i \in from + 1 .. stateNumber : i \in 1 .. stateNumber
      BY <1>1, <2>1
    <3> QED  BY <1>1, <3>1 DEF ChangedSince
  <2>3. U = {u \in all : u.old \in Matching \/ u.new \in Matching}
    BY <1>5 DEF History, changesSince
  <2>4. \A k \in Key : k \notin keys => log[from].table[k] = log[stateNumber].table[k]
    BY <2>1, SameSince
  <2> HIDE DEF keys
  <2>5. /\ all \in SUBSET Update /\ IsFiniteSet(all) /\ Keyed(all)
        /\ \A u \in all : u.key \in keys /\ u.old = log[from].table[u.key] /\ u.new = table[u.key]
        /\ \A k \in keys : \E u \in all : u.key = k
    <3>1. log[from].table \in Table /\ table \in Table
      BY <1>1, <2>1
    <3> HIDE DEF all
    <3> DEFINE before == log[from].table
    <3>2. all = Updates(keys, before, table)
      BY DEF all
    <3> HIDE DEF before
    <3>3. before \in Table
      BY <3>1 DEF before
    <3>4. /\ all \in SUBSET Update /\ IsFiniteSet(all) /\ Keyed(all)
          /\ \A u \in all : u.key \in keys /\ u.old = before[u.key] /\ u.new = table[u.key]
          /\ \A k \in keys : \E u \in all : u.key = k
      BY <2>2, <3>1, <3>2, <3>3, UpdatesAre
    <3> QED  BY <3>4 DEF before
  <2> HIDE DEF all
  <2>6. \A u : u \in U <=> u \in all /\ (u.old \in Matching \/ u.new \in Matching)
    BY <2>3
  <2> HIDE DEF U
  <2>7. U \subseteq all
    BY <2>6
  <2>8. U \in SUBSET Update /\ IsFiniteSet(U) /\ Keyed(U)
    <3>1. IsFiniteSet(U)
      BY <2>5, <2>7, FS_Subset
    <3>2. U \in SUBSET Update
      BY <2>5, <2>7
    <3>3. Keyed(U)
      BY <2>5, <2>7 DEF Keyed
    <3> QED  BY <3>1, <3>2, <3>3
  <2>9. ASSUME NEW u \in U
        PROVE  /\ u.key \in Key /\ Seen(u.new) = Found(log, stateNumber, u.key)
               /\ Seen(u.old) = was(u.key)
               /\ Hears(u) /\ (u.old # u.new \/ u.old \in Matching)
    <3>1. u.key \in Key /\ u.new = table[u.key] /\ u.old = log[from].table[u.key]
      BY <2>2, <2>5, <2>7
    <3>2. Seen(u.new) = Found(log, stateNumber, u.key) /\ Seen(u.old) = Found(log, from, u.key)
      BY <1>2, <3>1 DEF Found
    <3>3. u \in Update /\ (u.old \in Matching \/ u.new \in Matching)
      BY <2>6, <2>8
    <3> QED  BY <1>3, <1>5, <3>1, <3>2, <3>3
  <2>10. ASSUME NEW k \in Key, \A u \in U : u.key # k PROVE was(k) = Found(log, stateNumber, k)
    <3>1. CASE k \in keys
      <4>1. PICK u \in all : u.key = k
        BY <2>5, <3>1
      <4>2. u.old = log[from].table[k] /\ u.new = table[k]
        BY <2>5, <4>1
      <4>3. u.old \notin Matching /\ u.new \notin Matching
        BY <2>6, <2>10, <4>1
      <4> QED  BY <1>2, <1>5, <4>2, <4>3 DEF Found, Seen
    <3>2. CASE k \notin keys
      BY <1>5, <2>4, <3>2 DEF Found
    <3> QED  BY <3>1, <3>2
  <2> HIDE DEF was
  <2> QED  BY <2>8, <2>9, <2>10 DEF U, was
<1> QED  BY <1>4, <1>5

LEMMA NoteIs ==
    ASSUME NEW note \in Notification
    PROVE  /\ note.on \in BOOLEAN /\ note.attached \in BOOLEAN
           /\ note.initial \in Int /\ note.last \in Nat
BY DEF Notification

\* addNotification() sends them as one batch and a state change.
LEMMA AddedIs ==
    ASSUME LogOk, toClient \in Seq(Message), NEW note \in Notification,
           NEW from \in 0 .. stateNumber,
           from = IF note.initial = -1 THEN stateNumber ELSE note.initial
    PROVE  LET a == addNotification(note)
               U == History(from)
           IN /\ a.n \in Notification
              /\ a.n.on = note.on /\ a.n.attached = TRUE /\ a.n.initial = from
              /\ a.n.last = IF \E u \in U : Hears(u) THEN stateNumber ELSE note.last
              /\ a.sent \in Seq(Message)
                   /\ Batch(toClient, toClient \o a.sent, U, stateNumber, a.n.last)
<1> DEFINE a == addNotification(note)
           U == History(from)
           m == [note EXCEPT !.attached = TRUE,
                             !.initial = IF @ = Unspecified THEN stateNumber ELSE @]
           r == notifyIfMatches(m, U)
           heard == \E u \in U : Hears(u)
<1>1. stateNumber \in Nat /\ from \in Int
  BY NumbersAre
<1>2. /\ m \in Notification /\ m.on = note.on /\ m.attached = TRUE /\ m.initial = from
      /\ m.last = note.last
  <2>1. /\ note \in [on : BOOLEAN, attached : BOOLEAN, initial : Int, last : Nat]
        /\ Unspecified = -1
    BY DEF Notification, Unspecified
  <2> QED  BY <1>1, <2>1 DEF Notification
<1>3. a = notifyStateChange(r)
  <2>1. a = notifyHistoricalChanges(m)
    BY DEF addNotification
  <2> HIDE DEF m
  <2> QED  BY <1>2, <2>1 DEF notifyHistoricalChanges, History
<1> HIDE DEF m, a
<1>4. U \in SUBSET Update /\ IsFiniteSet(U) /\ Keyed(U)
  BY HistoryIs
<1> HIDE DEF U
<1>5. a.n = r.n /\ a.sent = Append(r.sent, StateChange(r.n.last))
  BY <1>3, StateChangeIs
<1> DEFINE last == r.n.last
<1>6. /\ r.sent \in Seq(Message)
      /\ Batch(toClient, toClient \o r.sent, U, stateNumber, last)
      /\ r.n = IF heard THEN [m EXCEPT !.last = stateNumber] ELSE m
  <2> HIDE DEF last
  <2> QED  BY <1>1, <1>4, NotesAre
<1> HIDE DEF r, heard
<1>7. /\ r.n \in Notification
      /\ r.n.on = note.on /\ r.n.attached = TRUE /\ r.n.initial = from
      /\ r.n.last = IF heard THEN stateNumber ELSE note.last
  <2>1. CASE heard
    BY <1>1, <1>2, <1>6, <2>1 DEF Notification
  <2>2. CASE ~heard
    BY <1>2, <1>6, <2>2
  <2> QED  BY <2>1, <2>2
<1>8. last \in Nat
  BY <1>7, NoteIs
<1>9. StateChange(last) \in Message /\ ~Tells(StateChange(last)) /\ StateChange(last).state = last
  BY <1>8, MessagesAre
<1> HIDE DEF last
<1>10. /\ toClient \o Append(r.sent, StateChange(last)) = Append(toClient \o r.sent,
            StateChange(last))
       /\ Append(r.sent, StateChange(last)) \in Seq(Message)
  BY <1>6, <1>9, AppendOver, AppendProperties
<1>11. Batch(toClient, Append(toClient \o r.sent, StateChange(last)), U, stateNumber, last)
  BY <1>6, <1>9, BatchMore
<1> QED  BY <1>5, <1>7, <1>10, <1>11 DEF a, U, last, heard

\* The events of a write that are delivered.
LEMMA ObjectsAre ==
    ASSUME LogOk, Conn, _q_objectsUpdated, n.attached
    PROVE  /\ Base + 1 \in 2 .. stateNumber /\ Sends(Change(log, Base + 1))
           /\ n' \in Notification /\ n'.on = n.on /\ n'.attached = n.attached
                /\ n'.initial = n.initial
           /\ Clean("overtaken")' => Base + 1 = stateNumber
           /\ w' = w
<1> DEFINE U == Change(log, Base + 1)
           r == notifyIfMatches(n, U)
           last == r.n.last
           heard == \E u \in U : Hears(u)
<1>1. /\ stateNumber \in Nat /\ stateNumber > 0 /\ Len(events) \in Nat
      /\ Base \in Nat /\ stateNumber = Base + Len(events)
      /\ \A i \in 1 .. Len(events) : Base + i \in 2 .. stateNumber
  BY NumbersAre
<1>2. toClient \in Seq(Message) /\ n \in Notification
  BY DEF Conn, Typed
<1>3. events # <<>> /\ events \in Seq(Event)
  BY DEF LogOk, _q_objectsUpdated
<1>4. 1 \in 1 .. Len(events) /\ Head(events) = events[1]
  BY <1>1, <1>3, EmptySeq
<1>5. Head(events).state = Base + 1 /\ Head(events).updates = U /\ Base + 1 \in 2 .. stateNumber
  BY <1>1, <1>4 DEF LogOk
<1>6. U \in SUBSET Update /\ IsFiniteSet(U) /\ Keyed(U)
  BY <1>5, ChangeIs
<1> HIDE DEF U
<1>7. /\ r.sent \in Seq(Message)
      /\ Batch(toClient, toClient \o r.sent, U, stateNumber, last)
      /\ r.n = IF heard THEN [n EXCEPT !.last = stateNumber] ELSE n
  <2> HIDE DEF last
  <2> QED  BY <1>1, <1>2, <1>6, NotesAre
<1>8. /\ n' = IF last = stateNumber THEN notifyStateChange(r).n ELSE r.n
      /\ toClient' = toClient \o (IF last = stateNumber THEN notifyStateChange(r).sent ELSE r.sent)
      /\ w' = w
  BY <1>5 DEF _q_objectsUpdated
<1>9. notifyStateChange(r).n = r.n /\ notifyStateChange(r).sent = Append(r.sent, StateChange(last))
  BY StateChangeIs
<1> HIDE DEF r, heard
<1>10. /\ r.n \in Notification /\ r.n.on = n.on /\ r.n.attached = n.attached
            /\ r.n.initial = n.initial
       /\ r.n.last = IF heard THEN stateNumber ELSE n.last
  <2>1. CASE heard
    BY <1>1, <1>2, <1>7, <2>1 DEF Notification
  <2>2. CASE ~heard
    BY <1>2, <1>7, <2>2
  <2> QED  BY <2>1, <2>2
<1>11. last \in Nat
  BY <1>10, NoteIs
<1>12. n' = r.n
  BY <1>8, <1>9
<1>13. n'.last = last
  BY <1>12
<1> HIDE DEF last
<1>14. StateChange(last) \in Message /\ ~Tells(StateChange(last)) /\ StateChange(last).state = last
  BY <1>11, MessagesAre
<1>15. toClient \o Append(r.sent, StateChange(last)) = Append(toClient \o r.sent, StateChange(last))
  BY <1>2, <1>7, <1>14, AppendOver
<1>16. Batch(toClient, Append(toClient \o r.sent, StateChange(last)), U, stateNumber, last)
  BY <1>2, <1>7, <1>14, BatchMore
<1>17. Batch(toClient, toClient', U, stateNumber, n'.last)
  <2>1. CASE last = stateNumber
    BY <1>8, <1>9, <1>13, <1>15, <1>16, <2>1
  <2>2. CASE last # stateNumber
    BY <1>7, <1>8, <1>13, <2>2
  <2> QED  BY <2>1, <2>2
<1>18. Sends(U)
  BY <1>6, <1>10, <1>12, <1>17 DEF Sends, heard
<1>19. Clean("overtaken")' => Base + 1 = stateNumber
  <2>1. ExposeIf(n.attached /\ Head(events).state < stateNumber, "overtaken")
    BY DEF _q_objectsUpdated
  <2>2. Clean("overtaken")' => ~(Head(events).state < stateNumber)
    BY <2>1, ExposeIs
  <2> QED  BY <1>1, <1>5, <2>2
<1> QED  BY <1>5, <1>8, <1>10, <1>12, <1>18, <1>19 DEF U

\* The watcher where the request is answered.
LEMMA CreatesAre ==
    ASSUME LogOk, Conn, createNotification
    PROVE  /\ ~n.on /\ toClient = <<>> /\ toServer = <<Resume(w)>> /\ toServer' = <<>>
           /\ LET from == IF Resume(w) = -1 THEN stateNumber ELSE Resume(w)
              IN \/ /\ isOpen /\ Resume(w) <= stateNumber
                    /\ from \in 0 .. stateNumber => Sends(History(from))
                    /\ from \in 0 .. stateNumber => n' \in Notification
                    /\ from \in 0 .. stateNumber =>
                         n'.on = TRUE /\ n'.attached = TRUE /\ n'.initial = from
                    /\ w' = IF w.view = Unread THEN [w EXCEPT !.view = Shown(table)] ELSE w
                    /\ exposed \subseteq exposed' /\ (Clean("early")' => events = <<>>)
                 \/ /\ toClient' = <<Response(FALSE)>> /\ n' = n /\ w' = w
                    /\ exposed \subseteq exposed'
<1> DEFINE request == Resume(w)
           from == IF request = -1 THEN stateNumber ELSE request
           note == [NoNotification EXCEPT !.on = TRUE, !.initial = request]
           a == addNotification(note)
<1>1. /\ toServer # <<>> /\ toServer = <<request>> /\ toClient = <<>> /\ ~n.on
      /\ n = NoNotification /\ w \in Watcher
  BY DEF Conn, Typed, createNotification
<1>2. Head(toServer) = request /\ Tail(toServer) = <<>>
  BY <1>1
<1>3. toServer' = <<>>
  BY <1>2 DEF createNotification
<1>4. CASE validateNotification(request)
  <2>1. isOpen /\ request <= stateNumber
    BY <1>4 DEF validateNotification
  <2>2. /\ n' = a.n /\ toClient' = toClient \o a.sent \o <<Response(TRUE)>>
        /\ w' = IF w.view = Unread THEN [w EXCEPT !.view = Shown(table)] ELSE w
        /\ ExposeIf(events # <<>>, "early")
    BY <1>2, <1>4 DEF createNotification
  <2>3. exposed \subseteq exposed' /\ (Clean("early")' => events = <<>>)
    BY <2>2, ExposeIs
  <2>4. ASSUME from \in 0 .. stateNumber
        PROVE  /\ Sends(History(from)) /\ n' \in Notification
               /\ n'.on = TRUE /\ n'.attached = TRUE /\ n'.initial = from
    <3>1. request \in Int
      BY <1>1 DEF Resume, Watcher, Unspecified
    <3>2. note \in Notification /\ note.on = TRUE /\ note.initial = request /\ note.last = 0
      BY <3>1 DEF NoNotification, Notification, Unspecified
    <3>3. toClient \in Seq(Message)
      BY DEF Conn, Typed
    <3> HIDE DEF note, request
    <3>4. from = IF note.initial = -1 THEN stateNumber ELSE note.initial
      BY <3>2
    <3> DEFINE U == History(from)
    <3> HIDE DEF from
    <3>5. /\ a.n \in Notification
          /\ a.n.on = note.on /\ a.n.attached = TRUE /\ a.n.initial = from
          /\ a.n.last = IF \E u \in U : Hears(u) THEN stateNumber ELSE note.last
          /\ a.sent \in Seq(Message)
          /\ Batch(toClient, toClient \o a.sent, U, stateNumber, a.n.last)
      BY <2>4, <3>2, <3>3, <3>4, AddedIs
    <3>6. U \in SUBSET Update
      BY <2>4, HistoryIs
    <3> HIDE DEF a, U
    <3> DEFINE ok == Response(TRUE)
    <3>7. ok \in Message /\ ~Tells(ok) /\ ~Changes(ok)
      BY MessagesAre
    <3> HIDE DEF ok
    <3>8. toClient \o a.sent \in Seq(Message)
      BY <3>3, <3>5, AppendOver, <3>7
    <3>9. (toClient \o a.sent) \o <<ok>> = Append(toClient \o a.sent, ok)
      BY <3>7, <3>8, AppendOver
    <3>10. Batch(toClient, Append(toClient \o a.sent, ok), U, stateNumber, a.n.last)
      BY <3>3, <3>5, <3>7, BatchMore
    <3>11. Batch(toClient, toClient', U, stateNumber, n'.last)
      BY <2>2, <3>9, <3>10 DEF ok
    <3>12. n.last = 0
      BY <1>1 DEF NoNotification
    <3>13. Sends(U)
      BY <2>2, <3>2, <3>5, <3>6, <3>11, <3>12 DEF Sends
    <3> QED  BY <2>2, <3>2, <3>5, <3>13 DEF U
  <2> HIDE DEF from, request
  <2> QED  BY <1>1, <1>3, <2>1, <2>2, <2>3, <2>4 DEF from, request
<1>5. CASE ~validateNotification(request)
  <2>1. toClient' = Append(toClient, Response(FALSE)) /\ n' = n /\ w' = w /\ Expose("refused")
    BY <1>2, <1>5 DEF createNotification
  <2>2. toClient' = <<Response(FALSE)>>
    BY <1>1, <2>1
  <2>3. exposed \subseteq exposed'
    BY <2>1 DEF Expose
  <2> QED  BY <1>1, <1>3, <2>1, <2>2, <2>3
<1> QED  BY <1>4, <1>5

LEMMA OpensAre ==
    ASSUME LogOk, Conn, Open
    PROVE  /\ ~isOpen /\ isOpen' /\ w' = w
           /\ \/ /\ n.on /\ n.initial \in 0 .. stateNumber
                 /\ Sends(History(n.initial))
                 /\ n' \in Notification
                 /\ n'.on = TRUE /\ n'.attached = TRUE /\ n'.initial = n.initial
                 /\ ~Clean("reopened")'
              \/ ~n.on /\ n' = n /\ toClient' = toClient
<1>1. ~isOpen /\ isOpen' /\ w' = w
  BY DEF Open
<1>2. CASE n.on
  <2> DEFINE from == n.initial
             a == addNotification(n)
             U == History(from)
  <2>1. from \in 0 .. stateNumber /\ n \in Notification /\ toClient \in Seq(Message)
    BY <1>2 DEF Conn, Typed
  <2>2. n' = a.n /\ toClient' = toClient \o a.sent /\ ExposeIf(n.on, "reopened")
    BY <1>2 DEF Open
  <2>3. from = IF n.initial = -1 THEN stateNumber ELSE n.initial
    BY <2>1, NumbersAre
  <2> HIDE DEF from
  <2>4. /\ a.n \in Notification
        /\ a.n.on = n.on /\ a.n.attached = TRUE /\ a.n.initial = from
        /\ a.n.last = IF \E u \in U : Hears(u) THEN stateNumber ELSE n.last
        /\ Batch(toClient, toClient \o a.sent, U, stateNumber, a.n.last)
    BY <2>1, <2>3, AddedIs
  <2>5. U \in SUBSET Update
    BY <2>1, HistoryIs
  <2> HIDE DEF a, U
  <2>6. Sends(U)
    BY <2>2, <2>4, <2>5 DEF Sends
  <2>7. ~Clean("reopened")'
    BY <1>2, <2>2, ExposeIs
  <2> QED  BY <1>1, <1>2, <2>1, <2>2, <2>4, <2>6, <2>7, NoteIs DEF U, from
<1>3. CASE ~n.on
  BY <1>1, <1>3 DEF Open
<1> QED  BY <1>1, <1>2, <1>3

\* An action forgets no exposure and no break.
LEMMA Grows ==
    ASSUME [Next]_vars
    PROVE  exposed \subseteq exposed' /\ (breaks' = breaks \/ breaks' = breaks + 1)
<1>1. CASE _q_objectsUpdated
  BY <1>1, ExposeIs DEF _q_objectsUpdated
<1>2. CASE createNotification
  BY <1>2, ExposeIs DEF createNotification, Expose
<1>3. CASE _q_onReceivedObject \/ initWatcher
  BY <1>3 DEF _q_onReceivedObject, initWatcher
<1>4. CASE \E after \in [Key -> Content] : updateObjects(after)
  <2>1. PICK after \in [Key -> Content] : updateObjects(after)
    BY <1>4
  <2>2. \E c : ExposeIf(c, "stillborn")
    BY <2>1 DEF updateObjects
  <2> QED  BY <2>1, <2>2, ExposeIs DEF updateObjects
<1>5. CASE Close
  BY <1>5, ExposeIs DEF Close
<1>6. CASE Open
  BY <1>6, ExposeIs DEF Open
<1>7. CASE removeConnection
  BY <1>7 DEF removeConnection, Disconnected, Expose
<1>8. CASE Crash
  <2>1. \E new : exposed' = exposed \cup new
    BY <1>8 DEF Crash
  <2> QED  BY <1>8, <2>1 DEF Crash, Disconnected
<1>9. CASE UNCHANGED vars
  BY <1>9 DEF vars
<1> QED  BY <1>1, <1>2, <1>3, <1>4, <1>5, <1>6, <1>7, <1>8, <1>9 DEF Next, Works

-----------------------------------------------------------------------------
(***************************************************************************)
(* The log.                                                                *)
(***************************************************************************)
\* A write is committed.
LEMMA WriteIs ==
    ASSUME LogOk, NEW after \in [Key -> Content], updateObjects(after)
    PROVE  \E keys \in SUBSET Key :
               /\ \A k \in Key \ keys : after[k] = table[k]
               /\ Clean("stillborn")' => \A k \in keys : after[k] # table[k]
               /\ log' = Append(log, [table |-> after, written |-> keys])
               /\ events' = Append(events, [state |-> stateNumber + 1,
                                            updates |-> Updates(keys, table, after)])
<1>1. PICK keys \in SUBSET Key \ {{}} :
          /\ \A k \in Key \ keys : after[k] = table[k]
          /\ log' = Append(log, [table |-> after, written |-> keys])
          /\ events' = Append(events, [state |-> stateNumber + 1,
                                       updates |-> Updates(keys, table, after)])
          /\ ExposeIf(\E k \in keys : after[k] = table[k], "stillborn")
  BY DEF updateObjects
<1>2. Clean("stillborn")' => ~\E k \in keys : after[k] = table[k]
  BY <1>1, ExposeIs
<1> QED  BY <1>1, <1>2

LEMMA LogAppended ==
    ASSUME LogOk, NEW after \in [Key -> Content], updateObjects(after)
    PROVE  /\ log' \in Seq(Entry) /\ stateNumber' = stateNumber + 1 /\ Base' = Base
           /\ \A i \in 1 .. stateNumber : log'[i] = log[i]
           /\ \A i \in 1 .. stateNumber : \A k : Found(log', i, k) = Found(log, i, k)
<1>1. PICK keys \in SUBSET Key :
          /\ log' = Append(log, [table |-> after, written |-> keys])
          /\ events' = Append(events, [state |-> stateNumber + 1,
                                       updates |-> Updates(keys, table, after)])
  BY WriteIs
<1> DEFINE entry == [table |-> after, written |-> keys]
           event == [state |-> stateNumber + 1, updates |-> Updates(keys, table, after)]
<1>2. entry \in Entry
  BY DEF Entry, Table
<1>3. event \in Event
  <2>1. stateNumber + 1 \in Nat
    BY NumbersAre
  <2>2. table \in Table /\ after \in Table
    BY NumbersAre DEF Table
  <2>3. Updates(keys, table, after) \in SUBSET Update
    BY <2>2, UpdatesAre
  <2> QED  BY <2>1, <2>3 DEF Event
<1>4. log \in Seq(Entry) /\ events \in Seq(Event)
  BY DEF LogOk
<1> HIDE DEF entry, event
<1>5. log' = Append(log, entry) /\ events' = Append(events, event)
  BY <1>1 DEF entry, event
<1>6. /\ log' \in Seq(Entry) /\ Len(log') = Len(log) + 1
      /\ \A i \in 1 .. Len(log) : log'[i] = log[i]
  BY <1>2, <1>4, <1>5, AppendProperties
<1>7. Len(events') = Len(events) + 1
  BY <1>3, <1>4, <1>5, AppendProperties
<1>8. stateNumber' = stateNumber + 1 /\ Base' = Base
  BY <1>6, <1>7, NumbersAre DEF Base, stateNumber
<1>9. \A i \in 1 .. stateNumber : log'[i] = log[i]
  BY <1>6 DEF stateNumber
<1>10. \A i \in 1 .. stateNumber : \A k : Found(log', i, k) = Found(log, i, k)
  BY <1>9 DEF Found
<1> QED  BY <1>6, <1>8, <1>9, <1>10

LEMMA LogWritten ==
    ASSUME LogOk, NEW after \in [Key -> Content], updateObjects(after)
    PROVE  LogOk'
<1>1. PICK keys \in SUBSET Key :
          /\ \A k \in Key \ keys : after[k] = table[k]
          /\ Clean("stillborn")' => \A k \in keys : after[k] # table[k]
          /\ log' = Append(log, [table |-> after, written |-> keys])
          /\ events' = Append(events, [state |-> stateNumber + 1,
                                       updates |-> Updates(keys, table, after)])
  BY WriteIs
<1> DEFINE entry == [table |-> after, written |-> keys]
           event == [state |-> stateNumber + 1, updates |-> Updates(keys, table, after)]
           last == stateNumber + 1
<1>2. /\ stateNumber \in Nat /\ stateNumber > 0 /\ Len(events) \in Nat /\ Base \in Nat
      /\ stateNumber = Base + Len(events) /\ table \in Table
  BY NumbersAre
<1>3. /\ log' \in Seq(Entry) /\ stateNumber' = last /\ Base' = Base
      /\ \A i \in 1 .. stateNumber : log'[i] = log[i]
  BY LogAppended
<1>4. /\ log'[last] = entry /\ event \in Event
      /\ events' = Append(events, event) /\ entry.table = after /\ entry.written = keys
      /\ event.state = last /\ event.updates = Updates(keys, table, after)
  <2>1. entry \in Entry
    BY DEF Entry, Table
  <2>2. Updates(keys, table, after) \in SUBSET Update
    BY <1>2, UpdatesAre DEF Table
  <2>3. event \in Event
    BY <1>2, <2>2 DEF Event
  <2>4. entry.table = after /\ entry.written = keys
    OBVIOUS
  <2>5. event.state = last /\ event.updates = Updates(keys, table, after)
    OBVIOUS
  <2>6. log \in Seq(Entry) /\ last = Len(log) + 1
    BY DEF LogOk, stateNumber
  <2>7. log' = Append(log, entry) /\ events' = Append(events, event)
    BY <1>1
  <2> HIDE DEF entry, event, last
  <2>8. log'[Len(log) + 1] = entry
    BY <2>1, <2>6, <2>7, AppendProperties
  <2> QED  BY <2>3, <2>4, <2>5, <2>6, <2>7, <2>8
<1> HIDE DEF entry, event
<1>5. /\ events' \in Seq(Event) /\ Len(events') = Len(events) + 1
      /\ \A i \in 1 .. Len(events) : events'[i] = events[i]
      /\ events'[Len(events) + 1] = event
  <2>1. events \in Seq(Event)
    BY DEF LogOk
  <2> QED  BY <1>4, <2>1, AppendProperties
<1>6. \A i \in 2 .. last : i = last \/ (i \in 2 .. stateNumber /\ i \in 1 .. stateNumber
        /\ i - 1 \in 1 .. stateNumber)
  BY <1>2
<1>7. last - 1 = stateNumber /\ stateNumber \in 1 .. stateNumber
  BY <1>2
<1>8. table = log[stateNumber].table
  BY DEF table
<1>9. \A i \in 2 .. last : \A k \in Key \ log'[i].written : log'[i].table[k] = log'[i - 1].table[k]
  <2> SUFFICES ASSUME NEW i \in 2 .. last, NEW k \in Key \ log'[i].written
               PROVE  log'[i].table[k] = log'[i - 1].table[k]
    OBVIOUS
  <2> HIDE DEF last
  <2>1. CASE i = last
    <3>1. log'[i].table = after /\ log'[i].written = keys
      BY <1>4, <2>1
    <3>2. log'[i - 1] = log[stateNumber]
      BY <1>3, <1>7, <2>1
    <3> QED  BY <1>1, <1>8, <3>1, <3>2
  <2>2. CASE i \in 2 .. stateNumber /\ i \in 1 .. stateNumber /\ i - 1 \in 1 .. stateNumber
    <3>1. log'[i] = log[i] /\ log'[i - 1] = log[i - 1]
      BY <1>3, <2>2
    <3>2. \A l \in Key \ log[i].written : log[i].table[l] = log[i - 1].table[l]
      BY <2>2 DEF LogOk
    <3>3. k \in Key \ log[i].written
      BY <3>1
    <3> QED  BY <3>1, <3>2, <3>3
  <2> QED  BY <1>6, <2>1, <2>2
<1>10. Clean("stillborn")' =>
          \A i \in 2 .. last : \A k \in log'[i].written : log'[i].table[k] # log'[i - 1].table[k]
  <2> SUFFICES ASSUME Clean("stillborn")', NEW i \in 2 .. last, NEW k \in log'[i].written
               PROVE  log'[i].table[k] # log'[i - 1].table[k]
    OBVIOUS
  <2>1. Clean("stillborn")
    <3>1. exposed \subseteq exposed'
      BY ExposeIs DEF updateObjects
    <3> QED  BY <3>1, CleanWas
  <2> HIDE DEF last
  <2>2. CASE i = last
    BY <1>1, <1>3, <1>4, <1>7, <1>8, <2>2
  <2>3. CASE i \in 2 .. stateNumber /\ i \in 1 .. stateNumber /\ i - 1 \in 1 .. stateNumber
    BY <1>3, <2>1, <2>3 DEF LogOk
  <2> QED  BY <1>6, <2>2, <2>3
<1>11. ASSUME NEW i \in 1 .. Len(events')
       PROVE  events'[i].state = Base' + i /\ events'[i].updates = Change(log', Base' + i)
  <2>1. CASE i = Len(events) + 1
    <3>1. Base' + i = last /\ events'[i] = event
      BY <1>2, <1>3, <1>5, <2>1
    <3>2. Change(log', last) = Updates(keys, table, after)
      <4> HIDE DEF last
      <4> QED  BY <1>3, <1>4, <1>7, <1>8 DEF Change
    <3> HIDE DEF last
    <3> QED  BY <1>4, <3>1, <3>2
  <2>2. CASE i \in 1 .. Len(events)
    <3>1. events'[i] = events[i] /\ Base' + i = Base + i
      BY <1>3, <1>5, <2>2
    <3>2. Base + i \in 1 .. stateNumber /\ (Base + i) - 1 \in 1 .. stateNumber
      BY <2>2, NumbersAre
    <3>3. Change(log', Base + i) = Change(log, Base + i)
      BY <1>3, <3>1, <3>2 DEF Change
    <3> QED  BY <2>2, <3>1, <3>3 DEF LogOk
  <2>3. i = Len(events) + 1 \/ i \in 1 .. Len(events)
    BY <1>2, <1>5
  <2> QED  BY <2>1, <2>2, <2>3
<1>12. Len(events') < stateNumber'
  <2>1. Len(events) < stateNumber
    BY DEF LogOk
  <2> QED  BY <1>2, <1>3, <1>5, <2>1
<1>13. isOpen'
  BY DEF updateObjects
<1>14. stateNumber' > 0
  BY <1>2, <1>3
<1> HIDE DEF last
<1> QED  BY <1>3, <1>5, <1>9, <1>10, <1>11, <1>12, <1>13, <1>14 DEF LogOk

LEMMA LogDelivered ==
    ASSUME LogOk, _q_objectsUpdated
    PROVE  LogOk' /\ Base' = Base + 1 /\ stateNumber' = stateNumber /\ log' = log
<1>1. log' = log /\ events' = Tail(events) /\ events # <<>> /\ isOpen /\ isOpen' = isOpen
  BY DEF _q_objectsUpdated
<1>2. exposed \subseteq exposed'
  BY ExposeIs DEF _q_objectsUpdated
<1>3. events \in Seq(Event)
  BY DEF LogOk
<1>4. /\ events' \in Seq(Event) /\ Len(events') = Len(events) - 1
      /\ \A i \in 1 .. Len(events') : events'[i] = events[i + 1]
  BY <1>1, <1>3, HeadTailProperties
<1>5. stateNumber' = stateNumber
  BY <1>1 DEF stateNumber
<1>6. stateNumber \in Nat /\ Len(events) \in Nat /\ Base \in Nat /\ stateNumber = Base + Len(events)
  BY NumbersAre
<1>7. Base' = Base + 1
  BY <1>4, <1>5, <1>6 DEF Base
<1>8. ASSUME NEW i \in 1 .. Len(events')
      PROVE  events'[i].state = Base' + i /\ events'[i].updates = Change(log', Base' + i)
  <2>1. i + 1 \in 1 .. Len(events) /\ Base' + i = Base + (i + 1)
    <3>1. Len(events') = Len(events) - 1 /\ Len(events) \in Nat
      BY <1>4, <1>6
    <3>2. i \in 1 .. Len(events) - 1
      BY <3>1
    <3>3. i + 1 \in 1 .. Len(events) /\ i \in Int
      BY <3>1, <3>2
    <3>4. Base' + i = Base + (i + 1)
      BY <1>6, <1>7, <3>3
    <3> QED  BY <3>3, <3>4
  <2>2. Change(log', Base + (i + 1)) = Change(log, Base + (i + 1))
    BY <1>1, <1>7, <2>1 DEF Change
  <2>3. events'[i] = events[i + 1]
    BY <1>4
  <2>4. Change(log', Base' + i) = Change(log, Base + (i + 1))
    BY <1>1, <2>1 DEF Change
  <2> QED  BY <2>1, <2>3, <2>4 DEF LogOk
<1>9. Len(events') < stateNumber'
  BY <1>4, <1>5, <1>6 DEF LogOk
<1>10. Clean("stillborn")' => Clean("stillborn")
  BY <1>2, CleanWas
<1> QED  BY <1>1, <1>4, <1>5, <1>7, <1>8, <1>9, <1>10 DEF LogOk

\* Nothing is written or delivered.
LEMMA LogStays ==
    ASSUME LogOk, log' = log, events' = events, exposed \subseteq exposed',
           Clean("dangling")' => isOpen' = isOpen \/ isOpen' \/ events = <<>>
    PROVE  LogOk' /\ Base' = Base /\ stateNumber' = stateNumber
<1>1. stateNumber' = stateNumber /\ Base' = Base
  BY DEF stateNumber, Base
<1>2. (Clean("stillborn")' => Clean("stillborn")) /\ (Clean("dangling")' => Clean("dangling"))
  BY CleanWas
<1>3. \A i \in 1 .. Len(events') : events'[i].state = Base' + i
        /\ events'[i].updates = Change(log', Base' + i)
  <2> SUFFICES ASSUME NEW i \in 1 .. Len(events')
               PROVE  events'[i].state = Base' + i /\ events'[i].updates = Change(log', Base' + i)
    OBVIOUS
  <2>1. Change(log', Base' + i) = Change(log, Base + i)
    BY <1>1 DEF Change
  <2> QED  BY <1>1, <2>1 DEF LogOk
<1> QED  BY <1>1, <1>2, <1>3 DEF LogOk

\* The daemon crashes.
LEMMA LogCrashed ==
    ASSUME LogOk, Conn, Crash
    PROVE  LogOk' /\ Base' = stateNumber' /\ (Clean("rolledback")' => log' = log)
<1>1. PICK durable \in 1 .. stateNumber :
          /\ log' = SubSeq(log, 1, durable)
          /\ durable < stateNumber => "rolledback" \in exposed'
          /\ exposed \subseteq exposed'
  <2>1. stateNumber \in 1 .. stateNumber
    BY NumbersAre
  <2>2. PICK durable \in IF isOpen THEN 1 .. stateNumber ELSE {stateNumber} :
            LET exposing == (IF durable < stateNumber THEN {"rolledback"} ELSE {})
                          \cup (IF w.within THEN {"half"} ELSE {})
                            \cup (IF Idle THEN {"idle"} ELSE {})
            IN exposed' = exposed \cup exposing /\ log' = SubSeq(log, 1, durable)
    BY DEF Crash
  <2>3. durable \in 1 .. stateNumber
    BY <2>1, <2>2
  <2> QED  BY <2>2, <2>3
<1>2. events' = <<>> /\ isOpen'
  BY DEF Crash
<1>3. stateNumber \in Nat /\ log \in Seq(Entry) /\ durable \in Nat /\ durable > 0
        /\ durable <= stateNumber
  BY NumbersAre DEF LogOk
<1>4. \A i \in 1 .. durable : i \in 1 .. stateNumber /\ log[i] \in Entry
  <2>1. \A i \in 1 .. durable : i \in 1 .. Len(log)
    BY <1>3 DEF stateNumber
  <2> QED  BY <1>3, <2>1, ElementOfSeq DEF stateNumber
<1>5. /\ log' \in Seq(Entry) /\ Len(log') = durable
      /\ \A i \in 1 .. durable : log'[i] = log[i]
  <2>1. /\ SubSeq(log, 1, durable) \in Seq(Entry)
        /\ Len(SubSeq(log, 1, durable)) = IF 1 <= durable THEN durable - 1 + 1 ELSE 0
        /\ \A i \in 1 .. durable - 1 + 1 : SubSeq(log, 1, durable)[i] = log[1 + i - 1]
    <3>1. durable \in Int /\ 1 \in Int
      BY <1>3
    <3> QED  BY <1>4, <3>1, SubSeqProperties
  <2>2. durable - 1 + 1 = durable /\ 1 <= durable /\ \A i \in 1 .. durable : 1 + i - 1 = i
    BY <1>3
  <2> QED  BY <1>1, <2>1, <2>2
<1>6. stateNumber' = durable /\ Base' = durable /\ Len(events') = 0
  <2>1. Len(events') = 0
    BY <1>2
  <2> QED  BY <1>3, <1>5, <2>1 DEF Base, stateNumber
<1>7. \A i \in 2 .. durable : i \in 2 .. stateNumber /\ log'[i] = log[i] /\ log'[i - 1] = log[i - 1]
  <2>1. \A i \in 2 .. durable : i \in 1 .. durable /\ i - 1 \in 1 .. durable
          /\ i \in 2 .. stateNumber
    BY <1>3
  <2> QED  BY <1>5, <2>1
<1>8. \A i \in 2 .. stateNumber' :
          \A k \in Key \ log'[i].written : log'[i].table[k] = log'[i - 1].table[k]
  BY <1>6, <1>7 DEF LogOk
<1>9. Clean("stillborn")' =>
          \A i \in 2 .. stateNumber' : \A k \in log'[i].written :
            log'[i].table[k] # log'[i - 1].table[k]
  <2> SUFFICES ASSUME Clean("stillborn")'
               PROVE  \A i \in 2 .. stateNumber' :
                          \A k \in log'[i].written : log'[i].table[k] # log'[i - 1].table[k]
    OBVIOUS
  <2>1. Clean("stillborn")
    BY <1>1, CleanWas
  <2>2. \A i \in 2 .. stateNumber :
            \A k \in log[i].written : log[i].table[k] # log[i - 1].table[k]
    BY <2>1 DEF LogOk
  <2> QED  BY <1>6, <1>7, <2>2
<1>10. events' \in Seq(Event)
  BY <1>2
<1>11. stateNumber' > 0 /\ Len(events') < stateNumber'
  BY <1>3, <1>6
<1>12. \A i \in 1 .. Len(events') : FALSE
  BY <1>6
<1>13. LogOk'
  BY <1>2, <1>5, <1>8, <1>9, <1>10, <1>11, <1>12 DEF LogOk
<1>14. Clean("rolledback")' => log' = log
  <2>1. Clean("rolledback")' => durable = stateNumber
    BY <1>1, <1>3 DEF Clean
  <2>2. SubSeq(log, 1, Len(log)) = log
    BY <1>3, SubSeqFull
  <2> QED  BY <1>1, <2>1, <2>2 DEF stateNumber
<1> QED  BY <1>6, <1>13, <1>14
-----------------------------------------------------------------------------
(***************************************************************************)
(* The connection.                                                         *)
(***************************************************************************)
LEMMA WatcherIs ==
    ASSUME NEW watcher \in Watcher
    PROVE  /\ watcher.initial \in Int /\ watcher.last \in Nat /\ watcher.within \in BOOLEAN
           /\ watcher.view \in [Key -> Content \cup {-1}]
BY DEF Watcher

LEMMA SentIs ==
    ASSUME LogOk, Conn, NEW U, Sends(U)
    PROVE  /\ toClient' \in Seq(Message) /\ n'.last <= stateNumber /\ n.last <= n'.last
           /\ Len(toClient) \in Nat /\ Len(toClient') \in Nat /\ Len(toClient) <= Len(toClient')
           /\ \A i \in 1 .. Len(toClient) : toClient'[i] = toClient[i]
           /\ \A i \in 1 .. Len(toClient') :
                  i \in 1 .. Len(toClient) \/ i \in Len(toClient) + 1 .. Len(toClient')
           /\ \A i \in Len(toClient) + 1 .. Len(toClient') :
                  /\ i \in 1 .. Len(toClient') /\ i > Len(toClient)
                  /\ Tells(toClient'[i]) =>
                        /\ toClient'[i].state = stateNumber /\ n'.last = stateNumber
                        /\ \E u \in U : Hears(u) /\ toClient'[i] = Note(u, stateNumber)
                  /\ Changes(toClient'[i]) => toClient'[i].state = n'.last
<1> DEFINE s == toClient
           t == toClient'
<1>1. /\ Batch(s, t, U, stateNumber, n'.last) /\ U \in SUBSET Update
      /\ n'.last = IF \E u \in U : Hears(u) THEN stateNumber ELSE n.last
  BY DEF Sends
<1>2. s \in Seq(Message) /\ n.last <= stateNumber /\ n.last \in Nat
  BY NoteIs DEF Conn, Typed
<1>3. stateNumber \in Nat
  BY NumbersAre
<1> HIDE DEF s, t
<1>4. t \in Seq(Message) /\ Len(s) <= Len(t) /\ \A j \in 1 .. Len(s) : t[j] = s[j]
  BY <1>1 DEF Batch
<1>5. Len(s) \in Nat /\ Len(t) \in Nat
  BY <1>2, <1>4, LenProperties
<1>6. n'.last <= stateNumber /\ n.last <= n'.last
  BY <1>1, <1>2, <1>3
<1>7. /\ \A i \in 1 .. Len(t) : i \in 1 .. Len(s) \/ i \in Len(s) + 1 .. Len(t)
      /\ \A i \in Len(s) + 1 .. Len(t) : i \in 1 .. Len(t) /\ i > Len(s)
  BY <1>5
<1>8. ASSUME NEW i \in Len(s) + 1 .. Len(t), Tells(t[i])
      PROVE  /\ t[i].state = stateNumber /\ n'.last = stateNumber
             /\ \E u \in U : Hears(u) /\ t[i] = Note(u, stateNumber)
  <2>1. PICK u \in U : Hears(u) /\ t[i] = Note(u, stateNumber)
    BY <1>1, <1>8 DEF Batch
  <2>2. Note(u, stateNumber).state = stateNumber
    BY <1>1, <1>3, <2>1, ActionIs
  <2> QED  BY <1>1, <2>1, <2>2
<1>9. \A i \in Len(s) + 1 .. Len(t) : Changes(t[i]) => t[i].state = n'.last
  BY <1>1 DEF Batch
<1> QED  BY <1>4, <1>5, <1>6, <1>7, <1>8, <1>9 DEF s, t

LEMMA ReceivedAre ==
    ASSUME Conn, _q_onReceivedObject
    PROVE  LET m == Head(toClient)
           IN /\ toClient # <<>> /\ toClient \in Seq(Message) /\ m \in Message
              /\ Len(toClient) \in Nat /\ Len(toClient) > 0 /\ m = toClient[1]
              /\ toClient' = Tail(toClient) /\ toClient' \in Seq(Message)
              /\ Len(toClient') = Len(toClient) - 1
              /\ \A i \in 1 .. Len(toClient') :
                     toClient'[i] = toClient[i + 1] /\ i + 1 \in 2 .. Len(toClient)
              /\ w' \in Watcher
              /\ w'.initial = IF Tells(m) /\ w.initial = -1 THEN m.state ELSE w.initial
              /\ w'.last = IF Changes(m) THEN m.state ELSE w.last
              /\ Tells(m) => w'.within
              /\ Changes(m) => ~w'.within
              /\ ~Tells(m) /\ ~Changes(m) => w'.within = w.within
              /\ \A k \in Key : w'.view[k] = IF About(m, k) THEN Effect(m) ELSE w.view[k]
              /\ ~Tells(m) => w'.view = w.view
<1> DEFINE m == Head(toClient)
<1>1. toClient # <<>> /\ toClient \in Seq(Message) /\ toClient' = Tail(toClient) /\ w \in Watcher
  BY DEF Conn, Typed, _q_onReceivedObject
<1>2. /\ m \in Message /\ toClient' \in Seq(Message) /\ Len(toClient') = Len(toClient) - 1
      /\ \A i \in 1 .. Len(toClient') : toClient'[i] = toClient[i + 1]
  BY <1>1, HeadTailProperties
<1>3. Len(toClient) \in Nat /\ Len(toClient) > 0
  BY <1>1, EmptySeq
<1>4. m = toClient[1]
  BY <1>1
<1>5. \A i \in 1 .. Len(toClient') : i + 1 \in 2 .. Len(toClient)
  BY <1>2, <1>3
<1>6. w' = CASE m.kind = "notify" -> handleNotification(w, m)
             [] m.kind = "stateChange" -> handleStateChange(w, m)
             [] m.kind = "response" -> IF m.ok THEN [w EXCEPT !.status = "Active"] ELSE w
  BY DEF _q_onReceivedObject
<1> HIDE DEF m
<1>7. /\ m.kind \in {"notify", "stateChange", "response"}
      /\ Tells(m) => m.action \in Action /\ m.key \in Key /\ m.value \in Content /\ m.state \in Nat
      /\ Changes(m) => m.state \in Nat
      /\ m.kind = "response" => m.ok \in BOOLEAN
  BY <1>2, MessageIs
<1> DEFINE Effects ==
              /\ w' \in Watcher
              /\ w'.initial = IF Tells(m) /\ w.initial = -1 THEN m.state ELSE w.initial
              /\ w'.last = IF Changes(m) THEN m.state ELSE w.last
              /\ Tells(m) => w'.within
              /\ Changes(m) => ~w'.within
              /\ ~Tells(m) /\ ~Changes(m) => w'.within = w.within
              /\ \A k \in Key : w'.view[k] = IF About(m, k) THEN Effect(m) ELSE w.view[k]
              /\ ~Tells(m) => w'.view = w.view
<1>8. ASSUME m.kind = "notify" PROVE Effects
  <2>1. Tells(m) /\ ~Changes(m)
    BY <1>8 DEF Tells, Changes
  <2>2. w' = handleNotification(w, m)
    BY <1>6, <1>8
  <2>3. Effect(m) \in Content /\ m.state \in Nat /\ m.key \in Key
    BY <1>7, <2>1 DEF Effect, Content
  <2>4. w' = [w EXCEPT !.initial = IF @ = -1 THEN m.state ELSE @, !.within = TRUE,
                       !.view[m.key] = Effect(m)]
    BY <2>2 DEF handleNotification, Unspecified, Effect
  <2>5. /\ w' \in Watcher
        /\ w'.initial = IF w.initial = -1 THEN m.state ELSE w.initial
        /\ w'.last = w.last /\ w'.within = TRUE
        /\ w'.view = [w.view EXCEPT ![m.key] = Effect(m)]
    <3> HIDE DEF Effects
    <3>1. w.view \in [Key -> Content \cup {-1}]
      BY <1>1, WatcherIs
    <3>2. [w.view EXCEPT ![m.key] = Effect(m)] \in [Key -> Content \cup {-1}]
      BY <2>3, <3>1
    <3>3. m.state \in Int
      BY <2>3
    <3> QED  BY <1>1, <2>4, <3>2, <3>3 DEF Watcher
  <2>6. \A k \in Key : w'.view[k] = IF About(m, k) THEN Effect(m) ELSE w.view[k]
    <3>1. w.view \in [Key -> Content \cup {-1}]
      BY <1>1, WatcherIs
    <3> QED  BY <2>1, <2>3, <2>5, <3>1 DEF About
  <2>7. w'.within
    BY <2>5
  <2> QED  BY <2>1, <2>5, <2>6, <2>7
<1>9. ASSUME m.kind = "stateChange" PROVE Effects
  <2>1. ~Tells(m) /\ Changes(m)
    BY <1>9 DEF Tells, Changes
  <2>2. w' = handleStateChange(w, m)
    BY <1>6, <1>9
  <2>3. m.state \in Nat
    BY <1>7, <2>1
  <2>4. /\ w' \in Watcher /\ w'.initial = w.initial /\ w'.last = m.state
        /\ w'.within = FALSE /\ w'.view = w.view
    <3> HIDE DEF Effects
    <3> QED  BY <1>1, <2>2, <2>3 DEF Watcher, handleStateChange
  <2>5. \A k \in Key : ~About(m, k)
    BY <2>1 DEF About
  <2>6. ~w'.within
    BY <2>4
  <2> QED  BY <2>1, <2>4, <2>5, <2>6
<1>10. ASSUME m.kind = "response" PROVE Effects
  <2>1. ~Tells(m) /\ ~Changes(m)
    BY <1>10 DEF Tells, Changes
  <2>2. w' = IF m.ok THEN [w EXCEPT !.status = "Active"] ELSE w
    BY <1>6, <1>10
  <2>4. /\ w' \in Watcher /\ w'.initial = w.initial /\ w'.last = w.last
        /\ w'.within = w.within /\ w'.view = w.view
    <3> HIDE DEF Effects
    <3>1. CASE m.ok
      BY <1>1, <2>2, <3>1 DEF Watcher
    <3>2. CASE ~m.ok
      BY <1>1, <2>2, <3>2
    <3> QED  BY <3>1, <3>2
  <2>5. \A k \in Key : ~About(m, k)
    BY <2>1 DEF About
  <2> QED  BY <2>1, <2>4, <2>5
<1> HIDE DEF Effects
<1>11. Effects
  <2>1. m.kind = "notify" \/ m.kind = "stateChange" \/ m.kind = "response"
    BY <1>7
  <2> QED  BY <1>8, <1>9, <1>10, <2>1
<1> QED  BY <1>1, <1>2, <1>3, <1>4, <1>5, <1>11 DEF Effects, m

LEMMA ResumeIs ==
    ASSUME w \in Watcher, w.initial >= -1
    PROVE  Resume(w) \in Int /\ Resume(w) >= -1
BY DEF Watcher, Resume, Unspecified

\* It depends on what the watcher was told and asks for only.
LEMMA SameResume ==
    ASSUME w'.initial = w.initial, w'.last = w.last
    PROVE  Resume(w') = Resume(w)
BY DEF Resume

LEMMA NoNotificationIs ==
    NoNotification \in Notification /\ ~NoNotification.on /\ ~NoNotification.attached
        /\ NoNotification.last = 0
BY DEF NoNotification, Notification, Unspecified

\* What the messages sent keep.
LEMMA ConnSent ==
    ASSUME LogOk, Conn, NEW U, Sends(U), stateNumber' = stateNumber,
           n' \in Notification, n'.on, connected' = connected, connected, toServer' = <<>>,
           isOpen' \in BOOLEAN, n'.attached <=> isOpen', n'.initial \in 0 .. stateNumber,
           w' \in Watcher, w'.initial = w.initial, breaks' = breaks
    PROVE  Conn'
<1>1. /\ toClient' \in Seq(Message) /\ n'.last <= stateNumber
      /\ Len(toClient) \in Nat /\ Len(toClient') \in Nat
      /\ \A i \in 1 .. Len(toClient) : toClient'[i] = toClient[i]
      /\ \A i \in 1 .. Len(toClient') :
             i \in 1 .. Len(toClient) \/ i \in Len(toClient) + 1 .. Len(toClient')
      /\ \A i \in Len(toClient) + 1 .. Len(toClient') :
             /\ Tells(toClient'[i]) => toClient'[i].state = stateNumber
             /\ Changes(toClient'[i]) => toClient'[i].state = n'.last
  BY SentIs
<1>2. stateNumber \in 1 .. stateNumber
  BY NumbersAre
<1>3. \A i \in 1 .. Len(toClient') :
          /\ Tells(toClient'[i]) => toClient'[i].state \in 1 .. stateNumber
          /\ Changes(toClient'[i]) => toClient'[i].state <= stateNumber
  BY <1>1, <1>2 DEF Conn
<1>4. Typed'
  <2>1. breaks \in Nat /\ connected \in BOOLEAN
    BY DEF Conn, Typed
  <2>2. toServer' \in Seq(Int)
    OBVIOUS
  <2> QED  BY <1>1, <2>1, <2>2 DEF Typed
<1>5. w'.initial >= -1
  BY DEF Conn
<1> QED  BY <1>1, <1>3, <1>4, <1>5 DEF Conn

LEMMA ConnWritten ==
    ASSUME LogOk, Conn, NEW after \in [Key -> Content], updateObjects(after)
    PROVE  Conn'
<1>1. /\ isOpen' = isOpen /\ n' = n /\ connected' = connected /\ toServer' = toServer
      /\ toClient' = toClient /\ w' = w /\ breaks' = breaks
  BY DEF updateObjects
<1>2. stateNumber' = stateNumber + 1 /\ stateNumber \in Nat
  BY LogAppended, NumbersAre
<1>3. Typed' /\ w'.initial >= -1
  BY <1>1 DEF Conn, Typed
<1>4. n.last \in Nat /\ n.last <= stateNumber
  BY NoteIs DEF Conn, Typed
<1>5. n'.last <= stateNumber'
  BY <1>1, <1>2, <1>4
<1>6. n'.on => connected' /\ toServer' = <<>> /\ n'.initial \in 0 .. stateNumber'
  <2>1. n.on => connected /\ toServer = <<>> /\ n.initial \in 0 .. stateNumber
    BY DEF Conn
  <2>2. \A i \in 0 .. stateNumber : i \in 0 .. stateNumber'
    BY <1>2
  <2> QED  BY <1>1, <2>1, <2>2
<1>7. \A i \in 1 .. Len(toClient') :
          /\ Tells(toClient'[i]) => toClient'[i].state \in 1 .. stateNumber'
          /\ Changes(toClient'[i]) => toClient'[i].state <= stateNumber'
  <2> SUFFICES ASSUME NEW i \in 1 .. Len(toClient)
               PROVE  /\ Tells(toClient[i]) => toClient[i].state \in 1 .. stateNumber'
                      /\ Changes(toClient[i]) => toClient[i].state <= stateNumber'
    BY <1>1
  <2>1. /\ Tells(toClient[i]) => toClient[i].state \in 1 .. stateNumber
        /\ Changes(toClient[i]) => toClient[i].state <= stateNumber
    BY DEF Conn
  <2>2. toClient[i] \in Message
    BY ElementOfSeq DEF Conn, Typed
  <2>3. Changes(toClient[i]) => toClient[i].state \in Nat
    BY <2>2, MessageIs
  <2> QED  BY <1>2, <2>1, <2>3
<1>8. /\ n'.attached <=> n'.on /\ isOpen'
      /\ ~n'.on => n' = NoNotification /\ toClient' \in {<<>>, <<Response(FALSE)>>}
      /\ ~connected' => toServer' = <<>> /\ toClient' = <<>>
      /\ toServer' # <<>> => toServer' = <<Resume(w')>> /\ toClient' = <<>> /\ ~n'.on
  BY <1>1 DEF Conn
<1> QED  BY <1>3, <1>5, <1>6, <1>7, <1>8 DEF Conn

LEMMA ConnDelivered ==
    ASSUME LogOk, Conn, _q_objectsUpdated
    PROVE  Conn'
<1>1. /\ isOpen' = isOpen /\ connected' = connected /\ toServer' = toServer
      /\ w' = w /\ breaks' = breaks /\ stateNumber' = stateNumber
  BY LogDelivered DEF _q_objectsUpdated
<1>2. Typed
  BY DEF Conn
<1>3. CASE n.attached
  <2>1. /\ Sends(Change(log, Base + 1))
        /\ n' \in Notification /\ n'.on = n.on /\ n'.attached = n.attached /\ n'.initial = n.initial
    BY <1>3, ObjectsAre
  <2>2. n.on /\ isOpen /\ connected /\ toServer = <<>> /\ n.initial \in 0 .. stateNumber
    BY <1>3 DEF Conn
  <2>3. w \in Watcher /\ isOpen \in BOOLEAN
    BY DEF Conn, Typed
  <2> QED  BY <1>1, <1>3, <2>1, <2>2, <2>3, ConnSent
<1>4. CASE ~n.attached
  <2>1. n' = n /\ toClient' = toClient
    BY <1>4 DEF _q_objectsUpdated
  <2>2. Typed'
    BY <1>1, <1>2, <2>1 DEF Typed
  <2> QED  BY <1>1, <2>1, <2>2 DEF Conn
<1> QED  BY <1>3, <1>4

LEMMA ConnCreated ==
    ASSUME LogOk, Conn, createNotification
    PROVE  Conn'
<1>1. /\ isOpen' = isOpen /\ connected' = connected /\ breaks' = breaks
           /\ stateNumber' = stateNumber
  BY DEF createNotification, server, stateNumber
<1>2. ~n.on /\ toClient = <<>> /\ toServer = <<Resume(w)>> /\ toServer' = <<>>
  BY CreatesAre
<1>3. connected /\ Typed /\ w \in Watcher /\ w.initial >= -1 /\ isOpen \in BOOLEAN
  BY <1>2 DEF Conn, Typed
<1> DEFINE from == IF Resume(w) = -1 THEN stateNumber ELSE Resume(w)
<1>4. CASE /\ isOpen /\ Resume(w) <= stateNumber
           /\ from \in 0 .. stateNumber => Sends(History(from))
           /\ from \in 0 .. stateNumber => n' \in Notification
           /\ from \in 0 .. stateNumber =>
                n'.on = TRUE /\ n'.attached = TRUE /\ n'.initial = from
           /\ w' = IF w.view = Unread THEN [w EXCEPT !.view = Shown(table)] ELSE w
  <2>1. from \in 0 .. stateNumber
    <3>1. Resume(w) \in Int /\ Resume(w) >= -1
      BY <1>3, ResumeIs
    <3> QED  BY <1>4, <3>1, NumbersAre
  <2> HIDE DEF from
  <2>2. w' \in Watcher /\ w'.initial = w.initial
    <3>1. Shown(table) \in [Key -> Content \cup {-1}]
      <4>1. table \in Table
        BY NumbersAre
      <4> QED  BY <4>1 DEF Shown, Table, Content
    <3>2. CASE w.view = Unread
      <4>1. w' = [w EXCEPT !.view = Shown(table)]
        BY <1>4, <3>2
      <4> QED  BY <1>3, <3>1, <4>1 DEF Watcher
    <3>3. CASE w.view # Unread
      BY <1>3, <1>4, <3>3
    <3> QED  BY <3>2, <3>3
  <2> QED  BY <1>1, <1>2, <1>3, <1>4, <2>1, <2>2, ConnSent
<1>5. CASE toClient' = <<Response(FALSE)>> /\ n' = n /\ w' = w
  <2>1. toClient' \in Seq(Message) /\ \A i \in 1 .. Len(toClient') : toClient'[i] = Response(FALSE)
    <3> DEFINE refusal == Response(FALSE)
    <3>1. refusal \in Message
      BY MessagesAre
    <3>2. toClient' = <<refusal>>
      BY <1>5
    <3> HIDE DEF refusal
    <3>3. toClient' \in Seq(Message) /\ \A i \in 1 .. Len(toClient') : toClient'[i] = refusal
      BY <3>1, <3>2
    <3> QED  BY <3>3 DEF refusal
  <2>2. toServer' \in Seq(Int)
    BY <1>2
  <2>3. Typed'
    BY <1>1, <1>3, <1>5, <2>1, <2>2 DEF Typed
  <2>4. \A i \in 1 .. Len(toClient') : ~Tells(toClient'[i]) /\ ~Changes(toClient'[i])
    BY <2>1, MessagesAre
  <2>5. ~n'.on /\ n' = NoNotification /\ n'.last <= stateNumber
    BY <1>2, <1>5 DEF Conn
  <2>6. n'.attached <=> n'.on /\ isOpen'
    BY <1>1, <1>5 DEF Conn
  <2> QED  BY <1>1, <1>2, <1>3, <1>5, <2>3, <2>4, <2>5, <2>6 DEF Conn
<1> HIDE DEF from
<1> QED  BY <1>4, <1>5, CreatesAre DEF from

LEMMA ConnClosed ==
    ASSUME LogOk, Conn, Close
    PROVE  Conn'
<1>1. /\ isOpen' = FALSE /\ n' = Cleared /\ connected' = connected /\ toServer' = toServer
      /\ toClient' = toClient /\ w' = w /\ breaks' = breaks + 1 /\ stateNumber' = stateNumber
  BY DEF Close, stateNumber
<1>2. n \in Notification /\ Typed
  BY DEF Conn, Typed
<1>3. /\ n' \in Notification /\ n'.on = n.on /\ n'.attached = FALSE /\ n'.initial = n.initial
      /\ n'.last = n.last
  BY <1>1, <1>2 DEF Cleared, Notification
<1>4. Typed'
  <2>1. isOpen' \in BOOLEAN
    BY <1>1
  <2>2. breaks' = breaks + 1 /\ breaks \in Nat
    BY <1>1, <1>2 DEF Typed
  <2>3. breaks' \in Nat
    BY <2>2
  <2> QED  BY <1>1, <1>2, <1>3, <2>1, <2>3 DEF Typed
<1>5. ~n.on => n' = n
  <2>1. ~n.on => n = NoNotification
    BY DEF Conn
  <2> QED  BY <1>1, <2>1 DEF Cleared, NoNotification
<1> QED  BY <1>1, <1>3, <1>4, <1>5 DEF Conn

LEMMA ConnOpened ==
    ASSUME LogOk, Conn, Open
    PROVE  Conn'
<1>1. /\ connected' = connected /\ toServer' = toServer /\ breaks' = breaks
      /\ stateNumber' = stateNumber /\ isOpen' = TRUE
  BY DEF Open, stateNumber
<1>2. w' = w /\ Typed /\ w \in Watcher
  BY OpensAre DEF Conn, Typed
<1>3. CASE n.on
  <2>1. /\ Sends(History(n.initial)) /\ n.initial \in 0 .. stateNumber
        /\ n' \in Notification /\ n'.on = TRUE /\ n'.attached = TRUE /\ n'.initial = n.initial
    BY <1>3, OpensAre
  <2>2. connected /\ toServer = <<>>
    BY <1>3 DEF Conn
  <2> QED  BY <1>1, <1>2, <2>1, <2>2, ConnSent
<1>4. CASE ~n.on
  <2>1. n' = n /\ toClient' = toClient
    BY <1>4, OpensAre
  <2>2. Typed'
    BY <1>1, <1>2, <2>1 DEF Typed
  <2>3. n' = NoNotification /\ ~n'.on
    BY <1>4, <2>1 DEF Conn
  <2>4. n'.attached <=> n'.on /\ isOpen'
    BY <2>3, NoNotificationIs
  <2> QED  BY <1>1, <1>2, <2>1, <2>2, <2>4 DEF Conn
<1> QED  BY <1>3, <1>4

LEMMA ConnLost ==
    ASSUME Conn, Disconnected, isOpen' \in BOOLEAN, stateNumber' \in Nat
    PROVE  Conn' /\ ~n'.on /\ n'.last = 0 /\ toClient' = <<>> /\ breaks' = breaks + 1
           /\ w'.initial = w.initial /\ w'.last = w.last /\ w'.within = w.within /\ w'.view = w.view
<1>1. /\ breaks' = breaks + 1 /\ connected' = FALSE /\ toServer' = <<>> /\ toClient' = <<>>
      /\ n' = NoNotification /\ w' = [w EXCEPT !.status = "Activating"]
  BY DEF Disconnected
<1>2. w \in Watcher /\ breaks \in Nat
  BY DEF Conn, Typed
<1>3. /\ w' \in Watcher /\ w'.initial = w.initial /\ w'.last = w.last /\ w'.within = w.within
      /\ w'.view = w.view
  BY <1>1, <1>2 DEF Watcher
<1>4. n' \in Notification /\ ~n'.on /\ ~n'.attached /\ n'.last = 0
  BY <1>1, NoNotificationIs
<1>5. Typed'
  <2>1. toServer' \in Seq(Int) /\ toClient' \in Seq(Message)
    BY <1>1
  <2>2. connected' \in BOOLEAN
    BY <1>1
  <2>3. breaks' = breaks + 1 /\ breaks \in Nat
    BY <1>1, <1>2
  <2>4. breaks' \in Nat
    BY <2>3
  <2> QED  BY <1>3, <1>4, <2>1, <2>2, <2>4 DEF Typed
<1>6. Len(toClient') = 0
  BY <1>1
<1>7. \A i \in 1 .. Len(toClient') : FALSE
  BY <1>6
<1>8. n'.last <= stateNumber'
  BY <1>4
<1> QED  BY <1>1, <1>3, <1>4, <1>5, <1>7, <1>8 DEF Conn

LEMMA ConnAsked ==
    ASSUME Conn, initWatcher
    PROVE  Conn'
<1>1. /\ ~connected /\ connected' = TRUE /\ toServer' = <<Resume(w)>> /\ n' = n
      /\ toClient' = toClient /\ w' = w /\ breaks' = breaks /\ isOpen' = isOpen
      /\ stateNumber' = stateNumber
  BY DEF initWatcher, server, stateNumber
<1>2. Typed /\ ~n.on /\ toClient = <<>>
  BY <1>1 DEF Conn
<1>3. Resume(w) \in Int
  <2>1. w \in Watcher /\ w.initial >= -1
    BY DEF Conn, Typed
  <2> QED  BY <2>1, ResumeIs
<1>4. Typed'
  BY <1>1, <1>2, <1>3 DEF Typed
<1> QED  BY <1>1, <1>2, <1>4 DEF Conn

LEMMA ConnReceived ==
    ASSUME Conn, _q_onReceivedObject
    PROVE  Conn'
<1>1. /\ isOpen' = isOpen /\ n' = n /\ connected' = connected /\ toServer' = toServer
      /\ breaks' = breaks /\ stateNumber' = stateNumber
  BY DEF _q_onReceivedObject, server, stateNumber
<1> DEFINE m == Head(toClient)
<1>2. /\ toClient # <<>> /\ m \in Message /\ m = toClient[1] /\ toClient' \in Seq(Message)
      /\ Len(toClient) \in Nat /\ Len(toClient) > 0 /\ Len(toClient') = Len(toClient) - 1
      /\ \A i \in 1 .. Len(toClient') : toClient'[i] = toClient[i + 1]
           /\ i + 1 \in 2 .. Len(toClient)
      /\ w' \in Watcher
      /\ w'.initial = IF Tells(m) /\ w.initial = -1 THEN m.state ELSE w.initial
  BY ReceivedAre
<1> HIDE DEF m
<1>3. Tells(m) => m.state \in Nat
  BY <1>2, MessageIs
<1>4. w'.initial >= -1
  BY <1>2, <1>3 DEF Conn
<1>5. Typed'
  BY <1>1, <1>2 DEF Conn, Typed
<1>6. toServer = <<>> /\ connected
  BY <1>2 DEF Conn
<1>7. \A i \in 1 .. Len(toClient') : i + 1 \in 1 .. Len(toClient)
  BY <1>2
<1>8. \A i \in 1 .. Len(toClient') :
          /\ Tells(toClient'[i]) => toClient'[i].state \in 1 .. stateNumber'
          /\ Changes(toClient'[i]) => toClient'[i].state <= stateNumber'
  BY <1>1, <1>2, <1>7 DEF Conn
<1>9. ~n.on => toClient' = <<>>
  <2>1. ~n.on => toClient = <<Response(FALSE)>>
    BY <1>2 DEF Conn
  <2>2. toClient' = Tail(toClient)
    BY ReceivedAre
  <2>3. Tail(<<Response(FALSE)>>) = <<>>
    OBVIOUS
  <2> QED  BY <2>1, <2>2, <2>3
<1> QED  BY <1>1, <1>4, <1>5, <1>6, <1>8, <1>9 DEF Conn

LEMMA ConnStays ==
    ASSUME Conn, UNCHANGED vars
    PROVE  Conn'
BY DEF vars, server, Conn, Typed, stateNumber, Resume, Tells, Changes
-----------------------------------------------------------------------------
(***************************************************************************)
(* The states on the stream rise.                                          *)
(***************************************************************************)
LEMMA RefusalIs ==
    /\ Len(<<Response(FALSE)>>) = 1
    /\ \A i \in 1 .. 1 : <<Response(FALSE)>>[i] = Response(FALSE)
    /\ ~Tells(Response(FALSE)) /\ ~Changes(Response(FALSE)) /\ ~Numbered(Response(FALSE))
<1>1. ~Tells(Response(FALSE)) /\ ~Changes(Response(FALSE))
  BY MessagesAre
<1> DEFINE refusal == Response(FALSE)
<1> HIDE DEF refusal
<1>2. Len(<<refusal>>) = 1 /\ \A i \in 1 .. 1 : <<refusal>>[i] = refusal
  OBVIOUS
<1>3. ~Numbered(Response(FALSE))
  BY <1>1 DEF Numbered
<1> QED  BY <1>1, <1>2, <1>3 DEF refusal

LEMMA RisingStays ==
    ASSUME Conn, Rising, exposed \subseteq exposed',
           stateNumber \in Nat, stateNumber' = stateNumber \/ stateNumber' = stateNumber + 1,
           n'.last = n.last, toClient' = toClient \/ toClient' = <<Response(FALSE)>>,
           w'.initial = w.initial, w'.last = w.last, w'.within = w.within
    PROVE  Rising'
<1> SUFFICES ASSUME Clean("rolledback")' PROVE Rising'
  BY DEF Rising
<1>1. Clean("rolledback")
  BY CleanWas
<1>2. /\ Above(w.initial) /\ Above(w.last)
      /\ \A i \in 1 .. Len(toClient) : Numbered(toClient[i]) => toClient[i].state <= n.last
      /\ \A i, j \in 1 .. Len(toClient) :
             i < j /\ Numbered(toClient[i]) /\ Numbered(toClient[j]) =>
                 toClient[i].state <= toClient[j].state
      /\ w.last > 0 /\ ~w.within => w.initial <= w.last
  BY <1>1 DEF Rising
<1>3. toClient' = <<Response(FALSE)>> => \A i \in 1 .. Len(toClient') : ~Numbered(toClient'[i])
  BY RefusalIs
<1>4. w.initial \in Int /\ w.last \in Int
  <2>1. w \in Watcher
    BY DEF Conn, Typed
  <2> QED  BY <2>1, WatcherIs
<1>5. ASSUME NEW state \in Int, Above(state) PROVE Above(state)'
  <2>1. state <= stateNumber'
    BY <1>5 DEF Above
  <2>2. \A i \in 1 .. Len(toClient') : Numbered(toClient'[i]) => state <= toClient'[i].state
    BY <1>3, <1>5 DEF Above
  <2> QED  BY <1>5, <2>1, <2>2 DEF Above
<1>6. Above(w.initial)' /\ Above(w.last)'
  <2>1. /\ Above(w.initial) => Above(w'.initial)
        /\ Above(w.last) => Above(w'.last)
    OBVIOUS
  <2>2. /\ w'.initial <= stateNumber' /\ w'.last <= stateNumber'
    BY <1>2, <1>4 DEF Above
  <2>3. /\ n'.last > 0 => w'.initial <= n'.last /\ w'.last <= n'.last
    BY <1>2 DEF Above
  <2>4. \A i \in 1 .. Len(toClient') : Numbered(toClient'[i]) =>
            w'.initial <= toClient'[i].state /\ w'.last <= toClient'[i].state
    BY <1>2, <1>3 DEF Above
  <2> QED  BY <2>2, <2>3, <2>4 DEF Above
<1>7. \A i \in 1 .. Len(toClient') : Numbered(toClient'[i]) => toClient'[i].state <= n'.last
  BY <1>2, <1>3
<1>8. \A i, j \in 1 .. Len(toClient') :
          i < j /\ Numbered(toClient'[i]) /\ Numbered(toClient'[j]) =>
              toClient'[i].state <= toClient'[j].state
  BY <1>2, <1>3
<1>9. w'.last > 0 /\ ~w'.within => w'.initial <= w'.last
  BY <1>2
<1> QED  BY <1>6, <1>7, <1>8, <1>9 DEF Rising

LEMMA RisingSent ==
    ASSUME LogOk, Conn, Rising, NEW U, Sends(U), exposed \subseteq exposed',
           stateNumber' = stateNumber,
           w'.initial = w.initial, w'.last = w.last, w'.within = w.within
    PROVE  Rising'
<1> SUFFICES ASSUME Clean("rolledback")' PROVE Rising'
  BY DEF Rising
<1> DEFINE s == toClient
           t == toClient'
           last == n'.last
<1>1. /\ t \in Seq(Message) /\ last <= stateNumber /\ n.last <= last
      /\ Len(s) \in Nat /\ Len(t) \in Nat /\ Len(s) <= Len(t)
      /\ \A i \in 1 .. Len(s) : t[i] = s[i]
      /\ \A i \in 1 .. Len(t) : i \in 1 .. Len(s) \/ i \in Len(s) + 1 .. Len(t)
      /\ \A i \in Len(s) + 1 .. Len(t) :
             /\ i > Len(s)
             /\ Tells(t[i]) => t[i].state = stateNumber /\ last = stateNumber
             /\ Changes(t[i]) => t[i].state = last
  BY SentIs
<1>2. Clean("rolledback")
  BY CleanWas
<1>3. /\ Above(w.initial) /\ Above(w.last)
      /\ \A i \in 1 .. Len(s) : Numbered(s[i]) => s[i].state <= n.last
      /\ \A i, j \in 1 .. Len(s) :
             i < j /\ Numbered(s[i]) /\ Numbered(s[j]) => s[i].state <= s[j].state
      /\ w.last > 0 /\ ~w.within => w.initial <= w.last
  BY <1>2 DEF Rising
<1>4. /\ w.initial \in Int /\ w.last \in Int /\ n.last \in Nat
      /\ stateNumber \in Nat /\ stateNumber > 0
  <2>1. w \in Watcher /\ n \in Notification
    BY DEF Conn, Typed
  <2> QED  BY <2>1, WatcherIs, NoteIs, NumbersAre
<1>5. last = stateNumber \/ last = n.last
  BY DEF Sends
<1>6. \A i \in 1 .. Len(s) : s[i] \in Message
  <2>1. s \in Seq(Message)
    BY DEF Conn, Typed
  <2> QED  BY <2>1, ElementOfSeq
<1>7. \A i \in 1 .. Len(s) : Numbered(s[i]) => s[i].state \in Nat
  <2> SUFFICES ASSUME NEW i \in 1 .. Len(s), Numbered(s[i]) PROVE s[i].state \in Nat
    OBVIOUS
  <2>1. s[i] \in Message
    BY <1>6
  <2> QED  BY <2>1, MessageIs DEF Numbered
<1> HIDE DEF s, t, last
<1>8. \A i \in Len(s) + 1 .. Len(t) : Numbered(t[i]) => t[i].state = last /\ last > 0
  BY <1>1, <1>4 DEF Numbered
<1>9. last \in Nat
  BY <1>4, <1>5
<1>10. ASSUME NEW state \in Int, Above(state)
       PROVE  /\ last > 0 => state <= last
              /\ \A i \in 1 .. Len(t) : Numbered(t[i]) => state <= t[i].state
  <2>1. last > 0 => state <= last
    BY <1>4, <1>5, <1>10 DEF Above
  <2>2. \A i \in 1 .. Len(s) : Numbered(s[i]) => state <= s[i].state
    BY <1>10 DEF Above, s
  <2> QED  BY <1>1, <1>8, <2>1, <2>2
<1>11. /\ last > 0 => w.initial <= last
       /\ \A i \in 1 .. Len(t) : Numbered(t[i]) => w.initial <= t[i].state
  BY <1>3, <1>4, <1>10
<1>12. /\ last > 0 => w.last <= last
       /\ \A i \in 1 .. Len(t) : Numbered(t[i]) => w.last <= t[i].state
  BY <1>3, <1>4, <1>10
<1>13. w.initial <= stateNumber /\ w.last <= stateNumber
  BY <1>3 DEF Above
<1>14. Above(w.initial)' /\ Above(w.last)'
  BY <1>11, <1>12, <1>13 DEF Above, t, last
<1>15. \A i \in 1 .. Len(t) : Numbered(t[i]) => t[i].state <= last
  <2> SUFFICES ASSUME NEW i \in 1 .. Len(t), Numbered(t[i]) PROVE t[i].state <= last
    OBVIOUS
  <2>1. CASE i \in 1 .. Len(s)
    BY <1>1, <1>3, <1>4, <1>7, <1>9, <2>1
  <2>2. CASE i \in Len(s) + 1 .. Len(t)
    BY <1>8, <1>9, <2>2
  <2> QED  BY <1>1, <2>1, <2>2
<1>16. \A i, j \in 1 .. Len(t) :
           i < j /\ Numbered(t[i]) /\ Numbered(t[j]) => t[i].state <= t[j].state
  <2> SUFFICES ASSUME NEW i \in 1 .. Len(t), NEW j \in 1 .. Len(t), i < j, Numbered(t[i]),
                        Numbered(t[j])
               PROVE  t[i].state <= t[j].state
    OBVIOUS
  <2>1. CASE j \in Len(s) + 1 .. Len(t)
    <3>1. t[j].state = last
      BY <1>8, <2>1
    <3> QED  BY <1>15, <3>1
  <2>2. CASE j \in 1 .. Len(s)
    <3>1. i \in 1 .. Len(s)
      BY <1>1, <2>2
    <3> QED  BY <1>1, <1>3, <2>2, <3>1
  <2> QED  BY <1>1, <2>1, <2>2
<1>17. w'.last > 0 /\ ~w'.within => w'.initial <= w'.last
  BY <1>3
<1> QED  BY <1>14, <1>15, <1>16, <1>17 DEF Rising, t, last

LEMMA RisingLost ==
    ASSUME Conn, Rising, exposed \subseteq exposed', Clean("rolledback")'
             => stateNumber' = stateNumber,
           n'.last = 0, toClient' = <<>>,
           w'.initial = w.initial, w'.last = w.last, w'.within = w.within
    PROVE  Rising'
<1> SUFFICES ASSUME Clean("rolledback")' PROVE Rising'
  BY DEF Rising
<1>1. Clean("rolledback")
  BY CleanWas
<1>2. \A i \in 1 .. Len(toClient') : FALSE
  <2>1. Len(toClient') = 0
    OBVIOUS
  <2> QED  BY <2>1
<1>3. w.initial <= stateNumber /\ w.last <= stateNumber
  BY <1>1 DEF Rising, Above
<1>4. Above(w.initial)' /\ Above(w.last)'
  BY <1>2, <1>3 DEF Above
<1>5. w'.last > 0 /\ ~w'.within => w'.initial <= w'.last
  BY <1>1 DEF Rising
<1> QED  BY <1>2, <1>4, <1>5 DEF Rising

LEMMA RisingReceived ==
    ASSUME Conn, Rising, _q_onReceivedObject
    PROVE  Rising'
<1> SUFFICES ASSUME Clean("rolledback")' PROVE Rising'
  BY DEF Rising
<1> DEFINE m == Head(toClient)
           s == toClient
           t == toClient'
<1>1. exposed' = exposed /\ n' = n /\ stateNumber' = stateNumber
  BY DEF _q_onReceivedObject, server, stateNumber
<1>2. Clean("rolledback")
  BY <1>1, CleanWas
<1>3. /\ Above(w.initial) /\ Above(w.last)
      /\ \A i \in 1 .. Len(s) : Numbered(s[i]) => s[i].state <= n.last
      /\ \A i, j \in 1 .. Len(s) :
             i < j /\ Numbered(s[i]) /\ Numbered(s[j]) => s[i].state <= s[j].state
      /\ w.last > 0 /\ ~w.within => w.initial <= w.last
  BY <1>2 DEF Rising
<1>4. /\ m \in Message /\ m = s[1] /\ Len(s) \in Nat /\ Len(s) > 0
      /\ \A i \in 1 .. Len(t) : t[i] = s[i + 1] /\ i + 1 \in 2 .. Len(s)
      /\ w'.initial = IF Tells(m) /\ w.initial = -1 THEN m.state ELSE w.initial
      /\ w'.last = IF Changes(m) THEN m.state ELSE w.last
      /\ Tells(m) => w'.within
      /\ ~Tells(m) /\ ~Changes(m) => w'.within = w.within
      /\ Len(t) = Len(s) - 1
  BY ReceivedAre
<1>5. /\ w.initial \in Int /\ w.last \in Nat /\ n.last \in Nat
  <2>1. w \in Watcher /\ n \in Notification
    BY DEF Conn, Typed
  <2> QED  BY <2>1, WatcherIs, NoteIs
<1>6. /\ Tells(m) => m.state \in Nat /\ m.state <= stateNumber
      /\ Changes(m) => m.state \in Nat /\ m.state <= stateNumber
  <2>1. 1 \in 1 .. Len(s)
    BY <1>4
  <2>2. /\ Tells(m) => m.state \in 1 .. stateNumber
        /\ Changes(m) => m.state <= stateNumber
    BY <1>4, <2>1 DEF Conn
  <2>3. (Tells(m) => m.state \in Nat) /\ (Changes(m) => m.state \in Nat)
    BY <1>4, MessageIs
  <2> HIDE DEF m
  <2>4. Tells(m) => m.state <= stateNumber
    BY <2>2, <2>3
  <2> QED  BY <2>2, <2>3, <2>4
<1> HIDE DEF m, s, t
<1>7. 1 \in 1 .. Len(s) /\ \A i \in 1 .. Len(t) : i + 1 \in 1 .. Len(s) /\ 1 < i + 1
  BY <1>4
<1>8. Numbered(m) =>
        /\ m.state <= n.last /\ \A i \in 1 .. Len(t) : Numbered(t[i]) => m.state <= t[i].state
  <2> SUFFICES ASSUME Numbered(m)
               PROVE  m.state <= n.last /\ \A i \in 1 .. Len(t) : Numbered(t[i])
                        => m.state <= t[i].state
    OBVIOUS
  <2>1. m.state <= n.last
    BY <1>3, <1>4, <1>7
  <2>2. ASSUME NEW i \in 1 .. Len(t), Numbered(t[i]) PROVE m.state <= t[i].state
    <3>1. t[i] = s[i + 1] /\ i + 1 \in 1 .. Len(s) /\ 1 < i + 1
      BY <1>4, <1>7
    <3> QED  BY <1>3, <1>4, <1>7, <2>2, <3>1
  <2> QED  BY <2>1, <2>2
<1> DEFINE Over(state) == /\ state <= stateNumber
                          /\ n.last > 0 => state <= n.last
                          /\ \A i \in 1 .. Len(t) : Numbered(t[i]) => state <= t[i].state
<1>9. Over(w.initial) /\ Over(w.last)
  <2>1. \A i \in 1 .. Len(s) : Numbered(s[i]) => w.initial <= s[i].state /\ w.last <= s[i].state
    BY <1>3 DEF Above, s
  <2>2. \A i \in 1 .. Len(t) : Numbered(t[i]) => w.initial <= t[i].state /\ w.last <= t[i].state
    BY <1>4, <1>7, <2>1
  <2> QED  BY <1>3, <2>2 DEF Above
<1>10. Numbered(m) => Over(m.state)
  BY <1>6, <1>8 DEF Numbered
<1>11. Changes(m) /\ ~Numbered(m) => Over(m.state)
  <2> SUFFICES ASSUME Changes(m), ~Numbered(m) PROVE Over(m.state)
    OBVIOUS
  <2>1. m.state = 0
    BY <1>6 DEF Numbered
  <2>2. ASSUME NEW i \in 1 .. Len(t), Numbered(t[i]) PROVE 0 <= t[i].state
    <3>1. t[i] = s[i + 1] /\ i + 1 \in 1 .. Len(s)
      BY <1>4, <1>7
    <3>2. s[i + 1] \in Message
      BY <3>1, ElementOfSeq DEF Conn, Typed, s
    <3>3. t[i].state \in Nat
      BY <2>2, <3>1, <3>2, MessageIs DEF Numbered
    <3> QED  BY <3>3
  <2> QED  BY <1>5, <1>6, <2>1, <2>2
<1>12. Over(w'.initial)
  BY <1>4, <1>9, <1>10 DEF Numbered
<1>13. Over(w'.last)
  BY <1>4, <1>9, <1>10, <1>11
<1>14. Above(w.initial)' /\ Above(w.last)'
  BY <1>1, <1>12, <1>13 DEF Above, t
<1>15. \A i \in 1 .. Len(t) : Numbered(t[i]) => t[i].state <= n.last
  BY <1>3, <1>4, <1>7
<1>16. \A i, j \in 1 .. Len(t) :
           i < j /\ Numbered(t[i]) /\ Numbered(t[j]) => t[i].state <= t[j].state
  <2> SUFFICES ASSUME NEW i \in 1 .. Len(t), NEW j \in 1 .. Len(t), i < j, Numbered(t[i]),
                        Numbered(t[j])
               PROVE  t[i].state <= t[j].state
    OBVIOUS
  <2>1. /\ t[i] = s[i + 1] /\ t[j] = s[j + 1] /\ i + 1 \in 1 .. Len(s) /\ j + 1 \in 1 .. Len(s)
        /\ i + 1 < j + 1
    BY <1>4, <1>7
  <2> QED  BY <1>3, <2>1
<1>17. ASSUME w'.last > 0, ~w'.within PROVE w'.initial <= w'.last
  <2>1. ~Tells(m) /\ w'.initial = w.initial
    BY <1>4, <1>17
  <2>2. CASE Changes(m)
    <3>1. m.state > 0 /\ w'.last = m.state
      BY <1>4, <1>17, <2>2
    <3>2. Numbered(m)
      BY <2>2, <3>1 DEF Numbered
    <3>3. w.initial <= m.state
      BY <1>3, <1>4, <1>7, <3>2 DEF Above, s
    <3> QED  BY <2>1, <3>1, <3>3
  <2>3. CASE ~Changes(m)
    BY <1>3, <1>4, <1>17, <2>1, <2>3
  <2> QED  BY <2>2, <2>3
<1> QED  BY <1>1, <1>14, <1>15, <1>16, <1>17 DEF Rising, t
-----------------------------------------------------------------------------
(***************************************************************************)
(* The watcher catches up.                                                 *)
(***************************************************************************)
\* A place on the stream that all notes are in front of.
AfterNotes(i) ==
    /\ i \in Len(toClient) .. Len(toClient')
    /\ \A j \in i + 1 .. Len(toClient') : ~Tells(toClient'[j])

\* An object that was told is known as the batch tells it.
LEMMA SentHeard ==
    ASSUME LogOk, Conn, NEW U, Sends(U), NEW i, AfterNotes(i), NEW view, NEW k, NEW now,
           \A u \in U : u.key = k => now = Seen(u.new), \E u \in U : Hears(u) /\ u.key = k
    PROVE  Says(view, toClient', i, k, now)
<1> DEFINE t == toClient'
           last == n'.last
<1>1. toClient \in Seq(Message) /\ stateNumber \in Nat
  BY NumbersAre DEF Conn, Typed
<1>2. Batch(toClient, t, U, stateNumber, last) /\ U \in SUBSET Update
  BY DEF Sends
<1>3. i \in Len(toClient) .. Len(t) /\ \A j \in i + 1 .. Len(t) : ~Tells(t[j])
  BY DEF AfterNotes
<1> HIDE DEF t, last
<1>4. Says(view, t, i, k, now)
  BY <1>1, <1>2, <1>3, BatchHeard
<1> QED  BY <1>4 DEF t

\* What was not told is known as before.
LEMMA SentQuiet ==
    ASSUME LogOk, Conn, NEW U, Sends(U), NEW i \in Len(toClient) .. Len(toClient'),
           NEW view, NEW k, NEW v, Says(view, toClient, Len(toClient), k, v),
           ~\E u \in U : Hears(u) /\ u.key = k
    PROVE  Says(view, toClient', i, k, v)
<1> DEFINE t == toClient'
           last == n'.last
<1>1. toClient \in Seq(Message) /\ stateNumber \in Nat
  BY NumbersAre DEF Conn, Typed
<1>2. Batch(toClient, t, U, stateNumber, last) /\ U \in SUBSET Update
        /\ i \in Len(toClient) .. Len(t)
  BY DEF Sends
<1> HIDE DEF t, last
<1>3. Says(view, t, i, k, v)
  BY <1>1, <1>2, BatchQuiet
<1> QED  BY <1>3 DEF t

LEMMA AllAfterNotes ==
    ASSUME LogOk, Conn, NEW U, Sends(U)
    PROVE  AfterNotes(Len(toClient')) /\ Len(toClient') \in Len(toClient) .. Len(toClient')
<1>1. Len(toClient) \in Nat /\ Len(toClient') \in Nat /\ Len(toClient) <= Len(toClient')
  BY SentIs
<1>2. \A j \in Len(toClient') + 1 .. Len(toClient') : FALSE
  BY <1>1
<1> QED  BY <1>1, <1>2 DEF AfterNotes

\* An event that is delivered brings every object forward to a later state.
LEMMA DeliveredSays ==
    ASSUME LogOk, Conn, _q_objectsUpdated, n.attached,
           NEW k \in Key, NEW j \in Base .. stateNumber, Told(k, Found(log, j, k)),
           NEW i, AfterNotes(i)
    PROVE  \E l \in Base + 1 .. stateNumber : Says(w'.view, toClient', i, k, Found(log, l, k))
<1> DEFINE U == Change(log, Base + 1)
<1>1. Base + 1 \in 2 .. stateNumber /\ Sends(U) /\ w' = w
  BY ObjectsAre
<1>2. stateNumber \in Nat /\ Base \in Nat /\ Base > 0 /\ (Base + 1) - 1 = Base
  BY NumbersAre
<1>3. /\ U \in SUBSET Update /\ Keyed(U)
      /\ \A u \in U : /\ Seen(u.old) = Found(log, Base, u.key)
                      /\ Seen(u.new) = Found(log, Base + 1, u.key)
      /\ (\A u \in U : u.key # k) => Found(log, Base + 1, k) = Found(log, Base, k)
  <2> DEFINE b == Base + 1
  <2>1. b \in 2 .. stateNumber /\ b - 1 = Base
    BY <1>1, <1>2
  <2> HIDE DEF b
  <2>2. /\ Change(log, b) \in SUBSET Update /\ Keyed(Change(log, b))
        /\ \A u \in Change(log, b) :
              Seen(u.old) = Found(log, b - 1, u.key) /\ Seen(u.new) = Found(log, b, u.key)
        /\ (\A u \in Change(log, b) : u.key # k) => Found(log, b, k) = Found(log, b - 1, k)
    BY <2>1, ChangeIs
  <2> QED  BY <2>1, <2>2 DEF b
<1>4. Says(w'.view, toClient, Len(toClient), k, Found(log, j, k))
  BY <1>1 DEF Told
<1>5. Base + 1 \in Base + 1 .. stateNumber
  BY <1>1, <1>2
<1> HIDE DEF U
<1>6. CASE \E u \in U : Hears(u) /\ u.key = k
  <2> DEFINE now == Found(log, Base + 1, k)
  <2>1. \A u \in U : u.key = k => now = Seen(u.new)
    BY <1>3
  <2> HIDE DEF now
  <2>2. Says(w'.view, toClient', i, k, now)
    BY <1>1, <1>6, <2>1, SentHeard
  <2> QED  BY <1>5, <2>2 DEF now
<1>7. CASE ~\E u \in U : Hears(u) /\ u.key = k
  <2>1. Says(w'.view, toClient', i, k, Found(log, j, k))
    <3>1. i \in Len(toClient) .. Len(toClient')
      BY DEF AfterNotes
    <3> QED  BY <1>1, <1>4, <1>7, <3>1, SentQuiet
  <2>2. Found(log, Base + 1, k) = Found(log, Base, k)
    <3>1. CASE \E u \in U : u.key = k
      <4>1. PICK u \in U : u.key = k
        BY <3>1
      <4>2. Seen(u.old) = 0 /\ Seen(u.new) = 0
        BY <1>2, <1>3, <1>7, <4>1, ActionIs
      <4> QED  BY <1>3, <4>1, <4>2
    <3>2. CASE \A u \in U : u.key # k
      BY <1>3, <3>2
    <3> QED  BY <3>1, <3>2
  <2>3. j = Base \/ j \in Base + 1 .. stateNumber
    BY <1>2
  <2> QED  BY <1>5, <2>1, <2>2, <2>3
<1> QED  BY <1>6, <1>7

\* What the application knows when the notification is created is what holds in
\* the state from which it is told.
LEMMA CreatedView ==
    ASSUME LogOk, Conn, Ready,
           w' = IF w.view = Unread THEN [w EXCEPT !.view = Shown(table)] ELSE w,
           NEW from, from = IF Resume(w) = -1 THEN stateNumber ELSE Resume(w),
           from \in 0 .. stateNumber, NEW k \in Key
    PROVE  w'.view[k] = IF from = 0 THEN 0 ELSE Found(log, from, k)
<1>1. stateNumber \in Nat /\ stateNumber > 0 /\ stateNumber \in 1 .. stateNumber
  BY NumbersAre
<1>2. w \in Watcher /\ Unread[k] = -1
  BY DEF Conn, Typed, Unread
<1>3. /\ Resume(w) = -1 => w.view = Unread
      /\ Resume(w) = 0 => w.view = Nothing
      /\ Resume(w) > 0 => w.view[k] = Found(log, Resume(w), k)
  BY DEF Ready
<1>4. CASE Resume(w) = -1
  <2>1. w'.view = Shown(table) /\ from = stateNumber
    <3>1. w' = [w EXCEPT !.view = Shown(table)]
      BY <1>3, <1>4
    <3> QED  BY <1>2, <1>4, <3>1 DEF Watcher
  <2>2. Shown(table)[k] = Found(log, stateNumber, k)
    BY <1>1, FoundIs DEF table
  <2> QED  BY <1>1, <2>1, <2>2
<1>5. CASE Resume(w) = 0
  <2>1. w.view[k] = 0
    BY <1>3, <1>5, NothingIs
  <2>2. w' = w
    BY <1>2, <2>1
  <2>3. from = 0
    BY <1>5
  <2> QED  BY <2>1, <2>2, <2>3
<1>6. CASE Resume(w) \in 1 .. stateNumber
  <2>1. w.view[k] = Found(log, Resume(w), k) /\ Found(log, Resume(w), k) \in Content
    <3> DEFINE f == Resume(w)
    <3>1. f \in 1 .. stateNumber
      BY <1>6
    <3>2. f > 0
      BY <1>1, <3>1
    <3>3. w.view[k] = Found(log, f, k)
      BY <1>3, <3>2
    <3> HIDE DEF f
    <3> QED  BY <3>1, <3>3, FoundIs DEF f
  <2>2. w.view # Unread
    <3>1. -1 \notin Content
      BY NotificationAssumption DEF Content
    <3> QED  BY <1>2, <2>1, <3>1
  <2>3. w' = w
    BY <2>2
  <2>4. from = Resume(w) /\ from # 0
    BY <1>1, <1>6
  <2> QED  BY <2>1, <2>3, <2>4
<1>7. Resume(w) = -1 \/ Resume(w) = 0 \/ Resume(w) \in 1 .. stateNumber
  <2>1. Resume(w) # -1 => Resume(w) \in 0 .. stateNumber
    OBVIOUS
  <2> QED  BY <1>1, <2>1
<1> QED  BY <1>4, <1>5, <1>6, <1>7

\* A watcher that resumes knows the present state when it has heard the answer.
LEMMA CreatedSays ==
    ASSUME LogOk, Conn, Ready, toClient = <<>>,
           w' = IF w.view = Unread THEN [w EXCEPT !.view = Shown(table)] ELSE w,
           NEW from, from = IF Resume(w) = -1 THEN stateNumber ELSE Resume(w),
           from \in 0 .. stateNumber, Sends(History(from)), NEW k \in Key, NEW i, AfterNotes(i)
    PROVE  Says(w'.view, toClient', i, k, Found(log, stateNumber, k))
<1> DEFINE U == History(from)
           was(o) == IF from = 0 THEN 0 ELSE Found(log, from, o)
<1>1. /\ \A u \in U : Seen(u.new) = Found(log, stateNumber, u.key) /\ Hears(u)
      /\ (\A u \in U : u.key # k) => was(k) = Found(log, stateNumber, k)
  BY HistoryIs
<1>2. w'.view[k] = was(k)
  BY CreatedView
<1>3. Sends(U)
  OBVIOUS
<1> HIDE DEF U, was
<1>4. CASE \E u \in U : Hears(u) /\ u.key = k
  <2> DEFINE now == Found(log, stateNumber, k)
  <2>1. \A u \in U : u.key = k => now = Seen(u.new)
    BY <1>1
  <2> HIDE DEF now
  <2>2. Says(w'.view, toClient', i, k, now)
    BY <1>3, <1>4, <2>1, SentHeard
  <2> QED  BY <2>2 DEF now
<1>5. CASE ~\E u \in U : Hears(u) /\ u.key = k
  <2> DEFINE now == Found(log, stateNumber, k)
  <2>1. w'.view[k] = now
    BY <1>1, <1>2, <1>5
  <2> HIDE DEF now
  <2>2. Len(toClient) = 0
    OBVIOUS
  <2>3. Says(w'.view, toClient, Len(toClient), k, now)
    BY <2>1, <2>2, SaysNow
  <2>4. i \in Len(toClient) .. Len(toClient')
    BY DEF AfterNotes
  <2>5. Says(w'.view, toClient', i, k, now)
    BY <1>3, <1>5, <2>3, <2>4, SentQuiet
  <2> QED  BY <2>5 DEF now
<1> QED  BY <1>4, <1>5

\* So does one that a partition comes back under, though it is told again.
LEMMA OpenedSays ==
    ASSUME LogOk, Conn, NEW from \in 0 .. stateNumber, Sends(History(from)), w' = w,
           NEW k \in Key, Told(k, Found(log, stateNumber, k)), NEW i, AfterNotes(i)
    PROVE  Says(w'.view, toClient', i, k, Found(log, stateNumber, k))
<1> DEFINE U == History(from)
           now == Found(log, stateNumber, k)
<1>1. \A u \in U : u.key = k => now = Seen(u.new)
  BY HistoryIs
<1>2. Says(w'.view, toClient, Len(toClient), k, now)
  BY DEF Told
<1>3. Sends(U) /\ i \in Len(toClient) .. Len(toClient')
  BY DEF AfterNotes
<1> HIDE DEF U, now
<1>4. CASE \E u \in U : Hears(u) /\ u.key = k
  <2>1. Says(w'.view, toClient', i, k, now)
    BY <1>1, <1>3, <1>4, SentHeard
  <2> QED  BY <2>1 DEF now
<1>5. CASE ~\E u \in U : Hears(u) /\ u.key = k
  <2>1. Says(w'.view, toClient', i, k, now)
    BY <1>2, <1>3, <1>5, SentQuiet
  <2> QED  BY <2>1 DEF now
<1> QED  BY <1>4, <1>5

\* What the watcher is told and what it knows is the same.
SameWatcher ==
    /\ w'.initial = w.initial /\ w'.last = w.last /\ w'.within = w.within /\ w'.view = w.view

\* The log goes on, if it changes.
SameStates ==
    /\ stateNumber' = stateNumber \/ stateNumber' = stateNumber + 1
    /\ \A i \in 1 .. stateNumber : \A k : Found(log', i, k) = Found(log, i, k)

\* Writes do not disturb what a watcher without a notification resumes from.
LEMMA ReadyStays ==
    ASSUME LogOk, Conn, Ready, SameStates, SameWatcher
    PROVE  Ready'
<1> DEFINE from == Resume(w)
<1>1. Resume(w)' = from
  BY SameResume DEF SameWatcher
<1>2. /\ ~w.within
      /\ from = -1 => w.view = Unread
      /\ from = 0 => w.view = Nothing
      /\ from > 0 => from <= stateNumber /\ \A k \in Key : w.view[k] = Found(log, from, k)
  BY DEF Ready
<1>3. from \in Int
  <2>1. w \in Watcher /\ w.initial >= -1
    BY DEF Conn, Typed
  <2> QED  BY <2>1, ResumeIs
<1> HIDE DEF from
<1>4. /\ ~w'.within
      /\ from = -1 => w'.view = Unread
      /\ from = 0 => w'.view = Nothing
  BY <1>2 DEF SameWatcher
<1>5. from > 0 => from <= stateNumber' /\ \A k \in Key : w'.view[k] = Found(log', from, k)
  <2> SUFFICES ASSUME from > 0
               PROVE  from <= stateNumber' /\ \A k \in Key : w'.view[k] = Found(log', from, k)
    OBVIOUS
  <2>1. stateNumber \in Nat /\ (stateNumber' = stateNumber \/ stateNumber' = stateNumber + 1)
    BY NumbersAre DEF SameStates
  <2>2. from <= stateNumber /\ from \in 1 .. stateNumber
    BY <1>2, <1>3, <2>1
  <2>3. from <= stateNumber'
    BY <1>3, <2>1, <2>2
  <2>4. \A k : Found(log', from, k) = Found(log, from, k)
    BY <2>2 DEF SameStates
  <2>5. \A k \in Key : w'.view[k] = Found(log, from, k)
    BY <1>2 DEF SameWatcher
  <2> QED  BY <2>3, <2>4, <2>5
<1> QED  BY <1>1, <1>4, <1>5 DEF Ready

LEMMA CatchingOff ==
    ASSUME LogOk, Conn, Catching, SameStates, SameWatcher, ~n.on, ~n'.on,
           exposed \subseteq exposed', breaks' = breaks \/ breaks' = breaks + 1
    PROVE  Catching'
<1> SUFFICES ASSUME Trusted', Timely' PROVE Ready'
  BY DEF Catching
<1>1. Trusted /\ Timely
  BY CleanWas, TimelyWas DEF Conn, Typed
<1>2. Ready
  BY <1>1 DEF Catching
<1> QED  BY <1>2, ReadyStays

LEMMA CatchingStays ==
    ASSUME LogOk, Conn, Catching, SameStates, SameWatcher, n'.on = n.on, toClient' = toClient,
           Base' = Base, exposed \subseteq exposed', breaks' = breaks \/ breaks' = breaks + 1
    PROVE  Catching'
<1>1. CASE ~n.on
  BY <1>1, CatchingOff
<1>2. CASE n.on
  <2> SUFFICES ASSUME Trusted', Timely', NEW k \in Key
               PROVE  \E i \in Base' .. stateNumber' : Says(w'.view, toClient', Len(toClient'), k,
                        Found(log', i, k))
    BY <1>2 DEF Catching, Told
  <2>1. Trusted /\ Timely
    BY CleanWas, TimelyWas DEF Conn, Typed
  <2>2. PICK i \in Base .. stateNumber : Told(k, Found(log, i, k))
    BY <1>2, <2>1 DEF Catching
  <2>3. /\ stateNumber \in Nat /\ Base \in Nat /\ Base > 0
        /\ stateNumber' = stateNumber \/ stateNumber' = stateNumber + 1
    BY NumbersAre DEF SameStates
  <2>4. i \in 1 .. stateNumber /\ i \in Base' .. stateNumber'
    BY <2>2, <2>3
  <2>5. Found(log', i, k) = Found(log, i, k)
    BY <2>4 DEF SameStates
  <2>6. Says(w'.view, toClient', Len(toClient'), k, Found(log', i, k))
    BY <2>2, <2>5 DEF Told, SameWatcher
  <2> QED  BY <2>4, <2>6
<1> QED  BY <1>1, <1>2

LEMMA CatchingDelivered ==
    ASSUME LogOk, Conn, Catching, _q_objectsUpdated
    PROVE  Catching'
<1>1. /\ exposed \subseteq exposed' /\ breaks' = breaks
      /\ Base' = Base + 1 /\ stateNumber' = stateNumber /\ log' = log
  BY LogDelivered, ExposeIs DEF _q_objectsUpdated
<1>2. CASE n.attached
  <2> SUFFICES ASSUME Trusted', Timely', NEW k \in Key
               PROVE  \E i \in Base' .. stateNumber' : Says(w'.view, toClient', Len(toClient'), k,
                        Found(log', i, k))
    <3>1. n'.on
      BY <1>2, ObjectsAre DEF Conn
    <3> QED  BY <3>1 DEF Catching, Told
  <2>1. Trusted /\ Timely
    BY <1>1, CleanWas, TimelyWas DEF Conn, Typed
  <2>2. n.on
    BY <1>2 DEF Conn
  <2>3. PICK j \in Base .. stateNumber : Told(k, Found(log, j, k))
    BY <2>1, <2>2 DEF Catching
  <2>4. AfterNotes(Len(toClient'))
    BY <1>2, ObjectsAre, AllAfterNotes
  <2>5. PICK l \in Base + 1 .. stateNumber : Says(w'.view, toClient', Len(toClient'), k, Found(log,
                                               l, k))
    BY <1>2, <2>3, <2>4, DeliveredSays
  <2>6. Says(w'.view, toClient', Len(toClient'), k, Found(log', l, k))
    BY <1>1, <2>5 DEF Told
  <2> QED  BY <1>1, <2>5, <2>6
<1>3. CASE ~n.attached
  <2>1. n' = n /\ w' = w /\ isOpen
    BY <1>3 DEF _q_objectsUpdated
  <2>2. ~n.on
    BY <1>3, <2>1 DEF Conn
  <2>3. SameStates /\ SameWatcher
    BY <1>1, <2>1 DEF SameStates, SameWatcher
  <2> QED  BY <1>1, <2>1, <2>2, <2>3, CatchingOff
<1> QED  BY <1>2, <1>3

\* The two answers to a request.
Creates(from) ==
    /\ from = IF Resume(w) = -1 THEN stateNumber ELSE Resume(w)
    /\ from \in 0 .. stateNumber
    /\ Sends(History(from)) /\ n' \in Notification /\ n'.on
    /\ w' = IF w.view = Unread THEN [w EXCEPT !.view = Shown(table)] ELSE w
    /\ w' \in Watcher
    /\ w'.initial = w.initial /\ w'.last = w.last /\ w'.within = w.within
    /\ Clean("early")' => events = <<>>
Refuses == toClient' = <<Response(FALSE)>> /\ n' = n /\ w' = w

\* A notification is refused, or created with the historical changes.
LEMMA AnswersAre ==
    ASSUME LogOk, Conn, createNotification
    PROVE  /\ ~n.on /\ n.last = 0 /\ toClient = <<>> /\ Len(toClient) = 0
           /\ log' = log /\ stateNumber' = stateNumber /\ Base' = Base /\ breaks' = breaks
           /\ exposed \subseteq exposed'
           /\ Refuses \/ \E from : Creates(from)
<1> DEFINE from == IF Resume(w) = -1 THEN stateNumber ELSE Resume(w)
<1>1. log' = log /\ stateNumber' = stateNumber /\ Base' = Base /\ breaks' = breaks
  BY DEF createNotification, server, stateNumber, Base
<1>2. ~n.on /\ toClient = <<>>
  BY CreatesAre
<1>3. n.last = 0 /\ w \in Watcher /\ w.initial >= -1
  BY <1>2, NoNotificationIs DEF Conn, Typed
<1>4. exposed \subseteq exposed'
  BY CreatesAre
<1>5. Len(toClient) = 0
  BY <1>2
<1>6. CASE Refuses
  BY <1>1, <1>2, <1>3, <1>4, <1>5, <1>6
<1>7. CASE ~Refuses
  <2>1. /\ Resume(w) <= stateNumber
        /\ from \in 0 .. stateNumber => Sends(History(from))
        /\ from \in 0 .. stateNumber => n' \in Notification
        /\ from \in 0 .. stateNumber => n'.on = TRUE
        /\ w' = IF w.view = Unread THEN [w EXCEPT !.view = Shown(table)] ELSE w
        /\ Clean("early")' => events = <<>>
    BY <1>7, CreatesAre DEF Refuses
  <2>2. from \in 0 .. stateNumber
    <3>1. Resume(w) \in Int /\ Resume(w) >= -1
      BY <1>3, ResumeIs
    <3> QED  BY <2>1, <3>1, NumbersAre
  <2>3. /\ w' \in Watcher
        /\ w'.initial = w.initial /\ w'.last = w.last /\ w'.within = w.within
    <3>1. Shown(table) \in [Key -> Content \cup {-1}]
      <4>1. table \in Table
        BY NumbersAre
      <4> QED  BY <4>1 DEF Shown, Table, Content
    <3>2. CASE w.view = Unread
      <4>1. w' = [w EXCEPT !.view = Shown(table)]
        BY <2>1, <3>2
      <4> QED  BY <1>3, <3>1, <4>1 DEF Watcher
    <3>3. CASE w.view # Unread
      BY <1>3, <2>1, <3>3
    <3> QED  BY <3>2, <3>3
  <2>4. from = IF Resume(w) = -1 THEN stateNumber ELSE Resume(w)
    OBVIOUS
  <2> HIDE DEF from
  <2>5. Creates(from)
    BY <2>1, <2>2, <2>3, <2>4 DEF Creates
  <2> QED  BY <1>1, <1>2, <1>3, <1>4, <1>5, <2>5
<1> QED  BY <1>6, <1>7

LEMMA CatchingCreated ==
    ASSUME LogOk, Conn, Catching, createNotification
    PROVE  Catching'
<1>1. /\ ~n.on /\ toClient = <<>> /\ log' = log /\ stateNumber' = stateNumber /\ Base' = Base
      /\ breaks' = breaks /\ exposed \subseteq exposed'
  BY AnswersAre
<1>2. CASE Refuses
  <2>1. SameStates /\ SameWatcher /\ ~n'.on
    BY <1>1, <1>2 DEF SameStates, SameWatcher, Refuses
  <2> QED  BY <1>1, <2>1, CatchingOff
<1>3. ASSUME NEW from, Creates(from) PROVE Catching'
  <2> SUFFICES ASSUME Trusted', Timely', NEW k \in Key
               PROVE  \E i \in Base' .. stateNumber' : Says(w'.view, toClient', Len(toClient'), k,
                        Found(log', i, k))
    BY <1>3 DEF Catching, Creates, Told
  <2>1. Trusted /\ Timely
    BY <1>1, CleanWas, TimelyWas DEF Conn, Typed
  <2>2. Ready
    BY <1>1, <2>1 DEF Catching
  <2>3. AfterNotes(Len(toClient'))
    BY <1>3, AllAfterNotes DEF Creates
  <2>4. Says(w'.view, toClient', Len(toClient'), k, Found(log, stateNumber, k))
    BY <1>1, <1>3, <2>2, <2>3, CreatedSays DEF Creates
  <2>5. Says(w'.view, toClient', Len(toClient'), k, Found(log', stateNumber', k))
    BY <1>1, <2>4 DEF Told
  <2>6. stateNumber' \in Base' .. stateNumber'
    BY <1>1, NumbersAre
  <2> QED  BY <2>5, <2>6
<1> QED  BY <1>2, <1>3, AnswersAre

\* Without events left behind a partition that comes back is where the
\* application is.
LEMMA BeforeOpening ==
    ASSUME LogOk, Conn, Catching, Open, n.on, Trusted, Timely, Clean("dangling"), NEW k \in Key
    PROVE  Told(k, Found(log, stateNumber, k))
<1>1. ~isOpen
  BY DEF Open
<1>2. events = <<>>
  BY <1>1 DEF LogOk
<1>3. Len(events) = 0
  BY <1>2
<1>4. Base = stateNumber /\ stateNumber \in Nat
  BY <1>3, NumbersAre
<1>5. PICK i \in Base .. stateNumber : Told(k, Found(log, i, k))
  BY DEF Catching
<1>6. i = stateNumber
  BY <1>4, <1>5
<1> QED  BY <1>5, <1>6

LEMMA CatchingOpened ==
    ASSUME LogOk, Conn, Catching, Open
    PROVE  Catching'
<1>1. /\ log' = log /\ stateNumber' = stateNumber /\ Base' = Base /\ breaks' = breaks
      /\ exposed \subseteq exposed' /\ w' = w
  BY OpensAre, ExposeIs DEF Open, stateNumber, Base
<1>2. CASE ~n.on
  <2>1. n' = n
    BY <1>2, OpensAre
  <2>2. SameStates /\ SameWatcher
    BY <1>1 DEF SameStates, SameWatcher
  <2> QED  BY <1>1, <1>2, <2>1, <2>2, CatchingOff
<1>3. CASE n.on
  <2>1. n.initial \in 0 .. stateNumber /\ Sends(History(n.initial)) /\ n'.on = TRUE
    BY <1>3, OpensAre
  <2> SUFFICES ASSUME Trusted', Timely', NEW k \in Key
               PROVE  \E i \in Base' .. stateNumber' : Says(w'.view, toClient', Len(toClient'), k,
                        Found(log', i, k))
    BY <2>1 DEF Catching, Told
  <2>2. Trusted /\ Timely
    BY <1>1, CleanWas, TimelyWas DEF Conn, Typed
  <2>3. Told(k, Found(log, stateNumber, k))
    <3>1. Clean("dangling")
      BY <1>1, <1>3, OpensAre, CleanWas DEF Trusted
    <3> QED  BY <1>3, <2>2, <3>1, BeforeOpening
  <2>4. AfterNotes(Len(toClient'))
    BY <2>1, AllAfterNotes
  <2> DEFINE from == n.initial
  <2>5. from \in 0 .. stateNumber /\ Sends(History(from))
    BY <2>1
  <2> HIDE DEF from
  <2>6. Says(w'.view, toClient', Len(toClient'), k, Found(log, stateNumber, k))
    BY <1>1, <2>3, <2>4, <2>5, OpenedSays
  <2>7. Says(w'.view, toClient', Len(toClient'), k, Found(log', stateNumber', k))
    BY <1>1, <2>6 DEF Told
  <2>8. stateNumber' \in Base' .. stateNumber'
    BY <1>1, NumbersAre
  <2> QED  BY <2>7, <2>8
<1> QED  BY <1>2, <1>3

LEMMA TellsTail ==
    ASSUME Conn, _q_onReceivedObject, NEW i \in 1 .. Len(toClient), NEW k \in Key, NEW v,
           Says(w.view, toClient, i, k, v)
    PROVE  Says(w'.view, toClient', i - 1, k, v)
<1> DEFINE m == Head(toClient)
           s == toClient
           view == w.view
           after == w'.view
<1>1. /\ s # <<>> /\ s \in Seq(Message) /\ toClient' = Tail(s)
      /\ after[k] = IF About(m, k) THEN Effect(m) ELSE view[k]
  BY ReceivedAre
<1>2. i \in 1 .. Len(s) /\ Says(view, s, i, k, v) /\ m = Head(s)
  OBVIOUS
<1> HIDE DEF m, s, view, after
<1>3. Says(after, Tail(s), i - 1, k, v)
  BY <1>1, <1>2, SaysTail
<1> QED  BY <1>1, <1>3 DEF after

\* What is received leaves the stream and enters the view.
LEMMA CatchingReceived ==
    ASSUME LogOk, Conn, Catching, _q_onReceivedObject
    PROVE  Catching'
<1>1. /\ log' = log /\ stateNumber' = stateNumber /\ Base' = Base /\ breaks' = breaks
      /\ exposed' = exposed /\ n' = n
  BY DEF _q_onReceivedObject, server, stateNumber, Base
<1>2. CASE ~n.on
  <2> DEFINE m == Head(toClient)
  <2>1. toClient = <<Response(FALSE)>>
    BY <1>2, ReceivedAre DEF Conn
  <2>2. m = Response(FALSE)
    BY <2>1
  <2>3. ~m.ok /\ m.kind = "response"
    BY <2>2 DEF Response
  <2>4. w' = w
    <3> HIDE DEF m
    <3> QED  BY <2>3 DEF _q_onReceivedObject, m
  <2>5. SameStates /\ SameWatcher
    BY <1>1, <2>4 DEF SameStates, SameWatcher
  <2> QED  BY <1>1, <1>2, <2>5, CatchingOff
<1>3. CASE n.on
  <2> SUFFICES ASSUME Trusted', Timely', NEW k \in Key
               PROVE  \E i \in Base' .. stateNumber' : Says(w'.view, toClient', Len(toClient'), k,
                        Found(log', i, k))
    BY <1>1, <1>3 DEF Catching, Told
  <2>1. Trusted /\ Timely
    BY <1>1, CleanWas, TimelyWas DEF Conn, Typed
  <2>2. PICK i \in Base .. stateNumber : Told(k, Found(log, i, k))
    BY <1>3, <2>1 DEF Catching
  <2>3. Len(toClient) \in 1 .. Len(toClient) /\ Len(toClient') = Len(toClient) - 1
    BY ReceivedAre
  <2>4. Says(w'.view, toClient', Len(toClient) - 1, k, Found(log, i, k))
    BY <2>2, <2>3, TellsTail DEF Told
  <2>5. Says(w'.view, toClient', Len(toClient'), k, Found(log', i, k))
    BY <1>1, <2>3, <2>4 DEF Told
  <2> QED  BY <1>1, <2>2, <2>5
<1> QED  BY <1>2, <1>3

\* The connection is lost, or the daemon is.
LEMMA LostIs ==
    ASSUME LogOk, Conn, removeConnection \/ Crash
    PROVE  /\ Conn' /\ ~n'.on /\ n'.last = 0 /\ toClient' = <<>> /\ breaks' = breaks + 1
           /\ SameWatcher /\ exposed \subseteq exposed'
           /\ Clean("half")' => ~w.within
           /\ Clean("half")' /\ Clean("idle")' => ~Idle
           /\ Clean("rolledback")' => log' = log /\ stateNumber' = stateNumber
           /\ LogOk'
<1>1. CASE removeConnection
  <2>1. /\ Disconnected /\ log' = log /\ isOpen' = isOpen /\ events' = events
    BY <1>1 DEF removeConnection, server
  <2>2. stateNumber' = stateNumber /\ stateNumber \in Nat /\ isOpen \in BOOLEAN
    BY <2>1, NumbersAre DEF Conn, Typed, stateNumber
  <2>3. /\ Conn' /\ ~n'.on /\ n'.last = 0 /\ toClient' = <<>> /\ breaks' = breaks + 1
        /\ SameWatcher
    BY <2>1, <2>2, ConnLost DEF SameWatcher
  <2>4. /\ exposed \subseteq exposed'
        /\ Clean("half")' => ~w.within
        /\ Clean("half")' /\ Clean("idle")' => ~Idle
    <3>1. CASE w.within
      <4>1. Expose("half")
        BY <1>1, <3>1 DEF removeConnection
      <4> QED  BY <4>1 DEF Expose, Clean
    <3>2. CASE ~w.within /\ Idle
      <4>1. Expose("idle")
        BY <1>1, <3>2 DEF removeConnection
      <4> QED  BY <3>2, <4>1 DEF Expose, Clean
    <3>3. CASE ~w.within /\ ~Idle
      <4>1. exposed' = exposed
        BY <1>1, <3>3 DEF removeConnection
      <4> QED  BY <3>3, <4>1
    <3> QED  BY <3>1, <3>2, <3>3
  <2>5. LogOk'
    <3>1. Clean("dangling")' => isOpen' = isOpen \/ isOpen' \/ events = <<>>
      BY <2>1
    <3> QED  BY <2>1, <2>4, <3>1, LogStays
  <2> QED  BY <2>1, <2>2, <2>3, <2>4, <2>5
<1>2. CASE Crash
  <2>1. Disconnected /\ isOpen' = TRUE /\ events' = <<>>
    BY <1>2 DEF Crash
  <2>2. LogOk' /\ (Clean("rolledback")' => log' = log)
    BY <1>2, LogCrashed
  <2>3. stateNumber' \in Nat
    <3>1. log' \in Seq(Entry)
      BY <2>2 DEF LogOk
    <3> QED  BY <3>1, LenProperties DEF stateNumber
  <2>4. /\ Conn' /\ ~n'.on /\ n'.last = 0 /\ toClient' = <<>> /\ breaks' = breaks + 1
        /\ SameWatcher
    BY <2>1, <2>3, ConnLost DEF SameWatcher
  <2>5. PICK new : exposed' = exposed \cup ((new \cup (IF w.within THEN {"half"} ELSE {}))
                                               \cup (IF Idle THEN {"idle"} ELSE {}))
    BY <1>2 DEF Crash
  <2>6. /\ exposed \subseteq exposed'
        /\ Clean("half")' => ~w.within
        /\ Clean("half")' /\ Clean("idle")' => ~Idle
    BY <2>5 DEF Clean
  <2>7. Clean("rolledback")' => stateNumber' = stateNumber
    BY <2>2 DEF stateNumber
  <2> QED  BY <2>2, <2>4, <2>6, <2>7
<1> QED  BY <1>1, <1>2

\* Who loses the connection between two states resumes from the last one.
LEMMA CatchingLost ==
    ASSUME LogOk, Conn, Rising, Catching, Settled, removeConnection \/ Crash
    PROVE  Catching'
<1>1. /\ ~n'.on /\ breaks' = breaks + 1 /\ SameWatcher /\ exposed \subseteq exposed'
      /\ Clean("half")' => ~w.within
      /\ Clean("half")' /\ Clean("idle")' => ~Idle
      /\ Clean("rolledback")' => log' = log /\ stateNumber' = stateNumber
  BY LostIs
<1> SUFFICES ASSUME Trusted', Timely' PROVE Ready'
  BY <1>1 DEF Catching
<1>2. log' = log /\ stateNumber' = stateNumber /\ ~w.within /\ ~Idle
  BY <1>1 DEF Trusted
<1>3. SameStates
  BY <1>2 DEF SameStates
<1>4. Trusted /\ Timely /\ Clean("overtaken") /\ Clean("rolledback")
  <2>1. Trusted /\ Timely
    BY <1>1, CleanWas, TimelyWas DEF Conn, Typed
  <2>2. breaks' # 0
    <3>1. breaks \in Nat
      BY DEF Conn, Typed
    <3> QED  BY <1>1, <3>1
  <2>3. Clean("overtaken")'
    BY <2>2 DEF Timely
  <2>4. Clean("overtaken")
    BY <1>1, <2>3, CleanWas
  <2> QED  BY <2>1, <2>4 DEF Trusted
<1>5. Ready
  <2>1. CASE ~n.on
    BY <1>4, <2>1 DEF Catching
  <2>2. CASE n.on
    <3>1. w.last \in Nat /\ w.initial \in Int
      <4>1. w \in Watcher
        BY DEF Conn, Typed
      <4> QED  BY <4>1, WatcherIs
    <3>2. w.last # 0
      BY <1>2, <2>2 DEF Idle
    <3>3. w.last > 0
      BY <3>1, <3>2
    <3>4. \A k \in Key : w.view[k] = Found(log, w.last, k)
      BY <1>2, <1>4, <3>3 DEF Settled, Known
    <3>5. w.initial <= w.last /\ w.last <= stateNumber
      BY <1>2, <1>4, <3>3 DEF Rising, Above
    <3>6. Resume(w) = w.last
      BY <3>1, <3>2, <3>5 DEF Resume
    <3> QED  BY <1>2, <3>1, <3>3, <3>4, <3>5, <3>6 DEF Ready
  <2> QED  BY <2>1, <2>2
<1> QED  BY <1>3, <1>1, <1>5, ReadyStays

-----------------------------------------------------------------------------
(***************************************************************************)
(* What is told of a state holds of it.                                    *)
(***************************************************************************)
LEMMA KnownStays ==
    ASSUME LogOk, SameStates, SameWatcher, w.last \in 1 .. stateNumber, Known
    PROVE  Known'
<1>1. stateNumber \in Nat
  BY NumbersAre
<1>2. CASE w.within
  <2> SUFFICES ASSUME NEW k \in Key
               PROVE  \E i \in 1 .. stateNumber' : i >= w'.last /\ w'.view[k] = Found(log', i, k)
    BY <1>2 DEF Known, SameWatcher
  <2>1. PICK i \in 1 .. stateNumber : i >= w.last /\ w.view[k] = Found(log, i, k)
    BY <1>2 DEF Known
  <2>2. i \in 1 .. stateNumber' /\ Found(log', i, k) = Found(log, i, k)
    BY <1>1, <2>1 DEF SameStates
  <2> QED  BY <2>1, <2>2 DEF SameWatcher
<1>3. CASE ~w.within
  <2>1. \A k \in Key : w.view[k] = Found(log, w.last, k)
    BY <1>3 DEF Known
  <2>2. \A k \in Key : Found(log', w.last, k) = Found(log, w.last, k)
    BY DEF SameStates
  <2> QED  BY <1>3, <2>1, <2>2 DEF Known, SameWatcher
<1> QED  BY <1>2, <1>3

\* States that the log has.
LEMMA Ranges ==
    ASSUME LogOk, Conn, Rising, Clean("rolledback")
    PROVE  /\ w.last \in Nat /\ (w.last > 0 => w.last \in 1 .. stateNumber)
           /\ n.last \in Nat /\ (n.last > 0 => n.last \in 1 .. stateNumber)
           /\ \A i \in 1 .. Len(toClient) : Numbered(toClient[i])
                => toClient[i].state \in 1 .. stateNumber
<1>1. stateNumber \in Nat
  BY NumbersAre
<1>2. w \in Watcher /\ n \in Notification /\ n.last <= stateNumber /\ w.last <= stateNumber
  BY DEF Conn, Typed, Rising, Above
<1>3. w.last \in Nat /\ n.last \in Nat
  BY <1>2, WatcherIs, NoteIs
<1>4. ASSUME NEW i \in 1 .. Len(toClient), Numbered(toClient[i])
      PROVE  toClient[i].state \in 1 .. stateNumber
  <2>1. toClient[i] \in Message
    BY ElementOfSeq DEF Conn, Typed
  <2>2. CASE Tells(toClient[i])
    BY <2>2 DEF Conn
  <2>3. CASE Changes(toClient[i]) /\ toClient[i].state > 0
    <3>1. toClient[i].state \in Nat /\ toClient[i].state <= stateNumber
      BY <2>1, <2>3, MessageIs DEF Conn
    <3> QED  BY <1>1, <2>3, <3>1
  <2> QED  BY <1>4, <2>2, <2>3 DEF Numbered
<1> QED  BY <1>1, <1>2, <1>3, <1>4

LEMMA SettledStays ==
    ASSUME LogOk, Conn, Rising, Settled, SameStates, SameWatcher, n'.last = n.last,
           toClient' = toClient, exposed \subseteq exposed'
    PROVE  Settled'
<1> SUFFICES ASSUME Trusted', Clean("overtaken")' PROVE Settled'
  BY DEF Settled
<1>1. Trusted /\ Clean("overtaken") /\ Clean("rolledback")
  BY CleanWas DEF Trusted
<1>2. /\ w.last \in Nat /\ (w.last > 0 => w.last \in 1 .. stateNumber)
      /\ n.last \in Nat /\ (n.last > 0 => n.last \in 1 .. stateNumber)
      /\ \A i \in 1 .. Len(toClient) : Numbered(toClient[i])
           => toClient[i].state \in 1 .. stateNumber
  BY <1>1, Ranges
<1>3. \A i \in 1 .. stateNumber : \A k : Found(log', i, k) = Found(log, i, k)
  BY DEF SameStates
<1>4. w'.view = w.view /\ w'.last = w.last
  BY DEF SameWatcher
<1>5. n'.last > 0 =>
          \A k \in Key : Says(w'.view, toClient', Len(toClient'), k, Found(log', n'.last, k))
  BY <1>1, <1>2, <1>3, <1>4 DEF Settled, Told
<1>6. \A i \in 1 .. Len(toClient') :
          Changes(toClient'[i]) /\ toClient'[i].state > 0 =>
              \A k \in Key : Says(w'.view, toClient', i, k, Found(log', toClient'[i].state, k))
  <2> SUFFICES ASSUME NEW i \in 1 .. Len(toClient), Changes(toClient[i]), toClient[i].state > 0,
                      NEW k \in Key
               PROVE  Says(w.view, toClient, i, k, Found(log', toClient[i].state, k))
    BY <1>4
  <2>1. toClient[i].state \in 1 .. stateNumber
    BY <1>2 DEF Numbered
  <2>2. Says(w.view, toClient, i, k, Found(log, toClient[i].state, k))
    BY <1>1 DEF Settled
  <2> QED  BY <1>3, <2>1, <2>2
<1>7. \A i \in 1 .. Len(toClient') :
          Tells(toClient'[i]) =>
              Effect(toClient'[i]) = Found(log', toClient'[i].state, toClient'[i].key)
  <2> SUFFICES ASSUME NEW i \in 1 .. Len(toClient), Tells(toClient[i])
               PROVE  Effect(toClient[i]) = Found(log', toClient[i].state, toClient[i].key)
    OBVIOUS
  <2>1. toClient[i].state \in 1 .. stateNumber
    BY <1>2 DEF Numbered
  <2>2. Effect(toClient[i]) = Found(log, toClient[i].state, toClient[i].key)
    BY <1>1 DEF Settled
  <2> QED  BY <1>3, <2>1, <2>2
<1>8. w'.last > 0 => Known'
  BY <1>1, <1>2, <1>4, KnownStays DEF Settled
<1> QED  BY <1>5, <1>6, <1>7, <1>8 DEF Settled, Told

\* Nothing numbered is under way then.
LEMMA SettledNew ==
    ASSUME LogOk, Conn, Rising, Settled, Clean("rolledback")' => SameStates, SameWatcher,
           n'.last = 0, toClient' = <<>> \/ toClient' = <<Response(FALSE)>>,
           exposed \subseteq exposed'
    PROVE  Settled'
<1> SUFFICES ASSUME Trusted', Clean("overtaken")' PROVE Settled'
  BY DEF Settled
<1>1. Trusted /\ Clean("overtaken") /\ Clean("rolledback") /\ SameStates
  BY CleanWas DEF Trusted
<1>2. w.last \in Nat /\ (w.last > 0 => w.last \in 1 .. stateNumber)
  BY <1>1, Ranges
<1>3. \A i \in 1 .. Len(toClient') : ~Tells(toClient'[i]) /\ ~Changes(toClient'[i])
  <2>1. CASE toClient' = <<>>
    <3>1. Len(toClient') = 0
      BY <2>1
    <3> QED  BY <3>1
  <2>2. CASE toClient' = <<Response(FALSE)>>
    BY <2>2, RefusalIs
  <2> QED  BY <2>1, <2>2
<1>4. w'.last > 0 => Known'
  BY <1>1, <1>2, KnownStays DEF Settled, SameWatcher
<1> QED  BY <1>3, <1>4 DEF Settled

\* A batch that brings every object to the present state settles it.
LEMMA SettledSent ==
    ASSUME LogOk, Conn, Rising, Settled, NEW U, Sends(U), log' = log, stateNumber' = stateNumber,
           exposed \subseteq exposed', w'.last = w.last,
           w'.view = w.view \/ (Len(toClient) = 0 /\ n.last = 0),
           Trusted' /\ Clean("overtaken")' =>
               /\ \A i : AfterNotes(i) => 
                      \A k \in Key : Says(w'.view, toClient', i, k, Found(log, stateNumber, k))
               /\ w.last > 0 => Known',
           \A u \in U : Seen(u.new) = Found(log, stateNumber, u.key)
    PROVE  Settled'
<1> SUFFICES ASSUME Trusted', Clean("overtaken")' PROVE Settled'
  BY DEF Settled
<1> DEFINE s == toClient
           t == toClient'
           last == n'.last
<1>1. Trusted /\ Clean("overtaken") /\ Clean("rolledback")
  BY CleanWas DEF Trusted
<1>2. /\ \A k \in Key : n.last > 0 => Says(w.view, s, Len(s), k, Found(log, n.last, k))
      /\ \A i \in 1 .. Len(s) :
             /\ Changes(s[i]) /\ s[i].state > 0 =>
                    \A k \in Key : Says(w.view, s, i, k, Found(log, s[i].state, k))
             /\ Tells(s[i]) => Effect(s[i]) = Found(log, s[i].state, s[i].key)
  BY <1>1 DEF Settled, Told
<1>3. /\ t \in Seq(Message) /\ Len(s) \in Nat /\ Len(t) \in Nat /\ Len(s) <= Len(t)
      /\ \A i \in 1 .. Len(s) : t[i] = s[i]
      /\ \A i \in 1 .. Len(t) : i \in 1 .. Len(s) \/ i \in Len(s) + 1 .. Len(t)
      /\ \A i \in Len(s) + 1 .. Len(t) :
             /\ Tells(t[i]) => \E u \in U : Hears(u) /\ t[i] = Note(u, stateNumber)
             /\ Changes(t[i]) => t[i].state = last
  BY SentIs
<1>4. stateNumber \in Nat /\ U \in SUBSET Update
  BY NumbersAre DEF Sends
<1>5. ASSUME NEW i, AfterNotes(i), last > 0, NEW k \in Key
      PROVE  Says(w'.view, t, i, k, Found(log, last, k))
  <2>1. CASE \E u \in U : Hears(u)
    <3>1. last = stateNumber
      BY <2>1 DEF Sends
    <3> QED  BY <1>5, <3>1
  <2>2. CASE ~\E u \in U : Hears(u)
    <3>1. last = n.last
      BY <2>2 DEF Sends
    <3>2. w'.view = w.view
      BY <1>5, <3>1
    <3>3. Says(w'.view, s, Len(s), k, Found(log, last, k))
      BY <1>2, <1>5, <3>1, <3>2
    <3>4. i \in Len(s) .. Len(t)
      BY <1>5 DEF AfterNotes
    <3>5. ~\E u \in U : Hears(u) /\ u.key = k
      BY <2>2
    <3> HIDE DEF last
    <3> QED  BY <3>3, <3>4, <3>5, SentQuiet
  <2> QED  BY <2>1, <2>2
<1>6. last > 0 => \A k \in Key : Says(w'.view, t, Len(t), k, Found(log, last, k))
  <2>1. AfterNotes(Len(toClient'))
    BY AllAfterNotes
  <2> QED  BY <1>5, <2>1
<1>7. ASSUME NEW i \in 1 .. Len(t), Changes(t[i]), t[i].state > 0, NEW k \in Key
      PROVE  Says(w'.view, t, i, k, Found(log, t[i].state, k))
  <2>1. CASE i \in 1 .. Len(s)
    <3>1. t[i] = s[i] /\ Len(s) # 0
      BY <1>3, <2>1
    <3>2. w'.view = w.view
      BY <3>1
    <3>3. Says(w.view, s, i, k, Found(log, t[i].state, k))
      BY <1>2, <1>7, <2>1, <3>1
    <3>4. /\ i \in Nat /\ \A j \in 1 .. i : t[j] = s[j]
          /\ \A j \in i + 1 .. i : ~About(t[j], k)
      BY <1>3, <2>1
    <3> HIDE DEF s, t
    <3>5. Says(w.view, t, i, k, Found(log, t[i].state, k))
      BY <3>3, <3>4, SaysMore
    <3> QED  BY <3>2, <3>5
  <2>2. CASE i \in Len(s) + 1 .. Len(t)
    <3>1. t[i].state = last
      BY <1>3, <1>7, <2>2
    <3>2. AfterNotes(i)
      <4>1. i \in Len(s) .. Len(t)
        BY <1>3, <2>2
      <4>2. \A j \in i + 1 .. Len(t) : j \in Len(s) + 1 .. Len(t) /\ ~(j < i)
        BY <1>3, <2>2
      <4>3. \A j \in Len(s) + 1 .. Len(t) : Tells(t[j]) => j < i
        BY <1>7, <2>2 DEF Sends, Batch
      <4>4. \A j \in i + 1 .. Len(t) : ~Tells(t[j])
        BY <4>2, <4>3
      <4> QED  BY <4>1, <4>4 DEF AfterNotes
    <3> HIDE DEF last
    <3> QED  BY <1>5, <1>7, <3>1, <3>2
  <2> QED  BY <1>3, <2>1, <2>2
<1>8. ASSUME NEW i \in 1 .. Len(t), Tells(t[i])
      PROVE  Effect(t[i]) = Found(log, t[i].state, t[i].key)
  <2>1. CASE i \in 1 .. Len(s)
    BY <1>2, <1>3, <1>8, <2>1
  <2>2. CASE i \in Len(s) + 1 .. Len(t)
    <3>1. PICK u \in U : Hears(u) /\ t[i] = Note(u, stateNumber)
      BY <1>3, <1>8, <2>2
    <3>2. /\ Effect(Note(u, stateNumber)) = Seen(u.new) /\ Note(u, stateNumber).key = u.key
          /\ Note(u, stateNumber).state = stateNumber
      BY <1>4, <3>1, ActionIs
    <3> QED  BY <3>1, <3>2
  <2> QED  BY <1>3, <2>1, <2>2
<1>9. w'.last > 0 => Known'
  OBVIOUS
<1> HIDE DEF s, t, last
<1>10. /\ last > 0 => \A k \in Key : Says(w'.view, t, Len(t), k, Found(log', last, k))
       /\ \A i \in 1 .. Len(t) : Changes(t[i]) /\ t[i].state > 0 =>
              \A k \in Key : Says(w'.view, t, i, k, Found(log', t[i].state, k))
       /\ \A i \in 1 .. Len(t) : Tells(t[i]) => Effect(t[i]) = Found(log', t[i].state, t[i].key)
  BY <1>6, <1>7, <1>8
<1> QED  BY <1>9, <1>10 DEF Settled, Told, t, last

LEMMA SettledDelivered ==
    ASSUME LogOk, Conn, Rising, Catching, Settled, _q_objectsUpdated
    PROVE  Settled'
<1>1. /\ exposed \subseteq exposed' /\ stateNumber' = stateNumber /\ log' = log
      /\ SameStates
  BY LogDelivered, ExposeIs DEF _q_objectsUpdated, SameStates
<1>2. CASE ~n.attached
  <2>1. n' = n /\ toClient' = toClient /\ SameWatcher
    BY <1>2 DEF _q_objectsUpdated, SameWatcher
  <2> QED  BY <1>1, <2>1, SettledStays
<1>3. CASE n.attached
  <2> DEFINE b == Base + 1
             U == Change(log, b)
  <2>1. b \in 2 .. stateNumber /\ Sends(U) /\ w' = w /\ (Clean("overtaken")' => b = stateNumber)
    BY <1>3, ObjectsAre
  <2>2. n.on
    BY <1>3 DEF Conn
  <2>3. stateNumber \in Nat /\ Base \in Nat
    BY NumbersAre
  <2> SUFFICES ASSUME Trusted', Clean("overtaken")' PROVE Settled'
    BY DEF Settled
  <2>4. Trusted /\ Timely
    BY <1>1, CleanWas DEF Timely
  <2>5. b = stateNumber
    BY <2>1
  <2>6. ASSUME NEW i, AfterNotes(i), NEW k \in Key
        PROVE  Says(w'.view, toClient', i, k, Found(log, stateNumber, k))
    <3>1. PICK j \in Base .. stateNumber : Told(k, Found(log, j, k))
      BY <2>2, <2>4 DEF Catching
    <3>2. PICK l \in Base + 1 .. stateNumber : Says(w'.view, toClient', i, k, Found(log, l, k))
      BY <1>3, <2>6, <3>1, DeliveredSays
    <3>3. l = stateNumber
      BY <2>3, <2>5
    <3> QED  BY <3>2, <3>3
  <2> HIDE DEF b
  <2>7. \A u \in U : Seen(u.new) = Found(log, stateNumber, u.key)
    BY <2>1, <2>5, ChangeIs
  <2> HIDE DEF U
  <2>8. w.last > 0 => Known'
    <3>1. /\ w.last \in Nat /\ (w.last > 0 => w.last \in 1 .. stateNumber) 
      BY <2>4, Ranges DEF Trusted
    <3>2. SameWatcher
      BY <2>1 DEF SameWatcher
    <3>3. w.last > 0 => Known
      <4>1. Clean("overtaken")
        BY <1>1, CleanWas
      <4> QED  BY <2>4, <4>1 DEF Settled
    <3> QED  BY <1>1, <3>1, <3>2, <3>3, KnownStays
  <2> QED  BY <1>1, <2>1, <2>6, <2>7, <2>8, SettledSent
<1> QED  BY <1>2, <1>3

LEMMA SettledCreated ==
    ASSUME LogOk, Conn, Rising, Catching, Settled, createNotification
    PROVE  Settled'
<1>1. /\ ~n.on /\ n.last = 0 /\ Len(toClient) = 0 /\ toClient = <<>>
      /\ log' = log /\ stateNumber' = stateNumber /\ exposed \subseteq exposed'
  BY AnswersAre
<1>2. SameStates
  BY <1>1 DEF SameStates
<1>3. CASE Refuses
  <2>1. SameWatcher /\ n'.last = 0 /\ toClient' = <<Response(FALSE)>>
    BY <1>1, <1>3 DEF SameWatcher, Refuses
  <2> QED  BY <1>1, <1>2, <2>1, SettledNew
<1>4. ASSUME NEW from, Creates(from) PROVE Settled'
  <2> DEFINE U == History(from)
  <2>1. /\ from = IF Resume(w) = -1 THEN stateNumber ELSE Resume(w)
        /\ from \in 0 .. stateNumber /\ Sends(U)
        /\ w' = IF w.view = Unread THEN [w EXCEPT !.view = Shown(table)] ELSE w
        /\ w'.last = w.last /\ w'.within = w.within /\ w'.initial = w.initial /\ w' \in Watcher
    BY <1>4 DEF Creates
  <2> SUFFICES ASSUME Trusted', Clean("overtaken")' PROVE Settled'
    BY DEF Settled
  <2>2. Trusted /\ Clean("overtaken") /\ Timely
    BY <1>1, CleanWas DEF Timely
  <2>3. Ready
    BY <1>1, <2>2 DEF Catching
  <2>4. \A i : AfterNotes(i) =>
            \A k \in Key : Says(w'.view, toClient', i, k, Found(log, stateNumber, k))
    BY <1>1, <2>1, <2>3, CreatedSays
  <2>5. \A u \in U : Seen(u.new) = Found(log, stateNumber, u.key)
    BY <2>1, HistoryIs
  <2>6. w.last > 0 => Known'
    <3> SUFFICES ASSUME w.last > 0 PROVE Known'
      OBVIOUS
    <3>1. w.last \in 1 .. stateNumber
      BY <2>2, Ranges DEF Trusted
    <3>2. Known /\ ~w.within
      BY <2>2, <2>3 DEF Settled, Ready
    <3>3. w \in Watcher
      BY DEF Conn, Typed
    <3>4. w.view = Unread => Shown(table) = Unread
      <4> SUFFICES ASSUME w.view = Unread PROVE Shown(table) = Unread
        OBVIOUS
      <4>1. ASSUME NEW k \in Key PROVE FALSE
        <5>1. w.view[k] = Found(log, w.last, k)
          BY <3>2 DEF Known
        <5>2. Found(log, w.last, k) \in Content
          BY <3>1, FoundIs
        <5>3. -1 \notin Content
          BY NotificationAssumption DEF Content
        <5> QED  BY <5>1, <5>2, <5>3 DEF Unread
      <4>2. \A k \in Key : FALSE
        BY <4>1
      <4> QED  BY <4>2 DEF Shown, Unread
    <3>5. w'.view = w.view
      BY <2>1, <3>3, <3>4 DEF Watcher
    <3>6. SameWatcher
      BY <2>1, <3>5 DEF SameWatcher
    <3> QED  BY <1>2, <3>1, <3>2, <3>6, KnownStays
  <2> HIDE DEF U
  <2> QED  BY <1>1, <2>1, <2>4, <2>5, <2>6, SettledSent
<1> QED  BY <1>3, <1>4, AnswersAre

LEMMA SettledOpened ==
    ASSUME LogOk, Conn, Rising, Catching, Settled, Open
    PROVE  Settled'
<1>1. /\ log' = log /\ stateNumber' = stateNumber /\ w' = w /\ exposed \subseteq exposed'
  BY OpensAre, ExposeIs DEF Open, stateNumber
<1>2. SameStates /\ SameWatcher
  BY <1>1 DEF SameStates, SameWatcher
<1>3. CASE ~n.on
  <2>1. n' = n /\ toClient' = toClient
    BY <1>3, OpensAre
  <2> QED  BY <1>1, <1>2, <2>1, SettledStays
<1>4. CASE n.on
  <2> DEFINE from == n.initial
             U == History(from)
  <2>1. from \in 0 .. stateNumber /\ Sends(U)
    BY <1>4, OpensAre
  <2> SUFFICES ASSUME Trusted', Clean("overtaken")' PROVE Settled'
    BY DEF Settled
  <2>2. Trusted /\ Clean("overtaken") /\ Timely
    BY <1>1, CleanWas DEF Timely
  <2> HIDE DEF from
  <2>3. \A i : AfterNotes(i) =>
            \A k \in Key : Says(w'.view, toClient', i, k, Found(log, stateNumber, k))
    <3> SUFFICES ASSUME NEW i, AfterNotes(i), NEW k \in Key
                 PROVE  Says(w'.view, toClient', i, k, Found(log, stateNumber, k))
      OBVIOUS
    <3>1. Told(k, Found(log, stateNumber, k))
      <4>1. Clean("dangling")
        BY <1>1, <1>4, OpensAre, CleanWas DEF Trusted
      <4> QED  BY <1>4, <2>2, <4>1, BeforeOpening
    <3> QED  BY <1>1, <2>1, <3>1, OpenedSays
  <2>4. \A u \in U : Seen(u.new) = Found(log, stateNumber, u.key)
    BY <2>1, HistoryIs
  <2>5. w.last > 0 => Known'
    <3>1. w.last > 0 => w.last \in 1 .. stateNumber
      BY <2>2, Ranges DEF Trusted
    <3> QED  BY <1>2, <2>2, <3>1, KnownStays DEF Settled
  <2> HIDE DEF U
  <2> QED  BY <1>1, <2>1, <2>3, <2>4, <2>5, SettledSent
<1> QED  BY <1>3, <1>4

LEMMA SettledReceived ==
    ASSUME LogOk, Conn, Rising, Settled, _q_onReceivedObject
    PROVE  Settled'
<1> DEFINE m == Head(toClient)
           s == toClient
           t == toClient'
<1>1. /\ log' = log /\ stateNumber' = stateNumber /\ exposed' = exposed /\ n' = n
  BY DEF _q_onReceivedObject, server, stateNumber
<1> SUFFICES ASSUME Trusted', Clean("overtaken")' PROVE Settled'
  BY DEF Settled
<1>2. Trusted /\ Clean("overtaken") /\ Clean("rolledback")
  BY <1>1, CleanWas DEF Trusted
<1>3. /\ n.last > 0 => \A k \in Key : Says(w.view, s, Len(s), k, Found(log, n.last, k))
      /\ \A i \in 1 .. Len(s) : Changes(s[i]) /\ s[i].state > 0 =>
             \A k \in Key : Says(w.view, s, i, k, Found(log, s[i].state, k))
      /\ \A i \in 1 .. Len(s) : Tells(s[i]) => Effect(s[i]) = Found(log, s[i].state, s[i].key)
      /\ w.last > 0 => Known
  BY <1>2 DEF Settled, Told
<1>4. /\ m \in Message /\ m = s[1] /\ Len(s) \in Nat /\ Len(s) > 0 /\ Len(t) = Len(s) - 1
      /\ \A i \in 1 .. Len(t) : t[i] = s[i + 1] /\ i + 1 \in 2 .. Len(s)
      /\ w'.last = IF Changes(m) THEN m.state ELSE w.last
      /\ Tells(m) => w'.within
      /\ Changes(m) => ~w'.within
      /\ ~Tells(m) /\ ~Changes(m) => w'.within = w.within
      /\ \A k \in Key : w'.view[k] = IF About(m, k) THEN Effect(m) ELSE w.view[k]
      /\ ~Tells(m) => w'.view = w.view
  BY ReceivedAre
<1>5. /\ w.last \in Nat /\ (w.last > 0 => w.last \in 1 .. stateNumber)
      /\ \A i \in 1 .. Len(s) : Numbered(s[i]) => s[i].state \in 1 .. stateNumber
  BY <1>2, Ranges
<1>6. \A i \in 1 .. Len(s) : Numbered(s[i]) => w.last <= s[i].state
  BY <1>2 DEF Rising, Above
<1>7. \A i \in 1 .. Len(s), k \in Key : \A v :
          Says(w.view, s, i, k, v) => Says(w'.view, t, i - 1, k, v)
  BY TellsTail
<1> HIDE DEF m, s, t
<1>8. 1 \in 1 .. Len(s) /\ Len(s) \in 1 .. Len(s) /\ \A i \in 1 .. Len(t) : i + 1 \in 1 .. Len(s)
  BY <1>4
<1>9. n.last > 0 => \A k \in Key : Says(w'.view, t, Len(t), k, Found(log, n.last, k))
  BY <1>3, <1>4, <1>7, <1>8
<1>10. \A i \in 1 .. Len(t) : Changes(t[i]) /\ t[i].state > 0 =>
           \A k \in Key : Says(w'.view, t, i, k, Found(log, t[i].state, k))
  <2> SUFFICES ASSUME NEW i \in 1 .. Len(t), Changes(t[i]), t[i].state > 0, NEW k \in Key
               PROVE  Says(w'.view, t, i, k, Found(log, t[i].state, k))
    OBVIOUS
  <2>1. i + 1 \in 1 .. Len(s) /\ t[i] = s[i + 1] /\ (i + 1) - 1 = i
    BY <1>4, <1>8
  <2>2. Says(w.view, s, i + 1, k, Found(log, t[i].state, k))
    BY <1>3, <2>1
  <2>3. Says(w'.view, t, (i + 1) - 1, k, Found(log, t[i].state, k))
    BY <1>7, <2>1, <2>2
  <2> QED  BY <2>1, <2>3
<1>11. \A i \in 1 .. Len(t) : Tells(t[i]) => Effect(t[i]) = Found(log, t[i].state, t[i].key)
  BY <1>3, <1>4, <1>8
<1>12. ASSUME w'.last > 0 PROVE Known'
  <2>1. CASE Tells(m)
    <3>1. /\ w'.within /\ m.state \in 1 .. stateNumber /\ w.last <= m.state
          /\ Effect(m) = Found(log, m.state, m.key)
      BY <1>3, <1>4, <1>5, <1>6, <1>8, <2>1 DEF Numbered
    <3>2. ~Changes(m) /\ w'.last = w.last
      BY <1>4, <2>1 DEF Tells, Changes
    <3>3. ASSUME NEW k \in Key
          PROVE  \E i \in 1 .. stateNumber : i >= w.last /\ w'.view[k] = Found(log, i, k)
      <4>1. CASE About(m, k)
        <5>1. w'.view[k] = Found(log, m.state, k)
          BY <1>4, <3>1, <4>1 DEF About
        <5>2. m.state >= w.last
          BY <1>5, <3>1
        <5> QED  BY <3>1, <5>1, <5>2
      <4>2. CASE ~About(m, k)
        <5>1. w'.view[k] = w.view[k] /\ w.last \in 1 .. stateNumber /\ Known
          BY <1>3, <1>4, <1>5, <1>12, <3>2, <4>2
        <5>2. w.last >= w.last
          BY <1>5
        <5> QED  BY <5>1, <5>2 DEF Known
      <4> QED  BY <4>1, <4>2
    <3> QED  BY <1>1, <3>1, <3>2, <3>3 DEF Known
  <2>2. CASE Changes(m)
    <3>1. ~Tells(m) /\ w'.last = m.state /\ ~w'.within /\ m.state > 0
      BY <1>4, <1>12, <2>2 DEF Tells, Changes
    <3>2. \A k \in Key : Says(w.view, s, 1, k, Found(log, m.state, k))
      BY <1>3, <1>4, <1>8, <2>2, <3>1
    <3>3. \A k \in Key : Says(w'.view, t, 1 - 1, k, Found(log, m.state, k))
      BY <1>7, <1>8, <3>2
    <3>4. 1 - 1 = 0
      OBVIOUS
    <3>5. \A k \in Key : w'.view[k] = Found(log, m.state, k)
      BY <3>3, <3>4, SaysNow
    <3> QED  BY <1>1, <3>1, <3>5 DEF Known
  <2>3. CASE ~Tells(m) /\ ~Changes(m)
    <3>1. w'.view = w.view /\ w'.last = w.last /\ w'.within = w.within
      BY <1>4, <2>3
    <3>2. Known
      BY <1>3, <1>12, <3>1
    <3> QED  BY <1>1, <3>1, <3>2 DEF Known
  <2> QED  BY <2>1, <2>2, <2>3
<1> QED  BY <1>1, <1>9, <1>10, <1>11, <1>12 DEF Settled, Told, t
-----------------------------------------------------------------------------
(***************************************************************************)
(* A note fits what the application knows when it arrives.                 *)
(***************************************************************************)
LEMMA ExactStays ==
    ASSUME LogOk, Conn, Exact, SameStates, SameWatcher, n'.on = n.on, toClient' = toClient,
           Base' = Base, exposed \subseteq exposed'
    PROVE  Exact'
<1> SUFFICES ASSUME Punctual' PROVE Exact'
  BY DEF Exact
<1>1. Punctual
  BY CleanWas
<1>2. Base \in 1 .. stateNumber
  BY NumbersAre
<1>3. \A k : Found(log', Base', k) = Found(log, Base, k)
  BY <1>2 DEF SameStates
<1>4. n'.on => \A k \in Key : Says(w'.view, toClient', Len(toClient'), k, Found(log', Base', k))
  BY <1>1, <1>3 DEF Exact, Told, SameWatcher
<1>5. \A i \in 1 .. Len(toClient') : Tells(toClient'[i]) => FitsAt(w'.view, toClient', i)
  BY <1>1 DEF Exact, SameWatcher
<1> QED  BY <1>4, <1>5 DEF Exact, Told

LEMMA ExactNew ==
    ASSUME ~n'.on, toClient' \in {<<>>, <<Response(FALSE)>>}
    PROVE  Exact'
<1>1. \A i \in 1 .. Len(toClient') : ~Tells(toClient'[i])
  <2>1. CASE toClient' = <<>>
    <3>1. Len(toClient') = 0
      BY <2>1
    <3> QED  BY <3>1
  <2>2. CASE toClient' = <<Response(FALSE)>>
    BY <2>2, RefusalIs
  <2> QED  BY <2>1, <2>2
<1> QED  BY <1>1 DEF Exact

\* A batch fits if each update begins with what is known of its object.
LEMMA ExactSent ==
    ASSUME LogOk, Conn, Exact, NEW U, Sends(U), exposed \subseteq exposed',
           w'.view = w.view \/ Len(toClient) = 0,
           Punctual' =>
               /\ \A k \in Key : Says(w'.view, toClient', Len(toClient'), k, Found(log', Base', k))
               /\ \A u \in U : Hears(u) =>
                      /\ u.old # u.new \/ u.old \in Matching
                      /\ Says(w'.view, toClient, Len(toClient), u.key, Seen(u.old))
    PROVE  Exact'
<1> SUFFICES ASSUME Punctual' PROVE Exact'
  BY DEF Exact
<1> DEFINE s == toClient
           t == toClient'
           last == n'.last
           view == w'.view
<1>1. /\ t \in Seq(Message) /\ Len(s) \in Nat /\ Len(t) \in Nat /\ Len(s) <= Len(t)
      /\ \A i \in 1 .. Len(s) : t[i] = s[i]
      /\ \A i \in 1 .. Len(t) : i \in 1 .. Len(s) \/ i \in Len(s) + 1 .. Len(t)
      /\ \A i \in Len(s) + 1 .. Len(t) :
             Tells(t[i]) => \E u \in U : Hears(u) /\ t[i] = Note(u, stateNumber)
  BY SentIs
<1>2. Punctual
  BY CleanWas
<1>3. \A i \in 1 .. Len(s) : Tells(s[i]) => FitsAt(w.view, s, i)
  BY <1>2 DEF Exact
<1>4. /\ stateNumber \in Nat /\ U \in SUBSET Update /\ Batch(s, t, U, stateNumber, last)
      /\ s \in Seq(Message)
  BY NumbersAre DEF Sends, Conn, Typed
<1>5. \A u \in U : Hears(u) =>
          (u.old # u.new \/ u.old \in Matching) /\ Says(view, s, Len(s), u.key, Seen(u.old))
  OBVIOUS
<1>6. view = w.view \/ Len(s) = 0
  OBVIOUS
<1> HIDE DEF s, t, last, view
<1>7. ASSUME NEW i \in 1 .. Len(t), Tells(t[i]) PROVE FitsAt(view, t, i)
  <2>1. CASE i \in 1 .. Len(s)
    <3>1. t[i] = s[i] /\ Len(s) # 0
      BY <1>1, <2>1
    <3>2. FitsAt(view, s, i)
      BY <1>3, <1>6, <1>7, <2>1, <3>1
    <3>3. PICK v \in Content :
              /\ Says(view, s, i - 1, s[i].key, v)
              /\ s[i].action = "create" <=> v = 0
              /\ s[i].action = "remove" <=> s[i].value \notin Matching
      BY <3>2 DEF FitsAt
    <3>4. Says(view, t, i - 1, t[i].key, v)
      <4> DEFINE k == t[i].key
                 h == i - 1
      <4>1. Says(view, s, h, k, v)
        BY <3>1, <3>3
      <4>2. /\ h \in Nat /\ h <= h /\ \A j \in 1 .. h : t[j] = s[j]
            /\ \A j \in h + 1 .. h : ~About(t[j], k)
        BY <1>1, <2>1
      <4> HIDE DEF k, h
      <4>3. Says(view, t, h, k, v)
        BY <4>1, <4>2, SaysMore
      <4> QED  BY <4>3 DEF k, h
    <3> QED  BY <3>1, <3>3, <3>4 DEF FitsAt
  <2>2. CASE i \in Len(s) + 1 .. Len(t)
    <3>1. PICK u \in U : Hears(u) /\ t[i] = Note(u, stateNumber)
      BY <1>1, <1>7, <2>2
    <3>2. u \in Update
      BY <1>4
    <3>3. /\ Note(u, stateNumber).key = u.key
          /\ Note(u, stateNumber).action = "create" <=> Seen(u.old) = 0
          /\ Note(u, stateNumber).action = "remove" <=> Note(u, stateNumber).value \notin Matching
      BY <1>4, <1>5, <3>1, <3>2, ActionIs
    <3>4. Says(view, s, Len(s), t[i].key, Seen(u.old))
      BY <1>5, <3>1, <3>3
    <3>5. Says(view, t, i - 1, t[i].key, Seen(u.old))
      BY <1>4, <1>7, <2>2, <3>4, BatchBefore
    <3>6. Seen(u.old) \in Content
      BY <3>2, ContentIs DEF Update
    <3> QED  BY <3>1, <3>3, <3>5, <3>6 DEF FitsAt
  <2> QED  BY <1>1, <2>1, <2>2
<1>8. \A i \in 1 .. Len(t) : Tells(t[i]) => FitsAt(view, t, i)
  BY <1>7
<1> QED  BY <1>8 DEF Exact, Told, t, view

LEMMA ExactDelivered ==
    ASSUME LogOk, Conn, Exact, _q_objectsUpdated
    PROVE  Exact'
<1>1. /\ exposed \subseteq exposed' /\ stateNumber' = stateNumber /\ log' = log /\ Base' = Base + 1
  BY LogDelivered, ExposeIs DEF _q_objectsUpdated
<1>2. CASE ~n.attached
  <2>1. n' = n /\ toClient' = toClient /\ isOpen
    BY <1>2 DEF _q_objectsUpdated
  <2>2. ~n.on
    BY <1>2, <2>1 DEF Conn
  <2>3. ~n'.on /\ toClient' \in {<<>>, <<Response(FALSE)>>}
    BY <2>1, <2>2 DEF Conn
  <2> QED  BY <2>3, ExactNew
<1>3. CASE n.attached
  <2> DEFINE b == Base + 1
             U == Change(log, b)
  <2>1. b \in 2 .. stateNumber /\ Sends(U) /\ w' = w /\ (Clean("overtaken")' => b = stateNumber)
    BY <1>3, ObjectsAre
  <2>2. n.on
    BY <1>3 DEF Conn
  <2>3. stateNumber \in Nat /\ Base \in Nat /\ b - 1 = Base /\ Base \in Base .. stateNumber
    BY NumbersAre
  <2> SUFFICES ASSUME Punctual' PROVE Exact'
    BY DEF Exact
  <2>4. Punctual
    BY <1>1, CleanWas
  <2>5. \A k \in Key : Told(k, Found(log, Base, k))
    BY <2>2, <2>4 DEF Exact
  <2>6. b = stateNumber
    BY <2>1 DEF Punctual
  <2>7. ASSUME NEW k \in Key
        PROVE  Says(w'.view, toClient', Len(toClient'), k, Found(log', Base', k))
    <3>1. AfterNotes(Len(toClient'))
      BY <2>1, AllAfterNotes
    <3>2. PICK l \in Base + 1 .. stateNumber :
              Says(w'.view, toClient', Len(toClient'), k, Found(log, l, k))
      BY <1>3, <2>3, <2>5, <3>1, DeliveredSays
    <3>3. l = Base'
      BY <1>1, <2>3, <2>6
    <3> QED  BY <1>1, <3>2, <3>3
  <2> HIDE DEF b
  <2>8. \A u \in U : u.key \in Key /\ Seen(u.old) = Found(log, Base, u.key) /\ u.old # u.new
    <3>1. Clean("stillborn")
      BY <2>4 DEF Punctual
    <3> QED  BY <2>1, <2>3, <3>1, ChangeIs
  <2> HIDE DEF U
  <2>9. \A u \in U : Says(w'.view, toClient, Len(toClient), u.key, Seen(u.old))
    BY <2>1, <2>5, <2>8 DEF Told
  <2> QED  BY <1>1, <2>1, <2>7, <2>8, <2>9, ExactSent
<1> QED  BY <1>2, <1>3

LEMMA ExactCreated ==
    ASSUME LogOk, Conn, Catching, Exact, createNotification
    PROVE  Exact'
<1>1. /\ ~n.on /\ Len(toClient) = 0 /\ toClient = <<>>
      /\ log' = log /\ stateNumber' = stateNumber /\ Base' = Base /\ exposed \subseteq exposed'
  BY AnswersAre
<1>2. CASE Refuses
  BY <1>1, <1>2, ExactNew DEF Refuses
<1>3. ASSUME NEW from, Creates(from) PROVE Exact'
  <2> DEFINE U == History(from)
  <2>1. /\ from = IF Resume(w) = -1 THEN stateNumber ELSE Resume(w)
        /\ from \in 0 .. stateNumber /\ Sends(U)
        /\ w' = IF w.view = Unread THEN [w EXCEPT !.view = Shown(table)] ELSE w
        /\ Clean("early")' => events = <<>>
    BY <1>3 DEF Creates
  <2> SUFFICES ASSUME Punctual' PROVE Exact'
    BY DEF Exact
  <2>2. Trusted /\ Timely /\ events = <<>>
    <3>1. Punctual
      BY <1>1, CleanWas
    <3> QED  BY <2>1, <3>1 DEF Punctual, Timely
  <2>3. Ready
    BY <1>1, <2>2 DEF Catching
  <2>4. Base' = stateNumber
    <3>1. Len(events) = 0
      BY <2>2
    <3> QED  BY <1>1, <3>1, NumbersAre
  <2>5. ASSUME NEW k \in Key
        PROVE  Says(w'.view, toClient', Len(toClient'), k, Found(log', Base', k))
    <3>1. AfterNotes(Len(toClient'))
      BY <2>1, AllAfterNotes
    <3>2. Says(w'.view, toClient', Len(toClient'), k, Found(log, stateNumber, k))
      BY <1>1, <2>1, <2>3, <3>1, CreatedSays
    <3> QED  BY <1>1, <2>4, <3>2
  <2>6. ASSUME NEW u \in U
        PROVE  /\ u.old # u.new \/ u.old \in Matching
               /\ Says(w'.view, toClient, Len(toClient), u.key, Seen(u.old))
    <3> DEFINE was(k) == IF from = 0 THEN 0 ELSE Found(log, from, k)
    <3>1. u.key \in Key /\ Seen(u.old) = was(u.key) /\ (u.old # u.new \/ u.old \in Matching)
      BY <2>1, HistoryIs
    <3>2. w'.view[u.key] = was(u.key)
      BY <2>1, <2>3, <3>1, CreatedView
    <3> HIDE DEF was
    <3> QED  BY <1>1, <3>1, <3>2, SaysNow
  <2> HIDE DEF U
  <2> QED  BY <1>1, <2>1, <2>5, <2>6, ExactSent
<1> QED  BY <1>2, <1>3, AnswersAre

LEMMA ExactOpened ==
    ASSUME LogOk, Conn, Exact, Open
    PROVE  Exact'
<1>1. CASE n.on
  BY <1>1, OpensAre DEF Exact, Punctual
<1>2. CASE ~n.on
  <2>1. ~n'.on /\ toClient' \in {<<>>, <<Response(FALSE)>>}
    BY <1>2, OpensAre DEF Conn
  <2> QED  BY <2>1, ExactNew
<1> QED  BY <1>1, <1>2

LEMMA ExactReceived ==
    ASSUME LogOk, Conn, Exact, _q_onReceivedObject
    PROVE  Exact'
<1> DEFINE s == toClient
           t == toClient'
<1>1. log' = log /\ stateNumber' = stateNumber /\ Base' = Base /\ exposed' = exposed /\ n' = n
  BY DEF _q_onReceivedObject, server, stateNumber, Base
<1> SUFFICES ASSUME Punctual' PROVE Exact'
  BY DEF Exact
<1>2. Punctual
  BY <1>1, CleanWas
<1>3. /\ n.on => \A k \in Key : Says(w.view, s, Len(s), k, Found(log, Base, k))
      /\ \A i \in 1 .. Len(s) : Tells(s[i]) => FitsAt(w.view, s, i)
  BY <1>2 DEF Exact, Told
<1>4. /\ Len(s) \in Nat /\ Len(s) > 0 /\ Len(t) = Len(s) - 1 /\ s \in Seq(Message)
      /\ \A i \in 1 .. Len(t) : t[i] = s[i + 1] /\ i + 1 \in 2 .. Len(s)
  BY ReceivedAre
<1>5. \A i \in 1 .. Len(s), k \in Key : \A v :
          Says(w.view, s, i, k, v) => Says(w'.view, t, i - 1, k, v)
  BY TellsTail
<1> HIDE DEF s, t
<1>6. n.on => \A k \in Key : Says(w'.view, t, Len(t), k, Found(log, Base, k))
  <2>1. Len(s) \in 1 .. Len(s)
    BY <1>4
  <2> QED  BY <1>3, <1>4, <1>5, <2>1
<1>7. ASSUME NEW i \in 1 .. Len(t), Tells(t[i]) PROVE FitsAt(w'.view, t, i)
  <2>1. /\ i + 1 \in 1 .. Len(s) /\ t[i] = s[i + 1] /\ (i + 1) - 1 = i /\ i \in 1 .. Len(s)
    BY <1>4
  <2>2. PICK v \in Content :
            /\ Says(w.view, s, (i + 1) - 1, t[i].key, v)
            /\ t[i].action = "create" <=> v = 0
            /\ t[i].action = "remove" <=> t[i].value \notin Matching
    BY <1>3, <1>7, <2>1 DEF FitsAt
  <2>3. t[i].key \in Key
    <3>1. s[i + 1] \in Message
      BY <1>4, <2>1, ElementOfSeq
    <3> QED  BY <1>7, <2>1, <3>1, MessageIs
  <2>4. Says(w'.view, t, i - 1, t[i].key, v)
    BY <1>5, <2>1, <2>2, <2>3
  <2> QED  BY <2>2, <2>4 DEF FitsAt
<1> QED  BY <1>1, <1>6, <1>7 DEF Exact, Told, t

-----------------------------------------------------------------------------
(***************************************************************************)
(* The theorems.                                                           *)
(***************************************************************************)
LEMMA Initially ==
    ASSUME Init
    PROVE  Invariant
<1>1. PICK first \in First, initial \in {Unspecified, 0, 1} :
          /\ log = <<[table |-> first, written |-> {k \in Key : first[k] # 0}]>>
          /\ isOpen = TRUE /\ events = <<>> /\ n = NoNotification
          /\ connected = TRUE /\ toServer = <<initial>> /\ toClient = <<>>
          /\ w = [status |-> "Activating", initial |-> initial, last |-> 0, within |-> FALSE,
                  view |-> CASE initial = 0 -> Nothing
                             [] initial = 1 -> Shown(first)
                             [] OTHER -> Unread]
          /\ breaks = 0 /\ exposed = {}
  BY DEF Init
<1> DEFINE entry == [table |-> first, written |-> {k \in Key : first[k] # 0}]
<1>2. first \in Table /\ entry \in Entry /\ entry.table = first
  BY NotificationAssumption DEF Table, Content, Entry
<1> HIDE DEF entry
<1>3. log \in Seq(Entry) /\ Len(log) = 1 /\ log[1] = entry
  BY <1>1, <1>2 DEF entry
<1>4. stateNumber = 1 /\ Len(events) = 0 /\ Base = 1
  BY <1>1, <1>3 DEF stateNumber, Base
<1>5. LogOk
  <2>1. \A i \in 2 .. stateNumber : FALSE
    BY <1>4
  <2>2. \A i \in 1 .. Len(events) : FALSE
    BY <1>4
  <2>3. events \in Seq(Event)
    BY <1>1
  <2> QED  BY <1>1, <1>3, <1>4, <2>1, <2>2, <2>3 DEF LogOk
<1>6. /\ w.initial = initial /\ w.last = 0 /\ ~w.within /\ initial \in {-1, 0, 1}
      /\ initial = 0 => w.view = Nothing
      /\ initial = 1 => w.view = Shown(first)
      /\ initial = -1 => w.view = Unread
  BY <1>1 DEF Unspecified
<1>7. w \in Watcher
  <2>1. /\ Nothing \in [Key -> Content \cup {-1}] /\ Shown(first) \in [Key -> Content \cup {-1}]
        /\ Unread \in [Key -> Content \cup {-1}]
    BY <1>2, NotificationAssumption DEF Nothing, Shown, Unread, Table, Content
  <2>2. w.view \in [Key -> Content \cup {-1}]
    BY <1>6, <2>1
  <2>3. PICK v : v = w.view
    OBVIOUS
  <2>4. w = [status |-> "Activating", initial |-> initial, last |-> 0, within |-> FALSE, view |-> v]
    BY <1>1, <2>3
  <2>5. initial \in Int /\ 0 \in Nat /\ v \in [Key -> Content \cup {-1}]
    BY <1>6, <2>2, <2>3
  <2>6. [status |-> "Activating", initial |-> initial, last |-> 0, within |-> FALSE, view |-> v]
          \in Watcher
    BY <2>5 DEF Watcher
  <2> QED  BY <2>4, <2>6
<1>8. Resume(w) = initial
  BY <1>6 DEF Resume, Unspecified
<1>9. Conn
  <2>1. toServer \in Seq(Int) /\ toClient \in Seq(Message) /\ Len(toClient) = 0
    BY <1>1, <1>6
  <2>2. Typed
    BY <1>1, <1>7, <2>1, NoNotificationIs DEF Typed
  <2>3. \A i \in 1 .. Len(toClient) : FALSE
    BY <2>1
  <2>4. n.last <= stateNumber /\ w.initial >= -1
    BY <1>1, <1>4, <1>6, NoNotificationIs
  <2>5. ~n.on /\ ~n.attached
    BY <1>1, NoNotificationIs
  <2> QED  BY <1>1, <1>8, <2>2, <2>3, <2>4, <2>5 DEF Conn
<1>10. \A i \in 1 .. Len(toClient) : FALSE
  <2>1. Len(toClient) = 0
    BY <1>1
  <2> QED  BY <2>1
<1>11. ~n.on /\ n.last = 0
  BY <1>1, NoNotificationIs
<1>12. Rising
  <2>1. w.initial <= 1 /\ w.last <= 1
    BY <1>6
  <2> QED  BY <1>4, <1>6, <1>10, <1>11, <2>1 DEF Rising, Above
<1>13. Ready
  <2>1. \A k \in Key : Shown(first)[k] = Found(log, 1, k)
    BY <1>2, <1>3 DEF Shown, Found, Seen
  <2>2. initial > 0 => initial = 1
    BY <1>6
  <2> QED  BY <1>4, <1>6, <1>8, <2>1, <2>2 DEF Ready
<1>14. Catching
  BY <1>11, <1>13 DEF Catching
<1>15. Settled
  BY <1>6, <1>10, <1>11 DEF Settled
<1>16. Exact
  BY <1>10, <1>11 DEF Exact
<1> QED  BY <1>5, <1>9, <1>12, <1>14, <1>15, <1>16 DEF Invariant

\* Every action keeps the invariant.
LEMMA StepKeeps ==
    ASSUME Invariant, [Next]_vars
    PROVE  Invariant'
<1>1. LogOk /\ Conn /\ Rising /\ Catching /\ Settled /\ Exact
  BY DEF Invariant
<1>2. exposed \subseteq exposed' /\ (breaks' = breaks \/ breaks' = breaks + 1)
  BY Grows
<1>3. stateNumber \in Nat
  BY <1>1, NumbersAre
<1>4. CASE _q_objectsUpdated
  <2>1. LogOk' /\ Conn' /\ Catching' /\ Settled' /\ Exact'
    BY <1>1, <1>4, LogDelivered, ConnDelivered, CatchingDelivered, SettledDelivered, ExactDelivered
  <2>2. Rising'
    <3>1. stateNumber' = stateNumber
      BY <1>1, <1>4, LogDelivered
    <3>2. CASE n.attached
      <4>1. w' = w /\ \E U : Sends(U)
        BY <1>1, <1>4, <3>2, ObjectsAre
      <4> QED  BY <1>1, <1>2, <3>1, <4>1, RisingSent
    <3>3. CASE ~n.attached
      <4>1. n' = n /\ toClient' = toClient /\ w' = w
        BY <1>4, <3>3 DEF _q_objectsUpdated
      <4> QED  BY <1>1, <1>2, <1>3, <3>1, <4>1, RisingStays
    <3> QED  BY <3>2, <3>3
  <2> QED  BY <2>1, <2>2 DEF Invariant
<1>5. CASE createNotification
  <2>1. LogOk'
    <3>1. log' = log /\ events' = events /\ isOpen' = isOpen
      BY <1>5 DEF createNotification, server
    <3> QED  BY <1>1, <1>2, <3>1, LogStays
  <2>2. Conn' /\ Catching' /\ Settled' /\ Exact'
    BY <1>1, <1>5, ConnCreated, CatchingCreated, SettledCreated, ExactCreated
  <2>3. Rising'
    <3>1. n.last = 0 /\ stateNumber' = stateNumber /\ (Refuses \/ \E from : Creates(from))
      BY <1>1, <1>5, AnswersAre
    <3>2. CASE Refuses
      BY <1>1, <1>2, <1>3, <3>1, <3>2, RisingStays DEF Refuses
    <3>3. ASSUME NEW from, Creates(from) PROVE Rising'
      <4>1. /\ Sends(History(from))
            /\ w'.initial = w.initial /\ w'.last = w.last /\ w'.within = w.within
        BY <3>3 DEF Creates
      <4> QED  BY <1>1, <1>2, <3>1, <4>1, RisingSent
    <3> QED  BY <3>1, <3>2, <3>3
  <2> QED  BY <2>1, <2>2, <2>3 DEF Invariant
<1>6. CASE _q_onReceivedObject
  <2>1. LogOk'
    <3>1. log' = log /\ events' = events /\ isOpen' = isOpen
      BY <1>6 DEF _q_onReceivedObject, server
    <3> QED  BY <1>1, <1>2, <3>1, LogStays
  <2> QED  BY <1>1, <1>6, <2>1, ConnReceived, RisingReceived, CatchingReceived, SettledReceived,
              ExactReceived DEF Invariant
<1>7. ASSUME log' = log, events' = events, isOpen' = isOpen \/ Close, n'.on = n.on,
               n'.last = n.last,
             toClient' = toClient, w' = w, Conn'
      PROVE  Invariant'
  <2>1. LogOk' /\ stateNumber' = stateNumber /\ Base' = Base
    <3>1. Clean("dangling")' => isOpen' = isOpen \/ isOpen' \/ events = <<>>
      <4>1. Close => ExposeIf(events # <<>>, "dangling")
        BY DEF Close
      <4> QED  BY <1>7, <4>1, ExposeIs
    <3> QED  BY <1>1, <1>2, <1>7, <3>1, LogStays
  <2>2. SameStates /\ SameWatcher
    BY <1>7, <2>1 DEF SameStates, SameWatcher
  <2>3. Rising'
    BY <1>1, <1>2, <1>3, <1>7, <2>1, RisingStays
  <2>4. Catching' /\ Settled' /\ Exact'
    BY <1>1, <1>2, <1>7, <2>1, <2>2, CatchingStays, SettledStays, ExactStays
  <2> QED  BY <1>7, <2>1, <2>3, <2>4 DEF Invariant
<1>8. CASE initWatcher
  BY <1>1, <1>7, <1>8, ConnAsked DEF initWatcher, server
<1>9. CASE UNCHANGED vars
  <2>1. log' = log /\ events' = events /\ isOpen' = isOpen /\ n' = n /\ toClient' = toClient
          /\ w' = w
    BY <1>9 DEF vars, server
  <2>2. Conn'
    BY <1>1, <1>9, ConnStays
  <2> QED  BY <1>7, <2>1, <2>2
<1>10. CASE Close
  <2>1. /\ log' = log /\ events' = events /\ n' = Cleared /\ toClient' = toClient /\ w' = w
    BY <1>10 DEF Close
  <2>2. n'.on = n.on /\ n'.last = n.last
    <3>1. n \in Notification
      BY <1>1 DEF Conn, Typed
    <3> QED  BY <2>1, <3>1 DEF Cleared, Notification
  <2>3. Conn'
    BY <1>1, <1>10, ConnClosed
  <2> QED  BY <1>7, <1>10, <2>1, <2>2, <2>3
<1>11. CASE Open
  <2>1. LogOk' /\ stateNumber' = stateNumber
    <3>1. log' = log /\ events' = events /\ isOpen'
      BY <1>11 DEF Open
    <3> QED  BY <1>1, <1>2, <3>1, LogStays
  <2>2. Conn' /\ Catching' /\ Settled' /\ Exact'
    BY <1>1, <1>11, ConnOpened, CatchingOpened, SettledOpened, ExactOpened
  <2>3. Rising'
    <3>1. w' = w
      BY <1>1, <1>11, OpensAre
    <3>2. CASE n.on
      <4>1. Sends(History(n.initial))
        BY <1>1, <1>11, <3>2, OpensAre
      <4> QED  BY <1>1, <1>2, <2>1, <3>1, <4>1, RisingSent
    <3>3. CASE ~n.on
      <4>1. n' = n /\ toClient' = toClient
        BY <1>1, <1>11, <3>3, OpensAre
      <4> QED  BY <1>1, <1>2, <1>3, <2>1, <3>1, <4>1, RisingStays
    <3> QED  BY <3>2, <3>3
  <2> QED  BY <2>1, <2>2, <2>3 DEF Invariant
<1>12. CASE removeConnection \/ Crash
  <2>1. /\ Conn' /\ ~n'.on /\ n'.last = 0 /\ toClient' = <<>> /\ SameWatcher /\ LogOk'
        /\ Clean("rolledback")' => log' = log /\ stateNumber' = stateNumber
    BY <1>1, <1>12, LostIs
  <2>2. Clean("rolledback")' => SameStates
    BY <2>1 DEF SameStates
  <2>3. Rising'
    BY <1>1, <1>2, <2>1, RisingLost DEF SameWatcher
  <2>4. Catching'
    BY <1>1, <1>12, CatchingLost
  <2>5. Settled'
    BY <1>1, <1>2, <2>1, <2>2, SettledNew
  <2>6. Exact'
    BY <2>1, ExactNew
  <2> QED  BY <2>1, <2>3, <2>4, <2>5, <2>6 DEF Invariant
<1>13. ASSUME NEW after \in [Key -> Content], updateObjects(after) PROVE Invariant'
  <2>1. /\ n' = n /\ toClient' = toClient /\ w' = w
    BY <1>13 DEF updateObjects
  <2>2. LogOk' /\ Conn'
    BY <1>1, <1>13, LogWritten, ConnWritten
  <2>3. /\ stateNumber' = stateNumber + 1 /\ Base' = Base
        /\ \A i \in 1 .. stateNumber : \A k : Found(log', i, k) = Found(log, i, k)
    BY <1>1, <1>13, LogAppended
  <2>4. SameStates /\ SameWatcher
    BY <2>1, <2>3 DEF SameStates, SameWatcher
  <2>5. Rising'
    BY <1>1, <1>2, <1>3, <2>1, <2>3, RisingStays
  <2>6. Catching' /\ Settled' /\ Exact'
    BY <1>1, <1>2, <2>1, <2>3, <2>4, CatchingStays, SettledStays, ExactStays
  <2> QED  BY <2>2, <2>5, <2>6 DEF Invariant
<1> QED  BY <1>4, <1>5, <1>6, <1>8, <1>9, <1>10, <1>11, <1>12, <1>13 DEF Next, Works

\* The invariant holds of every behaviour, whatever breaks.
THEOREM Invariance == Spec => []Invariant
<1>1. Init => Invariant
  BY Initially
<1>2. Invariant /\ [Next]_vars => Invariant'
  BY StepKeeps
<1> QED  BY <1>1, <1>2, PTL DEF Spec

LEMMA WithoutIs ==
    ASSUME NEW S, Without(S)
    PROVE  \A e \in S : Clean(e)
BY DEF Without, Clean

\* ViewFollows: when nothing is under way, what an active watcher makes of the
\* notifications is what its query finds: whatever objects, writes, breaks and
\* crashes there were.
THEOREM ViewIsTrue == Spec => []ViewFollows
<1>1. Invariant => ViewFollows
  <2> SUFFICES ASSUME Invariant, n.attached, events = <<>>, toClient = <<>>,
                      Without({"half", "idle", "rolledback"}), NothingLeftOver,
                      breaks > 0 => Without({"overtaken"})
               PROVE  w.view = Shown(table)
    BY DEF ViewFollows
  <2>1. LogOk /\ Conn /\ Catching
    BY DEF Invariant
  <2>2. Trusted
    BY WithoutIs DEF Trusted, NothingLeftOver
  <2>3. Timely
    <3>1. breaks \in Nat
      BY <2>1 DEF Conn, Typed
    <3>2. breaks > 0 => Clean("overtaken")
      BY WithoutIs
    <3> QED  BY <3>1, <3>2 DEF Timely
  <2>4. n.on
    BY <2>1 DEF Conn
  <2>5. Len(events) = 0 /\ Len(toClient) = 0
    OBVIOUS
  <2>6. Base = stateNumber /\ stateNumber \in 1 .. stateNumber /\ stateNumber \in Nat
    BY <2>1, <2>5, NumbersAre
  <2>7. ASSUME NEW k \in Key PROVE w.view[k] = Shown(table)[k]
    <3>1. PICK i \in Base .. stateNumber : Told(k, Found(log, i, k))
      BY <2>1, <2>2, <2>3, <2>4 DEF Catching
    <3>2. i = stateNumber
      BY <2>6, <3>1
    <3>3. w.view[k] = Found(log, stateNumber, k)
      BY <2>5, <3>1, <3>2, SaysNow DEF Told
    <3> QED  BY <2>1, <2>6, <3>3, FoundIs DEF table
  <2>8. w.view \in [Key -> Content \cup {-1}]
    BY <2>1, WatcherIs DEF Conn, Typed
  <2> QED  BY <2>7, <2>8 DEF Shown
<1> QED  BY <1>1, Invariance, PTL

\* StateIsComplete: of the state that the watcher was told last nothing is
\* missing, also when the connection breaks just then.
THEOREM StatesAreComplete == Spec => []StateIsComplete
<1>1. Invariant => StateIsComplete
  <2> SUFFICES ASSUME Invariant, w.last > 0, NEW k \in Key,
                      Without({"overtaken", "half", "idle", "rolledback"}), NothingLeftOver
               PROVE  \E i \in 1 .. stateNumber : i >= w.last /\ w.view[k] = Shown(log[i].table)[k]
    BY DEF StateIsComplete
  <2>1. LogOk /\ Conn /\ Rising /\ Settled
    BY DEF Invariant
  <2>2. Trusted /\ Clean("overtaken") /\ Clean("rolledback")
    BY WithoutIs DEF Trusted, NothingLeftOver
  <2>3. Known
    BY <2>1, <2>2 DEF Settled
  <2>4. w.last \in 1 .. stateNumber /\ w.last \in Nat
    BY <2>1, <2>2, Ranges
  <2>5. PICK i \in 1 .. stateNumber : i >= w.last /\ w.view[k] = Found(log, i, k)
    <3>1. CASE w.within
      BY <2>3, <3>1 DEF Known
    <3>2. CASE ~w.within
      <4>1. w.view[k] = Found(log, w.last, k) /\ w.last >= w.last
        BY <2>3, <2>4, <3>2 DEF Known
      <4> QED  BY <2>4, <4>1
    <3> QED  BY <3>1, <3>2
  <2> QED  BY <2>1, <2>5, FoundIs
<1> QED  BY <1>1, Invariance, PTL

\* ActionsFit: an object is created that the application did not know and
\* removed when it does not match any more: nothing is told twice.
THEOREM ActionsAreExact == Spec => []ActionsFit
<1>1. Invariant => ActionsFit
  <2> DEFINE m == Head(toClient)
  <2> SUFFICES ASSUME Invariant, toClient # <<>>, Tells(m),
                      Without({"overtaken", "early", "half", "idle", "reopened", "rolledback",
                               "stillborn"})
               PROVE  /\ m.action = "create" <=> w.view[m.key] = 0
                      /\ m.action = "remove" <=> m.value \notin Matching
    BY DEF ActionsFit, Tells
  <2>1. Conn /\ Exact
    BY DEF Invariant
  <2>2. Punctual
    BY WithoutIs DEF Punctual, Trusted
  <2>3. 1 \in 1 .. Len(toClient) /\ m = toClient[1]
    <3>1. toClient \in Seq(Message)
      BY <2>1 DEF Conn, Typed
    <3>2. Len(toClient) \in Nat \ {0}
      BY <3>1, EmptySeq
    <3> QED  BY <3>1, <3>2
  <2> HIDE DEF m
  <2>4. PICK v \in Content :
            /\ Says(w.view, toClient, 1 - 1, m.key, v)
            /\ m.action = "create" <=> v = 0
            /\ m.action = "remove" <=> m.value \notin Matching
    BY <2>1, <2>2, <2>3 DEF Exact, FitsAt
  <2>5. w.view[m.key] = v
    BY <2>4, SaysNow
  <2> QED  BY <2>4, <2>5
<1> QED  BY <1>1, Invariance, PTL
=============================================================================
