------------------------ MODULE JsonDbObjectVersion ------------------------
(***************************************************************************)
(* The versions of one object, src/partition/jsondbobject.cpp: what an     *)
(* optimistic write and a replicated write make of the stored object.      *)
(*                                                                         *)
(* A version is an update count and the hash of the content.  A content is *)
(* a number that stands for its hash, and hashes are compared as these     *)
(* numbers are.  The arrays of _meta are sets: history holds each version  *)
(* once, in order, and conflicts are found by their version.               *)
(***************************************************************************)
EXTENDS Integers, FiniteSetsExt

CONSTANTS
    Body,       \* the contents of an object
    Tombstone   \* those with _deleted

ASSUME VersionAssumption ==
    /\ Body \subseteq Nat \ {0}
    /\ Tombstone \subseteq Body

NoVersion == [count |-> 0, hash |-> 0]
Version == {NoVersion} \cup [count : Nat \ {0}, hash : Body]

\* An object: scraps counts the entries of _meta.conflicts that are not objects.
Absent == [version |-> NoVersion, body |-> 0, history |-> {}, conflicts |-> {}, scraps |-> 0]
Bare(version, body) == [Absent EXCEPT !.version = version, !.body = body]

isDeleted(object) == object.body \in Tombstone

Older(v, w) == v.count < w.count \/ (v.count = w.count /\ v.hash < w.hash)

\* Mutant: a write of the content it replaces is a new version.
NeverReplay(body, replaced) == FALSE

\* computeVersion(): the content is not that of the version it replaces.
IsReplay(body, replaced) == body = replaced.hash
NextVersion(body, replaced) ==
    IF IsReplay(body, replaced) THEN replaced ELSE [count |-> replaced.count + 1, hash |-> body]

addAncestor(history, version) == IF version.count < 1 THEN history ELSE history \cup {version}
isAncestorOf(history, version) == version.count >= 1 /\ version \in history

\* The length of the history array, whose position is the update count.
Positions(history) == IF history = {} THEN 0 ELSE Max({v.count : v \in history})

-----------------------------------------------------------------------------
(***************************************************************************)
(* The optimistic write.                                                   *)
(***************************************************************************)
\* The array is shortened under the iterator, which then skips an element.
ScrapsLeft(object, replaced) ==
    IF replaced = NoVersion THEN object.scraps \div 2 ELSE object.scraps

Resolves(object, replaced) ==
    \/ \E c \in object.conflicts : c.version = replaced
    \/ replaced = NoVersion /\ object.scraps > 0

\* Mutant: a write without a version overwrites.
AlsoUnversioned(object, replaced) ==
    replaced = NoVersion \/ object.version \in {NoVersion, replaced}

ProgressesHead(object, replaced) == object.version \in {NoVersion, replaced}

\* What is written back under _meta.conflicts is the history.
Booked(object, history, leftConflicts, leftScraps, trackHistory) ==
    [object EXCEPT
        !.history = IF trackHistory THEN history ELSE {},
        !.conflicts = {},
        !.scraps = IF leftConflicts # {} \/ leftScraps > 0 THEN Positions(history) ELSE 0]

\* updateVersionOptimistic(): the object after the write, whether the write
\* is valid, and the version it wrote.
updateVersionOptimistic(this, other, trackHistory) ==
    LET replaced == other.version
        replay == IsReplay(other.body, replaced)
        next == NextVersion(other.body, replaced)
        resolves == Resolves(this, replaced)
        progresses == ProgressesHead(this, replaced)
        revives == ~resolves /\ ~progresses /\ isDeleted(this)
        written == IF revives THEN [count |-> this.version.count + 1, hash |-> next.hash] ELSE next
        head ==
            CASE revives \/ (progresses /\ ~replay) -> [other EXCEPT !.version = written]
              [] ~revives /\ progresses /\ replay -> [this EXCEPT !.version = written]
              [] OTHER -> this
        known == IF resolves THEN addAncestor(this.history, next) ELSE this.history
        seen == IF revives THEN addAncestor(known, replaced) ELSE known
        history == addAncestor(seen, IF revives THEN this.version ELSE replaced)
        left == IF replay THEN this.conflicts
                ELSE {c \in this.conflicts : c.version # replaced}
        scraps == IF replay THEN this.scraps ELSE ScrapsLeft(this, replaced)
    IN CASE resolves \/ progresses \/ revives ->
              [valid |-> TRUE, written |-> written,
               object |-> IF replay THEN head ELSE Booked(head, history, left, scraps, trackHistory)]
         [] ~(resolves \/ progresses \/ revives) /\ isAncestorOf(this.history, next) ->
              [valid |-> TRUE, written |-> next, object |-> this]
         [] OTHER -> [valid |-> FALSE, written |-> NoVersion, object |-> this]

\* computeVersion(trackHistory): the object replaces itself.
computeVersion(object, trackHistory) ==
    updateVersionOptimistic(object, object, trackHistory)

-----------------------------------------------------------------------------
(***************************************************************************)
(* The replicated write.                                                   *)
(***************************************************************************)
IsValid(object) == object.version.count > 0 /\ object.body = object.version.hash

\* populateMerge(): the conflicts of an object and the object itself.
Alternatives(object) == {Bare(c.version, c.body) : c \in object.conflicts}
\* Mutants: the head is left out next to its conflicts; the conflicts are.
ConflictsOnly(object) ==
    IF object.conflicts = {} THEN {object} ELSE Alternatives(object)
HeadOnly(object) == {object}

Documents(object) ==
    LET others == Alternatives(object)
    IN others \cup (IF object.scraps > 0 \/ object.version \in {d.version : d \in others}
                    THEN {} ELSE {object})

\* Scraps have no uuid, so an object that has some is not valid.
IsMergeable(object) ==
    /\ object.scraps = 0
    /\ IsValid(object)
    /\ \A c \in object.conflicts : c.version.count > 0 /\ c.body = c.version.hash

\* Of two documents of one version the first is kept, with its history.
Merged(this, other) ==
    LET mine == IF this = Absent THEN {} ELSE Documents(this)
    IN mine \cup {d \in Documents(other) : d.version \notin {m.version : m \in mine}}

Newest(documents) ==
    CHOOSE d \in documents : \A e \in documents : e = d \/ Older(e.version, d.version)

IsAlive(document, documents) ==
    /\ ~isDeleted(document)
    /\ \A d \in documents :
          Older(document.version, d.version) => ~isAncestorOf(d.history, document.version)

updateVersionReplicating(this, other) ==
    LET documents == Merged(this, other)
        winner == Newest(documents)
        losers == documents \ {winner}
        conflicts == {d \in losers : IsAlive(d, documents)}
        replaced == losers \ conflicts
    IN IF ~IsMergeable(other) THEN [valid |-> FALSE, object |-> this]
       ELSE [valid |-> TRUE,
             object |->
               [version |-> winner.version, body |-> winner.body,
                history |-> winner.history \cup (UNION {d.history : d \in replaced})
                                \cup {d.version : d \in {e \in replaced : e.version.count >= 1}},
                conflicts |-> {[version |-> d.version, body |-> d.body] : d \in conflicts},
                scraps |-> 0]]
=============================================================================
