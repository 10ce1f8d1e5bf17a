------------------------ MODULE JsonDbPartitionWrite ------------------------
(***************************************************************************)
(* JsonDbPartition::updateObjects(): batches of objects written in one of  *)
(* the modes of conflict resolution, to several partitions whose clients   *)
(* copy objects from one to another with replicated writes.                *)
(*                                                                         *)
(* A client may use any object it was ever able to read, at any time and   *)
(* any number of times: the copies of a replicator are delayed, reordered, *)
(* repeated or lost.                                                       *)
(***************************************************************************)
EXTENDS JsonDbObjectVersion, Sequences, SequencesExt

CONSTANTS
    Replica,    \* the partitions
    Uuid,       \* the objects
    NoUuid,     \* the key of an object without _uuid
    First,      \* what may be stored of an object at first
    Typed(_),   \* the content once _type has been inserted
    MaxVersion, \* bound: update counts
    MaxSeen,    \* bound: objects a client was able to read
    Avoided,    \* bound: the exposures left out, see Exposure
    Final       \* bound: the exposures after which nothing is written any more

Mode == {"RejectStale", "Replace", "ReplicatedWrite"}

\* Situations in which the code gives up what is said of it below.
Exposure == {
    "scraps",   \* the head of an object with conflicts was written
    "nameless", \* an object was stored without uuid
    "replaced", \* an object was replaced without regard to its version
    "revived",  \* a tombstone was revived by content a client had read before,
                \* or on top of a version newer than the one it gets
    "sidelined", \* a conflict was updated, and not deleted
    "silent",   \* a batch was cut short after some of its objects
    "misreported", \* an object was stored although its check had failed
    "lost"}     \* the commit failed

ASSUME WriteAssumption ==
    /\ NoUuid \notin Uuid
    /\ MaxVersion \in Nat /\ MaxSeen \in Nat /\ Avoided \cup Final \subseteq Exposure

\* A type is inserted once, and is not what makes a tombstone; what is stored
\* at first has the content its version names.
ASSUME ContentAssumption ==
    /\ \A b \in Body :
          /\ Typed(b) \in Body /\ Typed(Typed(b)) = Typed(b)
          /\ Typed(b) \in Tombstone <=> b \in Tombstone
    /\ \A object \in First :
          \/ object = Absent
          \/ /\ object.version \in Version \ {NoVersion}
             /\ object = Bare(object.version, Typed(object.version.hash))

Key == Uuid \cup {NoUuid}
Object == {Absent} \cup
          [version : Version, body : Body \cup {0}, history : SUBSET (Version \ {NoVersion}),
           conflicts : SUBSET [version : Version, body : Body], scraps : Nat]

VARIABLES
    table,   \* the objects of each partition
    announced, \* the version of each object in the last event queued for it
    seen,    \* history: every object a client was able to read
    basis,   \* history: pairs of a version and one written on top of it
    given,   \* history: the versions a partition acknowledged or merged
    exposed  \* history: see Exposure

vars == <<table, announced, seen, basis, given, exposed>>

-----------------------------------------------------------------------------
(***************************************************************************)
(* One object of a batch.  acc is what the loop carries along.             *)
(***************************************************************************)
NewVersion(mode, master, object) ==
    CASE mode = "RejectStale" -> updateVersionOptimistic(master, object, TRUE)
      [] mode = "Replace" -> computeVersion(object, TRUE)
      [] mode = "ReplicatedWrite" ->
            LET merge == updateVersionReplicating(master, object)
            IN [valid |-> merge.valid, object |-> merge.object,
                written |-> merge.object.version]

\* An optimistic replay of a version onto nothing stores nothing but it.
KeyOf(uuid, master) == IF master.body = 0 THEN NoUuid ELSE uuid

\* The type of the object before is inserted when the write has none.
WithType(object) == [object EXCEPT !.body = IF @ = 0 THEN 0 ELSE Typed(@)]

Rejected(acc, code) == [acc EXCEPT !.code = code, !.returned = TRUE]

WriteObject(acc, mode, uuid, object) ==
    LET master == acc.table[uuid]
        forCreation == master = Absent \/ isDeleted(master)
        write == NewVersion(mode, master, object)
        stored == WithType(write.object)
        key == KeyOf(uuid, stored)
        oldMaster == IF forCreation THEN Absent ELSE master
    IN IF mode # "ReplicatedWrite" /\ forCreation /\ isDeleted(object)
       THEN Rejected(acc, "MissingObject")
       ELSE IF ~write.valid
       THEN Rejected(acc, IF mode = "ReplicatedWrite" THEN "InvalidRequest" ELSE "UpdatingStaleVersion")
       ELSE [acc EXCEPT
                !.table[key] = stored,
                !.updated = Append(@, [key |-> key, old |-> oldMaster, new |-> stored]),
                !.written = Append(@, [uuid |-> uuid, base |-> object.version,
                                       version |-> write.written, object |-> object])]

\* An object that fails a check is "rejected"; one whose check is made and not
\* acted upon (natural types) is "reported": it is stored all the same, and its
\* code stays the answer unless a later object of the batch fails.
UpdateOne(acc, mode, item) ==
    LET checked == IF item.fault = "reported" THEN [acc EXCEPT !.code = "MissingType"] ELSE acc
    IN CASE acc.returned -> acc
         [] ~acc.returned /\ item.fault = "rejected" -> Rejected(acc, "Failed")
         [] OTHER -> WriteObject(checked, mode, item.uuid, item.object)

UpdateAll(partition, mode, batch) ==
    LET acc[i \in 0..Len(batch)] ==
            IF i = 0
            THEN [table |-> partition, updated |-> <<>>, written |-> <<>>,
                  code |-> "NoError", returned |-> FALSE]
            ELSE UpdateOne(acc[i - 1], mode, batch[i])
    IN acc[Len(batch)]

-----------------------------------------------------------------------------
(***************************************************************************)
(* The calls.                                                              *)
(***************************************************************************)
\* All partitions start with the same objects, replicated before.
Init ==
    \E first \in [Uuid -> First] :
        LET known == {u \in Uuid : first[u] # Absent}
        IN /\ table = [r \in Replica |-> [k \in Key |-> IF k \in Uuid THEN first[k] ELSE Absent]]
           /\ announced = [r \in Replica |-> [k \in Key |-> table[r][k].version]]
           /\ seen = {[uuid |-> u, object |-> first[u]] : u \in known}
           /\ basis = {}
           /\ given = [r \in Replica |-> [u \in Uuid |-> IF u \in known THEN {first[u].version} ELSE {}]]
           /\ exposed = {}

\* What a client sends: a new object, one it has read, or one it has read
\* with another content.
Items(mode) ==
    LET read == {[fault |-> "none", uuid |-> s.uuid, object |-> s.object] : s \in seen}
    IN IF mode = "ReplicatedWrite" THEN read
       ELSE read
            \cup {[i EXCEPT !.object.body = b] : i \in read, b \in Body}
            \cup {[fault |-> "none", uuid |-> u, object |-> Bare(NoVersion, b)] : u \in Uuid, b \in Body}

Written(result, u) == {w \in ToSet(result.written) : w.uuid = u}

\* What the replaced versions of a write are: the version it was based on,
\* and the tombstone it revives.
Basis(before, mode, result) ==
    IF mode = "ReplicatedWrite" THEN {}
    ELSE UNION {{<<w.base, w.version>>,
                 <<IF isDeleted(before[w.uuid]) THEN before[w.uuid].version ELSE w.base, w.version>>}
                    : w \in ToSet(result.written)}

Given(r, mode, result) ==
    [u \in Uuid |->
        CASE mode = "Replace" /\ Written(result, u) # {} -> {w.version : w \in Written(result, u)}
          [] mode = "ReplicatedWrite" ->
                given[r][u] \cup {w.object.version : w \in Written(result, u)}
                            \cup UNION {{c.version : c \in w.object.conflicts} : w \in Written(result, u)}
          [] OTHER -> given[r][u] \cup {w.version : w \in Written(result, u)}]

Exposed(before, mode, result, committed) ==
    {e \in Exposure :
        \/ e = "revived" /\ mode = "RejectStale" /\ \E w \in ToSet(result.written) :
              /\ isDeleted(before[w.uuid])
              /\ w.object.body = w.base.hash \/ ~Older(w.base, w.version)
        \/ e = "sidelined" /\ mode = "RejectStale" /\ \E w \in ToSet(result.written) :
              /\ Resolves(before[w.uuid], w.base)
              /\ ~isDeleted(w.object) /\ w.object.body # w.base.hash
        \/ e = "scraps" /\ \E k \in Key : result.table[k].scraps > 0
        \/ e = "nameless" /\ result.table[NoUuid] # Absent
        \/ e = "replaced" /\ mode = "Replace" /\ result.written # <<>>
        \/ e = "silent" /\ result.returned /\ result.updated # <<>> /\ committed
        \/ e = "misreported" /\ result.updated # <<>> /\ ~result.returned /\ result.code # "NoError"
        \/ e = "lost" /\ result.updated # <<>> /\ ~committed}

\* What the event tells, once it is delivered.
Announced(before, updated) ==
    [k \in Key |->
        LET changes == {i \in DOMAIN updated : updated[i].key = k}
        IN IF changes = {} THEN before[k] ELSE updated[Max(changes)].new.version]

\* WithTransaction commits on every way out of updateObjects(), and nobody
\* looks at what commitTransaction() returns; the event is queued only at the end.
updateObjects(r, mode, batch, committed) ==
    \E result \in {UpdateAll(table[r], mode, batch)} :
       \E exposing \in {Exposed(table[r], mode, result, committed)} :
       /\ exposing \cap Avoided = {}
       /\ \A k \in Key : result.table[k].version.count <= MaxVersion
       /\ table' = IF committed THEN [table EXCEPT ![r] = result.table] ELSE table
       /\ announced' = IF result.returned THEN announced
                       ELSE [announced EXCEPT ![r] = Announced(@, result.updated)]
       /\ seen' = seen \cup
              (IF committed
               THEN {[uuid |-> u, object |-> result.table[u]] : u \in {x \in Uuid : result.table[x] # Absent}}
               ELSE {})
       /\ Cardinality(seen') <= MaxSeen
       /\ basis' = basis \cup Basis(table[r], mode, result)
       /\ given' = IF result.code = "NoError" THEN [given EXCEPT ![r] = Given(r, mode, result)] ELSE given
       /\ exposed' = exposed \cup exposing

Batch(mode) ==
    {<<i>> : i \in Items(mode)}
    \cup (IF "misreported" \in Avoided THEN {}
          ELSE {<<[fault |-> "reported", uuid |-> i.uuid, object |-> i.object]>> : i \in Items(mode)})
    \cup (IF "silent" \in Avoided THEN {}
          ELSE {<<i, [fault |-> "rejected"]>> : i \in Items(mode)})

Next ==
    \E r \in Replica, mode \in Mode, committed \in IF "lost" \in Avoided THEN {TRUE} ELSE BOOLEAN :
        /\ exposed \cap Final = {}
        /\ mode = "Replace" => "replaced" \notin Avoided
        /\ \E batch \in Batch(mode) : updateObjects(r, mode, batch, committed)

Spec == Init /\ [][Next]_vars

-----------------------------------------------------------------------------
(***************************************************************************)
(* Properties.                                                             *)
(***************************************************************************)
\* The state has its type; a history never names the version of nothing.
TypeOK ==
    /\ table \in [Replica -> [Key -> Object]]
    /\ announced \in [Replica -> [Key -> Version]]
    /\ given \in [Replica -> [Uuid -> SUBSET Version]]
    /\ basis \subseteq Version \X Version
    /\ exposed \subseteq Exposure

Without(exposures) == exposed \cap exposures = {}

\* The version of an object only grows, whatever stale, repeated or merged
\* copies are written (updateVersionOptimistic(), updateVersionReplicating()):
\* clients order what they see of an object by it.
HeadNeverRegresses ==
    [][Without({"replaced", "scraps"})' =>
          \A r \in Replica, u \in Uuid :
              ~Older(table'[r][u].version, table[r][u].version)]_vars

Heads(object) ==
    IF object = Absent THEN {} ELSE {object.version} \cup {c.version : c \in object.conflicts}

\* A branch: versions with all that was written on top of any of them.
IsBranch(branch) == \A p \in basis : p[1] \in branch => p[2] \in branch

Ended(branch) == \E v \in branch : v.hash \in Tombstone

\* No order of writes and merges drops a branch in silence: what a partition
\* has acknowledged (jsondbpartition.cpp:1571) or merged is its head or one of
\* its conflicts, or else something written on top of it is, or deleted it.
\* Nor is it lost for those who follow: the last event queued for an object
\* tells the version that is stored (jsondbpartition.cpp:1585).
NoWriteLost ==
    /\ Without({"replaced", "scraps", "lost", "nameless", "revived", "sidelined"}) =>
           \A branch \in SUBSET UNION {given[r][u] : r \in Replica, u \in Uuid} :
               IsBranch(branch) /\ ~Ended(branch) =>
                   \A r \in Replica, u \in Uuid :
                       branch \cap given[r][u] # {} => branch \cap Heads(table[r][u]) # {}
    /\ Without({"silent", "lost"}) =>
           \A r \in Replica : \A k \in Key : announced[r][k] = table[r][k].version

\* A client that did not hear of its optimistic write, because the connection
\* broke, sends it again: the second time changes nothing.  (Resolving a
\* conflict of a tombstone is the exception: the retry revives the object.)
RetryIsHarmless ==
    Without({"scraps", "nameless"}) =>
        \A r \in Replica : \A i \in Items("RejectStale") :
          (isDeleted(table[r][i.uuid]) => table[r][i.uuid].conflicts = {}) =>
            \A once \in {UpdateAll(table[r], "RejectStale", <<i>>).table} :
                once[NoUuid] = Absent => UpdateAll(once, "RejectStale", <<i>>).table = once

Replicated(object, s) == updateVersionReplicating(object, s.object).object

\* Two copies of an object may arrive in either order: the same version wins
\* (updateVersionReplicating(), the order of populateMerge()).
HeadIsOrderFree ==
    Without({"scraps"}) =>
        \A r \in Replica : \A a, b \in seen :
            a.uuid = b.uuid =>
                \A x \in {Replicated(table[r][a.uuid], a)}, y \in {Replicated(table[r][a.uuid], b)} :
                    Replicated(x, b).version = Replicated(y, a).version

=============================================================================
