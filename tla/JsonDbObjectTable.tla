------------------------- MODULE JsonDbObjectTable -------------------------
(***************************************************************************)
(* The object table of src/partition: the objects of a table, its change   *)
(* log, the cache of the log, and the indexes, each of which is a B-tree   *)
(* file of its own.  The files are committed and synced one by one and     *)
(* know of each other only by the state number each is tagged with.  What  *)
(* a B-tree file promises is DurableTree: a commit replaces its content,   *)
(* a restart finds the content of its last sync.                           *)
(*                                                                         *)
(* An Index object is an object of the table: writing one adds or removes  *)
(* the index in the middle of the transaction that writes it.              *)
(***************************************************************************)
EXTENDS Naturals, Sequences, FiniteSets, FiniteSetsExt

CONSTANTS
    Uuid,         \* the objects the table may hold
    Value,        \* their contents
    UserIndex,    \* indexes with an Index object; their names are uuids too
    BuiltinIndex, \* indexes every open adds, as _type
    Field(_, _),  \* the value of an index's property in a content, or NoField
    NoField,
    Null,         \* the field value null
    Absent,       \* no object was ever written
    Deleted,      \* the tombstone of a removed object
    Definition,   \* the content of an Index object
    ExtraVersions,\* jsondbSettings->changeLogCacheVersions()
    MaxState,     \* bound: the last state number
    MaxBatch,     \* bound: objects written in one transaction
    OneFailure,   \* bound: whether a transaction fails only while nothing is spoiled
                  \*   or stuck by another that did
    FreshFiles    \* bound: whether every index is defined over no file, and one
                  \*   there is defined again only by the first objects of a transaction

ASSUME NamesAssumption ==
    /\ UserIndex \cap (Uuid \cup BuiltinIndex) = {} /\ "cache" \notin UserIndex \cup BuiltinIndex
    /\ {Absent, Deleted, Definition} \cap Value = {} /\ Definition \notin {Absent, Deleted}
    /\ ExtraVersions \in Nat /\ MaxState \in Nat \ {0} /\ MaxBatch \in Nat
    /\ OneFailure \in BOOLEAN /\ FreshFiles \in BOOLEAN

Index == BuiltinIndex \cup UserIndex
Key == Uuid \cup UserIndex

VARIABLES
    up,           \* "down", "opening" while initIndexes runs, or "open"
    tableDisk,    \* the object table's file, as a restart finds it
    table,        \* mBdb, as committed
    mStateNumber,
    writing,      \* mBdb->isWriting()
    work,         \* the objects of the write transaction
    mStateObjectChanges, \* the changes of the write transaction, in order
    mChangeCache, \* state number -> changes, in the order they were inserted
    indexDisk,    \* the indexes' files, as a restart finds them
    index,        \* the indexes, as committed
    indexWork,    \* the keys of the indexes' write transactions
    mBdbTransactions, \* the indexes with a write transaction commit() will end
    stuck,        \* the indexes whose write transaction a failed commit left open
    mIndexes,     \* the indexes the table has
    snapshot,     \* history variable: the objects of every state of the log
    spoiled       \* history variable: what a failed commit has left wrong

tableVars == <<tableDisk, table, mStateNumber, writing, work,
               mStateObjectChanges, mChangeCache, snapshot>>
indexVars == <<indexDisk, index, indexWork, mBdbTransactions, stuck, mIndexes>>
vars == <<up, tableVars, indexVars, spoiled>>

-----------------------------------------------------------------------------
(***************************************************************************)
(* Objects and changes.                                                    *)
(***************************************************************************)
Live(object) == object \notin {Absent, Deleted}
Visible(object) == IF Live(object) THEN object ELSE Absent

Action == {"Create", "Update", "Remove"}

Change(key, old, new, action) ==
    [key |-> key, old |-> old, new |-> new, action |-> action]

\* What storeStateChange() and commit() keep of a state: the action of every
\* change, and one old object for each uuid.
LogOf(changes) ==
    [actions |-> [i \in DOMAIN changes |->
                      [key |-> changes[i].key, action |-> changes[i].action]],
     old |-> [key \in {changes[i].key : i \in {j \in DOMAIN changes :
                                                   Live(changes[j].old)}} |->
                 changes[Max({i \in DOMAIN changes :
                                  changes[i].key = key /\ Live(changes[i].old)})].old]]

\* Mutant of Combined: the old object is that of the later change.
KeepsLaterOld(before, change) ==
    IF before.action = "Create" /\ change.action = "Remove"
    THEN {}
    ELSE {[change EXCEPT !.action = IF @ = "Remove" THEN "Remove" ELSE "Update"]}

\* A later change of a uuid combined with an earlier one.
Combined(before, change) ==
    IF before.action = "Create" /\ change.action = "Remove"
    THEN {}
    ELSE {Change(change.key, before.old, change.new,
                 IF change.action = "Remove" THEN "Remove" ELSE "Update")}

\* The one change that stays of those of a uuid, as a set of at most one.
Collected(kept, change) ==
    IF kept = {} THEN {change} ELSE Combined(CHOOSE before \in kept : TRUE, change)

\* QMultiMap iterates the changes of one state from the last to the first.
CollectedOf(key, kept, changes) ==
    LET last == Len(changes)
        collected[i \in 0 .. last] ==
            IF i = 0 THEN kept
            ELSE LET change == changes[last + 1 - i]
                 IN IF change.key = key THEN Collected(collected[i - 1], change)
                    ELSE collected[i - 1]
    IN collected[last]

-----------------------------------------------------------------------------
(***************************************************************************)
(* Indexes.                                                                *)
(***************************************************************************)
NoFile == [keys |-> {}, tag |-> 0]

Entry(i, key, object) ==
    IF Live(object) /\ Field(i, object) # NoField
    THEN {<<Field(i, object), key>>} ELSE {}

Entries(i, objects) == UNION {Entry(i, key, objects[key]) : key \in DOMAIN objects}

\* reindexObjects() leaves out the objects whose property is null.
Rebuilt(i, objects) == {entry \in Entries(i, objects) : entry[1] # Null}

\* Mutant of Added: only an index without a state number is rebuilt.
TrustsAnyTag(i, file, objects) ==
    IF mStateNumber # 0 /\ file.tag = 0
    THEN [keys |-> Rebuilt(i, objects), tag |-> mStateNumber]
    ELSE file

\* The index after addIndex() has looked at the tag of its file.
Added(i, file, objects) ==
    IF mStateNumber # 0 /\ file.tag # mStateNumber
    THEN [keys |-> Rebuilt(i, objects), tag |-> mStateNumber]
    ELSE file

\* addIndex() closes the index again, which syncs it.
addIndex(i, file, objects) ==
    /\ index' = [index EXCEPT ![i] = Added(i, file, objects)]
    /\ indexDisk' = [indexDisk EXCEPT ![i] = Added(i, file, objects)]

removeIndex(i) ==
    /\ index' = [index EXCEPT ![i] = NoFile]
    /\ indexDisk' = [indexDisk EXCEPT ![i] = NoFile]

-----------------------------------------------------------------------------
(***************************************************************************)
(* Opening: the table's state number is the tag of its file, then          *)
(* initIndexes adds the indexes one after another.                         *)
(***************************************************************************)
NoObjects == [key \in Key |-> Absent]
NoChanges == [n \in 1 .. MaxState |-> <<>>]
NoLog == [n \in 1 .. MaxState |-> LogOf(<<>>)]

\* A new partition whose first state the schemas have taken.
Init ==
    /\ up = "opening"
    /\ table = [objects |-> NoObjects, log |-> NoLog, tag |-> 1]
    /\ tableDisk = table
    /\ mStateNumber = 1
    /\ writing = FALSE
    /\ work = NoObjects
    /\ mStateObjectChanges = <<>>
    /\ mChangeCache = NoChanges
    /\ indexDisk = [i \in Index |-> NoFile]
    /\ index = [i \in Index |-> NoFile]
    /\ indexWork = [i \in Index |-> {}]
    /\ mBdbTransactions = {}
    /\ stuck = {}
    /\ mIndexes = {}
    /\ snapshot = [n \in 0 .. MaxState |-> NoObjects]
    /\ spoiled = {}

Open ==
    /\ up = "down"
    /\ up' = "opening"
    /\ table' = tableDisk
    /\ mStateNumber' = tableDisk.tag
    /\ work' = tableDisk.objects
    \* The states after the tag are lost and will be numbered again.
    /\ snapshot' = [n \in DOMAIN snapshot |->
                       IF n <= tableDisk.tag THEN snapshot[n] ELSE tableDisk.objects]
    /\ spoiled' = spoiled \ {"cache"}
    /\ UNCHANGED <<tableDisk, writing, mStateObjectChanges, mChangeCache, indexVars>>

\* The indexes initIndexes adds: _type, then those of the Index objects.
Wanted == BuiltinIndex \cup {i \in UserIndex : Live(table.objects[i])}

OpenIndex(i) ==
    /\ up = "opening"
    /\ i \in Wanted \ mIndexes
    /\ addIndex(i, indexDisk[i], table.objects)
    /\ mIndexes' = mIndexes \cup {i}
    /\ spoiled' = IF indexDisk[i].tag # mStateNumber THEN spoiled \ {i} ELSE spoiled
    /\ UNCHANGED <<up, tableVars, indexWork, mBdbTransactions, stuck>>

Opened ==
    /\ up = "opening"
    /\ Wanted \subseteq mIndexes
    /\ up' = "open"
    /\ UNCHANGED <<tableVars, indexVars, spoiled>>

-----------------------------------------------------------------------------
(***************************************************************************)
(* A write transaction: the objects of one updateObjects() call, written   *)
(* one by one.                                                             *)
(***************************************************************************)
begin ==
    /\ up = "open" /\ ~writing
    /\ mStateNumber < MaxState
    /\ writing' = TRUE
    /\ UNCHANGED <<up, tableDisk, table, mStateNumber, work, mStateObjectChanges,
                   mChangeCache, snapshot, indexVars, spoiled>>

\* The keys of an index the write transaction sees.
Current(i) ==
    IF i \in mBdbTransactions \cup stuck THEN indexWork[i] ELSE index[i].keys

\* The indexes an object is taken from or put into start their transaction,
\* those that are not writing already.
Touched(key, old, new) ==
    {i \in mIndexes : Entry(i, key, old) \cup Entry(i, key, new) # {}}

Reindexed(key, old, new) ==
    [i \in Index |->
        IF i \in Touched(key, old, new)
        THEN (Current(i) \ Entry(i, key, old)) \cup Entry(i, key, new)
        ELSE indexWork[i]]

ActionOf(old, new) ==
    IF ~Live(new) THEN "Remove" ELSE IF ~Live(old) THEN "Create" ELSE "Update"

\* Deindexing the old object, put(), storeStateChange(), indexing the new one.
WriteObject(key, new) ==
    LET old == work[key] IN
    /\ work' = [work EXCEPT ![key] = new]
    /\ mStateObjectChanges' = Append(mStateObjectChanges,
           Change(key, Visible(old), new, ActionOf(old, new)))
    /\ indexWork' = Reindexed(key, old, new)

\* updateObjects() for an object that is no Index.
Write(key, new) ==
    /\ writing
    /\ Len(mStateObjectChanges) < MaxBatch
    /\ key \in Uuid
    /\ Live(work[key]) \/ Live(new)
    /\ WriteObject(key, new)
    /\ mBdbTransactions' = mBdbTransactions \cup (Touched(key, work[key], new) \ stuck)
    /\ UNCHANGED <<up, tableDisk, table, mStateNumber, writing, mChangeCache,
                   snapshot, indexDisk, index, stuck, mIndexes, spoiled>>

\* updateObjects() for an Index object: updateBuiltInTypes() removes the index
\* the old object defined, then adds the one the new object defines.  Removing a
\* stuck index takes element -1 from the list of transactions; of the ways that
\* may end only the end of the process is followed, by Crash.
WriteIndexObject(i, new) ==
    LET old == work[i]
        replaced == Live(old) /\ i \in mIndexes
        file == IF replaced THEN NoFile ELSE indexDisk[i]
        others == IF replaced THEN mIndexes \ {i} ELSE mIndexes
    IN
    /\ writing
    /\ Len(mStateObjectChanges) < MaxBatch
    /\ i \in UserIndex
    /\ replaced => i \notin stuck
    /\ Live(old) \/ Live(new)
    /\ FreshFiles /\ Live(new) =>
          /\ file.tag = 0
          /\ Live(table.objects[i]) =>
                \A c \in DOMAIN mStateObjectChanges : mStateObjectChanges[c].key = i
    /\ WriteObject(i, new)
    /\ mBdbTransactions' = (mBdbTransactions \cup (Touched(i, old, new) \ stuck))
                               \ (IF replaced THEN {i} ELSE {})
    /\ IF Live(new) /\ i \notin others
       THEN /\ mIndexes' = others \cup {i}
            /\ addIndex(i, file, work')
            /\ spoiled' = spoiled \ {i}
       ELSE /\ mIndexes' = others
            /\ IF replaced THEN removeIndex(i) ELSE UNCHANGED <<index, indexDisk>>
            /\ UNCHANGED spoiled
    /\ UNCHANGED <<up, tableDisk, table, mStateNumber, writing, mChangeCache, snapshot,
                   stuck>>

\* The cache takes the changes only when it holds others already.
CacheWith(n) ==
    IF mChangeCache = NoChanges THEN mChangeCache
    ELSE [mChangeCache EXCEPT ![n] = mStateObjectChanges]

\* The indexes after their commits, of which some have failed: their marker is
\* not replaced.
CommittedIndexes(n, failed) ==
    [i \in Index |-> IF i \in mBdbTransactions \ failed
                     THEN [keys |-> indexWork[i], tag |-> n] ELSE index[i]]

\* The transaction of the table and those of the indexes are over, apart from
\* those that are left open.
EndTransaction(left) ==
    /\ writing' = FALSE
    /\ mStateObjectChanges' = <<>>
    /\ mBdbTransactions' = {}
    /\ stuck' = left
    /\ indexWork' = [i \in Index |-> IF i \in left THEN indexWork[i] ELSE {}]

MayFail == OneFailure => spoiled = {} /\ stuck = {}

\* commit(n): the indexes first, then the table.  That the commit of an index
\* has failed is only logged; nobody aborts its transaction, which stays open.
\* A view's table takes the state number of the main table and may leave some out.
commit(n, failed) ==
    /\ writing
    /\ n \in mStateNumber + 1 .. MaxState
    /\ failed \subseteq mBdbTransactions
    /\ failed # {} => MayFail
    /\ mStateNumber' = n
    /\ mChangeCache' = CacheWith(n)
    /\ index' = CommittedIndexes(n, failed)
    /\ table' = [objects |-> work, tag |-> n,
                 log |-> [table.log EXCEPT ![n] = LogOf(mStateObjectChanges)]]
    /\ snapshot' = [m \in DOMAIN snapshot |-> IF m < n THEN snapshot[m] ELSE work]
    /\ EndTransaction(stuck \cup failed)
    /\ UNCHANGED <<up, tableDisk, work, indexDisk, mIndexes, spoiled>>

\* The table's commit fails, on a full disk say, when the indexes are already
\* committed: the partition then aborts the table.
commitFails(n, failed) ==
    /\ writing
    /\ n = mStateNumber + 1
    /\ MayFail
    /\ failed \subseteq mBdbTransactions
    /\ mStateNumber' = n
    /\ mChangeCache' = CacheWith(n)
    /\ index' = CommittedIndexes(n, failed)
    /\ work' = table.objects
    /\ spoiled' = Index \cup {"cache"}
    /\ EndTransaction(stuck \cup failed)
    /\ UNCHANGED <<up, tableDisk, table, snapshot, indexDisk, mIndexes>>

\* The objects of the transaction, and those the cache has changes of.
Written == {mStateObjectChanges[c].key : c \in DOMAIN mStateObjectChanges}
CachedKeys ==
    UNION {{mChangeCache[n][c].key : c \in DOMAIN mChangeCache[n]} : n \in DOMAIN mChangeCache}

\* The partition has no space: the table and the indexes are aborted, but an index
\* that the transaction has added or removed is not put back, and what
\* changesSince() has read in the transaction stays in the cache.
abort ==
    /\ writing
    /\ MayFail
    /\ work' = table.objects
    /\ spoiled' = spoiled \cup (Written \cap UserIndex)
                     \cup (IF CachedKeys \cap Written # {} THEN {"cache"} ELSE {})
    /\ EndTransaction(stuck)
    /\ UNCHANGED <<up, tableDisk, table, mStateNumber, mChangeCache, snapshot,
                   indexDisk, index, mIndexes>>

-----------------------------------------------------------------------------
(***************************************************************************)
(* changesSince: reading the log through the cache.                        *)
(***************************************************************************)
Starting(n) == Max({1, n + 1})

\* Older changes are dropped.
Pruned(start) ==
    LET cached == {n \in DOMAIN mChangeCache : mChangeCache[n] # <<>>} IN
    IF cached # {} /\ Min(cached) + ExtraVersions < start
    THEN [n \in DOMAIN mChangeCache |->
             IF n < start - ExtraVersions THEN <<>> ELSE mChangeCache[n]]
    ELSE mChangeCache

\* The changes of a state as the log tells them: the new object is the one the
\* table has now.
FromLog(n) ==
    LET state == table.log[n] IN
    [i \in DOMAIN state.actions |->
        LET key == state.actions[i].key
            action == state.actions[i].action
        IN Change(key,
                  IF action # "Create" /\ key \in DOMAIN state.old
                  THEN state.old[key] ELSE Absent,
                  work[key], action)]

Fetched(start) ==
    [n \in DOMAIN mChangeCache |->
        IF n \in start .. mStateNumber /\ Pruned(start)[n] = <<>>
        THEN FromLog(n) ELSE Pruned(start)[n]]

\* What changesSince(n) answers about a uuid.
Answer(key, n) ==
    LET start == Starting(n)
        cache == Fetched(start)
        answer[m \in 0 .. MaxState] ==
            IF m < start THEN {} ELSE CollectedOf(key, answer[m - 1], cache[m])
    IN answer[MaxState]

changesSince(n) ==
    /\ up = "open"
    /\ mChangeCache' = Fetched(Starting(n))
    /\ UNCHANGED <<up, tableDisk, table, mStateNumber, writing, work,
                   mStateObjectChanges, snapshot, indexVars, spoiled>>

flushCaches ==
    /\ up = "open"
    /\ mChangeCache' = NoChanges
    /\ UNCHANGED <<up, tableDisk, table, mStateNumber, writing, work,
                   mStateObjectChanges, snapshot, indexVars, spoiled>>

-----------------------------------------------------------------------------
(***************************************************************************)
(* Syncing, closing, and the end of the process.                           *)
(***************************************************************************)
\* _q_mainSyncTimer and flush().
SyncTable ==
    /\ up = "open" /\ ~writing
    /\ tableDisk' = table
    /\ UNCHANGED <<up, table, mStateNumber, writing, work, mStateObjectChanges,
                   mChangeCache, snapshot, indexVars, spoiled>>

\* One turn of the loop of _q_indexSyncTimer over the indexes.
SyncIndex(i) ==
    /\ up = "open" /\ ~writing
    /\ i \in mIndexes
    /\ indexDisk' = [indexDisk EXCEPT ![i] = index[i]]
    /\ UNCHANGED <<up, tableVars, index, indexWork, mBdbTransactions, stuck, mIndexes,
                   spoiled>>

\* Memory is gone.
Down ==
    /\ up' = "down"
    /\ table' = tableDisk'
    /\ mStateNumber' = 0
    /\ work' = NoObjects
    /\ mChangeCache' = NoChanges
    /\ index' = [i \in Index |-> NoFile]
    /\ mIndexes' = {}
    /\ EndTransaction({})

\* close() syncs the table, then the indexes, each tagged with the table's
\* state number; done are those it got to.  Tagging a stuck index commits what is
\* left of its transaction, lacking the pages that were cut off the file.
close(done, left) ==
    /\ up = "open" /\ ~writing
    /\ tableDisk' = table
    /\ indexDisk' = [i \in Index |->
                        IF i \in done \cap stuck
                        THEN [keys |-> indexWork[i] \cap left, tag |-> mStateNumber]
                        ELSE IF i \in done THEN [index[i] EXCEPT !.tag = mStateNumber]
                        ELSE indexDisk[i]]
    /\ spoiled' = spoiled \cup (done \cap stuck)
    /\ Down
    /\ UNCHANGED snapshot

\* The process dies or the machine loses power.
Crash ==
    /\ up # "down"
    /\ UNCHANGED <<tableDisk, indexDisk, snapshot, spoiled>>
    /\ Down

Next ==
    \/ Open
    \/ \E i \in Index : OpenIndex(i)
    \/ Opened
    \/ begin
    \/ \E key \in Uuid, new \in Value \cup {Deleted} : Write(key, new)
    \/ \E i \in UserIndex, new \in {Definition, Deleted} : WriteIndexObject(i, new)
    \/ \E n \in 1 .. MaxState, failed \in SUBSET mBdbTransactions : commit(n, failed)
    \/ \E n \in 1 .. MaxState, failed \in SUBSET mBdbTransactions : commitFails(n, failed)
    \/ abort
    \/ \E n \in 0 .. mStateNumber : changesSince(n)
    \/ flushCaches
    \/ SyncTable
    \/ \E i \in Index : SyncIndex(i)
    \/ \E done \in SUBSET mIndexes,
          left \in SUBSET (UNION {indexWork[i] : i \in stuck}) : close(done, left)
    \/ Crash

Spec == Init /\ [][Next]_vars

-----------------------------------------------------------------------------
(***************************************************************************)
(* Properties.                                                             *)
(***************************************************************************)
Content == {Absent, Deleted, Definition} \cup Value
ChangeOf == [key : Key, old : Content, new : Content, action : Action]
FieldValue == {Field(i, v) : i \in Index, v \in Content \ {Absent, Deleted}}
File == [keys : SUBSET (FieldValue \X Key), tag : 0 .. MaxState]
Logged == [actions : Seq([key : Key, action : Action]),
           old : UNION {[keys -> Content] : keys \in SUBSET Key}]
TableFile ==
    [objects : [Key -> Content], log : [1 .. MaxState -> Logged], tag : 1 .. MaxState]

\* Every variable has the type its declaration in JsonDbObjectTable gives it.
TypeOK ==
    /\ up \in {"down", "opening", "open"}
    /\ tableDisk \in TableFile /\ table \in TableFile
    /\ mStateNumber \in 0 .. MaxState
    /\ writing \in BOOLEAN
    /\ work \in [Key -> Content]
    /\ mStateObjectChanges \in Seq(ChangeOf) /\ Len(mStateObjectChanges) <= MaxBatch
    /\ mChangeCache \in [1 .. MaxState -> Seq(ChangeOf)]
    /\ indexDisk \in [Index -> File]
    /\ index \in [Index -> File]
    /\ indexWork \in [Index -> SUBSET (FieldValue \X Key)]
    /\ mBdbTransactions \subseteq mIndexes /\ stuck \subseteq mIndexes
    /\ mIndexes \subseteq Index
    /\ snapshot \in [0 .. MaxState -> [Key -> Content]]
    /\ spoiled \subseteq Index \cup {"cache"}

\* Between two write transactions every index of an open table holds exactly
\* the entries of the table's objects, whatever was synced, lost and reopened
\* before: what queries sorted by the index rely on.  addIndex(), whose test
\* of the tag decides whether an index is rebuilt, commit() and abort() keep it.
\* An index whose own commit has failed is excepted while its transaction is
\* open: a crash brings it back, since its file still has the old tag.
IndexesAgree ==
    up = "open" /\ ~writing =>
        \A i \in mIndexes \ (spoiled \cup stuck) : index[i].keys = Entries(i, table.objects)

\* commit() stores one old object per uuid and state, so a uuid that one
\* transaction writes twice is left out of what follows.
WrittenOnce(key, n) ==
    \A m \in n + 1 .. mStateNumber :
        LET actions == table.log[m].actions IN
        \A i, j \in DOMAIN actions :
            actions[i].key = key /\ actions[j].key = key => i = j

\* changesSince(n) bridges the states: with no answer for a uuid its object is
\* the one of state n, and an answer tells the object of state n and that of
\* now, whether the changes came from the log or from the cache, and whatever
\* was pruned, flushed or lost in between.
ChangesBridge ==
    up = "open" /\ ~writing /\ "cache" \notin spoiled =>
        \A key \in Key, n \in 0 .. mStateNumber : WrittenOnce(key, n) =>
            LET then == Visible(snapshot[n][key])
                now == Visible(table.objects[key])
                answer == Answer(key, n)
            IN /\ answer = {} => then = now
               /\ \A change \in answer : change.old = then /\ Visible(change.new) = now
=============================================================================
