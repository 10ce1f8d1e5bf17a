----------------------- MODULE JsonDbObjectTableProofs ----------------------
(***************************************************************************)
(* Proofs about JsonDbObjectTable: whatever is synced, lost and reopened,  *)
(* the indexes of an open table hold the entries of its objects, and       *)
(* changesSince() leads from the objects of an earlier state to those of   *)
(* now, from the log and from its cache.                                   *)
(***************************************************************************)
EXTENDS JsonDbObjectTable, SequenceFacts

\* The null that reindexObjects() leaves out.
NoNulls == \A i \in Index, v \in Value \cup {Definition} : Field(i, v) # Null

Objects == {all \in [Key -> {Absent, Deleted, Definition} \cup Value] :
               \A i \in UserIndex : all[i] \in {Absent, Deleted, Definition}}

\* The states the table has gone through; the last one is that of every number
\* from its tag on.
States ==
    /\ snapshot \in [0 .. MaxState -> Objects]
    /\ tableDisk.tag \in 1 .. MaxState
    /\ tableDisk.objects = snapshot[tableDisk.tag]
    /\ up # "down" =>
          /\ table.tag \in 1 .. mStateNumber
          /\ mStateNumber \in 1 .. MaxState
          /\ tableDisk.tag <= table.tag
          /\ \A n \in table.tag .. MaxState : snapshot[n] = table.objects
    /\ up = "opening" => table = tableDisk /\ mStateNumber = tableDisk.tag

\* A transaction is one of an open table.
Transactions ==
    /\ up \in {"down", "opening", "open"}
    /\ writing \in BOOLEAN
    /\ writing => up = "open"
    /\ mIndexes \subseteq Index
    /\ up = "down" => mIndexes = {}
    /\ mBdbTransactions \subseteq mIndexes
    /\ stuck \subseteq mIndexes /\ stuck \cap mBdbTransactions = {}
    /\ work \in Objects
    /\ mStateObjectChanges \in Seq(ChangeOf)
    /\ index \in [Index -> File] /\ indexDisk \in [Index -> File]
    /\ indexWork \in [Index -> SUBSET (FieldValue \X Key)]
    /\ ~writing =>
          /\ mBdbTransactions = {} /\ mStateObjectChanges = <<>>
          /\ up # "down" => work = table.objects

\* What a transaction has changed.
Changes ==
    writing =>
        \A key \in Key : work[key] # table.objects[key] =>
            \E c \in DOMAIN mStateObjectChanges : mStateObjectChanges[c].key = key

\* The table has the index of every Index object.
Defined ==
    /\ up = "opening" => mIndexes \subseteq Wanted
    /\ up = "open" =>
          /\ BuiltinIndex \subseteq mIndexes
          /\ \A i \in UserIndex \ spoiled : i \in mIndexes <=> Live(work[i])

\* Whether state n has the index.
IsOf(i, n) == i \in BuiltinIndex \/ Live(snapshot[n][i])

\* A file that has the tag of a state holds the entries of its objects.
IsOfItsTag(i, file) ==
    file.tag # 0 /\ IsOf(i, file.tag) => file.keys = Entries(i, snapshot[file.tag])

\* So do the indexes' files, except for those a crash has left behind.
Files ==
    \A i \in Index \ spoiled :
        up = "open" \/ indexDisk[i].tag <= tableDisk.tag => IsOfItsTag(i, indexDisk[i])

\* What the table reads and writes.
Entered ==
    \A i \in mIndexes \ spoiled :
        /\ index[i].tag \in 0 .. mStateNumber /\ indexDisk[i].tag \in 0 .. mStateNumber
        /\ IsOfItsTag(i, index[i])
        /\ i \notin stuck => Current(i) = Entries(i, work)

\* What abort() goes back to: an index that the transaction has not added.
Kept ==
    writing =>
        \A i \in mIndexes \ (spoiled \cup stuck) :
            i \notin Written \cap UserIndex => index[i].keys = Entries(i, table.objects)

IInv ==
    /\ States
    /\ Transactions
    /\ Changes
    /\ Defined
    /\ Files
    /\ Entered
    /\ Kept

-----------------------------------------------------------------------------
(***************************************************************************)
(* The entries of an index.                                                *)
(***************************************************************************)
LEMMA Names ==
    /\ UserIndex \cap Uuid = {} /\ UserIndex \cap BuiltinIndex = {}
    /\ ~Live(Absent) /\ ~Live(Deleted) /\ Live(Definition)
    /\ \A value \in Value : Live(value)
    /\ MaxState \in Nat /\ MaxState > 0
    /\ "cache" \notin Index
BY NamesAssumption DEF Live, Index

\* An entry ends with the uuid of its object.
LEMMA EntryHasKey ==
    ASSUME NEW i, NEW key, NEW object
    PROVE  \A entry \in Entry(i, key, object) : entry[2] = key
BY DEF Entry

\* Taking the old object from an index and putting the new one into it keeps the
\* index what the objects make of it.
LEMMA EntriesOfWrite ==
    ASSUME NEW i, NEW all \in Objects, NEW key \in Key, NEW new
    PROVE  Entries(i, [all EXCEPT ![key] = new])
               = (Entries(i, all) \ Entry(i, key, all[key])) \cup Entry(i, key, new)
<1> DEFINE after == [all EXCEPT ![key] = new]
<1>1. DOMAIN all = Key /\ DOMAIN after = Key
  BY DEF Objects
<1>2. after[key] = new /\ \A k \in Key \ {key} : after[k] = all[k]
  BY <1>1
<1>3. \A entry : entry \in Entries(i, all) <=> \E k \in Key : entry \in Entry(i, k, all[k])
  BY <1>1 DEF Entries
<1>4. \A entry : entry \in Entries(i, after) <=> \E k \in Key : entry \in Entry(i, k, after[k])
  <2> HIDE DEF after
  <2> QED  BY <1>1 DEF Entries
<1> HIDE DEF after
<1>5. ASSUME NEW entry
      PROVE  entry \in Entries(i, after)
                 <=> entry \in (Entries(i, all) \ Entry(i, key, all[key])) \cup Entry(i, key, new)
  BY <1>2, <1>3, <1>4, EntryHasKey
<1> QED  BY <1>5 DEF after

\* Without nulls an index is rebuilt to what it would have become.
LEMMA RebuiltIsEntries ==
    ASSUME NoNulls, NEW i \in Index, NEW all \in Objects
    PROVE  Rebuilt(i, all) = Entries(i, all)
<1> SUFFICES ASSUME NEW key \in Key, NEW entry \in Entry(i, key, all[key])
             PROVE  entry[1] # Null
  BY DEF Rebuilt, Entries, Objects
<1>1. all[key] \in Value \cup {Definition}
  BY DEF Objects, Entry, Live
<1> QED  BY <1>1 DEF NoNulls, Entry

LEMMA ObjectsAreContents == Objects \subseteq [Key -> Content]
BY DEF Objects, Content

LEMMA EntriesTyped ==
    ASSUME NEW i \in Index, NEW all \in [Key -> Content]
    PROVE  Entries(i, all) \in SUBSET (FieldValue \X Key)
<1> SUFFICES ASSUME NEW key \in Key, NEW entry \in Entry(i, key, all[key])
             PROVE  entry \in FieldValue \X Key
  BY DEF Entries
<1>1. all[key] \in Content \ {Absent, Deleted}
  BY DEF Entry, Live
<1> QED  BY <1>1 DEF FieldValue, Entry

LEMMA RebuiltTyped ==
    ASSUME NEW i \in Index, NEW all \in [Key -> Content]
    PROVE  Rebuilt(i, all) \in SUBSET (FieldValue \X Key)
BY EntriesTyped DEF Rebuilt

LEMMA NoFileTyped == NoFile \in File
BY Names DEF NoFile, File

LEMMA ObjectsTyped ==
    /\ NoObjects \in Objects
    /\ \A new : \A all \in Objects, key \in Key :
          (key \in UserIndex /\ new \in {Definition, Deleted})
          \/ (key \in Uuid /\ new \in Value \cup {Deleted})
              => [all EXCEPT ![key] = new] \in Objects
BY Names DEF Objects, NoObjects, Key

-----------------------------------------------------------------------------
(***************************************************************************)
(* The invariant holds in the beginning, and every step keeps it.          *)
(***************************************************************************)
LEMMA InitIsInvariant == Init => IInv
<1> SUFFICES ASSUME Init PROVE IInv
  OBVIOUS
<1> USE Names, NoFileTyped, ObjectsTyped
<1>1. States
  BY DEF Init, States
<1>2. Transactions
  <2>1. index \in [Index -> File] /\ indexDisk \in [Index -> File] /\ work \in Objects
    BY DEF Init
  <2>2. indexWork \in [Index -> SUBSET (FieldValue \X Key)]
    BY DEF Init
  <2>3. mStateObjectChanges \in Seq(ChangeOf)
    BY DEF Init
  <2>4. /\ mIndexes = {} /\ mBdbTransactions = {} /\ stuck = {} /\ writing = FALSE /\ up = "opening"
        /\ mStateObjectChanges = <<>> /\ work = table.objects
    BY DEF Init
  <2> QED  BY <2>1, <2>2, <2>3, <2>4 DEF Transactions
<1>3. Changes /\ Defined
  BY DEF Init, Changes, Defined
<1>4. Files
  BY DEF Init, Files, IsOfItsTag, NoFile
<1>5. Entered /\ Kept
  BY DEF Init, Entered, Kept
<1> QED  BY <1>1, <1>2, <1>3, <1>4, <1>5 DEF IInv

LEMMA OpenKeeps ==
    ASSUME IInv, Open
    PROVE  IInv'
<1> USE Names DEF IInv, Open, indexVars
<1>1. snapshot' \in [0 .. MaxState -> Objects] /\ tableDisk.objects \in Objects
  BY DEF States
<1>2. \A n \in 0 .. MaxState :
         snapshot'[n] = IF n <= tableDisk.tag THEN snapshot[n] ELSE tableDisk.objects
  BY DEF States
<1>3. States'
  BY <1>1, <1>2 DEF States
<1>4. Transactions'
  BY <1>1 DEF Transactions
<1>5. Changes' /\ Defined'
  BY DEF Changes, Defined, Transactions
<1>6. Files'
  <2> SUFFICES ASSUME NEW i \in Index \ spoiled', indexDisk'[i].tag <= tableDisk.tag
               PROVE  IsOfItsTag(i, indexDisk[i])'
    BY DEF Files
  <2>1. i \in Index \ spoiled
    OBVIOUS
  <2>2. indexDisk[i] \in File /\ indexDisk[i].tag \in 0 .. MaxState
    BY DEF Transactions, File
  <2>3. IsOfItsTag(i, indexDisk[i]) /\ snapshot'[indexDisk[i].tag] = snapshot[indexDisk[i].tag]
    BY <1>2, <2>1, <2>2 DEF Files
  <2> QED  BY <2>3 DEF IsOfItsTag, IsOf
<1>7. Entered' /\ Kept'
  BY DEF Entered, Transactions, Kept
<1> QED  BY <1>3, <1>4, <1>5, <1>6, <1>7

\* The index that is added, if the file is one of its tag or the tag another.
LEMMA OpenIndexKeeps ==
    ASSUME NoNulls, IInv, NEW i \in Index, OpenIndex(i)
    PROVE  IInv'
<1> USE Names DEF IInv, OpenIndex, addIndex, tableVars
<1> DEFINE file == Added(i, indexDisk[i], table.objects)
<1>1. table = tableDisk /\ mStateNumber = tableDisk.tag /\ mStateNumber \in 1 .. MaxState
      /\ table.objects = snapshot[mStateNumber] /\ table.objects \in Objects /\ ~writing
      /\ mBdbTransactions = {} /\ work = table.objects
  BY DEF States, Transactions
<1>2. indexDisk[i] \in File /\ Rebuilt(i, table.objects) = Entries(i, table.objects)
      /\ Rebuilt(i, table.objects) \in SUBSET (FieldValue \X Key)
  BY <1>1, ObjectsAreContents, RebuiltTyped, RebuiltIsEntries DEF Transactions
<1>3. file \in File
  BY <1>1, <1>2 DEF Added, File
<1>4. i \notin spoiled' => file.keys = Entries(i, table.objects) /\ file.tag = mStateNumber
  <2>1. CASE indexDisk[i].tag # mStateNumber
    BY <1>1, <1>2, <2>1 DEF Added
  <2>2. CASE indexDisk[i].tag = mStateNumber
    <3>1. IsOf(i, mStateNumber)
      BY <1>1 DEF IsOf, Wanted
    <3>2. file = indexDisk[i] /\ spoiled' = spoiled
      BY <2>2 DEF Added
    <3>3. i \notin spoiled => IsOfItsTag(i, indexDisk[i])
      BY <1>1, <2>2 DEF Files
    <3> QED  BY <1>1, <2>2, <3>1, <3>2, <3>3 DEF IsOfItsTag
  <2> QED  BY <2>1, <2>2
<1>5. index' = [index EXCEPT ![i] = file] /\ indexDisk' = [indexDisk EXCEPT ![i] = file]
      /\ index \in [Index -> File] /\ indexDisk \in [Index -> File]
  BY DEF Transactions
<1>6. spoiled' \subseteq spoiled /\ spoiled \subseteq spoiled' \cup {i}
  OBVIOUS
<1> HIDE DEF file
<1>7. States' /\ Changes'
  BY <1>1 DEF States, Changes
<1>8. Transactions'
  BY <1>1, <1>3, <1>5 DEF Transactions
<1>9. Defined'
  BY DEF Defined, Wanted
<1>10. Files'
  <2> SUFFICES ASSUME NEW j \in Index \ spoiled', indexDisk'[j].tag <= tableDisk.tag
               PROVE  IsOfItsTag(j, indexDisk[j])'
    BY DEF Files
  <2>1. CASE j = i
    BY <1>1, <1>4, <1>5, <2>1 DEF IsOfItsTag
  <2>2. CASE j # i
    <3>1. j \notin spoiled /\ indexDisk'[j] = indexDisk[j]
      BY <1>5, <1>6, <2>2
    <3> QED  BY <3>1 DEF Files, IsOfItsTag, IsOf
  <2> QED  BY <2>1, <2>2
<1>11. Entered'
  <2> SUFFICES ASSUME NEW j \in mIndexes' \ spoiled'
               PROVE  /\ index'[j].tag \in 0 .. mStateNumber' /\ indexDisk'[j].tag \in 0 .. mStateNumber'
                      /\ IsOfItsTag(j, index[j])'
                      /\ j \notin stuck => Current(j)' = Entries(j, work)'
    BY DEF Entered
  <2>0. j \in Index
    BY DEF Transactions
  <2>1. CASE j = i
    BY <1>1, <1>4, <1>5, <2>1, SMTT(30) DEF IsOfItsTag, Current, Entries, Entry
  <2>2. CASE j # i
    <3>1. j \in mIndexes \ spoiled /\ indexDisk'[j] = indexDisk[j] /\ index'[j] = index[j]
      BY <1>5, <1>6, <2>0, <2>2
    <3> QED  BY <3>1 DEF Entered, IsOfItsTag, IsOf, Current, Entries, Entry, Live
  <2> QED  BY <2>1, <2>2
<1>12. Kept'
  BY <1>1 DEF Kept
<1> QED  BY <1>7, <1>8, <1>9, <1>10, <1>11, <1>12

LEMMA OpenedKeeps ==
    ASSUME IInv, Opened
    PROVE  IInv'
<1> USE Names DEF IInv, Opened, tableVars, indexVars
<1>1. States' /\ Transactions' /\ Changes'
  BY DEF States, Transactions, Changes
<1>2. work = table.objects /\ mIndexes = Wanted /\ ~writing
  BY DEF Transactions, Defined
<1>3. Defined'
  BY <1>2 DEF Defined, Wanted
<1>4. Files'
  <2> SUFFICES ASSUME NEW i \in Index \ spoiled
               PROVE  IsOfItsTag(i, indexDisk[i])
    BY DEF Files, IsOfItsTag, IsOf
  <2>0. indexDisk[i] \in File /\ indexDisk[i].tag \in 0 .. MaxState
    BY DEF Transactions, File
  <2>1. CASE indexDisk[i].tag <= tableDisk.tag
    BY <2>1 DEF Files
  <2>2. CASE indexDisk[i].tag > tableDisk.tag
    <3>1. i \notin mIndexes
      BY <2>0, <2>2 DEF Entered, States
    <3>2. i \notin BuiltinIndex /\ ~Live(table.objects[i])
      BY <1>2, <3>1 DEF Wanted, Index
    <3>3. snapshot[indexDisk[i].tag] = table.objects
      BY <2>0, <2>2 DEF States
    <3> QED  BY <3>2, <3>3 DEF IsOfItsTag, IsOf
  <2> QED  BY <2>0, <2>1, <2>2 DEF States
<1>5. Entered' /\ Kept'
  BY <1>2 DEF Entered, Kept, IsOfItsTag, IsOf, Current, Entries
<1> QED  BY <1>1, <1>3, <1>4, <1>5

LEMMA BeginKeeps ==
    ASSUME IInv, begin
    PROVE  IInv'
<1> USE Names DEF IInv, begin, indexVars
<1>1. States' /\ Transactions'
  BY DEF States, Transactions
<1>2. Changes' /\ Defined'
  BY DEF Transactions, Changes, Defined, Wanted
<1>3. Files' /\ Entered'
  BY DEF Files, Entered, IsOfItsTag, IsOf, Current, Entries, Entry, Live
<1>4. Kept'
  <2> SUFFICES ASSUME NEW i \in mIndexes \ (spoiled \cup stuck)
               PROVE  index[i].keys = Entries(i, table.objects)
    BY DEF Kept, Entries, Entry, Live
  <2> QED  BY DEF Entered, Transactions, Current
<1> QED  BY <1>1, <1>2, <1>3, <1>4

\* An object is written into every index but the one it defines.
LEMMA WriteReindexes ==
    ASSUME IInv, NEW key \in Key, NEW new, WriteObject(key, new),
           NEW j \in mIndexes \ (spoiled \cup stuck)
    PROVE  (IF j \in mBdbTransactions \cup Touched(key, work[key], new)
            THEN indexWork'[j] ELSE index[j].keys) = Entries(j, work')
<1>1. j \in Index /\ work \in Objects /\ Current(j) = Entries(j, work)
  BY DEF IInv, Transactions, Entered
<1>2. Entries(j, work') = (Entries(j, work) \ Entry(j, key, work[key])) \cup Entry(j, key, new)
  <2>1. Entries(j, [work EXCEPT ![key] = new])
            = (Entries(j, work) \ Entry(j, key, work[key])) \cup Entry(j, key, new)
    BY <1>1, EntriesOfWrite
  <2> QED  BY <2>1 DEF WriteObject
<1>3. CASE j \in Touched(key, work[key], new)
  BY <1>1, <1>2, <1>3 DEF WriteObject, Reindexed
<1>4. CASE j \notin Touched(key, work[key], new)
  <2>1. Entry(j, key, work[key]) = {} /\ Entry(j, key, new) = {}
    BY <1>4 DEF Touched
  <2>2. indexWork'[j] = indexWork[j]
    BY <1>1, <1>4 DEF WriteObject, Reindexed
  <2> QED  BY <1>1, <1>2, <1>4, <2>1, <2>2 DEF Current
<1> QED  BY <1>3, <1>4

LEMMA WriteTyped ==
    ASSUME IInv, writing, NEW key \in Key, NEW new, WriteObject(key, new),
           (key \in UserIndex /\ new \in {Definition, Deleted})
           \/ (key \in Uuid /\ new \in Value \cup {Deleted})
    PROVE  /\ work \in Objects /\ work' \in Objects
           /\ work'[key] = new /\ \A k \in Key \ {key} : work'[k] = work[k]
           /\ indexWork' \in [Index -> SUBSET (FieldValue \X Key)]
           /\ mStateObjectChanges' \in Seq(ChangeOf)
           /\ Written' = Written \cup {key}
           /\ UNCHANGED <<writing, table>> => Changes'
<1>1. work \in Objects /\ work' \in Objects
  BY ObjectsTyped DEF IInv, Transactions, WriteObject
<1>2. work'[key] = new /\ \A k \in Key \ {key} : work'[k] = work[k]
  BY <1>1 DEF WriteObject, Objects
<1>3. ASSUME NEW j \in Index
      PROVE  Entry(j, key, new) \in SUBSET (FieldValue \X Key)
  BY Names DEF Entry, FieldValue, Content, Live
<1>4. \A j \in Index : Current(j) \in SUBSET (FieldValue \X Key)
  BY DEF IInv, Transactions, Current, File
<1>5. indexWork' \in [Index -> SUBSET (FieldValue \X Key)]
  BY <1>3, <1>4 DEF IInv, Transactions, WriteObject, Reindexed
<1>6. ASSUME UNCHANGED <<writing, table>> PROVE Changes'
  <2> DEFINE change == Change(key, Visible(work[key]), new, ActionOf(work[key], new))
  <2>1. mStateObjectChanges' = Append(mStateObjectChanges, change) /\ change.key = key
    BY DEF WriteObject, Change
  <2> HIDE DEF change
  <2>2. mStateObjectChanges \in Seq(ChangeOf)
    BY DEF IInv, Transactions
  <2>3. /\ DOMAIN mStateObjectChanges' = 1 .. Len(mStateObjectChanges) + 1
        /\ mStateObjectChanges'[Len(mStateObjectChanges) + 1] = change
        /\ \A c \in DOMAIN mStateObjectChanges :
              c \in DOMAIN mStateObjectChanges' /\ mStateObjectChanges'[c] = mStateObjectChanges[c]
    BY <2>1, <2>2
  <2>4. Len(mStateObjectChanges) \in Nat
    BY <2>2
  <2> SUFFICES ASSUME NEW k \in Key, work'[k] # table.objects[k]
               PROVE  \E c \in DOMAIN mStateObjectChanges' : mStateObjectChanges'[c].key = k
    BY <1>6 DEF Changes
  <2>5. CASE k = key
    BY <2>1, <2>3, <2>4, <2>5
  <2>6. CASE k # key
    BY <1>2, <2>3, <2>6 DEF IInv, Changes
  <2> QED  BY <2>5, <2>6
<1>7. mStateObjectChanges' \in Seq(ChangeOf)
  <2>1. Change(key, Visible(work[key]), new, ActionOf(work[key], new)) \in ChangeOf
    BY <1>1 DEF Change, ChangeOf, Visible, ActionOf, Action, Content, Objects
  <2> QED  BY <2>1 DEF IInv, Transactions, WriteObject
<1>8. Written' = Written \cup {key}
  <2> DEFINE change == Change(key, Visible(work[key]), new, ActionOf(work[key], new))
  <2>1. mStateObjectChanges' = Append(mStateObjectChanges, change) /\ change.key = key
    BY DEF WriteObject, Change
  <2> HIDE DEF change
  <2>2. mStateObjectChanges \in Seq(ChangeOf) /\ Len(mStateObjectChanges) \in Nat
    BY DEF IInv, Transactions
  <2>3. /\ DOMAIN mStateObjectChanges' = DOMAIN mStateObjectChanges
                                              \cup {Len(mStateObjectChanges) + 1}
        /\ mStateObjectChanges'[Len(mStateObjectChanges) + 1] = change
        /\ \A c \in DOMAIN mStateObjectChanges :
              mStateObjectChanges'[c] = mStateObjectChanges[c]
    BY <2>1, <2>2
  <2> QED  BY <2>1, <2>3 DEF Written
<1> QED  BY <1>1, <1>2, <1>5, <1>6, <1>7, <1>8

LEMMA WriteKeeps ==
    ASSUME IInv, NEW key \in Uuid, NEW new \in Value \cup {Deleted}, Write(key, new)
    PROVE  IInv'
<1> USE Names DEF IInv, Write
<1>1. key \in Key /\ key \notin UserIndex
  BY DEF Key
<1>2. /\ work' \in Objects /\ work'[key] = new /\ \A k \in Key \ {key} : work'[k] = work[k]
      /\ indexWork' \in [Index -> SUBSET (FieldValue \X Key)]
      /\ mStateObjectChanges' \in Seq(ChangeOf) /\ Changes' /\ Written \subseteq Written'
  BY <1>1, WriteTyped
<1>3. Touched(key, work[key], new) \subseteq mIndexes
  BY DEF Touched
<1>4. States'
  BY DEF States
<1>5. Transactions'
  BY <1>2, <1>3 DEF Transactions
<1>6. Defined'
  BY <1>1, <1>2 DEF Defined, Key, Transactions
<1>7. Files'
  BY DEF Files, IsOfItsTag, IsOf
<1>8. Entered'
  <2> SUFFICES ASSUME NEW j \in mIndexes \ spoiled
               PROVE  /\ index[j].tag \in 0 .. mStateNumber /\ indexDisk[j].tag \in 0 .. mStateNumber
                      /\ IsOfItsTag(j, index[j])'
                      /\ j \notin stuck => Current(j)' = Entries(j, work')
    BY DEF Entered
  <2>1. j \notin stuck => Current(j)' = Entries(j, work')
    BY <1>1, WriteReindexes DEF Current
  <2> QED  BY <2>1 DEF Entered, IsOfItsTag, IsOf
<1>9. Kept'
  BY <1>2 DEF Kept, Entries, Entry, Live
<1> QED  BY <1>2, <1>4, <1>5, <1>6, <1>7, <1>8, <1>9

\* The file of an index that is added has the tag zero.
LEMMA WriteIndexObjectKeeps ==
    ASSUME NoNulls, FreshFiles = TRUE, IInv,
           NEW i \in UserIndex, NEW new \in {Definition, Deleted}, WriteIndexObject(i, new)
    PROVE  IInv'
<1> USE Names DEF IInv, WriteIndexObject
<1> DEFINE replaced == Live(work[i]) /\ i \in mIndexes
           file == IF replaced THEN NoFile ELSE indexDisk[i]
           others == IF replaced THEN mIndexes \ {i} ELSE mIndexes
           added == Live(new) /\ i \notin others
<1>1. i \in Key /\ i \in Index /\ up = "open" /\ writing
  BY DEF Key, Index, Transactions
<1>2. /\ work \in Objects /\ work' \in Objects
      /\ work'[i] = new /\ \A k \in Key \ {i} : work'[k] = work[k]
      /\ indexWork' \in [Index -> SUBSET (FieldValue \X Key)]
      /\ mStateObjectChanges' \in Seq(ChangeOf) /\ Changes' /\ Written' = Written \cup {i}
  BY <1>1, WriteTyped
<1>3. Touched(i, work[i], new) \subseteq mIndexes
  BY DEF Touched
<1>4. /\ index \in [Index -> File] /\ indexDisk \in [Index -> File]
      /\ mStateNumber \in 1 .. MaxState /\ table.tag \in 1 .. mStateNumber
      /\ \A n \in table.tag .. MaxState : snapshot[n] = table.objects
  BY <1>1 DEF States, Transactions
<1>5. mIndexes' = IF added THEN others \cup {i} ELSE others
  OBVIOUS
<1>6. spoiled' = IF added THEN spoiled \ {i} ELSE spoiled
  OBVIOUS
<1>7. /\ mBdbTransactions' = (mBdbTransactions \cup (Touched(i, work[i], new) \ stuck))
                                  \ (IF replaced THEN {i} ELSE {})
      /\ stuck' = stuck /\ stuck \subseteq mIndexes /\ (replaced => i \notin stuck)
      /\ (i \notin others => i \notin stuck)
  BY DEF Transactions
<1>8. CASE added
  <2>1. file.tag = 0
    BY <1>8
  <2>2. i \notin mBdbTransactions'
    BY <1>3, <1>7, <1>8 DEF Transactions
  <2> DEFINE fresh == [keys |-> Rebuilt(i, work'), tag |-> mStateNumber]
  <2>3. index' = [index EXCEPT ![i] = fresh] /\ indexDisk' = [indexDisk EXCEPT ![i] = fresh]
    BY <1>4, <1>8, <2>1 DEF addIndex, Added
  <2>4. fresh \in File /\ fresh.keys = Entries(i, work')
    <3>1. work' \in [Key -> Content]
      BY <1>2, ObjectsAreContents
    <3>2. Rebuilt(i, work') \in SUBSET (FieldValue \X Key)
      BY <1>1, <3>1, RebuiltTyped
    <3> QED  BY <1>1, <1>2, <1>4, <3>2, RebuiltIsEntries DEF File
  <2>5. fresh.tag = mStateNumber
    OBVIOUS
  <2> HIDE DEF fresh
  <2>6. Live(table.objects[i]) => work' = table.objects
    <3> SUFFICES ASSUME Live(table.objects[i]) PROVE work' = table.objects
      OBVIOUS
    <3>1. new = Definition /\ table.objects \in Objects
      BY <1>4, <1>8 DEF States
    <3>2. table.objects[i] = Definition
      BY <3>1 DEF Objects, Live
    <3>3. \A c \in DOMAIN mStateObjectChanges : mStateObjectChanges[c].key = i
      BY <1>8
    <3>4. \A k \in Key \ {i} : work[k] = table.objects[k]
      BY <1>1, <3>3 DEF Changes
    <3> QED  BY <1>1, <1>2, <3>1, <3>2, <3>4 DEF Objects
  <2>7. IsOfItsTag(i, index[i])' /\ IsOfItsTag(i, indexDisk[i])'
    <3>1. index'[i] = fresh /\ indexDisk'[i] = fresh
      BY <1>1, <1>4, <2>3
    <3>2. snapshot'[fresh.tag] = table.objects
      BY <1>4, <2>5
    <3>3. i \notin BuiltinIndex
      OBVIOUS
    <3>4. Live(table.objects[i]) => fresh.keys = Entries(i, table.objects)
      BY <2>4, <2>6
    <3> QED  BY <3>1, <3>2, <3>3, <3>4 DEF IsOfItsTag, IsOf
  <2>8. States'
    BY DEF States
  <2>9. Transactions'
    BY <1>1, <1>2, <1>3, <1>5, <1>7, <1>8, <2>2, <2>3, <2>4 DEF Transactions
  <2>10. Defined'
    BY <1>1, <1>2, <1>5, <1>6, <1>8 DEF Defined, Key, Transactions
  <2>11. Files'
    <3> SUFFICES ASSUME NEW j \in Index \ spoiled'
                 PROVE  IsOfItsTag(j, indexDisk[j])'
      BY DEF Files
    <3>1. CASE j = i
      BY <2>7, <3>1
    <3>2. CASE j # i
      <4>1. j \notin spoiled /\ indexDisk'[j] = indexDisk[j]
        BY <1>4, <1>6, <2>3, <3>2
      <4> QED  BY <1>1, <4>1 DEF Files, IsOfItsTag, IsOf
    <3> QED  BY <3>1, <3>2
  <2>12. Entered'
    <3> SUFFICES ASSUME NEW j \in mIndexes' \ spoiled'
                 PROVE  /\ index'[j].tag \in 0 .. mStateNumber
                        /\ indexDisk'[j].tag \in 0 .. mStateNumber
                        /\ IsOfItsTag(j, index[j])'
                        /\ j \notin stuck => Current(j)' = Entries(j, work')
      BY <1>7 DEF Entered
    <3>1. CASE j = i
      <4>1. index'[i] = fresh /\ indexDisk'[i] = fresh
        BY <1>1, <1>4, <2>3
      <4> QED  BY <1>4, <1>7, <1>8, <2>2, <2>4, <2>5, <2>7, <3>1, <4>1 DEF Current
    <3>2. CASE j # i
      <4>1. j \in mIndexes \ spoiled /\ j \in Index
        BY <1>5, <1>6, <1>8, <3>2 DEF Transactions
      <4>2. index'[j] = index[j] /\ indexDisk'[j] = indexDisk[j]
        BY <1>4, <2>3, <3>2, <4>1
      <4>3. j \notin stuck => Current(j)' = Entries(j, work')
        BY <1>1, <1>7, <3>2, <4>1, <4>2, WriteReindexes DEF Current
      <4> QED  BY <4>1, <4>2, <4>3 DEF Entered, IsOfItsTag, IsOf
    <3> QED  BY <3>1, <3>2
  <2>13. Kept'
    <3> SUFFICES ASSUME NEW j \in mIndexes' \ (spoiled' \cup stuck'), j \notin Written' \cap UserIndex
                 PROVE  index'[j].keys = Entries(j, table.objects)
      BY DEF Kept, Entries, Entry, Live
    <3>1. j # i /\ j \notin Written \cap UserIndex
      BY <1>2
    <3>2. j \in mIndexes \ (spoiled \cup stuck) /\ j \in Index
      BY <1>5, <1>6, <1>7, <1>8, <3>1 DEF Transactions
    <3>3. index'[j] = index[j]
      BY <1>4, <2>3, <3>1, <3>2
    <3> QED  BY <1>1, <3>1, <3>2, <3>3 DEF Kept
  <2> QED  BY <1>2, <2>8, <2>9, <2>10, <2>11, <2>12, <2>13
<1>9. CASE ~added
  <2>1. /\ index' = IF replaced THEN [index EXCEPT ![i] = NoFile] ELSE index
        /\ indexDisk' = IF replaced THEN [indexDisk EXCEPT ![i] = NoFile] ELSE indexDisk
    BY <1>9 DEF removeIndex
  <2>2. spoiled' = spoiled /\ mIndexes' = others
    BY <1>5, <1>6, <1>9
  <2>3. i \notin spoiled => i \notin mIndexes' /\ ~Live(new)
    BY <1>1, <1>9, <2>2 DEF Defined
  <2>4. States'
    BY DEF States
  <2>5. Transactions'
    BY <1>1, <1>2, <1>3, <1>7, <2>1, <2>2, NoFileTyped DEF Transactions
  <2>6. Defined'
    BY <1>1, <1>2, <2>2, <2>3 DEF Defined, Key, Transactions
  <2>7. Files'
    <3> SUFFICES ASSUME NEW j \in Index \ spoiled
                 PROVE  IsOfItsTag(j, indexDisk[j])'
      BY <2>2 DEF Files
    <3>1. CASE j = i /\ replaced
      BY <1>1, <1>4, <2>1, <3>1 DEF IsOfItsTag, NoFile
    <3>2. CASE ~(j = i /\ replaced)
      <4>1. indexDisk'[j] = indexDisk[j]
        BY <1>4, <2>1, <3>2
      <4> QED  BY <1>1, <4>1 DEF Files, IsOfItsTag, IsOf
    <3> QED  BY <3>1, <3>2
  <2>8. Entered'
    <3> SUFFICES ASSUME NEW j \in mIndexes' \ spoiled
                 PROVE  /\ index'[j].tag \in 0 .. mStateNumber
                        /\ indexDisk'[j].tag \in 0 .. mStateNumber
                        /\ IsOfItsTag(j, index[j])'
                        /\ j \notin stuck => Current(j)' = Entries(j, work')
      BY <1>7, <2>2 DEF Entered
    <3>1. j # i /\ j \in mIndexes \ spoiled /\ j \in Index
      BY <2>2, <2>3 DEF Transactions
    <3>2. index'[j] = index[j] /\ indexDisk'[j] = indexDisk[j]
      BY <1>4, <2>1, <3>1
    <3>3. j \notin stuck => Current(j)' = Entries(j, work')
      BY <1>1, <1>7, <3>1, <3>2, WriteReindexes DEF Current
    <3> QED  BY <3>1, <3>2, <3>3 DEF Entered, IsOfItsTag, IsOf
  <2>9. Kept'
    <3> SUFFICES ASSUME NEW j \in mIndexes' \ (spoiled \cup stuck), j \notin Written' \cap UserIndex
                 PROVE  index'[j].keys = Entries(j, table.objects)
      BY <1>7, <2>2 DEF Kept, Entries, Entry, Live
    <3>1. j # i /\ j \in mIndexes /\ j \in Index /\ j \notin Written \cap UserIndex
      BY <1>2, <2>2 DEF Transactions
    <3>2. index'[j] = index[j]
      BY <1>4, <2>1, <3>1
    <3> QED  BY <1>1, <3>1, <3>2 DEF Kept
  <2> QED  BY <1>2, <2>4, <2>5, <2>6, <2>7, <2>8, <2>9
<1> QED  BY <1>8, <1>9

\* What both kinds of commit make of the indexes.
LEMMA CommittedTyped ==
    ASSUME IInv, NEW n \in 1 .. MaxState, NEW failed
    PROVE  /\ CommittedIndexes(n, failed) \in [Index -> File]
           /\ \A i \in Index : CommittedIndexes(n, failed)[i] =
                 IF i \in mBdbTransactions \ failed
                 THEN [keys |-> indexWork[i], tag |-> n] ELSE index[i]
           /\ <<>> \in Seq(ChangeOf)
           /\ \A left : [i \in Index |-> IF i \in left THEN indexWork[i] ELSE {}]
                             \in [Index -> SUBSET (FieldValue \X Key)]
BY Names DEF IInv, Transactions, CommittedIndexes, File

LEMMA CommitKeeps ==
    ASSUME IInv, NEW n \in 1 .. MaxState, NEW failed \in SUBSET mBdbTransactions,
           commit(n, failed)
    PROVE  IInv'
<1> USE Names DEF IInv, commit, EndTransaction
<1>1. up = "open" /\ mStateNumber \in 1 .. MaxState /\ table.tag \in 1 .. mStateNumber
      /\ tableDisk.tag \in 1 .. table.tag /\ work \in Objects /\ n > mStateNumber
  BY DEF States, Transactions
<1>2. snapshot' \in [0 .. MaxState -> Objects]
      /\ \A m \in 0 .. MaxState : snapshot'[m] = IF m < n THEN snapshot[m] ELSE work
  BY <1>1 DEF States
<1>3. /\ index' \in [Index -> File]
      /\ \A i \in Index : index'[i] =
            IF i \in mBdbTransactions \ failed
            THEN [keys |-> indexWork[i], tag |-> n] ELSE index[i]
      /\ indexWork' \in [Index -> SUBSET (FieldValue \X Key)]
      /\ mStateObjectChanges' \in Seq(ChangeOf)
  BY CommittedTyped
<1>4. States'
  BY <1>1, <1>2 DEF States
<1>5. Transactions'
  BY <1>1, <1>3 DEF Transactions
<1>6. Changes' /\ Defined' /\ Kept'
  BY <1>1 DEF Changes, Defined, Kept
<1>7. Files'
  <2> SUFFICES ASSUME NEW i \in Index \ spoiled
               PROVE  IsOfItsTag(i, indexDisk[i])'
    BY DEF Files
  <2>0. indexDisk[i] \in File /\ indexDisk[i].tag \in 0 .. MaxState
    BY DEF Transactions, File
  <2>1. CASE indexDisk[i].tag < n
    <3>1. IsOfItsTag(i, indexDisk[i]) /\ snapshot'[indexDisk[i].tag] = snapshot[indexDisk[i].tag]
      BY <1>1, <1>2, <2>0, <2>1 DEF Files
    <3> QED  BY <3>1 DEF IsOfItsTag, IsOf
  <2>2. CASE indexDisk[i].tag >= n
    <3>1. i \notin mIndexes
      BY <1>1, <2>0, <2>2 DEF Entered
    <3>2. i \notin BuiltinIndex /\ ~Live(work[i])
      BY <1>1, <3>1 DEF Defined, Index
    <3>3. snapshot'[indexDisk[i].tag] = work
      BY <1>1, <1>2, <2>0, <2>2
    <3> QED  BY <3>2, <3>3 DEF IsOfItsTag, IsOf
  <2> QED  BY <1>1, <2>0, <2>1, <2>2
<1>8. Entered'
  <2> SUFFICES ASSUME NEW i \in mIndexes \ spoiled
               PROVE  /\ index'[i].tag \in 0 .. n /\ indexDisk[i].tag \in 0 .. n
                      /\ IsOfItsTag(i, index[i])'
                      /\ i \notin stuck' => Current(i)' = Entries(i, work)
    BY DEF Entered, Entries, Entry, Live
  <2>0. i \in Index /\ (i \notin stuck => Current(i) = Entries(i, work))
        /\ index[i].tag \in 0 .. mStateNumber /\ indexDisk[i].tag \in 0 .. mStateNumber
        /\ IsOfItsTag(i, index[i])
    BY DEF Transactions, Entered
  <2>1. CASE i \in mBdbTransactions \ failed
    <3>1. i \notin stuck
      BY <2>1 DEF Transactions
    <3>2. index'[i].keys = Entries(i, work) /\ index'[i].tag = n /\ snapshot'[n] = work
      BY <1>1, <1>2, <1>3, <2>0, <2>1, <3>1 DEF Current
    <3> QED  BY <1>1, <2>0, <2>1, <3>1, <3>2 DEF IsOfItsTag, Current
  <2>2. CASE i \notin mBdbTransactions \ failed
    <3>1. index'[i] = index[i] /\ snapshot'[index[i].tag] = snapshot[index[i].tag]
      BY <1>1, <1>2, <1>3, <2>0, <2>2
    <3>2. i \notin stuck' => Current(i)' = Current(i)
      BY <2>2, <3>1 DEF Current
    <3> QED  BY <1>1, <2>0, <3>1, <3>2 DEF IsOfItsTag, IsOf
  <2> QED  BY <2>1, <2>2
<1> QED  BY <1>4, <1>5, <1>6, <1>7, <1>8

\* A commit that fails leaves every index behind: nothing is said about them.
LEMMA CommitFailsKeeps ==
    ASSUME IInv, NEW n \in 1 .. MaxState, NEW failed \in SUBSET mBdbTransactions,
           commitFails(n, failed)
    PROVE  IInv'
<1> USE Names DEF IInv, commitFails, EndTransaction
<1>1. up = "open" /\ mStateNumber \in 1 .. MaxState /\ table.tag \in 1 .. mStateNumber
      /\ table.objects \in Objects
  BY DEF States, Transactions
<1>2. States'
  BY <1>1 DEF States
<1>3. Transactions'
  BY <1>1, CommittedTyped DEF Transactions
<1>4. Changes' /\ Files' /\ Entered' /\ Kept'
  BY DEF Changes, Files, Entered, Kept, Transactions
<1>5. Defined'
  BY <1>1 DEF Defined, Index
<1> QED  BY <1>2, <1>3, <1>4, <1>5

\* An abort gives back the objects, and every index but those the transaction added
\* or removed.
LEMMA AbortKeeps ==
    ASSUME IInv, abort
    PROVE  IInv'
<1> USE Names DEF IInv, abort, EndTransaction
<1>1. up = "open" /\ writing /\ table.objects \in Objects
      /\ \A i \in UserIndex \ spoiled' : work[i] = table.objects[i]
  <2>1. up = "open" /\ writing /\ mStateNumber \in 1 .. MaxState /\ table.tag \in 1 .. mStateNumber
    BY DEF States, Transactions
  <2>2. table.objects \in Objects
    BY <2>1 DEF States
  <2>3. \A i \in UserIndex \ spoiled' : i \notin Written /\ i \in Key
    BY DEF Key
  <2> QED  BY <2>1, <2>2, <2>3 DEF Changes, Written
<1>2. States'
  BY DEF States
<1>3. <<>> \in Seq(ChangeOf)
      /\ [i \in Index |-> IF i \in stuck THEN indexWork[i] ELSE {}]
            \in [Index -> SUBSET (FieldValue \X Key)]
  BY DEF Transactions
<1>4. Transactions'
  BY <1>1, <1>3 DEF Transactions
<1>5. Changes' /\ Kept'
  BY DEF Changes, Kept
<1>6. Files'
  BY <1>1 DEF Files, IsOfItsTag, IsOf
<1>7. Defined'
  BY <1>1 DEF Defined
<1>8. Entered'
  <2> SUFFICES ASSUME NEW i \in mIndexes \ spoiled'
               PROVE  /\ index[i].tag \in 0 .. mStateNumber /\ indexDisk[i].tag \in 0 .. mStateNumber
                      /\ IsOfItsTag(i, index[i])'
                      /\ i \notin stuck => Current(i)' = Entries(i, table.objects)
    BY DEF Entered, Entries, Entry, Live
  <2>1. i \in mIndexes \ spoiled /\ i \notin Written \cap UserIndex
    OBVIOUS
  <2>2. i \notin stuck => index[i].keys = Entries(i, table.objects)
    BY <1>1, <2>1 DEF Kept
  <2>3. i \notin stuck => Current(i)' = index[i].keys
    BY DEF Current
  <2> QED  BY <2>1, <2>2, <2>3 DEF Entered, IsOfItsTag, IsOf
<1> QED  BY <1>2, <1>4, <1>5, <1>6, <1>7, <1>8

LEMMA CacheStepKeeps ==
    ASSUME IInv, flushCaches \/ \E n \in 0 .. mStateNumber : changesSince(n)
    PROVE  IInv'
<1>1. UNCHANGED <<up, tableDisk, table, mStateNumber, writing, work,
                  mStateObjectChanges, snapshot, indexVars, spoiled>>
  BY DEF flushCaches, changesSince
<1> USE <1>1 DEF IInv, indexVars
<1>2. States' /\ Transactions' /\ Changes' /\ Defined'
  BY DEF States, Transactions, Changes, Defined, Wanted
<1>3. Files' /\ Entered' /\ Kept'
  BY DEF Files, Entered, Kept, Written, IsOfItsTag, IsOf, Current, Entries, Entry, Live
<1> QED  BY <1>2, <1>3

LEMMA SyncTableKeeps ==
    ASSUME IInv, SyncTable
    PROVE  IInv'
<1> USE Names DEF IInv, SyncTable, indexVars
<1>1. States'
  BY DEF States
<1>2. Transactions' /\ Changes' /\ Defined'
  BY DEF Transactions, Changes, Defined
<1>3. Files' /\ Entered' /\ Kept'
  BY DEF Files, Entered, Kept, IsOfItsTag, IsOf, Current, Entries, Entry, Live
<1> QED  BY <1>1, <1>2, <1>3

LEMMA SyncIndexKeeps ==
    ASSUME IInv, NEW i \in Index, SyncIndex(i)
    PROVE  IInv'
<1> USE Names DEF IInv, SyncIndex, tableVars
<1>1. States' /\ Changes' /\ Defined'
  BY DEF States, Changes, Defined
<1>2. Transactions'
  BY DEF Transactions
<1>3. \A j \in Index : indexDisk'[j] = IF j = i THEN index[i] ELSE indexDisk[j]
  BY DEF Transactions
<1>4. Files' /\ Entered'
  BY <1>3, SMTT(30) DEF Transactions, Files, Entered, IsOfItsTag, IsOf, Current, Entries, Entry, Live
<1>5. Kept'
  BY DEF Kept
<1> QED  BY <1>1, <1>2, <1>4, <1>5

\* Memory is gone, and nothing but what the files hold is left to say.
LEMMA DownKeeps ==
    ASSUME IInv, Down, UNCHANGED snapshot,
           tableDisk'.tag \in 1 .. MaxState /\ tableDisk'.objects = snapshot[tableDisk'.tag],
           indexDisk' \in [Index -> File]
    PROVE  States' /\ Transactions' /\ Changes' /\ Defined' /\ Entered' /\ Kept'
<1> USE Names DEF IInv, Down, EndTransaction
<1>1. States'
  BY DEF States
<1>2. Transactions'
  <2>1. work' \in Objects /\ mStateObjectChanges' \in Seq(ChangeOf)
        /\ index' \in [Index -> File] /\ indexWork' \in [Index -> SUBSET (FieldValue \X Key)]
    BY ObjectsTyped, NoFileTyped
  <2> QED  BY <2>1 DEF Transactions
<1>3. Changes' /\ Defined' /\ Entered' /\ Kept'
  BY DEF Changes, Defined, Entered, Kept
<1> QED  BY <1>1, <1>2, <1>3

\* The files close() has synced are of the state their tag says.
LEMMA CloseKeeps ==
    ASSUME IInv, NEW done \in SUBSET mIndexes, NEW left, close(done, left)
    PROVE  IInv'
<1> USE Names DEF IInv, close
<1>1. /\ up = "open" /\ ~writing /\ mBdbTransactions = {} /\ work = table.objects
      /\ mStateNumber \in 1 .. MaxState /\ table.tag \in 1 .. mStateNumber
      /\ \A n \in table.tag .. MaxState : snapshot[n] = table.objects
      /\ index \in [Index -> File] /\ indexDisk \in [Index -> File]
  BY DEF States, Transactions
<1>2. \A i \in Index : indexDisk'[i] =
         IF i \in done \cap stuck THEN [keys |-> indexWork[i] \cap left, tag |-> mStateNumber]
         ELSE IF i \in done THEN [index[i] EXCEPT !.tag = mStateNumber] ELSE indexDisk[i]
  OBVIOUS
<1>3. \A i \in Index : indexDisk'[i] \in File
  <2> SUFFICES ASSUME NEW i \in Index PROVE indexDisk'[i] \in File
    OBVIOUS
  <2>1. mStateNumber \in 0 .. MaxState
    BY <1>1
  <2>2. CASE i \in done \cap stuck
    <3>1. indexWork[i] \cap left \subseteq FieldValue \X Key
      BY DEF Transactions
    <3> HIDE DEF IInv, close
    <3>2. indexDisk'[i] = [keys |-> indexWork[i] \cap left, tag |-> mStateNumber]
      BY <1>2, <2>2
    <3> QED  BY <2>1, <3>1, <3>2 DEF File
  <2>3. CASE i \in done \ stuck
    <3> HIDE DEF IInv, close
    <3>1. index[i] \in File /\ indexDisk'[i] = [index[i] EXCEPT !.tag = mStateNumber]
      BY <1>1, <1>2, <2>3
    <3> QED  BY <2>1, <3>1 DEF File
  <2>4. CASE i \notin done
    <3> HIDE DEF IInv, close
    <3> QED  BY <1>1, <1>2, <2>4
  <2> QED  BY <2>2, <2>3, <2>4
<1>4. States' /\ Transactions' /\ Changes' /\ Defined' /\ Entered' /\ Kept'
  <2>1. indexDisk' \in [Index -> File]
    BY <1>3
  <2> QED  BY <1>1, <2>1, DownKeeps
<1>5. Files'
  <2> SUFFICES ASSUME NEW i \in Index \ (spoiled \cup (done \cap stuck))
               PROVE  IsOfItsTag(i, indexDisk[i])'
    BY DEF Files
  <2>1. CASE i \in done
    <3>1. index[i].keys = Entries(i, table.objects)
      BY <1>1, <2>1 DEF Entered, Current
    <3>2. indexDisk'[i].keys = index[i].keys /\ indexDisk'[i].tag = mStateNumber
      BY <1>1, <1>2, <2>1 DEF File
    <3> QED  BY <1>1, <3>1, <3>2 DEF IsOfItsTag
  <2>2. CASE i \notin done
    BY <1>1, <1>2, <2>2 DEF Files, IsOfItsTag, IsOf
  <2> QED  BY <2>1, <2>2
<1> QED  BY <1>4, <1>5

LEMMA CrashKeeps ==
    ASSUME IInv, Crash
    PROVE  IInv'
<1> USE Names DEF IInv, Crash
<1>1. States' /\ Transactions' /\ Changes' /\ Defined' /\ Entered' /\ Kept'
  BY DownKeeps DEF States, Transactions
<1>2. Files'
  BY DEF Files, IsOfItsTag, IsOf, Down
<1> QED  BY <1>1, <1>2

-----------------------------------------------------------------------------
\* The files of a table and its indexes agree with the states they are tagged
\* with, and an open index with the objects of the transaction, in every
\* behaviour of the table.  That an index is only ever defined over no file and
\* that reindexObjects() has no null to leave out is assumed: without either
\* IndexesAgree does not hold.
THEOREM Invariance ==
    ASSUME NoNulls, FreshFiles = TRUE
    PROVE  Spec => []IInv
<1>1. Init => IInv
  BY InitIsInvariant
<1>2. IInv /\ [Next]_vars => IInv'
  <2> SUFFICES ASSUME IInv, [Next]_vars PROVE IInv'
    OBVIOUS
  <2>1. CASE Open
    BY <2>1, OpenKeeps
  <2>2. ASSUME NEW i \in Index, OpenIndex(i) PROVE IInv'
    BY <2>2, OpenIndexKeeps
  <2>3. CASE Opened
    BY <2>3, OpenedKeeps
  <2>4. CASE begin
    BY <2>4, BeginKeeps
  <2>5. ASSUME NEW key \in Uuid, NEW new \in Value \cup {Deleted}, Write(key, new) PROVE IInv'
    BY <2>5, WriteKeeps
  <2>6. ASSUME NEW i \in UserIndex, NEW new \in {Definition, Deleted}, WriteIndexObject(i, new)
        PROVE IInv'
    BY <2>6, WriteIndexObjectKeeps
  <2>7. ASSUME NEW n \in 1 .. MaxState, NEW failed \in SUBSET mBdbTransactions,
               commit(n, failed)
        PROVE IInv'
    BY <2>7, CommitKeeps
  <2>8. ASSUME NEW n \in 1 .. MaxState, NEW failed \in SUBSET mBdbTransactions,
               commitFails(n, failed)
        PROVE IInv'
    BY <2>8, CommitFailsKeeps
  <2>9. CASE flushCaches \/ \E n \in 0 .. mStateNumber : changesSince(n)
    BY <2>9, CacheStepKeeps
  <2>10. CASE SyncTable
    BY <2>10, SyncTableKeeps
  <2>11. ASSUME NEW i \in Index, SyncIndex(i) PROVE IInv'
    BY <2>11, SyncIndexKeeps
  <2>12. ASSUME NEW done \in SUBSET mIndexes,
                NEW left \in SUBSET (UNION {indexWork[i] : i \in stuck}), close(done, left)
         PROVE IInv'
    BY <2>12, CloseKeeps
  <2>13. CASE Crash
    BY <2>13, CrashKeeps
  <2>14. CASE UNCHANGED vars
    <3>1. UNCHANGED <<up, tableDisk, table, mStateNumber, writing, work,
                      mStateObjectChanges, snapshot, indexVars, spoiled>>
      BY <2>14 DEF vars, tableVars
    <3> USE <3>1 DEF IInv, indexVars
    <3>2. States' /\ Transactions' /\ Changes' /\ Defined'
      BY DEF States, Transactions, Changes, Defined, Wanted
    <3>3. Files' /\ Entered' /\ Kept'
      BY DEF Files, Entered, Kept, Written, IsOfItsTag, IsOf, Current, Entries, Entry, Live
    <3> QED  BY <3>2, <3>3
  <2>15. CASE abort
    BY <2>15, AbortKeeps
  <2> QED
    BY <2>1, <2>2, <2>3, <2>4, <2>5, <2>6, <2>7, <2>8, <2>9, <2>10, <2>11, <2>12, <2>13, <2>14,
       <2>15
       DEF Next
<1> QED  BY <1>1, <1>2, PTL DEF Spec

\* Between two write transactions every index of an open table holds exactly
\* the entries of the table's objects, for any number of objects, contents,
\* indexes, states and objects of a transaction.
THEOREM IndexesOfAnOpenTableAgree ==
    ASSUME NoNulls, FreshFiles = TRUE
    PROVE  Spec => []IndexesAgree
<1>1. IInv => IndexesAgree
  <2> SUFFICES ASSUME IInv, up = "open", ~writing, NEW i \in mIndexes \ (spoiled \cup stuck)
               PROVE  index[i].keys = Entries(i, table.objects)
    BY DEF IndexesAgree
  <2>1. mBdbTransactions = {} /\ work = table.objects
    BY DEF IInv, Transactions
  <2> QED  BY <2>1 DEF IInv, Entered, Current
<1> QED  BY <1>1, Invariance, PTL
-----------------------------------------------------------------------------
(***************************************************************************)
(* Types, without any of these hypotheses.                                 *)
(***************************************************************************)
\* Positions have a last one among them.
LEMMA MaxIsLast ==
    ASSUME NEW n \in Nat, NEW S \in SUBSET (1 .. n), S # {}
    PROVE  Max(S) \in S
<1> DEFINE T == {n + 1 - i : i \in S}
<1>1. T \in SUBSET (Nat \ {0}) /\ T # {}
  <2>1. \A i \in S : n + 1 - i \in Nat \ {0}
    OBVIOUS
  <2> QED  BY <2>1
<1>2. PICK j \in T : \A k \in 1 .. j - 1 : k \notin T
  BY <1>1, FirstOf
<1>3. PICK i \in S : j = n + 1 - i
  OBVIOUS
<1>4. ASSUME NEW k \in S PROVE i >= k
  <2>1. n + 1 - k \in T
    OBVIOUS
  <2> QED  BY <1>2, <1>3, <2>1
<1> QED  BY <1>3, <1>4 DEF Max

\* The changes of a uuid whose old object is live.
OldOf(changes, key) == {i \in DOMAIN changes : changes[i].key = key /\ Live(changes[i].old)}

LEMMA LogOfIs ==
    ASSUME NEW changes \in Seq(ChangeOf)
    PROVE  /\ LogOf(changes) \in Logged
           /\ DOMAIN LogOf(changes).actions = DOMAIN changes
           /\ \A i \in DOMAIN changes : LogOf(changes).actions[i] =
                 [key |-> changes[i].key, action |-> changes[i].action]
           /\ \A key : key \in DOMAIN LogOf(changes).old <=> OldOf(changes, key) # {}
           /\ \A key : OldOf(changes, key) # {} =>
                 LogOf(changes).old[key] = changes[Max(OldOf(changes, key))].old
<1> DEFINE keys == {changes[i].key : i \in {j \in DOMAIN changes : Live(changes[j].old)}}
           actions == [i \in DOMAIN changes |->
                          [key |-> changes[i].key, action |-> changes[i].action]]
           old == [key \in keys |-> changes[Max(OldOf(changes, key))].old]
<1>1. LogOf(changes) = [actions |-> actions, old |-> old]
  BY DEF LogOf, OldOf
<1>2. Len(changes) \in Nat /\ DOMAIN changes = 1 .. Len(changes)
      /\ \A i \in DOMAIN changes : changes[i] \in ChangeOf
  OBVIOUS
<1>3. actions \in Seq([key : Key, action : Action])
  <2>1. \A i \in DOMAIN changes : actions[i] \in [key : Key, action : Action]
    BY <1>2 DEF ChangeOf
  <2>2. actions \in [1 .. Len(changes) -> [key : Key, action : Action]]
    BY <1>2, <2>1
  <2> DEFINE T == [key : Key, action : Action]
             n == Len(changes)
  <2>3. n \in Nat /\ actions \in [1 .. n -> T]
    BY <1>2, <2>2
  <2> HIDE DEF actions, T, n
  <2>4. actions \in Seq(T)
    BY <2>3, SeqDef
  <2> QED  BY <2>4 DEF T
<1>4. \A key : key \in keys <=> OldOf(changes, key) # {}
  BY DEF OldOf
<1>5. old \in [keys -> Content] /\ keys \in SUBSET Key
  <2>1. ASSUME NEW key \in keys PROVE changes[Max(OldOf(changes, key))].old \in Content
    <3>1. OldOf(changes, key) \in SUBSET (1 .. Len(changes)) /\ OldOf(changes, key) # {}
      BY <1>2, <1>4 DEF OldOf
    <3>2. Max(OldOf(changes, key)) \in DOMAIN changes
      BY <1>2, <3>1, MaxIsLast
    <3> QED  BY <1>2, <3>2 DEF ChangeOf
  <2>2. keys \in SUBSET Key
    BY <1>2 DEF ChangeOf
  <2> QED  BY <2>1, <2>2
<1> HIDE DEF keys, actions, old
<1>6. LogOf(changes) \in Logged
  BY <1>1, <1>3, <1>5 DEF Logged
<1> QED  BY <1>1, <1>4, <1>6 DEF actions, old

LEMMA NothingTyped ==
    /\ NoObjects \in [Key -> Content]
    /\ <<>> \in Seq(ChangeOf) /\ NoChanges \in [1 .. MaxState -> Seq(ChangeOf)]
    /\ [i \in Index |-> {}] \in [Index -> SUBSET (FieldValue \X Key)]
    /\ [i \in Index |-> NoFile] \in [Index -> File]
    /\ MaxBatch \in Nat
BY NoFileTyped, NamesAssumption DEF NoObjects, NoChanges, Content

LEMMA TypeOfInit == Init => TypeOK
<1> SUFFICES ASSUME Init PROVE TypeOK
  OBVIOUS
<1> USE Names
<1>1. NoLog \in [1 .. MaxState -> Logged]
  BY LogOfIs, NothingTyped DEF NoLog
<1>2. table \in TableFile /\ tableDisk \in TableFile
  BY <1>1, NothingTyped DEF Init, TableFile
<1>3. snapshot \in [0 .. MaxState -> [Key -> Content]]
  BY NothingTyped DEF Init
<1>4. index \in [Index -> File] /\ indexDisk \in [Index -> File]
      /\ indexWork \in [Index -> SUBSET (FieldValue \X Key)]
  BY NothingTyped DEF Init
<1>5. mStateObjectChanges \in Seq(ChangeOf) /\ Len(mStateObjectChanges) <= MaxBatch
  <2>1. mStateObjectChanges = <<>>
    BY Zenon DEF Init
  <2>2. <<>> \in Seq(ChangeOf) /\ Len(<<>>) = 0 /\ MaxBatch >= 0
    BY NothingTyped
  <2> QED  BY <2>1, <2>2
<1>6. up \in {"down", "opening", "open"} /\ mStateNumber \in 0 .. MaxState /\ writing \in BOOLEAN
      /\ mBdbTransactions = {} /\ stuck = {} /\ mIndexes = {} /\ spoiled = {}
  BY DEF Init
<1>7. work \in [Key -> Content] /\ mChangeCache \in [1 .. MaxState -> Seq(ChangeOf)]
  BY NothingTyped DEF Init
<1> QED  BY <1>2, <1>3, <1>4, <1>5, <1>6, <1>7 DEF TypeOK

LEMMA EntryTyped ==
    ASSUME NEW i \in Index, NEW key \in Key, NEW object \in Content
    PROVE  Entry(i, key, object) \in SUBSET (FieldValue \X Key)
BY Names DEF Entry, FieldValue, Live

LEMMA AddedTyped ==
    ASSUME TypeOK, NEW i \in Index, NEW file \in File, NEW all \in [Key -> Content]
    PROVE  Added(i, file, all) \in File
<1>1. Rebuilt(i, all) \in SUBSET (FieldValue \X Key) /\ mStateNumber \in 0 .. MaxState
  BY RebuiltTyped DEF TypeOK
<1> QED  BY <1>1 DEF Added, File

\* Writing an object keeps the types of what it changes.
LEMMA ObjectWriteTyped ==
    ASSUME TypeOK, NEW key \in Key, NEW new \in Content, WriteObject(key, new),
           Len(mStateObjectChanges) < MaxBatch
    PROVE  /\ work' \in [Key -> Content]
           /\ mStateObjectChanges' \in Seq(ChangeOf) /\ Len(mStateObjectChanges') <= MaxBatch
           /\ indexWork' \in [Index -> SUBSET (FieldValue \X Key)]
<1> DEFINE change == Change(key, Visible(work[key]), new, ActionOf(work[key], new))
<1>1. work \in [Key -> Content] /\ work[key] \in Content
  BY DEF TypeOK
<1>2. change \in ChangeOf
  BY <1>1 DEF Change, ChangeOf, Visible, ActionOf, Action, Content
<1>3. mStateObjectChanges' \in Seq(ChangeOf) /\ Len(mStateObjectChanges') <= MaxBatch
  <2>1. mStateObjectChanges' = Append(mStateObjectChanges, change)
        /\ mStateObjectChanges \in Seq(ChangeOf)
    BY DEF WriteObject, TypeOK
  <2> HIDE DEF change
  <2> QED  BY <1>2, <2>1, NothingTyped
<1>4. \A j \in Index : Current(j) \in SUBSET (FieldValue \X Key)
  BY DEF TypeOK, Current, File
<1>5. \A j \in Index : Entry(j, key, new) \in SUBSET (FieldValue \X Key)
  BY EntryTyped
<1>6. indexWork' \in [Index -> SUBSET (FieldValue \X Key)]
  BY <1>4, <1>5 DEF TypeOK, WriteObject, Reindexed
<1> QED  BY <1>1, <1>3, <1>6 DEF WriteObject

\* What the log tells is typed, and so is what the cache holds after it was read.
LEMMA FromLogIs ==
    ASSUME TypeOK, NEW m \in 1 .. MaxState
    PROVE  /\ FromLog(m) \in Seq(ChangeOf)
           /\ DOMAIN FromLog(m) = DOMAIN table.log[m].actions
           /\ \A i \in DOMAIN table.log[m].actions :
                 LET key == table.log[m].actions[i].key
                     action == table.log[m].actions[i].action
                     old == table.log[m].old
                 IN FromLog(m)[i] = Change(key,
                        IF action # "Create" /\ key \in DOMAIN old THEN old[key] ELSE Absent,
                        work[key], action)
<1> DEFINE actions == table.log[m].actions
           old == table.log[m].old
           change(i) == Change(actions[i].key,
               IF actions[i].action # "Create" /\ actions[i].key \in DOMAIN old
               THEN old[actions[i].key] ELSE Absent,
               work[actions[i].key], actions[i].action)
<1>1. table.log[m] \in Logged
  BY DEF TypeOK, TableFile
<1>2. /\ actions \in Seq([key : Key, action : Action])
      /\ old \in UNION {[keys -> Content] : keys \in SUBSET Key}
  BY <1>1 DEF Logged
<1>3. PICK keys \in SUBSET Key : old \in [keys -> Content]
  <2> HIDE DEF old
  <2>1. PICK all \in {[keys -> Content] : keys \in SUBSET Key} : old \in all
    BY <1>2, Zenon
  <2> QED  BY <2>1
<1>4. Len(actions) \in Nat /\ DOMAIN actions = 1 .. Len(actions)
      /\ \A i \in DOMAIN actions : actions[i].key \in Key /\ actions[i].action \in Action
  <2> DEFINE T == [key : Key, action : Action]
  <2>1. actions \in Seq(T)
    BY <1>2
  <2> HIDE DEF actions, T
  <2>2. Len(actions) \in Nat /\ DOMAIN actions = 1 .. Len(actions)
        /\ \A i \in DOMAIN actions : actions[i] \in T
    BY <2>1
  <2> QED  BY <2>2 DEF T
<1>5. FromLog(m) = [i \in DOMAIN actions |-> change(i)]
  BY DEF FromLog
<1>6. ASSUME NEW i \in DOMAIN actions PROVE change(i) \in ChangeOf
  <2>1. work[actions[i].key] \in Content /\ Absent \in Content
    BY <1>4 DEF TypeOK, Content
  <2>2. actions[i].key \in DOMAIN old => old[actions[i].key] \in Content
    BY <1>3
  <2> HIDE DEF actions, old
  <2> QED  BY <1>4, <2>1, <2>2 DEF Change, ChangeOf
<1>7. FromLog(m) \in Seq(ChangeOf)
  <2> DEFINE n == Len(actions)
  <2>1. FromLog(m) \in [1 .. n -> ChangeOf] /\ n \in Nat
    <3> HIDE DEF actions, change
    <3> QED  BY <1>4, <1>5, <1>6
  <2> HIDE DEF n
  <2> QED  BY <2>1, SeqDef
<1> QED  BY <1>4, <1>5, <1>7

LEMMA FetchedTyped ==
    ASSUME TypeOK, NEW start \in Nat \ {0}
    PROVE  /\ Pruned(start) \in [1 .. MaxState -> Seq(ChangeOf)]
           /\ \A m \in 1 .. MaxState : Pruned(start)[m] \in {<<>>, mChangeCache[m]}
           /\ \A m \in start .. MaxState : Pruned(start)[m] = mChangeCache[m]
           /\ Fetched(start) \in [1 .. MaxState -> Seq(ChangeOf)]
           /\ \A m \in 1 .. MaxState : Fetched(start)[m] =
                 IF m \in start .. mStateNumber /\ Pruned(start)[m] = <<>>
                 THEN FromLog(m) ELSE Pruned(start)[m]
<1>1. mChangeCache \in [1 .. MaxState -> Seq(ChangeOf)] /\ <<>> \in Seq(ChangeOf)
      /\ ExtraVersions \in Nat
  BY NothingTyped, NamesAssumption DEF TypeOK
<1>2. Pruned(start) = mChangeCache
      \/ Pruned(start) = [m \in 1 .. MaxState |-> IF m < start - ExtraVersions THEN <<>> ELSE mChangeCache[m]]
  BY <1>1 DEF Pruned
<1>3. /\ Pruned(start) \in [1 .. MaxState -> Seq(ChangeOf)]
      /\ \A m \in 1 .. MaxState : Pruned(start)[m] \in {<<>>, mChangeCache[m]}
      /\ \A m \in start .. MaxState : Pruned(start)[m] = mChangeCache[m]
  <2>1. CASE Pruned(start) = mChangeCache
    BY <1>1, <2>1
  <2>2. CASE Pruned(start) = [m \in 1 .. MaxState |->
                IF m < start - ExtraVersions THEN <<>> ELSE mChangeCache[m]]
    <3>1. \A m \in start .. MaxState : m \in 1 .. MaxState /\ ~(m < start - ExtraVersions)
      BY <1>1, Names
    <3> HIDE DEF Pruned
    <3> QED  BY <1>1, <2>2, <3>1
  <2> QED  BY <1>2, <2>1, <2>2
<1>4. \A m \in 1 .. MaxState : FromLog(m) \in Seq(ChangeOf)
  BY FromLogIs
<1>5. Fetched(start) = [m \in 1 .. MaxState |->
          IF m \in start .. mStateNumber /\ Pruned(start)[m] = <<>>
          THEN FromLog(m) ELSE Pruned(start)[m]]
  BY <1>1 DEF Fetched
<1> QED  BY <1>3, <1>4, <1>5

LEMMA StartingIs ==
    ASSUME NEW n \in Nat
    PROVE  Starting(n) = n + 1
<1>1. Starting(n) \in {1, n + 1} /\ \A k \in {1, n + 1} : Starting(n) >= k
  <2>1. \E k \in {1, n + 1} : \A j \in {1, n + 1} : k >= j
    OBVIOUS
  <2> QED  BY <2>1 DEF Starting, Max
<1> QED  BY <1>1

LEMMA OpenTyped ==
    ASSUME TypeOK, Open
    PROVE  TypeOK'
<1> USE DEF Open, indexVars
<1>1. tableDisk \in TableFile /\ tableDisk.tag \in 1 .. MaxState /\ tableDisk.objects \in [Key -> Content]
  BY DEF TypeOK, TableFile
<1>2. snapshot' \in [0 .. MaxState -> [Key -> Content]]
  BY <1>1 DEF TypeOK
<1> QED  BY <1>1, <1>2 DEF TypeOK

LEMMA OpenIndexTyped ==
    ASSUME TypeOK, NEW i \in Index, OpenIndex(i)
    PROVE  TypeOK'
<1> USE DEF OpenIndex, tableVars
<1>1. table.objects \in [Key -> Content] /\ indexDisk[i] \in File
  BY DEF TypeOK, TableFile
<1>2. Added(i, indexDisk[i], table.objects) \in File
  BY <1>1, AddedTyped
<1>3. index' \in [Index -> File] /\ indexDisk' \in [Index -> File]
  BY <1>2 DEF TypeOK, addIndex
<1>4. spoiled' \subseteq Index \cup {"cache"} /\ mIndexes' \subseteq Index
      /\ mBdbTransactions' \subseteq mIndexes' /\ stuck' \subseteq mIndexes'
  BY DEF TypeOK
<1> QED  BY <1>3, <1>4 DEF TypeOK

LEMMA WriteTypes ==
    ASSUME TypeOK, NEW key \in Uuid, NEW new \in Value \cup {Deleted}, Write(key, new)
    PROVE  TypeOK'
<1> USE DEF Write
<1>1. /\ work' \in [Key -> Content]
      /\ mStateObjectChanges' \in Seq(ChangeOf) /\ Len(mStateObjectChanges') <= MaxBatch
      /\ indexWork' \in [Index -> SUBSET (FieldValue \X Key)]
  <2>1. key \in Key /\ new \in Content
    BY DEF Key, Content
  <2> QED  BY <2>1, ObjectWriteTyped
<1>2. mBdbTransactions' \subseteq mIndexes'
  BY DEF TypeOK, Touched
<1> QED  BY <1>1, <1>2 DEF TypeOK

LEMMA WriteIndexObjectTypes ==
    ASSUME TypeOK, NEW i \in UserIndex, NEW new \in {Definition, Deleted}, WriteIndexObject(i, new)
    PROVE  TypeOK'
<1> DEFINE old == work[i]
           replaced == Live(old) /\ i \in mIndexes
           file == IF replaced THEN NoFile ELSE indexDisk[i]
           others == IF replaced THEN mIndexes \ {i} ELSE mIndexes
<1>1. /\ work' \in [Key -> Content]
      /\ mStateObjectChanges' \in Seq(ChangeOf) /\ Len(mStateObjectChanges') <= MaxBatch
      /\ indexWork' \in [Index -> SUBSET (FieldValue \X Key)]
  <2>1. i \in Key /\ new \in Content
    BY DEF Key, Content
  <2> QED  BY <2>1, ObjectWriteTyped DEF WriteIndexObject
<1>2. i \in Index /\ file \in File /\ NoFile \in File
  BY NoFileTyped DEF Index, TypeOK
<1>3. Added(i, file, work') \in File
  BY <1>1, <1>2, AddedTyped
<1>4. index' \in [Index -> File] /\ indexDisk' \in [Index -> File]
  <2>1. addIndex(i, file, work') \/ removeIndex(i) \/ UNCHANGED <<index, indexDisk>>
    BY DEF WriteIndexObject
  <2> HIDE DEF file
  <2> QED  BY <1>2, <1>3, <2>1 DEF TypeOK, addIndex, removeIndex
<1>5. mIndexes' = others \cup {i} \/ mIndexes' = others
  BY DEF WriteIndexObject
<1>6. /\ mBdbTransactions' = (mBdbTransactions \cup (Touched(i, old, new) \ stuck))
                                  \ (IF replaced THEN {i} ELSE {})
      /\ stuck' = stuck /\ (replaced => i \notin stuck)
  BY DEF WriteIndexObject
<1>7. /\ mBdbTransactions' \subseteq mIndexes' /\ mIndexes' \subseteq Index
      /\ stuck' \subseteq mIndexes'
  BY <1>2, <1>5, <1>6 DEF TypeOK, Touched
<1>8. spoiled' \subseteq spoiled
  BY DEF WriteIndexObject
<1>9. UNCHANGED <<up, tableDisk, table, mStateNumber, writing, mChangeCache, snapshot>>
  BY DEF WriteIndexObject
<1> QED  BY <1>1, <1>4, <1>7, <1>8, <1>9 DEF TypeOK

\* What both kinds of commit have in common.
LEMMA CommittedTypes ==
    ASSUME TypeOK, NEW n \in 1 .. MaxState, NEW failed, NEW left
    PROVE  /\ CacheWith(n) \in [1 .. MaxState -> Seq(ChangeOf)]
           /\ CommittedIndexes(n, failed) \in [Index -> File]
           /\ EndTransaction(left) =>
                 /\ writing' = FALSE /\ mBdbTransactions' = {} /\ stuck' = left
                 /\ mStateObjectChanges' \in Seq(ChangeOf) /\ Len(mStateObjectChanges') <= MaxBatch
                 /\ indexWork' \in [Index -> SUBSET (FieldValue \X Key)]
<1>1. CacheWith(n) \in [1 .. MaxState -> Seq(ChangeOf)]
  BY DEF TypeOK, CacheWith
<1>2. CommittedIndexes(n, failed) \in [Index -> File]
  BY Names DEF TypeOK, CommittedIndexes, File
<1>3. <<>> \in Seq(ChangeOf) /\ Len(<<>>) = 0 /\ MaxBatch >= 0
  BY NothingTyped
<1>4. [i \in Index |-> IF i \in left THEN indexWork[i] ELSE {}]
          \in [Index -> SUBSET (FieldValue \X Key)]
  BY DEF TypeOK
<1> QED  BY <1>1, <1>2, <1>3, <1>4 DEF EndTransaction

LEMMA CommitTypes ==
    ASSUME TypeOK, NEW n \in 1 .. MaxState, NEW failed \in SUBSET mBdbTransactions,
           commit(n, failed)
    PROVE  TypeOK'
<1> USE DEF commit
<1>1. LogOf(mStateObjectChanges) \in Logged
  BY LogOfIs DEF TypeOK
<1>2. table' \in TableFile
  <2>1. [table.log EXCEPT ![n] = LogOf(mStateObjectChanges)] \in [1 .. MaxState -> Logged]
    BY <1>1 DEF TypeOK, TableFile
  <2> QED  BY <2>1 DEF TypeOK, TableFile
<1>3. snapshot' \in [0 .. MaxState -> [Key -> Content]]
  BY DEF TypeOK
<1>4. EndTransaction(stuck \cup failed) /\ mChangeCache' = CacheWith(n)
      /\ index' = CommittedIndexes(n, failed)
  OBVIOUS
<1>5. /\ mChangeCache' \in [1 .. MaxState -> Seq(ChangeOf)] /\ index' \in [Index -> File]
      /\ writing' = FALSE /\ mBdbTransactions' = {} /\ stuck' = stuck \cup failed
      /\ mStateObjectChanges' \in Seq(ChangeOf) /\ Len(mStateObjectChanges') <= MaxBatch
      /\ indexWork' \in [Index -> SUBSET (FieldValue \X Key)]
  BY <1>4, CommittedTypes, Zenon
<1>6. mStateNumber' \in 0 .. MaxState
      /\ UNCHANGED <<up, tableDisk, work, indexDisk, mIndexes, spoiled>>
  OBVIOUS
<1> HIDE DEF commit
<1> QED  BY <1>2, <1>3, <1>5, <1>6 DEF TypeOK

LEMMA CommitFailsTypes ==
    ASSUME TypeOK, NEW n \in 1 .. MaxState, NEW failed \in SUBSET mBdbTransactions,
           commitFails(n, failed)
    PROVE  TypeOK'
<1> USE DEF commitFails
<1>1. EndTransaction(stuck \cup failed) /\ mChangeCache' = CacheWith(n)
      /\ index' = CommittedIndexes(n, failed)
  OBVIOUS
<1>2. /\ mChangeCache' \in [1 .. MaxState -> Seq(ChangeOf)] /\ index' \in [Index -> File]
      /\ writing' = FALSE /\ mBdbTransactions' = {} /\ stuck' = stuck \cup failed
      /\ mStateObjectChanges' \in Seq(ChangeOf) /\ Len(mStateObjectChanges') <= MaxBatch
      /\ indexWork' \in [Index -> SUBSET (FieldValue \X Key)]
  BY <1>1, CommittedTypes, Zenon
<1>3. mStateNumber' \in 0 .. MaxState /\ spoiled' = Index \cup {"cache"}
      /\ UNCHANGED <<up, tableDisk, table, snapshot, indexDisk, mIndexes>>
  OBVIOUS
<1>4. work' \in [Key -> Content]
  BY DEF TypeOK, TableFile
<1> HIDE DEF commitFails
<1> QED  BY <1>2, <1>3, <1>4 DEF TypeOK

LEMMA AbortTypes ==
    ASSUME TypeOK, abort
    PROVE  TypeOK'
<1>1. EndTransaction(stuck) /\ UNCHANGED <<up, tableDisk, table, mStateNumber, mChangeCache,
                                           snapshot, indexDisk, index, mIndexes>>
  BY DEF abort
<1>2. PICK n \in 1 .. MaxState : TRUE
  BY Names
<1>3. /\ writing' = FALSE /\ mBdbTransactions' = {} /\ stuck' = stuck
      /\ mStateObjectChanges' \in Seq(ChangeOf) /\ Len(mStateObjectChanges') <= MaxBatch
      /\ indexWork' \in [Index -> SUBSET (FieldValue \X Key)]
  BY <1>1, <1>2, CommittedTypes, Zenon
<1>4. work' \in [Key -> Content]
  BY DEF abort, TypeOK, TableFile
<1>5. spoiled' \subseteq Index \cup {"cache"}
  BY DEF abort, TypeOK, Index
<1> QED  BY <1>1, <1>3, <1>4, <1>5 DEF TypeOK

LEMMA CacheStepTypes ==
    ASSUME TypeOK, flushCaches \/ \E n \in 0 .. mStateNumber : changesSince(n)
    PROVE  TypeOK'
<1>1. mChangeCache' \in [1 .. MaxState -> Seq(ChangeOf)]
  <2>1. CASE flushCaches
    BY <2>1, NothingTyped DEF flushCaches
  <2>2. ASSUME NEW n \in 0 .. mStateNumber, changesSince(n)
        PROVE  mChangeCache' \in [1 .. MaxState -> Seq(ChangeOf)]
    <3>1. n \in Nat /\ Starting(n) \in Nat \ {0}
      <4>1. mStateNumber \in Nat /\ n \in 0 .. mStateNumber
        BY Names DEF TypeOK
      <4>2. n \in Nat
        BY <4>1
      <4> QED  BY <4>2, StartingIs
    <3> QED  BY <2>2, <3>1, FetchedTyped DEF changesSince
  <2> QED  BY <2>1, <2>2
<1>2. UNCHANGED <<up, tableDisk, table, mStateNumber, writing, work,
                  mStateObjectChanges, snapshot, indexVars, spoiled>>
  BY DEF flushCaches, changesSince
<1> QED  BY <1>1, <1>2 DEF TypeOK, indexVars

LEMMA DownTypes ==
    ASSUME TypeOK, Down, tableDisk' \in TableFile, indexDisk' \in [Index -> File],
           UNCHANGED snapshot, spoiled' \subseteq Index \cup {"cache"}
    PROVE  TypeOK'
<1> USE DEF Down, EndTransaction
<1>1. /\ mStateObjectChanges' \in Seq(ChangeOf) /\ Len(mStateObjectChanges') <= MaxBatch
      /\ indexWork' \in [Index -> SUBSET (FieldValue \X Key)] /\ index' \in [Index -> File]
      /\ work' \in [Key -> Content] /\ mChangeCache' \in [1 .. MaxState -> Seq(ChangeOf)]
  <2>1. <<>> \in Seq(ChangeOf) /\ Len(<<>>) = 0 /\ MaxBatch >= 0
    BY NothingTyped
  <2>2. indexWork' \in [Index -> SUBSET (FieldValue \X Key)]
    OBVIOUS
  <2> QED  BY <2>1, <2>2, NothingTyped
<1>2. up' = "down" /\ table' = tableDisk' /\ mStateNumber' = 0 /\ mIndexes' = {}
      /\ writing' = FALSE /\ mBdbTransactions' = {} /\ stuck' = {}
  OBVIOUS
<1>3. snapshot' \in [0 .. MaxState -> [Key -> Content]] /\ spoiled' \subseteq Index \cup {"cache"}
      /\ tableDisk' \in TableFile /\ table' \in TableFile /\ 0 \in 0 .. MaxState
      /\ indexDisk' \in [Index -> File]
  BY Names DEF TypeOK
<1> HIDE DEF Down, EndTransaction
<1> QED  BY <1>1, <1>2, <1>3 DEF TypeOK

\* Every variable has its type in every behaviour of the table, whatever its
\* indexes hold.
THEOREM TypeIsKept == Spec => []TypeOK
<1>1. TypeOK /\ [Next]_vars => TypeOK'
  <2> SUFFICES ASSUME TypeOK, [Next]_vars PROVE TypeOK'
    OBVIOUS
  <2>1. CASE Open
    BY <2>1, OpenTyped
  <2>2. ASSUME NEW i \in Index, OpenIndex(i) PROVE TypeOK'
    BY <2>2, OpenIndexTyped
  <2>3. CASE Opened
    BY <2>3 DEF Opened, tableVars, indexVars, TypeOK
  <2>4. CASE begin
    BY <2>4 DEF begin, indexVars, TypeOK
  <2>5. ASSUME NEW key \in Uuid, NEW new \in Value \cup {Deleted}, Write(key, new) PROVE TypeOK'
    BY <2>5, WriteTypes
  <2>6. ASSUME NEW i \in UserIndex, NEW new \in {Definition, Deleted}, WriteIndexObject(i, new)
        PROVE TypeOK'
    BY <2>6, WriteIndexObjectTypes
  <2>7. ASSUME NEW n \in 1 .. MaxState, NEW failed \in SUBSET mBdbTransactions,
               commit(n, failed)
        PROVE TypeOK'
    BY <2>7, CommitTypes
  <2>8. ASSUME NEW n \in 1 .. MaxState, NEW failed \in SUBSET mBdbTransactions,
               commitFails(n, failed)
        PROVE TypeOK'
    BY <2>8, CommitFailsTypes
  <2>9. CASE flushCaches \/ \E n \in 0 .. mStateNumber : changesSince(n)
    BY <2>9, CacheStepTypes
  <2>10. CASE SyncTable
    BY <2>10 DEF SyncTable, indexVars, TypeOK
  <2>11. ASSUME NEW i \in Index, SyncIndex(i) PROVE TypeOK'
    BY <2>11 DEF SyncIndex, tableVars, TypeOK
  <2>12. ASSUME NEW done \in SUBSET mIndexes,
                NEW left \in SUBSET (UNION {indexWork[i] : i \in stuck}), close(done, left)
         PROVE TypeOK'
    <3>1. \A i \in Index :
             /\ [index[i] EXCEPT !.tag = mStateNumber] \in File
             /\ [keys |-> indexWork[i] \cap left, tag |-> mStateNumber] \in File
      BY DEF TypeOK, File
    <3>2. tableDisk' \in TableFile /\ indexDisk' \in [Index -> File]
          /\ spoiled' \subseteq Index \cup {"cache"}
      BY <2>12, <3>1 DEF close, TypeOK
    <3> QED  BY <2>12, <3>2, DownTypes DEF close
  <2>13. CASE Crash
    BY <2>13, DownTypes DEF Crash, TypeOK
  <2>14. CASE UNCHANGED vars
    BY <2>14 DEF vars, tableVars, indexVars, TypeOK
  <2>15. CASE abort
    BY <2>15, AbortTypes
  <2> QED
    BY <2>1, <2>2, <2>3, <2>4, <2>5, <2>6, <2>7, <2>8, <2>9, <2>10, <2>11, <2>12, <2>13, <2>14,
       <2>15
       DEF Next
<1> QED  BY <1>1, TypeOfInit, PTL DEF Spec
-----------------------------------------------------------------------------
(***************************************************************************)
(* What the change log and its cache tell.                                 *)
(***************************************************************************)
\* Where a sequence of changes or of actions has a uuid.
At(key, sequence) == {i \in DOMAIN sequence : sequence[i].key = key}

\* What an entry of the log says of the states it leads from and to.  Of a uuid
\* that the transaction wrote more than once it need not be true.
Tells(entry, before, after) ==
    \A key \in Key :
        /\ At(key, entry.actions) = {} => after[key] = before[key]
        /\ \A i \in DOMAIN entry.actions : At(key, entry.actions) = {i} =>
              /\ entry.actions[i].action = ActionOf(before[key], after[key])
              /\ key \in DOMAIN entry.old <=> Live(before[key])
              /\ Live(before[key]) => entry.old[key] = before[key]

Log(file) ==
    /\ \A m \in 1 .. file.tag : Tells(file.log[m], snapshot[m - 1], snapshot[m])
    /\ \A m \in file.tag + 1 .. MaxState : file.log[m].actions = <<>>

\* The numbers of the states, those of the files, and the states themselves.
Numbers ==
    /\ tableDisk.objects = snapshot[tableDisk.tag]
    /\ up # "down" =>
          /\ 1 <= mStateNumber /\ table.tag <= mStateNumber /\ tableDisk.tag <= table.tag
          /\ \A m \in table.tag .. MaxState : snapshot[m] = table.objects
          /\ "cache" \notin spoiled => table.tag = mStateNumber
    /\ up = "opening" => table = tableDisk /\ mStateNumber = tableDisk.tag
    /\ writing => up = "open"
    /\ ~writing =>
          /\ mStateObjectChanges = <<>>
          /\ up # "down" => work = table.objects

Logs == Log(tableDisk) /\ (up # "down" => Log(table))

\* The changes of the write transaction lead from the table to its objects.
Pending ==
    writing =>
        \A key \in Key :
            /\ At(key, mStateObjectChanges) = {} => work[key] = table.objects[key]
            /\ \A i \in DOMAIN mStateObjectChanges : At(key, mStateObjectChanges) = {i} =>
                  mStateObjectChanges[i] =
                      Change(key, Visible(table.objects[key]), work[key],
                             ActionOf(table.objects[key], work[key]))

\* Nothing writes the uuid after state m.
LastOf(key, m) ==
    /\ \A l \in m + 1 .. mStateNumber : At(key, table.log[l].actions) = {}
    /\ At(key, mStateObjectChanges) = {}

\* The changes are those of state m, and the new object of the last one is the
\* one the table has now.
Matches(changes, m) ==
    /\ DOMAIN changes = DOMAIN table.log[m].actions
    /\ \A i \in DOMAIN changes :
          /\ changes[i].key = table.log[m].actions[i].key
          /\ changes[i].action = table.log[m].actions[i].action
          /\ At(changes[i].key, changes) = {i} =>
                /\ changes[i].old = Visible(snapshot[m - 1][changes[i].key])
                /\ LastOf(changes[i].key, m) =>
                      Visible(changes[i].new) = Visible(work[changes[i].key])

Cached(cache) ==
    \A m \in 1 .. MaxState : cache[m] # <<>> => m <= mStateNumber /\ Matches(cache[m], m)

Cache ==
    /\ up # "open" => mChangeCache = NoChanges
    /\ up = "open" /\ "cache" \notin spoiled => Cached(mChangeCache)

CInv ==
    /\ TypeOK
    /\ Numbers
    /\ Logs
    /\ Pending
    /\ Cache

LEMMA VisibleIs ==
    \A object : /\ Live(Visible(object)) <=> Live(object)
                /\ Live(object) => Visible(object) = object
                /\ ~Live(object) => Visible(object) = Absent
BY Names DEF Visible

\* What storeStateChange() and commit() keep of a transaction tells what it did.
LEMMA LogTells ==
    ASSUME TypeOK, Pending, writing
    PROVE  /\ Tells(LogOf(mStateObjectChanges), table.objects, work)
           /\ \A key : At(key, LogOf(mStateObjectChanges).actions) = At(key, mStateObjectChanges)
<1> DEFINE changes == mStateObjectChanges
           entry == LogOf(changes)
           before == table.objects
<1>1. changes \in Seq(ChangeOf)
  BY DEF TypeOK
<1>2. /\ DOMAIN entry.actions = DOMAIN changes
      /\ \A i \in DOMAIN changes :
            entry.actions[i] = [key |-> changes[i].key, action |-> changes[i].action]
      /\ \A key : key \in DOMAIN entry.old <=> OldOf(changes, key) # {}
      /\ \A key : OldOf(changes, key) # {} => entry.old[key] = changes[Max(OldOf(changes, key))].old
  BY <1>1, LogOfIs
<1>3. Len(changes) \in Nat /\ DOMAIN changes = 1 .. Len(changes)
  BY <1>1
<1>4. \A key \in Key :
         /\ At(key, changes) = {} => work[key] = before[key]
         /\ \A i \in DOMAIN changes : At(key, changes) = {i} =>
               changes[i] = Change(key, Visible(before[key]), work[key],
                                   ActionOf(before[key], work[key]))
  BY DEF Pending
<1> HIDE DEF changes, entry, before
<1>5. \A i \in DOMAIN changes :
         entry.actions[i].key = changes[i].key /\ entry.actions[i].action = changes[i].action
  <2> SUFFICES ASSUME NEW i \in DOMAIN changes
               PROVE  entry.actions[i].key = changes[i].key
                      /\ entry.actions[i].action = changes[i].action
    OBVIOUS
  <2>1. entry.actions[i] = [key |-> changes[i].key, action |-> changes[i].action]
    BY <1>2
  <2> QED  BY <2>1
<1>6. \A key : At(key, entry.actions) = At(key, changes)
  <2> SUFFICES ASSUME NEW key PROVE At(key, entry.actions) = At(key, changes)
    OBVIOUS
  <2> QED  BY <1>2, <1>5 DEF At
<1>7. ASSUME NEW key \in Key, NEW i \in DOMAIN changes, At(key, changes) = {i}
      PROVE  /\ entry.actions[i].action = ActionOf(before[key], work[key])
             /\ key \in DOMAIN entry.old <=> Live(before[key])
             /\ Live(before[key]) => entry.old[key] = before[key]
  <2>1. changes[i].key = key /\ changes[i].old = Visible(before[key])
        /\ changes[i].action = ActionOf(before[key], work[key])
    BY <1>4, <1>7 DEF Change
  <2>2. \A j \in DOMAIN changes : changes[j].key = key => j = i
    BY <1>7 DEF At
  <2>3. OldOf(changes, key) = IF Live(before[key]) THEN {i} ELSE {}
    BY <2>1, <2>2, VisibleIs DEF OldOf
  <2>4. Live(before[key]) => entry.old[key] = before[key]
    <3> SUFFICES ASSUME Live(before[key]) PROVE entry.old[key] = before[key]
      OBVIOUS
    <3>1. OldOf(changes, key) = {i} /\ i \in 1 .. Len(changes)
      BY <1>3, <2>3
    <3>2. Max(OldOf(changes, key)) \in OldOf(changes, key)
      BY <1>3, <3>1, MaxIsLast
    <3>3. Max(OldOf(changes, key)) = i
      BY <3>1, <3>2
    <3>4. entry.old[key] = changes[i].old
      BY <1>2, <3>1, <3>3
    <3> QED  BY <2>1, <3>4, VisibleIs
  <2>5. entry.actions[i].action = ActionOf(before[key], work[key])
    BY <1>5, <2>1
  <2>6. key \in DOMAIN entry.old <=> Live(before[key])
    BY <1>2, <2>3
  <2> QED  BY <2>4, <2>5, <2>6
<1>8. Tells(entry, before, work)
  <2> SUFFICES ASSUME NEW key \in Key
               PROVE  /\ At(key, entry.actions) = {} => work[key] = before[key]
                      /\ \A i \in DOMAIN entry.actions : At(key, entry.actions) = {i} =>
                            /\ entry.actions[i].action = ActionOf(before[key], work[key])
                            /\ key \in DOMAIN entry.old <=> Live(before[key])
                            /\ Live(before[key]) => entry.old[key] = before[key]
    BY DEF Tells
  <2> QED  BY <1>2, <1>4, <1>6, <1>7
<1> QED  BY <1>6, <1>8 DEF entry, changes, before

LEMMA NothingTells ==
    ASSUME NEW entry, entry.actions = <<>>, NEW objects
    PROVE  Tells(entry, objects, objects)
BY DEF Tells, At

\* A step that leaves the table, its log and its cache alone.
LEMMA ChangesUntouched ==
    ASSUME CInv, UNCHANGED <<up, tableVars>>, "cache" \in spoiled' <=> "cache" \in spoiled
    PROVE  Numbers' /\ Logs' /\ Pending' /\ Cache'
<1> USE DEF CInv, tableVars
<1>1. Numbers'
  BY DEF Numbers
<1>2. Logs'
  BY DEF Logs, Log, Tells, At
<1>3. Pending'
  BY DEF Pending, At
<1>4. Cache'
  BY DEF Cache, Cached, Matches, LastOf, At
<1> QED  BY <1>1, <1>2, <1>3, <1>4

LEMMA NoChangesMatch ==
    ASSUME NEW m \in 1 .. MaxState
    PROVE  NoChanges[m] = <<>>
BY DEF NoChanges

LEMMA CacheOfInit == Init => CInv
<1> SUFFICES ASSUME Init PROVE CInv
  OBVIOUS
<1>1. Numbers
  BY Names DEF Init, Numbers
<1>2. \A m \in 1 .. MaxState : NoLog[m].actions = <<>>
  <2> DEFINE actions == LogOf(<<>>).actions
             T == [key : Key, action : Action]
  <2>1. <<>> \in Seq(ChangeOf) /\ DOMAIN <<>> = {}
    OBVIOUS
  <2>2. LogOf(<<>>) \in Logged /\ DOMAIN actions = DOMAIN <<>>
    BY <2>1, LogOfIs
  <2>3. actions \in Seq(T)
    BY <2>2 DEF Logged
  <2>4. actions = <<>>
    <3> HIDE DEF actions, T
    <3>1. Len(actions) \in Nat /\ DOMAIN actions = 1 .. Len(actions)
      BY <2>3
    <3>2. Len(actions) = 0
      BY <2>1, <2>2, <3>1
    <3> QED  BY <2>3, <3>2, EmptySeq
  <2> QED  BY <2>4 DEF NoLog
<1>3. Log(table) /\ tableDisk = table
  <2>1. table.log = NoLog /\ \A m \in 0 .. MaxState : snapshot[m] = NoObjects
    BY DEF Init
  <2>2. table.tag = 1 /\ tableDisk = table
    BY DEF Init
  <2>3. \A m \in 1 .. 1 : Tells(table.log[m], snapshot[m - 1], snapshot[m])
    BY <1>2, <2>1, NothingTells, Names
  <2> QED  BY <1>2, <2>1, <2>2, <2>3 DEF Log
<1>4. Pending /\ Cache
  BY DEF Init, Pending, Cache
<1> QED  BY <1>1, <1>3, <1>4, TypeOfInit DEF CInv, Logs

LEMMA OpenBridges ==
    ASSUME CInv, Open
    PROVE  Numbers' /\ Logs' /\ Pending' /\ Cache'
<1> USE DEF CInv, Open
<1>1. tableDisk.tag \in 1 .. MaxState /\ MaxState \in Nat
      /\ snapshot \in [0 .. MaxState -> [Key -> Content]]
  BY Names DEF TypeOK, TableFile
<1>2. \A m \in 0 .. MaxState :
         snapshot'[m] = IF m <= tableDisk.tag THEN snapshot[m] ELSE tableDisk.objects
  BY <1>1
<1>3. tableDisk.objects = snapshot[tableDisk.tag] /\ ~writing /\ mStateObjectChanges = <<>>
      /\ mChangeCache = NoChanges
  BY DEF Numbers, Cache
<1>4. Numbers'
  BY <1>1, <1>2, <1>3 DEF Numbers
<1>5. Log(tableDisk)'
  <2>1. \A m \in 1 .. tableDisk.tag : snapshot'[m] = snapshot[m] /\ snapshot'[m - 1] = snapshot[m - 1]
    BY <1>1, <1>2
  <2> QED  BY <2>1 DEF Logs, Log, Tells, At
<1>6. Logs'
  <2>1. table' = tableDisk'
    OBVIOUS
  <2> HIDE DEF Open, CInv
  <2> QED  BY <1>5, <2>1 DEF Logs, Log, Tells, At
<1>7. Pending' /\ Cache'
  BY <1>3 DEF Pending, Cache
<1> QED  BY <1>4, <1>6, <1>7

LEMMA OpenedBridges ==
    ASSUME CInv, Opened
    PROVE  Numbers' /\ Logs' /\ Pending' /\ Cache'
<1> USE DEF CInv, Opened, tableVars
<1>1. Numbers'
  BY DEF Numbers
<1>2. Logs'
  BY DEF Logs, Log, Tells, At
<1>3. Pending'
  BY DEF Numbers, Pending
<1>4. Cache'
  BY NoChangesMatch DEF Cache, Cached
<1> QED  BY <1>1, <1>2, <1>3, <1>4

LEMMA BeginBridges ==
    ASSUME CInv, begin
    PROVE  Numbers' /\ Logs' /\ Pending' /\ Cache'
<1> USE DEF CInv, begin
<1>1. Numbers'
  BY DEF Numbers
<1>2. Logs'
  BY DEF Logs, Log, Tells, At
<1>3. Pending'
  BY DEF Numbers, Pending, At
<1>4. Cache'
  BY DEF Cache, Cached, Matches, LastOf, At
<1> QED  BY <1>1, <1>2, <1>3, <1>4

\* Writing an object appends the change that leads to it.
LEMMA ObjectWriteBridges ==
    ASSUME CInv, writing, NEW key \in Key, NEW new \in Content, WriteObject(key, new),
           UNCHANGED <<up, tableDisk, table, mStateNumber, writing, mChangeCache, snapshot>>,
           "cache" \in spoiled' <=> "cache" \in spoiled
    PROVE  Numbers' /\ Logs' /\ Pending' /\ Cache'
<1> DEFINE changes == mStateObjectChanges
           change == Change(key, Visible(work[key]), new, ActionOf(work[key], new))
           last == Len(changes) + 1
<1> USE DEF CInv
<1>1. changes \in Seq(ChangeOf) /\ work \in [Key -> Content]
  BY DEF TypeOK
<1>2. work'[key] = new /\ \A k \in Key \ {key} : work'[k] = work[k]
  BY <1>1 DEF WriteObject
<1>3. changes' = Append(changes, change) /\ change.key = key
  BY DEF WriteObject, Change
<1>4. last \in Nat /\ DOMAIN changes = 1 .. last - 1
  BY <1>1
<1>5. /\ DOMAIN changes' = 1 .. last
      /\ changes'[last] = change
      /\ \A i \in DOMAIN changes : i \in DOMAIN changes' /\ changes'[i] = changes[i]
  <2> HIDE DEF change, changes
  <2> QED  BY <1>1, <1>3
<1> HIDE DEF change, last
<1>6. \A k : k # key => At(k, changes)' = At(k, changes)
  BY <1>3, <1>4, <1>5 DEF At
<1>7. At(key, changes)' = At(key, changes) \cup {last} /\ last \notin At(key, changes)
  BY <1>3, <1>4, <1>5 DEF At
<1>8. Numbers'
  BY DEF Numbers
<1>9. Logs'
  BY DEF Logs, Log, Tells, At
<1>10. Pending'
  <2> SUFFICES ASSUME NEW k \in Key
               PROVE  /\ At(k, changes)' = {} => work'[k] = table.objects[k]
                      /\ \A i \in DOMAIN changes' : At(k, changes)' = {i} =>
                            changes'[i] = Change(k, Visible(table.objects[k]), work'[k],
                                                 ActionOf(table.objects[k], work'[k]))
    BY DEF Pending, At
  <2>0. /\ At(k, changes) = {} => work[k] = table.objects[k]
        /\ \A i \in DOMAIN changes : At(k, changes) = {i} =>
              changes[i] = Change(k, Visible(table.objects[k]), work[k],
                                  ActionOf(table.objects[k], work[k]))
    BY DEF Pending
  <2>1. CASE k = key
    <3>1. \A i : At(key, changes)' = {i} => i = last /\ At(key, changes) = {}
      BY <1>7
    <3>2. At(key, changes)' # {}
      BY <1>7
    <3> QED  BY <1>2, <1>5, <2>0, <2>1, <3>1, <3>2 DEF change
  <2>2. CASE k # key
    <3>1. At(k, changes)' = At(k, changes) /\ work'[k] = work[k]
      BY <1>2, <1>6, <2>2
    <3>2. \A i \in DOMAIN changes' : At(k, changes)' = {i} => i \in DOMAIN changes
      BY <3>1 DEF At
    <3> QED  BY <1>5, <2>0, <3>1, <3>2
  <2> QED  BY <2>1, <2>2
<1>11. Cache'
  <2>1. up = "open"
    BY DEF Numbers
  <2> SUFFICES ASSUME Cached(mChangeCache) PROVE Cached(mChangeCache)'
    BY <2>1 DEF Cache
  <2> SUFFICES ASSUME NEW m \in 1 .. MaxState, mChangeCache[m] # <<>>
               PROVE  m <= mStateNumber /\ Matches(mChangeCache[m], m)'
    BY DEF Cached
  <2>2. m <= mStateNumber /\ Matches(mChangeCache[m], m)
    BY DEF Cached
  <2>3. \A k \in Key : LastOf(k, m)' => LastOf(k, m) /\ work'[k] = work[k]
    <3> SUFFICES ASSUME NEW k \in Key, LastOf(k, m)' PROVE LastOf(k, m) /\ work'[k] = work[k]
      OBVIOUS
    <3>1. k # key
      BY <1>7 DEF LastOf
    <3>2. At(k, changes)' = At(k, changes)
      BY <1>6, <3>1
    <3> QED  BY <1>2, <3>1, <3>2 DEF LastOf, At
  <2>4. mChangeCache[m] \in Seq(ChangeOf)
    BY DEF TypeOK
  <2>5. \A i \in DOMAIN mChangeCache[m] : mChangeCache[m][i].key \in Key
    <3>1. \A i \in DOMAIN mChangeCache[m] : mChangeCache[m][i] \in ChangeOf
      BY <2>4
    <3> QED  BY <3>1 DEF ChangeOf
  <2> QED  BY <2>2, <2>3, <2>5 DEF Matches, At
<1> QED  BY <1>8, <1>9, <1>10, <1>11

\* A commit puts what the transaction did into the log, and into a cache that is used.
LEMMA CommitBridges ==
    ASSUME CInv, NEW n \in 1 .. MaxState, NEW failed \in SUBSET mBdbTransactions,
           commit(n, failed)
    PROVE  Numbers' /\ Logs' /\ Pending' /\ Cache'
<1> USE DEF CInv, commit, EndTransaction
<1>1. /\ up = "open" /\ tableDisk.tag \in 1 .. MaxState /\ table.tag \in 1 .. MaxState
      /\ tableDisk.tag <= table.tag /\ table.tag <= mStateNumber /\ mStateNumber < n
      /\ mStateNumber \in 1 .. MaxState /\ MaxState \in Nat
      /\ table.log \in [1 .. MaxState -> Logged]
      /\ tableDisk.objects = snapshot[tableDisk.tag]
      /\ \A m \in table.tag .. MaxState : snapshot[m] = table.objects
  BY Names DEF Numbers, TypeOK, TableFile
<1>2. \A m \in 0 .. MaxState : snapshot'[m] = IF m < n THEN snapshot[m] ELSE work
  BY DEF TypeOK
<1>3. /\ Tells(LogOf(mStateObjectChanges), table.objects, work)
      /\ \A key : At(key, LogOf(mStateObjectChanges).actions) = At(key, mStateObjectChanges)
  BY LogTells
<1>4. /\ table'.objects = work /\ table'.tag = n
      /\ table'.log[n] = LogOf(mStateObjectChanges)
      /\ \A m \in 1 .. MaxState : m # n => table'.log[m] = table.log[m]
  BY <1>1
<1>5. Numbers'
  <2>1. tableDisk'.objects = snapshot'[tableDisk'.tag]
    BY <1>1, <1>2
  <2>2. \A m \in table'.tag .. MaxState : snapshot'[m] = table'.objects
    BY <1>1, <1>2, <1>4
  <2> QED  BY <1>1, <1>4, <2>1, <2>2 DEF Numbers
<1>6. Log(tableDisk)'
  <2>1. \A m \in 1 .. tableDisk.tag : snapshot'[m] = snapshot[m] /\ snapshot'[m - 1] = snapshot[m - 1]
    <3> HIDE DEF commit, CInv, EndTransaction
    <3> TAKE m \in 1 .. tableDisk.tag
    <3>1. m \in 0 .. MaxState /\ m - 1 \in 0 .. MaxState /\ m < n /\ m - 1 < n
      BY <1>1
    <3> QED  BY <1>2, <3>1
  <2>2. tableDisk' = tableDisk
    OBVIOUS
  <2>3. Log(tableDisk)
    BY DEF Logs
  <2> HIDE DEF commit, CInv, EndTransaction
  <2>4. \A m \in 1 .. tableDisk.tag : Tells(tableDisk.log[m], snapshot'[m - 1], snapshot'[m])
    BY <2>1, <2>3 DEF Log
  <2> QED  BY <2>2, <2>3, <2>4 DEF Log, Tells, At
<1>7. Log(table)'
  <2>0. Log(table)
    BY <1>1 DEF Logs
  <2> HIDE DEF commit, CInv, EndTransaction
  <2>1. ASSUME NEW m \in 1 .. n
        PROVE  Tells(table'.log[m], snapshot'[m - 1], snapshot'[m])
    <3>1. CASE m = n
      <4>1. n - 1 \in table.tag .. MaxState
        BY <1>1
      <4>2. snapshot'[n - 1] = table.objects /\ snapshot'[n] = work
        BY <1>1, <1>2, <4>1
      <4> QED  BY <1>3, <1>4, <3>1, <4>2
    <3>2. CASE m < n
      <4>1. snapshot'[m - 1] = snapshot[m - 1] /\ snapshot'[m] = snapshot[m]
            /\ table'.log[m] = table.log[m]
        <5>1. m \in 0 .. MaxState /\ m - 1 \in 0 .. MaxState /\ m < n /\ m - 1 < n
              /\ m \in 1 .. MaxState /\ m # n
          BY <1>1, <3>2
        <5> QED  BY <1>2, <1>4, <5>1
      <4>2. CASE m <= table.tag
        <5>1. m \in 1 .. table.tag
          BY <1>1, <4>2
        <5> QED  BY <2>0, <4>1, <5>1 DEF Log
      <4>3. CASE m > table.tag
        <5>1. m - 1 \in table.tag .. MaxState /\ m \in table.tag .. MaxState
          BY <1>1, <4>3
        <5>2. snapshot[m - 1] = table.objects /\ snapshot[m] = table.objects
          BY <1>1, <5>1
        <5>3. table.log[m].actions = <<>>
          <6>1. m \in table.tag + 1 .. MaxState
            BY <1>1, <4>3
          <6> QED  BY <2>0, <6>1 DEF Log
        <5> QED  BY <4>1, <5>2, <5>3, NothingTells
      <4> QED  BY <1>1, <4>2, <4>3
    <3> QED  BY <1>1, <3>1, <3>2
  <2>2. \A m \in n + 1 .. MaxState : table'.log[m].actions = <<>>
    <3> SUFFICES ASSUME NEW m \in n + 1 .. MaxState PROVE table'.log[m].actions = <<>>
      OBVIOUS
    <3>1. m \in table.tag + 1 .. MaxState /\ table'.log[m] = table.log[m]
      BY <1>1, <1>4
    <3> QED  BY <2>0, <3>1 DEF Log
  <2> QED  BY <1>4, <2>1, <2>2 DEF Log, Tells, At
<1>8. Pending'
  BY DEF Pending
<1>9. Cache'
  <2> SUFFICES ASSUME "cache" \notin spoiled PROVE Cached(mChangeCache)'
    BY <1>1 DEF Cache
  <2>1. Cached(mChangeCache)
    BY <1>1 DEF Cache
  <2> SUFFICES ASSUME NEW m \in 1 .. MaxState, mChangeCache'[m] # <<>>
               PROVE  m <= n /\ Matches(mChangeCache[m], m)'
    BY DEF Cached
  <2>2. mChangeCache \in [1 .. MaxState -> Seq(ChangeOf)]
    BY DEF TypeOK
  <2>3. CASE m = n
    <3>1. mChangeCache'[n] = mStateObjectChanges
      <4>1. CASE mChangeCache = NoChanges
        BY <2>3, <4>1, NoChangesMatch DEF CacheWith
      <4>2. CASE mChangeCache # NoChanges
        BY <2>2, <4>2 DEF CacheWith
      <4> QED  BY <4>1, <4>2
    <3>2. mStateObjectChanges \in Seq(ChangeOf)
      BY DEF TypeOK
    <3>3. /\ DOMAIN LogOf(mStateObjectChanges).actions = DOMAIN mStateObjectChanges
          /\ \A i \in DOMAIN mStateObjectChanges : LogOf(mStateObjectChanges).actions[i] =
                [key |-> mStateObjectChanges[i].key, action |-> mStateObjectChanges[i].action]
      BY <3>2, LogOfIs
    <3>4. \A i \in DOMAIN mStateObjectChanges :
             /\ LogOf(mStateObjectChanges).actions[i].key = mStateObjectChanges[i].key
             /\ LogOf(mStateObjectChanges).actions[i].action = mStateObjectChanges[i].action
      <4> SUFFICES ASSUME NEW i \in DOMAIN mStateObjectChanges
                   PROVE  /\ LogOf(mStateObjectChanges).actions[i].key = mStateObjectChanges[i].key
                          /\ LogOf(mStateObjectChanges).actions[i].action
                                 = mStateObjectChanges[i].action
        OBVIOUS
      <4>1. LogOf(mStateObjectChanges).actions[i] =
               [key |-> mStateObjectChanges[i].key, action |-> mStateObjectChanges[i].action]
        BY <3>3
      <4> QED  BY <4>1
    <3>5. snapshot'[n - 1] = table.objects /\ work' = work
      <4>1. n - 1 \in table.tag .. MaxState /\ n - 1 \in 0 .. MaxState /\ n - 1 < n
        BY <1>1
      <4>2. snapshot'[n - 1] = snapshot[n - 1] /\ snapshot[n - 1] = table.objects
        <5> HIDE DEF commit, CInv, EndTransaction
        <5> QED  BY <1>1, <1>2, <4>1
      <4>3. work' = work
        OBVIOUS
      <4> QED  BY <4>2, <4>3
    <3>6. ASSUME NEW i \in DOMAIN mStateObjectChanges,
                 At(mStateObjectChanges[i].key, mStateObjectChanges) = {i}
          PROVE  /\ mStateObjectChanges[i].old = Visible(table.objects[mStateObjectChanges[i].key])
                 /\ mStateObjectChanges[i].new = work[mStateObjectChanges[i].key]
      <4>1. mStateObjectChanges[i] \in ChangeOf
        BY <3>2
      <4>2. PICK key \in Key : mStateObjectChanges[i].key = key
        BY <4>1 DEF ChangeOf
      <4>3. mStateObjectChanges[i] = Change(key, Visible(table.objects[key]), work[key],
                                            ActionOf(table.objects[key], work[key]))
        BY <3>6, <4>2 DEF Pending
      <4> QED  BY <4>2, <4>3 DEF Change
    <3> HIDE DEF commit, CInv, EndTransaction
    <3> QED  BY <1>4, <2>3, <3>1, <3>3, <3>4, <3>5, <3>6 DEF Matches, At
  <2>4. CASE m # n
    <3>1. mChangeCache'[m] = mChangeCache[m]
      BY <2>2, <2>4 DEF CacheWith
    <3>2. m <= mStateNumber /\ Matches(mChangeCache[m], m)
      BY <2>1, <3>1 DEF Cached
    <3>3. m < n /\ snapshot'[m - 1] = snapshot[m - 1] /\ table'.log[m] = table.log[m] /\ work' = work
      <4>1. m < n /\ m - 1 \in 0 .. MaxState /\ m - 1 < n
        BY <1>1, <3>2
      <4>2. snapshot'[m - 1] = snapshot[m - 1]
        BY <1>2, <4>1
      <4> QED  BY <1>4, <2>4, <4>1, <4>2
    <3>4. \A key : LastOf(key, m)' => LastOf(key, m)
      <4> SUFFICES ASSUME NEW key, LastOf(key, m)' PROVE LastOf(key, m)
        OBVIOUS
      <4>1. \A l \in m + 1 .. n : At(key, table'.log[l].actions) = {}
        BY DEF LastOf, At
      <4>2. At(key, mStateObjectChanges) = {}
        <5>1. n \in m + 1 .. n
          BY <3>3
        <5> QED  BY <1>3, <1>4, <4>1, <5>1
      <4>3. \A l \in m + 1 .. mStateNumber : At(key, table.log[l].actions) = {}
        <5> SUFFICES ASSUME NEW l \in m + 1 .. mStateNumber
                     PROVE  At(key, table.log[l].actions) = {}
          OBVIOUS
        <5>1. l \in m + 1 .. n /\ l \in 1 .. MaxState /\ l # n
          BY <1>1
        <5> QED  BY <1>4, <4>1, <5>1
      <4> QED  BY <4>2, <4>3 DEF LastOf
    <3> HIDE DEF commit, CInv, EndTransaction
    <3> QED  BY <3>1, <3>2, <3>3, <3>4 DEF Matches, At
  <2> QED  BY <2>3, <2>4
<1> QED  BY <1>5, <1>6, <1>7, <1>8, <1>9 DEF Logs

LEMMA CommitFailsBridges ==
    ASSUME CInv, NEW n \in 1 .. MaxState, NEW failed \in SUBSET mBdbTransactions,
           commitFails(n, failed)
    PROVE  Numbers' /\ Logs' /\ Pending' /\ Cache'
<1> USE DEF CInv, commitFails, EndTransaction
<1>1. up = "open" /\ mStateNumber \in 0 .. MaxState /\ MaxState \in Nat
      /\ "cache" \in spoiled' /\ table.tag \in 1 .. MaxState /\ tableDisk.tag \in 1 .. MaxState
  BY Names DEF Numbers, TypeOK, TableFile
<1>2. Numbers'
  BY <1>1 DEF Numbers
<1>3. Logs'
  BY DEF Logs, Log, Tells, At
<1>4. Pending' /\ Cache'
  BY <1>1 DEF Pending, Cache
<1> QED  BY <1>2, <1>3, <1>4

\* What the cache has of an object the transaction did not write is as before it.
LEMMA AbortBridges ==
    ASSUME CInv, abort
    PROVE  Numbers' /\ Logs' /\ Pending' /\ Cache'
<1>0. /\ writing /\ work' = table.objects /\ writing' = FALSE /\ mStateObjectChanges' = <<>>
      /\ UNCHANGED <<up, tableDisk, table, mStateNumber, mChangeCache, snapshot>>
      /\ "cache" \notin spoiled' => "cache" \notin spoiled /\ CachedKeys \cap Written = {}
  BY DEF abort, EndTransaction
<1>1. up = "open"
  BY <1>0 DEF CInv, Numbers
<1>2. Numbers'
  BY <1>0, <1>1 DEF CInv, Numbers
<1>3. Logs'
  BY <1>0 DEF CInv, Logs, Log, Tells, At
<1>4. Pending'
  BY <1>0 DEF Pending
<1>5. ASSUME "cache" \notin spoiled', NEW m \in 1 .. MaxState, mChangeCache[m] # <<>>
      PROVE  m <= mStateNumber' /\ Matches(mChangeCache[m], m)'
  <2> DEFINE changes == mChangeCache[m]
  <2>1. m <= mStateNumber /\ Matches(changes, m)
    BY <1>0, <1>1, <1>5 DEF CInv, Cache, Cached
  <2>2. changes \in Seq(ChangeOf)
    BY DEF CInv, TypeOK
  <2>3. ASSUME NEW i \in DOMAIN changes
        PROVE  /\ work'[changes[i].key] = work[changes[i].key]
               /\ LastOf(changes[i].key, m)' => LastOf(changes[i].key, m)
    <3>1. changes[i].key \in CachedKeys
      BY DEF CachedKeys, CInv, TypeOK
    <3>2. At(changes[i].key, mStateObjectChanges) = {}
      BY <1>0, <1>5, <3>1 DEF Written, At
    <3>3. changes[i].key \in Key
      <4>1. changes[i] \in ChangeOf
        <5> HIDE DEF changes
        <5> QED  BY <2>2
      <4> HIDE DEF changes
      <4> QED  BY <4>1 DEF ChangeOf
    <3>4. work[changes[i].key] = table.objects[changes[i].key]
      BY <1>0, <3>2, <3>3 DEF CInv, Pending
    <3> QED  BY <1>0, <3>2, <3>4 DEF LastOf, At
  <2> QED  BY <1>0, <2>1, <2>3 DEF Matches, At
<1>6. Cache'
  BY <1>0, <1>1, <1>5 DEF Cache, Cached
<1> QED  BY <1>2, <1>3, <1>4, <1>6

\* What the log tells of a state is what the cache would hold of it.
LEMMA FromLogMatches ==
    ASSUME CInv, up = "open", "cache" \notin spoiled, NEW m \in 1 .. mStateNumber
    PROVE  Matches(FromLog(m), m)
<1> DEFINE actions == table.log[m].actions
           old == table.log[m].old
           before == snapshot[m - 1]
           after == snapshot[m]
<1>1. m \in 1 .. MaxState /\ m \in 1 .. table.tag
  BY Names DEF CInv, Numbers, TypeOK
<1>2. Tells(table.log[m], before, after)
  BY <1>1 DEF CInv, Logs, Log
<1>3. /\ DOMAIN FromLog(m) = DOMAIN actions
      /\ \A i \in DOMAIN actions :
            FromLog(m)[i] = Change(actions[i].key,
                IF actions[i].action # "Create" /\ actions[i].key \in DOMAIN old
                THEN old[actions[i].key] ELSE Absent,
                work[actions[i].key], actions[i].action)
  BY <1>1, FromLogIs DEF CInv
<1>4. actions \in Seq([key : Key, action : Action])
  BY <1>1 DEF CInv, TypeOK, TableFile, Logged
<1>5. \A i \in DOMAIN actions : actions[i].key \in Key
  <2> DEFINE T == [key : Key, action : Action]
  <2>1. actions \in Seq(T)
    BY <1>4
  <2> HIDE DEF actions, T
  <2>2. \A i \in DOMAIN actions : actions[i] \in T
    BY <2>1
  <2> QED  BY <2>2 DEF T
<1> HIDE DEF actions, old, before, after
<1>6. \A i \in DOMAIN actions : FromLog(m)[i].key = actions[i].key
                               /\ FromLog(m)[i].action = actions[i].action
                               /\ FromLog(m)[i].new = work[actions[i].key]
  BY <1>3 DEF Change
<1>7. \A key : At(key, FromLog(m)) = At(key, actions)
  BY <1>3, <1>6 DEF At
<1>8. ASSUME NEW i \in DOMAIN actions, At(actions[i].key, actions) = {i}
      PROVE  FromLog(m)[i].old = Visible(before[actions[i].key])
  <2> DEFINE key == actions[i].key
  <2>1. /\ actions[i].action = ActionOf(before[key], after[key])
        /\ key \in DOMAIN old <=> Live(before[key])
        /\ Live(before[key]) => old[key] = before[key]
    BY <1>2, <1>5, <1>8 DEF Tells, actions, old
  <2>2. FromLog(m)[i].old = IF actions[i].action # "Create" /\ key \in DOMAIN old
                            THEN old[key] ELSE Absent
    BY <1>3 DEF Change
  <2>3. Live(before[key]) => actions[i].action # "Create"
    BY <2>1 DEF ActionOf
  <2> HIDE DEF key
  <2> QED  BY <2>1, <2>2, <2>3, VisibleIs DEF key
<1>9. DOMAIN FromLog(m) = DOMAIN table.log[m].actions
  BY <1>3 DEF actions
<1> HIDE DEF FromLog
<1> QED  BY <1>6, <1>7, <1>8, <1>9 DEF Matches, actions, before

\* Reading the log keeps the cache, and leaves out no state that it reads.
LEMMA FetchedMatches ==
    ASSUME CInv, up = "open", "cache" \notin spoiled, NEW start \in Nat \ {0}
    PROVE  /\ Cached(Fetched(start))
           /\ \A m \in start .. mStateNumber :
                 DOMAIN Fetched(start)[m] = DOMAIN table.log[m].actions
                 /\ Matches(Fetched(start)[m], m)
<1>1. TypeOK /\ Cached(mChangeCache) /\ MaxState \in Nat /\ mStateNumber \in 0 .. MaxState
  BY Names DEF CInv, Cache, TypeOK
<1>2. /\ \A m \in 1 .. MaxState : Pruned(start)[m] \in {<<>>, mChangeCache[m]}
      /\ \A m \in 1 .. MaxState : Fetched(start)[m] =
            IF m \in start .. mStateNumber /\ Pruned(start)[m] = <<>>
            THEN FromLog(m) ELSE Pruned(start)[m]
  BY <1>1, FetchedTyped
<1>3. \A m \in 1 .. mStateNumber : Matches(FromLog(m), m)
  BY FromLogMatches
<1>4. ASSUME NEW m \in 1 .. MaxState, Fetched(start)[m] # <<>>
      PROVE  m <= mStateNumber /\ Matches(Fetched(start)[m], m)
  <2>1. CASE m \in start .. mStateNumber /\ Pruned(start)[m] = <<>>
    BY <1>1, <1>2, <1>3, <2>1
  <2>2. CASE ~(m \in start .. mStateNumber /\ Pruned(start)[m] = <<>>)
    <3>1. Fetched(start)[m] = mChangeCache[m] /\ mChangeCache[m] # <<>>
      BY <1>2, <1>4, <2>2
    <3> QED  BY <1>1, <3>1 DEF Cached
  <2> QED  BY <2>1, <2>2
<1>5. ASSUME NEW m \in start .. mStateNumber
      PROVE  Matches(Fetched(start)[m], m)
  <2>1. m \in 1 .. MaxState /\ m \in 1 .. mStateNumber
    BY <1>1
  <2>2. CASE Fetched(start)[m] = <<>>
    <3>1. Fetched(start)[m] = FromLog(m)
      BY <1>2, <2>1, <2>2
    <3> QED  BY <1>3, <2>1, <3>1
  <2>3. CASE Fetched(start)[m] # <<>>
    BY <1>4, <2>1, <2>3
  <2> QED  BY <2>2, <2>3
<1> QED  BY <1>4, <1>5 DEF Cached, Matches

LEMMA CacheStepBridges ==
    ASSUME CInv, flushCaches \/ \E n \in 0 .. mStateNumber : changesSince(n)
    PROVE  Numbers' /\ Logs' /\ Pending' /\ Cache'
<1>1. UNCHANGED <<up, tableDisk, table, mStateNumber, writing, work,
                  mStateObjectChanges, snapshot, indexVars, spoiled>> /\ up = "open"
  BY DEF flushCaches, changesSince
<1>2. Numbers'
  BY <1>1 DEF CInv, Numbers
<1>3. Logs'
  BY <1>1 DEF CInv, Logs, Log, Tells, At
<1>4. Pending'
  BY <1>1 DEF CInv, Pending, At
<1>5. ASSUME "cache" \notin spoiled PROVE Cached(mChangeCache)'
  <2>1. PICK cache : cache = mChangeCache'
    OBVIOUS
  <2>2. Cached(cache)
    <3>1. CASE flushCaches
      <4>1. cache = NoChanges
        BY <2>1, <3>1 DEF flushCaches
      <4> QED  BY <4>1, NoChangesMatch DEF Cached
    <3>2. ASSUME NEW n \in 0 .. mStateNumber, changesSince(n) PROVE Cached(cache)
      <4>1. mStateNumber \in Nat /\ n \in 0 .. mStateNumber
        BY Names DEF CInv, TypeOK
      <4>2. n \in Nat
        BY <4>1
      <4>3. Starting(n) \in Nat \ {0}
        BY <4>2, StartingIs
      <4>4. cache = Fetched(Starting(n))
        BY <2>1, <3>2 DEF changesSince
      <4> QED  BY <1>1, <1>5, <4>3, <4>4, FetchedMatches
    <3> QED  BY <3>1, <3>2
  <2> QED  BY <1>1, <2>1, <2>2 DEF Cached, Matches, LastOf, At
<1> QED  BY <1>1, <1>2, <1>3, <1>4, <1>5 DEF Cache

LEMMA SyncTableBridges ==
    ASSUME CInv, SyncTable
    PROVE  Numbers' /\ Logs' /\ Pending' /\ Cache'
<1> USE DEF CInv, SyncTable
<1>1. table.tag \in 1 .. MaxState /\ MaxState \in Nat
  BY Names DEF TypeOK, TableFile
<1>2. Numbers'
  BY <1>1 DEF Numbers
<1>3. Logs'
  <2>1. tableDisk' = table /\ UNCHANGED <<up, table, snapshot>> /\ Log(table)
    BY DEF Logs
  <2> HIDE DEF CInv, SyncTable
  <2> QED  BY <2>1 DEF Logs, Log, Tells, At
<1>4. Pending'
  BY DEF Pending
<1>5. Cache'
  BY DEF Cache, Cached, Matches, LastOf, At
<1> QED  BY <1>2, <1>3, <1>4, <1>5

LEMMA DownBridges ==
    ASSUME CInv, Down, UNCHANGED snapshot, tableDisk' = tableDisk \/ (up = "open" /\ tableDisk' = table)
    PROVE  Numbers' /\ Logs' /\ Pending' /\ Cache'
<1> USE DEF Down, EndTransaction
<1>1. table.tag \in 1 .. MaxState /\ MaxState \in Nat
  BY Names DEF CInv, TypeOK, TableFile
<1>2. Numbers'
  BY <1>1 DEF CInv, Numbers
<1>3. Logs'
  <2>1. Log(tableDisk) /\ (up = "open" => Log(table))
    BY DEF CInv, Logs
  <2>2. CASE tableDisk' = tableDisk
    BY <2>1, <2>2 DEF Logs, Log, Tells, At
  <2>3. CASE up = "open" /\ tableDisk' = table
    <3>1. Log(table) /\ tableDisk' = table /\ snapshot' = snapshot /\ up' = "down"
      BY <2>1, <2>3
    <3> HIDE DEF Down, EndTransaction
    <3> QED  BY <3>1 DEF Logs, Log, Tells, At
  <2> QED  BY <2>2, <2>3
<1>4. Pending' /\ Cache'
  BY DEF Pending, Cache
<1> QED  BY <1>2, <1>3, <1>4

\* The log tells what led from each state to the next, and so does the cache,
\* after every step.
LEMMA CInvariance == Spec => []CInv
<1>1. CInv /\ [Next]_vars => Numbers' /\ Logs' /\ Pending' /\ Cache'
  <2> SUFFICES ASSUME CInv, [Next]_vars PROVE Numbers' /\ Logs' /\ Pending' /\ Cache'
    OBVIOUS
  <2>0. TypeOK
    BY DEF CInv
  <2>1. CASE Open
    BY <2>1, OpenBridges
  <2>2. ASSUME NEW i \in Index, OpenIndex(i) PROVE Numbers' /\ Logs' /\ Pending' /\ Cache'
    <3>1. UNCHANGED <<up, tableVars>> /\ ("cache" \in spoiled' <=> "cache" \in spoiled)
      BY <2>2, Names DEF OpenIndex
    <3> QED  BY <3>1, ChangesUntouched
  <2>3. CASE Opened
    BY <2>3, OpenedBridges
  <2>4. CASE begin
    BY <2>4, BeginBridges
  <2>5. ASSUME NEW key \in Uuid, NEW new \in Value \cup {Deleted}, Write(key, new)
        PROVE  Numbers' /\ Logs' /\ Pending' /\ Cache'
    <3>1. key \in Key /\ new \in Content
      BY DEF Key, Content
    <3> QED  BY <2>5, <3>1, ObjectWriteBridges DEF Write
  <2>6. ASSUME NEW i \in UserIndex, NEW new \in {Definition, Deleted}, WriteIndexObject(i, new)
        PROVE  Numbers' /\ Logs' /\ Pending' /\ Cache'
    <3>1. i \in Key /\ new \in Content /\ i # "cache"
      BY Names DEF Key, Content, Index
    <3>2. /\ writing /\ WriteObject(i, new)
          /\ UNCHANGED <<up, tableDisk, table, mStateNumber, writing, mChangeCache, snapshot>>
          /\ "cache" \in spoiled' <=> "cache" \in spoiled
      BY <2>6, <3>1 DEF WriteIndexObject
    <3> QED  BY <3>1, <3>2, ObjectWriteBridges
  <2>7. ASSUME NEW n \in 1 .. MaxState, NEW failed \in SUBSET mBdbTransactions,
               commit(n, failed)
        PROVE  Numbers' /\ Logs' /\ Pending' /\ Cache'
    BY <2>7, CommitBridges
  <2>8. ASSUME NEW n \in 1 .. MaxState, NEW failed \in SUBSET mBdbTransactions,
               commitFails(n, failed)
        PROVE  Numbers' /\ Logs' /\ Pending' /\ Cache'
    BY <2>8, CommitFailsBridges
  <2>9. CASE flushCaches \/ \E n \in 0 .. mStateNumber : changesSince(n)
    BY <2>9, CacheStepBridges
  <2>10. CASE SyncTable
    BY <2>10, SyncTableBridges
  <2>11. ASSUME NEW i \in Index, SyncIndex(i) PROVE Numbers' /\ Logs' /\ Pending' /\ Cache'
    <3>1. UNCHANGED <<up, tableVars>> /\ ("cache" \in spoiled' <=> "cache" \in spoiled)
      BY <2>11 DEF SyncIndex
    <3> QED  BY <3>1, ChangesUntouched
  <2>12. ASSUME NEW done \in SUBSET mIndexes,
                NEW left \in SUBSET (UNION {indexWork[i] : i \in stuck}), close(done, left)
         PROVE  Numbers' /\ Logs' /\ Pending' /\ Cache'
    BY <2>12, DownBridges DEF close
  <2>13. CASE Crash
    BY <2>13, DownBridges DEF Crash
  <2>14. CASE UNCHANGED vars
    BY <2>14, ChangesUntouched DEF vars
  <2>15. CASE abort
    BY <2>15, AbortBridges
  <2> QED
    BY <2>1, <2>2, <2>3, <2>4, <2>5, <2>6, <2>7, <2>8, <2>9, <2>10, <2>11, <2>12, <2>13, <2>14,
       <2>15
       DEF Next
<1>2. TypeOK' /\ Numbers' /\ Logs' /\ Pending' /\ Cache' => CInv'
  BY DEF CInv
<1> QED  BY <1>1, <1>2, CacheOfInit, TypeIsKept, PTL DEF Spec

-----------------------------------------------------------------------------
(***************************************************************************)
(* What changesSince() makes of the changes.                               *)
(***************************************************************************)
LEMMA CollectedTyped ==
    ASSUME NEW kept \in SUBSET ChangeOf, NEW change \in ChangeOf
    PROVE  Collected(kept, change) \in SUBSET ChangeOf
<1>1. CASE kept = {}
  BY <1>1 DEF Collected
<1>2. CASE kept # {}
  <2>1. PICK before \in ChangeOf : Collected(kept, change) = Combined(before, change)
    <3>1. (CHOOSE before \in kept : TRUE) \in kept
      BY <1>2
    <3> QED  BY <1>2, <3>1 DEF Collected
  <2> QED  BY <2>1 DEF Combined, Change, ChangeOf, Action
<1> QED  BY <1>1, <1>2

\* The changes of one state, where they have a uuid at most once.
LEMMA CollectedOfIs ==
    ASSUME NEW key, NEW kept \in SUBSET ChangeOf, NEW changes \in Seq(ChangeOf)
    PROVE  /\ CollectedOf(key, kept, changes) \in SUBSET ChangeOf
           /\ At(key, changes) = {} => CollectedOf(key, kept, changes) = kept
           /\ \A at \in DOMAIN changes : At(key, changes) = {at} =>
                 CollectedOf(key, kept, changes) = Collected(kept, changes[at])
<1> DEFINE n == Len(changes)
           S == SUBSET ChangeOf
           Add(i, k) == IF changes[n + 1 - i].key = key
                        THEN Collected(k, changes[n + 1 - i]) ELSE k
           all == CHOOSE f : f = [i \in 0 .. n |-> IF i = 0 THEN kept ELSE
                                     IF changes[n + 1 - i].key = key
                                     THEN Collected(f[i - 1], changes[n + 1 - i]) ELSE f[i - 1]]
<1>1. n \in Nat /\ (\A i \in 1 .. n : changes[i] \in ChangeOf) /\ DOMAIN changes = 1 .. n
      /\ CollectedOf(key, kept, changes) = all[n]
  BY DEF CollectedOf
<1>2. PICK step : step = [i \in 1 .. n |-> [k \in S |-> Add(i, k)]]
  OBVIOUS
<1>3. \A i \in 1 .. n, k \in S : Add(i, k) \in S
  <2> SUFFICES ASSUME NEW i \in 1 .. n, NEW k \in S PROVE Add(i, k) \in S
    OBVIOUS
  <2>1. n + 1 - i \in 1 .. n
    BY <1>1
  <2>2. changes[n + 1 - i] \in ChangeOf
    BY <1>1, <2>1
  <2>3. Collected(k, changes[n + 1 - i]) \in S
    BY <2>2, CollectedTyped
  <2> QED  BY <2>3
<1>4. PICK f \in [0 .. n -> S] : f[0] = kept /\ \A i \in 1 .. n : f[i] = step[i][f[i - 1]]
  <2> HIDE DEF n, S, Add
  <2>1. n \in Nat
    BY <1>1
  <2>2. Steps(S, n, step) /\ kept \in S
    BY <1>2, <1>3 DEF Steps, S
  <2>3. Recursion(S, kept, n, step)
    BY <2>1, <2>2, RecursionExists
  <2> QED  BY <2>3 DEF Recursion
<1>5. \A i \in 1 .. n : f[i - 1] \in S /\ f[i] = Add(i, f[i - 1])
  <2> HIDE DEF Add, n, S
  <2>1. \A i \in 1 .. n : i - 1 \in 0 .. n
    BY <1>1
  <2> QED  BY <1>2, <1>4, <2>1
<1>6. f = [i \in 0 .. n |-> IF i = 0 THEN kept ELSE
              IF changes[n + 1 - i].key = key
              THEN Collected(f[i - 1], changes[n + 1 - i]) ELSE f[i - 1]]
  <2> HIDE DEF n, S
  <2>1. \A i \in 0 .. n : i = 0 \/ i \in 1 .. n
    BY <1>1
  <2> QED  BY <1>4, <1>5, <2>1
<1>7. all = [i \in 0 .. n |-> IF i = 0 THEN kept ELSE
                IF changes[n + 1 - i].key = key
                THEN Collected(all[i - 1], changes[n + 1 - i]) ELSE all[i - 1]]
  BY <1>6
<1> HIDE DEF all
<1>8. all[0] = kept /\ \A i \in 1 .. n : all[i] = Add(i, all[i - 1])
  <2> HIDE DEF n
  <2>1. 0 \in 0 .. n /\ \A i \in 1 .. n : i \in 0 .. n /\ i # 0
    BY <1>1
  <2> QED  BY <1>7, <2>1
<1> HIDE DEF n, S
<1>9. all[n] \in S
  <2>1. all[0] \in S
    BY <1>8 DEF S
  <2>2. \A i \in 1 .. n : all[i - 1] \in S => all[i] \in S
    BY <1>3, <1>8
  <2>3. \A i \in 0 .. n : all[i] \in S
    BY <1>1, <2>1, <2>2, Stays
  <2> QED  BY <1>1, <2>3
<1>10. ASSUME At(key, changes) = {} PROVE all[n] = kept
  <2>1. \A i \in 1 .. n : n + 1 - i \in 1 .. n
    BY <1>1
  <2>2. \A i \in 1 .. n : changes[n + 1 - i].key # key
    BY <1>1, <1>10, <2>1 DEF At
  <2>3. \A i \in 1 .. n : all[i - 1] \in {kept} => all[i] \in {kept}
    BY <1>8, <2>2
  <2> DEFINE One == {kept}
  <2>4. all[0] \in One /\ \A i \in 1 .. n : all[i - 1] \in One => all[i] \in One
    BY <1>8, <2>3
  <2> HIDE DEF One
  <2>5. \A i \in 0 .. n : all[i] \in One
    BY <1>1, <2>4, Stays
  <2> QED  BY <1>1, <2>5 DEF One
<1>11. ASSUME NEW at \in DOMAIN changes, At(key, changes) = {at}
       PROVE  all[n] = Collected(kept, changes[at])
  <2> DEFINE Good(i) == all[i] = IF i < n + 1 - at THEN kept ELSE Collected(kept, changes[at])
             T == {i \in Nat : i <= n => Good(i)}
  <2>1. at \in 1 .. n /\ changes[at].key = key /\ \A i \in 1 .. n : changes[i].key = key => i = at
    BY <1>1, <1>11 DEF At
  <2>2. 0 \in T
    BY <1>1, <1>8, <2>1
  <2>3. ASSUME NEW i \in Nat, i \in T PROVE i + 1 \in T
    <3> SUFFICES ASSUME i + 1 <= n PROVE Good(i + 1)
      OBVIOUS
    <3>1. Good(i) /\ i + 1 \in 1 .. n /\ (i + 1) - 1 = i /\ n + 1 - (i + 1) = n - i /\ n - i \in 1 .. n
      BY <1>1, <2>3
    <3>2. all[i + 1] = IF changes[n - i].key = key THEN Collected(all[i], changes[n - i]) ELSE all[i]
      BY <1>8, <3>1
    <3>3. CASE n - i = at
      <4>1. i < n + 1 - at /\ ~(i + 1 < n + 1 - at)
        BY <1>1, <2>1, <3>3
      <4> QED  BY <2>1, <3>1, <3>2, <3>3, <4>1
    <3>4. CASE n - i # at
      <4>1. all[i + 1] = all[i]
        BY <2>1, <3>1, <3>2, <3>4
      <4>2. i < n + 1 - at <=> i + 1 < n + 1 - at
        <5> HIDE DEF Good, T
        <5>1. n \in Nat /\ at \in Nat /\ i \in Nat /\ n - i # at
          BY <1>1, <2>1, <3>4
        <5> QED  BY ONLY <5>1
      <4> QED  BY <3>1, <4>1, <4>2
    <3> QED  BY <3>3, <3>4
  <2>4. Nat \subseteq T
    <3> HIDE DEF T
    <3> QED  BY <2>2, <2>3, SetInduction
  <2>5. Good(n)
    BY <1>1, <2>4
  <2> QED  BY <1>1, <2>1, <2>5
<1> QED  BY <1>1, <1>9, <1>10, <1>11 DEF S

\* The answer is collected state by state, from the first the caller has not seen.
Walks(answer, key, n) ==
    /\ Answer(key, n) = answer[MaxState]
    /\ \A m \in 0 .. MaxState : answer[m] =
          IF m <= n THEN {} ELSE CollectedOf(key, answer[m - 1], Fetched(n + 1)[m])

LEMMA AnswerIs ==
    ASSUME TypeOK, NEW key, NEW n \in Nat
    PROVE  \E answer \in [0 .. MaxState -> SUBSET ChangeOf] : Walks(answer, key, n)
<1> DEFINE start == n + 1
           cache == Fetched(start)
           S == SUBSET ChangeOf
           Add(m, k) == IF m < start THEN {} ELSE CollectedOf(key, k, cache[m])
           all == CHOOSE f : f = [m \in 0 .. MaxState |->
                      IF m < start THEN {} ELSE CollectedOf(key, f[m - 1], cache[m])]
<1>1. MaxState \in Nat /\ start \in Nat \ {0} /\ Starting(n) = start
  BY Names, StartingIs
<1>2. Answer(key, n) = all[MaxState]
  BY <1>1 DEF Answer
<1>3. \A m \in 1 .. MaxState : cache[m] \in Seq(ChangeOf)
  BY <1>1, FetchedTyped
<1> HIDE DEF cache
<1>4. PICK step : step = [m \in 1 .. MaxState |-> [k \in S |-> Add(m, k)]]
  OBVIOUS
<1>5. \A m \in 1 .. MaxState, k \in S : Add(m, k) \in S
  <2> SUFFICES ASSUME NEW m \in 1 .. MaxState, NEW k \in S PROVE Add(m, k) \in S
    OBVIOUS
  <2>1. CollectedOf(key, k, cache[m]) \in S
    BY <1>3, CollectedOfIs
  <2> QED  BY <2>1
<1>6. PICK f \in [0 .. MaxState -> S] :
              f[0] = {} /\ \A m \in 1 .. MaxState : f[m] = step[m][f[m - 1]]
  <2>1. {} \in S
    OBVIOUS
  <2> HIDE DEF S, Add
  <2>2. Steps(S, MaxState, step)
    BY <1>4, <1>5 DEF Steps
  <2>3. Recursion(S, {}, MaxState, step)
    BY <1>1, <2>1, <2>2, RecursionExists
  <2> QED  BY <2>3 DEF Recursion
<1>7. \A m \in 1 .. MaxState : f[m] = Add(m, f[m - 1])
  <2> HIDE DEF Add, S
  <2>1. \A m \in 1 .. MaxState : m - 1 \in 0 .. MaxState
    BY <1>1
  <2> QED  BY <1>4, <1>6, <2>1
<1>8. f = [m \in 0 .. MaxState |-> IF m < start THEN {} ELSE CollectedOf(key, f[m - 1], cache[m])]
  <2> HIDE DEF S
  <2>1. \A m \in 0 .. MaxState : m = 0 \/ m \in 1 .. MaxState
    BY <1>1
  <2>2. 0 < start
    BY <1>1
  <2> QED  BY <1>6, <1>7, <2>1, <2>2
<1>9. all = [m \in 0 .. MaxState |-> IF m < start THEN {} ELSE CollectedOf(key, all[m - 1], cache[m])]
  BY <1>8
<1> HIDE DEF all, S
<1>10. \A m \in 0 .. MaxState : m < start <=> m <= n
  BY <1>1
<1>11. all \in [0 .. MaxState -> S]
  <2>1. all[0] \in S
    BY <1>1, <1>9 DEF S
  <2>2. \A m \in 1 .. MaxState : all[m - 1] \in S => all[m] \in S
    <3> SUFFICES ASSUME NEW m \in 1 .. MaxState, all[m - 1] \in S PROVE all[m] \in S
      OBVIOUS
    <3>1. m \in 0 .. MaxState
      OBVIOUS
    <3>2. all[m] = Add(m, all[m - 1])
      BY <1>9, <3>1
    <3> QED  BY <1>5, <3>2
  <2>3. \A m \in 0 .. MaxState : all[m] \in S
    BY <1>1, <2>1, <2>2, Stays
  <2> QED  BY <1>9, <2>3
<1>12. Answer(key, n) = all[MaxState] /\ \A m \in 0 .. MaxState : all[m] =
           IF m <= n THEN {} ELSE CollectedOf(key, all[m - 1], Fetched(n + 1)[m])
  BY <1>2, <1>9, <1>10 DEF cache
<1>13. Walks(all, key, n)
  BY <1>12 DEF Walks
<1> QED  BY <1>11, <1>13 DEF S

\* What is collected leads from one object to another.
Leading(kept, from, to) ==
    \/ kept = {} /\ Visible(to) = from
    \/ \E d \in ChangeOf : kept = {d} /\ d.old = from /\ (d.action = "Create" => from = Absent)

\* One more state: what was collected up to it, and what the state adds to that.
LEMMA CollectedLeads ==
    ASSUME NEW from, NEW before, NEW after, NEW change \in ChangeOf,
           change.old = Visible(before), change.action = ActionOf(before, after),
           NEW kept, Leading(kept, from, before)
    PROVE  /\ Leading(Collected(kept, change), from, after)
           /\ \A d \in Collected(kept, change) : d.new = change.new
<1>1. CASE kept = {} /\ Visible(before) = from
  <2>1. Collected(kept, change) = {change} /\ change.old = from
    BY <1>1 DEF Collected
  <2>2. change.action = "Create" => from = Absent
    BY <1>1, VisibleIs DEF ActionOf
  <2> QED  BY <2>1, <2>2 DEF Leading
<1>2. ASSUME NEW d \in ChangeOf, kept = {d}, d.old = from, d.action = "Create" => from = Absent
      PROVE  /\ Leading(Collected(kept, change), from, after)
             /\ \A e \in Collected(kept, change) : e.new = change.new
  <2>1. Collected(kept, change) = Combined(d, change)
    BY <1>2 DEF Collected
  <2>2. CASE d.action = "Create" /\ change.action = "Remove"
    <3>1. ~Live(after)
      BY <2>2 DEF ActionOf
    <3>2. Collected(kept, change) = {}
      BY <2>1, <2>2 DEF Combined
    <3> QED  BY <1>2, <2>2, <3>1, <3>2, VisibleIs DEF Leading
  <2>3. CASE ~(d.action = "Create" /\ change.action = "Remove")
    <3> DEFINE e == Change(change.key, d.old, change.new,
                           IF change.action = "Remove" THEN "Remove" ELSE "Update")
    <3>1. Collected(kept, change) = {e}
      BY <2>1, <2>3 DEF Combined
    <3>2. e \in ChangeOf /\ e.old = from /\ e.action # "Create" /\ e.new = change.new
      BY <1>2 DEF Change, ChangeOf, Action
    <3> QED  BY <3>1, <3>2 DEF Leading
  <2> QED  BY <2>2, <2>3
<1> QED  BY <1>1, <1>2 DEF Leading

\* Nothing writes the uuid after state m.
Later(key, m) == \A l \in m + 1 .. mStateNumber : At(key, table.log[l].actions) = {}

\* What is collected up to state m leads to its object, and if nothing writes
\* the uuid after it to that of now.
LeadsTo(kept, key, from, m) ==
    /\ Leading(kept, from, snapshot[m][key])
    /\ Later(key, m) => \A d \in kept : Visible(d.new) = Visible(table.objects[key])

\* What is read between two write transactions.
Quiescent == CInv /\ up = "open" /\ ~writing /\ "cache" \notin spoiled

LEMMA QuiescentFacts ==
    ASSUME Quiescent
    PROVE  /\ TypeOK /\ MaxState \in Nat /\ mStateNumber \in 1 .. MaxState
           /\ mStateObjectChanges = <<>> /\ work = table.objects
           /\ \A m \in mStateNumber .. MaxState : snapshot[m] = table.objects
           /\ \A m \in 1 .. mStateNumber : Tells(table.log[m], snapshot[m - 1], snapshot[m])
<1> USE DEF Quiescent, CInv
<1>1. /\ TypeOK /\ MaxState \in Nat /\ mStateNumber \in 1 .. MaxState /\ table.tag = mStateNumber
      /\ mStateObjectChanges = <<>> /\ work = table.objects
      /\ \A m \in mStateNumber .. MaxState : snapshot[m] = table.objects
  BY Names DEF Numbers, TypeOK
<1>2. \A m \in 1 .. mStateNumber : Tells(table.log[m], snapshot[m - 1], snapshot[m])
  BY <1>1 DEF Numbers, Logs, Log
<1> QED  BY <1>1, <1>2

LEMMA CollectedOfOne ==
    ASSUME NEW key, NEW kept \in SUBSET ChangeOf, NEW changes \in Seq(ChangeOf),
           NEW i \in DOMAIN changes, At(key, changes) = {i}
    PROVE  CollectedOf(key, kept, changes) = Collected(kept, changes[i])
<1> DEFINE T == SUBSET ChangeOf
           S == Seq(ChangeOf)
<1>1. kept \in T /\ changes \in S
  OBVIOUS
<1> HIDE DEF T, S
<1>2. \A at \in DOMAIN changes : At(key, changes) = {at} =>
         CollectedOf(key, kept, changes) = Collected(kept, changes[at])
  BY <1>1, CollectedOfIs DEF T, S
<1> QED  BY <1>2

\* The states that nobody has gone through change nothing.
LEMMA WalkBeyond ==
    ASSUME Quiescent, NEW key \in Key, NEW from, NEW kept \in SUBSET ChangeOf,
           NEW m \in mStateNumber + 1 .. MaxState, NEW changes \in Seq(ChangeOf), changes = <<>>,
           LeadsTo(kept, key, from, m - 1)
    PROVE  LeadsTo(CollectedOf(key, kept, changes), key, from, m)
<1>1. CollectedOf(key, kept, changes) = kept
  <2>1. At(key, changes) = {}
    BY DEF At
  <2> QED  BY <2>1, CollectedOfIs
<1>2. m - 1 \in mStateNumber .. MaxState /\ m \in mStateNumber .. MaxState
      /\ (m - 1) + 1 .. mStateNumber = {}
  BY QuiescentFacts
<1>3. snapshot[m] = snapshot[m - 1]
  BY <1>2, QuiescentFacts
<1>4. Later(key, m - 1)
  BY <1>2 DEF Later
<1> QED  BY <1>1, <1>3, <1>4 DEF LeadsTo

\* A state of the log.
LEMMA WalkStep ==
    ASSUME Quiescent, NEW key \in Key, NEW from, NEW kept \in SUBSET ChangeOf,
           NEW m \in 1 .. mStateNumber, NEW changes \in Seq(ChangeOf), Matches(changes, m),
           \A i, j \in DOMAIN table.log[m].actions :
               table.log[m].actions[i].key = key /\ table.log[m].actions[j].key = key => i = j,
           LeadsTo(kept, key, from, m - 1)
    PROVE  LeadsTo(CollectedOf(key, kept, changes), key, from, m)
<1> DEFINE actions == table.log[m].actions
           before == snapshot[m - 1][key]
           after == snapshot[m][key]
<1>1. Tells(table.log[m], snapshot[m - 1], snapshot[m])
  BY QuiescentFacts
<1>2. DOMAIN changes = DOMAIN actions /\ \A i \in DOMAIN changes :
         changes[i].key = actions[i].key /\ changes[i].action = actions[i].action
  BY DEF Matches
<1>3. \A k : At(k, changes) = At(k, actions)
  BY <1>2 DEF At
<1>4. Later(key, m - 1) <=> At(key, actions) = {} /\ Later(key, m)
  <2>1. \A l : l \in (m - 1) + 1 .. mStateNumber <=> l = m \/ l \in m + 1 .. mStateNumber
    BY QuiescentFacts
  <2> QED  BY <2>1 DEF Later
<1>5. CASE At(key, actions) = {}
  <2>1. CollectedOf(key, kept, changes) = kept
    BY <1>3, <1>5, CollectedOfIs
  <2>2. after = before
    BY <1>1, <1>5 DEF Tells
  <2> QED  BY <1>4, <1>5, <2>1, <2>2 DEF LeadsTo
<1>6. CASE At(key, actions) # {}
  <2>1. PICK at \in DOMAIN actions : actions[at].key = key
    BY <1>6 DEF At
  <2>2. At(key, actions) = {at}
    BY <2>1 DEF At
  <2>3. At(key, changes) = {at} /\ at \in DOMAIN changes
    BY <1>2, <1>3, <2>1, <2>2
  <2>4. PICK change \in ChangeOf : change = changes[at]
    BY <2>3
  <2>5. actions[at].action = ActionOf(before, after)
    BY <1>1, <2>1, <2>2 DEF Tells
  <2>6. /\ changes[at].key = key /\ changes[at].old = Visible(before)
        /\ LastOf(key, m) => Visible(changes[at].new) = Visible(work[key])
    BY <1>2, <2>1, <2>3 DEF Matches
  <2>7. change.key = key /\ change.action = ActionOf(before, after) /\ change.old = Visible(before)
    BY <1>2, <2>3, <2>4, <2>5, <2>6
  <2>8. Later(key, m) => Visible(change.new) = Visible(table.objects[key])
    BY <2>4, <2>6, QuiescentFacts DEF LastOf, Later, At
  <2>9. CollectedOf(key, kept, changes) = Collected(kept, change)
    <3>1. CollectedOf(key, kept, changes) = Collected(kept, changes[at])
      BY <2>3, CollectedOfOne
    <3> QED  BY <2>4, <3>1
  <2>10. Leading(kept, from, before)
    BY DEF LeadsTo
  <2> HIDE DEF before, after, actions
  <2>11. /\ Leading(Collected(kept, change), from, after)
         /\ \A d \in Collected(kept, change) : d.new = change.new
    BY <2>7, <2>10, CollectedLeads, SMTT(30)
  <2> QED  BY <2>8, <2>9, <2>11 DEF LeadsTo, after
<1> QED  BY <1>5, <1>6

\* What is collected, from state n to the last one.
LEMMA AnswerLeads ==
    ASSUME Quiescent, NEW key \in Key, NEW n \in 0 .. mStateNumber, WrittenOnce(key, n)
    PROVE  LeadsTo(Answer(key, n), key, Visible(snapshot[n][key]), MaxState)
<1> DEFINE from == Visible(snapshot[n][key])
           cache == Fetched(n + 1)
<1>1. /\ TypeOK /\ MaxState \in Nat /\ mStateNumber \in 1 .. MaxState
      /\ n \in Nat /\ n <= mStateNumber /\ n + 1 \in Nat \ {0}
  BY QuiescentFacts
<1>2. PICK answer \in [0 .. MaxState -> SUBSET ChangeOf] : Walks(answer, key, n)
  <2>1. TypeOK /\ n \in Nat
    BY <1>1
  <2> HIDE DEF from, cache
  <2> QED  BY <2>1, AnswerIs
<1>3. /\ Cached(cache) /\ \A m \in n + 1 .. mStateNumber : Matches(cache[m], m)
      /\ \A m \in 1 .. MaxState : cache[m] \in Seq(ChangeOf)
  BY <1>1, FetchedMatches, FetchedTyped DEF Quiescent
<1>4. /\ Answer(key, n) = answer[MaxState]
      /\ \A m \in 0 .. MaxState : answer[m] =
            IF m <= n THEN {} ELSE CollectedOf(key, answer[m - 1], cache[m])
  BY <1>2 DEF Walks
<1> HIDE DEF cache, from
<1>5. ASSUME NEW m \in n + 1 .. MaxState, LeadsTo(answer[m - 1], key, from, m - 1)
      PROVE  LeadsTo(answer[m], key, from, m)
  <2>1. m \in 1 .. MaxState /\ m \in 0 .. MaxState /\ m - 1 \in 0 .. MaxState /\ ~(m <= n)
    BY <1>1
  <2>2. PICK kept \in SUBSET ChangeOf, changes \in Seq(ChangeOf) :
            kept = answer[m - 1] /\ changes = cache[m]
    BY <1>3, <2>1
  <2>3. answer[m] = CollectedOf(key, kept, changes) /\ LeadsTo(kept, key, from, m - 1)
    BY <1>4, <1>5, <2>1, <2>2
  <2>4. CASE m <= mStateNumber
    <3>1. m \in n + 1 .. mStateNumber /\ m \in 1 .. mStateNumber
      BY <1>1, <2>1, <2>4
    <3>2. Matches(changes, m)
      BY <1>3, <2>2, <3>1
    <3>3. \A i, j \in DOMAIN table.log[m].actions :
             table.log[m].actions[i].key = key /\ table.log[m].actions[j].key = key => i = j
      BY <3>1 DEF WrittenOnce
    <3>4. LeadsTo(CollectedOf(key, kept, changes), key, from, m)
      BY <2>3, <3>1, <3>2, <3>3, WalkStep
    <3> QED  BY <2>3, <3>4
  <2>5. CASE m > mStateNumber
    <3>1. m \in mStateNumber + 1 .. MaxState
      BY <1>1, <2>1, <2>5
    <3>2. changes = <<>>
      BY <1>1, <1>3, <2>1, <2>2, <2>5 DEF Cached
    <3>3. LeadsTo(CollectedOf(key, kept, changes), key, from, m)
      BY <2>3, <3>1, <3>2, WalkBeyond
    <3> QED  BY <2>3, <3>3
  <2> QED  BY <1>1, <2>1, <2>4, <2>5
<1>6. LeadsTo(answer[n], key, from, n)
  <2>1. n \in 0 .. MaxState /\ n <= n
    BY <1>1
  <2>2. answer[n] = {}
    BY <1>4, <2>1
  <2> QED  BY <2>2 DEF LeadsTo, Leading, from
<1> DEFINE T == {j \in Nat : n + j <= MaxState => LeadsTo(answer[n + j], key, from, n + j)}
<1>7. 0 \in T
  <2>1. n + 0 = n
    BY <1>1
  <2> QED  BY <1>6, <2>1
<1>8. ASSUME NEW j \in Nat, j \in T PROVE j + 1 \in T
  <2> SUFFICES ASSUME n + (j + 1) <= MaxState
               PROVE  LeadsTo(answer[n + (j + 1)], key, from, n + (j + 1))
    OBVIOUS
  <2> DEFINE m == n + (j + 1)
  <2>1. m \in n + 1 .. MaxState /\ m - 1 = n + j /\ n + j <= MaxState
    BY <1>1
  <2>2. LeadsTo(answer[m - 1], key, from, m - 1)
    BY <1>8, <2>1
  <2> HIDE DEF m
  <2>3. LeadsTo(answer[m], key, from, m)
    BY <1>5, <2>1, <2>2
  <2> QED  BY <2>3 DEF m
<1>9. Nat \subseteq T
  <2> HIDE DEF T
  <2> QED  BY <1>7, <1>8, SetInduction
<1>10. MaxState - n \in Nat /\ n + (MaxState - n) = MaxState
  BY <1>1
<1>11. LeadsTo(answer[MaxState], key, from, MaxState)
  <2>1. PICK j \in Nat : j = MaxState - n
    BY <1>10
  <2>2. j \in T /\ n + j = MaxState
    BY <1>9, <1>10, <2>1
  <2> QED  BY <2>2
<1> QED  BY <1>4, <1>11 DEF from

\* changesSince(n) bridges the states, for any objects, contents, length of the
\* log, size of a transaction and policy of the cache: with no answer for a uuid
\* its object is that of state n, and an answer tells the object of state n and
\* that of now.
THEOREM ChangesAreBridged == Spec => []ChangesBridge
<1>1. CInv => ChangesBridge
  <2> SUFFICES ASSUME CInv, up = "open", ~writing, "cache" \notin spoiled,
                      NEW key \in Key, NEW n \in 0 .. mStateNumber, WrittenOnce(key, n)
               PROVE  LET then == Visible(snapshot[n][key])
                          now == Visible(table.objects[key])
                          answer == Answer(key, n)
                      IN /\ answer = {} => then = now
                         /\ \A change \in answer : change.old = then /\ Visible(change.new) = now
    BY DEF ChangesBridge
  <2>1. Quiescent
    BY DEF Quiescent
  <2>2. LeadsTo(Answer(key, n), key, Visible(snapshot[n][key]), MaxState)
    BY <2>1, AnswerLeads
  <2>3. Later(key, MaxState) /\ snapshot[MaxState] = table.objects
    BY <2>1, QuiescentFacts DEF Later
  <2> QED  BY <2>2, <2>3 DEF LeadsTo, Leading
<1> QED  BY <1>1, CInvariance, PTL
=============================================================================
