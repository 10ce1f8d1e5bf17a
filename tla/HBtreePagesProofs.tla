-------------------------- MODULE HBtreePagesProofs --------------------------
(***************************************************************************)
(* Proofs about HBtreePages.  Its variables keep their types in every      *)
(* step.  Until the code has met one of its exposures, every step of the   *)
(* page store preserves the invariant Store of HBtreePagesInductive, and   *)
(* Store implies what HBtreePages promises of free pages, histories and    *)
(* markers.                                                                *)
(***************************************************************************)
EXTENDS HBtreePagesInductive, TLAPS

Typing == TypeOK /\ Ids /\ Flags

LEMMA ContentTypes ==
    /\ Absent \in Content
    /\ Torn \in Content
    /\ \A s, c \in Id, h \in SUBSET HistoryNode : Node(s, c, h) \in Content
    /\ \A s, c \in Id : Overflow(s, c) \in Content
    /\ \A r \in SUBSET Page : List(r) \in Content
    /\ NoPages \in [Page -> Content]
<1>1. 0 \in Id
    BY BoundsAssumption DEF Id
<1>2. QED
    BY <1>1 DEF Absent, Torn, Blank, Node, Overflow, List, NoPages, Content

LEMMA MarkerTypes ==
    /\ NewMarker \in MarkerPage
    /\ TornMarker \in MarkerPage
<1>1. 0 \in Id /\ 3 \in 3 .. (MaxPage + 1)
    BY BoundsAssumption DEF Id
<1>2. QED
    BY <1>1, ContentTypes DEF NewMarker, TornMarker, MarkerPage

LEMMA TypingInit == Init => Typing
<1> SUFFICES ASSUME Init PROVE Typing
    OBVIOUS
<1>1. 0 \in Id /\ 3 \in 3 .. (MaxPage + 1)
    BY BoundsAssumption DEF Id
<1>2. TypeOK
    BY <1>1, ContentTypes, MarkerTypes DEF Init, TypeOK, Exposures
<1>3. Ids
    BY DEF Init, Ids, NewMarker, InTxn
<1>4. Flags
    BY DEF Init, Flags, NewMarker
<1>5. QED
    BY <1>2, <1>3, <1>4 DEF Typing

LEMMA NewPageTypes ==
    ASSUME TypeOK, NEW p, CanTake(p)
    PROVE  p \in Page /\ LastPageAfter(p) \in 3 .. (MaxPage + 1)
<1>1. lastPage \in 3 .. (MaxPage + 1) /\ collectible \in SUBSET Page
    BY DEF TypeOK
<1>2. CASE p \in collectible
    BY <1>1, <1>2 DEF LastPageAfter
<1>3. CASE p \notin collectible
    BY <1>1, <1>3, BoundsAssumption DEF CanTake, LastPageAfter, Page
<1>4. QED
    BY <1>2, <1>3

LEMMA NewIdsTypes ==
    ASSUME TypeOK, Ids, InTxn
    PROVE  NewSync \in Id /\ NewCommit \in Id
<1>1. marker.revision \in Id /\ lastSynced \in Id
    BY DEF TypeOK, MarkerPage
<1>2. QED
    BY <1>1, BoundsAssumption DEF Ids, NewSync, NewCommit, Id

LEMMA TypingBegin == Typing /\ Begin => Typing'
<1> SUFFICES ASSUME Typing, Begin PROVE Typing'
    OBVIOUS
<1> USE DEF Typing
<1>1. TypeOK'
    BY DEF TypeOK, Begin, memory, storage, Present
<1>2. Ids' /\ Flags'
    BY DEF Ids, Flags, Begin, memory, storage, InTxn
<1>3. QED
    BY <1>1, <1>2

LEMMA TypingNewNode == ASSUME NEW p \in Page, Typing, NewNode(p) PROVE Typing'
<1> USE DEF Typing
<1>1. NewSync \in Id /\ NewCommit \in Id
    BY NewIdsTypes DEF NewNode, InTxn
<1>2. Node(NewSync, NewCommit, {}) \in Content
    BY <1>1, ContentTypes
<1>3. TypeOK'
    BY <1>2, NewPageTypes DEF TypeOK, NewNode, NewPage, ReusedAfter, storage
<1>4. Ids' /\ Flags'
    BY DEF Ids, Flags, NewNode, storage, InTxn
<1>5. QED
    BY <1>3, <1>4

LEMMA TypingTouch ==
    ASSUME NEW p \in Page, NEW q \in Page, NEW hasSpace \in BOOLEAN, Typing, Touch(p, q, hasSpace)
    PROVE  Typing'
<1> USE DEF Typing
<1>1. NewSync \in Id /\ NewCommit \in Id
    BY NewIdsTypes DEF Touch, InTxn
<1>2. marker.tree[p] \in Content
    BY DEF TypeOK, MarkerPage
<1>3. HistoryWith(p, hasSpace) \in SUBSET HistoryNode
    BY <1>2 DEF HistoryWith, HistoryNode, Content
<1>4. HistoryPages(marker.tree[p]) \in SUBSET Page
    BY <1>2 DEF HistoryPages, HistoryNode, Content
<1>5. Node(NewSync, NewCommit, HistoryWith(p, hasSpace)) \in Content
    BY <1>1, <1>3, ContentTypes
<1>6. ResidueWith(p, hasSpace) \in SUBSET Page
    BY <1>4 DEF ResidueWith, TypeOK
<1>7. TypeOK'
    BY <1>5, <1>6, NewPageTypes DEF TypeOK, Touch, NewPage, ReusedAfter, storage
<1>8. Ids' /\ Flags'
    BY DEF Ids, Flags, Touch, storage, InTxn
<1>9. QED
    BY <1>7, <1>8

LEMMA TypingRemoveDirty == ASSUME NEW p \in Page, Typing, RemoveDirty(p) PROVE Typing'
<1> USE DEF Typing
<1>1. HistoryPages(dirty[p]) \in SUBSET Page
    BY DEF TypeOK, HistoryPages, HistoryNode, Content
<1>2. TypeOK'
    BY <1>1, ContentTypes DEF TypeOK, RemoveDirty, storage
<1>3. Ids' /\ Flags'
    BY DEF Ids, Flags, RemoveDirty, storage, InTxn
<1>4. QED
    BY <1>2, <1>3

LEMMA TypingRemoveClean == ASSUME NEW p \in Page, Typing, RemoveClean(p) PROVE Typing'
<1> USE DEF Typing
<1>1. TypeOK'
    BY DEF TypeOK, RemoveClean, storage, memory
<1>2. Ids' /\ Flags'
    BY DEF Ids, Flags, RemoveClean, storage, memory, InTxn
<1>3. QED
    BY <1>1, <1>2

LEMMA TypingNewOverflow == ASSUME NEW p \in Page, Typing, NewOverflow(p) PROVE Typing'
<1> USE DEF Typing
<1>1. NewSync \in Id /\ NewCommit \in Id
    BY NewIdsTypes DEF NewOverflow, InTxn
<1>2. Overflow(NewSync, NewCommit) \in Content
    BY <1>1, ContentTypes
<1>3. TypeOK'
    BY <1>2, NewPageTypes DEF TypeOK, NewOverflow, NewPage, storage
<1>4. Ids' /\ Flags'
    BY DEF Ids, Flags, NewOverflow, storage, InTxn
<1>5. QED
    BY <1>3, <1>4

LEMMA TypingRemoveOverflow == ASSUME NEW p \in Page, Typing, RemoveOverflow(p) PROVE Typing'
<1> USE DEF Typing
<1>1. TypeOK'
    BY DEF TypeOK, RemoveOverflow, storage
<1>2. Ids' /\ Flags'
    BY DEF Ids, Flags, RemoveOverflow, storage, InTxn
<1>3. QED
    BY <1>1, <1>2

LEMMA SerializedTypes ==
    /\ \A c \in Content : Serialized(c) \in Content
    /\ TypeOK => CollectedPages \in SUBSET Page
    /\ TypeOK => CommittedTree \in [Page -> Content]
<1>1. \A c \in Content : Serialized(c) \in Content
    <2>1. TAKE c \in Content
    <2>2. c.history \ Collected(c) \in SUBSET HistoryNode
        BY DEF Content
    <2>3. QED
        BY <2>2 DEF Serialized, Content
<1>2. TypeOK => CollectedPages \in SUBSET Page
    <2>1. \A c \in Content : Collected(c) \in SUBSET HistoryNode
        BY DEF Collected, BeforeSync, SinceSync, Content
    <2>2. TypeOK => \A p \in Nodes(dirty) : \A h \in Collected(dirty[p]) : h.page \in Page
        BY <2>1 DEF TypeOK, Nodes, HistoryNode
    <2>3. QED
        BY <2>2 DEF CollectedPages
<1>3. TypeOK => CommittedTree \in [Page -> Content]
    BY <1>1, ContentTypes DEF TypeOK, CommittedTree, MarkerPage
<1>4. QED
    BY <1>1, <1>2, <1>3

LEMMA TypingCommit == Typing /\ Commit => Typing'
<1> SUFFICES ASSUME Typing, Commit PROVE Typing'
    OBVIOUS
<1> USE DEF Typing
<1>1. /\ marker \in MarkerPage
      /\ marker.revision \in Id /\ marker.revision + 1 \in Id
      /\ lastSynced \in Id /\ lastSynced + 1 \in Id
    <2>1. marker.revision \in Id /\ lastSynced \in Id /\ marker \in MarkerPage
        BY DEF TypeOK, MarkerPage
    <2>2. lastSynced <= marker.revision /\ marker.revision < MaxRevision
        BY DEF Ids, InTxn, Commit
    <2>3. QED
        BY <2>1, <2>2, BoundsAssumption DEF Id
<1>2. residue \in SUBSET Page
    BY DEF TypeOK
<1>3. marker' \in MarkerPage
    BY <1>1, <1>2, SerializedTypes DEF Commit, MarkerPage
<1>4. file' \in [Page -> Content]
    BY SerializedTypes DEF Commit, TypeOK
<1>5. unsynced' \in SUBSET Page
    BY DEF Commit, TypeOK, Present
<1>6. exposed' \in SUBSET Exposures
    BY DEF Commit, TypeOK, Exposures
<1>7. TypeOK'
    BY <1>3, <1>4, <1>5, <1>6, SerializedTypes, ContentTypes DEF Commit, EndTransaction, TypeOK
<1>8. marker'.revision = marker.revision + 1 /\ marker'.syncId = lastSynced + 1
    BY <1>1 DEF Commit, MarkerPage
<1>9. lastSynced <= marker.revision
    BY DEF Ids
<1>10. Ids'
    <2>1. /\ pc' = "idle" /\ lastSynced' = lastSynced /\ mk' = mk /\ dmk' = dmk
        BY DEF Commit, EndTransaction
    <2>2. /\ marker'.syncId \in {lastSynced', lastSynced' + 1}
          /\ marker'.syncId <= marker'.revision
          /\ lastSynced' <= marker'.revision
        BY <1>1, <1>8, <1>9, <2>1 DEF Id
    <2>3. QED
        BY <2>1, <2>2 DEF Ids, InTxn
<1>11. Flags'
    BY <1>1 DEF Flags, Commit, MarkerPage
<1>12. QED
    BY <1>7, <1>10, <1>11

LEMMA TypingCommitFails == ASSUME NEW n \in Page, Typing, CommitFails(n) PROVE Typing'
<1> USE DEF Typing
<1>1. PICK size \in 3 .. (MaxPage + 1) :
        LET written == {p \in Present(dirty) : p < n /\ p < size}
        IN  /\ file' = [p \in Page |-> IF p \in written THEN Serialized(dirty[p]) ELSE file[p]]
            /\ unsynced' = unsynced \cup written
    BY DEF CommitFails
<1>2. file' \in [Page -> Content] /\ unsynced' \in SUBSET Page
    BY <1>1, SerializedTypes DEF TypeOK, Present
<1>3. TypeOK'
    BY <1>2, ContentTypes DEF TypeOK, CommitFails, memory
<1>4. Ids' /\ Flags'
    BY DEF Ids, Flags, CommitFails, memory, InTxn
<1>5. QED
    BY <1>3, <1>4

LEMMA TypingAbort == Typing /\ Abort => Typing'
<1> SUFFICES ASSUME Typing, Abort PROVE Typing'
    OBVIOUS
<1> USE DEF Typing
<1>1. TypeOK'
    BY ContentTypes DEF TypeOK, Abort, EndTransaction, memory, storage
<1>2. Ids' /\ Flags'
    BY DEF Ids, Flags, Abort, EndTransaction, memory, storage, InTxn
<1>3. QED
    BY <1>1, <1>2

LEMMA SyncedMarkerTypes ==
    ASSUME TypeOK, NEW q \in Page \cup {NoPage}, NEW size \in 3 .. (MaxPage + 1)
    PROVE  /\ SyncedMarker(q, size) \in MarkerPage
           /\ OnDisk(SyncedMarker(q, size)) \in MarkerPage
           /\ SyncedMarker(q, size).syncId = marker.syncId
           /\ SyncedMarker(q, size).revision = marker.revision
           /\ OnDisk(SyncedMarker(q, size)).syncId = marker.syncId
           /\ OnDisk(SyncedMarker(q, size)).revision = marker.revision
<1>1. marker \in MarkerPage
    BY DEF TypeOK
<1>2. ResidueList \in SUBSET Page
    BY DEF TypeOK, ResidueList, MarkerPage
<1>3. SyncedMarker(q, size) \in MarkerPage
    BY <1>1, <1>2 DEF SyncedMarker, MarkerPage, NeedsOverflow
<1>4. OnDisk(SyncedMarker(q, size)) \in MarkerPage
    BY <1>3 DEF OnDisk, MarkerPage
<1>5. /\ SyncedMarker(q, size).syncId = marker.syncId
      /\ SyncedMarker(q, size).revision = marker.revision
    BY <1>1 DEF SyncedMarker, MarkerPage
<1>6. QED
    BY <1>3, <1>4, <1>5 DEF OnDisk, MarkerPage

LEMMA SyncDataTypes ==
    ASSUME TypeOK, Ids, NEW q \in Page \cup {NoPage}, NEW size \in 3 .. (MaxPage + 1),
           SyncData(q, size)
    PROVE  /\ lastPage' \in 3 .. (MaxPage + 1)
           /\ file' \in [Page -> Content]
           /\ unsynced' \in SUBSET Page
           /\ dmk' \in [1 .. 2 -> MarkerPage]
           /\ NeedsOverflow => q \in Page
           /\ marker.syncId = lastSynced + 1
<1>1. ResidueList \in SUBSET Page
    BY DEF TypeOK, ResidueList, MarkerPage
<1>2. List(ResidueList) \in Content
    BY <1>1, ContentTypes
<1>3. CASE NeedsOverflow
    BY <1>2, <1>3, NewPageTypes DEF SyncData, TypeOK, Ids
<1>4. CASE ~NeedsOverflow
    BY <1>4 DEF SyncData, TypeOK, Ids
<1>5. QED
    BY <1>3, <1>4

LEMMA TypingSyncMarker1 ==
    ASSUME NEW q \in Page \cup {NoPage}, NEW size \in 3 .. (MaxPage + 1), Typing,
           SyncMarker1(q, size)
    PROVE  Typing'
<1> USE DEF Typing
<1> DEFINE m == SyncedMarker(q, size)
<1>1. /\ m \in MarkerPage /\ OnDisk(m) \in MarkerPage
      /\ m.syncId = marker.syncId /\ m.revision = marker.revision
      /\ OnDisk(m).syncId = marker.syncId /\ OnDisk(m).revision = marker.revision
    BY SyncedMarkerTypes
<1>2. /\ lastPage' \in 3 .. (MaxPage + 1)
      /\ file' \in [Page -> Content]
      /\ unsynced' \in SUBSET Page
      /\ dmk' \in [1 .. 2 -> MarkerPage]
      /\ NeedsOverflow => q \in Page
      /\ marker.syncId = lastSynced + 1
    BY SyncDataTypes DEF SyncMarker1
<1>3. /\ marker \in MarkerPage /\ marker.syncId \in Id /\ marker.revision \in Id
      /\ lastSynced \in Id
    BY DEF TypeOK, MarkerPage
<1>4. lastSynced + 1 \in Id
    BY <1>2, <1>3
<1>5. /\ marker' \in MarkerPage
      /\ marker'.syncId = marker.syncId /\ marker'.revision = marker.revision
      /\ marker'.onOverflow = marker.onOverflow /\ marker'.overflowPage = marker.overflowPage
    BY <1>3 DEF SyncMarker1, MarkerPage
<1>6. mk' \in [1 .. 2 -> MarkerPage]
    BY <1>1 DEF SyncMarker1, TypeOK
<1>7. collectible' \in SUBSET Page
    <2>1. PreviousList \in SUBSET Page
        BY DEF PreviousList, TypeOK, MarkerPage, Flags
    <2>2. QED
        BY <1>3, <2>1 DEF SyncMarker1, TypeOK, MarkerPage
<1>8. exposed' \in SUBSET Exposures
    BY DEF SyncMarker1, SyncExposures, Exposures, TypeOK
<1>9. TypeOK'
    BY <1>1, <1>2, <1>4, <1>5, <1>6, <1>7, <1>8 DEF TypeOK, SyncMarker1, txn
<1>10. Ids'
    <2>1. \A i \in 1 .. 2 : mk'[i].syncId <= mk'[i].revision /\ dmk'[i].syncId <= dmk'[i].revision
        <3>1. \A i \in 1 .. 2 : dmk'[i].syncId <= dmk'[i].revision
            BY DEF Ids, SyncMarker1, SyncData
        <3>2. \A i \in 1 .. 2 : mk'[i] = OnDisk(m) \/ mk'[i] = mk[i]
            BY DEF SyncMarker1, TypeOK
        <3>3. QED
            BY <1>1, <3>1, <3>2 DEF Ids
    <2>2. pc' = "marker1" /\ lastSynced' = lastSynced + 1
        BY DEF SyncMarker1
    <2>3. marker.syncId <= marker.revision
        BY DEF Ids
    <2>4. QED
        BY <1>2, <1>5, <2>1, <2>2, <2>3 DEF Ids, InTxn
<1>11. Flags'
    <2>1. synced' = m
        BY DEF SyncMarker1
    <2>2. CASE NeedsOverflow
        <3>1. m.overflowPage = q
            BY <1>3, <2>2 DEF SyncedMarker, MarkerPage
        <3>2. q # NoPage
            BY <1>2, <2>2 DEF Page, NoPage
        <3>3. QED
            BY <1>5, <2>1, <3>1, <3>2 DEF Flags
    <2>3. CASE ~NeedsOverflow
        <3>1. m.overflowPage = marker.overflowPage /\ m.onOverflow = marker.onOverflow
            BY <1>3, <2>3 DEF SyncedMarker, MarkerPage, NeedsOverflow
        <3>2. QED
            BY <1>5, <2>1, <3>1 DEF Flags
    <2>4. QED
        BY <2>2, <2>3
<1>12. QED
    BY <1>9, <1>10, <1>11

LEMMA TypingSyncMarker1Fails ==
    ASSUME NEW q \in Page \cup {NoPage}, NEW size \in 3 .. (MaxPage + 1),
           NEW m \in {mk[1], TornMarker}, Typing, SyncMarker1Fails(q, size, m)
    PROVE  Typing'
<1> USE DEF Typing
<1>1. /\ lastPage' \in 3 .. (MaxPage + 1)
      /\ file' \in [Page -> Content]
      /\ unsynced' \in SUBSET Page
      /\ dmk' \in [1 .. 2 -> MarkerPage]
    BY SyncDataTypes DEF SyncMarker1Fails
<1>2. m \in MarkerPage /\ mk' \in [1 .. 2 -> MarkerPage]
    BY MarkerTypes DEF SyncMarker1Fails, TypeOK
<1>3. exposed' \in SUBSET Exposures
    BY DEF SyncMarker1Fails, SyncExposures, Exposures, TypeOK
<1>4. TypeOK'
    BY <1>1, <1>2, <1>3 DEF TypeOK, SyncMarker1Fails, SyncData, txn
<1>5. Ids'
    <2>1. TornMarker.syncId <= TornMarker.revision
        BY DEF TornMarker, NewMarker
    <2>2. \A i \in 1 .. 2 : mk'[i] = TornMarker \/ mk'[i] = mk[i]
        BY DEF SyncMarker1Fails, TypeOK
    <2>3. QED
        BY <2>1, <2>2 DEF Ids, SyncMarker1Fails, SyncData, txn, InTxn
<1>6. Flags'
    BY DEF Flags, SyncMarker1Fails
<1>7. QED
    BY <1>4, <1>5, <1>6

LEMMA TypingSyncFsync == Typing /\ (SyncFsync \/ SyncFsyncFails \/ SyncMarker2) => Typing'
<1> SUFFICES ASSUME Typing, SyncFsync \/ SyncFsyncFails \/ SyncMarker2 PROVE Typing'
    OBVIOUS
<1> USE DEF Typing
<1>1. CASE SyncFsync
    BY <1>1 DEF SyncFsync, TypeOK, Ids, Flags, InTxn, memory, txn
<1>2. CASE SyncFsyncFails
    BY <1>2 DEF SyncFsyncFails, TypeOK, Ids, Flags, InTxn, memory, txn, storage, Exposures
<1>3. CASE SyncMarker2
    BY <1>3 DEF SyncMarker2, TypeOK, Ids, Flags, InTxn, memory, txn
<1>4. QED
    BY <1>1, <1>2, <1>3

LEMMA TypingSyncMarker2Fails ==
    ASSUME NEW m \in {mk[2], TornMarker}, Typing, SyncMarker2Fails(m)
    PROVE  Typing'
<1> USE DEF Typing
<1>1. m \in MarkerPage /\ mk' \in [1 .. 2 -> MarkerPage]
    BY MarkerTypes DEF SyncMarker2Fails, TypeOK
<1>2. TypeOK'
    BY <1>1 DEF TypeOK, SyncMarker2Fails, memory, txn
<1>3. TornMarker.syncId <= TornMarker.revision
    BY DEF TornMarker, NewMarker
<1>4. \A i \in 1 .. 2 : mk'[i] = TornMarker \/ mk'[i] = mk[i]
    BY DEF SyncMarker2Fails, TypeOK
<1>5. Ids' /\ Flags'
    BY <1>3, <1>4 DEF Ids, Flags, SyncMarker2Fails, memory, txn, InTxn
<1>6. QED
    BY <1>2, <1>5

LEMMA TypingForgetMemory ==
    ASSUME Typing, ForgetMemory,
           file' \in [Page -> Content], unsynced' \in SUBSET Page, exposed' \in SUBSET Exposures,
           mk' \in [1 .. 2 -> MarkerPage], dmk' \in [1 .. 2 -> MarkerPage],
           \A i \in 1 .. 2 : mk'[i].syncId <= mk'[i].revision /\ dmk'[i].syncId <= dmk'[i].revision
    PROVE  Typing'
<1>1. 0 \in Id /\ 3 \in 3 .. (MaxPage + 1)
    BY BoundsAssumption DEF Id
<1>2. TypeOK'
    BY <1>1, ContentTypes, MarkerTypes DEF ForgetMemory, TypeOK
<1>3. Ids' /\ Flags'
    BY DEF Ids, Flags, ForgetMemory, InTxn, NewMarker
<1>4. QED
    BY <1>2, <1>3 DEF Typing

LEMMA TypingStop == Typing /\ Stop => Typing'
BY TypingForgetMemory DEF Stop, storage, Typing, TypeOK, Ids

LEMMA SurvivorTypes ==
    ASSUME Typing, NEW i \in 1 .. 2, NEW m \in Survivors(i) \cup MixedLists(i)
    PROVE  m \in MarkerPage /\ m.syncId <= m.revision
<1> USE DEF Typing
<1>1. mk[i] \in MarkerPage /\ dmk[i] \in MarkerPage
    BY DEF TypeOK
<1>2. mk[i].syncId <= mk[i].revision /\ dmk[i].syncId <= dmk[i].revision
    BY DEF Ids
<1>3. CASE m \in Survivors(i)
    <2>1. TornMarker \in MarkerPage /\ TornMarker.syncId <= TornMarker.revision
        BY MarkerTypes DEF TornMarker, NewMarker
    <2>2. m \in {mk[i], dmk[i], TornMarker}
        BY <1>3 DEF Survivors
    <2>3. QED
        BY <1>1, <1>2, <2>1, <2>2
<1>4. CASE m \in MixedLists(i)
    <2>1. PICK n \in {mk[i], dmk[i]}, r \in SUBSET (mk[i].residue \cup dmk[i].residue) :
            m = [n EXCEPT !.residue = r]
        BY <1>4 DEF MixedLists
    <2>2. r \in SUBSET Page
        BY <1>1 DEF MarkerPage
    <2>3. QED
        BY <1>1, <1>2, <2>1, <2>2 DEF MarkerPage
<1>5. QED
    BY <1>3, <1>4

LEMMA TypingPowerLoss == ASSUME NEW lost, Typing, PowerLoss(lost) PROVE Typing'
<1>1. PICK m1 \in Survivors(1) \cup MixedLists(1), m2 \in Survivors(2) \cup MixedLists(2) :
        mk' = [i \in 1 .. 2 |-> IF i = 1 THEN m1 ELSE m2]
    BY DEF PowerLoss
<1>2. /\ m1 \in MarkerPage /\ m1.syncId <= m1.revision
      /\ m2 \in MarkerPage /\ m2.syncId <= m2.revision
    BY SurvivorTypes
<1>3. dmk' = mk' /\ mk' \in [1 .. 2 -> MarkerPage]
    BY <1>1, <1>2 DEF PowerLoss
<1>4. \A i \in 1 .. 2 : mk'[i].syncId <= mk'[i].revision
    BY <1>1, <1>2
<1>5. file' \in [Page -> Content] /\ unsynced' \in SUBSET Page
    BY ContentTypes DEF PowerLoss, Typing, TypeOK
<1>6. exposed' \in SUBSET Exposures
    BY DEF PowerLoss, Typing, TypeOK, Exposures
<1>7. QED
    BY <1>3, <1>4, <1>5, <1>6, TypingForgetMemory DEF PowerLoss

LEMMA TypingOpen == Typing /\ Open => Typing'
<1> SUFFICES ASSUME Typing, Open PROVE Typing'
    OBVIOUS
<1> USE DEF Typing
<1> DEFINE m == mk[Used]
<1>1. Used \in 1 .. 2
    BY DEF Used
<1>2. m \in MarkerPage /\ m.syncId \in Id /\ m.syncId <= m.revision /\ m.revision \in Id
    BY <1>1 DEF TypeOK, MarkerPage, Ids
<1>3. /\ marker' = [m EXCEPT !.residue = {}] /\ synced' = m /\ lastSynced' = m.syncId
      /\ HasList(m, file) /\ pc' = "idle"
    BY DEF Open
<1>4. /\ marker' \in MarkerPage
      /\ marker'.syncId = m.syncId /\ marker'.revision = m.revision
      /\ marker'.onOverflow = m.onOverflow /\ marker'.overflowPage = m.overflowPage
    BY <1>2, <1>3 DEF MarkerPage
<1>5. collectible' \in SUBSET Page
    <2>1. CASE m.onOverflow
        <3>1. m.overflowPage \in Page
            BY <1>2, <1>3, <2>1 DEF HasList, MarkerPage
        <3>2. file[m.overflowPage].list \in SUBSET Page
            BY <3>1 DEF TypeOK, Content
        <3>3. QED
            BY <2>1, <3>2 DEF Open
    <2>2. CASE ~m.onOverflow
        BY <1>2, <2>2 DEF Open, MarkerPage
    <2>3. QED
        BY <2>1, <2>2
<1>6. lastPage' \in 3 .. (MaxPage + 1)
    BY <1>2 DEF Open, MarkerPage
<1>7. file' \in [Page -> Content]
    BY ContentTypes DEF Open, TypeOK
<1>8. exposed' \in SUBSET Exposures
    BY DEF Open, TypeOK, Exposures
<1>9. TypeOK'
    BY <1>2, <1>3, <1>4, <1>5, <1>6, <1>7, <1>8 DEF TypeOK, Open, txn
<1>10. Ids'
    BY <1>2, <1>3, <1>4 DEF Ids, Open, InTxn
<1>11. Flags'
    BY <1>3, <1>4 DEF Flags, HasList
<1>12. QED
    BY <1>9, <1>10, <1>11

LEMMA TypingStutter == Typing /\ UNCHANGED vars => Typing'
BY DEF Typing, TypeOK, Ids, Flags, InTxn, vars, memory, txn, storage

LEMMA TypingNext == Typing /\ [Next]_vars => Typing'
BY TypingBegin, TypingNewNode, TypingTouch, TypingRemoveDirty, TypingRemoveClean,
   TypingNewOverflow, TypingRemoveOverflow, TypingCommit, TypingCommitFails, TypingAbort,
   TypingSyncMarker1, TypingSyncMarker1Fails, TypingSyncFsync, TypingSyncMarker2Fails,
   TypingStop, TypingPowerLoss, TypingOpen, TypingStutter
   DEF Next

\* Every variable of the page store (HBtreePrivate, hbtree_p.h, and the file) has
\* its type in every behaviour, also after failed writes, power losses and opens.
THEOREM TypeCorrect == Spec => []TypeOK
<1>1. Spec => []Typing
    BY TypingInit, TypingNext, PTL DEF Spec
<1>2. Typing => TypeOK
    BY DEF Typing
<1>3. QED
    BY <1>1, <1>2, PTL

-----------------------------------------------------------------------------
(***************************************************************************)
(* The store.                                                              *)
(***************************************************************************)
\* The exposures are never forgotten, so a step that ends without one began
\* without one.
LEMMA ExposedGrows == ASSUME Next \/ UNCHANGED vars PROVE exposed \subseteq exposed'
BY DEF Next, Begin, NewNode, RemoveDirty, RemoveClean, NewOverflow, RemoveOverflow, Touch, Commit,
       CommitFails, Abort, SyncMarker1, SyncMarker1Fails, SyncFsync, SyncFsyncFails, SyncMarker2,
       SyncMarker2Fails, Stop, PowerLoss, Open, vars

-----------------------------------------------------------------------------
(***************************************************************************)
(* Facts about trees.                                                      *)
(***************************************************************************)

LEMMA NodesPresent == ASSUME NEW t PROVE Nodes(t) \subseteq Present(t) /\ Present(t) \subseteq Page
BY DEF Nodes, Present

LEMMA NothingDirty == Present(NoPages) = {} /\ Nodes(NoPages) = {}
BY DEF Nodes, Present, NoPages, Absent, Blank

LEMMA HeldMembers ==
    ASSUME NEW t
    PROVE  /\ Present(t) \subseteq Held(t)
           /\ \A p \in Nodes(t) : HistoryPages(t[p]) \subseteq Held(t)
           /\ \A p \in Held(t) : p \in Present(t) \/ \E n \in Nodes(t) : p \in HistoryPages(t[n])
BY DEF Held

\* The pages a readable tree holds are in the file.
LEMMA HeldInFile ==
    ASSUME NEW t, TreeOK(t), \A p \in Present(t) : file[p] = t[p]
    PROVE  Held(t) \subseteq InFile
<1>1. Present(t) \subseteq InFile
    BY DEF Present, InFile
<1>2. \A p \in Nodes(t) : HistoryPages(t[p]) \subseteq InFile
    BY DEF TreeOK
<1>3. QED
    BY <1>1, <1>2 DEF Held

\* A step that keeps the pages of a marker, and loses none, keeps the marker.
LEMMA IntactKept ==
    ASSUME NEW m, Intact(m),
           \A p \in Present(m.tree) : file'[p] = file[p] /\ p \notin unsynced',
           m.onOverflow => file'[m.overflowPage] = file[m.overflowPage],
           \A p \in Held(m.tree) \cup FreeList(m) : p \in InFile => p \in InFile'
    PROVE  Intact(m)'
<1>1. FreeList(m)' = FreeList(m)
    BY DEF FreeList
<1>2. HasList(m, file)'
    BY DEF Intact, HasList
<1>3. TreeOK(m.tree)'
    <2>1. \A p \in Nodes(m.tree) : HistoryPages(m.tree[p]) \subseteq Held(m.tree)
        BY HeldMembers
    <2>2. \A p \in Nodes(m.tree) : HistoryPages(m.tree[p]) \subseteq InFile'
        BY <2>1 DEF Intact, TreeOK
    <2>3. QED
        BY <2>2 DEF Intact, TreeOK, HistoryOK
<1>4. FreeList(m) \subseteq InFile'
    BY DEF Intact
<1>5. QED
    BY <1>1, <1>2, <1>3, <1>4 DEF Intact

-----------------------------------------------------------------------------
(***************************************************************************)
(* The steps of a transaction touch neither the file nor what is committed. *)
(***************************************************************************)

LEMMA CommittedUnchanged ==
    ASSUME Store, pc \in {"idle", "txn", "failed"}, pc' \in {"idle", "txn", "failed"},
           UNCHANGED <<marker, synced, lastSynced, storage>>
    PROVE  Markers' /\ SyncedTree' /\ CommittedPages'
<1>1. \A m : Intact(m)' <=> Intact(m)
    BY DEF Intact, HasList, TreeOK, HistoryOK, InFile, FreeList, storage
<1>2. Openable' = Openable
    BY DEF Openable, Survivors, storage
<1>3. Markers'
    BY <1>1, <1>2 DEF Markers, StableMarker, Store, storage
<1>4. SyncedTree'
    BY <1>1 DEF SyncedTree, Store, BeforeSync, IsOpen
<1>5. CommittedPages'
    BY DEF CommittedPages, Store, TreeOK, HistoryOK, InFile, ListPages, storage, IsOpen
<1>6. QED
    BY <1>3, <1>4, <1>5

LEMMA StoreBegin == ASSUME Typing, Store, Begin PROVE Store'
<1>1. pc = "idle" /\ pc' = "txn" /\ UNCHANGED <<marker, synced, lastSynced, storage>>
    BY DEF Begin, memory
<1>2. Markers' /\ SyncedTree' /\ CommittedPages'
    BY <1>1, CommittedUnchanged
<1>3. dirty = NoPages /\ dirty' = NoPages /\ reused' = {}
    BY <1>1 DEF Begin, Store, NoTransaction
<1>4. reach' = Present(marker.tree) /\ Present(dirty') = {} /\ Nodes(dirty') = {}
    BY <1>3, NothingDirty DEF Begin
<1>5. Present(marker.tree) \subseteq Held(marker.tree)
    BY HeldMembers
<1>6. CommittedPages /\ FreePages /\ IsOpen
    BY <1>1 DEF Store, IsOpen
<1>7. NoTransaction' /\ DirtyPages'
    BY <1>1, <1>4 DEF NoTransaction, DirtyPages
<1>8. FreePages'
    BY <1>1, <1>3, <1>4, <1>5, <1>6 DEF FreePages, Begin, memory, storage, IsOpen, InFile, ListPages
<1>9. WorkTree'
    BY <1>1, <1>3, <1>4 DEF WorkTree
<1>10. WorkResidue'
    <2>1. residue' = residue /\ collectible' = collectible /\ file' = file
        BY DEF Begin, memory, storage
    <2>2. ASSUME ~leftover' PROVE residue = marker.residue
        BY <2>2 DEF Begin
    <2>3. \A p \in CleanNodes' : HistoryPages(marker'.tree[p]) \subseteq Held(marker.tree)
        BY <1>1, HeldMembers DEF CleanNodes
    <2>4. QED
        BY <1>1, <1>4, <1>5, <1>6, <2>1, <2>2, <2>3
           DEF WorkResidue, CommittedPages, FreePages, InFile, ListPages, IsOpen
<1>11. QED
    BY <1>2, <1>7, <1>8, <1>9, <1>10 DEF Store

\* The page a transaction gets is in nobody's hands.
LEMMA NewPageIsFree ==
    ASSUME Typing, Store, InTxn, NEW q \in Page, NewPage(q)
    PROVE  /\ q \notin Held(marker.tree) \cup Present(synced.tree) \cup ListPages(synced)
           /\ q \notin reach \cup Present(dirty)
           /\ \A n \in Nodes(dirty) : q \notin HistoryPages(dirty[n])
           /\ ~leftover => q \notin residue
           /\ q \notin collectible' /\ collectible' \subseteq collectible
           /\ q < lastPage'
           /\ lastPage \in Nat /\ lastPage <= lastPage'
           /\ q \in collectible => q \in InFile
<1>1. lastPage \in Nat /\ q \in Nat
    BY BoundsAssumption DEF Typing, TypeOK, Page
<1>2. IsOpen
    BY DEF InTxn, IsOpen
<1>3. \A p \in InFile : p < lastPage
    BY <1>2 DEF Store, FreePages
<1>4. Held(marker.tree) \subseteq InFile
    BY <1>2, HeldInFile DEF Store, CommittedPages
<1>5. Present(synced.tree) \subseteq InFile
    BY <1>2 DEF Store, SyncedTree, Intact, InFile, Present
<1>6. \A p \in Present(dirty) : p < lastPage
    BY DEF Store, DirtyPages
<1>7. reach \subseteq Held(marker.tree) \cup Present(dirty)
    BY HeldMembers DEF Store, WorkTree
<1>8. CASE q \in collectible
    <2>1. q \in InFile
        BY <1>2, <1>8 DEF Store, FreePages
    <2>2. lastPage' = lastPage /\ collectible' = collectible \ {q}
        BY <1>8 DEF NewPage, LastPageAfter
    <2>3. \A n \in Nodes(dirty) : q \notin HistoryPages(dirty[n])
        BY <1>8 DEF Store, WorkTree, DirtyHistory
    <2>4. ~leftover => q \notin residue
        BY <1>8 DEF Store, WorkResidue
    <2>5. q \notin Held(marker.tree) \cup Present(synced.tree) \cup ListPages(synced)
        BY <1>2, <1>8 DEF Store, FreePages
    <2>6. q \notin reach \cup Present(dirty)
        BY <1>2, <1>8 DEF Store, FreePages
    <2>7. QED
        BY <1>1, <1>3, <2>1, <2>2, <2>3, <2>4, <2>5, <2>6
<1>9. CASE q \notin collectible
    <2>1. q = lastPage /\ lastPage' = lastPage + 1 /\ collectible' = collectible \ {q}
        BY <1>9 DEF NewPage, CanTake, LastPageAfter
    <2>2. q \notin InFile /\ q \notin Present(dirty)
        BY <1>1, <1>3, <1>6, <2>1
    <2>3. q \notin ListPages(synced)
        BY <1>1, <1>2, <2>1 DEF Store, FreePages
    <2>4. \A n \in Nodes(dirty) : q \notin HistoryPages(dirty[n])
        BY <2>2 DEF Store, WorkTree, DirtyHistory
    <2>5. ~leftover => q \notin residue
        BY <2>2 DEF Store, WorkResidue
    <2>6. QED
        BY <1>1, <1>4, <1>5, <1>7, <1>9, <2>1, <2>2, <2>3, <2>4, <2>5
<1>10. QED
    BY <1>8, <1>9

\* A page added to the dirty ones.
LEMMA DirtyWith ==
    ASSUME NEW q \in Page, NEW c, dirty' = [dirty EXCEPT ![q] = c], dirty \in [Page -> Content],
           c.kind # "absent"
    PROVE  /\ Present(dirty') = Present(dirty) \cup {q}
           /\ Nodes(dirty') = IF c.kind = "node" THEN Nodes(dirty) \cup {q} ELSE Nodes(dirty) \ {q}
           /\ dirty'[q] = c
           /\ \A p \in Page \ {q} : dirty'[p] = dirty[p]
BY DEF Present, Nodes

\* What every action that takes a new page q keeps, before it is asked what it
\* does to the tree and the residue of the transaction.
LEMMA NewPageStep ==
    ASSUME Typing, Store, NEW q \in Page, NEW c, NewPage(q),
           pc = "txn", pc' = "txn", UNCHANGED <<marker, synced, lastSynced, leftover, storage>>,
           dirty' = [dirty EXCEPT ![q] = c], reach' \subseteq reach \cup {q},
           c.kind \in {"node", "overflow"},
           c.sync = lastSynced + 1, c.commit = marker.revision + 1
    PROVE  /\ NoTransaction' /\ Markers' /\ SyncedTree' /\ CommittedPages'
           /\ FreePages' /\ DirtyPages'
           /\ CleanNodes' = CleanNodes \cap reach'
           /\ Present(dirty') = Present(dirty) \cup {q}
           /\ Nodes(dirty') = IF c.kind = "node" THEN Nodes(dirty) \cup {q} ELSE Nodes(dirty)
           /\ dirty'[q] = c
           /\ q \notin Present(dirty) /\ \A p \in Present(dirty) : dirty'[p] = dirty[p]
           /\ InFile' = InFile /\ ListPages(synced)' = ListPages(synced)
<1>1. Markers' /\ SyncedTree' /\ CommittedPages'
    BY CommittedUnchanged
<1>2. /\ q \notin Held(marker.tree) \cup Present(synced.tree) \cup ListPages(synced)
      /\ q \notin reach \cup Present(dirty)
      /\ q \notin collectible' /\ collectible' \subseteq collectible
      /\ q < lastPage'
      /\ lastPage \in Nat /\ lastPage <= lastPage'
    BY NewPageIsFree DEF InTxn
<1>3. /\ Present(dirty') = Present(dirty) \cup {q}
      /\ Nodes(dirty') = IF c.kind = "node" THEN Nodes(dirty) \cup {q} ELSE Nodes(dirty) \ {q}
      /\ dirty'[q] = c /\ \A p \in Page \ {q} : dirty'[p] = dirty[p]
    BY DirtyWith DEF Typing, TypeOK
<1>4. \A p \in Present(dirty) : p # q /\ dirty'[p] = dirty[p]
    BY <1>2, <1>3, NodesPresent
<1>5. InFile' = InFile /\ ListPages(synced)' = ListPages(synced)
    BY DEF InFile, ListPages, storage
<1>6. NoTransaction'
    BY DEF NoTransaction
<1>7. \A p \in Page : p < lastPage => p < lastPage'
    <2>1. lastPage' \in Nat
        BY NewPageTypes DEF Typing, NewPage
    <2>2. QED
        BY <1>2, <2>1, BoundsAssumption DEF Page
<1>8. FreePages'
    <2>1. FreePages /\ IsOpen
        BY DEF Store, IsOpen
    <2>2. \A p \in InFile : p < lastPage'
        BY <1>7, <2>1 DEF FreePages, InFile, Present
    <2>3. \A p \in ListPages(synced) : p < lastPage'
        <3>1. ListPages(synced) \subseteq Page
            BY DEF ListPages, Typing, TypeOK, Flags, MarkerPage
        <3>2. QED
            BY <1>7, <2>1, <3>1 DEF FreePages
    <2>4. collectible' \cap (reach' \cup Present(dirty') \cup ListPages(synced)) = {}
        BY <1>2, <1>3, <2>1 DEF FreePages
    <2>5. collectible' \cap (Held(marker.tree) \cup Present(synced.tree) \cup marker.residue) = {}
        BY <1>2, <2>1 DEF FreePages
    <2>6. collectible' \subseteq InFile
        BY <1>2, <2>1 DEF FreePages
    <2>7. QED
        BY <1>5, <2>2, <2>3, <2>4, <2>5, <2>6 DEF FreePages
<1>9. DirtyPages'
    <2>1. \A p \in Present(dirty) : p < lastPage'
        BY <1>7, NodesPresent DEF Store, DirtyPages
    <2>2. QED
        BY <1>2, <1>3, <1>4, <1>5, <2>1 DEF Store, DirtyPages
<1>10. CleanNodes' = CleanNodes \cap reach'
    BY <1>2, HeldMembers, NodesPresent DEF CleanNodes
<1>11. Nodes(dirty) \ {q} = Nodes(dirty)
    BY <1>2, NodesPresent
<1>12. QED
    BY <1>1, <1>2, <1>3, <1>4, <1>5, <1>6, <1>8, <1>9, <1>10, <1>11

\* The history of a dirty node that a step of the transaction leaves alone.
LEMMA DirtyHistoryKept ==
    ASSUME NEW p \in Nodes(dirty), DirtyHistory(p),
           UNCHANGED <<marker, synced, lastSynced>>,
           dirty'[p] = dirty[p], InFile' = InFile,
           CleanNodes' \subseteq CleanNodes,
           HistoryPages(dirty[p]) \cap (collectible' \cup reach' \cup Present(dirty')) = {},
           \A n \in Nodes(dirty') \ {p} : HistoryPages(dirty[p]) \cap HistoryPages(dirty'[n]) = {}
    PROVE  DirtyHistory(p)'
BY DEF DirtyHistory, HistoryOK, ListPages, BeforeSync

LEMMA StoreNewNode == ASSUME Typing, Store, NEW q \in Page, NewNode(q) PROVE Store'
<1> DEFINE c == Node(NewSync, NewCommit, {})
<1>1. /\ pc = "txn" /\ pc' = "txn" /\ NewPage(q)
      /\ UNCHANGED <<marker, synced, lastSynced, leftover, storage>> /\ residue' = residue
      /\ dirty' = [dirty EXCEPT ![q] = c] /\ reach' = reach \cup {q} /\ reused' = ReusedAfter(q)
    BY DEF NewNode
<1>2. c.history = {} /\ HistoryPages(c) = {} /\ c.sync = lastSynced + 1
      /\ c.commit = marker.revision + 1 /\ c.kind = "node"
    BY DEF Node, HistoryPages, NewSync, NewCommit
<1>3. /\ NoTransaction' /\ Markers' /\ SyncedTree' /\ CommittedPages'
      /\ FreePages' /\ DirtyPages'
      /\ CleanNodes' = CleanNodes \cap reach'
      /\ Present(dirty') = Present(dirty) \cup {q}
      /\ Nodes(dirty') = Nodes(dirty) \cup {q}
      /\ dirty'[q] = c
      /\ q \notin Present(dirty) /\ \A p \in Present(dirty) : dirty'[p] = dirty[p]
      /\ InFile' = InFile /\ ListPages(synced)' = ListPages(synced)
    BY <1>1, <1>2, NewPageStep
<1>4. /\ \A n \in Nodes(dirty) : q \notin HistoryPages(dirty[n])
      /\ ~leftover => q \notin residue
      /\ q \notin collectible' /\ collectible' \subseteq collectible
      /\ q \notin ListPages(synced)
      /\ q \in collectible => q \in InFile
    BY <1>1, NewPageIsFree DEF InTxn
<1>5. WorkTree /\ WorkResidue /\ InTxn
    BY <1>1 DEF Store, InTxn
<1>6. \A p \in Nodes(dirty) : p # q /\ dirty'[p] = dirty[p]
    BY <1>3, NodesPresent
<1>7. WorkTree'
    <2>1. /\ reach' \subseteq Present(marker.tree) \cup Present(dirty')
          /\ Nodes(dirty') \subseteq reach'
          /\ reused' \subseteq Nodes(dirty') \cap InFile
        BY <1>1, <1>3, <1>4, <1>5 DEF WorkTree, ReusedAfter
    <2>2. DirtyHistory(q)'
        BY <1>2, <1>3 DEF DirtyHistory, HistoryOK
    <2>3. ASSUME NEW p \in Nodes(dirty) PROVE DirtyHistory(p)'
        <3>1. DirtyHistory(p)
            BY <1>5 DEF WorkTree
        <3>2. HistoryPages(dirty[p]) \cap (collectible' \cup reach' \cup Present(dirty')) = {}
            BY <1>1, <1>3, <1>4, <3>1 DEF DirtyHistory
        <3>3. \A n \in Nodes(dirty') \ {p} : HistoryPages(dirty[p]) \cap HistoryPages(dirty'[n]) = {}
            BY <1>2, <1>3, <1>6, <3>1 DEF DirtyHistory
        <3>4. QED
            BY <1>1, <1>3, <1>6, <3>1, <3>2, <3>3, DirtyHistoryKept
    <2>4. QED
        BY <1>1, <1>3, <2>1, <2>2, <2>3 DEF WorkTree
<1>8. WorkResidue'
    <2>1. \A p \in Nodes(dirty') : 
            HistoryPages(dirty'[p]) = {} \/ (p \in Nodes(dirty) /\ dirty'[p] = dirty[p])
        BY <1>2, <1>3, <1>6
    <2>2. QED
        BY <1>1, <1>3, <1>4, <1>5, <2>1 DEF WorkResidue
<1>9. QED
    BY <1>3, <1>7, <1>8 DEF Store

LEMMA StoreNewOverflow == ASSUME Typing, Store, NEW q \in Page, NewOverflow(q) PROVE Store'
<1> DEFINE c == Overflow(NewSync, NewCommit)
<1>1. /\ pc = "txn" /\ pc' = "txn" /\ NewPage(q)
      /\ UNCHANGED <<marker, synced, lastSynced, leftover, storage>> /\ residue' = residue
      /\ dirty' = [dirty EXCEPT ![q] = c] /\ reach' = reach \cup {q} /\ reused' = reused \ {q}
    BY DEF NewOverflow
<1>2. c.kind = "overflow" /\ c.sync = lastSynced + 1 /\ c.commit = marker.revision + 1
    BY DEF Overflow, NewSync, NewCommit
<1>3. /\ NoTransaction' /\ Markers' /\ SyncedTree' /\ CommittedPages'
      /\ FreePages' /\ DirtyPages'
      /\ CleanNodes' = CleanNodes \cap reach'
      /\ Present(dirty') = Present(dirty) \cup {q}
      /\ Nodes(dirty') = Nodes(dirty)
      /\ q \notin Present(dirty) /\ \A p \in Present(dirty) : dirty'[p] = dirty[p]
      /\ InFile' = InFile /\ ListPages(synced)' = ListPages(synced)
    BY <1>1, <1>2, NewPageStep
<1>4. /\ \A n \in Nodes(dirty) : q \notin HistoryPages(dirty[n])
      /\ ~leftover => q \notin residue
      /\ q \notin collectible' /\ collectible' \subseteq collectible
      /\ q \notin ListPages(synced)
    BY <1>1, NewPageIsFree DEF InTxn
<1>5. WorkTree /\ WorkResidue /\ InTxn
    BY <1>1 DEF Store, InTxn
<1>6. \A p \in Nodes(dirty) : dirty'[p] = dirty[p]
    BY <1>3, NodesPresent
<1>7. WorkTree'
    <2>1. /\ reach' \subseteq Present(marker.tree) \cup Present(dirty')
          /\ Nodes(dirty') \subseteq reach'
          /\ reused' \subseteq Nodes(dirty') \cap InFile
        BY <1>1, <1>3, <1>5 DEF WorkTree
    <2>2. ASSUME NEW p \in Nodes(dirty) PROVE DirtyHistory(p)'
        <3>1. DirtyHistory(p)
            BY <1>5 DEF WorkTree
        <3>2. HistoryPages(dirty[p]) \cap (collectible' \cup reach' \cup Present(dirty')) = {}
            BY <1>1, <1>3, <1>4, <3>1 DEF DirtyHistory
        <3>3. \A n \in Nodes(dirty') \ {p} : HistoryPages(dirty[p]) \cap HistoryPages(dirty'[n]) = {}
            BY <1>3, <1>6, <3>1 DEF DirtyHistory
        <3>4. QED
            BY <1>1, <1>3, <1>6, <3>1, <3>2, <3>3, DirtyHistoryKept
    <2>3. QED
        BY <1>1, <1>3, <2>1, <2>2 DEF WorkTree
<1>8. WorkResidue'
    BY <1>1, <1>3, <1>4, <1>5, <1>6 DEF WorkResidue
<1>9. QED
    BY <1>3, <1>7, <1>8 DEF Store

\* A page of both trees has the same content in both, so its history is not in
\* the synced tree.
LEMMA SharedPage ==
    ASSUME Typing, Store, IsOpen, NEW p \in Nodes(marker.tree), p \in Present(synced.tree)
    PROVE  HistoryPages(marker.tree[p]) \cap Present(synced.tree) = {}
<1>1. marker.tree[p] = synced.tree[p]
    BY NodesPresent DEF Store, SyncedTree, CommittedPages, Intact
<1>2. p \in Nodes(synced.tree)
    BY <1>1 DEF Nodes
<1>3. QED
    BY <1>1, <1>2 DEF Store, SyncedTree, Intact, TreeOK

LEMMA HistoryWithPages ==
    ASSUME NEW p \in Page, NEW c, c.history = HistoryWith(p, TRUE)
    PROVE  HistoryPages(c) = HistoryPages(marker.tree[p]) \cup {p}
<1> DEFINE hn == [page |-> p, sync |-> marker.tree[p].sync, commit |-> marker.tree[p].commit]
<1>1. c.history = marker.tree[p].history \cup {hn} /\ hn.page = p
    BY DEF HistoryWith
<1> HIDE DEF hn
<1>2. QED
    BY <1>1 DEF HistoryPages

\* The history a touched page gets is one that collectHistory() can work on.
LEMMA TouchedHistory ==
    ASSUME Typing, Store, IsOpen, NEW p \in Nodes(marker.tree),
           NEW c, c.commit = marker.revision + 1, c.history = HistoryWith(p, TRUE)
    PROVE  /\ HistoryOK(c)
           /\ \A h \in c.history :
                h.page \in Present(synced.tree) =>
                    h.sync <= lastSynced /\ h \in Newest(BeforeSync(c))
<1> DEFINE old == marker.tree[p]
<1> DEFINE hn == [page |-> p, sync |-> old.sync, commit |-> old.commit]
<1>1. c.history = old.history \cup {hn}
    BY DEF HistoryWith
<1>2. HistoryOK(old) /\ p \notin HistoryPages(old) /\ old.commit <= marker.revision
    BY NodesPresent DEF Store, CommittedPages, TreeOK
<1>3. /\ old.commit \in Nat /\ marker.revision \in Nat /\ lastSynced \in Nat /\ old.sync \in Nat
      /\ \A h \in old.history : h.commit \in Nat /\ h.sync \in Nat
    BY BoundsAssumption DEF Typing, TypeOK, MarkerPage, Nodes, Content, HistoryNode, Id
<1>4. hn.page = p /\ hn.sync = old.sync /\ hn.commit = old.commit
    OBVIOUS
<1> HIDE DEF hn
<1>5. \A h \in old.history : h.page # p /\ h.commit < hn.commit
    BY <1>2, <1>4 DEF HistoryPages, HistoryOK
<1>6. \A h \in c.history : h.commit \in Nat /\ h.commit <= old.commit
    <2>1. TAKE h \in c.history
    <2>2. CASE h = hn
        BY <1>3, <1>4, <2>2
    <2>3. CASE h \in old.history
        BY <1>3, <1>4, <1>5, <2>3
    <2>4. QED
        BY <1>1, <2>2, <2>3
<1>7. HistoryOK(c)
    <2>1. ASSUME NEW g \in c.history, NEW h \in c.history, g.page = h.page \/ g.commit = h.commit
          PROVE  g = h
        <3>1. \A e \in old.history : e.page # hn.page /\ e.commit # hn.commit
            BY <1>3, <1>4, <1>5
        <3>2. g \in old.history /\ h \in old.history => g = h
            BY <1>2, <2>1 DEF HistoryOK
        <3>3. QED
            BY <1>1, <2>1, <3>1, <3>2
    <2>2. ASSUME NEW h \in c.history PROVE h.commit < c.commit
        <3>1. h.commit \in Nat /\ h.commit <= old.commit
            BY <1>6
        <3>2. old.commit < marker.revision + 1
            BY <1>2, <1>3
        <3>3. c.commit = marker.revision + 1
            OBVIOUS
        <3>4. QED
            BY <1>3, <3>1, <3>2, <3>3
    <2>3. QED
        BY <2>1, <2>2 DEF HistoryOK
<1>8. ASSUME NEW h \in c.history, h.page \in Present(synced.tree)
      PROVE  h.sync <= lastSynced /\ h \in Newest(BeforeSync(c))
    <2>1. CASE h = hn
        <3>1. h.sync <= lastSynced
            BY <1>4, <1>8, <2>1, NodesPresent DEF Store, SyncedTree
        <3>2. \A g \in c.history : g.commit <= h.commit
            BY <1>4, <1>6, <2>1
        <3>3. QED
            BY <3>1, <3>2 DEF Newest, BeforeSync
    <2>2. CASE h # hn
        <3>1. h \in old.history
            BY <1>1, <2>2
        <3>2. h.sync <= lastSynced /\ h \in Newest(BeforeSync(old))
            BY <1>8, <3>1 DEF Store, SyncedTree
        <3>3. p \notin Present(synced.tree)
            BY <1>8, <3>1, SharedPage DEF HistoryPages
        <3>4. ~(hn.sync <= lastSynced)
            BY <1>4, <3>3 DEF Store, SyncedTree
        <3>5. BeforeSync(c) = BeforeSync(old)
            BY <1>1, <3>4 DEF BeforeSync
        <3>6. QED
            BY <3>2, <3>5
    <2>3. QED
        BY <2>1, <2>2
<1>9. QED
    BY <1>7, <1>8

LEMMA StoreTouch ==
    ASSUME Typing, Store, NEW p \in Page, NEW q \in Page, NEW hasSpace \in BOOLEAN,
           Touch(p, q, hasSpace)
    PROVE  Store'
<1> DEFINE c == Node(NewSync, NewCommit, HistoryWith(p, hasSpace))
<1> DEFINE old == marker.tree[p]
<1>1. /\ pc = "txn" /\ pc' = "txn" /\ NewPage(q)
      /\ UNCHANGED <<marker, synced, lastSynced, leftover, storage>>
      /\ residue' = ResidueWith(p, hasSpace)
      /\ dirty' = [dirty EXCEPT ![q] = c] /\ reach' = (reach \ {p}) \cup {q}
      /\ reused' = ReusedAfter(q)
      /\ p \in reach /\ p \in Nodes(marker.tree) /\ p \notin Present(dirty)
    BY DEF Touch, Nodes, Present, IsDirty
<1>2. /\ c.history = HistoryWith(p, hasSpace) /\ c.sync = lastSynced + 1
      /\ c.commit = marker.revision + 1 /\ c.kind = "node"
    BY DEF Node, NewSync, NewCommit
<1> HIDE DEF c
<1>3. /\ NoTransaction' /\ Markers' /\ SyncedTree' /\ CommittedPages'
      /\ FreePages' /\ DirtyPages'
      /\ CleanNodes' = CleanNodes \cap reach'
      /\ Present(dirty') = Present(dirty) \cup {q}
      /\ Nodes(dirty') = Nodes(dirty) \cup {q}
      /\ dirty'[q] = c
      /\ q \notin Present(dirty) /\ \A n \in Present(dirty) : dirty'[n] = dirty[n]
      /\ InFile' = InFile /\ ListPages(synced)' = ListPages(synced)
    BY <1>1, <1>2, NewPageStep
<1>4. /\ q \notin Held(marker.tree)
      /\ \A n \in Nodes(dirty) : q \notin HistoryPages(dirty[n])
      /\ ~leftover => q \notin residue
      /\ q \notin collectible' /\ collectible' \subseteq collectible
      /\ q \notin ListPages(synced)
      /\ q \in collectible => q \in InFile
    BY <1>1, NewPageIsFree DEF InTxn
<1>5. WorkTree /\ WorkResidue /\ InTxn /\ IsOpen /\ CommittedPages /\ FreePages /\ DirtyPages
    BY <1>1 DEF Store, InTxn, IsOpen
<1>6. \A n \in Nodes(dirty) : n # q /\ n # p /\ dirty'[n] = dirty[n]
    BY <1>1, <1>3, NodesPresent
<1>7. /\ p \in CleanNodes /\ CleanNodes' \subseteq CleanNodes \ {p}
      /\ CleanNodes \subseteq Nodes(marker.tree)
    <2>1. p # q
        BY <1>1, <1>4, HeldMembers, NodesPresent
    <2>2. QED
        BY <1>1, <1>3, <2>1 DEF CleanNodes
\* The touched page and its history are as the committed tree has them.
<1>8. /\ p \in Held(marker.tree) /\ HistoryPages(old) \subseteq Held(marker.tree)
      /\ Held(marker.tree) \subseteq InFile
      /\ Held(marker.tree) \cap (collectible \cup Present(dirty) \cup ListPages(synced)) = {}
      /\ p \notin HistoryPages(old)
      /\ HistoryPages(old) \cap Present(marker.tree) = {}
    <2>1. Held(marker.tree) \subseteq InFile
        BY <1>5, HeldInFile DEF CommittedPages
    <2>2. p \in Present(marker.tree)
        BY <1>1, NodesPresent
    <2>3. HistoryPages(old) \cap Present(marker.tree) = {}
        BY <1>1, <1>5 DEF CommittedPages, TreeOK
    <2>4. Held(marker.tree) \cap (collectible \cup Present(dirty) \cup ListPages(synced)) = {}
        BY <1>5 DEF CommittedPages, FreePages, DirtyPages
    <2>5. QED
        BY <1>1, <2>1, <2>2, <2>3, <2>4, HeldMembers
\* Nothing else leads to them.
<1>9. ASSUME NEW n \in CleanNodes \ {p}
      PROVE  (HistoryPages(old) \cup {p}) \cap HistoryPages(marker.tree[n]) = {}
    <2>1. n \in Nodes(marker.tree) /\ n # p
        BY <1>7
    <2>2. HistoryPages(old) \cap HistoryPages(marker.tree[n]) = {}
        BY <1>1, <1>5, <2>1 DEF CommittedPages, TreeOK
    <2>3. HistoryPages(marker.tree[n]) \cap Present(marker.tree) = {}
        BY <1>5, <2>1 DEF CommittedPages, TreeOK
    <2>4. QED
        BY <1>1, <2>2, <2>3, NodesPresent
<1>10. ASSUME NEW n \in Nodes(dirty)
       PROVE  (HistoryPages(old) \cup {p}) \cap HistoryPages(dirty[n]) = {}
    BY <1>1, <1>5, <1>7 DEF WorkTree, DirtyHistory
<1>11. (HistoryPages(old) \cup {p})
          \cap (collectible' \cup reach' \cup Present(dirty') \cup ListPages(synced)) = {}
    <2>1. reach \subseteq Present(marker.tree) \cup Present(dirty)
        BY <1>5 DEF WorkTree
    <2>2. HistoryPages(old) \cap reach = {}
        BY <1>8, <2>1
    <2>3. QED
        BY <1>1, <1>3, <1>4, <1>8, <2>2, ZenonT(60)
<1>12. ~hasSpace => HistoryPages(c) = {} /\ c.history = {}
    BY <1>2 DEF HistoryWith, HistoryPages
<1>13. hasSpace => HistoryPages(c) = HistoryPages(old) \cup {p}
    BY <1>2, HistoryWithPages
<1>14. HistoryPages(c) \subseteq HistoryPages(old) \cup {p}
    BY <1>12, <1>13
<1>15. WorkTree'
    <2>1. /\ reach' \subseteq Present(marker.tree) \cup Present(dirty')
          /\ Nodes(dirty') \subseteq reach'
          /\ reused' \subseteq Nodes(dirty') \cap InFile
        BY <1>1, <1>3, <1>4, <1>5, <1>6 DEF WorkTree, ReusedAfter
    <2>2. DirtyHistory(q)'
        <3>1. /\ HistoryOK(c)
              /\ \A h \in c.history :
                   h.page \in Present(synced.tree) =>
                       h.sync <= lastSynced /\ h \in Newest(BeforeSync(c))
            <4>1. CASE hasSpace
                BY <1>1, <1>2, <1>5, <4>1, TouchedHistory
            <4>2. CASE ~hasSpace
                BY <1>12, <4>2 DEF HistoryOK
            <4>3. QED
                BY <4>1, <4>2
        <3>2. HistoryPages(c) \subseteq InFile
            BY <1>8, <1>14
        <3>3. HistoryPages(c)
                \cap (collectible' \cup reach' \cup Present(dirty') \cup ListPages(synced)) = {}
            BY <1>11, <1>14
        <3>4. \A n \in Nodes(dirty') \ {q} : HistoryPages(c) \cap HistoryPages(dirty'[n]) = {}
            BY <1>3, <1>6, <1>10, <1>14
        <3>5. \A n \in CleanNodes' : HistoryPages(c) \cap HistoryPages(marker.tree[n]) = {}
            BY <1>7, <1>9, <1>14
        <3>6. QED
            BY <1>1, <1>3, <3>1, <3>2, <3>3, <3>4, <3>5 DEF DirtyHistory, HistoryOK, BeforeSync
    <2>3. ASSUME NEW n \in Nodes(dirty) PROVE DirtyHistory(n)'
        <3>1. DirtyHistory(n)
            BY <1>5 DEF WorkTree
        <3>2. HistoryPages(dirty[n]) \cap (collectible' \cup reach' \cup Present(dirty')) = {}
            BY <1>1, <1>3, <1>4, <3>1, ZenonT(60) DEF DirtyHistory
        <3>3. \A k \in Nodes(dirty') \ {n} : HistoryPages(dirty[n]) \cap HistoryPages(dirty'[k]) = {}
            BY <1>3, <1>6, <1>10, <1>14, <3>1 DEF DirtyHistory
        <3>4. QED
            BY <1>1, <1>3, <1>6, <3>1, <3>2, <3>3, DirtyHistoryKept
    <2>4. QED
        BY <1>1, <1>3, <2>1, <2>2, <2>3 DEF WorkTree
<1>16. WorkResidue'
    <2> SUFFICES ASSUME ~leftover
                 PROVE  /\ residue' \subseteq InFile \cup Present(dirty')
                        /\ residue' \cap (collectible' \cup reach' \cup ListPages(synced)) = {}
                        /\ \A n \in Nodes(dirty') : residue' \cap HistoryPages(dirty'[n]) = {}
                        /\ \A n \in CleanNodes' : residue' \cap HistoryPages(marker.tree[n]) = {}
        BY <1>1, <1>3 DEF WorkResidue
    <2>1. residue' = IF hasSpace THEN residue ELSE residue \cup (HistoryPages(old) \cup {p})
        BY <1>1 DEF ResidueWith
    <2>2. /\ residue \subseteq InFile \cup Present(dirty)
          /\ residue \cap (collectible \cup reach \cup ListPages(synced)) = {}
          /\ \A n \in Nodes(dirty) : residue \cap HistoryPages(dirty[n]) = {}
          /\ \A n \in CleanNodes : residue \cap HistoryPages(marker.tree[n]) = {}
        BY <1>5 DEF WorkResidue
    <2>3. residue \cap HistoryPages(c) = {}
        BY <1>1, <1>7, <1>14, <2>2
    <2>4. residue' \subseteq InFile \cup Present(dirty')
        BY <1>3, <1>8, <2>1, <2>2
    <2>5. residue' \cap (collectible' \cup reach' \cup ListPages(synced)) = {}
        BY <1>1, <1>4, <1>11, <2>1, <2>2
    <2>6. \A n \in Nodes(dirty') : residue' \cap HistoryPages(dirty'[n]) = {}
        BY <1>3, <1>6, <1>10, <1>12, <2>1, <2>2, <2>3
    <2>7. \A n \in CleanNodes' : residue' \cap HistoryPages(marker.tree[n]) = {}
        BY <1>7, <1>9, <2>1, <2>2
    <2>8. QED
        BY <2>4, <2>5, <2>6, <2>7
<1>17. QED
    BY <1>3, <1>15, <1>16 DEF Store

LEMMA StoreRemoveClean == ASSUME Typing, Store, NEW p \in Page, RemoveClean(p) PROVE Store'
<1>1. /\ pc = "txn" /\ pc' = "txn"
      /\ UNCHANGED <<marker, synced, lastSynced, residue, collectible, lastPage, dirty, reused,
                     leftover, storage>>
      /\ reach' = reach \ {p} /\ p \notin Present(dirty)
    BY DEF RemoveClean, memory, IsDirty, Present
<1>2. Markers' /\ SyncedTree' /\ CommittedPages'
    BY <1>1, CommittedUnchanged
<1>3. InFile' = InFile /\ ListPages(synced)' = ListPages(synced) /\ CleanNodes' \subseteq CleanNodes
    BY <1>1 DEF InFile, ListPages, CleanNodes, storage
<1>4. NoTransaction' /\ DirtyPages'
    BY <1>1, <1>3 DEF NoTransaction, DirtyPages, Store
<1>5. FreePages'
    BY <1>1, <1>3 DEF FreePages, Store, IsOpen
<1>6. WorkTree'
    <2>1. WorkTree /\ InTxn
        BY <1>1 DEF Store, InTxn
    <2>2. ASSUME NEW n \in Nodes(dirty) PROVE DirtyHistory(n)'
        BY <1>1, <1>3, <2>1, DirtyHistoryKept, SMTT(30) DEF WorkTree, DirtyHistory
    <2>3. QED
        BY <1>1, <1>3, <2>1, <2>2, NodesPresent DEF WorkTree
<1>7. WorkResidue'
    BY <1>1, <1>3 DEF WorkResidue, Store, InTxn
<1>8. QED
    BY <1>2, <1>4, <1>5, <1>6, <1>7 DEF Store

LEMMA StoreRemoveDirty == ASSUME Typing, Store, NEW p \in Page, RemoveDirty(p) PROVE Store'
<1>1. /\ pc = "txn" /\ pc' = "txn"
      /\ UNCHANGED <<marker, synced, lastSynced, collectible, lastPage, leftover, storage>>
      /\ residue' = residue \cup HistoryPages(dirty[p]) \cup ({p} \cap reused)
      /\ reach' = reach \ {p} /\ reused' = reused \ {p}
      /\ dirty' = [dirty EXCEPT ![p] = Absent] /\ p \in Nodes(dirty) /\ p \in reach
    BY DEF RemoveDirty, Nodes
<1>2. Markers' /\ SyncedTree' /\ CommittedPages'
    BY <1>1, CommittedUnchanged
<1>3. /\ Present(dirty') = Present(dirty) \ {p} /\ Nodes(dirty') = Nodes(dirty) \ {p}
      /\ \A n \in Present(dirty') : dirty'[n] = dirty[n]
    BY <1>1 DEF Present, Nodes, Absent, Blank, Typing, TypeOK
<1>4. InFile' = InFile /\ ListPages(synced)' = ListPages(synced) /\ CleanNodes' \subseteq CleanNodes
    BY <1>1 DEF InFile, ListPages, CleanNodes, storage
<1>5. NoTransaction' /\ DirtyPages'
    BY <1>1, <1>3, <1>4 DEF NoTransaction, DirtyPages, Store
<1>6. FreePages'
    BY <1>1, <1>3, <1>4 DEF FreePages, Store, IsOpen
<1>7. WorkTree /\ WorkResidue /\ DirtyPages /\ FreePages /\ InTxn /\ IsOpen
    BY <1>1 DEF Store, InTxn, IsOpen
<1>8. \A n \in Nodes(dirty') : n \in Nodes(dirty) /\ n # p /\ dirty'[n] = dirty[n]
    BY <1>3, NodesPresent
<1>9. DirtyHistory(p) /\ p \in Present(dirty)
    BY <1>1, <1>7, NodesPresent DEF WorkTree
<1>10. WorkTree'
    <2>1. ASSUME NEW n \in Nodes(dirty') PROVE DirtyHistory(n)'
        <3>1. n \in Nodes(dirty) /\ dirty'[n] = dirty[n] /\ DirtyHistory(n)
            BY <1>7, <1>8 DEF WorkTree
        <3>2. HistoryPages(dirty[n]) \cap (collectible' \cup reach' \cup Present(dirty')) = {}
            BY <1>1, <1>3, <3>1 DEF DirtyHistory
        <3>3. \A k \in Nodes(dirty') \ {n} : HistoryPages(dirty[n]) \cap HistoryPages(dirty'[k]) = {}
            BY <1>8, <3>1 DEF DirtyHistory
        <3>4. QED
            BY <1>1, <1>4, <3>1, <3>2, <3>3, DirtyHistoryKept
    <2>2. reach' \subseteq Present(marker.tree) \cup Present(dirty')
        BY <1>1, <1>3, <1>7 DEF WorkTree
    <2>3. Nodes(dirty') \subseteq reach' /\ reused' \subseteq Nodes(dirty') \cap InFile
        BY <1>1, <1>3, <1>7 DEF WorkTree
    <2>4. QED
        BY <1>1, <1>4, <2>1, <2>2, <2>3 DEF WorkTree
<1>11. WorkResidue'
    <2> SUFFICES ASSUME ~leftover
                 PROVE  /\ residue' \subseteq InFile \cup Present(dirty')
                        /\ residue' \cap (collectible \cup reach' \cup ListPages(synced)) = {}
                        /\ \A n \in Nodes(dirty') : residue' \cap HistoryPages(dirty'[n]) = {}
                        /\ \A n \in CleanNodes' : residue' \cap HistoryPages(marker.tree[n]) = {}
        BY <1>1, <1>4 DEF WorkResidue
    <2>1. /\ residue \subseteq InFile \cup Present(dirty)
          /\ residue \cap (collectible \cup reach \cup ListPages(synced)) = {}
          /\ \A n \in Nodes(dirty) : residue \cap HistoryPages(dirty[n]) = {}
          /\ \A n \in CleanNodes : residue \cap HistoryPages(marker.tree[n]) = {}
        BY <1>7 DEF WorkResidue
    <2>2. residue' \subseteq InFile \cup Present(dirty')
        <3>1. p \notin residue
            BY <1>1, <2>1
        <3>2. HistoryPages(dirty[p]) \subseteq InFile
            BY <1>9 DEF DirtyHistory
        <3>3. reused \subseteq InFile
            BY <1>7 DEF WorkTree
        <3>4. QED
            BY <1>1, <1>3, <2>1, <3>1, <3>2, <3>3
    <2>3. residue' \cap (collectible \cup reach' \cup ListPages(synced)) = {}
        BY <1>1, <1>7, <1>9, <2>1 DEF DirtyHistory, FreePages, DirtyPages
    <2>4. \A n \in Nodes(dirty') : residue' \cap HistoryPages(dirty'[n]) = {}
        <3>1. \A n \in Nodes(dirty') : p \notin HistoryPages(dirty[n])
            BY <1>1, <1>7, <1>8 DEF WorkTree, DirtyHistory
        <3>2. \A n \in Nodes(dirty') : HistoryPages(dirty[p]) \cap HistoryPages(dirty[n]) = {}
            BY <1>8, <1>9 DEF DirtyHistory
        <3>3. QED
            BY <1>1, <1>8, <2>1, <3>1, <3>2, ZenonT(60)
    <2>5. \A n \in CleanNodes' : residue' \cap HistoryPages(marker.tree[n]) = {}
        <3>1. \A n \in CleanNodes : p \notin HistoryPages(marker.tree[n])
            BY <1>7, <1>9, HeldMembers DEF CleanNodes, DirtyPages
        <3>2. \A n \in CleanNodes : HistoryPages(dirty[p]) \cap HistoryPages(marker.tree[n]) = {}
            BY <1>9 DEF DirtyHistory
        <3>3. QED
            BY <1>1, <1>4, <2>1, <3>1, <3>2
    <2>6. QED
        BY <2>2, <2>3, <2>4, <2>5
<1>12. QED
    BY <1>2, <1>5, <1>6, <1>10, <1>11 DEF Store

LEMMA StoreRemoveOverflow == ASSUME Typing, Store, NEW p \in Page, RemoveOverflow(p) PROVE Store'
<1>1. /\ pc = "txn" /\ pc' = "txn"
      /\ UNCHANGED <<marker, synced, lastSynced, collectible, lastPage, dirty, reused, leftover,
                     storage>>
      /\ residue' = residue \cup {p} /\ reach' = reach \ {p} /\ p \in reach
    BY DEF RemoveOverflow
<1>2. p \notin Nodes(dirty)
    BY DEF RemoveOverflow, WorkPage, Nodes
<1>3. Markers' /\ SyncedTree' /\ CommittedPages'
    BY <1>1, CommittedUnchanged
<1>4. InFile' = InFile /\ ListPages(synced)' = ListPages(synced) /\ CleanNodes' \subseteq CleanNodes
    BY <1>1 DEF InFile, ListPages, CleanNodes, storage
<1>5. NoTransaction' /\ DirtyPages'
    BY <1>1, <1>4 DEF NoTransaction, DirtyPages, Store
<1>6. FreePages'
    BY <1>1, <1>4 DEF FreePages, Store, IsOpen
<1>7. WorkTree /\ WorkResidue /\ DirtyPages /\ CommittedPages /\ FreePages /\ InTxn /\ IsOpen
    BY <1>1 DEF Store, InTxn, IsOpen
<1>8. WorkTree'
    <2>1. ASSUME NEW n \in Nodes(dirty) PROVE DirtyHistory(n)'
        <3>1. DirtyHistory(n)
            BY <1>7 DEF WorkTree
        <3>2. HistoryPages(dirty[n]) \cap (collectible' \cup reach' \cup Present(dirty')) = {}
            BY <1>1, <3>1 DEF DirtyHistory
        <3>3. \A k \in Nodes(dirty') \ {n} : HistoryPages(dirty[n]) \cap HistoryPages(dirty'[k]) = {}
            BY <1>1, <3>1 DEF DirtyHistory
        <3>4. QED
            BY <1>1, <1>4, <3>1, <3>2, <3>3, DirtyHistoryKept
    <2>2. QED
        BY <1>1, <1>2, <1>4, <1>7, <2>1 DEF WorkTree
<1>9. WorkResidue'
    <2>1. p \in Present(marker.tree) \cup Present(dirty)
        BY <1>1, <1>7 DEF WorkTree
    <2>2. p \in InFile \cup Present(dirty)
        BY <1>7, <2>1, HeldInFile, HeldMembers DEF CommittedPages
    <2>3. p \notin collectible \cup ListPages(synced)
        BY <1>1, <1>7, <2>1, HeldMembers DEF CommittedPages, DirtyPages, FreePages
    <2>4. \A n \in Nodes(dirty) : p \notin HistoryPages(dirty[n])
        BY <1>1, <1>7 DEF WorkTree, DirtyHistory
    <2>5. \A n \in CleanNodes : p \notin HistoryPages(marker.tree[n])
        <3>1. \A n \in CleanNodes : n \in Nodes(marker.tree)
            BY DEF CleanNodes
        <3>2. CASE p \in Present(marker.tree)
            BY <1>7, <3>1, <3>2 DEF CommittedPages, TreeOK
        <3>3. CASE p \in Present(dirty)
            BY <1>7, <3>1, <3>3, HeldMembers DEF DirtyPages
        <3>4. QED
            BY <2>1, <3>2, <3>3
    <2>6. QED
        BY <1>1, <1>4, <1>7, <2>2, <2>3, <2>4, <2>5 DEF WorkResidue
<1>10. QED
    BY <1>3, <1>5, <1>6, <1>8, <1>9 DEF Store

-----------------------------------------------------------------------------
(***************************************************************************)
(* The end of a transaction.                                               *)
(***************************************************************************)

\* Without a transaction there is nothing to say of one.
LEMMA TransactionEnded ==
    ASSUME pc' \notin {"txn", "failed"}, reach' = {}, dirty' = NoPages, reused' = {}, ~leftover'
    PROVE  NoTransaction' /\ DirtyPages' /\ WorkTree' /\ WorkResidue'
BY NothingDirty DEF NoTransaction, DirtyPages, WorkTree, WorkResidue, InTxn

LEMMA StoreAbort == ASSUME Typing, Store, Abort PROVE Store'
<1>1. /\ pc \in {"txn", "failed"} /\ pc' = "idle"
      /\ UNCHANGED <<marker, synced, lastSynced, collectible, lastPage, storage>>
      /\ reach' = {} /\ dirty' = NoPages /\ reused' = {} /\ ~leftover'
    BY DEF Abort, EndTransaction, memory
<1>2. Markers' /\ SyncedTree' /\ CommittedPages'
    BY <1>1, CommittedUnchanged
<1>3. FreePages'
    BY <1>1, NothingDirty DEF FreePages, Store, IsOpen, InFile, ListPages, storage
<1>4. QED
    BY <1>1, <1>2, <1>3, TransactionEnded DEF Store

LEMMA SerializedFacts ==
    ASSUME NEW c \in Content
    PROVE  /\ Serialized(c).kind = c.kind /\ Serialized(c).sync = c.sync
           /\ Serialized(c).commit = c.commit
           /\ Serialized(c).history = c.history \ Collected(c)
           /\ HistoryPages(Serialized(c)) \subseteq HistoryPages(c)
<1>1. /\ Serialized(c).kind = c.kind /\ Serialized(c).sync = c.sync
      /\ Serialized(c).commit = c.commit
      /\ Serialized(c).history = c.history \ Collected(c)
    BY DEF Serialized, Content
<1>2. QED
    BY <1>1 DEF HistoryPages

\* Writing dirty pages, all of them or some, is no harm to any marker.
LEMMA DirtyPagesWritten ==
    ASSUME Typing, Store, pc = "txn", pc' \in {"idle", "failed"},
           NEW W \in SUBSET Present(dirty),
           file' = [p \in Page |-> IF p \in W THEN Serialized(dirty[p]) ELSE file[p]],
           unsynced' = unsynced \cup W,
           UNCHANGED <<synced, mk, dmk>>
    PROVE  /\ Markers' /\ Intact(synced)'
           /\ InFile' = InFile \cup W
           /\ \A p \in Page \ W : file'[p] = file[p]
           /\ ListPages(synced)' = ListPages(synced)
<1>1. \A p \in W : p \in Page /\ dirty[p] \in Content /\ dirty[p].kind # "absent"
    BY DEF Present, Typing, TypeOK
<1>2. \A p \in W : file'[p].kind # "absent"
    BY <1>1, SerializedFacts
<1>3. \A p \in Page \ W : file'[p] = file[p]
    OBVIOUS
<1>4. InFile' = InFile \cup W
    BY <1>1, <1>2, <1>3 DEF InFile, Present
<1>5. W \cap (Present(synced.tree) \cup ListPages(synced)) = {}
    BY DEF Store, DirtyPages
<1>6. Intact(synced)
    BY DEF Store, SyncedTree, IsOpen
<1>7. \A m : m = synced => Intact(m)'
    <2>1. SUFFICES ASSUME NEW m, m = synced PROVE Intact(m)'
        OBVIOUS
    <2>2. \A p \in Present(m.tree) : file'[p] = file[p] /\ p \notin unsynced'
        BY <1>3, <1>5, <1>6, <2>1, NodesPresent DEF Intact
    <2>3. m.onOverflow => file'[m.overflowPage] = file[m.overflowPage]
        <3>1. m.onOverflow => m.overflowPage \in Page
            BY <2>1 DEF Typing, TypeOK, Flags, MarkerPage
        <3>2. m.onOverflow => m.overflowPage \notin W
            BY <1>5, <2>1 DEF ListPages
        <3>3. QED
            BY <1>3, <3>1, <3>2
    <2>4. QED
        BY <1>4, <1>6, <2>1, <2>2, <2>3, IntactKept
<1>8. Openable' = Openable
    BY DEF Openable, Survivors
<1>9. Openable \subseteq {synced}
    BY DEF Store, Markers
<1>10. Markers'
    BY <1>7, <1>8, <1>9 DEF Markers, StableMarker, Store
<1>11. Intact(synced)'
    <2>1. PICK m : m = synced
        OBVIOUS
    <2>2. Intact(m)' /\ m = synced'
        BY <1>7, <2>1
    <2>3. QED
        BY <2>2, SMTT(30) DEF Intact, TreeOK, HistoryOK, HasList, FreeList, ListPages
<1>12. QED
    BY <1>3, <1>4, <1>10, <1>11 DEF ListPages

LEMMA StoreCommitFails == ASSUME Typing, Store, NEW n \in Page, CommitFails(n) PROVE Store'
<1>1. PICK size \in 3 .. (MaxPage + 1) :
        LET written == {p \in Present(dirty) : p < n /\ p < size}
        IN  /\ file' = [p \in Page |-> IF p \in written THEN Serialized(dirty[p]) ELSE file[p]]
            /\ unsynced' = unsynced \cup written
    BY DEF CommitFails
<1> DEFINE W == {p \in Present(dirty) : p < n /\ p < size}
<1>2. /\ pc = "txn" /\ pc' = "failed"
      /\ UNCHANGED <<marker, synced, lastSynced, collectible, lastPage, reach, mk, dmk>>
      /\ dirty' = [p \in Page |-> IF p < n THEN Absent ELSE dirty[p]]
      /\ W \in SUBSET Present(dirty)
    BY DEF CommitFails, memory
<1>3. /\ file' = [p \in Page |-> IF p \in W THEN Serialized(dirty[p]) ELSE file[p]]
      /\ unsynced' = unsynced \cup W
    BY <1>1
<1> HIDE DEF W
<1>4. /\ Markers' /\ Intact(synced)'
      /\ InFile' = InFile \cup W
      /\ \A p \in Page \ W : file'[p] = file[p]
      /\ ListPages(synced)' = ListPages(synced)
    BY <1>2, <1>3, DirtyPagesWritten
<1>5. \A p \in Present(dirty') : p \in Present(dirty) /\ dirty'[p] = dirty[p]
    BY <1>2 DEF Present, Absent, Blank
<1>6. /\ FreePages /\ DirtyPages /\ CommittedPages /\ SyncedTree /\ IsOpen
    BY <1>2 DEF Store, IsOpen
<1>7. W \cap Held(marker.tree) = {}
    BY <1>2, <1>6 DEF DirtyPages
<1>8. NoTransaction' /\ WorkTree' /\ WorkResidue'
    BY <1>2 DEF NoTransaction, WorkTree, WorkResidue, InTxn
<1>9. DirtyPages'
    BY <1>2, <1>4, <1>5, <1>6 DEF DirtyPages
<1>10. FreePages'
    <2>1. \A p \in InFile' : p < lastPage
        BY <1>2, <1>4, <1>6 DEF FreePages, DirtyPages
    <2>2. collectible \cap Present(dirty') = {}
        BY <1>5, <1>6 DEF FreePages
    <2>3. QED
        BY <1>2, <1>4, <1>6, <2>1, <2>2 DEF FreePages
<1>11. SyncedTree'
    BY <1>2, <1>4, <1>6 DEF SyncedTree, BeforeSync
<1>12. CommittedPages'
    <2>1. \A p \in Present(marker.tree) : file'[p] = file[p]
        BY <1>4, <1>7, HeldMembers, NodesPresent
    <2>2. TreeOK(marker.tree)'
        BY <1>2, <1>4, <1>6 DEF CommittedPages, TreeOK, HistoryOK
    <2>3. QED
        BY <1>2, <1>4, <1>6, <2>1, <2>2 DEF CommittedPages
<1>13. QED
    BY <1>4, <1>8, <1>9, <1>10, <1>11, <1>12 DEF Store

\* What a commit collects from a history is not in the synced tree, and is not
\* named by what it keeps.
LEMMA CollectedEntries ==
    ASSUME Typing, NEW p \in Nodes(dirty), DirtyHistory(p), NEW h \in Collected(dirty[p])
    PROVE  /\ h.page \in HistoryPages(dirty[p])
           /\ h.page \notin HistoryPages(Serialized(dirty[p]))
           /\ h.page \notin Present(synced.tree)
<1>1. h \in dirty[p].history
    BY DEF Collected, BeforeSync, SinceSync
<1>2. dirty[p] \in Content
    BY DEF Nodes, Typing, TypeOK
<1>3. h.page \in HistoryPages(dirty[p])
    BY <1>1 DEF HistoryPages
<1>4. h.page \notin HistoryPages(Serialized(dirty[p]))
    <2>1. SUFFICES ASSUME NEW g \in dirty[p].history \ Collected(dirty[p]), g.page = h.page PROVE FALSE
        BY <1>2, SerializedFacts DEF HistoryPages
    <2>2. g = h
        BY <1>1, <2>1 DEF DirtyHistory, HistoryOK
    <2>3. QED
        BY <2>1, <2>2
<1>5. h.page \notin Present(synced.tree)
    <2>1. SUFFICES ASSUME h.page \in Present(synced.tree) PROVE FALSE
        OBVIOUS
    <2>2. h.sync <= lastSynced /\ h \in Newest(BeforeSync(dirty[p]))
        BY <1>1, <2>1 DEF DirtyHistory
    <2>3. h.sync \in Nat /\ lastSynced \in Nat
        BY <1>1, <1>2, BoundsAssumption DEF Content, HistoryNode, Typing, TypeOK, Id
    <2>4. h \notin SinceSync(dirty[p])
        BY <2>2, <2>3 DEF SinceSync
    <2>5. QED
        BY <2>2, <2>4 DEF Collected
<1>6. QED
    BY <1>3, <1>4, <1>5

\* The tree a transaction commits, in terms of the dirty pages and of the clean
\* ones it shares with the tree committed before.
LEMMA CommittedTreePages ==
    ASSUME Typing, Store, InTxn, NEW T, T = CommittedTree
    PROVE  /\ Present(T) = reach
           /\ \A p \in reach : IF p \in Present(dirty)
                               THEN T[p] = Serialized(dirty[p])
                               ELSE p \in Present(marker.tree) /\ T[p] = marker.tree[p]
           /\ \A p \in Nodes(T) : IF p \in Present(dirty)
                                  THEN p \in Nodes(dirty) /\ T[p] = Serialized(dirty[p])
                                  ELSE p \in CleanNodes /\ T[p] = marker.tree[p]
<1>1. reach \subseteq Page /\ reach \subseteq Present(marker.tree) \cup Present(dirty)
    BY DEF Typing, TypeOK, Store, WorkTree
<1>2. \A p \in Page : IsDirty(p) <=> p \in Present(dirty)
    BY DEF IsDirty, Present
<1>3. \A p \in Page : T[p] = IF p \notin reach THEN Absent
                             ELSE IF IsDirty(p) THEN Serialized(dirty[p]) ELSE marker.tree[p]
    BY DEF CommittedTree
<1>4. \A p \in Page : dirty[p] \in Content /\ Serialized(dirty[p]).kind = dirty[p].kind
    BY SerializedFacts DEF Typing, TypeOK
<1>5. \A p \in reach : IF p \in Present(dirty)
                       THEN T[p] = Serialized(dirty[p]) /\ T[p].kind = dirty[p].kind
                       ELSE p \in Present(marker.tree) /\ T[p] = marker.tree[p]
    BY <1>1, <1>2, <1>3, <1>4
<1>6. \A p \in Page \ reach : T[p].kind = "absent"
    BY <1>3 DEF Absent, Blank
<1>7. Present(T) = reach
    BY <1>1, <1>5, <1>6 DEF Present
<1>8. \A p \in Nodes(T) : p \in reach
    BY <1>7, NodesPresent
<1>9. QED
    BY <1>5, <1>7, <1>8 DEF Nodes, CleanNodes

LEMMA StoreCommit == ASSUME Typing, Store, Commit, Sound' PROVE Store'
<1> DEFINE W == Present(dirty)
<1>1. PICK T : T = CommittedTree
    OBVIOUS
<1>2. /\ pc = "txn" /\ pc' = "idle" /\ UNCHANGED <<synced, lastSynced, residue, lastPage, mk, dmk>>
      /\ reach' = {} /\ dirty' = NoPages /\ reused' = {} /\ ~leftover'
      /\ collectible' = collectible \cup CollectedPages
      /\ unsynced' = unsynced \cup W
    BY DEF Commit, EndTransaction
<1>3. /\ marker'.tree = T /\ marker'.revision = marker.revision + 1
      /\ marker'.syncId = lastSynced + 1 /\ marker'.residue = residue
      /\ marker'.valid = marker.valid /\ marker'.onOverflow = marker.onOverflow
      /\ marker'.overflowPage = marker.overflowPage
    BY <1>1 DEF Commit, Typing, TypeOK, MarkerPage
<1>4. ~leftover
    BY DEF Commit, Sound
<1>5. \A p \in Page : IsDirty(p) <=> p \in W
    BY DEF IsDirty, Present
<1>6. file' = [p \in Page |-> IF p \in W THEN Serialized(dirty[p]) ELSE file[p]]
    BY <1>5 DEF Commit
<1>7. /\ WorkTree /\ WorkResidue /\ DirtyPages /\ CommittedPages /\ FreePages /\ SyncedTree
      /\ InTxn /\ IsOpen
    BY <1>2 DEF Store, InTxn, IsOpen
<1>8. W \subseteq Page /\ reach \subseteq Page
    BY DEF Present, Typing, TypeOK
<1> HIDE DEF W
<1>9. /\ Markers' /\ Intact(synced)'
      /\ InFile' = InFile \cup W
      /\ \A p \in Page \ W : file'[p] = file[p]
      /\ ListPages(synced)' = ListPages(synced)
    BY <1>2, <1>6, DirtyPagesWritten DEF W
<1>10. /\ Present(T) = reach
       /\ \A p \in reach : IF p \in W THEN T[p] = Serialized(dirty[p])
                           ELSE p \in Present(marker.tree) /\ T[p] = marker.tree[p]
       /\ \A p \in Nodes(T) : IF p \in W THEN p \in Nodes(dirty) /\ T[p] = Serialized(dirty[p])
                              ELSE p \in CleanNodes /\ T[p] = marker.tree[p]
    BY <1>1, <1>7, CommittedTreePages DEF W
<1>11. \A p \in W : /\ dirty[p] \in Content /\ Serialized(dirty[p]).kind = dirty[p].kind
                    /\ Serialized(dirty[p]).sync = lastSynced + 1
                    /\ Serialized(dirty[p]).commit = marker.revision + 1
                    /\ Serialized(dirty[p]).history \subseteq dirty[p].history
                    /\ HistoryPages(Serialized(dirty[p])) \subseteq HistoryPages(dirty[p])
    BY <1>7, <1>8, SerializedFacts DEF DirtyPages, Typing, TypeOK, W
<1>12. /\ lastSynced \in Nat /\ marker.revision \in Nat /\ marker.syncId \in Nat
       /\ marker.syncId <= lastSynced + 1
    BY BoundsAssumption DEF Typing, TypeOK, MarkerPage, Id, Ids
<1>13. \A p \in Page : marker.tree[p].commit \in Nat /\ marker.tree[p].sync \in Nat
    BY BoundsAssumption DEF Typing, TypeOK, MarkerPage, Content, Id
<1>14. \A p \in CleanNodes : /\ p \in Nodes(marker.tree) /\ p \in Page
                             /\ HistoryPages(marker.tree[p]) \subseteq Held(marker.tree)
                             /\ HistoryPages(marker.tree[p]) \cap reach = {}
    <2>1. \A p \in CleanNodes : p \in Nodes(marker.tree) /\ p \in Page
        BY DEF CleanNodes, Nodes
    <2>2. \A p \in CleanNodes : HistoryPages(marker.tree[p]) \subseteq Held(marker.tree)
        BY <2>1, HeldMembers
    <2>3. \A p \in CleanNodes : HistoryPages(marker.tree[p]) \cap Present(marker.tree) = {}
        BY <1>7, <2>1 DEF CommittedPages, TreeOK
    <2>4. W \cap Held(marker.tree) = {}
        BY <1>7 DEF DirtyPages, W
    <2>5. reach \subseteq Present(marker.tree) \cup W
        BY <1>7 DEF WorkTree, W
    <2>6. QED
        BY <2>1, <2>2, <2>3, <2>4, <2>5
<1>15. \A p \in Nodes(dirty) : /\ DirtyHistory(p) /\ p \in W
                               /\ HistoryPages(dirty[p]) \subseteq InFile
                               /\ HistoryPages(dirty[p]) \cap (reach \cup ListPages(synced)) = {}
                               /\ HistoryPages(dirty[p]) \cap (collectible \cup residue) = {}
    <2>1. \A p \in Nodes(dirty) : DirtyHistory(p) /\ p \in W
        BY <1>7, NodesPresent DEF WorkTree, W
    <2>2. \A p \in Nodes(dirty) : HistoryPages(dirty[p]) \cap residue = {}
        BY <1>4, <1>7 DEF WorkResidue
    <2>3. QED
        BY <2>1, <2>2 DEF DirtyHistory
\* The histories of the new tree come from the dirty pages and the clean ones.
<1>16. \A p \in Nodes(T) : /\ HistoryPages(T[p]) \subseteq InFile
                           /\ HistoryPages(T[p]) \cap reach = {}
                           /\ HistoryPages(T[p]) \cap (collectible \cup residue) = {}
                           /\ HistoryPages(T[p]) \cap ListPages(synced) = {}
    <2>1. SUFFICES ASSUME NEW p \in Nodes(T)
                   PROVE  /\ HistoryPages(T[p]) \subseteq InFile
                          /\ HistoryPages(T[p]) \cap reach = {}
                          /\ HistoryPages(T[p]) \cap (collectible \cup residue) = {}
                          /\ HistoryPages(T[p]) \cap ListPages(synced) = {}
        OBVIOUS
    <2>2. CASE p \in W
        <3>1. p \in Nodes(dirty) /\ HistoryPages(T[p]) \subseteq HistoryPages(dirty[p])
            BY <1>10, <1>11, <2>1, <2>2
        <3>2. QED
            BY <1>15, <3>1
    <2>3. CASE p \notin W
        <3>1. p \in CleanNodes /\ T[p] = marker.tree[p]
            BY <1>10, <2>1, <2>3
        <3>2. HistoryPages(T[p]) \subseteq Held(marker.tree) /\ HistoryPages(T[p]) \cap reach = {}
            BY <1>14, <3>1
        <3>3. Held(marker.tree) \subseteq InFile
            BY <1>7, HeldInFile DEF CommittedPages
        <3>4. HistoryPages(T[p]) \cap residue = {}
            BY <1>4, <1>7, <3>1 DEF WorkResidue
        <3>5. Held(marker.tree) \cap (collectible \cup ListPages(synced)) = {}
            BY <1>7 DEF FreePages, CommittedPages
        <3>6. QED
            BY <3>2, <3>3, <3>4, <3>5
    <2>4. QED
        BY <2>2, <2>3
<1>17. \A x \in CollectedPages : /\ x \in InFile /\ x \notin reach /\ x \notin ListPages(synced)
                                 /\ x \notin residue /\ x \notin Present(synced.tree)
                                 /\ \A p \in Nodes(T) : x \notin HistoryPages(T[p])
    <2>1. SUFFICES ASSUME NEW n \in Nodes(dirty), NEW h \in Collected(dirty[n])
                   PROVE  LET x == h.page
                          IN  /\ x \in InFile /\ x \notin reach /\ x \notin ListPages(synced)
                              /\ x \notin residue /\ x \notin Present(synced.tree)
                              /\ \A p \in Nodes(T) : x \notin HistoryPages(T[p])
        BY DEF CollectedPages
    <2>2. /\ h.page \in HistoryPages(dirty[n])
          /\ h.page \notin HistoryPages(Serialized(dirty[n]))
          /\ h.page \notin Present(synced.tree)
        BY <1>15, CollectedEntries
    <2>3. ASSUME NEW p \in Nodes(T) PROVE h.page \notin HistoryPages(T[p])
        <3>1. CASE p = n
            BY <1>10, <1>15, <2>2, <3>1
        <3>2. CASE p \in W /\ p # n
            <4>1. p \in Nodes(dirty) /\ HistoryPages(T[p]) \subseteq HistoryPages(dirty[p])
                BY <1>10, <1>11, <3>2
            <4>2. QED
                BY <1>15, <2>2, <3>2, <4>1 DEF DirtyHistory
        <3>3. CASE p \notin W
            BY <1>10, <1>15, <2>2, <3>3 DEF DirtyHistory
        <3>4. QED
            BY <3>1, <3>2, <3>3
    <2>4. QED
        BY <1>15, <2>2, <2>3
<1>18. SyncedTree'
    <2>1. ASSUME NEW p \in Nodes(T)
          PROVE  /\ p \in Present(synced.tree) <=> T[p].sync <= lastSynced
                 /\ \A h \in T[p].history : h.page \in Present(synced.tree) =>
                      h.sync <= lastSynced /\ h \in Newest(BeforeSync(T[p]))
        <3>1. CASE p \in W
            <4>1. p \in Nodes(dirty) /\ T[p].sync = lastSynced + 1 /\ p \notin Present(synced.tree)
                BY <1>7, <1>10, <1>11, <3>1 DEF DirtyPages, W
            <4>2. ~(lastSynced + 1 <= lastSynced)
                BY <1>12
            <4>3. T[p].history \subseteq dirty[p].history
                BY <1>10, <1>11, <3>1
            <4>4. BeforeSync(T[p]) \subseteq BeforeSync(dirty[p])
                BY <4>3 DEF BeforeSync
            <4>5. ASSUME NEW h \in T[p].history, h.page \in Present(synced.tree)
                  PROVE  h.sync <= lastSynced /\ h \in Newest(BeforeSync(T[p]))
                <5>1. h.sync <= lastSynced /\ h \in Newest(BeforeSync(dirty[p]))
                    BY <1>15, <4>1, <4>3, <4>5 DEF DirtyHistory
                <5>2. h \in BeforeSync(T[p])
                    BY <5>1 DEF BeforeSync
                <5>3. QED
                    BY <4>4, <5>1, <5>2 DEF Newest
            <4>6. QED
                BY <4>1, <4>2, <4>5
        <3>2. CASE p \notin W
            BY <1>7, <1>10, <1>14, <3>2 DEF SyncedTree
        <3>3. QED
            BY <3>1, <3>2
    <2>2. QED
        BY <1>2, <1>3, <1>7, <1>9, <2>1 DEF SyncedTree, BeforeSync, Newest
<1>19. \A p \in reach : file'[p] = T[p] /\ T[p].kind \in {"node", "overflow"}
    <2>1. SUFFICES ASSUME NEW p \in reach PROVE file'[p] = T[p] /\ T[p].kind \in {"node", "overflow"}
        OBVIOUS
    <2>2. CASE p \in W
        BY <1>6, <1>7, <1>8, <1>10, <1>11, <2>2 DEF DirtyPages, W
    <2>3. CASE p \notin W
        BY <1>7, <1>8, <1>9, <1>10, <2>3 DEF CommittedPages
    <2>4. QED
        BY <2>2, <2>3
<1>20. \A p \in Nodes(T) : T[p].commit <= marker.revision + 1 /\ T[p].sync <= lastSynced + 1
    <2>1. SUFFICES ASSUME NEW p \in Nodes(T)
                   PROVE  T[p].commit <= marker.revision + 1 /\ T[p].sync <= lastSynced + 1
        OBVIOUS
    <2>2. CASE p \in W
        BY <1>10, <1>11, <1>12, <2>2
    <2>3. CASE p \notin W
        <3>1. p \in CleanNodes /\ T[p] = marker.tree[p]
            BY <1>10, <2>3
        <3>2. marker.tree[p].commit <= marker.revision /\ marker.tree[p].sync <= marker.syncId
            BY <1>7, <1>14, <3>1 DEF CommittedPages
        <3>3. marker.tree[p].commit \in Nat /\ marker.tree[p].sync \in Nat
            BY <1>13, <1>14, <3>1
        <3>4. QED
            BY <1>12, <3>1, <3>2, <3>3
    <2>4. QED
        BY <2>2, <2>3
<1>21. \A p \in Nodes(T) : HistoryOK(T[p])
    <2>1. SUFFICES ASSUME NEW p \in Nodes(T) PROVE HistoryOK(T[p])
        OBVIOUS
    <2>2. CASE p \in W
        <3>1. DirtyHistory(p) /\ T[p].history \subseteq dirty[p].history
            BY <1>10, <1>11, <1>15, <2>2
        <3>2. T[p].commit = dirty[p].commit
            BY <1>7, <1>10, <1>11, <2>2 DEF DirtyPages, W
        <3>3. QED
            BY <3>1, <3>2 DEF DirtyHistory, HistoryOK
    <2>3. CASE p \notin W
        BY <1>7, <1>10, <1>14, <2>3 DEF CommittedPages, TreeOK
    <2>4. QED
        BY <2>2, <2>3
<1>22. \A p \in Nodes(T) : \A q \in Nodes(T) \ {p} : HistoryPages(T[p]) \cap HistoryPages(T[q]) = {}
    <2>1. SUFFICES ASSUME NEW p \in Nodes(T), NEW q \in Nodes(T), p # q
                   PROVE  HistoryPages(T[p]) \cap HistoryPages(T[q]) = {}
        OBVIOUS
    <2>2. \A n \in Nodes(T) : \/ n \in Nodes(dirty) /\ HistoryPages(T[n]) \subseteq HistoryPages(dirty[n])
                              \/ n \in CleanNodes /\ T[n] = marker.tree[n]
        BY <1>10, <1>11
    <2>3. CASE p \in CleanNodes /\ T[p] = marker.tree[p] /\ q \in CleanNodes /\ T[q] = marker.tree[q]
        BY <1>7, <1>14, <2>1, <2>3 DEF CommittedPages, TreeOK
    <2>4. \A a \in Nodes(dirty), b \in CleanNodes : 
             HistoryPages(dirty[a]) \cap HistoryPages(marker.tree[b]) = {}
        BY <1>15 DEF DirtyHistory
    <2>5. \A a, b \in Nodes(dirty) : a # b => HistoryPages(dirty[a]) \cap HistoryPages(dirty[b]) = {}
        BY <1>15 DEF DirtyHistory
    <2>6. QED
        BY <2>1, <2>2, <2>3, <2>4, <2>5
<1>23. \A x \in Held(T) : x \in reach \/ \E p \in Nodes(T) : x \in HistoryPages(T[p])
    BY <1>10, HeldMembers
<1>24. CommittedPages'
    <2>1. TreeOK(T)'
        BY <1>9, <1>10, <1>16, <1>21, <1>22 DEF TreeOK, HistoryOK
    <2>2. /\ residue \cap (collectible \cup reach \cup ListPages(synced)) = {}
          /\ residue \subseteq InFile \cup W
        BY <1>4, <1>7 DEF WorkResidue, W
    <2>3. residue \cap Held(T) = {}
        BY <1>16, <1>23, <2>2
    <2>4. ListPages(synced) \cap reach = {}
        BY <1>7, HeldMembers DEF WorkTree, DirtyPages, CommittedPages
    <2>5. ListPages(synced) \cap Held(T) = {}
        BY <1>16, <1>23, <2>4
    <2>6. TreeOK(marker.tree)'
        BY <1>3, <2>1 DEF TreeOK, HistoryOK
    <2>7. marker'.valid /\ (~marker'.onOverflow => marker'.overflowPage = NoPage)
        BY <1>3, <1>7 DEF CommittedPages
    <2>8. QED
        BY <1>2, <1>3, <1>9, <1>10, <1>19, <1>20, <2>2, <2>3, <2>5, <2>6, <2>7 DEF CommittedPages
<1>25. FreePages'
    <2>1. /\ collectible \subseteq InFile /\ \A p \in InFile : p < lastPage
          /\ collectible \cap (Present(synced.tree) \cup reach \cup ListPages(synced)) = {}
          /\ \A p \in ListPages(synced) : p < lastPage
        BY <1>7 DEF FreePages
    <2>2. collectible \cap residue = {}
        BY <1>4, <1>7 DEF WorkResidue
    <2>3. \A p \in W : p < lastPage
        BY <1>7 DEF DirtyPages, W
    <2>4. collectible \cap Held(T) = {}
        BY <1>16, <1>23, <2>1
    <2>5. CollectedPages \cap Held(T) = {}
        BY <1>17, <1>23
    <2>6. reach' = {} /\ Present(dirty') = {}
        BY <1>2, NothingDirty
    <2>7. QED
        BY <1>2, <1>3, <1>9, <1>17, <2>1, <2>2, <2>3, <2>4, <2>5, <2>6 DEF FreePages
<1>26. QED
    BY <1>2, <1>9, <1>18, <1>24, <1>25, TransactionEnded DEF Store

-----------------------------------------------------------------------------
(***************************************************************************)
(* The sync.                                                               *)
(***************************************************************************)

\* The first half of a sync writes one page at most, and a free one.
LEMMA SyncDataFacts ==
    ASSUME Typing, Store, NEW q \in Page \cup {NoPage}, NEW size \in 3 .. (MaxPage + 1),
           SyncData(q, size)
    PROVE  /\ dmk' = mk
           /\ InFile' = InFile \cup ({q} \cap Page)
           /\ q \in Page <=> NeedsOverflow
           /\ NeedsOverflow => file'[q] = List(ResidueList)
           /\ q \notin Page => unsynced' = {}
           /\ unsynced' \subseteq {q}
           /\ \A p \in Page \ {q} : file'[p] = file[p]
           /\ q \notin Held(marker.tree) \cup Present(synced.tree) \cup ListPages(synced)
           /\ \A p \in InFile' : p < size /\ p < lastPage'
           /\ \A p \in ListPages(synced) : p < lastPage'
<1>1. pc = "idle" /\ dmk' = mk /\ HasSize(file', size) /\ IsOpen
    BY DEF SyncData, IsOpen
<1>2. FreePages /\ CommittedPages /\ SyncedTree
    BY <1>1 DEF Store
<1>3. lastPage \in Nat /\ size \in Nat /\ \A p \in Page : p \in Nat /\ p # NoPage
    BY BoundsAssumption DEF Typing, TypeOK, Page, NoPage
<1>4. /\ Held(marker.tree) \subseteq InFile /\ Present(synced.tree) \subseteq InFile
      /\ Held(marker.tree) \subseteq Page /\ Present(synced.tree) \subseteq Page
      /\ ListPages(synced) \subseteq Page
    <2>1. Held(marker.tree) \subseteq InFile
        BY <1>1, <1>2, HeldInFile DEF CommittedPages
    <2>2. Present(synced.tree) \subseteq InFile
        BY <1>1, <1>2 DEF SyncedTree, Intact, InFile, Present
    <2>3. InFile \subseteq Page
        BY NodesPresent DEF InFile
    <2>4. ListPages(synced) \subseteq Page
        BY DEF ListPages, Typing, TypeOK, Flags, MarkerPage
    <2>5. QED
        BY <2>1, <2>2, <2>3, <2>4
<1>5. \A p \in InFile' : p < size
    <2>1. \A p \in Page : p < size \/ file'[p] = Absent
        BY <1>1, <1>3 DEF HasSize
    <2>2. QED
        BY <2>1 DEF InFile, Present, Absent, Blank
<1>6. CASE ~NeedsOverflow
    <2>1. q = NoPage /\ unsynced' = {} /\ UNCHANGED <<lastPage, file>> /\ q \notin Page
        BY <1>3, <1>6 DEF SyncData
    <2>2. InFile' = InFile
        BY <2>1 DEF InFile
    <2>3. q \notin Held(marker.tree) \cup Present(synced.tree) \cup ListPages(synced)
        BY <1>4, <2>1
    <2>4. QED
        BY <1>1, <1>2, <1>5, <1>6, <2>1, <2>2, <2>3 DEF FreePages
<1>7. CASE NeedsOverflow
    <2>1. /\ CanTake(q) /\ lastPage' = LastPageAfter(q)
          /\ file' = [file EXCEPT ![q] = List(ResidueList)] /\ unsynced' = {q}
        BY <1>7 DEF SyncData
    <2>2. q \in Page
        BY <2>1, NewPageTypes DEF Typing
    <2>3. InFile' = InFile \cup {q} /\ file'[q] = List(ResidueList)
        BY <2>1, <2>2 DEF InFile, Present, List, Typing, TypeOK
    <2>4. CASE q \in collectible
        <3>1. lastPage' = lastPage
            BY <2>1, <2>4 DEF LastPageAfter
        <3>2. q \in InFile
            BY <1>1, <1>2, <2>4 DEF FreePages
        <3>3. QED
            BY <1>1, <1>2, <1>5, <1>7, <2>1, <2>2, <2>3, <2>4, <3>1, <3>2 DEF FreePages
    <2>5. CASE q \notin collectible
        <3>1. q = lastPage /\ lastPage' = lastPage + 1
            BY <2>1, <2>5 DEF CanTake, LastPageAfter
        <3>2. \A p \in InFile \cup ListPages(synced) : p < lastPage
            BY <1>1, <1>2 DEF FreePages
        <3>3. InFile \subseteq Page
            BY NodesPresent DEF InFile
        <3>4. \A p \in Page : p < lastPage => p < lastPage + 1
            BY <1>3
        <3>5. lastPage < lastPage + 1 /\ ~(lastPage < lastPage)
            BY <1>3
        <3>6. q \notin InFile \cup ListPages(synced)
            BY <3>1, <3>2, <3>5
        <3>7. \A p \in InFile' \cup ListPages(synced) : p < lastPage'
            BY <1>4, <2>3, <3>1, <3>2, <3>3, <3>4, <3>5
        <3>8. QED
            BY <1>1, <1>4, <1>5, <1>7, <2>1, <2>2, <2>3, <3>6, <3>7
    <2>6. QED
        BY <2>4, <2>5
<1>8. QED
    BY <1>6, <1>7

\* What a sync writes does not harm the tree of the sync before it.
LEMMA SyncDataKeeps ==
    ASSUME Typing, Store, NEW q \in Page \cup {NoPage}, NEW size \in 3 .. (MaxPage + 1),
           SyncData(q, size), NEW m, m = synced
    PROVE  Intact(m)'
<1>1. /\ InFile' = InFile \cup ({q} \cap Page)
      /\ unsynced' \subseteq {q}
      /\ \A p \in Page \ {q} : file'[p] = file[p]
      /\ q \notin Present(m.tree) \cup ListPages(m)
    BY SyncDataFacts
<1>2. Intact(m)
    BY DEF SyncData, Store, SyncedTree, IsOpen
<1>3. \A p \in Present(m.tree) : file'[p] = file[p] /\ p \notin unsynced'
    BY <1>1, NodesPresent
<1>4. m.onOverflow => m.overflowPage \in Page
    BY DEF Typing, TypeOK, Flags, MarkerPage
<1>5. m.onOverflow => file'[m.overflowPage] = file[m.overflowPage]
    BY <1>1, <1>4 DEF ListPages
<1>6. QED
    BY <1>1, <1>2, <1>3, <1>5, IntactKept

\* The committed tree, too, survives the first half of a sync.
LEMMA SyncDataCommitted ==
    ASSUME Typing, Store, NEW q \in Page \cup {NoPage}, NEW size \in 3 .. (MaxPage + 1),
           SyncData(q, size)
    PROVE  /\ \A p \in Present(marker.tree) :
                file'[p] = marker.tree[p] /\ marker.tree[p].kind \in {"node", "overflow"}
           /\ \A t : t = marker.tree => TreeOK(t)'
<1>1. /\ InFile' = InFile \cup ({q} \cap Page)
      /\ \A p \in Page \ {q} : file'[p] = file[p]
      /\ q \notin Present(marker.tree)
    BY SyncDataFacts, HeldMembers
<1>2. CommittedPages /\ IsOpen
    BY DEF SyncData, Store, IsOpen
<1>3. QED
    BY <1>1, <1>2, NodesPresent DEF CommittedPages, TreeOK, HistoryOK

\* The marker pages when a sync begins that meets no exposure.
LEMMA SyncBegins ==
    ASSUME Typing, Store, NEW q, NEW size, SyncData(q, size), SyncExposures = {}
    PROVE  /\ pc = "idle" /\ IsOpen
           /\ mk[2] = synced
           /\ mk[1].valid => mk[1] = synced
           /\ marker.onOverflow => NeedsOverflow
           /\ marker.syncId = lastSynced + 1
           /\ reach = {} /\ dirty = NoPages /\ reused = {} /\ ~leftover
<1>1. pc = "idle" /\ IsOpen /\ marker.syncId # lastSynced
    BY DEF SyncData, IsOpen
<1>2. mk[2] = synced /\ (marker.onOverflow => NeedsOverflow)
    BY DEF SyncExposures
<1>3. mk[1].valid => mk[1] = synced
    BY <1>1 DEF Store, Markers, Openable, Survivors
<1>4. QED
    BY <1>1, <1>2, <1>3 DEF Typing, Ids, Store, NoTransaction

LEMMA StoreSyncMarker1Fails ==
    ASSUME Typing, Store, NEW q \in Page \cup {NoPage}, NEW size \in 3 .. (MaxPage + 1),
           NEW m \in {mk[1], TornMarker}, SyncMarker1Fails(q, size, m), Sound, Sound'
    PROVE  Store'
<1>1. /\ SyncData(q, size) /\ mk' = [mk EXCEPT ![1] = m] /\ collectible' = collectible \ {q}
      /\ SyncExposures = {}
      /\ UNCHANGED <<pc, marker, synced, lastSynced, residue, txn>>
    BY DEF SyncMarker1Fails, Sound
<1>2. /\ pc = "idle" /\ IsOpen
      /\ mk[2] = synced
      /\ mk[1].valid => mk[1] = synced
      /\ reach = {} /\ dirty = NoPages /\ reused = {} /\ ~leftover
    BY <1>1, SyncBegins
<1>3. /\ dmk' = mk
      /\ InFile' = InFile \cup ({q} \cap Page)
      /\ q \notin Held(marker.tree) \cup Present(synced.tree) \cup ListPages(synced)
      /\ \A p \in InFile' : p < size /\ p < lastPage'
      /\ \A p \in ListPages(synced) : p < lastPage'
    BY <1>1, SyncDataFacts
<1>4. CommittedPages /\ FreePages /\ SyncedTree
    BY DEF Store
<1>5. mk'[1] = m /\ mk'[2] = synced /\ dmk'[1] = mk[1] /\ dmk'[2] = synced
    BY <1>1, <1>2, <1>3 DEF Typing, TypeOK
<1>6. Openable' \subseteq {synced}
    <2>1. \A n \in Survivors(1)' : n.valid => n = synced
        BY <1>2, <1>5 DEF Survivors, TornMarker, NewMarker
    <2>2. Survivors(2)' = {synced}
        BY <1>5 DEF Survivors
    <2>3. QED
        BY <2>1, <2>2 DEF Openable
<1>7. \A n : n = synced => Intact(n)'
    BY <1>1, SyncDataKeeps
<1>8. Intact(synced)'
    <2>1. PICK n : n = synced
        OBVIOUS
    <2>2. Intact(n)' /\ n = synced'
        BY <1>1, <1>7, <2>1
    <2>3. QED
        BY <2>2 DEF Intact, TreeOK, HistoryOK, HasList, FreeList, ListPages
<1>9. Markers'
    <2>1. mk'[1].valid => mk'[1] = synced
        BY <1>2, <1>5 DEF TornMarker, NewMarker
    <2>2. PICK n : n = synced
        OBVIOUS
    <2>3. \A p \in Present(n.tree) : p < n.size
        BY <1>7, <2>2, HeldMembers DEF Intact
    <2>4. mk'[1].valid => dmk'[1] = mk'[1]
        BY <1>2, <1>5 DEF TornMarker, NewMarker
    <2>5. QED
        BY <1>1, <1>2, <1>5, <1>6, <1>7, <2>1, <2>2, <2>3, <2>4 DEF Markers, StableMarker
<1>10. SyncedTree'
    BY <1>1, <1>4, <1>8 DEF SyncedTree, BeforeSync, IsOpen
<1>11. CommittedPages'
    <2>1. /\ \A p \in Present(marker.tree) :
               file'[p] = marker.tree[p] /\ marker.tree[p].kind \in {"node", "overflow"}
          /\ \A t : t = marker.tree => TreeOK(t)'
        BY <1>1, SyncDataCommitted
    <2>2. TreeOK(marker.tree)'
        <3>1. PICK t : t = marker.tree
            OBVIOUS
        <3>2. QED
            BY <1>1, <2>1, <3>1 DEF TreeOK, HistoryOK
    <2>3. QED
        BY <1>1, <1>2, <1>3, <1>4, <2>1, <2>2 DEF CommittedPages, ListPages, IsOpen
<1>12. FreePages'
    BY <1>1, <1>2, <1>3, <1>4, NothingDirty DEF FreePages, txn, ListPages
<1>13. NoTransaction' /\ DirtyPages' /\ WorkTree' /\ WorkResidue'
    BY <1>1, <1>2, TransactionEnded DEF txn
<1>14. QED
    BY <1>9, <1>10, <1>11, <1>12, <1>13 DEF Store

LEMMA StoreSyncMarker1 ==
    ASSUME Typing, Store, NEW q \in Page \cup {NoPage}, NEW size \in 3 .. (MaxPage + 1),
           SyncMarker1(q, size), Sound, Sound'
    PROVE  Store'
<1>1. PICK m : m = SyncedMarker(q, size)
    OBVIOUS
<1>2. PICK old : old = synced
    OBVIOUS
<1>3. PICK t : t = marker.tree
    OBVIOUS
<1>4. /\ SyncData(q, size) /\ mk' = [mk EXCEPT ![1] = OnDisk(m)] /\ synced' = m
      /\ lastSynced' = lastSynced + 1
      /\ collectible' = (collectible \cup PreviousList \cup marker.residue) \ {q}
      /\ marker' = [marker EXCEPT !.residue = {}] /\ residue' = {} /\ pc' = "marker1"
      /\ UNCHANGED txn /\ SyncExposures = {}
    BY <1>1 DEF SyncMarker1, Sound
<1>5. /\ pc = "idle" /\ IsOpen
      /\ mk[2] = old
      /\ mk[1].valid => mk[1] = old
      /\ marker.onOverflow => NeedsOverflow
      /\ marker.syncId = lastSynced + 1
      /\ reach = {} /\ dirty = NoPages /\ reused = {} /\ ~leftover
    BY <1>2, <1>4, SyncBegins
<1>6. CommittedPages /\ FreePages /\ SyncedTree
    BY DEF Store
<1>7. /\ dmk' = mk
      /\ InFile' = InFile \cup ({q} \cap Page)
      /\ q \in Page <=> NeedsOverflow
      /\ NeedsOverflow => file'[q] = List(ResidueList)
      /\ unsynced' \subseteq {q}
      /\ q \notin Held(t) \cup Present(old.tree) \cup ListPages(old)
      /\ \A p \in InFile' : p < size /\ p < lastPage'
    BY <1>2, <1>3, <1>4, SyncDataFacts
<1>8. /\ \A p \in Present(t) : file'[p] = t[p] /\ t[p].kind \in {"node", "overflow"}
      /\ TreeOK(t)'
    BY <1>3, <1>4, SyncDataCommitted
<1>9. Intact(old)'
    BY <1>2, <1>4, SyncDataKeeps
<1>10. /\ m.valid = marker.valid /\ m.tree = t /\ m.revision = marker.revision
       /\ m.syncId = marker.syncId /\ m.size = size
       /\ m.onOverflow = NeedsOverflow
       /\ m.overflowPage = IF NeedsOverflow THEN q ELSE NoPage
       /\ m.residue = IF NeedsOverflow THEN {} ELSE ResidueList
       /\ OnDisk(m) = m
    <2>1. marker \in MarkerPage
        BY DEF Typing, TypeOK
    <2>2. ~NeedsOverflow => marker.overflowPage = NoPage
        BY <1>5, <1>6 DEF CommittedPages
    <2>3. NeedsOverflow \in BOOLEAN /\ marker.onOverflow \in BOOLEAN
        BY <2>1 DEF NeedsOverflow, MarkerPage
    <2>4. /\ m.valid = marker.valid /\ m.tree = t /\ m.revision = marker.revision
          /\ m.syncId = marker.syncId /\ m.size = size
          /\ m.onOverflow = (marker.onOverflow \/ NeedsOverflow)
          /\ m.overflowPage = IF NeedsOverflow THEN q ELSE marker.overflowPage
          /\ m.residue = IF NeedsOverflow THEN {} ELSE ResidueList
        BY <1>1, <1>3, <2>1 DEF SyncedMarker, MarkerPage
    <2>5. OnDisk(m) = m
        <3>1. CASE NeedsOverflow
            BY <1>1, <2>1, <3>1 DEF OnDisk, SyncedMarker, MarkerPage
        <3>2. CASE ~NeedsOverflow
            BY <1>1, <2>1, <2>2, <3>2 DEF OnDisk, SyncedMarker, MarkerPage
        <3>3. QED
            BY <3>1, <3>2
    <2>6. QED
        BY <1>5, <2>2, <2>3, <2>4, <2>5
<1>11. \A p \in Page : p # NoPage
    BY BoundsAssumption DEF Page, NoPage
<1>12. /\ ResidueList \subseteq InFile /\ ResidueList \cap Held(t) = {} /\ Held(t) \subseteq InFile
    <2>1. ResidueList \subseteq InFile
        BY <1>5, <1>6 DEF ResidueList, CommittedPages, FreePages
    <2>2. ResidueList \cap Held(t) = {}
        BY <1>3, <1>5, <1>6 DEF ResidueList, CommittedPages, FreePages
    <2>3. Held(t) \subseteq InFile
        BY <1>3, <1>5, <1>6, HeldInFile DEF CommittedPages
    <2>4. QED
        BY <2>1, <2>2, <2>3
<1>13. FreeList(m)' = ResidueList /\ ListPages(m) = {q} \cap Page
    BY <1>7, <1>10, <1>11 DEF FreeList, ListPages, List
<1>14. Intact(m)'
    <2>1. m.valid /\ HasList(m, file)' /\ (~m.onOverflow => m.overflowPage = NoPage)
        BY <1>5, <1>6, <1>7, <1>10, <1>11 DEF CommittedPages, HasList, List
    <2>2. \A p \in Present(t) : file'[p] = t[p] /\ p \notin unsynced'
                                /\ t[p].kind \in {"node", "overflow"}
        BY <1>7, <1>8, HeldMembers
    <2>3. \A p \in Nodes(t) : t[p].commit <= m.revision /\ t[p].sync <= m.syncId
        BY <1>3, <1>5, <1>6, <1>10 DEF CommittedPages
    <2>4. FreeList(m)' \subseteq InFile' /\ (FreeList(m)' \cup ListPages(m)) \cap Held(t) = {}
        BY <1>7, <1>12, <1>13
    <2>5. \A p \in FreeList(m)' \cup ListPages(m) \cup Held(t) : p < size
        BY <1>7, <1>12, <1>13
    <2>6. QED
        BY <1>8, <1>10, <2>1, <2>2, <2>3, <2>4, <2>5 DEF Intact, ListPages
<1>15. mk'[1] = m /\ mk'[2] = old /\ dmk'[1] = mk[1] /\ dmk'[2] = old
    BY <1>4, <1>5, <1>7, <1>10 DEF Typing, TypeOK
<1>16. Openable' \subseteq {m, old}
    <2>1. \A n \in Survivors(1)' : n.valid => n \in {m, old}
        BY <1>5, <1>15 DEF Survivors, TornMarker, NewMarker
    <2>2. Survivors(2)' = {old}
        BY <1>15 DEF Survivors
    <2>3. QED
        BY <2>1, <2>2 DEF Openable
<1>17. Markers'
    <2>1. \A p \in Present(m.tree) \cup Present(old.tree) : p < m.size
        <3>1. Present(t) \subseteq InFile'
            BY <1>7, <1>12, HeldMembers
        <3>2. Present(old.tree) \subseteq InFile'
            BY <1>9 DEF Intact, InFile, Present
        <3>3. QED
            BY <1>7, <1>10, <3>1, <3>2
    <2>2. QED
        BY <1>4, <1>5, <1>9, <1>14, <1>15, <1>16, <2>1 DEF Markers, StableMarker
<1>18. /\ marker'.tree = t /\ marker'.revision = marker.revision /\ marker'.syncId = marker.syncId
       /\ marker'.valid = marker.valid /\ marker'.onOverflow = marker.onOverflow
       /\ marker'.overflowPage = marker.overflowPage /\ marker'.residue = {}
    BY <1>3, <1>4 DEF Typing, TypeOK, MarkerPage
<1>19. SyncedTree'
    <2>1. Intact(synced)'
        BY <1>4, <1>14 DEF Intact, TreeOK, HistoryOK, HasList, FreeList, ListPages
    <2>2. synced'.syncId <= lastSynced'
        <3>1. lastSynced \in Nat
            BY BoundsAssumption DEF Typing, TypeOK, Id
        <3>2. QED
            BY <1>4, <1>5, <1>10, <3>1
    <2>3. \A p \in Nodes(t) : p \in Present(t) /\ t[p].sync <= lastSynced'
        BY <1>3, <1>4, <1>5, <1>6, NodesPresent DEF CommittedPages
    <2>4. \A p \in Nodes(t) : \A h \in t[p].history : h.page \notin Present(t)
        BY <1>3, <1>5, <1>6 DEF CommittedPages, TreeOK, HistoryPages
    <2>5. QED
        BY <1>4, <1>10, <1>18, <2>1, <2>2, <2>3, <2>4 DEF SyncedTree
<1>20. ListPages(synced)' = {q} \cap Page
    BY <1>4, <1>13 DEF ListPages
<1>21. CommittedPages'
    <2>1. TreeOK(marker.tree)'
        BY <1>8, <1>18 DEF TreeOK, HistoryOK
    <2>2. \A p \in Nodes(t) : t[p].commit <= marker.revision /\ t[p].sync <= marker.syncId
        BY <1>3, <1>5, <1>6 DEF CommittedPages
    <2>3. ListPages(synced)' \cap Held(t) = {}
        BY <1>7, <1>20
    <2>4. marker.valid /\ (~marker.onOverflow => marker.overflowPage = NoPage)
        BY <1>5, <1>6 DEF CommittedPages
    <2>5. QED
        BY <1>8, <1>18, <2>1, <2>2, <2>3, <2>4 DEF CommittedPages
<1>22. FreePages'
    <2>1. PreviousList \subseteq InFile
        <3>1. HasList(old, file)
            BY <1>2, <1>5, <1>6 DEF SyncedTree, Intact
        <3>2. old.onOverflow => old.overflowPage \in Page
            BY <1>2 DEF Typing, TypeOK, Flags, MarkerPage
        <3>3. QED
            BY <1>2, <3>1, <3>2 DEF HasList, PreviousList, InFile, Present
    <2>2. collectible \subseteq InFile /\ marker.residue \subseteq InFile
        BY <1>5, <1>6 DEF FreePages, CommittedPages
    <2>3. (collectible \cup PreviousList \cup marker.residue) \cap Held(t) = {}
        BY <1>3, <1>5, <1>6 DEF FreePages, CommittedPages, PreviousList, ListPages
    <2>4. Present(t) \subseteq Held(t)
        BY HeldMembers
    <2>5. reach' = {} /\ Present(dirty') = {}
        BY <1>4, <1>5, NothingDirty DEF txn
    <2>6. \A p \in ListPages(synced)' : p < lastPage'
        BY <1>7, <1>20
    <2>7. QED
        BY <1>4, <1>7, <1>10, <1>18, <1>20, <2>1, <2>2, <2>3, <2>4, <2>5, <2>6 DEF FreePages
<1>23. NoTransaction' /\ DirtyPages' /\ WorkTree' /\ WorkResidue'
    BY <1>4, <1>5, TransactionEnded DEF txn
<1>24. QED
    BY <1>17, <1>19, <1>21, <1>22, <1>23 DEF Store

\* The steps after marker 1 was written: the file is as it was, and marker 1
\* holds the sync, durably.
LEMMA SyncCompletes ==
    ASSUME Typing, Store, pc \in {"marker1", "marker2"}, pc' \in {"marker2", "idle"},
           mk'[1] = synced, dmk'[1] = synced, unsynced' \subseteq unsynced,
           UNCHANGED <<memory, txn, file>>
    PROVE  Store'
<1>1. PICK m : m = synced
    OBVIOUS
<1>2. IsOpen /\ CommittedPages /\ FreePages /\ SyncedTree /\ NoTransaction
    BY DEF IsOpen, Store
<1>3. Intact(m)
    BY <1>1, <1>2 DEF SyncedTree
<1>4. InFile' = InFile
    BY DEF InFile
<1>5. Intact(m)'
    BY <1>3, <1>4, IntactKept DEF Intact
<1>6. Survivors(1)' = {m} /\ m.valid
    BY <1>1, <1>3 DEF Survivors, Intact
<1>7. Openable' \subseteq {m}
    BY <1>6 DEF Openable
<1>8. Markers'
    <2>1. \A p \in Present(m.tree) : p < m.size
        BY <1>3, HeldMembers DEF Intact
    <2>2. QED
        BY <1>1, <1>5, <1>7, <2>1 DEF Markers, memory
<1>9. SyncedTree'
    <2>1. Intact(synced)'
        <3>1. m = synced'
            BY <1>1 DEF memory
        <3>2. QED
            BY <1>5, <3>1 DEF Intact, TreeOK, HistoryOK, HasList, FreeList, ListPages
    <2>2. QED
        BY <1>2, <2>1 DEF SyncedTree, BeforeSync, memory
<1>10. CommittedPages'
    BY <1>2, <1>4 DEF CommittedPages, TreeOK, HistoryOK, ListPages, memory
<1>11. FreePages'
    BY <1>2, <1>4 DEF FreePages, ListPages, memory, txn
<1>12. NoTransaction' /\ DirtyPages' /\ WorkTree' /\ WorkResidue'
    BY <1>2, TransactionEnded DEF NoTransaction, txn
<1>13. QED
    BY <1>8, <1>9, <1>10, <1>11, <1>12 DEF Store

LEMMA StoreSyncFsync == ASSUME Typing, Store, SyncFsync PROVE Store'
<1>1. mk[1] = synced
    BY DEF SyncFsync, Store, Markers
<1>2. QED
    BY <1>1, SyncCompletes DEF SyncFsync

LEMMA StoreSyncMarker2 == ASSUME Typing, Store, SyncMarker2 PROVE Store'
<1>1. mk[1] = synced /\ dmk[1] = synced
    BY DEF SyncMarker2, Store, Markers
<1>2. mk'[1] = synced
    BY <1>1 DEF SyncMarker2, Typing, TypeOK
<1>3. QED
    BY <1>1, <1>2, SyncCompletes DEF SyncMarker2

LEMMA StoreSyncMarker2Fails ==
    ASSUME Typing, Store, NEW m \in {mk[2], TornMarker}, SyncMarker2Fails(m) PROVE Store'
<1>1. mk[1] = synced /\ dmk[1] = synced
    BY DEF SyncMarker2Fails, Store, Markers
<1>2. mk'[1] = synced
    BY <1>1 DEF SyncMarker2Fails, Typing, TypeOK
<1>3. QED
    BY <1>1, <1>2, SyncCompletes DEF SyncMarker2Fails

-----------------------------------------------------------------------------
(***************************************************************************)
(* Stops, power losses and the opening of the file.                        *)
(***************************************************************************)

LEMMA StoreStop == ASSUME Typing, Store, Stop PROVE Store'
<1>1. /\ pc # "closed" /\ pc' = "closed" /\ UNCHANGED <<file, unsynced, mk, dmk>>
      /\ reach' = {} /\ dirty' = NoPages /\ reused' = {} /\ ~leftover'
    BY DEF Stop, ForgetMemory, storage
<1>2. \A m : Intact(m)' <=> Intact(m)
    BY <1>1 DEF Intact, HasList, TreeOK, HistoryOK, InFile, FreeList
<1>3. Openable' = Openable
    BY <1>1 DEF Openable, Survivors
<1>4. ~mk[1].valid => Openable \subseteq {mk[2]}
    <2>1. SUFFICES ASSUME ~mk[1].valid PROVE Openable \subseteq {mk[2]}
        OBVIOUS
    <2>2. mk[2] \in Openable
        BY <2>1 DEF Openable, Survivors
    <2>3. pc # "marker1"
        BY <1>1, <2>1 DEF Store, Markers, SyncedTree, Intact, IsOpen
    <2>4. Openable \subseteq {synced}
        BY <1>1, <2>3 DEF Store, Markers, Typing, TypeOK
    <2>5. QED
        BY <2>2, <2>4
<1>5. Markers'
    BY <1>1, <1>2, <1>3, <1>4 DEF Markers, StableMarker, Store
<1>6. SyncedTree' /\ CommittedPages' /\ FreePages'
    BY <1>1 DEF SyncedTree, CommittedPages, FreePages, IsOpen
<1>7. QED
    BY <1>1, <1>5, <1>6, TransactionEnded DEF Store

LEMMA StorePowerLoss ==
    ASSUME Typing, Store, NEW lost \in SUBSET unsynced, PowerLoss(lost), Sound'
    PROVE  Store'
<1>1. PICK m1 \in Survivors(1), m2 \in Survivors(2) :
          /\ mk' = [i \in 1 .. 2 |-> IF i = 1 THEN m1 ELSE m2]
          /\ m1.valid => HasList(m1, file')
          /\ m2.valid => HasList(m2, file')
    BY DEF PowerLoss, Sound
<1>2. /\ pc' = "closed" /\ unsynced' = {} /\ dmk' = mk'
      /\ file' = [p \in Page |-> IF p \in lost THEN Torn ELSE file[p]]
      /\ reach' = {} /\ dirty' = NoPages /\ reused' = {} /\ ~leftover'
    BY DEF PowerLoss, ForgetMemory
<1>3. mk'[1] = m1 /\ mk'[2] = m2 /\ dmk'[1] = m1 /\ dmk'[2] = m2
    BY <1>1, <1>2
<1>4. m1 \in MarkerPage /\ m2 \in MarkerPage
    BY <1>1, MarkerTypes DEF Survivors, Typing, TypeOK
<1>5. Openable' = (IF m1.valid THEN {m1} ELSE {m2})
    BY <1>3 DEF Openable, Survivors
<1>6. Openable' \subseteq Openable
    BY <1>1, <1>5 DEF Openable
<1>7. ASSUME NEW m \in Openable' PROVE Intact(m)'
    <2>1. Intact(m) /\ m \in MarkerPage /\ HasList(m, file')
        <3>1. Intact(m)
            BY <1>6 DEF Store, Markers
        <3>2. m = m1 \/ m = m2
            BY <1>5
        <3>3. m.valid
            BY <3>1 DEF Intact
        <3>4. QED
            BY <1>1, <1>4, <3>1, <3>2, <3>3
    <2>2. \A p \in Present(m.tree) : file'[p] = file[p] /\ p \notin unsynced'
        BY <1>2, <2>1, NodesPresent DEF Intact
    <2>3. m.onOverflow => file'[m.overflowPage] = file[m.overflowPage]
        <3>1. SUFFICES ASSUME m.onOverflow PROVE file'[m.overflowPage] = file[m.overflowPage]
            OBVIOUS
        <3>2. m.overflowPage \in Page /\ file'[m.overflowPage].kind = "list"
            BY <2>1, <3>1 DEF HasList, MarkerPage
        <3>3. m.overflowPage \notin lost
            BY <1>2, <3>2 DEF Torn, Blank
        <3>4. QED
            BY <1>2, <3>2, <3>3
    <2>4. \A p \in InFile : p \in InFile'
        BY <1>2 DEF InFile, Present, Torn, Blank
    <2>5. QED
        BY <2>1, <2>2, <2>3, <2>4, IntactKept
<1>8. Markers'
    <2>1. m1.valid => \A p \in Present(m1.tree) : p < m1.size
        BY <1>5, <1>7, HeldMembers DEF Intact
    <2>2. QED
        BY <1>2, <1>3, <1>5, <1>7, <2>1 DEF Markers, StableMarker
<1>9. SyncedTree' /\ CommittedPages' /\ FreePages'
    BY <1>2 DEF SyncedTree, CommittedPages, FreePages, IsOpen
<1>10. QED
    BY <1>2, <1>8, <1>9, TransactionEnded DEF Store

LEMMA StoreOpen == ASSUME Typing, Store, Open, Sound, Sound' PROVE Store'
<1>1. PICK m : m = mk[Used]
    OBVIOUS
<1>2. PICK free : free = FreeList(m)
    OBVIOUS
<1>3. /\ pc = "closed" /\ pc' = "idle" /\ m.valid
      /\ marker' = [m EXCEPT !.residue = {}] /\ synced' = m /\ lastSynced' = m.syncId
      /\ collectible' = IF m.onOverflow THEN free \ {m.overflowPage} ELSE free
      /\ lastPage' = m.size
      /\ file' = [p \in Page |-> IF p >= m.size THEN Absent ELSE file[p]]
      /\ UNCHANGED <<residue, txn, unsynced, mk, dmk>>
    BY <1>1, <1>2 DEF Open, FreeList
<1>4. m = dmk[Used]
    BY <1>1 DEF Open, Sound
<1>5. m \in MarkerPage
    BY <1>1 DEF Used, Typing, TypeOK
<1>6. m \in Openable /\ Openable \subseteq {m}
    <2>1. CASE mk[1].valid
        <3>1. Used = 1
            BY <2>1 DEF Used
        <3>2. m = mk[1] /\ m = dmk[1]
            BY <1>1, <1>4, <3>1
        <3>3. Survivors(1) = {m} /\ m.valid
            BY <1>3, <3>2 DEF Survivors
        <3>4. QED
            BY <3>3 DEF Openable
    <2>2. CASE ~mk[1].valid
        <3>1. m = mk[2] /\ m \in Survivors(2) /\ mk[1] \in Survivors(1)
            BY <1>1, <2>2 DEF Used, Survivors
        <3>2. Openable \subseteq {m}
            BY <1>3, <2>2, <3>1 DEF Store, Markers
        <3>3. QED
            BY <2>2, <3>1, <3>2 DEF Openable
    <2>3. QED
        BY <2>1, <2>2
<1>7. Intact(m)
    BY <1>6 DEF Store, Markers
<1>8. Openable' = Openable
    BY <1>3 DEF Openable, Survivors
<1>9. m.size \in Nat /\ \A p \in Page : p \in Nat /\ p # NoPage
    BY <1>5, BoundsAssumption DEF MarkerPage, Page, NoPage
<1>10. /\ InFile' = {p \in InFile : p < m.size}
       /\ \A p \in Page : p < m.size => file'[p] = file[p]
    <2>1. \A p \in Page : p < m.size => ~(p >= m.size)
        BY <1>9
    <2>2. \A p \in Page : p < m.size => file'[p] = file[p]
        BY <1>3, <2>1
    <2>3. \A p \in Page : ~(p < m.size) => file'[p].kind = "absent"
        BY <1>3, <1>9 DEF Absent, Blank
    <2>4. QED
        BY <2>2, <2>3 DEF InFile, Present
<1>11. \A p \in free \cup ListPages(m) \cup Held(m.tree) : p < m.size
    BY <1>2, <1>7 DEF Intact
<1>12. Held(m.tree) \subseteq InFile /\ free \subseteq InFile
    BY <1>2, <1>7, HeldInFile DEF Intact
<1>13. Intact(m)'
    <2>1. \A p \in Present(m.tree) : file'[p] = file[p] /\ p \notin unsynced'
        BY <1>3, <1>7, <1>10, <1>11, HeldMembers, NodesPresent DEF Intact
    <2>2. m.onOverflow => file'[m.overflowPage] = file[m.overflowPage]
        <3>1. m.onOverflow => m.overflowPage \in Page /\ m.overflowPage < m.size
            BY <1>5, <1>7, <1>11 DEF Intact, HasList, MarkerPage, ListPages
        <3>2. QED
            BY <1>10, <3>1
    <2>3. \A p \in Held(m.tree) \cup FreeList(m) : p \in InFile => p \in InFile'
        BY <1>2, <1>10, <1>11
    <2>4. QED
        BY <1>7, <2>1, <2>2, <2>3, IntactKept
<1>14. Markers'
    <2>1. mk[1].valid => \A n \in Openable : \A p \in Present(n.tree) : p < mk[1].size
        BY DEF Store, Markers
    <2>2. mk[1].valid => dmk[1] = mk[1]
        <3>1. SUFFICES ASSUME mk[1].valid PROVE dmk[1] = mk[1]
            OBVIOUS
        <3>2. Used = 1
            BY <3>1 DEF Used
        <3>3. QED
            BY <1>1, <1>4, <3>2
    <2>3. \A n \in Openable : n \in {mk[1], StableMarker}
        BY DEF Store, Markers
    <2>4. StableMarker' = StableMarker /\ mk'[1] = mk[1] /\ dmk'[1] = dmk[1]
        BY <1>3 DEF StableMarker
    <2>5. QED
        BY <1>3, <1>6, <1>8, <1>13, <2>1, <2>2, <2>3, <2>4 DEF Markers
<1>15. /\ marker'.tree = m.tree /\ marker'.revision = m.revision /\ marker'.syncId = m.syncId
       /\ marker'.valid = m.valid /\ marker'.onOverflow = m.onOverflow
       /\ marker'.overflowPage = m.overflowPage /\ marker'.residue = {}
    BY <1>3, <1>5 DEF MarkerPage
<1>16. ListPages(synced)' = ListPages(m)
    BY <1>3 DEF ListPages
<1>17. PICK t : t = m.tree
    OBVIOUS
<1>18. TreeOK(t)' /\ \A p \in Present(t) : file'[p] = t[p] /\ t[p].kind \in {"node", "overflow"}
    BY <1>13, <1>17 DEF Intact, TreeOK, HistoryOK
<1>19. SyncedTree'
    <2>1. Intact(synced)'
        <3>1. m = synced'
            BY <1>3
        <3>2. QED
            BY <1>13, <3>1 DEF Intact, TreeOK, HistoryOK, HasList, FreeList, ListPages
    <2>2. m.syncId <= m.syncId
        BY <1>5, BoundsAssumption DEF MarkerPage, Id
    <2>3. \A p \in Nodes(t) : p \in Present(t) /\ t[p].sync <= m.syncId
        BY <1>7, <1>17, NodesPresent DEF Intact
    <2>4. \A p \in Nodes(t) : \A h \in t[p].history : h.page \notin Present(t)
        BY <1>7, <1>17 DEF Intact, TreeOK, HistoryPages
    <2>5. QED
        BY <1>3, <1>15, <1>17, <2>1, <2>2, <2>3, <2>4 DEF SyncedTree
<1>20. CommittedPages'
    <2>1. TreeOK(marker.tree)'
        BY <1>15, <1>17, <1>18 DEF TreeOK, HistoryOK
    <2>2. \A p \in Nodes(t) : t[p].commit <= m.revision /\ t[p].sync <= m.syncId
        BY <1>7, <1>17 DEF Intact
    <2>3. ListPages(m) \cap Held(t) = {} /\ (~m.onOverflow => m.overflowPage = NoPage)
        BY <1>7, <1>17 DEF Intact
    <2>4. QED
        BY <1>3, <1>15, <1>16, <1>17, <1>18, <2>1, <2>2, <2>3 DEF CommittedPages
<1>21. reach' = {} /\ dirty' = NoPages /\ reused' = {} /\ ~leftover'
    BY <1>3 DEF Store, NoTransaction, txn
<1>22. FreePages'
    <2>1. collectible' \subseteq free /\ collectible' \cap ListPages(m) = {}
        BY <1>3 DEF ListPages
    <2>2. free \cap Held(t) = {}
        BY <1>2, <1>7, <1>17 DEF Intact
    <2>3. Present(t) \subseteq Held(t)
        BY HeldMembers
    <2>4. Present(dirty') = {}
        BY <1>21, NothingDirty
    <2>5. collectible' \subseteq InFile' /\ \A p \in InFile' \cup ListPages(m) : p < lastPage'
        BY <1>3, <1>10, <1>11, <1>12, <2>1
    <2>6. QED
        BY <1>3, <1>15, <1>16, <1>17, <1>21, <2>1, <2>2, <2>3, <2>4, <2>5 DEF FreePages
<1>23. QED
    BY <1>3, <1>14, <1>19, <1>20, <1>21, <1>22, TransactionEnded DEF Store

-----------------------------------------------------------------------------
(***************************************************************************)
(* The invariant of the specification.                                     *)
(***************************************************************************)

LEMMA StoreInit == Init => Store
<1>1. SUFFICES ASSUME Init PROVE Store
    OBVIOUS
<1>2. PICK m : m = NewMarker
    OBVIOUS
<1>3. /\ pc = "idle" /\ marker = m /\ synced = m /\ lastSynced = 0 /\ collectible = {}
      /\ residue = {} /\ lastPage = 3 /\ reach = {} /\ dirty = NoPages /\ reused = {} /\ ~leftover
      /\ file = NoPages /\ unsynced = {} /\ mk = [i \in 1 .. 2 |-> m] /\ dmk = [i \in 1 .. 2 |-> m]
    BY <1>1, <1>2 DEF Init
<1>4. /\ m.valid /\ m.tree = NoPages /\ m.syncId = 0 /\ m.residue = {} /\ ~m.onOverflow
      /\ m.overflowPage = NoPage
    BY <1>2 DEF NewMarker
<1>5. Present(NoPages) = {} /\ Nodes(NoPages) = {} /\ Held(NoPages) = {} /\ InFile = {}
    BY <1>3, NothingDirty DEF Held, InFile
<1>6. TreeOK(NoPages)
    BY <1>5 DEF TreeOK
<1>7. ListPages(m) = {} /\ FreeList(m) = {}
    BY <1>4 DEF ListPages, FreeList
<1>8. Intact(m)
    BY <1>4, <1>5, <1>6, <1>7 DEF Intact, HasList
<1>9. Openable \subseteq {m}
    BY <1>3 DEF Openable, Survivors
<1>10. Markers
    BY <1>3, <1>4, <1>5, <1>8, <1>9 DEF Markers, StableMarker
<1>11. SyncedTree /\ CommittedPages /\ FreePages
    BY <1>3, <1>4, <1>5, <1>6, <1>7, <1>8 DEF SyncedTree, CommittedPages, FreePages
<1>12. NoTransaction /\ DirtyPages /\ WorkTree /\ WorkResidue
    BY <1>3, <1>5 DEF NoTransaction, DirtyPages, WorkTree, WorkResidue, InTxn
<1>13. QED
    BY <1>10, <1>11, <1>12 DEF Store

LEMMA StoreNext == ASSUME Typing, Sound => Store, Next PROVE (Sound => Store)'
<1>1. SUFFICES ASSUME Sound' PROVE Store'
    OBVIOUS
<1>2. Sound
    BY <1>1, ExposedGrows DEF Sound
<1>3. Store
    BY <1>2
<1> USE <1>1, <1>2, <1>3
<1>4. CASE Begin
    BY <1>4, StoreBegin
<1>5. CASE \E p \in Page : NewNode(p) \/ RemoveDirty(p) \/ RemoveClean(p)
    BY <1>5, StoreNewNode, StoreRemoveDirty, StoreRemoveClean
<1>6. CASE \E p \in Page : NewOverflow(p) \/ RemoveOverflow(p)
    BY <1>6, StoreNewOverflow, StoreRemoveOverflow
<1>7. CASE \E p, q \in Page, hasSpace \in BOOLEAN : Touch(p, q, hasSpace)
    BY <1>7, StoreTouch
<1>8. CASE Commit
    BY <1>8, StoreCommit
<1>9. CASE \E n \in Page : CommitFails(n)
    BY <1>9, StoreCommitFails
<1>10. CASE Abort
    BY <1>10, StoreAbort
<1>11. CASE \E q \in Page \cup {NoPage}, size \in 3 .. (MaxPage + 1) : SyncMarker1(q, size)
    BY <1>11, StoreSyncMarker1
<1>12. CASE \E q \in Page \cup {NoPage}, size \in 3 .. (MaxPage + 1), m \in {mk[1], TornMarker} :
              SyncMarker1Fails(q, size, m)
    BY <1>12, StoreSyncMarker1Fails
<1>13. CASE SyncFsync
    BY <1>13, StoreSyncFsync
<1>14. CASE SyncFsyncFails
    BY <1>14 DEF SyncFsyncFails, Sound
<1>15. CASE SyncMarker2
    BY <1>15, StoreSyncMarker2
<1>16. CASE \E m \in {mk[2], TornMarker} : SyncMarker2Fails(m)
    BY <1>16, StoreSyncMarker2Fails
<1>17. CASE Stop
    BY <1>17, StoreStop
<1>18. CASE \E lost \in SUBSET unsynced : PowerLoss(lost)
    BY <1>18, StorePowerLoss
<1>19. CASE Open
    BY <1>19, StoreOpen
<1>20. QED
    BY <1>4, <1>5, <1>6, <1>7, <1>8, <1>9, <1>10, <1>11, <1>12, <1>13, <1>14, <1>15, <1>16, <1>17,
       <1>18, <1>19 DEF Next

LEMMA StoreStutters == ASSUME Sound => Store, UNCHANGED vars PROVE (Sound => Store)'
<1>1. /\ UNCHANGED <<pc, marker, synced, lastSynced, collectible, residue, lastPage, reach, dirty,
                     reused, leftover, file, unsynced, mk, dmk>>
      /\ exposed' = exposed
    BY DEF vars, memory, txn, storage
<1>2. Store' <=> Store
    BY <1>1, SMTT(30) DEF Store, NoTransaction, Markers, StableMarker, SyncedTree, CommittedPages, FreePages, DirtyPages,
                WorkTree, WorkResidue, DirtyHistory, CleanNodes, Openable, Survivors, Intact, TreeOK,
                HistoryOK, InFile, FreeList, ListPages, HasList, BeforeSync, IsOpen, InTxn
<1>3. QED
    BY <1>1, <1>2 DEF Sound

LEMMA ClosedInit == Init => Closed
BY DEF Init, Closed, IsOpen

LEMMA ClosedNext == ASSUME Closed, [Next]_vars PROVE Closed'
<1> USE DEF Closed, IsOpen
<1>1. CASE pc' # "closed"
    BY <1>1
<1>2. CASE pc' = "closed" /\ (Stop \/ \E lost \in SUBSET unsynced : PowerLoss(lost))
    BY <1>2 DEF Stop, PowerLoss, ForgetMemory
<1>3. CASE UNCHANGED vars
    BY <1>3 DEF vars, memory, txn
<1>4. CASE pc' = "closed" /\ Next /\ ~Stop /\ ~\E lost \in SUBSET unsynced : PowerLoss(lost)
    BY <1>4 DEF Next, Begin, NewNode, RemoveDirty, RemoveClean, NewOverflow, RemoveOverflow, Touch,
                Commit, EndTransaction, CommitFails, Abort, SyncMarker1, SyncMarker1Fails, SyncData,
                SyncFsync, SyncFsyncFails, SyncMarker2, SyncMarker2Fails, Open
<1>5. QED
    BY <1>1, <1>2, <1>3, <1>4

\* The inductive invariant: types, ids and flags always, and, until the code
\* has met one of its exposures, the store as a whole: that no page has two
\* owners, and that the trees of the markers are there to go back to.
THEOREM InvariantHolds == Spec => []IInv
<1>1. Init => Typing /\ Closed /\ (Sound => Store)
    BY TypingInit, ClosedInit, StoreInit
<1>2. Typing /\ Closed /\ (Sound => Store) /\ [Next]_vars
        => (Typing /\ Closed /\ (Sound => Store))'
    BY TypingNext, ClosedNext, StoreNext, StoreStutters
<1>3. Spec => [](Typing /\ Closed /\ (Sound => Store))
    BY <1>1, <1>2, PTL DEF Spec
<1>4. Typing /\ Closed /\ (Sound => Store) => IInv
    BY DEF Typing, IInv
<1>5. QED
    BY <1>3, <1>4, PTL

-----------------------------------------------------------------------------
(***************************************************************************)
(* What the invariant says to the clients of the store.                    *)
(***************************************************************************)

LEMMA ClosedTree ==
    ASSUME Closed, ~IsOpen
    PROVE  /\ marker.tree = NoPages /\ Present(marker.tree) = {} /\ Nodes(marker.tree) = {}
           /\ collectible = {}
BY NothingDirty DEF Closed, NewMarker

\* newPage() may take any page of collectiblePages_ without a check: for every
\* number of pages and whatever was committed, aborted, synced or interrupted
\* before, none of them is in use or remembered.
THEOREM FreePagesAreUnused == Spec => []FreePagesUnused
<1>1. IInv => FreePagesUnused
    <2>1. SUFFICES ASSUME IInv, Sound
                   PROVE  /\ collectible \cap (Present(marker.tree) \cup reach \cup Present(dirty)) = {}
                          /\ collectible \cap marker.residue = {}
                          /\ \A p \in Nodes(marker.tree) :
                               collectible \cap HistoryPages(marker.tree[p]) = {}
                          /\ pc # "closed" => collectible \cap Present(synced.tree) = {}
                          /\ collectible \subseteq 3 .. (lastPage - 1)
        BY DEF FreePagesUnused
    <2>2. CASE ~IsOpen
        BY <2>1, <2>2, ClosedTree DEF IInv
    <2>3. CASE IsOpen
        <3>1. FreePages
            BY <2>1 DEF IInv, Store
        <3>2. \A p \in Nodes(marker.tree) : HistoryPages(marker.tree[p]) \subseteq Held(marker.tree)
            BY HeldMembers
        <3>3. Present(marker.tree) \subseteq Held(marker.tree)
            BY HeldMembers
        <3>4. \A p \in collectible : p \in Page /\ p < lastPage
            BY <2>3, <3>1, NodesPresent DEF FreePages, InFile
        <3>5. collectible \subseteq 3 .. (lastPage - 1)
            <4>1. lastPage \in Nat
                BY <2>1, BoundsAssumption DEF IInv, TypeOK
            <4>2. QED
                BY <3>4, <4>1, BoundsAssumption DEF Page
        <3>6. QED
            BY <2>3, <3>1, <3>2, <3>3, <3>5 DEF FreePages
    <2>4. QED
        BY <2>2, <2>3
<1>2. QED
    BY <1>1, InvariantHolds, PTL

\* collectHistory(), removeFromTree() and touchNodePage() each free pages they
\* believe to be their own; no page is ever two of theirs.
THEOREM PagesHaveOneOwner == Spec => []OneOwner
<1>1. IInv => OneOwner
    <2>1. SUFFICES ASSUME IInv, Sound, NEW p \in Nodes(marker.tree)
                   PROVE  /\ HistoryPages(marker.tree[p])
                               \cap (Present(marker.tree) \cup marker.residue) = {}
                          /\ \A q \in Nodes(marker.tree) \ {p} :
                               HistoryPages(marker.tree[p]) \cap HistoryPages(marker.tree[q]) = {}
        BY DEF OneOwner
    <2>2. CommittedPages /\ IsOpen
        BY <2>1, ClosedTree DEF IInv, Store
    <2>3. HistoryPages(marker.tree[p]) \subseteq Held(marker.tree)
        BY <2>1, HeldMembers
    <2>4. QED
        BY <2>1, <2>2, <2>3 DEF CommittedPages, TreeOK
<1>2. QED
    BY <1>1, InvariantHolds, PTL

\* The rule by which collectHistory() keeps one entry of those no newer than
\* the last sync is right: the others are not in the synced tree.
THEOREM CollectedPagesAreNotSynced == Spec => []OnlyNewestIsSynced
<1>1. IInv => OnlyNewestIsSynced
    BY DEF IInv, Store, SyncedTree, OnlyNewestIsSynced, IsOpen
<1>2. QED
    BY <1>1, InvariantHolds, PTL

\* A reader of the committed tree finds every page as it was committed.
THEOREM CommittedTreeIsReadable == Spec => []CommittedTreeReadable
<1>1. IInv => CommittedTreeReadable
    BY DEF IInv, Store, CommittedPages, CommittedTreeReadable, IsOpen
<1>2. QED
    BY <1>1, InvariantHolds, PTL

\* A power loss at any moment leaves a marker with a valid checksum, and the
\* whole tree of each marker open() may then choose.
THEOREM StoreIsRecoverable == Spec => []Recoverable
<1>1. IInv => Recoverable
    BY HeldMembers DEF IInv, Store, Markers, Intact, Recoverable
<1>2. QED
    BY <1>1, InvariantHolds, PTL

\* After a restart the pages open() takes for free are not in the tree.
THEOREM MarkersListFreePages == Spec => []MarkerListsFreePages
<1>1. IInv => MarkerListsFreePages
    BY HeldMembers DEF IInv, Store, Markers, Intact, FreeList, MarkerListsFreePages
<1>2. QED
    BY <1>1, InvariantHolds, PTL

-----------------------------------------------------------------------------
(***************************************************************************)
(* Steps.                                                                  *)
(***************************************************************************)

\* The trees of the markers are those of the last sync and, after a stop in
\* the middle of one, of the marker that was being written.
LEMMA ProtectedPages ==
    ASSUME Store
    PROVE  /\ Protected \subseteq Page
           /\ pc \in {"idle", "txn", "failed"} =>
                Protected \subseteq Held(marker.tree) \cup Present(synced.tree)
<1>1. Protected \subseteq Page
    BY NodesPresent DEF Protected
<1>2. pc \in {"idle", "txn", "failed"} => Openable \subseteq {synced}
    BY DEF Store, Markers
<1>3. QED
    BY <1>1, <1>2, HeldMembers DEF Protected

LEMMA OpenKeepsProtected ==
    ASSUME Typing, Closed, Store, Open PROVE \A p \in Protected : file'[p] = file[p]
<1>1. PICK m : m = mk[Used]
    OBVIOUS
<1>2. /\ m.valid /\ pc = "closed"
      /\ file' = [p \in Page |-> IF p >= m.size THEN Absent ELSE file[p]]
    BY <1>1 DEF Open
<1>3. m \in MarkerPage
    BY <1>1 DEF Used, Typing, TypeOK
<1>4. m.size \in Nat /\ \A p \in Page : p \in Nat
    BY <1>3, BoundsAssumption DEF MarkerPage, Page
<1>5. \A n \in Openable : \A p \in Present(n.tree) : p < m.size
    <2>1. CASE mk[1].valid
        <3>1. m = mk[1]
            BY <1>1, <2>1 DEF Used
        <3>2. QED
            BY <2>1, <3>1 DEF Store, Markers
    <2>2. CASE ~mk[1].valid
        <3>1. m = mk[2]
            BY <1>1, <2>2 DEF Used
        <3>2. Openable \subseteq {m}
            BY <1>2, <2>2, <3>1 DEF Store, Markers
        <3>3. \A n \in Openable : \A p \in Present(n.tree) : p < n.size
            BY HeldMembers DEF Store, Markers, Intact
        <3>4. QED
            BY <3>2, <3>3
    <2>3. QED
        BY <2>1, <2>2
<1>6. Present(marker.tree) = {}
    BY <1>2, ClosedTree DEF IsOpen
<1>7. \A p \in Protected : p < m.size /\ p \in Page
    BY <1>5, <1>6, NodesPresent DEF Protected
<1>8. \A p \in Page : p < m.size => ~(p >= m.size)
    BY <1>4
<1>9. QED
    BY <1>2, <1>7, <1>8

\* No step of a running process, and no truncation by open(), changes a page
\* of the committed tree or of a tree open() may have to go back to: neither a
\* commit, nor one whose write fails, nor the sync that writes a list.
THEOREM ProtectedPagesAreKept == Spec => ProtectedPagesKept
<1>1. ASSUME IInv, [Next]_vars, Sound, pc' # "closed" PROVE \A p \in Protected : file'[p] = file[p]
    <2>1. Typing /\ Closed /\ Store
        BY <1>1 DEF IInv, Typing
    <2>2. /\ Protected \subseteq Page
          /\ pc \in {"idle", "txn", "failed"} =>
               Protected \subseteq Held(marker.tree) \cup Present(synced.tree)
        BY <2>1, ProtectedPages
    <2>3. CASE UNCHANGED file
        BY <2>3
    <2>4. CASE \E n \in Page : CommitFails(n) \/ Commit
        <3>1. pc = "txn" /\ \A p \in Page : p \notin Present(dirty) => file'[p] = file[p]
            BY <2>4 DEF Commit, CommitFails, IsDirty, Present
        <3>2. Present(dirty) \cap (Held(marker.tree) \cup Present(synced.tree)) = {}
            BY <2>1 DEF Store, DirtyPages
        <3>3. QED
            BY <2>2, <3>1, <3>2
    <2>5. CASE \E q \in Page \cup {NoPage}, size \in 3 .. (MaxPage + 1) : SyncData(q, size)
        <3>1. PICK q \in Page \cup {NoPage}, size \in 3 .. (MaxPage + 1) : SyncData(q, size)
            BY <2>5
        <3>2. /\ \A p \in Page \ {q} : file'[p] = file[p]
              /\ q \notin Held(marker.tree) \cup Present(synced.tree)
            BY <2>1, <3>1, SyncDataFacts
        <3>3. pc = "idle"
            BY <3>1 DEF SyncData
        <3>4. QED
            BY <2>2, <3>2, <3>3
    <2>6. CASE Open
        BY <2>1, <2>6, OpenKeepsProtected
    <2>7. CASE Stop \/ \E lost \in SUBSET unsynced : PowerLoss(lost)
        BY <1>1, <2>7 DEF Stop, PowerLoss, ForgetMemory
    <2>8. 3 \in Page
        BY BoundsAssumption DEF Page
    <2>9. QED
        BY <1>1, <2>3, <2>4, <2>5, <2>6, <2>7, <2>8
           DEF Next, vars, Begin, NewNode, RemoveDirty, RemoveClean, NewOverflow, RemoveOverflow,
               Touch, Abort, SyncMarker1, SyncMarker1Fails, SyncFsync, SyncFsyncFails, SyncMarker2,
               SyncMarker2Fails, storage
<1>2. IInv /\ [Next]_vars => (Sound /\ pc' # "closed" => \A p \in Protected : file'[p] = file[p])
    BY <1>1
<1>3. IInv /\ [Next]_vars
        => [Sound /\ pc' # "closed" => \A p \in Protected : file'[p] = file[p]]_vars
    BY <1>2
<1>4. QED
    BY <1>3, InvariantHolds, PTL DEF Spec, ProtectedPagesKept

-----------------------------------------------------------------------------
(***************************************************************************)
(* The implementation of the abstract store.                               *)
(***************************************************************************)

\* The refinement mapping, as operators.
StableTree == IF dmk[1].valid THEN dmk[1].tree ELSE dmk[2].tree
SyncingTrees == IF mk[1].valid /\ mk[1] # dmk[1] THEN {mk[1].tree} ELSE {}

\* Every marker open() may find leads to the stable tree or the one syncing.
LEMMA OpenableTrees ==
    ASSUME Store, NEW m \in Openable PROVE m.tree \in {StableTree} \cup SyncingTrees
<1>1. m \in {mk[1], StableMarker} /\ m.valid
    BY DEF Store, Markers, Intact
<1>2. CASE m = StableMarker
    BY <1>2 DEF StableMarker, StableTree
<1>3. CASE m = mk[1]
    BY <1>1, <1>3 DEF StableTree, SyncingTrees
<1>4. QED
    BY <1>1, <1>2, <1>3

\* Outside a sync there is none in progress.
LEMMA NothingSyncing ==
    ASSUME Store, pc \in {"idle", "txn", "failed"}
    PROVE  SyncingTrees = {} /\ StableTree = synced.tree
<1>1. SyncingTrees = {}
    BY DEF SyncingTrees, Store, Markers
<1>2. StableMarker \in Openable
    BY DEF StableMarker, Openable, Survivors
<1>3. StableMarker = synced
    BY <1>2 DEF Store, Markers
<1>4. QED
    BY <1>1, <1>3 DEF StableMarker, StableTree

LEMMA CommitRefines ==
    ASSUME Typing, Store, Commit, Typing' PROVE Abstract!Commit
<1>1. pc = "txn" /\ pc' = "idle" /\ UNCHANGED <<mk, dmk>>
    BY DEF Commit, EndTransaction
<1>2. SyncingTrees = {}
    BY <1>1, NothingSyncing
<1>3. marker'.tree \in [Page -> Content]
    BY DEF Typing, TypeOK, MarkerPage
<1>4. QED
    BY <1>1, <1>2, <1>3 DEF Abstract!Commit, SyncingTrees

LEMMA SyncMarker1Refines ==
    ASSUME Typing, Store, NEW q \in Page \cup {NoPage}, NEW size \in 3 .. (MaxPage + 1),
           SyncMarker1(q, size)
    PROVE  Abstract!StartSync \/ UNCHANGED Abstract!vars
<1>1. /\ pc = "idle" /\ pc' = "marker1" /\ dmk' = mk
      /\ mk' = [mk EXCEPT ![1] = OnDisk(SyncedMarker(q, size))]
      /\ marker' = [marker EXCEPT !.residue = {}]
    BY DEF SyncMarker1, SyncData
<1>2. mk'[1] = OnDisk(SyncedMarker(q, size)) /\ mk'[2] = mk[2] /\ mk \in [1 .. 2 -> MarkerPage]
    BY <1>1 DEF Typing, TypeOK
<1>3. marker \in MarkerPage /\ marker.valid
    BY <1>1 DEF Typing, TypeOK, Store, CommittedPages, IsOpen
<1>4. SyncedMarker(q, size).tree = marker.tree /\ SyncedMarker(q, size).valid
    BY <1>3 DEF SyncedMarker, MarkerPage
<1>5. mk'[1].tree = marker.tree /\ mk'[1].valid
    <2>1. OnDisk(SyncedMarker(q, size)).tree = SyncedMarker(q, size).tree
          /\ OnDisk(SyncedMarker(q, size)).valid = SyncedMarker(q, size).valid
        BY <1>3 DEF OnDisk, SyncedMarker, MarkerPage
    <2>2. QED
        BY <1>2, <1>4, <2>1
<1>6. marker'.tree = marker.tree
    BY <1>1, <1>3 DEF MarkerPage
<1>7. SyncingTrees = {} /\ StableTree = synced.tree
    BY <1>1, NothingSyncing
<1>8. StableTree' = synced.tree
    <2>1. CASE mk[1].valid
        <3>1. mk[1] \in Openable
            BY <2>1 DEF Openable, Survivors
        <3>2. mk[1] = synced
            BY <1>1, <3>1 DEF Store, Markers
        <3>3. QED
            BY <1>1, <2>1, <3>2 DEF StableTree
    <2>2. CASE ~mk[1].valid
        <3>1. mk[2] \in Openable
            BY <2>2 DEF Openable, Survivors
        <3>2. mk[2] = synced
            BY <1>1, <3>1 DEF Store, Markers
        <3>3. QED
            BY <1>1, <2>2, <3>2 DEF StableTree
    <2>3. QED
        BY <2>1, <2>2
<1>9. SyncingTrees' = {marker.tree} \/ SyncingTrees' = {}
    BY <1>5 DEF SyncingTrees
<1>10. CASE SyncingTrees' = {marker.tree}
    BY <1>1, <1>6, <1>7, <1>8, <1>10 DEF Abstract!StartSync, StableTree, SyncingTrees
<1>11. CASE SyncingTrees' = {}
    BY <1>1, <1>6, <1>7, <1>8, <1>11 DEF Abstract!vars, StableTree, SyncingTrees
<1>12. QED
    BY <1>9, <1>10, <1>11

LEMMA SyncMarker1FailsRefines ==
    ASSUME Typing, Store, NEW q \in Page \cup {NoPage}, NEW size \in 3 .. (MaxPage + 1),
           NEW m \in {mk[1], TornMarker}, SyncMarker1Fails(q, size, m)
    PROVE  UNCHANGED Abstract!vars
<1>1. /\ pc = "idle" /\ pc' = "idle" /\ dmk' = mk /\ mk' = [mk EXCEPT ![1] = m] /\ marker' = marker
    BY DEF SyncMarker1Fails, SyncData
<1>2. mk'[1] = m /\ mk'[2] = mk[2]
    BY <1>1 DEF Typing, TypeOK
<1>3. SyncingTrees' = {}
    BY <1>1, <1>2 DEF SyncingTrees, TornMarker, NewMarker
<1>4. SyncingTrees = {} /\ StableTree = synced.tree
    BY <1>1, NothingSyncing
<1>5. mk[1].valid => mk[1] = synced
    BY <1>1 DEF Store, Markers, Openable, Survivors
<1>6. ~mk[1].valid => mk[2] = synced
    BY <1>1 DEF Store, Markers, Openable, Survivors
<1>7. StableTree' = synced.tree
    BY <1>1, <1>5, <1>6 DEF StableTree
<1>8. QED
    BY <1>1, <1>3, <1>4, <1>7 DEF Abstract!vars, StableTree, SyncingTrees

LEMMA SyncFsyncRefines ==
    ASSUME Typing, Store, SyncFsync PROVE Abstract!EndSync \/ UNCHANGED Abstract!vars
<1>1. pc = "marker1" /\ pc' = "marker2" /\ dmk' = mk /\ mk' = mk /\ marker' = marker
    BY DEF SyncFsync, memory
<1>2. mk[1].valid
    BY <1>1 DEF Store, Markers, SyncedTree, Intact, IsOpen
<1>3. StableTree' = mk[1].tree /\ SyncingTrees' = {}
    BY <1>1, <1>2 DEF StableTree, SyncingTrees
<1>4. CASE mk[1] # dmk[1]
    <2>1. SyncingTrees = {mk[1].tree}
        BY <1>2, <1>4 DEF SyncingTrees
    <2>2. QED
        BY <1>1, <1>3, <2>1 DEF Abstract!EndSync, StableTree, SyncingTrees
<1>5. CASE mk[1] = dmk[1]
    <2>1. SyncingTrees = {} /\ StableTree = mk[1].tree
        BY <1>2, <1>5 DEF SyncingTrees, StableTree
    <2>2. QED
        BY <1>1, <1>3, <2>1 DEF Abstract!vars, StableTree, SyncingTrees
<1>6. QED
    BY <1>4, <1>5

LEMMA StopRefines == ASSUME Stop PROVE Abstract!Stop
BY DEF Stop, ForgetMemory, NewMarker, storage, Abstract!Stop

LEMMA PowerLossRefines ==
    ASSUME Typing, Store, NEW lost \in SUBSET unsynced, PowerLoss(lost) PROVE Abstract!Lose
<1>1. PICK m1 \in Survivors(1) \cup MixedLists(1), m2 \in Survivors(2) \cup MixedLists(2) :
          mk' = [i \in 1 .. 2 |-> IF i = 1 THEN m1 ELSE m2]
    BY DEF PowerLoss
<1>2. pc' = "closed" /\ marker' = NewMarker /\ dmk' = mk' /\ mk'[1] = m1 /\ mk'[2] = m2
    BY <1>1 DEF PowerLoss, ForgetMemory
<1>3. SyncingTrees' = {} /\ StableTree' = IF m1.valid THEN m1.tree ELSE m2.tree
    BY <1>2 DEF SyncingTrees, StableTree
<1>4. StableTree' \in {StableTree} \cup SyncingTrees
    <2>1. CASE m1.valid
        <3>1. PICK n \in {mk[1], dmk[1]} : n.valid /\ m1.tree = n.tree
            <4>1. CASE m1 \in Survivors(1)
                BY <2>1, <4>1 DEF Survivors, TornMarker, NewMarker
            <4>2. CASE m1 \in MixedLists(1)
                <5>1. PICK n \in {mk[1], dmk[1]}, r \in SUBSET (mk[1].residue \cup dmk[1].residue) :
                          n.valid /\ m1 = [n EXCEPT !.residue = r]
                    BY <4>2 DEF MixedLists
                <5>2. n \in MarkerPage
                    BY DEF Typing, TypeOK
                <5>3. QED
                    BY <5>1, <5>2 DEF MarkerPage
            <4>3. QED
                BY <1>1, <4>1, <4>2
        <3>2. n \in Openable
            BY <3>1 DEF Openable, Survivors
        <3>3. QED
            BY <1>3, <2>1, <3>1, <3>2, OpenableTrees
    <2>2. CASE ~m1.valid
        <3>1. m1 \in Survivors(1)
            <4>1. SUFFICES ASSUME m1 \in MixedLists(1) PROVE FALSE
                BY <1>1
            <4>2. PICK n \in {mk[1], dmk[1]}, r \in SUBSET (mk[1].residue \cup dmk[1].residue) :
                      n.valid /\ m1 = [n EXCEPT !.residue = r]
                BY <4>1 DEF MixedLists
            <4>3. n \in MarkerPage
                BY DEF Typing, TypeOK
            <4>4. QED
                BY <2>2, <4>2, <4>3 DEF MarkerPage
        <3>2. Survivors(2) \subseteq Openable
            BY <2>2, <3>1 DEF Openable
        <3>3. \A n \in Survivors(2) : n.valid
            BY <3>2 DEF Store, Markers, Intact
        <3>4. mk[2] = dmk[2]
            <4>1. SUFFICES ASSUME mk[2] # dmk[2] PROVE FALSE
                OBVIOUS
            <4>2. TornMarker \in Survivors(2)
                BY <4>1 DEF Survivors
            <4>3. ~TornMarker.valid
                BY DEF TornMarker, NewMarker
            <4>4. QED
                BY <3>3, <4>2, <4>3
        <3>5. MixedLists(2) = {}
            BY <3>4 DEF MixedLists
        <3>6. m2 \in Openable
            BY <1>1, <3>2, <3>5
        <3>7. QED
            BY <1>3, <2>2, <3>6, OpenableTrees
    <2>3. QED
        BY <2>1, <2>2
<1>5. marker'.tree = NoPages
    BY <1>2 DEF NewMarker
<1>6. QED
    BY <1>2, <1>3, <1>4, <1>5 DEF Abstract!Lose, StableTree, SyncingTrees

LEMMA OpenRefines == ASSUME Typing, Store, Open PROVE Abstract!Recover
<1>1. PICK m : m = mk[Used]
    OBVIOUS
<1>2. /\ pc = "closed" /\ pc' = "idle" /\ m.valid /\ UNCHANGED <<mk, dmk>>
      /\ marker' = [m EXCEPT !.residue = {}]
    BY <1>1 DEF Open
<1>3. m \in MarkerPage
    BY <1>1 DEF Used, Typing, TypeOK
<1>4. marker'.tree = m.tree
    BY <1>2, <1>3 DEF MarkerPage
<1>5. m \in Openable
    <2>1. CASE mk[1].valid
        <3>1. m = mk[1]
            BY <1>1, <2>1 DEF Used
        <3>2. QED
            BY <2>1, <3>1 DEF Openable, Survivors
    <2>2. CASE ~mk[1].valid
        <3>1. m = mk[2]
            BY <1>1, <2>2 DEF Used
        <3>2. QED
            BY <2>2, <3>1 DEF Openable, Survivors
    <2>3. QED
        BY <2>1, <2>2
<1>6. m.tree \in {StableTree} \cup SyncingTrees
    BY <1>5, OpenableTrees
<1>7. QED
    BY <1>2, <1>4, <1>6 DEF Abstract!Recover, StableTree, SyncingTrees

LEMMA InitRefines == Init => Abstract!Init
BY DEF Init, NewMarker, Abstract!Init

\* Until the code has met one of its exposures, everything a commit, a sync, a
\* stop, a power loss and an open() do to pages and markers is what the
\* abstract store does: a restart finds the tree of the last sync, or of the
\* one that was interrupted, and nothing else.
THEOREM ImplementsDurableTree == Spec => RefinesDurableTree
<1>1. ASSUME IInv, [Next]_vars, Sound PROVE Abstract!Next \/ UNCHANGED Abstract!vars
    <2>1. Typing /\ Store /\ Typing'
        BY <1>1, TypingNext DEF IInv, Typing
    <2>2. CASE (pc' # "closed" <=> pc # "closed") /\ marker'.tree = marker.tree /\ dmk' = dmk /\ mk'[1] = mk[1]
        BY <2>2 DEF Abstract!vars
    <2>3. CASE Commit
        BY <2>1, <2>3, CommitRefines DEF Abstract!Next
    <2>4. CASE \E q \in Page \cup {NoPage}, size \in 3 .. (MaxPage + 1) : SyncMarker1(q, size)
        BY <2>1, <2>4, SyncMarker1Refines DEF Abstract!Next
    <2>5. CASE \E q \in Page \cup {NoPage}, size \in 3 .. (MaxPage + 1), m \in {mk[1], TornMarker} :
                 SyncMarker1Fails(q, size, m)
        BY <2>1, <2>5, SyncMarker1FailsRefines
    <2>6. CASE SyncFsync
        BY <2>1, <2>6, SyncFsyncRefines DEF Abstract!Next
    <2>7. CASE Stop
        BY <2>7, StopRefines DEF Abstract!Next
    <2>8. CASE \E lost \in SUBSET unsynced : PowerLoss(lost)
        BY <2>1, <2>8, PowerLossRefines DEF Abstract!Next
    <2>9. CASE Open
        BY <2>1, <2>9, OpenRefines DEF Abstract!Next
    <2>10. CASE SyncMarker2 \/ \E m \in {mk[2], TornMarker} : SyncMarker2Fails(m)
        <3>1. /\ pc = "marker2" /\ pc' = "idle" /\ marker' = marker /\ dmk' = dmk
              /\ \E m : mk' = [mk EXCEPT ![2] = m]
            BY <2>10 DEF SyncMarker2, SyncMarker2Fails, memory
        <3>2. mk'[1] = mk[1]
            BY <2>1, <3>1 DEF Typing, TypeOK
        <3>3. QED
            BY <2>2, <3>1, <3>2
    <2>11. CASE \/ Begin \/ Abort \/ SyncFsyncFails \/ UNCHANGED vars
                \/ \E p \in Page : NewNode(p) \/ RemoveDirty(p) \/ RemoveClean(p)
                \/ \E p \in Page : NewOverflow(p) \/ RemoveOverflow(p)
                \/ \E p, q \in Page, hasSpace \in BOOLEAN : Touch(p, q, hasSpace)
                \/ \E n \in Page : CommitFails(n)
        <3>1. (pc' # "closed" <=> pc # "closed") /\ marker' = marker /\ dmk' = dmk /\ mk' = mk
            BY <2>11 DEF Begin, Abort, EndTransaction, SyncFsyncFails, vars, NewNode, RemoveDirty,
                         RemoveClean, NewOverflow, RemoveOverflow, Touch, CommitFails, memory, storage
        <3>2. QED
            BY <2>2, <3>1
    <2>12. QED
        BY <1>1, <2>3, <2>4, <2>5, <2>6, <2>7, <2>8, <2>9, <2>10, <2>11 DEF Next
<1>2. IInv /\ [Next]_vars => [Sound => Abstract!Next \/ UNCHANGED Abstract!vars]_vars
    BY <1>1
<1>3. QED
    BY <1>2, InvariantHolds, InitRefines, PTL DEF Spec, RefinesDurableTree
==============================================================================
