---------------------------- MODULE HBtreePages ----------------------------
(***************************************************************************)
(* The page store under the copy-on-write B-tree of src/hbtree: which page *)
(* numbers a write transaction may use, what a commit writes, how a sync   *)
(* makes it durable in two marker pages, and what opening the file after a *)
(* stop or a power loss finds.                                             *)
(*                                                                         *)
(* Keys, values and the shape of the tree are abstracted away (they are    *)
(* the subject of HBtreeTree): a tree is the function that gives every     *)
(* page reachable from its root the content written there, and Absent to   *)
(* every other page.  A leaf or a branch is a "node" with its history; the *)
(* chain of overflow pages of one value is one "overflow" page, the chain  *)
(* that holds the residue list of a marker is one "list" page.             *)
(*                                                                         *)
(* HBtree is single threaded: what happens between two of these steps is a *)
(* stop of the process, a power loss, or the next call of the client.      *)
(***************************************************************************)
EXTENDS Naturals, FiniteSets

CONSTANTS
    MaxPage,        \* bound: the last page number of the model
    MaxRevision,    \* bound: the last revision of the model
    MarkerCapacity, \* how many page numbers fit in a marker page
    IOErrors,       \* whether a write or an fsync may fail
    PowerLosses     \* whether the machine may lose power

ASSUME BoundsAssumption ==
    /\ MaxPage \in Nat /\ MaxPage >= 3
    /\ MaxRevision \in Nat
    /\ MarkerCapacity \in Nat
    /\ IOErrors \in BOOLEAN /\ PowerLosses \in BOOLEAN

VARIABLES
    pc,          \* where the process is
    marker,      \* marker_: the last committed tree
    synced,      \* synced_: the marker of the last sync
    lastSynced,  \* lastSyncedId_
    collectible, \* collectiblePages_: free page numbers
    residue,     \* residueHistory_: pages that are free after the next sync
    lastPage,    \* lastPage_: the first page number never handed out
    reach,       \* the pages of the tree of the write transaction
    dirty,       \* dirtyPages_: page number -> content not yet written
    reused,      \* the dirty nodes whose `collected' flag is set
    leftover,    \* history variable: residueHistory_ still held pages of an
                 \* aborted transaction when the write transaction began
    file,        \* what a read of a page returns
    unsynced,    \* the pages written since the last fsync
    mk,          \* marker pages 1 and 2, as a read returns them
    dmk,         \* marker pages 1 and 2, as the last fsync left them
    exposed      \* history variable: the exposures of the code met so far

memory  == <<marker, synced, lastSynced, collectible, residue, lastPage>>
txn     == <<reach, dirty, reused, leftover>>
storage == <<file, unsynced, mk, dmk>>
vars    == <<pc, memory, txn, storage, exposed>>

-----------------------------------------------------------------------------
(***************************************************************************)
(* Data.                                                                   *)
(***************************************************************************)

\* Pages 0, 1 and 2 hold the spec and the two markers.
Page == 3 .. MaxPage
NoPage == 0

Id == 0 .. MaxRevision

\* The history of a page is a list, newest entry first; commit ids strictly
\* decrease along it, so the model keeps the set of its entries.
HistoryNode == [page : Page, sync : Id, commit : Id]

Content == [kind : {"absent", "torn", "node", "overflow", "list"}, sync : Id, commit : Id,
            history : SUBSET HistoryNode, list : SUBSET Page]

Blank(k) == [kind |-> k, sync |-> 0, commit |-> 0, history |-> {}, list |-> {}]
Absent == Blank("absent")    \* never written, or cut off by a truncation
Torn == Blank("torn")        \* the checksum does not match
Node(s, c, h) == [kind |-> "node", sync |-> s, commit |-> c, history |-> h, list |-> {}]
\* The ids of an overflow page tell its contents apart, they are not stored.
Overflow(s, c) == [kind |-> "overflow", sync |-> s, commit |-> c, history |-> {}, list |-> {}]
List(r) == [kind |-> "list", sync |-> 0, commit |-> 0, history |-> {}, list |-> r]

NoPages == [p \in Page |-> Absent]

Present(t) == {p \in Page : t[p].kind # "absent"}
Nodes(t) == {p \in Page : t[p].kind = "node"}
HistoryPages(c) == {h.page : h \in c.history}

\* overflowPage is meaningful with the flag DataOnOverflow (onOverflow) only.
MarkerPage == [valid : BOOLEAN, tree : [Page -> Content], revision : Id, syncId : Id,
               residue : SUBSET Page, size : 3 .. (MaxPage + 1), onOverflow : BOOLEAN,
               overflowPage : Page \cup {NoPage}]

\* What both marker pages of a new file hold.
NewMarker == [valid |-> TRUE, tree |-> NoPages, revision |-> 0, syncId |-> 0, residue |-> {},
              size |-> 3, onOverflow |-> FALSE, overflowPage |-> NoPage]

TornMarker == [NewMarker EXCEPT !.valid = FALSE]

\* The file has n pages: the last one was written.
HasSize(f, n) ==
    /\ \A p \in Page : p >= n => f[p] = Absent
    /\ n > 3 => f[n - 1] # Absent

\* The ways in which this code leaves its own protection, see the README.
Exposures == {"abortedResidue", "staleFlag", "oneMarker", "lostList", "unsyncedMarker"}

TypeOK ==
    /\ pc \in {"idle", "txn", "failed", "marker1", "marker2", "closed"}
    /\ marker \in MarkerPage
    /\ synced \in MarkerPage
    /\ lastSynced \in Id
    /\ collectible \in SUBSET Page
    /\ residue \in SUBSET Page
    /\ lastPage \in 3 .. (MaxPage + 1)
    /\ reach \in SUBSET Page
    /\ dirty \in [Page -> Content]
    /\ reused \in SUBSET Page
    /\ leftover \in BOOLEAN
    /\ file \in [Page -> Content]
    /\ unsynced \in SUBSET Page
    /\ mk \in [1 .. 2 -> MarkerPage]
    /\ dmk \in [1 .. 2 -> MarkerPage]
    /\ exposed \in SUBSET Exposures

-----------------------------------------------------------------------------
(***************************************************************************)
(* A new file: its spec page and its markers are taken to be durable.      *)
(***************************************************************************)
Init ==
    /\ pc = "idle"
    /\ marker = NewMarker
    /\ synced = NewMarker
    /\ lastSynced = 0
    /\ collectible = {}
    /\ residue = {}
    /\ lastPage = 3
    /\ reach = {}
    /\ dirty = NoPages
    /\ reused = {}
    /\ leftover = FALSE
    /\ file = NoPages
    /\ unsynced = {}
    /\ mk = [i \in 1 .. 2 |-> NewMarker]
    /\ dmk = [i \in 1 .. 2 |-> NewMarker]
    /\ exposed = {}

-----------------------------------------------------------------------------
(***************************************************************************)
(* The write transaction.                                                  *)
(***************************************************************************)

\* newPage() returns p: any collectible page (the first of a hash set), else
\* a page at the end of the file.
CanTake(p) == p \in collectible \/ (collectible = {} /\ p = lastPage /\ p <= MaxPage)
LastPageAfter(p) == IF p \in collectible THEN lastPage ELSE lastPage + 1
ReusedAfter(p) == IF p \in collectible THEN reused \cup {p} ELSE reused \ {p}

NewPage(p) ==
    /\ CanTake(p)
    /\ collectible' = collectible \ {p}
    /\ lastPage' = LastPageAfter(p)

\* The ids newPage() and touchNodePage() stamp on a page.
NewSync == lastSynced + 1
NewCommit == marker.revision + 1

\* What getPage() returns in the write transaction.
WorkPage(p) == IF dirty[p].kind # "absent" THEN dirty[p] ELSE marker.tree[p]

IsDirty(p) == dirty[p].kind # "absent"

Begin ==
    /\ pc = "idle"
    /\ marker.revision < MaxRevision
    /\ pc' = "txn"
    /\ reach' = Present(marker.tree)
    /\ leftover' = (residue # marker.residue)
    /\ UNCHANGED <<memory, dirty, reused, storage, exposed>>

\* put() into an empty tree, and both new pages of split().
NewNode(p) ==
    /\ pc = "txn"
    /\ NewPage(p)
    /\ dirty' = [dirty EXCEPT ![p] = Node(NewSync, NewCommit, {})]
    /\ reach' = reach \cup {p}
    /\ reused' = ReusedAfter(p)
    /\ UNCHANGED <<pc, marker, synced, lastSynced, residue, leftover, storage, exposed>>

\* addHistoryNode() of the copied page p: without space for one more entry the
\* whole history goes to the residue.
HistoryWith(p, hasSpace) ==
    LET old == marker.tree[p]
    IN  IF hasSpace
        THEN old.history \cup {[page |-> p, sync |-> old.sync, commit |-> old.commit]}
        ELSE {}
ResidueWith(p, hasSpace) ==
    IF hasSpace THEN residue ELSE residue \cup HistoryPages(marker.tree[p]) \cup {p}

\* touchNodePage(): a clean node p is copied to q.
Touch(p, q, hasSpace) ==
    /\ pc = "txn"
    /\ p \in reach
    /\ ~IsDirty(p)
    /\ marker.tree[p].kind = "node"
    /\ NewPage(q)
    /\ dirty' = [dirty EXCEPT ![q] = Node(NewSync, NewCommit, HistoryWith(p, hasSpace))]
    /\ residue' = ResidueWith(p, hasSpace)
    /\ reach' = (reach \ {p}) \cup {q}
    /\ reused' = ReusedAfter(q)
    /\ UNCHANGED <<pc, marker, synced, lastSynced, leftover, storage, exposed>>

\* removeFromTree() of a page of this transaction: the root that became empty
\* or has one child left, or a page merged into its neighbour.
RemoveDirty(p) ==
    /\ pc = "txn"
    /\ p \in reach
    /\ dirty[p].kind = "node"
    /\ residue' = residue \cup HistoryPages(dirty[p]) \cup ({p} \cap reused)
    /\ reach' = reach \ {p}
    /\ dirty' = [dirty EXCEPT ![p] = Absent]
    /\ reused' = reused \ {p}
    /\ UNCHANGED <<pc, marker, synced, lastSynced, collectible, lastPage, leftover, storage,
                   exposed>>

\* mergePages() of a neighbour that was not touched: removeFromTree() returns
\* at once and nothing remembers the page.
RemoveClean(p) ==
    /\ pc = "txn"
    /\ p \in reach
    /\ ~IsDirty(p)
    /\ marker.tree[p].kind = "node"
    /\ reach' = reach \ {p}
    /\ UNCHANGED <<pc, memory, dirty, reused, leftover, storage, exposed>>

\* insertNode() and removeNode() change dirty pages only.
SomeDirtyNode == \E n \in reach : dirty[n].kind = "node"

\* putDataOnOverflow() for a value.
NewOverflow(p) ==
    /\ pc = "txn"
    /\ SomeDirtyNode
    /\ NewPage(p)
    /\ dirty' = [dirty EXCEPT ![p] = Overflow(NewSync, NewCommit)]
    /\ reach' = reach \cup {p}
    /\ reused' = reused \ {p}
    /\ UNCHANGED <<pc, marker, synced, lastSynced, residue, leftover, storage, exposed>>

\* removeNode() of a key whose value is on overflow pages.  A page of this
\* transaction stays in dirtyPages_ and is written by the commit.
RemoveOverflow(p) ==
    /\ pc = "txn"
    /\ SomeDirtyNode
    /\ p \in reach
    /\ WorkPage(p).kind = "overflow"
    /\ residue' = residue \cup {p}
    /\ reach' = reach \ {p}
    /\ UNCHANGED <<pc, marker, synced, lastSynced, collectible, lastPage, dirty, reused, leftover,
                   storage, exposed>>

-----------------------------------------------------------------------------
(***************************************************************************)
(* commit() and abort().                                                   *)
(***************************************************************************)

\* The newest entry of a set of history entries.
Newest(H) == {h \in H : \A g \in H : g.commit <= h.commit}

\* collectHistory(): of the entries no newer than the last sync, and of those
\* committed since, it keeps the newest (HBTREE_COMMIT_CHAIN is 1).
BeforeSync(c) == {h \in c.history : h.sync <= lastSynced}
SinceSync(c) == {h \in c.history : h.sync > lastSynced /\ h.commit <= marker.revision}
\* Mutant of Collected: the newest entries are freed, too.
CollectsWholeHistory(c) == BeforeSync(c) \cup SinceSync(c)
Collected(c) == (BeforeSync(c) \ Newest(BeforeSync(c))) \cup (SinceSync(c) \ Newest(SinceSync(c)))

\* Mutant of Serialized: what was collected stays in the history.
KeepsHistory(c) == c
\* What commit() writes for a dirty page.
Serialized(c) == [c EXCEPT !.history = @ \ Collected(c)]

CollectedPages == UNION {{h.page : h \in Collected(dirty[p])} : p \in Nodes(dirty)}

CommittedTree ==
    [p \in Page |-> IF p \notin reach THEN Absent
                    ELSE IF IsDirty(p) THEN Serialized(dirty[p]) ELSE marker.tree[p]]

\* The end of every transaction, abort(): the dirty pages are dropped.  The
\* pages taken from collectiblePages_ and put in residueHistory_ stay.
EndTransaction ==
    /\ pc' = "idle"
    /\ reach' = {}
    /\ dirty' = NoPages
    /\ reused' = {}
    /\ leftover' = FALSE

Abort ==
    /\ pc \in {"txn", "failed"}
    /\ EndTransaction
    /\ UNCHANGED <<memory, storage, exposed>>

\* commit(): every dirty page is written, then the marker in memory changes.
\* A stop between two of the writes is CommitFails and then Stop; for a power
\* loss it makes no difference which of the writes were issued.
Commit ==
    /\ pc = "txn"
    /\ file' = [p \in Page |-> IF IsDirty(p) THEN Serialized(dirty[p]) ELSE file[p]]
    /\ unsynced' = unsynced \cup Present(dirty)
    /\ collectible' = collectible \cup CollectedPages
    /\ marker' = [marker EXCEPT !.tree = CommittedTree, !.revision = @ + 1,
                                !.syncId = lastSynced + 1, !.residue = residue]
    /\ exposed' = IF leftover THEN exposed \cup {"abortedResidue"} ELSE exposed
    /\ EndTransaction
    /\ UNCHANGED <<synced, lastSynced, residue, lastPage, mk, dmk>>

\* commit() whose write of page n fails: the pages before n are written, a
\* file that has grown is cut back, the transaction stays open.  Every caller
\* in src/partition then aborts it.
CommitFails(n) ==
    /\ IOErrors
    /\ pc = "txn"
    /\ IsDirty(n)
    /\ \E size \in 3 .. (MaxPage + 1) :
         LET written == {p \in Present(dirty) : p < n /\ p < size}
         IN  /\ HasSize(file, size)
             /\ file' = [p \in Page |-> IF p \in written THEN Serialized(dirty[p]) ELSE file[p]]
             /\ unsynced' = unsynced \cup written
    /\ pc' = "failed"
    /\ dirty' = [p \in Page |-> IF p < n THEN Absent ELSE dirty[p]]
    /\ UNCHANGED <<memory, reach, reused, leftover, mk, dmk, exposed>>

-----------------------------------------------------------------------------
(***************************************************************************)
(* sync(): fsync, marker 1, fsync, marker 2.                               *)
(***************************************************************************)

ResidueList == marker.residue \cup collectible

NeedsOverflow == Cardinality(ResidueList) > MarkerCapacity

\* The marker sync() writes; q is the overflow page of its list, if any.  With
\* a stale flag the page number is not written: what a read finds is garbage.
SyncedMarker(q, size) ==
    [marker EXCEPT !.residue = IF NeedsOverflow THEN {} ELSE ResidueList,
                   !.onOverflow = @ \/ NeedsOverflow,
                   !.overflowPage = IF NeedsOverflow THEN q ELSE @,
                   !.size = size]
OnDisk(m) == [m EXCEPT !.overflowPage = IF NeedsOverflow THEN @ ELSE NoPage]

\* Mutant of SyncData: the marker is written without the first fsync.
NoFsyncBeforeMarker(q, size) ==
    /\ pc = "idle"
    /\ marker.syncId # lastSynced
    /\ dmk' = dmk
    /\ IF NeedsOverflow
       THEN /\ CanTake(q)
            /\ lastPage' = LastPageAfter(q)
            /\ file' = [file EXCEPT ![q] = List(ResidueList)]
            /\ unsynced' = unsynced \cup {q}
       ELSE /\ q = NoPage
            /\ UNCHANGED <<lastPage, file, unsynced>>
    /\ HasSize(file', size)

\* The first fsync, and the overflow page of the list, written after it.
SyncData(q, size) ==
    /\ pc = "idle"
    /\ marker.syncId # lastSynced
    /\ dmk' = mk
    /\ IF NeedsOverflow
       THEN /\ CanTake(q)
            /\ lastPage' = LastPageAfter(q)
            /\ file' = [file EXCEPT ![q] = List(ResidueList)]
            /\ unsynced' = {q}
       ELSE /\ q = NoPage
            /\ unsynced' = {}
            /\ UNCHANGED <<lastPage, file>>
    /\ HasSize(file', size)

\* The overflow page of the list of the previous sync.
PreviousList == IF synced.onOverflow THEN {synced.overflowPage} ELSE {}

\* Marker 1 is about to be overwritten while marker 2 does not hold the last
\* sync, or to be written with a flag that is not about its list.
SyncExposures ==
    (IF mk[2] # synced THEN {"oneMarker"} ELSE {})
        \cup (IF marker.onOverflow /\ ~NeedsOverflow THEN {"staleFlag"} ELSE {})

\* sync() up to its second fsync.
SyncMarker1(q, size) ==
    /\ SyncData(q, size)
    /\ mk' = [mk EXCEPT ![1] = OnDisk(SyncedMarker(q, size))]
    /\ synced' = SyncedMarker(q, size)
    /\ lastSynced' = lastSynced + 1
    /\ collectible' = (collectible \cup PreviousList \cup marker.residue) \ {q}
    /\ marker' = [marker EXCEPT !.residue = {}]
    /\ residue' = {}
    /\ exposed' = exposed \cup SyncExposures
    /\ pc' = "marker1"
    /\ UNCHANGED txn

\* The write of marker 1 fails, or leaves a torn page: sync() returns false,
\* the overflow page it took is lost.
SyncMarker1Fails(q, size, m) ==
    /\ IOErrors
    /\ SyncData(q, size)
    /\ m \in {mk[1], TornMarker}
    /\ mk' = [mk EXCEPT ![1] = m]
    /\ collectible' = collectible \ {q}
    /\ exposed' = exposed \cup SyncExposures
    /\ UNCHANGED <<pc, marker, synced, lastSynced, residue, txn>>

\* The second fsync, after which sync() writes marker 2.
SyncFsync ==
    /\ pc = "marker1"
    /\ unsynced' = {}
    /\ dmk' = mk
    /\ pc' = "marker2"
    /\ UNCHANGED <<memory, txn, file, mk, exposed>>

\* The second fsync fails: sync() returns false, what it changed stays.
SyncFsyncFails ==
    /\ IOErrors
    /\ pc = "marker1"
    /\ exposed' = exposed \cup {"unsyncedMarker"}
    /\ pc' = "idle"
    /\ UNCHANGED <<memory, txn, storage>>

\* The write of marker 2; nothing waits for it to be durable.
SyncMarker2 ==
    /\ pc = "marker2"
    /\ mk' = [mk EXCEPT ![2] = mk[1]]
    /\ pc' = "idle"
    /\ UNCHANGED <<memory, txn, file, unsynced, dmk, exposed>>

SyncMarker2Fails(m) ==
    /\ IOErrors
    /\ pc = "marker2"
    /\ m \in {mk[2], TornMarker}
    /\ mk' = [mk EXCEPT ![2] = m]
    /\ pc' = "idle"
    /\ UNCHANGED <<memory, txn, file, unsynced, dmk, exposed>>

-----------------------------------------------------------------------------
(***************************************************************************)
(* Stops, power losses and open().                                         *)
(***************************************************************************)

ForgetMemory ==
    /\ pc' = "closed"
    /\ marker' = NewMarker
    /\ synced' = NewMarker
    /\ lastSynced' = 0
    /\ collectible' = {}
    /\ residue' = {}
    /\ lastPage' = 3
    /\ reach' = {}
    /\ dirty' = NoPages
    /\ reused' = {}
    /\ leftover' = FALSE

\* close() without a sync (close() with one is sync() and then this), or the
\* process ends anywhere: the operating system keeps what was written.
Stop ==
    /\ pc # "closed"
    /\ ForgetMemory
    /\ UNCHANGED <<storage, exposed>>

\* What a power loss may leave of marker page i.  The checksum of a marker
\* covers its header, not its list: a torn write may leave a valid header with
\* other page numbers in the list.
Survivors(i) == {mk[i], dmk[i]} \cup (IF mk[i] # dmk[i] THEN {TornMarker} ELSE {})
MixedLists(i) ==
    IF mk[i].residue = dmk[i].residue THEN {}
    ELSE {[m EXCEPT !.residue = r] : m \in {n \in {mk[i], dmk[i]} : n.valid},
                                     r \in SUBSET (mk[i].residue \cup dmk[i].residue)}

HasList(m, f) == m.onOverflow => m.overflowPage # NoPage /\ f[m.overflowPage].kind = "list"

\* Of the pages written since the last fsync any may be lost: what is found is
\* not what was written.
PowerLoss(lost) ==
    /\ PowerLosses
    /\ ForgetMemory
    /\ file' = [p \in Page |-> IF p \in lost THEN Torn ELSE file[p]]
    /\ unsynced' = {}
    /\ \E m1 \in Survivors(1) \cup MixedLists(1), m2 \in Survivors(2) \cup MixedLists(2) :
         /\ mk' = [i \in 1 .. 2 |-> IF i = 1 THEN m1 ELSE m2]
         /\ exposed' = IF /\ m1 \in Survivors(1) /\ m2 \in Survivors(2)
                          /\ m1.valid => HasList(m1, file')
                          /\ m2.valid => HasList(m2, file')
                       THEN exposed ELSE exposed \cup {"lostList"}
    /\ dmk' = mk'

\* Mutant of Used: marker 2, the older one, comes first.
PrefersMarker2 == IF mk[2].valid THEN 2 ELSE 1
\* readSyncedMarker(): the marker page open() uses.
Used == IF mk[1].valid THEN 1 ELSE 2

\* open() of an existing file.  Without a valid marker it fails; with a flag
\* but no list it reads past a buffer, and the model stops.
Open ==
    /\ pc = "closed"
    /\ LET m == mk[Used]
       IN  /\ m.valid
           /\ HasList(m, file)
           /\ marker' = [m EXCEPT !.residue = {}]
           /\ synced' = m
           /\ lastSynced' = m.syncId
           /\ collectible' = IF m.onOverflow THEN file[m.overflowPage].list \ {m.overflowPage}
                             ELSE m.residue
           /\ lastPage' = m.size
           /\ file' = [p \in Page |-> IF p >= m.size THEN Absent ELSE file[p]]
           /\ exposed' = IF m = dmk[Used] THEN exposed ELSE exposed \cup {"unsyncedMarker"}
    /\ pc' = "idle"
    /\ UNCHANGED <<residue, txn, unsynced, mk, dmk>>

-----------------------------------------------------------------------------
Next ==
    \/ Begin
    \/ \E p \in Page : NewNode(p) \/ RemoveDirty(p) \/ RemoveClean(p)
    \/ \E p \in Page : NewOverflow(p) \/ RemoveOverflow(p)
    \/ \E p, q \in Page, hasSpace \in BOOLEAN : Touch(p, q, hasSpace)
    \/ Commit
    \/ \E n \in Page : CommitFails(n)
    \/ Abort
    \/ \E q \in Page \cup {NoPage}, size \in 3 .. (MaxPage + 1) : SyncMarker1(q, size)
    \/ \E q \in Page \cup {NoPage}, size \in 3 .. (MaxPage + 1), m \in {mk[1], TornMarker} :
           SyncMarker1Fails(q, size, m)
    \/ SyncFsync
    \/ SyncFsyncFails
    \/ SyncMarker2
    \/ \E m \in {mk[2], TornMarker} : SyncMarker2Fails(m)
    \/ Stop
    \/ \E lost \in SUBSET unsynced : PowerLoss(lost)
    \/ Open

Spec == Init /\ [][Next]_vars

-----------------------------------------------------------------------------
(***************************************************************************)
(* What must hold until the code has met one of the exposures.             *)
(***************************************************************************)

Sound == exposed = {}

\* The markers that open() may find after a power loss now.
Openable ==
    {m \in Survivors(1) : m.valid}
        \cup (IF \E m \in Survivors(1) : ~m.valid THEN Survivors(2) ELSE {})

\* The pages of which a commit or a sync must not change the content.
Protected == Present(marker.tree) \cup UNION {Present(m.tree) : m \in Openable}

\* collectiblePages_ holds free pages only: no page of the committed tree, of
\* the tree of the write transaction, of the last sync or of a history that a
\* later commit will collect, and no page newPage() has not handed out yet.
\* newPage() takes from it without a check.
FreePagesUnused ==
    Sound =>
        /\ collectible \cap (Present(marker.tree) \cup reach \cup Present(dirty)) = {}
        /\ collectible \cap marker.residue = {}
        /\ \A p \in Nodes(marker.tree) : collectible \cap HistoryPages(marker.tree[p]) = {}
        /\ pc # "closed" => collectible \cap Present(synced.tree) = {}
        /\ collectible \subseteq 3 .. (lastPage - 1)

\* No page number has two owners: the histories of two pages, the history and
\* the tree, or the history and the residue.  A page with two owners would be
\* freed by one of them while the other still needs it.
OneOwner ==
    Sound =>
        \A p \in Nodes(marker.tree) :
            /\ HistoryPages(marker.tree[p]) \cap (Present(marker.tree) \cup marker.residue) = {}
            /\ \A q \in Nodes(marker.tree) \ {p} :
                  HistoryPages(marker.tree[p]) \cap HistoryPages(marker.tree[q]) = {}

\* Of the history of a page, collectHistory() may free all entries no newer
\* than the last sync but the newest: the others are not in the synced tree.
OnlyNewestIsSynced ==
    Sound /\ pc # "closed" =>
        \A p \in Nodes(marker.tree) : \A h \in marker.tree[p].history :
            h.page \in Present(synced.tree) =>
                h.sync <= lastSynced /\ h \in Newest(BeforeSync(marker.tree[p]))

\* A read of any page of the committed tree finds what was committed: neither
\* a later transaction nor its abort or failed commit has overwritten it.
CommittedTreeReadable ==
    Sound /\ pc # "closed" => \A p \in Present(marker.tree) : file[p] = marker.tree[p]

\* Whatever a power loss leaves, open() finds a valid marker whose whole tree
\* is there, durable, and inside the size to which open() truncates the file.
Recoverable ==
    Sound =>
        \A m \in Openable :
            /\ m.valid
            /\ \A p \in Present(m.tree) : file[p] = m.tree[p] /\ p \notin unsynced /\ p < m.size

\* The list of free pages in a marker never names a page of its tree.
MarkerListsFreePages ==
    Sound =>
        \A m \in Openable :
            LET free == IF m.onOverflow THEN file[m.overflowPage].list ELSE m.residue
            IN  free \cap Present(m.tree) = {}

\* No step of a running process, nor the truncation in open(), changes a page
\* of the committed tree or of a tree open() may have to go back to.
ProtectedPagesKept ==
    [][Sound /\ pc' # "closed" => \A p \in Protected : file'[p] = file[p]]_vars

-----------------------------------------------------------------------------
(***************************************************************************)
(* The store implements the abstract one: the stable tree is the one that  *)
(* open() finds if all that no fsync has covered is lost, and a marker 1   *)
(* not covered yet leads to the tree that a sync may have made durable.    *)
(***************************************************************************)

Abstract == INSTANCE DurableTree WITH
    Tree <- [Page -> Content],
    Empty <- NoPages,
    running <- pc # "closed",
    committed <- marker.tree,
    stable <- IF dmk[1].valid THEN dmk[1].tree ELSE dmk[2].tree,
    syncing <- IF mk[1].valid /\ mk[1] # dmk[1] THEN {mk[1].tree} ELSE {}

\* Commits, syncs, stops, power losses and openings of the file, with all that
\* they do to pages and markers, are steps of the abstract store: after any of
\* them a restart finds the tree of the last sync, or of the one interrupted.
RefinesDurableTree == Abstract!Init /\ [][Sound => Abstract!Next \/ UNCHANGED Abstract!vars]_vars

=============================================================================
