----------------------- MODULE HBtreePagesInductive ------------------------
(***************************************************************************)
(* The inductive invariant of HBtreePages: what the code relies on between *)
(* any two of its steps, in named parts.  It is checked by TLC as it is,   *)
(* and HBtreePagesProofs shows that every step preserves it.               *)
(***************************************************************************)
EXTENDS HBtreePages

IsOpen == pc # "closed"
InTxn == pc = "txn"

\* Revisions and sync ids never run ahead of each other.
Ids ==
    /\ marker.syncId \in {lastSynced, lastSynced + 1}
    /\ marker.syncId <= marker.revision
    /\ lastSynced <= marker.revision
    /\ \A i \in 1 .. 2 : mk[i].syncId <= mk[i].revision /\ dmk[i].syncId <= dmk[i].revision
    /\ InTxn => marker.revision < MaxRevision

\* A marker in memory that has the flag also has the page.
Flags ==
    /\ marker.onOverflow => marker.overflowPage # NoPage
    /\ synced.onOverflow => synced.overflowPage # NoPage

\* Nothing is in memory while the file is closed.
Closed ==
    ~IsOpen =>
        marker = NewMarker /\ collectible = {} /\ lastPage = 3 /\ reach = {} /\ dirty = NoPages

\* Outside a transaction nothing is left of one.
NoTransaction ==
    pc \notin {"txn", "failed"} => reach = {} /\ dirty = NoPages /\ reused = {} /\ ~leftover

\* Pages that were written at some time and not cut off.
InFile == Present(file)

\* The list of free pages open() reads with a marker.
FreeList(m) == IF m.onOverflow THEN file[m.overflowPage].list ELSE m.residue

\* A history: each page and each commit once, older than its node.
HistoryOK(c) ==
    /\ \A g, h \in c.history : g.page = h.page \/ g.commit = h.commit => g = h
    /\ \A h \in c.history : h.commit < c.commit

\* A tree on its own: no page of a history is used twice or in the tree.
TreeOK(t) ==
    \A p \in Nodes(t) :
        /\ HistoryOK(t[p])
        /\ HistoryPages(t[p]) \cap Present(t) = {}
        /\ HistoryPages(t[p]) \subseteq InFile
        /\ \A q \in Nodes(t) \ {p} : HistoryPages(t[p]) \cap HistoryPages(t[q]) = {}

\* The overflow page that holds the list of a marker.
ListPages(m) == IF m.onOverflow THEN {m.overflowPage} ELSE {}

\* The pages that tree t uses or remembers.
Held(t) == Present(t) \cup UNION {HistoryPages(t[p]) : p \in Nodes(t)}

\* A marker from which open() restores a tree that can be worked on.
Intact(m) ==
    /\ m.valid
    /\ HasList(m, file)
    /\ ~m.onOverflow => m.overflowPage = NoPage
    /\ \A p \in Present(m.tree) :
          file[p] = m.tree[p] /\ p \notin unsynced /\ m.tree[p].kind \in {"node", "overflow"}
    /\ \A p \in Nodes(m.tree) : m.tree[p].commit <= m.revision /\ m.tree[p].sync <= m.syncId
    /\ TreeOK(m.tree)
    /\ FreeList(m) \subseteq InFile
    /\ (FreeList(m) \cup ListPages(m)) \cap Held(m.tree) = {}
    /\ \A p \in FreeList(m) \cup ListPages(m) \cup Held(m.tree) : p < m.size

\* The marker open() finds if all that no fsync has covered is lost.
StableMarker == IF dmk[1].valid THEN dmk[1] ELSE dmk[2]

\* The markers open() may find, now or after a power loss.
Markers ==
    /\ \A m \in Openable : Intact(m)
    /\ pc = "closed" /\ ~mk[1].valid => Openable \subseteq {mk[2]}
    /\ pc \in {"idle", "txn", "failed", "marker2"} => Openable \subseteq {synced}
    /\ \A m \in Openable : m \in {mk[1], StableMarker}
    /\ pc \in {"idle", "txn", "failed"} /\ mk[1].valid => dmk[1] = mk[1]
    /\ mk[1].valid => \A m \in Openable : \A p \in Present(m.tree) : p < mk[1].size
    /\ pc = "marker1" => mk[1] = synced
    /\ pc = "marker2" => mk[1] = synced /\ dmk[1] = synced

\* The synced tree, from which the committed tree was copied on write.
SyncedTree ==
    IsOpen =>
        /\ Intact(synced)
        /\ synced.syncId <= lastSynced
        /\ \A p \in Nodes(marker.tree) :
              p \in Present(synced.tree) <=> marker.tree[p].sync <= lastSynced
        /\ \A p \in Nodes(marker.tree) : \A h \in marker.tree[p].history :
              h.page \in Present(synced.tree) =>
                  h.sync <= lastSynced /\ h \in Newest(BeforeSync(marker.tree[p]))

\* The committed tree and the pages it will free.
CommittedPages ==
    IsOpen =>
        /\ marker.valid
        /\ \A p \in Present(marker.tree) :
              file[p] = marker.tree[p] /\ marker.tree[p].kind \in {"node", "overflow"}
        /\ \A p \in Nodes(marker.tree) :
              marker.tree[p].commit <= marker.revision /\ marker.tree[p].sync <= marker.syncId
        /\ TreeOK(marker.tree)
        /\ marker.residue \cap Held(marker.tree) = {}
        /\ marker.residue \subseteq InFile
        /\ ~marker.onOverflow => marker.overflowPage = NoPage
        /\ ListPages(synced) \cap (Held(marker.tree) \cup marker.residue) = {}

\* The free pages.
FreePages ==
    IsOpen =>
        /\ collectible \subseteq InFile
        /\ \A p \in InFile : p < lastPage
        /\ collectible \cap (Held(marker.tree) \cup Present(synced.tree) \cup marker.residue) = {}
        /\ collectible \cap (reach \cup Present(dirty) \cup ListPages(synced)) = {}
        /\ \A p \in ListPages(synced) : p < lastPage

\* The pages newPage() has handed out to the transaction.
DirtyPages ==
    \A p \in Present(dirty) :
        /\ p < lastPage
        /\ p \notin Held(marker.tree) \cup Present(synced.tree) \cup ListPages(synced)
        /\ dirty[p].kind \in {"node", "overflow"}
        /\ dirty[p].sync = lastSynced + 1
        /\ dirty[p].commit = marker.revision + 1

\* The clean nodes that are still in the tree of the transaction.
CleanNodes == {p \in Nodes(marker.tree) : p \in reach}

\* The history of the dirty node p, which the commit collects.
DirtyHistory(p) ==
    /\ HistoryOK(dirty[p])
    /\ HistoryPages(dirty[p]) \subseteq InFile
    /\ HistoryPages(dirty[p])
         \cap (collectible \cup reach \cup Present(dirty) \cup ListPages(synced)) = {}
    /\ \A q \in Nodes(dirty) \ {p} : HistoryPages(dirty[p]) \cap HistoryPages(dirty[q]) = {}
    /\ \A q \in CleanNodes : HistoryPages(dirty[p]) \cap HistoryPages(marker.tree[q]) = {}
    /\ \A h \in dirty[p].history :
         h.page \in Present(synced.tree) =>
             h.sync <= lastSynced /\ h \in Newest(BeforeSync(dirty[p]))

\* The tree of the transaction.
WorkTree ==
    InTxn =>
        /\ reach \subseteq Present(marker.tree) \cup Present(dirty)
        /\ Nodes(dirty) \subseteq reach
        /\ reused \subseteq Nodes(dirty) \cap InFile
        /\ \A p \in Nodes(dirty) : DirtyHistory(p)

\* The residue of a transaction that began with nothing left of an aborted one.
WorkResidue ==
    InTxn /\ ~leftover =>
        /\ residue \subseteq InFile \cup Present(dirty)
        /\ residue \cap (collectible \cup reach \cup ListPages(synced)) = {}
        /\ \A p \in Nodes(dirty) : residue \cap HistoryPages(dirty[p]) = {}
        /\ \A p \in CleanNodes : residue \cap HistoryPages(marker.tree[p]) = {}

Store ==
    /\ NoTransaction
    /\ Markers
    /\ SyncedTree
    /\ CommittedPages
    /\ FreePages
    /\ DirtyPages
    /\ WorkTree
    /\ WorkResidue

\* The inductive invariant.
IInv == TypeOK /\ Ids /\ Flags /\ Closed /\ (Sound => Store)
=============================================================================
