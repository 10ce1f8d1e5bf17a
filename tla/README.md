# Verification of QtJsonDb

TLA+ modules, TLC runs and TLAPS proofs about the JSON database in `src/src`.
The paths below are relative to the repository root (`src/hbtree/...` stands for
`src/src/hbtree/...` in `PROJECT.json`).

    tlc -workers 2 -config <X>.cfg MC<X>.tla     # X is the name of a .cfg
    tlapm <X>Proofs.tla                          # section 14 lists them

Where to start: `DurableTree.tla` (one page: what a store promises), then the
header and the properties of `HBtreePages.tla`, then `JsonDbObjectTable.tla` and
`JsonDbView.tla`, which stand on it. The modules about the client start with
`QJsonDbConnection.tla`.

1. [The system](#1-the-system)
2. [The modules and the plan](#2-the-modules-and-the-plan)
3. [HBtreePages: the page store](#3-hbtreepages-the-page-store)
4. [HBtreeTree: the B-tree and its cursors](#4-hbtreetree-the-b-tree-and-its-cursors)
5. [JsonDbObjectTable: objects, change log, indexes](#5-jsondbobjecttable-objects-change-log-indexes)
6. [JsonDbView: views](#6-jsondbview-views)
7. [JsonDbPartitionWrite: versions, batches, replication](#7-jsondbpartitionwrite-versions-batches-replication)
8. [JsonDbIndexQuery: queries](#8-jsondbindexquery-queries)
9. [JsonDbNotification: one watcher](#9-jsondbnotification-one-watcher)
10. [QJsonDbConnection: the client's requests](#10-qjsondbconnection-the-clients-requests)
11. [QJsonDbQueryModel and JsonDbSortingListModel: the models](#11-qjsondbquerymodel-and-jsondbsortinglistmodel-the-models)
12. [DBServer: the daemon](#12-dbserver-the-daemon)
13. [QmlPartition: the QML import](#13-qmlpartition-the-qml-import)
14. [What is proved](#14-what-is-proved)
15. [What is only model-checked, and what is not modelled](#15-what-is-only-model-checked-and-what-is-not-modelled)
16. [What the models met in the code](#16-what-the-models-met-in-the-code)

## 1. The system

A daemon (`jsondb`) owns *partitions*; a partition is a main object table, its
indexes and its views, each a B-tree file of its own. Clients talk to the daemon
in JSON messages over a local socket, or host a private partition in a thread.

| Component | State | Operations | What is hard | What makes it correct |
| --- | --- | --- | --- | --- |
| **HBtree page store** `src/hbtree/hbtree.cpp` | the last committed marker, the synced one, free pages (`collectiblePages_`), `residueHistory_`, dirty pages, the file and its two marker pages | begin, newPage, touchNodePage, removeFromTree, commit, abort, sync, open, close | power loss between any two writes; three fsyncs and two markers; pages freed by comparing ids of earlier transactions; failing writes | no page is used again while a tree on disk, in memory or in a history leads to it; a restart finds the last sync |
| **B-tree and cursors** `hbtree.cpp`, `orderedlist_p.h`, `hbtreecursor.cpp` | pages of sorted entries | put, del, get, split, rebalance, cursor moves | variable sizes, separators after moves and merges, stale parents | what was put is found; pages fit; cursors see every key in order |
| **Object table** `src/partition/jsondbobjecttable.cpp`, `jsondbindex.cpp` | the objects and change log in one file, `mChangeCache`, `mIndexes`, the state number | begin, put, indexObject, deindexObject, commit, changesSince, addIndex, removeIndex, sync | files committed and synced one by one; state numbers used again after a crash; a log read through a cache | no index disagrees with the table; `changesSince(n)` leads from state n to now |
| **Views** `jsondbview.cpp`, `jsondbmapdefinition.cpp`, `jsondbreducedefinition.cpp` | a table of its own with a state number, `mViewStateNumber` in memory | updateView (full), updateEagerView, updateViewStateNumber | updated by queued events with the table's number of *delivery* time | the view is what its definition makes of the state it says it has seen |
| **Partition** `jsondbpartition.cpp` | transaction depth, views, the graph of eager views, notifications, two sync timers | updateObjects, queryObjects, addNotification, removeNotification, `_q_objectsUpdated`, open, close, flush | errors in the middle of a batch; events queued behind writes | everybody hears of what is stored |
| **Object versions** `jsondbobject.cpp` | `_version`, `_meta.history`, `_meta.conflicts` | updateVersionOptimistic, updateVersionReplicating | replicated writes in any order | replicas with the same writes agree, no branch is lost |
| **Queries** `jsondbqueryparser.cpp`, `jsondbindexquery.cpp`, `jsondbquery.cpp` | the offset cache | parse, choose an index, iterate | bounds and order of a scan, answers resumed from cached offsets | the result of a scan is what matches, in its order |
| **Notifications** `jsondbnotification.cpp` | query, actions, last state number | notifyIfMatches, notifyStateChange | state numbers of delivery time | a client may resume from the last number it was told |
| **Daemon** `src/daemon` | connections, notifications per connection, the ephemeral partition, definitions of partitions | processWrite, processRead, loadPartitions, removal of a connection | definitions that change under clients | records and watchers agree with the partitions there are |
| **Client** `src/client` | queue of requests, watchers, query model cache | send, cancel, receive, reconnect, activate watchers | connection lost with requests in flight; resuming watchers | each request is finished once; a model equals its query |
| **QML import** `src/imports/jsondb` | models and objects over the client library | start, create, find, setters, destruction | setters that come while answers are on the way | callbacks are called once; objects hear what they ask for |

How they interact:

- The client sends a write to the daemon (`DBServer::processWrite`), which calls
  `JsonDbPartition::updateObjects()`. It changes the main table and, inside the
  same call, its indexes; both are committed with the next state number, the
  indexes first.
- After the commit an event `_q_objectsUpdated` is *queued*. The event loop
  delivers it later: it sends notifications and updates eager views.
- A query of a view calls `updateView()`, which reads `changesSince()` of the
  main table and writes the view's own table.
- `_q_mainSyncTimer` and `_q_indexSyncTimer` sync the files, `close()` does so,
  too. Nothing orders the two timers.
- A watcher of the client is a request that creates a Notification object in the
  daemon's ephemeral partition; the daemon installs it in the partition it names.
- The models of the client and of the QML import send queries in chunks and apply
  the notifications of their watchers to what they have read.

Everything in a partition runs in one thread. Its hard behaviours are not data
races but the order of events, the order of syncs, and what a crash leaves
between them. `PROJECT.json` lists these hazards, each at its line, with the
property that covers it.

## 2. The modules and the plan

| Module | Stands for | Checked by | Proved |
| --- | --- | --- | --- |
| `DurableTree` | what a B-tree file promises: commit, sync, restart | `pages` | implemented by `HBtreePages` |
| `HBtreePages`, `HBtreePagesInductive` | the page store and its inductive invariant | `pages` | all its properties |
| `HBtreeTree` | put, del, cursors with real sizes | `tree` | |
| `JsonDbObjectTable` | table, log, cache, indexes, over files that promise `DurableTree` | `table` | all its properties |
| `JsonDbView` | Map and Reduce views; takes `changesSince()` as `JsonDbObjectTable` shows it | `view` | all safety properties |
| `JsonDbObjectVersion`, `JsonDbPartitionWrite` | versions of an object; batches, write modes, replication between partitions | `write` | all its properties |
| `JsonDbQueryParser`, `JsonDbIndexQuery` | reading a query; compiling, walking, caching it | `queries` | |
| `JsonDbNotification` | notifications of a partition and the watcher that resumes | `notifications` | all safety properties |
| `QJsonDbConnection` | the queue of requests, watchers, reconnection | `connection` | all safety properties |
| `QJsonDbModelCache`, `QJsonDbQueryModel` | the query model and its cache of pages | `query_model` | |
| `JsonDbSortingListModel` | the sorted list of the QML import | `sorting` | |
| `DBServer` | definitions of partitions, the ephemeral partition, streams | `server` | |
| `QmlPartition`, `QmlPartitionInductive` | Partition, Notification and Query objects, and their inductive invariants | `qml` | all safety properties |
| `SequenceFacts` | lemmas about sequences, least positions and induction | | itself |

Every module with actions has an `MC` module and a `.cfg` of its name.

How they compose. `HBtreePages` implements `DurableTree` by a refinement mapping
(property and theorem). `JsonDbObjectTable` uses one such tree per file: a
committed content and the content of the last sync, nothing more. `JsonDbView`
uses the table's objects per state instead of its log: that the log gives the
differences of states is the theorem `ChangesAreBridged`. `HBtreeTree` and
`HBtreePages` split one class along the page number: in the first a page is a
value, in the second only its number and history count. `JsonDbNotification` has
the daemon's side of a watcher and one watcher of the client;
`QJsonDbConnection` has all watchers of a connection as requests in its queue and
leaves their content out. The models take the connection as the module
`QJsonDbConnection` shows it: answers in the order of the requests.

**Exposures.** The code meets situations in which it gives up what its comments
and documents say. Each module names its own in a set (`Exposure`, in `JsonDbView`
`Situation`), with a comment each. Where it can be said which property such a
situation takes away, a history variable `exposed` records it, and the property
says which exposures it needs not to have met; where the situation leaves nothing
to say, the configuration lists it in `Avoided`, and the step that meets it is left
out of the run. Sections 3 to 13 name them; what each does was confirmed by TLC
with the exposure not avoided.

The plan: the properties of `DBServer` and of the two models, which need a module of
proofs each. Views of views, several definitions of a view and the check of free space
are what the models could be extended by.

## 3. HBtreePages: the page store

**State and code.** `marker`, `synced`, `lastSynced`, `collectible`, `residue`,
`lastPage`, `dirty` are the members of the same names of `HBtreePrivate`.
`marker.tree` gives each page reachable from the root its content; `reach` is the
set of pages reachable in the write transaction. `file` is what a read returns,
`unsynced` the pages not covered by an fsync, `mk` and `dmk` the marker pages now
and at the last fsync.

**Actions and code.**

| Action | Code |
| --- | --- |
| `Begin`, `NewNode`, `Touch`, `RemoveDirty`, `RemoveClean`, `NewOverflow`, `RemoveOverflow` | `beginWrite`, `newPage`, `touchNodePage` with `addHistoryNode`, `removeFromTree`, `mergePages` of a clean neighbour, `putDataOnOverflow`, `removeNode` |
| `Commit`, `CommitFails`, `Abort` | `commit` with `collectHistory` and the writes, `abort` |
| `SyncMarker1`, `SyncMarker1Fails`, `SyncFsync`, `SyncFsyncFails`, `SyncMarker2`, `SyncMarker2Fails` | `sync`, cut at its writes and fsyncs |
| `Stop`, `PowerLoss`, `Open` | end of the process (`close` is a sync and a stop); loss of any unsynced pages and marker writes; `open`, `readSyncedMarker`, truncation |

**Abstractions.**
- The shape of the tree is abstract: a transaction may touch, add and remove any
  page. This allows more than the B-tree does.
- A history is a set, as its commit ids strictly decrease along the list. The
  chain of overflow pages of one value, and that of one list, is one page.
- `commit` writes its pages in one step; a stop in the middle is `CommitFails`
  and `Stop`, and a power loss may lose any subset of the pages either way. Left
  out: a torn write of the very page at which a commit fails.
- A read of a lost page finds a wrong checksum (`Torn`).
- The spec page and both markers of a new file are durable.
- A sync inside a write transaction is left out: no caller does it. Read
  transactions change nothing. `rollback()` is a stub in the code.
- Every failed commit is followed by an abort, as in the object table. An index's
  is not (section 5): what a later `commit()` of the same transaction then makes of
  the file is the `left` of JsonDbObjectTable, and no theorem about pages covers it.
- Left out: the write of the overflow page of a list failing (hbtree.cpp:889-896).
  `sync()` then returns with the page still in `dirtyPages_`, where the next
  transaction or sync finds it. The writes of the markers do fail.
- With a flag but no list page `open()` reads past a buffer; the model stops
  there.

**Exposures.** The code meets five situations that it does not protect against.
The history variable `exposed` records them, and `Sound` says that none was met;
the safety properties hold under `Sound`. Without it TLC refutes them: section 16.

| Exposure | When it is met |
| --- | --- |
| `abortedResidue` | a commit after an aborted transaction left pages in `residueHistory_` |
| `staleFlag` | a sync with the flag `DataOnOverflow` of an earlier list, while the present one fits in the marker |
| `oneMarker` | marker 1 is overwritten while marker 2 does not hold the last sync |
| `lostList` | a power loss finds a marker whose list page was lost, or mixes a marker with the list of another |
| `unsyncedMarker` | an fsync between the markers failed, or a file was opened from a marker that is not durable |

`Sound` does not exclude I/O errors, power losses at any step, aborts before
which nothing was moved to the residue, or restarts: those are the cases the
properties are for.

**Run `pages`** (303 656 states). `FreePagesUnused` (a page that may be taken is in no
tree and no history), `Recoverable` (whichever marker a power loss leaves, its tree
is durable), `ProtectedPagesKept` (no step overwrites a page somebody may come back
to), `IInv` (the inductive invariant of the proofs), `RefinesDurableTree`.
Three pages, three revisions, one number fits in a marker, I/O errors and power
losses. Three revisions are enough for a page of the first to be copied, to wait for
a sync and to be used again; a marker for one number makes every list of two go to
an overflow page, as one of over a thousand does in the code. The constraint
`Sound` cuts behaviours where the properties no longer claim anything. The `VIEW`
identifies states that differ only in the content of pages to which no marker
leads, which the code never reads. The theorems of section 14 need neither these
bounds nor the view. Type correctness, `OneOwner`, `OnlyNewestIsSynced`,
`CommittedTreeReadable` and `MarkerListsFreePages` are stated as theorems only:
`IInv` implies each.

There is no fairness: a store promises nothing about when it is called.

## 4. HBtreeTree: the B-tree and its cursors

A page is a record of its kind, entries, history length and dirty bit; a branch
maps keys to child pages. `Put` and `Del` are whole calls, with `splitPage`,
`rebalance`, `moveNode`, `mergePages` and the collapse of the root as recursive
operators, `Commit` is the collection of histories. `spaceNeeded`, `spaceUsed`
and the thresholds count bytes as the code does, sixteen bits wide. The cursor
operators (`cursorFirst`, `cursorLast`, next, previous, `cursorSet`) follow
`searchPage` with its two stacks for the siblings of a leaf, over a tree that does
not change between two moves.

| Property | Says |
| --- | --- |
| `FindsWhatWasPut` | get() finds the last put(), nothing after a del() |
| `TreeIsSound` | no page holds more bytes than it has (`PagesFit`), every key a search may ask for is led to the leaf that may hold it (`SearchesAreRouted`), leaves are at one depth, none empty, a branch has two children (`Balanced`) |
| `CursorsAgree` | from any key, present or deleted, the cursors reach its neighbours in the whole tree |

The run `tree` starts with nine and ten committed keys, whose size (512 bytes,
the longest) makes a tree of two and three levels, and makes one call per
transaction with values just under and just over the overflow threshold, so that
splits, moves in both directions and merges happen at leaf and branch level and
the root grows and collapses (35 115 states). The constraint `FewOffPage` limits
which keys get the large value, `Kept = {1}` how much history a commit leaves; a
tree synced between commits may keep one entry of 12 bytes more.

All keys of that run have one length, because with keys of different lengths the
code is wrong: a moved entry puts a longer separator into a full parent, which
overflows (section 16).

Out of bounds: leaves of some two hundred tiny entries, whose split index counts
12 bytes of history for each; cursors held over writes of the same transaction
(`lastLeaf_`), which only index rebuilding comes near; the statistics. Aborts are
the subject of `HBtreePages`. This module has recursive operators and is checked
by TLC only.

## 5. JsonDbObjectTable: objects, change log, indexes

`table` and `index` are the committed files, `tableDisk` and `indexDisk` what a
restart finds (one `DurableTree` each), `work`, `indexWork` and
`mStateObjectChanges` the write transaction, `mChangeCache` the cache of the log,
`snapshot` a history variable with the objects of every state.

`Write` is one object of a batch of `updateObjects()`: deindex, put, store the
change, index. `WriteIndexObject` also does what `updateBuiltInTypes()` does:
adding or removing the index in the middle of the transaction. `commit` commits
the indexes, then the table. The commit of an index may fail, which the code only
logs (jsondbobjecttable.cpp:144-149): the table is committed all the same, and
the index keeps an open write transaction that no list mentions (`stuck`), so that
what is written to it later waits there until the process ends. In `commitFails`
the commit of the table fails after those of the indexes; `abort` is the
transaction of a partition without space. `Open`, `OpenIndex`, `Opened` are
`open()` and `initIndexes()`, one index at a time, so that a crash may come
between. `close` may be cut after any number of files; a stuck index that it tags
with the table's state number is committed with whatever is left of its
transaction (`left`). `changesSince` fills and prunes the cache
and answers as the code does, with the order of `QMultiMap`.

| Property | Says |
| --- | --- |
| `IndexesAgree` | while the table is open and nothing is being written, an index that is neither stuck nor spoiled holds exactly the fields of the objects |
| `ChangesBridge` | what `changesSince(n)` answers leads from the object of state n to the present one |

The run `table` (495 507 states) has one object of two contents, one of which has
the property of a user's index, one built-in index on `_type`, batches of two and
three states: enough for a state number to be lost in a crash and used again for
something else while an index file keeps the first, and for a change to be cached,
pruned, fetched again and combined with a later one.

Bounds that leave cases out because the code does not handle them:
- `FreshFiles`: an index defined in a transaction after another object of the
  batch has been written, or over a file left behind. `addIndex()` then commits
  and syncs uncommitted objects under the old state number, and after a crash
  the file is trusted.
- No property is null: rebuilding (`reindexObjects()`) skips null, writing does not.
- A stuck index lacks what was written since its commit failed, so `IndexesAgree`
  leaves it out until the process ends. A crash repairs it, because its file still
  has the old tag and is rebuilt: that is within the property. A clean `close()`
  gives it the table's state number, so nothing repairs it any more (`spoiled`).
  A transaction that redefines a stuck index removes element -1 of a `QVector`,
  which is undefined; only the process ending there is followed.
- After a failed commit of the table (`commitFails`) the indexes are a state
  ahead, and nothing repairs them; after `abort` an index that the transaction
  added or removed is not put back, and the cache keeps what `changesSince()` read
  in the transaction. The properties leave these out (`spoiled`).
- `OneFailure`: a transaction fails only while nothing is spoiled or stuck; the
  theorems of section 14 hold without this bound.
- `ChangesBridge` is about objects written once per transaction: the log keeps
  one old object of each, and `QMultiMap` returns the changes of one state in
  reverse.

## 6. JsonDbView: views

The view's table (`view`, `viewTag`, `viewDisk`), its state number in memory
(`mViewStateNumber`), the view and definition that are registered (`registered`),
the weights of the edges of the source graph to this view (`weight`) and the queue
of events are state; the main table is its objects and the objects of every state.
A definition is a Map, whose result for an object replaces the one before, or a
Reduce, which adds an object to the value of its key and subtracts it again.
`updateObjects` commits a batch, registers the Schema and the definition in it as
`updateBuiltInTypes()` does, and queues its event; `_q_objectsUpdated` delivers it,
deciding by the weights whether the event is for the view, and then updates it
eagerly, fully, or just its number. A `queryObjects` brings the view up to date,
`addNotification` and `removeNotification` change the weights, `SyncTable`,
`SyncView` and `Restart` decide what a crash leaves; `Restart` also registers what
`initSchemas()` and `initViews()` find.

Abstractions: one definition per view, one emitted object per source object, a
view of the main table only; the Schema and the definition are written by
themselves. Events of the view's own objects (`viewUpdated`) have no effect on it
and are left out; so is the `mUpdating` guard, which only a view that depends on
itself could meet, and `setError()`, which writes the definition during an update.

| Property | Says |
| --- | --- |
| `ViewShowsItsState` | unless a situation was met, the view is what the definition of state `mViewStateNumber` makes of the objects of that state |
| `DurableViewIsOfItsTag` | so is the view a restart finds, for a state of the log, unless a situation was met before it was synced |
| `DefinitionsAreRegistered` | what is registered in memory is what is stored, unless `inactive` or `replayed` was met |
| `EagerViewCatchesUp` | an eager view gets to the present objects without a query, or a situation is met |

`EagerViewCatchesUp` assumes weak fairness of `_q_objectsUpdated` alone: Qt's
event loop delivers posted events in order. Nothing else, in particular no query,
timer or further write, is assumed to happen.

Seven situations make the code lose an update, each by itself, and nothing in the
code prevents them. The model leaves none of them out: `exposed` is a history
variable that remembers which were met and tell on what is in memory. What is synced
takes them along (`viewDisk.exposed`, and `disk.exposed` for those that tell on what
may be written), so a restart forgets the ones that were not synced. TLC refutes the
property named in brackets when the situation is taken out of `exposed`.

- `overtaking` (`ViewShowsItsState`): the view is updated from an event while later
  ones are queued, as if it were the last: with the changes of the event when the
  view lacks one state, or with nothing when none of them is for it. The view's number
  is set to the table's, past changes it has not seen, or a change is applied twice. A
  write while the event of another is queued is not the situation yet: a full update
  in between makes it harmless, and that is checked and proved.
- `redefinition` (`ViewShowsItsState`): the definition or the Schema is written while
  there is a notification on the view. `viewDefinitionUpdated()` returns false on every
  path, and a notification added before its view exists is never eager while its
  removal gives negative weights.
- `resuming` (`ViewShowsItsState`): a notification from an older state makes the view
  eager without bringing it up to date.
- `retyping` (`ViewShowsItsState`): an object of an eager view goes from one source type
  to the other; the loop over the two halves of the change stops after the removal.
- `viewFirst` (`DurableViewIsOfItsTag`): a restart finds a view that is ahead of the
  table, because it was synced first, by the other timer or by `close()`; its state
  number is then used again for other objects, and views, unlike indexes, are not
  rebuilt.
- `inactive` (`DefinitionsAreRegistered`): `initViews()` registers a definition that is
  not active.
- `replayed` (`DefinitionsAreRegistered`): a Schema written again with the version it has
  skips `checkCanRemoveSchema()` and replaces the view by one without definitions.

The run `view` (676 875 states) has one object that is of either source type, or gone,
with two source keys in the one, a definition that maps both types, reduces one of them
or is not active, single writes, two queued events, four states: enough for a definition,
two overlapping writes and a restart between them. `MaxExposed = 0` ends a behaviour's
writes, notifications and queries once a situation was met, which the properties say
nothing of; restarts and syncs go on, so what was exposed in memory only is forgotten
and the behaviour continues. The proofs (section 14) do without all bounds.

## 7. JsonDbPartitionWrite: versions, batches, replication

`JsonDbObjectVersion` has the operators of `jsondbobject.cpp`: a version is a
counter and the hash of the content, an object has a version, a content, a history
of versions it replaced and conflicts, and `updateVersionOptimistic`,
`updateVersionReplicating`, `computeVersion` say what a write makes of what is
stored. `JsonDbPartitionWrite` has several partitions (`Replica`) that copy objects
from one another. `updateObjects` is the loop over a batch with its early returns,
the commit by the destructor of `WithTransaction` and the event it queues. `seen`
holds every object a client ever read, so that a write may be built on any of
them, late, twice or never.

| Property | Says |
| --- | --- |
| `HeadIsOrderFree` | two copies of an object may be merged in either order |
| `RetryIsHarmless` | an optimistic write that is sent a second time changes nothing |
| `NoWriteLost` | of every branch of an object that was acknowledged or merged and not ended, a head is there, and the last event tells the stored version |
| `HeadNeverRegresses` | versions never get older |

A *branch* is a set of versions closed under what was written on top of them
(`IsBranch`), ended if one of its newest is a tombstone or was resolved (`Ended`).

The run `write` (7 395 states) has two replicas (symmetric), one object there at
first or not, two contents and a tombstone, a content that lacks its type (which the write
inserts), versions up to 2 and four objects read. It meets `misreported`: an object whose
natural type does not fit is stored, counted as written and announced, while the answer is
an error (`jsondbpartition.cpp:1417`), so nothing is acknowledged. An instance that goes
on writing after one (55 825 states) and, without such objects, instances of version 3
(82 797) and of three replicas (12 674, for `NoWriteLost`) were checked as well. In `Avoided`: `lost` (the
commit failed, which nobody looks at), `scraps` (the head of an object with
conflicts is written, and its `_meta` counted into the hash). A `put()` that fails (line
1545), which also only sets the code and goes on, is left out. In `Final`, after which nothing more is
written: `nameless` (an optimistic replay onto nothing stores an object without
`_uuid`), `replaced`, `silent` (a batch is cut short, no event for what it stored),
`revived` (a tombstone is revived by content that was read before, or on top of a
newer version) and `misreported`. `sidelined`, a conflict that is updated instead of deleted, is met
by the run; `NoWriteLost` does not claim anything after it. The theorems assume
none of these bounds.

## 8. JsonDbIndexQuery: queries

`JsonDbQueryParser` reads the text of a query, given as tokens, into the disjunctions,
joins, order and mapping the code keeps. `JsonDbIndexQuery` compiles it: the choice
of an index, its bounds, the terms left to match; it walks the index with its
filters, joins, offset, limit, sorting and mapping; and it keeps the cache that
says at which key an earlier query had reached an offset. `Ask` is one call,
`Update`, `addIndex` and `removeIndex` come between calls.

| Property | Says |
| --- | --- |
| `PagesAreSlices` | whatever the offset caches hold, an answer is the part of the whole answer that was asked for |
| `AnswersFit` | whichever index a query is compiled to, its answer is what matches, in its order, unless it runs into one of the exposures below |

The run `queries` (3 968 states) has three objects of three properties, 17 queries,
offsets 1 and 2, limits none and 1, one write, caches of two offsets and two
queries. The `MC` module also states, as an assumption TLC evaluates, that the
parser understands a sample of queries as they are written, and refuses or reads
otherwise those that lack a token. The exposures, all avoided in the run, are
named in the module: seven about single conditions (`truncated`, `converted`,
`unbound`, `unknown`, `chained`, `negatedPattern`, `typeDisjunction`), the rest
about the walk (`mapped`, `uuidBound`, `joinedType`, `restricted`, `sortedSlice`)
and about the offset cache (`pastEnd`, `shared`, `joined`). A value is a number
whose tens are the part of it that fits into the key of an index, which is enough
for prefixes, lengths and order.

Not modelled: cutting the text into tokens, variables for names, indexes of arrays
(`*`) and by a property function, case-insensitive or collated indexes, the
spellings `==` and `<>`.

## 9. JsonDbNotification: one watcher

The log of a partition with the keys each state wrote, the queued events, the
notification in the daemon, both directions of the stream and one watcher with what
its application makes of what it hears (`view`). `updateObjects` commits and queues,
`_q_objectsUpdated` delivers with the state number of that moment,
`createNotification` sends the historical changes before its answer, `Close` and
`Open` are a removable partition, `removeConnection` and `Crash` the end of a stream
and of the daemon, `initWatcher` the resumption from the number told last.

| Property | Says |
| --- | --- |
| `ViewFollows` | when nothing is under way, the application knows what the query finds |
| `StateIsComplete` | of the state the watcher was told last nothing is missing |
| `ActionsFit` | create, update and remove tell what the application does not know yet |
| `Settles` | whatever breaks, the watcher is active in the end and knows everything |

The objects of one write are told in the order that `SetToSeq` chooses: nothing below
depends on it. The run `notifications` (383 865 states): two objects, two contents that match, three
states, two breaks. Fairness (`WF_vars(Works)`): the event loops of daemon and
client, and the reconnection timer, go on. Exposures: `overtaken` (an event is
delivered after a later commit), `early` (a notification is created with events
queued), `half` (the stream ends between the notifications of one state), `idle` (it
ends before the watcher knows any state), `refused`, `reopened`, `rolledback` (the
daemon lost states it had announced), `dangling` (a partition is closed with events
queued: the event then uses a table that is gone), `stillborn` (a tombstone of
nothing is merged and told as a creation). The run leaves out five of them (`Avoided`);
the theorems of section 14 leave out none, and each property names those it needs.
`dangling` alone takes nothing away from them: what a partition had queued when it was
closed is wrong only for a notification that it comes back to (`NothingLeftOver`), which
has been told everything by then and is told the old events once more.

## 10. QJsonDbConnection: the client's requests

The connection is a record `c` of the members of `QJsonDbConnectionPrivate`; operators
take and return such a record, so that a handler with all its calls is one step. `ran` counts
how often each request ran. `Works` are the steps of the event loops, the daemon and
the thread of the private partition.

| Property | Says |
| --- | --- |
| `AnswersAreTrue` | a request that finished has run, once unless its connection broke, and a canceled one never |
| `OrderIsKept` | nothing runs while an earlier request waits, also one put back when its connection broke |
| `ActiveIsRegistered` | an active watcher has its notification on this connection |
| `QueueDrains` | what waits is answered if a connection comes |
| `WatchersFollow` | a watcher becomes active after every connection unless its activation there is refused, a removed one inactive |

The daemon may refuse an activation (`receiveMessage`, `validateNotification()` at
dbserver.cpp:853-916: no such partition, one that is not available, a state number
that is too new). The client then only emits an error: the watcher stays Activating
until the next connection. `refused` are the watchers this connection has refused,
and `WatchersFollow` leaves exactly these out: the next connection has to activate
them again. A watcher that is added before there is a connection is activated twice;
when the first of the two is refused and the second accepted, or the other way
round, it may stay Activating while it has its notification.

The run `connection` (67 237 states): two requests, one of them for the private
partition, one watcher, one break, four calls. Fairness: `Works`, the connection's timer included;
calls of the application, breaks and refusals are not assumed. Exposures: `resent`
(an application sends a request again that waits for the next connection), `broken`
(a request is in flight when its connection breaks), `retired` (the removal of a
watcher is lost or refused).

## 11. QJsonDbQueryModel and JsonDbSortingListModel: the models

`QJsonDbModelCache` is `ModelCache`: pages of rows with their objects, split, dropped
by their last use, moved with rows that come and go. `QJsonDbQueryModel` reads the
keys of all rows in chunks, then pages as views ask for them, and applies
notifications or holds them back. `JsonDbSortingListModel` reads all objects in
chunks, sorts, cuts to the limit, and reads again when a row leaves a list that was
cut. In both an answer is computed and handled in one step; what is asked next
waits.

| Property | Says |
| --- | --- |
| `ModelFollows` (query model) | at rest the rows are those of the result, and `data()` is the object as it is now, or its request is sent |
| `ModelFollows` (sorting model) | the rows are in order at any time, and at rest the first of the sorted result |
| `Settles` (both) | the model comes to rest, and to Ready |

`query_model` (320 266 states): three objects, two partitions, pages of one row and
room for two, two writes, one outage, one call. `sorting` (529 798 states): four
objects, two partitions, chunks of two, limits none, 1 and 2, two writes, one call.
`Settles` assumes weak fairness of `Works`, the answers and notifications that the
event loop delivers, spelled out without ENABLED; nobody has to ask or write. The exposures (`moved`, `pending`, `cached`, `refreshed`; `moved`, `pending`,
`unmarked`, `sorted`, `cleared`, `failed`, `folded`) are described in the modules; each
is a way in which what was read earlier is taken for what there is now.

Left out: in the query model the state Error of a missing index (and that it stays
Querying when all partitions are offline), every error of a read but that its partition is
offline (`_q_readError` keeps such an error and nothing else: the size asked for stays -1,
the model Querying, so `Settles` would not hold, as with `failed` in the sorting model), roles, the property injector; in the
sorting model that `fetchModel(true)` clears rows without telling views, that
`clearPartitions` leaves its watchers with the connection. An object lives in one
partition.

## 12. DBServer: the daemon

`d` is the daemon: partitions, default, the objects of the ephemeral partition, the
watchers of each stream, those installed in partitions, and the event loop. `Load`
reads the definitions of `Config`, `Write` takes a batch of a client into the
ephemeral partition (Notification objects are made and removed as they are written),
`WatchPartition` and `QueryPartition` are the requests of a Partition object,
`handleConnection` and `removeConnection` begin and end a stream, `objectsUpdated`
empties the event loop, which in the code delivers everything that was posted at
once.

| Property | Says |
| --- | --- |
| `RecordsAreTrue` | the Partition records are those of the partitions there are, with their state and the default |
| `WatchersAreKept` | every watcher points to a partition that exists, is installed there and nowhere else, and has its object |
| `PartitionsAreSeen` | a client's Partition object is online exactly if its partition is available |

The run `server` (286 329 states): four names, six contents of the definition files,
two clients whose connections break at most once each, three loads, two requests.
All nine exposures are avoided: `duplicate`, `redefined`, `forged`, `untyped`,
`foreign`, `partial`, `unnamed`, `reconnected`, `broken`.

Assumed: the events of the start are delivered before any connection, partitions that
are not removable open (if one fails the daemon closes or exits), requests are
answered in the step that takes them. Left out: `getOwner()`, which keeps
capabilities, removal by query, a flush, the `_name` of a Partition object after the
default has changed. Notification objects of connections that ended stay for ever,
a write with an unknown action gets no answer, a flush of "Ephemeral" flushes the
default partition.

## 13. QmlPartition: the QML import

`x` holds the objects: two `JsonDbPartition` objects with their state, a
`JsonDbNotify`, a `JsonDbQueryObject`, the requests of their connection, the watchers
and the callbacks that wait. The setters are calls at any point between a request
and its answer. `Answer` is the daemon with what the objects make of it, `Deliver`
a notification that arrives. `accepted` are the watchers the daemon took a Notification
of; when the definition of a partition goes, `loadPartitions()` deletes every client's
Notification on it and tells nobody (`dbserver.cpp:318`, `918`), so what it still has is
`registered`, without the `forgotten`. The removal of a forgotten one is answered with
an error, which the watcher ignores. `PartitionChanges` lets a partition go to and
from "unknown" (no definition), "offline" and "online"; the default stays defined, since
another definition would take its place.

| Property | Says |
| --- | --- |
| `AnswersArrive` | a callback waits only while its request is on the way, and none is called twice |
| `HearsWhatItAskedFor` | a notification that is ready hears what is written, until its Notification goes with its partition, and nothing it did not ask for |
| `StateFollows` | a partition object knows the state of the partition it is named for, and does not show one that is not defined as online |
| `NothingStays` | what the daemon has registered is what the objects watch, and what is ready is registered unless it was forgotten |

After its partition was dropped a notification object goes on saying Ready and hears
nothing, also when the partition is defined again, until it is set anew: the daemon's
silence is in the two properties, not avoided.

The run `qml` (980 475 states): partition objects named "" and "B", with and without a
notification to begin with, five steps (`MaxSteps`), a call being two and a partition
that changes or a write one: two calls and an event, a call and three events, or five
events. That is enough to drop a partition, define it again and write to it after a
call that renamed, disabled or deleted something. Exposures: `dropped` (a watcher is deleted with its
child requests, so that its removal may never be sent), `emptied` (`setQuery("")` and `setActions([])`
leave the old watcher), `orphaned` (the partition object of a notification is
destroyed), `renamed` (it learns the name of the default and everything is
registered anew, losing events), `outdated` (the answer to an older state query is
taken), `refused` (a state query that fails sets Error until the object is renamed),
`unasked` (`find("")` never calls back), `left` (a partition object is destroyed with
callbacks waiting).

Left out: the temporary partition object that `find()`, or `createQuery` with a query set before the
partition, makes, the default partition made by the first `start()` of a query whose
partition is gone, a partition set twice (it is followed twice, as the old one is
never disconnected), a connection that breaks, `clearError()` that `start()` never calls.
The removals of the objects of a partition that is dropped are not notified in the
model.

`StateFollows` does not say what the documentation says. "State.Error - No partition of
given name was found", "State.None - The partition object is not initialized"
(`src/imports/jsondb/jsondbpartition.cpp:123`, `126`); but an answer without a Partition
object returns before the state is set (`735`), so it stays None, and a Partition object
that is removed makes the state Offline (`777`). Error is set only when the state query
itself fails. The property claims what the code does and is useful: such a partition is
never shown as online.

## 14. What is proved

TLAPS checks these for every value of the constants, under the assumptions
(`ASSUME`) of the modules, which state the types of the constants and what names
are apart. TLC evaluates the assumptions, and every theorem below that names a
property of a run holds on the instance of that run.

| Module | Theorems | Hypotheses |
| --- | --- | --- |
| `HBtreePagesProofs` | `TypeCorrect` | none |
| | `InvariantHolds`, `FreePagesAreUnused`, `PagesHaveOneOwner`, `CollectedPagesAreNotSynced`, `CommittedTreeIsReadable`, `StoreIsRecoverable`, `MarkersListFreePages`, `ProtectedPagesAreKept`, `ImplementsDurableTree` | `Sound` in the properties |
| `JsonDbObjectTableProofs` | `TypeIsKept`, `ChangesAreBridged` | none |
| | `Invariance`, `IndexesOfAnOpenTableAgree` | `NoNulls`, `FreshFiles = TRUE` |
| `JsonDbViewProofs` | `Invariance`, `ViewIsTrue`, `RestartFindsItsState`, `RegistryIsTrue` | situations met (`exposed`) in the properties |
| `JsonDbPartitionWriteProofs` | `Invariance`, `TypeIsKept`, `NoBranchIsLost`, `VersionsOnlyGrow`, `AnyOrderWillDo`, `SendingAgainIsHarmless` | exposures in the properties |
| `QJsonDbConnectionProofs` | `Invariance`, `TypeIsKept`, `ApplicationIsToldTheTruth`, `ActiveWatchersAreRegistered`, `RequestsRunInOrder` | exposures in the properties |
| `JsonDbNotificationProofs` | `Invariance`, `ViewIsTrue`, `StatesAreComplete`, `ActionsAreExact` | exposures in the properties |
| `QmlPartitionProofs` | `RegistrationsAreKept`, `NothingStaysRegistered` | none |
| | `Invariance`, `CallbacksAreCalled` | `CallersWait` |
| | `ListenersAreKept`, `NotificationsAreHeard` | `ListenersStay` |
| | `StatesAreKept`, `PartitionsKnowTheirState` | `AnswersStand` |
| `SequenceFacts` | lemmas: inserting into and removing from a sequence, induction over the numbers with a set, the least position, recursive functions, `SetToSeq` | none |

### The page store

For any number of pages and revisions, any marker capacity, with and without I/O
errors and power losses.

**Why an inductive invariant.** None of the properties is inductive. That a free
page is unused depends on what `collectHistory()` freed at the last commit, which
depends on the ids that were stamped into histories several commits and syncs
earlier, which is safe because the synced tree and the committed tree share
exactly the pages not stamped since. `IInv` (module `HBtreePagesInductive`) says
this in parts:

- `Markers`: each marker a power loss may leave is `Intact`, that is, its tree is
  durable, its histories are disjoint, its free list is apart from both; and
  which markers these are in each phase of a sync.
- `SyncedTree`: the committed tree was copied on write from the synced one. A
  page is in both if and only if it was stamped before the last sync; a page of
  the synced tree in a history is its newest entry before the sync. This is what
  `collectHistory()` relies on.
- `CommittedPages`, `FreePages`: the committed tree, its histories, its residue,
  the free pages and the list page are apart.
- `DirtyPages`, `WorkTree`, `WorkResidue`: the same for the transaction, whose
  histories and residue become free pages later. `WorkResidue` claims something
  only for a transaction that began with nothing left of an aborted one.

**The argument.** One lemma per action (`StoreTouch`, `StoreCommit`,
`StoreSyncMarker1`, ...) shows that it preserves the conjunction of these parts;
shared steps are lemmas of their own (`NewPageIsFree`: what `newPage()` returns is
in no tree; `CollectedEntries`: what is collected is in neither tree;
`SyncDataFacts`: what the first fsync covers). `ExposedGrows` shows that exposures
are never forgotten, so that `Sound` after a step gives `Sound` before it. The
refinement has one lemma per step that is not a stutter (`CommitRefines`,
`SyncMarker1Refines`, `PowerLossRefines`, `OpenRefines`, ...).

Each property has the antecedent `Sound` in its definition. `TypeCorrect`, and the
parts `Ids`, `Flags` and `Closed` of `IInv`, hold without it.

### The object table

For any number of objects, contents, indexes and states. `IndexesAgree` is not
inductive: an index file that a restart trusts was written in an earlier life of
the table, perhaps under a state number that was used again. `IInv` keeps
`snapshot`, the objects of every state: `States` says that the table and its file
are states of it, `Files` that an index file with the tag of a state the table file
has reached holds the entries of that state, `Entered` that what a transaction has
made of an index is what the objects of the transaction make of it, `Kept` that an
index it has not defined still has the entries of the committed objects, which is
what an aborted transaction comes back to, `Changes` and
`Defined` that the batch knows what it changed and that an index is there exactly
if its Index object is.

Two hypotheses, because the code fails without them (section 5): `NoNulls`, and
`FreshFiles = TRUE`. `stuck` and `spoiled`, which tell what failed commits have left,
are in the property, and commits of any indexes may fail at any time: `OneFailure`
may have either value.

`ChangesBridge` needs neither. Its invariant `CInv` says what the log and its cache
tell: `Logs` that the entry of a state in the log of the table, and in that of its
file, leads from the objects of the state before to those of the state (of a uuid
that the transaction wrote once: its action, and its old object if it had one);
`Pending` the same of the changes of the open transaction; `Cache` that a cached
state has the changes of the log, each with the old object of its state, and that
the new object of the last one is the object of now. The last part is the one that
is easy to break: the log keeps no new objects, so `changesSince()` takes the
table's, which is right only for the last change of a uuid, and a write in an open
transaction makes a cached one wrong until its commit adds a later change. The
answer is then walked through state by state (`AnswerLeads`): what is collected up
to a state leads from the object of state n to the one of that state, also when a
removal cancels a creation (`CollectedLeads`). The recursive functions exist and
their positions are gone through one by one by `RecursionExists` and `SetInduction`
(`CollectedOfIs`, `AnswerIs`).

### Views

For any number of objects, types, definitions, queued events and states, with nothing
avoided: the properties name the situations of section 6 they except. The parts of
`IInv`: `Log` (the table is the last of its states), `Table` and `OnDisk` (the view in
memory, and the one a restart finds, is what its definition makes of the state of its
tag, and of the state it has seen), `Eager` (an eager view lags behind by no more than
the events in the queue, and the last of them is of source objects that kept their
type), `Events` (the last event is the last write), `Weights`,
`Schemas`, `DefinitionsAreRegistered`. The lemmas below them are about mapping and
reducing: an object added to the value of a key and subtracted again leaves nothing
(`AddedIsSubtracted`), an update of a view made of a state gives the view made of
the next (`UpdatedIsMade`), by a full update (`FullUpdateIsMade`) or by the events
of an eager one (`EagerUpdateIsMade`).

### Versions

For any number of partitions, objects, contents and versions, nothing avoided:
the properties name the exposures they need.

`NoBranchIsLost` rests on `Kept`: of every open branch a partition has taken a
version of, a head is there; and on `Recorded`: what is only in the history of an
object was overtaken by one of its heads. A replicated write keeps this because the
documents of two copies are in a total order and a merge keeps every maximal one
that nobody replaced (`MergeKeeps`); an optimistic write by its six outcomes
(`OptimisticIs`: it refuses, repeats, names what has no version, extends, settles a conflict, or
revives). A batch is handled by induction over its objects (`BatchIs`).

`AnyOrderWillDo` needs no state: the head of a merge is the newest of all versions
its two copies name (`MergeVersion`, `MergeTwice`). `SendingAgainIsHarmless` shows
that a second write refuses or repeats. `ContentAssumption` says what a type that is
inserted may change (it is idempotent and does not make or undo a tombstone) and
that the objects to begin with have the content their versions name.

### Notifications

For any number of objects, contents, writes, breaks, closed partitions and crashes,
nothing avoided: the properties name the exposures they need, and `Invariant` holds
whatever is met, since its parts name them, too.

`ViewFollows` speaks of a moment at which nothing is under way, and there is seldom
one. `Says(view, stream, i, k, v)` tells what the application will make of object k when
i messages of the stream have arrived: the last of them about k decides, or the view
if there is none. The parts of `Invariant`:

- `LogOk`: a state differs from the one before only in the keys it wrote, and the
  queued events are the writes of the last states, in their order. `Base` is the last
  state whose event was delivered.
- `Conn`: the connection carries either the request or what follows it, a notification
  lives while its connection does and is attached while the partition is open, and no
  number is told of a state that is not there.
- `Rising`: the numbers on the stream never fall, and those the watcher knows are not
  above them.
- `Catching`: when the stream has arrived, the application knows of each object what
  the query finds of it in some state from `Base` on. A write is told when it is
  delivered, whatever was told early, so that with no event queued that state is the
  present one. Without a notification the view fits the number the watcher will ask with
  (`Ready`).
- `Settled`: when a state change arrives, each object is known as of its state, and
  between the notifications of a state as of that state or a later one: this is what
  makes it safe to resume from its number.
- `Exact`: each notification on the stream fits what will be known when it arrives, and
  after all of them the application knows the state `Base`.

`Batch` is what one delivery, or one answer with historical changes, puts on the stream:
a notification for each object of a write that the query finds or found, none for the
others (`AddedIs`; `SetToSeqCovers` for the order of the objects). From there each action
has one lemma per part (`LogDelivered`, `CatchingDelivered`, `SettledCreated`, ...).
`SameSince` carries the proof of a resumption: an object that no state after n
wrote is the same in n and now.

TLC checked `Invariant` with nothing avoided, one content that matches and one that
does not, three states and two breaks (17 601 281 states) before the proof.

### The client connection

For any number of requests, watchers, breaks and calls, nothing avoided. `IInv`
speaks of a connection in the middle of a step and of its surroundings (`Fine(k, net)`),
because a handler passes through several operators: `Removals` (one removal at
a time for a watcher), `Wired` (only the request in flight is on the wire, its
answer is the only one, and one that accepts an activation leaves a notification), `Ordered` (answered, in flight, waiting: in the order of
their numbers, also what a lost connection put back), `Told` (who is told that it
finished has an answer to its number), `Once` (what has run does not wait). Each operator
has a lemma that says what it keeps (`TakenKeeps`, `SendKeeps`, `LostKeeps`,
`AnsweredKeeps`, ...), each action one that composes them (`OnReceivedObject`,
`PrivateSignals`, ...). TLC checked `IInv` on three instances before the proof.

`ActiveWatchersAreRegistered` has no exposure. `RequestsRunInOrder` is an action
property: the request that runs is the current one, or of the private partition.

### The QML import

For any number of partition objects, names, queries, calls and events. There are four
inductive invariants, of the callbacks, of the watchers, of what the notification object
hears and of what a partition object knows (module `QmlPartitionInductive`). They speak of the objects in the middle of a step, because a handler
goes through many operators, and each operator has a lemma that says what it keeps.

**Callbacks.** `CallbacksAreCalled` needs that neither `left` nor `unasked` is met
(`CallersWait`: in both the code calls no callback, and the configuration avoids them
too; no other exposure is needed). `Sound(c)` has the parts `Line` (one id for each
request, and the one in flight has left the queue), `Owned` (a request that a callback
or a query object waits for is one of its kind, and belongs to no watcher that could
take it along when it is deleted), `Kept`, `CalledOnce`, `Loading`. Most operators are
*quiet*: they leave callbacks and query alone and only send requests or delete
watchers. The others, `find`, the writes, `start` and what takes an answer, have a
lemma each.

**Registrations.** `NothingStaysRegistered` needs no hypothesis; the one exception, a
watcher deleted before its removal could be sent, is in the property. `Tidy(c, R, V)`
compares the objects with the watchers R that are registered and V that have
notifications on their way. That the last request for a watcher decides whether it
stays registered needs an order: `InOrder` (requests of watchers are ahead in the
queue, and answered in the order of their numbers, also after some were taken out with
a deleted watcher; a Notification that was forgotten was registered by an answered
request), `Tagged` (a watcher is registered once, by the request with its own
number, and removed by a later one), `Known` (none that is registered is still to be
registered; a watcher with notifications on their way is registered as long as it
watches). `Followed` is the goal for every state: what is registered or going to be is
watched, or its removal is on its way. `OneOfMine` and `Heard` say why a notification
object may call itself ready: one watcher at a time is its own, and an answer to a
request of that watcher is never skipped, because the request is the current one.
`InsertedKeepsOrder`, `WithoutPicks` and `TailPicks` are the facts about the queue it
rests on.

**Hearing.** `NotificationsAreHeard` needs `ListenersStay`: `emptied`, `orphaned` and
`renamed` are not met, the three in which the code leaves a notification object with an
old watcher, or with none; the other exposures may be. `Mine(c, R)` says that the
watcher it has is what it is set to (`AsAsked`: query, actions, and the name of the
partition as it is now, also after that was renamed) and that it is ready exactly while
this watcher is registered. An operator either leaves this untouched (`Untouched`) or
sets it up anew: then the old watcher is gone and the new one has a number no event on
its way can have (`SetAnew`, `Steady`). `Hearing` adds the events: as many are on their
way to the watcher as the object has to hear (`CountNotified`, `CountTail`; none is owed
for a write after its Notification was forgotten, and those sent before still arrive), and each
fits the watcher it is for. The gap it closes is between an answer, an event and a
call: an event of the old watcher that arrives after `setQuery()` finds no watcher, and
one of the new watcher is owed only from the answer that registers it.

**States.** `PartitionsKnowTheirState` needs `AnswersStand`: `outdated` and `refused` are
not met, in which the code takes an answer, or an error, that nothing corrects.
`Told(c, p, ...)` says of a partition object from where it is to learn the state. While its
watcher is not registered, its registration and, after it, a query of its state are on
their way, and it has no state yet. Once it is registered, the last notification on its way says what the daemon has
(`LastSays`), and if there is none the object knows it or is to be answered. A query sent
after a watcher is answered after it is registered (`RegisteredFirst`), which is why the
answer may be taken; it rests on the order of the queue, where requests of watchers go
before all others. An operator leaves a partition object it is not about to itself
(`Apart`). The gap it closes is between the two sources: a state that changes between
registration and answer, or while the object is renamed, is in a notification that is
delivered after the answer or is for a watcher that is gone.

TLC checked `Sound` on the run's instance before the proof, `Tidy` on it with nothing
avoided, `Hearing` with two calls and two events, and `Told` likewise with nothing but
`outdated` and `refused` avoided. The proofs keep in `Past` what was forgotten and what
is still on its way, since a watcher the daemon has dropped may have both.

## 15. What is only model-checked, and what is not modelled

Only model-checked, and why:

- Liveness (`EagerViewCatchesUp`, `Settles`, `QueueDrains`, `WatchersFollow`): fairness
  and ENABLED are out of reach of the prover.
- `HBtreeTree` and the parser of queries: recursive operators over data.
- `DBServer`, `JsonDbIndexQuery` and the two models: their steps
  are folds over batches or chunks. Induction over a fold can be had through a
  set of numbers (`SetInduction`), as for batches in `JsonDbPartitionWriteProofs`, and
  costs a module of proofs each.

Not modelled, with reasons per component in `PROJECT.json`: access control, scripts,
collation and settings, the start of the daemon and its signals, the message
stream, the checksum library, tools, tests and examples. What is left out of the
components that are modelled in part is in their sections above.

## 16. What the models met in the code

Found while modelling; each is an exposure, a bound or a term in a property above,
so that the runs pass. TLC shows each when its exposure is no longer avoided or
excluded.

Page store: `abort()` leaves in `residueHistory_` the pages of the transaction it
undoes, which are still in the tree; with marker 1 destroyed a file opens from
marker 2, which may be old and whose pages are used again; the flag
`DataOnOverflow` is never cleared.

B-tree: an entry that is moved puts a longer separator into a parent that is full.

Object table: an index whose commit fails is only logged and keeps its write
transaction to the end of the process; `close()` then gives the rest of it the
table's state number, so that the next open trusts it; redefining it removes element
-1 of a list (section 5). Objects created and removed since a state are left out of
`changesSince()`, but not if they were updated in between; `addIndex()` within a
transaction (section 5).

Views: the situations of section 6; `updateViewOnChanges` skips a Reduce when a Map
has processed the change; an object of a Map's result that is skipped as a duplicate
stays in `mEmittedObjects` and is written anyway.

Writes: an object that is rejected in a batch leaves the earlier ones stored, without
an event, where `src/imports/jsondb/jsondbpartition.cpp:185` says that nothing is; a
tombstone that lost a merge is only in the history of the head, which is dropped
when that head becomes a conflict; what resolves a conflict with content is only
recorded in the history; a revived object keeps the conflicts of the object it was
read with, which may be newer than its head.

Queries: text after a part that does not begin with `[` is ignored; a missing `|` is
accepted, a trailing comma too; an unknown operator matches everything with an index and nothing
without; a condition through two joins asks for a property named "a->b";
numbers in an index of strings are converted, those of a query are not; `!=` on
`_type` adds to the matched types; sorting after a mapping sorts by what was mapped.

Daemon and QML import: a skipped duplicate that says it is the default leaves a null
pointer; Notifications that go with a dropped partition without a word to their clients
(section 13); a Partition that is not found is None or Offline where
`src/imports/jsondb/jsondbpartition.cpp:126` says Error; the exposures of sections 12
and 13.

Client: `src/client/qjsondbwatcher.cpp:356` has 0 and -1 of initialStateNumber the wrong
way round: it says that 0, the default, is for live changes only and -1 for the existing
objects as well. In the code the default is -1 (`qjsondbwatcher_p.h:89`), which is for
live changes, and 0 is for the existing objects (`jsondbpartition.cpp:769`); the model
`JsonDbNotification` takes the code's.
