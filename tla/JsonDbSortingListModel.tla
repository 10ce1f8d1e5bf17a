----------------------- MODULE JsonDbSortingListModel -----------------------
(***************************************************************************)
(* JsonDbSortingListModel of the QML import: it reads the whole result of  *)
(* a query from several partitions, in chunks, sorts it itself and keeps   *)
(* the first `limit' rows.  Notifications of writes are applied to the     *)
(* rows, or held back while it reads; a row that leaves the list makes it  *)
(* read everything again, for the row that takes its place.                *)
(*                                                                         *)
(* An object is its content, a number; 0 stands for an object that is not  *)
(* there or does not match the query.  As in QJsonDbQueryModel, a request  *)
(* waits in the queue of the connection until the daemon answers it, in    *)
(* one step with what the model does with the answer.                      *)
(***************************************************************************)
EXTENDS Integers, FiniteSets, Sequences, SequencesExt, FiniteSetsExt, Functions

CONSTANTS
    Uuid,          \* the objects, numbers in the order of their _uuid
    Partition,     \* the partitions, 1 .. n as in partitionObjects
    Home,          \* the partition of each object
    Content,       \* the contents of an object
    SortValue,     \* the sorted property of each content
    Rank,          \* where lessThan() puts a value: in one place if they differ in case only
    First,         \* the tables to begin with
    Limit,         \* the limits, -1 for none
    chunkSize,     \* the objects read at a time
    MaxWrites,     \* bound: writes of other clients
    MaxCalls,      \* bound: calls of the application
    Avoided        \* bound: the exposures left out, see Exposure

\* Situations in which the code gives up what is said of it below.
Exposure == {
    "moved",     \* an object read in an earlier chunk has gone before the next is read
    "pending",   \* notifications of watchers that are no more wait to be applied
    "unmarked",  \* they are applied to a list that was cut, before overflow says so
    "sorted",    \* the order was changed during a load that leaves out rows
    "cleared",   \* the query was removed while a load was under way, or of an empty list
    "failed",    \* a read ended with an error
    "folded"}    \* the values of two objects differ in case only

ASSUME SortingListAssumption ==
    /\ Partition = 1..Cardinality(Partition) /\ Home \in [Uuid -> Partition]
    /\ Content \subseteq Nat \ {0} /\ DOMAIN SortValue = Content
    /\ Limit \subseteq {-1} \cup (Nat \ {0}) /\ chunkSize \in Nat \ {0}
    /\ {MaxWrites, MaxCalls} \subseteq Nat /\ Avoided \subseteq Exposure

VARIABLES
    table,     \* the objects in the daemon
    events,    \* notifications of what was committed, not delivered yet
    m,         \* the model, and the queue of its connection
    given,     \* history: the objects a load has had of each partition
    left,      \* bound: what may still come
    exposed    \* history: see Exposure

vars == <<table, events, m, given, left, exposed>>

Order == {"none", "ascending", "descending"}
NoInfo == [offset |-> 0, size |-> -1]
Nothing == <<>>
Each(x) == [p \in Partition |-> x]
Known(x) == 1..x.count

-----------------------------------------------------------------------------
(***************************************************************************)
(* Keys, and objectUuids: a QMap, with its rows in the order of their      *)
(* keys.  insert() replaces the row of an equal key, insertMulti() goes    *)
(* before it, remove() takes every equal one.                              *)
(***************************************************************************)
SortingKey(order, uuid, content) ==
    [value |-> IF order = "none" THEN 0 ELSE SortValue[content], uuid |-> uuid]

Ascends(a, b) == IF a.value # b.value THEN Rank[a.value] < Rank[b.value] ELSE a.uuid < b.uuid

Less(order, a, b) == IF order = "descending" THEN Ascends(b, a) ELSE Ascends(a, b)

lowerBound(x, key) == Cardinality({i \in DOMAIN x.rows : Less(x.order, x.rows[i].key, key)})
upperBound(x, key) == Cardinality({i \in DOMAIN x.rows : ~Less(x.order, key, x.rows[i].key)})

Equal(x, a, b) == ~Less(x.order, a, b) /\ ~Less(x.order, b, a)

insertMulti(x, key, uuid) ==
    InsertAt(x.rows, lowerBound(x, key) + 1, [key |-> key, uuid |-> uuid])

insert(x, key, uuid) ==
    LET i == lowerBound(x, key)
    IN IF upperBound(x, key) > i THEN [x.rows EXCEPT ![i + 1].uuid = uuid]
       ELSE insertMulti(x, key, uuid)

remove(x, key) == SelectSeq(x.rows, LAMBDA row : ~Equal(x, row.key, key))

Uuids(rows) == {rows[i].uuid : i \in DOMAIN rows}
Except(f, S) == Restrict(f, DOMAIN f \ S)
With(f, u, value) == (u :> value) @@ f

-----------------------------------------------------------------------------
(***************************************************************************)
(* Requests.  Every operator from here on leads from one state of the      *)
(* model to the next.                                                      *)
(***************************************************************************)
Request(kind, p, offset) == [kind |-> kind, p |-> p, offset |-> offset]

\* resetRequest(): what was asked before is not waited for any more.
Send(x, request) ==
    [x EXCEPT !.requests =
        Append(SelectSeq(@, LAMBDA r : ~(r.kind = request.kind /\ r.p = request.p)), request)]

fetchPartition(x, p) ==
    IF p \notin Known(x) THEN x
    ELSE Send([x EXCEPT !.state = "Querying", !.info[p] = NoInfo], Request("values", p, 0))

fetchNextChunk(x, p) ==
    Send([x EXCEPT !.state = "Querying", !.info[p].offset = @ + chunkSize],
         Request("values", p, x.info[p].offset + chunkSize))

Emptied(x) == [x EXCEPT !.objects = Nothing, !.rows = <<>>, !.sortValue = Nothing]

fetchModel(x, reset) ==
    FoldLeft(fetchPartition, [IF reset THEN Emptied(x) ELSE x EXCEPT !.resetModel = reset],
             SetToSortSeq(Partition, <))

\* The watcher goes, and what it has been sent with it.
clearNotification(x, p) ==
    IF p \notin Known(x) THEN x
    ELSE [x EXCEPT !.watching[p] = FALSE, !.info[p] = NoInfo,
                   !.requests = SelectSeq(@, LAMBDA r : ~(r.kind = "watch" /\ r.p = p))]

clearNotifications(x) == FoldLeft(clearNotification, x, SetToSortSeq(Partition, <))

createOrUpdateNotification(x, p) ==
    IF p \notin Known(x) THEN x ELSE Send(clearNotification(x, p), Request("watch", p, 0))

createOrUpdateNotifications(x) ==
    FoldLeft(createOrUpdateNotification, x, SetToSortSeq(Partition, <))

reset(x) == [Emptied(clearNotifications(x)) EXCEPT !.state = "None"]

-----------------------------------------------------------------------------
(***************************************************************************)
(* Rows that come and go.                                                  *)
(***************************************************************************)
IsFull(x) == x.limit > 0 /\ Len(x.rows) = x.limit

removeLastItem(x) ==
    LET u == Last(x.rows).uuid
    IN [x EXCEPT !.rows = Front(@), !.objects = Except(@, {u}), !.sortValue = Except(@, {u})]

Inserted(x, u, content, rows) ==
    [x EXCEPT !.objects = With(@, u, content), !.rows = rows,
              !.sortValue = With(@, u, SortingKey(x.order, u, content))]

addItem(x, u, content) ==
    LET key == SortingKey(x.order, u, content)
        room == IF IsFull(x) THEN removeLastItem(x) ELSE x
        added == Inserted(room, u, content, insert(room, key, u))
    IN IF u \in DOMAIN x.objects THEN x
       ELSE IF IsFull(x) /\ upperBound(x, key) >= x.limit THEN x
       ELSE [added EXCEPT !.overflow = @ \/ IsFull(added)]

\* _q_refreshModel(): another object may have its place among the first.
deleteItem(x, u) ==
    LET key == x.sortValue[u]
        deleted == [x EXCEPT !.objects = Except(@, {u}), !.rows = remove(x, key),
                             !.sortValue = Except(@, {u})]
    IN IF u \notin DOMAIN x.sortValue \/ upperBound(x, key) = lowerBound(x, key) THEN x
       ELSE IF x.overflow THEN fetchModel(deleted, FALSE)
       ELSE deleted

\* Mutant: only a row that would be beyond the limit leaves the list.
BeyondTheLimit(x, oldIndex, newIndex) == x.overflow /\ oldIndex <= x.limit - 1 /\ newIndex > x.limit

LeavesTheList(x, oldIndex, newIndex) ==
    x.overflow /\ oldIndex <= x.limit - 1 /\ newIndex >= x.limit - 1

updateItem(x, u, content) ==
    LET key == x.sortValue[u]
        newKey == SortingKey(x.order, u, content)
        taken == [x EXCEPT !.rows = remove(x, key)]
    IN IF u \notin DOMAIN x.sortValue THEN addItem(x, u, content)
       ELSE IF key = newKey THEN [x EXCEPT !.objects = With(@, u, content)]
       ELSE IF LeavesTheList(x, lowerBound(x, key), upperBound(x, newKey)) THEN deleteItem(x, u)
       ELSE Inserted(x, u, content, insert(taken, newKey, u))

sendNotification(x, n) ==
    CASE n.action = "create" -> addItem(x, n.uuid, n.content)
      [] n.action = "remove" -> deleteItem(x, n.uuid)
      [] n.action = "update" -> updateItem(x, n.uuid, n.content)

-----------------------------------------------------------------------------
(***************************************************************************)
(* Answers.                                                                *)
(***************************************************************************)
Sorted(x, contents) ==
    FoldLeft(LAMBDA y, u : Inserted(y, u, contents[u], insertMulti(y, SortingKey(y.order, u, contents[u]), u)),
             Emptied(x), SetToSortSeq(DOMAIN contents, <))

\* The first chunk takes the place of what was there,
Replaced(x, contents) ==
    LET all == Sorted(x, contents)
        beyond == IF x.limit > 0 THEN Uuids(SubSeq(all.rows, x.limit + 1, Len(all.rows))) ELSE {}
    IN [all EXCEPT !.rows = SelectSeq(@, LAMBDA row : row.uuid \notin beyond),
                   !.objects = Except(@, beyond), !.sortValue = Except(@, beyond),
                   !.resetModel = FALSE]

\* the others are added to it.
Extended(x, contents) ==
    FoldLeft(LAMBDA y, u : addItem(y, u, contents[u]), x, SetToSortSeq(DOMAIN contents, <))

AllFinished(x) == \A p \in Known(x) : x.info[p].size \in 0..chunkSize - 1

\* Mutant: the state is set after what was held back is applied.
StaysQuerying(x) ==
    LET sent == FoldLeft(sendNotification, x, x.pending)
    IN [sent EXCEPT !.pending = <<>>, !.state = IF x.pending = <<>> THEN "Ready" ELSE @]

Loaded(x) == [FoldLeft(sendNotification, [x EXCEPT !.state = "Ready"], x.pending) EXCEPT !.pending = <<>>]

fillData(x, contents, p) ==
    LET n == Cardinality(DOMAIN contents)
        sized == [x EXCEPT !.info[p].size = n]
        filled == IF x.resetModel THEN Replaced(sized, contents) ELSE Extended(sized, contents)
        loaded == Loaded(filled)
    IN IF AllFinished(filled)
       THEN [loaded EXCEPT !.overflow = loaded.limit > 0 /\ Cardinality(DOMAIN loaded.objects) >= loaded.limit]
       ELSE IF n >= chunkSize THEN fetchNextChunk(filled, p)
       ELSE filled

sortObjects(x) ==
    LET sorted == Sorted(x, x.objects)
    IN IF x.objects = Nothing THEN x
       ELSE IF x.overflow /\ x.state # "Querying" THEN fetchModel(sorted, FALSE)
       ELSE sorted

-----------------------------------------------------------------------------
(***************************************************************************)
(* Steps.                                                                  *)
(***************************************************************************)
\* Where an exposure is avoided, the model is not followed any further.
Followed == exposed \cap Avoided = {}

Becomes(x, exposing) == m' = x /\ exposed' = exposed \cup exposing

ExposedIf(condition, e) == IF condition THEN {e} ELSE {}
LeftBehind == ExposedIf(m.pending # <<>>, "pending")

Call == left.calls > 0 /\ left' = [left EXCEPT !.calls = @ - 1]

Fresh(count, order, limit) ==
    [hasQuery |-> TRUE, count |-> count, order |-> order, limit |-> limit,
     state |-> "None", resetModel |-> TRUE, overflow |-> FALSE,
     objects |-> Nothing, rows |-> <<>>, sortValue |-> Nothing, pending |-> <<>>,
     info |-> Each(NoInfo), watching |-> Each(FALSE), requests |-> <<>>]

\* componentComplete()
Init ==
    /\ table \in First /\ events = <<>> /\ given = Each({})
    /\ \E count \in {1, Cardinality(Partition)}, order \in Order, limit \in Limit :
          m = fetchModel(createOrUpdateNotifications(Fresh(count, order, limit)), TRUE)
    /\ left = [writes |-> MaxWrites, calls |-> MaxCalls]
    /\ exposed = {}

\* Another object has such a value, in the daemon, in the model or on the way.
Contents(v) ==
    {table[v]} \cup {m.objects[w] : w \in DOMAIN m.objects \cap {v}}
               \cup {n.content : n \in {e \in Range(events \o m.pending) : e.uuid = v}}

Folded(u, content) ==
    content # 0 /\ \E v \in Uuid \ {u} : \E c \in Contents(v) \ {0} :
        SortValue[c] # SortValue[content] /\ Rank[SortValue[c]] = Rank[SortValue[content]]

\* Another client creates, updates or removes an object.
Write(u, content) ==
    /\ left.writes > 0 /\ left' = [left EXCEPT !.writes = @ - 1]
    /\ content # table[u]
    /\ table' = [table EXCEPT ![u] = content]
    /\ events' = Append(events, [uuid |-> u, content |-> content,
                                 action |-> CASE table[u] = 0 -> "create"
                                              [] table[u] # 0 /\ content = 0 -> "remove"
                                              [] OTHER -> "update"])
    /\ Becomes(m, ExposedIf(Folded(u, content), "folded"))
    /\ UNCHANGED given

Matching(p) == {u \in Uuid : Home[u] = p /\ table[u] # 0}

\* The objects of the partition in the order of their uuids, from the offset on.
Result(r) ==
    LET all == SetToSortSeq(Matching(r.p), <)
    IN [u \in Range(SubSeq(all, r.offset + 1, Min({r.offset + chunkSize, Len(all)}))) |-> table[u]]

\* The list was cut, and notifications wait that may take one of its rows.
Unmarked(x) == x.state = "Ready" /\ m.pending # <<>> /\ ~m.overflow /\ x.limit > 0

\* The daemon answers the request in flight.
_q_valueResponse ==
    /\ m.requests # <<>>
    /\ \E r \in {Head(m.requests)}, x \in {[m EXCEPT !.requests = Tail(@)]} :
          IF r.kind = "watch" THEN Becomes([x EXCEPT !.watching[r.p] = TRUE], {}) /\ UNCHANGED given
          ELSE \E contents \in {Result(r)} : \E y \in {fillData(x, contents, r.p)} :
                 /\ given' = [given EXCEPT ![r.p] = (IF r.offset = 0 THEN {} ELSE @) \cup DOMAIN contents]
                 /\ Becomes(y, ExposedIf(r.offset > 0 /\ ~(given[r.p] \subseteq Matching(r.p)), "moved")
                               \cup ExposedIf(Unmarked(y), "unmarked"))
    /\ UNCHANGED <<table, events, left>>

\* The partition is not available, or refuses the query.
_q_readError ==
    /\ m.requests # <<>> /\ Head(m.requests).kind = "values"
    /\ Becomes([m EXCEPT !.requests = Tail(@)], {"failed"})
    /\ UNCHANGED <<table, events, given, left>>

_q_notificationsAvailable ==
    /\ events # <<>>
    /\ events' = Tail(events)
    /\ \E n \in {Head(events)} :
          CASE ~m.watching[Home[n.uuid]] \/ m.state = "None" -> Becomes(m, {})
            [] m.watching[Home[n.uuid]] /\ m.state = "Querying" -> Becomes([m EXCEPT !.pending = Append(@, n)], {})
            [] OTHER -> Becomes(sendNotification(m, n), {})
    /\ UNCHANGED <<table, given, left>>

\* The application sets another query, or bindings,
setQuery ==
    /\ Call
    /\ m.count > 0
    /\ Becomes(fetchModel(createOrUpdateNotifications([m EXCEPT !.hasQuery = TRUE]), TRUE), LeftBehind)
    /\ UNCHANGED <<table, events, given>>

\* no query,
clearQuery ==
    /\ Call
    /\ m.hasQuery
    /\ \E x \in {[m EXCEPT !.hasQuery = FALSE]} :
          Becomes(IF m.rows # <<>> THEN reset(x) ELSE x,
                  LeftBehind \cup ExposedIf(m.rows = <<>> \/ m.requests # <<>>, "cleared"))
    /\ UNCHANGED <<table, events, given>>

\* a limit,
setQueryLimit(limit) ==
    /\ Call
    /\ limit # m.limit
    /\ \E x \in {[m EXCEPT !.limit = limit]} :
          Becomes(IF m.hasQuery /\ m.count > 0 THEN fetchModel(x, TRUE) ELSE x, {})
    /\ UNCHANGED <<table, events, given>>

\* an order,
setSortOrder(order) ==
    /\ Call
    /\ order # m.order
    /\ Becomes(sortObjects([m EXCEPT !.order = order]),
               ExposedIf(m.state = "Querying" /\ m.rows # <<>> /\ m.limit > 0, "sorted"))
    /\ UNCHANGED <<table, events, given>>

\* has everything read again, or a function that adds to the objects,
refreshItems ==
    /\ Call
    /\ m.rows # <<>>
    /\ Becomes(fetchModel(m, TRUE), {})
    /\ UNCHANGED <<table, events, given>>

\* and gives it partitions.
appendPartition ==
    /\ Call
    /\ m.count + 1 \in Partition
    /\ \E x \in {[m EXCEPT !.count = @ + 1]} :
          Becomes(IF m.hasQuery
                  THEN fetchPartition(createOrUpdateNotification(
                           [x EXCEPT !.resetModel = @ \/ m.state = "None"], m.count + 1), m.count + 1)
                  ELSE x, {})
    /\ UNCHANGED <<table, events, given>>

\* The watchers stay with the connection, and are not found any more.
clearPartitions ==
    /\ Call
    /\ m.count > 0
    /\ Becomes(reset([m EXCEPT !.count = 0, !.info = Each(NoInfo), !.watching = Each(FALSE), !.requests = <<>>]),
               LeftBehind)
    /\ UNCHANGED <<table, events, given>>

Works == Followed /\ (_q_valueResponse \/ _q_notificationsAvailable)

Next ==
    \/ Works
    \/ /\ Followed
       /\ \/ \E u \in Uuid, content \in Content \cup {0} : Write(u, content)
          \/ _q_readError
          \/ setQuery \/ clearQuery \/ refreshItems \/ appendPartition \/ clearPartitions
          \/ \E limit \in Limit : setQueryLimit(limit)
          \/ \E order \in Order : setSortOrder(order)

\* Nothing is under way.
AtRest == m.requests = <<>> /\ events = <<>>

\* Weak fairness of Works, which is enabled unless the model is at rest.
Fairness == []<>(AtRest \/ ~Followed) \/ []<><<Works>>_vars

Spec == Init /\ [][Next]_vars /\ Fairness

-----------------------------------------------------------------------------
(***************************************************************************)
(* Properties.                                                             *)
(***************************************************************************)
\* In every state, also between chunks: the rows are in the order that is set,
\* without two of one uuid and not more than the limit, and the three maps
\* that are changed one after the other (objects, objectUuids and
\* objectSortValues) have the same objects under the same keys.
RowsAgree ==
    exposed = {} =>
        /\ \A i, j \in DOMAIN m.rows : i < j => Less(m.order, m.rows[i].key, m.rows[j].key)
        /\ Uuids(m.rows) = DOMAIN m.objects /\ DOMAIN m.sortValue = DOMAIN m.objects
        /\ \A i \in DOMAIN m.rows :
              m.rows[i].key = SortingKey(m.order, m.rows[i].uuid, m.objects[m.rows[i].uuid])
        /\ m.limit > 0 => Len(m.rows) <= m.limit

\* The query's result in the partitions that are known, in the order that is set.
Expected ==
    SetToSortSeq({SortingKey(m.order, u, table[u]) : u \in UNION {Matching(p) : p \in Known(m)}},
                 LAMBDA a, b : Less(m.order, a, b))

\* At rest the rows are the first of the sorted result, as many as the limit
\* has it, each with its object of now: whatever was written, called, left out
\* for the limit and read again on the way (addItem(), updateItem(),
\* deleteItem(), fillData() and pendingNotifications).
RowsAreFirst ==
    AtRest /\ m.count > 0 /\ exposed = {} =>
        IF m.hasQuery
        THEN /\ m.state = "Ready" /\ m.pending = <<>>
             /\ [i \in DOMAIN m.rows |-> m.rows[i].key]
                  = SubSeq(Expected, 1, IF m.limit > 0 THEN Min({m.limit, Len(Expected)}) ELSE Len(Expected))
             /\ \A u \in DOMAIN m.objects : m.objects[u] = table[u]
        ELSE m.rows = <<>>

\* The rows of the model follow the daemon: they are in order at any time and
\* the first of the sorted result at rest.
ModelFollows == RowsAgree /\ RowsAreFirst

\* The model comes to rest, and to Ready if it has a query and a partition:
\* a list that reads again whenever a row leaves it does not do so for ever.
Settles == <>[](Followed => AtRest /\ (m.hasQuery /\ m.count > 0 => m.state = "Ready"))
=============================================================================
