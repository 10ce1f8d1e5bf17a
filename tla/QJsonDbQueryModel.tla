------------------------- MODULE QJsonDbQueryModel -------------------------
(***************************************************************************)
(* QJsonDbQueryModel: a list of the objects of a query in the order of an  *)
(* index, over several partitions.  It has the keys of all rows, read in   *)
(* chunks, and some pages of objects, read when a view asks for them;      *)
(* notifications of writes keep both up.                                   *)
(*                                                                         *)
(* An object is its content, a number; all contents match the query.  An   *)
(* answer is computed by the daemon and handled by the model in one step:  *)
(* answers and notifications come in the order they are sent, and what the *)
(* model asks next waits in the queue of its connection.                   *)
(***************************************************************************)
EXTENDS QJsonDbModelCache

CONSTANTS
    Uuid,          \* the objects, numbers in the order of their _uuid
    Partition,     \* the partitions, 1 .. n as in partitionObjects
    Home,          \* the partition of each object
    Content,       \* the contents of an object
    IndexValue,    \* the value of the index for each content
    First,         \* the tables to begin with
    MaxWrites,     \* bound: writes of other clients
    MaxCalls,      \* bound: calls of the application
    MaxOutages,    \* bound: partitions going offline
    Avoided        \* bound: the exposures left out, see Exposure

\* Situations in which the code gives up what is said of it below.
Exposure == {
    "moved",      \* rows moved between two reads of one load
    "pending",    \* notifications were waiting when everything was read again
    "cached",     \* so was the object asked for last
    "refreshed"}  \* refreshItems() was called when not all keys were there

ASSUME QueryModelAssumption ==
    /\ Partition = 1..Cardinality(Partition) /\ Home \in [Uuid -> Partition]
    /\ Content \subseteq Nat \ {0} /\ IndexValue \in [Content -> Nat]
    /\ {MaxWrites, MaxCalls, MaxOutages} \subseteq Nat
    /\ Avoided \subseteq Exposure

VARIABLES
    table,     \* the objects in the daemon
    online,    \* the partitions that are available
    events,    \* notifications of what was committed, not delivered yet
    m,         \* the model, and the queue of its connection
    left,      \* bound: what may still come
    exposed    \* history: see Exposure

server == <<table, online, events>>
vars == <<server, m, left, exposed>>

NoValue == -1
NoObjects == <<>>
Clear == [index |-> -1, count |-> 0]
NoInfo == [offset |-> 0, size |-> -1, count |-> 0]
Each(x) == [p \in Partition |-> x]

-----------------------------------------------------------------------------
(***************************************************************************)
(* Keys.                                                                   *)
(***************************************************************************)
SortingKey(uuid, content) == <<IndexValue[content], uuid>>

Before(a, b) == a[1] < b[1] \/ (a[1] = b[1] /\ a[2] < b[2])

Ordered(keys) == SetToSortSeq(keys, Before)

iterator_position(keys, key) == Cardinality({k \in keys : Before(k, key)})
upperBound(keys, key) == Cardinality({k \in keys : ~Before(key, k)})

InPartition(keys, p) == {k \in keys : Home[k[2]] = p}
Rows(keys) == LET ordered == Ordered(keys) IN [i \in DOMAIN ordered |-> ordered[i][2]]
KeysIn(t, partitions) ==
    {SortingKey(u, t[u]) : u \in {v \in Uuid : t[v] # 0 /\ Home[v] \in partitions}}

-----------------------------------------------------------------------------
(***************************************************************************)
(* Requests.  Every operator from here on leads from one state of the      *)
(* model to the next.                                                      *)
(***************************************************************************)
Request(kind, p, offset, limit) == [kind |-> kind, p |-> p, offset |-> offset, limit |-> limit]

\* resetRequest(): what was asked before is not waited for any more.
Without(requests, kind, p) == SelectSeq(requests, LAMBDA r : ~(r.kind = kind /\ r.p = p))

Send(x, request) ==
    [x EXCEPT !.requests = Append(Without(@, request.kind, request.p), request)]

createObjectRequests(x, startIndex, most) ==
    LET rows == Ordered(x.keys)
        count == Min({most, Len(rows) - startIndex})
        In(p) == {r \in startIndex..startIndex + count - 1 : Home[rows[r + 1][2]] = p}
        Asked(y, p) ==
            IF In(p) = {} THEN [y EXCEPT !.valueInfo[p].size = 0, !.valueInfo[p].count = 0]
            ELSE LET n == Cardinality(In(p))
                     offset == iterator_position(InPartition(x.keys, p), rows[Min(In(p)) + 1])
                 IN Send([y EXCEPT !.state = "Querying",
                                   !.valueInfo[p] = [offset |-> offset, size |-> -1, count |-> n]],
                         Request("values", p, offset, Min({n, chunkSize})))
        wanted == [index |-> startIndex, count |-> count]
    IN IF startIndex >= Len(rows) \/ (x.state = "Querying" /\ x.current = wanted) THEN x
       ELSE FoldLeft(Asked, [x EXCEPT !.current = wanted], SetToSortSeq(Partition, <))

fetchNextChunk(x, p) ==
    Send(x, Request("values", p, x.valueInfo[p].offset, Min({x.valueInfo[p].count, chunkSize})))

fetchPartitionKeys(x, p) ==
    LET querying == [x EXCEPT !.state = "Querying"]
    IN IF p \notin x.known THEN querying
       ELSE Send([querying EXCEPT !.keyInfo[p] = NoInfo], Request("keys", p, 0, chunkSize))

fetchNextKeyChunk(x, p) ==
    Send([x EXCEPT !.keyInfo[p].offset = @ + chunkSize],
         Request("keys", p, x.keyInfo[p].offset + chunkSize, chunkSize))

\* Pages that are missed while others are loaded wait in the order they were asked for.
addIndexToQueue(x, index) ==
    IF Contains(x.queue, findIndexNSize(index)) THEN x
    ELSE [x EXCEPT !.queue = Append(@, findIndexNSize(index))]

requestPageContaining(x, index) ==
    IF x.state # "Querying"
    THEN createObjectRequests(x, findIndexNSize(index)[1], findIndexNSize(index)[2])
    ELSE IF index >= x.current.index /\ index < x.current.index + x.current.count
    THEN [x EXCEPT !.cacheMiss = @ \cup {index}]
    ELSE addIndexToQueue(x, index)

prefetchNearbyPages(x, index) ==
    LET pos == findPrefetchIndex(x.pages, index)
    IN IF pos = -1 THEN x ELSE createObjectRequests(x, pos, findChunkSize(x.pages, pos))

\* The object goes to last.object: Undefined if it is not known.
getJsonObject(x, index) ==
    LET page == findPage(x.pages, index)
        uuid == Rows(x.keys)[index + 1]
        missed == [x EXCEPT !.cacheMiss = @ \cup {index}]
        dropped == [missed EXCEPT !.pages = RemoveAt(@, page)]
        start == x.pages[page].index
        count == x.pages[page].count
        used == [x EXCEPT !.pages = Used(@, page)]
        found == IF x.state = "Ready" THEN prefetchNearbyPages(used, index) ELSE used
    IN IF index = x.last.index \/ index >= Cardinality(x.keys) THEN x
       ELSE IF page = 0 THEN requestPageContaining(missed, index)
       ELSE IF uuid \notin Objects(x.pages[page])
       THEN IF x.state = "Ready" THEN createObjectRequests(dropped, start, count)
            ELSE [dropped EXCEPT !.queue = Append(@, <<start, count>>)]
       ELSE [found EXCEPT !.last = [index |-> index, object |-> x.pages[page].objects[uuid]]]

-----------------------------------------------------------------------------
(***************************************************************************)
(* Notifications.                                                          *)
(***************************************************************************)
addItem(x, uuid, content) ==
    LET key == SortingKey(uuid, content)
        index == upperBound(x.keys, key)
        keys == x.keys \cup {key}
    IN IF x.sortValue[uuid] # NoValue THEN x
       ELSE [x EXCEPT !.keys = keys,
                      !.sortValue[uuid] = key[1],
                      !.pages = insertObject(@, index, uuid, content, Rows(keys)),
                      !.last.index = IF index <= @ THEN @ + 1 ELSE @]

\* Mutant: the object asked for last stays where it was.
KeepsLast(last, index) == last

LastAfterRemoval(last, index) ==
    IF index = last THEN -1 ELSE IF index < last THEN last - 1 ELSE last

deleteItem(x, uuid) ==
    LET key == <<x.sortValue[uuid], uuid>>
        index == iterator_position(x.keys, key)
    IN IF key \notin x.keys THEN x
       ELSE [x EXCEPT !.keys = @ \ {key},
                      !.sortValue[uuid] = NoValue,
                      !.pages = removeObject(@, index, uuid),
                      !.last.index = LastAfterRemoval(@, index)]

updateItem(x, uuid, content) ==
    LET key == <<x.sortValue[uuid], uuid>>
        newKey == SortingKey(uuid, content)
        oldIndex == iterator_position(x.keys, key)
        bound == upperBound(x.keys, newKey)
        keys == (x.keys \ {key}) \cup {newKey}
        newIndex == iterator_position(keys, newKey)
        y == [x EXCEPT !.last.index = IF @ = oldIndex THEN -1 ELSE @]
        moved == [y EXCEPT !.keys = keys, !.sortValue[uuid] = newKey[1]]
    IN IF x.sortValue[uuid] = NoValue THEN addItem(x, uuid, content)
       ELSE IF key = newKey THEN [y EXCEPT !.pages = updateObject(@, uuid, content)]
       ELSE IF bound \in {oldIndex, oldIndex + 1}
       THEN [moved EXCEPT !.pages = updateObject(@, uuid, content)]
       ELSE [moved EXCEPT
                !.pages = insertObject(removeObject(@, oldIndex, uuid), newIndex, uuid, content, Rows(keys)),
                !.last.index = IF oldIndex < @ /\ bound > @ THEN @ - 1
                               ELSE IF oldIndex > @ /\ bound <= @ THEN @ + 1 ELSE @]

sendNotification(x, n) ==
    CASE n.action = "create" -> addItem(x, n.uuid, n.content)
      [] n.action = "remove" -> deleteItem(x, n.uuid)
      [] n.action = "update" -> updateItem(x, n.uuid, n.content)

SendPending(x) == [FoldLeft(sendNotification, x, x.pending) EXCEPT !.pending = <<>>]

-----------------------------------------------------------------------------
(***************************************************************************)
(* Answers.                                                                *)
(***************************************************************************)
\* Mutant: a partition that is offline is waited for.
WaitsForAll(x, info) == \A p \in Partition : info[p].size \in 0..chunkSize - 1

\* Every partition that is online has given its last chunk.
AllFinished(x, info) == \A p \in x.known : info[p].size \in 0..chunkSize - 1

Loaded(x) == SendPending([x EXCEPT !.state = "Ready", !.resetModel = FALSE])

NextInQueue(x) ==
    IF x.queue = <<>> THEN x
    ELSE createObjectRequests([x EXCEPT !.queue = Tail(@)], Head(x.queue)[1], Head(x.queue)[2])

fillData(x, objects, p) ==
    LET n == Cardinality(DOMAIN objects)
        filled == [x EXCEPT !.valueInfo[p] = [offset |-> @.offset + n, size |-> n, count |-> @.count - n],
                            !.tmp = objects @@ @]
        current == x.current
        requested == current.index..current.index + current.count - 1
        added == [filled EXCEPT
                     !.pages = addObjects(@, current.index, Rows(x.keys), filled.tmp),
                     !.tmp = NoObjects, !.current = Clear,
                     !.cacheMiss = @ \ requested]
        \* objectAvailable() of every row of the load
        shown == FoldLeft(getJsonObject, added, SetToSortSeq(requested, <))
    IN IF AllFinished(filled, filled.valueInfo) THEN NextInQueue(Loaded(shown))
       ELSE IF n >= chunkSize THEN fetchNextChunk(filled, p)
       ELSE filled

fillKeys(x, keys, p) ==
    LET n == Cardinality(keys)
        filled == [x EXCEPT !.keyInfo[p].size = n,
                            !.keys = @ \cup keys,
                            !.sortValue = [u \in Uuid |-> IF \E k \in keys : k[2] = u
                                                          THEN (CHOOSE k \in keys : k[2] = u)[1] ELSE @[u]]]
    IN IF AllFinished(filled, filled.keyInfo)
       THEN IF filled.keys = {}
            THEN FoldLeft(LAMBDA y, q : fillData(y, NoObjects, q), filled, SetToSortSeq(Partition, <))
            ELSE createObjectRequests(filled, 0, Min({maxItems, Cardinality(filled.keys)}))
       ELSE IF n >= chunkSize THEN fetchNextKeyChunk(filled, p)
       ELSE filled

verifyIndexSpec(x, p) ==
    LET verified == [x EXCEPT !.valid = @ \cup {p}]
    IN IF x.known \subseteq verified.valid
       THEN FoldLeft(fetchPartitionKeys, verified, SetToSortSeq(Partition, <))
       ELSE verified

-----------------------------------------------------------------------------
(***************************************************************************)
(* Everything is read again.                                               *)
(***************************************************************************)
createOrUpdateNotification(x, p) ==
    LET cleared == [x EXCEPT !.watching[p] = FALSE, !.valueInfo[p] = NoInfo,
                             !.requests = Without(@, "watch", p)]
    IN IF p \in x.known THEN Send(cleared, Request("watch", p, 0, 0)) ELSE cleared

fetchIndexSpec(x, p) ==
    LET querying == [x EXCEPT !.state = "Querying"]
    IN IF p \in x.known THEN Send(querying, Request("index", p, 0, 0)) ELSE querying

\* What initializeModel() leaves: pending, last, and what is known of the values.
Emptied(x) ==
    [x EXCEPT !.resetModel = TRUE, !.pages = <<>>, !.keys = {}, !.sortValue = [u \in Uuid |-> NoValue],
              !.tmp = NoObjects, !.current = Clear, !.cacheMiss = {}, !.queue = <<>>,
              !.valid = {}, !.keyInfo = Each(NoInfo),
              !.requests = SelectSeq(@, LAMBDA r : r.kind = "watch")]

createOrUpdateNotifications(x) ==
    FoldLeft(createOrUpdateNotification, x, SetToSortSeq(Partition, <))

fetchModel(x) == FoldLeft(fetchIndexSpec, Emptied(x), SetToSortSeq(Partition, <))

\* reset(), for an empty query.
reset(x) ==
    [Emptied(x) EXCEPT !.requests = <<>>, !.watching = Each(FALSE), !.valueInfo = Each(NoInfo),
                       !.last.index = -1, !.state = "None"]

-----------------------------------------------------------------------------
(***************************************************************************)
(* Steps.                                                                  *)
(***************************************************************************)
\* The model of the next state.
Becomes(x) == m' = [x EXCEPT !.pages = Ranked(@)]

\* Where an exposure is avoided, the model is not followed any further.
Followed == exposed \cap Avoided = {}
ExposeIf(exposing) == exposed' = exposed \cup exposing

LeftBehind ==
    (IF m.pending # <<>> THEN {"pending"} ELSE {}) \cup (IF m.last.index # -1 THEN {"cached"} ELSE {})

Call == left.calls > 0 /\ left' = [left EXCEPT !.calls = @ - 1]

Fresh ==
    [hasQuery |-> TRUE, known |-> Partition, state |-> "None", resetModel |-> TRUE,
     keys |-> {}, sortValue |-> [u \in Uuid |-> NoValue], pages |-> <<>>, tmp |-> NoObjects,
     current |-> Clear, cacheMiss |-> {}, queue |-> <<>>, pending |-> <<>>,
     last |-> [index |-> -1, object |-> Undefined],
     valid |-> {}, keyInfo |-> Each(NoInfo), valueInfo |-> Each(NoInfo),
     watching |-> Each(FALSE), requests |-> <<>>]

\* populate(), with all partitions available.
Init ==
    /\ table \in First /\ online = Partition /\ events = <<>>
    /\ m = fetchModel(createOrUpdateNotifications(Fresh))
    /\ left = [writes |-> MaxWrites, calls |-> MaxCalls, outages |-> MaxOutages]
    /\ exposed = {}

\* Another client creates, updates or removes an object.
Write(u, content) ==
    /\ left.writes > 0 /\ left' = [left EXCEPT !.writes = @ - 1]
    /\ Home[u] \in online /\ content # table[u]
    /\ table' = [table EXCEPT ![u] = content]
    /\ events' = Append(events, [kind |-> "object", uuid |-> u, content |-> content,
                                 action |-> CASE table[u] = 0 -> "create"
                                              [] table[u] # 0 /\ content = 0 -> "remove"
                                              [] OTHER -> "update"])
    /\ UNCHANGED <<online, m, exposed>>

Availability(p) == [kind |-> "partition", p |-> p, available |-> p \in online']

Outage(p) ==
    /\ left.outages > 0 /\ left' = [left EXCEPT !.outages = @ - 1]
    /\ online' = IF p \in online THEN online \ {p} ELSE online \cup {p}
    /\ events' = Append(events, Availability(p))
    /\ UNCHANGED <<table, m, exposed>>

Slice(s, offset, count) == SubSeq(s, offset + 1, Min({offset + count, Len(s)}))

Result(r) == Slice(Ordered(KeysIn(table, {r.p})), r.offset, r.limit)

\* What the model has read of the partition is not what the daemon goes on from.
Moved(r) ==
    LET ours == Ordered(InPartition(m.keys, r.p))
    IN CASE r.kind = "keys" -> ours # Slice(Ordered(KeysIn(table, {r.p})), 0, r.offset)
         [] r.kind = "values" -> Rows(Range(Result(r))) # Rows(Range(Slice(ours, r.offset, r.limit)))
         [] OTHER -> FALSE

\* The daemon answers the request in flight.
Answer ==
    /\ m.requests # <<>>
    /\ \E r \in {Head(m.requests)}, x \in {[m EXCEPT !.requests = Tail(@)]} :
          IF r.p \notin online THEN Becomes(x) /\ UNCHANGED exposed
          ELSE /\ CASE r.kind = "watch" -> Becomes([x EXCEPT !.watching[r.p] = TRUE])
                    [] r.kind = "index" -> Becomes(verifyIndexSpec(x, r.p))
                    [] r.kind = "keys" -> Becomes(fillKeys(x, Range(Result(r)), r.p))
                    [] r.kind = "values" ->
                           Becomes(fillData(x, [u \in {k[2] : k \in Range(Result(r))} |-> table[u]], r.p))
               /\ ExposeIf(IF Moved(r) THEN {"moved"} ELSE {})
    /\ UNCHANGED <<server, left>>

_q_notificationsAvailable ==
    /\ events # <<>> /\ Head(events).kind = "object"
    /\ events' = Tail(events)
    /\ \E n \in {Head(events)} :
          IF ~m.watching[Home[n.uuid]] THEN UNCHANGED m
          ELSE IF m.state = "Querying" THEN Becomes([m EXCEPT !.pending = Append(@, n)])
          ELSE Becomes(sendNotification(SendPending(m), n))
    /\ UNCHANGED <<table, online, left, exposed>>

_q_partitionWatcherNotificationsAvailable ==
    /\ events # <<>> /\ Head(events).kind = "partition"
    /\ events' = Tail(events)
    /\ \E n \in {Head(events)} :
          \E known \in {IF n.available THEN m.known \cup {n.p} ELSE m.known \ {n.p}} :
              IF known = m.known \/ ~m.hasQuery
              THEN Becomes([m EXCEPT !.known = known]) /\ UNCHANGED exposed
              ELSE /\ Becomes(fetchModel(createOrUpdateNotifications([m EXCEPT !.known = known])))
                   /\ ExposeIf(LeftBehind)
    /\ UNCHANGED <<table, online, left>>

\* The application.  It asks for the object of a row,
data(index) ==
    /\ Call
    /\ index < Cardinality(m.keys)
    /\ Becomes(getJsonObject(m, index))
    /\ UNCHANGED <<server, exposed>>

\* for new data in every object,
refreshItems ==
    /\ Call
    /\ m.keys # {}
    /\ Becomes(createObjectRequests([m EXCEPT !.resetModel = TRUE, !.pages = <<>>],
                                    0, Min({maxItems, Cardinality(m.keys)})))
    /\ ExposeIf(IF \E i \in DOMAIN m.requests : m.requests[i].kind = "keys" THEN {"refreshed"} ELSE {})
    /\ UNCHANGED server

\* for another query, bindings or order,
setQuery ==
    /\ Call
    /\ Becomes(fetchModel(createOrUpdateNotifications([m EXCEPT !.hasQuery = TRUE])))
    /\ ExposeIf(LeftBehind)
    /\ UNCHANGED server

\* for a cache of another size, or for nothing.
setCacheSize ==
    /\ Call
    /\ m.hasQuery
    /\ Becomes(fetchModel(m))
    /\ ExposeIf(LeftBehind)
    /\ UNCHANGED server

clearQuery ==
    /\ Call
    /\ m.hasQuery
    /\ Becomes(reset([m EXCEPT !.hasQuery = FALSE]))
    /\ ExposeIf(LeftBehind \ {"cached"})
    /\ UNCHANGED server

Works ==
    /\ Followed
    /\ Answer \/ _q_notificationsAvailable \/ _q_partitionWatcherNotificationsAvailable

Next ==
    \/ Works
    \/ /\ Followed
       /\ \/ \E u \in Uuid, content \in Content \cup {0} : Write(u, content)
          \/ \E p \in Partition : Outage(p)
          \/ \E index \in 0..Cardinality(Uuid) - 1 : data(index)
          \/ refreshItems \/ setQuery \/ setCacheSize \/ clearQuery

\* Nothing is under way.
AtRest == m.requests = <<>> /\ events = <<>>

\* Weak fairness of Works, which is enabled unless the model is at rest.
Fairness == []<>(AtRest \/ ~Followed) \/ []<><<Works>>_vars

Spec == Init /\ [][Next]_vars /\ Fairness

-----------------------------------------------------------------------------
(***************************************************************************)
(* Properties.                                                             *)
(***************************************************************************)
\* At rest, after any writes, outages and calls that came while keys and
\* objects were read, the model has exactly the rows of the query's result,
\* each at the value of its object now (fillKeys(), pendingNotifications,
\* addItem(), updateItem(), deleteItem()).
RowsFollow ==
    AtRest /\ m.hasQuery /\ m.known # {} /\ exposed \cap {"moved", "pending"} = {} =>
        /\ m.state = "Ready" /\ m.pending = <<>>
        /\ m.keys = KeysIn(table, online)
        /\ \A u \in Uuid : m.sortValue[u] = IF table[u] = 0 \/ Home[u] \notin online THEN NoValue
                                            ELSE IndexValue[table[u]]

\* At rest data() of a row returns its object as it is in the daemon, or the
\* request for it is sent: never an older object, that of another row, or
\* nothing for ever (getJsonObject(), and the pages and the row asked for last
\* that have to move with the rows).
ObjectsFollow ==
    AtRest /\ m.state = "Ready" /\ exposed = {} =>
        \A index \in 0..Cardinality(m.keys) - 1 :
            LET y == getJsonObject(m, index)
            IN IF y.last.index = index THEN y.last.object = table[Rows(m.keys)[index + 1]]
               ELSE y.state = "Querying"

\* The rows of the model follow the daemon, and so does what data() returns of
\* them.
ModelFollows == RowsFollow /\ ObjectsFollow

\* The model comes to rest, and to Ready if it has a query and a partition:
\* no load waits for an answer that nobody will send (fillData(), requestQueue).
Settles == <>[](Followed => AtRest /\ (m.hasQuery /\ m.known # {} => m.state = "Ready"))
=============================================================================
