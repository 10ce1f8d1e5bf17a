------------------------------ MODULE DBServer ------------------------------
(***************************************************************************)
(* The daemon around its partitions: DBServer with the definitions of      *)
(* partitions that it reads at the start and at each SIGHUP, the records   *)
(* of them that it keeps in the ephemeral partition for the clients, the   *)
(* watchers of each connection, which are removed, closed and opened with  *)
(* their partition, and the Partition object of the QML import, which      *)
(* follows the record of its partition from the other end of a connection. *)
(*                                                                         *)
(* What a client asks is answered in the step in which the daemon takes    *)
(* it; notifications of the ephemeral partition wait in the event loop.    *)
(***************************************************************************)
EXTENDS Naturals, FiniteSets, Sequences, SequencesExt, Functions

CONSTANTS
    Name,              \* of partitions
    Made,              \* the name of the partition made to be the default, "default"
    Config,            \* what the files of definitions may say: sequences of them
    Client,            \* the clients, a connection each at a time
    Watcher,           \* the _uuids of the Notification objects, by client
    partitionWatcher,  \* the one of each client's Partition object
    asked,             \* the name of that object, "" for the default partition
    Request,           \* what clients write to the ephemeral partition: sequences of objects
    MaxLoads,          \* bound: times the definitions are read
    MaxRequests,       \* bound: requests, next to those of the Partition objects
    Avoided            \* bound: the exposures left out, see Exposure

\* Situations in which the code gives up what is said of it below.
Exposure == {
    "duplicate",    \* the second definition of a name says that it is the default
    "redefined",    \* a partition becomes removable, or ceases to be, in one load or by the next
    "forged",       \* a client writes an object with the _uuid of a Partition record
    "untyped",      \* a client writes one of another type over a Notification object
    "foreign",      \* a client writes the Notification object of another
    "partial",      \* a batch fails when some of its objects have been stored
    "unnamed",      \* the default partition goes, watched without being named
    "reconnected",  \* a Partition record changed while a client had no connection
    "broken"}       \* a connection broke before the query of the Partition object was answered

Ephemeral == "Ephemeral"
Definition == [name : Name, removable : BOOLEAN, default : BOOLEAN]
Owned == UNION {Watcher[c] : c \in Client}

ASSUME DBServerAssumption ==
    /\ Made \in Name /\ {"", Ephemeral} \cap Name = {}
    /\ Config \subseteq Seq(Definition)
    /\ DOMAIN Watcher = Client /\ \A c, e \in Client : c # e => Watcher[c] \cap Watcher[e] = {}
    /\ \A c \in Client : partitionWatcher[c] \in Watcher[c] /\ asked[c] \in Name \cup {""}
    /\ {MaxLoads, MaxRequests} \subseteq Nat /\ Avoided \subseteq Exposure

VARIABLES
    d,      \* the daemon
    seen,   \* the Partition object of each client
    ended,  \* bound and history: the clients whose connection broke, once each
    left    \* bound: what may still come

vars == <<d, seen, ended, left>>

Gone == "gone"    \* a partition that has been deleted
Avoids(situation, happens) == happens => situation \notin Avoided

Except(f, S) == Restrict(f, DOMAIN f \ S)
With(f, x, value) == (x :> value) @@ f

-----------------------------------------------------------------------------
(***************************************************************************)
(* Objects of the ephemeral partition.  of is the partition a record is    *)
(* about or a Notification watches, "" if it does not say.  Every operator *)
(* from here on leads from one state x of the daemon to the next.          *)
(***************************************************************************)
Partition(name) == <<"Partition", name>>
Notification(w) == <<"Notification", w>>

Record(name, available, isDefault) ==
    [uuid |-> Partition(name), type |-> "Partition", of |-> name,
     available |-> available, default |-> isDefault, deleted |-> FALSE]
Watch(w, name) ==
    [uuid |-> Notification(w), type |-> "Notification", of |-> name,
     available |-> FALSE, default |-> FALSE, deleted |-> FALSE]
Deleted(object) == [object EXCEPT !.deleted = TRUE]
NoObject == [uuid |-> <<>>, type |-> "", of |-> "",
             available |-> FALSE, default |-> FALSE, deleted |-> FALSE]

get(x, uuid) == IF uuid \in DOMAIN x.objects THEN x.objects[uuid] ELSE NoObject

UpdateObject(acc, object) ==
    IF ~acc.ok \/ (object.deleted /\ object.uuid \notin DOMAIN acc.x.objects)
    THEN [acc EXCEPT !.ok = FALSE]
    ELSE [acc EXCEPT
            !.x.objects = IF object.deleted THEN Except(@, {object.uuid})
                          ELSE With(@, object.uuid, object),
            !.updated = Append(@, [old |-> get(acc.x, object.uuid), new |-> object])]

\* Of the updates only those of Partition records are kept: see objectsUpdated.
IsOfRecord(update) == "Partition" \in {update.old.type, update.new.type}

\* One that cannot be removed ends the batch; what came before stays, untold.
updateObjects(x, objects) ==
    LET acc == FoldLeft(UpdateObject, [x |-> x, updated |-> <<>>, ok |-> TRUE], objects)
    IN [acc EXCEPT !.x.events = IF acc.ok THEN @ \o SelectSeq(acc.updated, IsOfRecord) ELSE @]

updatePartitionDefinition(x, name, remove, isDefault) ==
    LET record == Record(name, x.partitions[name].open, isDefault)
    IN updateObjects(x, <<IF remove THEN Deleted(record) ELSE record>>).x

-----------------------------------------------------------------------------
(***************************************************************************)
(* Watchers: what each stream has, by the _uuid of the Notification object, *)
(* with the partition it points to, and where they are installed.          *)
(***************************************************************************)
Installed(name, c, w) == [in |-> name, client |-> c, watcher |-> w]

\* Takes it from its stream and deletes it; mKeyedNotifications holds a QPointer.
Delete(x, c, w) ==
    [x EXCEPT !.streams[c] = Except(@, {w}),
              !.installed = {i \in @ : ~(i.client = c /\ i.watcher = w)}]

removeNotification(x, c, w) == IF w \in DOMAIN x.streams[c] THEN Delete(x, c, w) ELSE x

\* findPartition(), "" for the default.
createNotification(x, c, w, object) ==
    LET named == IF object.of = "" THEN x.default ELSE object.of
        name == IF named \in DOMAIN x.partitions THEN named ELSE Ephemeral
        isOpen == name = Ephemeral \/ x.partitions[name].open
    IN [x EXCEPT !.streams[c] = With(@, w, name),
                 !.installed = IF isOpen THEN @ \cup {Installed(name, c, w)} ELSE @]

validateNotification(x, object) ==
    LET name == IF object.of = "" THEN x.default ELSE object.of
    IN name = Ephemeral \/ (name \in DOMAIN x.partitions /\ x.partitions[name].open)

PointingTo(x, name) ==
    {i \in {Installed(name, c, w) : c \in Client, w \in Owned} :
        i.watcher \in DOMAIN x.streams[i.client] /\ x.streams[i.client][i.watcher] = name}

\* Mutant: what watches a partition is not installed again when it comes back.
NothingEnabled(x, name) == x

enableNotificationsByPartition(x, name) ==
    [x EXCEPT !.installed = @ \cup PointingTo(x, name)]

removeNotificationsByPartition(x, name) ==
    LET objects == {x.objects[u] : u \in DOMAIN x.objects}
        toRemove == {o \in objects : o.type = "Notification" /\ o.of = name}
        cleared == updateObjects(x, SetToSeq({Deleted(o) : o \in toRemove})).x
    IN FoldLeft(LAMBDA y, i : Delete(y, i.client, i.watcher), cleared,
                SetToSeq(PointingTo(x, name)))

close(x, name) ==
    [x EXCEPT !.partitions[name].open = FALSE, !.installed = {i \in @ : i.in # name}]

deletePartition(x, name) ==
    [close(x, name) EXCEPT
        !.partitions = Except(@, {name}),
        !.streams = [c \in Client |->
            [w \in DOMAIN @[c] |-> IF @[c][w] = name THEN Gone ELSE @[c][w]]]]

-----------------------------------------------------------------------------
(***************************************************************************)
(* The definitions.  A name counts once, the first default that is not     *)
(* removable is it; without one the first that is not removable is, or one *)
(* that is made.                                                           *)
(***************************************************************************)
AddDefinition(acc, definition) ==
    LET isDefault == definition.default /\ ~definition.removable /\ ~acc.defaultSpecified
        known == definition.name \in {acc.list[i].name : i \in DOMAIN acc.list}
    IN [list |-> IF known THEN acc.list
                 ELSE Append(acc.list, [definition EXCEPT !.default = isDefault]),
        defaultSpecified |-> acc.defaultSpecified \/ isDefault]

findPartitionDefinitions(config) ==
    LET read == FoldLeft(AddDefinition, [list |-> <<>>, defaultSpecified |-> FALSE], config)
        fixed == {i \in DOMAIN read.list : ~read.list[i].removable}
    IN CASE read.defaultSpecified -> read.list
         [] ~read.defaultSpecified /\ fixed # {} ->
                [read.list EXCEPT ![CHOOSE i \in fixed : \A j \in fixed : i <= j].default = TRUE]
         [] OTHER -> Append(read.list, [name |-> Made, removable |-> FALSE, default |-> TRUE])

Names(definitions) == {definitions[i].name : i \in DOMAIN definitions}

\* A removable partition whose file has gone, or is there again.
RefreshPartition(x, name, present) ==
    CASE x.partitions[name].open /\ ~present ->
             updatePartitionDefinition(close(x, name), name, FALSE, FALSE)
      [] ~x.partitions[name].open /\ present ->
             updatePartitionDefinition(
                 enableNotificationsByPartition(
                     [x EXCEPT !.partitions[name].open = TRUE], name), name, FALSE, FALSE)
      [] OTHER -> x

LoadPartition(acc, definition, media) ==
    LET name == definition.name
        isNew == name \notin DOMAIN acc.x.partitions \/ name \in acc.loaded
        present == name \in media \/ ~definition.removable
        rid == IF name \in acc.loaded THEN deletePartition(acc.x, name) ELSE acc.x
        new == [removable |-> definition.removable, open |-> present]
    IN [x |-> CASE isNew ->
                       updatePartitionDefinition(
                           [rid EXCEPT !.partitions = With(@, name, new)], name, FALSE, FALSE)
                [] ~isNew /\ definition.removable -> RefreshPartition(acc.x, name, present)
                [] OTHER -> acc.x,
        loaded |-> acc.loaded \cup {name}]

\* Mutant: the record of a partition that is no longer defined stays.
DropQuietly(x, name) ==
    deletePartition(removeNotificationsByPartition(
        [x EXCEPT !.default = IF @ = name THEN "" ELSE @], name), name)

DropPartition(x, name) ==
    LET forgotten == [x EXCEPT !.default = IF @ = name THEN "" ELSE @]
    IN deletePartition(removeNotificationsByPartition(
           updatePartitionDefinition(forgotten, name, TRUE, FALSE), name), name)

\* mPartitions["..."] of a name that is not there is a null pointer: no record.
ChooseDefault(x, definitions) ==
    LET flagged == {i \in DOMAIN definitions : definitions[i].default}
        name == definitions[CHOOSE i \in flagged : \A j \in flagged : i <= j].name
    IN IF x.default # "" \/ flagged = {} THEN x
       ELSE updatePartitionDefinition([x EXCEPT !.default = name], name, FALSE, TRUE)

loadPartitions(x, config, media) ==
    LET definitions == findPartitionDefinitions(config)
        loaded == FoldLeft(LAMBDA acc, def : LoadPartition(acc, def, media),
                           [x |-> x, loaded |-> {}], definitions)
        dropped == DOMAIN loaded.x.partitions \ Names(definitions)
    IN ChooseDefault(FoldLeft(DropPartition, loaded.x, SetToSeq(dropped)), definitions)

-----------------------------------------------------------------------------
(***************************************************************************)
(* A write of a client, and the events it is told of.                      *)
(***************************************************************************)
MayWrite(x, objects) ==
    \A i \in DOMAIN objects : ~objects[i].deleted =>
        /\ objects[i].type # "Partition"
        /\ objects[i].type = "Notification" => validateNotification(x, objects[i])

HandleNotification(x, c, object) ==
    LET w == object.uuid[2]
        removed == removeNotification(x, c, w)
    IN CASE object.type # "Notification" -> x
         [] object.type = "Notification" /\ object.deleted -> removed
         [] OTHER -> createNotification(removed, c, w, object)

processWrite(x, c, objects) ==
    LET result == updateObjects(x, objects)
    IN CASE ~MayWrite(x, objects) -> x
         [] MayWrite(x, objects) /\ ~result.ok -> result.x
         [] OTHER -> FoldLeft(LAMBDA y, object : HandleNotification(y, c, object),
                              result.x, objects)

Matches(c, object) ==
    object.type = "Partition" /\ IF asked[c] = "" THEN object.default ELSE object.of = asked[c]

StateOf(object) == IF object.available THEN "Online" ELSE "Offline"

\* Mutant: the object that a removal carries is taken as the record of today.
RemovalsAreUpdates(c, update, state) ==
    CASE Matches(c, update.new) -> StateOf(update.new)
      [] ~Matches(c, update.new) /\ Matches(c, update.old) -> StateOf(update.old)
      [] OTHER -> state

\* notifyIfMatches(), and what the Partition object makes of the notification.
notificationsAvailable(c, update, state) ==
    CASE Matches(c, update.new) /\ ~update.new.deleted -> StateOf(update.new)
      [] Matches(c, update.old) /\ (update.new.deleted \/ ~Matches(c, update.new)) -> "Offline"
      [] OTHER -> state

IsWatching(x, c) == Installed(Ephemeral, c, partitionWatcher[c]) \in x.installed

-----------------------------------------------------------------------------
Blank == [partitions |-> <<>>, default |-> "", objects |-> <<>>, events |-> <<>>,
          installed |-> {}, streams |-> [c \in Client |-> <<>>],
          connected |-> [c \in Client |-> TRUE]]

\* The answer to the query of the Partition object, sent behind its watcher.
None == [state |-> "None", queries |-> TRUE]

Removable(config) == {config[i].name : i \in {j \in DOMAIN config : config[j].removable}}

IsSound(x, config) ==
    LET definitions == findPartitionDefinitions(config)
        changed == {i \in DOMAIN definitions :
            /\ definitions[i].name \in DOMAIN x.partitions
            /\ definitions[i].removable # x.partitions[definitions[i].name].removable}
    IN /\ Avoids("duplicate", \A i \in DOMAIN definitions : ~definitions[i].default)
       /\ Avoids("redefined", changed # {} \/ Cardinality(Names(definitions)) < Len(definitions))
       /\ Avoids("unnamed", /\ x.default \notin Names(definitions)
                            /\ \E u \in DOMAIN x.objects :
                                   x.objects[u].type = "Notification" /\ x.objects[u].of = "")

Init ==
    /\ \E config \in Config : \E media \in SUBSET Removable(config) :
           /\ IsSound(Blank, config)
           /\ d = [loadPartitions(Blank, config, media) EXCEPT !.events = <<>>]
    /\ seen = [c \in Client |-> None]
    /\ ended = {}
    /\ left = [loads |-> MaxLoads, requests |-> MaxRequests]

\* SIGHUP.
Load(config, media) ==
    /\ left.loads > 0 /\ left' = [left EXCEPT !.loads = @ - 1]
    /\ IsSound(d, config)
    /\ d' = loadPartitions(d, config, media)
    /\ UNCHANGED <<seen, ended>>

\* A client writes.
Write(c, objects) ==
    LET type(i) == objects[i].type
        kind(i) == objects[i].uuid[1]
        result == updateObjects(d, objects)
    IN /\ left.requests > 0 /\ left' = [left EXCEPT !.requests = @ - 1]
       /\ d.connected[c]
       /\ Avoids("forged", \E i \in DOMAIN objects : kind(i) = "Partition")
       /\ Avoids("untyped", \E i \in DOMAIN objects :
                                kind(i) = "Notification" /\ type(i) # "Notification")
       /\ Avoids("foreign", \E i \in DOMAIN objects :
                                kind(i) = "Notification" /\ objects[i].uuid[2] \notin Watcher[c])
       /\ Avoids("partial", ~result.ok /\ result.updated # <<>> /\ MayWrite(d, objects))
       /\ d' = processWrite(d, c, objects)
       /\ UNCHANGED <<seen, ended>>

\* The watcher of the Partition object, at first and after each connection.
WatchPartition(c) ==
    /\ d.connected[c] /\ partitionWatcher[c] \notin DOMAIN d.streams[c]
    /\ d' = processWrite(d, c, <<Watch(partitionWatcher[c], Ephemeral)>>)
    /\ UNCHANGED <<seen, ended, left>>

\* Its query is answered: partitionQueryFinished().
QueryPartition(c) ==
    LET found == {u \in DOMAIN d.objects : Matches(c, d.objects[u])}
    IN /\ d.connected[c] /\ IsWatching(d, c) /\ seen[c].queries
       /\ \/ found = {} /\ seen' = [seen EXCEPT ![c].queries = FALSE]
          \/ \E u \in found :
                seen' = [seen EXCEPT ![c] = [state |-> StateOf(d.objects[u]), queries |-> FALSE]]
       /\ UNCHANGED <<d, ended, left>>

\* The event loop of the daemon: all that was posted, before it looks at sockets again.
objectsUpdated ==
    LET After(c, state) == FoldLeft(LAMBDA s, u : notificationsAvailable(c, u, s), state, d.events)
    IN /\ d.events # <<>> /\ d' = [d EXCEPT !.events = <<>>]
       /\ Avoids("reconnected", \E c \in Client :
              /\ ~IsWatching(d, c) /\ ~seen[c].queries
              /\ \E i \in DOMAIN d.events :
                     Matches(c, d.events[i].old) \/ Matches(c, d.events[i].new))
       /\ seen' = [c \in Client |->
              IF IsWatching(d, c) THEN [seen[c] EXCEPT !.state = After(c, @)] ELSE seen[c]]
       /\ UNCHANGED <<ended, left>>

\* removeConnection(); an answer that is missed is an error, partitionQueryError().
removeConnection(c) ==
    LET asks == IsWatching(d, c) /\ seen[c].queries
    IN /\ d.connected[c] /\ c \notin ended /\ ended' = ended \cup {c}
       /\ Avoids("broken", asks)
       /\ d' = [d EXCEPT !.connected[c] = FALSE, !.streams[c] = <<>>,
                         !.installed = {i \in @ : i.client # c}]
       /\ seen' = [seen EXCEPT ![c] = IF asks THEN [state |-> "Error", queries |-> FALSE] ELSE @]
       /\ UNCHANGED left

handleConnection(c) ==
    /\ ~d.connected[c] /\ d' = [d EXCEPT !.connected[c] = TRUE]
    /\ UNCHANGED <<seen, ended, left>>

Next ==
    \/ \E config \in Config : \E media \in SUBSET Removable(config) : Load(config, media)
    \/ \E c \in Client, objects \in Request : Write(c, objects)
    \/ \E c \in Client : WatchPartition(c)
    \/ \E c \in Client : QueryPartition(c)
    \/ objectsUpdated
    \/ \E c \in Client : removeConnection(c)
    \/ \E c \in Client : handleConnection(c)

Spec == Init /\ [][Next]_vars

-----------------------------------------------------------------------------
(***************************************************************************)
(* Properties.                                                             *)
(***************************************************************************)
\* The Partition records of the ephemeral partition are those of the partitions that
\* there are, say of each whether it is open, and name as the default the one that
\* the daemon uses for requests without a partition, which is open and not removable.
RecordsAreTrue ==
    /\ {u \in DOMAIN d.objects : d.objects[u].type = "Partition"}
           = {Partition(name) : name \in DOMAIN d.partitions}
    /\ \A name \in DOMAIN d.partitions :
           get(d, Partition(name)) = Record(name, d.partitions[name].open, name = d.default)
    /\ d.default \in DOMAIN d.partitions
    /\ d.partitions[d.default] = [removable |-> FALSE, open |-> TRUE]

\* Every watcher of a connection points to a partition that exists and is installed
\* there, if it is open, and nowhere else; it has a Notification object that names the
\* partition; and of a connection that never broke there is no other such object.
WatchersAreKept ==
    LET Has(c, w) == w \in DOMAIN d.streams[c]
        Target(c, w) == d.streams[c][w]
        Object(w) == get(d, Notification(w))
    IN /\ d.installed = {i \in {Installed(name, c, w) : name \in Name \cup {Ephemeral},
                                                        c \in Client, w \in Owned} :
              /\ Has(i.client, i.watcher) /\ Target(i.client, i.watcher) = i.in
              /\ i.in = Ephemeral \/ d.partitions[i.in].open}
       /\ \A c \in Client : \A w \in DOMAIN d.streams[c] :
              /\ Target(c, w) \in DOMAIN d.partitions \cup {Ephemeral}
              /\ Object(w).type = "Notification"
              /\ Object(w).of \in {Target(c, w)} \cup IF Target(c, w) = d.default THEN {""} ELSE {}
       /\ \A c \in Client \ ended, w \in Owned :
              w \in Watcher[c] /\ Object(w).type = "Notification" => Has(c, w)

\* When nothing waits in the event loop, the Partition object of a client that is
\* connected and has had its answer is online exactly if its partition is available.
PartitionsAreSeen ==
    \A c \in Client :
        d.events = <<>> /\ IsWatching(d, c) /\ ~seen[c].queries =>
            (seen[c].state = "Online" <=>
                \E u \in DOMAIN d.objects : Matches(c, d.objects[u]) /\ d.objects[u].available)
=============================================================================
