---------------------------- MODULE QmlPartition ----------------------------
(***************************************************************************)
(* The Partition, Notification and Query objects of the QML import         *)
(* (src/imports/jsondb): callbacks of find(), create(), update() and       *)
(* remove(), watchers that follow the properties of their objects, and the *)
(* state of a partition, kept by a query and a watcher on the Partition    *)
(* objects of the ephemeral partition.                                     *)
(*                                                                         *)
(* They share the connection of their thread.  It is taken as connected:   *)
(* what it does when it breaks is in the module QJsonDbConnection.  The    *)
(* daemon answers a request in one step with what the objects do with the  *)
(* answer; its notifications arrive later.                                 *)
(***************************************************************************)
EXTENDS Naturals, FiniteSets, Sequences, SequencesExt

CONSTANTS
    Name,        \* the partitions of the daemon
    Default,     \* the one that is meant by an empty name
    FirstName,   \* the names of the JsonDbPartition objects to begin with
    Query,       \* the queries of notifications
    Action,      \* the actions of notifications
    MaxSteps,    \* bound: calls of the application, each two steps, partitions that
                 \*   come and go, and writes to them, each one step
    Avoided      \* bound: the exposures left out, see Exposure

\* Situations in which the code gives up what is said of it below.
Exposure == {
    "dropped",   \* a watcher is deleted before its removal could be sent
    "emptied",   \* query or actions of a registered notification are made empty
    "orphaned",  \* its partition object is destroyed
    "renamed",   \* it is registered anew because a partition object learns its name
    "outdated",  \* the answer a partition object asked for before it was named anew
    "refused",   \* a state query ended with an error
    "unasked",   \* find() without a query
    "left"}      \* the partition object is destroyed with callbacks waiting

ASSUME QmlAssumption ==
    /\ Default \in Name /\ "" \notin Name \cup Query
    /\ FirstName \in Seq(Name \cup {""})
    /\ MaxSteps \in Nat /\ Avoided \subseteq Exposure

Partition == DOMAIN FirstName
None == 0
Notifier == Len(FirstName) + 1

VARIABLES
    x,          \* the objects of the application and their connection
    available,  \* the Partition objects of the daemon
    accepted,   \* the watchers it took a Notification of, and was not told to remove
    forgotten,  \* those whose Notification it deleted with its partition
    events,     \* its notifications on their way
    owed,       \* history: events the notification object has to hear
    stray,      \* history: it heard one nobody asked for
    left        \* bound: what may still come

vars == <<x, available, accepted, forgotten, events, owed, stray, left>>

\* The watchers the daemon has a Notification of.
registered == accepted \ forgotten

NoWatcher == [id |-> 0, of |-> None, name |-> "", query |-> "", actions |-> {}]
Resolved(name) == IF name = "" THEN Default ELSE name
Exposed(c, e) == [c EXCEPT !.exposed = @ \cup {e}]

-----------------------------------------------------------------------------
(***************************************************************************)
(* The connection.  Every operator from here on leads from one state of    *)
(* the objects to the next.                                                *)
(***************************************************************************)
Request(kind, of, name, watcher) ==
    [id |-> 0, kind |-> kind, of |-> of, name |-> name, watcher |-> watcher]
Internal(r) == r.watcher # NoWatcher

handleRequestQueue(c) ==
    IF c.current # None \/ c.queue = <<>> THEN c
    ELSE [c EXCEPT !.current = Head(c.queue).id, !.wire = Append(@, Head(c.queue)),
                   !.queue = Tail(@)]

Inserted(queue, r) ==
    IF ~Internal(r) THEN Append(queue, r)
    ELSE LET before == {i \in DOMAIN queue : \A j \in 1..i : Internal(queue[j])}
         IN InsertAt(queue, Cardinality(before) + 1, r)

send(c, request) ==
    LET id == c.lastId + 1
    IN handleRequestQueue([c EXCEPT !.lastId = id, !.queue = Inserted(@, [request EXCEPT !.id = id])])

Pending(c) == {c.queue[i] : i \in DOMAIN c.queue}
                  \cup {r \in {c.wire[i] : i \in DOMAIN c.wire} : r.id = c.current}

\* The queue without some of its requests.
Without(queue, gone) ==
    LET kept[n \in 0 .. Len(queue)] ==
            IF n = 0 THEN <<>>
            ELSE IF queue[n] \in gone THEN kept[n - 1] ELSE Append(kept[n - 1], queue[n])
    IN kept[Len(queue)]

addWatcher(c, w) == send([c EXCEPT !.watchers = @ \cup {w}], Request("add", w.of, w.name, w))

\* Mutant of removeWatcher: the daemon is not told.
ForgetWatcher(c, w) == [c EXCEPT !.watchers = @ \ {w}]

removeWatcher(c, w) ==
    IF w \notin c.watchers THEN c
    ELSE send([c EXCEPT !.watchers = @ \ {w}], Request("remove", w.of, w.name, w))

\* A watcher is the parent of its requests: they go with it, also the one
\* that should take it from the daemon.
DeleteWatcher(c, w) ==
    LET own == {r \in Pending(c) : r.watcher = w}
        unsent == {r \in own : r.id # c.current}
        stays == /\ w \in c.watchers \/ \E r \in unsent : r.kind = "remove"
                 /\ \A r \in unsent : r.kind # "add"
        gone == [c EXCEPT !.watchers = @ \ {w},
                          !.queue = Without(@, own),
                          !.current = IF \E r \in own : r.id = @ THEN None ELSE @]
    IN IF w = NoWatcher THEN c ELSE IF stays THEN Exposed(gone, "dropped") ELSE gone

-----------------------------------------------------------------------------
(***************************************************************************)
(* JsonDbNotify.                                                           *)
(***************************************************************************)
parametersReady(n) == n.query # "" /\ n.actions # {} /\ n.partition # None

removeNotification(c) ==
    LET p == c.notify.partition
        w == c.notify.watcher
    IN IF p = None \/ w \notin c.partition[p].watchers THEN c
       ELSE removeWatcher([c EXCEPT !.partition[p].watchers = @ \ {w}], w)

initNotify(c) ==
    LET n == c.notify
        rid == DeleteWatcher(removeNotification(c), n.watcher)
        w == [id |-> rid.lastId + 1, of |-> Notifier, name |-> rid.partition[n.partition].name,
              query |-> n.query, actions |-> n.actions]
    IN CASE ~parametersReady(n) ->
              LET quiet == [c EXCEPT !.notify.status = "Null"]
              IN IF n.watcher \in c.watchers THEN Exposed(quiet, "emptied") ELSE quiet
         [] parametersReady(n) /\ ~n.enabled -> c
         [] OTHER ->
              addWatcher([rid EXCEPT !.notify.watcher = w, !.notify.status = "Registering",
                                     !.partition[n.partition].watchers = @ \cup {w}], w)

\* Mutant of setEnabled: the watcher stays registered.
OnlyMarked(c, enabled) == [c EXCEPT !.notify.enabled = enabled]

setEnabled(c, enabled) ==
    LET n == c.notify
        off == IF n.enabled /\ parametersReady(n)
               THEN [removeNotification(c) EXCEPT !.notify.status = "Null"] ELSE c
        set == [off EXCEPT !.notify.enabled = enabled]
    IN IF n.enabled = enabled THEN c ELSE IF enabled THEN initNotify(set) ELSE set

setPartition(c, p) ==
    IF c.notify.partition = p THEN c
    ELSE initNotify([removeNotification(c) EXCEPT !.notify.partition = p,
                                                  !.notify.follows = @ \cup {p}])

\* nameChanged of every partition the notification ever had.  Not modelled: one
\* that was set twice is followed twice.
nameChanged(c, p) == IF p \in c.notify.follows THEN initNotify(c) ELSE c

\* ~JsonDbNotify()
DeleteNotify(c) ==
    LET n == c.notify
        removed == IF n.enabled THEN removeNotification(c) ELSE c
    IN [DeleteWatcher(removed, n.watcher) EXCEPT
            !.notify = [n EXCEPT !.alive = FALSE, !.watcher = NoWatcher, !.partition = None,
                                 !.follows = {}, !.query = "", !.actions = {}, !.status = "Null"]]

\* onStatusChanged()
StatusOf(c, w, status) == IF c.notify.watcher = w THEN [c EXCEPT !.notify.status = status] ELSE c

-----------------------------------------------------------------------------
(***************************************************************************)
(* JsonDbPartition.                                                        *)
(***************************************************************************)
init(c, p) ==
    LET w == [NoWatcher EXCEPT !.id = c.lastId + 1, !.of = p, !.name = c.partition[p].name]
        added == addWatcher([c EXCEPT !.partition[p].partitionWatcher = w], w)
    IN send(added, Request("state", p, w.name, NoWatcher))

Unwatched(c, p) ==
    LET w == c.partition[p].partitionWatcher IN DeleteWatcher(removeWatcher(c, w), w)

setName(c, p, name) ==
    IF name = c.partition[p].name THEN c
    ELSE nameChanged(init([Unwatched(c, p) EXCEPT !.partition[p].state = "None",
                                                  !.partition[p].name = name], p), p)

OwnName(c, p, name) == c.partition[p].name \in {"", name}

\* What the query for the state of a partition found.
partitionQueryFinished(c, p, name, found) ==
    LET taken == [c EXCEPT !.partition[p].state = found]
        known == IF \E r \in Pending(c) : r.kind = "state" /\ r.of = p
                 THEN Exposed(taken, "outdated") ELSE taken
    IN CASE ~c.partition[p].alive \/ found = "unknown" \/ ~OwnName(c, p, name) -> c
         [] c.partition[p].alive /\ found # "unknown" /\ c.partition[p].name = "" ->
              LET named == nameChanged([known EXCEPT !.partition[p].name = name], p)
              IN IF c.notify.watcher # named.notify.watcher THEN Exposed(named, "renamed") ELSE named
         [] OTHER -> known

\* Mutant of notificationsAvailable: a removed partition stays as it was.
IgnoresRemoval(c, p, found) ==
    IF found = "unknown" THEN c ELSE [c EXCEPT !.partition[p].state = found]

notificationsAvailable(c, p, found) ==
    [c EXCEPT !.partition[p].state = IF found = "unknown" THEN "offline" ELSE found]

\* The QPointers of the objects that use it become null.
DeletePartition(c, p) ==
    LET gone == [Unwatched(c, p) EXCEPT
                    !.partition[p].alive = FALSE,
                    !.writeCallbacks = {r \in @ : r.of # p}, !.findCallbacks = {r \in @ : r.of # p},
                    !.notify.partition = IF @ = p THEN None ELSE @,
                    !.query.partition = IF @ = p THEN None ELSE @]
        waiting == \E r \in c.writeCallbacks \cup c.findCallbacks : r.of = p
        orphans == c.notify.partition = p /\ c.notify.watcher \in c.watchers
        one == IF waiting THEN Exposed(gone, "left") ELSE gone
    IN IF orphans THEN Exposed(one, "orphaned") ELSE one

\* A write request; without a callback nothing is called.
Write(c, p, callback) ==
    LET sent == send(c, Request("write", p, "", NoWatcher))
    IN IF callback THEN [sent EXCEPT !.writeCallbacks = @ \cup {[id |-> sent.lastId, of |-> p]},
                                     !.promised = @ \cup {sent.lastId}]
       ELSE sent

create(c, p, callback) == Write(c, p, callback)
update(c, p, callback) == Write(c, p, callback)
remove(c, p, callback) == Write(c, p, callback)

\* A query object whose query is set first makes itself a default partition,
\* which is deleted when it gets the one it is for.
WithQuery(c) ==
    LET w == [NoWatcher EXCEPT !.id = c.lastId + 1]
        asked == send(addWatcher(c, w), Request("nothing", None, "", NoWatcher))
    IN DeleteWatcher(removeWatcher(asked, w), w)

find(c, p, query, callback) ==
    LET made == WithQuery(c)
        sent == send(made, Request("find", p, "", NoWatcher))
        waiting(d, id) ==
            IF callback THEN [d EXCEPT !.findCallbacks = @ \cup {[id |-> id, of |-> p]},
                                       !.promised = @ \cup {id}] ELSE d
    IN IF query = "" THEN Exposed(waiting(made, None), "unasked") ELSE waiting(sent, sent.lastId)

createNotification(c, p, query) ==
    initNotify([c EXCEPT !.notify = [alive |-> TRUE, partition |-> p, query |-> query, actions |-> Action,
                                     enabled |-> TRUE, status |-> "Null", watcher |-> NoWatcher,
                                     follows |-> {p}]])

-----------------------------------------------------------------------------
(***************************************************************************)
(* JsonDbQueryObject.                                                      *)
(***************************************************************************)
createQuery(c, p) ==
    [WithQuery(c) EXCEPT !.query = [alive |-> TRUE, partition |-> p, status |-> "Null", request |-> 0]]

\* start() deletes the request under way.
start(c) ==
    LET old == c.query.request
        rid == [c EXCEPT !.queue = Without(@, {r \in Pending(c) : r.id = old}),
                         !.current = IF @ = old THEN None ELSE @]
        sent == send(rid, Request("query", c.query.partition, "", NoWatcher))
    IN IF c.query.partition = None THEN c
       ELSE [sent EXCEPT !.query.status = "Loading", !.query.request = sent.lastId]

-----------------------------------------------------------------------------
(***************************************************************************)
(* Answers.                                                                *)
(***************************************************************************)
\* A callback is called, with the results or with the error, and forgotten.
Called(c, id, ok) == [c EXCEPT !.called = Append(@, [id |-> id, ok |-> ok])]

call(c, id) == [Called(c, id, TRUE) EXCEPT !.writeCallbacks = {r \in @ : r.id # id}]
callErrorCallback(c, id) == [Called(c, id, FALSE) EXCEPT !.writeCallbacks = {r \in @ : r.id # id}]

requestFinished(c, id) == IF \E r \in c.writeCallbacks : r.id = id THEN call(c, id) ELSE c
requestError(c, id) == IF \E r \in c.writeCallbacks : r.id = id THEN callErrorCallback(c, id) ELSE c

\* Mutant of queryFinished: the callback stays.
StaysForOthers(c, id) ==
    IF \E r \in c.findCallbacks : r.id = id THEN Called(c, id, TRUE) ELSE c

queryFinished(c, id) ==
    IF \E r \in c.findCallbacks : r.id = id
    THEN [Called(c, id, TRUE) EXCEPT !.findCallbacks = {r \in @ : r.id # id}] ELSE c

queryStatusChanged(c, id) ==
    IF \E r \in c.findCallbacks : r.id = id
    THEN [Called(c, id, FALSE) EXCEPT !.findCallbacks = {r \in @ : r.id # id}] ELSE c

\* partitionQueryError() does not ask what the answer was to.
partitionQueryError(c, p) ==
    IF c.partition[p].alive THEN Exposed([c EXCEPT !.partition[p].state = "Error"], "refused") ELSE c

Handled(c, r, ok) ==
    CASE r.kind = "add" /\ r.watcher \in c.watchers ->
            StatusOf(c, r.watcher, IF ok THEN "Ready" ELSE "Error")
      [] r.kind = "remove" /\ ok -> StatusOf(c, r.watcher, "Null")
      [] r.kind = "state" /\ ok -> 
            partitionQueryFinished(c, r.of, Resolved(r.name), available[Resolved(r.name)])
      [] r.kind = "state" /\ ~ok -> partitionQueryError(c, r.of)
      [] r.kind = "write" -> IF ok THEN requestFinished(c, r.id) ELSE requestError(c, r.id)
      [] r.kind = "find" -> IF ok THEN queryFinished(c, r.id) ELSE queryStatusChanged(c, r.id)
      [] r.kind = "query" /\ c.query.request = r.id ->
            [c EXCEPT !.query.status = IF ok THEN "Ready" ELSE "Error"]
      [] OTHER -> c

\* _q_onReceivedObject(): an answer to a request that is no more starts the next.
Answered(c, r, ok) ==
    LET read == [c EXCEPT !.wire = Tail(@)]
    IN IF r.id = c.current
       THEN handleRequestQueue(Handled([read EXCEPT !.current = None], r, ok))
       ELSE handleRequestQueue(read)

-----------------------------------------------------------------------------
(***************************************************************************)
(* Steps.                                                                  *)
(***************************************************************************)
NoObjects ==
    [partition |-> [p \in Partition |-> [name |-> FirstName[p], state |-> "None", alive |-> TRUE,
                                         partitionWatcher |-> NoWatcher, watchers |-> {}]],
     notify |-> [alive |-> FALSE, partition |-> None, query |-> "", actions |-> {}, enabled |-> TRUE,
                 status |-> "Null", watcher |-> NoWatcher, follows |-> {}],
     query |-> [alive |-> FALSE, partition |-> None, status |-> "Null", request |-> 0],
     writeCallbacks |-> {}, findCallbacks |-> {}, called |-> <<>>, promised |-> {},
     watchers |-> {}, queue |-> <<>>, wire |-> <<>>, current |-> None, lastId |-> 0, exposed |-> {}]

\* The partition objects, one after another.
Made ==
    LET made[n \in 0 .. Len(FirstName)] == IF n = 0 THEN NoObjects ELSE init(made[n - 1], n)
    IN made[Len(FirstName)]

Init ==
    /\ \/ x = Made
       \/ \E p \in Partition, query \in Query : x = createNotification(Made, p, query)
    /\ available \in [Name -> {"online"}]
    /\ accepted = {} /\ forgotten = {} /\ events = <<>>
    /\ owed = 0 /\ stray = FALSE
    /\ left = MaxSteps

Becomes(c) ==
    /\ c.exposed \cap Avoided = {}
    /\ x' = c

\* A call of the application.  A notification that it sets anew begins to hear
\* anew.
Call(c) ==
    /\ left >= 2 /\ left' = left - 2
    /\ Becomes(c)
    /\ owed' = IF c.notify.watcher = x.notify.watcher /\ c.notify.enabled = x.notify.enabled
               THEN owed ELSE 0
    /\ UNCHANGED <<available, accepted, forgotten, events, stray>>

Alive(p) == x.partition[p].alive

PartitionCall ==
    \E p \in Partition :
        /\ Alive(p)
        /\ \/ \E name \in Name : Call(setName(x, p, name))
           \/ \E callback \in BOOLEAN :
                \/ Call(create(x, p, callback))
                \/ Call(update(x, p, callback))
                \/ Call(remove(x, p, callback))
           \/ \E query \in Query \cup {""}, callback \in BOOLEAN : Call(find(x, p, query, callback))
           \/ \E query \in Query : ~x.notify.alive /\ Call(createNotification(x, p, query))
           \/ Call(createQuery(x, p))
           \/ Call(DeletePartition(x, p))

NotifyCall ==
    /\ x.notify.alive
    /\ \/ \E query \in Query \cup {""} : Call(initNotify([x EXCEPT !.notify.query = query]))
       \/ \E actions \in SUBSET Action : Call(initNotify([x EXCEPT !.notify.actions = actions]))
       \/ \E p \in Partition : Alive(p) /\ Call(setPartition(x, p))
       \/ \E enabled \in BOOLEAN : Call(setEnabled(x, enabled))
       \/ Call(DeleteNotify(x))

\* Not modelled: a query started for the first time when its partition is gone
\* makes itself a default partition.
QueryCall ==
    /\ x.query.alive /\ (x.query.partition # None \/ x.query.status # "Null")
    /\ Call(start(x))

\* What the daemon makes of a request.
Accepts(r) ==
    CASE r.kind = "add" -> r.watcher.of # Notifier \/ available[Resolved(r.watcher.name)] = "online"
      [] r.kind = "remove" -> r.watcher \in registered
      [] OTHER -> TRUE

Answer(ok) ==
    /\ x.wire # <<>>
    /\ LET r == Head(x.wire)
       IN /\ IF Internal(r) THEN ok = Accepts(r) ELSE TRUE
          /\ accepted' = CASE r.kind = "add" /\ ok -> accepted \cup {r.watcher}
                           [] r.kind = "remove" -> accepted \ {r.watcher}
                           [] OTHER -> accepted
          /\ Becomes(Answered(x, r, ok))
    /\ UNCHANGED <<available, forgotten, events, owed, stray, left>>

Event == left >= 1 /\ left' = left - 1

Notified(watchers, event) ==
    events \o SetToSeq({[watcher |-> w, event |-> event] : w \in watchers})

\* removeNotificationsByPartition(): the notifications of a partition that is not
\* defined any more are deleted, and no client is told.
Undefined(name) == {w \in registered : w.of = Notifier /\ Resolved(w.name) = name}

\* The Partition object of the daemon changes.  The default partition stays
\* defined: another one would take its place.
PartitionChanges(name, state) ==
    /\ available[name] # state
    /\ name = Default => state # "unknown"
    /\ available' = [available EXCEPT ![name] = state]
    /\ forgotten' = IF state = "unknown" THEN forgotten \cup Undefined(name) ELSE forgotten
    /\ events' = Notified({w \in registered : w.of # Notifier /\ Resolved(w.name) = name}, state)
    /\ Event
    /\ UNCHANGED <<x, accepted, owed, stray>>

Fits(w, name, query, action) ==
    Resolved(w.name) = name /\ w.query = query /\ action \in w.actions

Wanted(name, query, action) ==
    /\ x.notify.partition # None /\ x.notify.enabled
    /\ Fits([name |-> x.partition[x.notify.partition].name, query |-> x.notify.query,
             actions |-> x.notify.actions], name, query, action)

\* Another client's write.
ObjectChanges(name, query, action) ==
    /\ available[name] = "online"
    /\ events' = Notified({w \in registered : w.of = Notifier /\ Fits(w, name, query, action)},
                          [name |-> name, query |-> query, action |-> action])
    /\ owed' = IF /\ x.notify.status = "Ready" /\ x.notify.watcher \notin forgotten
                  /\ Wanted(name, query, action)
               THEN owed + 1 ELSE owed
    /\ Event
    /\ UNCHANGED <<x, available, accepted, forgotten, stray>>

\* onNotificationsAvailable()
Hear(event) ==
    /\ Becomes([x EXCEPT !.notify.status = "Ready"])
    /\ IF ~x.notify.enabled THEN UNCHANGED <<owed, stray>>
       ELSE /\ owed' = IF owed = 0 THEN 0 ELSE owed - 1
            /\ stray' = (stray \/ owed = 0 \/ ~Wanted(event.name, event.query, event.action))

Deliver ==
    /\ events # <<>>
    /\ events' = Tail(events)
    /\ LET w == Head(events).watcher
       IN CASE w \notin x.watchers -> UNCHANGED <<x, owed, stray>>
            [] w \in x.watchers /\ w.of = Notifier -> Hear(Head(events).event)
            [] OTHER -> /\ Becomes(notificationsAvailable(x, w.of, Head(events).event))
                        /\ UNCHANGED <<owed, stray>>
    /\ UNCHANGED <<available, accepted, forgotten, left>>

Next ==
    \/ PartitionCall \/ NotifyCall \/ QueryCall
    \/ \E ok \in BOOLEAN : Answer(ok)
    \/ Deliver
    \/ \E name \in Name, state \in {"unknown", "offline", "online"} : PartitionChanges(name, state)
    \/ \E name \in Name, query \in Query, action \in Action : ObjectChanges(name, query, action)

Spec == Init /\ [][Next]_vars

-----------------------------------------------------------------------------
(***************************************************************************)
(* Properties.                                                             *)
(***************************************************************************)
Waiting == {r.id : r \in Pending(x)}
Callbacks == x.writeCallbacks \cup x.findCallbacks
CalledIds == {x.called[i].id : i \in DOMAIN x.called}
Idle == x.wire = <<>> /\ x.queue = <<>>

\* "The callback will be called in case of failure or success"
\* (jsondbpartition.cpp:430): while one is kept its request is on the way, and
\* none is called twice; a query object is loading as long as its own request,
\* and not one it was started with before, is on the way.
AnswersArrive ==
    /\ \A id \in x.promised : id \in Waiting \/ id \in CalledIds
    /\ {r.id : r \in Callbacks} = x.promised \ CalledIds
    /\ Cardinality(CalledIds) = Len(x.called)
    /\ x.query.status = "Loading" <=> x.query.request \in Waiting

\* A notification object that says it is ready hears everything that is
\* written, until it is told otherwise or the definition of its partition goes,
\* which it is not told; and never what it is not asked for: of another
\* partition, of a query or an action it had before.
HearsWhatItAskedFor ==
    /\ ~stray
    /\ events = <<>> => owed = 0

\* A partition object knows the state of the partition it is named for once
\* nothing is on the way, however often it is renamed meanwhile, and shows none
\* that is not defined as if it were online.  It does not show it as the Error
\* that jsondbpartition.cpp:126 announces: its state is None or Offline then.
StateFollows ==
    Idle /\ events = <<>> =>
        \A p \in Partition : Alive(p) =>
            LET state == available[Resolved(x.partition[p].name)]
            IN IF state = "unknown" THEN x.partition[p].state # "online"
               ELSE x.partition[p].state = state

\* What the daemon has registered is what the objects watch: nothing stays
\* that nobody listens to, and an object that is ready has its Notification
\* unless this went with its partition.
NothingStays ==
    Idle =>
        /\ "dropped" \notin x.exposed => registered \subseteq x.watchers
        /\ x.notify.status = "Ready" => x.notify.watcher \in registered \cup forgotten
=============================================================================
