------------------------ MODULE JsonDbNotification ------------------------
(***************************************************************************)
(* The notifications of one watcher, from the commit of a partition to the *)
(* application: JsonDbPartition and JsonDbNotification, DBServer and its   *)
(* streams, QJsonDbConnection and QJsonDbWatcher, over connections that    *)
(* break and are made again, a partition that is unavailable for a while,  *)
(* and crashes of the daemon.                                              *)
(*                                                                         *)
(* An object is its content, a number; 0 is none, or a tombstone.  The     *)
(* watcher's query is the set of contents it matches.                      *)
(***************************************************************************)
EXTENDS Integers, FiniteSets, Sequences, SequencesExt

CONSTANTS
    Key,        \* the objects
    Value,      \* their contents
    Matching,   \* those the watcher's query matches
    First,      \* the tables to begin with
    MaxState,   \* bound: states of the partition
    MaxBreaks,  \* bound: connections lost, partitions closed
    Avoided     \* bound: the exposures left out, see Exposure

\* Situations in which the code gives up what is said of it below.
Exposure == {
    "overtaken",  \* an event was delivered when a later write had been committed
    "early",      \* a notification was created with events still queued
    "half",       \* the connection broke between the notifications of one state
    "idle",       \* it broke before the watcher knew any state
    "refused",    \* the daemon refused the notification, nobody asks again
    "reopened",   \* the partition came back under the notification
    "rolledback", \* the daemon crashed and lost states that were announced
    "dangling",   \* the partition was closed with events still queued
    "stillborn"}  \* the tombstone of an object that was not there was merged

ASSUME NotificationAssumption ==
    /\ IsFiniteSet(Key) /\ Value \subseteq Nat \ {0} /\ Matching \subseteq Value
    /\ First \subseteq [Key -> Value \cup {0}]
    /\ MaxState \in Nat /\ MaxBreaks \in Nat
    /\ Avoided \subseteq Exposure

Unspecified == -1   \* UnspecifiedInitialStateNumber
Content == Value \cup {0}
Table == [Key -> Content]

VARIABLES
    log,       \* the states of the partition: table and the keys written
    isOpen,    \* whether the partition is available
    events,    \* calls of _q_objectsUpdated() queued
    n,         \* the notification of the connection
    connected,
    toServer,  \* the request that creates the notification
    toClient,  \* what the stream carries
    w,         \* the watcher
    breaks,    \* history: see MaxBreaks
    exposed    \* history: see Exposure

server == <<log, isOpen, events>>
vars == <<server, n, connected, toServer, toClient, w, breaks, exposed>>

stateNumber == Len(log)
table == log[stateNumber].table

NoNotification == [on |-> FALSE, attached |-> FALSE, initial |-> Unspecified, last |-> 0]

Notify(action, key, value, state) ==
    [kind |-> "notify", action |-> action, key |-> key, value |-> value, state |-> state]
StateChange(state) == [kind |-> "stateChange", state |-> state]
Response(ok) == [kind |-> "response", ok |-> ok]

-----------------------------------------------------------------------------
(***************************************************************************)
(* What a notification makes of the updates of a write, and what it sends. *)
(***************************************************************************)
\* Mutant: an object that stops matching is not told.
OnlyWhatMatches(update) == IF update.new \in Matching THEN "update" ELSE "none"

\* A tombstone has its type still, so a query by type matches it.
effectiveAction(update) ==
    LET oldMatches == update.old \in Matching
        newMatches == update.new \in Matching
    IN CASE ~oldMatches /\ newMatches -> "create"
         [] oldMatches /\ ~newMatches -> "remove"
         [] oldMatches /\ newMatches -> "update"
         [] update.old = 0 /\ update.new = 0 -> "create"
         [] OTHER -> "none"

notifyStateChange(acc) == [acc EXCEPT !.sent = Append(@, StateChange(acc.n.last))]

\* The order of the objects of one write is left to SetToSeq: nothing depends on it.
notifyIfMatches(notification, updates) ==
    LET matching == {u \in updates : effectiveAction(u) # "none"}
        messages == {Notify(effectiveAction(u), u.key, u.new, stateNumber) : u \in matching}
    IN [n |-> IF messages = {} THEN notification ELSE [notification EXCEPT !.last = stateNumber],
        sent |-> SetToSeq(messages)]

Updates(keys, before, after) == {[key |-> k, old |-> before[k], new |-> after[k]] : k \in keys}

Nothing == [k \in Key |-> 0]
Unread == [k \in Key |-> -1]

\* Mutant: the state after the given one is taken as known.
ChangedLater(state) == UNION {log[i].written : i \in state + 2..stateNumber}

ChangedSince(state) == UNION {log[i].written : i \in state + 1..stateNumber}

changesSince(state) ==
    {u \in Updates(ChangedSince(state), log[state].table, table) :
        u.old \in Matching \/ u.new \in Matching}

\* State 0 asks for everything there is, any other for what has changed.
notifyHistoricalChanges(notification) ==
    LET from == notification.initial
        updates == IF from = 0
                   THEN Updates({k \in Key : table[k] \in Matching}, Nothing, table)
                   ELSE changesSince(from)
    IN notifyStateChange(notifyIfMatches(notification, updates))

\* Mutant: nothing of the past is told.
OnlyFromNow(notification) ==
    notifyStateChange([n |-> [notification EXCEPT !.attached = TRUE], sent |-> <<>>])

\* JsonDbPartition::addNotification().
addNotification(notification) ==
    notifyHistoricalChanges(
        [notification EXCEPT !.attached = TRUE,
                             !.initial = IF @ = Unspecified THEN stateNumber ELSE @])

-----------------------------------------------------------------------------
(***************************************************************************)
(* The watcher.                                                            *)
(***************************************************************************)
Shown(t) == [k \in Key |-> IF t[k] \in Matching THEN t[k] ELSE 0]

\* Mutant: only what the application asked for at first.
OnlyInitial(watcher) == watcher.initial

\* initWatcher(): where to resume.
Resume(watcher) ==
    IF watcher.initial > watcher.last THEN watcher.initial
    ELSE IF watcher.last # 0 \/ watcher.initial # Unspecified THEN watcher.last
    ELSE Unspecified

handleNotification(watcher, message) ==
    [watcher EXCEPT
        !.initial = IF @ = Unspecified THEN message.state ELSE @,
        !.within = TRUE,
        !.view[message.key] = IF message.action = "remove" THEN 0 ELSE message.value]

handleStateChange(watcher, message) ==
    [watcher EXCEPT !.last = message.state, !.within = FALSE]

-----------------------------------------------------------------------------
(***************************************************************************)
(* Steps.                                                                  *)
(***************************************************************************)
Expose(e) == e \notin Avoided /\ exposed' = exposed \cup {e}
ExposeIf(condition, e) == IF condition THEN Expose(e) ELSE UNCHANGED exposed

\* The application asks for everything, for what has changed since a read, or
\* for what changes from now on, and then reads once.  view is what it knows,
\* within whether it is between two notifications of a state.
Init ==
    \E first \in First, initial \in {Unspecified, 0, 1} :
        /\ log = <<[table |-> first, written |-> {k \in Key : first[k] # 0}]>>
        /\ isOpen = TRUE /\ events = <<>>
        /\ n = NoNotification
        /\ connected = TRUE /\ toServer = <<initial>> /\ toClient = <<>>
        /\ w = [status |-> "Activating", initial |-> initial, last |-> 0, within |-> FALSE,
                view |-> CASE initial = 0 -> Nothing
                           [] initial = 1 -> Shown(first)
                           [] OTHER -> Unread]
        /\ breaks = 0 /\ exposed = {}

\* A write of one or several objects is committed, and its event queued.
updateObjects(after) ==
    /\ isOpen /\ stateNumber < MaxState
    /\ \E keys \in SUBSET Key \ {{}} :
          /\ \A k \in Key \ keys : after[k] = table[k]
          /\ \A k \in keys : after[k] # table[k] \/ after[k] = 0
          /\ log' = Append(log, [table |-> after, written |-> keys])
          /\ events' = Append(events, [state |-> stateNumber + 1,
                                       updates |-> Updates(keys, table, after)])
          /\ ExposeIf(\E k \in keys : after[k] = table[k], "stillborn")
    /\ UNCHANGED <<isOpen, n, connected, toServer, toClient, w, breaks>>

\* The state told is the one of the delivery.  Without a table there is nothing
\* to deliver from: the daemon crashes.
_q_objectsUpdated ==
    /\ events # <<>> /\ isOpen
    /\ LET told == notifyIfMatches(n, Head(events).updates)
           all == IF told.n.last = stateNumber THEN notifyStateChange(told) ELSE told
       IN IF ~n.attached THEN UNCHANGED <<n, toClient>>
          ELSE n' = all.n /\ toClient' = toClient \o all.sent
    /\ events' = Tail(events)
    /\ ExposeIf(n.attached /\ Head(events).state < stateNumber, "overtaken")
    /\ UNCHANGED <<log, isOpen, connected, toServer, w, breaks>>

validateNotification(initial) == isOpen /\ initial <= stateNumber

\* The daemon's answer comes after the changes of the past.
createNotification ==
    /\ toServer # <<>>
    /\ LET initial == Head(toServer)
           added == addNotification([NoNotification EXCEPT !.on = TRUE, !.initial = initial])
       IN IF validateNotification(initial)
          THEN /\ n' = added.n
               /\ toClient' = toClient \o added.sent \o <<Response(TRUE)>>
               /\ w' = IF w.view = Unread THEN [w EXCEPT !.view = Shown(table)] ELSE w
               /\ ExposeIf(events # <<>>, "early")
          ELSE /\ toClient' = Append(toClient, Response(FALSE))
               /\ Expose("refused")
               /\ UNCHANGED <<n, w>>
    /\ toServer' = Tail(toServer)
    /\ UNCHANGED <<server, connected, breaks>>

Cleared == [n EXCEPT !.attached = FALSE]

\* loadPartitions(): a removable partition has gone, or has come back.
Close ==
    /\ isOpen /\ breaks < MaxBreaks
    /\ ExposeIf(events # <<>>, "dangling")
    /\ isOpen' = FALSE
    /\ n' = Cleared
    /\ breaks' = breaks + 1
    /\ UNCHANGED <<log, events, connected, toServer, toClient, w>>

Open ==
    /\ ~isOpen
    /\ isOpen' = TRUE
    /\ LET added == addNotification(n)
       IN IF n.on THEN n' = added.n /\ toClient' = toClient \o added.sent
          ELSE UNCHANGED <<n, toClient>>
    /\ ExposeIf(n.on, "reopened")
    /\ UNCHANGED <<log, events, connected, toServer, w, breaks>>

\* removeConnection() and _q_onDisconnected().
Disconnected ==
    /\ connected /\ breaks < MaxBreaks
    /\ breaks' = breaks + 1
    /\ connected' = FALSE /\ toServer' = <<>> /\ toClient' = <<>>
    /\ n' = NoNotification
    /\ w' = [w EXCEPT !.status = "Activating"]

Idle == n.on /\ w.last = 0

removeConnection ==
    /\ Disconnected
    /\ CASE w.within -> Expose("half")
         [] ~w.within /\ Idle -> Expose("idle")
         [] OTHER -> UNCHANGED exposed
    /\ UNCHANGED server

\* What was not synced is lost; a partition that was closed was synced.
Crash ==
    /\ Disconnected
    /\ \E durable \in IF isOpen THEN 1..stateNumber ELSE {stateNumber} :
          LET exposing == (IF durable < stateNumber THEN {"rolledback"} ELSE {})
                          \cup (IF w.within THEN {"half"} ELSE {})
                            \cup (IF Idle THEN {"idle"} ELSE {})
          IN /\ exposing \cap Avoided = {} /\ exposed' = exposed \cup exposing
             /\ log' = SubSeq(log, 1, durable)
    /\ events' = <<>> /\ isOpen' = TRUE

initWatcher ==
    /\ ~connected
    /\ connected' = TRUE
    /\ toServer' = <<Resume(w)>>
    /\ UNCHANGED <<server, n, toClient, w, breaks, exposed>>

_q_onReceivedObject ==
    /\ toClient # <<>>
    /\ LET message == Head(toClient)
       IN w' = CASE message.kind = "notify" -> handleNotification(w, message)
                 [] message.kind = "stateChange" -> handleStateChange(w, message)
                 [] message.kind = "response" ->
                        IF message.ok THEN [w EXCEPT !.status = "Active"] ELSE w
    /\ toClient' = Tail(toClient)
    /\ UNCHANGED <<server, n, connected, toServer, breaks, exposed>>

\* What the event loops do by themselves; the connection's timer too.
Works ==
    \/ _q_objectsUpdated \/ createNotification \/ _q_onReceivedObject \/ initWatcher

Next ==
    \/ Works
    \/ \E after \in [Key -> Content] : updateObjects(after)
    \/ Close \/ Open \/ removeConnection \/ Crash

Spec == Init /\ [][Next]_vars /\ WF_vars(Works)

-----------------------------------------------------------------------------
(***************************************************************************)
(* Properties.                                                             *)
(***************************************************************************)
Without(exposures) == exposed \cap exposures = {}

\* No partition came back under a notification with the events of its former life.
NothingLeftOver == Without({"dangling"}) \/ Without({"reopened"})

\* When nothing is under way an active watcher has been told everything: what
\* the application makes of the notifications is what the query finds.
ViewFollows ==
    /\ w.status = "Active" /\ n.attached /\ events = <<>> /\ toClient = <<>>
    /\ Without({"half", "idle", "rolledback"}) /\ NothingLeftOver
    /\ breaks > 0 => Without({"overtaken"})
    => w.view = Shown(table)

\* "all notifications for it were successfully received" (qjsondbwatcher.cpp:399):
\* of the state that the watcher was told last nothing is missing.
StateIsComplete ==
    w.last > 0 /\ Without({"overtaken", "half", "idle", "rolledback"}) /\ NothingLeftOver =>
        \A k \in Key : \E i \in 1..stateNumber :
            i >= w.last /\ w.view[k] = Shown(log[i].table)[k]

\* Exactly once: create, update and remove tell of an object what the
\* application does not know yet.
ActionsFit ==
    toClient # <<>> /\ Head(toClient).kind = "notify"
        /\ Without({"overtaken", "early", "half", "idle", "reopened", "rolledback", "stillborn"})
    => LET message == Head(toClient)
       IN /\ message.action = "create" <=> w.view[message.key] = 0
          /\ message.action = "remove" <=> message.value \notin Matching

\* Whatever breaks, the watcher is active in the end and has been told everything.
Settles ==
    <>[](\/ ~Without({"half", "idle", "refused", "rolledback"}) \/ ~isOpen
         \/ breaks > 0 /\ ~Without({"overtaken"})
         \/ w.status = "Active" /\ w.view = Shown(table))
=============================================================================
