------------------------- MODULE QJsonDbConnection -------------------------
(***************************************************************************)
(* The client's connection, src/client/qjsondbconnection.cpp: its queue of *)
(* requests with one in flight, the daemon's socket and the thread of the  *)
(* private partition that answer them, losing and re-establishing the      *)
(* connection, and the watchers that are activated again with it.          *)
(*                                                                         *)
(* A local socket connects or fails within the call.  When it breaks,      *)
(* whatever is under way in it is lost; the private partition works on.    *)
(***************************************************************************)
EXTENDS Naturals, FiniteSets, Sequences, SequencesExt

CONSTANTS
    Request,        \* the requests of the application
    Private,        \* those to the private partition
    Empty,          \* those getRequest() makes nothing of
    Watcher,
    AutoReconnect,  \* autoReconnectEnabled
    MaxBreaks,      \* bound: connections broken or refused
    MaxCalls,       \* bound: calls of the application
    Avoided         \* bound: the exposures left out, see Exposure

\* Situations in which the code gives up what is said of it below.
Exposure == {
    "resent",   \* send() of a request that waits for the next connection
    "broken",   \* a request was in flight when its connection broke
    "retired"}  \* the removal of a watcher was lost with it, or was refused

ASSUME ConnectionAssumption ==
    /\ Private \cup Empty \subseteq Request
    /\ Request \cap Watcher = {} /\ IsFiniteSet(Watcher)
    /\ AutoReconnect \in BOOLEAN
    /\ MaxBreaks \in Nat /\ MaxCalls \in Nat
    /\ Avoided \subseteq Exposure

None == [kind |-> "none"]
\* An entry of the queue: a request of the application or an internal one.
Item == [kind : {"app"}, of : Request, id : Nat]
        \cup [kind : {"add", "remove"}, of : Watcher, id : Nat]
Status == {"Inactive", "Queued", "Sent", "Receiving", "Finished", "Error", "Canceled"}
Active == {"Queued", "Sent", "Receiving"}
Done == {"Finished", "Error", "Canceled"}

VARIABLES
    c,         \* the connection, see Connection
    toServer,  \* what the daemon has not read yet
    toClient,  \* its responses
    fromPrivate, \* the queued signals of the private partition's thread
    registered, \* the watchers with a notification on this connection
    stored,    \* the Notification objects of the ephemeral partition
    refused,   \* history: the watchers of which an activation on this connection
               \*   was refused
    ran,       \* history: how often each request ran since its last send()
    breaks,    \* history: connections broken or refused
    calls,     \* history: calls of the application
    exposed    \* history: see Exposure

vars == <<c, toServer, toClient, fromPrivate, registered, stored, refused, ran, breaks,
          calls, exposed>>
server == <<toServer, toClient, registered, stored, refused>>

Connection ==
    [status : {"Unconnected", "Connecting", "Connected"},
     explicitDisconnect : BOOLEAN, timer : BOOLEAN,
     privatePartitionHandler : BOOLEAN,
     socket : {"none", "open", "closing"},
     request : [Request -> [status : Status, id : Nat]],
     watcher : [Watcher -> [status : {"Inactive", "Activating", "Active"}, added : BOOLEAN]],
     pendingRequests : Seq(Item), current : Item \cup {None},
     listening : SUBSET (Watcher \X Nat),
     lastId : Nat,
     out : Seq(Item), private : Seq(Item)]

-----------------------------------------------------------------------------
(***************************************************************************)
(* The queue.  These operators change a connection; what they write to the *)
(* socket is in its field out until the step ends.                         *)
(***************************************************************************)
Internal(item) == item.kind # "app"

SetStatus(k, item, status) ==
    IF Internal(item) THEN k ELSE [k EXCEPT !.request[item.of].status = status]

\* An entry has the id the request object has now.
IdOf(k, item) == IF Internal(item) THEN item.id ELSE k.request[item.of].id

\* An empty request ends here, and nothing takes the one behind it.
handleRequestQueue(k) ==
    IF k.current # None \/ k.status # "Connected" \/ k.pendingRequests = <<>> THEN k
    ELSE LET first == Head(k.pendingRequests)
             item == [first EXCEPT !.id = IdOf(k, first)]
             rest == [k EXCEPT !.pendingRequests = Tail(@)]
             taken == [SetStatus(rest, item, "Sent") EXCEPT !.current = item]
         IN CASE item.of \in Empty -> SetStatus(rest, item, "Error")
              [] item.of \in Private \ Empty -> [taken EXCEPT !.private = Append(@, item), !.privatePartitionHandler = TRUE]
              [] OTHER -> [taken EXCEPT !.out = IF k.socket = "open" THEN Append(@, item) ELSE @]

\* Internal requests go before those of the application.
Inserted(queue, item) ==
    IF ~Internal(item) THEN Append(queue, item)
    ELSE LET before == {i \in 1..Len(queue) : \A j \in 1..i : Internal(queue[j])}
         IN InsertAt(queue, Cardinality(before) + 1, item)

send(k, kind, of) ==
    LET id == k.lastId + 1
        item == [kind |-> kind, of |-> of, id |-> IF kind = "app" THEN 0 ELSE id]
        queued == [k EXCEPT !.lastId = id, !.pendingRequests = Inserted(@, item)]
    IN handleRequestQueue(IF kind = "app"
                          THEN [queued EXCEPT !.request[of] = [status |-> "Queued", id |-> id]]
                          ELSE queued)

NotListening(k, w) == [k EXCEPT !.listening = {l \in @ : l[1] # w}]

initWatcher(k, w) ==
    LET quiet == NotListening(k, w)
    IN send([quiet EXCEPT !.watcher[w] = [status |-> "Activating", added |-> TRUE],
                          !.listening = @ \cup {<<w, k.lastId + 1>>}], "add", w)

\* Mutant: nothing is activated again.
ReactivatesNone(k) == k

\* One after another, in any order.
reactivateAllWatchers(k) ==
    LET order == SetToSeq({w \in Watcher : k.watcher[w].added})
        after[i \in 0 .. Len(order)] ==
            IF i = 0 THEN k ELSE initWatcher(after[i - 1], order[i])
    IN after[Len(order)]

_q_onConnected(k) ==
    handleRequestQueue(reactivateAllWatchers([k EXCEPT !.status = "Connected", !.socket = "open"]))

\* Mutants: it is put back at the end, or stays in flight.
PutLast(k) ==
    IF k.current = None THEN k
    ELSE [SetStatus(k, k.current, "Error") EXCEPT
             !.current = None,
             !.pendingRequests = IF Internal(k.current) THEN @ ELSE Append(@, [k.current EXCEPT !.id = 0])]
StaysCurrent(k) == k

\* The request in flight fails and is put back; an internal one is deleted.
PutBack(k) ==
    IF k.current = None THEN k
    ELSE LET item == k.current
         IN [SetStatus(k, item, "Error") EXCEPT
               !.current = None,
               !.pendingRequests = IF Internal(item) THEN @ ELSE <<[item EXCEPT !.id = 0]>> \o @]

shouldAutoReconnect(k) == AutoReconnect /\ ~k.explicitDisconnect

\* Mutant: the watchers stay as they are.
StayActive(k) == k.watcher

Deactivated(k) ==
    [w \in Watcher |->
        IF k.watcher[w].added THEN [k.watcher[w] EXCEPT !.status = "Activating"] ELSE k.watcher[w]]

_q_onDisconnected(k) ==
    LET back == PutBack(k)
        again == shouldAutoReconnect(k)
    IN [back EXCEPT
          !.socket = "none",
          !.watcher = Deactivated(k),
          !.status = IF @ # "Unconnected" /\ again THEN "Connecting" ELSE "Unconnected",
          !.timer = @ \/ (again /\ k.status # "Unconnected")]

Connects(k, ok) == IF ok THEN _q_onConnected(k) ELSE _q_onDisconnected(k)

-----------------------------------------------------------------------------
(***************************************************************************)
(* Steps.                                                                  *)
(***************************************************************************)
Init ==
    /\ c = [status |-> "Unconnected", explicitDisconnect |-> FALSE, timer |-> FALSE,
            socket |-> "none", privatePartitionHandler |-> FALSE,
            request |-> [r \in Request |-> [status |-> "Inactive", id |-> 0]],
            watcher |-> [w \in Watcher |-> [status |-> "Inactive", added |-> FALSE]],
            pendingRequests |-> <<>>, current |-> None, listening |-> {}, lastId |-> 0,
            out |-> <<>>, private |-> <<>>]
    /\ toServer = <<>> /\ toClient = <<>> /\ fromPrivate = <<>>
    /\ registered = {} /\ stored = {} /\ refused = {}
    /\ ran = [r \in Request |-> 0]
    /\ breaks = 0 /\ calls = 0 /\ exposed = {}

\* The connection becomes k.  Without a socket nothing is under way.
Becomes(k) ==
    /\ c' = [k EXCEPT !.out = <<>>]
    /\ IF k.socket = "none" \/ c.socket = "none"
       THEN /\ toServer' = k.out /\ toClient' = <<>> /\ registered' = {} /\ refused' = {}
       ELSE /\ toServer' = toServer \o k.out /\ UNCHANGED <<toClient, registered, refused>>

Exposing ==
    {e \in Exposure :
        \/ e = "broken" /\ c.current # None /\ c.current.kind = "app"
        \/ e = "retired" /\ c.current # None /\ c.current.kind = "remove"}

Call == calls < MaxCalls /\ calls' = calls + 1

\* Failing connections are limited in number, not in order.
Breaking(k, broke) ==
    /\ breaks' = IF broke THEN breaks + 1 ELSE breaks
    /\ breaks' <= MaxBreaks
    /\ LET exposing == IF c.socket # "none" /\ k.socket = "none" THEN Exposing ELSE {}
       IN /\ exposing \cap Avoided = {}
          /\ exposed' = exposed \cup exposing

connectToServer(ok) ==
    /\ c.status = "Unconnected" /\ c.socket = "none"
    /\ LET k == Connects([c EXCEPT !.explicitDisconnect = FALSE, !.status = "Connecting"], ok)
       IN Becomes(k) /\ Breaking(k, ~ok)
    /\ UNCHANGED <<fromPrivate, stored, ran>>
    /\ Call

_q_onTimer(ok) ==
    /\ c.timer
    /\ LET k == IF c.status = "Connecting"
                THEN Connects([c EXCEPT !.timer = FALSE], ok)
                ELSE [c EXCEPT !.timer = FALSE]
       IN Becomes(k) /\ Breaking(k, c.status = "Connecting" /\ ~ok)
    /\ UNCHANGED <<fromPrivate, stored, ran, calls>>

\* The private partition's signals are disconnected at once.
disconnectFromServer ==
    /\ c.status # "Unconnected"
    /\ Becomes([c EXCEPT !.explicitDisconnect = TRUE, !.privatePartitionHandler = FALSE,
                         !.socket = IF @ = "open" THEN "closing" ELSE @])
    /\ fromPrivate' = <<>>
    /\ UNCHANGED <<stored, ran, breaks, exposed>>
    /\ Call

SocketDisconnected ==
    /\ c.socket = "closing"
    /\ LET k == _q_onDisconnected(c) IN Becomes(k) /\ Breaking(k, FALSE)
    /\ UNCHANGED <<fromPrivate, stored, ran, calls>>

\* The peer closes the socket, or dies.  A restart forgets what was stored.
ConnectionBreaks(died) ==
    /\ c.socket = "open"
    /\ LET k == _q_onDisconnected(c) IN Becomes(k) /\ Breaking(k, TRUE)
    /\ stored' = IF died THEN {} ELSE stored
    /\ UNCHANGED <<fromPrivate, ran, calls>>

Waits(r) == \E i \in 1..Len(c.pendingRequests) :
                c.pendingRequests[i].kind = "app" /\ c.pendingRequests[i].of = r

Send(r) ==
    /\ c.request[r].status \notin Active
    /\ Waits(r) => "resent" \notin Avoided
    /\ exposed' = exposed \cup (IF Waits(r) THEN {"resent"} ELSE {})
    /\ Becomes(send(c, "app", r))
    /\ ran' = [ran EXCEPT ![r] = 0]
    /\ UNCHANGED <<fromPrivate, stored, breaks>>
    /\ Call

Cancel(r) ==
    /\ c.request[r].status = "Queued" /\ Waits(r)
    /\ LET first == CHOOSE i \in 1..Len(c.pendingRequests) :
               /\ c.pendingRequests[i].kind = "app" /\ c.pendingRequests[i].of = r
               /\ \A j \in 1..i - 1 : c.pendingRequests[j].of # r
       IN Becomes([c EXCEPT !.pendingRequests = RemoveAt(@, first),
                            !.request[r].status = "Canceled"])
    /\ UNCHANGED <<fromPrivate, stored, ran, breaks, exposed>>
    /\ Call

\* What stays of the queue.
InternalOnly(queue) ==
    LET kept[i \in 0 .. Len(queue)] ==
            IF i = 0 THEN <<>>
            ELSE IF Internal(queue[i]) THEN Append(kept[i - 1], queue[i]) ELSE kept[i - 1]
    IN kept[Len(queue)]

CancelPendingRequests ==
    /\ \E r \in Request : Waits(r)
    /\ Becomes([c EXCEPT
          !.pendingRequests = InternalOnly(@),
          !.request = [r \in Request |->
              IF Waits(r) THEN [@[r] EXCEPT !.status = "Canceled"] ELSE @[r]]])
    /\ UNCHANGED <<fromPrivate, stored, ran, breaks, exposed>>
    /\ Call

addWatcher(w) ==
    /\ c.watcher[w].status = "Inactive"
    /\ Becomes(initWatcher(c, w))
    /\ UNCHANGED <<fromPrivate, stored, ran, breaks, exposed>>
    /\ Call

removeWatcher(w) ==
    /\ c.watcher[w].status # "Inactive" /\ c.watcher[w].added
    /\ LET quiet == NotListening(c, w)
       IN Becomes(send([quiet EXCEPT !.watcher[w].added = FALSE,
                                     !.listening = @ \cup {<<w, c.lastId + 1>>}], "remove", w))
    /\ UNCHANGED <<fromPrivate, stored, ran, breaks, exposed>>
    /\ Call

-----------------------------------------------------------------------------
(***************************************************************************)
(* The daemon and the private partition.                                   *)
(***************************************************************************)
Ran(item) == IF item.kind = "app" THEN [ran EXCEPT ![item.of] = @ + 1] ELSE ran

\* A removal needs the object; anything else may be refused, the activation of a
\* watcher by validateNotification(), which looks at its query, its partition and
\* its state number before anything is stored.
receiveMessage(ok) ==
    /\ toServer # <<>> /\ c.socket # "none"
    /\ LET item == Head(toServer)
       IN /\ item.kind = "remove" => ok = (item.of \in stored)
          /\ toServer' = Tail(toServer)
          /\ toClient' = Append(toClient, [id |-> item.id, ok |-> ok])
          /\ stored' = CASE item.kind = "add" /\ ok -> stored \cup {item.of}
                         [] item.kind = "remove" -> stored \ {item.of}
                         [] OTHER -> stored
          /\ registered' = CASE item.kind = "add" /\ ok -> registered \cup {item.of}
                             [] item.kind = "remove" /\ ok -> registered \ {item.of}
                             [] OTHER -> registered
          /\ refused' = IF item.kind = "add" /\ ~ok THEN refused \cup {item.of} ELSE refused
          /\ ran' = IF item.kind = "app" /\ c.request[item.of].id = item.id THEN Ran(item) ELSE ran
          /\ exposed' = exposed \cup (IF item.kind = "remove" /\ ~ok THEN {"retired"} ELSE {})
    /\ UNCHANGED <<c, fromPrivate, breaks, calls>>

\* Mutant: any answer is for the request in flight.
AnswersAny(k, id) == k.current # None

Answers(k, id) == k.current # None /\ k.current.id = id

\* handleResponse(), handleError() and the watcher's slots.
Answered(k, ok) ==
    LET item == k.current
        free == [k EXCEPT !.current = None, !.listening = @ \ {<<item.of, item.id>>}]
        heard == <<item.of, item.id>> \in k.listening
    IN CASE item.kind = "app" -> SetStatus(free, item, IF ok THEN "Finished" ELSE "Error")
         [] Internal(item) /\ ok /\ heard ->
               [free EXCEPT !.watcher[item.of].status = IF item.kind = "add" THEN "Active" ELSE "Inactive"]
         [] OTHER -> free

_q_onReceivedObject ==
    /\ toClient # <<>> /\ c.socket # "none"
    /\ LET answer == Head(toClient)
           k == CASE Answers(c, answer.id) -> handleRequestQueue(Answered(c, answer.ok))
                  [] c.current = None -> handleRequestQueue(c)
                  [] OTHER -> c
       IN /\ c' = [k EXCEPT !.out = <<>>]
          /\ toServer' = toServer \o k.out
    /\ toClient' = Tail(toClient)
    /\ UNCHANGED <<fromPrivate, registered, stored, refused, ran, breaks, calls, exposed>>

\* A flush that succeeds or fails emits finished once more.
Outcome == {<<"started", "finished">>, <<"started", "finished", "finished">>,
            <<"error">>, <<"error", "finished">>}

\* The private partition's thread.
handlePrivateRequest(signals) ==
    /\ c.private # <<>>
    /\ LET item == Head(c.private)
       IN /\ c' = [c EXCEPT !.private = Tail(@)]
          /\ fromPrivate' = IF ~c.privatePartitionHandler THEN fromPrivate ELSE fromPrivate \o
                [i \in 1..Len(signals) |-> [id |-> item.id, signal |-> signals[i]]]
          /\ ran' = IF c.request[item.of].id = item.id THEN Ran(item) ELSE ran
    /\ UNCHANGED <<server, breaks, calls, exposed>>

PrivateSignal ==
    /\ fromPrivate # <<>>
    /\ LET event == Head(fromPrivate)
           k == CASE event.signal = "started" ->
                        IF Answers(c, event.id) THEN SetStatus(c, c.current, "Receiving") ELSE c
                  [] event.signal # "started" /\ Answers(c, event.id) ->
                        handleRequestQueue(Answered(c, event.signal = "finished"))
                  [] OTHER -> handleRequestQueue(c)
       IN Becomes(k)
    /\ fromPrivate' = Tail(fromPrivate)
    /\ UNCHANGED <<stored, ran, breaks, calls, exposed>>

\* What happens by itself: event loops and the timer, the thread, the daemon.
Works ==
    \/ PrivateSignal \/ _q_onReceivedObject \/ SocketDisconnected
    \/ \E ok \in BOOLEAN : receiveMessage(ok) \/ _q_onTimer(ok)
    \/ \E signals \in Outcome : handlePrivateRequest(signals)

Next ==
    \/ Works
    \/ \E ok \in BOOLEAN : connectToServer(ok)
    \/ \E died \in BOOLEAN : ConnectionBreaks(died)
    \/ disconnectFromServer \/ CancelPendingRequests
    \/ \E r \in Request : Send(r) \/ Cancel(r)
    \/ \E w \in Watcher : addWatcher(w) \/ removeWatcher(w)

\* Some of it happens while there is any.
Fairness == WF_vars(Works)

Spec == Init /\ [][Next]_vars /\ Fairness

-----------------------------------------------------------------------------
(***************************************************************************)
(* Properties.                                                             *)
(***************************************************************************)
\* The state has its type; an open socket is a connection that is established.
TypeOK ==
    /\ c.status \in {"Unconnected", "Connecting", "Connected"}
    /\ c.socket = "open" => c.status = "Connected"
    /\ c.request \in [Request -> [status : Status, id : Nat]]
    /\ c.current \in Item \cup {None}
    /\ \A i \in 1..Len(c.pendingRequests) : c.pendingRequests[i] \in Item
    /\ c.listening \subseteq Watcher \X Nat
    /\ registered \cup stored \cup refused \subseteq Watcher
    /\ exposed \subseteq Exposure

\* What the application is told of a request is true: one that finished has
\* run, and unless its connection broke it runs once, and a canceled one not
\* at all (_q_onReceivedObject(), the comparison of request ids).
AnswersAreTrue ==
    "resent" \notin exposed =>
        \A r \in Request :
            /\ c.request[r].status = "Finished" => ran[r] > 0
            /\ "broken" \notin exposed =>
                  /\ ran[r] <= 1
                  /\ c.request[r].status = "Canceled" => ran[r] = 0

\* "The connection has a queue of requests ... which guarantees order of
\* execution of requests" (qjsondbconnection.cpp:160): nothing runs while an
\* earlier request waits, also one that was put back with its connection.
OrderIsKept ==
    [][ "resent" \notin exposed' =>
        \A r, q \in Request :
            ran'[r] > ran[r] /\ Waits(q) => c.request[r].id <= c.request[q].id]_vars

\* A watcher that says it is active has its notification on this connection:
\* its activations and removals are not mistaken for one another.
ActiveIsRegistered ==
    \A w \in Watcher :
        c.watcher[w].added /\ c.watcher[w].status = "Active" => w \in registered

Outstanding(r) == Waits(r) \/ (c.current # None /\ c.current.of = r)

\* The queue drains: whatever waits while there is a connection, or one is
\* being made, is answered, whichever connections break.
QueueDrains ==
    \A r \in Request :
        c.status # "Unconnected" /\ Outstanding(r) ~>
            c.status = "Unconnected" \/ (~Outstanding(r) /\ c.request[r].status \in Done)

\* A watcher that was added becomes active again after every connection unless
\* an activation on that connection is refused, which nobody tries again, and
\* one that was removed becomes inactive unless its removal is lost or refused.
WatchersFollow ==
    \A w \in Watcher :
        /\ c.status # "Unconnected" /\ c.watcher[w].added ~>
              c.status = "Unconnected" \/ ~c.watcher[w].added
              \/ c.watcher[w].status = "Active" \/ w \in refused
        /\ c.status # "Unconnected" /\ ~c.watcher[w].added ~>
              \/ c.status = "Unconnected" \/ c.watcher[w].added
              \/ c.watcher[w].status = "Inactive" \/ "retired" \in exposed
=============================================================================
