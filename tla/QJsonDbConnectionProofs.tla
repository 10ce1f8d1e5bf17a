----------------------- MODULE QJsonDbConnectionProofs ----------------------
(***************************************************************************)
(* Proofs about QJsonDbConnection: what the application is told of its     *)
(* requests and watchers is true, and requests run in order, however often *)
(* the connection breaks and whatever is put back.                         *)
(***************************************************************************)
EXTENDS QJsonDbConnection, SequenceFacts

\* Nothing but entries of the application is mistaken for one.
Internals(k) ==
    {k.pendingRequests[i] : i \in {j \in DOMAIN k.pendingRequests : Internal(k.pendingRequests[j])}}
        \cup {item \in {k.current} : item # None /\ Internal(item)}

Strange(k, id) == \A r \in Request : k.request[r].id # id
Apart(k, id) == \A item \in Internals(k) : item.id # id

\* The numbers of requests and entries.
Numbered(k) ==
    /\ \A r \in Request : k.request[r].id <= k.lastId
    /\ \A r, q \in Request : r # q /\ k.request[r].id = k.request[q].id => k.request[r].id = 0
    /\ \A i \in DOMAIN k.pendingRequests :
          ~Internal(k.pendingRequests[i]) => k.request[k.pendingRequests[i].of].id > 0
    /\ \A item \in Internals(k) : item.id \in 1 .. k.lastId /\ Strange(k, item.id)
    /\ k.current # None =>
          /\ k.current.id \in 1 .. k.lastId
          /\ ~Internal(k.current) => k.request[k.current.of].id > 0
    /\ \A j \in DOMAIN k.private :
          LET item == k.private[j] IN
          /\ item.kind = "app" /\ item.of \in Private /\ item.id \in 1 .. k.lastId
          /\ Apart(k, item.id)
          /\ \A r \in Request : k.request[r].id = item.id => r = item.of
          /\ k.current # None /\ k.current.id = item.id => k.current.of \in Private

\* A watcher whose removal is under way; there is one for each.
Leaving(k, w) == ~k.watcher[w].added /\ k.watcher[w].status # "Inactive"
IsRemoval(item) == item.kind = "remove"

Removals(k) ==
    /\ IsRemoval(k.current) =>
          /\ Leaving(k, k.current.of)
          /\ \A i \in DOMAIN k.pendingRequests :
                IsRemoval(k.pendingRequests[i]) => k.pendingRequests[i].of # k.current.of
    /\ \A i \in DOMAIN k.pendingRequests :
          IsRemoval(k.pendingRequests[i]) => Leaving(k, k.pendingRequests[i].of)
    /\ \A i, j \in DOMAIN k.pendingRequests :
          IsRemoval(k.pendingRequests[i]) /\ IsRemoval(k.pendingRequests[j])
              /\ k.pendingRequests[i].of = k.pendingRequests[j].of => i = j

IsActive(k, w) == k.watcher[w].added /\ k.watcher[w].status = "Active"

Plugged(k) ==
    /\ k.status = "Connected" <=> k.socket # "none"
    /\ k.socket = "none" => k.current = None /\ \A w \in Watcher : ~IsActive(k, w)

\* What is around the connection.  Only the request in flight is on the wire.
Net == [toServer |-> toServer, toClient |-> toClient, fromPrivate |-> fromPrivate,
        registered |-> registered, ran |-> ran,
        resent |-> "resent" \in exposed, broken |-> "broken" \in exposed]

Answer == [id : Nat, ok : BOOLEAN]
Event == [id : Nat, signal : {"started", "finished", "error"}]

Wired(k, net) ==
    /\ net.toServer \o k.out \in {<<>>, <<k.current>>}
    /\ k.current = None => net.toServer \o k.out = <<>> /\ net.toClient = <<>>
    /\ net.toServer \o k.out # <<>> => net.toClient = <<>> /\ k.current.of \notin Private
    /\ net.toClient # <<>> =>
          /\ Len(net.toClient) = 1 /\ net.toClient[1].id = k.current.id
          /\ k.current.of \notin Private
          /\ k.current.kind = "add" /\ net.toClient[1].ok => k.current.of \in net.registered
    /\ \A w \in Watcher : IsActive(k, w) => w \in net.registered
    /\ \A e \in DOMAIN net.fromPrivate :
          LET id == net.fromPrivate[e].id IN
          /\ id \in 1 .. k.lastId /\ Apart(k, id)
          /\ \A r \in Request : k.request[r].id = id => r \in Private
          /\ k.current # None /\ k.current.id = id => k.current.of \in Private

\* Requests are in the order of their numbers: answered, in flight, waiting.
IsApp(item) == item.kind = "app"
NumberAt(k, i) == k.request[k.pendingRequests[i].of].id

Ordered(k) ==
    /\ \A i, j \in DOMAIN k.pendingRequests :
          i < j /\ IsApp(k.pendingRequests[i]) /\ IsApp(k.pendingRequests[j])
              => NumberAt(k, i) < NumberAt(k, j)
    /\ IsApp(k.current) =>
          /\ k.current.id = k.request[k.current.of].id
          /\ k.request[k.current.of].status \in {"Sent", "Receiving"}
          /\ \A i \in DOMAIN k.pendingRequests :
                IsApp(k.pendingRequests[i]) => k.current.id < NumberAt(k, i)
          /\ \A j \in DOMAIN k.private : k.private[j].id <= k.current.id
    /\ \A i \in DOMAIN k.pendingRequests :
          IsApp(k.pendingRequests[i]) =>
              /\ k.request[k.pendingRequests[i].of].status \in {"Queued", "Error"}
              /\ \A j \in DOMAIN k.private : k.private[j].id <= NumberAt(k, i)

\* Whoever is told that a request finished is told so by an answer to it.
Told(k, net) ==
    /\ \A r \in Request : k.request[r].status = "Finished" => net.ran[r] > 0
    /\ net.toClient # <<>> /\ IsApp(k.current) => net.ran[k.current.of] > 0
    /\ \A e \in DOMAIN net.fromPrivate : net.fromPrivate[e].signal = "finished" =>
          \A r \in Request : k.request[r].id = net.fromPrivate[e].id => net.ran[r] > 0

\* Nothing that has run waits or is on its way.
Once(k, net) ==
    /\ \A r \in Request : net.ran[r] <= 1
    /\ \A r \in Request : k.request[r].status = "Canceled" => net.ran[r] = 0
    /\ \A i \in DOMAIN k.pendingRequests :
          IsApp(k.pendingRequests[i]) => net.ran[k.pendingRequests[i].of] = 0
    /\ k.private \in {<<>>, <<k.current>>}
    /\ IsApp(k.current) /\ (net.toServer \o k.out # <<>> \/ k.private # <<>>)
          => net.ran[k.current.of] = 0
    /\ \A e \in DOMAIN net.fromPrivate :
          LET id == net.fromPrivate[e].id IN
          /\ k.private # <<>> => k.current.id # id
          /\ \A i \in DOMAIN k.pendingRequests :
                IsApp(k.pendingRequests[i]) => NumberAt(k, i) # id

NetType(net) ==
    /\ net.toServer \in Seq(Item) /\ net.toClient \in Seq(Answer)
    /\ net.fromPrivate \in Seq(Event)
    /\ net.ran \in [Request -> Nat]

\* A connection in the middle of a step, in its surroundings.
Fine(k, net) ==
    /\ k \in Connection
    /\ NetType(net)
    /\ Numbered(k)
    /\ Removals(k)
    /\ Plugged(k)
    /\ Wired(k, net)
    /\ ~net.resent => Ordered(k) /\ Told(k, net)
    /\ ~net.resent /\ ~net.broken => Once(k, net)

IInv == c.out = <<>> /\ Fine(c, Net)

-----------------------------------------------------------------------------
(***************************************************************************)
(* The queue.                                                              *)
(***************************************************************************)
LEMMA Items ==
    /\ None \notin Item
    /\ \A item \in Item, id \in Nat : [item EXCEPT !.id = id] \in Item
    /\ \A item \in Item : item.id \in Nat /\ item.of \in Request \cup Watcher
    /\ \A item \in Item : item.kind = "app" <=> item.of \in Request
    /\ \A item \in Item : item.kind # "app" <=> item.of \in Watcher
    /\ \A item \in Item : item.kind \in {"app", "add", "remove"}
    /\ None.kind = "none"
BY ConnectionAssumption DEF Item, None

\* What taking the first entry of the queue makes of a connection.
Taken(k, m) ==
    LET first == Head(k.pendingRequests)
        item == [first EXCEPT !.id = IdOf(k, first)]
        After(status) == IF Internal(first) THEN k.request
                         ELSE [k.request EXCEPT ![first.of].status = status]
    IN /\ k.current = None /\ k.status = "Connected" /\ k.pendingRequests # <<>>
       /\ m.pendingRequests = Tail(k.pendingRequests)
       /\ m.status = k.status /\ m.socket = k.socket /\ m.watcher = k.watcher
       /\ m.lastId = k.lastId /\ m.listening = k.listening
       /\ \/ /\ first.of \in Empty
             /\ m.current = None /\ m.out = k.out /\ m.private = k.private
             /\ m.request = After("Error")
          \/ /\ first.of \notin Empty
             /\ m.current = item /\ m.request = After("Sent")
             /\ \/ first.of \in Private /\ m.private = Append(k.private, item) /\ m.out = k.out
                \/ /\ first.of \notin Private /\ m.private = k.private
                   /\ m.out \in {k.out, Append(k.out, item)}

LEMMA SetStatusEffect ==
    ASSUME NEW k \in Connection, NEW item \in Item, NEW status \in Status
    PROVE  LET m == SetStatus(k, item, status) IN
           /\ m \in Connection
           /\ m.request = IF Internal(item) THEN k.request
                          ELSE [k.request EXCEPT ![item.of].status = status]
           /\ m.status = k.status /\ m.socket = k.socket /\ m.watcher = k.watcher
           /\ m.pendingRequests = k.pendingRequests /\ m.current = k.current
           /\ m.listening = k.listening /\ m.lastId = k.lastId
           /\ m.out = k.out /\ m.private = k.private
<1>1. CASE Internal(item)
  BY <1>1 DEF SetStatus
<1>2. CASE ~Internal(item)
  <2>1. item.of \in Request
    BY <1>2, Items DEF Internal
  <2>2. PICK f : f = [k.request EXCEPT ![item.of].status = status]
    OBVIOUS
  <2>3. k.request \in [Request -> [status : Status, id : Nat]]
    BY DEF Connection
  <2>4. f \in [Request -> [status : Status, id : Nat]]
    BY <2>1, <2>2, <2>3
  <2>5. PICK m : m = [k EXCEPT !.request = f]
    OBVIOUS
  <2>6. SetStatus(k, item, status) = m
    BY <1>2, <2>2, <2>5 DEF SetStatus, Connection
  <2>7. m \in Connection /\ m.request = f
    BY <2>4, <2>5 DEF Connection
  <2>8. /\ m.status = k.status /\ m.socket = k.socket /\ m.watcher = k.watcher
        /\ m.pendingRequests = k.pendingRequests /\ m.current = k.current
        /\ m.listening = k.listening /\ m.lastId = k.lastId
        /\ m.out = k.out /\ m.private = k.private
    BY <2>5 DEF Connection
  <2> QED  BY <1>2, <2>2, <2>6, <2>7, <2>8
<1> QED  BY <1>1, <1>2

LEMMA HandleEffect ==
    ASSUME NEW k \in Connection
    PROVE  \/ handleRequestQueue(k) = k
           \/ handleRequestQueue(k) \in Connection /\ Taken(k, handleRequestQueue(k))
<1>1. CASE ~(k.current = None /\ k.status = "Connected" /\ k.pendingRequests # <<>>)
  <2>1. handleRequestQueue(k) = k
    BY <1>1 DEF handleRequestQueue
  <2> QED  BY <2>1
<1>2. CASE k.current = None /\ k.status = "Connected" /\ k.pendingRequests # <<>>
  <2> DEFINE first == Head(k.pendingRequests)
             item == [first EXCEPT !.id = IdOf(k, first)]
             rest == [k EXCEPT !.pendingRequests = Tail(@)]
             taken == [SetStatus(rest, item, "Sent") EXCEPT !.current = item]
  <2>1. k.pendingRequests \in Seq(Item) /\ first \in Item /\ Tail(k.pendingRequests) \in Seq(Item)
    BY <1>2 DEF Connection
  <2>2. IdOf(k, first) \in Nat
    BY <2>1, Items DEF IdOf, Internal, Connection
  <2>3. item \in Item /\ item.of = first.of /\ item.kind = first.kind
    BY <2>1, <2>2, Items DEF Item
  <2>4. rest \in Connection /\ rest.pendingRequests = Tail(k.pendingRequests)
        /\ rest.request = k.request /\ rest.status = k.status /\ rest.socket = k.socket
        /\ rest.watcher = k.watcher /\ rest.lastId = k.lastId /\ rest.listening = k.listening
        /\ rest.current = None /\ rest.out = k.out /\ rest.private = k.private
    BY <1>2, <2>1 DEF Connection
  <2>5. handleRequestQueue(k) =
            CASE item.of \in Empty -> SetStatus(rest, item, "Error")
              [] item.of \in Private \ Empty ->
                     [taken EXCEPT !.private = Append(@, item), !.privatePartitionHandler = TRUE]
              [] OTHER -> [taken EXCEPT !.out = IF k.socket = "open" THEN Append(@, item) ELSE @]
    BY <1>2 DEF handleRequestQueue
  <2> HIDE DEF item, rest
  <2>6. ASSUME NEW status \in Status, NEW l, l = SetStatus(rest, item, status)
        PROVE  /\ l \in Connection
               /\ l.request = IF Internal(first) THEN k.request
                              ELSE [k.request EXCEPT ![first.of].status = status]
               /\ l.pendingRequests = Tail(k.pendingRequests)
               /\ l.status = k.status /\ l.socket = k.socket /\ l.watcher = k.watcher
               /\ l.lastId = k.lastId /\ l.listening = k.listening
               /\ l.current = None /\ l.out = k.out /\ l.private = k.private
    <3>1. Internal(first) <=> Internal(item)
      BY <2>3 DEF Internal
    <3> QED  BY <2>3, <2>4, <2>6, <3>1, SetStatusEffect
  <2> HIDE DEF taken
  <2>7. CASE first.of \in Empty
    <3>1. PICK l : l = SetStatus(rest, item, "Error")
      OBVIOUS
    <3>2. handleRequestQueue(k) = l
      BY <2>3, <2>5, <2>7, <3>1
    <3>3. "Error" \in Status
      BY DEF Status
    <3>4. /\ l \in Connection
          /\ l.request = IF Internal(first) THEN k.request
                         ELSE [k.request EXCEPT ![first.of].status = "Error"]
          /\ l.pendingRequests = Tail(k.pendingRequests)
          /\ l.status = k.status /\ l.socket = k.socket /\ l.watcher = k.watcher
          /\ l.lastId = k.lastId /\ l.listening = k.listening
          /\ l.current = None /\ l.out = k.out /\ l.private = k.private
      BY <2>6, <3>1, <3>3
    <3>5. Taken(k, l)
      BY <1>2, <2>7, <3>4 DEF Taken
    <3> QED  BY <3>2, <3>4, <3>5
  <2>8. CASE first.of \notin Empty
    <3>1. PICK l : l = SetStatus(rest, item, "Sent")
      OBVIOUS
    <3>7. "Sent" \in Status
      BY DEF Status
    <3>2. /\ l \in Connection
          /\ l.request = IF Internal(first) THEN k.request
                         ELSE [k.request EXCEPT ![first.of].status = "Sent"]
          /\ l.pendingRequests = Tail(k.pendingRequests)
          /\ l.status = k.status /\ l.socket = k.socket /\ l.watcher = k.watcher
          /\ l.lastId = k.lastId /\ l.listening = k.listening
          /\ l.current = None /\ l.out = k.out /\ l.private = k.private
      BY <2>6, <3>1, <3>7
    <3>5. taken = [l EXCEPT !.current = item]
      BY <3>1 DEF taken
    <3>6. taken \in Connection /\ taken.current = item
          /\ taken.request = l.request /\ taken.pendingRequests = l.pendingRequests
          /\ taken.status = l.status /\ taken.socket = l.socket /\ taken.watcher = l.watcher
          /\ taken.lastId = l.lastId /\ taken.listening = l.listening /\ taken.out = l.out
          /\ taken.private = l.private
      BY <2>3, <3>2, <3>5 DEF Connection
    <3>3. CASE first.of \in Private
      <4>1. PICK m : m = [taken EXCEPT !.private = Append(@, item), !.privatePartitionHandler = TRUE]
        OBVIOUS
      <4>2. handleRequestQueue(k) = m
        BY <2>3, <2>5, <2>8, <3>3, <4>1
      <4>3. m \in Connection /\ m.current = item /\ m.private = Append(k.private, item)
            /\ m.request = l.request /\ m.pendingRequests = l.pendingRequests
            /\ m.status = l.status /\ m.socket = l.socket /\ m.watcher = l.watcher
            /\ m.lastId = l.lastId /\ m.listening = l.listening /\ m.out = l.out
        <5>1. PICK n : n = [taken EXCEPT !.private = Append(@, item)]
          OBVIOUS
        <5>2. Append(taken.private, item) \in Seq(Item) /\ taken.private = k.private
          BY <2>3, <3>2, <3>6, AppendProperties DEF Connection
        <5>3. n \in Connection /\ n.current = item /\ n.private = Append(k.private, item)
              /\ n.request = l.request /\ n.pendingRequests = l.pendingRequests
              /\ n.status = l.status /\ n.socket = l.socket /\ n.watcher = l.watcher
              /\ n.lastId = l.lastId /\ n.listening = l.listening /\ n.out = l.out
          BY <3>6, <5>1, <5>2 DEF Connection
        <5>4. m = [n EXCEPT !.privatePartitionHandler = TRUE]
          BY <3>6, <4>1, <5>1 DEF Connection
        <5> QED  BY <5>3, <5>4 DEF Connection
      <4>4. Taken(k, m)
        BY <1>2, <2>8, <3>2, <3>3, <4>3 DEF Taken, item
      <4> QED  BY <4>2, <4>3, <4>4
    <3>4. CASE first.of \notin Private
      <4>1. PICK m : m = [taken EXCEPT !.out = IF k.socket = "open" THEN Append(@, item) ELSE @]
        OBVIOUS
      <4>2. handleRequestQueue(k) = m
        BY <2>3, <2>5, <2>8, <3>4, <4>1
      <4>3. m \in Connection /\ m.current = item /\ m.out \in {k.out, Append(k.out, item)}
            /\ m.request = l.request /\ m.pendingRequests = l.pendingRequests
            /\ m.status = l.status /\ m.socket = l.socket /\ m.watcher = l.watcher
            /\ m.lastId = l.lastId /\ m.listening = l.listening /\ m.private = l.private
        <5>1. PICK o : o = IF k.socket = "open" THEN Append(taken.out, item) ELSE taken.out
          OBVIOUS
        <5>2. o \in Seq(Item) /\ o \in {k.out, Append(k.out, item)}
          BY <2>3, <3>2, <3>6, <5>1, AppendProperties DEF Connection
        <5>3. m = [taken EXCEPT !.out = o]
          BY <4>1, <5>1
        <5> QED  BY <3>2, <3>6, <5>2, <5>3 DEF Connection
      <4>4. Taken(k, m)
        BY <1>2, <2>8, <3>2, <3>4, <4>3 DEF Taken, item
      <4> QED  BY <4>2, <4>3, <4>4
    <3> QED  BY <3>3, <3>4
  <2> QED  BY <2>7, <2>8
<1> QED  BY <1>1, <1>2

LEMMA Typed ==
    ASSUME NEW k \in Connection
    PROVE  /\ k.request \in [Request -> [status : Status, id : Nat]]
           /\ \A r \in Request : k.request[r].id \in Nat /\ k.request[r].status \in Status
           /\ k.watcher \in [Watcher -> [status : {"Inactive", "Activating", "Active"},
                                         added : BOOLEAN]]
           /\ k.pendingRequests \in Seq(Item) /\ k.private \in Seq(Item) /\ k.out \in Seq(Item)
           /\ \A i \in DOMAIN k.pendingRequests : k.pendingRequests[i] \in Item /\ i \in Nat \ {0}
           /\ \A i \in DOMAIN k.private : k.private[i] \in Item
           /\ k.current \in Item \cup {None}
           /\ k.lastId \in Nat
<1>1. /\ k.request \in [Request -> [status : Status, id : Nat]]
      /\ k.watcher \in [Watcher -> [status : {"Inactive", "Activating", "Active"}, added : BOOLEAN]]
      /\ k.pendingRequests \in Seq(Item) /\ k.private \in Seq(Item) /\ k.out \in Seq(Item)
      /\ k.current \in Item \cup {None}
      /\ k.lastId \in Nat
  BY DEF Connection
<1> QED  BY <1>1

\* The connection keeps its state when it takes the next request.
LEMMA TakenKeeps ==
    ASSUME NEW k \in Connection, NEW m \in Connection, NEW net, Fine(k, net), Taken(k, m)
    PROVE  Fine(m, net)
<1> DEFINE first == Head(k.pendingRequests)
           item == [first EXCEPT !.id = IdOf(k, first)]
<1>1. /\ k.current = None /\ k.status = "Connected" /\ k.pendingRequests # <<>>
      /\ m.pendingRequests = Tail(k.pendingRequests)
      /\ m.status = k.status /\ m.socket = k.socket /\ m.watcher = k.watcher
      /\ m.lastId = k.lastId /\ m.listening = k.listening
  BY DEF Taken
<1>2. /\ first \in Item /\ 1 \in DOMAIN k.pendingRequests /\ first = k.pendingRequests[1]
      /\ \A i \in DOMAIN m.pendingRequests :
            /\ i + 1 \in DOMAIN k.pendingRequests /\ i \in Nat \ {0}
            /\ m.pendingRequests[i] = k.pendingRequests[i + 1]
  BY <1>1, Typed
<1>3. IdOf(k, first) \in Nat
  BY <1>2, Items, Typed DEF IdOf, Internal
<1>4. /\ item \in Item /\ item.of = first.of /\ item.kind = first.kind
      /\ item.id = IdOf(k, first)
  BY <1>2, <1>3, Items DEF Item
<1>5. Internal(first) => item = first
  BY <1>2, <1>4 DEF IdOf, Item
<1>6. ~Internal(first) => first.of \in Request /\ item.id = k.request[first.of].id
  BY <1>2, <1>4, Items DEF IdOf, Internal
<1>7. \/ /\ first.of \in Empty
         /\ m.current = None /\ m.out = k.out /\ m.private = k.private
         /\ m.request = IF Internal(first) THEN k.request
                        ELSE [k.request EXCEPT ![first.of].status = "Error"]
      \/ /\ first.of \notin Empty
         /\ m.current = item
         /\ m.request = IF Internal(first) THEN k.request
                        ELSE [k.request EXCEPT ![first.of].status = "Sent"]
         /\ \/ first.of \in Private /\ m.private = Append(k.private, item) /\ m.out = k.out
            \/ /\ first.of \notin Private /\ m.private = k.private
               /\ m.out \in {k.out, Append(k.out, item)}
  BY DEF Taken
<1> HIDE DEF item
<1>8. /\ \A r \in Request : m.request[r].id = k.request[r].id
      /\ \A r \in Request : Internal(first) \/ r # first.of => m.request[r] = k.request[r]
      /\ ~Internal(first) => m.request[first.of].status \in {"Error", "Sent"}
      /\ m.current # None /\ ~Internal(first) => m.request[first.of].status = "Sent"
      /\ m.current \in {None, item}
  <2>1. k.request \in [Request -> [status : Status, id : Nat]]
    BY Typed
  <2>2. m.current \in {None, item} /\ (m.current # None => first.of \notin Empty)
    BY <1>7
  <2>3. ASSUME NEW status \in Status,
               m.request = IF Internal(first) THEN k.request
                           ELSE [k.request EXCEPT ![first.of].status = status]
        PROVE  /\ \A r \in Request : m.request[r].id = k.request[r].id
               /\ \A r \in Request : Internal(first) \/ r # first.of => m.request[r] = k.request[r]
               /\ ~Internal(first) => m.request[first.of].status = status
    BY <1>6, <2>1, <2>3, SMTT(30)
  <2>4. "Error" \in Status /\ "Sent" \in Status
    BY DEF Status
  <2>5. CASE first.of \in Empty
    BY <1>7, <2>3, <2>4, <2>5
  <2>6. CASE first.of \notin Empty
    BY <1>7, <2>3, <2>4, <2>6
  <2> QED  BY <2>2, <2>5, <2>6
<1>19. \A j \in DOMAIN m.private :
          \/ j \in DOMAIN k.private /\ m.private[j] = k.private[j]
          \/ m.private[j] = item /\ first.of \in Private
  <2>1. k.private \in Seq(Item)
    BY Typed
  <2>2. CASE m.private = k.private
    BY <2>2
  <2>3. CASE m.private = Append(k.private, item) /\ first.of \in Private
    BY <1>4, <2>1, <2>3, AppendProperties
  <2> QED  BY <1>7, <2>2, <2>3
<1>9. Internals(m) \subseteq Internals(k)
  BY <1>2, <1>4, <1>5, <1>8 DEF Internals, Internal
<1>10. Numbered(k) /\ Removals(k) /\ Plugged(k) /\ Wired(k, net) /\ NetType(net)
  BY DEF Fine
<1>11. Numbered(m)
  <2>1. /\ \A r \in Request : m.request[r].id <= m.lastId
        /\ \A r, q \in Request : r # q /\ m.request[r].id = m.request[q].id => m.request[r].id = 0
    BY <1>1, <1>8, <1>10 DEF Numbered
  <2>2. \A i \in DOMAIN m.pendingRequests :
          ~Internal(m.pendingRequests[i]) => m.request[m.pendingRequests[i].of].id > 0
    BY <1>2, <1>8, <1>10, Items, Typed, SMTT(30) DEF Numbered, Internal
  <2>3. \A i \in Internals(m) : i.id \in 1 .. m.lastId /\ Strange(m, i.id)
    BY <1>1, <1>8, <1>9, <1>10 DEF Numbered, Strange
  <2>4. item.id \in 1 .. k.lastId
    <3>1. CASE Internal(first)
      <4>1. first \in Internals(k)
        BY <1>2, <3>1 DEF Internals
      <4> QED  BY <1>5, <1>10, <3>1, <4>1 DEF Numbered
    <3>2. CASE ~Internal(first)
      BY <1>2, <1>6, <1>10, <3>2, Typed DEF Numbered
    <3> QED  BY <3>1, <3>2
  <2>5. m.current # None =>
          /\ m.current.id \in 1 .. m.lastId
          /\ ~Internal(m.current) => m.request[m.current.of].id > 0
    BY <1>1, <1>4, <1>6, <1>8, <2>4 DEF Internal
  <2>6. ASSUME NEW j \in DOMAIN m.private
        PROVE  LET i == m.private[j] IN
               /\ i.kind = "app" /\ i.of \in Private /\ i.id \in 1 .. m.lastId
               /\ Apart(m, i.id)
               /\ \A r \in Request : m.request[r].id = i.id => r = i.of
               /\ m.current # None /\ m.current.id = i.id => m.current.of \in Private
    <3>1. CASE j \in DOMAIN k.private /\ m.private[j] = k.private[j]
      <4>1. LET i == k.private[j] IN
               /\ i.kind = "app" /\ i.of \in Private /\ i.id \in 1 .. k.lastId
               /\ Apart(k, i.id)
               /\ \A r \in Request : k.request[r].id = i.id => r = i.of
        BY <1>10, <3>1 DEF Numbered
      <4>2. item.id = k.private[j].id => item.of \in Private
        <5>1. CASE Internal(first)
          <6>1. first \in Internals(k)
            BY <1>2, <5>1 DEF Internals
          <6> QED  BY <1>5, <4>1, <5>1, <6>1 DEF Apart
        <5>2. CASE ~Internal(first)
          BY <1>4, <1>6, <4>1, <5>2
        <5> QED  BY <5>1, <5>2
      <4> QED  BY <1>1, <1>8, <1>9, <3>1, <4>1, <4>2 DEF Apart
    <3>2. CASE m.private[j] = item /\ first.of \in Private
      <4>1. ~Internal(first)
        BY <1>2, <3>2, Items, ConnectionAssumption DEF Internal
      <4>2. Apart(m, item.id)
        BY <1>6, <1>8, <2>3, <4>1, Typed DEF Apart, Strange
      <4>3. \A r \in Request : m.request[r].id = item.id => r = item.of
        BY <1>4, <1>6, <1>8, <1>10, <2>4, <4>1, Typed, SMTT(30) DEF Numbered
      <4> QED  BY <1>1, <1>4, <1>8, <2>4, <3>2, <4>1, <4>2, <4>3 DEF Internal
    <3> QED  BY <1>19, <3>1, <3>2
  <2> QED  BY <2>1, <2>2, <2>3, <2>5, <2>6 DEF Numbered
<1>12. Removals(m)
  <2>1. \A w : Leaving(m, w) <=> Leaving(k, w)
    BY <1>1 DEF Leaving
  <2>2. IsRemoval(m.current) => m.current = first
    BY <1>4, <1>5, <1>8, Items DEF IsRemoval, Internal
  <2>3. IsRemoval(m.current) =>
          /\ Leaving(m, m.current.of)
          /\ \A i \in DOMAIN m.pendingRequests :
                IsRemoval(m.pendingRequests[i]) => m.pendingRequests[i].of # m.current.of
    BY <1>2, <1>10, <2>1, <2>2 DEF Removals
  <2>4. \A i \in DOMAIN m.pendingRequests :
          IsRemoval(m.pendingRequests[i]) => Leaving(m, m.pendingRequests[i].of)
    BY <1>2, <1>10, <2>1 DEF Removals
  <2>5. \A i, j \in DOMAIN m.pendingRequests :
          IsRemoval(m.pendingRequests[i]) /\ IsRemoval(m.pendingRequests[j])
              /\ m.pendingRequests[i].of = m.pendingRequests[j].of => i + 1 = j + 1
    BY <1>2, <1>10 DEF Removals
  <2> QED  BY <1>2, <2>3, <2>4, <2>5 DEF Removals
<1>13. Plugged(m)
  BY <1>1, <1>10 DEF Plugged
<1>14. net.toServer = <<>> /\ k.out = <<>> /\ net.toClient = <<>>
  BY <1>1, <1>10, Typed DEF Wired, NetType
<1>15. Wired(m, net)
  <2>1. m.out \in {<<>>, <<m.current>>}
        /\ (m.current = None => m.out = <<>>)
        /\ (m.out # <<>> => m.current.of \notin Private)
    BY <1>4, <1>7, <1>14, Items, SMTT(30)
  <2>2. net.toServer \o m.out = m.out
    BY <1>14, Typed
  <2>3. \A w \in Watcher : IsActive(m, w) => w \in net.registered
    BY <1>1, <1>10 DEF Wired, IsActive
  <2>4. ASSUME NEW e \in DOMAIN net.fromPrivate, NEW id, id = net.fromPrivate[e].id
        PROVE  /\ id \in 1 .. m.lastId /\ Apart(m, id)
               /\ \A r \in Request : m.request[r].id = id => r \in Private
               /\ m.current # None /\ m.current.id = id => m.current.of \in Private
    <3>1. /\ id \in 1 .. k.lastId /\ Apart(k, id)
          /\ \A r \in Request : k.request[r].id = id => r \in Private
      BY <1>10, <2>4 DEF Wired
    <3>2. item.id = id => item.of \in Private
      <4>1. CASE Internal(first)
        <5>1. first \in Internals(k)
          BY <1>2, <4>1 DEF Internals
        <5> QED  BY <1>5, <3>1, <4>1, <5>1 DEF Apart
      <4>2. CASE ~Internal(first)
        BY <1>4, <1>6, <3>1, <4>2
      <4> QED  BY <4>1, <4>2
    <3> QED  BY <1>1, <1>8, <1>9, <3>1, <3>2 DEF Apart
  <2> QED  BY <1>14, <2>1, <2>2, <2>3, <2>4 DEF Wired
<1>16. \A i \in DOMAIN m.pendingRequests : IsApp(m.pendingRequests[i]) =>
          m.pendingRequests[i].of \in Request /\ NumberAt(m, i) = NumberAt(k, i + 1)
  BY <1>2, <1>8, Items, Typed, SMTT(30) DEF NumberAt, IsApp
<1>17. ASSUME ~net.resent
       PROVE  Ordered(m) /\ Told(m, net)
  <2>1. Ordered(k) /\ Told(k, net)
    BY <1>17 DEF Fine
  <2>2. \A i, j \in DOMAIN m.pendingRequests :
          i < j /\ IsApp(m.pendingRequests[i]) /\ IsApp(m.pendingRequests[j])
              => NumberAt(m, i) < NumberAt(m, j)
    BY <1>2, <1>16, <2>1 DEF Ordered
  <2>3. \A i \in DOMAIN m.pendingRequests :
          IsApp(first) /\ IsApp(m.pendingRequests[i]) =>
              item.id < NumberAt(m, i) /\ m.pendingRequests[i].of # first.of
    <3> SUFFICES ASSUME NEW i \in DOMAIN m.pendingRequests,
                        IsApp(first), IsApp(m.pendingRequests[i])
                 PROVE  item.id < NumberAt(m, i) /\ m.pendingRequests[i].of # first.of
      OBVIOUS
    <3>1. 1 < i + 1 /\ i + 1 \in DOMAIN k.pendingRequests /\ IsApp(k.pendingRequests[i + 1])
      BY <1>2
    <3>2. NumberAt(k, 1) < NumberAt(k, i + 1)
      BY <1>2, <2>1, <3>1 DEF Ordered
    <3>3. NumberAt(k, 1) = item.id /\ item.id \in Nat
      BY <1>2, <1>4, <1>6, Items DEF NumberAt, IsApp, Internal
    <3>4. NumberAt(m, i) = NumberAt(k, i + 1)
      BY <1>16
    <3>5. m.pendingRequests[i].of = first.of => NumberAt(k, 1) = NumberAt(k, i + 1)
      BY <1>2 DEF NumberAt
    <3> QED  BY <3>2, <3>3, <3>4, <3>5
  <2>4. \A j \in DOMAIN m.private :
          \/ j \in DOMAIN k.private /\ m.private[j] = k.private[j]
          \/ m.private[j] = item /\ first.of \in Private
    BY <1>19
  <2>5. IsApp(first) => \A j \in DOMAIN k.private : k.private[j].id <= item.id
    BY <1>2, <1>6, <2>1 DEF Ordered, NumberAt, IsApp, Internal
  <2>6. IsApp(m.current) =>
          /\ m.current.id = m.request[m.current.of].id
          /\ m.request[m.current.of].status \in {"Sent", "Receiving"}
          /\ \A i \in DOMAIN m.pendingRequests :
                IsApp(m.pendingRequests[i]) => m.current.id < NumberAt(m, i)
          /\ \A j \in DOMAIN m.private : m.private[j].id <= m.current.id
    <3> SUFFICES ASSUME IsApp(m.current) PROVE
          /\ m.current.id = m.request[m.current.of].id
          /\ m.request[m.current.of].status \in {"Sent", "Receiving"}
          /\ \A i \in DOMAIN m.pendingRequests :
                IsApp(m.pendingRequests[i]) => m.current.id < NumberAt(m, i)
          /\ \A j \in DOMAIN m.private : m.private[j].id <= m.current.id
      OBVIOUS
    <3>1. m.current = item /\ IsApp(first) /\ ~Internal(first) /\ m.current # None
      BY <1>4, <1>8, Items DEF IsApp, Internal
    <3>2. m.private \in Seq(Item) /\ item.id \in Nat
      BY <1>4, Typed, Items
    <3> QED  BY <1>4, <1>6, <1>8, <2>3, <2>4, <2>5, <3>1, <3>2
  <2>7. ASSUME NEW i \in DOMAIN m.pendingRequests, IsApp(m.pendingRequests[i])
        PROVE  /\ m.request[m.pendingRequests[i].of].status \in {"Queued", "Error"}
               /\ \A j \in DOMAIN m.private : m.private[j].id <= NumberAt(m, i)
    <3>1. m.request[m.pendingRequests[i].of] = k.request[m.pendingRequests[i].of]
      BY <1>8, <1>16, <2>3, <2>7 DEF IsApp, Internal
    <3>2. m.request[m.pendingRequests[i].of].status \in {"Queued", "Error"}
      BY <1>2, <2>1, <2>7, <3>1 DEF Ordered
    <3>3. \A j \in DOMAIN k.private : k.private[j].id <= NumberAt(m, i)
      BY <1>2, <1>16, <2>1, <2>7 DEF Ordered
    <3>4. first.of \in Private => IsApp(first)
      BY <1>2, Items, ConnectionAssumption DEF IsApp
    <3>5. item.id \in Nat /\ NumberAt(m, i) \in Nat
      BY <1>4, <1>16, <2>7, Items, Typed DEF NumberAt
    <3> QED  BY <2>3, <2>4, <2>7, <3>2, <3>3, <3>4, <3>5
  <2>8. Told(m, net)
    BY <1>8, <1>14, <2>1 DEF Told
  <2> QED  BY <2>2, <2>6, <2>7, <2>8 DEF Ordered
<1>18. ASSUME ~net.resent, ~net.broken
       PROVE  Once(m, net)
  <2>1. Once(k, net)
    BY <1>18 DEF Fine
  <2>2. \A r \in Request : m.request[r].status = "Canceled" => net.ran[r] = 0
    BY <1>8, <2>1 DEF Once
  <2>3. \A i \in DOMAIN m.pendingRequests :
          IsApp(m.pendingRequests[i]) => net.ran[m.pendingRequests[i].of] = 0
    BY <1>2, <2>1 DEF Once
  <2>4. k.private = <<>>
    <3>1. k.private = <<None>> => None \in Item
      BY Typed
    <3> QED  BY <1>1, <2>1, <3>1, Items DEF Once
  <2>5. m.private \in {<<>>, <<m.current>>}
    <3>1. Append(<<>>, item) = <<item>>
      OBVIOUS
    <3> QED  BY <1>7, <2>4, <3>1
  <2>6. IsApp(m.current) => net.ran[m.current.of] = 0
    BY <1>2, <1>4, <1>8, <2>1, Items DEF Once, IsApp
  <2>7. ASSUME NEW e \in DOMAIN net.fromPrivate, NEW id, id = net.fromPrivate[e].id
        PROVE  /\ m.private # <<>> => m.current.id # id
               /\ \A i \in DOMAIN m.pendingRequests :
                     IsApp(m.pendingRequests[i]) => NumberAt(m, i) # id
    <3>1. \A i \in DOMAIN k.pendingRequests : IsApp(k.pendingRequests[i]) => NumberAt(k, i) # id
      BY <2>1, <2>7 DEF Once
    <3>2. \A i \in DOMAIN m.pendingRequests : IsApp(m.pendingRequests[i]) => NumberAt(m, i) # id
      BY <1>2, <1>16, <3>1
    <3>3. ASSUME m.private # <<>> PROVE m.current.id # id
      <4>1. m.current = item /\ first.of \in Private
        BY <1>7, <2>4, <3>3
      <4>2. IsApp(first) /\ ~Internal(first)
        BY <1>2, <4>1, Items, ConnectionAssumption DEF IsApp, Internal
      <4>3. NumberAt(k, 1) = item.id
        BY <1>2, <1>6, <4>2 DEF NumberAt
      <4> QED  BY <1>2, <3>1, <4>1, <4>2, <4>3
    <3> QED  BY <3>2, <3>3
  <2> QED  BY <2>1, <2>2, <2>3, <2>5, <2>6, <2>7 DEF Once
<1> QED  BY <1>10, <1>11, <1>12, <1>13, <1>15, <1>17, <1>18 DEF Fine

LEMMA HandleKeeps ==
    ASSUME NEW k \in Connection, NEW net, Fine(k, net)
    PROVE  LET m == handleRequestQueue(k) IN
           /\ Fine(m, net)
           /\ m.watcher = k.watcher /\ m.status = k.status /\ m.socket = k.socket
<1>1. Fine(handleRequestQueue(k), net)
  BY HandleEffect, TakenKeeps
<1>2. \A m : Taken(k, m) => m.watcher = k.watcher /\ m.status = k.status /\ m.socket = k.socket
  BY DEF Taken
<1> QED  BY <1>1, <1>2, HandleEffect

-----------------------------------------------------------------------------
(***************************************************************************)
(* Entries that come and go.                                               *)
(***************************************************************************)
\* The queue q is made of entries of p, in their order, and of some of new.
Made(q, p, new) ==
    \E at \in [DOMAIN q -> 0 .. Len(p)] :
        /\ \A i \in DOMAIN q : IF at[i] = 0 THEN q[i] \in new ELSE q[i] = p[at[i]]
        /\ \A i, j \in DOMAIN q : i < j /\ at[i] # 0 /\ at[j] # 0 => at[i] < at[j]
        /\ \A i, j \in DOMAIN q : i # j => at[i] # at[j]

LEMMA InsertedInternal ==
    ASSUME NEW queue \in Seq(Item), NEW item \in Item, Internal(item)
    PROVE  Inserted(queue, item) \in Seq(Item) /\ Made(Inserted(queue, item), queue, {item})
<1> DEFINE before == {i \in 1 .. Len(queue) : \A j \in 1 .. i : Internal(queue[j])}
<1>1. Len(queue) \in Nat /\ IsFiniteSet(1 .. Len(queue)) /\ Cardinality(1 .. Len(queue)) = Len(queue)
  <2>1. Len(queue) \in Nat
    OBVIOUS
  <2>2. IsFiniteSet(1 .. Len(queue)) /\ Cardinality(1 .. Len(queue)) =
            IF 1 > Len(queue) THEN 0 ELSE Len(queue) - 1 + 1
    BY <2>1, FS_Interval
  <2> QED  BY <2>1, <2>2
<1>2. Cardinality(before) \in 0 .. Len(queue)
  <2>1. before \subseteq 1 .. Len(queue)
    OBVIOUS
  <2> HIDE DEF before
  <2>2. IsFiniteSet(before) /\ Cardinality(before) <= Cardinality(1 .. Len(queue))
    BY <1>1, <2>1, FS_Subset
  <2> QED  BY <1>1, <2>2, FS_CardinalityType
<1> HIDE DEF before
<1>3. PICK p \in 1 .. Len(queue) + 1 : p = Cardinality(before) + 1
  BY <1>1, <1>2
<1>4. PICK q : q = InsertAt(queue, p, item)
  OBVIOUS
<1>5. Inserted(queue, item) = q
  BY <1>3, <1>4 DEF Inserted, before
<1>6. /\ q \in Seq(Item) /\ Len(q) = Len(queue) + 1
      /\ \A j \in 1 .. Len(queue) + 1 :
            q[j] = IF j < p THEN queue[j] ELSE IF j = p THEN item ELSE queue[j - 1]
  <2>1. item \in Item /\ queue \in Seq(Item) /\ p \in 1 .. Len(queue) + 1
    OBVIOUS
  <2> HIDE DEF before
  <2>2. /\ InsertAt(queue, p, item) \in Seq(Item)
        /\ Len(InsertAt(queue, p, item)) = Len(queue) + 1
        /\ \A j \in 1 .. Len(queue) + 1 : InsertAt(queue, p, item)[j] =
              IF j < p THEN queue[j] ELSE IF j = p THEN item ELSE queue[j - 1]
    BY <2>1, InsertAtFacts
  <2> QED  BY <1>4, <2>2
<1>7. DOMAIN q = 1 .. Len(queue) + 1
  BY <1>6
<1>8. PICK at : at = [j \in 1 .. Len(queue) + 1 |-> IF j < p THEN j ELSE IF j = p THEN 0 ELSE j - 1]
  OBVIOUS
<1>9. at \in [DOMAIN q -> 0 .. Len(queue)]
  BY <1>1, <1>7, <1>8
<1>10. \A i \in DOMAIN q : IF at[i] = 0 THEN q[i] \in {item} ELSE q[i] = queue[at[i]]
  BY <1>1, <1>6, <1>7, <1>8
<1>11. /\ \A i, j \in DOMAIN q : i < j /\ at[i] # 0 /\ at[j] # 0 => at[i] < at[j]
       /\ \A i, j \in DOMAIN q : i # j => at[i] # at[j]
  BY <1>1, <1>7, <1>8
<1> QED  BY <1>5, <1>6, <1>9, <1>10, <1>11 DEF Made

\* An internal entry for w joins the queue.
LEMMA QueuedKeeps ==
    ASSUME NEW k \in Connection, NEW m \in Connection, NEW net, Fine(k, net),
           NEW w \in Watcher, NEW new \in Item,
           new.kind \in {"add", "remove"}, new.of = w, new.id = k.lastId + 1,
           m.lastId = k.lastId + 1,
           Made(m.pendingRequests, k.pendingRequests, {new}),
           m.request = k.request, m.current = k.current, m.private = k.private, m.out = k.out,
           m.status = k.status, m.socket = k.socket,
           ~Leaving(k, w), ~IsActive(m, w), IsRemoval(new) => Leaving(m, w),
           \A u \in Watcher : u # w => m.watcher[u] = k.watcher[u]
    PROVE  Fine(m, net)
<1>1. Numbered(k) /\ Removals(k) /\ Plugged(k) /\ Wired(k, net) /\ NetType(net)
  BY DEF Fine
<1>2. PICK at \in [DOMAIN m.pendingRequests -> 0 .. Len(k.pendingRequests)] :
        /\ \A i \in DOMAIN m.pendingRequests :
              IF at[i] = 0 THEN m.pendingRequests[i] \in {new}
                           ELSE m.pendingRequests[i] = k.pendingRequests[at[i]]
        /\ \A i, j \in DOMAIN m.pendingRequests :
              i < j /\ at[i] # 0 /\ at[j] # 0 => at[i] < at[j]
        /\ \A i, j \in DOMAIN m.pendingRequests : i # j => at[i] # at[j]
  BY DEF Made
<1>3. \A i \in DOMAIN m.pendingRequests :
          \/ at[i] = 0 /\ m.pendingRequests[i] = new
          \/ /\ at[i] \in DOMAIN k.pendingRequests
             /\ m.pendingRequests[i] = k.pendingRequests[at[i]]
             /\ at[i] # 0
  BY <1>2, Typed
<1>4. Internal(new) /\ ~IsApp(new)
  BY DEF Internal, IsApp
<1>5. Internals(m) \subseteq Internals(k) \cup {new}
  BY <1>3 DEF Internals
<1>6. k.lastId \in Nat /\ \A r \in Request : k.request[r].id \in Nat
  BY Typed
<1>7. \A i \in Internals(m) : i.id \in 1 .. m.lastId /\ Strange(m, i.id)
  <2>1. new.id \in 1 .. m.lastId /\ Strange(m, new.id)
    BY <1>1, <1>6 DEF Numbered, Strange
  <2>2. \A i \in Internals(k) : i.id \in 1 .. m.lastId /\ Strange(m, i.id)
    BY <1>1, <1>6 DEF Numbered, Strange
  <2> QED  BY <1>5, <2>1, <2>2
<1>8. ASSUME NEW id \in 1 .. k.lastId, Apart(k, id) PROVE Apart(m, id)
  BY <1>5, <1>6, <1>8 DEF Apart
<1>9. Numbered(m)
  <2>1. /\ \A r \in Request : m.request[r].id <= m.lastId
        /\ \A r, q \in Request : r # q /\ m.request[r].id = m.request[q].id => m.request[r].id = 0
        /\ m.current # None =>
              /\ m.current.id \in 1 .. m.lastId
              /\ ~Internal(m.current) => m.request[m.current.of].id > 0
    BY <1>1, <1>6 DEF Numbered
  <2>2. \A i \in DOMAIN m.pendingRequests :
          ~Internal(m.pendingRequests[i]) => m.request[m.pendingRequests[i].of].id > 0
    BY <1>1, <1>3, <1>4 DEF Numbered
  <2>3. \A j \in DOMAIN m.private :
          LET i == m.private[j] IN
          /\ i.kind = "app" /\ i.of \in Private /\ i.id \in 1 .. m.lastId
          /\ Apart(m, i.id)
          /\ \A r \in Request : m.request[r].id = i.id => r = i.of
          /\ m.current # None /\ m.current.id = i.id => m.current.of \in Private
    BY <1>1, <1>6, <1>8 DEF Numbered
  <2> QED  BY <1>7, <2>1, <2>2, <2>3 DEF Numbered
<1>10. Removals(m)
  <2>1. \A u \in Watcher : Leaving(k, u) => Leaving(m, u)
    BY DEF Leaving
  <2>2. \A item \in Item : IsRemoval(item) => item.of \in Watcher
    BY Items DEF IsRemoval
  <2>3. \A i \in DOMAIN k.pendingRequests : IsRemoval(k.pendingRequests[i]) =>
            /\ k.pendingRequests[i].of # w
            /\ Leaving(m, k.pendingRequests[i].of)
    BY <1>1, <2>1, <2>2, Typed DEF Removals
  <2>4. IsRemoval(k.current) => k.current.of # w /\ Leaving(m, k.current.of)
    BY <1>1, <2>1, <2>2, Typed, Items DEF Removals, IsRemoval
  <2>5. IsRemoval(m.current) =>
          /\ Leaving(m, m.current.of)
          /\ \A i \in DOMAIN m.pendingRequests :
                IsRemoval(m.pendingRequests[i]) => m.pendingRequests[i].of # m.current.of
    BY <1>1, <1>3, <2>4 DEF Removals
  <2>6. \A i \in DOMAIN m.pendingRequests :
          IsRemoval(m.pendingRequests[i]) => Leaving(m, m.pendingRequests[i].of)
    BY <1>3, <2>3
  <2>7. ASSUME NEW i \in DOMAIN m.pendingRequests, NEW j \in DOMAIN m.pendingRequests,
               IsRemoval(m.pendingRequests[i]), IsRemoval(m.pendingRequests[j]),
               m.pendingRequests[i].of = m.pendingRequests[j].of, i # j
        PROVE  FALSE
    BY <1>1, <1>2, <1>3, <2>3, <2>7 DEF Removals
  <2> QED  BY <2>5, <2>6, <2>7 DEF Removals
<1>11. \A u \in Watcher : IsActive(m, u) => IsActive(k, u)
  BY DEF IsActive
<1>12. Plugged(m)
  BY <1>1, <1>11 DEF Plugged
<1>13. Wired(m, net)
  <2>1. \A e \in DOMAIN net.fromPrivate :
          LET id == net.fromPrivate[e].id IN
          /\ id \in 1 .. m.lastId /\ Apart(m, id)
          /\ \A r \in Request : m.request[r].id = id => r \in Private
          /\ m.current # None /\ m.current.id = id => m.current.of \in Private
    BY <1>1, <1>6, <1>8 DEF Wired
  <2> QED  BY <1>1, <1>11, <2>1 DEF Wired
<1>14. \A i \in DOMAIN m.pendingRequests : IsApp(m.pendingRequests[i]) =>
          /\ at[i] \in DOMAIN k.pendingRequests /\ m.pendingRequests[i] = k.pendingRequests[at[i]]
          /\ at[i] # 0 /\ NumberAt(m, i) = NumberAt(k, at[i])
  BY <1>3, <1>4 DEF NumberAt
<1>15. ASSUME ~net.resent
       PROVE  Ordered(m) /\ Told(m, net)
  <2>1. Ordered(k) /\ Told(k, net)
    BY <1>15 DEF Fine
  <2>2. Ordered(m)
    BY <1>2, <1>14, <2>1 DEF Ordered
  <2> QED  BY <2>1, <2>2 DEF Told
<1>16. ASSUME ~net.resent, ~net.broken
       PROVE  Once(m, net)
  BY <1>14, <1>16 DEF Fine, Once
<1> QED  BY <1>1, <1>9, <1>10, <1>12, <1>13, <1>15, <1>16 DEF Fine

LEMMA SendKeeps ==
    ASSUME NEW k \in Connection, NEW j \in Connection, NEW net, Fine(k, net),
           NEW w \in Watcher, NEW kind \in {"add", "remove"},
           j.request = k.request, j.current = k.current, j.private = k.private, j.out = k.out,
           j.status = k.status, j.socket = k.socket, j.lastId = k.lastId,
           j.pendingRequests = k.pendingRequests,
           ~Leaving(k, w), ~IsActive(j, w), kind = "remove" => Leaving(j, w),
           \A u \in Watcher : u # w => j.watcher[u] = k.watcher[u]
    PROVE  LET m == send(j, kind, w) IN
           /\ Fine(m, net)
           /\ m.watcher = j.watcher /\ m.status = j.status /\ m.socket = j.socket
<1>1. PICK item : item = [kind |-> kind, of |-> w, id |-> k.lastId + 1]
  OBVIOUS
<1>2. k.lastId + 1 \in Nat
  BY Typed
<1>3. item \in Item /\ Internal(item) /\ item.kind = kind /\ item.of = w /\ item.id = k.lastId + 1
  BY <1>1, <1>2 DEF Item, Internal
<1>4. PICK q : q = Inserted(j.pendingRequests, item)
  OBVIOUS
<1>5. q \in Seq(Item) /\ Made(q, k.pendingRequests, {item})
  BY <1>3, <1>4, InsertedInternal, Typed
<1>6. PICK n : n = [j EXCEPT !.lastId = k.lastId + 1]
  OBVIOUS
<1>7. /\ n \in Connection /\ n.lastId = k.lastId + 1 /\ n.pendingRequests = j.pendingRequests
      /\ n.request = j.request /\ n.current = j.current /\ n.private = j.private
      /\ n.out = j.out /\ n.status = j.status /\ n.socket = j.socket /\ n.watcher = j.watcher
  BY <1>2, <1>6 DEF Connection
<1>8. PICK m : m = [n EXCEPT !.pendingRequests = q]
  OBVIOUS
<1>9. /\ m \in Connection /\ m.lastId = k.lastId + 1 /\ m.pendingRequests = q
      /\ m.request = k.request /\ m.current = k.current /\ m.private = k.private
      /\ m.out = k.out /\ m.status = k.status /\ m.socket = k.socket /\ m.watcher = j.watcher
  BY <1>5, <1>7, <1>8, ZenonT(60) DEF Connection
<1>10. m = [j EXCEPT !.lastId = k.lastId + 1, !.pendingRequests = Inserted(@, item)]
  BY <1>4, <1>6, <1>7, <1>8 DEF Connection
<1>11. send(j, kind, w) = handleRequestQueue(m)
  BY <1>1, <1>10 DEF send
<1>12. ~IsActive(m, w) /\ (IsRemoval(item) => Leaving(m, w))
  BY <1>3, <1>9 DEF IsActive, Leaving, IsRemoval
<1>13. Fine(m, net)
  <2>1. /\ item.kind \in {"add", "remove"} /\ item.of = w /\ item.id = k.lastId + 1
        /\ m.lastId = k.lastId + 1
        /\ Made(m.pendingRequests, k.pendingRequests, {item})
        /\ \A u \in Watcher : u # w => m.watcher[u] = k.watcher[u]
    BY <1>3, <1>5, <1>9
  <2> QED  BY <1>3, <1>9, <1>12, <2>1, QueuedKeeps
<1> QED  BY <1>9, <1>11, <1>13, HandleKeeps

Listening(k, w, entry, l) == [k EXCEPT !.watcher[w] = entry, !.listening = l]

LEMMA Quiet ==
    ASSUME NEW k \in Connection, NEW w \in Watcher, NEW l \in SUBSET (Watcher \X Nat),
           NEW entry \in [status : {"Inactive", "Activating", "Active"}, added : BOOLEAN]
    PROVE  LET j == Listening(k, w, entry, l) IN
           /\ j \in Connection
           /\ j.watcher = [k.watcher EXCEPT ![w] = entry]
           /\ j.request = k.request /\ j.current = k.current /\ j.private = k.private
           /\ j.out = k.out /\ j.status = k.status /\ j.socket = k.socket
           /\ j.lastId = k.lastId /\ j.pendingRequests = k.pendingRequests
<1>1. PICK f : f = [k.watcher EXCEPT ![w] = entry]
  OBVIOUS
<1>2. f \in [Watcher -> [status : {"Inactive", "Activating", "Active"}, added : BOOLEAN]]
  BY <1>1, Typed
<1>3. PICK n : n = [k EXCEPT !.watcher = f]
  OBVIOUS
<1>4. /\ n \in Connection /\ n.watcher = f
      /\ n.request = k.request /\ n.current = k.current /\ n.private = k.private
      /\ n.out = k.out /\ n.status = k.status /\ n.socket = k.socket
      /\ n.lastId = k.lastId /\ n.pendingRequests = k.pendingRequests
  BY <1>2, <1>3 DEF Connection
<1>5. PICK j : j = [n EXCEPT !.listening = l]
  OBVIOUS
<1>6. /\ j \in Connection /\ j.watcher = f
      /\ j.request = k.request /\ j.current = k.current /\ j.private = k.private
      /\ j.out = k.out /\ j.status = k.status /\ j.socket = k.socket
      /\ j.lastId = k.lastId /\ j.pendingRequests = k.pendingRequests
  BY <1>4, <1>5 DEF Connection
<1>7. j = Listening(k, w, entry, l)
  BY <1>1, <1>3, <1>4, <1>5 DEF Connection, Listening
<1> QED  BY <1>1, <1>6, <1>7

LEMMA InitWatcherKeeps ==
    ASSUME NEW k \in Connection, NEW net, Fine(k, net), NEW w \in Watcher, ~Leaving(k, w)
    PROVE  LET m == initWatcher(k, w) IN
           /\ Fine(m, net)
           /\ m.watcher = [k.watcher EXCEPT ![w] = [status |-> "Activating", added |-> TRUE]]
           /\ m.status = k.status /\ m.socket = k.socket
<1>1. PICK entry : entry = [status |-> "Activating", added |-> TRUE]
  OBVIOUS
<1>2. PICK l : l = {e \in k.listening : e[1] # w} \cup {<<w, k.lastId + 1>>}
  OBVIOUS
<1>3. l \in SUBSET (Watcher \X Nat)
  <2>1. k.listening \in SUBSET (Watcher \X Nat) /\ k.lastId + 1 \in Nat
    BY DEF Connection
  <2> QED  BY <1>2, <2>1
<1>4. PICK j : j = Listening(k, w, entry, l)
  OBVIOUS
<1>5. initWatcher(k, w) = send(j, "add", w)
  BY <1>1, <1>2, <1>4 DEF initWatcher, NotListening, Connection, Listening
<1>6. entry \in [status : {"Inactive", "Activating", "Active"}, added : BOOLEAN]
  BY <1>1
<1>7. /\ j \in Connection
      /\ j.watcher = [k.watcher EXCEPT ![w] = entry]
      /\ j.request = k.request /\ j.current = k.current /\ j.private = k.private
      /\ j.out = k.out /\ j.status = k.status /\ j.socket = k.socket
      /\ j.lastId = k.lastId /\ j.pendingRequests = k.pendingRequests
  BY <1>3, <1>4, <1>6, Quiet
<1>8. /\ ~IsActive(j, w)
      /\ \A u \in Watcher : u # w => j.watcher[u] = k.watcher[u]
  BY <1>1, <1>7, Typed DEF IsActive
<1>9. /\ Fine(send(j, "add", w), net) /\ send(j, "add", w).watcher = j.watcher
      /\ send(j, "add", w).status = j.status /\ send(j, "add", w).socket = j.socket
  BY <1>7, <1>8, SendKeeps, ZenonT(60)
<1> QED  BY <1>1, <1>5, <1>7, <1>9

LEMMA ReactivateKeeps ==
    ASSUME NEW k \in Connection, NEW net, Fine(k, net)
    PROVE  LET m == reactivateAllWatchers(k) IN
           Fine(m, net) /\ m.status = k.status /\ m.socket = k.socket
<1> DEFINE T == {w \in Watcher : k.watcher[w].added}
           order == SetToSeq(T)
           n == Len(order)
           S == {m \in Connection :
                    /\ Fine(m, net) /\ m.status = k.status /\ m.socket = k.socket
                    /\ \A w \in T : m.watcher[w].added}
           after == CHOOSE f : f = [i \in 0 .. n |-> IF i = 0 THEN k
                                                     ELSE initWatcher(f[i - 1], order[i])]
<1>1. order \in Seq(T)
  <2>1. T \subseteq Watcher /\ IsFiniteSet(T)
    BY ConnectionAssumption, FS_Subset
  <2> HIDE DEF T
  <2> QED  BY <2>1, SetToSeqFacts
<1>2. n \in Nat /\ \A i \in 1 .. n : order[i] \in T
  <2> HIDE DEF order, T
  <2> QED  BY <1>1
<1>3. k \in S
  OBVIOUS
<1>4. ASSUME NEW m \in S, NEW w \in T
      PROVE  initWatcher(m, w) \in S
  <2>1. m \in Connection /\ Fine(m, net) /\ w \in Watcher /\ ~Leaving(m, w)
    BY DEF Leaving
  <2>2. LET h == initWatcher(m, w) IN
        /\ Fine(h, net)
        /\ h.watcher = [m.watcher EXCEPT ![w] = [status |-> "Activating", added |-> TRUE]]
        /\ h.status = m.status /\ h.socket = m.socket
    BY <2>1, InitWatcherKeeps
  <2>3. initWatcher(m, w) \in Connection
    BY <2>2 DEF Fine
  <2>4. \A u \in T : initWatcher(m, w).watcher[u].added
    <3>1. m.watcher \in [Watcher -> [status : {"Inactive", "Activating", "Active"}, added : BOOLEAN]]
      BY <2>1, Typed
    <3> QED  BY <2>2, <3>1
  <2> QED  BY <2>2, <2>3, <2>4
<1>5. reactivateAllWatchers(k) = after[n]
  BY DEF reactivateAllWatchers
<1> HIDE DEF S, T, order, n
<1>6. PICK step : step = [i \in 1 .. n |-> [m \in S |-> initWatcher(m, order[i])]]
  OBVIOUS
<1>7. step \in [1 .. n -> [S -> S]]
  BY <1>2, <1>4, <1>6
<1>8. PICK f \in [0 .. n -> S] : f[0] = k /\ \A i \in 1 .. n : f[i] = step[i][f[i - 1]]
  BY <1>2, <1>3, <1>7, RecursionExists DEF Steps, Recursion
<1>9. f = [i \in 0 .. n |-> IF i = 0 THEN k ELSE initWatcher(f[i - 1], order[i])]
  <2>1. \A i \in 1 .. n : f[i] = initWatcher(f[i - 1], order[i])
    <3> TAKE i \in 1 .. n
    <3>1. i - 1 \in 0 .. n
      BY <1>2
    <3>2. f[i - 1] \in S /\ step[i] = [m \in S |-> initWatcher(m, order[i])]
      BY <1>6, <1>8, <3>1
    <3> QED  BY <1>8, <3>2
  <2>2. \A i \in 0 .. n : i = 0 \/ i \in 1 .. n
    BY <1>2
  <2> QED  BY <1>8, <2>1, <2>2
<1>10. after = [i \in 0 .. n |-> IF i = 0 THEN k ELSE initWatcher(after[i - 1], order[i])]
  BY <1>9
<1> HIDE DEF after
<1>11. after[0] \in S /\ \A i \in 1 .. n : after[i - 1] \in S => after[i] \in S
  <2>1. 0 \in 0 .. n /\ \A i \in 1 .. n : i \in 0 .. n /\ i # 0
    BY <1>2
  <2>2. after[0] = k
    BY <1>10, <2>1
  <2>3. \A i \in 1 .. n : after[i] = initWatcher(after[i - 1], order[i])
    BY <1>10, <2>1
  <2> QED  BY <1>2, <1>3, <1>4, <2>2, <2>3
<1>12. after[n] \in S
  <2>1. \A i \in 0 .. n : after[i] \in S
    BY <1>2, <1>11, Stays
  <2> QED  BY <1>2, <2>1
<1> QED  BY <1>5, <1>12 DEF S

\* Signals of the private partition's thread are only ever forgotten.
Fewer(p, q) ==
    /\ p \in Seq(Event)
    /\ \A e \in DOMAIN p : \E d \in DOMAIN q : p[e] = q[d]

LEMMA FewerFacts ==
    ASSUME NEW q \in Seq(Event)
    PROVE  Fewer(q, q) /\ Fewer(<<>>, q) /\ (q # <<>> => Fewer(Tail(q), q) /\ Head(q) = q[1])
<1>1. Fewer(q, q)
  BY DEF Fewer
<1>2. Fewer(<<>>, q)
  <2>1. <<>> \in Seq(Event) /\ DOMAIN <<>> = {}
    OBVIOUS
  <2> QED  BY <2>1 DEF Fewer
<1>3. ASSUME q # <<>> PROVE Fewer(Tail(q), q) /\ Head(q) = q[1]
  <2>1. Tail(q) \in Seq(Event)
    BY <1>3
  <2>2. \A e \in DOMAIN Tail(q) : e + 1 \in DOMAIN q /\ Tail(q)[e] = q[e + 1]
    BY <1>3
  <2> QED  BY <1>3, <2>1, <2>2 DEF Fewer
<1> QED  BY <1>1, <1>2, <1>3

\* What the requests and watchers do not see.
LEMMA SameKeeps ==
    ASSUME NEW k \in Connection, NEW m \in Connection, NEW net, NEW now, Fine(k, net),
           m.request = k.request, m.pendingRequests = k.pendingRequests,
           m.current = k.current, m.private = k.private, m.lastId = k.lastId,
           m.watcher = k.watcher, Plugged(m),
           now.toServer \in Seq(Item), now.toServer \o m.out = net.toServer \o k.out,
           now.toClient = net.toClient, Fewer(now.fromPrivate, net.fromPrivate),
           \/ now.registered = net.registered
           \/ net.toClient = <<>> /\ \A w \in Watcher : IsActive(k, w) => w \in now.registered,
           now.ran = net.ran, net.resent => now.resent, net.broken => now.broken
    PROVE  Fine(m, now)
<1>1. Numbered(k) /\ Removals(k) /\ Wired(k, net) /\ NetType(net)
  BY DEF Fine
<1>2. /\ \A item : item \in Internals(m) <=> item \in Internals(k)
      /\ \A id : Apart(m, id) <=> Apart(k, id)
      /\ \A id : Strange(m, id) <=> Strange(k, id)
      /\ \A w : (Leaving(m, w) <=> Leaving(k, w)) /\ (IsActive(m, w) <=> IsActive(k, w))
      /\ \A i : NumberAt(m, i) = NumberAt(k, i)
  BY DEF Internals, Apart, Strange, Leaving, IsActive, NumberAt
<1>3. \A e \in DOMAIN now.fromPrivate : \E d \in DOMAIN net.fromPrivate :
          now.fromPrivate[e] = net.fromPrivate[d]
  BY DEF Fewer
<1>4. NetType(now)
  BY <1>1 DEF NetType, Fewer
<1>5. Numbered(m)
  BY <1>1, <1>2 DEF Numbered
<1>6. Removals(m)
  BY <1>1, <1>2 DEF Removals
<1>7. Wired(m, now)
  <2>1. \A e \in DOMAIN now.fromPrivate :
          LET id == now.fromPrivate[e].id IN
          /\ id \in 1 .. m.lastId /\ Apart(m, id)
          /\ \A r \in Request : m.request[r].id = id => r \in Private
          /\ m.current # None /\ m.current.id = id => m.current.of \in Private
    BY <1>1, <1>2, <1>3 DEF Wired
  <2>2. now.toClient # <<>> =>
          /\ Len(now.toClient) = 1 /\ now.toClient[1].id = m.current.id
          /\ m.current.of \notin Private
          /\ m.current.kind = "add" /\ now.toClient[1].ok => m.current.of \in now.registered
    BY <1>1 DEF Wired
  <2>3. \A w \in Watcher : IsActive(k, w) => w \in now.registered
    BY <1>1 DEF Wired
  <2> QED  BY <1>1, <1>2, <2>1, <2>2, <2>3 DEF Wired
<1>8. ~now.resent => Ordered(m) /\ Told(m, now)
  <2> SUFFICES ASSUME ~now.resent PROVE Ordered(m) /\ Told(m, now)
    OBVIOUS
  <2>1. Ordered(k) /\ Told(k, net)
    BY DEF Fine
  <2>2. Ordered(m)
    BY <1>2, <2>1 DEF Ordered
  <2>3. Told(m, now)
    BY <1>3, <2>1 DEF Told
  <2> QED  BY <2>2, <2>3
<1>9. ~now.resent /\ ~now.broken => Once(m, now)
  BY <1>2, <1>3 DEF Fine, Once
<1> QED  BY <1>4, <1>5, <1>6, <1>7, <1>8, <1>9 DEF Fine

\* The connection is established: nothing was under way.
LEMMA ConnectKeeps ==
    ASSUME NEW k \in Connection, NEW net, NEW now, Fine(k, net),
           k.socket = "none", k.out = <<>>,
           now.toServer = <<>>, now.toClient = <<>>, now.fromPrivate = net.fromPrivate,
           now.ran = net.ran, now.resent = net.resent, now.broken = net.broken
    PROVE  Fine(_q_onConnected(k), now) /\ _q_onConnected(k).socket = "open"
<1>1. Plugged(k) /\ Wired(k, net) /\ NetType(net)
  BY DEF Fine
<1>2. k.current = None /\ \A w \in Watcher : ~IsActive(k, w)
  BY <1>1 DEF Plugged
<1>3. net.toServer \o k.out = <<>> /\ net.toClient = <<>>
  BY <1>1, <1>2 DEF Wired
<1>4. PICK j : j = [k EXCEPT !.status = "Connected"]
  OBVIOUS
<1>5. /\ j \in Connection /\ j.status = "Connected"
      /\ j.request = k.request /\ j.pendingRequests = k.pendingRequests
      /\ j.current = k.current /\ j.private = k.private /\ j.lastId = k.lastId
      /\ j.watcher = k.watcher /\ j.out = k.out
  BY <1>4 DEF Connection
<1>6. PICK m : m = [j EXCEPT !.socket = "open"]
  OBVIOUS
<1>7. /\ m \in Connection /\ m.status = "Connected" /\ m.socket = "open"
      /\ m.request = k.request /\ m.pendingRequests = k.pendingRequests
      /\ m.current = k.current /\ m.private = k.private /\ m.lastId = k.lastId
      /\ m.watcher = k.watcher /\ m.out = k.out
  BY <1>5, <1>6 DEF Connection
<1>8. m = [k EXCEPT !.status = "Connected", !.socket = "open"]
  BY <1>4, <1>5, <1>6 DEF Connection
<1>9. Plugged(m)
  BY <1>7 DEF Plugged
<1>10. now.toServer \in Seq(Item) /\ now.toServer \o m.out = net.toServer \o k.out
  BY <1>3, <1>7
<1>11. Fine(m, now)
  <2>1. Fewer(now.fromPrivate, net.fromPrivate)
    BY <1>1, FewerFacts DEF NetType
  <2> QED  BY <1>2, <1>3, <1>7, <1>9, <1>10, <2>1, SameKeeps
<1>12. PICK l : l = reactivateAllWatchers(m)
  OBVIOUS
<1>13. Fine(l, now) /\ l.socket = "open" /\ l \in Connection
  BY <1>7, <1>11, <1>12, ReactivateKeeps DEF Fine
<1>14. _q_onConnected(k) = handleRequestQueue(l)
  BY <1>8, <1>12 DEF _q_onConnected
<1> QED  BY <1>13, <1>14, HandleKeeps

\* What the request in flight becomes when the connection is gone.
LEMMA BackEffect ==
    ASSUME NEW k \in Connection
    PROVE  LET m == _q_onDisconnected(k) IN
           /\ m \in Connection
           /\ m.socket = "none" /\ m.status # "Connected" /\ m.current = None
           /\ m.private = k.private /\ m.lastId = k.lastId /\ m.out = k.out
           /\ m.watcher = Deactivated(k)
           /\ IF k.current # None /\ ~Internal(k.current)
              THEN /\ m.request = [k.request EXCEPT ![k.current.of].status = "Error"]
                   /\ m.pendingRequests = <<[k.current EXCEPT !.id = 0]>> \o k.pendingRequests
              ELSE m.request = k.request /\ m.pendingRequests = k.pendingRequests
<1> DEFINE item == k.current
<1>1. PICK back : back = PutBack(k)
  OBVIOUS
<1>2. /\ back \in Connection /\ back.current = None
      /\ back.private = k.private /\ back.lastId = k.lastId /\ back.out = k.out
      /\ back.status = k.status
      /\ IF k.current # None /\ ~Internal(k.current)
         THEN /\ back.request = [k.request EXCEPT ![item.of].status = "Error"]
              /\ back.pendingRequests = <<[item EXCEPT !.id = 0]>> \o k.pendingRequests
         ELSE back.request = k.request /\ back.pendingRequests = k.pendingRequests
  <2>1. CASE k.current = None
    BY <1>1, <2>1 DEF PutBack
  <2>2. CASE k.current # None
    <3>1. item \in Item
      BY <2>2, Typed
    <3>2. PICK l : l = SetStatus(k, item, "Error")
      OBVIOUS
    <3>3. "Error" \in Status
      BY DEF Status
    <3>4. /\ l \in Connection
          /\ l.request = IF Internal(item) THEN k.request
                         ELSE [k.request EXCEPT ![item.of].status = "Error"]
          /\ l.status = k.status /\ l.pendingRequests = k.pendingRequests
          /\ l.lastId = k.lastId /\ l.out = k.out /\ l.private = k.private
      BY <3>1, <3>2, <3>3, SetStatusEffect
    <3>5. PICK q : q = IF Internal(item) THEN k.pendingRequests
                       ELSE <<[item EXCEPT !.id = 0]>> \o k.pendingRequests
      OBVIOUS
    <3>6. q \in Seq(Item)
      <4>1. [item EXCEPT !.id = 0] \in Item /\ k.pendingRequests \in Seq(Item)
        BY <3>1, Items, Typed
      <4> HIDE DEF item
      <4>2. <<[item EXCEPT !.id = 0]>> \in Seq(Item)
        BY <4>1
      <4>3. <<[item EXCEPT !.id = 0]>> \o k.pendingRequests \in Seq(Item)
        BY <4>1, <4>2, ConcatProperties
      <4> QED  BY <3>5, <4>1, <4>3
    <3>7. PICK j : j = [l EXCEPT !.current = None]
      OBVIOUS
    <3>8. /\ j \in Connection /\ j.current = None /\ j.request = l.request
          /\ j.status = l.status /\ j.pendingRequests = l.pendingRequests
          /\ j.lastId = l.lastId /\ j.out = l.out /\ j.private = l.private
      BY <3>4, <3>7 DEF Connection
    <3>9. PICK m : m = [j EXCEPT !.pendingRequests = q]
      OBVIOUS
    <3>10. /\ m \in Connection /\ m.current = None /\ m.request = l.request
           /\ m.status = l.status /\ m.pendingRequests = q
           /\ m.lastId = l.lastId /\ m.out = l.out /\ m.private = l.private
      BY <3>6, <3>8, <3>9 DEF Connection
    <3>11. back = m
      BY <1>1, <2>2, <3>2, <3>4, <3>5, <3>7, <3>9 DEF PutBack, Connection
    <3> QED  BY <2>2, <3>4, <3>5, <3>10, <3>11
  <2> QED  BY <2>1, <2>2
<1>3. Deactivated(k) \in [Watcher -> [status : {"Inactive", "Activating", "Active"}, added : BOOLEAN]]
  BY Typed DEF Deactivated
<1>4. PICK watcher : watcher = Deactivated(k)
  OBVIOUS
<1>5. PICK status : status = IF back.status # "Unconnected" /\ shouldAutoReconnect(k)
                             THEN "Connecting" ELSE "Unconnected"
  OBVIOUS
<1>6. PICK timer : timer = (back.timer \/ (shouldAutoReconnect(k) /\ k.status # "Unconnected"))
  OBVIOUS
<1>7. timer \in BOOLEAN
  BY <1>6
<1>8. PICK a : a = [back EXCEPT !.socket = "none"]
  OBVIOUS
<1>9. /\ a \in Connection /\ a.socket = "none" /\ a.current = back.current
      /\ a.private = back.private /\ a.lastId = back.lastId /\ a.out = back.out
      /\ a.request = back.request /\ a.pendingRequests = back.pendingRequests
  BY <1>2, <1>8 DEF Connection
<1>10. PICK b : b = [a EXCEPT !.watcher = watcher]
  OBVIOUS
<1>11. /\ b \in Connection /\ b.socket = "none" /\ b.current = back.current /\ b.watcher = watcher
       /\ b.private = back.private /\ b.lastId = back.lastId /\ b.out = back.out
       /\ b.request = back.request /\ b.pendingRequests = back.pendingRequests
  BY <1>3, <1>4, <1>9, <1>10 DEF Connection
<1>12. PICK d : d = [b EXCEPT !.status = status]
  OBVIOUS
<1>13. /\ d \in Connection /\ d.socket = "none" /\ d.current = back.current /\ d.watcher = watcher
       /\ d.private = back.private /\ d.lastId = back.lastId /\ d.out = back.out
       /\ d.request = back.request /\ d.pendingRequests = back.pendingRequests
       /\ d.status # "Connected"
  BY <1>5, <1>11, <1>12, ZenonT(60) DEF Connection
<1>14. PICK m : m = [d EXCEPT !.timer = timer]
  OBVIOUS
<1>15. /\ m \in Connection /\ m.socket = "none" /\ m.current = back.current /\ m.watcher = watcher
       /\ m.private = back.private /\ m.lastId = back.lastId /\ m.out = back.out
       /\ m.request = back.request /\ m.pendingRequests = back.pendingRequests
       /\ m.status # "Connected"
  BY <1>7, <1>13, <1>14 DEF Connection
<1>16. _q_onDisconnected(k) = m
  BY <1>1, <1>2, <1>4, <1>5, <1>6, <1>8, <1>10, <1>12, <1>14 DEF _q_onDisconnected, Connection
<1> QED  BY <1>2, <1>4, <1>15, <1>16

LEMMA LostKeeps ==
    ASSUME NEW k \in Connection, NEW net, NEW now, Fine(k, net), k.out = <<>>,
           now.toServer = <<>>, now.toClient = <<>>, now.fromPrivate = net.fromPrivate,
           now.ran = net.ran, now.resent = net.resent,
           net.broken \/ IsApp(k.current) => now.broken
    PROVE  LET m == _q_onDisconnected(k) IN
           Fine(m, now) /\ m.socket = "none" /\ m.out = <<>>
<1> DEFINE item == k.current
<1>1. PICK m : m = _q_onDisconnected(k)
  OBVIOUS
<1>2. /\ m \in Connection
      /\ m.socket = "none" /\ m.status # "Connected" /\ m.current = None
      /\ m.private = k.private /\ m.lastId = k.lastId /\ m.out = k.out
      /\ m.watcher = Deactivated(k)
      /\ IF k.current # None /\ ~Internal(k.current)
         THEN /\ m.request = [k.request EXCEPT ![k.current.of].status = "Error"]
              /\ m.pendingRequests = <<[k.current EXCEPT !.id = 0]>> \o k.pendingRequests
         ELSE m.request = k.request /\ m.pendingRequests = k.pendingRequests
  BY <1>1, BackEffect
<1>3. Numbered(k) /\ Removals(k) /\ Wired(k, net) /\ NetType(net)
  BY DEF Fine
<1>4. NetType(now)
  <2>1. <<>> \in Seq(Item) /\ <<>> \in Seq(Answer)
    OBVIOUS
  <2> QED  BY <1>3, <2>1 DEF NetType
<1>5. \A w \in Watcher :
         /\ m.watcher[w].added = k.watcher[w].added
         /\ ~k.watcher[w].added => m.watcher[w].status = k.watcher[w].status
         /\ k.watcher[w].added => m.watcher[w].status = "Activating"
  BY <1>2, Typed DEF Deactivated
<1>6. \A w \in Watcher : (Leaving(m, w) <=> Leaving(k, w)) /\ ~IsActive(m, w)
  BY <1>5 DEF Leaving, IsActive
\* The entries: those of k, and the one put back before them.
<1>7. IsApp(item) <=> item # None /\ ~Internal(item)
  BY Items DEF IsApp, Internal
<1>8. IsApp(item) => item \in Item /\ item.of \in Request
  BY <1>7, Items, Typed DEF IsApp
<1>9. /\ \A r \in Request : m.request[r].id = k.request[r].id
      /\ \A r \in Request : ~IsApp(item) \/ r # item.of => m.request[r] = k.request[r]
      /\ IsApp(item) => m.request[item.of].status = "Error"
  <2>1. k.request \in [Request -> [status : Status, id : Nat]]
    BY Typed
  <2>2. CASE ~IsApp(item)
    BY <1>2, <1>7, <2>2
  <2>3. CASE IsApp(item)
    <3>1. item.of \in Request /\ m.request = [k.request EXCEPT ![item.of].status = "Error"]
      BY <1>2, <1>7, <1>8, <2>3
    <3>2. PICK q \in Request : q = item.of
      BY <3>1
    <3>3. /\ \A r \in Request : m.request[r].id = k.request[r].id
          /\ \A r \in Request : r # q => m.request[r] = k.request[r]
          /\ m.request[q].status = "Error"
      BY <2>1, <3>1, <3>2
    <3> QED  BY <2>3, <3>2, <3>3
  <2> QED  BY <2>2, <2>3
<1> DEFINE shift == IF IsApp(item) THEN 1 ELSE 0
<1>10. \A i \in DOMAIN m.pendingRequests :
          /\ i \in Nat \ {0}
          /\ \/ /\ IsApp(item) /\ i = 1
                /\ IsApp(m.pendingRequests[i]) /\ m.pendingRequests[i].of = item.of
             \/ /\ i - shift \in DOMAIN k.pendingRequests
                /\ m.pendingRequests[i] = k.pendingRequests[i - shift]
  <2>1. k.pendingRequests \in Seq(Item)
    BY Typed
  <2>2. CASE ~IsApp(item)
    BY <1>2, <1>7, <2>1, <2>2
  <2>3. CASE IsApp(item)
    <3>1. PICK back : back = [item EXCEPT !.id = 0]
      OBVIOUS
    <3>2. back \in Item /\ back.of = item.of /\ IsApp(back)
      BY <1>8, <2>3, <3>1, Items DEF Item, IsApp
    <3>3. m.pendingRequests = <<back>> \o k.pendingRequests
      BY <1>2, <1>7, <2>3, <3>1
    <3>4. <<back>> \in Seq(Item) /\ Len(<<back>>) = 1 /\ <<back>>[1] = back
      BY <3>2
    <3>5. /\ Len(m.pendingRequests) = 1 + Len(k.pendingRequests)
          /\ m.pendingRequests \in Seq(Item)
          /\ \A i \in 1 .. 1 + Len(k.pendingRequests) : m.pendingRequests[i] =
                IF i <= 1 THEN <<back>>[i] ELSE k.pendingRequests[i - 1]
      BY <2>1, <3>3, <3>4, ConcatProperties
    <3>6. DOMAIN m.pendingRequests = 1 .. 1 + Len(k.pendingRequests)
          /\ DOMAIN k.pendingRequests = 1 .. Len(k.pendingRequests) /\ Len(k.pendingRequests) \in Nat
      BY <2>1, <3>5
    <3>7. m.pendingRequests[1] = back
      BY <3>4, <3>5, <3>6
    <3>8. \A i \in DOMAIN m.pendingRequests : i # 1 =>
              /\ i - 1 \in DOMAIN k.pendingRequests
              /\ m.pendingRequests[i] = k.pendingRequests[i - 1]
      BY <3>5, <3>6
    <3>9. shift = 1
      BY <2>3
    <3> HIDE DEF shift, item
    <3> QED  BY <2>3, <3>2, <3>6, <3>7, <3>8, <3>9
  <2> QED  BY <2>2, <2>3
<1> HIDE DEF shift
<1>11. shift \in {0, 1} /\ (IsApp(item) => shift = 1)
  BY DEF shift
<1>12. Internals(m) \subseteq Internals(k)
  BY <1>2, <1>10 DEF Internals, Internal, IsApp
<1>13. \A id : Apart(k, id) => Apart(m, id)
  BY <1>12 DEF Apart
<1>14. Numbered(m)
  <2>1. /\ \A r \in Request : m.request[r].id <= m.lastId
        /\ \A r, q \in Request : r # q /\ m.request[r].id = m.request[q].id => m.request[r].id = 0
        /\ \A i \in Internals(m) : i.id \in 1 .. m.lastId /\ Strange(m, i.id)
    BY <1>2, <1>3, <1>9, <1>12 DEF Numbered, Strange
  <2>2. \A i \in DOMAIN m.pendingRequests :
          ~Internal(m.pendingRequests[i]) => m.request[m.pendingRequests[i].of].id > 0
    <3> SUFFICES ASSUME NEW i \in DOMAIN m.pendingRequests, ~Internal(m.pendingRequests[i])
                 PROVE  m.request[m.pendingRequests[i].of].id > 0
      OBVIOUS
    <3>1. CASE IsApp(item) /\ m.pendingRequests[i].of = item.of
      BY <1>3, <1>7, <1>8, <1>9, <3>1 DEF Numbered
    <3>2. CASE i - shift \in DOMAIN k.pendingRequests
               /\ m.pendingRequests[i] = k.pendingRequests[i - shift]
      <4>1. m.pendingRequests[i].of \in Request
        BY <3>2, Items, Typed DEF Internal
      <4> QED  BY <1>3, <1>9, <3>2, <4>1 DEF Numbered
    <3> QED  BY <1>10, <3>1, <3>2
  <2>3. \A j \in DOMAIN m.private :
          LET e == m.private[j] IN
          /\ e.kind = "app" /\ e.of \in Private /\ e.id \in 1 .. m.lastId
          /\ Apart(m, e.id)
          /\ \A r \in Request : m.request[r].id = e.id => r = e.of
    BY <1>2, <1>3, <1>9, <1>13 DEF Numbered
  <2> QED  BY <1>2, <2>1, <2>2, <2>3 DEF Numbered
<1>15. Removals(m)
  <2>1. ~IsRemoval(m.current)
    BY <1>2, Items DEF IsRemoval
  <2>2. \A i \in DOMAIN m.pendingRequests : IsRemoval(m.pendingRequests[i]) =>
          /\ i - shift \in DOMAIN k.pendingRequests
          /\ m.pendingRequests[i] = k.pendingRequests[i - shift]
          /\ m.pendingRequests[i].of \in Watcher
    BY <1>10, Items, Typed DEF IsRemoval, IsApp
  <2>3. \A i \in DOMAIN m.pendingRequests :
          IsRemoval(m.pendingRequests[i]) => Leaving(m, m.pendingRequests[i].of)
    BY <1>3, <1>6, <2>2 DEF Removals
  <2>4. \A i, j \in DOMAIN m.pendingRequests :
          IsRemoval(m.pendingRequests[i]) /\ IsRemoval(m.pendingRequests[j])
              /\ m.pendingRequests[i].of = m.pendingRequests[j].of => i - shift = j - shift
    BY <1>3, <2>2 DEF Removals
  <2>5. \A i, j \in DOMAIN m.pendingRequests : i - shift = j - shift => i = j
    BY <1>10, <1>11
  <2> QED  BY <2>1, <2>3, <2>4, <2>5 DEF Removals
<1>16. Plugged(m)
  BY <1>2, <1>6 DEF Plugged
<1>17. Wired(m, now)
  <2>1. now.toServer \o m.out = <<>>
    BY <1>2
  <2>2. \A e \in DOMAIN now.fromPrivate :
          LET id == now.fromPrivate[e].id IN
          /\ id \in 1 .. m.lastId /\ Apart(m, id)
          /\ \A r \in Request : m.request[r].id = id => r \in Private
    BY <1>2, <1>3, <1>9, <1>13 DEF Wired
  <2> QED  BY <1>2, <1>6, <2>1, <2>2 DEF Wired
<1>18. ASSUME ~now.resent
       PROVE  Ordered(m) /\ Told(m, now)
  <2>1. Ordered(k) /\ Told(k, net)
    BY <1>18 DEF Fine
  <2>2. ~IsApp(m.current)
    BY <1>2, Items DEF IsApp
  <2>3. ASSUME NEW i \in DOMAIN m.pendingRequests, IsApp(m.pendingRequests[i])
        PROVE  \/ /\ IsApp(item) /\ i = 1 /\ m.pendingRequests[i].of = item.of
                  /\ NumberAt(m, i) = item.id
               \/ /\ i - shift \in DOMAIN k.pendingRequests /\ IsApp(k.pendingRequests[i - shift])
                  /\ m.pendingRequests[i] = k.pendingRequests[i - shift]
                  /\ m.pendingRequests[i].of \in Request
                  /\ NumberAt(m, i) = NumberAt(k, i - shift)
                  /\ IsApp(item) => item.id < NumberAt(m, i)
    <3>1. CASE IsApp(item) /\ i = 1 /\ m.pendingRequests[i].of = item.of
      BY <1>8, <1>9, <2>1, <3>1 DEF NumberAt, Ordered
    <3>2. CASE /\ i - shift \in DOMAIN k.pendingRequests
               /\ m.pendingRequests[i] = k.pendingRequests[i - shift]
      <4>1. m.pendingRequests[i].of \in Request
        BY <2>3, <3>2, Items, Typed DEF IsApp
      <4>2. NumberAt(m, i) = NumberAt(k, i - shift) /\ IsApp(k.pendingRequests[i - shift])
        BY <1>9, <2>3, <3>2, <4>1 DEF NumberAt
      <4>3. IsApp(item) => item.id < NumberAt(m, i)
        BY <2>1, <3>2, <4>2 DEF Ordered
      <4> QED  BY <3>2, <4>1, <4>2, <4>3
    <3> QED  BY <1>10, <3>1, <3>2
  <2>4. ASSUME NEW i \in DOMAIN m.pendingRequests, NEW j \in DOMAIN m.pendingRequests,
               i < j, IsApp(m.pendingRequests[i]), IsApp(m.pendingRequests[j])
        PROVE  NumberAt(m, i) < NumberAt(m, j)
    <3>1. i \in Nat \ {0} /\ j \in Nat /\ j # 1
      BY <1>10, <2>4
    <3>2. /\ j - shift \in DOMAIN k.pendingRequests /\ IsApp(k.pendingRequests[j - shift])
          /\ NumberAt(m, j) = NumberAt(k, j - shift)
          /\ IsApp(item) => item.id < NumberAt(m, j)
      BY <2>3, <2>4, <3>1
    <3>3. CASE IsApp(item) /\ NumberAt(m, i) = item.id
      BY <3>2, <3>3
    <3>4. CASE i - shift \in DOMAIN k.pendingRequests /\ IsApp(k.pendingRequests[i - shift])
               /\ NumberAt(m, i) = NumberAt(k, i - shift)
      <4>1. i - shift < j - shift
        BY <1>11, <2>4, <3>1
      <4> QED  BY <2>1, <3>2, <3>4, <4>1 DEF Ordered
    <3> QED  BY <2>3, <2>4, <3>3, <3>4
  <2>5. ASSUME NEW i \in DOMAIN m.pendingRequests, IsApp(m.pendingRequests[i])
        PROVE  /\ m.request[m.pendingRequests[i].of].status \in {"Queued", "Error"}
               /\ \A j \in DOMAIN m.private : m.private[j].id <= NumberAt(m, i)
    <3>1. CASE IsApp(item) /\ m.pendingRequests[i].of = item.of /\ NumberAt(m, i) = item.id
      BY <1>2, <1>9, <2>1, <3>1 DEF Ordered
    <3>2. CASE /\ i - shift \in DOMAIN k.pendingRequests /\ IsApp(k.pendingRequests[i - shift])
               /\ m.pendingRequests[i] = k.pendingRequests[i - shift]
               /\ m.pendingRequests[i].of \in Request
               /\ NumberAt(m, i) = NumberAt(k, i - shift)
      <4>1. m.request[m.pendingRequests[i].of].status
                \in {k.request[m.pendingRequests[i].of].status, "Error"}
        BY <1>9, <3>2
      <4> QED  BY <1>2, <2>1, <3>2, <4>1, SMTT(30) DEF Ordered
    <3> QED  BY <2>3, <2>5, <3>1, <3>2
  <2>6. Told(m, now)
    <3>1. \A r \in Request : m.request[r].status = "Finished" => k.request[r].status = "Finished"
      BY <1>9
    <3> QED  BY <1>9, <2>1, <3>1 DEF Told
  <2> QED  BY <2>2, <2>4, <2>5, <2>6 DEF Ordered
<1>19. ASSUME ~now.resent, ~now.broken
       PROVE  Once(m, now)
  <2>1. Once(k, net) /\ ~IsApp(item)
    BY <1>19 DEF Fine
  <2>2. m.private = <<>>
    <3>1. CASE k.private = <<item>>
      <4>1. 1 \in DOMAIN k.private /\ k.private[1] = item
        BY <3>1
      <4> QED  BY <1>3, <2>1, <4>1 DEF Numbered, IsApp
    <3> QED  BY <1>2, <2>1, <3>1 DEF Once
  <2>3. ~IsApp(m.current)
    BY <1>2, Items DEF IsApp
  <2>4. m.request = k.request /\ m.pendingRequests = k.pendingRequests
    BY <1>2, <1>7, <2>1
  <2>5. \A i : NumberAt(m, i) = NumberAt(k, i)
    BY <2>4 DEF NumberAt
  <2> QED  BY <2>1, <2>2, <2>3, <2>4, <2>5 DEF Once
<1> QED  BY <1>1, <1>2, <1>4, <1>14, <1>15, <1>16, <1>17, <1>18, <1>19 DEF Fine

\* A watcher is removed.
LEMMA RemoveWatcherKeeps ==
    ASSUME NEW k \in Connection, NEW net, Fine(k, net), NEW w \in Watcher,
           k.watcher[w].status # "Inactive", k.watcher[w].added
    PROVE  LET quiet == NotListening(k, w)
               m == send([quiet EXCEPT !.watcher[w].added = FALSE,
                                       !.listening = @ \cup {<<w, k.lastId + 1>>}], "remove", w)
           IN Fine(m, net) /\ m.socket = k.socket
<1>1. PICK entry : entry = [k.watcher[w] EXCEPT !.added = FALSE]
  OBVIOUS
<1>2. PICK l : l = {e \in k.listening : e[1] # w} \cup {<<w, k.lastId + 1>>}
  OBVIOUS
<1>3. l \in SUBSET (Watcher \X Nat)
  <2>1. k.listening \in SUBSET (Watcher \X Nat) /\ k.lastId + 1 \in Nat
    BY DEF Connection
  <2> QED  BY <1>2, <2>1
<1>4. PICK j : j = Listening(k, w, entry, l)
  OBVIOUS
<1>5. j = [NotListening(k, w) EXCEPT !.watcher[w].added = FALSE,
                                     !.listening = @ \cup {<<w, k.lastId + 1>>}]
  BY <1>1, <1>2, <1>4 DEF NotListening, Connection, Listening
<1>6. /\ entry \in [status : {"Inactive", "Activating", "Active"}, added : BOOLEAN]
      /\ entry.added = FALSE /\ entry.status = k.watcher[w].status
  BY <1>1, Typed, ZenonT(60)
<1>7. /\ j \in Connection
      /\ j.watcher = [k.watcher EXCEPT ![w] = entry]
      /\ j.request = k.request /\ j.current = k.current /\ j.private = k.private
      /\ j.out = k.out /\ j.status = k.status /\ j.socket = k.socket
      /\ j.lastId = k.lastId /\ j.pendingRequests = k.pendingRequests
  BY <1>3, <1>4, <1>6, Quiet
<1>8. /\ ~IsActive(j, w) /\ Leaving(j, w) /\ ~Leaving(k, w)
      /\ \A u \in Watcher : u # w => j.watcher[u] = k.watcher[u]
  BY <1>6, <1>7, Typed DEF IsActive, Leaving
<1>9. Fine(send(j, "remove", w), net) /\ send(j, "remove", w).socket = j.socket
  BY <1>7, <1>8, SendKeeps
<1> QED  BY <1>5, <1>7, <1>9

\* A request of the application joins the queue.
LEMMA SendAppKeeps ==
    ASSUME NEW k \in Connection, NEW net, NEW now, Fine(k, net),
           NEW r \in Request, k.request[r].status \notin Active,
           now.toServer = net.toServer, now.toClient = net.toClient,
           now.fromPrivate = net.fromPrivate, now.registered = net.registered,
           now.ran = [net.ran EXCEPT ![r] = 0],
           net.broken => now.broken, net.resent => now.resent,
           ~now.resent => \A i \in DOMAIN k.pendingRequests :
               IsApp(k.pendingRequests[i]) => k.pendingRequests[i].of # r
    PROVE  LET m == send(k, "app", r) IN
           Fine(m, now) /\ m.socket = k.socket
<1>1. PICK item : item = [kind |-> "app", of |-> r, id |-> 0]
  OBVIOUS
<1>2. item \in Item /\ IsApp(item) /\ ~Internal(item) /\ item.of = r /\ ~IsRemoval(item)
  BY <1>1 DEF Item, IsApp, Internal, IsRemoval
<1>3. PICK id : id = k.lastId + 1
  OBVIOUS
<1>4. id \in Nat \ {0} /\ k.lastId \in Nat /\ id = k.lastId + 1
  BY <1>3, Typed
<1>5. PICK q : q = Append(k.pendingRequests, item)
  OBVIOUS
<1>6. /\ q \in Seq(Item)
      /\ \A i \in DOMAIN q :
            \/ /\ i \in DOMAIN k.pendingRequests /\ q[i] = k.pendingRequests[i]
            \/ /\ i = Len(k.pendingRequests) + 1 /\ q[i] = item
  <2>1. k.pendingRequests \in Seq(Item)
    BY Typed
  <2> QED  BY <1>2, <1>5, <2>1, AppendProperties
<1>7. PICK f : f = [k.request EXCEPT ![r] = [status |-> "Queued", id |-> id]]
  OBVIOUS
<1>8. /\ f \in [Request -> [status : Status, id : Nat]]
      /\ f[r].id = id /\ f[r].status = "Queued"
      /\ \A s \in Request : s # r => f[s] = k.request[s]
  <2>1. "Queued" \in Status
    BY DEF Status
  <2> QED  BY <1>4, <1>7, <2>1, Typed
<1>9. PICK a : a = [k EXCEPT !.lastId = id]
  OBVIOUS
<1>10. /\ a \in Connection /\ a.lastId = id /\ a.pendingRequests = k.pendingRequests
       /\ a.request = k.request /\ a.current = k.current /\ a.private = k.private
       /\ a.out = k.out /\ a.status = k.status /\ a.socket = k.socket /\ a.watcher = k.watcher
  BY <1>4, <1>9 DEF Connection
<1>11. PICK b : b = [a EXCEPT !.pendingRequests = q]
  OBVIOUS
<1>12. /\ b \in Connection /\ b.lastId = id /\ b.pendingRequests = q
       /\ b.request = k.request /\ b.current = k.current /\ b.private = k.private
       /\ b.out = k.out /\ b.status = k.status /\ b.socket = k.socket /\ b.watcher = k.watcher
  BY <1>6, <1>10, <1>11 DEF Connection
<1>13. PICK m : m = [b EXCEPT !.request = f]
  OBVIOUS
<1>14. /\ m \in Connection /\ m.lastId = id /\ m.pendingRequests = q
       /\ m.request = f /\ m.current = k.current /\ m.private = k.private
       /\ m.out = k.out /\ m.status = k.status /\ m.socket = k.socket /\ m.watcher = k.watcher
  BY <1>8, <1>12, <1>13 DEF Connection
<1>15. send(k, "app", r) = handleRequestQueue(m)
  <2>1. b = [k EXCEPT !.lastId = id, !.pendingRequests = q]
    BY <1>9, <1>11 DEF Connection
  <2>2. b.request = k.request /\ m = [b EXCEPT !.request[r] = [status |-> "Queued", id |-> id]]
    BY <1>7, <1>12, <1>13
  <2>3. Inserted(k.pendingRequests, item) = q
    BY <1>2, <1>5 DEF Inserted
  <2> QED  BY <1>1, <1>3, <2>1, <2>2, <2>3 DEF send
<1>16. Numbered(k) /\ Removals(k) /\ Plugged(k) /\ Wired(k, net) /\ NetType(net)
  BY DEF Fine
<1>17. NetType(now)
  BY <1>16 DEF NetType
<1>18. Internals(m) \subseteq Internals(k)
  BY <1>2, <1>6, <1>14 DEF Internals
<1>19. \A i : Apart(k, i) => Apart(m, i)
  BY <1>18 DEF Apart
<1>20. \A s \in Request : m.request[s].id = IF s = r THEN id ELSE k.request[s].id
  BY <1>8, <1>14
<1>21. \A i \in 1 .. k.lastId : i # id
  BY <1>4
<1>22. Numbered(m)
  <2>1. /\ \A s \in Request : m.request[s].id <= m.lastId
        /\ \A s, t \in Request : s # t /\ m.request[s].id = m.request[t].id => m.request[s].id = 0
    <3>1. \A s \in Request : k.request[s].id \in Nat /\ k.request[s].id <= k.lastId
      BY <1>16, Typed DEF Numbered
    <3>2. \A s, t \in Request : s # t /\ k.request[s].id = k.request[t].id => k.request[s].id = 0
      BY <1>16 DEF Numbered
    <3>3. \A s \in Request : m.request[s].id <= m.lastId
      BY <1>4, <1>14, <1>20, <3>1
    <3>4. ASSUME NEW s \in Request, NEW t \in Request, s # t, m.request[s].id = m.request[t].id
          PROVE  m.request[s].id = 0
      <4>1. s # r /\ t # r
        BY <1>4, <1>20, <3>1, <3>4
      <4> QED  BY <1>20, <3>2, <3>4, <4>1
    <3> QED  BY <3>3, <3>4
  <2>2. \A i \in DOMAIN m.pendingRequests :
          ~Internal(m.pendingRequests[i]) => m.request[m.pendingRequests[i].of].id > 0
    <3> SUFFICES ASSUME NEW i \in DOMAIN m.pendingRequests, ~Internal(m.pendingRequests[i])
                 PROVE  m.request[m.pendingRequests[i].of].id > 0
      OBVIOUS
    <3>1. m.pendingRequests[i].of \in Request
      BY <1>14, Items, Typed DEF Internal
    <3>2. CASE m.pendingRequests[i].of = r
      BY <1>4, <1>20, <3>1, <3>2
    <3>3. CASE m.pendingRequests[i].of # r
      <4>1. i \in DOMAIN k.pendingRequests /\ m.pendingRequests[i] = k.pendingRequests[i]
        BY <1>2, <1>6, <1>14, <3>3
      <4> QED  BY <1>16, <1>20, <3>1, <3>3, <4>1 DEF Numbered
    <3> QED  BY <3>2, <3>3
  <2>3. \A i \in Internals(m) : i.id \in 1 .. m.lastId /\ Strange(m, i.id)
    <3> SUFFICES ASSUME NEW i \in Internals(m)
                 PROVE  i.id \in 1 .. m.lastId /\ Strange(m, i.id)
      OBVIOUS
    <3>1. i.id \in 1 .. k.lastId /\ Strange(k, i.id)
      BY <1>16, <1>18 DEF Numbered
    <3> QED  BY <1>4, <1>14, <1>20, <3>1 DEF Strange
  <2>4. m.current # None =>
          /\ m.current.id \in 1 .. m.lastId
          /\ ~Internal(m.current) => m.request[m.current.of].id > 0
    <3> SUFFICES ASSUME m.current # None
                 PROVE  /\ m.current.id \in 1 .. m.lastId
                        /\ ~Internal(m.current) => m.request[m.current.of].id > 0
      OBVIOUS
    <3>1. /\ m.current.id \in 1 .. k.lastId
          /\ ~Internal(m.current) => k.request[m.current.of].id > 0
          /\ ~Internal(m.current) => m.current.of \in Request
      BY <1>14, <1>16, Items, Typed DEF Numbered, Internal
    <3> QED  BY <1>4, <1>14, <1>20, <3>1
  <2>5. \A j \in DOMAIN m.private :
          LET e == m.private[j] IN
          /\ e.kind = "app" /\ e.of \in Private /\ e.id \in 1 .. m.lastId
          /\ Apart(m, e.id)
          /\ \A s \in Request : m.request[s].id = e.id => s = e.of
          /\ m.current # None /\ m.current.id = e.id => m.current.of \in Private
    <3> SUFFICES ASSUME NEW j \in DOMAIN m.private, NEW e, e = m.private[j]
                 PROVE  /\ e.kind = "app" /\ e.of \in Private /\ e.id \in 1 .. m.lastId
                        /\ Apart(m, e.id)
                        /\ \A s \in Request : m.request[s].id = e.id => s = e.of
                        /\ m.current # None /\ m.current.id = e.id => m.current.of \in Private
      OBVIOUS
    <3>1. /\ e.kind = "app" /\ e.of \in Private /\ e.id \in 1 .. k.lastId
          /\ Apart(k, e.id)
          /\ \A s \in Request : k.request[s].id = e.id => s = e.of
          /\ m.current # None /\ m.current.id = e.id => m.current.of \in Private
      BY <1>14, <1>16 DEF Numbered
    <3> QED  BY <1>4, <1>14, <1>19, <1>20, <3>1
  <2> QED  BY <2>1, <2>2, <2>3, <2>4, <2>5 DEF Numbered
<1>23. \A w : (Leaving(m, w) <=> Leaving(k, w)) /\ (IsActive(m, w) <=> IsActive(k, w))
  BY <1>14 DEF Leaving, IsActive
<1>24. Removals(m)
  <2>1. \A i \in DOMAIN m.pendingRequests : IsRemoval(m.pendingRequests[i]) =>
            i \in DOMAIN k.pendingRequests /\ m.pendingRequests[i] = k.pendingRequests[i]
    BY <1>2, <1>6, <1>14
  <2> QED  BY <1>14, <1>16, <1>23, <2>1 DEF Removals
<1>25. Plugged(m)
  BY <1>14, <1>16, <1>23 DEF Plugged
<1>26. Wired(m, now)
  <2>1. ASSUME NEW e \in DOMAIN now.fromPrivate, NEW i, i = now.fromPrivate[e].id
        PROVE  /\ i \in 1 .. m.lastId /\ Apart(m, i)
               /\ \A s \in Request : m.request[s].id = i => s \in Private
               /\ m.current # None /\ m.current.id = i => m.current.of \in Private
    <3>1. /\ i \in 1 .. k.lastId /\ Apart(k, i)
          /\ \A s \in Request : k.request[s].id = i => s \in Private
          /\ m.current # None /\ m.current.id = i => m.current.of \in Private
      BY <1>14, <1>16, <2>1 DEF Wired
    <3> QED  BY <1>4, <1>14, <1>19, <1>20, <3>1
  <2> QED  BY <1>14, <1>16, <1>23, <2>1 DEF Wired
<1>27. ASSUME ~now.resent
       PROVE  Ordered(m) /\ Told(m, now)
  <2>1. Ordered(k) /\ Told(k, net)
    BY <1>27 DEF Fine
  <2>2. IsApp(k.current) => k.current.of \in Request /\ k.current.of # r
    <3>1. IsApp(k.current) => k.current.of \in Request
      BY Items, Typed DEF IsApp
    <3>2. IsApp(k.current) => k.request[k.current.of].status \in {"Sent", "Receiving"}
      BY <2>1 DEF Ordered
    <3> QED  BY <3>1, <3>2 DEF Active
  <2>3. ASSUME NEW i \in DOMAIN m.pendingRequests, IsApp(m.pendingRequests[i])
        PROVE  \/ /\ i \in DOMAIN k.pendingRequests /\ m.pendingRequests[i] = k.pendingRequests[i]
                  /\ m.pendingRequests[i].of \in Request /\ m.pendingRequests[i].of # r
                  /\ IsApp(k.pendingRequests[i])
                  /\ NumberAt(m, i) = NumberAt(k, i) /\ NumberAt(m, i) <= k.lastId
               \/ /\ i = Len(k.pendingRequests) + 1 /\ m.pendingRequests[i] = item
                  /\ NumberAt(m, i) = id
    <3>1. CASE m.pendingRequests[i] = item /\ i = Len(k.pendingRequests) + 1
      BY <1>2, <1>14, <1>20, <3>1 DEF NumberAt
    <3>2. CASE i \in DOMAIN k.pendingRequests /\ m.pendingRequests[i] = k.pendingRequests[i]
      <4>1. m.pendingRequests[i].of \in Request /\ m.pendingRequests[i].of # r
        BY <1>27, <2>3, <3>2, Items, Typed DEF IsApp
      <4> QED  BY <1>16, <1>20, <2>3, <3>2, <4>1 DEF NumberAt, Numbered
    <3> QED  BY <1>6, <1>14, <3>1, <3>2
  <2>4. ASSUME NEW i \in DOMAIN m.pendingRequests, NEW j \in DOMAIN m.pendingRequests,
               i < j, IsApp(m.pendingRequests[i]), IsApp(m.pendingRequests[j])
        PROVE  NumberAt(m, i) < NumberAt(m, j)
    <3>1. /\ i \in DOMAIN k.pendingRequests /\ IsApp(k.pendingRequests[i])
          /\ NumberAt(m, i) = NumberAt(k, i) /\ NumberAt(m, i) <= k.lastId
          /\ NumberAt(m, i) \in Nat
      <4>1. i # Len(k.pendingRequests) + 1
        <5>1. k.pendingRequests \in Seq(Item) /\ m.pendingRequests \in Seq(Item)
          BY Typed, <1>14
        <5>2. Len(k.pendingRequests) \in Nat /\ i \in Nat /\ j \in Nat
              /\ \A l \in DOMAIN k.pendingRequests : l <= Len(k.pendingRequests)
          BY <5>1
        <5>3. j <= Len(k.pendingRequests) + 1
          BY <2>3, <2>4, <5>2
        <5> QED  BY <2>4, <5>2, <5>3
      <4>2. /\ i \in DOMAIN k.pendingRequests /\ IsApp(k.pendingRequests[i])
            /\ m.pendingRequests[i].of \in Request
            /\ NumberAt(m, i) = NumberAt(k, i) /\ NumberAt(m, i) <= k.lastId
        BY <2>3, <2>4, <4>1
      <4> QED  BY <1>14, <4>2, Typed DEF NumberAt
    <3>2. CASE NumberAt(m, j) = id
      BY <1>4, <3>1, <3>2
    <3>3. CASE j \in DOMAIN k.pendingRequests /\ IsApp(k.pendingRequests[j])
               /\ NumberAt(m, j) = NumberAt(k, j)
      BY <2>1, <2>4, <3>1, <3>3 DEF Ordered
    <3> QED  BY <2>3, <2>4, <3>2, <3>3
  <2>5. \A j \in DOMAIN m.private : m.private[j].id \in 1 .. k.lastId
    BY <1>14, <1>16 DEF Numbered
  <2>6. ASSUME NEW i \in DOMAIN m.pendingRequests, IsApp(m.pendingRequests[i])
        PROVE  /\ m.request[m.pendingRequests[i].of].status \in {"Queued", "Error"}
               /\ \A j \in DOMAIN m.private : m.private[j].id <= NumberAt(m, i)
    <3>1. CASE m.pendingRequests[i] = item /\ NumberAt(m, i) = id
      <4>1. m.request[m.pendingRequests[i].of].status = "Queued"
        BY <1>2, <1>8, <1>14, <3>1
      <4> QED  BY <1>4, <2>5, <3>1, <4>1
    <3>2. CASE /\ i \in DOMAIN k.pendingRequests /\ m.pendingRequests[i] = k.pendingRequests[i]
               /\ m.pendingRequests[i].of \in Request /\ m.pendingRequests[i].of # r
               /\ IsApp(k.pendingRequests[i]) /\ NumberAt(m, i) = NumberAt(k, i)
      BY <1>8, <1>14, <2>1, <3>2 DEF Ordered
    <3> QED  BY <2>3, <2>6, <3>1, <3>2
  <2>7. IsApp(m.current) =>
          /\ m.current.id = m.request[m.current.of].id
          /\ m.request[m.current.of].status \in {"Sent", "Receiving"}
          /\ \A i \in DOMAIN m.pendingRequests :
                IsApp(m.pendingRequests[i]) => m.current.id < NumberAt(m, i)
          /\ \A j \in DOMAIN m.private : m.private[j].id <= m.current.id
    <3> SUFFICES ASSUME IsApp(m.current)
                 PROVE  /\ m.current.id = m.request[m.current.of].id
                        /\ m.request[m.current.of].status \in {"Sent", "Receiving"}
                        /\ \A i \in DOMAIN m.pendingRequests :
                              IsApp(m.pendingRequests[i]) => m.current.id < NumberAt(m, i)
                        /\ \A j \in DOMAIN m.private : m.private[j].id <= m.current.id
      OBVIOUS
    <3>1. m.request[m.current.of] = k.request[k.current.of]
      BY <1>8, <1>14, <2>2
    <3>2. m.current.id \in 1 .. k.lastId
      <4>1. m.current # None
        BY Items DEF IsApp
      <4> QED  BY <1>14, <1>16, <4>1 DEF Numbered
    <3>3. ASSUME NEW i \in DOMAIN m.pendingRequests, IsApp(m.pendingRequests[i])
          PROVE  m.current.id < NumberAt(m, i)
      <4>1. CASE NumberAt(m, i) = id
        BY <1>4, <3>2, <4>1
      <4>2. CASE /\ i \in DOMAIN k.pendingRequests /\ IsApp(k.pendingRequests[i])
                 /\ NumberAt(m, i) = NumberAt(k, i)
        BY <1>14, <2>1, <4>2 DEF Ordered
      <4> QED  BY <2>3, <3>3, <4>1, <4>2
    <3> QED  BY <1>14, <2>1, <3>1, <3>3 DEF Ordered
  <2>8. Told(m, now)
    <3>1. \A s \in Request : m.request[s].status = "Finished" =>
              s # r /\ k.request[s].status = "Finished"
      BY <1>8, <1>14
    <3>2. \A s \in Request : s # r => now.ran[s] = net.ran[s]
      BY <1>16 DEF NetType
    <3>3. \A e \in DOMAIN net.fromPrivate : net.fromPrivate[e].id \in 1 .. k.lastId
      BY <1>16 DEF Wired
    <3> QED  BY <1>4, <1>14, <1>20, <2>1, <2>2, <3>1, <3>2, <3>3 DEF Told
  <2> QED  BY <2>4, <2>6, <2>7, <2>8 DEF Ordered
<1>28. ASSUME ~now.resent, ~now.broken
       PROVE  Once(m, now)
  <2>1. Once(k, net) /\ Ordered(k)
    BY <1>28 DEF Fine
  <2>2. \A s \in Request : now.ran[s] = IF s = r THEN 0 ELSE net.ran[s]
    BY <1>16 DEF NetType
  <2>3. \A i \in DOMAIN m.pendingRequests :
          IsApp(m.pendingRequests[i]) => now.ran[m.pendingRequests[i].of] = 0
    <3> SUFFICES ASSUME NEW i \in DOMAIN m.pendingRequests, IsApp(m.pendingRequests[i])
                 PROVE  now.ran[m.pendingRequests[i].of] = 0
      OBVIOUS
    <3>1. m.pendingRequests[i].of \in Request
      BY <1>14, Items, Typed DEF IsApp
    <3> QED  BY <1>2, <1>6, <1>14, <2>1, <2>2, <3>1, SMTT(30) DEF Once
  <2>4. \A s \in Request : m.request[s].status = "Canceled" => now.ran[s] = 0
    BY <1>8, <1>14, <2>1, <2>2 DEF Once
  <2>5. IsApp(m.current) => m.current.of \in Request
    BY <1>14, Items, Typed DEF IsApp
  <2>6. \A s \in Request : now.ran[s] <= 1
    BY <2>1, <2>2 DEF Once
  <2>7. ASSUME NEW e \in DOMAIN now.fromPrivate, NEW j, j = now.fromPrivate[e].id
        PROVE  /\ m.private # <<>> => m.current.id # j
               /\ \A i \in DOMAIN m.pendingRequests :
                     IsApp(m.pendingRequests[i]) => NumberAt(m, i) # j
    <3>1. /\ k.private # <<>> => k.current.id # j
          /\ \A i \in DOMAIN k.pendingRequests : IsApp(k.pendingRequests[i]) => NumberAt(k, i) # j
      BY <2>1, <2>7 DEF Once
    <3>2. j # id
      BY <1>16, <1>21, <2>7 DEF Wired
    <3>3. ASSUME NEW i \in DOMAIN m.pendingRequests, IsApp(m.pendingRequests[i])
          PROVE  NumberAt(m, i) # j
      <4>1. m.pendingRequests[i].of \in Request
        BY <1>14, <3>3, Items, Typed DEF IsApp
      <4>2. CASE m.pendingRequests[i] = item
        BY <1>2, <1>20, <3>2, <4>2 DEF NumberAt
      <4>3. CASE i \in DOMAIN k.pendingRequests /\ m.pendingRequests[i] = k.pendingRequests[i]
        BY <1>20, <3>1, <3>2, <3>3, <4>1, <4>3 DEF NumberAt
      <4> QED  BY <1>6, <1>14, <4>2, <4>3
    <3> QED  BY <1>14, <3>1, <3>3
  <2> QED  BY <1>14, <2>1, <2>2, <2>3, <2>4, <2>5, <2>6, <2>7 DEF Once
<1>29. Fine(m, now)
  BY <1>14, <1>17, <1>22, <1>24, <1>25, <1>26, <1>27, <1>28 DEF Fine
<1> QED  BY <1>14, <1>15, <1>29, HandleKeeps

\* Requests are canceled while they wait.
LEMMA CancelKeeps ==
    ASSUME NEW k \in Connection, NEW m \in Connection, NEW net, Fine(k, net),
           NEW gone \in SUBSET Request,
           Made(m.pendingRequests, k.pendingRequests, {}),
           m.current = k.current, m.private = k.private, m.out = k.out, m.lastId = k.lastId,
           m.status = k.status, m.socket = k.socket, m.watcher = k.watcher,
           \A r \in Request : m.request[r].id = k.request[r].id,
           \A r \in Request : IF r \in gone THEN m.request[r].status = "Canceled"
                                            ELSE m.request[r] = k.request[r],
           \A r \in gone : \E i \in DOMAIN k.pendingRequests :
               IsApp(k.pendingRequests[i]) /\ k.pendingRequests[i].of = r,
           ~net.resent => \A i \in DOMAIN m.pendingRequests :
               IsApp(m.pendingRequests[i]) => m.pendingRequests[i].of \notin gone
    PROVE  Fine(m, net)
<1>1. Numbered(k) /\ Removals(k) /\ Plugged(k) /\ Wired(k, net) /\ NetType(net)
  BY DEF Fine
<1>2. PICK at \in [DOMAIN m.pendingRequests -> 0 .. Len(k.pendingRequests)] :
        /\ \A i \in DOMAIN m.pendingRequests :
              IF at[i] = 0 THEN m.pendingRequests[i] \in {}
                           ELSE m.pendingRequests[i] = k.pendingRequests[at[i]]
        /\ \A i, j \in DOMAIN m.pendingRequests :
              i < j /\ at[i] # 0 /\ at[j] # 0 => at[i] < at[j]
        /\ \A i, j \in DOMAIN m.pendingRequests : i # j => at[i] # at[j]
  BY DEF Made
<1>3. \A i \in DOMAIN m.pendingRequests :
          /\ at[i] \in DOMAIN k.pendingRequests /\ at[i] # 0
          /\ m.pendingRequests[i] = k.pendingRequests[at[i]]
  BY <1>2, Typed
<1>4. Internals(m) \subseteq Internals(k)
  BY <1>3 DEF Internals
<1>5. \A id : Apart(k, id) => Apart(m, id)
  BY <1>4 DEF Apart
<1>6. \A i \in DOMAIN m.pendingRequests : ~Internal(m.pendingRequests[i]) =>
          m.pendingRequests[i].of \in Request
  BY <1>3, Items, Typed DEF Internal
<1>7. Numbered(m)
  <2>1. /\ \A r \in Request : m.request[r].id <= m.lastId
        /\ \A r, q \in Request : r # q /\ m.request[r].id = m.request[q].id => m.request[r].id = 0
        /\ \A i \in Internals(m) : i.id \in 1 .. m.lastId /\ Strange(m, i.id)
    BY <1>1, <1>4 DEF Numbered, Strange
  <2>2. m.current # None =>
          /\ m.current.id \in 1 .. m.lastId
          /\ ~Internal(m.current) => m.request[m.current.of].id > 0
    <3>1. k.current # None /\ ~Internal(k.current) => k.current.of \in Request
      BY Items, Typed DEF Internal
    <3> QED  BY <1>1, <3>1 DEF Numbered
  <2>3. \A i \in DOMAIN m.pendingRequests :
          ~Internal(m.pendingRequests[i]) => m.request[m.pendingRequests[i].of].id > 0
    BY <1>1, <1>3, <1>6 DEF Numbered
  <2>4. \A j \in DOMAIN m.private :
          LET e == m.private[j] IN
          /\ e.kind = "app" /\ e.of \in Private /\ e.id \in 1 .. m.lastId
          /\ Apart(m, e.id)
          /\ \A r \in Request : m.request[r].id = e.id => r = e.of
          /\ m.current # None /\ m.current.id = e.id => m.current.of \in Private
    BY <1>1, <1>5 DEF Numbered
  <2> QED  BY <2>1, <2>2, <2>3, <2>4 DEF Numbered
<1>8. \A w : (Leaving(m, w) <=> Leaving(k, w)) /\ (IsActive(m, w) <=> IsActive(k, w))
  BY DEF Leaving, IsActive
<1>9. Removals(m)
  <2>1. \A i, j \in DOMAIN m.pendingRequests :
          IsRemoval(m.pendingRequests[i]) /\ IsRemoval(m.pendingRequests[j])
              /\ m.pendingRequests[i].of = m.pendingRequests[j].of => i = j
    BY <1>1, <1>2, <1>3 DEF Removals
  <2> QED  BY <1>1, <1>3, <1>8, <2>1 DEF Removals
<1>10. Plugged(m)
  BY <1>1, <1>8 DEF Plugged
<1>11. Wired(m, net)
  <2>1. \A e \in DOMAIN net.fromPrivate :
          LET id == net.fromPrivate[e].id IN
          /\ id \in 1 .. m.lastId /\ Apart(m, id)
          /\ \A r \in Request : m.request[r].id = id => r \in Private
          /\ m.current # None /\ m.current.id = id => m.current.of \in Private
    BY <1>1, <1>5 DEF Wired
  <2> QED  BY <1>1, <1>8, <2>1 DEF Wired
<1>12. \A i \in DOMAIN m.pendingRequests : IsApp(m.pendingRequests[i]) =>
          /\ m.pendingRequests[i].of \in Request
          /\ IsApp(k.pendingRequests[at[i]]) /\ NumberAt(m, i) = NumberAt(k, at[i])
  BY <1>3, <1>6 DEF NumberAt, IsApp, Internal
<1>13. ASSUME ~net.resent
       PROVE  Ordered(m) /\ Told(m, net)
  <2>1. Ordered(k) /\ Told(k, net)
    BY <1>13 DEF Fine
  <2>2. IsApp(k.current) => k.current.of \in Request /\ k.current.of \notin gone
    <3> SUFFICES ASSUME IsApp(k.current) PROVE k.current.of \in Request /\ k.current.of \notin gone
      OBVIOUS
    <3>1. k.current.of \in Request /\ k.current # None
      BY Items, Typed DEF IsApp
    <3>2. ASSUME k.current.of \in gone PROVE FALSE
      <4>1. PICK i \in DOMAIN k.pendingRequests :
                IsApp(k.pendingRequests[i]) /\ k.pendingRequests[i].of = k.current.of
        BY <3>2
      <4>2. k.current.id < NumberAt(k, i) /\ k.current.id = NumberAt(k, i)
        BY <2>1, <4>1 DEF Ordered, NumberAt
      <4>3. k.current.id \in Nat
        BY <3>1, Items, Typed
      <4> QED  BY <4>2, <4>3
    <3> QED  BY <3>1, <3>2
  <2>3. \A i, j \in DOMAIN m.pendingRequests :
          i < j /\ IsApp(m.pendingRequests[i]) /\ IsApp(m.pendingRequests[j])
              => NumberAt(m, i) < NumberAt(m, j)
    BY <1>2, <1>3, <1>12, <2>1 DEF Ordered
  <2>4. IsApp(m.current) =>
          /\ m.current.id = m.request[m.current.of].id
          /\ m.request[m.current.of].status \in {"Sent", "Receiving"}
          /\ \A i \in DOMAIN m.pendingRequests :
                IsApp(m.pendingRequests[i]) => m.current.id < NumberAt(m, i)
          /\ \A j \in DOMAIN m.private : m.private[j].id <= m.current.id
    BY <1>3, <1>12, <2>1, <2>2 DEF Ordered
  <2>5. \A i \in DOMAIN m.pendingRequests :
          IsApp(m.pendingRequests[i]) =>
              /\ m.request[m.pendingRequests[i].of].status \in {"Queued", "Error"}
              /\ \A j \in DOMAIN m.private : m.private[j].id <= NumberAt(m, i)
    BY <1>3, <1>12, <1>13, <2>1 DEF Ordered
  <2>6. Told(m, net)
    <3>1. \A r \in Request : m.request[r].status = "Finished" => k.request[r].status = "Finished"
      OBVIOUS
    <3> QED  BY <2>1, <3>1 DEF Told
  <2> QED  BY <2>3, <2>4, <2>5, <2>6 DEF Ordered
<1>14. ASSUME ~net.resent, ~net.broken
       PROVE  Once(m, net)
  <2>1. Once(k, net)
    BY <1>14 DEF Fine
  <2>2. \A r \in Request : m.request[r].status = "Canceled" => net.ran[r] = 0
    <3>1. \A r \in gone : net.ran[r] = 0
      BY <2>1 DEF Once
    <3> QED  BY <2>1, <3>1 DEF Once
  <2>3. \A i \in DOMAIN m.pendingRequests :
          IsApp(m.pendingRequests[i]) => net.ran[m.pendingRequests[i].of] = 0
    BY <1>3, <2>1 DEF Once
  <2>4. \A e \in DOMAIN net.fromPrivate :
          LET id == net.fromPrivate[e].id IN
          /\ m.private # <<>> => m.current.id # id
          /\ \A i \in DOMAIN m.pendingRequests :
                IsApp(m.pendingRequests[i]) => NumberAt(m, i) # id
    BY <1>3, <1>12, <2>1 DEF Once
  <2> QED  BY <2>1, <2>2, <2>3, <2>4 DEF Once
<1> QED  BY <1>1, <1>7, <1>9, <1>10, <1>11, <1>13, <1>14 DEF Fine

\* What stays of the queue are its internal entries, in their order.
LEMMA InternalOnlyFacts ==
    ASSUME NEW queue \in Seq(Item)
    PROVE  /\ InternalOnly(queue) \in Seq(Item)
           /\ \A i \in DOMAIN InternalOnly(queue) : Internal(InternalOnly(queue)[i])
           /\ Made(InternalOnly(queue), queue, {})
<1> DEFINE n == Len(queue)
           Add(i, q) == IF Internal(queue[i]) THEN Append(q, queue[i]) ELSE q
           kept == CHOOSE f : f = [i \in 0 .. n |-> IF i = 0 THEN <<>>
                                  ELSE IF Internal(queue[i]) THEN Append(f[i - 1], queue[i])
                                       ELSE f[i - 1]]
           Rest(i, q) == /\ q \in Seq(Item)
                         /\ \A j \in DOMAIN q : Internal(q[j])
                         /\ \E at \in [DOMAIN q -> 1 .. i] :
                               /\ \A j \in DOMAIN q : q[j] = queue[at[j]]
                               /\ \A j, l \in DOMAIN q : j < l => at[j] < at[l]
<1>1. n \in Nat /\ (\A i \in 1 .. n : queue[i] \in Item) /\ InternalOnly(queue) = kept[n]
  BY DEF InternalOnly
<1>2. PICK step : step = [i \in 1 .. n |-> [q \in Seq(Item) |-> Add(i, q)]]
  OBVIOUS
<1>3. step \in [1 .. n -> [Seq(Item) -> Seq(Item)]] /\ <<>> \in Seq(Item)
  <2>1. \A i \in 1 .. n, q \in Seq(Item) : Add(i, q) \in Seq(Item)
    BY <1>1
  <2> HIDE DEF Add, n
  <2> QED  BY <1>2, <2>1
<1>4. PICK f \in [0 .. n -> Seq(Item)] : f[0] = <<>> /\ \A i \in 1 .. n : f[i] = step[i][f[i - 1]]
  <2> HIDE DEF n
  <2>1. n \in Nat
    BY <1>1
  <2>2. Steps(Seq(Item), n, step) /\ <<>> \in Seq(Item)
    BY <1>3 DEF Steps
  <2>3. Recursion(Seq(Item), <<>>, n, step)
    BY <2>1, <2>2, RecursionExists
  <2> QED  BY <2>3 DEF Recursion
<1>5. \A i \in 1 .. n : f[i - 1] \in Seq(Item) /\ f[i] = Add(i, f[i - 1])
  <2> HIDE DEF Add, n
  <2>1. \A i \in 1 .. n : i - 1 \in 0 .. n
    BY <1>1
  <2> QED  BY <1>2, <1>4, <2>1
<1>6. f = [i \in 0 .. n |-> IF i = 0 THEN <<>>
              ELSE IF Internal(queue[i]) THEN Append(f[i - 1], queue[i]) ELSE f[i - 1]]
  <2> HIDE DEF n
  <2>1. \A i \in 0 .. n : i = 0 \/ i \in 1 .. n
    BY <1>1
  <2> QED  BY <1>4, <1>5, <2>1
<1>7. kept = [i \in 0 .. n |-> IF i = 0 THEN <<>>
              ELSE IF Internal(queue[i]) THEN Append(kept[i - 1], queue[i]) ELSE kept[i - 1]]
  BY <1>6
<1> HIDE DEF kept
<1>8. kept[0] = <<>> /\ \A i \in 1 .. n : kept[i] = Add(i, kept[i - 1])
  <2> HIDE DEF n
  <2>1. 0 \in 0 .. n /\ \A i \in 1 .. n : i \in 0 .. n /\ i # 0
    BY <1>1
  <2> QED  BY <1>7, <2>1
<1>9. ASSUME NEW i \in 1 .. n, NEW q, Rest(i - 1, q)
      PROVE  Rest(i, Add(i, q))
  <2>1. PICK at \in [DOMAIN q -> 1 .. i - 1] :
            /\ \A j \in DOMAIN q : q[j] = queue[at[j]]
            /\ \A j, l \in DOMAIN q : j < l => at[j] < at[l]
    BY <1>9
  <2>2. q \in Seq(Item) /\ \A j \in DOMAIN q : Internal(q[j])
    BY <1>9
  <2>3. CASE ~Internal(queue[i])
    <3>1. at \in [DOMAIN q -> 1 .. i]
      BY <1>1, <2>1
    <3> QED  BY <2>1, <2>2, <2>3, <3>1
  <2>4. CASE Internal(queue[i])
    <3>1. PICK p : p = Append(q, queue[i])
      OBVIOUS
    <3>2. /\ p \in Seq(Item) /\ DOMAIN p = 1 .. Len(q) + 1 /\ DOMAIN q = 1 .. Len(q) /\ Len(q) \in Nat
          /\ \A j \in DOMAIN q : p[j] = q[j]
          /\ p[Len(q) + 1] = queue[i]
      BY <1>1, <2>2, <3>1, AppendProperties
    <3>3. PICK on : on = [j \in DOMAIN p |-> IF j \in DOMAIN q THEN at[j] ELSE i]
      OBVIOUS
    <3>4. \A j \in DOMAIN p : j \in DOMAIN q \/ j = Len(q) + 1
      BY <3>2
    <3>5. \A j \in DOMAIN q : j \in DOMAIN p /\ j # Len(q) + 1 /\ on[j] = at[j] /\ at[j] \in 1 .. i - 1
      BY <2>1, <3>2, <3>3
    <3>6. Len(q) + 1 \in DOMAIN p /\ on[Len(q) + 1] = i
      BY <3>2, <3>3
    <3>7. on \in [DOMAIN p -> 1 .. i]
      BY <1>1, <3>3, <3>4, <3>5, <3>6
    <3>8. \A j \in DOMAIN p : p[j] = queue[on[j]] /\ Internal(p[j])
      BY <2>1, <2>2, <2>4, <3>2, <3>4, <3>5, <3>6
    <3>9. ASSUME NEW j \in DOMAIN p, NEW l \in DOMAIN p, j < l PROVE on[j] < on[l]
      <4>1. j \in DOMAIN q
        BY <3>2, <3>9
      <4>2. CASE l \in DOMAIN q
        BY <2>1, <3>5, <3>9, <4>1, <4>2
      <4>3. CASE l = Len(q) + 1
        BY <1>1, <3>5, <3>6, <4>1, <4>3
      <4> QED  BY <3>4, <4>2, <4>3
    <3>10. Add(i, q) = p
      BY <2>4, <3>1
    <3> QED  BY <3>2, <3>7, <3>8, <3>9, <3>10
  <2> QED  BY <2>3, <2>4
<1>10. Rest(0, kept[0])
  <2>1. DOMAIN <<>> = {} /\ <<>> \in Seq(Item)
    OBVIOUS
  <2>2. PICK at : at = [j \in {} |-> 1]
    OBVIOUS
  <2>3. at \in [DOMAIN <<>> -> 1 .. 0]
    BY <2>1, <2>2
  <2> QED  BY <1>8, <2>1, <2>3
<1> HIDE DEF Rest, Add, n
<1> DEFINE T == {i \in Nat : i <= n => Rest(i, kept[i])}
<1>11. 0 \in T
  BY <1>10
<1>12. ASSUME NEW i \in Nat, i \in T PROVE i + 1 \in T
  <2> SUFFICES ASSUME i + 1 <= n PROVE Rest(i + 1, kept[i + 1])
    OBVIOUS
  <2>1. i + 1 \in 1 .. n /\ (i + 1) - 1 = i /\ i <= n
    BY <1>1
  <2>2. Rest(i, kept[i]) /\ kept[i + 1] = Add(i + 1, kept[i])
    BY <1>8, <1>12, <2>1
  <2> QED  BY <1>9, <2>1, <2>2
<1> HIDE DEF T
<1>13. Nat \subseteq T
  BY <1>11, <1>12, SetInduction
<1>14. Rest(n, kept[n])
  BY <1>1, <1>13 DEF T
<1>15. PICK q : q = kept[n]
  OBVIOUS
<1>16. PICK at \in [DOMAIN q -> 1 .. n] :
            /\ \A j \in DOMAIN q : q[j] = queue[at[j]]
            /\ \A j, l \in DOMAIN q : j < l => at[j] < at[l]
  BY <1>14, <1>15 DEF Rest
<1>17. q \in Seq(Item) /\ \A j \in DOMAIN q : Internal(q[j])
  BY <1>14, <1>15 DEF Rest
<1>18. Made(q, queue, {})
  <2>1. at \in [DOMAIN q -> 0 .. Len(queue)] /\ \A j \in DOMAIN q : at[j] # 0 /\ at[j] \in Nat
    BY <1>1, <1>16 DEF n
  <2>2. \A j, l \in DOMAIN q : j # l => at[j] # at[l]
    <3>1. \A j \in DOMAIN q : j \in Nat
      BY <1>17
    <3>2. \A j, l \in DOMAIN q : j # l => j < l \/ l < j
      BY <3>1
    <3> QED  BY <1>16, <2>1, <3>2
  <2> QED  BY <1>16, <2>1, <2>2 DEF Made
<1> QED  BY <1>1, <1>15, <1>17, <1>18

-----------------------------------------------------------------------------
(***************************************************************************)
(* Answers.                                                                *)
(***************************************************************************)
LEMMA AnsweredEffect ==
    ASSUME NEW k \in Connection, k.current # None, NEW ok \in BOOLEAN
    PROVE  LET m == Answered(k, ok)
               item == k.current
           IN
           /\ m \in Connection /\ m.current = None
           /\ m.pendingRequests = k.pendingRequests /\ m.private = k.private
           /\ m.lastId = k.lastId /\ m.out = k.out /\ m.status = k.status /\ m.socket = k.socket
           /\ m.request = IF Internal(item) THEN k.request
                          ELSE [k.request EXCEPT ![item.of].status = IF ok THEN "Finished" ELSE "Error"]
           /\ \/ m.watcher = k.watcher
              \/ /\ Internal(item) /\ ok
                 /\ m.watcher = [k.watcher EXCEPT ![item.of].status =
                                    IF item.kind = "add" THEN "Active" ELSE "Inactive"]
<1>1. PICK item : item = k.current
  OBVIOUS
<1>2. item \in Item
  BY <1>1, Typed
<1>3. PICK l : l = k.listening \ {<<item.of, item.id>>}
  OBVIOUS
<1>4. PICK a : a = [k EXCEPT !.current = None]
  OBVIOUS
<1>5. /\ a \in Connection /\ a.current = None /\ a.request = k.request
      /\ a.pendingRequests = k.pendingRequests /\ a.private = k.private
      /\ a.lastId = k.lastId /\ a.out = k.out /\ a.status = k.status /\ a.socket = k.socket
      /\ a.watcher = k.watcher /\ a.listening = k.listening
  BY <1>4 DEF Connection
<1>6. PICK free : free = [a EXCEPT !.listening = l]
  OBVIOUS
<1>7. /\ free \in Connection /\ free.current = None /\ free.request = k.request
      /\ free.pendingRequests = k.pendingRequests /\ free.private = k.private
      /\ free.lastId = k.lastId /\ free.out = k.out /\ free.status = k.status
      /\ free.socket = k.socket /\ free.watcher = k.watcher
  <2>1. l \in SUBSET (Watcher \X Nat)
    BY <1>3 DEF Connection
  <2> QED  BY <1>5, <1>6, <2>1 DEF Connection
<1>8. free = [k EXCEPT !.current = None, !.listening = @ \ {<<item.of, item.id>>}]
  BY <1>3, <1>4, <1>6 DEF Connection
<1>9. CASE item.kind = "app"
  <2>1. PICK status \in Status : status = IF ok THEN "Finished" ELSE "Error"
    BY DEF Status
  <2>2. Answered(k, ok) = SetStatus(free, item, status)
    BY <1>1, <1>8, <1>9, <2>1 DEF Answered, Internal
  <2>3. ~Internal(item)
    BY <1>9 DEF Internal
  <2> QED  BY <1>1, <1>2, <1>7, <2>1, <2>2, <2>3, SetStatusEffect
<1>10. CASE item.kind # "app" /\ ok /\ <<item.of, item.id>> \in k.listening
  <2>1. PICK status : status = IF item.kind = "add" THEN "Active" ELSE "Inactive"
    OBVIOUS
  <2>2. Answered(k, ok) = [free EXCEPT !.watcher[item.of].status = status]
    BY <1>1, <1>8, <1>10, <2>1 DEF Answered, Internal
  <2>3. PICK f : f = [k.watcher EXCEPT ![item.of].status = status]
    OBVIOUS
  <2>4. f \in [Watcher -> [status : {"Inactive", "Activating", "Active"}, added : BOOLEAN]]
    <3>1. k.watcher \in [Watcher -> [status : {"Inactive", "Activating", "Active"}, added : BOOLEAN]]
      BY Typed
    <3>2. PICK w \in Watcher : w = item.of
      BY <1>2, <1>10, Items
    <3>3. status \in {"Inactive", "Activating", "Active"}
      BY <2>1
    <3>4. f = [k.watcher EXCEPT ![w].status = status]
      BY <2>3, <3>2
    <3> QED  BY <3>1, <3>3, <3>4
  <2>5. PICK m : m = [free EXCEPT !.watcher = f]
    OBVIOUS
  <2>6. Answered(k, ok) = m
    BY <1>7, <2>2, <2>3, <2>5
  <2>7. /\ m \in Connection /\ m.current = None /\ m.request = k.request
        /\ m.pendingRequests = k.pendingRequests /\ m.private = k.private
        /\ m.lastId = k.lastId /\ m.out = k.out /\ m.status = k.status
        /\ m.socket = k.socket /\ m.watcher = f
    BY <1>7, <2>4, <2>5 DEF Connection
  <2> QED  BY <1>1, <1>10, <2>1, <2>3, <2>6, <2>7 DEF Internal
<1>11. CASE item.kind # "app" /\ ~(ok /\ <<item.of, item.id>> \in k.listening)
  <2>1. Answered(k, ok) = free
    BY <1>1, <1>8, <1>11 DEF Answered, Internal
  <2> QED  BY <1>1, <1>7, <1>11, <2>1 DEF Internal
<1> QED  BY <1>9, <1>10, <1>11

\* The request in flight is answered and makes way for the next.
LEMMA AnsweredKeeps ==
    ASSUME NEW k \in Connection, NEW net, NEW now, Fine(k, net),
           k.current # None, NEW ok \in BOOLEAN,
           net.toServer \o k.out = <<>>, now.toServer \o k.out = <<>>,
           now.toServer \in Seq(Item), now.toClient = <<>>,
           Fewer(now.fromPrivate, net.fromPrivate),
           now.registered = net.registered, now.ran = net.ran,
           now.resent = net.resent, now.broken = net.broken,
           ~net.resent /\ ok /\ IsApp(k.current) => net.ran[k.current.of] > 0,
           ok /\ k.current.kind = "add" => k.current.of \in net.registered,
           ~net.resent /\ ~net.broken => k.private = <<>>
    PROVE  LET m == handleRequestQueue(Answered(k, ok)) IN
           Fine(m, now) /\ m.socket = k.socket
<1>1. PICK item : item = k.current
  OBVIOUS
<1>2. PICK m : m = Answered(k, ok)
  OBVIOUS
<1>3. /\ m \in Connection /\ m.current = None
      /\ m.pendingRequests = k.pendingRequests /\ m.private = k.private
      /\ m.lastId = k.lastId /\ m.out = k.out /\ m.status = k.status /\ m.socket = k.socket
      /\ m.request = IF Internal(item) THEN k.request
                     ELSE [k.request EXCEPT ![item.of].status = IF ok THEN "Finished" ELSE "Error"]
      /\ \/ m.watcher = k.watcher
         \/ /\ Internal(item) /\ ok
            /\ m.watcher = [k.watcher EXCEPT ![item.of].status =
                               IF item.kind = "add" THEN "Active" ELSE "Inactive"]
  BY <1>1, <1>2, AnsweredEffect
<1>4. Numbered(k) /\ Removals(k) /\ Plugged(k) /\ Wired(k, net) /\ NetType(net)
  BY DEF Fine
<1>5. /\ item \in Item /\ (IsApp(item) <=> ~Internal(item))
      /\ (IsApp(item) => item.of \in Request) /\ (~IsApp(item) => item.of \in Watcher)
  BY <1>1, Typed, Items DEF IsApp, Internal
<1>6. NetType(now)
  <2>1. <<>> \in Seq(Answer)
    OBVIOUS
  <2> QED  BY <1>4, <2>1 DEF NetType, Fewer
<1>7. /\ \A r \in Request : m.request[r].id = k.request[r].id
      /\ \A r \in Request : ~IsApp(item) \/ r # item.of => m.request[r] = k.request[r]
      /\ IsApp(item) => m.request[item.of].status = IF ok THEN "Finished" ELSE "Error"
  <2>1. CASE ~IsApp(item)
    BY <1>3, <1>5, <2>1
  <2>2. CASE IsApp(item)
    <3>1. PICK q \in Request : q = item.of
      BY <1>5, <2>2
    <3>2. PICK status : status = IF ok THEN "Finished" ELSE "Error"
      OBVIOUS
    <3>3. m.request = [k.request EXCEPT ![q].status = status]
      BY <1>3, <1>5, <2>2, <3>1, <3>2
    <3>4. k.request \in [Request -> [status : Status, id : Nat]]
      BY Typed
    <3>5. /\ \A r \in Request : m.request[r].id = k.request[r].id
          /\ \A r \in Request : r # q => m.request[r] = k.request[r]
          /\ m.request[q].status = status
      BY <3>3, <3>4
    <3> QED  BY <2>2, <3>1, <3>2, <3>5
  <2> QED  BY <2>1, <2>2
<1>8. /\ \A w \in Watcher : m.watcher[w].added = k.watcher[w].added
      /\ \A w \in Watcher : IsApp(item) \/ w # item.of => m.watcher[w] = k.watcher[w]
      /\ ~IsApp(item) /\ m.watcher[item.of] # k.watcher[item.of] =>
             ok /\ m.watcher[item.of].status = IF item.kind = "add" THEN "Active" ELSE "Inactive"
  <2>1. CASE m.watcher = k.watcher
    BY <2>1
  <2>2. CASE Internal(item) /\ ok /\ m.watcher = [k.watcher EXCEPT ![item.of].status =
                               IF item.kind = "add" THEN "Active" ELSE "Inactive"]
    <3>1. PICK u \in Watcher : u = item.of
      BY <1>5, <2>2
    <3>2. PICK status : status = IF item.kind = "add" THEN "Active" ELSE "Inactive"
      OBVIOUS
    <3>3. m.watcher = [k.watcher EXCEPT ![u].status = status]
      BY <2>2, <3>1, <3>2
    <3>4. k.watcher \in [Watcher -> [status : {"Inactive", "Activating", "Active"},
                                     added : BOOLEAN]]
      BY Typed
    <3>5. /\ \A w \in Watcher : m.watcher[w].added = k.watcher[w].added
          /\ \A w \in Watcher : w # u => m.watcher[w] = k.watcher[w]
          /\ m.watcher[u].status = status
      BY <3>3, <3>4
    <3> QED  BY <1>5, <2>2, <3>1, <3>2, <3>5
  <2> QED  BY <1>3, <2>1, <2>2
<1>9. Internals(m) \subseteq Internals(k)
  BY <1>3 DEF Internals
<1>10. \A id : Apart(k, id) => Apart(m, id)
  BY <1>9 DEF Apart
<1>11. \A i : NumberAt(k, i) = k.request[k.pendingRequests[i].of].id
              /\ NumberAt(m, i) = m.request[k.pendingRequests[i].of].id
  BY <1>3 DEF NumberAt
<1>12. \A i \in DOMAIN k.pendingRequests : IsApp(k.pendingRequests[i]) =>
          k.pendingRequests[i].of \in Request /\ NumberAt(m, i) = NumberAt(k, i)
  <2>1. \A i \in DOMAIN k.pendingRequests : IsApp(k.pendingRequests[i]) =>
            k.pendingRequests[i].of \in Request
    BY Items, Typed DEF IsApp
  <2> QED  BY <1>7, <1>11, <2>1
<1>13. Numbered(m)
  <2>1. /\ \A r \in Request : m.request[r].id <= m.lastId
        /\ \A r, q \in Request : r # q /\ m.request[r].id = m.request[q].id => m.request[r].id = 0
        /\ \A i \in Internals(m) : i.id \in 1 .. m.lastId /\ Strange(m, i.id)
    BY <1>3, <1>4, <1>7, <1>9, SMTT(30) DEF Numbered, Strange
  <2>2. \A i \in DOMAIN m.pendingRequests :
          ~Internal(m.pendingRequests[i]) => m.request[m.pendingRequests[i].of].id > 0
    <3>1. \A i \in DOMAIN k.pendingRequests : ~Internal(k.pendingRequests[i]) =>
              k.pendingRequests[i].of \in Request
      BY Items, Typed DEF Internal
    <3> QED  BY <1>3, <1>4, <1>7, <3>1 DEF Numbered
  <2>3. \A j \in DOMAIN m.private :
          LET e == m.private[j] IN
          /\ e.kind = "app" /\ e.of \in Private /\ e.id \in 1 .. m.lastId
          /\ Apart(m, e.id)
          /\ \A r \in Request : m.request[r].id = e.id => r = e.of
    BY <1>3, <1>4, <1>7, <1>10 DEF Numbered
  <2> QED  BY <1>3, <2>1, <2>2, <2>3 DEF Numbered
<1>14. Removals(m)
  <2>1. ~IsRemoval(m.current)
    BY <1>3, Items DEF IsRemoval
  <2>2. ASSUME NEW i \in DOMAIN k.pendingRequests, IsRemoval(k.pendingRequests[i])
        PROVE  Leaving(m, k.pendingRequests[i].of)
    <3>1. PICK w \in Watcher : w = k.pendingRequests[i].of
      BY <2>2, Items, Typed DEF IsRemoval
    <3>2. Leaving(k, w)
      BY <1>4, <2>2, <3>1 DEF Removals
    <3>3. CASE m.watcher[w] = k.watcher[w]
      BY <3>1, <3>2, <3>3 DEF Leaving
    <3>4. CASE m.watcher[w] # k.watcher[w]
      <4>1. ~IsApp(item) /\ w = item.of
        BY <1>8, <3>4
      <4>2. ~IsRemoval(item)
        BY <1>1, <1>4, <2>2, <3>1, <4>1 DEF Removals
      <4>3. item.kind = "add"
        BY <1>5, <4>1, <4>2, Items DEF IsApp, IsRemoval
      <4> QED  BY <1>8, <3>1, <3>2, <3>4, <4>1, <4>3 DEF Leaving
    <3> QED  BY <3>3, <3>4
  <2> QED  BY <1>3, <1>4, <2>1, <2>2 DEF Removals
<1>15. ASSUME NEW w \in Watcher, IsActive(m, w)
       PROVE  w \in net.registered /\ (IsActive(k, w) \/ k.current = item)
  <2>1. CASE m.watcher[w] = k.watcher[w]
    BY <1>4, <1>15, <2>1 DEF Wired, IsActive
  <2>2. CASE m.watcher[w] # k.watcher[w]
    BY <1>1, <1>8, <1>15, <2>2 DEF IsActive
  <2> QED  BY <2>1, <2>2
<1>16. Plugged(m)
  <2>1. k.socket # "none"
    BY <1>4 DEF Plugged
  <2> QED  BY <1>3, <1>4, <2>1 DEF Plugged
<1>17. Wired(m, now)
  <2>1. \A e \in DOMAIN now.fromPrivate :
          LET id == now.fromPrivate[e].id IN
          /\ id \in 1 .. m.lastId /\ Apart(m, id)
          /\ \A r \in Request : m.request[r].id = id => r \in Private
    BY <1>3, <1>4, <1>7, <1>10 DEF Wired, Fewer
  <2> QED  BY <1>3, <1>15, <2>1 DEF Wired
<1>18. ASSUME ~now.resent
       PROVE  Ordered(m) /\ Told(m, now)
  <2>1. Ordered(k) /\ Told(k, net)
    BY <1>18 DEF Fine
  <2>2. ~IsApp(m.current)
    BY <1>3, Items DEF IsApp
  <2>3. \A i, j \in DOMAIN m.pendingRequests :
          i < j /\ IsApp(m.pendingRequests[i]) /\ IsApp(m.pendingRequests[j])
              => NumberAt(m, i) < NumberAt(m, j)
    BY <1>3, <1>12, <2>1 DEF Ordered
  <2>4. ASSUME NEW i \in DOMAIN m.pendingRequests, IsApp(m.pendingRequests[i])
        PROVE  /\ m.request[m.pendingRequests[i].of].status \in {"Queued", "Error"}
               /\ \A j \in DOMAIN m.private : m.private[j].id <= NumberAt(m, i)
    <3>1. m.pendingRequests[i].of \in Request
      BY <1>3, <1>12, <2>4
    <3>2. IsApp(item) => m.pendingRequests[i].of # item.of
      <4> SUFFICES ASSUME IsApp(item), m.pendingRequests[i].of = item.of PROVE FALSE
        OBVIOUS
      <4>1. item.id < NumberAt(k, i) /\ item.id = k.request[item.of].id
        BY <1>1, <1>3, <2>1, <2>4 DEF Ordered
      <4>2. item.id \in Nat
        BY <1>5, Items
      <4> QED  BY <1>3, <1>11, <4>1, <4>2, SMTT(30)
    <3>3. m.request[m.pendingRequests[i].of] = k.request[m.pendingRequests[i].of]
      BY <1>7, <3>1, <3>2
    <3> QED  BY <1>3, <1>12, <2>1, <2>4, <3>3 DEF Ordered
  <2>5. Told(m, now)
    <3>1. ASSUME NEW r \in Request, m.request[r].status = "Finished" PROVE now.ran[r] > 0
      <4>1. CASE IsApp(item) /\ r = item.of
        BY <1>1, <1>7, <1>18, <3>1, <4>1
      <4>2. CASE ~IsApp(item) \/ r # item.of
        BY <1>7, <2>1, <3>1, <4>2 DEF Told
      <4> QED  BY <4>1, <4>2
    <3>2. ASSUME NEW e \in DOMAIN now.fromPrivate, now.fromPrivate[e].signal = "finished",
                 NEW r \in Request, m.request[r].id = now.fromPrivate[e].id
          PROVE  now.ran[r] > 0
      <4>1. PICK d \in DOMAIN net.fromPrivate : now.fromPrivate[e] = net.fromPrivate[d]
        BY DEF Fewer
      <4> QED  BY <1>7, <2>1, <3>2, <4>1 DEF Told
    <3> QED  BY <3>1, <3>2 DEF Told
  <2> QED  BY <2>2, <2>3, <2>4, <2>5 DEF Ordered
<1>19. ASSUME ~now.resent, ~now.broken
       PROVE  Once(m, now)
  <2>1. Once(k, net)
    BY <1>19 DEF Fine
  <2>2. \A r \in Request : m.request[r].status = "Canceled" => now.ran[r] = 0
    <3> SUFFICES ASSUME NEW r \in Request, m.request[r].status = "Canceled"
                 PROVE  now.ran[r] = 0
      OBVIOUS
    <3>1. ~IsApp(item) \/ r # item.of
      BY <1>7
    <3> QED  BY <1>7, <2>1, <3>1 DEF Once
  <2>3. ~IsApp(m.current)
    BY <1>3, Items DEF IsApp
  <2>4. ASSUME NEW e \in DOMAIN now.fromPrivate, NEW i \in DOMAIN m.pendingRequests,
               IsApp(m.pendingRequests[i])
        PROVE  NumberAt(m, i) # now.fromPrivate[e].id
    <3>1. PICK d \in DOMAIN net.fromPrivate : now.fromPrivate[e] = net.fromPrivate[d]
      BY DEF Fewer
    <3> QED  BY <1>3, <1>12, <2>1, <2>4, <3>1 DEF Once
  <2>5. m.private = <<>>
    BY <1>3, <1>19
  <2>6. \A i \in DOMAIN m.pendingRequests :
          IsApp(m.pendingRequests[i]) => now.ran[m.pendingRequests[i].of] = 0
    BY <1>3, <2>1 DEF Once
  <2> QED  BY <2>1, <2>2, <2>3, <2>4, <2>5, <2>6 DEF Once
<1>20. Fine(m, now)
  BY <1>3, <1>6, <1>13, <1>14, <1>16, <1>17, <1>18, <1>19 DEF Fine
<1> QED  BY <1>2, <1>3, <1>20, HandleKeeps

-----------------------------------------------------------------------------
(***************************************************************************)
(* The steps of the daemon and of the private partition's thread.          *)
(***************************************************************************)
LEMMA NetFields ==
    /\ Net.toServer = toServer /\ Net.toClient = toClient /\ Net.fromPrivate = fromPrivate
    /\ Net.registered = registered /\ Net.ran = ran
    /\ Net.resent = ("resent" \in exposed) /\ Net.broken = ("broken" \in exposed)
    /\ Net'.toServer = toServer' /\ Net'.toClient = toClient'
    /\ Net'.fromPrivate = fromPrivate'
    /\ Net'.registered = registered' /\ Net'.ran = ran'
    /\ Net'.resent = ("resent" \in exposed') /\ Net'.broken = ("broken" \in exposed')
BY DEF Net

\* The daemon reads the request in flight and answers it.
LEMMA ReceiveMessage ==
    ASSUME IInv, NEW ok \in BOOLEAN, receiveMessage(ok)
    PROVE  IInv'
<1> DEFINE item == c.current
           now == Net'
           net == Net
<1>1. c.out = <<>> /\ c \in Connection /\ Fine(c, net)
  BY DEF IInv, Fine
<1>2. Numbered(c) /\ Removals(c) /\ Plugged(c) /\ Wired(c, net) /\ NetType(net)
  BY <1>1 DEF Fine
<1>3. toServer \in Seq(Item) /\ toClient \in Seq(Answer) /\ ran \in [Request -> Nat]
      /\ fromPrivate \in Seq(Event)
  BY <1>2, NetFields DEF NetType
<1>4. toServer = <<item>> /\ toClient = <<>> /\ c.current # None /\ item.of \notin Private
  <2>1. toServer # <<>> /\ toServer \o c.out = toServer
    BY <1>1, <1>3 DEF receiveMessage
  <2> QED  BY <1>2, <2>1, NetFields DEF Wired
<1>5. item \in Item /\ (IsApp(item) => item.of \in Request) /\ item.kind \in {"app", "add", "remove"}
      /\ item.id \in Nat
  BY <1>1, <1>4, Typed, Items DEF IsApp
<1>6. Head(toServer) = item /\ Tail(toServer) = <<>>
  BY <1>4
<1>7. /\ c' = c /\ toServer' = <<>> /\ fromPrivate' = fromPrivate
      /\ toClient' = <<[id |-> item.id, ok |-> ok]>>
      /\ ("resent" \in exposed' <=> "resent" \in exposed)
      /\ ("broken" \in exposed' <=> "broken" \in exposed)
  BY <1>4, <1>6 DEF receiveMessage
<1>8. /\ item.kind = "add" /\ ok => registered' = registered \cup {item.of}
      /\ item.kind = "add" /\ ~ok => registered' = registered
      /\ item.kind = "remove" => registered' \in {registered, registered \ {item.of}}
      /\ item.kind = "app" => registered' = registered
  BY <1>6 DEF receiveMessage
<1>9. ran' = IF IsApp(item) /\ c.request[item.of].id = item.id
             THEN [ran EXCEPT ![item.of] = @ + 1] ELSE ran
  BY <1>6 DEF receiveMessage, Ran, IsApp
<1>10. /\ ran' \in [Request -> Nat]
       /\ \A r \in Request : ran'[r] >= ran[r]
       /\ \A r \in Request : ~IsApp(item) \/ r # item.of => ran'[r] = ran[r]
       /\ IsApp(item) /\ c.request[item.of].id = item.id => ran'[item.of] = ran[item.of] + 1
  BY <1>3, <1>5, <1>9
<1>11. [id |-> item.id, ok |-> ok] \in Answer /\ toClient' \in Seq(Answer) /\ Len(toClient') = 1
       /\ toClient'[1].id = item.id /\ toClient'[1].ok = ok
  BY <1>5, <1>7 DEF Answer
<1>12. NetType(now)
  <2>1. <<>> \in Seq(Item)
    OBVIOUS
  <2> QED  BY <1>3, <1>7, <1>10, <1>11, <2>1, NetFields DEF NetType
<1>13. \A w \in Watcher : IsActive(c, w) => w \in registered'
  <2> SUFFICES ASSUME NEW w \in Watcher, IsActive(c, w) PROVE w \in registered'
    OBVIOUS
  <2>1. w \in registered
    BY <1>2, NetFields DEF Wired
  <2>2. item.kind = "remove" => w # item.of
    BY <1>2 DEF Removals, IsRemoval, Leaving, IsActive
  <2> QED  BY <1>5, <1>8, <2>1, <2>2
<1>14. Wired(c, now)
  <2>1. toServer' \o c.out = <<>>
    BY <1>1, <1>7
  <2>2. now.toClient # <<>> =>
          /\ Len(now.toClient) = 1 /\ now.toClient[1].id = c.current.id
          /\ c.current.of \notin Private
          /\ c.current.kind = "add" /\ now.toClient[1].ok => c.current.of \in now.registered
    BY <1>4, <1>8, <1>11, NetFields
  <2>3. \A e \in DOMAIN now.fromPrivate :
          LET id == now.fromPrivate[e].id IN
          /\ id \in 1 .. c.lastId /\ Apart(c, id)
          /\ \A r \in Request : c.request[r].id = id => r \in Private
          /\ c.current # None /\ c.current.id = id => c.current.of \in Private
    BY <1>2, <1>7, NetFields DEF Wired
  <2> QED  BY <1>4, <1>13, <2>1, <2>2, <2>3, NetFields DEF Wired
<1>15. ASSUME "resent" \notin exposed PROVE Ordered(c) /\ Told(c, now)
  <2>1. Ordered(c) /\ Told(c, net)
    BY <1>1, <1>15, NetFields DEF Fine
  <2>2. IsApp(item) => ran'[item.of] > 0
    <3>1. IsApp(item) => c.request[item.of].id = item.id
      BY <2>1 DEF Ordered
    <3> QED  BY <1>3, <1>5, <1>10, <3>1
  <2>3. \A r \in Request : ran[r] > 0 => ran'[r] > 0
    BY <1>3, <1>10
  <2>4. \A r \in Request : c.request[r].status = "Finished" => ran'[r] > 0
    BY <2>1, <2>3, NetFields DEF Told
  <2>5. \A e \in DOMAIN fromPrivate : fromPrivate[e].signal = "finished" =>
            \A r \in Request : c.request[r].id = fromPrivate[e].id => ran'[r] > 0
    BY <2>1, <2>3, NetFields DEF Told
  <2>6. Told(c, now)
    BY <1>7, <2>2, <2>4, <2>5, NetFields DEF Told
  <2> QED  BY <2>1, <2>6
<1>16. ASSUME "resent" \notin exposed, "broken" \notin exposed PROVE Once(c, now)
  <2>1. Once(c, net) /\ Ordered(c)
    BY <1>1, <1>16, NetFields DEF Fine
  <2>2. toServer \o c.out # <<>>
    BY <1>1, <1>4
  <2>3. IsApp(item) => ran[item.of] = 0
    BY <2>1, <2>2, NetFields DEF Once
  <2>4. \A r \in Request : ran'[r] <= 1
    <3> SUFFICES ASSUME NEW r \in Request PROVE ran'[r] <= 1
      OBVIOUS
    <3>1. ran[r] <= 1
      BY <2>1, NetFields DEF Once
    <3> QED  BY <1>5, <1>9, <1>10, <2>3, <3>1
  <2>5. \A r \in Request : c.request[r].status = "Canceled" => ran'[r] = 0
    <3> SUFFICES ASSUME NEW r \in Request, c.request[r].status = "Canceled" PROVE ran'[r] = 0
      OBVIOUS
    <3>1. ~IsApp(item) \/ r # item.of
      BY <2>1 DEF Ordered
    <3> QED  BY <1>10, <2>1, <3>1, NetFields DEF Once
  <2>6. \A i \in DOMAIN c.pendingRequests :
          IsApp(c.pendingRequests[i]) => ran'[c.pendingRequests[i].of] = 0
    <3> SUFFICES ASSUME NEW i \in DOMAIN c.pendingRequests, IsApp(c.pendingRequests[i])
                 PROVE  ran'[c.pendingRequests[i].of] = 0
      OBVIOUS
    <3>1. c.pendingRequests[i].of \in Request
      BY <1>1, Items, Typed DEF IsApp
    <3>2. ~IsApp(item) \/ c.pendingRequests[i].of # item.of
      <4>1. IsApp(item) => item.id < NumberAt(c, i) /\ item.id = c.request[item.of].id
        BY <2>1 DEF Ordered
      <4> QED  BY <1>5, <4>1 DEF NumberAt
    <3> QED  BY <1>10, <2>1, <3>1, <3>2, NetFields DEF Once
  <2>7. c.private = <<>>
    <3>1. CASE c.private = <<c.current>>
      <4>1. 1 \in DOMAIN c.private /\ c.private[1] = item
        BY <3>1
      <4> QED  BY <1>2, <1>4, <4>1 DEF Numbered
    <3> QED  BY <2>1, <3>1 DEF Once
  <2>8. now.toServer \o c.out = <<>>
    BY <1>1, <1>7, NetFields
  <2>9. \A e \in DOMAIN now.fromPrivate, i \in DOMAIN c.pendingRequests :
            IsApp(c.pendingRequests[i]) => NumberAt(c, i) # now.fromPrivate[e].id
    BY <1>7, <2>1, NetFields DEF Once
  <2> QED  BY <2>4, <2>5, <2>6, <2>7, <2>8, <2>9, NetFields DEF Once
<1>17. Fine(c, now)
  BY <1>1, <1>2, <1>7, <1>12, <1>14, <1>15, <1>16, NetFields DEF Fine
<1> HIDE DEF now
<1> QED  BY <1>1, <1>7, <1>17 DEF IInv, now

\* The private partition's thread runs a request and signals what it comes to.
LEMMA HandlePrivateRequest ==
    ASSUME IInv, NEW signals \in Outcome, handlePrivateRequest(signals)
    PROVE  IInv'
<1> DEFINE now == Net'
           net == Net
<1>1. c.out = <<>> /\ c \in Connection /\ Fine(c, net)
  BY DEF IInv, Fine
<1>2. Numbered(c) /\ Removals(c) /\ Plugged(c) /\ Wired(c, net) /\ NetType(net)
  BY <1>1 DEF Fine
<1>3. toServer \in Seq(Item) /\ toClient \in Seq(Answer) /\ ran \in [Request -> Nat]
      /\ fromPrivate \in Seq(Event)
  BY <1>2, NetFields DEF NetType
<1>4. c.private \in Seq(Item) /\ c.private # <<>>
  BY <1>1, Typed DEF handlePrivateRequest
<1>5. PICK item : item = Head(c.private)
  OBVIOUS
<1>6. 1 \in DOMAIN c.private /\ item = c.private[1] /\ item \in Item
  BY <1>4, <1>5
<1>7. /\ item.kind = "app" /\ item.of \in Private /\ item.of \in Request
      /\ item.id \in 1 .. c.lastId /\ Apart(c, item.id)
      /\ \A r \in Request : c.request[r].id = item.id => r = item.of
      /\ c.current # None /\ c.current.id = item.id => c.current.of \in Private
  BY <1>2, <1>6, ConnectionAssumption DEF Numbered
<1>8. /\ c' = [c EXCEPT !.private = Tail(@)]
      /\ fromPrivate' = IF ~c.privatePartitionHandler THEN fromPrivate ELSE fromPrivate \o
             [i \in 1 .. Len(signals) |-> [id |-> item.id, signal |-> signals[i]]]
      /\ ran' = IF c.request[item.of].id = item.id THEN [ran EXCEPT ![item.of] = @ + 1] ELSE ran
      /\ toServer' = toServer /\ toClient' = toClient /\ registered' = registered
      /\ exposed' = exposed
  BY <1>5, <1>7 DEF handlePrivateRequest, Ran, server
<1>9. /\ c' \in Connection /\ c'.private = Tail(c.private)
      /\ c'.request = c.request /\ c'.pendingRequests = c.pendingRequests
      /\ c'.current = c.current /\ c'.lastId = c.lastId /\ c'.out = c.out
      /\ c'.status = c.status /\ c'.socket = c.socket /\ c'.watcher = c.watcher
  <2>1. Tail(c.private) \in Seq(Item)
    BY <1>4
  <2> QED  BY <1>1, <1>8, <2>1 DEF Connection
<1>10. \A j \in DOMAIN c'.private : j + 1 \in DOMAIN c.private /\ c'.private[j] = c.private[j + 1]
  BY <1>4, <1>9
<1>11. /\ fromPrivate' \in Seq(Event)
       /\ \A e \in DOMAIN fromPrivate' :
             \/ e \in DOMAIN fromPrivate /\ fromPrivate'[e] = fromPrivate[e]
             \/ fromPrivate'[e].id = item.id
  <2>1. CASE ~c.privatePartitionHandler
    BY <1>3, <1>8, <2>1
  <2>2. CASE c.privatePartitionHandler
    <3>2. Len(signals) \in Nat
          /\ \A i \in 1 .. Len(signals) : signals[i] \in {"started", "finished", "error"}
      <4>1. CASE signals = <<"started", "finished">>
        BY <4>1
      <4>2. CASE signals = <<"started", "finished", "finished">>
        BY <4>2
      <4>3. CASE signals = <<"error">>
        BY <4>3
      <4>4. CASE signals = <<"error", "finished">>
        BY <4>4
      <4> QED  BY <4>1, <4>2, <4>3, <4>4 DEF Outcome
    <3>3. PICK new : new = [i \in 1 .. Len(signals) |-> [id |-> item.id, signal |-> signals[i]]]
      OBVIOUS
    <3>4. item.id \in Nat
      BY <1>6, Items
    <3>5. new \in [1 .. Len(signals) -> Event] /\ \A i \in 1 .. Len(signals) : new[i].id = item.id
      BY <3>2, <3>3, <3>4 DEF Event
    <3>6. new \in Seq(Event) /\ Len(new) = Len(signals)
      BY <3>2, <3>5
    <3>7. fromPrivate' = fromPrivate \o new
      BY <1>8, <2>2, <3>3
    <3>8. /\ fromPrivate \o new \in Seq(Event)
          /\ Len(fromPrivate \o new) = Len(fromPrivate) + Len(new)
          /\ \A i \in 1 .. Len(fromPrivate) + Len(new) : (fromPrivate \o new)[i] =
                IF i <= Len(fromPrivate) THEN fromPrivate[i] ELSE new[i - Len(fromPrivate)]
      BY <1>3, <3>6, ConcatProperties
    <3>9. Len(fromPrivate) \in Nat /\ DOMAIN fromPrivate = 1 .. Len(fromPrivate)
          /\ DOMAIN (fromPrivate \o new) = 1 .. Len(fromPrivate) + Len(new)
      BY <1>3, <3>8
    <3>10. ASSUME NEW e \in DOMAIN (fromPrivate \o new)
           PROVE  \/ e \in DOMAIN fromPrivate /\ (fromPrivate \o new)[e] = fromPrivate[e]
                  \/ (fromPrivate \o new)[e].id = item.id
      <4>1. CASE e <= Len(fromPrivate)
        BY <3>8, <3>9, <4>1
      <4>2. CASE ~(e <= Len(fromPrivate))
        <5>1. e - Len(fromPrivate) \in 1 .. Len(signals)
          BY <3>6, <3>9, <4>2
        <5>2. (fromPrivate \o new)[e] = new[e - Len(fromPrivate)]
          BY <3>8, <3>9, <4>2
        <5> QED  BY <3>5, <5>1, <5>2
      <4> QED  BY <4>1, <4>2
    <3> QED  BY <3>7, <3>8, <3>10
  <2> QED  BY <2>1, <2>2
<1>12. /\ ran' \in [Request -> Nat]
       /\ \A r \in Request : ran'[r] >= ran[r]
       /\ \A r \in Request : r # item.of => ran'[r] = ran[r]
       /\ c.request[item.of].id = item.id => ran'[item.of] = ran[item.of] + 1
       /\ c.request[item.of].id # item.id => ran'[item.of] = ran[item.of]
  BY <1>3, <1>7, <1>8
<1>13. NetType(now)
  BY <1>3, <1>8, <1>11, <1>12, NetFields DEF NetType
<1>14. /\ \A i : i \in Internals(c') <=> i \in Internals(c)
       /\ \A id : Apart(c', id) <=> Apart(c, id)
       /\ \A id : Strange(c', id) <=> Strange(c, id)
       /\ \A w : (Leaving(c', w) <=> Leaving(c, w)) /\ (IsActive(c', w) <=> IsActive(c, w))
       /\ \A i : NumberAt(c', i) = NumberAt(c, i)
  BY <1>9 DEF Internals, Apart, Strange, Leaving, IsActive, NumberAt
<1>15. Numbered(c')
  <2>1. \A j \in DOMAIN c'.private :
          LET e == c'.private[j] IN
          /\ e.kind = "app" /\ e.of \in Private /\ e.id \in 1 .. c'.lastId
          /\ Apart(c', e.id)
          /\ \A r \in Request : c'.request[r].id = e.id => r = e.of
          /\ c'.current # None /\ c'.current.id = e.id => c'.current.of \in Private
    BY <1>2, <1>9, <1>10, <1>14 DEF Numbered
  <2> QED  BY <1>2, <1>9, <1>14, <2>1 DEF Numbered
<1>16. Removals(c')
  BY <1>2, <1>9, <1>14 DEF Removals
<1>17. Plugged(c')
  BY <1>2, <1>9, <1>14 DEF Plugged
<1>18. Wired(c', now)
  <2>1. ASSUME NEW e \in DOMAIN fromPrivate', NEW id, id = fromPrivate'[e].id
        PROVE  /\ id \in 1 .. c'.lastId /\ Apart(c', id)
               /\ \A r \in Request : c'.request[r].id = id => r \in Private
               /\ c'.current # None /\ c'.current.id = id => c'.current.of \in Private
    <3>1. CASE id = item.id
      BY <1>7, <1>9, <1>14, <3>1
    <3>2. CASE e \in DOMAIN fromPrivate /\ fromPrivate'[e] = fromPrivate[e]
      BY <1>2, <1>9, <1>14, <2>1, <3>2, NetFields DEF Wired
    <3> QED  BY <1>11, <2>1, <3>1, <3>2
  <2> QED  BY <1>2, <1>8, <1>9, <1>14, <2>1, NetFields, ZenonT(60) DEF Wired
<1>19. ASSUME "resent" \notin exposed PROVE Ordered(c') /\ Told(c', now)
  <2>1. Ordered(c) /\ Told(c, net)
    BY <1>1, <1>19, NetFields DEF Fine
  <2>2. Ordered(c')
    BY <1>9, <1>10, <1>14, <2>1 DEF Ordered
  <2>3. \A r \in Request : ran[r] > 0 => ran'[r] > 0
    BY <1>3, <1>12
  <2>4. \A r \in Request : c'.request[r].status = "Finished" => ran'[r] > 0
    BY <1>9, <2>1, <2>3, NetFields DEF Told
  <2>5. toClient' # <<>> /\ IsApp(c'.current) => ran'[c'.current.of] > 0
    <3>1. IsApp(c.current) => c.current.of \in Request
      BY <1>1, Items, Typed DEF IsApp
    <3> QED  BY <1>8, <1>9, <2>1, <2>3, <3>1, NetFields DEF Told
  <2>6. ASSUME NEW e \in DOMAIN fromPrivate', fromPrivate'[e].signal = "finished",
               NEW r \in Request, c'.request[r].id = fromPrivate'[e].id
        PROVE  ran'[r] > 0
    <3>1. CASE fromPrivate'[e].id = item.id
      BY <1>3, <1>7, <1>9, <1>12, <2>6, <3>1
    <3>2. CASE e \in DOMAIN fromPrivate /\ fromPrivate'[e] = fromPrivate[e]
      BY <1>9, <2>1, <2>3, <2>6, <3>2, NetFields DEF Told
    <3> QED  BY <1>11, <3>1, <3>2
  <2> QED  BY <2>2, <2>4, <2>5, <2>6, NetFields DEF Told
<1>20. ASSUME "resent" \notin exposed, "broken" \notin exposed PROVE Once(c', now)
  <2>1. Once(c, net) /\ Ordered(c)
    BY <1>1, <1>20, NetFields DEF Fine
  <2>2. c.private = <<c.current>> /\ item = c.current /\ IsApp(c.current)
    BY <1>4, <1>5, <1>7, <2>1 DEF Once, IsApp
  <2>3. c'.private = <<>>
    BY <1>9, <2>2
  <2>4. ran[item.of] = 0
    BY <1>4, <2>1, <2>2, NetFields DEF Once
  <2>5. \A r \in Request : ran'[r] <= 1
    BY <1>12, <2>1, <2>4, NetFields DEF Once
  <2>6. \A r \in Request : c'.request[r].status = "Canceled" => ran'[r] = 0
    <3>1. c.request[item.of].status # "Canceled"
      BY <2>1, <2>2 DEF Ordered
    <3> QED  BY <1>9, <1>12, <2>1, <3>1, NetFields DEF Once
  <2>7. \A i \in DOMAIN c'.pendingRequests :
          IsApp(c'.pendingRequests[i]) => ran'[c'.pendingRequests[i].of] = 0
    <3> SUFFICES ASSUME NEW i \in DOMAIN c.pendingRequests, IsApp(c.pendingRequests[i])
                 PROVE  ran'[c.pendingRequests[i].of] = 0
      BY <1>9
    <3>1. c.pendingRequests[i].of \in Request
      BY <1>1, Items, Typed DEF IsApp
    <3>2. c.pendingRequests[i].of # item.of
      <4>1. item.id < NumberAt(c, i) /\ item.id = c.request[item.of].id /\ item.id \in Nat
        BY <1>6, <2>1, <2>2, Items DEF Ordered
      <4> QED  BY <4>1 DEF NumberAt
    <3> QED  BY <1>12, <2>1, <3>1, <3>2, NetFields DEF Once
  <2>8. toServer \o c.out = <<>>
    BY <1>2, <1>7, <2>2, NetFields DEF Wired
  <2>9. ASSUME NEW e \in DOMAIN fromPrivate', NEW i \in DOMAIN c'.pendingRequests,
               IsApp(c'.pendingRequests[i])
        PROVE  NumberAt(c', i) # fromPrivate'[e].id
    <3>1. CASE fromPrivate'[e].id = item.id
      <4>1. item.id < NumberAt(c, i) /\ item.id \in Nat
        BY <1>6, <1>9, <2>1, <2>2, <2>9, Items DEF Ordered
      <4> QED  BY <1>14, <3>1, <4>1
    <3>2. CASE e \in DOMAIN fromPrivate /\ fromPrivate'[e] = fromPrivate[e]
      BY <1>9, <1>14, <2>1, <2>9, <3>2, NetFields DEF Once
    <3> QED  BY <1>11, <3>1, <3>2
  <2>10. now.toServer \o c'.out = <<>> /\ now.ran = ran' /\ now.fromPrivate = fromPrivate'
    BY <1>8, <1>9, <2>8, NetFields
  <2>11. \A r \in Request : now.ran[r] <= 1 /\ (c'.request[r].status = "Canceled" => now.ran[r] = 0)
    BY <2>5, <2>6, <2>10
  <2>12. \A i \in DOMAIN c'.pendingRequests :
          IsApp(c'.pendingRequests[i]) => now.ran[c'.pendingRequests[i].of] = 0
    BY <2>7, <2>10
  <2>13. \A e \in DOMAIN now.fromPrivate, i \in DOMAIN c'.pendingRequests :
          IsApp(c'.pendingRequests[i]) => NumberAt(c', i) # now.fromPrivate[e].id
    BY <2>9, <2>10
  <2> HIDE DEF now
  <2> QED  BY <2>3, <2>10, <2>11, <2>12, <2>13 DEF Once
<1>21. Fine(c', now)
  BY <1>8, <1>9, <1>13, <1>15, <1>16, <1>17, <1>18, <1>19, <1>20, NetFields DEF Fine
<1> QED  BY <1>1, <1>9, <1>21 DEF IInv

-----------------------------------------------------------------------------
(***************************************************************************)
(* The steps of the connection.  A step starts with what is around it, and *)
(* without a socket that is nothing.                                       *)
(***************************************************************************)
Around(gone) ==
    [toServer |-> IF gone THEN <<>> ELSE toServer,
     toClient |-> IF gone THEN <<>> ELSE toClient,
     registered |-> IF gone THEN {} ELSE registered,
     fromPrivate |-> fromPrivate, ran |-> ran,
     resent |-> "resent" \in exposed, broken |-> "broken" \in exposed]

\* The same with what the step makes of the rest.
After(gone) ==
    [toServer |-> IF gone THEN <<>> ELSE toServer,
     toClient |-> IF gone THEN <<>> ELSE toClient,
     registered |-> IF gone THEN {} ELSE registered,
     fromPrivate |-> fromPrivate', ran |-> ran',
     resent |-> "resent" \in exposed', broken |-> "broken" \in exposed']

LEMMA AroundFields ==
    ASSUME NEW gone \in BOOLEAN
    PROVE  /\ Around(gone).toServer = IF gone THEN <<>> ELSE toServer
           /\ Around(gone).toClient = IF gone THEN <<>> ELSE toClient
           /\ Around(gone).registered = IF gone THEN {} ELSE registered
           /\ Around(gone).fromPrivate = fromPrivate /\ Around(gone).ran = ran
           /\ Around(gone).resent = ("resent" \in exposed)
           /\ Around(gone).broken = ("broken" \in exposed)
           /\ After(gone).toServer = IF gone THEN <<>> ELSE toServer
           /\ After(gone).toClient = IF gone THEN <<>> ELSE toClient
           /\ After(gone).registered = IF gone THEN {} ELSE registered
           /\ After(gone).fromPrivate = fromPrivate' /\ After(gone).ran = ran'
           /\ After(gone).resent = ("resent" \in exposed')
           /\ After(gone).broken = ("broken" \in exposed')
BY DEF Around, After

LEMMA SocketGone ==
    ASSUME NEW k \in Connection, NEW net, NEW now, Fine(k, net),
           k.socket = "none", k.out = <<>>,
           now.toServer = <<>>, now.toClient = <<>>,
           Fewer(now.fromPrivate, net.fromPrivate), now.ran = net.ran,
           net.resent => now.resent, net.broken => now.broken
    PROVE  Fine(k, now)
<1>1. Plugged(k) /\ Wired(k, net) /\ NetType(net)
  BY DEF Fine
<1>2. k.current = None /\ \A w \in Watcher : ~IsActive(k, w)
  BY <1>1 DEF Plugged
<1>3. net.toServer \o k.out = <<>> /\ net.toClient = <<>>
  BY <1>1, <1>2 DEF Wired
<1>4. <<>> \in Seq(Item) /\ <<>> \o <<>> = <<>>
  OBVIOUS
<1> QED  BY <1>1, <1>2, <1>3, <1>4, SameKeeps

LEMMA AroundKeeps ==
    ASSUME IInv
    PROVE  Fine(c, Around(c.socket = "none"))
<1>1. c.out = <<>> /\ c \in Connection /\ Fine(c, Net)
  BY DEF IInv, Fine
<1>2. Plugged(c) /\ fromPrivate \in Seq(Event) /\ toServer \in Seq(Item)
  BY <1>1, NetFields DEF Fine, NetType
<1>3. Fewer(fromPrivate, fromPrivate)
  BY <1>2, FewerFacts
<1>4. PICK now : now = Around(c.socket = "none")
  OBVIOUS
<1>5. PICK net : net = Net
  OBVIOUS
<1>6. (c.socket = "none") \in BOOLEAN
  OBVIOUS
<1>7. CASE c.socket = "none"
  <2>1. /\ now.toServer = <<>> /\ now.toClient = <<>> /\ now.fromPrivate = net.fromPrivate
        /\ now.ran = net.ran /\ now.resent = net.resent /\ now.broken = net.broken
    BY <1>4, <1>5, <1>6, <1>7, AroundFields, NetFields
  <2>2. Fine(c, now)
    BY <1>1, <1>3, <1>5, <1>7, <2>1, NetFields, SocketGone
  <2> QED  BY <1>4, <2>2
<1>8. CASE c.socket # "none"
  <2>1. /\ now.toServer = net.toServer /\ now.toClient = net.toClient
        /\ now.fromPrivate = net.fromPrivate /\ now.registered = net.registered
        /\ now.ran = net.ran /\ now.resent = net.resent /\ now.broken = net.broken
    BY <1>4, <1>5, <1>6, <1>8, AroundFields, NetFields
  <2>2. Fine(c, now)
    BY <1>1, <1>2, <1>3, <1>5, <2>1, NetFields, SameKeeps
  <2> QED  BY <1>4, <2>2
<1> QED  BY <1>7, <1>8

\* What a step writes to the socket joins what is under way there.
LEMMA FlushKeeps ==
    ASSUME NEW k \in Connection, NEW net, Fine(k, net),
           c' = [k EXCEPT !.out = <<>>], toServer' = net.toServer \o k.out,
           toClient' = net.toClient, registered' = net.registered,
           fromPrivate' = net.fromPrivate, ran' = net.ran,
           ("resent" \in exposed') = net.resent, ("broken" \in exposed') = net.broken
    PROVE  IInv'
<1>1. PICK now : now = Net'
  OBVIOUS
<1>2. Plugged(k) /\ NetType(net) /\ Wired(k, net)
  BY DEF Fine
<1>3. k.out \in Seq(Item) /\ net.toServer \in Seq(Item) /\ <<>> \in Seq(Item)
  BY <1>2 DEF Connection, NetType
<1>4. /\ now.toServer = net.toServer \o k.out /\ now.toClient = net.toClient
      /\ now.registered = net.registered /\ now.fromPrivate = net.fromPrivate
      /\ now.ran = net.ran /\ now.resent = net.resent /\ now.broken = net.broken
  BY <1>1, NetFields
<1>5. PICK m : m = [k EXCEPT !.out = <<>>]
  OBVIOUS
<1>6. /\ m \in Connection /\ m.out = <<>> /\ m.request = k.request
      /\ m.pendingRequests = k.pendingRequests /\ m.current = k.current
      /\ m.private = k.private /\ m.lastId = k.lastId /\ m.watcher = k.watcher
      /\ m.status = k.status /\ m.socket = k.socket
  BY <1>3, <1>5 DEF Connection
<1>7. Plugged(m)
  BY <1>2, <1>6 DEF Plugged, IsActive
<1>8. now.toServer \in Seq(Item) /\ now.toServer \o m.out = net.toServer \o k.out
  BY <1>3, <1>4, <1>6
<1>9. Fewer(now.fromPrivate, net.fromPrivate)
  BY <1>2, <1>4, FewerFacts DEF NetType
<1>10. Fine(m, now)
  BY <1>4, <1>6, <1>7, <1>8, <1>9, SameKeeps
<1> QED  BY <1>1, <1>5, <1>6, <1>10 DEF IInv

LEMMA BecomesKeeps ==
    ASSUME NEW k \in Connection, NEW gone \in BOOLEAN,
           gone <=> k.socket = "none" \/ c.socket = "none",
           Fine(k, After(gone)), Becomes(k)
    PROVE  IInv'
<1>1. PICK net : net = After(gone)
  OBVIOUS
<1>2. Fine(k, net) /\ k.out \in Seq(Item)
  BY <1>1 DEF Connection
<1>3. /\ toServer' = net.toServer \o k.out /\ toClient' = net.toClient
      /\ registered' = net.registered /\ fromPrivate' = net.fromPrivate
      /\ ran' = net.ran /\ net.resent = ("resent" \in exposed')
      /\ net.broken = ("broken" \in exposed') /\ c' = [k EXCEPT !.out = <<>>]
  BY <1>1, <1>2, AroundFields DEF Becomes
<1> QED  BY <1>2, <1>3, FlushKeeps

LEMMA AfterSame ==
    ASSUME NEW gone \in BOOLEAN, fromPrivate' = fromPrivate, ran' = ran, exposed' = exposed
    PROVE  After(gone) = Around(gone)
BY DEF After, Around

LEMMA AddWatcher ==
    ASSUME IInv, NEW w \in Watcher, addWatcher(w)
    PROVE  IInv'
<1>1. PICK gone \in BOOLEAN : gone <=> c.socket = "none"
  OBVIOUS
<1>2. c \in Connection /\ Fine(c, Around(gone))
  BY <1>1, AroundKeeps DEF IInv, Fine
<1>3. PICK k : k = initWatcher(c, w)
  OBVIOUS
<1>4. ~Leaving(c, w)
  BY DEF addWatcher, Leaving
<1>5. Fine(k, Around(gone)) /\ k.socket = c.socket
  BY <1>2, <1>3, <1>4, InitWatcherKeeps
<1>6. Becomes(k) /\ After(gone) = Around(gone)
  BY <1>3, AfterSame DEF addWatcher
<1> QED  BY <1>1, <1>5, <1>6, BecomesKeeps DEF Fine

LEMMA RemoveWatcher ==
    ASSUME IInv, NEW w \in Watcher, removeWatcher(w)
    PROVE  IInv'
<1>1. PICK gone \in BOOLEAN : gone <=> c.socket = "none"
  OBVIOUS
<1>2. c \in Connection /\ Fine(c, Around(gone))
  BY <1>1, AroundKeeps DEF IInv, Fine
<1>3. PICK k : k = LET quiet == NotListening(c, w)
                   IN send([quiet EXCEPT !.watcher[w].added = FALSE,
                                         !.listening = @ \cup {<<w, c.lastId + 1>>}], "remove", w)
  OBVIOUS
<1>4. c.watcher[w].status # "Inactive" /\ c.watcher[w].added
  BY DEF removeWatcher
<1>5. Fine(k, Around(gone)) /\ k.socket = c.socket
  BY <1>2, <1>3, <1>4, RemoveWatcherKeeps
<1>6. Becomes(k) /\ After(gone) = Around(gone)
  BY <1>3, AfterSame DEF removeWatcher
<1> QED  BY <1>1, <1>5, <1>6, BecomesKeeps DEF Fine

LEMMA Disconnect ==
    ASSUME IInv, disconnectFromServer
    PROVE  IInv'
<1>1. PICK gone \in BOOLEAN : gone <=> c.socket = "none"
  OBVIOUS
<1>2. c \in Connection /\ c.out = <<>> /\ Fine(c, Around(gone)) /\ Plugged(c)
      /\ NetType(Around(gone)) /\ fromPrivate \in Seq(Event)
  BY <1>1, AroundKeeps, AroundFields DEF IInv, Fine, NetType
<1>3. PICK k : k = [c EXCEPT !.explicitDisconnect = TRUE, !.privatePartitionHandler = FALSE,
                             !.socket = IF @ = "open" THEN "closing" ELSE @]
  OBVIOUS
<1>4. k = [[[c EXCEPT !.explicitDisconnect = TRUE] EXCEPT !.privatePartitionHandler = FALSE]
             EXCEPT !.socket = IF c.socket = "open" THEN "closing" ELSE c.socket]
  BY <1>2, <1>3 DEF Connection
<1>5. /\ k \in Connection /\ k.out = <<>> /\ k.request = c.request
      /\ k.pendingRequests = c.pendingRequests /\ k.current = c.current
      /\ k.private = c.private /\ k.lastId = c.lastId /\ k.watcher = c.watcher
      /\ k.status = c.status /\ (k.socket = "none" <=> c.socket = "none")
  <2>1. PICK j : j = [[c EXCEPT !.explicitDisconnect = TRUE] EXCEPT !.privatePartitionHandler = FALSE]
    OBVIOUS
  <2>2. /\ j \in Connection /\ j.out = <<>> /\ j.request = c.request
        /\ j.pendingRequests = c.pendingRequests /\ j.current = c.current
        /\ j.private = c.private /\ j.lastId = c.lastId /\ j.watcher = c.watcher
        /\ j.status = c.status /\ j.socket = c.socket
    BY <1>2, <2>1 DEF Connection
  <2>3. PICK socket : socket = IF c.socket = "open" THEN "closing" ELSE c.socket
    OBVIOUS
  <2>4. socket \in {"none", "open", "closing"} /\ (socket = "none" <=> c.socket = "none")
    BY <1>2, <2>3 DEF Connection
  <2>5. k = [j EXCEPT !.socket = socket]
    BY <1>4, <2>1, <2>3
  <2> QED  BY <2>2, <2>4, <2>5 DEF Connection
<1>6. Plugged(k)
  BY <1>2, <1>5 DEF Plugged, IsActive
<1>7. /\ Becomes(k) /\ fromPrivate' = <<>> /\ ran' = ran /\ exposed' = exposed
  BY <1>3 DEF disconnectFromServer
<1>8. PICK net : net = Around(gone)
  OBVIOUS
<1>9. PICK now : now = After(gone)
  OBVIOUS
<1>10. /\ now.toServer = net.toServer /\ now.toClient = net.toClient
       /\ now.fromPrivate = <<>> /\ net.fromPrivate = fromPrivate
       /\ now.registered = net.registered
       /\ now.ran = net.ran /\ now.resent = net.resent /\ now.broken = net.broken
  BY <1>7, <1>8, <1>9, AroundFields
<1>11. now.toServer \in Seq(Item) /\ now.toServer \o k.out = net.toServer \o c.out
       /\ Fewer(now.fromPrivate, net.fromPrivate)
  BY <1>2, <1>5, <1>8, <1>10, FewerFacts DEF NetType
<1>12. Fine(k, now)
  BY <1>2, <1>5, <1>6, <1>8, <1>10, <1>11, SameKeeps
<1> QED  BY <1>1, <1>5, <1>7, <1>9, <1>12, BecomesKeeps

\* The connection that there was is lost.
LEMMA Loses ==
    ASSUME IInv, NEW broke \in BOOLEAN, c.socket # "none",
           Becomes(_q_onDisconnected(c)), Breaking(_q_onDisconnected(c), broke),
           fromPrivate' = fromPrivate, ran' = ran
    PROVE  IInv'
<1>1. c \in Connection /\ c.out = <<>> /\ Fine(c, Around(FALSE)) /\ Plugged(c)
  BY AroundKeeps DEF IInv, Fine
<1>2. PICK k : k = _q_onDisconnected(c)
  OBVIOUS
<1>3. k \in Connection /\ k.socket = "none"
  BY <1>1, <1>2, BackEffect
<1>4. exposed' = exposed \cup Exposing
  BY <1>2, <1>3 DEF Breaking
<1>5. PICK net : net = Around(FALSE)
  OBVIOUS
<1>6. PICK now : now = After(TRUE)
  OBVIOUS
<1>7. "resent" \notin Exposing /\ (IsApp(c.current) => "broken" \in Exposing)
  BY DEF Exposing, Exposure, IsApp, None
<1>8. /\ now.toServer = <<>> /\ now.toClient = <<>> /\ now.fromPrivate = net.fromPrivate
      /\ now.ran = net.ran /\ now.resent = net.resent
      /\ net.broken \/ IsApp(c.current) => now.broken
  <2>1. TRUE \in BOOLEAN /\ FALSE \in BOOLEAN
    OBVIOUS
  <2>2. /\ now.toServer = <<>> /\ now.toClient = <<>> /\ now.fromPrivate = fromPrivate'
        /\ now.ran = ran' /\ now.resent = ("resent" \in exposed')
        /\ now.broken = ("broken" \in exposed')
    BY <1>6, <2>1, AroundFields
  <2>3. /\ net.fromPrivate = fromPrivate /\ net.ran = ran
        /\ net.resent = ("resent" \in exposed) /\ net.broken = ("broken" \in exposed)
    BY <1>5, <2>1, AroundFields
  <2>4. /\ ("resent" \in exposed') = ("resent" \in exposed)
        /\ ("broken" \in exposed') = ("broken" \in exposed \/ "broken" \in Exposing)
    BY <1>4, <1>7
  <2> QED  BY <1>7, <2>2, <2>3, <2>4
<1>9. Fine(k, now)
  BY <1>1, <1>2, <1>5, <1>8, LostKeeps
<1>10. Becomes(k)
  BY <1>2
<1> QED  BY <1>3, <1>6, <1>9, <1>10, BecomesKeeps

LEMMA Disconnected ==
    ASSUME IInv, SocketDisconnected \/ \E died \in BOOLEAN : ConnectionBreaks(died)
    PROVE  IInv'
<1>1. CASE SocketDisconnected
  BY <1>1, Loses DEF SocketDisconnected
<1>2. ASSUME NEW died \in BOOLEAN, ConnectionBreaks(died) PROVE IInv'
  BY <1>2, Loses DEF ConnectionBreaks
<1> QED  BY <1>1, <1>2

\* A connection is made, or fails at once.
LEMMA Connecting ==
    ASSUME IInv, NEW ok \in BOOLEAN, NEW broke \in BOOLEAN, NEW j \in Connection,
           c.socket = "none", j.socket = "none", j.out = <<>>, Fine(j, Around(TRUE)),
           Becomes(Connects(j, ok)), Breaking(Connects(j, ok), broke),
           fromPrivate' = fromPrivate, ran' = ran
    PROVE  IInv'
<1>1. PICK k : k = Connects(j, ok)
  OBVIOUS
<1>2. exposed' = exposed /\ Becomes(k)
  BY <1>1 DEF Breaking
<1>3. PICK net : net = Around(TRUE)
  OBVIOUS
<1>4. net.toServer = <<>> /\ net.toClient = <<>> /\ After(TRUE) = net
  BY <1>2, <1>3, AfterSame, AroundFields
<1>5. ~IsApp(j.current)
  BY DEF Fine, Plugged, IsApp, None
<1>6. Fine(k, net)
  <2>1. CASE ok
    <3>1. k = _q_onConnected(j)
      BY <1>1, <2>1 DEF Connects
    <3> QED  BY <1>3, <1>4, <3>1, ConnectKeeps
  <2>2. CASE ~ok
    <3>1. k = _q_onDisconnected(j)
      BY <1>1, <2>2 DEF Connects
    <3> QED  BY <1>3, <1>4, <1>5, <3>1, LostKeeps
  <2> QED  BY <2>1, <2>2
<1>7. k \in Connection
  BY <1>6 DEF Fine
<1> QED  BY <1>2, <1>4, <1>6, <1>7, BecomesKeeps

LEMMA ConnectToServer ==
    ASSUME IInv, NEW ok \in BOOLEAN, connectToServer(ok)
    PROVE  IInv'
<1>1. c.socket = "none" /\ c.status = "Unconnected"
  BY DEF connectToServer
<1>2. c \in Connection /\ c.out = <<>> /\ Fine(c, Around(TRUE)) /\ Plugged(c)
      /\ fromPrivate \in Seq(Event)
  BY <1>1, AroundKeeps, AroundFields DEF IInv, Fine, NetType
<1>3. PICK j : j = [c EXCEPT !.explicitDisconnect = FALSE, !.status = "Connecting"]
  OBVIOUS
<1>4. /\ j \in Connection /\ j.out = <<>> /\ j.request = c.request
      /\ j.pendingRequests = c.pendingRequests /\ j.current = c.current
      /\ j.private = c.private /\ j.lastId = c.lastId /\ j.watcher = c.watcher
      /\ j.status = "Connecting" /\ j.socket = c.socket
  BY <1>2, <1>3 DEF Connection
<1>5. Plugged(j)
  BY <1>1, <1>2, <1>4 DEF Plugged, IsActive
<1>6. PICK net : net = Around(TRUE)
  OBVIOUS
<1>7. net.fromPrivate = fromPrivate /\ Fewer(fromPrivate, fromPrivate) /\ net.toServer \in Seq(Item)
  BY <1>2, <1>6, AroundFields, FewerFacts DEF Fine, NetType
<1>8. Fine(j, net)
  BY <1>2, <1>4, <1>5, <1>6, <1>7, SameKeeps
<1>9. /\ Becomes(Connects(j, ok)) /\ Breaking(Connects(j, ok), ~ok)
      /\ fromPrivate' = fromPrivate /\ ran' = ran
  BY <1>3 DEF connectToServer
<1>10. (~ok) \in BOOLEAN
  OBVIOUS
<1> QED  BY <1>1, <1>4, <1>6, <1>8, <1>9, <1>10, Connecting

LEMMA OnTimer ==
    ASSUME IInv, NEW ok \in BOOLEAN, _q_onTimer(ok)
    PROVE  IInv'
<1>1. PICK gone \in BOOLEAN : gone <=> c.socket = "none"
  OBVIOUS
<1>2. c \in Connection /\ c.out = <<>> /\ Fine(c, Around(gone)) /\ Plugged(c)
      /\ fromPrivate \in Seq(Event)
  BY <1>1, AroundKeeps, AroundFields DEF IInv, Fine, NetType
<1>3. PICK j : j = [c EXCEPT !.timer = FALSE]
  OBVIOUS
<1>4. /\ j \in Connection /\ j.out = <<>> /\ j.request = c.request
      /\ j.pendingRequests = c.pendingRequests /\ j.current = c.current
      /\ j.private = c.private /\ j.lastId = c.lastId /\ j.watcher = c.watcher
      /\ j.status = c.status /\ j.socket = c.socket
  BY <1>2, <1>3 DEF Connection
<1>5. Plugged(j)
  BY <1>2, <1>4 DEF Plugged, IsActive
<1>6. PICK net : net = Around(gone)
  OBVIOUS
<1>7. net.fromPrivate = fromPrivate /\ Fewer(fromPrivate, fromPrivate) /\ net.toServer \in Seq(Item)
  BY <1>2, <1>6, AroundFields, FewerFacts DEF Fine, NetType
<1>8. Fine(j, net)
  BY <1>2, <1>4, <1>5, <1>6, <1>7, SameKeeps
<1>9. fromPrivate' = fromPrivate /\ ran' = ran
  BY DEF _q_onTimer
<1>10. CASE c.status = "Connecting"
  <2>1. Becomes(Connects(j, ok)) /\ Breaking(Connects(j, ok), ~ok)
    BY <1>3, <1>10 DEF _q_onTimer
  <2>2. c.socket = "none"
    BY <1>2, <1>10 DEF Plugged
  <2>3. (~ok) \in BOOLEAN /\ gone = TRUE
    BY <1>1, <2>2
  <2> QED  BY <1>4, <1>6, <1>8, <1>9, <2>1, <2>2, <2>3, Connecting
<1>11. CASE c.status # "Connecting"
  <2>1. Becomes(j) /\ Breaking(j, FALSE)
    BY <1>3, <1>11 DEF _q_onTimer
  <2>2. exposed' = exposed
    BY <1>4, <2>1 DEF Breaking
  <2> QED  BY <1>1, <1>4, <1>6, <1>8, <1>9, <2>1, <2>2, AfterSame, BecomesKeeps
<1> QED  BY <1>10, <1>11

-----------------------------------------------------------------------------
(***************************************************************************)
(* The calls of the application.                                           *)
(***************************************************************************)
LEMMA WaitsFacts ==
    ASSUME NEW r \in Request, c \in Connection
    PROVE  Waits(r) <=> \E i \in DOMAIN c.pendingRequests :
               IsApp(c.pendingRequests[i]) /\ c.pendingRequests[i].of = r
<1>1. DOMAIN c.pendingRequests = 1 .. Len(c.pendingRequests)
  BY DEF Connection
<1> QED  BY <1>1 DEF Waits, IsApp

LEMMA Sends ==
    ASSUME IInv, NEW r \in Request, Send(r)
    PROVE  IInv'
<1>1. PICK gone \in BOOLEAN : gone <=> c.socket = "none"
  OBVIOUS
<1>2. c \in Connection /\ Fine(c, Around(gone))
  BY <1>1, AroundKeeps DEF IInv, Fine
<1>3. PICK k : k = send(c, "app", r)
  OBVIOUS
<1>4. PICK net : net = Around(gone)
  OBVIOUS
<1>5. PICK now : now = After(gone)
  OBVIOUS
<1>6. /\ c.request[r].status \notin Active
      /\ exposed' = exposed \cup (IF Waits(r) THEN {"resent"} ELSE {})
      /\ Becomes(k) /\ ran' = [ran EXCEPT ![r] = 0] /\ fromPrivate' = fromPrivate
  BY <1>3 DEF Send
<1>7. /\ now.toServer = net.toServer /\ now.toClient = net.toClient
      /\ now.fromPrivate = net.fromPrivate /\ now.registered = net.registered
      /\ now.ran = [net.ran EXCEPT ![r] = 0]
      /\ now.resent = ("resent" \in exposed') /\ net.resent = ("resent" \in exposed)
      /\ now.broken = ("broken" \in exposed') /\ net.broken = ("broken" \in exposed)
  BY <1>4, <1>5, <1>6, AroundFields
<1>8. (net.broken => now.broken) /\ (net.resent => now.resent)
  BY <1>6, <1>7
<1>9. ~now.resent => \A i \in DOMAIN c.pendingRequests :
          IsApp(c.pendingRequests[i]) => c.pendingRequests[i].of # r
  <2>1. ~now.resent => ~Waits(r)
    BY <1>6, <1>7
  <2> QED  BY <1>2, <2>1, WaitsFacts
<1>10. Fine(k, now) /\ k.socket = c.socket
  BY <1>2, <1>3, <1>4, <1>6, <1>7, <1>8, <1>9, SendAppKeeps
<1> QED  BY <1>1, <1>5, <1>6, <1>10, BecomesKeeps DEF Fine

LEMMA CancelsAll ==
    ASSUME IInv, CancelPendingRequests
    PROVE  IInv'
<1>1. PICK at \in BOOLEAN : at <=> c.socket = "none"
  OBVIOUS
<1>2. c \in Connection /\ Fine(c, Around(at))
  BY <1>1, AroundKeeps DEF IInv, Fine
<1>3. c.pendingRequests \in Seq(Item) /\ c.request \in [Request -> [status : Status, id : Nat]]
  BY <1>2 DEF Connection
<1>4. PICK queue : queue = InternalOnly(c.pendingRequests)
  OBVIOUS
<1>5. /\ queue \in Seq(Item) /\ \A i \in DOMAIN queue : Internal(queue[i])
      /\ Made(queue, c.pendingRequests, {})
  BY <1>3, <1>4, InternalOnlyFacts
<1>6. PICK request : request = [r \in Request |->
              IF Waits(r) THEN [c.request[r] EXCEPT !.status = "Canceled"] ELSE c.request[r]]
  OBVIOUS
<1>7. PICK gone : gone = {r \in Request : Waits(r)}
  OBVIOUS
<1>8. /\ request \in [Request -> [status : Status, id : Nat]]
      /\ \A r \in Request : request[r].id = c.request[r].id
      /\ \A r \in Request : IF r \in gone THEN request[r].status = "Canceled"
                                          ELSE request[r] = c.request[r]
  BY <1>3, <1>6, <1>7 DEF Status
<1>9. PICK k : k = [[c EXCEPT !.pendingRequests = queue] EXCEPT !.request = request]
  OBVIOUS
<1>10. Becomes(k)
  <2>1. [c EXCEPT !.pendingRequests = InternalOnly(@),
                  !.request = [r \in Request |->
                      IF Waits(r) THEN [@[r] EXCEPT !.status = "Canceled"] ELSE @[r]]] = k
    BY <1>2, <1>4, <1>6, <1>9 DEF Connection
  <2> QED  BY <2>1 DEF CancelPendingRequests
<1>11. /\ k \in Connection /\ k.pendingRequests = queue /\ k.request = request
       /\ k.current = c.current /\ k.private = c.private /\ k.out = c.out
       /\ k.lastId = c.lastId /\ k.status = c.status /\ k.socket = c.socket
       /\ k.watcher = c.watcher
  <2>1. PICK j : j = [c EXCEPT !.pendingRequests = queue]
    OBVIOUS
  <2>2. /\ j \in Connection /\ j.pendingRequests = queue
        /\ j.current = c.current /\ j.private = c.private /\ j.out = c.out
        /\ j.lastId = c.lastId /\ j.status = c.status /\ j.socket = c.socket
        /\ j.watcher = c.watcher
    BY <1>2, <1>5, <2>1 DEF Connection
  <2>3. k = [j EXCEPT !.request = request]
    BY <1>9, <2>1
  <2> QED  BY <1>8, <2>2, <2>3 DEF Connection
<1>12. gone \in SUBSET Request /\ \A r \in gone : \E i \in DOMAIN c.pendingRequests :
           IsApp(c.pendingRequests[i]) /\ c.pendingRequests[i].of = r
  BY <1>2, <1>7, WaitsFacts
<1>13. \A i \in DOMAIN k.pendingRequests : ~IsApp(k.pendingRequests[i])
  BY <1>5, <1>11 DEF Internal, IsApp
<1>14. PICK net : net = Around(at)
  OBVIOUS
<1>15. Fine(k, net)
  <2>1. Made(k.pendingRequests, c.pendingRequests, {})
    BY <1>5, <1>11
  <2>2. /\ \A r \in Request : k.request[r].id = c.request[r].id
        /\ \A r \in Request : IF r \in gone THEN k.request[r].status = "Canceled"
                                            ELSE k.request[r] = c.request[r]
    BY <1>8, <1>11
  <2>3. ~net.resent => \A i \in DOMAIN k.pendingRequests :
            IsApp(k.pendingRequests[i]) => k.pendingRequests[i].of \notin gone
    BY <1>13
  <2>4. Fine(c, net)
    BY <1>2, <1>14
  <2> QED  BY <1>2, <1>11, <1>12, <2>1, <2>2, <2>3, <2>4, CancelKeeps
<1>16. After(at) = net
  BY <1>14, AfterSame DEF CancelPendingRequests
<1> QED  BY <1>1, <1>10, <1>11, <1>15, <1>16, BecomesKeeps

\* Its first entry is the only one, unless it was sent again while it waited.
LEMMA Cancels ==
    ASSUME IInv, NEW r \in Request, Cancel(r)
    PROVE  IInv'
<1>1. PICK at \in BOOLEAN : at <=> c.socket = "none"
  OBVIOUS
<1>2. c \in Connection /\ Fine(c, Around(at))
  BY <1>1, AroundKeeps DEF IInv, Fine
<1>3. /\ c.pendingRequests \in Seq(Item) /\ c.request \in [Request -> [status : Status, id : Nat]]
      /\ DOMAIN c.pendingRequests = 1 .. Len(c.pendingRequests) /\ Len(c.pendingRequests) \in Nat
  BY <1>2 DEF Connection
<1>4. PICK p : p = c.pendingRequests
  OBVIOUS
<1> DEFINE Is(i) == /\ p[i].kind = "app" /\ p[i].of = r
                    /\ \A j \in 1 .. i - 1 : p[j].of # r
<1>5. \E i \in 1 .. Len(p) : Is(i)
  <2>1. PICK S : S = {i \in 1 .. Len(p) : p[i].of = r}
    OBVIOUS
  <2>2. S \in SUBSET (Nat \ {0}) /\ S # {}
    BY <1>3, <1>4, <2>1 DEF Cancel, Waits
  <2>3. PICK i \in S : \A j \in 1 .. i - 1 : j \notin S
    BY <2>2, FirstOf
  <2>4. i \in 1 .. Len(p) /\ p[i] \in Item /\ p[i].of = r /\ \A j \in 1 .. i - 1 : j \in 1 .. Len(p)
    BY <1>3, <1>4, <2>1, <2>3
  <2>5. p[i].kind = "app"
    BY <2>4, Items
  <2>6. \A j \in 1 .. i - 1 : p[j].of # r
    BY <2>1, <2>3, <2>4
  <2> QED  BY <2>4, <2>5, <2>6
<1>6. PICK first : first = CHOOSE i \in 1 .. Len(p) : Is(i)
  OBVIOUS
<1>7. first \in 1 .. Len(p) /\ Is(first)
  BY <1>5, <1>6
<1>8. PICK queue : queue = RemoveAt(p, first)
  OBVIOUS
<1>9. /\ queue \in Seq(Item) /\ Len(queue) = Len(p) - 1
      /\ \A j \in 1 .. Len(p) - 1 : queue[j] = IF j < first THEN p[j] ELSE p[j + 1]
  <2>1. p \in Seq(Item) /\ first \in 1 .. Len(p)
    BY <1>3, <1>4, <1>7
  <2> QED  BY <1>8, <2>1, RemoveAtFacts
<1>10. DOMAIN queue = 1 .. Len(p) - 1
  BY <1>9
<1>11. Made(queue, p, {})
  <2>1. PICK from : from = [j \in 1 .. Len(p) - 1 |-> IF j < first THEN j ELSE j + 1]
    OBVIOUS
  <2>2. from \in [DOMAIN queue -> 0 .. Len(p)]
    BY <1>3, <1>4, <1>7, <1>10, <2>1
  <2>3. \A i \in DOMAIN queue : IF from[i] = 0 THEN queue[i] \in {} ELSE queue[i] = p[from[i]]
    BY <1>3, <1>4, <1>7, <1>9, <1>10, <2>1, SMTT(30)
  <2>4. /\ \A i, j \in DOMAIN queue : i < j /\ from[i] # 0 /\ from[j] # 0 => from[i] < from[j]
        /\ \A i, j \in DOMAIN queue : i # j => from[i] # from[j]
    BY <1>3, <1>4, <1>7, <1>10, <2>1
  <2> QED  BY <2>2, <2>3, <2>4 DEF Made
<1>12. PICK request : request = [c.request EXCEPT ![r].status = "Canceled"]
  OBVIOUS
<1>13. /\ request \in [Request -> [status : Status, id : Nat]]
       /\ \A q \in Request : request[q].id = c.request[q].id
       /\ \A q \in Request : IF q \in {r} THEN request[q].status = "Canceled"
                                          ELSE request[q] = c.request[q]
  BY <1>3, <1>12 DEF Status
<1>14. PICK k : k = [[c EXCEPT !.pendingRequests = queue] EXCEPT !.request = request]
  OBVIOUS
<1>15. Becomes(k)
  <2>1. [c EXCEPT !.pendingRequests = RemoveAt(@, first), !.request[r].status = "Canceled"] = k
    BY <1>2, <1>4, <1>8, <1>12, <1>14 DEF Connection
  <2>2. (CHOOSE i \in 1 .. Len(c.pendingRequests) :
            /\ c.pendingRequests[i].kind = "app" /\ c.pendingRequests[i].of = r
            /\ \A j \in 1 .. i - 1 : c.pendingRequests[j].of # r) = first
    BY <1>4, <1>6
  <2> QED  BY <2>1, <2>2 DEF Cancel
<1>16. /\ k \in Connection /\ k.pendingRequests = queue /\ k.request = request
       /\ k.current = c.current /\ k.private = c.private /\ k.out = c.out
       /\ k.lastId = c.lastId /\ k.status = c.status /\ k.socket = c.socket
       /\ k.watcher = c.watcher
  <2>1. PICK j : j = [c EXCEPT !.pendingRequests = queue]
    OBVIOUS
  <2>2. /\ j \in Connection /\ j.pendingRequests = queue
        /\ j.current = c.current /\ j.private = c.private /\ j.out = c.out
        /\ j.lastId = c.lastId /\ j.status = c.status /\ j.socket = c.socket
        /\ j.watcher = c.watcher
    BY <1>2, <1>9, <2>1 DEF Connection
  <2>3. k = [j EXCEPT !.request = request]
    BY <1>14, <2>1
  <2> QED  BY <1>13, <2>2, <2>3 DEF Connection
<1>17. PICK net : net = Around(at)
  OBVIOUS
<1>18. ~net.resent => \A i \in DOMAIN k.pendingRequests :
           IsApp(k.pendingRequests[i]) => k.pendingRequests[i].of \notin {r}
  <2> SUFFICES ASSUME ~net.resent, NEW i \in DOMAIN queue, IsApp(queue[i]), queue[i].of = r
               PROVE  FALSE
    BY <1>16
  <2>1. Ordered(c)
    BY <1>2, <1>17 DEF Fine
  <2>2. PICK j \in 1 .. Len(p) : j # first /\ queue[i] = p[j]
    <3>1. Len(p) \in Nat /\ first \in 1 .. Len(p) /\ i \in 1 .. Len(p) - 1
      BY <1>3, <1>4, <1>7, <1>10
    <3>2. CASE i < first
      <4>1. i \in 1 .. Len(p) /\ i # first /\ queue[i] = p[i]
        BY <1>9, <3>1, <3>2
      <4> QED  BY <4>1
    <3>3. CASE ~(i < first)
      <4>1. i + 1 \in 1 .. Len(p) /\ i + 1 # first /\ queue[i] = p[i + 1]
        BY <1>9, <3>1, <3>3
      <4> QED  BY <4>1
    <3> QED  BY <3>2, <3>3
  <2>3. IsApp(p[j]) /\ IsApp(p[first]) /\ p[j].of = r /\ p[first].of = r
    BY <1>7, <2>2 DEF IsApp
  <2>4. j < first \/ first < j
    BY <1>3, <1>4, <1>7, <2>2
  <2>5. /\ NumberAt(c, j) = c.request[r].id /\ NumberAt(c, first) = c.request[r].id
        /\ j \in DOMAIN p /\ first \in DOMAIN p
    BY <1>4, <1>7, <2>2, <2>3 DEF NumberAt
  <2>6. \A l, m \in DOMAIN p :
           l < m /\ IsApp(p[l]) /\ IsApp(p[m]) => NumberAt(c, l) < NumberAt(c, m)
    BY <1>4, <2>1 DEF Ordered
  <2>7. c.request[r].id < c.request[r].id
    BY <2>3, <2>4, <2>5, <2>6
  <2>8. c.request[r].id \in Nat
    BY <1>3
  <2> QED  BY <2>7, <2>8
<1>19. \A q \in {r} : \E i \in DOMAIN c.pendingRequests :
           IsApp(c.pendingRequests[i]) /\ c.pendingRequests[i].of = q
  BY <1>3, <1>4, <1>7 DEF IsApp
<1>20. {r} \in SUBSET Request /\ Made(k.pendingRequests, c.pendingRequests, {})
  BY <1>4, <1>11, <1>16
<1>21. Fine(k, net)
  <2>1. /\ \A q \in Request : k.request[q].id = c.request[q].id
        /\ \A q \in Request : IF q \in {r} THEN k.request[q].status = "Canceled"
                                           ELSE k.request[q] = c.request[q]
    BY <1>13, <1>16
  <2>2. Fine(c, net)
    BY <1>2, <1>17
  <2> QED  BY <1>2, <1>16, <1>18, <1>19, <1>20, <2>1, <2>2, CancelKeeps
<1>22. After(at) = net
  BY <1>17, AfterSame DEF Cancel
<1> QED  BY <1>1, <1>15, <1>16, <1>21, <1>22, BecomesKeeps

-----------------------------------------------------------------------------
(***************************************************************************)
(* The answers.                                                            *)
(***************************************************************************)
LEMMA OnReceivedObject ==
    ASSUME IInv, _q_onReceivedObject
    PROVE  IInv'
<1>1. c.out = <<>> /\ c \in Connection /\ Fine(c, Net)
  BY DEF IInv, Fine
<1>2. PICK net : net = Net
  OBVIOUS
<1>3. Wired(c, net) /\ NetType(net) /\ Numbered(c) /\ Plugged(c) /\ Fine(c, net)
  BY <1>1, <1>2 DEF Fine
<1>4. toClient # <<>> /\ toClient \in Seq(Answer) /\ toServer \in Seq(Item)
      /\ fromPrivate \in Seq(Event)
  BY <1>2, <1>3, NetFields DEF NetType, _q_onReceivedObject
<1>5. /\ net.toServer = toServer /\ net.toClient = toClient /\ net.registered = registered
      /\ net.fromPrivate = fromPrivate /\ net.ran = ran
      /\ net.resent = ("resent" \in exposed) /\ net.broken = ("broken" \in exposed)
  BY <1>2, NetFields
<1>6. /\ c.current # None /\ Len(toClient) = 1 /\ toClient[1].id = c.current.id
      /\ c.current.of \notin Private /\ toServer \o c.out = <<>>
      /\ c.current.kind = "add" /\ toClient[1].ok => c.current.of \in registered
  BY <1>3, <1>4, <1>5 DEF Wired
<1>7. PICK answer : answer = Head(toClient)
  OBVIOUS
<1>8. answer = toClient[1] /\ answer \in Answer /\ Tail(toClient) = <<>>
  <2>1. answer = toClient[1] /\ answer \in Answer
    BY <1>4, <1>6, <1>7
  <2>2. Tail(toClient) \in Seq(Answer) /\ Len(Tail(toClient)) = 0
    BY <1>4, <1>6
  <2> QED  BY <2>1, <2>2, EmptySeq
<1>9. answer.ok \in BOOLEAN /\ Answers(c, answer.id)
  BY <1>6, <1>8 DEF Answer, Answers
<1>10. PICK k : k = handleRequestQueue(Answered(c, answer.ok))
  OBVIOUS
<1>11. /\ c' = [k EXCEPT !.out = <<>>] /\ toServer' = toServer \o k.out /\ toClient' = <<>>
       /\ fromPrivate' = fromPrivate /\ registered' = registered /\ ran' = ran
       /\ exposed' = exposed
  BY <1>6, <1>7, <1>8, <1>9, <1>10 DEF _q_onReceivedObject
<1>12. PICK now : now = [net EXCEPT !.toClient = <<>>]
  OBVIOUS
<1>13. /\ now.toServer = net.toServer /\ now.toClient = <<>> /\ now.registered = net.registered
       /\ now.fromPrivate = net.fromPrivate /\ now.ran = net.ran
       /\ now.resent = net.resent /\ now.broken = net.broken
  BY <1>2, <1>12 DEF Net
<1>14. ~net.resent /\ answer.ok /\ IsApp(c.current) => net.ran[c.current.of] > 0
  BY <1>3, <1>4, <1>5 DEF Fine, Told
<1>15. ASSUME ~net.resent, ~net.broken PROVE c.private = <<>>
  <2>1. Once(c, net)
    BY <1>3, <1>15 DEF Fine
  <2>2. CASE c.private = <<c.current>>
    <3>1. 1 \in DOMAIN c.private /\ c.private[1] = c.current
      BY <2>2
    <3> QED  BY <1>3, <1>6, <3>1 DEF Numbered
  <2> QED  BY <2>1, <2>2 DEF Once
<1>16. Fewer(now.fromPrivate, net.fromPrivate)
  BY <1>4, <1>5, <1>13, FewerFacts
<1>17. /\ net.toServer \o c.out = <<>> /\ now.toServer \o c.out = <<>>
       /\ now.toServer \in Seq(Item)
       /\ answer.ok /\ c.current.kind = "add" => c.current.of \in net.registered
  BY <1>4, <1>5, <1>6, <1>8, <1>13
<1>18. Fine(k, now)
  BY <1>1, <1>3, <1>6, <1>9, <1>10, <1>13, <1>14, <1>15, <1>16, <1>17, AnsweredKeeps
<1>19. k \in Connection
  BY <1>18 DEF Fine
<1> QED  BY <1>5, <1>11, <1>13, <1>18, <1>19, FlushKeeps

\* A request to the private partition has started.
LEMMA StartedKeeps ==
    ASSUME NEW k \in Connection, NEW net, Fine(k, net), k.current # None, IsApp(k.current)
    PROVE  LET m == SetStatus(k, k.current, "Receiving") IN
           Fine(m, net) /\ m.socket = k.socket
<1>1. k.current \in Item /\ k.current.of \in Request /\ "Receiving" \in Status
  BY Typed, Items DEF IsApp, Status
<1>2. PICK q \in Request : q = k.current.of
  BY <1>1
<1>3. PICK m : m = SetStatus(k, k.current, "Receiving")
  OBVIOUS
<1>4. /\ m \in Connection
      /\ m.request = [k.request EXCEPT ![q].status = "Receiving"]
      /\ m.status = k.status /\ m.socket = k.socket /\ m.watcher = k.watcher
      /\ m.pendingRequests = k.pendingRequests /\ m.current = k.current
      /\ m.listening = k.listening /\ m.lastId = k.lastId
      /\ m.out = k.out /\ m.private = k.private
  <2>1. ~Internal(k.current)
    BY DEF Internal, IsApp
  <2> QED  BY <1>1, <1>2, <1>3, <2>1, SetStatusEffect
<1>5. /\ \A r \in Request : m.request[r].id = k.request[r].id
      /\ \A r \in Request : r # q => m.request[r].status = k.request[r].status
      /\ m.request[q].status = "Receiving"
  BY <1>4 DEF Connection
<1>6. \A i \in DOMAIN k.pendingRequests :
          IsApp(k.pendingRequests[i]) => k.pendingRequests[i].of \in Request
  BY Typed, Items DEF IsApp
<1>7. /\ \A i : i \in Internals(m) <=> i \in Internals(k)
      /\ \A id : Apart(m, id) <=> Apart(k, id)
      /\ \A id : Strange(m, id) <=> Strange(k, id)
      /\ \A w : (Leaving(m, w) <=> Leaving(k, w)) /\ (IsActive(m, w) <=> IsActive(k, w))
      /\ \A i \in DOMAIN k.pendingRequests :
            IsApp(k.pendingRequests[i]) => NumberAt(m, i) = NumberAt(k, i)
  BY <1>4, <1>5, <1>6 DEF Internals, Apart, Strange, Leaving, IsActive, NumberAt
<1>8. Numbered(k) /\ Removals(k) /\ Plugged(k) /\ Wired(k, net) /\ NetType(net)
  BY DEF Fine
<1>9. Numbered(m)
  <2>1. \A i \in DOMAIN m.pendingRequests :
            ~Internal(m.pendingRequests[i]) => m.request[m.pendingRequests[i].of].id > 0
    BY <1>4, <1>5, <1>6, <1>8 DEF Numbered, Internal, IsApp
  <2>2. /\ \A r \in Request : m.request[r].id <= m.lastId
        /\ \A r, p \in Request : r # p /\ m.request[r].id = m.request[p].id => m.request[r].id = 0
    BY <1>4, <1>5, <1>8 DEF Numbered
  <2>3. \A item \in Internals(m) : item.id \in 1 .. m.lastId /\ Strange(m, item.id)
    BY <1>4, <1>7, <1>8 DEF Numbered
  <2>4. /\ m.current.id \in 1 .. m.lastId
        /\ ~Internal(m.current) => m.request[m.current.of].id > 0
    BY <1>1, <1>4, <1>5, <1>8 DEF Numbered
  <2>5. \A j \in DOMAIN m.private :
          LET item == m.private[j] IN
          /\ item.kind = "app" /\ item.of \in Private /\ item.id \in 1 .. m.lastId
          /\ Apart(m, item.id)
          /\ \A r \in Request : m.request[r].id = item.id => r = item.of
          /\ m.current # None /\ m.current.id = item.id => m.current.of \in Private
    BY <1>4, <1>5, <1>7, <1>8 DEF Numbered
  <2> QED  BY <2>1, <2>2, <2>3, <2>4, <2>5 DEF Numbered
<1>10. Removals(m)
  BY <1>4, <1>7, <1>8 DEF Removals
<1>11. Plugged(m)
  BY <1>4, <1>7, <1>8 DEF Plugged
<1>12. Wired(m, net)
  BY <1>4, <1>5, <1>7, <1>8, ZenonT(60) DEF Wired
<1>13. ASSUME ~net.resent PROVE Ordered(m) /\ Told(m, net)
  <2>1. Ordered(k) /\ Told(k, net)
    BY <1>13 DEF Fine
  <2>2. \A i \in DOMAIN k.pendingRequests :
            IsApp(k.pendingRequests[i]) => k.pendingRequests[i].of # q
    <3> SUFFICES ASSUME NEW i \in DOMAIN k.pendingRequests, IsApp(k.pendingRequests[i]),
                        k.pendingRequests[i].of = q
                 PROVE  FALSE
      OBVIOUS
    <3>1. k.current.id < NumberAt(k, i) /\ k.current.id = k.request[q].id
      BY <1>2, <2>1 DEF Ordered
    <3>2. NumberAt(k, i) = k.request[q].id /\ k.current.id \in Nat
      BY <1>1, Items DEF NumberAt
    <3> QED  BY <3>1, <3>2
  <2>3. \A i, j \in DOMAIN m.pendingRequests :
            i < j /\ IsApp(m.pendingRequests[i]) /\ IsApp(m.pendingRequests[j])
                => NumberAt(m, i) < NumberAt(m, j)
    BY <1>4, <1>7, <2>1 DEF Ordered
  <2>4. /\ m.current.id = m.request[m.current.of].id
        /\ m.request[m.current.of].status \in {"Sent", "Receiving"}
        /\ \A i \in DOMAIN m.pendingRequests :
              IsApp(m.pendingRequests[i]) => m.current.id < NumberAt(m, i)
        /\ \A j \in DOMAIN m.private : m.private[j].id <= m.current.id
    BY <1>2, <1>4, <1>5, <1>7, <2>1, SMTT(30) DEF Ordered
  <2>5. \A i \in DOMAIN m.pendingRequests :
          IsApp(m.pendingRequests[i]) =>
              /\ m.request[m.pendingRequests[i].of].status \in {"Queued", "Error"}
              /\ \A j \in DOMAIN m.private : m.private[j].id <= NumberAt(m, i)
    BY <1>4, <1>5, <1>6, <1>7, <2>1, <2>2 DEF Ordered
  <2>6. Ordered(m)
    BY <2>3, <2>4, <2>5 DEF Ordered
  <2>7. Told(m, net)
    BY <1>4, <1>5, <2>1 DEF Told
  <2> QED  BY <2>6, <2>7
<1>14. ASSUME ~net.resent, ~net.broken PROVE Once(m, net)
  <2>1. Once(k, net)
    BY <1>14 DEF Fine
  <2>2. \A r \in Request : m.request[r].status = "Canceled" => net.ran[r] = 0
    BY <1>5, <2>1 DEF Once
  <2>3. \A e \in DOMAIN net.fromPrivate :
          LET id == net.fromPrivate[e].id IN
          /\ m.private # <<>> => m.current.id # id
          /\ \A i \in DOMAIN m.pendingRequests :
                IsApp(m.pendingRequests[i]) => NumberAt(m, i) # id
    BY <1>4, <1>7, <2>1 DEF Once
  <2> QED  BY <1>4, <2>1, <2>2, <2>3 DEF Once
<1>15. Fine(m, net)
  BY <1>4, <1>8, <1>9, <1>10, <1>11, <1>12, <1>13, <1>14 DEF Fine
<1> QED  BY <1>3, <1>4, <1>15

\* A signal of the private partition is heard, whatever it was for.
LEMMA PrivateSignals ==
    ASSUME IInv, PrivateSignal
    PROVE  IInv'
<1>1. PICK gone \in BOOLEAN : gone <=> c.socket = "none"
  OBVIOUS
<1>2. c \in Connection /\ c.out = <<>> /\ Fine(c, Around(gone))
  BY <1>1, AroundKeeps DEF IInv, Fine
<1>3. PICK net : net = Around(gone)
  OBVIOUS
<1>4. PICK now : now = After(gone)
  OBVIOUS
<1>5. PICK event : event = Head(fromPrivate)
  OBVIOUS
<1>6. fromPrivate # <<>> /\ fromPrivate' = Tail(fromPrivate) /\ ran' = ran /\ exposed' = exposed
  BY DEF PrivateSignal
<1>7. /\ now.toServer = net.toServer /\ now.toClient = net.toClient
      /\ now.registered = net.registered
      /\ net.fromPrivate = fromPrivate /\ now.fromPrivate = Tail(fromPrivate)
      /\ now.ran = net.ran /\ now.resent = net.resent /\ now.broken = net.broken
  BY <1>3, <1>4, <1>6, AroundFields
<1>8. Fine(c, net) /\ Plugged(c) /\ Wired(c, net) /\ NetType(net) /\ fromPrivate \in Seq(Event)
  BY <1>2, <1>3, <1>7 DEF Fine, NetType
<1>9. Fewer(now.fromPrivate, net.fromPrivate) /\ event = fromPrivate[1] /\ 1 \in DOMAIN fromPrivate
  BY <1>5, <1>6, <1>7, <1>8, FewerFacts
<1>10. Fine(c, now)
  BY <1>2, <1>7, <1>8, <1>9, SameKeeps DEF NetType
<1>11. ASSUME Answers(c, event.id)
       PROVE  /\ c.current # None /\ c.current.id = event.id
              /\ IsApp(c.current) /\ c.current.of \in Request
              /\ net.toServer \o c.out = <<>> /\ net.toClient = <<>>
  <2>1. c.current # None /\ c.current.id = event.id /\ c.current.of \in Private
    BY <1>7, <1>8, <1>9, <1>11 DEF Answers, Wired
  <2>2. c.current \in Item /\ c.current.of \in Request
    BY <1>2, <2>1, Typed, ConnectionAssumption
  <2>3. IsApp(c.current)
    BY <2>2, Items DEF IsApp
  <2> QED  BY <1>8, <2>1, <2>2, <2>3 DEF Wired
<1>12. CASE Answers(c, event.id) /\ event.signal # "started"
  <2>1. PICK ok \in BOOLEAN : ok = (event.signal = "finished")
    OBVIOUS
  <2>2. PICK k : k = handleRequestQueue(Answered(c, ok))
    OBVIOUS
  <2>3. Becomes(k)
    BY <1>5, <1>12, <2>1, <2>2 DEF PrivateSignal
  <2>4. ASSUME ~net.resent, ok PROVE net.ran[c.current.of] > 0
    <3>1. Ordered(c) /\ Told(c, net)
      BY <1>8, <2>4 DEF Fine
    <3>2. c.request[c.current.of].id = event.id
      BY <1>11, <1>12, <3>1 DEF Ordered
    <3> QED  BY <1>7, <1>9, <1>11, <1>12, <2>1, <2>4, <3>1, <3>2 DEF Told
  <2>5. ASSUME ~net.resent, ~net.broken PROVE c.private = <<>>
    <3>1. Once(c, net)
      BY <1>8, <2>5 DEF Fine
    <3> QED  BY <1>7, <1>9, <1>11, <1>12, <3>1 DEF Once
  <2>6. c.current.kind # "add"
    BY <1>11, <1>12 DEF IsApp
  <2>7. /\ c.current # None /\ net.toServer \o c.out = <<>> /\ now.toServer \o c.out = <<>>
        /\ now.toServer \in Seq(Item) /\ now.toClient = <<>>
    BY <1>7, <1>8, <1>11, <1>12 DEF NetType
  <2>8. Fine(k, now) /\ k.socket = c.socket
    BY <1>2, <1>7, <1>8, <1>9, <2>2, <2>4, <2>5, <2>6, <2>7, AnsweredKeeps
  <2> QED  BY <1>1, <1>4, <2>3, <2>8, BecomesKeeps DEF Fine
<1>13. CASE Answers(c, event.id) /\ event.signal = "started"
  <2>1. PICK k : k = SetStatus(c, c.current, "Receiving")
    OBVIOUS
  <2>2. Becomes(k)
    BY <1>5, <1>13, <2>1 DEF PrivateSignal
  <2>3. Fine(k, now) /\ k.socket = c.socket
    BY <1>2, <1>10, <1>11, <1>13, <2>1, StartedKeeps
  <2> QED  BY <1>1, <1>4, <2>2, <2>3, BecomesKeeps DEF Fine
<1>14. CASE ~Answers(c, event.id) /\ event.signal = "started"
  <2>1. Becomes(c)
    BY <1>5, <1>14 DEF PrivateSignal
  <2> QED  BY <1>1, <1>2, <1>4, <1>10, <2>1, BecomesKeeps
<1>15. CASE ~Answers(c, event.id) /\ event.signal # "started"
  <2>1. PICK k : k = handleRequestQueue(c)
    OBVIOUS
  <2>2. Becomes(k)
    BY <1>5, <1>15, <2>1 DEF PrivateSignal
  <2>3. Fine(k, now) /\ k.socket = c.socket
    BY <1>2, <1>10, <2>1, HandleKeeps
  <2> QED  BY <1>1, <1>4, <2>2, <2>3, BecomesKeeps DEF Fine
<1> QED  BY <1>12, <1>13, <1>14, <1>15

-----------------------------------------------------------------------------
(***************************************************************************)
(* The invariant, and what it shows.                                       *)
(***************************************************************************)
LEMMA Starts ==
    ASSUME Init
    PROVE  IInv
<1>1. /\ c.pendingRequests = <<>> /\ c.current = None /\ c.private = <<>> /\ c.out = <<>>
      /\ c.lastId = 0 /\ c.listening = {} /\ c.socket = "none" /\ c.status = "Unconnected"
      /\ c.request = [r \in Request |-> [status |-> "Inactive", id |-> 0]]
      /\ c.watcher = [w \in Watcher |-> [status |-> "Inactive", added |-> FALSE]]
      /\ c.timer = FALSE /\ c.explicitDisconnect = FALSE /\ c.privatePartitionHandler = FALSE
  BY DEF Init
<1>2. /\ <<>> \in Seq(Item) /\ <<>> \in Seq(Answer) /\ <<>> \in Seq(Event)
      /\ DOMAIN <<>> = {} /\ <<>> \o <<>> = <<>>
  OBVIOUS
<1>3. /\ c.request \in [Request -> [status : Status, id : Nat]]
      /\ c.watcher \in [Watcher -> [status : {"Inactive", "Activating", "Active"}, added : BOOLEAN]]
  BY <1>1 DEF Status
<1>4. c \in Connection
  <2>1. PICK request : request = [r \in Request |-> [status |-> "Inactive", id |-> 0]]
    OBVIOUS
  <2>2. PICK watcher : watcher = [w \in Watcher |-> [status |-> "Inactive", added |-> FALSE]]
    OBVIOUS
  <2>3. PICK nothing : nothing = <<>>
    OBVIOUS
  <2>4. c = [status |-> "Unconnected", explicitDisconnect |-> FALSE, timer |-> FALSE,
             socket |-> "none", privatePartitionHandler |-> FALSE,
             request |-> request, watcher |-> watcher,
             pendingRequests |-> nothing, current |-> None, listening |-> {}, lastId |-> 0,
             out |-> nothing, private |-> nothing]
    BY <2>1, <2>2, <2>3 DEF Init
  <2>5. /\ request \in [Request -> [status : Status, id : Nat]] /\ nothing \in Seq(Item)
        /\ watcher \in [Watcher ->
               [status : {"Inactive", "Activating", "Active"}, added : BOOLEAN]]
        /\ {} \in SUBSET (Watcher \X Nat) /\ None \in Item \cup {None} /\ 0 \in Nat
    BY <1>1, <1>2, <1>3, <2>1, <2>2, <2>3
  <2> QED  BY <2>4, <2>5 DEF Connection
<1>5. PICK net : net = Net
  OBVIOUS
<1>6. /\ net.toServer = <<>> /\ net.toClient = <<>> /\ net.fromPrivate = <<>>
      /\ net.ran = [r \in Request |-> 0] /\ net.resent = FALSE /\ net.broken = FALSE
  <2>1. exposed = {} /\ toServer = <<>> /\ toClient = <<>> /\ fromPrivate = <<>>
        /\ ran = [r \in Request |-> 0]
    BY DEF Init
  <2>2. ("resent" \in exposed) = FALSE /\ ("broken" \in exposed) = FALSE
    BY <2>1
  <2> QED  BY <1>5, <2>1, <2>2, NetFields
<1>7. NetType(net)
  BY <1>2, <1>6 DEF NetType
<1>8. Internals(c) = {}
  BY <1>1, <1>2 DEF Internals
<1>9. Numbered(c)
  BY <1>1, <1>2, <1>8 DEF Numbered
<1>10. Removals(c)
  BY <1>1, <1>2, Items DEF Removals, IsRemoval
<1>11. \A w \in Watcher : ~IsActive(c, w)
  BY <1>1 DEF IsActive
<1>12. Plugged(c)
  BY <1>1, <1>11 DEF Plugged
<1>13. Wired(c, net)
  BY <1>1, <1>2, <1>6, <1>11 DEF Wired
<1>14. Ordered(c) /\ Told(c, net) /\ Once(c, net)
  <2>1. ~IsApp(c.current)
    BY <1>1, Items DEF IsApp
  <2> QED  BY <1>1, <1>2, <1>6, <2>1 DEF Ordered, Told, Once
<1>15. Fine(c, net)
  BY <1>4, <1>7, <1>9, <1>10, <1>12, <1>13, <1>14 DEF Fine
<1> QED  BY <1>1, <1>5, <1>15 DEF IInv

LEMMA Continues ==
    ASSUME IInv, [Next]_vars
    PROVE  IInv'
<1>1. CASE PrivateSignal
  BY <1>1, PrivateSignals
<1>2. CASE _q_onReceivedObject
  BY <1>2, OnReceivedObject
<1>3. CASE SocketDisconnected \/ \E died \in BOOLEAN : ConnectionBreaks(died)
  BY <1>3, Disconnected
<1>4. CASE \E ok \in BOOLEAN : receiveMessage(ok)
  BY <1>4, ReceiveMessage
<1>5. CASE \E ok \in BOOLEAN : _q_onTimer(ok)
  BY <1>5, OnTimer
<1>6. CASE \E signals \in Outcome : handlePrivateRequest(signals)
  BY <1>6, HandlePrivateRequest
<1>7. CASE \E ok \in BOOLEAN : connectToServer(ok)
  BY <1>7, ConnectToServer
<1>8. CASE disconnectFromServer
  BY <1>8, Disconnect
<1>9. CASE CancelPendingRequests
  BY <1>9, CancelsAll
<1>10. CASE \E r \in Request : Send(r) \/ Cancel(r)
  BY <1>10, Sends, Cancels
<1>11. CASE \E w \in Watcher : addWatcher(w) \/ removeWatcher(w)
  BY <1>11, AddWatcher, RemoveWatcher
<1>12. CASE UNCHANGED vars
  <2>1. c' = c /\ Net' = Net
    BY <1>12 DEF vars, Net
  <2>2. c.out = <<>> /\ Fine(c, Net)
    BY DEF IInv
  <2>3. PICK k : k = c
    OBVIOUS
  <2>4. PICK net : net = Net
    OBVIOUS
  <2>5. k.out = <<>> /\ Fine(k, net) /\ c' = k /\ Net' = net
    BY <2>1, <2>2, <2>3, <2>4
  <2> QED  BY <2>5 DEF IInv
<1> QED
  BY <1>1, <1>2, <1>3, <1>4, <1>5, <1>6, <1>7, <1>8, <1>9, <1>10, <1>11, <1>12
     DEF Next, Works

\* The inductive invariant, for any number of requests, watchers, breaks and
\* calls, whatever is avoided.
THEOREM Invariance == Spec => []IInv
<1>1. Init => IInv
  BY Starts
<1>2. IInv /\ [Next]_vars => IInv'
  BY Continues
<1> QED  BY <1>1, <1>2, PTL DEF Spec

\* What the application is told of a request is true, see AnswersAreTrue.
THEOREM ApplicationIsToldTheTruth == Spec => []AnswersAreTrue
<1>1. IInv => AnswersAreTrue
  <2> SUFFICES ASSUME IInv, "resent" \notin exposed, NEW r \in Request
               PROVE  /\ c.request[r].status = "Finished" => ran[r] > 0
                      /\ "broken" \notin exposed =>
                            /\ ran[r] <= 1
                            /\ c.request[r].status = "Canceled" => ran[r] = 0
    BY DEF AnswersAreTrue
  <2>1. Told(c, Net) /\ ("broken" \notin exposed => Once(c, Net))
    BY NetFields DEF IInv, Fine
  <2> QED  BY <2>1, NetFields DEF Told, Once
<1> QED  BY <1>1, Invariance, PTL

\* A watcher that says it is active is registered, see ActiveIsRegistered:
\* without a hypothesis, through every break, removal and activation.
THEOREM ActiveWatchersAreRegistered == Spec => []ActiveIsRegistered
<1>1. IInv => ActiveIsRegistered
  BY NetFields DEF IInv, Fine, Wired, ActiveIsRegistered, IsActive
<1> QED  BY <1>1, Invariance, PTL

\* What runs is the request in flight or one before it.
LEMMA RunsInOrder ==
    ASSUME IInv, Next, "resent" \notin exposed',
           NEW r \in Request, NEW q \in Request, ran'[r] > ran[r], Waits(q)
    PROVE  c.request[r].id <= c.request[q].id
<1>1. c.out = <<>> /\ c \in Connection /\ Fine(c, Net)
  BY DEF IInv, Fine
<1>2. /\ Wired(c, Net) /\ Numbered(c) /\ ran \in [Request -> Nat] /\ toServer \in Seq(Item)
      /\ c.request \in [Request -> [status : Status, id : Nat]]
  BY <1>1, NetFields DEF Fine, NetType, Connection
<1>3. PICK i \in DOMAIN c.pendingRequests :
          IsApp(c.pendingRequests[i]) /\ c.pendingRequests[i].of = q
  BY <1>1, WaitsFacts
<1>4. NumberAt(c, i) = c.request[q].id /\ c.request[q].id \in Nat /\ c.request[r].id \in Nat
  BY <1>2, <1>3 DEF NumberAt
<1>5. ASSUME "resent" \notin exposed PROVE Ordered(c)
  BY <1>1, <1>5, NetFields DEF Fine
<1>6. ASSUME NEW ok \in BOOLEAN, receiveMessage(ok) PROVE c.request[r].id <= c.request[q].id
  <2>1. toServer # <<>> /\ toServer \o c.out = toServer
    BY <1>1, <1>2, <1>6 DEF receiveMessage
  <2>2. toServer = <<c.current>> /\ Head(toServer) = c.current
    <3>1. toServer = <<c.current>>
      BY <1>2, <2>1, NetFields DEF Wired
    <3>2. Head(<<c.current>>) = c.current
      OBVIOUS
    <3> QED  BY <3>1, <3>2
  <2>3. "resent" \notin exposed
    BY <1>6 DEF receiveMessage
  <2>4. ran' = IF c.current.kind = "app" /\ c.request[c.current.of].id = c.current.id
               THEN [ran EXCEPT ![c.current.of] = @ + 1] ELSE ran
    BY <1>6, <2>2 DEF receiveMessage, Ran
  <2>5. IsApp(c.current) /\ c.current.of = r /\ c.request[r].id = c.current.id
    BY <1>2, <2>4 DEF IsApp
  <2>6. c.current.id < NumberAt(c, i)
    BY <1>3, <1>5, <2>3, <2>5 DEF Ordered
  <2> QED  BY <1>4, <2>5, <2>6
<1>7. ASSUME NEW signals \in Outcome, handlePrivateRequest(signals)
      PROVE  c.request[r].id <= c.request[q].id
  <2>1. PICK item : item = Head(c.private)
    OBVIOUS
  <2>2. 1 \in DOMAIN c.private /\ item = c.private[1] /\ item.kind = "app"
    <3>1. c.private \in Seq(Item) /\ c.private # <<>>
      BY <1>1, <1>7 DEF handlePrivateRequest, Connection
    <3>2. 1 \in DOMAIN c.private /\ item = c.private[1]
      BY <2>1, <3>1
    <3> QED  BY <1>2, <3>2 DEF Numbered
  <2>3. "resent" \notin exposed
    BY <1>7 DEF handlePrivateRequest
  <2>4. ran' = IF c.request[item.of].id = item.id THEN [ran EXCEPT ![item.of] = @ + 1] ELSE ran
    BY <1>7, <2>1, <2>2 DEF handlePrivateRequest, Ran
  <2>5. item.of = r /\ c.request[r].id = item.id
    BY <1>2, <2>4
  <2>6. item.id <= NumberAt(c, i)
    BY <1>3, <1>5, <2>2, <2>3 DEF Ordered
  <2> QED  BY <1>4, <2>5, <2>6
<1>8. CASE ran' = ran
  BY <1>2, <1>8
<1>9. ASSUME NEW p \in Request, Send(p) PROVE FALSE
  <2>1. ran' = [ran EXCEPT ![p] = 0]
    BY <1>9 DEF Send
  <2> QED  BY <1>2, <2>1
<1> QED
  BY <1>6, <1>7, <1>8, <1>9
     DEF Next, Works, PrivateSignal, _q_onReceivedObject, SocketDisconnected, _q_onTimer,
         connectToServer, ConnectionBreaks, disconnectFromServer, CancelPendingRequests, Cancel,
         addWatcher, removeWatcher

\* Nothing runs while an earlier request waits, see OrderIsKept.
THEOREM RequestsRunInOrder == Spec => OrderIsKept
<1>1. IInv /\ [Next]_vars =>
          [ "resent" \notin exposed' =>
                \A r, q \in Request :
                    ran'[r] > ran[r] /\ Waits(q) => c.request[r].id <= c.request[q].id ]_vars
  BY RunsInOrder
<1> QED  BY <1>1, Invariance, PTL DEF Spec, OrderIsKept

Noted == registered \cup stored \cup refused \subseteq Watcher /\ exposed \subseteq Exposure

\* The state has its type, see TypeOK.
THEOREM TypeIsKept == Spec => []TypeOK
<1>1. Init => Noted
  BY DEF Init, Noted
<1>2. IInv /\ Noted /\ [Next]_vars => Noted'
  <2> SUFFICES ASSUME IInv, Noted, [Next]_vars PROVE Noted'
    OBVIOUS
  <2>1. /\ registered \subseteq Watcher /\ stored \subseteq Watcher /\ refused \subseteq Watcher
        /\ exposed \subseteq Exposure
    BY DEF Noted
  <2>2. ASSUME NEW ok \in BOOLEAN, receiveMessage(ok) PROVE Noted'
    <3>1. toServer \in Seq(Item) /\ toServer # <<>>
      BY <2>2, NetFields DEF IInv, Fine, NetType, receiveMessage
    <3>2. PICK item \in Item : item = Head(toServer)
      BY <3>1
    <3>3. item.kind = "add" => item.of \in Watcher
      BY <3>2, Items
    <3>4. /\ stored' \subseteq stored \cup (IF item.kind = "add" THEN {item.of} ELSE {})
          /\ registered' \subseteq registered \cup (IF item.kind = "add" THEN {item.of} ELSE {})
          /\ refused' \subseteq refused \cup (IF item.kind = "add" THEN {item.of} ELSE {})
          /\ exposed' \subseteq exposed \cup {"retired"}
      BY <2>2, <3>2 DEF receiveMessage
    <3> QED  BY <2>1, <3>3, <3>4 DEF Noted, Exposure
  <2>3. \A k : Becomes(k) => registered' \subseteq registered /\ refused' \subseteq refused
    BY DEF Becomes
  <2>4. \A k, broke : Breaking(k, broke) => exposed' \subseteq Exposure
    BY <2>1 DEF Breaking, Exposing
  <2>5. CASE ~ \E ok \in BOOLEAN : receiveMessage(ok)
    <3>1. registered' \subseteq registered /\ refused' \subseteq refused
      BY <2>3, <2>5
         DEF Next, Works, PrivateSignal, _q_onReceivedObject, SocketDisconnected, _q_onTimer,
             connectToServer, ConnectionBreaks, disconnectFromServer, CancelPendingRequests, Cancel,
             addWatcher, removeWatcher, Send, handlePrivateRequest, server, vars
    <3>2. stored' \subseteq stored
      BY <2>5
         DEF Next, Works, PrivateSignal, _q_onReceivedObject, SocketDisconnected, _q_onTimer,
             connectToServer, ConnectionBreaks, disconnectFromServer, CancelPendingRequests, Cancel,
             addWatcher, removeWatcher, Send, handlePrivateRequest, server, vars
    <3>3. exposed' \subseteq Exposure
      BY <2>1, <2>4, <2>5
         DEF Next, Works, PrivateSignal, _q_onReceivedObject, SocketDisconnected, _q_onTimer,
             connectToServer, ConnectionBreaks, disconnectFromServer, CancelPendingRequests, Cancel,
             addWatcher, removeWatcher, Send, handlePrivateRequest, server, vars, Exposure
    <3> QED  BY <2>1, <3>1, <3>2, <3>3 DEF Noted
  <2> QED  BY <2>2, <2>5
<1>3. IInv /\ Noted => TypeOK
  <2> SUFFICES ASSUME IInv, Noted PROVE TypeOK
    OBVIOUS
  <2>1. c \in Connection /\ Plugged(c)
    BY DEF IInv, Fine
  <2>2. /\ c.status \in {"Unconnected", "Connecting", "Connected"}
        /\ c.request \in [Request -> [status : Status, id : Nat]]
        /\ c.current \in Item \cup {None} /\ c.pendingRequests \in Seq(Item)
        /\ c.listening \subseteq Watcher \X Nat
    BY <2>1 DEF Connection
  <2>3. c.socket = "open" => c.status = "Connected"
    BY <2>1 DEF Plugged
  <2>4. \A i \in 1 .. Len(c.pendingRequests) : c.pendingRequests[i] \in Item
    BY <2>2
  <2> QED  BY <2>2, <2>3, <2>4 DEF TypeOK, Noted
<1>4. Spec => [](IInv /\ Noted)
  BY <1>1, <1>2, Invariance, PTL DEF Spec
<1> QED  BY <1>3, <1>4, PTL
=============================================================================
