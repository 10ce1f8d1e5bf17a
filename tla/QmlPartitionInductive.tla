------------------------ MODULE QmlPartitionInductive ------------------------
(***************************************************************************)
(* The inductive invariants of QmlPartition: what the objects of a thread  *)
(* rely on between any two of their steps, in named parts, and what the    *)
(* operators of the model keep of them.  QmlPartitionProofs shows that     *)
(* every step preserves them.                                              *)
(***************************************************************************)
EXTENDS QmlPartition

(***************************************************************************)
(* Callbacks: each has its request on the way, or was called.              *)
(***************************************************************************)
\* An assumption of the theorems, on the situations that the model leaves out:
\* no partition object is destroyed with callbacks waiting, and find() has a
\* query.  In both the code calls no callback.
CallersWait == {"left", "unasked"} \subseteq Avoided

Members(s) == {s[i] : i \in DOMAIN s}
Ids(rs) == {r.id : r \in rs}
IsSeq(s) == s \in Seq(Members(s))
Distinct(s) == \A i, j \in DOMAIN s : s[i].id = s[j].id => i = j

WaitingOf(c) == Ids(Pending(c))
CalledOf(c) == Ids(Members(c.called))
Sent(c) == Members(c.queue) \cup Members(c.wire)

Fields ==
    {"partition", "notify", "query", "writeCallbacks", "findCallbacks", "called", "promised",
     "watchers", "queue", "wire", "current", "lastId", "exposed"}
Shaped(c) ==
    /\ DOMAIN c = Fields
    /\ DOMAIN c.query = {"alive", "partition", "status", "request"}

\* The requests: one id for each, and the one that is current has left the queue.
Line(c) ==
    /\ c.lastId \in Nat /\ c.current \in 0 .. c.lastId
    /\ IsSeq(c.queue) /\ IsSeq(c.wire)
    /\ Ids(Sent(c)) \subseteq 1 .. c.lastId
    /\ Distinct(c.queue) /\ c.current \notin Ids(Members(c.queue))

\* A request belongs to at most one callback or query, which is one of its
\* kind; these have no watcher that could take them with it.
Own(c, r) ==
    /\ r.kind \in {"write", "find", "query"} => r.watcher = NoWatcher
    /\ r.id \in Ids(c.writeCallbacks) => r.kind = "write"
    /\ r.id \in Ids(c.findCallbacks) => r.kind = "find"
    /\ r.id = c.query.request => r.kind = "query"
Owned(c) == \A r \in Sent(c) : Own(c, r)

Kept(c) ==
    /\ c.promised \subseteq 1 .. c.lastId
    /\ c.promised \subseteq WaitingOf(c) \cup CalledOf(c)
    /\ Ids(c.writeCallbacks \cup c.findCallbacks) = c.promised \ CalledOf(c)

CalledOnce(c) ==
    /\ IsSeq(c.called) /\ CalledOf(c) \subseteq c.promised
    /\ IsFiniteSet(CalledOf(c)) /\ Cardinality(CalledOf(c)) = Len(c.called)

Loading(c) ==
    /\ c.query.request \in 0 .. c.lastId
    /\ c.query.status = "Loading" <=> c.query.request \in WaitingOf(c)

Sound(c) == Shaped(c) /\ Line(c) /\ Owned(c) /\ Kept(c) /\ CalledOnce(c) /\ Loading(c)

ObjectsAreSound == Sound(x)

-----------------------------------------------------------------------------
(***************************************************************************)
(* Registrations: what the daemon has registered is what the objects       *)
(* watch.  R are the watchers that are accepted; V are those that have     *)
(* notifications on their way, and those whose Notification is deleted.    *)
(***************************************************************************)
PartitionFields == {"name", "state", "alive", "partitionWatcher", "watchers"}
NotifyFields ==
    {"alive", "partition", "query", "actions", "enabled", "status", "watcher", "follows"}
Formed(c) ==
    /\ Shaped(c) /\ DOMAIN c.notify = NotifyFields /\ DOMAIN c.partition = Partition
    /\ \A p \in Partition : DOMAIN c.partition[p] = PartitionFields

\* The requests of watchers are answered in the order they were sent in, and
\* go before every other that was not sent before them.
Rises(s) ==
    \A i, j \in DOMAIN s : i < j /\ Internal(s[i]) /\ Internal(s[j]) => s[i].id < s[j].id
Leads(s) == \A i, j \in DOMAIN s : i < j /\ Internal(s[j]) => Internal(s[i])
InOrder(c) ==
    /\ Rises(c.wire) /\ Rises(c.queue) /\ Leads(c.queue) /\ Distinct(c.wire)
    /\ \A r \in Members(c.wire), t \in Members(c.queue) :
           r.id # t.id /\ (Internal(t) => r.id < t.id)

\* A watcher is accepted once, by the request with its own number, and
\* removed after it stopped to watch.
Tagged(c) ==
    \A r \in Sent(c) :
        /\ Internal(r) <=> r.kind \in {"add", "remove"}
        /\ Internal(r) => r.watcher.id \in 1 .. c.lastId
        /\ r.kind = "add" => r.watcher.id = r.id
        /\ r.kind = "remove" => r.watcher.id < r.id /\ r.watcher \notin c.watchers
        /\ r.id = c.query.request => r.kind = "query"

Known(c, R, V) ==
    /\ c.query.request \in 0 .. c.lastId
    /\ \A w \in c.watchers \cup R : w # NoWatcher /\ w.id \in 1 .. c.lastId
    /\ \A w \in V.noticed : w.id \in 1 .. c.lastId /\ (w \in c.watchers => w \in R)
    /\ \A r \in Sent(c) : r.kind = "add" => r.watcher \notin R

\* Nothing stays accepted: what nobody watches has a removal on its way.
Added(c) == {r.watcher : r \in {t \in Sent(c) : t.kind = "add"}}
Removed(c) == {r.watcher : r \in {t \in Sent(c) : t.kind = "remove"}}
Followed(c, R) == "dropped" \in c.exposed \/ R \cup Added(c) \subseteq c.watchers \cup Removed(c)

\* One watcher at a time is the notification object's.
OneOfMine(c) ==
    /\ \A w \in c.watchers : w.of = Notifier => w = c.notify.watcher
    /\ \A p \in Partition : c.partition[p].partitionWatcher.of # Notifier
    /\ c.notify.watcher = NoWatcher \/ c.notify.watcher.of = Notifier
    /\ c.notify.alive \/ (c.notify.watcher = NoWatcher /\ c.notify.query = "")

Heard(c, R, V) ==
    /\ c.notify.status = "Ready" => c.notify.watcher \in R \cup V.forgotten
    /\ \A r \in Members(c.wire) : Internal(r) /\ r.watcher = c.notify.watcher => r.id = c.current

Loose(c, R, V) ==
    /\ Formed(c) /\ Line(c) /\ InOrder(c) /\ Tagged(c) /\ Known(c, R, V) /\ Followed(c, R)
    /\ OneOfMine(c)
Tidy(c, R, V) == Loose(c, R, V) /\ Heard(c, R, V)

Noticed == {events[i].watcher : i \in DOMAIN events}
Past == [noticed |-> Noticed, forgotten |-> forgotten]
NoPast == [noticed |-> {}, forgotten |-> {}]

\* What is accepted is watched, and the notification object's watcher is
\* accepted as long as it says it is ready, unless its Notification is deleted.
Registrations ==
    /\ Tidy(x, accepted, Past)
    /\ IsFiniteSet(accepted) /\ IsSeq(events)
    /\ \A w \in forgotten : w.of = Notifier

-----------------------------------------------------------------------------
(***************************************************************************)
(* The notification object: its watcher is what the object is set to, and  *)
(* what it has to hear is what is on its way to that watcher.              *)
(***************************************************************************)
\* An assumption of the theorems, on the situations that the model leaves out:
\* in each the notification object goes on to hear with an old watcher, or is
\* without one, and nothing in the code tells it.
ListenersStay == {"emptied", "orphaned", "renamed"} \subseteq Avoided
Lost(c) == c.exposed \cap {"emptied", "orphaned", "renamed"} # {}

Watched(c) == c.notify.watcher \in c.watchers
OwnPartition(c) ==
    LET n == c.notify
    IN n.partition # None => n.partition \in Partition /\ n.partition \in n.follows
AsAsked(c) ==
    LET n == c.notify
        p == c.partition[n.partition]
    IN Watched(c) =>
        /\ parametersReady(n) /\ n.enabled
        /\ n.watcher.query = n.query /\ n.watcher.actions = n.actions
        /\ n.watcher.name = p.name /\ n.watcher \in p.watchers
Numbered(c) == c.notify.watcher.id \in 0 .. c.lastId
Mine(c, R) ==
    /\ OwnPartition(c) /\ AsAsked(c) /\ Numbered(c)
    /\ c.notify.status = "Ready" => Watched(c)
    /\ Watched(c) /\ c.notify.watcher \in R => c.notify.status = "Ready"

To(s, w) == {i \in DOMAIN s : s[i].watcher = w}
Count(s, w) == Cardinality(To(s, w))

Fitting(s) ==
    \A m \in Members(s) :
        m.watcher.of = Notifier => Fits(m.watcher, m.event.name, m.event.query, m.event.action)
OnItsWay == IF Watched(x) THEN Count(events, x.notify.watcher) ELSE 0
Hearing ==
    /\ Registrations /\ Mine(x, accepted)
    /\ Fitting(events) /\ owed = OnItsWay /\ ~stray

-----------------------------------------------------------------------------
(***************************************************************************)
(* The states of the partition objects.  Told says of one of them what it  *)
(* is to learn and from where: from an event on its way to its watcher, or *)
(* from the answer to its query.  s are the events, av the states that the *)
(* daemon has.                                                             *)
(***************************************************************************)
\* An assumption of the theorems: an answer that is taken with a later one
\* still to come, or an error, gives a state that nothing corrects.
AnswersStand == {"outdated", "refused"} \subseteq Avoided
Misled(c) == c.exposed \cap {"outdated", "refused"} # {}

\* The queries of a partition object for its state.
Asks(c, p, t) == t \in Sent(c) /\ t.kind = "state" /\ t.of = p

\* Those on the wire, and what registers the watchers, are waited for.
Prompt(c) ==
    \A r \in Members(c.wire) :
        r.kind = "state" \/ (r.kind = "add" /\ r.watcher \in c.watchers) => r.id = c.current

Named(c, p) ==
    LET o == c.partition[p]
    IN /\ o.name \in Name \cup {""}
       /\ o.name = "" => \A t : Asks(c, p, t) => Resolved(t.name) = Default
       /\ \A v \in c.watchers : v.of = p => v = o.partitionWatcher

LastSays(s, w, v) ==
    \A i \in DOMAIN s :
        s[i].watcher = w /\ (\A j \in DOMAIN s : j > i => s[j].watcher # w) => s[i].event = v
Silent(s, w) == \A i \in DOMAIN s : s[i].watcher # w
Match(state, found) == IF found = "unknown" THEN state \in {"None", "offline"} ELSE state = found

\* An answer is to come that tells the state of the partition it is named for.
Expects(c, p) ==
    LET o == c.partition[p]
    IN \E t : Asks(c, p, t) /\ t.id > o.partitionWatcher.id /\ Resolved(t.name) = Resolved(o.name)
Registers(c, p) == \E a \in Sent(c) : a.kind = "add" /\ a.watcher = c.partition[p].partitionWatcher

Hearkens(c, p) ==
    LET o == c.partition[p]
        w == o.partitionWatcher
    IN w \in c.watchers /\ w.of = p /\ Resolved(w.name) = Resolved(o.name)
Learns(c, p, R, s, av) ==
    LET o == c.partition[p]
        w == o.partitionWatcher
        found == av[Resolved(o.name)]
    IN IF w \in R
       THEN /\ LastSays(s, w, found)
            /\ Silent(s, w) => Match(o.state, found) \/ (o.state = "None" /\ Expects(c, p))
       ELSE o.state = "None" /\ Expects(c, p) /\ Registers(c, p)
Told(c, p, R, s, av) ==
    /\ Prompt(c) /\ Named(c, p)
    /\ c.partition[p].alive => Hearkens(c, p) /\ Learns(c, p, R, s, av)

StatesAreTold ==
    /\ Registrations /\ DOMAIN available = Name
    /\ \A p \in Partition : Told(x, p, accepted, events, available)

-----------------------------------------------------------------------------
(***************************************************************************)
(* What an operator that leads from c to d leaves as it is.                *)
(***************************************************************************)
Frame(c, d) ==
    /\ Shaped(d)
    /\ d.promised = c.promised /\ d.called = c.called
    /\ d.writeCallbacks = c.writeCallbacks /\ d.findCallbacks = c.findCallbacks
    /\ d.query.status = c.query.status /\ d.query.request = c.query.request
    /\ c.lastId <= d.lastId

SameLine(c, d) ==
    d.queue = c.queue /\ d.wire = c.wire /\ d.current = c.current /\ d.lastId = c.lastId

Quiet(c, d) == Frame(c, d) /\ Sound(d)

\* The requests that matter: a callback or the query object waits for them.
Awaited(c) == (c.promised \ CalledOf(c)) \cup {c.query.request}
Unowned(r) == r.kind \in {"write", "find", "query"} => r.watcher = NoWatcher

\* Requests come and go, but none of these.
Carried(c, d) ==
    /\ \A r \in Sent(d) : r \in Sent(c) \/ (r.id > c.lastId /\ Unowned(r))
    /\ \A id \in Awaited(c) : id \in WaitingOf(c) => id \in WaitingOf(d)
    /\ \A id \in WaitingOf(d) : id \in WaitingOf(c) \/ id > c.lastId

SameObjects(c, d) ==
    d.partition = c.partition /\ d.notify = c.notify /\ d.query = c.query

\* What the others do does not change it.
Beside(c, d) ==
    /\ d.notify = c.notify /\ (Watched(d) <=> Watched(c))
    /\ c.lastId \in Nat /\ d.lastId \in Nat /\ c.lastId <= d.lastId
Untouched(c, d) ==
    /\ Beside(c, d)
    /\ c.notify.partition \in Partition =>
          LET p == c.notify.partition
          IN d.partition[p].name = c.partition[p].name
            /\ d.partition[p].watchers = c.partition[p].watchers

\* What leaves a partition object to itself.
Side(c, d, p) ==
    /\ d.partition[p].name = c.partition[p].name /\ d.partition[p].state = c.partition[p].state
    /\ d.partition[p].alive = c.partition[p].alive
    /\ d.partition[p].partitionWatcher = c.partition[p].partitionWatcher
Apart(c, d, p) ==
    /\ Side(c, d, p)
    /\ \A w : w.of = p => (w \in d.watchers <=> w \in c.watchers)
    /\ \A t : Asks(d, p, t) <=> Asks(c, p, t)
    /\ \A a \in Sent(c) : a.kind = "add" /\ a.watcher.of = p => a \in Sent(d)
    /\ c.exposed \subseteq d.exposed
    /\ Prompt(c) => Prompt(d)
=============================================================================
