-------------------------- MODULE JsonDbViewProofs --------------------------
(***************************************************************************)
(* Proofs about JsonDbView: until one of the situations is met that lose   *)
(* an update, the view is what its definition makes of the state it says   *)
(* it has seen, in memory and on disk, however many events are queued and  *)
(* in whatever order the files are synced.                                 *)
(***************************************************************************)
EXTENDS JsonDbView, FiniteSetTheorems, TLAPS

Object == Value \cup {None}
AnyContent == Object \cup Function \cup {Extending}
Stored == {all \in [Key -> AnyContent] :
              \A key \in Key : all[key] \in Content(key) \cup {None}}
Event == UNION {[keys -> [old : AnyContent, new : AnyContent]] : keys \in SUBSET Key}

\* The log has every state up to the current one, the state on disk is one of them.
Log ==
    /\ stateNumber \in 1 .. MaxState
    /\ snapshot \in [0 .. MaxState -> Stored]
    /\ objects = snapshot[stateNumber]
    /\ disk.tag \in 1 .. stateNumber
    /\ disk = [objects |-> snapshot[disk.tag], tag |-> disk.tag, exposed |-> disk.exposed]
    /\ disk.exposed \subseteq OfRegistry

\* An active definition has a Schema, which cannot be removed before it.
HasSchema(all) == IsActive(all[Definition]) => all[Schema] # None
Schemas ==
    /\ exposed \cap OfRegistry = {} => HasSchema(objects)
    /\ disk.exposed = {} => HasSchema(disk.objects)

\* The weights count the one notification there may be.
Weights ==
    exposed = {} =>
        /\ notified \in BOOLEAN
        /\ \A type \in DOMAIN weight :
              weight[type] = IF notified /\ type \in EdgeTypes THEN 1 ELSE 0
        /\ notified => EdgeTypes \subseteq DOMAIN weight

\* What an event says is what was written: the last state.
IsLastWrite(event) ==
    /\ stateNumber > 1
    /\ DOMAIN event \subseteq Key
    /\ \A key \in DOMAIN event :
          /\ event[key] = [old |-> snapshot[stateNumber - 1][key], new |-> objects[key]]
          /\ event[key].old # None \/ event[key].new # None
    /\ \A key \in Key \ DOMAIN event : objects[key] = snapshot[stateNumber - 1][key]

\* An object has stayed a source under the type it had.
KeepsType(u) ==
    LET before == snapshot[stateNumber - 1][u]
        definition == registered.definition
    IN IsSource(definition, before) /\ IsSource(definition, objects[u]) =>
           TypeOf(before) = TypeOf(objects[u])

LastEvent == queue[Len(queue)]
Events ==
    /\ queue \in Seq(Event)
    /\ queue # <<>> => IsLastWrite(LastEvent)

\* An eager view lags behind by no more than the events in the queue, and then the
\* definition is the one the view was made by.
Eager ==
    exposed = {} /\ notified /\ mViewStateNumber \notin {0, stateNumber} =>
        /\ queue # <<>>
        /\ stateNumber - mViewStateNumber <= Len(queue)
        /\ DOMAIN LastEvent \subseteq Uuid
        /\ \A u \in Uuid : KeepsType(u)

\* The table is what the definition makes of the state its tag is of, and of the
\* state the view has seen.
Shown ==
    /\ viewTag \in 0 .. stateNumber
    /\ mViewStateNumber \in 0 .. stateNumber
    /\ view = MadeOf(snapshot[viewTag])
    /\ mViewStateNumber # 0 => view = MadeOf(snapshot[mViewStateNumber])
    /\ ~registered.view => mViewStateNumber = 0
Table ==
    /\ viewTag \in Nat /\ mViewStateNumber \in Nat
    /\ exposed = {} => Shown

OnDisk ==
    /\ viewDisk.tag \in Nat
    /\ viewDisk = [view |-> viewDisk.view, tag |-> viewDisk.tag, exposed |-> viewDisk.exposed]
    /\ viewDisk.exposed = {} =>
          /\ viewDisk.tag \in 0 .. stateNumber
          /\ viewDisk.view = MadeOf(snapshot[viewDisk.tag])

IInv ==
    /\ Log
    /\ Schemas
    /\ DefinitionsAreRegistered
    /\ Weights
    /\ Events
    /\ Eager
    /\ Table
    /\ OnDisk

-----------------------------------------------------------------------------
(***************************************************************************)
(* Mapping and reducing.                                                   *)
(***************************************************************************)
DefinitionOf(all) == IF IsActive(all[Definition]) THEN all[Definition] ELSE None

LEMMA KeysDiffer ==
    /\ Definition \in Key /\ Schema \in Key /\ Uuid \subseteq Key
    /\ Definition \notin Uuid /\ Schema \notin Uuid /\ Schema # Definition
BY ViewAssumption DEF Key

\* What is stored under each key.
LEMMA StoredTypes ==
    ASSUME NEW all \in Stored
    PROVE  /\ all[Definition] \in Function \cup {None}
           /\ all[Schema] \in {Extending, None}
           /\ \A u \in Uuid : all[u] \in Object
BY KeysDiffer DEF Stored, Content, Object

\* Adding to a fresh entry and subtracting again leaves it as it was.
LEMMA AddedIsSubtracted ==
    ASSUME NEW object \in Value, KeyOf(object) # None
    PROVE  /\ <<KeyOf(object), object>> \in SourceKey \X Value
           /\ addObject(addObject(NoEntry, KeyOf(object), object, 1), KeyOf(object), object, -1)
                  = NoEntry
<1> DEFINE pair == <<KeyOf(object), object>>
           zero == [p \in SourceKey \X Value |-> 0]
           one == [zero EXCEPT ![pair] = @ + 1]
<1>1. pair \in SourceKey \X Value
  BY DEF SourceKey
<1>2. addObject(NoEntry, KeyOf(object), object, 1) = [emitted |-> Nothing, added |-> one]
  BY DEF addObject, NoEntry
<1>3. [one EXCEPT ![pair] = @ + -1] = zero
  <2>1. one = [p \in SourceKey \X Value |-> IF p = pair THEN 1 ELSE 0]
    BY <1>1
  <2> QED  BY <1>1, <2>1
<1>4. addObject([emitted |-> Nothing, added |-> one], KeyOf(object), object, -1)
          = [emitted |-> Nothing, added |-> zero]
  BY <1>3 DEF addObject
<1> QED  BY <1>1, <1>2, <1>4 DEF NoEntry

\* A definition that is told a change makes of the new object what it would have
\* made of it in the first place.
LEMMA UpdatedIsMade ==
    ASSUME NEW definition \in Function \cup {None},
           NEW before \in Object, NEW after \in Object,
           registered.definition = IF IsActive(definition) THEN definition ELSE None
    PROVE  Updated(MadeFor(definition, before), before, after) = MadeFor(definition, after)
<1>1. CASE ~IsActive(definition)
  <2>1. registered.definition = None
    BY <1>1
  <2> QED  BY <1>1, <2>1 DEF Updated, MadeFor, IsSource, IsActive
<1>2. CASE /\ IsActive(definition)
           /\ ~IsSource(definition, before) /\ ~IsSource(definition, after)
  BY <1>2 DEF Updated, MadeFor, IsSource, IsActive
<1>3. CASE /\ IsActive(definition) /\ definition \in Reduce
           /\ IsSource(definition, before) \/ IsSource(definition, after)
  <2> DEFINE less == IF IsSource(definition, before)
                     THEN addObject(MadeFor(definition, before), KeyOf(before), before, -1)
                     ELSE MadeFor(definition, before)
  <2>1. Updated(MadeFor(definition, before), before, after)
            = IF IsSource(definition, after) THEN addObject(less, KeyOf(after), after, 1) ELSE less
    BY <1>3 DEF Updated, Reduced
  <2>2. less = NoEntry
    <3>1. CASE ~IsSource(definition, before)
      BY <1>3, <3>1 DEF MadeFor, IsSource, IsActive
    <3>2. CASE IsSource(definition, before)
      <4>1. /\ before \in Value
            /\ MadeFor(definition, before) = addObject(NoEntry, KeyOf(before), before, 1)
        BY <1>3, <3>2 DEF MadeFor, IsSource, Object
      <4>2. CASE KeyOf(before) = None
        BY <3>2, <4>1, <4>2 DEF addObject
      <4>3. CASE KeyOf(before) # None
        BY <3>2, <4>1, <4>3, AddedIsSubtracted
      <4> QED  BY <4>2, <4>3
    <3> QED  BY <3>1, <3>2
  <2> QED  BY <1>3, <2>1, <2>2 DEF MadeFor, IsSource, IsActive
<1>4. CASE /\ IsActive(definition) /\ definition \notin Reduce
           /\ IsSource(definition, before) \/ IsSource(definition, after)
  <2>1. Updated(MadeFor(definition, before), before, after)
            = [MadeFor(definition, before) EXCEPT !.emitted = mapObject(definition, after)]
    BY <1>4 DEF Updated, Mapped
  <2>2. \E emitted : MadeFor(definition, before) = [NoEntry EXCEPT !.emitted = emitted]
    BY <1>4 DEF MadeFor, NoEntry
  <2>3. Updated(MadeFor(definition, before), before, after)
            = [NoEntry EXCEPT !.emitted = mapObject(definition, after)]
    BY <2>1, <2>2 DEF NoEntry
  <2> QED  BY <1>4, <2>3 DEF MadeFor, mapObject, NoEntry
<1> QED  BY <1>1, <1>2, <1>3, <1>4

\* A definition that is removed takes along all it made.
LEMMA RemovedIsNothing ==
    ASSUME NEW definition \in Function \cup {None}, NEW object \in Object
    PROVE  Removed(MadeFor(definition, object), definition) = NoEntry
<1>1. CASE ~IsActive(definition) \/ ~IsSource(definition, object)
  BY <1>1 DEF Removed, MadeFor, ReduceRemoved, MapRemoved, NoEntry, IsSource, IsActive
<1>2. CASE IsActive(definition) /\ IsSource(definition, object) /\ definition \in Reduce
  <2>1. MadeFor(definition, object) = addObject(NoEntry, KeyOf(object), object, 1)
    BY <1>2 DEF MadeFor
  <2>2. \E added : MadeFor(definition, object) = [emitted |-> Nothing, added |-> added]
    BY <2>1 DEF addObject, NoEntry
  <2> QED  BY <1>2, <2>2 DEF Removed, ReduceRemoved, NoEntry, IsActive
<1>3. CASE IsActive(definition) /\ IsSource(definition, object) /\ definition \notin Reduce
  BY <1>3 DEF Removed, MadeFor, MapRemoved, NoEntry, IsActive
<1> QED  BY <1>1, <1>2, <1>3

\* A full update brings the view to the current state, whichever it was made for.
LEMMA FullUpdateIsMade ==
    ASSUME IInv, exposed = {}
    PROVE  FullyUpdated = MadeOf(objects)
<1> DEFINE old == snapshot[ViewState]
<1>1. /\ objects \in Stored /\ old \in Stored
      /\ Since(ViewState) = old
      /\ view = MadeOf(old)
      /\ registered.definition = DefinitionOf(objects)
  BY ViewAssumption
     DEF IInv, Log, Table, Shown, ViewState, Since, DefinitionsAreRegistered, DefinitionOf
<1>2. ASSUME NEW u \in Uuid, Definition \in ChangedSince(ViewState)
      PROVE  processUpdatedDefinitions(u) = MadeFor(objects[Definition], objects[u])
  <2>1. Removed(view[u], Since(ViewState)[Definition]) = NoEntry
    BY <1>1, StoredTypes, RemovedIsNothing DEF MadeOf
  <2>2. MadeFor(objects[Definition], None) = NoEntry
    BY DEF MadeFor, IsSource
  <2>3. CASE IsActive(objects[Definition])
    BY <1>1, <2>1, <2>2, <2>3, StoredTypes, UpdatedIsMade
       DEF processUpdatedDefinitions, Created, DefinitionOf, Object
  <2>4. CASE ~IsActive(objects[Definition])
    BY <2>1, <2>4 DEF processUpdatedDefinitions, Created, MadeFor
  <2> QED  BY <2>3, <2>4
<1>3. ASSUME NEW u \in Uuid, Definition \notin ChangedSince(ViewState)
      PROVE  /\ Updated(view[u], Since(ViewState)[u], objects[u])
                    = MadeFor(objects[Definition], objects[u])
             /\ u \notin ChangedSince(ViewState) => view[u] = MadeFor(objects[Definition], objects[u])
  <2>1. view[u] = MadeFor(objects[Definition], old[u])
    BY <1>1, <1>3, KeysDiffer DEF MadeOf, ChangedSince
  <2> QED  BY <1>1, <2>1, StoredTypes, UpdatedIsMade, KeysDiffer DEF DefinitionOf, ChangedSince
<1> QED  BY <1>2, <1>3 DEF FullyUpdated, MadeOf

-----------------------------------------------------------------------------
(***************************************************************************)
(* What an event brings to the view.                                       *)
(***************************************************************************)
\* Without a notification, no type is eager.
LEMMA WeightsAreEdges ==
    ASSUME IInv, exposed = {}, NEW type
    PROVE  (Weight(type) > 0) <=> (notified /\ type \in EdgeTypes)
<1>1. CASE type \in DOMAIN weight
  BY <1>1 DEF IInv, Weights, Weight
<1>2. CASE type \notin DOMAIN weight
  BY <1>2 DEF IInv, Weights, Weight
<1> QED  BY <1>1, <1>2

\* A change of an object reaches an eager view when the object is or was of a
\* source type, and then the view makes of the part that reaches it what it would
\* have made of all of it.
LEMMA PartsSuffice ==
    ASSUME IInv, exposed = {}, notified, registered.view, registered.definition # None,
           NEW u \in Uuid, NEW before \in Object, NEW after \in Object,
           before # None \/ after # None,
           IsSource(registered.definition, before) /\ IsSource(registered.definition, after)
               => TypeOf(before) = TypeOf(after),
           NEW change, change = [old |-> before, new |-> after]
    PROVE  /\ Delivered(u, change) = {} =>
                  /\ ~IsSource(registered.definition, before)
                  /\ ~IsSource(registered.definition, after)
           /\ \A entry : \A part \in Delivered(u, change) :
                  Updated(entry, part.old, part.new) = Updated(entry, before, after)
<1> DEFINE definition == registered.definition
           Source(object) == IsSource(definition, object)
<1>1. /\ u # Definition /\ u # Schema
  BY KeysDiffer
<1>2. ASSUME NEW object \in Value
      PROVE  (Weight(TypeOf(object)) > 0) <=> Source(object)
  <2>1. TypeOf(object) # DefinitionType
    BY ViewAssumption
  <2>2. object # None
    BY ViewAssumption
  <2> QED  BY <2>1, <2>2, WeightsAreEdges DEF EdgeTypes, SourceTypes, IsSource
<1>3. ~Source(None)
  BY DEF IsSource
<1>4. CASE before # None /\ after # None /\ TypeOf(before) # TypeOf(after)
  <2> DEFINE gone == [old |-> before, new |-> None]
             come == [old |-> None, new |-> after]
  <2>1. Parts(u, change) = <<gone, come>>
    BY <1>4 DEF Parts
  <2>2. /\ TypeOfChange(u, gone) = TypeOf(before) /\ TypeOfChange(u, come) = TypeOf(after)
    BY <1>1, <1>4 DEF TypeOfChange
  <2>3. /\ (Weight(TypeOfChange(u, gone)) > 0) <=> Source(before)
        /\ (Weight(TypeOfChange(u, come)) > 0) <=> Source(after)
        /\ ~(Source(before) /\ Source(after))
    BY <1>2, <1>4, <2>2 DEF Object
  <2> DEFINE eager == {i \in 1 .. 2 : Weight(TypeOfChange(u, <<gone, come>>[i])) > 0}
  <2>4. Delivered(u, change) = IF eager = {} THEN {} ELSE {<<gone, come>>[Min(eager)]}
    <3>1. DOMAIN Parts(u, change) = 1 .. 2
      BY <2>1
    <3> QED  BY <2>1, <3>1 DEF Delivered
  <2>5. CASE ~Source(before) /\ ~Source(after)
    <3>1. eager = {}
      BY <2>3, <2>5
    <3> QED  BY <2>4, <2>5, <3>1
  <2>6. CASE Source(before)
    <3>1. eager = {1}
      BY <2>3, <2>6
    <3>2. Delivered(u, change) = {gone}
      BY <2>4, <3>1 DEF Min
    <3>3. \A entry : Updated(entry, gone.old, gone.new) = Updated(entry, before, after)
      BY <1>3, <2>3, <2>6 DEF Updated, Mapped, Reduced, mapObject
    <3> HIDE DEF gone
    <3> QED  BY <3>2, <3>3
  <2>7. CASE Source(after)
    <3>1. eager = {2}
      BY <2>3, <2>7
    <3>2. Delivered(u, change) = {come}
      BY <2>4, <3>1 DEF Min
    <3>3. \A entry : Updated(entry, come.old, come.new) = Updated(entry, before, after)
      BY <1>3, <2>3, <2>7 DEF Updated, Mapped, Reduced, mapObject
    <3> HIDE DEF come
    <3> QED  BY <3>2, <3>3
  <2> QED  BY <2>5, <2>6, <2>7
<1>5. CASE ~(before # None /\ after # None /\ TypeOf(before) # TypeOf(after))
  <2> DEFINE object == IF after # None THEN after ELSE before
             eager == {i \in 1 .. 1 : Weight(TypeOfChange(u, change)) > 0}
  <2>1. Parts(u, change) = <<change>>
    BY <1>5 DEF Parts
  <2>2. object \in Value /\ TypeOfChange(u, change) = TypeOf(object)
    BY <1>1 DEF TypeOfChange, Object
  <2>3. Weight(TypeOfChange(u, change)) > 0 <=> Source(before) \/ Source(after)
    <3>1. CASE before # None /\ after # None
      BY <1>2, <1>5, <2>2, <3>1 DEF Object, IsSource
    <3>2. CASE before = None \/ after = None
      BY <1>2, <1>3, <2>2, <3>2 DEF Object
    <3> QED  BY <3>1, <3>2
  <2>4. Delivered(u, change) = IF eager = {} THEN {} ELSE {<<change>>[Min(eager)]}
    BY <2>1 DEF Delivered
  <2>5. CASE ~Source(before) /\ ~Source(after)
    <3>1. eager = {}
      BY <2>3, <2>5
    <3> QED  BY <2>4, <2>5, <3>1
  <2>6. CASE Source(before) \/ Source(after)
    <3>1. eager = {1}
      BY <2>3, <2>6
    <3>2. Delivered(u, change) = {change}
      BY <2>4, <3>1 DEF Min
    <3> QED  BY <2>6, <3>2
  <2> QED  BY <2>5, <2>6
<1> QED  BY <1>4, <1>5

\* The event of the last write takes a view that has seen the state before it to
\* the current one; if nothing of it is for the view there is nothing to do.
LEMMA EagerUpdateIsMade ==
    ASSUME IInv, exposed = {}, notified, registered.view,
           mViewStateNumber # 0, mViewStateNumber = stateNumber - 1,
           queue # <<>>, NEW event, event = LastEvent
    PROVE  /\ EagerlyUpdated(event) = MadeOf(objects)
           /\ EagerChanges(event) = {} => view = MadeOf(objects)
<1> DEFINE old == snapshot[stateNumber - 1]
<1>1. /\ IsLastWrite(event)
      /\ DOMAIN event \subseteq Uuid
      /\ \A u \in Uuid : KeepsType(u)
  <2>1. stateNumber \in Nat
    BY DEF IInv, Log
  <2> QED  BY <2>1 DEF IInv, Events, Eager
<1>2. /\ objects \in Stored /\ old \in Stored
      /\ view = MadeOf(old)
      /\ registered.definition = DefinitionOf(objects)
  BY ViewAssumption DEF IInv, Log, Table, Shown, DefinitionsAreRegistered, DefinitionOf
<1>3. old[Definition] = objects[Definition]
  BY <1>1, KeysDiffer DEF IsLastWrite
<1>4. ASSUME NEW u \in Uuid
      PROVE  /\ u \in EagerChanges(event) =>
                    LET part == CHOOSE p \in Delivered(u, event[u]) : TRUE
                    IN Updated(view[u], part.old, part.new) = MadeFor(objects[Definition], objects[u])
             /\ u \notin EagerChanges(event) => view[u] = MadeFor(objects[Definition], objects[u])
  <2>1. /\ view[u] = MadeFor(objects[Definition], old[u])
        /\ old[u] \in Object /\ objects[u] \in Object
        /\ objects[Definition] \in Function \cup {None}
    BY <1>2, <1>3, StoredTypes DEF MadeOf
  <2>2. Updated(view[u], old[u], objects[u]) = MadeFor(objects[Definition], objects[u])
    BY <1>2, <2>1, UpdatedIsMade DEF DefinitionOf
  <2>3. CASE u \notin DOMAIN event
    <3>1. objects[u] = old[u]
      BY <1>1, <2>3, KeysDiffer DEF IsLastWrite
    <3> QED  BY <2>1, <2>3, <3>1 DEF EagerChanges
  <2>4. CASE u \in DOMAIN event
    <3>1. /\ event[u] = [old |-> old[u], new |-> objects[u]]
          /\ old[u] # None \/ objects[u] # None
      BY <1>1, <2>4, KeysDiffer DEF IsLastWrite
    <3>2. CASE registered.definition = None
      <4>1. \A entry, before, after : Updated(entry, before, after) = entry
        BY <3>2 DEF Updated, IsSource
      <4> QED  BY <2>1, <2>2, <4>1
    <3>3. CASE registered.definition # None
      <4>1. IsSource(registered.definition, old[u]) /\ IsSource(registered.definition, objects[u])
                => TypeOf(old[u]) = TypeOf(objects[u])
        BY <1>1 DEF KeepsType
      <4>2. /\ Delivered(u, event[u]) = {} =>
                   /\ ~IsSource(registered.definition, old[u])
                   /\ ~IsSource(registered.definition, objects[u])
            /\ \A entry : \A part \in Delivered(u, event[u]) :
                   Updated(entry, part.old, part.new) = Updated(entry, old[u], objects[u])
        <5> HIDE DEF old
        <5> QED  BY <2>1, <3>1, <3>3, <4>1, PartsSuffice
      <4>3. CASE u \in EagerChanges(event)
        BY <2>2, <4>2, <4>3 DEF EagerChanges
      <4>4. CASE u \notin EagerChanges(event)
        <5>1. Updated(view[u], old[u], objects[u]) = view[u]
          BY <2>4, <4>2, <4>4 DEF EagerChanges, Updated
        <5> QED  BY <2>2, <4>4, <5>1
      <4> QED  BY <4>3, <4>4
    <3> QED  BY <3>2, <3>3
  <2> QED  BY <2>3, <2>4
<1>5. \A u \in Uuid : u \notin EagerChanges(event) => view[u] = MadeFor(objects[Definition], objects[u])
  BY <1>4
<1>6. EagerlyUpdated(event) = MadeOf(objects)
  BY <1>4 DEF EagerlyUpdated, MadeOf
<1>7. view = [u \in Uuid |-> view[u]]
  BY <1>2 DEF MadeOf
<1> QED  BY <1>5, <1>6, <1>7 DEF MadeOf

\* A change reaches the view only if somebody listens to it.
LEMMA EagerIsNotified ==
    ASSUME IInv, exposed = {}, NEW event, EagerChanges(event) # {}
    PROVE  notified
<1>1. PICK key \in DOMAIN event : Delivered(key, event[key]) # {}
  BY DEF EagerChanges
<1>2. \E i \in DOMAIN Parts(key, event[key]) :
          Weight(TypeOfChange(key, Parts(key, event[key])[i])) > 0
  BY <1>1 DEF Delivered
<1> QED  BY <1>2, WeightsAreEdges

-----------------------------------------------------------------------------
(***************************************************************************)
(* The inductive invariant.                                                *)
(***************************************************************************)
LEMMA NothingIsMade == MadeOf(NoObjects) = EmptyView
BY KeysDiffer DEF MadeOf, MadeFor, NoObjects, EmptyView, IsActive

LEMMA InitHolds == Init => IInv
<1> SUFFICES ASSUME Init PROVE IInv
  OBVIOUS
<1>1. /\ NoObjects \in Stored /\ objects \in Stored
      /\ \A key \in Key : NoObjects[key] = None
      /\ objects[Definition] = None /\ objects[Schema] = Extending
  BY KeysDiffer DEF Init, NoObjects, Stored, AnyContent, Object, Content
<1>2. Log
  <2>1. /\ stateNumber = 1 /\ objects = snapshot[1] /\ snapshot \in [0 .. MaxState -> Stored]
    <3>1. snapshot = [n \in 0 .. MaxState |-> IF n = 0 THEN NoObjects ELSE objects]
      BY DEF Init
    <3>2. 1 \in 0 .. MaxState
      BY ViewAssumption
    <3>3. stateNumber = 1
      BY DEF Init
    <3> QED  BY <1>1, <3>1, <3>2, <3>3
  <2>2. disk = [objects |-> objects, tag |-> 1, exposed |-> {}]
    BY DEF Init
  <2>3. disk.tag = 1 /\ disk.objects = objects /\ disk.exposed = {}
    BY <2>2
  <2> QED  BY <2>1, <2>2, <2>3, ViewAssumption DEF Log
<1>3. Schemas
  BY <1>1 DEF Init, Schemas, HasSchema, IsActive
<1>4. DefinitionsAreRegistered
  <2>1. registered = [view |-> TRUE, definition |-> None]
    BY <1>1, ViewAssumption DEF Init, RegisteredAtOpen, initSchemas, initViews, setSchema, Unregistered
  <2> QED  BY <1>1, <2>1, ViewAssumption DEF DefinitionsAreRegistered, IsActive
<1>5. Weights /\ Events /\ Eager
  <2>1. DOMAIN weight = {}
    BY DEF Init
  <2>2. queue = <<>> /\ notified = FALSE
    BY DEF Init
  <2>3. queue \in Seq(Event)
    BY <2>2
  <2> QED  BY <2>1, <2>2, <2>3 DEF Weights, Events, Eager
<1>6. Table /\ OnDisk
  <2>1. snapshot[0] = NoObjects
    BY ViewAssumption DEF Init
  <2>2. /\ viewTag = 0 /\ mViewStateNumber = 0 /\ stateNumber = 1 /\ disk.tag = 1
        /\ view = EmptyView /\ viewDisk = [view |-> EmptyView, tag |-> 0, exposed |-> {}]
    BY DEF Init
  <2> QED  BY <2>1, <2>2, NothingIsMade DEF Table, Shown, OnDisk
<1> QED  BY <1>2, <1>3, <1>4, <1>5, <1>6 DEF IInv

LEMMA SameEdges ==
    ASSUME UNCHANGED registered
    PROVE  EdgeTypes' = EdgeTypes
BY DEF EdgeTypes, SourceTypes

\* A full update from whatever state leaves the view at the current one; what is
\* up to date already stays as it is.
LEMMA UpdateViewKeeps ==
    ASSUME IInv, NEW desired \in Nat, updateView(desired),
           UNCHANGED <<mainVars, registered>>
    PROVE  /\ viewTag' \in Nat /\ mViewStateNumber' \in Nat
           /\ exposed = {} => Shown'
           /\ exposed = {} /\ (desired \in {0, stateNumber} \/ ~registered.view \/ ViewState' = stateNumber)
                  => mViewStateNumber' \in {0, stateNumber}
<1>1. stateNumber \in Nat /\ viewTag \in Nat /\ mViewStateNumber \in Nat
  BY DEF IInv, Log, Table
<1>2. CASE UpToDate(desired)
  <2>1. UNCHANGED <<view, viewTag, mViewStateNumber>>
    BY <1>2 DEF updateView
  <2>2. exposed = {} => Shown'
    BY <2>1 DEF IInv, Table, Shown, mainVars
  <2>3. ASSUME exposed = {}, desired \in {0, stateNumber} \/ ~registered.view \/ ViewState' = stateNumber
        PROVE  mViewStateNumber' \in {0, stateNumber}
    <3>1. mViewStateNumber \in 0 .. stateNumber /\ (~registered.view => mViewStateNumber = 0)
      BY <2>3 DEF IInv, Table, Shown
    <3>2. ViewState' = ViewState
      BY <2>1 DEF ViewState
    <3> QED  BY <1>1, <1>2, <2>1, <2>3, <3>1, <3>2 DEF UpToDate, ViewState
  <2> QED  BY <1>1, <2>1, <2>2, <2>3
<1>3. CASE ~UpToDate(desired)
  <2>1. view' = FullyUpdated /\ viewTag' = stateNumber /\ mViewStateNumber' = stateNumber
    BY <1>3 DEF updateView, SetView
  <2>2. registered.view
    BY <1>3 DEF UpToDate
  <2>3. exposed = {} => Shown'
    BY <1>1, <2>1, <2>2, FullUpdateIsMade DEF IInv, Log, Shown, mainVars
  <2> QED  BY <1>1, <2>1, <2>3
<1> QED  BY <1>2, <1>3

\* A step that leaves alone what is on disk, and the log.
LEMMA OnDiskIsKept ==
    ASSUME IInv, UNCHANGED <<viewDisk, stateNumber, snapshot>>
    PROVE  OnDisk'
BY DEF IInv, OnDisk

LEMMA ObjectsUpdatedKeeps ==
    ASSUME IInv, _q_objectsUpdated
    PROVE  IInv'
<1> DEFINE event == Head(queue)
<1>1. /\ queue # <<>> /\ queue' = Tail(queue)
      /\ UNCHANGED <<mainVars, registered, weight, notified, viewDisk>>
      /\ exposed' = exposed \cup Met("overtaking",
             Tail(queue) # <<>> /\ IsTakenForLast(event) /\ mViewStateNumber' # mViewStateNumber)
  BY DEF _q_objectsUpdated
<1>2. /\ queue \in Seq(Event) /\ queue' \in Seq(Event)
      /\ Len(queue') = Len(queue) - 1 /\ Len(queue) \in Nat
      /\ queue' # <<>> => LastEvent' = LastEvent
      /\ queue' = <<>> => Len(queue) = 1 /\ event = LastEvent
  <2>1. queue \in Seq(Event)
    BY DEF IInv, Events
  <2> HIDE DEF event
  <2>2. /\ Tail(queue) \in Seq(Event) /\ Len(Tail(queue)) = Len(queue) - 1
        /\ \A i \in 1 .. Len(queue) - 1 : Tail(queue)[i] = queue[i + 1]
        /\ Len(queue) \in Nat /\ Len(queue) > 0
    BY <1>1, <2>1
  <2>3. Tail(queue) # <<>> => Len(queue) - 1 \in 1 .. Len(queue) - 1
    BY <2>1, <2>2
  <2>4. Tail(queue) # <<>> => Tail(queue)[Len(queue) - 1] = queue[Len(queue)]
    BY <2>2, <2>3
  <2>5. Tail(queue) = <<>> => Len(queue) = 1
    <3>1. Tail(queue) = <<>> => Len(Tail(queue)) = 0
      OBVIOUS
    <3> QED  BY <2>2, <3>1
  <2> QED  BY <1>1, <2>1, <2>2, <2>4, <2>5 DEF LastEvent, event
<1>3. stateNumber \in Nat /\ stateNumber > 1
  BY <1>1 DEF IInv, Log, Events, IsLastWrite
<1>4. /\ exposed' = {} => exposed = {}
      /\ exposed' = {} /\ Tail(queue) # <<>> /\ IsTakenForLast(event) =>
             mViewStateNumber' = mViewStateNumber
      /\ exposed' \cap OfRegistry = exposed \cap OfRegistry
  BY <1>1 DEF Met, OfRegistry
<1>5. /\ viewTag' \in Nat /\ mViewStateNumber' \in Nat
      /\ exposed' = {} => Shown' /\ (notified => mViewStateNumber' \in {0, stateNumber})
  <2>1. CASE EagerChanges(event) = {}
    <3>1. updateViewStateNumber
      BY <2>1 DEF _q_objectsUpdated
    <3>2. IsTakenForLast(event)
      BY <2>1 DEF IsTakenForLast
    <3>3. viewTag' \in Nat /\ mViewStateNumber' \in Nat
      BY <1>3, <3>1 DEF updateViewStateNumber, IInv, Table
    <3>4. ASSUME exposed' = {}
          PROVE  Shown' /\ (notified => mViewStateNumber' \in {0, stateNumber})
      <4>1. exposed = {} /\ Shown
        BY <1>4, <3>4 DEF IInv, Table
      <4>2. CASE mViewStateNumber # 0 /\ \E type \in DOMAIN weight : weight[type] # 0
        <5>1. notified /\ registered.view
          BY <4>1, <4>2 DEF IInv, Weights, Shown
        <5>2. mViewStateNumber' = stateNumber /\ UNCHANGED <<view, viewTag>>
          BY <3>1, <4>2 DEF updateViewStateNumber
        <5>3. view = MadeOf(objects)
          <6>1. CASE mViewStateNumber = stateNumber
            BY <4>1, <4>2, <6>1 DEF IInv, Log, Shown
          <6>2. CASE mViewStateNumber # stateNumber
            <7>1. Tail(queue) = <<>>
              BY <1>4, <3>2, <3>4, <5>2, <6>2
            <7>2. Len(queue) = 1 /\ event = LastEvent
              BY <1>1, <1>2, <7>1
            <7>3. mViewStateNumber = stateNumber - 1
              <8>1. stateNumber - mViewStateNumber <= Len(queue)
                BY <4>1, <4>2, <5>1, <6>2 DEF IInv, Eager
              <8>2. mViewStateNumber \in 0 .. stateNumber
                BY <4>1 DEF Shown
              <8> QED  BY <1>3, <6>2, <7>2, <8>1, <8>2
            <7> QED  BY <1>1, <2>1, <4>1, <4>2, <5>1, <7>2, <7>3, EagerUpdateIsMade
          <6> QED  BY <6>1, <6>2
        <5>4. /\ snapshot' = snapshot /\ stateNumber' = stateNumber
              /\ objects = snapshot[stateNumber] /\ registered' = registered
          BY <1>1 DEF IInv, Log, mainVars
        <5>5. view' = MadeOf(snapshot'[mViewStateNumber'])
          BY <5>2, <5>3, <5>4
        <5> QED  BY <1>3, <4>1, <5>1, <5>2, <5>4, <5>5 DEF Shown
      <4>3. CASE ~(mViewStateNumber # 0 /\ \E type \in DOMAIN weight : weight[type] # 0)
        <5>1. UNCHANGED <<view, viewTag, mViewStateNumber>>
          BY <3>1, <4>3 DEF updateViewStateNumber
        <5>2. ASSUME notified, mViewStateNumber # 0 PROVE FALSE
          <6>1. DefinitionType \in DOMAIN weight /\ weight[DefinitionType] = 1
            BY <4>1, <5>2 DEF IInv, Weights, Shown, EdgeTypes
          <6> QED  BY <4>3, <5>2, <6>1
        <5> QED  BY <1>1, <4>1, <5>1, <5>2 DEF Shown, mainVars
      <4> QED  BY <4>2, <4>3
    <3> QED  BY <3>3, <3>4
  <2>2. CASE EagerChanges(event) # {}
    <3>1. updateEagerViews(event)
      BY <2>2 DEF _q_objectsUpdated
    <3>2. CASE ~registered.view
      <4>1. UNCHANGED <<view, viewTag, mViewStateNumber>>
        BY <3>1, <3>2 DEF updateEagerViews
      <4>2. Shown => Shown' /\ mViewStateNumber' = 0
        BY <1>1, <3>2, <4>1 DEF Shown, mainVars
      <4> QED  BY <1>4, <4>1, <4>2 DEF IInv, Table
    <3>3. CASE registered.view /\ mViewStateNumber # stateNumber - 1
      <4>1. updateView(stateNumber)
        BY <3>1, <3>3 DEF updateEagerViews, updateEagerView
      <4> HIDE DEF event
      <4> QED  BY <1>1, <1>3, <1>4, <4>1, UpdateViewKeeps
    <3>4. CASE registered.view /\ mViewStateNumber = stateNumber - 1
      <4>1. SetView(EagerlyUpdated(event))
        BY <3>1, <3>4 DEF updateEagerViews, updateEagerView
      <4>2. view' = EagerlyUpdated(event) /\ viewTag' = stateNumber /\ mViewStateNumber' = stateNumber
        BY <4>1 DEF SetView
      <4>3. ASSUME exposed' = {} PROVE Shown'
        <5>1. exposed = {} /\ Tail(queue) = <<>>
          BY <1>3, <1>4, <3>4, <4>2, <4>3 DEF IsTakenForLast
        <5>2. event = LastEvent /\ notified
          BY <1>1, <1>2, <2>2, <5>1, EagerIsNotified
        <5>3. view' = MadeOf(objects)
          BY <1>1, <1>3, <3>4, <4>2, <5>1, <5>2, EagerUpdateIsMade
        <5> QED  BY <1>1, <1>3, <3>4, <4>2, <5>3 DEF Shown, IInv, Log, mainVars
      <4> QED  BY <1>3, <4>2, <4>3
    <3> QED  BY <3>2, <3>3, <3>4
  <2> QED  BY <2>1, <2>2
<1>6. Log' /\ Schemas' /\ DefinitionsAreRegistered'
  BY <1>1, <1>4 DEF IInv, Log, Schemas, DefinitionsAreRegistered, mainVars
<1>7. Weights'
  BY <1>1, <1>4, SameEdges DEF IInv, Weights
<1>8. Events'
  <2>1. ASSUME queue' # <<>> PROVE IsLastWrite(LastEvent)'
    <3>1. IsLastWrite(LastEvent) /\ LastEvent' = LastEvent
      BY <1>1, <1>2, <2>1 DEF IInv, Events
    <3> QED  BY <1>1, <3>1 DEF IsLastWrite, mainVars
  <2> QED  BY <1>2, <2>1 DEF Events
<1>9. Eager'
  <2>1. stateNumber' = stateNumber /\ notified' = notified
    BY <1>1 DEF mainVars
  <2> QED  BY <1>5, <2>1 DEF Eager
<1>10. Table'
  BY <1>5 DEF Table
<1>11. OnDisk'
  BY <1>1, OnDiskIsKept DEF mainVars
<1> QED  BY <1>6, <1>7, <1>8, <1>9, <1>10, <1>11 DEF IInv

LEMMA NotificationKeeps ==
    ASSUME IInv,
           \/ \E from \in 0 .. MaxState : addNotification(from)
           \/ removeNotification
    PROVE  IInv'
<1>1. UNCHANGED <<mainVars, registered, queue, viewDisk>>
  BY DEF addNotification, removeNotification, viewVars
<1>2. /\ exposed' = {} => exposed = {}
      /\ exposed' \cap OfRegistry = exposed \cap OfRegistry
  BY DEF addNotification, removeNotification, Met, OfRegistry
<1>3. Log' /\ Schemas' /\ DefinitionsAreRegistered'
  BY <1>1, <1>2 DEF IInv, Log, Schemas, DefinitionsAreRegistered, mainVars
<1>4. Events' /\ OnDisk'
  <2>1. Events'
    BY <1>1 DEF IInv, Events, IsLastWrite, LastEvent, mainVars
  <2> QED  BY <1>1, <2>1, OnDiskIsKept DEF mainVars
<1>5. CASE \E from \in 0 .. MaxState : addNotification(from)
  <2>1. PICK from \in Nat : addNotification(from)
    BY <1>5
  <2>2. /\ updateView(from) /\ ~notified /\ notified' = TRUE /\ weight' = WeightWith(1)
        /\ exposed' = {} => ~registered.view \/ ViewState' = stateNumber
    BY <2>1 DEF addNotification, Met
  <2>3. Table' /\ (exposed' = {} => mViewStateNumber' \in {0, stateNumber})
    <3>1. UNCHANGED <<mainVars, registered>>
      BY <1>1
    <3> QED  BY <1>2, <2>2, <3>1, UpdateViewKeeps DEF Table
  <2>4. Eager'
    BY <1>1, <2>3 DEF Eager, mainVars
  <2>5. Weights'
    <3> SUFFICES ASSUME exposed' = {}
                 PROVE  /\ \A type \in DOMAIN weight' :
                               weight'[type] = IF type \in EdgeTypes' THEN 1 ELSE 0
                        /\ EdgeTypes' \subseteq DOMAIN weight'
      BY <2>2 DEF Weights
    <3>1. exposed = {}
      BY <1>2
    <3>2. \A type \in DOMAIN weight' :
              weight'[type] = Weight(type) + (IF type \in EdgeTypes THEN 1 ELSE 0)
      BY <2>2 DEF WeightWith
    <3>3. \A type : Weight(type) = 0
      BY <2>2, <3>1 DEF IInv, Weights, Weight
    <3>4. \A type \in DOMAIN weight' : weight'[type] = IF type \in EdgeTypes THEN 1 ELSE 0
      BY <3>2, <3>3
    <3>5. EdgeTypes \subseteq DOMAIN weight'
      BY <2>2 DEF WeightWith
    <3> QED  BY <1>1, <3>4, <3>5, SameEdges
  <2> QED  BY <1>3, <1>4, <2>3, <2>4, <2>5 DEF IInv
<1>6. CASE removeNotification
  <2>1. UNCHANGED viewVars /\ notified /\ notified' = FALSE /\ weight' = WeightWith(-1)
    BY <1>6 DEF removeNotification
  <2>2. Table'
    BY <1>1, <1>2, <2>1 DEF IInv, Table, Shown, mainVars, viewVars
  <2>3. Weights'
    <3> SUFFICES ASSUME exposed' = {}
                 PROVE  \A type \in DOMAIN weight' : weight'[type] = 0
      BY <2>1 DEF Weights
    <3>1. exposed = {}
      BY <1>2
    <3>2. \A type \in DOMAIN weight' :
              weight'[type] = Weight(type) + (IF type \in EdgeTypes THEN -1 ELSE 0)
      BY <2>1 DEF WeightWith
    <3>3. \A type : Weight(type) = IF type \in EdgeTypes THEN 1 ELSE 0
      BY <2>1, <3>1 DEF IInv, Weights, Weight
    <3> QED  BY <3>2, <3>3
  <2>4. Eager'
    BY <2>1 DEF Eager
  <2> QED  BY <1>3, <1>4, <2>2, <2>3, <2>4 DEF IInv
<1> QED  BY <1>5, <1>6

LEMMA QueryKeeps ==
    ASSUME IInv, queryObjects
    PROVE  IInv'
<1>1. updateView(0) /\ UNCHANGED <<mainVars, registered, eagerVars, viewDisk, exposed>>
  BY DEF queryObjects
<1>2. Table' /\ (exposed = {} => mViewStateNumber' \in {0, stateNumber})
  <2>1. UNCHANGED <<mainVars, registered>>
    BY <1>1
  <2> QED  BY <1>1, <2>1, UpdateViewKeeps DEF Table
<1>3. Log' /\ Schemas' /\ DefinitionsAreRegistered'
  BY <1>1 DEF IInv, Log, Schemas, DefinitionsAreRegistered, mainVars
<1>4. Weights'
  BY <1>1, SameEdges DEF IInv, Weights, eagerVars
<1>5. Events' /\ Eager'
  BY <1>1, <1>2 DEF IInv, Events, IsLastWrite, LastEvent, Eager, mainVars, eagerVars
<1>6. OnDisk'
  BY <1>1, OnDiskIsKept DEF mainVars
<1> QED  BY <1>2, <1>3, <1>4, <1>5, <1>6 DEF IInv

LEMMA SyncKeeps ==
    ASSUME IInv, SyncTable \/ SyncView
    PROVE  IInv'
<1>1. UNCHANGED <<objects, stateNumber, snapshot, registered, eagerVars, view, viewTag,
                  mViewStateNumber, exposed>>
  BY DEF SyncTable, SyncView, mainVars, viewVars
<1>2. Log' /\ Schemas'
  <2>1. CASE SyncTable
    <3>1. disk' = [objects |-> objects, tag |-> stateNumber, exposed |-> exposed \cap OfRegistry]
      BY <2>1 DEF SyncTable
    <3>2. /\ disk'.objects = objects /\ disk'.tag = stateNumber
          /\ disk'.exposed = exposed \cap OfRegistry
      BY <3>1
    <3> QED  BY <1>1, <3>1, <3>2 DEF IInv, Log, Schemas
  <2>2. CASE SyncView
    BY <1>1, <2>2 DEF IInv, Log, Schemas, SyncView, mainVars
  <2> QED  BY <2>1, <2>2
<1>3. DefinitionsAreRegistered'
  BY <1>1 DEF IInv, DefinitionsAreRegistered
<1>4. Weights'
  BY <1>1, SameEdges DEF IInv, Weights, eagerVars
<1>5. Events' /\ Eager'
  BY <1>1 DEF IInv, Events, IsLastWrite, LastEvent, Eager, KeepsType, eagerVars
<1>6. Table'
  BY <1>1 DEF IInv, Table, Shown
<1>7. OnDisk'
  <2>1. CASE SyncTable
    BY <1>1, <2>1, OnDiskIsKept DEF SyncTable, viewVars
  <2>2. CASE SyncView
    <3>1. viewDisk' = [view |-> view, tag |-> viewTag, exposed |-> exposed]
      BY <2>2 DEF SyncView
    <3>2. viewDisk'.view = view /\ viewDisk'.tag = viewTag /\ viewDisk'.exposed = exposed
      BY <3>1
    <3> QED  BY <1>1, <3>1, <3>2 DEF IInv, Table, Shown, OnDisk
  <2> QED  BY <2>1, <2>2
<1> QED  BY <1>2, <1>3, <1>4, <1>5, <1>6, <1>7 DEF IInv

LEMMA RestartKeeps ==
    ASSUME IInv, Restart
    PROVE  IInv'
<1>1. /\ disk' = disk
      /\ objects' = disk.objects /\ stateNumber' = disk.tag
      /\ snapshot' = [n \in DOMAIN snapshot |-> IF n <= disk.tag THEN snapshot[n] ELSE disk.objects]
      /\ registered' = RegisteredAtOpen(disk.objects)
      /\ queue' = <<>> /\ weight' = <<>> /\ notified' = FALSE
      /\ view' = viewDisk.view /\ viewTag' = viewDisk.tag /\ mViewStateNumber' = 0
      /\ exposed' = viewDisk'.exposed \cup disk.exposed
                        \cup Met("inactive", disk.objects[Definition] \in Inactive)
  BY DEF Restart
<1>2. /\ viewDisk'.view = viewDisk.view /\ viewDisk'.tag = viewDisk.tag
      /\ viewDisk'.exposed = viewDisk.exposed \cup Met("viewFirst", viewDisk.tag > disk.tag)
      /\ viewDisk' = [view |-> viewDisk'.view, tag |-> viewDisk'.tag, exposed |-> viewDisk'.exposed]
  <2>1. viewDisk = [view |-> viewDisk.view, tag |-> viewDisk.tag, exposed |-> viewDisk.exposed]
    BY DEF IInv, OnDisk
  <2>2. viewDisk' = [viewDisk EXCEPT !.exposed = @ \cup Met("viewFirst", viewDisk.tag > disk.tag)]
    BY DEF Restart
  <2>3. viewDisk' = [view |-> viewDisk.view, tag |-> viewDisk.tag,
                     exposed |-> viewDisk.exposed \cup Met("viewFirst", viewDisk.tag > disk.tag)]
    BY <2>1, <2>2
  <2> QED  BY <2>3
<1>3. /\ disk.objects \in Stored /\ disk.objects = snapshot[disk.tag]
      /\ disk.tag \in 1 .. MaxState /\ DOMAIN snapshot = 0 .. MaxState
      /\ \A n \in 0 .. MaxState : snapshot[n] \in Stored
  BY ViewAssumption DEF IInv, Log
<1>4. Log'
  <2>1. snapshot' \in [0 .. MaxState -> Stored]
    BY <1>1, <1>3
  <2>2. snapshot'[disk.tag] = disk.objects
    BY <1>1, <1>3, ViewAssumption
  <2>3. /\ disk = [objects |-> disk.objects, tag |-> disk.tag, exposed |-> disk.exposed]
        /\ disk.exposed \subseteq OfRegistry
    BY DEF IInv, Log
  <2>4. disk.tag \in Int
    BY <1>3, ViewAssumption
  <2> QED  BY <1>1, <1>3, <2>1, <2>2, <2>3, <2>4 DEF Log
<1>5. Schemas' /\ DefinitionsAreRegistered'
  <2>1. exposed' \cap OfRegistry = {} =>
            disk.exposed = {} /\ disk.objects[Definition] \notin Inactive
    BY <1>1 DEF IInv, Log, Met, OfRegistry
  <2>2. Schemas'
    BY <1>1, <2>1 DEF IInv, Schemas, HasSchema
  <2>3. ASSUME exposed' \cap OfRegistry = {}
        PROVE  registered' = [view |-> objects'[Schema] # None,
                              definition |-> IF IsActive(objects'[Definition])
                                             THEN objects'[Definition] ELSE None]
    <3>1. IsActive(disk.objects[Definition]) <=> disk.objects[Definition] # None
      BY <2>1, <2>3 DEF IsActive
    <3>2. disk.objects[Definition] # None => disk.objects[Schema] # None
      BY <2>1, <2>3, <3>1 DEF IInv, Schemas, HasSchema
    <3>3. RegisteredAtOpen(disk.objects)
              = [view |-> disk.objects[Schema] # None, definition |-> disk.objects[Definition]]
      BY <3>2 DEF RegisteredAtOpen, initSchemas, initViews, setSchema, createDefinition, Unregistered
    <3> QED  BY <1>1, <3>1, <3>3
  <2> QED  BY <2>2, <2>3 DEF DefinitionsAreRegistered
<1>6. Weights' /\ Events' /\ Eager'
  <2>1. DOMAIN weight' = {}
    BY <1>1
  <2>2. queue' = <<>> /\ notified' = FALSE
    BY <1>1
  <2>3. queue' \in Seq(Event)
    BY <2>2
  <2> QED  BY <2>1, <2>2, <2>3 DEF Weights, Events, Eager
<1>7. OnDisk' /\ Table'
  <2>1. viewDisk.tag \in Nat /\ disk.tag \in Nat
    BY <1>3, ViewAssumption DEF IInv, OnDisk
  <2>2. ASSUME viewDisk'.exposed = {}
        PROVE  viewDisk.tag \in 0 .. disk.tag /\ viewDisk.view = MadeOf(snapshot'[viewDisk.tag])
    <3>1. viewDisk.exposed = {} /\ ~(viewDisk.tag > disk.tag)
      BY <1>2, <2>2 DEF Met
    <3>2. viewDisk.tag \in 0 .. disk.tag /\ viewDisk.view = MadeOf(snapshot[viewDisk.tag])
      BY <2>1, <3>1 DEF IInv, OnDisk
    <3>3. snapshot'[viewDisk.tag] = snapshot[viewDisk.tag]
      BY <1>1, <1>3, <3>2, ViewAssumption
    <3> QED  BY <3>2, <3>3
  <2>3. OnDisk'
    BY <1>1, <1>2, <2>1, <2>2 DEF OnDisk
  <2>4. exposed' = {} => Shown'
    BY <1>1, <2>1, <2>2 DEF Shown
  <2> QED  BY <1>1, <2>1, <2>3, <2>4 DEF Table
<1> QED  BY <1>4, <1>5, <1>6, <1>7 DEF IInv

\* A batch is of objects that may be of a source type, or of one other.
LEMMA Batches ==
    ASSUME NEW batch \in Batch
    PROVE  /\ DOMAIN batch \subseteq Key /\ DOMAIN batch # {}
           /\ \A key \in DOMAIN batch : batch[key] \in Content(key) \cup {None}
           /\ \/ DOMAIN batch \subseteq Uuid
              \/ DOMAIN batch = {Definition}
              \/ DOMAIN batch = {Schema}
<1>1. CASE batch \in SourceBatch
  <2>1. PICK k \in 1 .. MaxBatch : \E keys \in kSubset(k, Uuid) : batch \in [keys -> Value \cup {None}]
    BY <1>1 DEF SourceBatch
  <2>2. PICK keys \in kSubset(k, Uuid) : batch \in [keys -> Value \cup {None}]
    BY <2>1
  <2>3. keys \subseteq Uuid /\ Cardinality(keys) = k
    BY DEF kSubset
  <2>4. keys # {}
    BY <2>3, FS_EmptySet
  <2>5. \A key \in keys : Content(key) = Value
    BY <2>3, KeysDiffer DEF Content
  <2> QED  BY <2>2, <2>3, <2>4, <2>5, KeysDiffer
<1>2. CASE batch \in OtherBatch
  <2>1. PICK key \in {Definition, Schema} : batch \in [{key} -> Content(key) \cup {None}]
    BY <1>2 DEF OtherBatch
  <2> QED  BY <2>1, KeysDiffer
<1> QED  BY <1>1, <1>2 DEF Batch

LEMMA WriteKeeps ==
    ASSUME IInv, NEW batch \in Batch, NEW visible \in BOOLEAN, updateObjects(batch, visible)
    PROVE  IInv'
<1> PICK event : event = [key \in DOMAIN batch |-> [old |-> objects[key], new |-> batch[key]]]
  OBVIOUS
<1>1. /\ stateNumber \in 1 .. MaxState /\ stateNumber < MaxState
      /\ stateNumber' = stateNumber + 1
      /\ queue' = Append(queue, event)
      /\ UNCHANGED <<disk, weight, notified>>
  BY DEF updateObjects, IInv, Log
<1>2. /\ \A key \in DOMAIN batch :
             /\ objects[key] # None \/ batch[key] # None
             /\ visible \/ (key = Schema /\ objects[key] = batch[key])
             /\ MayWrite(key, batch[key], visible)
      /\ exposed \subseteq exposed'
      /\ exposed' = {} =>
             /\ DOMAIN batch \subseteq Uuid \/ ~notified
             /\ notified => \A key \in DOMAIN batch : ~Retypes(key, batch[key])
      /\ exposed' \cap OfRegistry = {} => visible \/ registered.definition = None
  BY DEF updateObjects, Met, OfRegistry
<1>3. /\ objects' = [key \in Key |-> IF key \in DOMAIN batch THEN batch[key] ELSE objects[key]]
      /\ snapshot' = [n \in DOMAIN snapshot |-> IF n <= stateNumber THEN snapshot[n] ELSE objects']
  BY DEF updateObjects
<1>4. objects \in Stored /\ objects' \in Stored
  <2>1. objects \in Stored
    BY ViewAssumption DEF IInv, Log
  <2>2. \A key \in Key : objects'[key] \in Content(key) \cup {None}
    BY <1>3, <2>1, Batches DEF Stored
  <2>3. \A key \in Key : Content(key) \cup {None} \subseteq AnyContent
    BY DEF Content, Object, AnyContent
  <2> QED  BY <1>3, <2>1, <2>2, <2>3 DEF Stored
<1>5. /\ DOMAIN snapshot = 0 .. MaxState
      /\ \A n \in 0 .. stateNumber : snapshot'[n] = snapshot[n]
      /\ snapshot'[stateNumber'] = objects'
      /\ snapshot' \in [0 .. MaxState -> Stored]
  <2>1. snapshot \in [0 .. MaxState -> Stored] /\ MaxState \in Nat
    BY ViewAssumption DEF IInv, Log
  <2>2. stateNumber \in Nat /\ stateNumber' \in 0 .. MaxState
    BY <1>1, <2>1
  <2>3. DOMAIN snapshot = 0 .. MaxState /\ \A n \in 0 .. MaxState : snapshot[n] \in Stored
    BY <2>1
  <2>4. \A n \in 0 .. MaxState : snapshot'[n] = IF n <= stateNumber THEN snapshot[n] ELSE objects'
    BY <1>3, <2>3
  <2>5. snapshot'[stateNumber'] = objects'
    BY <1>1, <2>2, <2>4
  <2>6. \A n \in 0 .. stateNumber : snapshot'[n] = snapshot[n]
    BY <1>1, <2>1, <2>2, <2>4
  <2>7. snapshot' \in [0 .. MaxState -> Stored]
    BY <1>3, <1>4, <2>3
  <2> QED  BY <2>3, <2>5, <2>6, <2>7
<1>6. Log'
  <2>1. /\ disk.tag \in 1 .. stateNumber
        /\ disk = [objects |-> snapshot[disk.tag], tag |-> disk.tag, exposed |-> disk.exposed]
        /\ disk.exposed \subseteq OfRegistry
    BY DEF IInv, Log
  <2>2. MaxState \in Nat /\ stateNumber' \in 1 .. MaxState
    BY <1>1, ViewAssumption
  <2>3. snapshot'[disk.tag] = snapshot[disk.tag] /\ disk.tag \in 1 .. stateNumber'
    BY <1>1, <1>5, <2>1
  <2> QED  BY <1>1, <1>5, <2>1, <2>2, <2>3 DEF Log
<1>7. /\ exposed' \cap OfRegistry = {} =>
             /\ registered = [view |-> objects[Schema] # None, definition |-> DefinitionOf(objects)]
             /\ HasSchema(objects)
      /\ None \notin Function /\ Extending # None
  BY <1>2, ViewAssumption DEF IInv, DefinitionsAreRegistered, DefinitionOf, Schemas
<1>8. /\ DOMAIN batch \subseteq Uuid => registered' = registered
      /\ exposed' \cap OfRegistry = {} =>
             /\ HasSchema(objects')
             /\ registered' = [view |-> objects'[Schema] # None, definition |-> DefinitionOf(objects')]
  <2>1. PICK key \in DOMAIN batch :
            /\ DOMAIN batch \subseteq Uuid \/ key \notin Uuid
            /\ registered' = updateBuiltInTypes(key, batch[key])
    BY DEF updateObjects
  <2>2. CASE DOMAIN batch \subseteq Uuid
    <3>1. registered' = registered
      BY <2>1, <2>2, KeysDiffer DEF updateBuiltInTypes
    <3>2. objects'[Definition] = objects[Definition] /\ objects'[Schema] = objects[Schema]
      BY <1>3, <2>2, KeysDiffer
    <3> QED  BY <1>7, <3>1, <3>2 DEF HasSchema, DefinitionOf
  <2>3. CASE DOMAIN batch = {Definition}
    <3> SUFFICES ASSUME exposed' \cap OfRegistry = {}
                 PROVE  /\ HasSchema(objects')
                        /\ registered' = [view |-> objects'[Schema] # None,
                                          definition |-> DefinitionOf(objects')]
      BY <2>3, KeysDiffer
    <3>0. /\ registered = [view |-> objects[Schema] # None, definition |-> DefinitionOf(objects)]
          /\ registered.view <=> objects[Schema] # None
      <4>1. registered = [view |-> objects[Schema] # None, definition |-> DefinitionOf(objects)]
        BY <1>7
      <4> QED  BY ONLY <4>1
    <3>1. /\ objects'[Definition] = batch[Definition] /\ objects'[Schema] = objects[Schema]
          /\ batch[Definition] # None => registered.view
          /\ key = Definition
      BY <1>2, <1>3, <2>1, <2>3, KeysDiffer DEF MayWrite, validateDefinition
    <3>2. registered' = updateBuiltInTypes(Definition, batch[Definition])
      BY <2>1, <3>1
    <3>3. HasSchema(objects')
      BY <3>0, <3>1 DEF HasSchema, IsActive
    <3>4. CASE IsActive(batch[Definition])
      <4>1. registered' = [view |-> TRUE, definition |-> batch[Definition]]
        BY <1>7, <3>0, <3>1, <3>2, <3>4, KeysDiffer
           DEF updateBuiltInTypes, createDefinition, removeDefinition, IsActive
      <4>2. batch[Definition] # None /\ objects[Schema] # None
        BY <3>0, <3>1, <3>4 DEF IsActive
      <4>3. (objects'[Schema] # None) = TRUE /\ DefinitionOf(objects') = batch[Definition]
        BY <3>1, <3>4, <4>2 DEF DefinitionOf
      <4> QED  BY <3>3, <4>1, <4>3
    <3>5. CASE ~IsActive(batch[Definition])
      <4>1. registered' = [view |-> objects[Schema] # None, definition |-> None]
        BY <1>7, <3>0, <3>1, <3>2, <3>5, KeysDiffer
           DEF updateBuiltInTypes, removeDefinition, DefinitionOf, IsActive
      <4> QED  BY <2>3, <3>1, <3>3, <3>5, <4>1, KeysDiffer DEF DefinitionOf
    <3> QED  BY <3>4, <3>5
  <2>4. CASE DOMAIN batch = {Schema}
    <3> SUFFICES ASSUME exposed' \cap OfRegistry = {}
                 PROVE  /\ HasSchema(objects')
                        /\ registered' = [view |-> objects'[Schema] # None,
                                          definition |-> DefinitionOf(objects')]
      BY <2>4, KeysDiffer
    <3>1. /\ objects'[Schema] = batch[Schema] /\ objects'[Definition] = objects[Definition]
          /\ visible /\ objects[Schema] # None => checkCanRemoveSchema
          /\ ~visible => registered.definition = None
          /\ key = Schema
      BY <1>2, <1>3, <2>1, <2>4, KeysDiffer DEF MayWrite
    <3>2. registered' = updateBuiltInTypes(Schema, batch[Schema])
      BY <2>1, <3>1
    <3>3. ~IsActive(objects[Definition])
      BY <1>7, <3>1 DEF checkCanRemoveSchema, isActive, DefinitionOf, HasSchema, IsActive
    <3>4. registered' = [view |-> batch[Schema] # None, definition |-> None]
      <4>1. registered = [view |-> objects[Schema] # None, definition |-> None]
        BY <1>7, <3>3 DEF DefinitionOf
      <4>2. updateBuiltInTypes(Schema, batch[Schema])
                = IF batch[Schema] # None
                  THEN [(IF objects[Schema] # None THEN Unregistered ELSE registered)
                            EXCEPT !.view = TRUE]
                  ELSE IF objects[Schema] # None THEN Unregistered ELSE registered
        BY KeysDiffer DEF updateBuiltInTypes, removeSchema, setSchema
      <4>3. CASE batch[Schema] # None
        BY <3>2, <4>1, <4>2, <4>3 DEF Unregistered
      <4>4. CASE batch[Schema] = None
        BY <3>2, <4>1, <4>2, <4>4 DEF Unregistered
      <4> QED  BY <4>3, <4>4
    <3> QED  BY <2>4, <3>1, <3>3, <3>4, KeysDiffer DEF DefinitionOf, HasSchema
  <2> QED  BY <2>2, <2>3, <2>4, Batches
<1>9. Schemas' /\ DefinitionsAreRegistered'
  BY <1>1, <1>8 DEF IInv, Schemas, DefinitionsAreRegistered, DefinitionOf
<1>10. Weights'
  <2> SUFFICES ASSUME exposed' = {}
               PROVE  /\ notified' \in BOOLEAN
                      /\ \A type \in DOMAIN weight' :
                            weight'[type] = IF notified' /\ type \in EdgeTypes' THEN 1 ELSE 0
                      /\ notified' => EdgeTypes' \subseteq DOMAIN weight'
    BY DEF Weights
  <2>1. exposed = {}
    BY <1>2
  <2>2. CASE notified
    <3>1. EdgeTypes' = EdgeTypes
      BY <1>2, <1>8, <2>2, SameEdges
    <3> QED  BY <1>1, <2>1, <3>1 DEF IInv, Weights
  <2>3. CASE ~notified
    BY <1>1, <2>1, <2>3 DEF IInv, Weights
  <2> QED  BY <2>2, <2>3
<1>11. snapshot'[stateNumber' - 1] = objects /\ stateNumber' > 1
  BY <1>1, <1>5 DEF IInv, Log
<1>12. /\ queue \in Seq(Event) /\ queue' \in Seq(Event) /\ queue' # <<>>
       /\ Len(queue') = Len(queue) + 1 /\ Len(queue) \in Nat
       /\ LastEvent' = event
  <2>1. event \in Event
    <3>1. /\ DOMAIN batch \subseteq Key
          /\ \A key \in DOMAIN batch : batch[key] \in Content(key) \cup {None}
      BY Batches
    <3>2. \A key \in DOMAIN batch : objects[key] \in Content(key) \cup {None}
      BY <1>4, <3>1 DEF Stored
    <3>3. \A key \in Key : Content(key) \cup {None} \subseteq AnyContent
      BY DEF Content, Object, AnyContent
    <3>4. event \in [DOMAIN batch -> [old : AnyContent, new : AnyContent]]
      BY <3>1, <3>2, <3>3
    <3> QED  BY <3>1, <3>4 DEF Event
  <2>2. queue \in Seq(Event)
    BY DEF IInv, Events
  <2> HIDE DEF Event
  <2> QED  BY <1>1, <2>1, <2>2 DEF LastEvent
<1>13. Events'
  <2>1. DOMAIN event = DOMAIN batch /\ DOMAIN event \subseteq Key
    BY Batches
  <2>2. \A key \in DOMAIN event :
            /\ event[key] = [old |-> objects[key], new |-> objects'[key]]
            /\ event[key].old # None \/ event[key].new # None
    BY <1>2, <1>3, <2>1
  <2>3. \A key \in Key \ DOMAIN event : objects'[key] = objects[key]
    BY <1>3
  <2>4. IsLastWrite(event)'
    BY <1>11, <2>1, <2>2, <2>3 DEF IsLastWrite
  <2>5. IsLastWrite(LastEvent)'
    BY <1>12, <2>4 DEF IsLastWrite
  <2> QED  BY <1>12, <2>5 DEF Events
<1>14. Eager'
  <2> SUFFICES ASSUME exposed' = {}, notified', mViewStateNumber' \notin {0, stateNumber'}
               PROVE  /\ queue' # <<>>
                      /\ stateNumber' - mViewStateNumber' <= Len(queue')
                      /\ DOMAIN LastEvent' \subseteq Uuid
                      /\ \A u \in Uuid : KeepsType(u)'
    BY DEF Eager
  <2>1. exposed = {} /\ notified /\ DOMAIN batch \subseteq Uuid
    BY <1>1, <1>2
  <2>2. mViewStateNumber' = mViewStateNumber
    BY <2>1, KeysDiffer DEF updateObjects, viewVars
  <2>3. stateNumber - mViewStateNumber <= Len(queue) /\ mViewStateNumber \in Nat /\ stateNumber \in Nat
    <3>1. mViewStateNumber \in Nat /\ stateNumber \in Nat
      BY <1>1 DEF IInv, Table
    <3>2. CASE mViewStateNumber = stateNumber
      BY <1>12, <3>1, <3>2
    <3>3. CASE mViewStateNumber # stateNumber
      BY <2>1, <2>2, <3>1, <3>3 DEF IInv, Eager
    <3> QED  BY <3>1, <3>2, <3>3
  <2>4. stateNumber' - mViewStateNumber' <= Len(queue')
    BY <1>1, <1>12, <2>2, <2>3
  <2>5. LastEvent' = event /\ DOMAIN event = DOMAIN batch
    BY <1>12
  <2>6. ASSUME NEW u \in Uuid PROVE KeepsType(u)'
    <3>1. registered' = registered
      BY <1>8, <2>1
    <3>2. CASE u \in DOMAIN batch
      <4>1. objects'[u] = batch[u]
        BY <1>3, <3>2, KeysDiffer
      <4>2. IsSource(registered.definition, objects[u]) /\ IsSource(registered.definition, batch[u])
                => TypeOf(objects[u]) = TypeOf(batch[u])
        BY <1>2, <2>1, <3>2 DEF Retypes
      <4> QED  BY <1>11, <3>1, <4>1, <4>2 DEF KeepsType
    <3>3. CASE u \notin DOMAIN batch
      BY <1>3, <1>11, <3>3, KeysDiffer DEF KeepsType
    <3> QED  BY <3>2, <3>3
  <2> QED  BY <1>12, <2>1, <2>4, <2>5, <2>6
<1>15. Table' /\ OnDisk'
  <2>1. exposed' = {} => exposed = {}
    BY <1>2
  <2>2. /\ stateNumber \in Nat /\ viewTag \in Nat /\ mViewStateNumber \in Nat
        /\ viewDisk.tag \in Nat
        /\ viewDisk = [view |-> viewDisk.view, tag |-> viewDisk.tag, exposed |-> viewDisk.exposed]
    BY <1>1 DEF IInv, Table, OnDisk
  <2>3. CASE Schema \in DOMAIN batch /\ objects[Schema] # None
    <3>1. removeView(visible)
      BY <2>3 DEF updateObjects
    <3>2. viewTag' \in Nat /\ mViewStateNumber' = 0
      BY <2>2, <3>1 DEF removeView
    <3>3. exposed = {} => view' = MadeOf(snapshot[viewTag']) /\ viewTag' \in 0 .. stateNumber
      <4>1. CASE visible /\ ~UpToDate(0)
        BY <2>2, <3>1, <4>1, FullUpdateIsMade DEF removeView, IInv, Log
      <4>2. CASE ~(visible /\ ~UpToDate(0))
        BY <3>1, <4>2 DEF removeView, IInv, Table, Shown
      <4> QED  BY <4>1, <4>2
    <3>4. exposed = {} => view' = MadeOf(snapshot'[viewTag']) /\ viewTag' \in 0 .. stateNumber'
      BY <1>1, <1>5, <2>2, <3>2, <3>3
    <3>5. Table'
      BY <1>1, <2>1, <2>2, <3>2, <3>4 DEF Table, Shown
    <3>6. viewDisk' = [view |-> view', tag |-> viewTag', exposed |-> exposed]
      BY <3>1 DEF removeView
    <3>7. viewDisk'.view = view' /\ viewDisk'.tag = viewTag' /\ viewDisk'.exposed = exposed
      BY <3>6
    <3>8. OnDisk'
      BY <3>2, <3>4, <3>6, <3>7 DEF OnDisk
    <3> QED  BY <3>5, <3>8
  <2>4. CASE ~(Schema \in DOMAIN batch /\ objects[Schema] # None)
    <3>1. UNCHANGED viewVars
      BY <2>4 DEF updateObjects
    <3>2. Table'
      <4>1. viewTag' \in Nat /\ mViewStateNumber' \in Nat
        BY <2>2, <3>1 DEF viewVars
      <4>2. ASSUME exposed' = {} PROVE Shown'
        <5>1. exposed = {} /\ Shown
          BY <2>1, <4>2 DEF IInv, Table
        <5>2. /\ snapshot'[viewTag] = snapshot[viewTag]
              /\ snapshot'[mViewStateNumber] = snapshot[mViewStateNumber]
          BY <1>5, <5>1 DEF Shown
        <5>3. ~registered'.view => ~registered.view
          BY <1>3, <1>7, <1>8, <2>4, <4>2, KeysDiffer
        <5> QED  BY <1>1, <2>2, <3>1, <5>1, <5>2, <5>3 DEF Shown, viewVars
      <4> QED  BY <4>1, <4>2 DEF Table
    <3>3. OnDisk'
      <4>1. viewDisk' = viewDisk
        BY <3>1 DEF viewVars
      <4>2. ASSUME viewDisk.exposed = {}
            PROVE  /\ viewDisk.tag \in 0 .. stateNumber'
                   /\ viewDisk.view = MadeOf(snapshot'[viewDisk.tag])
        <5>1. viewDisk.tag \in 0 .. stateNumber /\ viewDisk.view = MadeOf(snapshot[viewDisk.tag])
          BY <4>2 DEF IInv, OnDisk
        <5>2. snapshot'[viewDisk.tag] = snapshot[viewDisk.tag]
          BY <1>5, <5>1
        <5> QED  BY <1>1, <2>2, <5>1, <5>2
      <4> QED  BY <2>2, <4>1, <4>2 DEF OnDisk
    <3> QED  BY <3>2, <3>3
  <2> QED  BY <2>3, <2>4
<1> QED  BY <1>6, <1>9, <1>10, <1>13, <1>14, <1>15 DEF IInv

LEMMA NextHolds ==
    ASSUME IInv, [Next]_vars
    PROVE  IInv'
<1>1. CASE \E batch \in Batch, visible \in BOOLEAN : updateObjects(batch, visible)
  BY <1>1, WriteKeeps
<1>2. CASE _q_objectsUpdated
  BY <1>2, ObjectsUpdatedKeeps
<1>3. CASE (\E from \in 0 .. MaxState : addNotification(from)) \/ removeNotification
  BY <1>3, NotificationKeeps
<1>4. CASE queryObjects
  BY <1>4, QueryKeeps
<1>5. CASE SyncTable \/ SyncView
  BY <1>5, SyncKeeps
<1>6. CASE Restart
  BY <1>6, RestartKeeps
<1>7. CASE UNCHANGED vars
  <2>1. UNCHANGED <<objects, stateNumber, snapshot, disk, registered, queue, weight, notified,
                    view, viewTag, viewDisk, mViewStateNumber, exposed>>
    BY <1>7 DEF vars, mainVars, eagerVars, viewVars
  <2>2. Log' /\ Schemas' /\ DefinitionsAreRegistered'
    BY <2>1 DEF IInv, Log, Schemas, DefinitionsAreRegistered
  <2>3. Weights'
    BY <2>1, SameEdges DEF IInv, Weights
  <2>4. Events' /\ Eager'
    BY <2>1 DEF IInv, Events, IsLastWrite, LastEvent, Eager, KeepsType
  <2>5. Table' /\ OnDisk'
    BY <2>1 DEF IInv, Table, Shown, OnDisk
  <2> QED  BY <2>2, <2>3, <2>4, <2>5 DEF IInv
<1> QED  BY <1>1, <1>2, <1>3, <1>4, <1>5, <1>6, <1>7 DEF Next

\* Whatever is written, queried, notified, synced and restarted: as long as none
\* of the situations was met, the view is what its definition makes of the state
\* it says it has seen; what is registered depends on two of them only.
THEOREM Invariance == Spec => []IInv
<1>1. Init => IInv
  BY InitHolds
<1>2. IInv /\ [Next]_vars => IInv'
  BY NextHolds
<1> QED  BY <1>1, <1>2, PTL DEF Spec

\* The view holds what its definition makes of the state it says it has seen,
\* however many events are queued: updateView() and the eager updates come to the
\* same, and the sums of a Reduce object stay what adding up the objects would
\* give.  Of two events in the queue, the first must not be taken for the last.
THEOREM ViewIsTrue == Spec => []ViewShowsItsState
<1>1. IInv => ViewShowsItsState
  <2> SUFFICES ASSUME IInv, exposed = {}, mViewStateNumber # 0
               PROVE  mViewStateNumber <= stateNumber /\ view = MadeOf(snapshot[mViewStateNumber])
    BY DEF ViewShowsItsState
  <2>1. Shown /\ stateNumber \in Nat
    BY DEF IInv, Table, Log
  <2> QED  BY <2>1 DEF Shown
<1> QED  BY <1>1, Invariance, PTL

\* What a restart finds in the view's table is of a state of the log, whichever
\* file was synced last and however the process ends, until a restart finds the
\* view ahead of the main table.
THEOREM RestartFindsItsState == Spec => []DurableViewIsOfItsTag
<1>1. IInv => DurableViewIsOfItsTag
  <2> SUFFICES ASSUME IInv, viewDisk.exposed = {}
               PROVE  viewDisk.tag <= stateNumber /\ viewDisk.view = MadeOf(snapshot[viewDisk.tag])
    BY DEF DurableViewIsOfItsTag
  <2>1. /\ viewDisk.tag \in 0 .. stateNumber /\ stateNumber \in Nat
        /\ viewDisk.view = MadeOf(snapshot[viewDisk.tag])
    BY DEF IInv, Log, OnDisk
  <2> QED  BY <2>1
<1> QED  BY <1>1, Invariance, PTL

\* What is registered in memory is what is stored, whether it was written since
\* the partition was opened or found then, also where the view itself lost an
\* update.
THEOREM RegistryIsTrue == Spec => []DefinitionsAreRegistered
<1>1. IInv => DefinitionsAreRegistered
  BY DEF IInv
<1> QED  BY <1>1, Invariance, PTL
=============================================================================
