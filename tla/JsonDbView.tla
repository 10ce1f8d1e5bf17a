----------------------------- MODULE JsonDbView -----------------------------
(***************************************************************************)
(* Views of src/partition.  A view is a table of its own, with a state     *)
(* number of its own, filled from the objects of the source types of its   *)
(* definition: a Map object emits an object for each of them, a Reduce     *)
(* object adds them up by their keys.  A query brings the view up to date  *)
(* first; a notification on the view makes it eager: it is then updated by *)
(* the event _q_objectsUpdated, which every write queues and the event     *)
(* loop delivers later.                                                    *)
(*                                                                         *)
(* A view exists while the Schema of its type is stored; what is stored of *)
(* schemas and definitions is registered in memory as it is written, and   *)
(* from the stored objects when the partition is opened.                   *)
(*                                                                         *)
(* The main table is reduced to its objects and the objects of every state *)
(* of its log: what changesSince() answers is ChangesBridge of the module  *)
(* JsonDbObjectTable.                                                      *)
(***************************************************************************)
EXTENDS Integers, Sequences, FiniteSetsExt

CONSTANTS
    Uuid,       \* the objects that may be of a source type
    Value,      \* their contents
    TypeOf(_),  \* the _type of a content
    KeyOf(_),   \* its source key, None if it has none
    Definition, \* the uuid of the Map or Reduce object
    Function,   \* its contents
    Sources(_), \* the source types of a content
    Reduce,     \* the contents that are Reduce objects, the others are Maps
    Inactive,   \* the contents whose active property is false
    Schema,     \* the uuid of the Schema of the view's type
    Extending,  \* its content
    None,       \* no object
    MaxState,   \* bound: the last state number
    MaxQueue,   \* bound: events queued at a time
    MaxBatch,   \* bound: objects written by one updateObjects() call
    MaxExposed  \* bound: the situations met when objects are still written

\* What makes the code lose an update, each by itself.  Nothing prevents them: they
\* are remembered in exposed when they are met.
Situation == {
    "overtaking",   \* a view is updated from an event while later ones are queued
    "redefinition", \* the definition or the Schema is written while there is a
                    \* notification on the view
    "resuming",     \* a notification makes a view eager that is not up to date
    "retyping",     \* an object of an eager view goes from one source type to another
    "viewFirst",    \* a restart finds a view that is ahead of the main table
    "inactive",     \* a restart finds a definition that is not active
    "replayed"}     \* the Schema is written again with the version it has

\* Those that tell on what is registered, and through that on what may be written.
OfRegistry == {"inactive", "replayed"}

\* The types of the definition, which always has an edge to the view, and of the
\* Schema, which never has one.
DefinitionType == "Map or Reduce"
SchemaType == "_schemaType"

ASSUME ViewAssumption ==
    /\ Definition \notin Uuid /\ Schema \notin Uuid \cup {Definition}
    /\ None \notin Value \cup Function \cup {Extending}
    /\ \A value \in Value : TypeOf(value) \notin {DefinitionType, SchemaType}
    /\ Reduce \subseteq Function /\ Inactive \subseteq Function
    /\ MaxState \in Nat \ {0} /\ MaxQueue \in Nat \ {0} /\ MaxBatch \in Nat \ {0}
    /\ MaxExposed \in Nat

Key == Uuid \cup {Definition, Schema}
Content(key) ==
    CASE key = Definition -> Function [] key = Schema -> {Extending} [] OTHER -> Value

VARIABLES
    objects,      \* the objects of the main table
    stateNumber,  \* its mStateNumber
    disk,         \* the main table a restart finds, what it was exposed to
    snapshot,     \* the objects of every state of the log
    registered,   \* whether mViews has the view, and the definition it has
    queue,        \* the events _q_objectsUpdated in the event queue
    weight,       \* mEagerViewSourceGraph: type -> weight of its edge to the view
    notified,     \* whether the notification on the view exists
    view,         \* what the view has of every source object
    viewTag,      \* mViewObjectTable->stateNumber()
    viewDisk,     \* the view's table a restart finds, what it was exposed to
    mViewStateNumber,
    exposed       \* history: the situations met that tell on what is in memory

mainVars == <<objects, stateNumber, disk, snapshot>>
eagerVars == <<queue, weight, notified>>
viewVars == <<view, viewTag, viewDisk, mViewStateNumber>>
vars == <<mainVars, registered, eagerVars, viewVars, exposed>>

-----------------------------------------------------------------------------
(***************************************************************************)
(* Mapping and reducing.                                                   *)
(***************************************************************************)
NoObjects == [key \in Key |-> None]
Nothing == <<>>

\* What the view has of a source object: what the Map emitted for it, and how
\* often it was added, less how often it was subtracted, under every key.
SourceKey == {KeyOf(value) : value \in Value} \ {None}
NoEntry == [emitted |-> Nothing, added |-> [pair \in SourceKey \X Value |-> 0]]
EmptyView == [u \in Uuid |-> NoEntry]

IsSource(definition, object) ==
    definition # None /\ object # None /\ TypeOf(object) \in Sources(definition)

\* JsonDbMapDefinition: mapObject() and viewObjectEmitted(), updateObject(),
\* which replaces what was emitted for the object, definitionRemoved().
mapObject(definition, object) ==
    IF IsSource(definition, object) THEN <<definition, object>> ELSE Nothing
Mapped(entry, definition, after) == [entry EXCEPT !.emitted = mapObject(definition, after)]
MapRemoved(entry) == [entry EXCEPT !.emitted = Nothing]

\* JsonDbReduceDefinition::addObject() adds or subtracts; an object without a key
\* is left out.
addObject(entry, key, object, times) ==
    IF key = None THEN entry ELSE [entry EXCEPT !.added[<<key, object>>] = @ + times]

\* Mutant of Reduced: a change of the key goes unnoticed.
SubtractsUnderNewKey(entry, definition, before, after) ==
    LET key == IF after # None THEN KeyOf(after) ELSE KeyOf(before)
        less == IF IsSource(definition, before)
                THEN addObject(entry, key, before, -1) ELSE entry
    IN IF IsSource(definition, after) THEN addObject(less, key, after, 1) ELSE less

\* JsonDbReduceDefinition: updateObject() subtracts under the key the object had
\* and adds under the one it has; definitionRemoved().
Reduced(entry, definition, before, after) ==
    LET less == IF IsSource(definition, before)
                THEN addObject(entry, KeyOf(before), before, -1) ELSE entry
    IN IF IsSource(definition, after) THEN addObject(less, KeyOf(after), after, 1) ELSE less
ReduceRemoved(entry) == [entry EXCEPT !.added = NoEntry.added]

\* updateViewOnChanges(): the definition the view has is told a change of its
\* source types.
Updated(entry, before, after) ==
    LET definition == registered.definition
    IN IF ~IsSource(definition, before) /\ ~IsSource(definition, after) THEN entry
       ELSE IF definition \in Reduce THEN Reduced(entry, definition, before, after)
       ELSE Mapped(entry, definition, after)

-----------------------------------------------------------------------------
(***************************************************************************)
(* The full update.                                                        *)
(***************************************************************************)
ViewState == IF mViewStateNumber # 0 THEN mViewStateNumber ELSE viewTag

\* changesSince(n): after a power loss a view may ask from a later state than
\* the table's.
Since(n) == IF n >= stateNumber THEN objects ELSE snapshot[n]
ChangedSince(n) == {key \in Key : Since(n)[key] # objects[key]}

IsActive(definition) == definition # None /\ definition \notin Inactive

\* definitionRemoved() of the definition the view was made by, definitionCreated()
\* of an active one.
Removed(entry, definition) ==
    CASE definition = None -> entry
      [] definition \in Reduce -> ReduceRemoved(entry)
      [] OTHER -> MapRemoved(entry)
Created(entry, definition, object) ==
    IF IsActive(definition) THEN Updated(entry, None, object) ELSE entry

\* Mutant of processUpdatedDefinitions: what a removed definition made is not
\* cleared.
KeepsRemovedDefinition(u) == Created(view[u], objects[Definition], objects[u])

processUpdatedDefinitions(u) ==
    Created(Removed(view[u], Since(ViewState)[Definition]), objects[Definition], objects[u])

\* The changes are then mapped one by one, unless the definition is new.
FullyUpdated ==
    [u \in Uuid |->
        IF Definition \in ChangedSince(ViewState) THEN processUpdatedDefinitions(u)
        ELSE IF u \in ChangedSince(ViewState)
        THEN Updated(view[u], Since(ViewState)[u], objects[u])
        ELSE view[u]]

UpToDate(desired) ==
    \/ ~registered.view
    \/ desired # 0 /\ ViewState >= desired
    \/ ViewState = stateNumber

SetView(content) ==
    /\ view' = content
    /\ viewTag' = stateNumber
    /\ mViewStateNumber' = stateNumber

updateView(desired) ==
    IF UpToDate(desired)
    THEN UNCHANGED <<view, viewTag, mViewStateNumber>>
    ELSE SetView(FullyUpdated)

-----------------------------------------------------------------------------
(***************************************************************************)
(* The eager update.                                                       *)
(***************************************************************************)
Weight(type) == IF type \in DOMAIN weight THEN weight[type] ELSE 0
TypeOfChange(key, change) ==
    CASE key = Definition -> DefinitionType
      [] key = Schema -> SchemaType
      [] OTHER -> TypeOf(IF change.new # None THEN change.new ELSE change.old)

\* A change of type is a removal from the one and a creation in the other.
Parts(key, change) ==
    IF key \in Uuid /\ change.old # None /\ change.new # None
          /\ TypeOf(change.old) # TypeOf(change.new)
    THEN <<[change EXCEPT !.new = None], [change EXCEPT !.old = None]>>
    ELSE <<change>>

\* Mutant of Delivered: the type is that of the new object, a removed one has none.
IgnoresRemovals(key, change) ==
    {part \in {Parts(key, change)[1]} :
        part.new # None /\ Weight(TypeOfChange(key, part)) > 0}

\* The first part of an eager type goes to the view, the rest does not.
Delivered(key, change) ==
    LET parts == Parts(key, change)
        eager == {i \in DOMAIN parts : Weight(TypeOfChange(key, parts[i])) > 0}
    IN IF eager = {} THEN {} ELSE {parts[Min(eager)]}

\* The changes of an event that go to the view.
EagerChanges(event) == {key \in DOMAIN event : Delivered(key, event[key]) # {}}

\* updateViewOnChanges() knows nothing of the changes of the definition.
EagerlyUpdated(event) ==
    [u \in Uuid |->
        IF u \in EagerChanges(event)
        THEN LET part == CHOOSE p \in Delivered(u, event[u]) : TRUE
             IN Updated(view[u], part.old, part.new)
        ELSE view[u]]

updateEagerView(event) ==
    IF mViewStateNumber # stateNumber - 1
    THEN updateView(stateNumber)
    ELSE SetView(EagerlyUpdated(event))

updateEagerViews(event) ==
    IF registered.view THEN updateEagerView(event)
    ELSE UNCHANGED <<view, viewTag, mViewStateNumber>>

\* updateEagerViewStateNumbers(), for events without changes for the view.
updateViewStateNumber ==
    /\ mViewStateNumber' =
           IF mViewStateNumber # 0 /\ \E type \in DOMAIN weight : weight[type] # 0
           THEN stateNumber ELSE mViewStateNumber
    /\ UNCHANGED <<view, viewTag>>

-----------------------------------------------------------------------------
(***************************************************************************)
(* Schemas and definitions.                                                *)
(***************************************************************************)
Unregistered == [view |-> FALSE, definition |-> None]
setSchema(known) == [known EXCEPT !.view = TRUE]
removeSchema(known) == Unregistered
createDefinition(known, definition) ==
    IF known.view THEN [known EXCEPT !.definition = definition] ELSE known
removeDefinition(known) == [known EXCEPT !.definition = None]

\* What is registered when the partition opens.  A definition makes its view
\* even without a Schema, and whether it is active or not.
initSchemas(all) == IF all[Schema] # None THEN setSchema(Unregistered) ELSE Unregistered
initViews(known, all) ==
    IF all[Definition] # None THEN createDefinition(setSchema(known), all[Definition]) ELSE known
RegisteredAtOpen(all) == initViews(initSchemas(all), all)

\* Mutant of updateBuiltInTypes: a definition that becomes inactive stays.
KeepsInactiveDefinition(key, new) ==
    CASE key = Schema ->
             LET left == IF objects[Schema] # None THEN removeSchema(registered) ELSE registered
             IN IF new # None THEN setSchema(left) ELSE left
      [] key = Definition ->
             LET left == IF objects[Definition] # None /\ new = None
                         THEN removeDefinition(registered) ELSE registered
             IN IF IsActive(new) THEN createDefinition(left, new) ELSE left
      [] OTHER -> registered

\* What is registered after an object was written, the old one removed first.
updateBuiltInTypes(key, new) ==
    CASE key = Schema ->
             LET left == IF objects[Schema] # None THEN removeSchema(registered) ELSE registered
             IN IF new # None THEN setSchema(left) ELSE left
      [] key = Definition ->
             LET left == IF objects[Definition] # None
                         THEN removeDefinition(registered) ELSE registered
             IN IF IsActive(new) THEN createDefinition(left, new) ELSE left
      [] OTHER -> registered

\* validateDefinition() of either class: a definition needs its view.
validateDefinition == registered.view

\* A Schema stays while its view has an active definition.
isActive == IsActive(registered.definition)
checkCanRemoveSchema == ~isActive

\* The checks of a visible write; writing an object again with the version it has
\* is not visible and not checked.
MayWrite(key, new, visible) ==
    CASE key = Definition -> new # None => validateDefinition
      [] key = Schema -> visible /\ objects[Schema] # None => checkCanRemoveSchema
      [] OTHER -> TRUE

\* removeView(): checkCanRemoveSchema() has brought the view up to date, its
\* table is synced and closed.
removeView(visible) ==
    /\ IF visible /\ ~UpToDate(0)
       THEN view' = FullyUpdated /\ viewTag' = stateNumber
       ELSE UNCHANGED <<view, viewTag>>
    /\ viewDisk' = [view |-> view', tag |-> viewTag', exposed |-> exposed]
    /\ mViewStateNumber' = 0

-----------------------------------------------------------------------------
(***************************************************************************)
(* Actions.                                                                *)
(***************************************************************************)
\* A new partition with the Schema of a view type and no other objects.
Init ==
    /\ objects = [NoObjects EXCEPT ![Schema] = Extending]
    /\ stateNumber = 1
    /\ disk = [objects |-> objects, tag |-> 1, exposed |-> {}]
    /\ snapshot = [n \in 0 .. MaxState |-> IF n = 0 THEN NoObjects ELSE objects]
    /\ registered = RegisteredAtOpen(objects)
    /\ queue = <<>>
    /\ weight = <<>>
    /\ notified = FALSE
    /\ view = EmptyView
    /\ viewTag = 0
    /\ viewDisk = [view |-> EmptyView, tag |-> 0, exposed |-> {}]
    /\ mViewStateNumber = 0
    /\ exposed = {}

Met(situation, isMet) == IF isMet THEN {situation} ELSE {}

Retypes(key, new) ==
    /\ key \in Uuid
    /\ IsSource(registered.definition, objects[key]) /\ IsSource(registered.definition, new)
    /\ TypeOf(objects[key]) # TypeOf(new)

\* updateObjects(): the batch is committed, its event is queued.
updateObjects(batch, visible) ==
    /\ stateNumber < MaxState
    /\ Len(queue) < MaxQueue
    /\ Cardinality(exposed) <= MaxExposed
    /\ \A key \in DOMAIN batch :
          /\ objects[key] # None \/ batch[key] # None
          /\ visible \/ (key = Schema /\ objects[key] = batch[key])
          /\ MayWrite(key, batch[key], visible)
    /\ objects' = [key \in Key |-> IF key \in DOMAIN batch THEN batch[key] ELSE objects[key]]
    /\ stateNumber' = stateNumber + 1
    /\ snapshot' = [n \in DOMAIN snapshot |->
                       IF n <= stateNumber THEN snapshot[n] ELSE objects']
    /\ \E key \in DOMAIN batch :
          /\ DOMAIN batch \subseteq Uuid \/ key \notin Uuid
          /\ registered' = updateBuiltInTypes(key, batch[key])
    /\ IF Schema \in DOMAIN batch /\ objects[Schema] # None
       THEN removeView(visible) ELSE UNCHANGED viewVars
    /\ queue' = Append(queue, [key \in DOMAIN batch |->
                                  [old |-> objects[key], new |-> batch[key]]])
    /\ exposed' = exposed
           \cup Met("redefinition", notified /\ ~(DOMAIN batch \subseteq Uuid))
           \cup Met("retyping", notified /\ \E key \in DOMAIN batch : Retypes(key, batch[key]))
           \cup Met("replayed", ~visible /\ registered.definition # None)
    /\ UNCHANGED <<disk, weight, notified>>

\* An event is taken for the last one: its changes are all the view lacks, or none
\* that it lacks are for the view.
IsTakenForLast(event) == EagerChanges(event) = {} \/ mViewStateNumber = stateNumber - 1

\* _q_objectsUpdated(), delivered by the event loop.
_q_objectsUpdated ==
    /\ queue # <<>>
    /\ queue' = Tail(queue)
    /\ IF EagerChanges(Head(queue)) = {} THEN updateViewStateNumber
       ELSE updateEagerViews(Head(queue))
    /\ exposed' = exposed \cup Met("overtaking",
           /\ Tail(queue) # <<>> /\ IsTakenForLast(Head(queue))
           /\ mViewStateNumber' # mViewStateNumber)
    /\ UNCHANGED <<mainVars, registered, weight, notified, viewDisk>>

\* The types with an edge to the view, none if there is no view.
SourceTypes ==
    IF registered.definition # None THEN Sources(registered.definition) ELSE {}
EdgeTypes == IF registered.view THEN {DefinitionType} \cup SourceTypes ELSE {}

\* updateEagerViewTypes(): the weights after the notification came or went.
WeightWith(increment) ==
    [type \in DOMAIN weight \cup EdgeTypes |->
        Weight(type) + (IF type \in EdgeTypes THEN increment ELSE 0)]

\* addNotification() with initialStateNumber from: 0 asks for the view's
\* objects now, the current number for none.  A full update is made on the way.
addNotification(from) ==
    /\ Cardinality(exposed) <= MaxExposed
    /\ ~notified
    /\ from <= stateNumber
    /\ notified' = TRUE
    /\ weight' = WeightWith(1)
    /\ updateView(from)
    /\ exposed' = exposed \cup Met("resuming",
           registered.view /\ ViewState' # stateNumber)
    /\ UNCHANGED <<mainVars, registered, queue, viewDisk>>

removeNotification ==
    /\ notified
    /\ notified' = FALSE
    /\ weight' = WeightWith(-1)
    /\ UNCHANGED <<mainVars, registered, queue, viewVars, exposed>>

\* A query of the view's type.
queryObjects ==
    /\ Cardinality(exposed) <= MaxExposed
    /\ updateView(0)
    /\ UNCHANGED <<mainVars, registered, eagerVars, viewDisk, exposed>>

SyncTable ==
    /\ disk' = [objects |-> objects, tag |-> stateNumber, exposed |-> exposed \cap OfRegistry]
    /\ UNCHANGED <<objects, stateNumber, snapshot, registered, eagerVars, viewVars, exposed>>

\* _q_indexSyncTimer and close() sync the views, close() before the main table.
SyncView ==
    /\ registered.view
    /\ viewDisk' = [view |-> view, tag |-> viewTag, exposed |-> exposed]
    /\ UNCHANGED <<mainVars, registered, eagerVars, view, viewTag, mViewStateNumber, exposed>>

\* The process ends, whether after close() or not, and the partition is opened
\* again: events and notifications are gone.
Restart ==
    /\ objects' = disk.objects
    /\ stateNumber' = disk.tag
    /\ snapshot' = [n \in DOMAIN snapshot |->
                       IF n <= disk.tag THEN snapshot[n] ELSE disk.objects]
    /\ registered' = RegisteredAtOpen(disk.objects)
    /\ queue' = <<>>
    /\ weight' = <<>>
    /\ notified' = FALSE
    /\ view' = viewDisk.view
    /\ viewTag' = viewDisk.tag
    /\ mViewStateNumber' = 0
    /\ viewDisk' = [viewDisk EXCEPT !.exposed = @ \cup Met("viewFirst", viewDisk.tag > disk.tag)]
    /\ exposed' = viewDisk'.exposed \cup disk.exposed
           \cup Met("inactive", disk.objects[Definition] \in Inactive)
    /\ UNCHANGED disk

\* Schemas and definitions are written by themselves.
SourceBatch ==
    UNION {[keys -> Value \cup {None}] : keys \in UNION {kSubset(k, Uuid) : k \in 1 .. MaxBatch}}
OtherBatch == UNION {[{key} -> Content(key) \cup {None}] : key \in {Definition, Schema}}
Batch == SourceBatch \cup OtherBatch

Next ==
    \/ \E batch \in Batch, visible \in BOOLEAN : updateObjects(batch, visible)
    \/ _q_objectsUpdated
    \/ \E from \in 0 .. MaxState : addNotification(from)
    \/ removeNotification
    \/ queryObjects
    \/ SyncTable
    \/ SyncView
    \/ Restart

\* The event loop delivers what is queued.
Spec == Init /\ [][Next]_vars /\ WF_vars(_q_objectsUpdated)

-----------------------------------------------------------------------------
(***************************************************************************)
(* Properties.                                                             *)
(***************************************************************************)
\* What an active definition makes of an object.
MadeFor(definition, object) ==
    IF ~IsActive(definition) \/ ~IsSource(definition, object) THEN NoEntry
    ELSE IF definition \in Reduce THEN addObject(NoEntry, KeyOf(object), object, 1)
    ELSE [NoEntry EXCEPT !.emitted = <<definition, object>>]

\* What the definition of a state makes of its objects.
MadeOf(all) == [u \in Uuid |-> MadeFor(all[Definition], all[u])]

\* "Updates the in-memory state numbers on each view so that we know it has
\* seen all relevant updates": unless one of the situations was met, the view
\* holds what its definition makes of the state it says it has seen, whether a
\* query or an event brought it there and whatever else is queued; what a Reduce
\* object subtracts and adds on the way comes to the same.
ViewShowsItsState ==
    exposed = {} /\ mViewStateNumber # 0 =>
        /\ mViewStateNumber <= stateNumber
        /\ view = MadeOf(snapshot[mViewStateNumber])

\* Whichever of the two files was synced last, the view's table on disk is what
\* its tag says of a state of the log, unless one of the situations was met
\* before it was synced.
DurableViewIsOfItsTag ==
    viewDisk.exposed = {} =>
        /\ viewDisk.tag <= stateNumber
        /\ viewDisk.view = MadeOf(snapshot[viewDisk.tag])

\* Schemas and definitions are registered as they are written, and anew when the
\* partition is opened: either way the view exists while its Schema is stored and
\* has the definition that is stored and active, whatever became of its objects;
\* only a definition that is not active and a repeated Schema may break it.
DefinitionsAreRegistered ==
    exposed \cap OfRegistry = {} =>
        registered = [view |-> objects[Schema] # None,
                      definition |-> IF IsActive(objects[Definition])
                                     THEN objects[Definition] ELSE None]

\* Whatever is written, the eager view follows once the event loop gets to the
\* events, without a query; several of them may be queued.
EagerViewCatchesUp ==
    (notified /\ registered.view) ~> (view = MadeOf(objects) \/ ~notified \/ exposed # {})
=============================================================================
