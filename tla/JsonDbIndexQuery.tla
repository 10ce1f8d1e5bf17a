--------------------------- MODULE JsonDbIndexQuery ---------------------------
(***************************************************************************)
(* Queries of a partition: how a query is compiled to an index with        *)
(* constraints and a residual query, how the index is walked, and the      *)
(* cache that says at which key of an index the answer to an earlier query *)
(* had reached an offset.                                                  *)
(*                                                                         *)
(* A value from 0 to 99 stands for a string: its tens are the part that    *)
(* fits the key of an index, so that 11 is longer than what an index keeps *)
(* of it, 10, and what "begins with" 10 are 10 .. 19.  A _uuid is a        *)
(* multiple of ten.  Number(n) stands for the number that is written n, if *)
(* n is a multiple of ten.                                                 *)
(***************************************************************************)
EXTENDS JsonDbQueryParser

CONSTANTS
    Uuid,               \* the objects
    Object,             \* what an object may be, functions from Property
    Property,           \* the properties of an object, "_type" is one
    PropertyType,       \* what their indexes hold, "string" or "number"
    ObjectTypes,        \* the types an index is restricted to, {} if it is not
    Asked,              \* the queries: the text, the owner and the bindings of each
    Query,              \* these, as they are understood
    Offset,             \* the offsets asked for
    Limit,              \* the limits asked for, -1 for none
    Readable,           \* the types of the objects each owner may read
    OffsetStride,       \* how many objects lie between cached offsets, 50
    offsetCacheSize,    \* how many offsets are cached for a query
    maxQueriesInOffsetCache,
    FirstTables,        \* the object tables to begin with
    FirstIndexes,       \* the sets of indexes to begin with
    MaxWrites,          \* bound: writes of objects and indexes
    Avoided             \* bound: the exposures left out, see Exposure

\* Queries and states in which the code gives up what is said of it below.
Exposure == {
    "truncated",        \* a value is longer than the key of the index it is looked up in
    "converted",        \* a value is not of the kind the index holds
    "unbound",          \* a condition on a variable that is not bound
    "unknown",          \* an operator there is not
    "chained",          \* a condition on what two joins lead to
    "mapped",           \* an order no index has, of objects that are mapped
    "uuidBound",        \* a descending query bounds the _uuid
    "negatedPattern",   \* the pattern of a !=~ is where the walk begins
    "typeDisjunction",  \* a disjunction of conditions on _type that are not all equalities
    "joinedType",       \* a condition on the _type of a joined object
    "restricted",       \* the index holds the objects of some types only
    "sortedSlice",      \* offset or limit and an order no index has
    "pastEnd",          \* the cached offset is the number of all objects
    "shared",           \* it was cached for another owner or other bindings
    "joined"}           \* it was cached before an object it depends on was written

Nil == [p \in Property |-> Undefined]
None == "none"

\* A query is what was asked and how it was understood: terms is a conjunction
\* of disjunctions; a term compares a property with a value, its own property or,
\* if join is not empty, one of the object that the properties join lead to.
Read(a) == [text |-> a.text, owner |-> a.owner] @@ parse(a.text, a.bindings)

ASSUME IndexQueryAssumption ==
    /\ Query = {q \in {Read(a) : a \in Asked} : q.ok}
    /\ Uuid \subseteq {10 * n : n \in 1..9}
    /\ "_type" \in Property /\ {"_uuid", None} \cap Property = {}
    /\ \A o \in Object : o["_type"] # Undefined
    /\ {OffsetStride, offsetCacheSize, maxQueriesInOffsetCache} \subseteq Nat \ {0}
    /\ MaxWrites \in Nat /\ Avoided \subseteq Exposure

VARIABLES
    objects,    \* the object table
    indexes,    \* the properties with an index, "_type" among them
    offsets,    \* mOffsetCache of each index
    writes      \* how often something was written

vars == <<objects, indexes, offsets, writes>>

NoKey == <<>>

\* Op(x): TLC computes x once.
Once(x, Op(_)) == CHOOSE y \in {Op(v) : v \in {x}} : TRUE

Short(v) == 10 * (v \div 10)
Stored == {k \in Uuid : objects[k] # Nil}
Field(k, p) == CASE p = "_uuid" -> k [] p \in Property -> objects[k][p] [] OTHER -> Undefined

-----------------------------------------------------------------------------
(***************************************************************************)
(* What a query means, JsonDbQuery.                                        *)
(***************************************************************************)
IsString(v) == v > Undefined
lessThan(a, b) == IsString(a) = IsString(b) /\ a < b
BeginsWith(v, value) == IsString(v) /\ Short(v) = value

\* term has an operator and a value or, for in and notIn, values.
Compare(v, term) ==
    LET value == term.value
    IN CASE term.op = "=" -> v = value
         [] term.op = "!=" -> v # value
         [] term.op = "<" -> lessThan(v, value)
         [] term.op = "<=" -> lessThan(v, value) \/ v = value
         [] term.op = ">" -> lessThan(value, v)
         [] term.op = ">=" -> lessThan(value, v) \/ v = value
         [] term.op = "exists" -> v # Undefined
         [] term.op = "notExists" -> v = Undefined
         [] term.op = "in" -> v \in term.values
         [] term.op = "notIn" -> v \notin term.values
         [] term.op \in {"=~", "startsWith"} -> BeginsWith(v, value)
         [] term.op = "!=~" -> ~BeginsWith(v, value)
         [] OTHER -> FALSE

Operators == {"=", "!=", "<", "<=", ">", ">=", "exists", "notExists", "in", "notIn", "=~", "!=~", "startsWith"}

\* Where the properties of a path lead; one that leads nowhere is passed over.
Joined(k, path) ==
    LET Step(u, p) == IF Field(u, p) \in Stored THEN Field(u, p) ELSE u
    IN FoldLeft(Step, k, path)

TermValue(k, term) == Field(Joined(k, term.join), term.property)

match(k, terms) ==
    \A i \in DOMAIN terms : \E j \in DOMAIN terms[i] : Compare(TermValue(k, terms[i][j]), terms[i][j])

isAscending(q) == q.order = <<>> \/ q.order[1].ascending

TermProperties(orTerm) == {orTerm[i].property : i \in DOMAIN orTerm}

findUnindexablePropertyNames(orTerm) ==
    {orTerm[i].property : i \in {j \in DOMAIN orTerm : \/ orTerm[j].op = "notExists"
                                                       \/ orTerm[j].property # orTerm[1].property}}

-----------------------------------------------------------------------------
(***************************************************************************)
(* The rows of an index, ordered by value and uuid.                        *)
(***************************************************************************)
HasIndex(p) == p = "_uuid" \/ p \in indexes

Number(n) == n - 200

\* A number becomes the string it is written as, and the other way round.
makeFieldValue(v, type) ==
    CASE v = Undefined -> Undefined
      [] type = "string" -> IF IsString(v) THEN v ELSE v + 200
      [] type = "number" -> IF ~IsString(v) THEN v ELSE IF Short(v) = v THEN Number(v) ELSE Undefined

truncateFieldValue(v, type) == IF type = "string" /\ IsString(v) THEN Short(v) ELSE v

\* The value that the index of a property has for v.
FieldValue(p, v) ==
    IF p = "_uuid" THEN v ELSE truncateFieldValue(makeFieldValue(v, PropertyType[p]), PropertyType[p])

Holds(p, o) == /\ o # Nil
               /\ p = "_uuid" \/ FieldValue(p, o[p]) # Undefined
               /\ p = "_uuid" \/ ObjectTypes[p] = {} \/ o["_type"] \in ObjectTypes[p]

Row(p, k) == <<FieldValue(p, Field(k, p)), k>>

Before(a, b) == a[1] < b[1] \/ (a[1] = b[1] /\ a[2] < b[2])

Rows(p, ascending) ==
    LET rows == SetToSortSeq({Row(p, k) : k \in {u \in Uuid : Holds(p, objects[u])}}, Before)
    IN IF ascending THEN rows ELSE Reverse(rows)

-----------------------------------------------------------------------------
(***************************************************************************)
(* The cache of offsets of one index, entries of a text.                   *)
(***************************************************************************)
Own(cache, text) == {e \in cache : e.text = text}

lowerBoundKey(cache, text, offset) ==
    LET below == {e \in Own(cache, text) : e.offset <= offset}
    IN {e \in below : offset > 0 /\ \A f \in below : f.offset <= e.offset}

\* A full cache first gives up every other offset.
EveryOther(entries) == {e \in entries : Cardinality({f \in entries : f.offset < e.offset}) % 2 = 0}

addOffsetToCache(cache, e) ==
    LET own == Own(cache, e.text)
    IN IF e.offset = 0 \/ \E f \in own : f.offset = e.offset THEN cache
       ELSE IF own = {}
       THEN (IF Cardinality({f.text : f \in cache}) >= maxQueriesInOffsetCache THEN {} ELSE cache) \cup {e}
       ELSE IF Cardinality(own) >= offsetCacheSize
       THEN (cache \ own) \cup EveryOther(own) \cup {e}
       ELSE cache \cup {e}

-----------------------------------------------------------------------------
(***************************************************************************)
(* Compiling a query.                                                      *)
(***************************************************************************)
Unindexable(q) == UNION {findUnindexablePropertyNames(q.terms[i]) : i \in DOMAIN q.terms}

\* The types that a condition on _type alone allows, a set of such sets.
TypesOf(orTerm) ==
    LET equal == {i \in DOMAIN orTerm : i = 1 \/ orTerm[i].op = "="}
    IN IF TermProperties(orTerm) # {"_type"} THEN {}
       ELSE IF orTerm[1].op = "=" THEN {{orTerm[i].value : i \in equal}}
       ELSE IF orTerm[1].op = "in" THEN {orTerm[1].values} ELSE {}

typeNames(q) ==
    LET Narrowed(known, orTerm) ==
            IF TypesOf(orTerm) = {} THEN known
            ELSE LET types == CHOOSE t \in TypesOf(orTerm) : TRUE
                 IN IF known \cap types = {} THEN types ELSE known \cap types
    IN FoldLeft(Narrowed, {}, q.terms)

Indexable(q, p) == HasIndex(p) /\ p \notin Unindexable(q)

OrderField(q) ==
    LET sorted == SelectSeq(q.order, LAMBDA o : Indexable(q, o.property))
    IN IF sorted = <<>> THEN None ELSE sorted[1].property

\* What becomes of the term of a join in the object itself.
\* A path of two joins is taken for the name of a property.
Exists(term) ==
    [term EXCEPT !.join = <<>>, !.op = "exists",
                 !.property = IF Len(term.join) = 1 THEN term.join[1] ELSE "a path"]

Residual(plan, orTerm) == [plan EXCEPT !.residual = Append(@, orTerm)]

\* compileOrQueryTerm(): the bounds are those of the last term that has one, and
\* the values the index has for them; those of the constraints are only cut short.
compileOrQueryTerm(plan, term) ==
    LET p == plan.property
        value == IF p = "_uuid" \/ term.op = "startsWith" THEN term.value
                 ELSE truncateFieldValue(term.value, PropertyType[p])
        isOne == term.op = "in" /\ Cardinality(term.values) = 1
        constraint == IF isOne THEN [op |-> "=", value |-> CHOOSE v \in term.values : TRUE, values |-> {}]
                      ELSE [op |-> term.op, value |-> value, values |-> term.values]
    IN [plan EXCEPT !.constraints = @ \cup {c \in {constraint} : c.op \in Operators},
                    !.min = IF term.op \in {">", ">=", "=", "=~", "!=~"} THEN FieldValue(p, value) ELSE @,
                    !.max = IF term.op \in {"<", "<=", "=", "=~", "!=~"} THEN FieldValue(p, value) ELSE @]

CompileOrTerm(q, plan, orTerm) ==
    LET term == orTerm[1]
        isJoin == term.join # <<>>
        own == IF isJoin THEN Exists(term) ELSE term
        joined == IF isJoin THEN Residual(plan, <<term>>) ELSE plan
        p == own.property
        chosen == IF plan.property = None /\ p # "_type" /\ Indexable(q, p)
                  THEN [joined EXCEPT !.property = p] ELSE joined
    IN IF Len(orTerm) # 1 THEN Residual(plan, orTerm)
       ELSE IF ~HasIndex(p) \/ plan.property \notin {None, p} THEN Residual(joined, <<own>>)
       ELSE IF chosen.property = p THEN compileOrQueryTerm(chosen, own)
       ELSE Residual(joined, orTerm)

\* Without an index for a term or the order the types or all objects are walked.
WithDefault(q, plan, types) ==
    LET onType == SelectSeq(q.terms, LAMBDA t : Len(t) = 1 /\ t[1].property = "_type")
    IN IF plan.property # None THEN plan
       ELSE IF types = {} THEN [plan EXCEPT !.property = "_uuid"]
       ELSE IF onType = <<>> THEN [plan EXCEPT !.property = "_type"]
       ELSE compileOrQueryTerm([plan EXCEPT !.property = "_type"], onType[1][1])

compileIndexQuery(q) ==
    LET field == OrderField(q)
        begun == [property |-> field, constraints |-> {}, min |-> Undefined, max |-> Undefined,
                  residual |-> <<>>, types |-> typeNames(q), ascending |-> isAscending(q),
                  order |-> SelectSeq(q.order, LAMBDA o : o.property # field)]
        compiled == FoldLeft(LAMBDA plan, orTerm : CompileOrTerm(q, plan, orTerm), begun, q.terms)
    IN WithDefault(q, compiled, typeNames(q))

-----------------------------------------------------------------------------
(***************************************************************************)
(* Walking the index.                                                      *)
(***************************************************************************)
Matches(plan, row) == \A c \in plan.constraints : Compare(row[1], c)

\* Mutant: a gap that an inequality leaves ends the walk.
WithoutInequality(plan) == \E c \in plan.constraints : c.op \in {"in", "notIn", "=~", "!=~", "startsWith"}

sparseMatchPossible(plan) == \E c \in plan.constraints : c.op \in {"!=", "in", "notIn", "=~", "!=~", "startsWith"}

IsResult(plan, row) ==
    /\ Matches(plan, row)
    /\ plan.types = {} \/ objects[row[2]]["_type"] \in plan.types
    /\ match(row[2], plan.residual)

\* seekToStart(): a descending walk of the _uuid with a bound is not to be.
seekToStart(plan, rows) ==
    LET reached == {i \in DOMAIN rows : rows[i][1] >= plan.min}
    IN IF plan.property = "_uuid"
       THEN IF plan.ascending
            THEN IF plan.min = Undefined THEN 1
                 ELSE IF plan.min \notin Uuid \/ reached = {} THEN 0 ELSE Min(reached)
            ELSE IF plan.max = Undefined THEN 1 ELSE IF plan.max \in Uuid THEN 0 ELSE Len(rows)
       ELSE IF plan.ascending /\ plan.min # Undefined /\ reached # {} THEN Min(reached) ELSE 1

\* The walk along rows, all of which lie ahead: the results, and the key of the
\* row visited last.  next() ends where a condition fails, first() does not.
Walk(plan, ahead) ==
    LET results == {i \in DOMAIN ahead : IsResult(plan, ahead[i])}
        ends == {i \in DOMAIN ahead : /\ ~sparseMatchPossible(plan) /\ ~Matches(plan, ahead[i])
                                      /\ \E j \in results : j < i}
        last == IF ends = {} THEN Len(ahead) ELSE Min(ends)
    IN [rows |-> SelectSeq(SubSeq(ahead, 1, last), LAMBDA row : IsResult(plan, row)),
        last |-> IF ahead = <<>> THEN NoKey ELSE ahead[last]]

First(plan, rows) ==
    LET start == seekToStart(plan, rows)
    IN Walk(plan, IF start = 0 THEN <<>> ELSE SubSeq(rows, start, Len(rows)))

\* seek(): only if the row with the key is a result itself.
Seek(plan, rows, key) ==
    LET at == {i \in DOMAIN rows : rows[i] = key /\ IsResult(plan, key)}
    IN Walk(plan, IF at = {} THEN <<>> ELSE SubSeq(rows, Min(at), Len(rows)))

\* The part of a sequence that an offset and a limit stand for.
Cut(s, offset, limit) ==
    SubSeq(s, offset + 1, IF limit = -1 THEN Len(s) ELSE Min({Len(s), offset + limit}))

isAllowed(q, row) == objects[row[2]]["_type"] \in Readable[q.owner]

\* Mutant: what the cached key skips is skipped again.
SkippedTwice(entry) == 0

Skipped(entry) == entry.offset

\* Where the walk begins, and at which offset: at a cached key that is a result
\* of the query, or at the start.
Begun(q, plan, rows, found) ==
    LET entry == CHOOSE e \in found : TRUE
        Skipping(walk) == IF walk.rows = <<>> THEN First(plan, rows) @@ [from |-> 0]
                          ELSE walk @@ [from |-> Skipped(entry)]
    IN IF found = {} \/ \E e \in found : e.key = NoKey THEN First(plan, rows) @@ [from |-> 0]
       ELSE Once(Seek(plan, rows, entry.key), Skipping)

\* What is returned of a walk past objects that may be read, and what the cache
\* learns: the keys on the way, and at last that of the row the walk ended at.
Ended(q, plan, cache, walk, readable, offset, limit) ==
    LET enough == IF limit = -1 THEN Len(readable) + 1
                  ELSE IF limit = 0 THEN 1 ELSE offset - walk.from + limit
        ranOut == enough > Len(readable)
        passed == IF ranOut THEN Len(readable) ELSE enough - 1
        Learnt(count, row, end) ==
            [text |-> q.text, offset |-> walk.from + count,
             key |-> IF plan.property = "_uuid" THEN NoKey ELSE row,
             end |-> end, by |-> q, at |-> writes]
        Passing(known, i) ==
            IF (walk.from + i - 1) % OffsetStride # 0 THEN known
            ELSE addOffsetToCache(known, Learnt(i - 1, readable[i], FALSE))
        last == IF ranOut THEN walk.last ELSE readable[enough]
    IN [rows |-> IF limit = 0 THEN <<>> ELSE Cut(readable, offset - walk.from, limit),
        cache |-> addOffsetToCache(FoldLeft(Passing, cache, [i \in 1..passed |-> i]),
                                   Learnt(passed, last, ranOut))]

doIndexQuery(q, plan, cache, offset, limit) ==
    LET Reading(walk) ==
            Once(SelectSeq(walk.rows, LAMBDA row : isAllowed(q, row)),
                 LAMBDA readable : Ended(q, plan, cache, walk, readable, offset, limit))
        Walking(rows) == Once(Begun(q, plan, rows, lowerBoundKey(cache, q.text, offset)), Reading)
    IN Once(Rows(plan.property, plan.ascending), Walking)

\* What becomes of an object in the answer: [= {key : path, ...}].
resultObject(q, k) ==
    LET Value(path) == Field(Joined(k, Front(path)), Last(path))
        Of(key) == CHOOSE i \in DOMAIN q.map : q.map[i][1] = key /\ \A j \in DOMAIN q.map : q.map[j][1] = key => j <= i
    IN [key \in {q.map[i][1] : i \in DOMAIN q.map} |-> Value(q.map[Of(key)][2])]

\* The property p of an object in the answer.
ResultField(q, k, p) ==
    IF q.map = <<>> THEN Field(k, p)
    ELSE IF p \in DOMAIN resultObject(q, k) THEN resultObject(q, k)[p] ELSE Undefined

\* sortValues(): what has no index is sorted when it has been cut out.
sortValues(q, plan, rows) ==
    LET p == plan.order[1].property
        Earlier(i, j) ==
            LET a == ResultField(q, rows[i][2], p) b == ResultField(q, rows[j][2], p)
            IN (IF plan.order[1].ascending THEN a < b ELSE a > b) \/ (a = b /\ i < j)
        places == SetToSortSeq(DOMAIN rows, Earlier)
    IN IF Len(plan.order) # 1 THEN rows ELSE [i \in DOMAIN rows |-> rows[places[i]]]

\* queryObjects(), with a cache: the objects returned and the cache afterwards.
queryObjects(q, plan, cache, offset, limit) ==
    LET Sorted(done) ==
            Once(sortValues(q, plan, done.rows),
                 LAMBDA rows : [objects |-> [i \in DOMAIN rows |-> rows[i][2]], cache |-> done.cache])
    IN Once(doIndexQuery(q, plan, cache, offset, limit), Sorted)

\* All of it, whatever was asked before.
Whole(q, plan) == queryObjects(q, plan, {}, 0, -1).objects

-----------------------------------------------------------------------------
IsLong(v) == Short(v) # v

\* The exposures of a query asked now with a plan.
Exposed(q, plan, offset, limit) ==
    LET terms == UNION {{q.terms[i][j] : j \in DOMAIN q.terms[i]} : i \in DOMAIN q.terms}
        used == lowerBoundKey(offsets[plan.property], q.text, offset)
        Long(k) == Field(k, plan.property) # Undefined /\ IsLong(Field(k, plan.property))
        Case(name, test) == IF test THEN {name} ELSE {}
        Converts(k, p) == makeFieldValue(Field(k, p), PropertyType[p]) # Field(k, p)
    IN UNION {
        Case("converted", plan.property # "_uuid" /\ \E k \in Stored : Converts(k, plan.property)),
        Case("unbound", \E t \in terms : t.op \notin {"exists", "notExists"} /\ t.value = Undefined),
        Case("unknown", \E t \in terms : t.op \notin Operators),
        Case("chained", \E t \in terms : Len(t.join) > 1),
        Case("mapped", plan.order # <<>> /\ q.map # <<>>),
        Case("truncated", plan.property # "_uuid" /\
            (\E k \in Stored : Long(k)) /\ (plan.constraints # {} \/ q.order # <<>>)),
        Case("uuidBound", plan.property = "_uuid" /\ ~plan.ascending /\ plan.max # Undefined),
        Case("negatedPattern", plan.ascending /\ \E c \in plan.constraints : c.op = "!=~"),
        Case("typeDisjunction", \E i \in DOMAIN q.terms :
            /\ TypesOf(q.terms[i]) # {} /\ Len(q.terms[i]) > 1
            /\ \E j \in DOMAIN q.terms[i] : q.terms[i][j].op # "="),
        Case("joinedType", \E t \in terms : t.join # <<>> /\ t.property = "_type"),
        Case("restricted", plan.property # "_uuid" /\ ObjectTypes[plan.property] # {}),
        Case("sortedSlice", plan.order # <<>> /\ (offset > 0 \/ limit # -1)),
        Case("pastEnd", \E e \in used : e.end),
        Case("shared", \E e \in used : e.by # q),
        Case("joined", \E e \in used : e.at # writes /\ \E t \in terms : t.join # <<>>)}

\* Not modelled: joins that lead nowhere, sorting where a property is missing or
\* is not of one kind.
IsDefined(q, plan) ==
    /\ \A i \in DOMAIN q.terms : \A j \in DOMAIN q.terms[i] : \A p \in Range(q.terms[i][j].join) :
        \A k \in Stored : Field(k, p) \in Stored \cup {Undefined}
    /\ plan.order # <<>> =>
        LET values == {ResultField(q, k, plan.order[1].property) : k \in Stored}
        IN Undefined \notin values /\ \A v, w \in values : IsString(v) = IsString(w)

-----------------------------------------------------------------------------
\* The partition is opened, with indexes by the Index objects that are there.
Init == /\ objects \in FirstTables
        /\ indexes \in FirstIndexes
        /\ offsets = [p \in Property \cup {"_uuid"} |-> {}]
        /\ writes = 0

IsIndexed(p, old, new) == Holds(p, old) \/ Holds(p, new)

\* deindexObject() and indexObject() of all indexes but that of the _uuid.
Update(k, o) ==
    /\ writes < MaxWrites /\ objects[k] # o
    /\ writes' = writes + 1
    /\ objects' = [objects EXCEPT ![k] = o]
    /\ offsets' = [p \in DOMAIN offsets |->
                     IF p \in indexes /\ IsIndexed(p, objects[k], o) THEN {} ELSE offsets[p]]
    /\ UNCHANGED indexes

\* An Index object is written, too: the index of types knows no offsets any more.
ChangeIndexes(p) ==
    /\ writes < MaxWrites
    /\ writes' = writes + 1
    /\ offsets' = [offsets EXCEPT ![p] = {}, !["_type"] = {}]
    /\ UNCHANGED objects

addIndex(p) == p \notin indexes /\ ChangeIndexes(p) /\ indexes' = indexes \cup {p}
removeIndex(p) == p \in indexes \ {"_type"} /\ ChangeIndexes(p) /\ indexes' = indexes \ {p}

\* A query that may be asked now, and its plan.
Askable(q, plan, offset, limit) ==
    IsDefined(q, plan) /\ Exposed(q, plan, offset, limit) \cap Avoided = {}

Ask(q, offset, limit) ==
    /\ UNCHANGED <<objects, indexes, writes>>
    /\ \E plan \in {compileIndexQuery(q)} :
        /\ Askable(q, plan, offset, limit)
        /\ offsets' = [offsets EXCEPT ![plan.property] = queryObjects(q, plan, @, offset, limit).cache]

Next == \/ \E k \in Uuid, o \in Object \cup {Nil} : Update(k, o)
        \/ \E p \in Property : addIndex(p) \/ removeIndex(p)
        \/ \E q \in Query, offset \in Offset, limit \in Limit : Ask(q, offset, limit)

Spec == Init /\ [][Next]_vars

-----------------------------------------------------------------------------
\* JsonDbPartition::queryObjects(): an offset and a limit cut their part out of
\* the whole answer, whatever was asked or written before, but for what is in
\* Avoided: pages that follow each other have every object once.
PagesAreSlices ==
    \A q \in Query : \E plan \in {compileIndexQuery(q)} : \E whole \in {Whole(q, plan)} :
        \A offset \in Offset, limit \in Limit :
            Askable(q, plan, offset, limit) =>
                queryObjects(q, plan, offsets[plan.property], offset, limit).objects
                    = Cut(whole, offset, limit)

\* The properties that an object may have to have to be found by a query: those
\* it is ordered by, joined by, and those a negative condition is about.
Needed(q) ==
    {q.order[i].property : i \in DOMAIN q.order} \cup
    UNION {{t.property : t \in {u \in Range(q.terms[i]) : u.op \in {"!=", "notIn", "!=~"}}}
           \cup UNION {Range(t.join) : t \in Range(q.terms[i])} : i \in DOMAIN q.terms}

\* JsonDbQuery::match() and the index agree: what a query returns is what matches
\* it and may be read, once each, whichever index it is compiled to; only objects
\* without a property it needs may be left out.  It is claimed of the queries
\* that run into none of the exposures in Avoided (Askable).
AnswersMatch ==
    \A q \in Query : \E plan \in {compileIndexQuery(q)} : Askable(q, plan, 0, -1) =>
        \E whole \in {Whole(q, plan)} :
            LET matching == {k \in Stored : match(k, q.terms) /\ isAllowed(q, <<0, k>>)}
            IN /\ Range(whole) \subseteq matching /\ Len(whole) = Cardinality(Range(whole))
               /\ {k \in matching : \A p \in Needed(q) : Field(k, p) # Undefined} \subseteq Range(whole)

\* Whether an index has the order or the answer is sorted: objects come in it.
AnswersAreOrdered ==
    \A q \in Query : \E plan \in {compileIndexQuery(q)} : Len(q.order) = 1 /\ Askable(q, plan, 0, -1) =>
        \E whole \in {Whole(q, plan)} :
            \A i, j \in DOMAIN whole : i < j =>
                LET a == Field(whole[i], q.order[1].property)
                    b == Field(whole[j], q.order[1].property)
                IN IF q.order[1].ascending THEN a <= b ELSE a >= b

\* A query that runs into no exposure is answered with what matches it, in the
\* order it asks for (compileIndexQuery() and JsonDbQuery::match()).
AnswersFit == AnswersMatch /\ AnswersAreOrdered
=============================================================================
