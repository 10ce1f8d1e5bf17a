------------------------- MODULE QJsonDbModelCache -------------------------
(***************************************************************************)
(* ModelCache: the pages of objects that a query model has in memory.      *)
(*                                                                         *)
(* A page covers count rows from row index on, with the objects it has by  *)
(* uuid, and the counter of its last use.  rows is the uuid of every row.  *)
(* In the code a page has 25 to 100 rows and a load at most 100.           *)
(***************************************************************************)
EXTENDS Integers, FiniteSets, Sequences, SequencesExt, FiniteSetsExt, Functions, TLC

CONSTANTS PageSize, MaxPages

ASSUME ModelCacheAssumption == PageSize \in Nat \ {0} /\ MaxPages \in Nat \ {0}

Undefined == 0      \* the object that a page has for a uuid it has not

maxItems == PageSize * MaxPages
chunkSize == 2 * PageSize
lowWaterMark == chunkSize \div 4

Page(index, count, objects, counter) ==
    [index |-> index, count |-> count, objects |-> objects, counter |-> counter]

Objects(page) == DOMAIN page.objects
WithObject(objects, uuid, object) == (uuid :> object) @@ objects
WithoutObject(objects, uuid) == [u \in DOMAIN objects \ {uuid} |-> objects[u]]

NextCounter(pages) == 1 + Max({0} \cup {pages[i].counter : i \in DOMAIN pages})
Used(pages, i) == [pages EXCEPT ![i].counter = NextCounter(pages)]

\* The counters tell which page was used last, no more.
Ranked(pages) ==
    LET counters == {pages[i].counter : i \in DOMAIN pages}
    IN [i \in DOMAIN pages |->
           [pages[i] EXCEPT !.counter = Cardinality({c \in counters : c <= pages[i].counter})]]

hasIndex(page, pos) == pos >= page.index /\ pos < page.index + page.count

\* 0 if there is none, otherwise the first.
findPage(pages, pos) == SelectInSeq(pages, LAMBDA page : hasIndex(page, pos))

dropLRUPages(pages, count) ==
    LET lru == {i \in DOMAIN pages :
                   \A j \in DOMAIN pages : j > i => pages[j].counter # pages[i].counter}
        dropped == {i \in lru :
                   Cardinality({j \in lru : pages[j].counter < pages[i].counter}) < count}
        kept == SetToSortSeq(DOMAIN pages \ dropped, <)
    IN [i \in DOMAIN kept |-> pages[kept[i]]]

splitPage(pages, i, rows) ==
    LET page == pages[i]
        half == page.index + page.count \div 2
        moved == {rows[r + 1] : r \in half..Min({page.index + page.count, Len(rows)}) - 1}
        ObjectOf(u) == IF u \in Objects(page) THEN page.objects[u] ELSE Undefined
        counter == NextCounter(pages)
    IN Append([pages EXCEPT ![i] =
                  Page(page.index, half - page.index, Restrict(page.objects, Objects(page) \ moved), counter)],
              Page(half, page.index + page.count - half, [u \in moved |-> ObjectOf(u)], counter))

\* Where the other pages go when a row comes or goes.
Shifted(pages, pos, by) ==
    [i \in DOMAIN pages |->
        IF pages[i].index > pos THEN [pages[i] EXCEPT !.index = @ + by] ELSE pages[i]]

InsertedAt(pages, i, pos, uuid, object) ==
    [pages EXCEPT ![i] = Page(@.index, @.count + 1, WithObject(@.objects, uuid, object), NextCounter(pages))]

insertObject(old, pos, uuid, object, rows) ==
    LET pages == IF old = <<>> THEN <<Page(pos, 0, <<>>, 1)>> ELSE old
        i == SelectInSeq(pages, LAMBDA p : pos >= p.index /\ pos <= p.index + p.count)
        shifted == Shifted(IF i = 0 THEN pages ELSE InsertedAt(pages, i, pos, uuid, object), pos, 1)
        split == splitPage(shifted, i, rows)
    IN IF i = 0 \/ shifted[i].count <= PageSize THEN shifted
       ELSE IF FoldSeq(LAMBDA p, n : p.count + n, 0, split) > maxItems THEN dropLRUPages(split, 1)
       ELSE split

updateObject(pages, uuid, object) ==
    LET i == SelectInSeq(pages, LAMBDA p : uuid \in Objects(p))
    IN IF i = 0 THEN pages ELSE Used([pages EXCEPT ![i].objects[uuid] = object], i)

removeObject(pages, pos, uuid) ==
    LET i == findPage(pages, pos)
    IN Shifted(IF i = 0 THEN pages
               ELSE Used([pages EXCEPT ![i].count = @ - 1, ![i].objects = WithoutObject(@, uuid)], i),
               pos, -1)

\* The objects of one load, for the rows from index on.
addObjects(old, index, rows, objects) ==
    LET count == Cardinality(DOMAIN objects)
        added == (count + PageSize - 1) \div PageSize
        pages == IF added + Len(old) > MaxPages THEN dropLRUPages(old, added + Len(old) - MaxPages) ELSE old
        UuidsOf(i) == {rows[r + 1] : r \in index + (i - 1) * PageSize
                                      ..Min({index + count, index + i * PageSize, Len(rows)}) - 1}
        ObjectOf(u) == IF u \in DOMAIN objects THEN objects[u] ELSE Undefined
    IN pages \o [i \in 1..added |->
                    Page(index + (i - 1) * PageSize, Cardinality(UuidsOf(i)),
                         [u \in UuidsOf(i) |-> ObjectOf(u)], NextCounter(pages) + i - 1)]

\* Where to read ahead of row pos; -1 for nowhere.
checkFor(pages, pos) ==
    IF pos < 0 \/ findPage(pages, pos) # 0 \/ findPage(pages, (pos \div PageSize) * PageSize) # 0
    THEN -1 ELSE (pos \div PageSize) * PageSize

findPrefetchIndex(pages, pos) ==
    LET page == pages[findPage(pages, pos)]
    IN IF findPage(pages, pos) = 0 THEN -1
       ELSE IF pos - page.index <= lowWaterMark THEN checkFor(pages, page.index - 1)
       ELSE IF page.index + page.count - pos <= lowWaterMark THEN checkFor(pages, page.index + page.count)
       ELSE -1

findChunkSize(pages, pos) ==
    LET behind == {pages[i].index : i \in {j \in DOMAIN pages : pages[j].index > pos}}
    IN IF behind # {} /\ pos + chunkSize > Min(behind) THEN Min(behind) - pos ELSE chunkSize

findIndexNSize(pos) == <<(pos \div PageSize) * PageSize, chunkSize>>
=============================================================================
