----------------------------- MODULE HBtreeTree -----------------------------
(***************************************************************************)
(* The B-tree of src/hbtree: search, put with page splits, del with        *)
(* rebalancing, and the cursors.  Which page number holds a node is left   *)
(* to HBtreePages: here a page is a value and a branch maps its keys to    *)
(* its child pages.  The bytes of a page are counted as the code counts    *)
(* them, because every split, move and merge depends on them.              *)
(*                                                                         *)
(* A page split or a rebalancing is one call, run to its end: the actions  *)
(* are the calls of a write transaction.                                   *)
(***************************************************************************)
EXTENDS Integers, Sequences, FiniteSets, FiniteSetsExt, SequencesExt, Functions

CONSTANTS
    Key,               \* the keys, positive integers in the order of the compare function
    Value,             \* the values
    KeySize(_),        \* the bytes of a key
    ValueSize(_),      \* the bytes of a value
    PageSize,          \* spec_.pageSize
    OverflowThreshold, \* spec_.overflowThreshold
    FillThreshold,     \* spec_.pageFillThreshold, in percent
    Preloads,          \* sequences of keys: what the file may hold at first
    Used,              \* bound: the keys the calls use
    MaxCalls,          \* bound: calls in one transaction
    Kept               \* bound: the history entries a commit may leave a page

ASSUME SizesAssumption ==
    /\ Key \subseteq Nat \ {0} /\ IsFiniteSet(Key)
    /\ PageSize \in Nat /\ OverflowThreshold \in Nat /\ FillThreshold \in 0 .. 100
    /\ \A k \in Key : KeySize(k) \in 1 .. 512
    /\ \A v \in Value : ValueSize(v) \in Nat
    /\ Preloads \subseteq Seq(Key)
    /\ Used \subseteq Key /\ MaxCalls \in Nat /\ Kept \subseteq 1 .. 2

VARIABLES
    tree,     \* the root page of the write transaction, or Empty
    calls,    \* how many calls the transaction has made
    contents  \* history variable: the entries the calls so far have left

vars == <<tree, calls, contents>>

-----------------------------------------------------------------------------
(***************************************************************************)
(* Pages.  In a leaf the entries are values, in a branch child pages.  hist*)
(* is the number of history entries; the key 0 is the empty key, which     *)
(* compares lower than every other.                                        *)
(***************************************************************************)
Empty == [kind |-> "empty"]
EmptyKey == 0

Page(kind, ents, hist) == [kind |-> kind, ents |-> ents, hist |-> hist, dirty |-> TRUE]

IsBranch(p) == p.kind = "branch"
Keys(p) == DOMAIN p.ents
FirstKey(p) == Min(Keys(p))
LastKey(p) == Max(Keys(p))
Below(p, k) == {j \in Keys(p) : j < k}
Above(p, k) == {j \in Keys(p) : j > k}

With(f, k, x) == [j \in DOMAIN f \cup {k} |-> IF j = k THEN x ELSE f[j]]
Without(f, k) == Restrict(f, DOMAIN f \ {k})

-----------------------------------------------------------------------------
(***************************************************************************)
(* Sizes in bytes.  A value over the threshold takes no bytes in its leaf; *)
(* a new entry also needs the space of one history entry, for the next     *)
(* time the page is touched.  Sizes are quint16 in the code.               *)
(***************************************************************************)
HistorySize == 12
UInt16(n) == n % 65536

Bytes(k) == IF k = EmptyKey THEN 0 ELSE KeySize(k)
Inline(v) == IF ValueSize(v) > OverflowThreshold THEN 0 ELSE ValueSize(v)

\* PageInfo and NodePage::Meta, then the history.
capacity(p) == PageSize - 28 - HistorySize * p.hist
\* The offset of an entry, its NodeHeader, its key and its value.
EntrySize(p, k) == 2 + 8 + Bytes(k) + IF IsBranch(p) THEN 0 ELSE Inline(p.ents[k])
spaceUsed(p) == MapThenSumSet(LAMBDA k : EntrySize(p, k), Keys(p))
spaceLeft(p) == UInt16(capacity(p) - spaceUsed(p))
\* spaceNeededForNode() for an entry that is in p, or for one that will be.
Needed(p, k) == EntrySize(p, k) + HistorySize
NeededFor(p, k, x) == Needed([p EXCEPT !.ents = (k :> x)], k)

\* pageFill(p) > spec_.pageFillThreshold
FilledEnough(p) == (capacity(p) - spaceLeft(p)) * 100 > FillThreshold * capacity(p)

-----------------------------------------------------------------------------
\* touchNodePage(): a clean page is copied and the original becomes the newest
\* entry of its history; without space for it the history is dropped.
touch(p) ==
    IF p.dirty THEN p
    ELSE [p EXCEPT !.dirty = TRUE, !.hist = IF spaceLeft(p) >= HistorySize THEN @ + 1 ELSE 0]

\* The child of branch p in which searchPageRoot() goes on for key k: the last
\* entry not above k (upperBound(k) - 1).
ChildKey(p, k) == Max({j \in Keys(p) : j <= k})
-----------------------------------------------------------------------------
(***************************************************************************)
(* put().                                                                  *)
(***************************************************************************)

\* The first entry that goes right when page p, with its new entry, is split: a
\* branch is split in the middle, the entries of a leaf go left until they take
\* half the capacity less half the overflow threshold.
SplitKey(p) ==
    IF IsBranch(p)
    THEN CHOOSE k \in Keys(p) : Cardinality(Below(p, k)) = Cardinality(Keys(p)) \div 2
    ELSE LET threshold == (capacity(p) \div 2) - (OverflowThreshold \div 2)
         IN  Min({k \in Keys(p) :
                     MapThenSumSet(LAMBDA j : Needed(p, j), Below(p, k)) >= threshold})

\* The outcome of an insertion in a page: the page, and its new right sibling.
Whole(p) == [page |-> p, splitKey |-> EmptyKey, right |-> Empty]

\* split(): page p, touched, and the entry that has no space in it.  The left
\* page keeps the history.
split(p, k, x) ==
    LET full == [p EXCEPT !.ents = With(@, k, x)]
        mid == SplitKey(full)
    IN  [page |-> [p EXCEPT !.ents = Restrict(full.ents, Below(full, mid))],
         splitKey |-> mid,
         right |-> Page(p.kind, Restrict(full.ents, {mid} \cup Above(full, mid)), 0)]

\* The separator of a split goes in the parent, which is split if that leaves
\* it no space.
AddSeparator(parent, r) ==
    IF r.right = Empty THEN Whole(parent)
    ELSE IF NeededFor(parent, r.splitKey, r.right) >= spaceLeft(parent)
         THEN split(parent, r.splitKey, r.right)
         ELSE Whole([parent EXCEPT !.ents = With(@, r.splitKey, r.right)])

RECURSIVE PutIn(_, _, _)
PutIn(clean, k, v) ==
    LET p == touch(clean)
    IN  IF IsBranch(p)
        THEN LET c == ChildKey(p, k)
                 r == PutIn(p.ents[c], k, v)
             IN  AddSeparator([p EXCEPT !.ents[c] = r.page], r)
        ELSE LET q == [p EXCEPT !.ents = Without(@, k)]
             IN  IF NeededFor(q, k, v) <= spaceLeft(q)
                 THEN Whole([q EXCEPT !.ents = With(@, k, v)])
                 ELSE split(q, k, v)

\* A root that was split gets a parent, in which it has the empty key.
PutTree(t, k, v) ==
    IF t = Empty THEN Page("leaf", (k :> v), 0)
    ELSE LET r == PutIn(t, k, v)
         IN  IF r.right = Empty THEN r.page
             ELSE AddSeparator(Page("branch", (EmptyKey :> r.page), 0), r).page

-----------------------------------------------------------------------------
(***************************************************************************)
(* del().                                                                  *)
(***************************************************************************)

\* The child c of branch b that is filled too little, and its neighbour n: the
\* right one for the first child, else the left one.
NeighbourKey(b, c) == IF c = FirstKey(b) THEN Min(Above(b, c)) ELSE Max(Below(b, c))

\* The separator of b in place of key old may grow by as much as b has space.
FitsInstead(b, new, old) == Bytes(new) > Bytes(old) => Bytes(new) - Bytes(old) <= spaceLeft(b)

\* Mutant of moveNode: the separators stay.
KeepsSeparators(b, c, n) ==
    LET src == touch(b.ents[n])
        k == IF n > c THEN FirstKey(src) ELSE LastKey(src)
    IN  [b EXCEPT !.ents[c].ents = With(@, k, src.ents[k]),
                  !.ents[n] = [src EXCEPT !.ents = Without(@, k)]]
\* moveNode(): one entry of the neighbour goes to the child, the separator of
\* the higher page changes with it.
moveNode(b, c, n) ==
    LET descending == n > c
        src == touch(b.ents[n])
        k == IF descending THEN FirstKey(src) ELSE LastKey(src)
        dst == [b.ents[c] EXCEPT !.ents = With(@, k, src.ents[k])]
        rest == [src EXCEPT !.ents = Without(@, k)]
        others == Restrict(b.ents, Keys(b) \ {c, n})
    IN  [b EXCEPT !.ents = others @@ IF descending THEN (c :> dst) @@ (FirstKey(rest) :> rest)
                                     ELSE (n :> rest) @@ (k :> dst)]

\* Mutant of mergePages: the higher separator stays.
KeepsHigherKey(b, from, to) ==
    LET dst == touch(b.ents[to])
        merged == [dst EXCEPT !.ents = b.ents[from].ents @@ @]
    IN  [b EXCEPT !.ents = With(Restrict(@, Keys(b) \ {from, to}), Max({from, to}), merged)]
\* mergePages(): all entries of the page with key from go to the one with key
\* to, which takes the lower of both keys.
mergePages(b, from, to) ==
    LET dst == touch(b.ents[to])
        merged == [dst EXCEPT !.ents = b.ents[from].ents @@ @]
    IN  [b EXCEPT !.ents = With(Restrict(@, Keys(b) \ {from, to}), Min({from, to}), merged)]

\* The conditions of rebalance().
CanMove(b, c, n) ==
    LET page == b.ents[c]
        neighbour == b.ents[n]
        k == IF n > c THEN FirstKey(neighbour) ELSE LastKey(neighbour)
    IN  /\ FilledEnough(neighbour)
        /\ Cardinality(Keys(neighbour)) > 2
        /\ NeededFor(page, k, neighbour.ents[k]) <= spaceLeft(page)
CanUpdate(b, c, n) ==
    IF n > c THEN FitsInstead(b, FirstKey(b.ents[n]), n) ELSE FitsInstead(b, LastKey(b.ents[n]), c)
CanMerge(b, from, to) ==
    spaceLeft(b.ents[to]) >= spaceUsed(b.ents[from]) + HistorySize * (b.ents[from].hist + 1)

\* A page after a removal, and whether rebalance() is to be called for it.
After(p, again) == [page |-> p, again |-> again]

\* rebalance() of child c of branch b.
RebalanceChild(b, c) ==
    LET n == NeighbourKey(b, c)
    IN  IF FilledEnough(b.ents[c]) THEN After(b, FALSE)
        ELSE IF CanMove(b, c, n) THEN After(IF CanUpdate(b, c, n) THEN moveNode(b, c, n) ELSE b, FALSE)
        ELSE IF c = FirstKey(b) /\ CanMerge(b, n, c) THEN After(mergePages(b, n, c), TRUE)
        ELSE IF CanMerge(b, c, n) THEN After(mergePages(b, c, n), TRUE)
        ELSE After(b, FALSE)

\* rebalance() of the root.
RebalanceRoot(p) ==
    IF FilledEnough(p) THEN p
    ELSE IF Keys(p) = {} THEN Empty
    ELSE IF IsBranch(p) /\ Cardinality(Keys(p)) = 1 THEN p.ents[FirstKey(p)]
    ELSE p

RECURSIVE DelIn(_, _)
DelIn(clean, k) ==
    LET p == touch(clean)
    IN  IF IsBranch(p)
        THEN LET c == ChildKey(p, k)
                 r == DelIn(p.ents[c], k)
                 b == [p EXCEPT !.ents[c] = r.page]
             IN  IF r.again THEN RebalanceChild(b, c) ELSE After(b, FALSE)
        ELSE After([p EXCEPT !.ents = Without(@, k)], k \in Keys(p))

DelTree(t, k) ==
    IF t = Empty THEN Empty
    ELSE LET r == DelIn(t, k) IN IF r.again THEN RebalanceRoot(r.page) ELSE r.page

-----------------------------------------------------------------------------
(***************************************************************************)
(* Cursors, on a tree that does not change between two of their moves.     *)
(***************************************************************************)
None == [none |-> TRUE]

\* Mutant of Sibling: only the parent of the leaf is asked.
SiblingInParent(stack, side) == IF stack = <<>> THEN None ELSE Last(stack)
\* The sibling of the leaf under the last of a stack of branch entries: up to
\* the first level that has one, then down along its near side.
Sibling(stack, side) ==
    LET up == {i \in DOMAIN stack : stack[i] # None}
        near(p) == p.ents[IF side = "right" THEN FirstKey(p) ELSE LastKey(p)]
        down[i \in 0 .. Len(stack)] == IF i = 0 THEN stack[Max(up)] ELSE near(down[i - 1])
    IN  IF up = {} THEN None ELSE down[Len(stack) - Max(up)]

\* The entry of branch p in which a search of a type goes on.
Chosen(p, type, k) ==
    CASE type = "first" -> FirstKey(p) [] type = "last" -> LastKey(p) [] OTHER -> ChildKey(p, k)

\* searchPageRoot() for a cursor: the leaf and its siblings.
RECURSIVE SearchIn(_, _, _, _, _)
SearchIn(p, type, k, leftQ, rightQ) ==
    IF ~IsBranch(p)
    THEN [leaf |-> p, left |-> Sibling(leftQ, "left"), right |-> Sibling(rightQ, "right")]
    ELSE LET c == Chosen(p, type, k)
             left == IF c = FirstKey(p) THEN None ELSE p.ents[Max(Below(p, c))]
             right == IF c = LastKey(p) THEN None ELSE p.ents[Min(Above(p, c))]
         IN  SearchIn(p.ents[c], type, k, Append(leftQ, left), Append(rightQ, right))
Search(type, k) == SearchIn(tree, type, k, <<>>, <<>>)
SearchKey(k) == Search("key", k)

\* The end of a leaf, as its first or last key; 0 when it has none.
NoKey == 0
FirstOf(p) == IF p = None \/ Keys(p) = {} THEN NoKey ELSE FirstKey(p)
LastOf(p) == IF p = None \/ Keys(p) = {} THEN NoKey ELSE LastKey(p)

cursorFirst == IF tree = Empty THEN NoKey ELSE FirstOf(Search("first", NoKey).leaf)
cursorLast == IF tree = Empty THEN NoKey ELSE LastOf(Search("last", NoKey).leaf)

\* Next of a cursor at key k, which may have been deleted meanwhile.
cursorNext(k) ==
    IF tree = Empty THEN NoKey
    ELSE LET s == SearchKey(k) IN
         IF Above(s.leaf, k) # {} THEN Min(Above(s.leaf, k)) ELSE FirstOf(s.right)
cursorPrev(k) ==
    IF tree = Empty THEN NoKey
    ELSE LET s == SearchKey(k) IN
         IF Below(s.leaf, k) # {} THEN Max(Below(s.leaf, k)) ELSE LastOf(s.left)

\* The fuzzy matches of cursorSet().
EqualOrGreater(k) ==
    IF tree = Empty THEN NoKey
    ELSE LET s == SearchKey(k)
             found == {j \in Keys(s.leaf) : j >= k}
         IN  IF found # {} THEN Min(found)
             ELSE IF s.right # None /\ \E j \in Keys(s.right) : j >= k
                  THEN Min({j \in Keys(s.right) : j >= k}) ELSE NoKey
EqualOrLess(k) ==
    IF tree # Empty /\ k \in Keys(SearchKey(k).leaf) THEN k ELSE cursorPrev(k)

\* The values get() finds: none, or one.
get(k) ==
    IF tree = Empty THEN {}
    ELSE LET leaf == SearchKey(k).leaf IN IF k \in Keys(leaf) THEN {leaf.ents[k]} ELSE {}

-----------------------------------------------------------------------------
\* collectHistory() leaves a page `kept' history entries: the newest since the
\* last sync and the newest before it.
KeptHistory(p, kept) == Min({p.hist, kept})

\* commit() writes the dirty pages.
RECURSIVE Written(_, _)
Written(p, kept) ==
    IF p = Empty \/ ~p.dirty THEN p
    ELSE [p EXCEPT !.dirty = FALSE, !.hist = KeptHistory(p, kept),
                   !.ents = IF IsBranch(p) THEN [k \in Keys(p) |-> Written(p.ents[k], kept)] ELSE @]

\* The files the calls start with: the keys of a preload, each put with the
\* same value and committed in turn.
Loaded(preload, v) == FoldLeft(LAMBDA t, k : Written(PutTree(t, k, v), 1), Empty, preload)

Init ==
    /\ calls = 0
    /\ \E preload \in Preloads, v \in Value :
        /\ contents = [k \in Range(preload) |-> v]
        /\ tree = Loaded(preload, v)

Call == calls < MaxCalls /\ calls' = calls + 1

Put(k, v) ==
    /\ Call
    /\ tree' = PutTree(tree, k, v)
    /\ contents' = With(contents, k, v)

Del(k) ==
    /\ Call
    /\ tree' = DelTree(tree, k)
    /\ contents' = Without(contents, k)

Commit(kept) ==
    /\ calls > 0
    /\ tree' = Written(tree, kept)
    /\ calls' = 0
    /\ UNCHANGED contents

Next ==
    \/ \E k \in Used, v \in Value : Put(k, v)
    \/ \E k \in Used : Del(k)
    \/ \E kept \in Kept : Commit(kept)

Spec == Init /\ [][Next]_vars
-----------------------------------------------------------------------------
(***************************************************************************)
(* Properties.                                                             *)
(***************************************************************************)
RECURSIVE PagesUnder(_)
PagesUnder(p) ==
    IF p = Empty THEN {}
    ELSE {p} \cup IF IsBranch(p) THEN UNION {PagesUnder(p.ents[k]) : k \in Keys(p)} ELSE {}

RECURSIVE Depth(_)
Depth(p) == IF IsBranch(p) THEN 1 + Depth(p.ents[FirstKey(p)]) ELSE 0

\* get() finds what the last put() of the key stored, whatever splits, moves
\* and merges happened since, and nothing after a del().
FindsWhatWasPut ==
    \A k \in Key : get(k) = IF k \in DOMAIN contents THEN {contents[k]} ELSE {}

\* The entries of a page and its history fit in the page.
PagesFit == \A p \in PagesUnder(tree) : spaceUsed(p) <= capacity(p)

\* The keys of p and of the pages under it are where a search looks for them.
RECURSIVE Routed(_, _, _)
Routed(p, low, high) ==
    /\ \A k \in Keys(p) : low <= k /\ k < high
    /\ IsBranch(p) =>
        /\ FirstKey(p) = low
        /\ \A k \in Keys(p) :
              Routed(p.ents[k], k, IF k = LastKey(p) THEN high ELSE Min(Above(p, k)))

\* All leaves are at one depth, no leaf is empty, and every branch has two
\* children: what searchPageRoot(), rebalance() and the cursors assert.
Balanced ==
    \A p \in PagesUnder(tree) :
        /\ Keys(p) # {}
        /\ IsBranch(p) =>
            /\ Cardinality(Keys(p)) > 1
            /\ \A k \in Keys(p) : Depth(p.ents[k]) = Depth(p.ents[FirstKey(p)])

\* Every page a search goes through has an entry not above any key it may be
\* searched for (upperBound(k) - 1 exists), in a tree of one depth: the first
\* key of a branch is the key it has in its parent, and no key of a page is
\* below that.
SearchesAreRouted == Balanced /\ (tree # Empty => Routed(tree, EmptyKey, Max(Key) + 1))

\* verifyIntegrity() and the assertions of the tree: no page overflows and every
\* search is led to the page that may hold its key.
TreeIsSound == PagesFit /\ SearchesAreRouted

\* The cursors reach, from any key, present or deleted, the next and the
\* previous key of the whole tree, over the boundaries of leaves and branches.
LeastOf(S) == IF S = {} THEN NoKey ELSE Min(S)
GreatestOf(S) == IF S = {} THEN NoKey ELSE Max(S)
CursorsAgree ==
    /\ cursorFirst = LeastOf(DOMAIN contents)
    /\ cursorLast = GreatestOf(DOMAIN contents)
    /\ \A k \in Key :
        LET below == {j \in DOMAIN contents : j < k}
            above == {j \in DOMAIN contents : j > k}
            this == {k} \cap DOMAIN contents
        IN  /\ cursorNext(k) = LeastOf(above)
            /\ cursorPrev(k) = GreatestOf(below)
            /\ EqualOrGreater(k) = LeastOf(this \cup above)
            /\ EqualOrLess(k) = GreatestOf(this \cup below)
=============================================================================
