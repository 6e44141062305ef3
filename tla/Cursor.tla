------------------------------- MODULE Cursor -------------------------------
(***************************************************************************)
(* btree::Cursor over a whole tree (Mode::Tree), while the tree changes    *)
(* under it.  A cursor is a leaf's page and a position in it; it is not    *)
(* told of changes.  Positions are 0-based, as in the code.                *)
(*                                                                         *)
(* The caller may also loop: begin(), then next() while the cursor is      *)
(* valid().  It does nothing else until the loop ends.                     *)
(***************************************************************************)
EXTENDS BTree

VARIABLES
    cursor,     \* [leaf, index, atEnd]
    fresh,      \* observer: the tree is as it was when the cursor was placed
    scanning    \* the caller is in its loop

cursorVars == <<tree, status, faults, inserted, cursor, fresh, scanning>>

\* bindTree.
Bound(atEnd) == [leaf |-> NoPage, index |-> 0, atEnd |-> atEnd]

Ok(c) == [cursor |-> c, status |-> "ok"]
Error(c) == [cursor |-> c, status |-> "error"]

IsLeaf(t, id) == id \in DOMAIN t.nodes /\ t.nodes[id].leaf

KeyCount(t, id) == Len(t.nodes[id].keys)

\* valid().
OnEntry(t, c) == ~ c.atEnd /\ IsLeaf(t, c.leaf) /\ c.index < KeyCount(t, c.leaf)

\* currentKey() and currentReference() of a cursor that is on an entry.
CurrentKey(t, c) == t.nodes[c.leaf].keys[c.index + 1]
CurrentReference(t, c) == t.nodes[c.leaf].refs[c.index + 1]

RECURSIVE LeftmostLeaf(_, _)
LeftmostLeaf(t, id) ==
    IF t.nodes[id].leaf THEN id ELSE LeftmostLeaf(t, Head(t.nodes[id].refs))

RECURSIVE RightmostLeaf(_, _)
RightmostLeaf(t, id) ==
    IF t.nodes[id].leaf THEN id ELSE RightmostLeaf(t, Last(t.nodes[id].refs))

\* On the last entry of a leaf; an empty leaf has none, and the index is 0.
AtLast(t, id) ==
    [leaf |-> id, atEnd |-> FALSE,
     index |-> IF KeyCount(t, id) > 0 THEN KeyCount(t, id) - 1 ELSE 0]

\* The frame on the path to the cursor's leaf.  Only the children of the root
\* are looked at: a leaf further down counts as below child 0.
ChildIndex(t, leaf) ==
    LET refs == t.nodes[t.root].refs
        at   == {i \in DOMAIN refs : refs[i] = leaf}
    IN  IF at = {} THEN 0 ELSE Min(at) - 1

\* The root is an internal node above the cursor's leaf.
HasPath(t, leaf) == t.root \notin {NoPage, leaf} /\ ~ IsLeaf(t, t.root)

\* Mutant of Advance: the child that the leaf is below is entered again.
AdvanceStays(t, c) ==
    LET next == ChildIndex(t, c.leaf)
    IN  IF HasPath(t, c.leaf) /\ next <= KeyCount(t, t.root)
        THEN Ok([leaf |-> LeftmostLeaf(t, ChildAt(t, t.root, next)), index |-> 0,
                 atEnd |-> FALSE])
        ELSE Error([c EXCEPT !.atEnd = TRUE])

\* advanceToNextLeaf.
Advance(t, c) ==
    LET next == ChildIndex(t, c.leaf) + 1
    IN  IF HasPath(t, c.leaf) /\ next <= KeyCount(t, t.root)
        THEN Ok([leaf |-> LeftmostLeaf(t, ChildAt(t, t.root, next)), index |-> 0,
                 atEnd |-> FALSE])
        ELSE Error([c EXCEPT !.atEnd = TRUE])

\* retreatToPreviousLeaf.
Retreat(t, c) ==
    IF HasPath(t, c.leaf) /\ ChildIndex(t, c.leaf) > 0
    THEN Ok(AtLast(t, RightmostLeaf(t, ChildAt(t, t.root, ChildIndex(t, c.leaf) - 1))))
    ELSE Error(c)

\* seekBegin: in an empty tree the cursor keeps its old position.
SeekBegin(t, c) ==
    IF t.root = NoPage THEN Ok([c EXCEPT !.atEnd = TRUE])
    ELSE Ok([leaf |-> LeftmostLeaf(t, t.root), index |-> 0, atEnd |-> FALSE])

\* next(): leaves_.at(leafId_) throws if the leaf is gone.
NextEntry(t, c) ==
    IF c.atEnd THEN Error(c)
    ELSE IF ~ IsLeaf(t, c.leaf) THEN [cursor |-> c, status |-> "throws"]
    ELSE IF c.index + 1 < KeyCount(t, c.leaf) THEN Ok([c EXCEPT !.index = @ + 1])
    ELSE Advance(t, c)

\* previous().
PreviousEntry(t, c) ==
    IF c.atEnd
    THEN IF t.root = NoPage THEN Error(c) ELSE Ok(AtLast(t, RightmostLeaf(t, t.root)))
    ELSE IF c.index > 0 THEN Ok([c EXCEPT !.index = @ - 1])
    ELSE Retreat(t, c)

\* Mutant of SeekBound: the next leaf is not looked at.
SeekBoundInLeaf(t, k, upper) ==
    LET frame == Last(Descend(t, t.root, k))
    IN  IF t.root = NoPage THEN Ok(Bound(TRUE))
        ELSE Ok([leaf |-> frame.page, index |-> frame.index, atEnd |-> FALSE])

\* BTree::lowerBound, and upperBound, which goes past the key in its leaf.
SeekBound(t, k, upper) ==
    LET frame == Last(Descend(t, t.root, k))
        keys  == t.nodes[frame.page].keys
        index == IF upper THEN Cardinality({i \in DOMAIN keys : keys[i] <= k})
                 ELSE frame.index
        at    == [leaf |-> frame.page, index |-> index, atEnd |-> FALSE]
    IN  IF t.root = NoPage THEN Ok(Bound(TRUE))
        ELSE IF index >= Len(keys) THEN Advance(t, at)
        ELSE Ok(at)

----------------------------------------------------------------------------
(* The state machine.                                                      *)

CursorInit == Init /\ cursor = Bound(TRUE) /\ fresh = TRUE /\ scanning = FALSE

\* The cursor is moved; place says that its old position does not matter.
Moves(r, place) ==
    /\ cursor' = r.cursor
    /\ status' = r.status
    /\ fresh' = (fresh \/ place)
    /\ UNCHANGED <<tree, faults, inserted>>

\* seekBegin, and BTree::begin, which binds a new cursor first.
Begins(c) == Moves(SeekBegin(tree, c), TRUE)

\* bindTree, and BTree::end.
Binds(atEnd) == Moves(Ok(Bound(atEnd)), TRUE)

\* seekEnd keeps the position.
Ends == Moves(Ok([cursor EXCEPT !.atEnd = TRUE]), FALSE)

\* seekKey is lowerBound.
Seeks(k, upper) == Moves(SeekBound(tree, k, upper), TRUE)
GoesNext == Moves(NextEntry(tree, cursor), FALSE)
GoesPrevious == Moves(PreviousEntry(tree, cursor), cursor.atEnd)

\* seek(): a position in the leaf that the cursor is on.
SeeksIndex(i) ==
    Moves(IF IsLeaf(tree, cursor.leaf) /\ i < KeyCount(tree, cursor.leaf)
          THEN Ok([cursor EXCEPT !.index = i, !.atEnd = FALSE])
          ELSE Error(cursor),
          FALSE)

TreeChanges == Next /\ fresh' = (fresh /\ tree' = tree) /\ UNCHANGED cursor

\* The loop: begin(), next() as long as the cursor is valid, and out of it.
ScanBegins == ~ scanning /\ Begins(Bound(FALSE)) /\ scanning' = TRUE

ScanGoesOn == scanning /\ OnEntry(tree, cursor) /\ GoesNext /\ UNCHANGED scanning

ScanStops ==
    /\ scanning /\ ~ OnEntry(tree, cursor)
    /\ scanning' = FALSE
    /\ UNCHANGED <<tree, status, faults, inserted, cursor, fresh>>

\* Outside the loop, every call of the cursor and of the tree.
Calls ==
    \/ \E atEnd \in BOOLEAN : Binds(atEnd)
    \/ \E c \in {cursor, Bound(FALSE)} : Begins(c)
    \/ Ends
    \/ \E k \in Keys, upper \in BOOLEAN : Seeks(k, upper)
    \/ GoesNext
    \/ GoesPrevious
    \/ \E i \in 0 .. LeafCapacity - 1 : SeeksIndex(i)
    \/ TreeChanges

CursorNext ==
    \/ ~ scanning /\ Calls /\ UNCHANGED scanning
    \/ ScanBegins
    \/ ScanGoesOn
    \/ ScanStops

\* A caller that is in its loop goes on with it.
CursorSpec ==
    /\ CursorInit /\ [][CursorNext]_cursorVars
    /\ WF_cursorVars(ScanGoesOn \/ ScanStops)

----------------------------------------------------------------------------
(* Scans.                                                                  *)

Current(t, c) == <<CurrentKey(t, c), CurrentReference(t, c)>>

RECURSIVE ForwardFrom(_, _, _)

\* The entries a loop over next() meets while the cursor is valid, at most n.
ForwardFrom(t, c, n) ==
    IF n = 0 \/ ~ OnEntry(t, c) THEN <<>>
    ELSE <<Current(t, c)>> \o ForwardFrom(t, NextEntry(t, c).cursor, n - 1)

RECURSIVE BackwardFrom(_, _, _)

\* The entries a loop over previous() meets until it fails, the last one first.
BackwardFrom(t, c, n) ==
    LET p == PreviousEntry(t, c)
    IN  IF n = 0 \/ p.status # "ok" \/ ~ OnEntry(t, p.cursor) THEN <<>>
        ELSE BackwardFrom(t, p.cursor, n - 1) \o <<Current(t, p.cursor)>>

\* More than any tree within the bounds holds.
ScanLimit == MaxSize + 1

\* The keys of the leaves and what is stored with them, from left to right.
LeafEntries(t) ==
    LET entries(node) == [i \in DOMAIN node.keys |-> <<node.keys[i], node.refs[i]>>]
    IN  FlattenSeq([i \in DOMAIN Walk(t) |->
            LET node == t.nodes[Walk(t)[i]] IN IF node.leaf THEN entries(node) ELSE <<>>])

NoEmptyLeaf(t) == \A p \in LeafPages(t) : t.nodes[p].keys # <<>>

----------------------------------------------------------------------------
(* Properties.                                                             *)

\* A scan from begin() and a scan back from end() both meet every entry of a
\* tree of one or two levels, once and in order.
ScansAreComplete ==
    tree.height <= 2 /\ NoEmptyLeaf(tree) =>
        /\ ForwardFrom(tree, SeekBegin(tree, Bound(FALSE)).cursor, ScanLimit) = LeafEntries(tree)
        /\ BackwardFrom(tree, Bound(TRUE), ScanLimit) = LeafEntries(tree)

\* As long as the tree has not changed since a cursor was bound or placed, the
\* cursor is at the end, on an entry or on no leaf yet: currentKey(), which does
\* not check its index, stays within the leaf.
FreshCursorOnEntry ==
    fresh /\ NoEmptyLeaf(tree) =>
        cursor.atEnd \/ OnEntry(tree, cursor) \/ cursor.leaf = NoPage

\* A loop over next() on a tree of one or two levels ends: the leaves it enters
\* never lead back to one it has left.
ScanEnds == scanning /\ tree.height <= 2 ~> ~ scanning

\* A loop over next() ends.  The code does not do this: in a tree of three
\* levels advanceToNextLeaf comes back to the leaf that it leaves.
EveryScanEnds == scanning ~> ~ scanning

\* "Tree-mode traversal walks leaves in sorted key order without a separate leaf
\* chain" (docs/btree_algorithms.md:92): a scan with next() meets every entry,
\* whatever the height of the tree.
FullTraversal ==
    NoEmptyLeaf(tree) =>
        ForwardFrom(tree, SeekBegin(tree, Bound(FALSE)).cursor, ScanLimit) = LeafEntries(tree)

\* A lower bound past the last key is the end, not an error
\* (tests/TestBTreeAlgorithms.cpp:241, "REQUIRE(tree.lowerBound(
\* Key::fromUInt32(55), cursor).ok())").
LowerBoundSucceeds ==
    \A k \in Keys : SeekBound(tree, k, FALSE).status = "ok"
============================================================================
