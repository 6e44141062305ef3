------------------------------- MODULE BTree -------------------------------
(***************************************************************************)
(* The in-memory B-tree of src/btree: BTree.cpp (descent, insert, erase,   *)
(* clear), Rebalance.cpp (split, borrow, merge) and the node operations of *)
(* LeafNode.cpp and InternalNode.cpp they are built from.                  *)
(*                                                                         *)
(* A node is its keys and its references: the data references of a leaf,   *)
(* the child pages of an internal node.  The reference a caller stores     *)
(* under a key is named by that key, so an entry whose two halves differ   *)
(* has been paired with somebody else's reference.  Page identifiers are   *)
(* only names here, so the smallest free one stands for the one            *)
(* SpaceManager hands out; keys are unique (allowDuplicates = false, the   *)
(* default).  Each operation is one action: it runs on a working copy that *)
(* carries the returned Status, and stops where the code returns early.    *)
(* Positions in nodes and paths are 0-based, as in the code.               *)
(***************************************************************************)
EXTENDS Integers, FiniteSets, SequencesExt, TLC

CONSTANTS
    MaxKey,            \* keys are 1 .. MaxKey
    Pages,             \* the pages SpaceManager can give to the tree
    LeafCapacity,      \* computeCapacity for leaves
    InternalCapacity,  \* computeCapacity for internal nodes
    MaxSize,           \* bound on size_: lost keys can be inserted again for ever
    MaxFaults          \* bound on the injected failures of the WAL sink

NoPage == 0
Keys == 1 .. MaxKey

ASSUME TreeAssumption ==
    /\ MaxKey \in Nat \ {0}
    /\ Pages \subseteq Nat \ {NoPage} /\ IsFiniteSet(Pages)
    /\ LeafCapacity \in Nat /\ LeafCapacity >= 2
    /\ InternalCapacity \in Nat /\ InternalCapacity >= 2
    /\ MaxSize \in Nat /\ MaxFaults \in Nat

VARIABLES
    tree,      \* leaves_ and internals_ by page, rootId_, height_, size_
    status,    \* what the last call returned: "ok", "error", or "throws"
    faults,    \* how many sink failures have been injected
    inserted   \* observer: the keys whose last successful call was an insert

vars == <<tree, status, faults, inserted>>

----------------------------------------------------------------------------
(* Status plumbing.                                                        *)

Fail(t) == [t EXCEPT !.status = "error"]

\* The next statement runs only if every earlier one returned ok().
Then(t, Step(_)) == IF t.status = "ok" THEN Step(t) ELSE t

\* A call of the WAL sink whose Status is returned to the caller.
WalCall(t) ==
    [t EXCEPT !.calls = @ + 1,
              !.status = IF t.calls + 1 = t.fault THEN "error" ELSE "ok"]

----------------------------------------------------------------------------
(* Nodes.                                                                  *)

Leaf(keys, refs) == [leaf |-> TRUE, keys |-> keys, refs |-> refs]
Internal(keys, refs) == [leaf |-> FALSE, keys |-> keys, refs |-> refs]

Capacity(node) == IF node.leaf THEN LeafCapacity ELSE InternalCapacity

\* First index whose key is not below k.
LowerBound(keys, k) == Cardinality({i \in DOMAIN keys : keys[i] < k})

\* Mutant of MinKeyCount: rounded up beyond the half.
MinKeyCountAboveHalf(node) == Capacity(node) \div 2 + 1

MinKeyCount(node) == Capacity(node) \div 2

\* A non-root node below its minimum occupancy.
IsUnderfull(t, id) ==
    id # t.root /\ Len(t.nodes[id].keys) < MinKeyCount(t.nodes[id])

\* assignEntries of both node types: the vectors must fit together and fit.
AssignEntries(t, id, keys, refs) ==
    LET node == t.nodes[id]
    IN  IF /\ Len(refs) = Len(keys) + (IF node.leaf THEN 0 ELSE 1)
           /\ Len(keys) <= Capacity(node)
        THEN [t EXCEPT !.nodes[id] = [node EXCEPT !.keys = keys, !.refs = refs]]
        ELSE Fail(t)

\* allocateLeaf and allocateInternal: the new page is left in "out".
AllocateNode(t, node) ==
    LET free == Pages \ DOMAIN t.nodes
        id == CHOOSE p \in free : \A q \in free : p <= q
    IN  IF free = {}
        THEN Fail(t)
        ELSE WalCall([t EXCEPT !.nodes = (id :> node) @@ @, !.out = id])

ReleaseNodeKeepsMap(t, id) == [t EXCEPT !.calls = @ + 1]

\* The sink is told of the release, but its answer is ignored.
ReleaseNode(t, id) ==
    [t EXCEPT !.calls = @ + 1, !.nodes = Restrict(@, DOMAIN @ \ {id})]

----------------------------------------------------------------------------
(* Descent.                                                                *)

RECURSIVE Descend(_, _, _)

\* The search path from a page down to the leaf, the leaf's frame included.
Descend(t, id, k) ==
    LET node == t.nodes[id]
        index == LowerBound(node.keys, k)
        frame == [page |-> id, index |-> index]
    IN  IF node.leaf
        THEN <<frame>>
        ELSE <<frame>> \o Descend(t, node.refs[index + 1], k)

\* Whether the descent ends on an entry for k.
Found(t, k) ==
    /\ t.root # NoPage
    /\ LET frame == Last(Descend(t, t.root, k))
           keys == t.nodes[frame.page].keys
       IN  frame.index < Len(keys) /\ keys[frame.index + 1] = k

\* What find hands out for a key it finds.
Value(t, k) ==
    LET frame == Last(Descend(t, t.root, k))
    IN  t.nodes[frame.page].refs[frame.index + 1]

----------------------------------------------------------------------------
(* Splitting.                                                              *)

WithChildKeyAfter(node, index, key, right) ==
    Internal(InsertAt(node.keys, IF index < Len(node.keys) THEN index + 2 ELSE index + 1, key),
             InsertAt(node.refs, index + 2, right))

WithChildOnLeft(node, index, key, right) ==
    Internal(InsertAt(node.keys, index + 1, key), InsertAt(node.refs, index + 1, right))

\* An internal node with a key at an index and a child to the right of it.
WithChild(node, index, key, right) ==
    Internal(InsertAt(node.keys, index + 1, key), InsertAt(node.refs, index + 2, right))

IsFull(node) == Len(node.keys) >= Capacity(node)

RECURSIVE SplitNode(_, _, _, _, _)
RECURSIVE InsertIntoParent(_, _, _, _, _)

\* Split an overflowing node: the middle key moves up and out of the node.
SplitNode(t, id, path, keys, refs) ==
    LET leaf == t.nodes[id].leaf
        splitIdx == Len(keys) \div 2
        promoted == keys[splitIdx + 1]
        halved == AssignEntries(t, id, SubSeq(keys, 1, splitIdx),
                      SubSeq(refs, 1, IF leaf THEN splitIdx ELSE splitIdx + 1))
        fresh == IF leaf THEN Leaf(<<>>, <<>>) ELSE Internal(<<>>, <<NoPage>>)
        Sibling(u) == AllocateNode(u, fresh)
        Filled(u) == AssignEntries(u, u.out, SubSeq(keys, splitIdx + 2, Len(keys)),
                                   SubSeq(refs, splitIdx + 2, Len(refs)))
        Linked(u) == InsertIntoParent(u, path, promoted, id, u.out)
    IN  Then(Then(Then(Then(halved, Sibling), Filled), WalCall), Linked)

\* Hang the new right node below its parent, growing or splitting above.
InsertIntoParent(t, path, promoted, left, right) ==
    LET NewRoot(u) == [u EXCEPT !.nodes[u.out] = Internal(<<promoted>>, <<left, right>>),
                                !.root = u.out, !.height = @ + 1]
        frame == Last(path)
        parent == t.nodes[frame.page]
        grown == WithChild(parent, frame.index, promoted, right)
    IN  IF path = <<>>
        THEN Then(AllocateNode(t, Internal(<<>>, <<NoPage>>)), NewRoot)
        ELSE IF IsFull(parent)
        THEN SplitNode(t, frame.page, Front(path), grown.keys, grown.refs)
        ELSE IF promoted \in Range(parent.keys)
        THEN Fail(t)
        ELSE [t EXCEPT !.nodes[frame.page] = grown]

----------------------------------------------------------------------------
(* Borrowing and merging.  Leaves and internal nodes move the same halves: *)
(* a key through the parent, a reference straight from the sibling.        *)

\* Children s and s+1 of the parent, around its separator s.
ChildAt(t, parent, s) == t.nodes[parent].refs[s + 1]

\* A node without its last, or its first, key and reference; and with one more
\* at that end.
TakeLast(node) == [node EXCEPT !.keys = Front(@), !.refs = Front(@)]
TakeFirst(node) == [node EXCEPT !.keys = Tail(@), !.refs = Tail(@)]
PutFirst(node, key, ref) == [node EXCEPT !.keys = <<key>> \o @, !.refs = <<ref>> \o @]
PutLast(node, key, ref) == [node EXCEPT !.keys = Append(@, key), !.refs = Append(@, ref)]

\* Rotate right across the separator before the child at index ci.
BorrowFromLeft(t, parent, ci) ==
    LET left == ChildAt(t, parent, ci - 1)
        node == ChildAt(t, parent, ci)
        from == t.nodes[left]
        separator == t.nodes[parent].keys[ci]
    IN  [t EXCEPT !.nodes[left] = TakeLast(@),
                  !.nodes[parent].keys[ci] = Last(from.keys),
                  !.nodes[node] = PutFirst(@, separator, Last(from.refs))]

\* Rotate left across the separator after the child at index ci.
BorrowFromRight(t, parent, ci) ==
    LET node == ChildAt(t, parent, ci)
        right == ChildAt(t, parent, ci + 1)
        from == t.nodes[right]
        separator == t.nodes[parent].keys[ci + 1]
    IN  [t EXCEPT !.nodes[right] = TakeFirst(@),
                  !.nodes[parent].keys[ci + 1] = Head(from.keys),
                  !.nodes[node] = PutLast(@, separator, Head(from.refs))]

CollapseRootKeepsHeight(t) ==
    [ReleaseNode(t, t.root) EXCEPT !.root = ChildAt(t, t.root, 0)]

\* The root that a merge left without keys gives way to its only child.
CollapseRoot(t) ==
    [ReleaseNode(t, t.root) EXCEPT !.root = ChildAt(t, t.root, 0), !.height = @ - 1]

RECURSIVE FixInternalUnderflow(_, _)

\* What every merge around separator s of the node on top of the path does once
\* the left child has the entries of both.
Unhooked(t, path, s) ==
    LET parent == Last(path).page
        removed == ChildAt(t, parent, s + 1)
        Unhook(u) == [u EXCEPT !.nodes[parent] =
                         [@ EXCEPT !.keys = RemoveAt(@, s + 1), !.refs = RemoveAt(@, s + 2)]]
        Finish(u) == LET v == ReleaseNode(u, removed)
                     IN  IF parent = v.root /\ v.nodes[parent].keys = <<>>
                         THEN CollapseRoot(v)
                         ELSE IF IsUnderfull(v, parent)
                         THEN FixInternalUnderflow(v, Front(path))
                         ELSE v
    IN  Then(Then(Then(t, Unhook), WalCall), Finish)

\* mergeLeafLeft and mergeLeafRight: both leaves' entries, without the separator.
MergeLeaf(t, path, s) ==
    LET parent == Last(path).page
        left == ChildAt(t, parent, s)
        a == t.nodes[left]
        b == t.nodes[ChildAt(t, parent, s + 1)]
    IN  IF s + 1 >= Len(t.nodes[parent].refs)
        THEN [t EXCEPT !.status = "throws"]     \* children_.at(index)
        ELSE Unhooked(AssignEntries(t, left, a.keys \o b.keys, a.refs \o b.refs), path, s)

\* mergeInternalLeft and mergeInternalRight: both nodes' keys with the separator
\* between them, and the children of both without the first of the right node.
MergeInternal(t, path, s) ==
    LET parent == Last(path).page
        left == ChildAt(t, parent, s)
        a == t.nodes[left]
        b == t.nodes[ChildAt(t, parent, s + 1)]
        keys == a.keys \o <<t.nodes[parent].keys[s + 1]>> \o b.keys
    IN  IF s + 1 >= Len(t.nodes[parent].refs)
        THEN [t EXCEPT !.status = "throws"]     \* children_.at(index)
        ELSE Unhooked(AssignEntries(t, left, keys, a.refs \o Tail(b.refs)), path, s)

\* Child i of a parent has more keys than it must.
CanLend(t, parent, i) ==
    LET node == t.nodes[ChildAt(t, parent, i)]
    IN  Len(node.keys) > MinKeyCount(node)

\* The separator whose two children are merged: the one before the child, or
\* the first.
MergeAt(ci) == IF ci > 0 THEN ci - 1 ELSE ci

\* Borrow from the left sibling, else from the right one, else merge.
FixLeafUnderflow(t, path) ==
    LET parent == Last(path).page
        ci == Last(path).index
    IN  IF path = <<>>
        THEN t
        ELSE IF ci > 0 /\ CanLend(t, parent, ci - 1)
        THEN BorrowFromLeft(t, parent, ci)
        ELSE IF ci < Len(t.nodes[parent].keys) /\ CanLend(t, parent, ci + 1)
        THEN BorrowFromRight(t, parent, ci)
        ELSE MergeLeaf(t, path, MergeAt(ci))

FixInternalUnderflow(t, path) ==
    LET parent == Last(path).page
        ci == Last(path).index
    IN  IF path = <<>>
        THEN t
        ELSE IF ci > 0 /\ CanLend(t, parent, ci - 1)
        THEN BorrowFromLeft(t, parent, ci)
        ELSE IF ci < Len(t.nodes[parent].keys) /\ CanLend(t, parent, ci + 1)
        THEN BorrowFromRight(t, parent, ci)
        ELSE MergeInternal(t, path, MergeAt(ci))

----------------------------------------------------------------------------
(* SplitMergePlanner: what a split or a merge would give.  Nothing is      *)
(* changed, and no caller has to follow the plan.                          *)

MakeSplitPlan(node, pos) ==
    [status |-> "ok", position |-> pos, feasible |-> pos > 0 /\ pos < Len(node.keys)]

\* planLeafSplit and planInternalSplit: the middle, but not position 0.  The
\* promoted key is read at that position, and keys_.at(1) of one key throws.
PlanSplit(node) ==
    LET n == Len(node.keys)
        pos == IF n \div 2 > 0 THEN n \div 2 ELSE 1
    IN  IF n = 0 THEN [status |-> "ok", position |-> 0, feasible |-> FALSE]
        ELSE IF pos >= n THEN [status |-> "throws", position |-> pos, feasible |-> FALSE]
        ELSE MakeSplitPlan(node, pos)

\* planLeafMerge and planInternalMerge, which does not count the separator.
PlanMerge(left, right) ==
    LET combined == Len(left.keys) + Len(right.keys)
    IN  [keyCount |-> combined, feasible |-> combined <= Capacity(left)]

----------------------------------------------------------------------------
(* The operations on a working copy.                                       *)

\* An entry went in: count it and log it.
Counted(t) == WalCall([t EXCEPT !.size = @ + 1])

FirstLeafUncounted(t, k) ==
    WalCall([t EXCEPT !.nodes[t.out] = Leaf(<<k>>, <<k>>), !.root = t.out, !.height = 1])

\* The first entry makes its leaf the root.
FirstLeaf(t, k) ==
    Counted([t EXCEPT !.nodes[t.out] = Leaf(<<k>>, <<k>>), !.root = t.out, !.height = 1])

Inserted(t, k) ==
    LET path == Descend(t, t.root, k)
        id == Last(path).page
        index == Last(path).index
        keys == InsertAt(t.nodes[id].keys, index + 1, k)
        refs == InsertAt(t.nodes[id].refs, index + 1, k)
        Root(u) == FirstLeaf(u, k)
    IN  IF t.root = NoPage
        THEN Then(AllocateNode(t, Leaf(<<>>, <<>>)), Root)
        ELSE IF Found(t, k)
        THEN Fail(t)
        ELSE IF ~IsFull(t.nodes[id])
        THEN Counted([t EXCEPT !.nodes[id] = Leaf(keys, refs)])
        ELSE Then(SplitNode(t, id, Front(path), keys, refs), Counted)

Erased(t, k) ==
    LET path == Descend(t, t.root, k)
        id == Last(path).page
        index == Last(path).index
        node == t.nodes[id]
        without == Leaf(RemoveAt(node.keys, index + 1), RemoveAt(node.refs, index + 1))
        EmptyRoot(u) == [ReleaseNode(u, id) EXCEPT !.root = NoPage, !.height = 0]
        Rebalance(u) == IF Len(path) = 1
                        THEN IF without.keys = <<>> THEN EmptyRoot(u) ELSE u
                        ELSE IF IsUnderfull(u, id)
                        THEN FixLeafUnderflow(u, Front(path))
                        ELSE u
    IN  IF ~Found(t, k)
        THEN Fail(t)
        ELSE Then(WalCall([t EXCEPT !.nodes[id] = without, !.size = @ - 1]), Rebalance)

----------------------------------------------------------------------------
(* TreeValidator.                                                          *)

\* No bound: nullptr in the code.
NoMin == 0
NoMax == MaxKey + 1

RECURSIVE ValidateSubtree(_, _, _, _)

\* Keys strictly sorted in each node; leaf keys in [min, max), separators in
\* [min, max].  (That all leaves have one depth is part of TreeShape.)
ValidateSubtree(t, id, min, max) ==
    LET node == t.nodes[id]
        n == Len(node.keys)
        ChildMin(i) == IF i = 1 THEN min ELSE node.keys[i - 1]
        ChildMax(i) == IF i > n THEN max ELSE node.keys[i]
    IN  /\ \A i \in 1 .. n - 1 : node.keys[i] < node.keys[i + 1]
        /\ \A i \in 1 .. n : min <= node.keys[i] /\ node.keys[i] <= max
        /\ node.leaf => \A i \in 1 .. n : node.keys[i] # max
        /\ ~node.leaf => \A i \in 1 .. n + 1 :
                            ValidateSubtree(t, node.refs[i], ChildMin(i), ChildMax(i))

Validate(t) == t.root # NoPage => ValidateSubtree(t, t.root, NoMin, NoMax)

----------------------------------------------------------------------------
(* The state machine.                                                      *)

EmptyTree == [nodes |-> <<>>, root |-> NoPage, height |-> 0, size |-> 0]

\* A call that will see its fault-th sink call fail (0: none fails).
Begin(fault) == [nodes |-> tree.nodes, root |-> tree.root, height |-> tree.height,
                 size |-> tree.size, status |-> "ok", calls |-> 0,
                 fault |-> fault, out |-> NoPage]

End(t) ==
    /\ t.fault <= t.calls                \* the fault is one the call met
    /\ faults' = IF t.fault > 0 THEN faults + 1 ELSE faults
    /\ tree' = [nodes |-> t.nodes, root |-> t.root, height |-> t.height, size |-> t.size]
    /\ status' = t.status

\* Bound: no insert or erase on a tree of height three makes more sink calls.  (A
\* load may; what fails then is one of its inserts.)
MaxSinkCalls == 7

FaultPoints == IF faults < MaxFaults THEN 0 .. MaxSinkCalls ELSE {0}

Init ==
    /\ tree = EmptyTree
    /\ status = "ok"
    /\ faults = 0
    /\ inserted = {}

Insert(k) ==
    /\ tree.size < MaxSize
    /\ \E fault \in FaultPoints : End(Inserted(Begin(fault), k))
    /\ inserted' = IF status' = "ok" THEN inserted \cup {k} ELSE inserted

Erase(k) ==
    /\ tree.root # NoPage
    /\ \E fault \in FaultPoints : End(Erased(Begin(fault), k))
    /\ inserted' = IF status' = "ok" THEN inserted \ {k} ELSE inserted

\* erase on an empty tree answers "key not found" before it descends.
EraseEmpty ==
    /\ tree.root = NoPage
    /\ status' = "error"
    /\ UNCHANGED <<tree, faults, inserted>>

\* Every page of both maps goes back to SpaceManager.
Clear ==
    /\ tree' = EmptyTree
    /\ status' = "ok"
    /\ inserted' = {}
    /\ UNCHANGED faults

\* BulkLoader::loadSorted: one insert after the other, up to the first that
\* fails, and then validate().  Bound: a load has two entries, of neighbouring
\* keys.  (It returns before anything if there are not as many values as keys.)
LoadSorted(k) ==
    /\ tree.size + 1 < MaxSize
    /\ \E fault \in FaultPoints :
          LET first == Inserted(Begin(fault), k)
              second == Then(first, LAMBDA t : Inserted(t, k + 1))
              loaded == {x \in {k} : first.status = "ok"} \cup {x \in {k + 1} : second.status = "ok"}
          IN  /\ End(Then(second, LAMBDA t : IF Validate(t) THEN t ELSE Fail(t)))
              /\ inserted' = inserted \cup loaded

Next ==
    \/ \E k \in Keys : Insert(k)
    \/ \E k \in 1 .. MaxKey - 1 : LoadSorted(k)
    \/ \E k \in Keys : Erase(k)
    \/ EraseEmpty
    \/ Clear

Spec == Init /\ [][Next]_vars

----------------------------------------------------------------------------
(* Views of the tree used by the properties.                               *)

RECURSIVE PagesBelow(_, _, _)

\* The pages met walking down from a page, at most "depth" levels.
PagesBelow(t, id, depth) ==
    LET node == t.nodes[id]
        Below == [i \in DOMAIN node.refs |-> PagesBelow(t, node.refs[i], depth - 1)]
    IN  IF depth = 0 \/ id \notin DOMAIN t.nodes \/ node.leaf
        THEN <<id>>
        ELSE <<id>> \o FlattenSeq(Below)

Walk(t) == IF t.root = NoPage THEN <<>> ELSE PagesBelow(t, t.root, Cardinality(Pages))

Orphans(t) == DOMAIN t.nodes \ Range(Walk(t))

RECURSIVE Balanced(_, _, _)

\* The subtree is h levels high on every branch.
Balanced(t, id, h) ==
    LET node == t.nodes[id]
    IN  /\ id \in DOMAIN t.nodes
        /\ node.leaf <=> h = 1
        /\ node.leaf => Len(node.refs) = Len(node.keys)
        /\ ~node.leaf => /\ Len(node.refs) = Len(node.keys) + 1
                         /\ \A i \in DOMAIN node.refs : Balanced(t, node.refs[i], h - 1)

RECURSIVE InOrder(_, _)

\* Leaf keys and separators in the order a complete traversal meets them.
InOrder(t, id) ==
    LET node == t.nodes[id]
        Child(i) == InOrder(t, node.refs[i])
        Part(i) == IF i = 1 THEN Child(1) ELSE <<node.keys[i - 1]>> \o Child(i)
    IN  IF node.leaf
        THEN node.keys
        ELSE FlattenSeq([i \in DOMAIN node.refs |-> Part(i)])

Ascending(s) == \A i \in 1 .. Len(s) - 1 : s[i] <= s[i + 1]

LeafPages(t) == {p \in Range(Walk(t)) : t.nodes[p].leaf}

Entries(t) == FoldSet(LAMBDA p, n : n + Len(t.nodes[p].keys), 0, LeafPages(t))

FoundKeys(t) == {k \in Keys : Found(t, k)}

----------------------------------------------------------------------------
(* What holds.                                                             *)

\* Every variable has its type and no node is over its capacity.
TypeOK ==
    /\ DOMAIN tree.nodes \subseteq Pages
    /\ \A p \in DOMAIN tree.nodes :
          LET node == tree.nodes[p]
          IN  /\ node.leaf \in BOOLEAN
              /\ node.keys \in Seq(Keys) /\ Len(node.keys) <= Capacity(node)
              /\ node.refs \in Seq(IF node.leaf THEN Keys ELSE Pages \cup {NoPage})
    /\ tree.root \in Pages \cup {NoPage} /\ tree.height \in Nat
    /\ status \in {"ok", "error", "throws"}
    /\ faults \in 0 .. MaxFaults
    /\ inserted \subseteq Keys

\* Every node is within its capacity and the pages below the root form a tree:
\* no page has two parents, every branch has height_ levels, and every internal
\* node has one child more than keys.
\* Splits, root growth, merges, root collapse and every early return in the
\* middle of them keep it so.
TreeShape ==
    /\ TypeOK
    /\ tree.root = NoPage <=> tree.height = 0
    /\ tree.root # NoPage => Balanced(tree, tree.root, tree.height)
    /\ IsInjective(Walk(tree))

\* A complete traversal meets leaf keys and separators in ascending order, which
\* the binary searches of descendToLeaf rely on.  (Equal neighbours do occur.)
SearchOrder == tree.root # NoPage => Ascending(InOrder(tree, tree.root))

\* size_, an unsigned counter that erase decrements without a test, never falls
\* below the number of entries an erase could still find, so it never wraps.
SizeCoversEntries == tree.size >= Entries(tree)

\* A call that returns success leaves no page behind that the tree cannot reach:
\* only a call that failed half way leaks pages, until clear() frees them.
SuccessLeaksNothing ==
    [][status' = "ok" => Orphans(tree') \subseteq Orphans(tree)]_vars

\* An insert that succeeds hides at most one other key from find (the key a leaf
\* split promotes), and makes no other key appear.
InsertKeepsOthers ==
    [][\A k \in Keys : Insert(k) /\ status' = "ok" =>
          /\ FoundKeys(tree') \subseteq FoundKeys(tree) \cup {k}
          /\ Cardinality(FoundKeys(tree) \ FoundKeys(tree')) <= 1]_vars

\* The plans cover what the tree does: a node that an insert would split has a
\* feasible split plan, and of any two neighbours that fixLeafUnderflow or
\* fixInternalUnderflow could not borrow from, the plan says that they can be
\* merged.  The minimum occupancy is low enough for two such nodes.
PlansHold ==
    \A p \in Range(Walk(tree)) :
        LET node == tree.nodes[p]
            Child(s) == tree.nodes[ChildAt(tree, p, s)]
        IN  /\ IsFull(node) => PlanSplit(node).feasible
            /\ ~node.leaf => \A s \in 0 .. Len(node.keys) - 1 :
                  CanLend(tree, p, s) \/ CanLend(tree, p, s + 1)
                      \/ PlanMerge(Child(s), Child(s + 1)).feasible

----------------------------------------------------------------------------
(* What the tests and the documentation say, and the code does not do.     *)

\* Every key that was inserted and not erased is found: TestBTreeAlgorithms
\* inserts keys and then checks that the tree contains each of them.
InsertedIsFound == \A k \in inserted : Found(tree, k)

\* Erasing a key that the tree contains succeeds: TestBTreeAlgorithms requires it
\* of every erase of a random sequence of inserts and erases.
EraseSucceeds ==
    [][\A k \in FoundKeys(tree) : Erase(k) => status' = "ok"]_vars

\* A tree with the TreeValidator's invariants has every stored key where the
\* search looks for it, as the search rule "key[i-1] <= searchKey < key[i]" of
\* docs/btree_algorithms.md would have it.
StoredIsFound ==
    Validate(tree) => \A p \in LeafPages(tree) : Range(tree.nodes[p].keys) \subseteq FoundKeys(tree)

\* Two neighbours whose merge plan is feasible can be merged.  Of internal nodes
\* the merged one also has the separator, and may be over its capacity.
FeasibleMergesFit ==
    \A p \in Range(Walk(tree)) : \A s \in 0 .. Len(tree.nodes[p].keys) - 1 :
        LET left == tree.nodes[ChildAt(tree, p, s)]
            right == tree.nodes[ChildAt(tree, p, s + 1)]
            separators == IF left.leaf THEN 0 ELSE 1
        IN  ~tree.nodes[p].leaf /\ PlanMerge(left, right).feasible =>
                Len(left.keys) + Len(right.keys) + separators <= Capacity(left)

\* Every node has a split plan, feasible or not.  Of a node with one key, the
\* planner reads the second.
SplitPlanAnswers ==
    \A p \in DOMAIN tree.nodes : PlanSplit(tree.nodes[p]).status = "ok"

\* find returns the reference that was inserted with the key, as TestBTreeAlgorithms
\* checks of the keys it inserted.
FoundValueIsInserted == \A k \in FoundKeys(tree) : Value(tree, k) = k

============================================================================
