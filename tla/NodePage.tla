------------------------------ MODULE NodePage ------------------------------
(***************************************************************************)
(* One B-tree node: LeafNode or InternalNode over BTreeNode over an        *)
(* IndexPage.  A node keeps its keys and references in vectors and, after  *)
(* every change, writes them into its page; a node made from a page reads  *)
(* them back.  BTree keeps its nodes in memory, but a page may be stored   *)
(* and another node made from it, and a node may be serialized as a whole. *)
(*                                                                         *)
(* Everything a node writes into its body goes through a BinaryWriter that *)
(* appends to an empty buffer, and so arrives as zeros (module Codec).  The*)
(* fields of IndexPageLayout are plain assignments and do arrive.          *)
(*                                                                         *)
(* Sizes are the code's: keys are 5, 9 or 3 + length bytes long, references*)
(* 20; only the entry area, 3960 bytes, is a constant, to have small nodes.*)
(***************************************************************************)
EXTENDS Integers, Sequences, FiniteSetsExt

CONSTANTS Area,        \* bytes of a page's entry area: 3960
          Keys,        \* bound: the keys that are used, [type, value]
          Refs,        \* bound: the valid page references that are used
          Levels,      \* bound: node levels
          Configs,     \* bound: [keyType, binaryKeySize, dup] of nodes
          Assignments  \* bound: [keys, refs] given to assignEntries

UInt32 == 1
UInt64 == 2
Binary == 3
Leaf == 1
Internal == 2

InvalidRef == -1       \* PageReference::invalid(), kInvalidPageId
ZeroRef == 0           \* twenty zero bytes: a valid reference to page 0

ASSUME NodeAssumption ==
    /\ Area \in Nat /\ Levels \subseteq Nat /\ Refs \subseteq Nat \ {ZeroRef}
    /\ \A k \in Keys : \/ k \in [type : {UInt32, UInt64}, value : Nat]
                       \/ k \in [type : {Binary}, value : Seq(0 .. 255)]
    /\ Configs \subseteq [keyType : {UInt32, UInt64, Binary}, binaryKeySize : Nat, dup : BOOLEAN]
    /\ \A a \in Assignments : a.keys \in Seq(Keys) /\ a.refs \in Seq(Refs)

VARIABLES node,        \* [class, keys, refs, level, parent, config, page]
          failed,      \* whether the last call returned an error
          origin,      \* observer: "made"; "loaded"; "changed" since it was
                       \* loaded; "lossy", changed since it was loaded with a loss
          before       \* observer: the node a loaded one was loaded from

vars == <<node, failed, origin, before>>

-----------------------------------------------------------------------------
(***************************************************************************)
(* Keys: ordered by type, then by value; binary ones byte by byte, a prefix*)
(* before what it is a prefix of.                                          *)
(***************************************************************************)
BinaryLess(a, b) ==
    \E i \in 1 .. Len(b) : /\ \A j \in 1 .. i - 1 : j <= Len(a) /\ a[j] = b[j]
                           /\ i <= Len(a) => a[i] < b[i]

KeyLess(a, b) ==
    IF a.type # b.type THEN a.type < b.type
    ELSE IF a.type = Binary THEN BinaryLess(a.value, b.value) ELSE a.value < b.value

KeyEqual(a, b) == a.type = b.type /\ a.value = b.value
KeyLessEqual(a, b) == KeyLess(a, b) \/ KeyEqual(a, b)

WireSize(type, length) ==
    CASE type = UInt32 -> 5 [] type = UInt64 -> 9 [] type = Binary -> 3 + length

SerializedSize(k) == WireSize(k.type, IF k.type = Binary THEN Len(k.value) ELSE 0)
RefSize == 20

(***************************************************************************)
(* KeyComparator's binary searches, positions counted from 0.              *)
(***************************************************************************)
\* One turn of the loop; passed are the positions whose keys lie before the one
\* sought.
SearchTurn(s, passed) ==
    LET mid == s.lo + ((s.hi - s.lo) \div 2)
    IN  IF s.lo >= s.hi THEN s
        ELSE IF mid + 1 \in passed THEN [s EXCEPT !.lo = mid + 1] ELSE [s EXCEPT !.hi = mid]

\* Every turn makes the interval shorter, so that Len(keys) of them empty it.
Search(keys, passed) ==
    LET after[i \in 0 .. Len(keys)] ==
            IF i = 0 THEN [lo |-> 0, hi |-> Len(keys)] ELSE SearchTurn(after[i - 1], passed)
    IN  after[Len(keys)].lo

\* Mutant of LowerBound: the search passes equal keys.
LowerBoundPastEqual(keys, key) ==
    Search(keys, {i \in DOMAIN keys : KeyLessEqual(keys[i], key)})

LowerBound(keys, key) == Search(keys, {i \in DOMAIN keys : KeyLess(keys[i], key)})
UpperBound(keys, key) == Search(keys, {i \in DOMAIN keys : KeyLessEqual(keys[i], key)})
Find(keys, key) ==
    LET pos == LowerBound(keys, key)
    IN  IF pos < Len(keys) /\ KeyEqual(keys[pos + 1], key) THEN pos ELSE Len(keys)

-----------------------------------------------------------------------------
(***************************************************************************)
(* The page.  Its body is the cells that were written: what a BinaryWriter *)
(* appended, which is zeros, a cell for each entry -- for an internal node *)
(* the left child first -- and zeros behind them.                          *)
(***************************************************************************)
Zero == [ref |-> ZeroRef]
Magic == [magic |-> "BTRE"]
Appended(entries) == [i \in DOMAIN entries |-> Zero]
Cell(body, i) == IF i \in DOMAIN body THEN body[i] ELSE Zero

\* PageReference is read from any bytes; a Key's first byte must be a type.
KeyReads(cell) == "key" \in DOMAIN cell

EntrySize(config) == WireSize(config.keyType, config.binaryKeySize) + RefSize

\* A page has room for an entry.  No code refuses a longer key size, which makes
\* nodes without capacity.
ASSUME RoomAssumption == \A c \in Configs : EntrySize(c) <= Area

\* Mutant of ComputeCapacity: no room is left for the left child.
ComputeCapacityAllPairs(config, class) == Area \div EntrySize(config)

ComputeCapacity(config, class) ==
    IF class = Leaf THEN Area \div EntrySize(config)
    ELSE IF Area <= RefSize THEN 0 ELSE (Area - RefSize) \div EntrySize(config)

\* What the writer has written behind the left child and i pairs.
Bytes(n) ==
    LET tell[i \in 0 .. Len(n.keys)] ==
            IF i = 0 THEN (IF n.class = Internal THEN RefSize ELSE 0)
            ELSE tell[i - 1] + SerializedSize(n.keys[i]) + RefSize
    IN  tell[Len(n.keys)]

Entries(n) ==
    LET first == IF n.class = Internal THEN 1 ELSE 0
        Pair(i) == [key |-> n.keys[i], ref |-> n.refs[first + i]]
    IN  [i \in 1 .. first |-> [ref |-> n.refs[1]]] \o [i \in DOMAIN n.keys |-> Pair(i)]

\* syncEntries: the count and the header, and the entries when they fit.
\* Otherwise the page keeps its old entries beside the new count.
SyncFails(n) == Bytes(n) > Area
Synced(n) ==
    LET header == <<Magic, n.parent, n.level, n.config>>
        counted == [n EXCEPT !.page.keyCount = Len(n.keys), !.page.level = n.level,
                             !.page.header = Appended(header)]
    IN  IF SyncFails(n) THEN counted
        ELSE [counted EXCEPT !.page.body = Appended(Entries(n))]

\* loadHeader: of a header without its magic only the level is known, from
\* IndexPageLayout::reserved.
DefaultConfig == [keyType |-> UInt32, binaryKeySize |-> 0, dup |-> FALSE]
LoadedHeader(page) ==
    IF page.header[1] = Zero
    THEN [parent |-> InvalidRef, level |-> page.level, config |-> DefaultConfig]
    ELSE [parent |-> page.header[2], level |-> page.header[3], config |-> page.header[4]]

\* loadEntries stops at the first key that does not read, keeping those before.
LoadedPairs(page, skip) ==
    LET Reads(n) == \A i \in 1 .. n : KeyReads(Cell(page.body, skip + i))
        n == CHOOSE m \in 0 .. page.keyCount :
                 Reads(m) /\ (m < page.keyCount => ~Reads(m + 1))
    IN  [i \in 1 .. n |-> Cell(page.body, skip + i)]

FromPage(class, page) ==
    LET skip == IF class = Internal THEN 1 ELSE 0
        pairs == LoadedPairs(page, skip)
        left == [i \in 1 .. skip |-> Cell(page.body, 1).ref]
        head == LoadedHeader(page)
    IN  [class |-> class, page |-> page,
         level |-> head.level, parent |-> head.parent, config |-> head.config,
         keys |-> [i \in DOMAIN pairs |-> pairs[i].key],
         refs |-> left \o [i \in DOMAIN pairs |-> pairs[i].ref]]

\* create: IndexPage::create and initializeHeader.
Made(class, config, level) ==
    [class |-> class, config |-> config, level |-> level, parent |-> InvalidRef,
     keys |-> <<>>, refs |-> IF class = Internal THEN <<InvalidRef>> ELSE <<>>,
     page |-> [nodeType |-> class, keyCount |-> 0, dup |-> config.dup, level |-> level,
               capacity |-> ComputeCapacity(config, class),
               header |-> Appended(<<Magic, InvalidRef, level, config>>), body |-> <<>>]]

\* What BTreeNode::serialize writes, a whole page, arrives as zeros too.
ZeroPage == [nodeType |-> 0, keyCount |-> 0, dup |-> FALSE, level |-> 0, capacity |-> 0,
             header |-> <<Zero>>, body |-> <<>>]

Sorted(keys, dup) ==
    \A i \in 2 .. Len(keys) :
        KeyLess(keys[i - 1], keys[i]) \/ (dup /\ KeyEqual(keys[i - 1], keys[i]))

Fanout(n) == IF n.class = Internal THEN Len(n.keys) + 1 ELSE Len(n.keys)

\* IndexPageLayout::isValid.
LayoutValid(page) == page.capacity > 0 /\ page.keyCount <= page.capacity

\* Mutant of Validates: the page's count is not compared.
ValidatesUncounted(n) ==
    /\ LayoutValid(n.page)
    /\ n.page.nodeType = n.class
    /\ Len(n.refs) = Fanout(n)
    /\ Sorted(n.keys, n.page.dup)

Validates(n) ==
    /\ LayoutValid(n.page)
    /\ n.page.nodeType = n.class
    /\ Len(n.refs) = Fanout(n)
    /\ Len(n.keys) = n.page.keyCount
    /\ Sorted(n.keys, n.page.dup)

-----------------------------------------------------------------------------
(***************************************************************************)
(* Operations.  A call whose checks fail changes nothing; one that passes  *)
(* them changes the vectors and returns what syncEntries returns.          *)
(***************************************************************************)
Nothing == [keys |-> <<>>, refs |-> <<>>, level |-> 0]

Touch ==
    /\ origin' = IF origin # "loaded" THEN origin
                 ELSE IF node.keys = before.keys THEN "changed" ELSE "lossy"
    /\ before' = Nothing

Call(accepted, changed) ==
    /\ node' = IF accepted THEN Synced(changed) ELSE node
    /\ failed' = (~accepted \/ SyncFails(changed))
    /\ IF accepted THEN Touch ELSE UNCHANGED <<origin, before>>

\* vector::insert and vector::erase; positions count from 0.
Inserted(s, pos, x) ==
    [i \in 1 .. Len(s) + 1 |-> IF i <= pos THEN s[i] ELSE IF i = pos + 1 THEN x ELSE s[i - 1]]
Erased(s, pos) == [i \in 1 .. Len(s) - 1 |-> IF i <= pos THEN s[i] ELSE s[i + 1]]

Put(n, pos, key, ref) ==
    [n EXCEPT !.keys = Inserted(@, pos, key),
              !.refs = Inserted(@, IF n.class = Internal THEN pos + 1 ELSE pos, ref)]

Dropped(n, pos) ==
    [n EXCEPT !.keys = Erased(@, pos),
              !.refs = Erased(@, IF n.class = Internal THEN pos + 1 ELSE pos)]

\* Mutant of Full: one key too many.
FullLate(n) == n.page.keyCount > n.page.capacity

Full(n) == n.page.keyCount >= n.page.capacity

LeafInsert(key, ref) ==
    LET pos == LowerBound(node.keys, key)
        duplicate == pos < Len(node.keys) /\ KeyEqual(node.keys[pos + 1], key)
        accepted == ref # InvalidRef /\ ~Full(node) /\ (node.page.dup \/ ~duplicate)
    IN  node.class = Leaf /\ Call(accepted, IF accepted THEN Put(node, pos, key, ref) ELSE node)

InternalInsert(index, key, ref) ==
    LET duplicate == \E i \in DOMAIN node.keys : KeyEqual(node.keys[i], key)
        accepted == /\ ref # InvalidRef /\ index <= Len(node.keys)
                    /\ Len(node.keys) < node.page.capacity
                    /\ node.page.dup \/ ~duplicate
    IN  node.class = Internal /\ Call(accepted, IF accepted THEN Put(node, index, key, ref) ELSE node)

EraseAt(index) ==
    LET accepted == index < Len(node.keys)
    IN  Call(accepted, IF accepted THEN Dropped(node, index) ELSE node)

LeafErase(key) == node.class = Leaf /\ EraseAt(Find(node.keys, key))

SetKeyAt(index, key) ==
    LET accepted == index < Len(node.keys)
    IN  /\ node.class = Internal
        /\ Call(accepted, IF accepted THEN [node EXCEPT !.keys[index + 1] = key] ELSE node)

\* The callers, in Rebalance, give parts of nodes in order; it is not looked at.
AssignEntries(keys, refs) ==
    LET changed == [node EXCEPT !.keys = keys, !.refs = refs]
    IN  Call(Len(refs) = Fanout(changed) /\ Len(keys) <= node.page.capacity, changed)

\* The parent is only kept in memory; the level is in the page too.
SetParent(ref) ==
    /\ node' = [node EXCEPT !.parent = ref]
    /\ failed' = FALSE
    /\ Touch

SetLevel(level) ==
    /\ node' = [node EXCEPT !.level = level, !.page.level = level]
    /\ failed' = FALSE
    /\ Touch

-----------------------------------------------------------------------------
(***************************************************************************)
(* Pages that leave the node and come back.                                *)
(***************************************************************************)
\* The page is stored as it is, by IndexPage::clone or DatabaseFile::writePage,
\* and fromPage makes a node of it, ignoring what loadEntries returns.
Reload ==
    /\ node' = FromPage(node.class, node.page)
    /\ failed' = FALSE
    /\ origin' = "loaded"
    /\ before' = [keys |-> node.keys, refs |-> node.refs, level |-> node.level]

\* serialize to a buffer and deserialize from it: the page and its header are
\* read, the vectors are not read again.
SerializeDeserialize ==
    /\ node' = LET head == LoadedHeader(ZeroPage)
               IN  [node EXCEPT !.page = ZeroPage, !.level = head.level, !.parent = head.parent]
    /\ failed' = FALSE
    /\ origin' = "loaded"
    /\ before' = [keys |-> node.keys, refs |-> node.refs, level |-> node.level]

Create(class, config, level) ==
    /\ node' = Made(class, config, level)
    /\ failed' = FALSE
    /\ origin' = "made"
    /\ before' = Nothing

Init ==
    \E class \in {Leaf, Internal}, config \in Configs, level \in Levels :
        /\ node = Made(class, config, level)
        /\ failed = FALSE /\ origin = "made" /\ before = Nothing

Next ==
    \/ \E key \in Keys, ref \in Refs \cup {InvalidRef} :
          \/ LeafInsert(key, ref)
          \/ \E index \in 0 .. Len(node.keys) + 1 : InternalInsert(index, key, ref)
    \/ \E index \in 0 .. Len(node.keys) :
          EraseAt(index) \/ \E key \in Keys : SetKeyAt(index, key)
    \/ \E key \in Keys : LeafErase(key)
    \/ \E a \in Assignments : Sorted(a.keys, node.page.dup) /\ AssignEntries(a.keys, a.refs)
    \/ \E ref \in Refs : SetParent(ref)
    \/ \E level \in Levels : SetLevel(level)
    \/ Reload \/ SerializeDeserialize
    \/ \E class \in {Leaf, Internal}, config \in Configs, level \in Levels :
          Create(class, config, level)

Spec == Init /\ [][Next]_vars

-----------------------------------------------------------------------------
(***************************************************************************)
(* Properties.                                                             *)
(***************************************************************************)
\* validate() accepts every leaf that was created and then changed by insert,
\* erase and assignEntries with sorted keys, in any order, with keys of mixed
\* types, with and without duplicates, and after calls that failed.
LeafValidates == (origin = "made" /\ node.class = Leaf) => Validates(node)

\* The binary searches find, in any node whose keys are in order, what their
\* comments promise: "first index where keys[i] >= key", "first index where
\* keys[i] > key", and the first of the equal keys or the size.
SearchesExact ==
    Sorted(node.keys, TRUE) => \A key \in Keys :
        LET less  == {i \in DOMAIN node.keys : KeyLess(node.keys[i], key)}
            equal == {i \in DOMAIN node.keys : KeyEqual(node.keys[i], key)}
        IN  /\ LowerBound(node.keys, key) = Cardinality(less)
            /\ UpperBound(node.keys, key) = Cardinality(less \cup equal)
            /\ Find(node.keys, key) = IF equal = {} THEN Len(node.keys) ELSE Min(equal) - 1

\* A node that was made from a stored page, or deserialized, and that
\* validate() accepts has the entries and the level of the node that was
\* stored: what the writer lost is noticed.  An internal node without keys is
\* left out: it comes back with page 0 for its child, and is accepted.
LossIsSeen ==
    (origin = "loaded" /\ Validates(node) /\ (node.class = Leaf \/ node.keys # <<>>))
        => node.keys = before.keys /\ node.refs = before.refs /\ node.level = before.level

\* As long as its keys are no longer than its configuration says, a call that
\* returns an error leaves the node's entries alone: computeCapacity never
\* promises room that syncEntries, which fails after the change, does not have.
KeysFit(n) ==
    \A i \in DOMAIN n.keys : SerializedSize(n.keys[i]) + RefSize <= EntrySize(n.config)
FailedCallsKeepEntries ==
    [][(failed' /\ origin = "made" /\ KeysFit(node'))
            => node'.keys = node.keys /\ node'.refs = node.refs]_vars

\* What docs/btree_nodes.md promises ("Full page round-trip") and
\* tests/TestBTree.cpp:668 checks: a node made from a stored page has the
\* stored node's entries.  The code loses every entry.
ReloadKeepsEntries == origin = "loaded" => node.keys = before.keys /\ node.refs = before.refs

\* A node that lost its entries goes on being refused.  The code accepts it
\* after the next insert, which sets the count to that of the keys it has.
LossStaysSeen == origin = "lossy" => ~Validates(node)

\* A call that returns an error leaves the entries alone whatever the keys are.
\* BTree does not compare a key's type with its configuration, and the code
\* keeps the entry that did not fit.
FailedCallsKeepAnyEntries ==
    [][(failed' /\ origin = "made") => node'.keys = node.keys /\ node'.refs = node.refs]_vars
=============================================================================
