---------------------------- MODULE SpaceManager ----------------------------
(***************************************************************************)
(* space::SpaceManager: one PageAllocator for single pages and one         *)
(* ExtentAllocator (a FreeSpaceMap and an AllocationPolicy) for extents,   *)
(* over the same pages.  Clients allocate and free single pages, allocate  *)
(* and free extents, and reserve ranges; every call is one step.           *)
(***************************************************************************)
EXTENDS FreeExtents, Sequences, Bags

CONSTANTS
    CounterModulus,     \* the PageAllocator's counters wrap at this
    MaxExtentLength,    \* bound: longest extent a client asks for
    MaxGrants,          \* bound: extents held at once
    MaxReserved         \* bound: pages reserved by reserveRange

ASSUME BoundAssumption ==
    /\ CounterModulus \in Nat /\ CounterModulus > MaxPageId + 1
    /\ MaxExtentLength \in Nat /\ MaxGrants \in Nat /\ MaxReserved \in Nat

VARIABLES
    alloc,          \* pageAllocator_
    extents,        \* the FreeSpaceMap of extentAllocator_
    policy,         \* which AllocationPolicy the manager was built with
    cursor,         \* SequentialPolicy's cursor_
    statAllocated,  \* currentAllocatedPages of the statistics
    pageHolders,    \* observer: clients holding each page through allocatePage
    grants,         \* observer: bag of the extents held
    reserved        \* observer: pages taken by reserveRange

clients == <<pageHolders, grants, reserved>>
vars == <<alloc, extents, policy, cursor, statAllocated, clients>>

PA == INSTANCE PageAllocator
        WITH ReservedPageCount <- FirstDataPageId, holders <- pageHolders

Policies == {"FirstFit", "BestFit", "Sequential"}

\* The hints the policies read; minExtentLength and preferBeginning are ignored.
Hints == [exactFit : BOOLEAN, preferContiguous : BOOLEAN, preferEnd : BOOLEAN]

-----------------------------------------------------------------------------
(***************************************************************************)
(* The allocation policies: the extent each proposes for a request.        *)
(***************************************************************************)
FirstFit(length, hints) ==
    IF hints.exactFit THEN FindExactRange(extents, length)
    ELSE FindFreeRange(extents, length,
             ~ ((hints.preferContiguous \/ length > 1) /\ hints.preferEnd))

BestFit(length, hints) ==
    IF hints.exactFit THEN FindExactRange(extents, length)
    ELSE IF hints.preferContiguous \/ length > 1
    THEN FindBestRange(extents, length)
    ELSE FindFreeRange(extents, length, TRUE)

\* Mutants of Sequential: the length is not looked at; the search does not
\* start again at the front.
SequentialAnyLength(length) ==
    IF extents = {} THEN NoExtent
    ELSE Extent(First(extents).start, length)
SequentialNoWrap(length) ==
    LET behind == {e \in extents : e.length >= length /\ e.start >= cursor}
    IN  IF behind = {} THEN NoExtent
        ELSE Extent(First(behind).start, length)

\* The first extent at or behind the cursor that is long enough, else the
\* first one in front of it.
Sequential(length) ==
    LET fits   == {e \in extents : e.length >= length}
        behind == {e \in fits : e.start >= cursor}
    IN  IF fits = {} THEN NoExtent
        ELSE Extent(First(IF behind # {} THEN behind ELSE fits).start, length)

Propose(length, hints) ==
    CASE policy = "FirstFit" -> FirstFit(length, hints)
      [] policy = "BestFit" -> BestFit(length, hints)
      [] policy = "Sequential" -> Sequential(length)

-----------------------------------------------------------------------------
(***************************************************************************)
(* The operations.                                                         *)
(***************************************************************************)
Init == /\ alloc = PA!Fresh
        /\ extents = Initialize
        /\ policy \in Policies
        /\ cursor = FirstDataPageId
        /\ statAllocated = 0
        /\ pageHolders = [p \in Pages |-> 0]
        /\ grants = EmptyBag
        /\ reserved = {}

OnePage(id) == Extent(id, 1)

\* SpaceStatisticsCollector::update, on the map the operation leaves.
Refreshed == MaxPageId + 1 - CountFree(extents')

\* SpaceStats::recordFree(true).
OneLess == IF statAllocated > 0 THEN statAllocated - 1 ELSE 0

\* Mutant of RolledBack: the page is not given back.
NotRolledBack(id) == PA!AfterAllocate(alloc)

\* allocatePage's roll back, after its PageAllocator handed out the page id.
RolledBack(id) == PA!AfterFree(PA!AfterAllocate(alloc), id)

AllocatePage ==
    LET id == PA!AllocateResult(alloc)
        ok == id # InvalidPageId /\ MayAllocate(extents, OnePage(id))
    IN  /\ IF ok
           THEN /\ alloc' = PA!AfterAllocate(alloc)
                /\ extents' = AfterMarkAllocated(extents, OnePage(id))
                /\ statAllocated' = statAllocated + 1
                /\ pageHolders' = [pageHolders EXCEPT ![id] = @ + 1]
           ELSE \* nothing to hand out, or the map refuses: roll back
                /\ alloc' = RolledBack(id)
                /\ UNCHANGED <<extents, statAllocated, pageHolders>>
        /\ UNCHANGED <<policy, cursor, grants, reserved>>

\* Mutant of FreePage: the map is not told.
FreePageKeepsMap(id) ==
    /\ IF PA!MayFree(alloc, id)
       THEN /\ alloc' = PA!AfterFree(alloc, id)
            /\ statAllocated' = OneLess
            /\ pageHolders' = [pageHolders EXCEPT ![id] = @ - 1]
       ELSE UNCHANGED <<alloc, statAllocated, pageHolders>>
    /\ UNCHANGED <<extents, policy, cursor, grants, reserved>>

FreePage(id) ==
    /\ IF PA!MayFree(alloc, id)
       THEN /\ alloc' = PA!AfterFree(alloc, id)
            /\ extents' = AfterMarkFree(extents, OnePage(id))
            /\ statAllocated' = OneLess
            /\ pageHolders' = [pageHolders EXCEPT ![id] = @ - 1]
       ELSE UNCHANGED <<alloc, extents, statAllocated, pageHolders>>
    /\ UNCHANGED <<policy, cursor, grants, reserved>>

\* Where the policy's cursor is after it proposed e.
NextCursor(e) ==
    IF policy = "Sequential" /\ e # NoExtent THEN e.start ELSE cursor

\* The policy proposes an extent (and moves its cursor), the map takes it.
AllocateExtent(length, hints) ==
    LET e  == Propose(length, hints)
        ok == e # NoExtent /\ MayAllocate(extents, e)
    IN  /\ BagCardinality(grants) < MaxGrants
        /\ cursor' = NextCursor(e)
        /\ IF ok
           THEN /\ extents' = AfterMarkAllocated(extents, e)
                /\ statAllocated' = Refreshed
                /\ grants' = grants (+) SetToBag({e})
           ELSE UNCHANGED <<extents, statAllocated, grants>>
        /\ UNCHANGED <<alloc, policy, pageHolders, reserved>>

\* A client gives back an extent it was given.
FreeExtent(e) ==
    /\ extents' = AfterMarkFree(extents, e)
    /\ statAllocated' = Refreshed
    /\ grants' = grants (-) SetToBag({e})
    /\ UNCHANGED <<alloc, policy, cursor, pageHolders, reserved>>

\* A range is reserved, whoever may hold part of it, if the map has any of it.
ReserveRange(r) ==
    /\ Cardinality(reserved \cup PagesOf(r)) <= MaxReserved
    /\ r.start >= FirstDataPageId
    /\ MayAllocate(extents, r)
    /\ extents' = AfterMarkAllocated(extents, r)
    /\ statAllocated' = Refreshed
    /\ reserved' = reserved \cup PagesOf(r)
    /\ UNCHANGED <<alloc, policy, cursor, pageHolders, grants>>

\* reset() keeps the policy object, and so the cursor.
Reset ==
    /\ alloc' = PA!Fresh
    /\ extents' = Initialize
    /\ statAllocated' = 0
    /\ pageHolders' = [p \in Pages |-> 0]
    /\ grants' = EmptyBag
    /\ reserved' = {}
    /\ UNCHANGED <<policy, cursor>>

\* allocatedPageCount(): the pages that the map does not have.
AllocatedPageCount == MaxPageId - FirstDataPageId + 1 - CountFree(extents)

\* Vacuum::run: the statistics are computed anew; no page is moved or freed.
\* (It counts the managed pages only, the other calls of update() all pages.)
Vacuum ==
    /\ statAllocated' = AllocatedPageCount
    /\ UNCHANGED <<alloc, extents, policy, cursor, clients>>

Next ==
    \/ AllocatePage
    \/ Vacuum
    \/ \E id \in 0 .. MaxPageId + 1 : FreePage(id)
    \/ \E n \in 1 .. MaxExtentLength, h \in Hints : AllocateExtent(n, h)
    \/ \E e \in BagToSet(grants) : FreeExtent(e)
    \/ \E r \in Extents : ReserveRange(r)
    \/ Reset

Spec == Init /\ [][Next]_vars

-----------------------------------------------------------------------------
(***************************************************************************)
(* Properties.                                                             *)
(***************************************************************************)
FreePages == PagesIn(extents)

HeldPages == {p \in Pages : pageHolders[p] > 0}
             \cup PagesIn(BagToSet(grants))
             \cup reserved

\* A page that nobody holds is free in the map: no rollback, no merge and no
\* return of an overlapping extent ever loses a page.
NoPageLeaks == Pages \ HeldPages \subseteq FreePages

\* isAllocated is exact for the pages handed out by allocatePage: a page is
\* never given to two callers of allocatePage, and the roll back after the map
\* refuses a page leaves the PageAllocator as if it had not been asked.
PageHoldersExact == PA!HoldersExact

\* How many times the extent e is held.
TimesHeld(e, bag) == IF BagIn(e, bag) THEN bag[e] ELSE 0

\* An extent is only handed out over pages that the map shows as free.
GrantsComeFromMap ==
    [][\A e \in Extents :
          TimesHeld(e, grants') > TimesHeld(e, grants) =>
              PagesOf(e) \subseteq FreePages]_vars

\* allocateExtent gives up only when no free run of that length exists (or,
\* with exactFit, no free extent of exactly that length), for every policy
\* and wherever the sequential cursor stands.
ExtentSearchComplete ==
    \A n \in 1 .. MaxExtentLength, h \in Hints :
        Propose(n, h) = NoExtent =>
            \A e \in extents : IF h.exactFit /\ policy # "Sequential"
                               THEN e.length # n ELSE e.length < n

\* allocatedPageCount() is the number of pages held (tests/TestSpace.cpp:744,
\* "CHECK(sm.allocatedPageCount() == 23)" after 10 pages and extents of 5 and 8).
AllocatedCountExact == AllocatedPageCount = Cardinality(HeldPages)

\* "Both are kept in sync by SpaceManager" (docs/space_management.md:166): a
\* page that the PageAllocator will reuse is free in the map.
FreeListInSync == Range(alloc.freeList) \subseteq FreePages

\* currentAllocatedPages is the "Currently allocated page count"
\* (docs/space_management.md:159): never more than the pages that are held.
StatAtMostHeld == statAllocated <= Cardinality(HeldPages)
=============================================================================
