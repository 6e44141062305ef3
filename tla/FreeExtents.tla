----------------------------- MODULE FreeExtents -----------------------------
(***************************************************************************)
(* space::Extent, and space::FreeSpaceMap as a value: the free pages as a  *)
(* vector of extents, sorted by their first page.  No two extents of the   *)
(* vector ever start at the same page, so the vector is modelled by the set *)
(* of its extents: "the first extent such that" is the one with the least  *)
(* start, "the extent before it" the one with the greatest smaller start.  *)
(*                                                                         *)
(* The two loops of the class go over the extents that the given range     *)
(* overlaps (markAllocated) or touches (markFree).  They are written here  *)
(* as what they do to each extent: Trim, and the hull of what is absorbed. *)
(***************************************************************************)
EXTENDS Integers, FiniteSets, FiniteSetsExt

CONSTANTS
    FirstDataPageId,    \* first page the map manages (8)
    MaxPageId,          \* last page it manages (2^20 - 1)
    InvalidPageId       \* the start of the extent that stands for "none"

ASSUME SpaceAssumption ==
    /\ FirstDataPageId \in Nat
    /\ MaxPageId \in Nat
    /\ InvalidPageId \in Nat
    /\ FirstDataPageId <= MaxPageId
    /\ InvalidPageId > MaxPageId + 1

Pages == FirstDataPageId .. MaxPageId

-----------------------------------------------------------------------------
(***************************************************************************)
(* Extents.                                                                *)
(***************************************************************************)
Extent(start, length) == [start |-> start, length |-> length]

\* The default-constructed Extent, which isValid() rejects.
NoExtent == Extent(InvalidPageId, 0)

\* The extents that lie in the managed pages.
Extents == {e \in [start : Pages, length : 1 .. MaxPageId + 1 - FirstDataPageId] :
                e.start + e.length <= MaxPageId + 1}

IsValid(e) == e.length > 0 /\ e.start # InvalidPageId

EndPage(e) == e.start + e.length

PagesOf(e) == e.start .. EndPage(e) - 1

Contains(e, f) ==
    IsValid(f) /\ f.start >= e.start /\ EndPage(f) <= EndPage(e)

Intersects(e, f) ==
    /\ IsValid(e) /\ IsValid(f)
    /\ e.start < EndPage(f) /\ f.start < EndPage(e)

AdjacentTo(e, f) ==
    /\ IsValid(e) /\ IsValid(f)
    /\ EndPage(e) = f.start \/ EndPage(f) = e.start

CanMerge(e, f) == Intersects(e, f) \/ AdjacentTo(e, f)

-----------------------------------------------------------------------------
(***************************************************************************)
(* markAllocated and markFree, on a set E of extents.                      *)
(***************************************************************************)

\* Mutant of Trim: the part behind the range is dropped.
TrimDropsTail(e, r) ==
    IF ~ Intersects(e, r) \/ (Contains(e, r) /\ e # r /\ e.start = r.start)
    THEN {e}
    ELSE {x \in {Extent(e.start, r.start - e.start)} : x.length > 0}

\* What is left of the free extent e when the range r is taken.  split()
\* refuses to cut an extent at its first page, and the caller then leaves the
\* extent as it is: a range at the start of a longer extent is not taken.
Trim(e, r) ==
    IF ~ Intersects(e, r) \/ (Contains(e, r) /\ e # r /\ e.start = r.start)
    THEN {e}
    ELSE {x \in {Extent(e.start, r.start - e.start),
                 Extent(EndPage(r), EndPage(e) - EndPage(r))} : x.length > 0}

\* markAllocated(r) succeeds.
MayAllocate(E, r) == IsValid(r) /\ \E e \in E : Intersects(e, r)

AfterMarkAllocated(E, r) ==
    IF MayAllocate(E, r) THEN UNION {Trim(e, r) : e \in E} ELSE E

\* The free extents that markFree(r) absorbs, and the hull it leaves.  Free
\* extents do not touch each other, so at most one of them reaches r from the
\* left (the code's prev) and at most one ends behind it.
Absorbed(E, r) == {e \in E : CanMerge(e, r)}

Hull(A, r) ==
    LET left  == {e \in A : e.start < r.start}
        right == {e \in A : EndPage(e) > EndPage(r)}
        from  == IF left = {} THEN r.start ELSE (CHOOSE e \in left : TRUE).start
        to    == IF right = {} THEN EndPage(r)
                 ELSE EndPage(CHOOSE e \in right : TRUE)
    IN  Extent(from, to - from)

AfterMarkFree(E, r) ==
    IF IsValid(r)
    THEN (E \ Absorbed(E, r)) \cup {Hull(Absorbed(E, r), r)}
    ELSE E

-----------------------------------------------------------------------------
(***************************************************************************)
(* The searches.  Each returns NoExtent when it finds nothing.             *)
(***************************************************************************)
First(S) == CHOOSE e \in S : \A f \in S : e.start <= f.start

LastOf(S) == CHOOSE e \in S : \A f \in S : e.start >= f.start

\* Mutant of FindFreeRange: an extent of exactly the length is passed over.
FindFreeRangeStrict(E, length, preferBeginning) ==
    LET fits == {e \in E : e.length > length}
    IN  IF fits = {} THEN NoExtent ELSE Extent(First(fits).start, length)

FindFreeRange(E, length, preferBeginning) ==
    LET fits == {e \in E : e.length >= length}
    IN  IF fits = {} \/ length = 0 THEN NoExtent
        ELSE IF preferBeginning THEN Extent(First(fits).start, length)
        ELSE Extent(EndPage(LastOf(fits)) - length, length)

FindExactRange(E, length) ==
    LET fits == {e \in E : e.length = length}
    IN  IF fits = {} THEN NoExtent ELSE First(fits)

FindBestRange(E, length) ==
    LET fits == {e \in E : e.length >= length}
        best == {e \in fits : \A f \in fits : e.length <= f.length}
    IN  IF fits = {} THEN NoExtent ELSE Extent(First(best).start, length)

\* contains(page): the extent that starts there, or else the one before it.
ContainsPage(E, page) ==
    LET before == {e \in E : e.start < page}
    IN  \/ \E e \in E : e.start = page
        \/ before # {} /\ page \in PagesOf(LastOf(before))

CountFree(E) == MapThenSumSet(LAMBDA e : e.length, E)

-----------------------------------------------------------------------------
(***************************************************************************)
(* FragmentationAnalyzer.  Its figures are quotients <<part, whole>>.       *)
(***************************************************************************)
LargestFreeExtent(E) == Max({0} \cup {e.length : e \in E})

\* The part of the free pages that is not in the largest extent.
CalculateFragmentation(E) ==
    IF Cardinality(E) <= 1 THEN <<0, 1>>
    ELSE <<CountFree(E) - LargestFreeExtent(E), CountFree(E)>>

AverageFreeExtentSize(E) == IF E = {} THEN <<0, 1>> ELSE <<CountFree(E), Cardinality(E)>>

AllocationDensity(E, total) == IF total = 0 THEN <<0, 1>> ELSE <<total - CountFree(E), total>>

MorePercent(quotient, percent) == 100 * quotient[1] > percent * quotient[2]

Analyze(E, total) ==
    LET fragmentation == CalculateFragmentation(E)
    IN  [extentCount |-> Cardinality(E), totalFreePages |-> CountFree(E),
         largest |-> LargestFreeExtent(E),
         smallest |-> IF E = {} THEN 0 ELSE Min({e.length : e \in E}),
         average |-> AverageFreeExtentSize(E),
         fragmentation |-> fragmentation,
         density |-> AllocationDensity(E, total),
         recommendation |-> IF MorePercent(fragmentation, 50) THEN "defragment"
                            ELSE IF MorePercent(fragmentation, 25) THEN "monitor"
                            ELSE "fine"]

-----------------------------------------------------------------------------

\* validate() succeeds: valid, sorted, disjoint, not adjacent.
Validate(E) ==
    /\ \A e \in E : IsValid(e)
    /\ \A e, f \in E : e # f => ~ CanMerge(e, f)

\* The pages that the extents of E cover.
PagesIn(E) == UNION {PagesOf(e) : e \in E}

\* initialize(): every managed page is free.
Initialize == {Extent(FirstDataPageId, MaxPageId - FirstDataPageId + 1)}
=============================================================================
