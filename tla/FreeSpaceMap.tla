---------------------------- MODULE FreeSpaceMap ----------------------------
(***************************************************************************)
(* space::FreeSpaceMap on its own: any range of managed pages is marked as *)
(* allocated or free, in any order.  What each method does to the extents, *)
(* and what the searches return, is in module FreeExtents.                 *)
(***************************************************************************)
EXTENDS FreeExtents

VARIABLES
    map,        \* the extents
    free        \* observer: the pages that the successful calls leave free

mapVars == <<map, free>>

MapInit == map = Initialize /\ free = Pages

MarkAllocated(r) ==
    /\ map' = AfterMarkAllocated(map, r)
    /\ free' = IF MayAllocate(map, r) THEN free \ PagesOf(r) ELSE free

MarkFree(r) ==
    /\ map' = AfterMarkFree(map, r)
    /\ free' = free \cup PagesOf(r)

Clear == map' = {} /\ free' = {}

MapNext ==
    \/ \E r \in Extents : MarkAllocated(r) \/ MarkFree(r)
    \/ Clear

MapSpec == MapInit /\ [][MapNext]_mapVars

-----------------------------------------------------------------------------
(***************************************************************************)
(* Properties.                                                             *)
(***************************************************************************)
MapPages == PagesIn(map)

\* No free page is forgotten: markAllocated takes nothing outside its range
\* and markFree's merging covers everything that it erases.
NeverLosesPages == free \subseteq MapPages

\* validate() accepts the map after any sequence of marks, however the ranges
\* given overlap the ones that are there: the extents stay disjoint and never
\* adjacent.  So the report of FragmentationAnalyzer, made from extents, is what
\* the free pages say: their runs, the longest and the shortest of them, how many
\* pages are used, and no fragmentation exactly if there is at most one run.
ReportExact ==
    LET total  == Cardinality(Pages)
        report == Analyze(map, total)
        starts == {p \in MapPages : p - 1 \notin MapPages}
        runs   == {Max({n \in 1 .. total : p .. p + n - 1 \subseteq MapPages}) : p \in starts}
    IN  /\ Validate(map)
        /\ report.extentCount = Cardinality(starts)
        /\ report.totalFreePages = Cardinality(MapPages)
        /\ report.largest = Max({0} \cup runs)
        /\ report.smallest = IF runs = {} THEN 0 ELSE Min(runs)
        /\ report.density = <<Cardinality(Pages \ MapPages), total>>
        /\ report.fragmentation[1] > 0 <=> Cardinality(starts) > 1
        /\ report.recommendation = "defragment" <=>
               runs # {} /\ \A n \in runs : 2 * n < Cardinality(MapPages)

\* contains(page), a binary search that looks at two extents only, agrees with
\* the extents for every page.
ContainsExact == \A p \in Pages : ContainsPage(map, p) <=> p \in MapPages

\* What a search for a run returns is free and has the length asked for; if it
\* returns nothing, no run of that length is free.
FindsExact ==
    \A n \in 1 .. MaxPageId + 1 - FirstDataPageId :
        LET runFree == \E p \in Pages : p .. p + n - 1 \subseteq MapPages
        IN  \A x \in {FindFreeRange(map, n, TRUE),
                      FindFreeRange(map, n, FALSE),
                      FindBestRange(map, n)} :
                /\ x # NoExtent <=> runFree
                /\ x # NoExtent => x.length = n /\ PagesOf(x) \subseteq MapPages

\* contains(page), the searches for a run and the report of FragmentationAnalyzer
\* say exactly what the free pages say.
SearchesSound == ContainsExact /\ FindsExact /\ ReportExact

\* After markAllocated(range) returns success none of the range is free
\* (tests/TestSpace.cpp:181-183, "CHECK_FALSE(fsm.contains(100))").
AllocatedIsNotFree == MapPages \subseteq free
=============================================================================
