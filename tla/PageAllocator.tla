---------------------------- MODULE PageAllocator ----------------------------
(***************************************************************************)
(* storage::PageAllocator: single page ids, handed out from a LIFO list of *)
(* freed ids or, when that is empty, from a counter.                       *)
(*                                                                         *)
(* The object is one record, and each method is an operator from the       *)
(* record to the record it leaves, so that SpaceManager can run two of     *)
(* them in one step (allocate, then the roll back).  The statistics are    *)
(* the uint32 counters of AllocatorStats, which wrap at CounterModulus.    *)
(* Two of its fields are not kept here: freeListSize is always written as  *)
(* the list's length, and nextPageId is never written at all.              *)
(***************************************************************************)
EXTENDS Integers, Sequences, FiniteSets, Functions

CONSTANTS
    ReservedPageCount,  \* ids below it are never handed out (8)
    MaxPageId,          \* the largest page id (2^20 - 1)
    InvalidPageId,      \* what allocate returns when it has no page
    CounterModulus      \* the counters are unsigned integers modulo this

ASSUME PageIdAssumption ==
    /\ ReservedPageCount \in Nat
    /\ MaxPageId \in Nat
    /\ InvalidPageId \in Nat
    /\ CounterModulus \in Nat
    /\ ReservedPageCount <= MaxPageId + 1
    /\ InvalidPageId > MaxPageId + 1
    /\ CounterModulus > MaxPageId + 1

DataPages == ReservedPageCount .. MaxPageId

VARIABLES
    alloc,      \* the PageAllocator object
    holders     \* observer: how many clients hold each page (see PagePool)

vars == <<alloc, holders>>

-----------------------------------------------------------------------------
(***************************************************************************)
(* The methods.                                                            *)
(***************************************************************************)
Fresh == [freeList |-> <<>>, nextPageId |-> ReservedPageCount,
          totalAllocated |-> 0, totalFreed |-> 0,
          currentAllocated |-> 0, peakAllocated |-> 0]

Tick(n) == (n + 1) % CounterModulus

\* Mutants of AllocateResult: the oldest freed id instead of the newest; an
\* off-by-one at the last page.
AllocateResultFront(a) ==
    IF a.freeList # <<>> THEN a.freeList[1]
    ELSE IF a.nextPageId > MaxPageId THEN InvalidPageId
    ELSE a.nextPageId
AllocateResultEarly(a) ==
    IF a.freeList # <<>> THEN a.freeList[Len(a.freeList)]
    ELSE IF a.nextPageId >= MaxPageId THEN InvalidPageId
    ELSE a.nextPageId

\* The page id allocate() returns.
AllocateResult(a) ==
    IF a.freeList # <<>> THEN a.freeList[Len(a.freeList)]
    ELSE IF a.nextPageId > MaxPageId THEN InvalidPageId
    ELSE a.nextPageId

\* The object after a page was found: the counters are the same for both
\* sources of pages, the list and the id counter are what the source leaves.
Took(a, list, next) ==
    [freeList |-> list, nextPageId |-> next,
     totalAllocated |-> Tick(a.totalAllocated), totalFreed |-> a.totalFreed,
     currentAllocated |-> Tick(a.currentAllocated),
     peakAllocated |-> IF Tick(a.currentAllocated) > a.peakAllocated
                       THEN Tick(a.currentAllocated) ELSE a.peakAllocated]

AfterAllocate(a) ==
    IF a.freeList # <<>>
    THEN Took(a, SubSeq(a.freeList, 1, Len(a.freeList) - 1), a.nextPageId)
    ELSE IF a.nextPageId > MaxPageId THEN a
    ELSE Took(a, a.freeList, a.nextPageId + 1)

\* Mutant of MayFree: no check for an id that is already in the list.
MayFreeTwice(a, id) ==
    id # InvalidPageId /\ id >= ReservedPageCount /\ id < a.nextPageId

\* free(id) succeeds.
MayFree(a, id) ==
    /\ id # InvalidPageId
    /\ id >= ReservedPageCount
    /\ id < a.nextPageId
    /\ id \notin Range(a.freeList)

\* Mutant of AfterFree: currentAllocated is forgotten.
AfterFreeKeepsCurrent(a, id) ==
    IF MayFree(a, id)
    THEN [a EXCEPT !.freeList = Append(@, id), !.totalFreed = Tick(@)]
    ELSE a

AfterFree(a, id) ==
    IF MayFree(a, id)
    THEN [a EXCEPT !.freeList = Append(@, id),
                   !.totalFreed = Tick(@),
                   !.currentAllocated = (@ - 1) % CounterModulus]
    ELSE a

IsAllocated(a, id) ==
    /\ id # InvalidPageId
    /\ id < a.nextPageId
    /\ (id < ReservedPageCount \/ id \notin Range(a.freeList))

-----------------------------------------------------------------------------
(***************************************************************************)
(* The system: clients allocate, free any id they like, and reset.         *)
(***************************************************************************)
Init == /\ alloc = Fresh
        /\ holders = [p \in DataPages |-> 0]

Allocate ==
    /\ alloc' = AfterAllocate(alloc)
    /\ holders' = IF AllocateResult(alloc) = InvalidPageId THEN holders
                  ELSE [holders EXCEPT ![AllocateResult(alloc)] = @ + 1]

Free(id) ==
    /\ alloc' = AfterFree(alloc, id)
    /\ holders' = IF MayFree(alloc, id)
                  THEN [holders EXCEPT ![id] = @ - 1] ELSE holders

Reset == /\ alloc' = Fresh
         /\ holders' = [p \in DataPages |-> 0]

Next == \/ Allocate
        \/ \E id \in 0 .. MaxPageId + 1 \cup {InvalidPageId} : Free(id)
        \/ Reset

Spec == Init /\ [][Next]_vars

-----------------------------------------------------------------------------
(***************************************************************************)
(* Properties.                                                             *)
(***************************************************************************)
Counter == 0 .. CounterModulus - 1

\* The object's fields are in their types; the observer counts every page.
TypeOK ==
    /\ alloc \in [freeList : Seq(DataPages),
                  nextPageId : ReservedPageCount .. MaxPageId + 1,
                  totalAllocated : Counter, totalFreed : Counter,
                  currentAllocated : Counter, peakAllocated : Counter]
    /\ holders \in [DataPages -> Nat]

\* After any sequence of allocate, free (of any id, twice, or never handed
\* out) and reset, isAllocated tells exactly which pages are out, and each of
\* them is out once: no page is handed to a second client, and no free of a
\* stranger's or an already freed id takes a page from its holder.
HoldersExact ==
    \A p \in DataPages : holders[p] = IF IsAllocated(alloc, p) THEN 1 ELSE 0

\* allocatedCount() is the number of pages that are out: the unsigned
\* decrement in free never runs below zero and no path skips a counter.
CountExact ==
    alloc.currentAllocated = Cardinality({p \in DataPages : holders[p] > 0})

\* The id counter only moves when every id below it is out, so the ids ever
\* minted (which is how far the file must reach) are exactly as many as were
\* out at the worst moment, which is what peakCount() reports.
PeakIsHighWater ==
    alloc.nextPageId - ReservedPageCount = alloc.peakAllocated

\* allocate() returns kInvalidPageId only when every data page is out: no
\* freed page is lost to the allocator.
ExhaustedOnlyWhenFull ==
    AllocateResult(alloc) = InvalidPageId =>
        \A p \in DataPages : holders[p] > 0

Pool == INSTANCE PagePool WITH Pages <- DataPages

\* PageAllocator keeps the promise of PagePool: each allocate grants a page
\* that nobody holds and each successful free returns one that is held.
ImplementsPagePool == Pool!Spec
=============================================================================
