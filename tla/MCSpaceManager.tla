--------------------------- MODULE MCSpaceManager ---------------------------
(***************************************************************************)
(* Four managed pages, extents of up to two of them.  The statistics only  *)
(* record what happened and no operation reads them, so the passing run    *)
(* looks at states without them.                                           *)
(***************************************************************************)
EXTENDS SpaceManager

WithoutStatistics ==
    <<alloc.freeList, alloc.nextPageId, alloc.currentAllocated,
      alloc.peakAllocated, extents, policy, cursor, clients>>
=============================================================================
