------------------------------ MODULE MCBTree ------------------------------
(***************************************************************************)
(* BTree for TLC.  The capacities are the smallest ones with a minimum     *)
(* occupancy of one key, so that every split, rotation, merge, growth and  *)
(* collapse of the root happens within a few keys.                         *)
(*                                                                         *)
(* ShapeView identifies states that differ only in the names of the pages, *)
(* in the data references of the leaves, in the observer and in the last   *)
(* status: no guard and none of the properties of the runs that use it     *)
(* depends on those.                                                       *)
(***************************************************************************)
EXTENDS BTree

RECURSIVE Form(_)

\* The subtree below a page, without page names and data references.
Form(id) ==
    LET node == tree.nodes[id]
    IN  IF node.leaf
        THEN node.keys
        ELSE <<node.keys, [i \in DOMAIN node.refs |-> Form(node.refs[i])]>>

ShapeView ==
    <<IF tree.root = NoPage THEN <<>> ELSE Form(tree.root),
      Cardinality(Orphans(tree)), tree.size, tree.height, faults>>

============================================================================
