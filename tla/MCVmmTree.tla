------------------------------ MODULE MCVmmTree ------------------------------
EXTENDS VmmTree

(* Nothing is claimed of a tree that a removal has damaged.                *)
StillIntact == mem.intact

(* The tree below x as a term.  Node 1 is told apart because its bit is    *)
(* the only one that free_node clears.                                     *)
RECURSIVE Shape(_)
Shape(x) ==
  IF x = NULL THEN <<>>
  ELSE LET n == mem.n[x]
       IN  <<n.addr, n.page_count, n.allocated, n.height, x = 1, Shape(n.left), Shape(n.right)>>

(* Two states with one view differ in the numbers of nodes other than 1    *)
(* and in what unlinked nodes hold, which no step reads.                   *)
TreeView == IF mem.intact THEN <<Shape(root), mem.hdr, mem.moved>> ELSE vars

NullOrNode == {NULL, 1}
=============================================================================
