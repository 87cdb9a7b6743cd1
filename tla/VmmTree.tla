------------------------------- MODULE VmmTree -------------------------------
(***************************************************************************)
(* alloc_virt and free_pages (mem_mgmt.c) on the linked tree, under the    *)
(* manager's lock, which makes each of them one step (MemMgr models the    *)
(* lock and the pages that are mapped).                                    *)
(***************************************************************************)
EXTENDS AvlTree

CONSTANTS Base,    \* addr_start of create_mgr, as a page number
          NPages,  \* page_count of create_mgr
          Stale    \* pointers that the stack slot of parent may hold

ASSUME VmmTreeAssumption == /\ Base \in Nat \ {0} /\ NPages \in Nat \ {0}
                            /\ Stale \subseteq Nodes \cup {NULL, Wild}

VARIABLES mem,   \* the page of nodes
          root   \* mgr->tree

vars == <<mem, root>>

(* create_mgr.                                                             *)
Init == LET r == insert_node(EmptyMemory, NULL, Base, NPages)
        IN  mem = r.m /\ root = r.node

(* alloc_virt, when there is room.  The node found keeps its place in      *)
(* memory while avl_insert rotates the nodes above it.                     *)
AllocVirt(count) ==
  LET n == avl_min_size(mem, root, count)
      pages_diff == mem.n[n].page_count - count
      r == IF pages_diff = 0 THEN [m |-> mem, node |-> root]
           ELSE insert_node(mem, root, mem.n[n].addr + count, pages_diff)
  IN  /\ n # NULL
      /\ pages_diff # 0 => CanCreate(mem)
      /\ mem' = [r.m EXCEPT !.n[n].page_count = count, !.n[n].allocated = 1]
      /\ root' = r.node

(* free_pages merges the range of node n with a free range below it.  The  *)
(* result names the node that now stands for the range.                    *)
MergeBelow(m, n, addr, garbage) ==
  LET prev == avl_below(m, root, addr)
      r == delete_node(m, root, addr, garbage)
  IN  IF prev = NULL \/ m.n[prev].allocated = 1 THEN [m |-> m, node |-> root, n |-> n]
      ELSE [m |-> [r.m EXCEPT !.n[prev].page_count = @ + m.n[n].page_count],
            node |-> r.node, n |-> prev]

(* A mutation of MergeAfter: the sum is taken after the removal, when the  *)
(* node of the range after may describe another range.                     *)
MergeAfterLate(m, x, n, garbage) ==
  LET after == avl_find(m, x, m.n[n].addr + m.n[n].page_count)
      r == delete_node(m, x, m.n[after].addr, garbage)
  IN  IF after = NULL \/ m.n[after].allocated = 1 THEN [m |-> m, node |-> x]
      ELSE [m |-> [r.m EXCEPT !.n[n].page_count = @ + r.m.n[after].page_count],
            node |-> r.node]

(* ... and with a free range after it.                                     *)
MergeAfter(m, x, n, garbage) ==
  LET after == avl_find(m, x, m.n[n].addr + m.n[n].page_count)
      grown == [m EXCEPT !.n[n].page_count = @ + m.n[after].page_count]
  IN  IF after = NULL \/ m.n[after].allocated = 1 THEN [m |-> m, node |-> x]
      ELSE delete_node(grown, x, m.n[after].addr, garbage)

(* free_pages of an address at which an allocation starts.                 *)
FreePages(addr) ==
  LET n == avl_find(mem, root, addr)
      freed == [mem EXCEPT !.n[n].allocated = 0]
  IN  /\ n # NULL /\ mem.n[n].allocated = 1
      /\ \E g1, g2 \in Stale :
           LET r == MergeBelow(freed, n, addr, g1)
               s == MergeAfter(r.m, r.node, r.n, g2)
           IN  mem' = s.m /\ root' = s.node

Next == \/ \E count \in 1 .. NPages : AllocVirt(count)
        \/ \E addr \in Base .. Base + NPages - 1 : FreePages(addr)

Spec == Init /\ [][Next]_vars

-----------------------------------------------------------------------------
(* The ranges the tree stores, as a map.                                   *)
Contents ==
  LET L == Linked(mem, root)
  IN  [a \in {mem.n[x].addr : x \in L} |->
         LET x == CHOOSE y \in L : mem.n[y].addr = a
         IN  [page_count |-> mem.n[x].page_count, allocated |-> mem.n[x].allocated]]

RM == INSTANCE RangeMap WITH tree <- Contents

(* As long as no removal has met the uninitialised parent, every call does *)
(* to the linked tree what RangeMap does to the map of ranges: rotations,  *)
(* and the removal that moves a successor into another node, never change  *)
(* which ranges there are, and the node pointers that alloc_virt and       *)
(* free_pages keep across them stay right.                                 *)
RefinesRangeMap == [][mem'.intact => [RM!Next]_Contents]_vars

(* The searches miss nothing: each linked node is the one avl_find returns *)
(* for its address, and avl_below for the page that follows it.            *)
SearchesComplete ==
  mem.intact =>
    \A x \in Linked(mem, root) :
      /\ avl_find(mem, root, mem.n[x].addr) = x
      /\ avl_below(mem, root, mem.n[x].addr + mem.n[x].page_count) = x

(* create_node cannot hand out a node that is linked.                      *)
LinkedNodesTaken ==
  mem.intact => \A x \in Linked(mem, root) : Marked(mem.hdr, x - 1)

(* Until a removal has moved a successor, insertions, removals and their   *)
(* rotations keep the tree balanced and the stored heights exact.          *)
BalancedUntilMove ==
  ~mem.moved =>
    \A x \in Linked(mem, root) :
      /\ Depth(mem, mem.n[x].left) - Depth(mem, mem.n[x].right) \in -1 .. 1
      /\ mem.n[x].height + 1 = Depth(mem, x)

(* "to store free and allocated ranges of memory" (README.md): no range is *)
(* stored by two nodes.                                                    *)
RangesStoredOnce ==
  \A x, y \in Linked(mem, root) : mem.n[x].addr = mem.n[y].addr => x = y
=============================================================================
