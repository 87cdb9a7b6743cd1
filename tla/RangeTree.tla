------------------------------ MODULE RangeTree ------------------------------
(***************************************************************************)
(* The tree of a memory manager (struct memory_manager, mem_mgmt.h) as the *)
(* map its users see: the first page of a range is sent to the node that   *)
(* describes the range.  Addresses are counted in 4 KiB pages.  The        *)
(* operators are those mem_mgmt.c uses on the tree; AvlTree.tla models the *)
(* linked nodes behind them.                                               *)
(***************************************************************************)
EXTENDS Integers

(* struct avl_node without its links: a range is free or allocated.        *)
Node(count, flag) == [page_count |-> count, allocated |-> flag]

(* addr + page_count * 0x1000: the page that follows the range at a.       *)
EndOf(t, a) == a + t[a].page_count

(* avl_insert: a new free range; an existing one at the address is reset.  *)
avl_insert(t, a, count) ==
  [x \in DOMAIN t \cup {a} |-> IF x = a THEN Node(count, 0) ELSE t[x]]

(* avl_remove: the range at a is forgotten.                                *)
avl_remove(t, a) == [x \in DOMAIN t \ {a} |-> t[x]]

(* avl_min_size: the free range of at least n pages that the traversal     *)
(* from the highest address down meets first; empty if there is none.      *)
Fits(t, n, a) == t[a].allocated = 0 /\ t[a].page_count >= n

avl_min_size(t, n) ==
  {a \in DOMAIN t : /\ Fits(t, n, a)
                    /\ \A b \in DOMAIN t : Fits(t, n, b) => b <= a}

(* avl_below: the range that ends where addr begins.                       *)
avl_below(t, a) == {b \in DOMAIN t : EndOf(t, b) = a}

-----------------------------------------------------------------------------
(* A mutation of alloc_virt: the remainder starts one page too early.      *)
alloc_virt_off_by_one(t, a, n) ==
  LET pages_diff == t[a].page_count - n
      split == IF pages_diff # 0 /\ n > 1
               THEN avl_insert(t, a + n - 1, pages_diff) ELSE t
  IN  [split EXCEPT ![a] = Node(n, 1)]

(* alloc_virt once avl_min_size has returned a: what the request leaves of *)
(* the range becomes a free range of its own, the front is allocated.      *)
alloc_virt(t, a, n) ==
  LET pages_diff == t[a].page_count - n
      split == IF pages_diff # 0 THEN avl_insert(t, a + n, pages_diff) ELSE t
  IN  [split EXCEPT ![a] = Node(n, 1)]

(* free_pages, first part: the node found at the address is marked free.   *)
Unmark(t, a) == [t EXCEPT ![a].allocated = 0]

(* The range at a swallows the one at b, whose node leaves the tree.       *)
Absorb(t, a, b) ==
  [avl_remove(t, b) EXCEPT ![a].page_count = @ + t[b].page_count]

(* free_pages, second part: the free range below absorbs the one at a.     *)
FreeBelow(t, a) == {b \in avl_below(t, a) : t[b].allocated = 0}

MergedStart(t, a) ==
  IF FreeBelow(t, a) = {} THEN a ELSE CHOOSE b \in FreeBelow(t, a) : TRUE

MergeBelow(t, a) ==
  IF FreeBelow(t, a) = {} THEN t ELSE Absorb(t, MergedStart(t, a), a)

(* free_pages, third part: the range at n absorbs a free range after it.   *)
MergeAfter(t, n) ==
  IF EndOf(t, n) \in DOMAIN t /\ t[EndOf(t, n)].allocated = 0
  THEN Absorb(t, n, EndOf(t, n)) ELSE t

(* A mutation of Coalesce: only the range below is merged.                 *)
CoalesceBelowOnly(t, a) == MergeBelow(t, a)

(* Both merges, in the order of the code.                                  *)
Coalesce(t, a) == MergeAfter(MergeBelow(t, a), MergedStart(t, a))

-----------------------------------------------------------------------------
(* create_mgr: one free range that spans the region.                       *)
create_mgr(addr_start, page_count) ==
  [x \in {addr_start} |-> Node(page_count, 0)]

-----------------------------------------------------------------------------
(* A map from pages of the region base .. base + n - 1 to nodes.            *)
IsTree(t, base, n) ==
  /\ t = [x \in DOMAIN t |-> t[x]]
  /\ DOMAIN t \subseteq base .. base + n - 1
  /\ \A a \in DOMAIN t : t[a] \in [page_count : 1 .. n, allocated : {0, 1}]

(* Its ranges cover the region, stay inside it and do not overlap.          *)
Tiles(t, base, n) ==
  /\ \A p \in base .. base + n - 1 : \E a \in DOMAIN t : a <= p /\ p < EndOf(t, a)
  /\ \A a \in DOMAIN t : EndOf(t, a) <= base + n
  /\ \A a, b \in DOMAIN t : a < b => EndOf(t, a) <= b

(* No free range other than those that start in S touches another one.      *)
CoalescedExcept(t, S) ==
  \A a, b \in DOMAIN t \ S :
    EndOf(t, a) = b => t[a].allocated = 1 \/ t[b].allocated = 1
=============================================================================
