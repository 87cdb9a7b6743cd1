------------------------------ MODULE RangeMap ------------------------------
(***************************************************************************)
(* What a memory manager promises its callers about virtual memory: each   *)
(* allocation and each release takes effect at one instant, on the map     *)
(* from first pages to ranges.  A request that cannot be met, and a        *)
(* release of an address at which no allocation starts, change nothing and *)
(* are stuttering steps here.                                              *)
(***************************************************************************)
EXTENDS RangeTree

CONSTANTS Base,    \* addr_start of create_mgr, as a page number
          NPages   \* page_count of create_mgr

ASSUME RegionAssumption == Base \in Nat \ {0} /\ NPages \in Nat \ {0}

VARIABLE tree      \* mgr->tree

Pages == Base .. Base + NPages - 1

Init == tree = create_mgr(Base, NPages)

(* The virtual half of malloc_pages and map_memory.                        *)
Alloc(n) == \E a \in avl_min_size(tree, n) : tree' = alloc_virt(tree, a, n)

(* The virtual half of free_pages.                                         *)
Free(a) == /\ a \in DOMAIN tree
           /\ tree[a].allocated = 1
           /\ tree' = Coalesce(Unmark(tree, a), a)

Next == \/ \E n \in 1 .. NPages : Alloc(n)
        \/ \E a \in Pages : Free(a)

Spec == Init /\ [][Next]_tree

-----------------------------------------------------------------------------
(* Each range is a non-empty run of pages of the region.                   *)
TypeOK == IsTree(tree, Base, NPages)

(* The ranges tile the region: every page of it is in a range, ranges end  *)
(* inside it and no two overlap, so that no address is handed to two       *)
(* callers and none is lost by the splits and merges of mem_mgmt.c.        *)
Tiling == Tiles(tree, Base, NPages)

(* free_pages merges with both neighbours, so two free ranges never touch. *)
Coalesced == CoalescedExcept(tree, {})

(* Once everything has been freed, in whatever order, the region is one    *)
(* free range again, as create_mgr left it.                                *)
NoFragments == (\A a \in DOMAIN tree : tree[a].allocated = 0)
                 => tree = create_mgr(Base, NPages)
=============================================================================
