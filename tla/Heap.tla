-------------------------------- MODULE Heap --------------------------------
(***************************************************************************)
(* Clients that call malloc and free of heap.c.  The heap keeps its lists   *)
(* right only for clients that release blocks in stack order within a page, *)
(* keep one block in every page and ask for no more than a page block: the  *)
(* variable disciplined records whether the calls so far have been of that  *)
(* kind, and the properties say what such clients can rely on.              *)
(***************************************************************************)
EXTENDS HeapMem

CONSTANTS Sizes,      \* bound: the sizes clients ask for
          MaxLive     \* bound: blocks allocated at one time

ASSUME ClientAssumption == Sizes \subseteq Nat /\ MaxLive \in Nat

VARIABLES heap,        \* heap_root and the memory behind it
          held,        \* what clients hold, oldest first: [addr, size]
          disciplined  \* history

Init == heap = EmptyHeap /\ held = << >> /\ disciplined = TRUE

(* A request the page block can hold, with a page left if one is needed.    *)
Malloc(size) ==
  LET r == malloc(heap, size)
  IN  /\ Len(held) < MaxLive
      /\ heap' = r.heap
      /\ held' = Append(held, [addr |-> r.addr, size |-> size])
      /\ disciplined' = /\ disciplined
                        /\ size <= PageSize - Hdr - Hdr
                        /\ \/ Fitting(heap, size) # << >>
                           \/ malloc_pages(heap) # NULL

(* A release of the block that was allocated last in its page and is not    *)
(* the only one there.                                                      *)
SamePage(i, j) == heap.blk[held[i].addr].pghdr = heap.blk[held[j].addr].pghdr

Free(i) ==
  /\ heap' = free(heap, held[i].addr)
  /\ held' = RemoveAt(held, i)
  /\ disciplined' = /\ disciplined
                    /\ \A j \in DOMAIN held : j > i => ~SamePage(i, j)
                    /\ \E j \in DOMAIN held : j < i /\ SamePage(i, j)

Next == \/ \E size \in Sizes : Malloc(size)
        \/ \E i \in DOMAIN held : Free(i)

Spec == Init /\ [][Next]_<<heap, held, disciplined>>

-----------------------------------------------------------------------------
(* The bytes of block b, header included.                                   *)
Extent(b) == b .. BlockEnd(heap, b) - 1

Blocks(p) == FreeList(heap, p) \o AllocatedList(heap, p)

(* The lists find_free, malloc and free maintain describe the page exactly: *)
(* every byte behind the page header belongs to one block of one list.      *)
HeapTiled ==
  disciplined =>
    \A p \in Range(PageChain(heap)) :
      LET all == Blocks(p)
      IN  /\ p \in heap.mapped
          /\ UNION {Extent(all[i]) : i \in DOMAIN all} = p + Hdr .. p + PageSize - 1
          /\ \A i, j \in DOMAIN all : i # j => Extent(all[i]) \cap Extent(all[j]) = {}

(* What malloc handed out and free has not taken back is what the allocated *)
(* lists hold, and each block is at least as long as was asked for.         *)
HeapServes ==
  disciplined =>
    /\ \A i \in DOMAIN held : heap.blk[held[i].addr].length >= held[i].size
    /\ {held[i].addr : i \in DOMAIN held}
         = UNION {Range(AllocatedList(heap, p)) : p \in Range(PageChain(heap))}

(* free gives memory back in one piece: a page never has two free blocks,   *)
(* so a block as large as the page's free bytes can always be had.          *)
HeapCoalesced ==
  disciplined => \A p \in Range(PageChain(heap)) : Len(FreeList(heap, p)) <= 1

(* The state constraint of the run: behaviours are followed up to the call  *)
(* that leaves the discipline.                                              *)
Disciplined == disciplined
=============================================================================
