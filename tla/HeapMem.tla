------------------------------- MODULE HeapMem -------------------------------
(***************************************************************************)
(* The kernel heap (mem_mgmt/heap.c): pages from malloc_pages, each with a  *)
(* list of free and a list of allocated blocks, linked through headers in   *)
(* the memory itself.  Memory is the headers in it: pg sends the address of *)
(* a struct heap_pghdr, blk that of a struct heap_blkhdr, to its contents.  *)
(* The operations are functions on that memory, so that a client can make   *)
(* several calls in one step.  mapped holds the pages kern_vmm has lent.    *)
(* Both headers have the same size, Hdr.                                    *)
(***************************************************************************)
EXTENDS Integers, SequencesExt

CONSTANTS PageSize,   \* 4096
          Hdr,        \* sizeof (struct heap_blkhdr), sizeof (struct heap_pghdr)
          MaxPages    \* bound: heap pages that kern_vmm can supply

ASSUME HeapMemAssumption == /\ PageSize \in Nat /\ Hdr \in Nat \ {0}
                            /\ PageSize > 2 * Hdr

NULL == 0

(* The blocks of a linked list that starts with block a.                    *)
RECURSIVE Chain(_, _)
Chain(next, a) == IF a = NULL THEN << >> ELSE <<a>> \o Chain(next, next[a])

Next_of(h) == [b \in DOMAIN h.blk |-> h.blk[b].next]

PageChain(h) == Chain([p \in DOMAIN h.pg |-> h.pg[p].next], h.root)

FreeList(h, p) == Chain(Next_of(h), h.pg[p].free)

AllocatedList(h, p) == Chain(Next_of(h), h.pg[p].allocated)

(* The address after block b: that of b + 1, plus b->length bytes.           *)
BlockEnd(h, b) == b + Hdr + h.blk[b].length

(* f with the value v at x, whether or not x was in its domain.             *)
Put(f, x, v) == [y \in DOMAIN f \cup {x} |-> IF y = x THEN v ELSE f[y]]

(* malloc_pages for MIN_ALLOC_PAGES, two, pages, which is as much as any    *)
(* size used here asks for.  All requests are alike, so alloc_virt takes    *)
(* the lowest pair that is not lent; it returns NULL when there is none.    *)
PageAt(i) == i * 2 * PageSize

malloc_pages(h) ==
  LET spare == {i \in 1 .. MaxPages : PageAt(i) \notin h.mapped}
  IN  IF spare = {} THEN NULL ELSE PageAt(CHOOSE i \in spare : \A j \in spare : i <= j)

(* find_free, no block found: a page is linked behind the last one, with    *)
(* one block that is counted as PageSize long whatever was asked for.  Its  *)
(* address, NULL included, is not looked at.                                *)
AddPage(h) ==
  LET p == malloc_pages(h)
      b == p + Hdr
      pages == PageChain(h)
      linked == IF pages = << >> THEN h.pg ELSE [h.pg EXCEPT ![Last(pages)].next = p]
  IN  [root   |-> IF pages = << >> THEN p ELSE h.root,
       pg     |-> Put(linked, p, [next |-> NULL, free |-> b, allocated |-> NULL]),
       blk    |-> Put(h.blk, b, [next |-> NULL, pghdr |-> p,
                                 length |-> PageSize - Hdr - Hdr]),
       mapped |-> h.mapped \cup ({p} \ {NULL})]

(* A mutation of Fitting: the length of a free block is not looked at.       *)
FittingAny(h, size) ==
  FlattenSeq([i \in DOMAIN PageChain(h) |-> FreeList(h, PageChain(h)[i])])

(* find_free: the first free block, in list order, that is longer than size.*)
Fitting(h, size) ==
  LET all == FlattenSeq([i \in DOMAIN PageChain(h) |-> FreeList(h, PageChain(h)[i])])
  IN  SelectSeq(all, LAMBDA b : h.blk[b].length > size)

find_free(h, size) ==
  IF Fitting(h, size) # << >>
  THEN [heap |-> h, block |-> Head(Fitting(h, size))]
  ELSE [heap |-> AddPage(h), block |-> malloc_pages(h) + Hdr]

-----------------------------------------------------------------------------
(* The list with head a, field f of page p, with the node that follows node *)
(* prev replaced by v: prev is NULL for the head itself.                    *)
LinkFree(h, p, prev, v) ==
  IF prev = NULL THEN [h EXCEPT !.pg[p].free = v] ELSE [h EXCEPT !.blk[prev].next = v]

LinkAllocated(h, p, prev, v) ==
  IF prev = NULL THEN [h EXCEPT !.pg[p].allocated = v] ELSE [h EXCEPT !.blk[prev].next = v]

(* The node before b in a list, or NULL.                                    *)
Before(list, b) == LET i == CHOOSE i \in DOMAIN list : list[i] = b
                   IN  IF i = 1 THEN NULL ELSE list[i - 1]

LastOf(list) == IF list = << >> THEN NULL ELSE Last(list)

AppendAllocated(h, p, b) ==
  LET ended == [h EXCEPT !.blk[b].next = NULL]
  IN  LinkAllocated(ended, p, LastOf(AllocatedList(ended, p)), b)

(* A mutation of Carve: the header of the new block is forgotten.           *)
CarveNoHeader(h, f, size) ==
  LET rest == [h EXCEPT !.blk[f].length = @ - size]
      p    == h.blk[f].pghdr
      a    == BlockEnd(rest, f)
  IN  AppendAllocated([rest EXCEPT !.blk = Put(@, a, [next |-> NULL, pghdr |-> p,
                                                      length |-> size])], p, a)

(* malloc, first branch: the block is cut from the end of the free one.     *)
Carve(h, f, size) ==
  LET rest == [h EXCEPT !.blk[f].length = @ - (size + Hdr)]
      p    == h.blk[f].pghdr
      a    == BlockEnd(rest, f)
  IN  AppendAllocated([rest EXCEPT !.blk = Put(@, a, [next |-> NULL, pghdr |-> p,
                                                      length |-> size])], p, a)

(* malloc, second branch: the free block is handed out whole.               *)
TakeWhole(h, f) ==
  LET p == h.blk[f].pghdr
  IN  AppendAllocated(LinkFree(h, p, Before(FreeList(h, p), f), h.blk[f].next), p, f)

(* malloc, the block's address for the one returned: allocated + 1.         *)
malloc(h, size) ==
  LET found == find_free(h, size)
      f     == found.block
  IN  IF found.heap.blk[f].length > size + Hdr
      THEN LET h2 == Carve(found.heap, f, size)
           IN  [heap |-> h2, addr |-> BlockEnd(h2, f)]
      ELSE [heap |-> TakeWhole(found.heap, f), addr |-> f]
-----------------------------------------------------------------------------
(* free, the walk over the free list: it stops behind the last block, at a  *)
(* block that ends where blk begins, or at one that begins where blk ends.  *)
MeetsBelow(h, v, b) == BlockEnd(h, v) = b

MeetsAbove(h, v, b) == BlockEnd(h, b) = v

StopsAt(h, list, b) ==
  {i \in DOMAIN list : MeetsBelow(h, list[i], b) \/ MeetsAbove(h, list[i], b)}

(* A mutation of Release: a released block is never merged.                 *)
ReleaseUnmerged(h, p, parent, b) == LinkFree(h, p, LastOf(FreeList(h, p)), b)

(* free, after the block has been unlinked: parent is the link that led to  *)
(* it, and lags one link behind the walk, which the third case overlooks.   *)
(* The first case leaves blk->next as it was; after the second the header   *)
(* of blk is only bytes of the block below.                                 *)
Release(h, p, parent, b) ==
  LET list  == FreeList(h, p)
      stops == StopsAt(h, list, b)
      i     == CHOOSE i \in stops : \A j \in stops : i <= j
      grown == [h EXCEPT !.blk[b].length = @ + h.blk[list[i]].length + Hdr]
  IN  IF stops = {} THEN LinkFree(h, p, LastOf(list), b)
      ELSE IF MeetsBelow(h, list[i], b)
      THEN [h EXCEPT !.blk = Restrict([@ EXCEPT ![list[i]].length =
                                         @ + h.blk[b].length + Hdr], DOMAIN @ \ {b})]
      ELSE IF i = 1 THEN LinkAllocated(grown, p, parent, b)
      ELSE LinkFree(grown, p, IF i = 2 THEN NULL ELSE list[i - 2], b)

(* free.  An emptied page goes back to kern_vmm and stays in the page list. *)
free(h, b) ==
  LET p      == h.blk[b].pghdr
      parent == Before(AllocatedList(h, p), b)
      h2     == Release(LinkAllocated(h, p, parent, h.blk[b].next), p, parent, b)
  IN  IF h2.pg[p].allocated = NULL THEN [h2 EXCEPT !.mapped = @ \ {p}] ELSE h2

-----------------------------------------------------------------------------
(* heap_root before the first call.                                         *)
EmptyHeap == [root |-> NULL, pg |-> << >>, blk |-> << >>, mapped |-> {}]
=============================================================================
