------------------------------ MODULE NodeAlloc ------------------------------
(***************************************************************************)
(* The allocator of tree nodes (node_alloc.c): a doubly linked list of     *)
(* pages, each with a header and its nodes.  The callers are _insert_node  *)
(* and _delete_node, which free a node once.                               *)
(***************************************************************************)
EXTENDS NodeHeader

CONSTANTS PageIds,       \* pages the PMM may supply
          FrameContents, \* headers a frame may hold when it is taken
          MaxLive        \* bound: nodes the callers hold at a time

VARIABLES pages,   \* page -> [hdr, prev, next]
          head,    \* node_list_head
          listed,  \* pages taken from the PMM and not returned
          live,    \* history: nodes <<page, idx>> the callers hold
          top      \* history: the highest index ever handed out, or -1

nodeVars == <<pages, head, listed, live, top>>

NULL == 0
Wild == -1   \* an address that is no page of the list

ASSUME NodeAllocAssumption ==
  /\ PageIds \subseteq Nat \ {0} /\ IsFiniteSet(PageIds)
  /\ FrameContents \subseteq [lo : Word, hi : Word]
  /\ \A h \in FrameContents : find_0_bit(h) >= 0  \* a full page is only skipped
  /\ MaxLive \in Nat

NodeInit == /\ pages = [p \in PageIds |-> [hdr |-> Zero, prev |-> NULL, next |-> NULL]]
            /\ head = NULL /\ listed = {} /\ live = {} /\ top = -1

-----------------------------------------------------------------------------
(* A mutation of init_avl_page: the page is not linked to the one before.  *)
InitPageUnlinked(pgs, p, prev, content) ==
  [pgs EXCEPT ![p] = [hdr |-> content, prev |-> prev, next |-> NULL]]

(* init_avl_page: the pointers are set and the previous page is linked; the *)
(* memset of the header runs zero times, the header is what the frame held. *)
init_avl_page(pgs, p, prev, content) ==
  [q \in PageIds |->
     IF q = p THEN [hdr |-> content, prev |-> prev, next |-> NULL]
     ELSE IF q = prev THEN [pgs[q] EXCEPT !.next = p] ELSE pgs[q]]

(* One round of the loop of create_node at page q: it goes on to the next   *)
(* page, or stops at a page with a 0 bit or at the end of the list.         *)
Onward(q) ==
  IF q \in PageIds /\ find_0_bit(pages[q].hdr) < 0 /\ pages[q].next # NULL
  THEN pages[q].next ELSE q

(* Where create_node is after n rounds, from page p on.                     *)
Walk(p) ==
  LET at[n \in 0 .. Cardinality(PageIds)] == IF n = 0 THEN p ELSE Onward(at[n - 1])
  IN  at

Visits(p) == Walk(p)[Cardinality(PageIds)]

(* The node found in page p of pgs is marked and handed out.               *)
Take(pgs, p) ==
  LET idx == find_0_bit(pgs[p].hdr)
  IN  /\ idx >= 0 /\ Cardinality(live) < MaxLive
      /\ pages' = [pgs EXCEPT ![p].hdr = SetBit(@, idx)]
      /\ live' = live \cup {<<p, idx>>}
      /\ top' = IF idx > top THEN idx ELSE top

(* create_node, on a list that has room.  A walk that would follow a wild  *)
(* pointer is beyond the model.                                            *)
CreateNode ==
  /\ head # NULL
  /\ Visits(head) \in PageIds
  /\ Take(pages, Visits(head))
  /\ UNCHANGED <<head, listed>>

(* create_node, on an empty list or a list without room.                   *)
CreateInNewPage ==
  /\ \/ head = NULL
     \/ Visits(head) \in PageIds /\ find_0_bit(pages[Visits(head)].hdr) < 0
  /\ \E p \in PageIds \ listed, content \in FrameContents :
       LET prev == IF head = NULL THEN NULL ELSE Visits(head)
       IN  /\ Take(init_avl_page(pages, p, prev, content), p)
           /\ head' = IF head = NULL THEN p ELSE head
           /\ listed' = listed \cup {p}

-----------------------------------------------------------------------------
(* What the clearing of bits in the word before the header does to the     *)
(* next pointer when a node of the second word is freed.  Bit 0 of the     *)
(* pointer is 0; the upper half of a pointer is not; other bits may be.    *)
NextAfterFree(next, idx) ==
  IF next = NULL \/ idx <= WordBits THEN {next}
  ELSE IF idx = WordBits + 1 THEN {Wild} ELSE {next, Wild}

(* The end of free_node when page p has become empty: it is unlinked and   *)
(* given to the PMM.  A write through a NULL or wild pointer hits no page. *)
Release(pgs, p) ==
  IF head = p
  THEN /\ head' = pgs[p].next
       /\ pages' = [q \in PageIds |-> IF q = pgs[p].next
                                      THEN [pgs[q] EXCEPT !.prev = NULL] ELSE pgs[q]]
  ELSE /\ head' = head
       /\ pages' = [q \in PageIds |->
                      [pgs[q] EXCEPT !.next = IF q = pgs[p].prev THEN pgs[p].next ELSE @,
                                     !.prev = IF q = pgs[p].next THEN pgs[p].prev ELSE @]]

(* free_node: the bit is cleared, and the page is released if its first     *)
(* word is 0 and the bytes the second loop reads are.  That loop reads      *)
(* header[HEADER_BYTES], inside node 2, where _insert_node and alloc_virt   *)
(* keep the flag "allocated": it may or may not stop the release.           *)
FreeNode ==
  \E n \in live, stop \in BOOLEAN :
    LET p   == n[1]
        hdr == ClearBit(pages[p].hdr, n[2])
    IN  \E next \in NextAfterFree(pages[p].next, n[2]) :
          LET pgs == [pages EXCEPT ![p].hdr = hdr, ![p].next = next]
          IN  /\ live' = live \ {n}
              /\ top' = top
              /\ IF hdr.lo # {} \/ stop
                 THEN pages' = pgs /\ UNCHANGED <<head, listed>>
                 ELSE Release(pgs, p) /\ listed' = listed \ {p}

NodeNext == CreateNode \/ CreateInNewPage \/ FreeNode

NodeSpec == NodeInit /\ [][NodeNext]_nodeVars

-----------------------------------------------------------------------------
(* find_0_bit skips whole words and bounds its search per word; over the   *)
(* headers that occur it finds the lowest index without a bit.             *)
FindsFirst ==
  \A p \in listed :
    LET clear == {idx \in NodeIndices : ~Marked(pages[p].hdr, idx)}
        bit == find_0_bit(pages[p].hdr)
    IN  IF clear = {} THEN bit = -1
        ELSE bit \in clear /\ \A idx \in clear : bit <= idx

(* While only the lower half of an int has been handed out, a node that a  *)
(* caller holds is in a listed page and has its bit set, so that create_node *)
(* cannot hand it out again, although free_node clears the wrong bits.     *)
LiveProtected ==
  top <= IntBits \div 2 =>
    \A n \in live : n[1] \in listed /\ Marked(pages[n[1]].hdr, n[2])

(* In the same regime the listed pages are one chain from the head: next    *)
(* and prev are inverse and only the head has no predecessor, whatever pages *)
(* free_node unlinks and create_node adds.                                  *)
ListLinked ==
  top <= IntBits \div 2 =>
    /\ head # NULL => pages[head].prev = NULL
    /\ \A p \in listed :
         LET next == pages[p].next
         IN  next # NULL => next \in listed /\ pages[next].prev = p
    /\ \A p \in listed \ {head} :
         pages[p].prev \in listed /\ pages[pages[p].prev].next = p
=============================================================================
