------------------------------- MODULE AvlTree -------------------------------
(***************************************************************************)
(* The linked tree of avl_tree.c.  A memory m is a record: n maps a node   *)
(* number to a struct avl_node, hdr is the header of the page the nodes    *)
(* are in, moved and intact are history flags (see DeleteInner).  Node     *)
(* number k is index k - 1 of the page; 0 is the null pointer.  Addresses  *)
(* are pages.                                                              *)
(***************************************************************************)
EXTENDS NodeHeader

CONSTANT MaxNodes   \* bound: nodes in use, at most those of one page

ASSUME AvlTreeAssumption == MaxNodes \in 1 .. (IntBits \div 2) + 1

Nodes == 1 .. MaxNodes
NULL == 0
Wild == -1   \* a non-null pointer to no node

(* Memory before the first create_node; the frame is taken to be zeroed.   *)
EmptyMemory ==
  [n |-> [x \in Nodes |-> [addr |-> 0, page_count |-> 0, allocated |-> 0,
                           left |-> NULL, right |-> NULL, height |-> 0]],
   hdr |-> Zero, intact |-> TRUE, moved |-> FALSE]

-----------------------------------------------------------------------------
(* create_node and free_node within one page.  As only the lower half of   *)
(* an int of indices is used, a held node keeps its bit and the page is    *)
(* never released (LiveProtected in NodeAlloc).                            *)
NewNode(m) == find_0_bit(m.hdr) + 1
CanCreate(m) == NewNode(m) \in Nodes
TakeNode(m) == [m EXCEPT !.hdr = SetBit(@, NewNode(m) - 1)]
free_node(m, x) == [m EXCEPT !.hdr = ClearBit(@, x - 1)]

(* height and balance, from the heights stored in the children.            *)
Rise(m, x) == IF x = NULL THEN 0 ELSE m.n[x].height + 1

height(m, x) == LET lh == Rise(m, m.n[x].left)
                    rh == Rise(m, m.n[x].right)
                IN  IF lh > rh THEN lh ELSE rh

balance(m, x) ==
  IF x = NULL THEN 0 ELSE Rise(m, m.n[x].right) - Rise(m, m.n[x].left)

UpdateHeight(m, x) == [m EXCEPT !.n[x].height = height(m, x)]

(* The rotations return the memory and the node that takes x's place.      *)
rotate_left(m, x) ==
  LET z == m.n[x].right
      m1 == [m EXCEPT !.n[x].right = m.n[z].left, !.n[z].left = x]
  IN  [m |-> UpdateHeight(UpdateHeight(m1, x), z), node |-> z]

rotate_right(m, x) ==
  LET z == m.n[x].left
      m1 == [m EXCEPT !.n[x].left = m.n[z].right, !.n[z].right = x]
  IN  [m |-> UpdateHeight(UpdateHeight(m1, x), z), node |-> z]

(* The common end of _insert_node and _delete_node.                        *)
LeftStraight(m, x) ==
  IF balance(m, m.n[x].left) # 1 THEN m
  ELSE LET r == rotate_left(m, m.n[x].left) IN [r.m EXCEPT !.n[x].left = r.node]

RightStraight(m, x) ==
  IF balance(m, m.n[x].right) # -1 THEN m
  ELSE LET r == rotate_right(m, m.n[x].right) IN [r.m EXCEPT !.n[x].right = r.node]

(* A mutation of Rebalance: no double rotation.                            *)
RebalanceSingle(m, x) ==
  LET r == CASE balance(m, x) = -2 -> rotate_right(m, x)
             [] balance(m, x) = 2  -> rotate_left(m, x)
             [] OTHER -> [m |-> m, node |-> x]
  IN  [r EXCEPT !.m = UpdateHeight(@, r.node)]

Rebalance(m, x) ==
  LET r == CASE balance(m, x) = -2 -> rotate_right(LeftStraight(m, x), x)
             [] balance(m, x) = 2  -> rotate_left(RightStraight(m, x), x)
             [] OTHER -> [m |-> m, node |-> x]
  IN  [r EXCEPT !.m = UpdateHeight(@, r.node)]

-----------------------------------------------------------------------------
(* The new node of _insert_node; its height is set by Rebalance.           *)
Fresh(m, addr, count) ==
  [TakeNode(m) EXCEPT !.n[NewNode(m)] = [addr |-> addr, page_count |-> count, allocated |-> 0,
                                         left |-> NULL, right |-> NULL, height |-> @.height]]

(* A mutation of insert_node: goes left of a range that contains addr.     *)
RECURSIVE InsertByEnd(_, _, _, _)
InsertByEnd(m, x, addr, count) ==
  IF x = NULL THEN Rebalance(Fresh(m, addr, count), NewNode(m))
  ELSE IF addr < m.n[x].addr + m.n[x].page_count
  THEN LET r == InsertByEnd(m, m.n[x].left, addr, count)
       IN  Rebalance([r.m EXCEPT !.n[x].left = r.node], x)
  ELSE LET r == InsertByEnd(m, m.n[x].right, addr, count)
       IN  Rebalance([r.m EXCEPT !.n[x].right = r.node], x)

RECURSIVE insert_node(_, _, _, _)
insert_node(m, x, addr, count) ==
  IF x = NULL THEN Rebalance(Fresh(m, addr, count), NewNode(m))
  ELSE IF addr < m.n[x].addr
  THEN LET r == insert_node(m, m.n[x].left, addr, count)
       IN  Rebalance([r.m EXCEPT !.n[x].left = r.node], x)
  ELSE IF addr > m.n[x].addr
  THEN LET r == insert_node(m, m.n[x].right, addr, count)
       IN  Rebalance([r.m EXCEPT !.n[x].right = r.node], x)
  ELSE [m |-> [m EXCEPT !.n[x].page_count = count, !.n[x].allocated = 0], node |-> x]

(* The loop of _delete_node that finds the successor and its parent.       *)
RECURSIVE Leftmost(_, _, _)
Leftmost(m, ptr, parent) ==
  IF m.n[ptr].left = NULL THEN [ptr |-> ptr, parent |-> parent]
  ELSE Leftmost(m, m.n[ptr].left, ptr)

(* The case of two children.  parent is uninitialised when the right child *)
(* is the successor: garbage is what it then holds.  Unless it is null and *)
(* the successor has a right child, the successor is freed but stays       *)
(* linked (and something else may be overwritten): intact becomes FALSE.   *)
(* The heights on the way to the successor are not updated: moved records  *)
(* that the case has occurred.                                             *)
DeleteInner(m, x, garbage) ==
  LET s == Leftmost(m, m.n[x].right, garbage)
      right == m.n[s.ptr].right
      skip == right # NULL /\ s.parent = NULL
      moved == [m EXCEPT !.n[x].addr = m.n[s.ptr].addr,
                         !.n[x].page_count = m.n[s.ptr].page_count,
                         !.n[x].allocated = m.n[s.ptr].allocated]
      cut == IF skip THEN [moved EXCEPT !.n[x].right = right]
             ELSE IF s.parent \in Nodes THEN [moved EXCEPT !.n[s.parent].left = right]
             ELSE moved
  IN  [free_node(cut, s.ptr) EXCEPT !.moved = TRUE,
                                  !.intact = @ /\ (skip \/ m.n[m.n[x].right].left # NULL)]

RECURSIVE delete_node(_, _, _, _)
delete_node(m, x, addr, garbage) ==
  LET left == m.n[x].left
      right == m.n[x].right
  IN  IF x = NULL THEN [m |-> m, node |-> NULL]
      ELSE IF addr < m.n[x].addr
      THEN LET r == delete_node(m, left, addr, garbage)
           IN  Rebalance([r.m EXCEPT !.n[x].left = r.node], x)
      ELSE IF addr > m.n[x].addr
      THEN LET r == delete_node(m, right, addr, garbage)
           IN  Rebalance([r.m EXCEPT !.n[x].right = r.node], x)
      ELSE IF left = NULL /\ right = NULL THEN [m |-> free_node(m, x), node |-> NULL]
      ELSE IF right = NULL THEN Rebalance(free_node(m, x), left)
      ELSE IF left = NULL THEN Rebalance(free_node(m, x), right)
      ELSE Rebalance(DeleteInner(m, x, garbage), x)

-----------------------------------------------------------------------------
RECURSIVE avl_min_size(_, _, _)
avl_min_size(m, x, count) ==
  IF x = NULL THEN NULL
  ELSE LET r == avl_min_size(m, m.n[x].right, count)
       IN  IF r # NULL THEN r
           ELSE IF m.n[x].page_count >= count /\ m.n[x].allocated = 0 THEN x
           ELSE avl_min_size(m, m.n[x].left, count)

(* The difference is an int in the code, which the regions in use fit.     *)
RECURSIVE avl_below(_, _, _)
avl_below(m, x, addr) ==
  IF x = NULL THEN NULL
  ELSE LET diff == addr - (m.n[x].addr + m.n[x].page_count)
       IN  IF diff = 0 THEN x
           ELSE avl_below(m, IF diff < 0 THEN m.n[x].left ELSE m.n[x].right, addr)

RECURSIVE avl_find(_, _, _)
avl_find(m, x, addr) ==
  IF x = NULL \/ m.n[x].addr = addr THEN x
  ELSE avl_find(m, IF addr < m.n[x].addr THEN m.n[x].left ELSE m.n[x].right, addr)

-----------------------------------------------------------------------------
(* The nodes linked below x, x included.                                   *)
RECURSIVE Linked(_, _)
Linked(m, x) ==
  IF x = NULL THEN {} ELSE {x} \cup Linked(m, m.n[x].left) \cup Linked(m, m.n[x].right)

(* The length of the longest path below x, counted in nodes.               *)
RECURSIVE Depth(_, _)
Depth(m, x) ==
  IF x = NULL THEN 0
  ELSE LET l == Depth(m, m.n[x].left)
           r == Depth(m, m.n[x].right)
       IN  1 + IF l > r THEN l ELSE r
=============================================================================
