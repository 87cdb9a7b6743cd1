--------------------------- MODULE RangeTreeProofs ---------------------------
(***************************************************************************)
(* What the operations of mem_mgmt.c do to the ranges of a region, for a   *)
(* region of any size.  Each lemma is about one change of the tree.        *)
(***************************************************************************)
EXTENDS RangeTree, TLAPS

(* A range is followed by another one or ends with the region.              *)
LEMMA Follower ==
  ASSUME NEW base \in Nat, NEW n \in Nat, NEW t,
         IsTree(t, base, n), Tiles(t, base, n),
         NEW a \in DOMAIN t
  PROVE  EndOf(t, a) \in DOMAIN t \/ EndOf(t, a) = base + n
<1>1. /\ a \in Nat /\ a >= base /\ t[a].page_count \in 1 .. n
      /\ EndOf(t, a) \in Nat /\ EndOf(t, a) <= base + n /\ EndOf(t, a) > a
  BY DEF IsTree, Tiles, EndOf
<1>2. CASE EndOf(t, a) < base + n
  <2>1. EndOf(t, a) \in base .. base + n - 1
    BY <1>1, <1>2
  <2>2. PICK b \in DOMAIN t : b <= EndOf(t, a) /\ EndOf(t, a) < EndOf(t, b)
    BY <2>1 DEF Tiles
  <2>3. b \in Nat /\ EndOf(t, b) \in Nat
    BY DEF IsTree, EndOf
  <2>4. ~(b < a)
    BY <1>1, <2>2, <2>3 DEF Tiles
  <2>5. b # a
    BY <2>2, <1>1
  <2>6. EndOf(t, a) <= b
    BY <2>3, <2>4, <2>5, <1>1 DEF Tiles
  <2> QED BY <2>6, <2>2, <2>3, <1>1
<1> QED BY <1>1, <1>2

(* create_mgr makes a tree of one range that tiles the region.              *)
LEMMA CreateOK ==
  ASSUME NEW base \in Nat, NEW n \in Nat \ {0}
  PROVE  LET t == create_mgr(base, n)
         IN  IsTree(t, base, n) /\ Tiles(t, base, n) /\ CoalescedExcept(t, {})
BY DEF create_mgr, Node, IsTree, Tiles, CoalescedExcept, EndOf

(* What alloc_virt makes of each range when it takes n of the pages at a:   *)
(* u is the tree t after the split.                                         *)
IsSplit(t, a, n, u) ==
  /\ u = [x \in DOMAIN u |-> u[x]]
  /\ DOMAIN u = IF n = t[a].page_count THEN DOMAIN t ELSE DOMAIN t \cup {a + n}
  /\ u[a] = Node(n, 1)
  /\ n # t[a].page_count => /\ u[a + n] = Node(t[a].page_count - n, 0)
                            /\ a + n \notin DOMAIN t
  /\ \A x \in DOMAIN t \ {a} : u[x] = t[x]

(* alloc_virt splits the range it is given.                                 *)
LEMMA SplitShape ==
  ASSUME NEW base \in Nat, NEW size \in Nat, NEW t,
         IsTree(t, base, size), Tiles(t, base, size),
         NEW a \in DOMAIN t, NEW n \in Nat \ {0}, n <= t[a].page_count,
         NEW u, u = alloc_virt(t, a, n)
  PROVE  IsSplit(t, a, n, u)
<1> DEFINE whole == n = t[a].page_count
<1>1. a \in Nat /\ t[a].page_count \in Nat /\ EndOf(t, a) = a + t[a].page_count
  BY DEF IsTree, EndOf
<1>2. CASE whole
  <2>1. t[a].page_count - n = 0
    BY <1>1, <1>2
  <2>2. u = [t EXCEPT ![a] = Node(n, 1)]
    BY <2>1 DEF alloc_virt
  <2> QED BY Zenon, <2>2, <1>2 DEF IsTree, IsSplit
<1>3. CASE ~whole
  <2>1. t[a].page_count - n # 0
    BY <1>1, <1>3
  <2>2. u = [avl_insert(t, a + n, t[a].page_count - n) EXCEPT ![a] = Node(n, 1)]
    BY <2>1 DEF alloc_virt
  <2>3. a + n \notin DOMAIN t
    <3>1. a < a + n /\ ~(EndOf(t, a) <= a + n)
      BY <1>1, <1>3
    <3> QED BY <3>1 DEF Tiles
  <2>4. a # a + n
    BY <1>1
  <2> QED BY <2>2, <2>3, <2>4, <1>3 DEF avl_insert, IsSplit
<1> QED BY <1>2, <1>3

(* alloc_virt keeps the tiling, and leaves no two free ranges that touch.   *)
LEMMA SplitOK ==
  ASSUME NEW base \in Nat, NEW size \in Nat, NEW t,
         IsTree(t, base, size), Tiles(t, base, size), CoalescedExcept(t, {}),
         NEW a \in DOMAIN t, NEW n \in Nat \ {0},
         t[a].allocated = 0, n <= t[a].page_count,
         NEW u, u = alloc_virt(t, a, n)
  PROVE  IsTree(u, base, size) /\ Tiles(u, base, size) /\ CoalescedExcept(u, {})
<1> DEFINE whole == n = t[a].page_count
<1>0. IsSplit(t, a, n, u)
  BY SplitShape
<1> USE <1>0 DEF IsSplit
<1>1. /\ a \in Nat /\ t[a].page_count \in 1 .. size
      /\ \A x \in DOMAIN t : x \in Nat /\ x >= base /\ x < base + size
                             /\ t[x].page_count \in 1 .. size /\ EndOf(t, x) \in Nat
      /\ EndOf(t, a) = a + t[a].page_count /\ EndOf(t, a) <= base + size
  BY DEF IsTree, EndOf, Tiles
<1>2. /\ EndOf(u, a) = a + n
      /\ ~whole => EndOf(u, a + n) = EndOf(t, a)
      /\ \A x \in DOMAIN t \ {a} : EndOf(u, x) = EndOf(t, x)
  BY <1>0, <1>1 DEF EndOf, Node
<1>3. IsTree(u, base, size)
  BY <1>0, <1>1 DEF IsTree, Node
<1>4. Tiles(u, base, size)
  <2>1. ASSUME NEW p \in base .. base + size - 1
        PROVE  \E x \in DOMAIN u : x <= p /\ p < EndOf(u, x)
    <3>1. PICK x \in DOMAIN t : x <= p /\ p < EndOf(t, x)
      BY DEF Tiles
    <3>2. CASE x # a
      BY <3>1, <3>2, <1>0, <1>2
    <3>3. CASE x = a /\ p < a + n
      BY <3>1, <3>3, <1>0, <1>2
    <3>4. CASE x = a /\ ~(p < a + n)
      <4>1. ~whole /\ a + n <= p
        BY <3>1, <3>4, <1>1
      <4> QED BY <4>1, <3>1, <3>4, <1>0, <1>2
    <3> QED BY <3>2, <3>3, <3>4
  <2>2. ASSUME NEW x \in DOMAIN u
        PROVE  EndOf(u, x) <= base + size
    BY <1>0, <1>1, <1>2 DEF Tiles
  <2>3. ASSUME NEW x \in DOMAIN u, NEW y \in DOMAIN u, x < y
        PROVE  EndOf(u, x) <= y
    <3>1. CASE x \in DOMAIN t \ {a} /\ y \in DOMAIN t
      BY <2>3, <3>1, <1>2 DEF Tiles
    <3>2. CASE x \in DOMAIN t \ {a} /\ y \notin DOMAIN t
      <4>1. y = a + n /\ ~whole
        BY <3>2, <1>0
      <4>2. x < a
        <5>1. ~(a < x)
          <6>1. SUFFICES ASSUME a < x PROVE FALSE
            OBVIOUS
          <6>2. EndOf(t, a) <= x
            BY <6>1, <3>2 DEF Tiles
          <6> QED BY <6>2, <4>1, <2>3, <1>1, <3>2
        <5> QED BY <5>1, <3>2, <1>1
      <4> QED BY <4>1, <4>2, <3>2, <1>1, <1>2 DEF Tiles
    <3>3. CASE x = a /\ y \in DOMAIN t
      <4>1. EndOf(t, a) <= y
        BY <3>3, <2>3 DEF Tiles
      <4> QED BY <4>1, <3>3, <1>1, <1>2
    <3>4. CASE x = a /\ y \notin DOMAIN t
      BY <3>4, <1>0, <1>1, <1>2
    <3>5. CASE x \notin DOMAIN t
      <4>1. x = a + n /\ ~whole
        BY <3>5, <1>0
      <4>2. y \in DOMAIN t /\ a < y
        BY <4>1, <2>3, <1>0, <1>1
      <4> QED BY <4>1, <4>2, <1>2 DEF Tiles
    <3> QED BY <3>1, <3>2, <3>3, <3>4, <3>5
  <2> QED BY <2>1, <2>2, <2>3 DEF Tiles
<1>5. CoalescedExcept(u, {})
  <2> SUFFICES ASSUME NEW x \in DOMAIN u, NEW y \in DOMAIN u, EndOf(u, x) = y,
                      u[x].allocated # 1, u[y].allocated # 1
               PROVE  FALSE
    BY DEF CoalescedExcept
  <2>1. x # a /\ y # a
    BY <1>0 DEF Node
  <2>2. CASE x \in DOMAIN t /\ y \in DOMAIN t
    BY <2>1, <2>2, <1>0, <1>2 DEF CoalescedExcept
  <2>3. CASE x \in DOMAIN t /\ y \notin DOMAIN t
    <3>1. y = a + n /\ ~whole /\ EndOf(t, x) = a + n
      BY <2>1, <2>3, <1>0, <1>2
    <3>2. CASE x < a
      BY <3>1, <3>2, <2>3, <1>1 DEF Tiles
    <3>3. CASE a < x
      <4>1. EndOf(t, a) <= x /\ x < EndOf(t, x)
        BY <3>3, <2>3, <1>1 DEF Tiles, EndOf
      <4> QED BY <4>1, <3>1, <2>3, <1>1
    <3> QED BY <3>2, <3>3, <2>1, <2>3, <1>1
  <2>4. CASE x \notin DOMAIN t
    <3>1. x = a + n /\ ~whole /\ EndOf(t, a) = y
      BY <2>4, <1>0, <1>2
    <3>2. y \in DOMAIN t
      BY <3>1, <1>0, <1>1
    <3> QED BY <3>1, <3>2, <2>1, <1>0 DEF CoalescedExcept
  <2> QED BY <2>2, <2>3, <2>4
<1> QED BY <1>3, <1>4, <1>5

(* u is t after the range at a has absorbed the one at b.                   *)
IsMerge(t, a, b, u) ==
  /\ u = [x \in DOMAIN u |-> u[x]]
  /\ DOMAIN u = DOMAIN t \ {b}
  /\ u[a] = Node(t[a].page_count + t[b].page_count, t[a].allocated)
  /\ \A x \in DOMAIN t \ {a, b} : u[x] = t[x]
  /\ EndOf(u, a) = EndOf(t, b)
  /\ \A x \in DOMAIN t \ {a, b} : EndOf(u, x) = EndOf(t, x)

(* free_pages merges two ranges that touch: the tree still tiles the region.*)
LEMMA AbsorbOK ==
  ASSUME NEW base \in Nat, NEW size \in Nat, NEW t,
         IsTree(t, base, size), Tiles(t, base, size),
         NEW a \in DOMAIN t, NEW b \in DOMAIN t, EndOf(t, a) = b,
         NEW u, u = Absorb(t, a, b)
  PROVE  IsMerge(t, a, b, u) /\ IsTree(u, base, size) /\ Tiles(u, base, size)
<1>1. /\ \A x \in DOMAIN t : x \in Nat /\ x >= base /\ x < base + size
                             /\ t[x].page_count \in 1 .. size /\ EndOf(t, x) \in Nat
                             /\ EndOf(t, x) <= base + size /\ x < EndOf(t, x)
                             /\ t[x].allocated \in {0, 1}
                             /\ t[x] = Node(t[x].page_count, t[x].allocated)
      /\ a < b
  BY DEF IsTree, EndOf, Tiles, Node
<1>2. IsMerge(t, a, b, u)
  <2>1. u = [[x \in DOMAIN t \ {b} |-> t[x]] EXCEPT
               ![a].page_count = t[a].page_count + t[b].page_count]
    BY Zenon, <1>1 DEF Absorb, avl_remove
  <2>2. u[a] = [t[a] EXCEPT !.page_count = t[a].page_count + t[b].page_count]
    BY <2>1, <1>1
  <2>3. u[a] = Node(t[a].page_count + t[b].page_count, t[a].allocated)
    BY <2>2, <1>1 DEF Node
  <2>4. /\ u = [x \in DOMAIN u |-> u[x]] /\ DOMAIN u = DOMAIN t \ {b}
        /\ \A x \in DOMAIN t \ {a, b} : u[x] = t[x]
    BY Zenon, <2>1
  <2>5. EndOf(u, a) = EndOf(t, b)
    BY <2>3, <1>1 DEF EndOf, Node
  <2> QED BY <2>3, <2>4, <2>5 DEF IsMerge, EndOf
<1>3. IsTree(u, base, size)
  <2>1. u[a].page_count \in 1 .. size
    BY <1>1, <1>2 DEF IsMerge, EndOf, Node
  <2> QED BY <2>1, <1>1, <1>2 DEF IsMerge, IsTree, Node
<1>4. Tiles(u, base, size)
  <2>1. ASSUME NEW p \in base .. base + size - 1
        PROVE  \E x \in DOMAIN u : x <= p /\ p < EndOf(u, x)
    <3>1. PICK x \in DOMAIN t : x <= p /\ p < EndOf(t, x)
      BY DEF Tiles
    <3>2. CASE x \in {a, b}
      <4>1. a <= p /\ p < EndOf(u, a)
        BY <3>1, <3>2, <1>1, <1>2 DEF IsMerge
      <4> QED BY <4>1, <1>1, <1>2 DEF IsMerge
    <3>3. CASE x \notin {a, b}
      BY <3>1, <3>3, <1>2 DEF IsMerge
    <3> QED BY <3>2, <3>3
  <2>2. ASSUME NEW x \in DOMAIN u
        PROVE  EndOf(u, x) <= base + size
    BY <1>1, <1>2 DEF IsMerge
  <2>3. ASSUME NEW x \in DOMAIN u, NEW y \in DOMAIN u, x < y
        PROVE  EndOf(u, x) <= y
    <3>1. x \in DOMAIN t /\ y \in DOMAIN t /\ x # b /\ y # b
      BY <1>2 DEF IsMerge
    <3>2. EndOf(t, x) <= y
      BY <3>1, <2>3 DEF Tiles
    <3>3. CASE x # a
      BY <3>1, <3>2, <3>3, <1>2 DEF IsMerge
    <3>4. CASE x = a
      <4>1. b < y
        BY <3>1, <3>2, <3>4, <1>1
      <4>2. EndOf(t, b) <= y
        BY <3>1, <4>1 DEF Tiles
      <4> QED BY <4>2, <3>4, <1>2 DEF IsMerge
    <3> QED BY <3>3, <3>4
  <2> QED BY <2>1, <2>2, <2>3 DEF Tiles
<1> QED BY <1>2, <1>3, <1>4

(* At most one range ends at a given page.                                  *)
LEMMA BelowUnique ==
  ASSUME NEW base \in Nat, NEW size \in Nat, NEW t,
         IsTree(t, base, size), Tiles(t, base, size),
         NEW x \in DOMAIN t, NEW y \in DOMAIN t, EndOf(t, x) = EndOf(t, y)
  PROVE  x = y
<1>1. x \in Nat /\ y \in Nat /\ x < EndOf(t, x) /\ y < EndOf(t, y) /\ EndOf(t, x) \in Nat
  BY DEF IsTree, EndOf
<1>2. ~(x < y) /\ ~(y < x)
  BY <1>1 DEF Tiles
<1> QED BY <1>1, <1>2

(* u tiles the region, and two free ranges touch at most where the free     *)
(* range at n ends.                                                         *)
MergedUpTo(u, n, base, size) ==
  /\ IsTree(u, base, size) /\ Tiles(u, base, size)
  /\ n \in DOMAIN u /\ u[n].allocated = 0
  /\ CoalescedExcept(u, {n})
  /\ \A x \in DOMAIN u : EndOf(u, x) = n => u[x].allocated = 1

(* The merge of free_pages with the range below, if that one is free.       *)
LEMMA MergeBelowOK ==
  ASSUME NEW base \in Nat, NEW size \in Nat, NEW t,
         IsTree(t, base, size), Tiles(t, base, size),
         NEW a \in DOMAIN t, t[a].allocated = 0, CoalescedExcept(t, {a}),
         NEW u, u = MergeBelow(t, a), NEW n, n = MergedStart(t, a)
  PROVE  MergedUpTo(u, n, base, size)
<1>1. CASE FreeBelow(t, a) = {}
  <2>1. u = t /\ n = a
    BY <1>1 DEF MergeBelow, MergedStart
  <2>2. \A x \in DOMAIN t : EndOf(t, x) = a => t[x].allocated = 1
    BY <1>1 DEF FreeBelow, avl_below, IsTree
  <2> QED BY <2>1, <2>2 DEF MergedUpTo
<1>2. CASE FreeBelow(t, a) # {}
  <2>1. n \in FreeBelow(t, a) /\ u = Absorb(t, n, a)
    BY <1>2 DEF MergeBelow, MergedStart
  <2>2. n \in DOMAIN t /\ EndOf(t, n) = a /\ t[n].allocated = 0
    BY <2>1 DEF FreeBelow, avl_below
  <2>3. IsMerge(t, n, a, u) /\ IsTree(u, base, size) /\ Tiles(u, base, size)
    BY <2>1, <2>2, AbsorbOK
  <2>4. n # a /\ n < EndOf(t, n) /\ n \in Nat /\ a \in Nat
    BY <2>2 DEF IsTree, EndOf
  <2>5. n \in DOMAIN u /\ u[n].allocated = 0
    BY <2>2, <2>3, <2>4 DEF IsMerge, Node
  <2>6. CoalescedExcept(u, {n})
    BY <2>3 DEF IsMerge, CoalescedExcept
  <2>7. ASSUME NEW x \in DOMAIN u, EndOf(u, x) = n
        PROVE  u[x].allocated = 1
    <3>1. EndOf(u, n) \in Nat /\ EndOf(u, n) # n
      BY <2>3, <2>5 DEF IsTree, EndOf
    <3>2. x \in DOMAIN t \ {n, a} /\ EndOf(t, x) = n /\ u[x] = t[x]
      BY <2>3, <2>7, <3>1 DEF IsMerge
    <3> QED BY <3>2, <2>2, <2>4 DEF CoalescedExcept
  <2> QED BY <2>3, <2>5, <2>6, <2>7 DEF MergedUpTo
<1> QED BY <1>1, <1>2

(* The two merges of free_pages restore the invariant that marking the      *)
(* range at a free has broken.                                              *)
LEMMA CoalesceOK ==
  ASSUME NEW base \in Nat, NEW size \in Nat, NEW t,
         IsTree(t, base, size), Tiles(t, base, size),
         NEW a \in DOMAIN t, t[a].allocated = 0, CoalescedExcept(t, {a}),
         NEW v, v = Coalesce(t, a)
  PROVE  IsTree(v, base, size) /\ Tiles(v, base, size) /\ CoalescedExcept(v, {})
<1>1. PICK u : u = MergeBelow(t, a)
  OBVIOUS
<1>2. PICK n : n = MergedStart(t, a)
  OBVIOUS
<1>3. MergedUpTo(u, n, base, size)
  BY <1>1, <1>2, MergeBelowOK
<1> USE <1>3 DEF MergedUpTo
<1>4. v = MergeAfter(u, n)
  BY <1>1, <1>2 DEF Coalesce
<1>5. PICK e : e = EndOf(u, n)
  OBVIOUS
<1>6. CASE e \in DOMAIN u /\ u[e].allocated = 0
  <2>1. v = Absorb(u, n, e)
    BY <1>4, <1>5, <1>6 DEF MergeAfter
  <2>2. IsMerge(u, n, e, v) /\ IsTree(v, base, size) /\ Tiles(v, base, size)
    BY <1>3, <1>5, <1>6, <2>1, AbsorbOK
  <2>3. n \in Nat /\ e \in Nat /\ n < e /\ e < EndOf(u, e) /\ EndOf(u, e) \in Nat
    BY <1>3, <1>5, <1>6 DEF IsTree, EndOf
  <2>4. CoalescedExcept(v, {})
    <3> SUFFICES ASSUME NEW x \in DOMAIN v, NEW y \in DOMAIN v, EndOf(v, x) = y
                 PROVE  v[x].allocated = 1 \/ v[y].allocated = 1
      BY DEF CoalescedExcept
    <3>1. x \in DOMAIN u \ {e} /\ y \in DOMAIN u \ {e}
      BY <2>2 DEF IsMerge
    <3>2. CASE x = n
      <4>1. y = EndOf(u, e) /\ y # n
        BY <3>2, <2>2, <2>3 DEF IsMerge
      <4>2. u[y].allocated = 1
        BY <4>1, <3>1, <1>3, <1>6, <2>3 DEF CoalescedExcept
      <4> QED BY <4>1, <4>2, <3>1, <2>2 DEF IsMerge
    <3>3. CASE x # n
      <4>1. EndOf(u, x) = y /\ v[x] = u[x]
        BY <3>1, <3>3, <2>2 DEF IsMerge
      <4>2. CASE y = n
        BY <4>1, <4>2, <3>1, <1>3
      <4>3. CASE y # n
        BY <4>1, <4>3, <3>1, <3>3, <1>3, <2>2 DEF CoalescedExcept, IsMerge
      <4> QED BY <4>2, <4>3
    <3> QED BY <3>2, <3>3
  <2> QED BY <2>2, <2>4
<1>7. CASE ~(e \in DOMAIN u /\ u[e].allocated = 0)
  <2>1. v = u
    BY <1>4, <1>5, <1>7 DEF MergeAfter
  <2>2. \A x \in DOMAIN u : u[x].allocated \in {0, 1}
    BY <1>3 DEF IsTree
  <2>3. CoalescedExcept(u, {})
    BY <1>3, <1>5, <1>7, <2>2 DEF CoalescedExcept
  <2> QED BY <2>1, <2>3, <1>3
<1> QED BY <1>6, <1>7

(* Marking an allocated range free disturbs nothing but the ranges that     *)
(* touch it.                                                                *)
LEMMA UnmarkOK ==
  ASSUME NEW base \in Nat, NEW size \in Nat, NEW t,
         IsTree(t, base, size), Tiles(t, base, size), CoalescedExcept(t, {}),
         NEW a \in DOMAIN t, NEW u, u = Unmark(t, a)
  PROVE  /\ IsTree(u, base, size) /\ Tiles(u, base, size)
         /\ a \in DOMAIN u /\ u[a].allocated = 0 /\ CoalescedExcept(u, {a})
<1>1. u = [t EXCEPT ![a] = [t[a] EXCEPT !.allocated = 0]]
  BY DEF Unmark
<1>2. t[a] \in [page_count : 1 .. size, allocated : {0, 1}]
  BY DEF IsTree
<1>3. u[a] = Node(t[a].page_count, 0)
  BY <1>1, <1>2 DEF Node
<1>4. /\ u = [x \in DOMAIN u |-> u[x]] /\ DOMAIN u = DOMAIN t
      /\ \A x \in DOMAIN t \ {a} : u[x] = t[x]
  BY Zenon, <1>1
<1>5. \A x \in DOMAIN t : EndOf(u, x) = EndOf(t, x)
  BY <1>3, <1>4 DEF EndOf, Node
<1>6. IsTree(u, base, size)
  BY <1>2, <1>3, <1>4 DEF IsTree, Node
<1>7. Tiles(u, base, size)
  BY <1>4, <1>5 DEF Tiles
<1>8. CoalescedExcept(u, {a})
  BY <1>4, <1>5 DEF CoalescedExcept
<1> QED BY <1>3, <1>4, <1>6, <1>7, <1>8 DEF Node

(* A coalesced tree without allocations is a single range.                  *)
LEMMA AllFreeIsOne ==
  ASSUME NEW base \in Nat, NEW size \in Nat \ {0}, NEW t,
         IsTree(t, base, size), Tiles(t, base, size), CoalescedExcept(t, {}),
         \A a \in DOMAIN t : t[a].allocated = 0
  PROVE  t = create_mgr(base, size)
<1>1. \A x \in DOMAIN t : /\ x \in Nat /\ x >= base /\ x < base + size
                          /\ EndOf(t, x) \in Nat /\ x < EndOf(t, x)
  BY DEF IsTree, EndOf
<1>2. base \in DOMAIN t
  <2>1. base \in base .. base + size - 1
    OBVIOUS
  <2>2. PICK x \in DOMAIN t : x <= base /\ base < EndOf(t, x)
    BY <2>1 DEF Tiles
  <2> QED BY <2>2, <1>1
<1>3. EndOf(t, base) = base + size
  <2>1. EndOf(t, base) \notin DOMAIN t
    BY <1>2 DEF CoalescedExcept
  <2> QED BY <1>2, <2>1, Follower
<1>4. \A x \in DOMAIN t : x = base
  <2> SUFFICES ASSUME NEW x \in DOMAIN t, x # base PROVE FALSE
    OBVIOUS
  <2>1. base < x
    BY <1>1
  <2> QED BY <2>1, <1>1, <1>2, <1>3 DEF Tiles
<1>5. DOMAIN t = {base}
  BY <1>2, <1>4
<1>6. t[base] = Node(size, 0)
  BY <1>2, <1>3 DEF IsTree, EndOf, Node
<1> QED BY <1>5, <1>6 DEF IsTree, create_mgr

(* The allocated ranges of u are those of t, unchanged.                     *)
KeepsAllocated(t, u) ==
  /\ \A x \in DOMAIN u : u[x].allocated = 1 => x \in DOMAIN t /\ u[x] = t[x]
  /\ \A x \in DOMAIN t : t[x].allocated = 1 => x \in DOMAIN u /\ u[x] = t[x]

(* Merging free ranges does not touch the allocated ones.                   *)
LEMMA CoalesceKeeps ==
  ASSUME NEW base \in Nat, NEW size \in Nat, NEW t,
         IsTree(t, base, size), Tiles(t, base, size),
         NEW a \in DOMAIN t, t[a].allocated = 0,
         NEW v, v = Coalesce(t, a)
  PROVE  KeepsAllocated(t, v)
<1>1. ASSUME NEW s, IsTree(s, base, size), Tiles(s, base, size),
             NEW x \in DOMAIN s, NEW y \in DOMAIN s, EndOf(s, x) = y,
             s[x].allocated = 0, s[y].allocated = 0, NEW u, u = Absorb(s, x, y)
      PROVE  /\ KeepsAllocated(s, u) /\ IsTree(u, base, size) /\ Tiles(u, base, size)
             /\ x \in DOMAIN u /\ u[x].allocated = 0
  <2>1. IsMerge(s, x, y, u) /\ IsTree(u, base, size) /\ Tiles(u, base, size)
    BY <1>1, AbsorbOK
  <2>2. x # y
    BY <1>1 DEF IsTree, EndOf
  <2> QED BY <2>1, <2>2, <1>1 DEF IsMerge, KeepsAllocated, Node
<1>2. PICK u, n : u = MergeBelow(t, a) /\ n = MergedStart(t, a)
  OBVIOUS
<1>3. /\ KeepsAllocated(t, u) /\ IsTree(u, base, size) /\ Tiles(u, base, size)
      /\ n \in DOMAIN u /\ u[n].allocated = 0
  <2>1. CASE FreeBelow(t, a) = {}
    BY <1>2, <2>1 DEF MergeBelow, MergedStart, KeepsAllocated
  <2>2. CASE FreeBelow(t, a) # {}
    <3>1. n \in FreeBelow(t, a) /\ u = Absorb(t, n, a)
      BY <1>2, <2>2 DEF MergeBelow, MergedStart
    <3>2. n \in DOMAIN t /\ EndOf(t, n) = a /\ t[n].allocated = 0
      BY <3>1 DEF FreeBelow, avl_below
    <3> QED BY <3>1, <3>2, <1>1
  <2> QED BY <2>1, <2>2
<1>4. v = MergeAfter(u, n)
  BY <1>2 DEF Coalesce
<1>5. CASE EndOf(u, n) \in DOMAIN u /\ u[EndOf(u, n)].allocated = 0
  <2>1. v = Absorb(u, n, EndOf(u, n))
    BY <1>4, <1>5 DEF MergeAfter
  <2>2. KeepsAllocated(u, v)
    BY <2>1, <1>1, <1>3, <1>5
  <2> QED BY <2>2, <1>3 DEF KeepsAllocated
<1>6. CASE ~(EndOf(u, n) \in DOMAIN u /\ u[EndOf(u, n)].allocated = 0)
  <2>1. v = u
    BY <1>4, <1>6 DEF MergeAfter
  <2> QED BY <2>1, <1>3
<1> QED BY <1>5, <1>6
=============================================================================
