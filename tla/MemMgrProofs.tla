---------------------------- MODULE MemMgrProofs ----------------------------
(***************************************************************************)
(* Proofs about MemMgr for any number of processors, any region, any page  *)
(* table size and any frames.  Here: the lock, and MInv, an invariant that *)
(* the calls, the page loops, the release and the returns preserve.        *)
(***************************************************************************)
EXTENDS MemMgr, RangeTreeProofs

(* Where each action takes the program counter of its processor.            *)
Enters(c) == /\ pc[c] = "idle" /\ lock = 0 /\ lock' = 1
             /\ \E l \in {"alloc", "find"} : pc' = [pc EXCEPT ![c] = l]
Stays(c)  == /\ Inside(c) /\ lock' = lock
             /\ \/ \E l \in {"map", "unmap", "unlock"} : pc' = [pc EXCEPT ![c] = l]
                \/ pc' = pc
Leaves(c) == Inside(c) /\ lock' = 0 /\ pc' = [pc EXCEPT ![c] = "idle"]

(* Every step takes the free lock, keeps it or gives it back.               *)
LEMMA StepShape ==
  ASSUME NEW c \in Cpus, Call(c) \/ Step(c)
  PROVE  Enters(c) \/ Stays(c) \/ Leaves(c)
<1>1. ASSUME NEW n, NEW name, CallMap(c, name, n) PROVE Enters(c)
  BY <1>1 DEF CallMap, Lock, Goto, Enters
<1>2. ASSUME NEW a, CallFree(c, a) PROVE Enters(c)
  BY <1>2 DEF CallFree, Lock, Goto, Enters
<1>3. CASE AllocVirt(c)
  BY <1>3 DEF AllocVirt, Goto, Stays, Inside
<1>4. CASE AllocNone(c)
  BY <1>4 DEF AllocNone, Goto, Stays, Inside
<1>5. CASE SetPage(c)
  BY <1>5 DEF SetPage, Stays, Inside
<1>6. CASE MapReturn(c)
  BY <1>6 DEF MapReturn, Return, Goto, Leaves, Inside
<1>7. CASE FreeFind(c)
  BY <1>7 DEF FreeFind, Goto, Stays, Inside
<1>8. CASE FreeNone(c)
  BY <1>8 DEF FreeNone, Return, Goto, Leaves, Inside
<1>9. CASE FreePage(c)
  BY <1>9 DEF FreePage, Stays, Inside
<1>10. CASE FreeMerge(c)
  BY <1>10 DEF FreeMerge, Goto, Stays, Inside
<1>11. CASE FreeReturn(c)
  BY <1>11 DEF FreeReturn, Return, Goto, Leaves, Inside
<1> QED BY <1>1, <1>2, <1>3, <1>4, <1>5, <1>6, <1>7, <1>8, <1>9, <1>10, <1>11
        DEF Call, Step

MutexInv == pc \in [Cpus -> Labels] /\ MutualExclusion

(* No step breaks the mutual exclusion.                                     *)
LEMMA MutexStep == MutexInv /\ [Next]_vars => MutexInv'
<1> SUFFICES ASSUME MutexInv, [Next]_vars PROVE MutexInv'
  OBVIOUS
<1> USE DEF MutexInv, MutualExclusion, Inside, Labels
<1>1. ASSUME NEW c \in Cpus, Enters(c) PROVE MutexInv'
  BY <1>1 DEF Enters
<1>2. ASSUME NEW c \in Cpus, Stays(c) PROVE MutexInv'
  BY <1>2 DEF Stays
<1>3. ASSUME NEW c \in Cpus, Leaves(c) PROVE MutexInv'
  BY <1>3 DEF Leaves
<1>4. CASE UNCHANGED vars
  BY <1>4 DEF vars
<1> QED BY <1>1, <1>2, <1>3, <1>4, StepShape DEF Next

(* The lock byte of lock_mgr and unlock_mgr admits one processor at a time, *)
(* however many there are.                                                  *)
THEOREM Mutex == Spec => []MutexInv
<1>1. Init => MutexInv
  BY DEF Init, MutexInv, MutualExclusion, Inside, Labels
<1> QED BY <1>1, MutexStep, PTL DEF Spec

(* MutualExclusion, as the runs check it.                                   *)
THEOREM LockExcludes == Spec => []MutualExclusion
<1>1. MutexInv => MutualExclusion
  BY DEF MutexInv
<1> QED BY Mutex, <1>1, PTL

-----------------------------------------------------------------------------
(* The inductive invariant behind the types, the tree and the page tables.  *)

(* What the locals of a processor say at each place of its program.         *)
CallInv(c) ==
  /\ pc[c] = "idle" => addr[c] = NULL /\ count[c] = 0 /\ i[c] = 0
  /\ pc[c] = "alloc" => addr[c] = NULL /\ count[c] # 0 /\ i[c] = 0 /\ count[c] <= MaxCount
  /\ pc[c] = "map" => /\ i[c] <= count[c] /\ count[c] <= MaxCount
                      /\ addr[c] # NULL => /\ addr[c] \in DOMAIN tree
                                           /\ tree[addr[c]] = Node(count[c], 1)
  /\ pc[c] = "find" => count[c] = 0 /\ i[c] = 0
  /\ pc[c] = "unmap" => /\ i[c] <= count[c]
                        /\ addr[c] \in DOMAIN tree
                        /\ tree[addr[c]] = Node(count[c], 0)

(* The ranges that a free_pages in progress has marked but not yet merged.  *)
Releasing == {addr[c] : c \in {d \in Cpus : pc[d] = "unmap"}}

TreeInv == /\ IsTree(tree, Base, NPages)
           /\ Tiles(tree, Base, NPages)
           /\ CoalescedExcept(tree, Releasing)

(* Page p has a table, and its entry was written by set_page or free_page.  *)
IsSet(p) == tables[TableOf(p)] # NoTable /\ pte[CellOf(tables, p)].paddr # Garbage

(* Pages of the range at a that the loop of a malloc_pages or map_memory in *)
(* progress has still to map.                                               *)
Pending(a, p) == \E c \in Cpus : pc[c] = "map" /\ addr[c] = a /\ p >= a + i[c]

EntryInv == /\ \A a \in DOMAIN tree : \A p \in a .. EndOf(tree, a) - 1 :
                 tree[a].allocated = 1 \/ a \in Releasing => IsSet(p) \/ Pending(a, p)
            /\ \A c \in Cells : pte[c].usable = 1 => pte[c].paddr \in Frames \cup {Garbage}

MInv == TypeOK /\ MutualExclusion /\ (\A c \in Cpus : CallInv(c)) /\ TreeInv /\ EntryInv

(* While one processor is inside, or the lock is free, the others are idle. *)
LEMMA OthersIdle ==
  ASSUME TypeOK, MutualExclusion, NEW c \in Cpus, Inside(c) \/ lock = 0
  PROVE  \A d \in Cpus \ {c} : pc[d] = "idle"
BY DEF TypeOK, MutualExclusion, Inside, Labels

(* pmm_alloc_page keeps the stack a stack of frames.                        *)
LEMMA PopOK ==
  ASSUME NEW s \in Seq(Frames)
  PROVE  Pop(s) \in Seq(Frames) /\ Top(s) \in Frames
BY DEF Pop, Top, Frames

(* A page of the region, or one that a failed alloc_virt makes the loop     *)
(* address from NULL on, has a table number the model knows.                *)
LEMMA TableKnown ==
  ASSUME NEW p \in Nat, p \in Pages \/ p < Entries
  PROVE  TableOf(p) \in Tables /\ p % Entries \in 0 .. Entries - 1
<1>1. Entries \in Nat \ {0}
  BY MemMgrAssumption
<1>2. p % Entries \in 0 .. Entries - 1
  BY <1>1
<1>3. CASE p \in Pages
  BY <1>2, <1>3 DEF Tables
<1>4. CASE p < Entries
  <2>1. p \div Entries = 0 /\ 0 \div Entries = 0
    BY <1>1, <1>4
  <2>2. TableOf(p) = TableOf(NULL)
    BY <2>1 DEF TableOf, NULL
  <2> QED BY <1>2, <2>2 DEF Tables
<1> QED BY <1>3, <1>4

(* The walk of get_page_table_entry ends in a table, disturbs no other      *)
(* table and takes at most one frame.                                       *)
LEMMA WalkOK ==
  ASSUME TypeOK, NEW s \in Seq(Frames), NEW p \in Nat, p \in Pages \/ p < Entries,
         NEW w, w = WalkTables(s, p)
  PROVE  /\ w \in [Tables -> Frames \cup {NoTable}]
         /\ w[TableOf(p)] \in Frames
         /\ \A t \in Tables : tables[t] # NoTable => w[t] = tables[t]
         /\ CellOf(w, p) \in Cells
         /\ WalkStack(s, p) \in Seq(Frames)
<1>1. TableOf(p) \in Tables /\ p % Entries \in 0 .. Entries - 1
  BY TableKnown
<1>2. Pop(s) \in Seq(Frames) /\ Top(s) \in Frames
  BY PopOK
<1>3. tables \in [Tables -> Frames \cup {NoTable}]
  BY DEF TypeOK
<1>4. w \in [Tables -> Frames \cup {NoTable}] /\ w[TableOf(p)] \in Frames
  BY <1>1, <1>2, <1>3 DEF WalkTables
<1>5. \A t \in Tables : tables[t] # NoTable => w[t] = tables[t]
  BY <1>1, <1>2, <1>3 DEF WalkTables
<1> QED BY <1>1, <1>2, <1>4, <1>5 DEF CellOf, Cells, Frames, WalkStack

(* The invariant without the mutual exclusion, which MutexStep takes care   *)
(* of: what remains to be shown of each action.                             *)
DInv == TypeOK /\ (\A c \in Cpus : CallInv(c)) /\ TreeInv /\ EntryInv

(* The state create_mgr and pmm_init leave.                                 *)
LEMMA InitMInv == Init => MInv
<1> SUFFICES ASSUME Init PROVE MInv
  OBVIOUS
<1>1. IsTree(tree, Base, NPages) /\ Tiles(tree, Base, NPages) /\ CoalescedExcept(tree, {})
  BY MemMgrAssumption, CreateOK DEF Init
<1>2. freePages \in Seq(Frames)
  BY MemMgrAssumption DEF Init, Frames, RamSet
<1>3. TypeOK
  <2>1. pte \in [Cells -> [paddr : Frames \cup DevFrames \cup {Garbage},
                          usable : {0, 1}, present : {0, 1}]]
    BY DEF Init, PteOf
  <2>2. /\ lock \in {0, 1} /\ tables \in [Tables -> Frames \cup {NoTable}]
        /\ nodePages \subseteq Frames /\ pc \in [Cpus -> Labels] /\ op \in [Cpus -> Ops]
        /\ addr \in [Cpus -> Pages \cup {NULL}]
    BY DEF Init, Frames, Labels, Ops
  <2>3. count \in [Cpus -> 0 .. NPages] /\ i \in [Cpus -> 0 .. NPages]
    BY MemMgrAssumption DEF Init
  <2>4. exhausted \in BOOLEAN
    BY Zenon DEF Init
  <2> QED BY <1>1, <1>2, <2>1, <2>2, <2>3, <2>4 DEF TypeOK
<1>4. MutualExclusion
  BY DEF Init, MutualExclusion, Inside
<1>5. \A c \in Cpus : CallInv(c)
  BY DEF Init, CallInv
<1>6. Releasing = {}
  BY DEF Init, Releasing
<1>7. TreeInv
  BY <1>1, <1>6 DEF TreeInv
<1>8. \A a \in DOMAIN tree : tree[a].allocated = 0
  BY DEF Init, create_mgr, Node
<1>9. EntryInv
  BY <1>6, <1>8 DEF EntryInv, Init, PteOf
<1> QED BY <1>3, <1>4, <1>5, <1>7, <1>9 DEF MInv

(* A call that gets the lock changes only the locals of its processor.      *)
LEMMA CallInvStep ==
  ASSUME MInv, NEW c \in Cpus, Call(c)
  PROVE  DInv'
<1>1. \A d \in Cpus : pc[d] = "idle"
  <2>1. pc[c] = "idle" /\ lock = 0
    BY DEF Call, CallMap, CallFree, Lock
  <2> QED BY <2>1, OthersIdle DEF MInv
<1>2. UNCHANGED <<tree, freePages, tables, pte, nodePages, i, exhausted>> /\ lock' = 1
  BY DEF Call, CallMap, CallFree, Lock
<1>3. CASE \E n \in 1 .. MaxCount : \E name \in {"malloc_pages", "map_memory"} : CallMap(c, name, n)
  <2>1. PICK n \in 1 .. MaxCount, name \in {"malloc_pages", "map_memory"} : CallMap(c, name, n)
    BY <1>3
  <2>2. /\ pc' = [pc EXCEPT ![c] = "alloc"] /\ op' = [op EXCEPT ![c] = name]
        /\ count' = [count EXCEPT ![c] = n] /\ addr' = addr
    BY <2>1 DEF CallMap, Goto
  <2>3. TypeOK'
    BY <2>2, <1>2, MemMgrAssumption DEF MInv, TypeOK, Labels, Ops
  <2>4. \A d \in Cpus : CallInv(d)'
    BY <2>2, <1>1, <1>2, MemMgrAssumption DEF MInv, TypeOK, CallInv
  <2>5. Releasing' = {} /\ Releasing = {}
    BY <2>2, <1>1 DEF Releasing, MInv, TypeOK
  <2>6. TreeInv'
    BY Zenon, <2>5, <1>2 DEF MInv, TreeInv
  <2>7. EntryInv'
    BY <2>5, <1>1, <1>2 DEF MInv, EntryInv, IsSet, Pending, CellOf
  <2> QED BY <2>3, <2>4, <2>6, <2>7 DEF DInv
<1>4. CASE \E a \in Pages \cup {NULL} : CallFree(c, a)
  <2>1. PICK a \in Pages \cup {NULL} : CallFree(c, a)
    BY <1>4
  <2>2. /\ pc' = [pc EXCEPT ![c] = "find"] /\ op' = [op EXCEPT ![c] = "free_pages"]
        /\ addr' = [addr EXCEPT ![c] = a] /\ count' = count
    BY Zenon, <2>1 DEF CallFree, Goto
  <2>3. TypeOK'
    BY Zenon, <2>2, <1>2, MemMgrAssumption DEF MInv, TypeOK, Labels, Ops
  <2>4. \A d \in Cpus : CallInv(d)'
    BY <2>2, <1>1, <1>2 DEF MInv, TypeOK, CallInv
  <2>5. Releasing' = {} /\ Releasing = {}
    BY <2>2, <1>1 DEF Releasing, MInv, TypeOK
  <2>6. TreeInv'
    BY Zenon, <2>5, <1>2 DEF MInv, TreeInv
  <2>7. EntryInv'
    BY <2>5, <1>1, <1>2 DEF MInv, EntryInv, IsSet, Pending, CellOf
  <2> QED BY <2>3, <2>4, <2>6, <2>7 DEF DInv
<1> QED BY <1>3, <1>4 DEF Call

(* alloc_virt on a range that is large enough: SplitOK, and the pages of    *)
(* the new allocation are all still to be mapped.                           *)
LEMMA AllocVirtInv ==
  ASSUME MInv, NEW c \in Cpus, AllocVirt(c)
  PROVE  DInv'
<1>0. PICK a \in avl_min_size(tree, count[c]) :
        /\ tree' = alloc_virt(tree, a, count[c])
        /\ addr' = [addr EXCEPT ![c] = a]
        /\ \/ UNCHANGED <<freePages, nodePages, exhausted>>
           \/ /\ freePages' = Pop(freePages)
              /\ nodePages' = nodePages \cup {Top(freePages)}
              /\ exhausted' = (exhausted \/ freePages = <<>>)
  BY Zenon DEF AllocVirt
<1>1. /\ pc[c] = "alloc" /\ pc' = [pc EXCEPT ![c] = "map"]
      /\ UNCHANGED <<lock, tables, pte, op, count, i>>
  BY DEF AllocVirt, Goto
<1>2. \A d \in Cpus \ {c} : pc[d] = "idle"
  BY Zenon, <1>1, OthersIdle DEF MInv, Inside
<1>3. count[c] \in Nat \ {0} /\ i[c] = 0
  BY <1>1, MemMgrAssumption DEF MInv, TypeOK, CallInv
<1>4. /\ a \in DOMAIN tree /\ tree[a].allocated = 0 /\ count[c] <= tree[a].page_count
      /\ a \in Pages /\ a \in Nat /\ a # NULL
  <2>1. a \in DOMAIN tree /\ tree[a].allocated = 0 /\ tree[a].page_count >= count[c]
    BY DEF avl_min_size, Fits
  <2>2. tree[a].page_count \in Nat /\ a \in Pages
    BY <2>1, MemMgrAssumption DEF MInv, TreeInv, IsTree, Pages
  <2> QED BY <2>1, <2>2, <1>3, MemMgrAssumption DEF Pages, NULL
<1>5. Releasing = {} /\ Releasing' = {}
  BY Zenon, <1>1, <1>2 DEF Releasing, MInv, TypeOK
<1>6. IsSplit(tree, a, count[c], tree')
  BY Zenon, <1>0, <1>3, <1>4, MemMgrAssumption, SplitShape DEF MInv, TreeInv
<1>7. IsTree(tree', Base, NPages) /\ Tiles(tree', Base, NPages) /\ CoalescedExcept(tree', {})
  BY Zenon, <1>0, <1>3, <1>4, <1>5, MemMgrAssumption, SplitOK DEF MInv, TreeInv
<1>8. TypeOK'
  <2>1. freePages' \in Seq(Frames) /\ nodePages' \subseteq Frames
    BY <1>0, PopOK DEF MInv, TypeOK
  <2>2. exhausted' \in BOOLEAN
    BY Zenon, <1>0 DEF MInv, TypeOK
  <2>3. pc' \in [Cpus -> Labels] /\ addr' \in [Cpus -> Pages \cup {NULL}]
    BY <1>0, <1>1, <1>4 DEF MInv, TypeOK, Labels
  <2> QED BY Zenon, <2>1, <2>2, <2>3, <1>1, <1>7 DEF MInv, TypeOK
<1>9. \A d \in Cpus : CallInv(d)'
  <2>1. CallInv(c)'
    BY SMTT(30), <1>0, <1>1, <1>3, <1>4, <1>6 DEF MInv, TypeOK, CallInv, IsSplit
  <2>2. ASSUME NEW d \in Cpus \ {c} PROVE CallInv(d)'
    BY <2>2, <1>0, <1>1, <1>2 DEF MInv, TypeOK, CallInv
  <2> QED BY ZenonT(40), <2>1, <2>2
<1>10. TreeInv'
  BY ZenonT(40), <1>5, <1>7 DEF TreeInv
<1>11. EntryInv'
  <2>1. ASSUME NEW x \in DOMAIN tree', NEW p \in x .. EndOf(tree', x) - 1,
               tree'[x].allocated = 1
        PROVE  IsSet(p)' \/ Pending(x, p)'
    <3>1. CASE x = a
      <4>1. pc'[c] = "map" /\ addr'[c] = a /\ i'[c] = 0
        BY Zenon, <1>0, <1>1, <1>3 DEF MInv, TypeOK
      <4>2. p >= a + 0
        BY <3>1, <1>4
      <4> QED BY Zenon, <3>1, <4>1, <4>2 DEF Pending
    <3>2. CASE x # a
      <4>1. x \in DOMAIN tree /\ tree'[x] = tree[x]
        BY <2>1, <3>2, <1>6 DEF IsSplit, Node
      <4>2. IsSet(p) \/ Pending(x, p)
        BY ZenonT(40), <2>1, <4>1 DEF MInv, EntryInv, EndOf
      <4>3. ~Pending(x, p)
        BY <1>1, <1>2 DEF Pending
      <4> QED BY Zenon, <4>2, <4>3, <1>1 DEF IsSet, CellOf
    <3> QED BY ZenonT(40), <3>1, <3>2
  <2> QED BY <2>1, <1>1, <1>5 DEF MInv, EntryInv
<1> QED BY <1>8, <1>9, <1>10, <1>11 DEF DInv

(* alloc_virt without a range that is large enough.                         *)
LEMMA AllocNoneInv ==
  ASSUME MInv, NEW c \in Cpus, AllocNone(c)
  PROVE  DInv'
<1>1. /\ pc[c] = "alloc" /\ pc' = [pc EXCEPT ![c] = "map"] /\ exhausted' = TRUE
      /\ UNCHANGED <<tree, lock, freePages, tables, pte, nodePages, op, addr, count, i>>
  BY DEF AllocNone, Goto, locals
<1>2. \A d \in Cpus \ {c} : pc[d] = "idle"
  BY Zenon, <1>1, OthersIdle DEF MInv, Inside
<1>3. TypeOK'
  BY Zenon, <1>1 DEF MInv, TypeOK, Labels
<1>4. \A d \in Cpus : CallInv(d)'
  BY <1>1, <1>2 DEF MInv, TypeOK, CallInv
<1>5. Releasing = {} /\ Releasing' = {}
  BY Zenon, <1>1, <1>2 DEF Releasing, MInv, TypeOK
<1>6. TreeInv'
  BY <1>1, <1>5 DEF MInv, TreeInv
<1>7. \A x, p : ~Pending(x, p)
  BY Zenon, <1>1, <1>2 DEF Pending
<1>8. EntryInv'
  BY <1>1, <1>5, <1>7 DEF MInv, EntryInv, IsSet, CellOf
<1> QED BY ZenonT(40), <1>3, <1>4, <1>6, <1>8 DEF DInv

(* The three returns give the lock back and forget the locals.              *)
LEMMA ReturnInv ==
  ASSUME MInv, NEW c \in Cpus, MapReturn(c) \/ FreeNone(c) \/ FreeReturn(c)
  PROVE  DInv'
<1>1. /\ pc' = [pc EXCEPT ![c] = "idle"] /\ op' = [op EXCEPT ![c] = "none"]
      /\ addr' = [addr EXCEPT ![c] = NULL] /\ count' = [count EXCEPT ![c] = 0]
      /\ i' = [i EXCEPT ![c] = 0] /\ lock' = 0
      /\ UNCHANGED <<tree, freePages, tables, pte, nodePages, exhausted>>
      /\ pc[c] \in {"map", "find", "unlock"}
      /\ pc[c] = "map" => i[c] = count[c]
  BY DEF MapReturn, FreeNone, FreeReturn, Return, Goto
<1>2. \A d \in Cpus \ {c} : pc[d] = "idle"
  BY Zenon, <1>1, OthersIdle DEF MInv, Inside
<1>3. TypeOK'
  BY SMTT(30), <1>1, MemMgrAssumption DEF MInv, TypeOK, Labels, Ops
<1>4. \A d \in Cpus : CallInv(d)'
  BY <1>1, <1>2 DEF MInv, TypeOK, CallInv
<1>5. Releasing = {} /\ Releasing' = {}
  BY Zenon, <1>1, <1>2 DEF Releasing, MInv, TypeOK
<1>6. TreeInv'
  BY <1>1, <1>5 DEF MInv, TreeInv
<1>7. ASSUME NEW x \in DOMAIN tree, NEW p \in x .. EndOf(tree, x) - 1,
             tree[x].allocated = 1
      PROVE  IsSet(p)
  <2>1. IsSet(p) \/ Pending(x, p)
    BY <1>7 DEF MInv, EntryInv
  <2>2. ASSUME Pending(x, p) PROVE FALSE
    <3>1. pc[c] = "map" /\ addr[c] = x /\ p >= x + i[c] /\ i[c] = count[c]
      BY Zenon, <2>2, <1>1, <1>2 DEF Pending
    <3>2. x \in Pages /\ x \in Nat /\ x # NULL
      BY SMTT(30), MemMgrAssumption DEF MInv, TreeInv, IsTree, Pages, NULL
    <3>3. EndOf(tree, x) = x + count[c] /\ count[c] \in Nat
      <4>1. tree[x] = Node(count[c], 1)
        BY Zenon, <3>1, <3>2 DEF MInv, CallInv
      <4>2. count[c] \in Nat
        BY SMTT(30), MemMgrAssumption DEF MInv, TypeOK
      <4> QED BY <4>1, <4>2 DEF EndOf, Node
    <3> QED BY <3>1, <3>2, <3>3, <1>7
  <2> QED BY Zenon, <2>1, <2>2
<1>8. EntryInv'
  BY Zenon, <1>1, <1>5, <1>7 DEF MInv, EntryInv, IsSet, CellOf
<1> QED BY Zenon, <1>3, <1>4, <1>6, <1>8 DEF DInv

(* The pages of a range of the tree belong to the region.                   *)
LEMMA RangePage ==
  ASSUME TreeInv, NEW x \in DOMAIN tree, NEW q \in x .. EndOf(tree, x) - 1
  PROVE  x \in Nat /\ q \in Nat /\ q \in Pages
<1>1. x \in Base .. Base + NPages - 1 /\ tree[x].page_count \in 1 .. NPages
  BY DEF TreeInv, IsTree
<1>2. EndOf(tree, x) <= Base + NPages
  BY DEF TreeInv, Tiles
<1>3. Base \in Nat /\ NPages \in Nat
  BY MemMgrAssumption
<1>4. PICK n \in 1 .. NPages : n = tree[x].page_count
  BY <1>1
<1>5. EndOf(tree, x) = x + n
  BY <1>4 DEF EndOf
<1>6. PICK e : e = x + n /\ e <= Base + NPages /\ q \in x .. e - 1
  BY Zenon, <1>2, <1>5
<1> QED BY <1>1, <1>3, <1>6 DEF Pages

(* The page the loop of malloc_pages, map_memory or free_pages is at.       *)
LEMMA LoopPage ==
  ASSUME MInv, NEW c \in Cpus, i[c] < count[c],
         pc[c] = "map" \/ pc[c] = "unmap"
  PROVE  /\ addr[c] \in Nat /\ i[c] \in Nat /\ addr[c] + i[c] \in Nat
         /\ addr[c] + i[c] \in Pages \/ addr[c] + i[c] < Entries
         /\ DevFrame + i[c] \in DevFrames
<1>1. /\ i[c] \in Nat /\ count[c] \in Nat /\ count[c] <= NPages
      /\ addr[c] \in Pages \cup {NULL}
  BY MemMgrAssumption DEF MInv, TypeOK
<1>2. addr[c] \in Nat
  BY SMTT(30), <1>1, MemMgrAssumption DEF Pages, NULL
<1>3. CASE addr[c] = NULL
  <2>1. NULL \notin DOMAIN tree
    BY MemMgrAssumption DEF MInv, TreeInv, IsTree, NULL
  <2>2. count[c] <= MaxCount
    BY <1>3, <2>1 DEF MInv, CallInv
  <2>3. MaxCount <= Entries /\ MaxCount \in Nat /\ Entries \in Nat
    BY MemMgrAssumption
  <2>4. i[c] < Entries
    BY <1>1, <2>2, <2>3
  <2> QED BY SMTT(30), <1>1, <1>3, <2>4, MemMgrAssumption DEF NULL, DevFrames
<1>4. CASE addr[c] # NULL
  <2>1. addr[c] \in DOMAIN tree /\ tree[addr[c]].page_count = count[c]
    <3>1. CallInv(c)
      BY Zenon DEF MInv
    <3>2. CASE pc[c] = "map"
      BY <3>1, <3>2, <1>4 DEF CallInv, Node
    <3>3. CASE pc[c] = "unmap"
      BY <3>1, <3>3 DEF CallInv, Node
    <3> QED BY Zenon, <3>2, <3>3
  <2>2. EndOf(tree, addr[c]) <= Base + NPages
    BY <2>1 DEF MInv, TreeInv, Tiles
  <2>3. addr[c] + count[c] <= Base + NPages
    BY Zenon, <2>1, <2>2 DEF EndOf
  <2>4. addr[c] >= Base /\ Base \in Nat /\ NPages \in Nat
    BY <1>1, <1>4, MemMgrAssumption DEF Pages
  <2>5. addr[c] + i[c] \in Pages
    BY <1>1, <1>2, <2>3, <2>4 DEF Pages
  <2>6. DevFrame + i[c] \in DevFrames
    BY <1>1, MemMgrAssumption DEF DevFrames
  <2> QED BY <1>1, <1>2, <2>5, <2>6
<1> QED BY Zenon, <1>3, <1>4

(* A write of an entry that is not stale memory keeps every page that is    *)
(* set that way, and sets page p.                                           *)
LEMMA WriteKeepsSet ==
  ASSUME MInv, NEW p \in Nat, p \in Pages \/ p < Entries, NEW e, e.paddr # Garbage,
         NEW s \in Seq(Frames), tables' = WalkTables(s, p),
         pte' = [pte EXCEPT ![CellOf(tables', p)] = e]
  PROVE  /\ IsSet(p)'
         /\ \A q \in Pages : IsSet(q) => IsSet(q)'
<1>1. /\ tables' \in [Tables -> Frames \cup {NoTable}]
      /\ tables'[TableOf(p)] \in Frames
      /\ \A t \in Tables : tables[t] # NoTable => tables'[t] = tables[t]
      /\ CellOf(tables', p) \in Cells
  BY Zenon, WalkOK DEF MInv
<1>2. NoTable \notin Frames
  BY MemMgrAssumption DEF Frames, NoTable, RamSet
<1>3. IsSet(p)'
  BY Zenon, <1>1, <1>2 DEF IsSet, MInv, TypeOK
<1>4. ASSUME NEW q \in Pages, IsSet(q) PROVE IsSet(q)'
  <2>1. q \in Nat /\ TableOf(q) \in Tables /\ q % Entries \in 0 .. Entries - 1
    BY TableKnown, MemMgrAssumption DEF Pages
  <2>2. tables'[TableOf(q)] = tables[TableOf(q)] /\ CellOf(tables', q) = CellOf(tables, q)
    BY Zenon, <2>1, <1>1, <1>4 DEF IsSet, CellOf
  <2>3. CellOf(tables, q) \in Cells
    BY <2>1, <1>4 DEF IsSet, CellOf, Cells, MInv, TypeOK, Frames
  <2> QED BY Zenon, <2>2, <2>3, <1>1, <1>4 DEF IsSet, MInv, TypeOK
<1> QED BY <1>3, <1>4

-----------------------------------------------------------------------------
(* set_page in the loop of malloc_pages or map_memory.                      *)
LEMMA SetPageInv ==
  ASSUME MInv, NEW c \in Cpus, SetPage(c)
  PROVE  DInv'
<1> DEFINE isRam == op[c] = "malloc_pages"
<1>p. PICK p : p = addr[c] + i[c]
  OBVIOUS
<1>s. PICK rest : rest = IF isRam THEN Pop(freePages) ELSE freePages
  OBVIOUS
<1>e. PICK e : e = IF isRam THEN PteOf(Top(freePages), 1, 1)
                            ELSE PteOf(DevFrame + i[c], 0, 1)
  OBVIOUS
<1>1. /\ pc[c] = "map" /\ i[c] < count[c]
      /\ tables' = WalkTables(rest, p) /\ freePages' = WalkStack(rest, p)
      /\ pte' = [pte EXCEPT ![CellOf(tables', p)] = e]
      /\ i' = [i EXCEPT ![c] = i[c] + 1]
      /\ UNCHANGED <<tree, lock, nodePages, pc, op, addr, count>>
  BY Zenon, <1>p, <1>s, <1>e DEF SetPage
<1>2. \A d \in Cpus \ {c} : pc[d] = "idle"
  BY Zenon, <1>1, OthersIdle DEF MInv, Inside
<1>3. /\ addr[c] \in Nat /\ i[c] \in Nat /\ p \in Nat
      /\ p \in Pages \/ p < Entries
      /\ DevFrame + i[c] \in DevFrames
  BY Zenon, <1>1, <1>p, LoopPage
<1>4. rest \in Seq(Frames) /\ Top(freePages) \in Frames
  BY Zenon, <1>s, PopOK DEF MInv, TypeOK
<1>5. /\ e \in [paddr : Frames \cup DevFrames, usable : {0, 1}, present : {0, 1}]
      /\ e.usable = 1 => e.paddr \in Frames
  BY <1>e, <1>3, <1>4 DEF PteOf
<1>6. e.paddr # Garbage
  <2>1. Garbage \notin Frames \cup DevFrames
    BY MemMgrAssumption DEF Frames, DevFrames
  <2>2. e.paddr \in Frames \cup DevFrames
    BY ZenonT(40), <1>5
  <2> QED BY <2>1, <2>2
<1> HIDE DEF isRam
<1>7. /\ tables' \in [Tables -> Frames \cup {NoTable}] /\ freePages' \in Seq(Frames)
      /\ CellOf(tables', p) \in Cells
  BY <1>1, <1>3, <1>4, WalkOK DEF MInv
<1>8. IsSet(p)' /\ \A q \in Pages : IsSet(q) => IsSet(q)'
  BY Zenon, <1>1, <1>3, <1>4, <1>6, WriteKeepsSet
<1>9. TypeOK'
  <2>1. pte' \in [Cells -> [paddr : Frames \cup DevFrames \cup {Garbage},
                           usable : {0, 1}, present : {0, 1}]]
    BY Zenon, <1>1, <1>5, <1>7 DEF MInv, TypeOK
  <2>2. exhausted' \in BOOLEAN
    BY Zenon DEF SetPage, MInv, TypeOK
  <2>3. i' \in [Cpus -> 0 .. NPages]
    <3>1. i[c] \in 0 .. NPages /\ count[c] \in 0 .. NPages
      BY Zenon DEF MInv, TypeOK
    <3>2. i[c] + 1 \in 0 .. NPages
      BY SMTT(30), <3>1, <1>1, <1>3, MemMgrAssumption
    <3> QED BY Zenon, <3>2, <1>1 DEF MInv, TypeOK
  <2> QED BY Zenon, <1>1, <1>7, <2>1, <2>2, <2>3 DEF MInv, TypeOK
<1>10. \A d \in Cpus : CallInv(d)'
  <2>1. CallInv(c)'
    <3>1. count[c] \in 0 .. NPages /\ i \in [Cpus -> 0 .. NPages] /\ CallInv(c)
      BY Zenon DEF MInv, TypeOK
    <3>2. i'[c] = i[c] + 1
      BY Zenon, <1>1, <3>1
    <3>3. i[c] + 1 <= count[c]
      BY <1>1, <1>3, <3>1, MemMgrAssumption
    <3> QED BY Zenon, <1>1, <3>1, <3>2, <3>3 DEF CallInv
  <2>2. ASSUME NEW d \in Cpus \ {c} PROVE CallInv(d)'
    BY Zenon, <2>2, <1>1, <1>2 DEF MInv, TypeOK, CallInv
  <2> QED BY <2>1, <2>2
<1>11. Releasing = {} /\ Releasing' = {}
  BY Zenon, <1>1, <1>2 DEF Releasing
<1>12. TreeInv'
  BY Zenon, <1>1, <1>11 DEF MInv, TreeInv
<1>13. EntryInv'
  <2>1. ASSUME NEW x \in DOMAIN tree, NEW q \in x .. EndOf(tree, x) - 1,
               tree[x].allocated = 1
        PROVE  IsSet(q)' \/ Pending(x, q)'
    <3>1. x \in Nat /\ q \in Nat /\ q \in Pages
      BY RangePage DEF MInv
    <3>2. CASE IsSet(q)
      BY Zenon, <3>1, <3>2, <1>8
    <3>3. CASE Pending(x, q)
      <4>1. addr[c] = x /\ q >= x + i[c]
        BY <3>3, <1>2 DEF Pending
      <4>2. CASE q = p
        BY Zenon, <4>2, <1>8
      <4>3. CASE q # p
        <5>1. q >= x + (i[c] + 1)
          BY SMTT(30), <4>1, <4>3, <3>1, <1>3, <1>p
        <5> QED BY Zenon, <5>1, <4>1, <1>1 DEF Pending, MInv, TypeOK
      <4> QED BY Zenon, <4>2, <4>3
    <3> QED BY Zenon, <3>2, <3>3, <2>1 DEF MInv, EntryInv
  <2>2. ASSUME NEW d \in Cells, pte'[d].usable = 1
        PROVE  pte'[d].paddr \in Frames \cup {Garbage}
    BY Zenon, <2>2, <1>1, <1>5, <1>7 DEF MInv, TypeOK, EntryInv
  <2> QED BY Zenon, <2>1, <2>2, <1>1, <1>11 DEF EntryInv
<1> QED BY <1>9, <1>10, <1>12, <1>13 DEF DInv

(* free_pages marks the node: UnmarkOK, and the range is now releasing.     *)
LEMMA FreeFindInv ==
  ASSUME MInv, NEW c \in Cpus, FreeFind(c)
  PROVE  DInv'
<1>a. PICK a : a = addr[c]
  OBVIOUS
<1>1. /\ pc[c] = "find" /\ pc' = [pc EXCEPT ![c] = "unmap"]
      /\ a \in DOMAIN tree /\ tree[a].allocated = 1
      /\ tree' = Unmark(tree, a) /\ count' = [count EXCEPT ![c] = tree[a].page_count]
      /\ UNCHANGED <<lock, freePages, tables, pte, nodePages, op, addr, i, exhausted>>
  BY Zenon, <1>a DEF FreeFind, Goto
<1>2. \A d \in Cpus \ {c} : pc[d] = "idle"
  BY Zenon, <1>1, OthersIdle DEF MInv, Inside
<1>3. i[c] = 0
  BY Zenon, <1>1 DEF MInv, CallInv
<1>4. Releasing = {} /\ Releasing' = {a}
  <2>1. pc \in [Cpus -> Labels]
    BY Zenon DEF MInv, TypeOK
  <2>2. {d \in Cpus : pc[d] = "unmap"} = {} /\ {d \in Cpus : pc'[d] = "unmap"} = {c}
    BY Zenon, <2>1, <1>1, <1>2
  <2>3. Releasing' = {addr[d] : d \in {c}}
    BY Zenon, <2>2, <1>1 DEF Releasing
  <2> QED BY Zenon, <2>2, <2>3, <1>a DEF Releasing
<1>5. tree[a] \in [page_count : 1 .. NPages, allocated : {0, 1}]
  BY Zenon, <1>1 DEF MInv, TreeInv, IsTree
<1>6. /\ IsTree(tree', Base, NPages) /\ Tiles(tree', Base, NPages)
      /\ CoalescedExcept(tree', {a})
  BY Zenon, <1>1, <1>4, MemMgrAssumption, UnmarkOK DEF MInv, TreeInv
<1>7. /\ DOMAIN tree' = DOMAIN tree /\ tree'[a] = Node(tree[a].page_count, 0)
      /\ \A x \in DOMAIN tree \ {a} : tree'[x] = tree[x]
  <2>1. tree' = [tree EXCEPT ![a] = [tree[a] EXCEPT !.allocated = 0]]
    BY Zenon, <1>1 DEF Unmark
  <2> QED BY <2>1, <1>1, <1>5 DEF Node
<1>8. TypeOK'
  <2>1. pc' \in [Cpus -> Labels] /\ count' \in [Cpus -> 0 .. NPages]
    <3>1. pc \in [Cpus -> Labels] /\ count \in [Cpus -> 0 .. NPages]
      BY Zenon DEF MInv, TypeOK
    <3>2. tree[a].page_count \in 0 .. NPages
      BY <1>5, MemMgrAssumption
    <3>3. "unmap" \in Labels
      BY DEF Labels
    <3> QED BY Zenon, <1>1, <3>1, <3>2, <3>3
  <2> QED BY ZenonT(40), <2>1, <1>1, <1>6 DEF MInv, TypeOK
<1>9. \A d \in Cpus : CallInv(d)'
  <2>1. CallInv(c)'
    <3>1. pc'[c] = "unmap" /\ count'[c] = tree[a].page_count /\ addr'[c] = a /\ i'[c] = 0
      BY Zenon, <1>1, <1>3, <1>a DEF MInv, TypeOK
    <3>2. 0 <= tree[a].page_count
      BY <1>5, MemMgrAssumption
    <3> QED BY Zenon, <1>1, <1>7, <3>1, <3>2 DEF CallInv
  <2>2. ASSUME NEW d \in Cpus \ {c} PROVE CallInv(d)'
    BY Zenon, <2>2, <1>1, <1>2 DEF MInv, TypeOK, CallInv
  <2> QED BY <2>1, <2>2
<1>10. TreeInv'
  BY <1>4, <1>6 DEF TreeInv
<1>11. EntryInv'
  <2>1. ASSUME NEW x \in DOMAIN tree', NEW q \in x .. EndOf(tree', x) - 1,
               tree'[x].allocated = 1 \/ x = a
        PROVE  IsSet(q)'
    <3>1. x \in DOMAIN tree /\ EndOf(tree', x) = EndOf(tree, x) /\ tree[x].allocated = 1
      <4>1. CASE x = a
        <5>1. tree'[a].page_count = tree[a].page_count
          BY <1>7 DEF Node
        <5> QED BY Zenon, <1>1, <1>7, <4>1, <5>1 DEF EndOf
      <4>2. CASE x # a
        BY ZenonT(40), <2>1, <1>7, <4>2 DEF EndOf
      <4> QED BY ZenonT(40), <4>1, <4>2
    <3>2. IsSet(q) \/ Pending(x, q)
      <4>1. q \in x .. EndOf(tree, x) - 1
        BY Zenon, <3>1, <2>1
      <4> QED BY Zenon, <3>1, <4>1 DEF MInv, EntryInv
    <3>3. ~Pending(x, q)
      BY Zenon, <1>1, <1>2 DEF Pending
    <3> QED BY Zenon, <3>2, <3>3, <1>1 DEF IsSet, CellOf
  <2> QED BY Zenon, <2>1, <1>1, <1>4 DEF MInv, EntryInv
<1> QED BY <1>8, <1>9, <1>10, <1>11 DEF DInv

(* free_page: the entry was written by set_page, so the frame that goes to  *)
(* the PMM is one the PMM gave out.                                         *)
LEMMA FreePageInv ==
  ASSUME MInv, NEW c \in Cpus, FreePage(c)
  PROVE  DInv'
<1>p. PICK p : p = addr[c] + i[c]
  OBVIOUS
<1>s. PICK rest : rest = WalkStack(freePages, p)
  OBVIOUS
<1>x. PICK cell : cell = CellOf(tables', p)
  OBVIOUS
<1>1. /\ pc[c] = "unmap" /\ i[c] < count[c]
      /\ tables' = WalkTables(freePages, p)
      /\ freePages' = IF pte[cell].usable = 1 THEN Push(rest, pte[cell].paddr) ELSE rest
      /\ pte' = [pte EXCEPT ![cell] = Cleared]
      /\ i' = [i EXCEPT ![c] = i[c] + 1]
      /\ UNCHANGED <<tree, lock, nodePages, pc, op, addr, count, exhausted>>
  BY SMTT(30), <1>p, <1>s, <1>x DEF FreePage
<1>2. \A d \in Cpus \ {c} : pc[d] = "idle"
  BY Zenon, <1>1, OthersIdle DEF MInv, Inside
<1>3. /\ addr[c] \in Nat /\ i[c] \in Nat /\ p \in Nat
      /\ p \in Pages \/ p < Entries
  BY Zenon, <1>1, <1>p, LoopPage
<1>4. freePages \in Seq(Frames)
  BY Zenon DEF MInv, TypeOK
<1>5. /\ tables' \in [Tables -> Frames \cup {NoTable}] /\ rest \in Seq(Frames)
      /\ cell \in Cells
      /\ \A t \in Tables : tables[t] # NoTable => tables'[t] = tables[t]
  <2>1. TypeOK /\ tables' = WalkTables(freePages, p)
    BY Zenon, <1>1 DEF MInv
  <2>2. /\ tables' \in [Tables -> Frames \cup {NoTable}]
        /\ \A t \in Tables : tables[t] # NoTable => tables'[t] = tables[t]
        /\ CellOf(tables', p) \in Cells /\ WalkStack(freePages, p) \in Seq(Frames)
    BY SMTT(30), <2>1, <1>3, <1>4, WalkOK
  <2> QED BY Zenon, <2>2, <1>s, <1>x
<1>6. addr[c] \in Releasing /\ addr[c] \in DOMAIN tree /\ EndOf(tree, addr[c]) = addr[c] + count[c]
  <2>1. addr[c] \in DOMAIN tree /\ tree[addr[c]] = Node(count[c], 0)
    BY Zenon, <1>1 DEF MInv, CallInv
  <2>2. addr[c] \in Releasing
    BY ZenonT(40), <1>1 DEF Releasing
  <2> QED BY SMTT(30), <2>1, <2>2 DEF EndOf, Node
<1>7. p \in addr[c] .. EndOf(tree, addr[c]) - 1
  BY SMTT(30), <1>1, <1>3, <1>6, <1>p, MemMgrAssumption DEF MInv, TypeOK
<1>8. \A x, q : ~Pending(x, q)
  BY Zenon, <1>1, <1>2 DEF Pending
<1>9. IsSet(p)
  BY Zenon, <1>6, <1>7, <1>8 DEF MInv, EntryInv
<1>10. pte[cell].paddr # Garbage
  <2>1. TableOf(p) \in Tables
    BY Zenon, <1>3, TableKnown
  <2>2. CellOf(tables, p) = cell
    BY ZenonT(40), <2>1, <1>5, <1>9, <1>x DEF IsSet, CellOf
  <2> QED BY Zenon, <2>2, <1>9 DEF IsSet
<1>11. freePages' \in Seq(Frames)
  <2>1. pte[cell].usable = 1 => pte[cell].paddr \in Frames
    BY Zenon, <1>5, <1>10 DEF MInv, EntryInv
  <2>2. \A q \in Seq(Frames) : \A f \in Frames : Push(q, f) \in Seq(Frames)
    BY DEF Push
  <2>3. rest \in Seq(Frames)
    BY Zenon, <1>5
  <2>4. CASE pte[cell].usable = 1
    BY Zenon, <1>1, <2>1, <2>2, <2>3, <2>4
  <2>5. CASE pte[cell].usable # 1
    BY Zenon, <1>1, <2>3, <2>5
  <2> QED BY Zenon, <2>4, <2>5
<1>12. /\ Cleared.paddr # Garbage /\ Cleared.usable = 0 /\ Cleared.paddr = 0
       /\ Cleared \in [paddr : Frames \cup DevFrames \cup {Garbage},
                       usable : {0, 1}, present : {0, 1}]
  BY MemMgrAssumption DEF Cleared, PteOf, Frames
<1>13. \A q \in Pages : IsSet(q) => IsSet(q)'
  BY Zenon, <1>1, <1>3, <1>4, <1>12, <1>x, WriteKeepsSet
<1>14. TypeOK'
  <2>1. pte' \in [Cells -> [paddr : Frames \cup DevFrames \cup {Garbage},
                           usable : {0, 1}, present : {0, 1}]]
    BY Zenon, <1>1, <1>5, <1>12 DEF MInv, TypeOK
  <2>2. i' \in [Cpus -> 0 .. NPages]
    <3>1. i[c] \in 0 .. NPages /\ count[c] \in 0 .. NPages
      BY Zenon DEF MInv, TypeOK
    <3>2. i[c] + 1 \in 0 .. NPages
      BY SMTT(30), <3>1, <1>1, <1>3, MemMgrAssumption
    <3> QED BY Zenon, <3>2, <1>1 DEF MInv, TypeOK
  <2> QED BY Zenon, <1>1, <1>5, <1>11, <2>1, <2>2 DEF MInv, TypeOK
<1>15. \A d \in Cpus : CallInv(d)'
  <2>1. CallInv(c)'
    <3>1. count[c] \in 0 .. NPages /\ i \in [Cpus -> 0 .. NPages] /\ CallInv(c)
      BY Zenon DEF MInv, TypeOK
    <3>2. i'[c] = i[c] + 1
      BY Zenon, <1>1, <3>1
    <3>3. i[c] + 1 <= count[c]
      BY <1>1, <1>3, <3>1, MemMgrAssumption
    <3> QED BY Zenon, <1>1, <3>1, <3>2, <3>3 DEF CallInv
  <2>2. ASSUME NEW d \in Cpus \ {c} PROVE CallInv(d)'
    BY Zenon, <2>2, <1>1, <1>2 DEF MInv, TypeOK, CallInv
  <2> QED BY <2>1, <2>2
<1>16. Releasing' = Releasing
  BY Zenon, <1>1 DEF Releasing
<1>17. TreeInv'
  BY Zenon, <1>1, <1>16 DEF MInv, TreeInv
<1>18. EntryInv'
  <2>1. ASSUME NEW x \in DOMAIN tree, NEW q \in x .. EndOf(tree, x) - 1,
               tree[x].allocated = 1 \/ x \in Releasing
        PROVE  IsSet(q)'
    <3>1. q \in Pages
      BY ZenonT(40), RangePage DEF MInv
    <3> QED BY Zenon, <3>1, <2>1, <1>8, <1>13 DEF MInv, EntryInv
  <2>2. ASSUME NEW d \in Cells, pte'[d].usable = 1
        PROVE  pte'[d].paddr \in Frames \cup {Garbage}
    <3>1. Cleared.usable # 1
      BY <1>12
    <3>2. pte'[d] = IF d = cell THEN Cleared ELSE pte[d]
      BY Zenon, <1>1 DEF MInv, TypeOK
    <3> QED BY Zenon, <2>2, <3>1, <3>2 DEF MInv, EntryInv
  <2> QED BY Zenon, <2>1, <2>2, <1>1, <1>16 DEF EntryInv
<1> QED BY Zenon, <1>14, <1>15, <1>17, <1>18 DEF DInv

(* The merges of free_pages: CoalesceOK.  Ranges that stay allocated keep   *)
(* their pages.                                                             *)
LEMMA FreeMergeInv ==
  ASSUME MInv, NEW c \in Cpus, FreeMerge(c)
  PROVE  DInv'
<1>a. PICK a : a = addr[c]
  OBVIOUS
<1>1. /\ pc[c] = "unmap" /\ pc' = [pc EXCEPT ![c] = "unlock"]
      /\ tree' = Coalesce(tree, a)
      /\ UNCHANGED <<lock, freePages, tables, pte, nodePages, op, addr, count, i, exhausted>>
  BY Zenon, <1>a DEF FreeMerge, Goto, locals
<1>2. \A d \in Cpus \ {c} : pc[d] = "idle"
  BY Zenon, <1>1, OthersIdle DEF MInv, Inside
<1>3. a \in DOMAIN tree /\ tree[a].allocated = 0
  <2>1. a \in DOMAIN tree /\ tree[a] = Node(count[c], 0)
    BY <1>1, <1>a DEF MInv, CallInv
  <2> QED BY <2>1 DEF Node
<1>4. Releasing = {a} /\ Releasing' = {}
  <2>1. pc \in [Cpus -> Labels]
    BY Zenon DEF MInv, TypeOK
  <2>2. {d \in Cpus : pc'[d] = "unmap"} = {} /\ {d \in Cpus : pc[d] = "unmap"} = {c}
    BY Zenon, <2>1, <1>1, <1>2
  <2>3. Releasing = {addr[d] : d \in {c}}
    BY Zenon, <2>2 DEF Releasing
  <2> QED BY Zenon, <2>2, <2>3, <1>a DEF Releasing
<1>5. IsTree(tree', Base, NPages) /\ Tiles(tree', Base, NPages) /\ CoalescedExcept(tree', {})
  BY ZenonT(40), <1>1, <1>3, <1>4, MemMgrAssumption, CoalesceOK DEF MInv, TreeInv
<1>6. \A x \in DOMAIN tree' : tree'[x].allocated = 1 => x \in DOMAIN tree /\ tree'[x] = tree[x]
  <2>1. KeepsAllocated(tree, Coalesce(tree, a))
    BY ZenonT(40), <1>3, MemMgrAssumption, CoalesceKeeps DEF MInv, TreeInv
  <2> QED BY Zenon, <1>1, <2>1 DEF KeepsAllocated
<1>7. TypeOK'
  BY <1>1, <1>5 DEF MInv, TypeOK, Labels
<1>8. \A d \in Cpus : CallInv(d)'
  <2>1. CallInv(c)'
    BY Zenon, <1>1 DEF MInv, TypeOK, CallInv
  <2>2. ASSUME NEW d \in Cpus \ {c} PROVE CallInv(d)'
    BY Zenon, <2>2, <1>1, <1>2 DEF MInv, TypeOK, CallInv
  <2> QED BY SMTT(30), <2>1, <2>2
<1>9. TreeInv'
  BY SMTT(30), <1>4, <1>5 DEF TreeInv
<1>10. EntryInv'
  <2>1. ASSUME NEW x \in DOMAIN tree', NEW q \in x .. EndOf(tree', x) - 1,
               tree'[x].allocated = 1
        PROVE  IsSet(q)'
    <3>1. x \in DOMAIN tree /\ EndOf(tree', x) = EndOf(tree, x) /\ tree[x].allocated = 1
      BY Zenon, <2>1, <1>6 DEF EndOf
    <3>2. IsSet(q) \/ Pending(x, q)
      BY Zenon, <3>1, <2>1 DEF MInv, EntryInv
    <3>3. ~Pending(x, q)
      BY Zenon, <1>1, <1>2 DEF Pending
    <3> QED BY Zenon, <3>2, <3>3, <1>1 DEF IsSet, CellOf
  <2> QED BY Zenon, <2>1, <1>1, <1>4 DEF MInv, EntryInv
<1> QED BY <1>7, <1>8, <1>9, <1>10 DEF DInv

(* Every step preserves the invariant.                                      *)
LEMMA StepMInv == MInv /\ [Next]_vars => MInv'
<1> SUFFICES ASSUME MInv, [Next]_vars PROVE MInv'
  OBVIOUS
<1>1. MutualExclusion'
  BY Zenon, MutexStep DEF MutexInv, MInv, TypeOK
<1>2. ASSUME NEW c \in Cpus, Call(c) \/ Step(c) PROVE DInv'
  BY Zenon, <1>2, CallInvStep, AllocVirtInv, AllocNoneInv, SetPageInv, ReturnInv,
     FreeFindInv, FreePageInv, FreeMergeInv DEF Step
<1>3. CASE UNCHANGED vars
  <2>1. TypeOK'
    BY Zenon, <1>3 DEF vars, MInv, TypeOK
  <2>2. \A c \in Cpus : CallInv(c)'
    BY ZenonT(40), <1>3 DEF vars, MInv, CallInv
  <2>3. TreeInv' /\ EntryInv'
    <3>1. Releasing' = Releasing
      BY Zenon, <1>3 DEF vars, Releasing
    <3>2. \A x, q : (IsSet(q)' <=> IsSet(q)) /\ (Pending(x, q)' <=> Pending(x, q))
      BY Zenon, <1>3 DEF vars, IsSet, Pending, CellOf
    <3>3. TreeInv'
      BY Zenon, <1>3, <3>1 DEF vars, MInv, TreeInv
    <3>4. EntryInv'
      BY Zenon, <1>3, <3>1, <3>2 DEF vars, MInv, EntryInv
    <3> QED BY Zenon, <3>3, <3>4
  <2> QED BY Zenon, <1>1, <2>1, <2>2, <2>3 DEF MInv
<1>4. CASE Next
  BY <1>1, <1>2, <1>4 DEF Next, DInv, MInv
<1> QED BY <1>3, <1>4

(* The invariant holds in every reachable state.                            *)
THEOREM MemMgrInvariant == Spec => []MInv
BY InitMInv, StepMInv, PTL DEF Spec

(* Types: in particular free_page never gives the PMM a frame that is not   *)
(* RAM, although page tables come into use uncleared.                       *)
THEOREM TypeCorrect == Spec => []TypeOK
<1>1. MInv => TypeOK
  BY DEF MInv
<1> QED BY MemMgrInvariant, <1>1, PTL
=============================================================================
