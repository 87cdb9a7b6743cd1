------------------------------- MODULE MemMgr -------------------------------
(***************************************************************************)
(* A memory manager used by several processors (mem_mgmt.c), with the leaf *)
(* page tables it writes (paging.c) and the stack of free frames it draws  *)
(* on (pmm.c).  A processor runs malloc_pages, map_memory or free_pages;   *)
(* the steps between which another processor may run are: taking the lock, *)
(* the change of the tree, each page of the loop, the merge and the        *)
(* unlock.  Addresses and frames are counted in 4 KiB pages.               *)
(*                                                                         *)
(* The three upper levels of the page tables exist for the region (the     *)
(* loader created them for the kernel image), so a missing table is always *)
(* a leaf table.  Its frame is not cleared when it comes into use: the     *)
(* entries of a new table are whatever the frame held.                     *)
(***************************************************************************)
EXTENDS RangeTree, Sequences, FiniteSets

CONSTANTS Cpus,      \* processors that share the manager
          Base,      \* addr_start of create_mgr
          NPages,    \* page_count of create_mgr
          Entries,   \* entries of a page table (512)
          MaxCount,  \* most pages a caller asks for at a time
          RamFrames, \* frames on the PMM stack, the order they lie in
          DevFrame,  \* first frame of the device memory map_memory is given
          Garbage    \* frame number that stale memory read as an entry names

RamSet == {RamFrames[k] : k \in DOMAIN RamFrames}

(* Address 0 is far below the region and shares no table with it; frame 0  *)
(* is not RAM the PMM hands out (pmm_alloc_page uses 0 to say "none").  No *)
(* caller asks for more pages than one table maps: when alloc_virt fails,  *)
(* pages are mapped from address 0 on, and the model has the first of the  *)
(* loader's identity-mapped 2 MiB pages only.                              *)
ASSUME MemMgrAssumption ==
  /\ Base \in Nat /\ NPages \in Nat \ {0} /\ Entries \in Nat \ {0}
  /\ Entries <= Base
  /\ MaxCount \in 1 .. Entries /\ MaxCount <= NPages
  /\ RamFrames \in Seq(Nat \ {0})
  /\ \A k, l \in DOMAIN RamFrames : RamFrames[k] = RamFrames[l] => k = l
  /\ DevFrame \in Nat \ {0} /\ Garbage \in Nat \ {0}
  /\ \A f \in RamSet : f < DevFrame
  /\ Garbage \notin RamSet \cup DevFrame .. DevFrame + NPages - 1

VARIABLES
  tree,       \* mgr->tree
  lock,       \* mgr->lock
  freePages,  \* _free_pages[0 .. _free_index - 1]
  tables,     \* table number -> frame of the table, or NoTable
  pte,        \* <<frame, index>> -> page table entry stored there
  nodePages,  \* frames that node_alloc.c has taken for tree nodes
  pc, op, addr, count, i,  \* per processor: place, operation, its locals
  exhausted   \* history: a request found no room or no frame

vars == <<tree, lock, freePages, tables, pte, nodePages, pc, op, addr, count, i, exhausted>>
locals == <<op, addr, count, i>>

NULL == 0
NoTable == -1
Pages == Base .. Base + NPages - 1
TableOf(p) == p \div Entries
Tables == {TableOf(NULL)} \cup {TableOf(p) : p \in Pages}
Cells == (RamSet \cup {0}) \X (0 .. Entries - 1)
PteOf(frame, usable, present) ==
  [paddr |-> frame, usable |-> usable, present |-> present]
Cleared == PteOf(0, 0, 0)

(* The table of address 0 is the identity-mapped first 2 MiB page of the   *)
(* loader: get_page_table_entry takes its frame, 0, for a page table.      *)
Init == /\ tree = create_mgr(Base, NPages)
        /\ lock = 0
        /\ freePages = RamFrames
        /\ tables = [t \in Tables |-> IF t = TableOf(NULL) THEN 0 ELSE NoTable]
        /\ pte = [c \in Cells |-> PteOf(Garbage, 1, 1)]
        /\ nodePages = {}
        /\ pc = [c \in Cpus |-> "idle"]
        /\ op = [c \in Cpus |-> "none"]
        /\ addr = [c \in Cpus |-> NULL]
        /\ count = [c \in Cpus |-> 0]
        /\ i = [c \in Cpus |-> 0]
        /\ exhausted = FALSE

-----------------------------------------------------------------------------
(* pmm_alloc_page: the top of the stack, or 0 when the stack is empty.     *)
Top(s) == IF s = <<>> THEN 0 ELSE s[Len(s)]
Pop(s) == IF s = <<>> THEN s ELSE [k \in 1 .. Len(s) - 1 |-> s[k]]

(* pmm_free_page: push.                                                    *)
Push(s, frame) == Append(s, frame)

(* get_page_table_entry: the table of page p after the walk, and the stack *)
(* once a missing table has been given a frame.                            *)
WalkTables(s, p) ==
  [tables EXCEPT ![TableOf(p)] = IF @ = NoTable THEN Top(s) ELSE @]
WalkStack(s, p) == IF tables[TableOf(p)] = NoTable THEN Pop(s) ELSE s
CellOf(tbls, p) == <<tbls[TableOf(p)], p % Entries>>

Goto(c, label) == pc' = [pc EXCEPT ![c] = label]

Return(c) == /\ Goto(c, "idle")
             /\ op' = [op EXCEPT ![c] = "none"]
             /\ addr' = [addr EXCEPT ![c] = NULL]
             /\ count' = [count EXCEPT ![c] = 0]
             /\ i' = [i EXCEPT ![c] = 0]

-----------------------------------------------------------------------------
(* A mutation of Lock: the value the exchange found is not looked at.      *)
LockWithoutTest(c) == lock' = 1 /\ pc[c] = "idle"

(* lock_mgr: the exchange that finds 0 wins; one that finds 1 stores the 1 *)
(* it found and is repeated, a stuttering step.                            *)
Lock(c) == lock = 0 /\ lock' = 1 /\ pc[c] = "idle"

(* A processor calls malloc_pages or map_memory for n pages, or free_pages *)
(* for address a, and gets the lock.  Until it does, its arguments are     *)
(* seen by nobody: calling and spinning are part of this step.  (With no   *)
(* pages to map, an operation returns before the lock.)                    *)
CallMap(c, name, n) ==
  /\ Lock(c)
  /\ Goto(c, "alloc")
  /\ op' = [op EXCEPT ![c] = name]
  /\ count' = [count EXCEPT ![c] = n]
  /\ UNCHANGED <<tree, freePages, tables, pte, nodePages, addr, i, exhausted>>

CallFree(c, a) ==
  /\ Lock(c)
  /\ Goto(c, "find")
  /\ op' = [op EXCEPT ![c] = "free_pages"]
  /\ addr' = [addr EXCEPT ![c] = a]
  /\ UNCHANGED <<tree, freePages, tables, pte, nodePages, count, i, exhausted>>

(* alloc_virt.  Splitting the range inserts a node, and the node allocator *)
(* may have to take a frame for it.                                        *)
AllocVirt(c) ==
  /\ pc[c] = "alloc"
  /\ \E a \in avl_min_size(tree, count[c]) :
       /\ tree' = alloc_virt(tree, a, count[c])
       /\ addr' = [addr EXCEPT ![c] = a]
       /\ \/ UNCHANGED <<freePages, nodePages, exhausted>>
          \/ /\ tree[a].page_count # count[c]
             /\ freePages' = Pop(freePages)
             /\ nodePages' = nodePages \cup {Top(freePages)}
             /\ exhausted' = (exhausted \/ freePages = <<>>)
  /\ Goto(c, "map")
  /\ UNCHANGED <<lock, tables, pte, op, count, i>>

(* alloc_virt when no free range is large enough: malloc_pages and         *)
(* map_memory do not look at the NULL it returns.                          *)
AllocNone(c) ==
  /\ pc[c] = "alloc"
  /\ avl_min_size(tree, count[c]) = {}
  /\ exhausted' = TRUE
  /\ Goto(c, "map")
  /\ UNCHANGED <<tree, lock, freePages, tables, pte, nodePages, locals>>

(* One turn of the loop of malloc_pages: the frame is taken first, then    *)
(* set_page walks the tables and overwrites the entry.                     *)
SetPage(c) ==
  LET p     == addr[c] + i[c]
      isRam == op[c] = "malloc_pages"
      rest  == IF isRam THEN Pop(freePages) ELSE freePages
  IN
  /\ pc[c] = "map" /\ i[c] < count[c]
  /\ tables' = WalkTables(rest, p)
  /\ freePages' = WalkStack(rest, p)
  /\ pte' = [pte EXCEPT ![CellOf(tables', p)] =
               IF isRam THEN PteOf(Top(freePages), 1, 1)
               ELSE PteOf(DevFrame + i[c], 0, 1)]
  /\ exhausted' = (exhausted \/ (isRam /\ freePages = <<>>)
                             \/ (rest = <<>> /\ tables[TableOf(p)] = NoTable))
  /\ i' = [i EXCEPT ![c] = @ + 1]
  /\ UNCHANGED <<tree, lock, nodePages, pc, op, addr, count>>

(* unlock_mgr and the return, after the loop of malloc_pages / map_memory. *)
MapReturn(c) ==
  /\ pc[c] = "map" /\ i[c] = count[c]
  /\ lock' = 0
  /\ Return(c)
  /\ UNCHANGED <<tree, freePages, tables, pte, nodePages, exhausted>>

-----------------------------------------------------------------------------
(* free_pages finds an allocated node and marks it free.                   *)
FreeFind(c) ==
  /\ pc[c] = "find"
  /\ addr[c] \in DOMAIN tree /\ tree[addr[c]].allocated = 1
  /\ tree' = Unmark(tree, addr[c])
  /\ count' = [count EXCEPT ![c] = tree[addr[c]].page_count]
  /\ Goto(c, "unmap")
  /\ UNCHANGED <<lock, freePages, tables, pte, nodePages, op, addr, i, exhausted>>

(* free_pages finds no node, or a free one, and returns.                   *)
FreeNone(c) ==
  /\ pc[c] = "find"
  /\ ~(addr[c] \in DOMAIN tree /\ tree[addr[c]].allocated = 1)
  /\ lock' = 0
  /\ Return(c)
  /\ UNCHANGED <<tree, freePages, tables, pte, nodePages, exhausted>>

(* A mutation of FreePage: the entry is left in place.                     *)
FreePageKeepEntry(c) ==
  LET p    == addr[c] + i[c]
      cell == CellOf(tables, p)
  IN
  /\ pc[c] = "unmap" /\ i[c] < count[c]
  /\ freePages' = IF pte[cell].usable = 1 THEN Push(freePages, pte[cell].paddr)
                                          ELSE freePages
  /\ i' = [i EXCEPT ![c] = @ + 1]
  /\ UNCHANGED <<tree, lock, tables, pte, nodePages, pc, op, addr, count, exhausted>>

(* A mutation of FreePage: the frame goes back without a look at USABLE.   *)
FreePageAnyFrame(c) ==
  LET p    == addr[c] + i[c]
      rest == WalkStack(freePages, p)
      cell == CellOf(tables', p)
  IN
  /\ pc[c] = "unmap" /\ i[c] < count[c]
  /\ tables' = WalkTables(freePages, p)
  /\ freePages' = Push(rest, pte[cell].paddr)
  /\ pte' = [pte EXCEPT ![cell] = Cleared]
  /\ i' = [i EXCEPT ![c] = @ + 1]
  /\ UNCHANGED <<tree, lock, nodePages, pc, op, addr, count, exhausted>>

(* A mutation of FreePage: the entry is cleared before it is looked at.    *)
FreePageClearFirst(c) ==
  LET p == addr[c] + i[c]
  IN
  /\ pc[c] = "unmap" /\ i[c] < count[c]
  /\ tables' = WalkTables(freePages, p)
  /\ freePages' = WalkStack(freePages, p)
  /\ pte' = [pte EXCEPT ![CellOf(tables', p)] = Cleared]
  /\ i' = [i EXCEPT ![c] = @ + 1]
  /\ UNCHANGED <<tree, lock, nodePages, pc, op, addr, count, exhausted>>

(* A mutation of FreePage: the loop does not advance.                      *)
FreePageNoAdvance(c) ==
  LET p    == addr[c] + i[c]
      rest == WalkStack(freePages, p)
      cell == CellOf(tables', p)
  IN
  /\ pc[c] = "unmap" /\ i[c] < count[c]
  /\ tables' = WalkTables(freePages, p)
  /\ freePages' = IF pte[cell].usable = 1 THEN Push(rest, pte[cell].paddr)
                                          ELSE rest
  /\ pte' = [pte EXCEPT ![cell] = Cleared]
  /\ UNCHANGED <<tree, lock, nodePages, pc, locals, exhausted>>

(* free_page: a frame the entry owns goes back to the PMM, and the entry   *)
(* is cleared.  The walk is that of set_page.                              *)
FreePage(c) ==
  LET p    == addr[c] + i[c]
      rest == WalkStack(freePages, p)
      cell == CellOf(tables', p)
  IN
  /\ pc[c] = "unmap" /\ i[c] < count[c]
  /\ tables' = WalkTables(freePages, p)
  /\ freePages' = IF pte[cell].usable = 1 THEN Push(rest, pte[cell].paddr)
                                          ELSE rest
  /\ pte' = [pte EXCEPT ![cell] = Cleared]
  /\ i' = [i EXCEPT ![c] = @ + 1]
  /\ UNCHANGED <<tree, lock, nodePages, pc, op, addr, count, exhausted>>

(* A mutation of FreeMerge: neighbours are left as they are.               *)
FreeMergeSkipped(c) ==
  /\ pc[c] = "unmap" /\ i[c] = count[c]
  /\ Goto(c, "unlock")
  /\ UNCHANGED <<tree, lock, freePages, tables, pte, nodePages, locals, exhausted>>

(* The rest of free_pages: merge with free neighbours.                     *)
FreeMerge(c) ==
  /\ pc[c] = "unmap" /\ i[c] = count[c]
  /\ tree' = Coalesce(tree, addr[c])
  /\ Goto(c, "unlock")
  /\ UNCHANGED <<lock, freePages, tables, pte, nodePages, locals, exhausted>>

FreeReturn(c) ==
  /\ pc[c] = "unlock"
  /\ lock' = 0
  /\ Return(c)
  /\ UNCHANGED <<tree, freePages, tables, pte, nodePages, exhausted>>

-----------------------------------------------------------------------------
(* The steps of a processor inside a call, in program order.               *)
Step(c) == \/ AllocVirt(c) \/ AllocNone(c) \/ SetPage(c) \/ MapReturn(c)
           \/ FreeFind(c) \/ FreeNone(c) \/ FreePage(c) \/ FreeMerge(c)
           \/ FreeReturn(c)

Call(c) == \/ \E n \in 1 .. MaxCount : \/ CallMap(c, "malloc_pages", n)
                                       \/ CallMap(c, "map_memory", n)
           \/ \E a \in Pages \cup {NULL} : CallFree(c, a)

Next == \E c \in Cpus : Call(c) \/ Step(c)

(* A processor that has the lock keeps executing: interrupts are disabled  *)
(* by the loader and nothing else runs on it.  Nothing is assumed of the   *)
(* calls, nor of which processor wins the exchange.                        *)
Fairness == \A c \in Cpus : WF_vars(Step(c))

Spec == Init /\ [][Next]_vars
FairSpec == Spec /\ Fairness

-----------------------------------------------------------------------------
Ops == {"none", "malloc_pages", "map_memory", "free_pages"}
Labels == {"idle", "alloc", "map", "find", "unmap", "unlock"}
Frames == RamSet \cup {0}
DevFrames == DevFrame .. DevFrame + NPages - 1

(* Types.  The PMM stack holds only RAM frames, or the 0 that a page mapped *)
(* without a frame gives back: a device frame or stale memory never gets    *)
(* there through free_page.                                                 *)
TypeOK ==
  /\ IsTree(tree, Base, NPages)
  /\ lock \in {0, 1}
  /\ freePages \in Seq(Frames)
  /\ tables \in [Tables -> Frames \cup {NoTable}]
  /\ pte \in [Cells -> [paddr : Frames \cup DevFrames \cup {Garbage},
                        usable : {0, 1}, present : {0, 1}]]
  /\ nodePages \subseteq Frames
  /\ pc \in [Cpus -> Labels]
  /\ op \in [Cpus -> Ops]
  /\ addr \in [Cpus -> Pages \cup {NULL}]
  /\ count \in [Cpus -> 0 .. NPages]
  /\ i \in [Cpus -> 0 .. NPages]
  /\ exhausted \in BOOLEAN

(* A processor is between lock_mgr and unlock_mgr.                          *)
Inside(c) == pc[c] \in {"alloc", "map", "find", "unmap", "unlock"}

(* The exchange lock admits one processor at a time, and the byte is 1      *)
(* exactly while one is inside.                                             *)
MutualExclusion == /\ \A c, d \in Cpus : Inside(c) /\ Inside(d) => c = d
                   /\ lock = 1 <=> \E c \in Cpus : Inside(c)

(* The places from which RAM frame f could be reached or handed out.        *)
Holders(f) == {<<"stack", k>> : k \in {k \in DOMAIN freePages : freePages[k] = f}}
     \cup {<<"entry", c>> : c \in {c \in Cells : pte[c].usable = 1 /\ pte[c].paddr = f}}
     \cup {<<"table", t>> : t \in {t \in Tables : tables[t] = f}}
     \cup {<<"nodes", f>> : g \in nodePages \cap {f}}

(* A RAM frame has one owner: it is on the PMM stack once, or backs one     *)
(* page, or is one page table, or holds tree nodes, whatever the calls of   *)
(* the processors and however often memory runs out.                        *)
FramesExclusive == \A f \in RamSet : \A x, y \in Holders(f) : x = y

(* While no request has found the region or the PMM exhausted, no frame is  *)
(* lost: each one is still on the stack or in use.                          *)
NoFrameLeaked == ~exhausted => \A f \in RamSet : Holders(f) # {}

(* Between calls the page tables agree with the tree: a page of an          *)
(* allocated range is mapped to memory the kernel chose, and a page of a    *)
(* free range maps no frame (its entry is clear, or still what a new table  *)
(* happened to hold).  Page tables that share frame 0, which a PMM without  *)
(* frames returns for each of them, are excepted.                           *)
MappingsMatch ==
  lock = 0 /\ (\A t \in Tables \ {TableOf(NULL)} : tables[t] # 0) =>
    \A a \in DOMAIN tree : \A p \in a .. EndOf(tree, a) - 1 :
      LET t == tables[TableOf(p)]
          e == pte[CellOf(tables, p)]
      IN  IF tree[a].allocated = 1
          THEN t # NoTable /\ e.present = 1 /\ e.paddr # Garbage
          ELSE t = NoTable \/ e.present = 0 \/ e.paddr = Garbage

(* Every path through the three operations gives the lock back.             *)
LockReleased == lock = 1 ~> lock = 0

(* The manager implements RangeMap: seen from outside the lock, a release   *)
(* takes effect when the merge is done.                                     *)
OuterTree == [a \in DOMAIN tree |->
                IF \E c \in Cpus : pc[c] = "unmap" /\ addr[c] = a
                THEN [tree[a] EXCEPT !.allocated = 1] ELSE tree[a]]

RM == INSTANCE RangeMap WITH tree <- OuterTree

ImplementsRangeMap == RM!Spec
=============================================================================
