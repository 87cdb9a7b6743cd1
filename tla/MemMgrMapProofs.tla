--------------------------- MODULE MemMgrMapProofs ---------------------------
(***************************************************************************)
(* From the invariant of MemMgr: no frame has two owners.  Then MapInv, the *)
(* invariant behind the entries of the page tables, what one write of an    *)
(* entry does to it, and the loops that call set_page.  From these, what    *)
(* the manager promises its callers: page tables that map the pages in use  *)
(* and no others, frames that do not get lost, and the map of ranges.       *)
(***************************************************************************)
EXTENDS MemMgrProofs

(* Ownership of frames.  Each kind of owner is a predicate of a frame.      *)
OnStack(s, f) == \E k \in DOMAIN s : s[k] = f
InEntry(m, f) == \E c \in Cells : m[c].usable = 1 /\ m[c].paddr = f
InTable(w, f) == \E t \in Tables : w[t] = f

StackOnce(s) == \A k, l \in DOMAIN s : s[k] = s[l] /\ s[k] # 0 => k = l
EntryOnce(m) == \A c, d \in Cells :
                  m[c].usable = 1 /\ m[d].usable = 1
                    /\ m[c].paddr = m[d].paddr /\ m[c].paddr \in RamSet => c = d
TableOnce(w) == \A t, u \in Tables : w[t] = w[u] /\ w[t] \in RamSet => t = u

(* No two owners of frame f are of different kinds.                         *)
OneKind(s, m, w, nodes, f) ==
  /\ OnStack(s, f) => ~InEntry(m, f) /\ ~InTable(w, f) /\ f \notin nodes
  /\ InEntry(m, f) => ~InTable(w, f) /\ f \notin nodes
  /\ InTable(w, f) => f \notin nodes

OwnInv == /\ StackOnce(freePages) /\ EntryOnce(pte) /\ TableOnce(tables)
          /\ \A f \in RamSet : OneKind(freePages, pte, tables, nodePages, f)

(* pmm_alloc_page removes the frame it returns from the stack.              *)
LEMMA PopOwn ==
  ASSUME NEW s \in Seq(Frames), StackOnce(s)
  PROVE  /\ StackOnce(Pop(s))
         /\ \A f : OnStack(Pop(s), f) => OnStack(s, f)
         /\ Top(s) # 0 => OnStack(s, Top(s)) /\ ~OnStack(Pop(s), Top(s))
<1>1. CASE s = <<>>
  BY <1>1 DEF Pop, Top, OnStack, StackOnce
<1>2. CASE s # <<>>
  <2>1. /\ Pop(s) = [k \in 1 .. Len(s) - 1 |-> s[k]] /\ Top(s) = s[Len(s)]
        /\ Len(s) \in Nat \ {0} /\ DOMAIN s = 1 .. Len(s)
    BY <1>2 DEF Pop, Top
  <2> QED BY <2>1 DEF OnStack, StackOnce
<1> QED BY <1>1, <1>2

(* pmm_free_page adds its argument, which must not be there already.        *)
LEMMA PushOwn ==
  ASSUME NEW s \in Seq(Frames), StackOnce(s), NEW f \in Frames, f # 0 => ~OnStack(s, f)
  PROVE  /\ StackOnce(Push(s, f))
         /\ \A g : OnStack(Push(s, f), g) => OnStack(s, g) \/ g = f
<1>1. /\ DOMAIN Push(s, f) = 1 .. Len(s) + 1 /\ Len(s) \in Nat
      /\ Push(s, f)[Len(s) + 1] = f /\ DOMAIN s = 1 .. Len(s)
      /\ \A k \in 1 .. Len(s) : Push(s, f)[k] = s[k]
  BY DEF Push
<1> QED BY <1>1 DEF OnStack, StackOnce

(* A RAM frame is not 0.                                                    *)
LEMMA RamNotZero == \A f \in RamSet : f # 0 /\ f \in Nat
BY MemMgrAssumption DEF RamSet

(* The walk of get_page_table_entry moves at most one frame, from the stack *)
(* to a table.                                                              *)
LEMMA WalkOwn ==
  ASSUME TypeOK, TableOnce(tables), NEW s \in Seq(Frames), StackOnce(s),
         NEW p \in Nat, p \in Pages \/ p < Entries,
         \A f \in RamSet : OnStack(s, f) => ~InTable(tables, f),
         NEW w, w = WalkTables(s, p), NEW r, r = WalkStack(s, p)
  PROVE  /\ TableOnce(w) /\ StackOnce(r)
         /\ \A f : OnStack(r, f) => OnStack(s, f)
         /\ \A f \in RamSet : InTable(w, f) => ~OnStack(r, f)
         /\ \A f \in RamSet : InTable(w, f) => InTable(tables, f) \/ OnStack(s, f)
<1>1. TableOf(p) \in Tables /\ tables \in [Tables -> Frames \cup {NoTable}]
  BY TableKnown DEF TypeOK
<1>2. CASE tables[TableOf(p)] # NoTable
  <2>1. w = tables /\ r = s
    BY <1>1, <1>2 DEF WalkTables, WalkStack
  <2> QED BY <2>1
<1>3. CASE tables[TableOf(p)] = NoTable
  <2>1. w = [tables EXCEPT ![TableOf(p)] = Top(s)] /\ r = Pop(s)
    BY <1>1, <1>3 DEF WalkTables, WalkStack
  <2>2. /\ StackOnce(r) /\ \A f : OnStack(r, f) => OnStack(s, f)
        /\ Top(s) # 0 => OnStack(s, Top(s)) /\ ~OnStack(r, Top(s))
    BY <2>1, PopOwn
  <2>3. \A f \in RamSet : InTable(w, f) => InTable(tables, f) \/ f = Top(s)
    BY <2>1, <1>1 DEF InTable
  <2>4. Top(s) \in RamSet => ~InTable(tables, Top(s)) /\ OnStack(s, Top(s))
    BY <2>2, RamNotZero
  <2>5. TableOnce(w)
    BY <2>1, <2>4, <1>1 DEF TableOnce, InTable
  <2>6. \A f \in RamSet : InTable(w, f) => ~OnStack(r, f)
    BY <2>2, <2>3, RamNotZero
  <2>7. \A f \in RamSet : InTable(w, f) => InTable(tables, f) \/ OnStack(s, f)
    BY <2>3, <2>4
  <2> QED BY <2>2, <2>5, <2>6, <2>7
<1> QED BY <1>2, <1>3

(* A node page that create_node takes leaves the stack.                     *)
LEMMA AllocVirtOwn ==
  ASSUME MInv, OwnInv, NEW c \in Cpus, AllocVirt(c)
  PROVE  OwnInv'
<1>1. /\ UNCHANGED <<tables, pte>>
      /\ \/ UNCHANGED <<freePages, nodePages>>
         \/ /\ freePages' = Pop(freePages)
            /\ nodePages' = nodePages \cup {Top(freePages)}
  BY DEF AllocVirt
<1>2. CASE UNCHANGED <<freePages, nodePages>>
  BY <1>1, <1>2 DEF OwnInv
<1>3. CASE freePages' = Pop(freePages) /\ nodePages' = nodePages \cup {Top(freePages)}
  <2>1. /\ StackOnce(freePages') /\ \A f : OnStack(freePages', f) => OnStack(freePages, f)
        /\ Top(freePages) # 0 => /\ OnStack(freePages, Top(freePages))
                                 /\ ~OnStack(freePages', Top(freePages))
    BY <1>3, PopOwn DEF MInv, TypeOK, OwnInv
  <2>2. ASSUME NEW f \in RamSet
        PROVE  OneKind(freePages', pte, tables, nodePages', f)
    <3>1. OneKind(freePages, pte, tables, nodePages, f)
      BY DEF OwnInv
    <3>2. f \in nodePages' => f \in nodePages \/ f = Top(freePages)
      BY <1>3
    <3> QED BY <3>1, <3>2, <2>1, RamNotZero DEF OneKind
  <2> QED BY <2>1, <2>2, <1>1 DEF OwnInv
<1> QED BY <1>1, <1>2, <1>3

(* set_page moves the frame pmm_alloc_page returned into the entry.         *)
LEMMA SetPageOwn ==
  ASSUME MInv, OwnInv, NEW c \in Cpus, SetPage(c)
  PROVE  OwnInv'
<1> DEFINE isRam == op[c] = "malloc_pages"
<1>p. PICK p : p = addr[c] + i[c]
  OBVIOUS
<1>s. PICK rest : rest = IF isRam THEN Pop(freePages) ELSE freePages
  OBVIOUS
<1>f. PICK new : new = Top(freePages)
  OBVIOUS
<1>1. /\ pc[c] = "map" /\ i[c] < count[c]
      /\ tables' = WalkTables(rest, p) /\ freePages' = WalkStack(rest, p)
      /\ pte' = [pte EXCEPT ![CellOf(tables', p)] =
                   IF isRam THEN PteOf(new, 1, 1) ELSE PteOf(DevFrame + i[c], 0, 1)]
      /\ nodePages' = nodePages
  BY Zenon, <1>p, <1>s, <1>f DEF SetPage
<1>2. p \in Nat /\ (p \in Pages \/ p < Entries)
  BY <1>1, <1>p, LoopPage
<1>3. freePages \in Seq(Frames) /\ rest \in Seq(Frames) /\ new \in Frames
  BY <1>s, <1>f, PopOK DEF MInv, TypeOK
<1>4. /\ StackOnce(rest) /\ \A f : OnStack(rest, f) => OnStack(freePages, f)
      /\ isRam /\ new # 0 => OnStack(freePages, new) /\ ~OnStack(rest, new)
  BY <1>3, <1>s, <1>f, PopOwn DEF OwnInv
<1>5. \A f \in RamSet : OnStack(rest, f) => ~InTable(tables, f)
  BY Zenon, <1>4 DEF OwnInv, OneKind
<1>6. /\ TableOnce(tables') /\ StackOnce(freePages')
      /\ \A f : OnStack(freePages', f) => OnStack(rest, f)
      /\ \A f \in RamSet : InTable(tables', f) => ~OnStack(freePages', f)
      /\ \A f \in RamSet : InTable(tables', f) => InTable(tables, f) \/ OnStack(rest, f)
  BY Zenon, <1>1, <1>2, <1>3, <1>4, <1>5, WalkOwn DEF MInv, OwnInv
<1>7. \A f \in RamSet : InEntry(pte', f) => InEntry(pte, f) \/ (isRam /\ f = new)
  BY <1>1 DEF InEntry, PteOf, MInv, TypeOK
<1>8. isRam /\ new \in RamSet => ~InEntry(pte, new) /\ ~InTable(tables, new) /\ new \notin nodePages
  BY <1>4, RamNotZero DEF OwnInv, OneKind
<1>9. EntryOnce(pte')
  <2> SUFFICES ASSUME NEW x \in Cells, NEW y \in Cells, x # y,
                      pte'[x].usable = 1, pte'[y].usable = 1,
                      pte'[x].paddr = pte'[y].paddr, pte'[x].paddr \in RamSet
               PROVE  FALSE
    BY DEF EntryOnce
  <2>1. PICK cell : cell = CellOf(tables', p)
    OBVIOUS
  <2>2. \A z \in Cells : z # cell => pte'[z] = pte[z]
    BY Zenon, <2>1, <1>1 DEF MInv, TypeOK
  <2>3. cell \in Cells /\ pte'[cell].usable = 1 => isRam /\ pte'[cell].paddr = new
    BY <2>1, <1>1 DEF MInv, TypeOK, PteOf
  <2>4. CASE x = cell
    BY Zenon, <2>2, <2>3, <2>4, <1>8 DEF InEntry
  <2>5. CASE y = cell
    BY Zenon, <2>2, <2>3, <2>5, <1>8 DEF InEntry
  <2>6. CASE x # cell /\ y # cell
    BY <2>2, <2>6 DEF OwnInv, EntryOnce
  <2> QED BY <2>4, <2>5, <2>6
<1>10. ASSUME NEW f \in RamSet
       PROVE  OneKind(freePages', pte', tables', nodePages', f)
  <2>1. OneKind(freePages, pte, tables, nodePages, f)
    BY DEF OwnInv
  <2> QED BY Zenon, <2>1, <1>1, <1>4, <1>6, <1>7, <1>8, RamNotZero DEF OneKind
<1> QED BY <1>6, <1>9, <1>10 DEF OwnInv

(* free_page moves the frame of the entry back to the stack.                *)
LEMMA FreePageOwn ==
  ASSUME MInv, OwnInv, NEW c \in Cpus, FreePage(c)
  PROVE  OwnInv'
<1>p. PICK p : p = addr[c] + i[c]
  OBVIOUS
<1>s. PICK rest : rest = WalkStack(freePages, p)
  OBVIOUS
<1>x. PICK cell : cell = CellOf(tables', p)
  OBVIOUS
<1>1. /\ pc[c] = "unmap" /\ i[c] < count[c]
      /\ tables' = WalkTables(freePages, p)
      /\ freePages' = IF pte[cell].usable = 1 THEN Push(rest, pte[cell].paddr) ELSE rest
      /\ pte' = [pte EXCEPT ![cell] = Cleared]
      /\ nodePages' = nodePages
  BY Zenon, <1>p, <1>s, <1>x DEF FreePage
<1>2. p \in Nat /\ (p \in Pages \/ p < Entries)
  BY <1>1, <1>p, LoopPage
<1>3. freePages \in Seq(Frames)
  BY DEF MInv, TypeOK
<1>4. rest \in Seq(Frames) /\ cell \in Cells
  BY Zenon, <1>1, <1>2, <1>3, <1>s, <1>x, WalkOK DEF MInv
<1>5. \A f \in RamSet : OnStack(freePages, f) => ~InTable(tables, f)
  BY DEF OwnInv, OneKind
<1>6. /\ TableOnce(tables') /\ StackOnce(rest)
      /\ \A f : OnStack(rest, f) => OnStack(freePages, f)
      /\ \A f \in RamSet : InTable(tables', f) => ~OnStack(rest, f)
      /\ \A f \in RamSet : InTable(tables', f) => InTable(tables, f) \/ OnStack(freePages, f)
  BY Zenon, <1>1, <1>2, <1>3, <1>5, <1>s, WalkOwn DEF MInv, OwnInv
<1>7. PICK old : old = pte[cell].paddr
  OBVIOUS
<1>8. /\ \A z \in Cells \ {cell} : pte'[z] = pte[z]
      /\ pte'[cell].usable = 0
  BY Zenon, <1>1, <1>4 DEF MInv, TypeOK, Cleared, PteOf
<1>9. EntryOnce(pte')
  <2> SUFFICES ASSUME NEW x \in Cells, NEW y \in Cells,
                      pte'[x].usable = 1, pte'[y].usable = 1,
                      pte'[x].paddr = pte'[y].paddr, pte'[x].paddr \in RamSet
               PROVE  x = y
    BY DEF EntryOnce
  <2>1. x # cell /\ y # cell
    BY <1>8
  <2> QED BY Zenon, <2>1, <1>8 DEF OwnInv, EntryOnce
<1>10. \A f \in RamSet : InEntry(pte', f) => InEntry(pte, f)
  BY <1>8 DEF InEntry
<1>11. pte[cell].usable = 1 /\ old \in RamSet => InEntry(pte, old) /\ ~InEntry(pte', old)
  BY <1>4, <1>7, <1>8 DEF InEntry, OwnInv, EntryOnce
<1>12. CASE pte[cell].usable # 1
  <2>1. freePages' = rest
    BY <1>1, <1>12
  <2>2. ASSUME NEW f \in RamSet
        PROVE  OneKind(freePages', pte', tables', nodePages', f)
    <3>1. OneKind(freePages, pte, tables, nodePages, f)
      BY DEF OwnInv
    <3> QED BY Zenon, <3>1, <2>1, <1>1, <1>6, <1>10 DEF OneKind
  <2> QED BY Zenon, <2>1, <2>2, <1>6, <1>9 DEF OwnInv
<1>13. CASE pte[cell].usable = 1
  <2>1. freePages' = Push(rest, old) /\ freePages' \in Seq(Frames)
    BY <1>1, <1>7, <1>13, FreePageInv DEF DInv, TypeOK
  <2>2. old \in Frames
    BY <2>1, <1>4 DEF Push
  <2>3. old # 0 => old \in RamSet
    BY Zenon, <2>2 DEF Frames
  <2>4. old \in RamSet => ~OnStack(freePages, old) /\ ~InTable(tables, old) /\ old \notin nodePages
    BY <1>11, <1>13 DEF OwnInv, OneKind
  <2>5. /\ StackOnce(freePages')
        /\ \A g : OnStack(freePages', g) => OnStack(rest, g) \/ g = old
    BY Zenon, <2>1, <2>2, <2>3, <2>4, <1>4, <1>6, PushOwn
  <2>6. ASSUME NEW f \in RamSet
        PROVE  OneKind(freePages', pte', tables', nodePages', f)
    <3>1. OneKind(freePages, pte, tables, nodePages, f)
      BY DEF OwnInv
    <3> QED BY Zenon, <3>1, <2>4, <2>5, <1>1, <1>6, <1>10, <1>11, <1>13 DEF OneKind
  <2> QED BY Zenon, <2>5, <2>6, <1>6, <1>9 DEF OwnInv
<1> QED BY <1>12, <1>13

(* Ownership is an invariant.                                               *)
THEOREM Ownership == Spec => []OwnInv
<1>1. Init => OwnInv
  <2> SUFFICES ASSUME Init PROVE OwnInv
    OBVIOUS
  <2>1. StackOnce(freePages)
    BY MemMgrAssumption DEF Init, StackOnce
  <2>2. \A f \in RamSet : ~InEntry(pte, f)
    BY MemMgrAssumption DEF Init, InEntry, PteOf
  <2>3. \A f \in RamSet : ~InTable(tables, f)
    BY RamNotZero DEF Init, InTable, NoTable
  <2>4. EntryOnce(pte)
    BY <2>2 DEF EntryOnce, InEntry
  <2>5. TableOnce(tables)
    BY <2>3 DEF TableOnce, InTable
  <2>6. nodePages = {}
    BY DEF Init
  <2> QED BY Zenon, <2>1, <2>2, <2>3, <2>4, <2>5, <2>6 DEF OwnInv, OneKind
<1>2. MInv /\ OwnInv /\ [Next]_vars => OwnInv'
  <2> SUFFICES ASSUME MInv, OwnInv, [Next]_vars PROVE OwnInv'
    OBVIOUS
  <2>1. ASSUME UNCHANGED <<freePages, pte, tables, nodePages>> PROVE OwnInv'
    BY <2>1 DEF OwnInv, OneKind
  <2>2. ASSUME NEW c \in Cpus, Call(c) PROVE OwnInv'
    BY ZenonT(40), <2>1, <2>2 DEF Call, CallMap, CallFree
  <2>3. ASSUME NEW c \in Cpus,
               AllocNone(c) \/ MapReturn(c) \/ FreeFind(c) \/ FreeNone(c)
                 \/ FreeMerge(c) \/ FreeReturn(c)
        PROVE  OwnInv'
    BY <2>1, <2>3 DEF AllocNone, MapReturn, FreeFind, FreeNone, FreeMerge, FreeReturn
  <2>4. ASSUME NEW c \in Cpus, AllocVirt(c) \/ SetPage(c) \/ FreePage(c) PROVE OwnInv'
    BY <2>4, AllocVirtOwn, SetPageOwn, FreePageOwn
  <2>5. CASE UNCHANGED vars
    BY <2>1, <2>5 DEF vars
  <2> QED BY <2>2, <2>3, <2>4, <2>5 DEF Next, Step
<1> QED BY <1>1, <1>2, MemMgrInvariant, PTL DEF Spec

(* A RAM frame never has two owners, for any number of processors, any      *)
(* frames and whatever calls are made: the PMM stack, the entries, the page *)
(* tables and the node pages share them out.                                *)
THEOREM FramesExclusiveHolds == Spec => []FramesExclusive
<1>1. OwnInv => FramesExclusive
  <2> SUFFICES ASSUME OwnInv, NEW f \in RamSet, NEW x \in Holders(f), NEW y \in Holders(f)
               PROVE  x = y
    BY DEF FramesExclusive
  <2>1. /\ f # 0 /\ OneKind(freePages, pte, tables, nodePages, f)
        /\ StackOnce(freePages) /\ EntryOnce(pte) /\ TableOnce(tables)
    BY Zenon, RamNotZero DEF OwnInv
  <2>2. ASSUME NEW h \in Holders(f)
        PROVE  \/ \E k \in DOMAIN freePages : freePages[k] = f /\ h = <<"stack", k>>
               \/ \E c \in Cells : pte[c].usable = 1 /\ pte[c].paddr = f /\ h = <<"entry", c>>
               \/ \E t \in Tables : tables[t] = f /\ h = <<"table", t>>
               \/ f \in nodePages /\ h = <<"nodes", f>>
    BY DEF Holders
  <2>3. CASE OnStack(freePages, f)
    BY <2>1, <2>2, <2>3 DEF OneKind, OnStack, InEntry, InTable, StackOnce
  <2>4. CASE InEntry(pte, f)
    BY Zenon, <2>1, <2>2, <2>4 DEF OneKind, OnStack, InEntry, InTable, EntryOnce
  <2>5. CASE InTable(tables, f)
    BY Zenon, <2>1, <2>2, <2>5 DEF OneKind, OnStack, InEntry, InTable, TableOnce
  <2>6. CASE ~OnStack(freePages, f) /\ ~InEntry(pte, f) /\ ~InTable(tables, f)
    BY <2>2, <2>6 DEF OnStack, InEntry, InTable
  <2> QED BY <2>3, <2>4, <2>5, <2>6
<1> QED BY <1>1, Ownership, PTL

-----------------------------------------------------------------------------
(* The entry of page q was written by set_page and has not been cleared.    *)
Mapped(q) == IsSet(q) /\ pte[CellOf(tables, q)].present = 1

(* Page q belongs to an allocated range whose loop has got past it, or to a *)
(* range being released whose loop has not.                                 *)
Used(q) == \E x \in DOMAIN tree :
  /\ q \in x .. EndOf(tree, x) - 1
  /\ \/ tree[x].allocated = 1 /\ ~Pending(x, q)
     \/ \E c \in Cpus : pc[c] = "unmap" /\ addr[c] = x /\ q >= x + i[c]

NoZeroTable(w) == \A t \in Tables \ {TableOf(NULL)} : w[t] # 0

(* The memory of a frame that is no page table has not been written as one. *)
Untouched == \A f \in RamSet : ~InTable(tables, f) =>
               \A k \in 0 .. Entries - 1 : pte[<<f, k>>].paddr = Garbage

(* Until a request finds no room or no frame, the 0 that pmm_alloc_page     *)
(* returns for "none" and the NULL of alloc_virt are nowhere, and each      *)
(* frame is somewhere.                                                      *)
Held(f) == OnStack(freePages, f) \/ InEntry(pte, f) \/ InTable(tables, f) \/ f \in nodePages

Plenty == /\ NoZeroTable(tables) /\ ~OnStack(freePages, 0) /\ ~InEntry(pte, 0)
          /\ \A c \in Cpus : pc[c] = "map" => addr[c] # NULL
          /\ \A f \in RamSet : Held(f)

MapInv ==
  /\ Untouched
  /\ tables[TableOf(NULL)] = 0
  /\ \A c \in Cells : pte[c].usable = 1 => pte[c].present = 1
  /\ NoZeroTable(tables) => \A q \in Pages : Mapped(q) <=> Used(q)
  /\ ~exhausted => Plenty

(* Quotient and remainder determine a page.                                 *)
LEMMA DivMod ==
  ASSUME NEW n \in Nat \ {0}, NEW p \in Nat, NEW q \in Nat,
         p \div n = q \div n, p % n = q % n
  PROVE  p = q
<1>1. p = n * (p \div n) + (p % n) /\ q = n * (q \div n) + (q % n)
  OBVIOUS
<1>2. PICK d, m : d = p \div n /\ m = p % n
  OBVIOUS
<1>3. p = n * d + m /\ q = n * d + m
  BY Zenon, <1>1, <1>2
<1> QED BY Zenon, <1>3

(* The pages of the region do not share a table with address 0.             *)
LEMMA RegionTable ==
  ASSUME NEW q \in Pages
  PROVE  /\ q \in Nat /\ q >= Entries /\ TableOf(q) \in Tables
         /\ q % Entries \in 0 .. Entries - 1 /\ TableOf(q) # TableOf(NULL)
<1>1. Entries \in Nat \ {0} /\ q \in Nat /\ q >= Entries
  BY MemMgrAssumption DEF Pages
<1>2. q \div Entries # 0 /\ 0 \div Entries = 0
  BY <1>1
<1> QED BY Zenon, <1>1, <1>2, TableKnown DEF TableOf, NULL

(* Different pages have different entries as long as no table has frame 0.  *)
LEMMA CellApart ==
  ASSUME NEW w \in [Tables -> Frames \cup {NoTable}], TableOnce(w), NoZeroTable(w),
         NEW p \in Nat, p \in Pages \/ p < Entries, NEW q \in Pages,
         w[TableOf(q)] # NoTable, CellOf(w, p) = CellOf(w, q)
  PROVE  p = q
<1>1. TableOf(p) \in Tables
  BY TableKnown
<1>2. q \in Nat /\ TableOf(q) \in Tables \ {TableOf(NULL)}
  BY RegionTable
<1>3. w[TableOf(p)] = w[TableOf(q)] /\ p % Entries = q % Entries
  BY DEF CellOf
<1>4. w[TableOf(q)] \in RamSet
  BY <1>2 DEF NoZeroTable, Frames
<1>5. TableOf(p) = TableOf(q)
  BY Zenon, <1>1, <1>2, <1>3, <1>4 DEF TableOnce
<1> QED BY Zenon, <1>2, <1>3, <1>5, DivMod, MemMgrAssumption DEF TableOf

(* A page lies in one range.                                                *)
LEMMA OneRange ==
  ASSUME TreeInv, NEW x \in DOMAIN tree, NEW y \in DOMAIN tree,
         NEW q \in x .. EndOf(tree, x) - 1, q \in y .. EndOf(tree, y) - 1
  PROVE  x = y
<1>1. x \in Nat /\ y \in Nat /\ q \in Nat
  BY RangePage
<1>2. EndOf(tree, x) \in Nat /\ EndOf(tree, y) \in Nat
  <2>1. tree[x].page_count \in 1 .. NPages /\ tree[y].page_count \in 1 .. NPages
    BY DEF TreeInv, IsTree
  <2>2. NPages \in Nat
    BY MemMgrAssumption
  <2>3. PICK m \in 1 .. NPages, n \in 1 .. NPages :
          EndOf(tree, x) = x + m /\ EndOf(tree, y) = y + n
    BY <2>1 DEF EndOf
  <2>4. m \in Nat /\ n \in Nat
    BY <2>2
  <2> QED BY <1>1, <2>3, <2>4
<1>3. ~(x < y) /\ ~(y < x)
  BY <1>1, <1>2 DEF TreeInv, Tiles
<1> QED BY <1>1, <1>3

(* A write of entry e for page p, by set_page or free_page, decides whether *)
(* p is mapped and leaves every other page as it was, also when the walk    *)
(* brings an uncleared table into use.                                      *)
LEMMA WriteMaps ==
  ASSUME MInv, OwnInv, MapInv, NEW p \in Nat, p \in Pages \/ p < Entries,
         NEW e, e.usable = 1 => e.present = 1,
         NEW s \in Seq(Frames), StackOnce(s), \A f : OnStack(s, f) => OnStack(freePages, f),
         tables' = WalkTables(s, p),
         pte' = [pte EXCEPT ![CellOf(tables', p)] = e]
  PROVE  /\ Untouched' /\ tables'[TableOf(NULL)] = 0
         /\ \A c \in Cells : pte'[c].usable = 1 => pte'[c].present = 1
         /\ NoZeroTable(tables') =>
              /\ NoZeroTable(tables)
              /\ \A q \in Pages \ {p} : Mapped(q)' <=> Mapped(q)
              /\ p \in Pages => (Mapped(p)' <=> e.paddr # Garbage /\ e.present = 1)
<1>1. /\ tables' \in [Tables -> Frames \cup {NoTable}]
      /\ tables'[TableOf(p)] \in Frames
      /\ \A t \in Tables : tables[t] # NoTable => tables'[t] = tables[t]
      /\ CellOf(tables', p) \in Cells
  BY WalkOK DEF MInv
<1>2. NoTable \notin Frames /\ NoTable # 0
  BY MemMgrAssumption DEF Frames, NoTable, RamSet
<1>3. TableOf(p) \in Tables /\ TableOf(NULL) \in Tables
  BY Zenon, TableKnown DEF Tables
<1>4. /\ tables \in [Tables -> Frames \cup {NoTable}]
      /\ pte = [c \in Cells |-> pte[c]] /\ DOMAIN pte = Cells
  BY DEF MInv, TypeOK
<1>5. \A c \in Cells : pte'[c] = IF c = CellOf(tables', p) THEN e ELSE pte[c]
  BY <1>4
<1>6. \A f \in RamSet : InTable(tables, f) => InTable(tables', f)
  BY <1>1, <1>2, RamNotZero DEF InTable, NoTable
<1>7. Untouched'
  <2> SUFFICES ASSUME NEW f \in RamSet, ~InTable(tables', f), NEW k \in 0 .. Entries - 1
               PROVE  pte'[<<f, k>>].paddr = Garbage
    BY DEF Untouched
  <2>1. tables'[TableOf(p)] # f
    BY Zenon, <1>3 DEF InTable
  <2>2. <<f, k>> \in Cells /\ <<f, k>> # CellOf(tables', p)
    BY Zenon, <2>1 DEF Cells, CellOf
  <2>3. pte[<<f, k>>].paddr = Garbage
    BY Zenon, <1>6 DEF MapInv, Untouched
  <2> QED BY Zenon, <2>2, <2>3, <1>5
<1>8. tables'[TableOf(NULL)] = 0
  BY Zenon, <1>1, <1>2, <1>3 DEF MapInv
<1>9. ASSUME NEW c \in Cells, pte'[c].usable = 1 PROVE pte'[c].present = 1
  BY Zenon, <1>5, <1>9 DEF MapInv
<1>10. ASSUME NoZeroTable(tables')
       PROVE  /\ NoZeroTable(tables)
              /\ \A q \in Pages \ {p} : Mapped(q)' <=> Mapped(q)
              /\ p \in Pages => (Mapped(p)' <=> e.paddr # Garbage /\ e.present = 1)
  <2>1. NoZeroTable(tables)
    BY Zenon, <1>1, <1>2, <1>10 DEF NoZeroTable
  <2>2. TableOnce(tables')
    BY Zenon, WalkOwn DEF MInv, OwnInv, OneKind
  <2>3. p \in Pages => (Mapped(p)' <=> e.paddr # Garbage /\ e.present = 1)
    BY Zenon, <1>1, <1>2, <1>5 DEF Mapped, IsSet
  <2>4. ASSUME NEW q \in Pages, q # p PROVE Mapped(q)' <=> Mapped(q)
    <3>1. q \in Nat /\ TableOf(q) \in Tables /\ q % Entries \in 0 .. Entries - 1
          /\ TableOf(q) # TableOf(NULL)
      BY Zenon, RegionTable
    <3>2. CASE tables'[TableOf(q)] = NoTable
      BY Zenon, <3>1, <3>2, <1>1, <1>2 DEF Mapped, IsSet
    <3>3. CASE tables'[TableOf(q)] # NoTable
      <4>1. CellOf(tables', q) # CellOf(tables', p)
        BY Zenon, <2>2, <2>4, <3>3, <1>1, <1>10, CellApart
      <4>2. CellOf(tables', q) \in Cells
        BY Zenon, <3>1, <3>3, <1>1 DEF CellOf, Cells, Frames
      <4>3. pte'[CellOf(tables', q)] = pte[CellOf(tables', q)]
        BY <4>1, <4>2, <1>5
      <4>4. CASE tables[TableOf(q)] # NoTable
        BY Zenon, <4>3, <4>4, <3>1, <1>1 DEF Mapped, IsSet, CellOf
      <4>5. CASE tables[TableOf(q)] = NoTable
        <5>1. PICK f : f = tables'[TableOf(q)]
          OBVIOUS
        <5>2. f \in RamSet
          BY Zenon, <5>1, <3>1, <3>3, <1>1, <1>10 DEF NoZeroTable, Frames
        <5>3. f = Top(s)
          BY Zenon, <5>1, <4>5, <3>1, <3>3, <1>3, <1>4 DEF WalkTables
        <5>4. OnStack(freePages, f)
          BY Zenon, <5>2, <5>3, PopOwn, RamNotZero
        <5>5. pte[CellOf(tables', q)].paddr = Garbage
          BY Zenon, <5>1, <5>2, <5>4, <3>1 DEF CellOf, MapInv, Untouched, OwnInv, OneKind
        <5> QED BY Zenon, <5>5, <4>3, <4>5 DEF Mapped, IsSet
      <4> QED BY Zenon, <4>4, <4>5
    <3> QED BY Zenon, <3>2, <3>3
  <2> QED BY Zenon, <2>1, <2>3, <2>4
<1> QED BY Zenon, <1>7, <1>8, <1>9, <1>10

(* pmm_alloc_page takes no frame but the one it returns.                    *)
LEMMA PopKeeps ==
  ASSUME NEW s \in Seq(Frames)
  PROVE  /\ \A f : OnStack(s, f) => OnStack(Pop(s), f) \/ f = Top(s)
         /\ \A f : OnStack(Pop(s), f) => OnStack(s, f)
         /\ s # <<>> => OnStack(s, Top(s))
<1>1. CASE s = <<>>
  BY <1>1 DEF Pop, Top, OnStack
<1>2. CASE s # <<>>
  <2>1. /\ Pop(s) = [k \in 1 .. Len(s) - 1 |-> s[k]] /\ Top(s) = s[Len(s)]
        /\ Len(s) \in Nat \ {0} /\ DOMAIN s = 1 .. Len(s)
    BY SMTT(30), <1>2 DEF Pop, Top
  <2> QED BY <2>1 DEF OnStack
<1> QED BY Zenon, <1>1, <1>2

(* The node at x is that of a range of n pages: it tells where the range    *)
(* ends and whether it is allocated.                                        *)
IsNode(t, x, n, flag) == t[x] = Node(n, flag)

(* The end of the range.                                                    *)
LEMMA NodeEnd == \A t, x, n, flag : IsNode(t, x, n, flag) => EndOf(t, x) = x + n
BY DEF IsNode, EndOf, Node

(* The flag of the range.                                                   *)
LEMMA NodeFlag == \A t, x, n, flag : IsNode(t, x, n, flag) => t[x].allocated = flag
BY DEF IsNode, Node

(* A page of the loop over a range lies in the range.                       *)
LEMMA InRange ==
  ASSUME NEW x \in Nat, NEW n \in Nat, NEW j \in Nat, j < n, NEW end, end = x + n
  PROVE  x + j \in x .. end - 1
OBVIOUS

(* A page of a range is past the next page of the loop, unless it is the    *)
(* page the loop is at.                                                     *)
LEMMA PastNext ==
  \A x, j, q \in Nat : q # x + j => (q >= x + (j + 1) <=> q >= x + j)
OBVIOUS

(* The page the loop is at is not.                                          *)
LEMMA NotPast == \A x, j \in Nat : ~(x + j >= x + (j + 1))
OBVIOUS

-----------------------------------------------------------------------------
(* set_page maps the page the loop is at, which was not mapped, and so      *)
(* overwrites no entry that owns a frame.                                   *)
LEMMA SetPageMap ==
  ASSUME MInv, OwnInv, MapInv, NEW c \in Cpus, SetPage(c)
  PROVE  MapInv'
<1> DEFINE isRam == op[c] = "malloc_pages"
<1>p. PICK p : p = addr[c] + i[c]
  OBVIOUS
<1>s. PICK rest : rest = IF isRam THEN Pop(freePages) ELSE freePages
  OBVIOUS
<1>e. PICK e : e = IF isRam THEN PteOf(Top(freePages), 1, 1)
                            ELSE PteOf(DevFrame + i[c], 0, 1)
  OBVIOUS
<1>1. /\ pc[c] = "map" /\ i[c] < count[c]
      /\ tables' = WalkTables(rest, p) /\ freePages' = WalkStack(rest, p)
      /\ pte' = [pte EXCEPT ![CellOf(tables', p)] = e]
      /\ i' = [i EXCEPT ![c] = i[c] + 1]
      /\ UNCHANGED <<tree, nodePages, pc, addr, count>>
  BY <1>p, <1>s, <1>e DEF SetPage
<1>2. ~exhausted' => /\ ~exhausted /\ (isRam => freePages # <<>>)
                     /\ (tables[TableOf(p)] = NoTable => rest # <<>>)
  BY Zenon, <1>p, <1>s DEF SetPage
<1>3. \A d \in Cpus \ {c} : pc[d] = "idle"
  BY Zenon, <1>1, OthersIdle DEF MInv, Inside
<1>4. /\ addr[c] \in Nat /\ i[c] \in Nat /\ p \in Nat
      /\ (p \in Pages \/ p < Entries) /\ DevFrame + i[c] \in DevFrames
  BY Zenon, <1>1, <1>p, LoopPage
<1>5. /\ freePages \in Seq(Frames) /\ rest \in Seq(Frames) /\ Top(freePages) \in Frames
      /\ StackOnce(rest) /\ \A f : OnStack(rest, f) => OnStack(freePages, f)
  BY Zenon, <1>s, PopOK, PopOwn DEF MInv, TypeOK, OwnInv
<1>6. e.present = 1 /\ e.paddr # Garbage
  <2>1. e.present = 1 /\ e.paddr \in Frames \cup DevFrames
    BY <1>4, <1>5, <1>e DEF PteOf
  <2>2. Garbage \notin Frames \cup DevFrames
    BY MemMgrAssumption DEF Frames, DevFrames
  <2> QED BY ZenonT(40), <2>1, <2>2
<1> HIDE DEF isRam
<1>7. /\ Untouched' /\ tables'[TableOf(NULL)] = 0
      /\ \A d \in Cells : pte'[d].usable = 1 => pte'[d].present = 1
      /\ NoZeroTable(tables') =>
           /\ NoZeroTable(tables)
           /\ \A q \in Pages \ {p} : Mapped(q)' <=> Mapped(q)
           /\ p \in Pages => (Mapped(p)' <=> e.paddr # Garbage /\ e.present = 1)
  BY Zenon, <1>1, <1>4, <1>5, <1>6, WriteMaps
<1>8. NULL \notin DOMAIN tree
  BY MemMgrAssumption DEF MInv, TreeInv, IsTree, NULL
<1>9. \A x \in DOMAIN tree : \A q \in x .. EndOf(tree, x) - 1 :
        Pending(x, q)' <=> Pending(x, q) /\ q # p
  <2> SUFFICES ASSUME NEW x \in DOMAIN tree, NEW q \in x .. EndOf(tree, x) - 1
               PROVE  Pending(x, q)' <=> Pending(x, q) /\ q # p
    OBVIOUS
  <2>1. x \in Nat /\ q \in Nat
    BY Zenon, RangePage DEF MInv
  <2>2. Pending(x, q) <=> addr[c] = x /\ q >= x + i[c]
    BY Zenon, <1>1, <1>3 DEF Pending
  <2>3. Pending(x, q)' <=> addr[c] = x /\ q >= x + (i[c] + 1)
    BY Zenon, <1>1, <1>3 DEF Pending, MInv, TypeOK
  <2> QED BY <2>1, <2>2, <2>3, <1>4, <1>p
<1>10. ASSUME NEW q \in Pages, q # p PROVE Used(q)' <=> Used(q)
  <2>1. \A d \in Cpus : pc[d] # "unmap"
    BY <1>1, <1>3
  <2> QED BY Zenon, <2>1, <1>1, <1>9, <1>10 DEF Used
<1>i. count[c] \in Nat /\ i[c] \in Nat /\ i[c] < count[c] /\ addr[c] \in Nat
  <2>1. count[c] \in 0 .. NPages /\ i[c] \in Nat /\ i[c] < count[c] /\ addr[c] \in Nat
    BY <1>1, <1>4, MemMgrAssumption DEF MInv, TypeOK
  <2> QED BY <2>1, MemMgrAssumption
<1>11. ASSUME p \in Pages PROVE Used(p)' /\ ~Used(p)
  <2>1. addr[c] # NULL
    <3>1. count[c] <= MaxCount
      BY Zenon, <1>1 DEF MInv, CallInv
    <3>2. p >= Entries /\ MaxCount \in 1 .. Entries /\ Entries \in Nat
      BY <1>11, RegionTable, MemMgrAssumption
    <3> QED BY <3>1, <3>2, <1>i, <1>p DEF NULL
  <2>2. addr[c] \in DOMAIN tree /\ tree[addr[c]] = Node(count[c], 1)
    BY Zenon, <2>1, <1>1 DEF MInv, CallInv
  <2>3. p \in addr[c] .. EndOf(tree, addr[c]) - 1 /\ tree[addr[c]].allocated = 1
    <3>n. IsNode(tree, addr[c], count[c], 1)
      BY Zenon, <2>2 DEF IsNode
    <3>1. EndOf(tree, addr[c]) = addr[c] + count[c]
      BY Zenon, <3>n, NodeEnd
    <3>2. tree[addr[c]].allocated = 1
      BY Zenon, <3>n, NodeFlag
    <3> QED BY Zenon, <3>1, <3>2, <1>i, <1>p, InRange
  <2>4. Pending(addr[c], p)
    BY SMTT(30), <1>1, <1>4, <1>p DEF Pending
  <2>5. \A x \in DOMAIN tree : p \in x .. EndOf(tree, x) - 1 => x = addr[c]
    BY Zenon, <2>2, <2>3, OneRange DEF MInv
  <2>6. \A d \in Cpus : pc[d] # "unmap"
    BY Zenon, <1>1, <1>3
  <2>7. ~Used(p)
    BY Zenon, <2>4, <2>5, <2>6 DEF Used
  <2>8. Used(p)'
    BY Zenon, <2>2, <2>3, <1>1, <1>9 DEF Used
  <2> QED BY ZenonT(40), <2>7, <2>8
<1>12. NoZeroTable(tables') => \A q \in Pages : Mapped(q)' <=> Used(q)'
  BY Zenon, <1>6, <1>7, <1>10, <1>11 DEF MapInv
<1>13. ASSUME ~exhausted' PROVE Plenty'
  <2>1. Plenty /\ addr[c] # NULL
    BY Zenon, <1>1, <1>2, <1>13 DEF MapInv, Plenty
  <2>2. p \in Pages
    <3>1. addr[c] \in DOMAIN tree /\ tree[addr[c]] = Node(count[c], 1)
      BY ZenonT(40), <2>1, <1>1 DEF MInv, CallInv
    <3>n. IsNode(tree, addr[c], count[c], 1)
      BY Zenon, <3>1 DEF IsNode
    <3>2. EndOf(tree, addr[c]) = addr[c] + count[c]
      BY Zenon, <3>n, NodeEnd
    <3>3. p \in addr[c] .. EndOf(tree, addr[c]) - 1
      BY Zenon, <3>2, <1>i, <1>p, InRange
    <3> QED BY Zenon, <3>1, <3>3, RangePage DEF MInv
  <2>3. PICK cell : cell = CellOf(tables', p)
    OBVIOUS
  <2>4. /\ tables' \in [Tables -> Frames \cup {NoTable}] /\ cell \in Cells
        /\ \A t \in Tables : tables[t] # NoTable => tables'[t] = tables[t]
    <3>1. PICK w : w = WalkTables(rest, p)
      OBVIOUS
    <3>2. /\ w \in [Tables -> Frames \cup {NoTable}] /\ CellOf(w, p) \in Cells
          /\ \A t \in Tables : tables[t] # NoTable => w[t] = tables[t]
      <4>1. TypeOK /\ rest \in Seq(Frames) /\ p \in Nat /\ (p \in Pages \/ p < Entries)
        BY Zenon, <1>4, <1>5 DEF MInv
      <4> QED BY Zenon, <3>1, <4>1, WalkOK
    <3>3. w = tables'
      BY Zenon, <3>1, <1>1
    <3> QED BY Zenon, <2>3, <3>2, <3>3
  <2>5. \A d \in Cells : pte'[d] = IF d = cell THEN e ELSE pte[d]
    BY <2>3, <1>1 DEF MInv, TypeOK
  <2>6. TableOf(p) \in Tables /\ p % Entries \in 0 .. Entries - 1
    BY Zenon, <2>2, RegionTable
  <2>7. \/ tables[TableOf(p)] # NoTable /\ tables' = tables /\ freePages' = rest
        \/ /\ tables[TableOf(p)] = NoTable /\ freePages' = Pop(rest)
           /\ tables' = [tables EXCEPT ![TableOf(p)] = Top(rest)]
           /\ OnStack(rest, Top(rest)) /\ Top(rest) \in RamSet
    <3>1. CASE tables[TableOf(p)] # NoTable
      BY Zenon, <3>1, <2>6, <1>1 DEF WalkTables, WalkStack, MInv, TypeOK
    <3>2. CASE tables[TableOf(p)] = NoTable
      <4>1. OnStack(rest, Top(rest)) /\ Top(rest) \in Frames
        BY Zenon, <3>2, <1>2, <1>5, <1>13, PopKeeps, PopOK
      <4>2. Top(rest) # 0
        BY Zenon, <4>1, <1>5, <2>1 DEF Plenty
      <4> QED BY Zenon, <3>2, <4>1, <4>2, <2>6, <1>1 DEF WalkTables, WalkStack, Frames
    <3> QED BY Zenon, <3>1, <3>2
  <2>8. NoZeroTable(tables')
    BY ZenonT(40), <2>1, <2>4, <2>6, <2>7, RamNotZero DEF Plenty, NoZeroTable, MInv, TypeOK
  <2>9. \A f : OnStack(freePages', f) => OnStack(freePages, f)
    BY SMTT(30), <2>7, <1>5, PopKeeps
  <2>10. isRam => e.usable = 1 /\ e.paddr = Top(freePages) /\ Top(freePages) # 0
    BY Zenon, <1>2, <1>5, <1>13, <1>e, <2>1, PopKeeps DEF PteOf, Plenty
  <2>11. ~isRam => e.usable = 0
    BY Zenon, <1>e DEF PteOf
  <2>12. ~InEntry(pte', 0)
    BY <2>1, <2>5, <2>10, <2>11 DEF Plenty, InEntry
  <2>13. ASSUME NEW f \in RamSet, pte[cell].usable = 1, pte[cell].paddr = f
         PROVE  FALSE
    <3>1. pte[cell].present = 1 /\ f # Garbage
      BY Zenon, <2>4, <2>13, MemMgrAssumption DEF MapInv
    <3>2. CASE tables' = tables /\ tables[TableOf(p)] # NoTable
      <4>1. Mapped(p)
        BY Zenon, <3>1, <3>2, <2>3, <2>13 DEF Mapped, IsSet
      <4> QED BY Zenon, <4>1, <2>1, <2>2, <1>11 DEF MapInv, Plenty
    <3>3. CASE tables' = [tables EXCEPT ![TableOf(p)] = Top(rest)]
               /\ OnStack(rest, Top(rest)) /\ Top(rest) \in RamSet
      <4>1. ~InTable(tables, Top(rest))
        BY Zenon, <3>3, <1>5 DEF OwnInv, OneKind
      <4>2. cell = <<Top(rest), p % Entries>>
        BY Zenon, <3>3, <2>3, <2>6 DEF CellOf, MInv, TypeOK
      <4> QED BY Zenon, <3>1, <3>3, <4>1, <4>2, <2>6, <2>13 DEF MapInv, Untouched
    <3> QED BY Zenon, <3>2, <3>3, <2>7
  <2>14. ASSUME NEW f \in RamSet PROVE Held(f)'
    <3>1. CASE OnStack(freePages, f)
      <4>1. OnStack(rest, f) \/ (isRam /\ f = Top(freePages))
        BY Zenon, <3>1, <1>5, <1>s, PopKeeps
      <4>2. OnStack(rest, f) => OnStack(freePages', f) \/ InTable(tables', f)
        <5>1. ASSUME OnStack(rest, f), ~OnStack(freePages', f) PROVE InTable(tables', f)
          <6>1. tables' = [tables EXCEPT ![TableOf(p)] = Top(rest)] /\ f = Top(rest)
            BY Zenon, <5>1, <2>7, <1>5, PopKeeps
          <6> QED BY Zenon, <6>1, <2>6 DEF InTable, MInv, TypeOK
        <5> QED BY Zenon, <5>1
      <4>3. isRam /\ f = Top(freePages) => InEntry(pte', f)
        BY Zenon, <2>4, <2>5, <2>10 DEF InEntry
      <4> QED BY Zenon, <4>1, <4>2, <4>3 DEF Held
    <3>2. CASE InEntry(pte, f)
      <4>1. PICK d \in Cells : pte[d].usable = 1 /\ pte[d].paddr = f
        BY <3>2 DEF InEntry
      <4>2. d # cell
        BY <4>1, <2>13
      <4> QED BY Zenon, <4>1, <4>2, <2>5 DEF Held, InEntry
    <3>3. CASE InTable(tables, f)
      <4>1. InTable(tables', f)
        BY SMTT(30), <3>3, <2>4, RamNotZero DEF InTable, NoTable
      <4> QED BY <4>1 DEF Held
    <3>4. CASE f \in nodePages
      BY Zenon, <3>4, <1>1 DEF Held
    <3> QED BY Zenon, <3>1, <3>2, <3>3, <3>4, <2>1 DEF Plenty, Held
  <2>15. ~OnStack(freePages', 0)
    BY ZenonT(40), <2>1, <2>9 DEF Plenty
  <2>16. \A d \in Cpus : pc'[d] = "map" => addr'[d] # NULL
    BY <2>1, <1>1 DEF Plenty
  <2> QED BY Zenon, <2>8, <2>12, <2>14, <2>15, <2>16 DEF Plenty
<1> QED BY Zenon, <1>7, <1>12, <1>13 DEF MapInv

-----------------------------------------------------------------------------
(* free_page unmaps the page the loop is at and gives its frame back.       *)
LEMMA FreePageMap ==
  ASSUME MInv, OwnInv, MapInv, NEW c \in Cpus, FreePage(c)
  PROVE  MapInv'
<1>0. PICK p, cell :
        /\ p = addr[c] + i[c] /\ cell = CellOf(tables', p)
        /\ tables' = WalkTables(freePages, p)
        /\ freePages' = IF pte[cell].usable = 1
                        THEN Push(WalkStack(freePages, p), pte[cell].paddr)
                        ELSE WalkStack(freePages, p)
        /\ pte' = [pte EXCEPT ![cell] = Cleared]
  BY Zenon DEF FreePage
<1>p. p = addr[c] + i[c]
  BY Zenon, <1>0
<1>x. cell = CellOf(tables', p)
  BY Zenon, <1>0
<1>1. /\ pc[c] = "unmap" /\ i[c] < count[c]
      /\ tables' = WalkTables(freePages, p)
      /\ freePages' = IF pte[cell].usable = 1 THEN Push(WalkStack(freePages, p), pte[cell].paddr)
                                               ELSE WalkStack(freePages, p)
      /\ pte' = [pte EXCEPT ![cell] = Cleared]
      /\ i' = [i EXCEPT ![c] = i[c] + 1]
      /\ UNCHANGED <<tree, nodePages, pc, addr, count, exhausted>>
  BY Zenon, <1>0 DEF FreePage
<1>2. \A d \in Cpus \ {c} : pc[d] = "idle"
  BY Zenon, <1>1, OthersIdle DEF MInv, Inside
<1>3. /\ addr[c] \in Nat /\ i[c] \in Nat /\ p \in Nat
      /\ p \in Pages \/ p < Entries
  BY ZenonT(40), <1>1, <1>p, LoopPage
<1>4. addr[c] \in DOMAIN tree /\ tree[addr[c]].allocated = 0
      /\ p \in addr[c] .. EndOf(tree, addr[c]) - 1
  <2>1. addr[c] \in DOMAIN tree /\ tree[addr[c]] = Node(count[c], 0)
    BY <1>1 DEF MInv, CallInv
  <2>2. count[c] \in Nat
    <3>1. count[c] \in 0 .. NPages
      BY Zenon DEF MInv, TypeOK
    <3> QED BY <3>1, MemMgrAssumption
  <2>3. IsNode(tree, addr[c], count[c], 0)
    BY Zenon, <2>1 DEF IsNode
  <2>4. EndOf(tree, addr[c]) = addr[c] + count[c] /\ tree[addr[c]].allocated = 0
    BY Zenon, <2>3, NodeEnd, NodeFlag
  <2> QED BY ZenonT(40), <2>1, <2>2, <2>4, <1>1, <1>3, <1>p, InRange
<1>5. p \in Pages
  BY <1>4, RangePage DEF MInv
<1>6. freePages \in Seq(Frames) /\ StackOnce(freePages)
  BY DEF MInv, TypeOK, OwnInv
<1>7. Cleared.usable = 0 /\ Cleared.present = 0
  BY SMTT(30) DEF Cleared, PteOf
<1>8. /\ Untouched' /\ tables'[TableOf(NULL)] = 0
      /\ \A d \in Cells : pte'[d].usable = 1 => pte'[d].present = 1
      /\ NoZeroTable(tables') =>
           /\ NoZeroTable(tables)
           /\ \A q \in Pages \ {p} : Mapped(q)' <=> Mapped(q)
           /\ p \in Pages => (Mapped(p)' <=> Cleared.paddr # Garbage /\ Cleared.present = 1)
  BY ZenonT(40), <1>1, <1>3, <1>6, <1>7, <1>x, WriteMaps
<1>9. \A x, q : ~Pending(x, q) /\ ~Pending(x, q)'
  BY <1>1, <1>2 DEF Pending
<1>10. ASSUME NEW q \in Pages, q # p PROVE Used(q)' <=> Used(q)
  <2>1. ASSUME NEW x \in DOMAIN tree, q \in x .. EndOf(tree, x) - 1
        PROVE  (\E d \in Cpus : pc'[d] = "unmap" /\ addr'[d] = x /\ q >= x + i'[d])
                 <=> (\E d \in Cpus : pc[d] = "unmap" /\ addr[d] = x /\ q >= x + i[d])
    <3>1. q \in Nat /\ x \in Nat
      BY <2>1, RangePage DEF MInv
    <3>2. x = addr[c] => (q >= x + (i[c] + 1) <=> q >= x + i[c])
      BY ZenonT(40), <3>1, <1>3, <1>10, <1>p, PastNext
    <3> QED BY <3>2, <1>1, <1>2 DEF MInv, TypeOK
  <2> QED BY Zenon, <2>1, <1>1, <1>9 DEF Used
<1>11. ~Used(p)'
  <2>1. \A x \in DOMAIN tree : p \in x .. EndOf(tree, x) - 1 => x = addr[c]
    BY <1>4, OneRange DEF MInv
  <2>2. ~(p >= addr[c] + (i[c] + 1))
    BY Zenon, <1>3, <1>p, NotPast
  <2>3. addr'[c] = addr[c] /\ i'[c] = i[c] + 1
    BY Zenon, <1>1 DEF MInv, TypeOK
  <2>4. \A d \in Cpus : pc'[d] = "unmap" => d = c
    BY Zenon, <1>1, <1>2
  <2>5. ASSUME NEW x \in DOMAIN tree, p \in x .. EndOf(tree, x) - 1, NEW d \in Cpus,
               pc'[d] = "unmap", addr'[d] = x
        PROVE  ~(p >= x + i'[d])
    BY ZenonT(40), <2>1, <2>2, <2>3, <2>4, <2>5
  <2> QED BY SMTT(30), <2>1, <2>5, <1>1, <1>4 DEF Used, EndOf
<1>12. NoZeroTable(tables') => \A q \in Pages : Mapped(q)' <=> Used(q)'
  BY <1>5, <1>7, <1>8, <1>10, <1>11 DEF MapInv
<1>13. ASSUME ~exhausted' PROVE Plenty'
  <2>1. Plenty
    BY Zenon, <1>1, <1>13 DEF MapInv
  <2>2. IsSet(p)
    <3>1. addr[c] \in Releasing
      BY Zenon, <1>1 DEF Releasing
    <3> QED BY Zenon, <3>1, <1>4, <1>9 DEF MInv, EntryInv
  <2>3. tables' = tables /\ WalkStack(freePages, p) = freePages
    BY Zenon, <2>2, <1>1, <1>5, RegionTable DEF IsSet, WalkTables, WalkStack, MInv, TypeOK
  <2>4. cell \in Cells
    BY Zenon, <1>1, <1>3, <1>6, <1>x, WalkOK DEF MInv
  <2>5. \A d \in Cells : pte'[d] = IF d = cell THEN Cleared ELSE pte[d]
    BY ZenonT(40), <1>1 DEF MInv, TypeOK
  <2>6. \A f : OnStack(freePages', f) <=>
                OnStack(freePages, f) \/ (pte[cell].usable = 1 /\ f = pte[cell].paddr)
    <3>1. /\ DOMAIN Push(freePages, pte[cell].paddr) = 1 .. Len(freePages) + 1
          /\ Push(freePages, pte[cell].paddr)[Len(freePages) + 1] = pte[cell].paddr
          /\ \A k \in 1 .. Len(freePages) :
               Push(freePages, pte[cell].paddr)[k] = freePages[k]
          /\ Len(freePages) \in Nat /\ DOMAIN freePages = 1 .. Len(freePages)
      BY <1>6 DEF Push
    <3> QED BY <3>1, <2>3, <1>1 DEF OnStack
  <2>7. \A f : InEntry(pte', f) => InEntry(pte, f)
    BY <2>5, <1>7 DEF InEntry
  <2>8. ~OnStack(freePages', 0) /\ ~InEntry(pte', 0)
    BY Zenon, <2>1, <2>4, <2>6, <2>7 DEF Plenty, InEntry
  <2>9. ASSUME NEW f \in RamSet PROVE Held(f)'
    <3>1. InEntry(pte, f) => InEntry(pte', f) \/ OnStack(freePages', f)
      BY ZenonT(40), <2>5, <2>6 DEF InEntry
    <3> QED BY Zenon, <3>1, <2>1, <2>3, <2>6, <1>1 DEF Plenty, Held
  <2> QED BY Zenon, <2>1, <2>3, <2>8, <2>9, <1>1 DEF Plenty
<1> QED BY <1>8, <1>12, <1>13 DEF MapInv

-----------------------------------------------------------------------------
(* A step that writes no entry keeps MapInv if it keeps the pages in use.   *)
LEMMA QuietMap ==
  ASSUME MInv, MapInv, UNCHANGED <<tables, pte>>,
         \A q \in Pages : Used(q)' <=> Used(q),
         ~exhausted' => ~exhausted /\ Plenty'
  PROVE  MapInv'
<1>1. \A q : Mapped(q)' <=> Mapped(q)
  BY DEF Mapped, IsSet, CellOf
<1> QED BY <1>1 DEF MapInv, Untouched

(* alloc_virt: the new range has no page mapped yet.                        *)
LEMMA AllocVirtMap ==
  ASSUME MInv, MapInv, NEW c \in Cpus, AllocVirt(c)
  PROVE  MapInv'
<1>0. PICK a \in avl_min_size(tree, count[c]) :
        /\ tree' = alloc_virt(tree, a, count[c])
        /\ addr' = [addr EXCEPT ![c] = a]
        /\ \/ UNCHANGED <<freePages, nodePages, exhausted>>
           \/ /\ freePages' = Pop(freePages)
              /\ nodePages' = nodePages \cup {Top(freePages)}
              /\ exhausted' = (exhausted \/ freePages = <<>>)
  BY Zenon DEF AllocVirt
<1>1. /\ pc[c] = "alloc" /\ pc' = [pc EXCEPT ![c] = "map"]
      /\ UNCHANGED <<tables, pte, count, i>>
  BY DEF AllocVirt, Goto
<1>2. \A d \in Cpus \ {c} : pc[d] = "idle"
  BY ZenonT(40), <1>1, OthersIdle DEF MInv, Inside
<1>3. count[c] \in Nat \ {0} /\ i[c] = 0
  BY <1>1, MemMgrAssumption DEF MInv, TypeOK, CallInv
<1>4. /\ a \in DOMAIN tree /\ tree[a].allocated = 0 /\ count[c] <= tree[a].page_count
      /\ a \in Nat /\ a # NULL
  <2>1. a \in DOMAIN tree /\ tree[a].allocated = 0 /\ tree[a].page_count >= count[c]
    BY DEF avl_min_size, Fits
  <2>2. tree[a].page_count \in Nat /\ a \in Pages
    BY <2>1, MemMgrAssumption DEF MInv, TreeInv, IsTree, Pages
  <2> QED BY <2>1, <2>2, <1>3, MemMgrAssumption DEF Pages, NULL
<1>5. IsSplit(tree, a, count[c], tree')
  BY Zenon, <1>0, <1>3, <1>4, MemMgrAssumption, SplitShape DEF MInv, TreeInv
<1>6. /\ \A d \in Cpus : pc[d] \notin {"map", "unmap"} /\ pc'[d] # "unmap"
      /\ \A x, q : ~Pending(x, q)
  BY Zenon, <1>1, <1>2 DEF Pending, MInv, TypeOK
<1>7. \A x, q : Pending(x, q)' <=> x = a /\ q >= a + 0
  BY Zenon, <1>0, <1>1, <1>2, <1>3 DEF Pending, MInv, TypeOK
<1>8. ASSUME NEW q \in Pages PROVE Used(q)' <=> Used(q)
  <2>1. Used(q) <=> \E x \in DOMAIN tree : q \in x .. EndOf(tree, x) - 1 /\ tree[x].allocated = 1
    BY <1>6 DEF Used
  <2>2. Used(q)' <=> \E x \in DOMAIN tree' :
                       /\ q \in x .. EndOf(tree', x) - 1
                       /\ tree'[x].allocated = 1 /\ x # a
    <3>1. \A x \in DOMAIN tree' : q \in x .. EndOf(tree', x) - 1 => (Pending(x, q)' <=> x = a)
      BY <1>4, <1>7
    <3> QED BY ZenonT(40), <3>1, <1>6 DEF Used
  <2>3. \A x : x \in DOMAIN tree' /\ tree'[x].allocated = 1 /\ x # a
               <=> x \in DOMAIN tree /\ tree[x].allocated = 1
    BY <1>4, <1>5 DEF IsSplit, Node
  <2>4. \A x \in DOMAIN tree \ {a} : tree'[x] = tree[x]
    BY Zenon, <1>5 DEF IsSplit
  <2> QED BY ZenonT(40), <2>1, <2>2, <2>3, <2>4, <1>4 DEF EndOf
<1>9. ASSUME ~exhausted' PROVE ~exhausted /\ Plenty'
  <2>1. ~exhausted /\ Plenty
    <3>1. exhausted => exhausted'
      BY Zenon DEF AllocVirt, MInv, TypeOK
    <3> QED BY <3>1, <1>9 DEF MapInv
  <2>2. \A d \in Cpus : pc'[d] = "map" => addr'[d] # NULL
    BY ZenonT(40), <1>0, <1>1, <1>2, <1>4 DEF MInv, TypeOK
  <2>3. /\ ~OnStack(freePages', 0)
        /\ \A f \in RamSet : OnStack(freePages, f) => OnStack(freePages', f) \/ f \in nodePages'
        /\ nodePages \subseteq nodePages'
    BY <1>0, <2>1, PopKeeps DEF Plenty, MInv, TypeOK
  <2> QED BY Zenon, <2>1, <2>2, <2>3, <1>1 DEF Plenty, Held
<1> QED BY <1>1, <1>8, <1>9, QuietMap

(* A step outside the loops that leaves the tree, entries and frames alone. *)
LEMMA LocalMap ==
  ASSUME MInv, MapInv, NEW c \in Cpus,
         Call(c) \/ AllocNone(c) \/ MapReturn(c) \/ FreeNone(c) \/ FreeReturn(c)
  PROVE  MapInv'
<1>1. /\ UNCHANGED <<tree, tables, pte, freePages, nodePages>>
      /\ pc[c] \in {"idle", "alloc", "map", "find", "unlock"}
      /\ pc[c] = "map" => i[c] = count[c]
      /\ \A d \in Cpus \ {c} : pc'[d] = pc[d]
      /\ pc'[c] # "unmap" /\ (pc'[c] = "map" => addr'[c] = addr[c] /\ pc[c] = "alloc")
  BY Zenon DEF Call, CallMap, CallFree, Lock, AllocNone, MapReturn, FreeNone, FreeReturn,
         Return, Goto, locals, MInv, TypeOK
<1>2. pc[c] = "idle" => lock = 0
  BY Zenon DEF Call, CallMap, CallFree, Lock, AllocNone, MapReturn, FreeNone, FreeReturn
<1>3. \A d \in Cpus \ {c} : pc[d] = "idle"
  BY ZenonT(40), <1>1, <1>2, OthersIdle DEF MInv, Inside
<1>4. \A d \in Cpus : pc[d] # "unmap" /\ pc'[d] # "unmap"
  BY <1>1, <1>3
<1>5. NULL \notin DOMAIN tree
  BY MemMgrAssumption DEF MInv, TreeInv, IsTree, NULL
<1>6. ASSUME NEW x \in DOMAIN tree, NEW q \in x .. EndOf(tree, x) - 1
      PROVE  ~Pending(x, q) /\ ~Pending(x, q)'
  <2>1. ASSUME Pending(x, q) PROVE FALSE
    <3>1. pc[c] = "map" /\ addr[c] = x /\ q >= x + i[c] /\ i[c] = count[c]
      BY Zenon, <2>1, <1>1, <1>3 DEF Pending
    <3>2. x \in Nat /\ q \in Nat /\ count[c] \in Nat
      BY SMTT(30), RangePage, MemMgrAssumption DEF MInv, TypeOK
    <3>3. tree[x] = Node(count[c], 1)
      BY ZenonT(40), <3>1, <1>5 DEF MInv, CallInv
    <3>n. IsNode(tree, x, count[c], 1)
      BY Zenon, <3>3 DEF IsNode
    <3>4. EndOf(tree, x) = x + count[c]
      BY Zenon, <3>n, NodeEnd
    <3> QED BY <3>1, <3>2, <3>4
  <2>2. ASSUME Pending(x, q)' PROVE FALSE
    <3>1. pc'[c] = "map" /\ addr'[c] = x
      BY Zenon, <2>2, <1>1, <1>3 DEF Pending
    <3>2. addr[c] = NULL
      BY Zenon, <3>1, <1>1 DEF MInv, CallInv
    <3> QED BY Zenon, <3>1, <3>2, <1>1, <1>5
  <2> QED BY <2>1, <2>2
<1>7. \A q \in Pages : Used(q)' <=> Used(q)
  BY Zenon, <1>1, <1>4, <1>6 DEF Used
<1>8. ASSUME ~exhausted' PROVE ~exhausted /\ Plenty'
  <2>1. exhausted' = exhausted /\ ~AllocNone(c)
    BY Zenon, <1>8 DEF Call, CallMap, CallFree, AllocNone, MapReturn, FreeNone, FreeReturn
  <2>2. pc'[c] # "map"
    BY Zenon, <2>1 DEF Call, CallMap, CallFree, MapReturn, FreeNone, FreeReturn, Return, Goto, MInv, TypeOK
  <2> QED BY Zenon, <2>1, <2>2, <1>1, <1>3, <1>8 DEF MapInv, Plenty, Held
<1> QED BY Zenon, <1>1, <1>7, <1>8, QuietMap

(* free_pages marks the node: its pages are in use until the loop has       *)
(* passed them.                                                             *)
LEMMA FreeFindMap ==
  ASSUME MInv, MapInv, NEW c \in Cpus, FreeFind(c)
  PROVE  MapInv'
<1>a. PICK a : a = addr[c]
  OBVIOUS
<1>1. /\ pc[c] = "find" /\ pc' = [pc EXCEPT ![c] = "unmap"]
      /\ a \in DOMAIN tree /\ tree[a].allocated = 1 /\ tree' = Unmark(tree, a)
      /\ UNCHANGED <<freePages, tables, pte, nodePages, addr, i, exhausted>>
  BY Zenon, <1>a DEF FreeFind, Goto
<1>2. \A d \in Cpus \ {c} : pc[d] = "idle"
  BY ZenonT(40), <1>1, OthersIdle DEF MInv, Inside
<1>3. i[c] = 0
  BY ZenonT(40), <1>1 DEF MInv, CallInv
<1>4. /\ DOMAIN tree' = DOMAIN tree /\ tree'[a].allocated = 0
      /\ tree'[a].page_count = tree[a].page_count
      /\ \A x \in DOMAIN tree \ {a} : tree'[x] = tree[x]
  <2>1. tree' = [tree EXCEPT ![a] = [tree[a] EXCEPT !.allocated = 0]]
    BY <1>1 DEF Unmark
  <2>2. tree[a] \in [page_count : 1 .. NPages, allocated : {0, 1}]
    BY <1>1 DEF MInv, TreeInv, IsTree
  <2> QED BY <2>1, <2>2, <1>1
<1>5. \A x \in DOMAIN tree : EndOf(tree', x) = EndOf(tree, x)
  BY Zenon, <1>4 DEF EndOf
<1>6. \A x, q : ~Pending(x, q) /\ ~Pending(x, q)'
  BY ZenonT(40), <1>1, <1>2 DEF Pending, MInv, TypeOK
<1>7. ASSUME NEW q \in Pages PROVE Used(q)' <=> Used(q)
  <2>1. ASSUME NEW x \in DOMAIN tree, q \in x .. EndOf(tree, x) - 1
        PROVE  /\ (\E d \in Cpus : pc'[d] = "unmap" /\ addr'[d] = x /\ q >= x + i'[d]) <=> x = a
               /\ ~\E d \in Cpus : pc[d] = "unmap" /\ addr[d] = x /\ q >= x + i[d]
    <3>1. q >= x + 0
      BY SMTT(30), <2>1, RangePage DEF MInv
    <3> QED BY Zenon, <3>1, <1>1, <1>2, <1>3, <1>a DEF MInv, TypeOK
  <2>2. ASSUME NEW x \in DOMAIN tree, q \in x .. EndOf(tree, x) - 1
        PROVE  tree'[x].allocated = 1 \/ x = a <=> tree[x].allocated = 1
    BY Zenon, <1>1, <1>3, <1>4
  <2>3. Used(q) <=> \E x \in DOMAIN tree : q \in x .. EndOf(tree, x) - 1 /\ tree[x].allocated = 1
    BY Zenon, <2>1, <1>6 DEF Used
  <2>4. Used(q)' <=> \E x \in DOMAIN tree : /\ q \in x .. EndOf(tree, x) - 1
                                            /\ tree'[x].allocated = 1 \/ x = a
    BY ZenonT(40), <2>1, <1>4, <1>5, <1>6 DEF Used
  <2> QED BY Zenon, <2>2, <2>3, <2>4
<1>8. ~exhausted' => ~exhausted /\ Plenty'
  BY Zenon, <1>1, <1>2 DEF MapInv, Plenty, Held, MInv, TypeOK
<1> QED BY Zenon, <1>1, <1>7, <1>8, QuietMap

(* The merges of free_pages: all pages of the range have been unmapped.     *)
LEMMA FreeMergeMap ==
  ASSUME MInv, MapInv, NEW c \in Cpus, FreeMerge(c)
  PROVE  MapInv'
<1>a. PICK a : a = addr[c]
  OBVIOUS
<1>1. /\ pc[c] = "unmap" /\ i[c] = count[c] /\ pc' = [pc EXCEPT ![c] = "unlock"]
      /\ tree' = Coalesce(tree, a)
      /\ UNCHANGED <<freePages, tables, pte, nodePages, addr, i, exhausted>>
  BY Zenon, <1>a DEF FreeMerge, Goto, locals
<1>2. \A d \in Cpus \ {c} : pc[d] = "idle"
  BY Zenon, <1>1, OthersIdle DEF MInv, Inside
<1>3. a \in DOMAIN tree /\ tree[a] = Node(count[c], 0) /\ tree[a].allocated = 0
  <2>1. a \in DOMAIN tree /\ tree[a] = Node(count[c], 0)
    BY ZenonT(40), <1>1, <1>a DEF MInv, CallInv
  <2> QED BY SMTT(30), <2>1 DEF Node
<1>4. KeepsAllocated(tree, tree')
  BY ZenonT(40), <1>1, <1>3, MemMgrAssumption, CoalesceKeeps DEF MInv, TreeInv
<1>5. \A x, q : ~Pending(x, q) /\ ~Pending(x, q)'
  BY Zenon, <1>1, <1>2 DEF Pending, MInv, TypeOK
<1>6. \A d \in Cpus : pc'[d] # "unmap"
  BY ZenonT(40), <1>1, <1>2 DEF MInv, TypeOK
<1>7. ASSUME NEW x \in DOMAIN tree, NEW q \in x .. EndOf(tree, x) - 1
      PROVE  ~\E d \in Cpus : pc[d] = "unmap" /\ addr[d] = x /\ q >= x + i[d]
  <2>1. x \in Nat /\ q \in Nat /\ count[c] \in Nat
    BY RangePage, MemMgrAssumption DEF MInv, TypeOK
  <2>2. x = a => EndOf(tree, x) = x + count[c]
    <3>n. IsNode(tree, a, count[c], 0)
      BY Zenon, <1>3 DEF IsNode
    <3>1. EndOf(tree, a) = a + count[c]
      BY Zenon, <3>n, NodeEnd
    <3> QED BY Zenon, <3>1
  <2>3. x = a => ~(q >= x + count[c])
    BY <2>1, <2>2
  <2>4. \A d \in Cpus : pc[d] = "unmap" => d = c
    BY Zenon, <1>2
  <2> QED BY Zenon, <2>3, <2>4, <1>1, <1>a
<1>8. ASSUME NEW q \in Pages PROVE Used(q)' <=> Used(q)
  <2>1. Used(q) <=> \E x \in DOMAIN tree : q \in x .. EndOf(tree, x) - 1 /\ tree[x].allocated = 1
    BY <1>5, <1>7 DEF Used
  <2>2. Used(q)' <=> \E x \in DOMAIN tree' : q \in x .. EndOf(tree', x) - 1 /\ tree'[x].allocated = 1
    BY ZenonT(40), <1>5, <1>6 DEF Used
  <2> QED BY ZenonT(40), <2>1, <2>2, <1>4 DEF KeepsAllocated, EndOf
<1>9. ~exhausted' => ~exhausted /\ Plenty'
  BY <1>1, <1>2 DEF MapInv, Plenty, Held, MInv, TypeOK
<1> QED BY Zenon, <1>1, <1>8, <1>9, QuietMap

(* MapInv is an invariant.                                                  *)
THEOREM Mappings == Spec => []MapInv
<1>1. Init => MapInv
  <2> SUFFICES ASSUME Init PROVE MapInv
    OBVIOUS
  <2>1. \A c \in Cells : pte[c] = PteOf(Garbage, 1, 1)
    BY DEF Init
  <2>2. tables[TableOf(NULL)] = 0 /\ NoZeroTable(tables)
    BY DEF Init, NoZeroTable, NoTable, Tables
  <2>3. Untouched
    BY <2>1 DEF Untouched, Cells, PteOf
  <2>4. \A q \in Pages : ~Mapped(q) /\ ~Used(q)
    <3>1. \A x \in DOMAIN tree : tree[x].allocated = 0
      BY DEF Init, create_mgr, Node
    <3>2. \A c \in Cpus : pc[c] # "unmap"
      BY DEF Init
    <3>3. \A q \in Pages : tables[TableOf(q)] = NoTable
      BY RegionTable DEF Init
    <3> QED BY <3>1, <3>2, <3>3 DEF Mapped, IsSet, Used
  <2>5. Plenty
    <3>1. ~OnStack(freePages, 0) /\ \A f \in RamSet : OnStack(freePages, f)
      BY SMTT(30), MemMgrAssumption DEF Init, OnStack, RamSet
    <3>2. ~InEntry(pte, 0)
      BY <2>1, MemMgrAssumption DEF InEntry, PteOf
    <3>3. \A c \in Cpus : pc[c] # "map"
      BY DEF Init
    <3> QED BY ZenonT(40), <3>1, <3>2, <3>3, <2>2 DEF Plenty, Held
  <2>6. \A c \in Cells : pte[c].present = 1
    BY <2>1 DEF PteOf
  <2> QED BY <2>2, <2>3, <2>4, <2>5, <2>6 DEF MapInv
<1>2. MInv /\ OwnInv /\ MapInv /\ [Next]_vars => MapInv'
  <2> SUFFICES ASSUME MInv, OwnInv, MapInv, [Next]_vars PROVE MapInv'
    OBVIOUS
  <2>1. CASE UNCHANGED vars
    <3>1. /\ tree' = tree /\ freePages' = freePages /\ tables' = tables /\ pte' = pte
          /\ nodePages' = nodePages /\ pc' = pc /\ addr' = addr /\ i' = i
          /\ exhausted' = exhausted
      BY Zenon, <2>1 DEF vars
    <3>2. ASSUME NEW q PROVE (Mapped(q)' <=> Mapped(q)) /\ (Used(q)' <=> Used(q))
      BY Zenon, <3>1 DEF Mapped, IsSet, CellOf, Used, Pending
    <3>3. Untouched' /\ (Plenty' <=> Plenty)
      BY Zenon, <3>1 DEF MapInv, Untouched, Plenty, Held
    <3> QED BY Zenon, <3>1, <3>2, <3>3 DEF MapInv
  <2>2. ASSUME NEW c \in Cpus, Call(c) \/ Step(c) PROVE MapInv'
    BY Zenon, <2>2, LocalMap, AllocVirtMap, SetPageMap, FreeFindMap, FreePageMap, FreeMergeMap DEF Step
  <2> QED BY <2>1, <2>2 DEF Next
<1> QED BY <1>1, <1>2, MemMgrInvariant, Ownership, PTL DEF Spec

(* No frame is lost before memory runs out: set_page never overwrites an    *)
(* entry that owns one, for any number of processors, pages and frames.     *)
THEOREM NoFrameLeakedHolds == Spec => []NoFrameLeaked
<1>1. MapInv => NoFrameLeaked
  <2> SUFFICES ASSUME MapInv, ~exhausted, NEW f \in RamSet PROVE Holders(f) # {}
    BY DEF NoFrameLeaked
  <2>1. Held(f)
    BY DEF MapInv, Plenty
  <2> QED BY Zenon, <2>1 DEF Held, OnStack, InEntry, InTable, Holders
<1> QED BY <1>1, Mappings, PTL

(* Between calls the page tables map the pages of the allocated ranges and  *)
(* no page of a free one, although tables come into use uncleared.          *)
THEOREM MappingsMatchHolds == Spec => []MappingsMatch
<1>1. MInv /\ MapInv => MappingsMatch
  <2> SUFFICES ASSUME MInv, MapInv, lock = 0, NoZeroTable(tables),
                      NEW a \in DOMAIN tree, NEW p \in a .. EndOf(tree, a) - 1
               PROVE  IF tree[a].allocated = 1
                      THEN Mapped(p)
                      ELSE ~Mapped(p)
    <3>1. ASSUME MInv, NEW p \in Pages, tables[TableOf(p)] # NoTable
          PROVE  pte[CellOf(tables, p)].present \in {0, 1}
      <4>1. CellOf(tables, p) \in Cells
        BY Zenon, <3>1, RegionTable DEF CellOf, Cells, MInv, TypeOK, Frames
      <4> QED BY Zenon, <4>1, <3>1 DEF MInv, TypeOK
    <3>2. MInv => \A a \in DOMAIN tree : a .. EndOf(tree, a) - 1 \subseteq Pages
      BY Zenon, RangePage DEF MInv
    <3> QED BY Zenon, <3>1, <3>2 DEF MappingsMatch, NoZeroTable, Mapped, IsSet
  <2>1. \A c \in Cpus : pc[c] = "idle"
    BY DEF MInv, MutualExclusion, Inside, TypeOK, Labels
  <2>2. p \in Pages
    BY Zenon, RangePage DEF MInv
  <2>3. Used(p) <=> tree[a].allocated = 1
    <3>1. \A x \in DOMAIN tree : p \in x .. EndOf(tree, x) - 1 => x = a
      BY Zenon, OneRange DEF MInv
    <3> QED BY Zenon, <3>1, <2>1 DEF Used, Pending
  <2> QED BY Zenon, <2>2, <2>3 DEF MapInv
<1> QED BY <1>1, Mappings, MemMgrInvariant, PTL

-----------------------------------------------------------------------------
(* The operators of RangeMap are those of MemMgr.                           *)
LEMMA SameOperators ==
  ASSUME NEW t, NEW a, NEW n
  PROVE  /\ RM!avl_min_size(t, n) = avl_min_size(t, n)
         /\ RM!alloc_virt(t, a, n) = alloc_virt(t, a, n)
         /\ RM!Unmark(t, a) = Unmark(t, a)
         /\ RM!Coalesce(t, a) = Coalesce(t, a)
         /\ RM!create_mgr(a, n) = create_mgr(a, n)
<1>1. \A x, y : RM!EndOf(x, y) = EndOf(x, y)
  BY DEF RM!EndOf, EndOf
<1>2. RM!avl_min_size(t, n) = avl_min_size(t, n)
  BY DEF RM!avl_min_size, avl_min_size, RM!Fits, Fits
<1>3. RM!alloc_virt(t, a, n) = alloc_virt(t, a, n)
  BY DEF RM!alloc_virt, alloc_virt, RM!avl_insert, avl_insert, RM!Node, Node
<1>4. RM!Unmark(t, a) = Unmark(t, a) /\ RM!create_mgr(a, n) = create_mgr(a, n)
  BY Zenon DEF RM!Unmark, Unmark, RM!create_mgr, create_mgr, RM!Node, Node
<1>5. RM!Coalesce(t, a) = Coalesce(t, a)
  BY DEF RM!Coalesce, Coalesce, RM!MergeAfter, MergeAfter, RM!MergeBelow, MergeBelow,
         RM!MergedStart, MergedStart, RM!FreeBelow, FreeBelow, RM!avl_below, avl_below,
         RM!Absorb, Absorb, RM!avl_remove, avl_remove, RM!EndOf, EndOf
<1> QED BY Zenon, <1>2, <1>3, <1>4, <1>5

(* With no release in progress, RangeMap sees the tree itself.              *)
LEMMA OuterQuiet ==
  ASSUME IsTree(tree, Base, NPages), \A c \in Cpus : pc[c] # "unmap"
  PROVE  OuterTree = tree
BY DEF OuterTree, IsTree

(* During a release, RangeMap sees the range still allocated.               *)
LEMMA OuterBusy ==
  ASSUME MInv, NEW c \in Cpus, pc[c] = "unmap"
  PROVE  /\ DOMAIN OuterTree = DOMAIN tree
         /\ OuterTree = [tree EXCEPT ![addr[c]] = Node(count[c], 1)]
<1>1. \A d \in Cpus \ {c} : pc[d] = "idle"
  BY ZenonT(40), OthersIdle DEF MInv, Inside
<1>2. addr[c] \in DOMAIN tree /\ tree[addr[c]] = Node(count[c], 0)
  BY DEF MInv, CallInv
<1>3. [tree[addr[c]] EXCEPT !.allocated = 1] = Node(count[c], 1)
  BY <1>2 DEF Node
<1>4. \A x \in DOMAIN tree : (\E d \in Cpus : pc[d] = "unmap" /\ addr[d] = x) <=> x = addr[c]
  BY <1>1
<1>5. OuterTree = [x \in DOMAIN tree |-> IF x = addr[c] THEN Node(count[c], 1) ELSE tree[x]]
  BY <1>3, <1>4 DEF OuterTree
<1> QED BY <1>2, <1>5 DEF MInv, TreeInv, IsTree

(* alloc_virt is the allocation of RangeMap.                                *)
LEMMA AllocVirtRefines ==
  ASSUME MInv, MInv', NEW c \in Cpus, AllocVirt(c)
  PROVE  RM!Next
<1>1. pc[c] = "alloc" /\ pc' = [pc EXCEPT ![c] = "map"]
  BY Zenon DEF AllocVirt, Goto
<1>2. \A d \in Cpus : pc[d] # "unmap" /\ pc'[d] # "unmap"
  BY ZenonT(40), <1>1, OthersIdle DEF MInv, TypeOK, Inside
<1>3. OuterTree = tree
  BY <1>2, OuterQuiet DEF MInv, TreeInv
<1>4. OuterTree' = tree'
  BY <1>2 DEF OuterTree, MInv, TreeInv, IsTree
<1>5. PICK n : n = count[c]
  OBVIOUS
<1>6. PICK a \in avl_min_size(tree, n) : tree' = alloc_virt(tree, a, n)
  BY Zenon, <1>5 DEF AllocVirt
<1>7. a \in RM!avl_min_size(OuterTree, n) /\ OuterTree' = RM!alloc_virt(OuterTree, a, n)
  <2>1. RM!avl_min_size(tree, n) = avl_min_size(tree, n)
    BY SameOperators
  <2>2. RM!alloc_virt(tree, a, n) = alloc_virt(tree, a, n)
    BY SameOperators
  <2> QED BY Zenon, <1>3, <1>4, <1>6, <2>1, <2>2
<1>8. n \in 1 .. NPages
  <2>1. count \in [Cpus -> 0 .. NPages]
    BY DEF MInv, TypeOK
  <2>2. CallInv(c)
    BY Zenon DEF MInv
  <2>3. count[c] # 0
    BY Zenon, <1>1, <2>2 DEF CallInv
  <2>4. NPages \in Nat
    BY Zenon, MemMgrAssumption
  <2> QED BY <1>5, <2>1, <2>3, <2>4
<1> QED BY Zenon, <1>7, <1>8 DEF RM!Next, RM!Alloc

(* The merge is the release of RangeMap.                                    *)
LEMMA FreeMergeRefines ==
  ASSUME MInv, MInv', NEW c \in Cpus, FreeMerge(c)
  PROVE  RM!Next
<1>a. PICK a : a = addr[c]
  OBVIOUS
<1>1. pc[c] = "unmap" /\ pc' = [pc EXCEPT ![c] = "unlock"] /\ tree' = Coalesce(tree, a)
  BY Zenon, <1>a DEF FreeMerge, Goto
<1>2. \A d \in Cpus : pc'[d] # "unmap"
  BY Zenon, <1>1, OthersIdle DEF MInv, TypeOK, Inside
<1>3. OuterTree' = tree'
  BY <1>2 DEF OuterTree, MInv, TreeInv, IsTree
<1>4. /\ DOMAIN OuterTree = DOMAIN tree
      /\ OuterTree = [tree EXCEPT ![a] = Node(count[c], 1)]
  BY ZenonT(40), <1>1, <1>a, OuterBusy
<1>5. a \in DOMAIN tree /\ tree[a] = Node(count[c], 0)
  BY ZenonT(40), <1>1, <1>a DEF MInv, CallInv
<1>6. a \in DOMAIN OuterTree /\ OuterTree[a].allocated = 1
  BY Zenon, <1>4, <1>5 DEF Node
<1>7. Unmark(OuterTree, a) = tree
  <2>1. [Node(count[c], 1) EXCEPT !.allocated = 0] = Node(count[c], 0)
    BY DEF Node
  <2>2. Unmark(OuterTree, a) = [OuterTree EXCEPT ![a] = [OuterTree[a] EXCEPT !.allocated = 0]]
    BY DEF Unmark
  <2>3. OuterTree[a] = Node(count[c], 1)
    BY <1>4, <1>5
  <2>4. Unmark(OuterTree, a) = [OuterTree EXCEPT ![a] = Node(count[c], 0)]
    BY Zenon, <2>1, <2>2, <2>3
  <2> QED BY <2>4, <1>4, <1>5 DEF MInv, TreeInv, IsTree
<1>8. OuterTree' = RM!Coalesce(RM!Unmark(OuterTree, a), a)
  BY Zenon, <1>1, <1>3, <1>7, SameOperators
<1>9. a \in RM!Pages
  BY Zenon, <1>5 DEF MInv, TreeInv, IsTree, RM!Pages
<1> QED BY <1>6, <1>8, <1>9 DEF RM!Next, RM!Free

(* Marking the node free is not visible yet.                                *)
LEMMA FreeFindStutters ==
  ASSUME MInv, MInv', NEW c \in Cpus, FreeFind(c)
  PROVE  OuterTree' = OuterTree
<1>a. PICK a : a = addr[c]
  OBVIOUS
<1>1. /\ pc[c] = "find" /\ pc' = [pc EXCEPT ![c] = "unmap"] /\ addr' = addr
      /\ a \in DOMAIN tree /\ tree[a].allocated = 1 /\ tree' = Unmark(tree, a)
      /\ count' = [count EXCEPT ![c] = tree[a].page_count]
  BY Zenon, <1>a DEF FreeFind, Goto
<1>2. \A d \in Cpus \ {c} : pc[d] = "idle"
  BY Zenon, <1>1, OthersIdle DEF MInv, Inside
<1>3. OuterTree = tree
  BY Zenon, <1>1, <1>2, OuterQuiet DEF MInv, TreeInv
<1>4. tree[a] \in [page_count : 1 .. NPages, allocated : {0, 1}]
  BY <1>1 DEF MInv, TreeInv, IsTree
<1>5. [[tree[a] EXCEPT !.allocated = 0] EXCEPT !.allocated = 1] = tree[a]
  BY Zenon, <1>1, <1>4
<1>6. tree' = [tree EXCEPT ![a] = [tree[a] EXCEPT !.allocated = 0]]
  BY Zenon, <1>1 DEF Unmark
<1>7. \A x \in DOMAIN tree : (\E d \in Cpus : pc'[d] = "unmap" /\ addr'[d] = x) <=> x = a
  BY Zenon, <1>1, <1>2, <1>a DEF MInv, TypeOK
<1>8. OuterTree' = [x \in DOMAIN tree |-> IF x = a THEN tree[a] ELSE tree[x]]
  BY ZenonT(40), <1>1, <1>5, <1>6, <1>7 DEF OuterTree
<1> QED BY <1>1, <1>3, <1>8 DEF MInv, TreeInv, IsTree

(* The manager implements RangeMap: for its callers, each allocation and    *)
(* each release takes effect at one instant.                                *)
THEOREM Refinement == Spec => ImplementsRangeMap
<1>1. Init => RM!Init
  <2> SUFFICES ASSUME Init PROVE OuterTree = RM!create_mgr(Base, NPages)
    BY Zenon DEF RM!Init
  <2>1. MInv /\ \A c \in Cpus : pc[c] # "unmap"
    BY InitMInv DEF Init
  <2>2. OuterTree = tree
    BY Zenon, <2>1, OuterQuiet DEF MInv, TreeInv
  <2> QED BY <2>2, SameOperators DEF Init
<1>2. MInv /\ MInv' /\ [Next]_vars => [RM!Next]_OuterTree
  <2> SUFFICES ASSUME MInv, MInv', [Next]_vars
               PROVE  RM!Next \/ OuterTree' = OuterTree
    OBVIOUS
  <2>1. CASE UNCHANGED vars
    BY <2>1 DEF vars, OuterTree
  <2>2. ASSUME NEW c \in Cpus, Call(c) PROVE OuterTree' = OuterTree
    <3>1. tree' = tree /\ pc[c] = "idle" /\ lock = 0 /\ pc'[c] # "unmap"
          /\ \A d \in Cpus \ {c} : pc'[d] = pc[d]
      BY Zenon, <2>2 DEF Call, CallMap, CallFree, Lock, Goto, MInv, TypeOK
    <3>2. \A d \in Cpus : pc[d] # "unmap" /\ pc'[d] # "unmap"
      BY Zenon, <3>1, OthersIdle DEF MInv
    <3> QED BY Zenon, <3>1, <3>2 DEF OuterTree
  <2>3. ASSUME NEW c \in Cpus, SetPage(c) \/ FreePage(c) PROVE OuterTree' = OuterTree
    BY <2>3 DEF SetPage, FreePage, OuterTree
  <2>4. ASSUME NEW c \in Cpus,
               AllocNone(c) \/ MapReturn(c) \/ FreeNone(c) \/ FreeReturn(c)
        PROVE  OuterTree' = OuterTree
    <3>1. /\ tree' = tree /\ pc[c] \in {"alloc", "map", "find", "unlock"}
          /\ pc'[c] # "unmap" /\ \A d \in Cpus \ {c} : pc'[d] = pc[d]
      BY Zenon, <2>4 DEF AllocNone, MapReturn, FreeNone, FreeReturn, Return, Goto, MInv, TypeOK
    <3>2. \A d \in Cpus : pc[d] # "unmap" /\ pc'[d] # "unmap"
      BY <3>1, OthersIdle DEF MInv, Inside
    <3> QED BY SMTT(30), <3>1, <3>2 DEF OuterTree
  <2> QED BY Zenon, <2>1, <2>2, <2>3, <2>4, AllocVirtRefines, FreeMergeRefines, FreeFindStutters
          DEF Next, Step
<1> QED BY <1>1, <1>2, MemMgrInvariant, PTL DEF Spec, ImplementsRangeMap, RM!Spec
=============================================================================
