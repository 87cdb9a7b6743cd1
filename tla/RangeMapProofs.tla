--------------------------- MODULE RangeMapProofs ---------------------------
(* The invariants of RangeMap hold for a region of any size: the conjunction *)
(* of the type, the tiling and the coalescing is inductive.  Then acpi.c     *)
(* among the users of that map, for every region, page size and set of       *)
(* tables: the mappings it holds are its own, none is leaked, and those it   *)
(* returns hold their tables.                                                *)
EXTENDS Acpi, RangeTreeProofs

Inv == TypeOK /\ Tiling /\ Coalesced

(* create_mgr establishes the invariant.                                     *)
LEMMA InitInv == Init => Inv
BY RegionAssumption, CreateOK DEF Init, Inv, TypeOK, Tiling, Coalesced

(* malloc_pages and map_memory preserve it.                                  *)
LEMMA AllocInv ==
  ASSUME Inv, NEW n \in 1 .. NPages, Alloc(n)
  PROVE  Inv'
<1>1. PICK a \in avl_min_size(tree, n) : tree' = alloc_virt(tree, a, n)
  BY DEF Alloc
<1>2. a \in DOMAIN tree /\ tree[a].allocated = 0 /\ n <= tree[a].page_count
  <2>1. a \in DOMAIN tree /\ tree[a].allocated = 0 /\ tree[a].page_count >= n
    BY DEF avl_min_size, Fits
  <2> QED BY <2>1 DEF Inv, TypeOK, IsTree
<1>3. Base \in Nat /\ NPages \in Nat /\ n \in Nat \ {0}
  BY RegionAssumption
<1>4. IsTree(tree', Base, NPages) /\ Tiles(tree', Base, NPages) /\ CoalescedExcept(tree', {})
  BY <1>1, <1>2, <1>3, SplitOK DEF Inv, TypeOK, Tiling, Coalesced
<1> QED BY <1>4 DEF Inv, TypeOK, Tiling, Coalesced

(* free_pages preserves it.                                                  *)
LEMMA FreeInv ==
  ASSUME Inv, NEW a \in Pages, Free(a)
  PROVE  Inv'
<1>1. Base \in Nat /\ NPages \in Nat
  BY RegionAssumption
<1>2. PICK u : u = Unmark(tree, a)
  OBVIOUS
<1>3. a \in DOMAIN tree /\ tree' = Coalesce(u, a)
  BY <1>2 DEF Free
<1>4. /\ IsTree(u, Base, NPages) /\ Tiles(u, Base, NPages)
      /\ a \in DOMAIN u /\ u[a].allocated = 0 /\ CoalescedExcept(u, {a})
  BY <1>1, <1>2, <1>3, UnmarkOK DEF Inv, TypeOK, Tiling, Coalesced
<1>5. IsTree(tree', Base, NPages) /\ Tiles(tree', Base, NPages) /\ CoalescedExcept(tree', {})
  BY <1>1, <1>3, <1>4, CoalesceOK
<1> QED BY <1>5 DEF Inv, TypeOK, Tiling, Coalesced

(* Every step preserves it.                                                  *)
LEMMA InvStep ==
  ASSUME Inv, [Next]_tree
  PROVE  Inv'
<1>1. CASE \E n \in 1 .. NPages : Alloc(n)
  BY <1>1, AllocInv
<1>2. CASE \E a \in Pages : Free(a)
  BY <1>2, FreeInv
<1>3. CASE UNCHANGED tree
  BY <1>3 DEF Inv, TypeOK, Tiling, Coalesced
<1> QED BY <1>1, <1>2, <1>3 DEF Next

(* The invariant is inductive.                                               *)
THEOREM RangeMapInvariant == Spec => []Inv
BY InitInv, InvStep, PTL DEF Spec

(* For every region, the ranges that the splits of alloc_virt and the merges *)
(* of free_pages make cover the region without overlapping.                  *)
THEOREM RangesTile == Spec => []Tiling
<1>1. Inv => Tiling
  BY DEF Inv
<1> QED BY RangeMapInvariant, <1>1, PTL

(* No two free ranges touch after free_pages.                                *)
THEOREM FreeRangesMerged == Spec => []Coalesced
<1>1. Inv => Coalesced
  BY DEF Inv
<1> QED BY RangeMapInvariant, <1>1, PTL

(* Freeing everything, in any order, leaves the region as create_mgr made it.*)
THEOREM NothingFragmented == Spec => []NoFragments
<1>1. Inv => NoFragments
  <2> SUFFICES ASSUME Inv, \A a \in DOMAIN tree : tree[a].allocated = 0
               PROVE  tree = create_mgr(Base, NPages)
    BY DEF NoFragments
  <2> QED BY RegionAssumption, AllFreeIsOne DEF Inv, TypeOK, Tiling, Coalesced
<1> QED BY RangeMapInvariant, <1>1, PTL

-----------------------------------------------------------------------------
(* The first pages of the allocated ranges.                                  *)
Taken(t) == {x \in DOMAIN t : t[x].allocated = 1}

(* map_memory, by acpi.c or by another user: one range becomes allocated.    *)
LEMMA TakeStep ==
  ASSUME Inv, NEW n \in Nat \ {0}, NEW a \in avl_min_size(tree, n),
         tree' = alloc_virt(tree, a, n)
  PROVE  /\ Next
         /\ Taken(tree') = Taken(tree) \cup {a} /\ a \notin Taken(tree)
         /\ tree'[a] = Node(n, 1)
         /\ \A x \in Taken(tree) : tree'[x] = tree[x]
<1>1. Base \in Nat /\ NPages \in Nat
  BY RegionAssumption
<1>2. a \in DOMAIN tree /\ tree[a].allocated = 0 /\ tree[a].page_count >= n
  BY DEF avl_min_size, Fits
<1>3. tree[a].page_count \in 1 .. NPages /\ a \in Nat
  BY <1>1, <1>2 DEF Inv, TypeOK, IsTree
<1>4. n <= tree[a].page_count /\ n \in 1 .. NPages
  BY <1>1, <1>2, <1>3
<1>5. IsSplit(tree, a, n, tree')
  BY <1>1, <1>2, <1>4, SplitShape DEF Inv, TypeOK, Tiling
<1>6. Next
  BY <1>4 DEF Next, Alloc
<1>7. a \notin Taken(tree)
  BY <1>2 DEF Taken
<1>8. ASSUME n # tree[a].page_count
      PROVE  a + n \notin DOMAIN tree
  BY <1>8, <1>5 DEF IsSplit
<1>9. Taken(tree') = Taken(tree) \cup {a} /\ \A x \in Taken(tree) : tree'[x] = tree[x]
  BY <1>2, <1>3, <1>5, <1>8 DEF IsSplit, Taken, Node
<1> QED BY <1>5, <1>6, <1>7, <1>9 DEF IsSplit

(* free_pages: one range stops being allocated.                              *)
LEMMA GiveStep ==
  ASSUME Inv, NEW a, Free(a)
  PROVE  /\ Next
         /\ Taken(tree') = Taken(tree) \ {a} /\ a \in Taken(tree)
         /\ \A x \in Taken(tree') : tree'[x] = tree[x]
<1>1. Base \in Nat /\ NPages \in Nat
  BY RegionAssumption
<1>2. PICK u : u = Unmark(tree, a)
  OBVIOUS
<1>3. a \in DOMAIN tree /\ tree[a].allocated = 1 /\ tree' = Coalesce(u, a)
  BY <1>2 DEF Free
<1>4. Next
  BY <1>1, <1>3 DEF Next, Inv, TypeOK, IsTree, Pages
<1>5. /\ IsTree(u, Base, NPages) /\ Tiles(u, Base, NPages)
      /\ a \in DOMAIN u /\ u[a].allocated = 0 /\ CoalescedExcept(u, {a})
  BY <1>1, <1>2, <1>3, UnmarkOK DEF Inv, TypeOK, Tiling, Coalesced
<1>6. DOMAIN u = DOMAIN tree /\ \A x \in DOMAIN tree : x # a => u[x] = tree[x]
  BY <1>2 DEF Unmark
<1>7. Taken(u) = Taken(tree) \ {a}
  BY <1>5, <1>6 DEF Taken
<1>8. KeepsAllocated(u, tree')
  BY <1>1, <1>3, <1>5, CoalesceKeeps
<1>9. \A x \in Taken(u) : x \in DOMAIN tree' /\ tree'[x] = u[x]
  BY <1>8 DEF KeepsAllocated, Taken
<1>10. Taken(tree') = Taken(u)
  BY <1>8, <1>9 DEF KeepsAllocated, Taken
<1>11. a \in Taken(tree)
  BY <1>3 DEF Taken
<1>12. \A x \in Taken(tree') : tree'[x] = tree[x]
  BY <1>6, <1>7, <1>9, <1>10 DEF Taken
<1> QED BY <1>4, <1>7, <1>10, <1>11, <1>12

-----------------------------------------------------------------------------
(* Division by the page size.                                                *)
LEMMA DivMod ==
  ASSUME NEW p \in Nat \ {0}, NEW x \in Nat
  PROVE  x % p \in 0 .. p - 1 /\ x \div p \in Nat /\ x = p * (x \div p) + (x % p)
OBVIOUS

(* A multiple of the page size is divided without remainder.                 *)
LEMMA Quotient ==
  ASSUME NEW p \in Nat \ {0}, NEW k \in Nat, NEW q \in Nat, NEW r \in 0 .. p - 1,
         p * k = p * q + r
  PROVE  q = k
<1>1. ~(q < k)
  <2>1. ASSUME q < k PROVE FALSE
    <3>1. PICK d \in Nat : k = q + 1 + d
      <4>1. k - q - 1 \in Nat /\ k = q + 1 + (k - q - 1)
        BY <2>1
      <4> QED BY <4>1
    <3>2. p * (q + 1 + d) = p * q + p + p * d /\ p * d \in Nat /\ p * q \in Nat
      OBVIOUS
    <3> QED BY <3>1, <3>2
  <2> QED BY <2>1
<1>2. ~(k < q)
  <2>1. ASSUME k < q PROVE FALSE
    <3>1. PICK d \in Nat : q = k + 1 + d
      <4>1. q - k - 1 \in Nat /\ q = k + 1 + (q - k - 1)
        BY <2>1
      <4> QED BY <4>1
    <3>2. p * (k + 1 + d) = p * k + p + p * d /\ p * d \in Nat /\ p * k \in Nat
      OBVIOUS
    <3> QED BY <3>1, <3>2
  <2> QED BY <2>1
<1> QED BY <1>1, <1>2

(* The rounding of _mmap_table: the pages of the second mapping hold the     *)
(* table at any offset into its first page.                                  *)
LEMMA PagesHold ==
  ASSUME NEW t, t.addr \in Nat, t.length \in Nat
  PROVE  /\ PagesOf(t) \in Nat \ {0}
         /\ Offset(t) + t.length <= PagesOf(t) * PageSize
<1>1. PICK p \in Nat \ {0}, l \in Nat : p = PageSize /\ l = t.length
  BY AcpiAssumption
<1>2. PICK k \in Nat, r \in 0 .. p - 1 :
        k = l \div p /\ r = l % p /\ l = p * k + r
  BY Zenon, DivMod
<1>3. PICK m \in Nat : m = l + (p - r)
  BY <1>2
<1>4. m = p * (k + 1)
  <2>1. p * (k + 1) = p * k + p
    OBVIOUS
  <2>2. p * k \in Nat
    OBVIOUS
  <2> QED BY <2>1, <2>2, <1>2, <1>3
<1>5. m \div p = k + 1
  <2>1. m \div p \in Nat /\ m % p \in 0 .. p - 1 /\ m = p * (m \div p) + (m % p)
    BY Zenon, DivMod
  <2> QED BY <2>1, <1>4, Quotient
<1>6. PagesOf(t) = k + 2
  <2>1. PagesOf(t) = ((l + (p - (l % p))) \div p) + 1
    BY <1>1, Zenon DEF PagesOf
  <2>2. PagesOf(t) = (m \div p) + 1
    BY <2>1, <1>2, <1>3, Zenon
  <2> QED BY <2>2, <1>5
<1>7. PagesOf(t) * p = p * k + p + p /\ p * k \in Nat
  BY <1>6
<1>8. Offset(t) \in 0 .. p - 1
  BY <1>1, DivMod DEF Offset
<1>9. Offset(t) + l <= PagesOf(t) * p
  BY <1>2, <1>7, <1>8
<1> QED BY <1>1, <1>6, <1>9

-----------------------------------------------------------------------------
(* What acpi.c is about to do with cur at each place.                        *)
Entering == pc \in {"map", "check", "remap", "return"}

Covers(m) == Offset(m.table) + m.table.length <= m.n * PageSize

ControlInv ==
  /\ fw.root \in Roots /\ fw.entries \in Seq(Tables)
  /\ Entering /\ call # "init" => i \in 1 .. Len(fw.entries)
  /\ call = "init" /\ pc # "idle" => rsdt = {}
  /\ pc \in {"map", "remap", "idle"} => cur = {}
  /\ cur = {} \/ \E a, n : n \in Nat /\ cur = {Mapping(a, n, Target)}
  /\ pc = "check" => \A m \in cur : m.n = 2
  /\ pc = "return" => \A m \in cur : Covers(m)

(* The allocated ranges are those of acpi.c's mappings and of the others.    *)
OwnersInv ==
  /\ \A m \in Held : m.at \in Taken(tree) /\ tree[m.at] = Node(m.n, 1)
  /\ \A m \in Held : m.at \notin others
  /\ \A m, o \in Held : m.at = o.at => m = o
  /\ others \subseteq Taken(tree)
  /\ \A a \in Taken(tree) : a \in others \/ \E m \in Held : m.at = a
  /\ cur \cap (rsdt \cup found) = {}

AInv == Inv /\ ControlInv /\ OwnersInv /\ TablesCovered

(* A new mapping is cur, and so are its pages.                               *)
LEMMA OwnersMap ==
  ASSUME Inv, OwnersInv, cur = {}, NEW n \in Nat \ {0}, NEW a \in avl_min_size(tree, n),
         tree' = alloc_virt(tree, a, n), NEW t,
         cur' = {Mapping(a, n, t)}, UNCHANGED <<rsdt, found, others>>
  PROVE  OwnersInv'
<1>1. /\ Taken(tree') = Taken(tree) \cup {a} /\ a \notin Taken(tree)
      /\ tree'[a] = Node(n, 1)
      /\ \A x \in Taken(tree) : tree'[x] = tree[x]
  BY TakeStep
<1>2. PICK m : m = Mapping(a, n, t)
  OBVIOUS
<1>3. m.at = a /\ m.n = n
  BY <1>2 DEF Mapping
<1>4. Held' = Held \cup {m} /\ Held = rsdt \cup found
  BY <1>2 DEF Held
<1>5. \A o \in Held : o.at # a
  BY <1>1 DEF OwnersInv
<1>6. m \notin Held
  BY <1>3, <1>5
<1>7. \A o \in Held' : o.at \in Taken(tree') /\ tree'[o.at] = Node(o.n, 1)
  BY <1>1, <1>3, <1>4 DEF OwnersInv
<1>8. \A o \in Held' : o.at \notin others'
  BY <1>1, <1>3, <1>4 DEF OwnersInv
<1>9. \A o, p \in Held' : o.at = p.at => o = p
  BY <1>3, <1>4, <1>5 DEF OwnersInv
<1>10. \A x \in Taken(tree') : x \in others' \/ \E o \in Held' : o.at = x
  BY <1>1, <1>3, <1>4 DEF OwnersInv
<1>11. cur' \cap (rsdt' \cup found') = {}
  BY <1>2, <1>4, <1>6
<1>12. others' \subseteq Taken(tree')
  BY <1>1 DEF OwnersInv
<1> QED BY <1>7, <1>8, <1>9, <1>10, <1>11, <1>12 DEF OwnersInv

(* Unmapping cur leaves the others' ranges and the other mappings.           *)
LEMMA OwnersFree ==
  ASSUME Inv, OwnersInv, NEW c, cur = {c}, FreeCur, UNCHANGED <<rsdt, found, others>>
  PROVE  OwnersInv' /\ Next /\ cur' = {}
<1>1. Free(c.at) /\ cur' = {}
  BY DEF FreeCur
<1>2. /\ Taken(tree') = Taken(tree) \ {c.at} /\ Next
      /\ \A x \in Taken(tree') : tree'[x] = tree[x]
  BY <1>1, GiveStep
<1>3. Held' = rsdt \cup found /\ Held = {c} \cup rsdt \cup found
  BY <1>1 DEF Held
<1>4. c \notin rsdt \cup found
  BY DEF OwnersInv
<1>5. \A o \in Held' : o \in Held /\ o.at # c.at
  BY <1>3, <1>4 DEF OwnersInv
<1>6. \A o \in Held' : o.at \in Taken(tree') /\ tree'[o.at] = Node(o.n, 1)
  BY <1>2, <1>5 DEF OwnersInv
<1>7. \A o \in Held' : o.at \notin others'
  BY <1>5 DEF OwnersInv
<1>8. \A o, p \in Held' : o.at = p.at => o = p
  BY <1>5 DEF OwnersInv
<1>9. c.at \notin others
  BY <1>3 DEF OwnersInv
<1>10. others' \subseteq Taken(tree')
  BY <1>2, <1>9 DEF OwnersInv
<1>11. \A x \in Taken(tree') : x \in others' \/ \E o \in Held' : o.at = x
  <2> TAKE x \in Taken(tree')
  <2>1. x \in Taken(tree) /\ x # c.at
    BY <1>2
  <2>2. CASE x \in others
    BY <2>2
  <2>3. CASE x \notin others
    <3>1. PICK o \in Held : o.at = x
      BY <2>1, <2>3 DEF OwnersInv
    <3> QED BY <3>1, <2>1, <1>3
  <2> QED BY <2>2, <2>3
<1> QED BY <1>1, <1>2, <1>6, <1>7, <1>8, <1>10, <1>11 DEF OwnersInv

-----------------------------------------------------------------------------
(* The table _mmap_table is called for has an address and a length.          *)
LEMMA TargetTable ==
  ASSUME ControlInv, Entering
  PROVE  Target.addr \in Nat /\ Target.length \in Nat
<1>1. CASE call = "init"
  BY <1>1, AcpiAssumption DEF Target, ControlInv
<1>2. CASE call # "init"
  <2>1. i \in 1 .. Len(fw.entries) /\ fw.entries \in Seq(Tables)
    BY <1>2 DEF ControlInv
  <2>2. fw.entries[i] \in Tables
    BY <2>1
  <2> QED BY <1>2, <2>2, AcpiAssumption DEF Target
<1> QED BY <1>1, <1>2

(* A step of acpi.c or of another user keeps the invariant (apart from Inv,  *)
(* which follows from its being a step of RangeMap).                         *)
Preserves == [Next]_tree /\ ControlInv' /\ OwnersInv' /\ TablesCovered'

(* Both calls of map_memory.                                                 *)
LEMMA MapStep ==
  ASSUME AInv, NEW n \in Nat \ {0}, NEW then \in {"check", "return"},
         pc \in {"map", "remap"}, MapMemory(n, then),
         then = "check" => n = 2,
         then = "return" => Offset(Target) + Target.length <= n * PageSize
  PROVE  Preserves
<1>1. cur = {} /\ UNCHANGED <<fw, call, i, rsdt, found, calls, others>> /\ Target' = Target
  BY DEF AInv, ControlInv, MapMemory, Target
<1>2. TablesCovered'
  BY <1>1 DEF AInv, TablesCovered
<1>3. CASE \E a \in avl_min_size(tree, n) :
             tree' = alloc_virt(tree, a, n) /\ cur' = {Mapping(a, n, Target)} /\ pc' = then
  <2>1. PICK a \in avl_min_size(tree, n) :
          tree' = alloc_virt(tree, a, n) /\ cur' = {Mapping(a, n, Target)} /\ pc' = then
    BY <1>3
  <2>2. Next
    BY <2>1, TakeStep DEF AInv
  <2>3. OwnersInv'
    BY <2>1, <1>1, OwnersMap DEF AInv
  <2>4. \A m \in cur' : m.n = n /\ m.table = Target
    BY <2>1 DEF Mapping
  <2>5. pc' = "return" => \A m \in cur' : Covers(m)'
    BY <2>1, <2>4 DEF Covers, Offset
  <2>6. ControlInv'
    BY <2>1, <2>4, <2>5, <1>1 DEF AInv, ControlInv, Entering
  <2> QED BY <1>2, <2>2, <2>3, <2>6 DEF Preserves
<1>4. CASE pc' = "lost" /\ UNCHANGED <<tree, cur>>
  <2>1. OwnersInv'
    BY <1>1, <1>4 DEF AInv, OwnersInv, Held
  <2>2. ControlInv'
    BY <1>1, <1>4 DEF AInv, ControlInv, Entering
  <2> QED BY <1>2, <1>4, <2>1, <2>2 DEF Preserves
<1> QED BY <1>3, <1>4 DEF MapMemory

(* The checksum, and the mapping given back for a bad one or a larger one.   *)
LEMMA CheckStep ==
  ASSUME AInv, CheckTable
  PROVE  Preserves
<1>1. /\ pc = "check" /\ UNCHANGED <<fw, call, i, rsdt, found, calls, others>>
      /\ Target' = Target /\ pc' \in {"return", "remap"}
  BY DEF CheckTable, Target
<1>2. TablesCovered'
  BY <1>1 DEF AInv, TablesCovered
<1>3. PICK c : cur = {c} /\ c.n = 2 /\ c.table = Target
  BY <1>1 DEF CheckTable, AInv, ControlInv, Mapping
<1>4. CASE FreeCur
  <2>1. OwnersInv' /\ Next /\ cur' = {}
    BY <1>1, <1>3, <1>4, OwnersFree DEF AInv
  <2>2. ControlInv'
    BY <2>1, <1>1 DEF AInv, ControlInv, Entering
  <2> QED BY <1>2, <2>1, <2>2 DEF Preserves
<1>5. CASE /\ c.table.length <= PageSize - Offset(c.table)
           /\ pc' = "return" /\ UNCHANGED <<tree, cur>>
  <2>1. OwnersInv'
    BY <1>1, <1>5 DEF AInv, OwnersInv, Held
  <2>2. Covers(c)
    <3>1. c.table.length \in Nat /\ c.table.addr \in Nat
      BY <1>1, <1>3, TargetTable DEF AInv, Entering
    <3>2. PageSize \in Nat \ {0}
      BY AcpiAssumption
    <3>3. Offset(c.table) \in Nat
      BY <3>1, <3>2, DivMod DEF Offset
    <3> QED BY <1>3, <1>5, <3>1, <3>2, <3>3 DEF Covers
  <2>3. ControlInv'
    BY SMTT(30), <1>1, <1>3, <1>5, <2>2 DEF AInv, ControlInv, Entering, Covers, Offset
  <2> QED BY <1>2, <1>5, <2>1, <2>3 DEF Preserves
<1> QED BY <1>3, <1>4, <1>5 DEF CheckTable

(* The returns of _mmap_table into acpi_init and acpi_get_table.             *)
LEMMA InitStep ==
  ASSUME AInv, acpi_init
  PROVE  Preserves
<1>1. /\ pc = "return" /\ call = "init" /\ rsdt = {} /\ rsdt' = cur /\ cur' = {}
      /\ pc' = "idle" /\ UNCHANGED <<tree, fw, call, i, found, calls, others>>
  BY DEF acpi_init, AInv, ControlInv
<1>2. Held' = Held
  BY <1>1 DEF Held
<1>3. OwnersInv'
  BY <1>1, <1>2 DEF AInv, OwnersInv
<1>4. TablesCovered'
  BY <1>1 DEF AInv, ControlInv, TablesCovered, Covers
<1>5. ControlInv'
  BY <1>1 DEF AInv, ControlInv, Entering
<1> QED BY <1>1, <1>3, <1>4, <1>5 DEF Preserves

(* The return of _mmap_table preserves the invariant.                       *)
LEMMA ReturnStep ==
  ASSUME AInv, ReturnTable
  PROVE  Preserves
<1>1. /\ pc = "return" /\ found' = found \cup cur /\ cur' = {}
      /\ pc' = "idle" /\ UNCHANGED <<tree, fw, call, i, rsdt, calls, others>>
  BY DEF ReturnTable
<1>2. Held' = Held
  BY <1>1 DEF Held
<1>3. OwnersInv'
  BY <1>1, <1>2 DEF AInv, OwnersInv
<1>4. TablesCovered'
  BY <1>1 DEF AInv, ControlInv, TablesCovered, Covers
<1>5. ControlInv'
  BY <1>1 DEF AInv, ControlInv, Entering
<1> QED BY <1>1, <1>3, <1>4, <1>5 DEF Preserves

(* The next turn of the loop over the RSDT preserves the invariant.         *)
LEMMA NextStep ==
  ASSUME AInv, NextTable
  PROVE  Preserves
<1>1. /\ pc = "return" /\ call # "init" /\ UNCHANGED <<fw, call, rsdt, found, calls, others>>
      /\ i' = i + 1 /\ pc' = IF i < Len(fw.entries) THEN "map" ELSE "idle"
  BY DEF NextTable
<1>2. TablesCovered'
  BY <1>1 DEF AInv, TablesCovered
<1>3. OwnersInv' /\ [Next]_tree /\ cur' = {}
  <2>1. CASE cur = {}
    <3>1. UNCHANGED <<tree, cur>>
      BY <2>1 DEF NextTable
    <3> QED BY <1>1, <2>1, <3>1 DEF AInv, OwnersInv, Held
  <2>2. CASE cur # {}
    <3>1. PICK c : cur = {c}
      BY Zenon, <2>2 DEF AInv, ControlInv
    <3>2. FreeCur
      BY <2>2 DEF NextTable
    <3> QED BY <1>1, <3>1, <3>2, OwnersFree DEF AInv
  <2> QED BY <2>1, <2>2
<1>4. i \in 1 .. Len(fw.entries) /\ Len(fw.entries) \in Nat
  BY <1>1 DEF AInv, ControlInv, Entering
<1>5. pc' = "map" => i' \in 1 .. Len(fw'.entries)
  BY <1>1, <1>4
<1>6. ControlInv'
  BY <1>1, <1>3, <1>5 DEF AInv, ControlInv, Entering
<1> QED BY <1>2, <1>3, <1>6 DEF Preserves

(* acpi_get_table starts with the first entry.                               *)
LEMMA GetStep ==
  ASSUME AInv, NEW t \in Tables, acpi_get_table(t.sig)
  PROVE  Preserves
<1>1. /\ pc = "idle" /\ call' = t.sig /\ i' = 1
      /\ pc' = IF fw.entries = << >> THEN "idle" ELSE "map"
      /\ UNCHANGED <<tree, fw, cur, rsdt, found, others>>
  BY DEF acpi_get_table
<1>2. TablesCovered' /\ OwnersInv' /\ call' # "init"
  BY <1>1, AcpiAssumption DEF AInv, TablesCovered, OwnersInv, Held
<1>3. fw.entries # << >> => 1 \in 1 .. Len(fw.entries)
  BY DEF AInv, ControlInv
<1>4. ControlInv'
  BY <1>1, <1>2, <1>3 DEF AInv, ControlInv, Entering
<1> QED BY <1>1, <1>2, <1>4 DEF Preserves

(* The other users of kern_vmm.                                              *)
LEMMA OthersStep ==
  ASSUME AInv, OthersAlloc \/ OthersFree
  PROVE  Preserves
<1>1. UNCHANGED own /\ Held' = Held
  BY DEF OthersAlloc, OthersFree, own, Held
<1>2. ControlInv' /\ TablesCovered'
  BY <1>1 DEF own, AInv, ControlInv, TablesCovered, Entering, Target, Covers
<1>3. CASE OthersAlloc
  <2>0. PICK n \in 1 .. NPages : \E a \in avl_min_size(tree, n) :
          tree' = alloc_virt(tree, a, n) /\ others' = others \cup {a}
    BY <1>3 DEF OthersAlloc
  <2>1. PICK a \in avl_min_size(tree, n) :
          tree' = alloc_virt(tree, a, n) /\ others' = others \cup {a}
    BY <2>0
  <2>2. n \in Nat \ {0}
    BY <2>1
  <2>3. /\ Taken(tree') = Taken(tree) \cup {a} /\ a \notin Taken(tree) /\ Next
        /\ \A x \in Taken(tree) : tree'[x] = tree[x]
    BY <2>1, <2>2, TakeStep DEF AInv
  <2>4. OwnersInv'
    BY <1>1, <2>1, <2>3 DEF own, AInv, OwnersInv
  <2> QED BY <1>2, <2>3, <2>4 DEF Preserves
<1>4. CASE OthersFree
  <2>1. PICK a \in others : Free(a) /\ others' = others \ {a}
    BY <1>4 DEF OthersFree
  <2>2. /\ Taken(tree') = Taken(tree) \ {a} /\ Next
        /\ \A x \in Taken(tree') : tree'[x] = tree[x]
    BY <2>1, GiveStep DEF AInv
  <2>3. OwnersInv'
    BY <1>1, <2>1, <2>2 DEF own, AInv, OwnersInv
  <2> QED BY <1>2, <2>2, <2>3 DEF Preserves
<1> QED BY <1>3, <1>4

-----------------------------------------------------------------------------
(* Every step is a step of RangeMap and keeps the invariant.                 *)
LEMMA AcpiStep ==
  ASSUME AInv, [AcpiNext]_acpiVars
  PROVE  AInv' /\ [Next]_tree
<1>1. Preserves
  <2>1. CASE MapTable
    BY <2>1, MapStep DEF MapTable
  <2>2. CASE RemapTable
    <3>1. pc = "remap" /\ MapMemory(PagesOf(Target), "return")
      BY <2>2 DEF RemapTable
    <3>2. Target.addr \in Nat /\ Target.length \in Nat
      BY <3>1, TargetTable DEF AInv, Entering
    <3>3. /\ PagesOf(Target) \in Nat \ {0}
          /\ Offset(Target) + Target.length <= PagesOf(Target) * PageSize
      BY SMTT(30), <3>2, PagesHold
    <3> QED BY <3>1, <3>3, MapStep
  <2>3. CASE CheckFaults
    BY SMTT(30), <2>3 DEF CheckFaults, Preserves, AInv, ControlInv, OwnersInv, TablesCovered, Held,
                Entering, Target
  <2>4. CASE UNCHANGED acpiVars
    BY <2>4 DEF acpiVars, own, Preserves, AInv, ControlInv, OwnersInv, TablesCovered,
                Held, Entering, Target, Covers
  <2>5. CASE \E t \in Tables : acpi_get_table(t.sig)
    BY <2>5, GetStep
  <2> QED BY <2>1, <2>2, <2>3, <2>4, <2>5, CheckStep, InitStep, ReturnStep, NextStep,
             OthersStep DEF AcpiNext
<1>2. Inv'
  BY <1>1, InvStep DEF Preserves, AInv
<1> QED BY <1>1, <1>2 DEF Preserves, AInv

(* acpi.c starts in the invariant, on a new region.                         *)
LEMMA AcpiStart == AcpiInit => AInv /\ Init
<1> SUFFICES ASSUME AcpiInit PROVE AInv /\ Init
  OBVIOUS
<1>1. Init /\ Inv
  BY InitInv DEF AcpiInit
<1>2. /\ pc = "map" /\ call = "init" /\ cur = {} /\ rsdt = {} /\ found = {} /\ others = {}
  BY DEF AcpiInit
<1>3. fw.root \in Roots /\ fw.entries \in Seq(Tables)
  BY AcpiAssumption DEF AcpiInit
<1>4. ControlInv /\ TablesCovered
  BY <1>2, <1>3 DEF ControlInv, TablesCovered, Entering
<1>5. Taken(tree) = {}
  BY <1>1 DEF Init, create_mgr, Node, Taken
<1>6. OwnersInv
  BY <1>2, <1>5 DEF OwnersInv, Held
<1> QED BY <1>1, <1>4, <1>6 DEF AInv

(* The invariant is inductive.                                               *)
THEOREM AcpiInvariant == AcpiSpec => []AInv
BY AcpiStart, AcpiStep, PTL DEF AcpiSpec

(* acpi.c and the other users of kern_vmm together do to the tree what       *)
(* RangeMap allows: each step is one allocation, one release or none.        *)
THEOREM AcpiUsesRangeMap == AcpiSpec => Spec
BY AcpiInvariant, AcpiStart, AcpiStep, PTL DEF AcpiSpec, Spec

(* The ranges tile the region while acpi.c maps and unmaps its tables.       *)
THEOREM AcpiTiles == AcpiSpec => []Tiling
BY AcpiUsesRangeMap, RangesTile, PTL

(* The pages behind the pointers of acpi.c stay its own.                     *)
THEOREM AcpiMappingsKept == AcpiSpec => []MappingsKept
<1>1. AInv => MappingsKept
  BY DEF AInv, OwnersInv, MappingsKept, Taken
<1> QED BY AcpiInvariant, <1>1, PTL

(* No path of _mmap_table or acpi_get_table forgets a mapping.               *)
THEOREM AcpiNothingLeaked == AcpiSpec => []NothingLeaked
<1>1. AInv => NothingLeaked
  BY DEF AInv, OwnersInv, NothingLeaked, Taken
<1> QED BY AcpiInvariant, <1>1, PTL

(* The RSDT and the tables acpi_get_table returns are mapped to their ends.  *)
THEOREM AcpiTablesCovered == AcpiSpec => []TablesCovered
<1>1. AInv => TablesCovered
  BY DEF AInv
<1> QED BY AcpiInvariant, <1>1, PTL
-----------------------------------------------------------------------------
(* Where the search of acpi_get_table is: no earlier table answers, and     *)
(* _mmap_table returns a mapping exactly when the checksum is good.         *)
SearchInv ==
  Entering /\ call # "init" /\ Readable =>
    /\ \A j \in 1 .. i - 1 : ~Answers(fw.entries[j])
    /\ pc = "remap" => fw.entries[i].valid
    /\ pc = "return" => (cur = {} <=> ~fw.entries[i].valid)

Finds == (pc = "return" /\ call # "init" /\ pc' = "idle" /\ Readable)
           => {m.table : m \in found' \ found} = FirstAnswer

(* Steps inside _mmap_table.                                                *)
LEMMA SearchMap ==
  ASSUME AInv, SearchInv, MapTable \/ RemapTable \/ CheckTable
  PROVE  SearchInv' /\ Finds
<1>1. pc \in {"map", "remap", "check"} /\ UNCHANGED <<fw, call, i>>
  BY DEF MapTable, RemapTable, CheckTable, MapMemory
<1>2. Finds
  BY <1>1 DEF Finds
<1>3. ASSUME Entering', call' # "init", Readable'
      PROVE  /\ Readable /\ fw.entries[i] = Target /\ i \in DOMAIN fw.entries
             /\ \A j \in 1 .. i' - 1 : ~Answers(fw.entries[j])'
             /\ pc = "remap" => fw.entries[i].valid
  BY <1>1, <1>3 DEF SearchInv, AInv, ControlInv, Entering, Answers, Target, Readable, ReadsPast, Offset
<1>4. CASE MapTable
  <2>1. pc' \notin {"remap", "return"}
    BY <1>4 DEF MapTable, MapMemory
  <2> QED BY <1>2, <1>3, <2>1 DEF SearchInv
<1>5. CASE RemapTable
  <2>1. pc = "remap" /\ pc' # "remap" /\ (pc' = "return" => cur' # {})
    BY <1>5 DEF RemapTable, MapMemory
  <2> QED BY <1>1, <1>2, <1>3, <2>1 DEF SearchInv
<1>6. CASE CheckTable
  <2>0. PICK m \in cur : \E ok \in Checksums(m.table) :
          \/ ~ok /\ FreeCur /\ pc' = "return"
          \/ ok /\ FreeCur /\ pc' = "remap"
          \/ ok /\ pc' = "return" /\ UNCHANGED <<tree, cur>>
    BY <1>6 DEF CheckTable
  <2>1. PICK ok \in Checksums(m.table) :
          \/ ~ok /\ FreeCur /\ pc' = "return"
          \/ ok /\ FreeCur /\ pc' = "remap"
          \/ ok /\ pc' = "return" /\ UNCHANGED <<tree, cur>>
    BY <2>0
  <2>2. m.table = Target
    BY DEF AInv, ControlInv, Mapping
  <2>3. ASSUME Entering', call' # "init", Readable' PROVE ok = fw.entries[i].valid
    <3>1. fw.entries[i] = Target /\ ~ReadsPast(Target)
      BY <1>3, <2>3 DEF Readable
    <3> QED BY <2>1, <2>2, <3>1 DEF Checksums
  <2>4. FreeCur => cur' = {}
    BY DEF FreeCur
  <2>5. cur # {} /\ (UNCHANGED <<tree, cur>> => cur' # {})
    BY <2>0
  <2>6. ASSUME Entering', call' # "init", Readable'
        PROVE  /\ pc' = "remap" => fw.entries[i].valid
               /\ pc' = "return" => (cur' = {} <=> ~fw.entries[i].valid)
    <3>1. PICK v : v = fw.entries[i].valid
      OBVIOUS
    <3>2. ok = v
      BY <2>3, <2>6, <3>1
    <3> QED BY <2>1, <2>4, <2>5, <3>1, <3>2
  <2> QED BY <1>1, <1>2, <1>3, <2>6 DEF SearchInv
<1> QED BY <1>4, <1>5, <1>6

(* The answer.                                                              *)
LEMMA SearchReturn ==
  ASSUME AInv, SearchInv, ReturnTable
  PROVE  SearchInv' /\ Finds
<1>1. /\ pc = "return" /\ call # "init" /\ found' = found \cup cur /\ pc' = "idle"
      /\ \E m \in cur : m.table.sig = call
  BY DEF ReturnTable
<1>2. SearchInv'
  BY <1>1 DEF SearchInv, Entering
<1>3. ASSUME Readable PROVE {m.table : m \in found' \ found} = FirstAnswer
  <2>1. PICK c : cur = {c} /\ c.table = fw.entries[i]
    BY <1>1 DEF AInv, ControlInv, Mapping, Target
  <2>2. found' \ found = {c}
    BY <1>1, <2>1 DEF AInv, OwnersInv
  <2>3. i \in DOMAIN fw.entries /\ DOMAIN fw.entries = 1 .. Len(fw.entries) /\ Len(fw.entries) \in Nat
    BY <1>1 DEF AInv, ControlInv, Entering
  <2>4. Answers(fw.entries[i]) /\ \A j \in 1 .. i - 1 : ~Answers(fw.entries[j])
    BY <1>1, <1>3, <2>1 DEF SearchInv, Entering, Answers
  <2>5. ASSUME NEW k \in DOMAIN fw.entries, Answers(fw.entries[k]),
               \A j \in 1 .. k - 1 : ~Answers(fw.entries[j])
        PROVE  k = i
    <3>1. ~(k < i) /\ ~(i < k)
      <4>1. k < i => k \in 1 .. i - 1
        BY <2>3
      <4>2. i < k => i \in 1 .. k - 1
        BY <2>3
      <4> QED BY Zenon, <2>4, <2>5, <4>1, <4>2
    <3> QED BY <2>3, <3>1
  <2>6. FirstAnswer = {fw.entries[i]}
    BY Zenon, <2>3, <2>4, <2>5 DEF FirstAnswer
  <2> QED BY Zenon, <2>1, <2>2, <2>6
<1> QED BY <1>1, <1>2, <1>3 DEF Finds

(* The next table, or none.                                                 *)
LEMMA SearchNext ==
  ASSUME AInv, SearchInv, NextTable
  PROVE  SearchInv' /\ Finds
<1>1. /\ pc = "return" /\ call # "init" /\ UNCHANGED <<fw, call, found>> /\ i' = i + 1
      /\ pc' = IF i < Len(fw.entries) THEN "map" ELSE "idle"
      /\ \A m \in cur : m.table.sig # call
  BY DEF NextTable
<1>2. i \in DOMAIN fw.entries /\ DOMAIN fw.entries = 1 .. Len(fw.entries) /\ Len(fw.entries) \in Nat
  BY <1>1 DEF AInv, ControlInv, Entering
<1>3. ASSUME Readable PROVE \A j \in 1 .. i : ~Answers(fw.entries[j])
  <2>1. \A m \in cur : m.table = fw.entries[i]
    BY <1>1 DEF AInv, ControlInv, Mapping, Target
  <2>2. ~Answers(fw.entries[i])
    <3>1. CASE cur = {}
      BY <1>1, <1>3, <3>1 DEF SearchInv, Entering, Answers
    <3>2. CASE cur # {}
      BY <1>1, <2>1, <3>2 DEF Answers
    <3> QED BY <3>1, <3>2
  <2>3. \A j \in 1 .. i - 1 : ~Answers(fw.entries[j])
    BY <1>1, <1>3 DEF SearchInv, Entering
  <2>4. \A j \in 1 .. i : j = i \/ j \in 1 .. i - 1
    BY <1>2
  <2> QED BY Zenon, <2>2, <2>3, <2>4
<1>4. SearchInv'
  <2>1. Readable' = Readable /\ i' - 1 = i /\ \A t : Answers(t)' = Answers(t)
    BY <1>1, <1>2 DEF Readable, ReadsPast, Offset, Answers
  <2> QED BY <1>1, <1>3, <2>1 DEF SearchInv, Entering
<1>5. ASSUME Readable, pc' = "idle" PROVE FirstAnswer = {}
  <2>1. DOMAIN fw.entries = 1 .. i
    BY <1>1, <1>2, <1>5
  <2> QED BY Zenon, <1>3, <1>5, <2>1 DEF FirstAnswer
<1>6. {m.table : m \in found' \ found} = {}
  BY <1>1
<1> QED BY <1>4, <1>5, <1>6 DEF Finds

(* Every step preserves SearchInv and returns the first answer.             *)
LEMMA SearchStep ==
  ASSUME AInv, SearchInv, [AcpiNext]_acpiVars
  PROVE  SearchInv' /\ Finds
<1>1. CASE CheckFaults \/ acpi_init
  BY <1>1 DEF CheckFaults, acpi_init, SearchInv, Finds, Entering
<1>2. CASE OthersAlloc \/ OthersFree \/ UNCHANGED acpiVars
  <2>1. UNCHANGED own
    BY <1>2 DEF OthersAlloc, OthersFree, acpiVars
  <2> QED BY <2>1 DEF own, SearchInv, Finds, Entering, Readable, ReadsPast, Offset, Answers
<1>3. CASE \E t \in Tables : acpi_get_table(t.sig)
  <2>1. pc = "idle" /\ i' = 1 /\ pc' \in {"idle", "map"}
    BY <1>3 DEF acpi_get_table
  <2> QED BY <2>1 DEF SearchInv, Finds, Entering
<1> QED BY <1>1, <1>2, <1>3, SearchMap, SearchReturn, SearchNext DEF AcpiNext

(* acpi_get_table finds the first table that answers, through remapping and *)
(* unmapping and whatever the other users of kern_vmm do in between.        *)
THEOREM AcpiGetTableFinds == AcpiSpec => GetTableFinds
<1>1. AcpiInit => SearchInv
  BY DEF AcpiInit, SearchInv
<1>2. AInv /\ SearchInv /\ [AcpiNext]_acpiVars => SearchInv' /\ [Finds]_acpiVars
  BY Zenon, SearchStep
<1> QED BY AcpiInvariant, <1>1, <1>2, PTL DEF AcpiSpec, GetTableFinds, Finds
=============================================================================
