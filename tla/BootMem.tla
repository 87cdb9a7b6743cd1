------------------------------- MODULE BootMem -------------------------------
(***************************************************************************)
(* How the boot processor finds memory: kernel_main (boot/main.c) reads    *)
(* the Multiboot tags, looks for room for the stack of free pages          *)
(* (common_boot.c), and pmm_init (pmm.c) fills the stack and takes the     *)
(* pages that map physical memory from it.  Addresses are bytes; the sizes *)
(* of pages, pointers and mapped blocks are constants.                     *)
(***************************************************************************)
EXTENDS Integers, Sequences, FiniteSets, FiniteSetsExt

CONSTANTS PageSize,   \* 4096
          PtrSize,    \* sizeof(void *)
          LowLimit,   \* 1 << 20, below which an AP can start
          GiB,        \* what one page directory maps, 0x40000000
          SlotSpan,   \* what one entry of the PML4 spans, 0x8000000000
          TagLists,   \* sequences of Multiboot tags the loader may pass
          Machines    \* [mmap, kernel, paging, mapAt, stack]: see below

Areas == [start : Nat, end : Nat]

MapEntries == [base_addr : Nat, length : Nat, type : Nat]

Bytes(area) == area.start .. area.end - 1
PageBytes(p) == p .. p + PageSize - 1

(* The tables that an entry of the tables in S leads to: get_page_table_area *)
(* skips an entry without an address and one that maps a large page.        *)
Below(m, S) ==
  {e.addr : e \in {f \in UNION {m.paging.entries[t] : t \in S} : f.addr # 0 /\ ~f.large}}

(* The tables that get_page_table_area visits: the PML4 and three levels    *)
(* below it.                                                                *)
Tables(m) ==
  LET pml4t == {m.paging.pml4t}
      pdpts == Below(m, pml4t)
      pdts == Below(m, pdpts)
  IN  pml4t \cup pdpts \cup pdts \cup Below(m, pdts)

(* The kernel, each table, the memory map and the stack are apart, and none *)
(* is a single byte; the firmware lists usable memory in ascending order.   *)
Apart(m) ==
  LET tabs == UNION {PageBytes(t) : t \in Tables(m)}
      areas == <<Bytes(m.kernel), tabs, Bytes(m.mapAt), Bytes(m.stack)>>
  IN  \A x, y \in 1 .. 4 : x # y => areas[x] \cap areas[y] = {}

Ascending(map) ==
  \A k, l \in DOMAIN map :
    k < l /\ map[k].type = 1 /\ map[l].type = 1
      => map[k].base_addr + map[k].length <= map[l].base_addr

ASSUME BootMemAssumption ==
  /\ {PageSize, PtrSize, LowLimit, GiB, SlotSpan} \subseteq Nat \ {0} /\ PageSize > 1
  /\ \A m \in Machines :
       /\ m.mmap \in Seq(MapEntries) /\ Ascending(m.mmap)
       /\ Tables(m) # {} /\ Tables(m) \subseteq Nat /\ IsFiniteSet(Tables(m))
       /\ {m.kernel, m.mapAt, m.stack} \subseteq Areas /\ Apart(m)
       /\ \A area \in {m.kernel, m.mapAt, m.stack} : area.start + 1 < area.end

VARIABLES pc,
          tags,      \* tags still to read
          info,      \* mb_info: [mmap, acpi]: seen or not, and the ACPI version
          rsdpGood,  \* the signature and the checksum of the RSDP are right
          machine,   \* memory map and the areas in use
          i,         \* the loops' index into the memory map
          ptr, count,\* locals of check_memory_bounds
          safe,      \* where the stack of free pages goes, 0 = nowhere yet
          freePages, \* _free_pages[0 .. _free_index - 1]
          apLow,     \* pmm_ap_low_page
          cur,       \* pmm_init and _init_paging: next address
          slots,     \* entries of the PML4 that have a PDPT
          taken      \* history: pages used to map physical memory

vars == <<pc, tags, info, rsdpGood, machine, i, ptr, count, safe, freePages, apLow, cur,
          slots, taken>>
boot == <<tags, info, rsdpGood, machine>>
scan == <<ptr, count, safe>>
pmm == <<freePages, apLow, cur, slots, taken>>

mmap == machine.mmap
Usable == {k \in DOMAIN mmap : mmap[k].type = 1}
EndOf(k) == mmap[k].base_addr + mmap[k].length
Area(start, end) == [start |-> start, end |-> end]

(* A mutation of In: the first byte of an area counts as outside.          *)
InStrict(a, area) == a > area.start /\ a < area.end

(* _is_in_range.                                                           *)
In(a, area) == a >= area.start /\ a < area.end

Init == /\ pc = "tags" /\ tags \in TagLists /\ info = [mmap |-> FALSE, acpi |-> 0]
        /\ rsdpGood \in BOOLEAN /\ machine \in Machines
        /\ i = 1 /\ ptr = 0 /\ count = 0 /\ safe = 0
        /\ freePages = <<>> /\ apLow = 0 /\ cur = 0 /\ slots = {} /\ taken = {}

-----------------------------------------------------------------------------
(* interpret_multiboot and interpret_tag: a later ACPI 2.0 tag replaces a  *)
(* 1.0 tag, never the reverse.                                             *)
ReadTag ==
  /\ pc = "tags" /\ tags # <<>>
  /\ info' = CASE Head(tags) = "mmap"  -> [info EXCEPT !.mmap = TRUE]
               [] Head(tags) = "acpi1" -> [info EXCEPT !.acpi = IF @ < 1 THEN 1 ELSE @]
               [] Head(tags) = "acpi2" -> [info EXCEPT !.acpi = IF @ < 2 THEN 2 ELSE @]
               [] OTHER -> info
  /\ tags' = Tail(tags)
  /\ UNCHANGED <<pc, rsdpGood, machine, i, scan, pmm>>

(* The checks of kernel_main; a failed one ends in hlt.                    *)
CheckInfo ==
  /\ pc = "tags" /\ tags = <<>>
  /\ pc' = IF info.mmap /\ info.acpi # 0 /\ rsdpGood THEN "entry" ELSE "halted"
  /\ UNCHANGED <<boot, i, scan, pmm>>

-----------------------------------------------------------------------------
(* A mutation of required: only the first usable entry is counted.         *)
RequiredFirst == (mmap[Min(Usable)].length \div PageSize) * PtrSize

(* The loop of get_stack_size: its sum after n entries.                    *)
SizeAfter(map) ==
  LET size[n \in 0 .. Len(map)] ==
        IF n = 0 THEN 0
        ELSE size[n - 1] + IF map[n].type = 1 THEN (map[n].length \div PageSize) * PtrSize ELSE 0
  IN  size

(* get_stack_size.                                                         *)
required == SizeAfter(mmap)[Len(mmap)]

(* get_page_table_area: from the lowest to the end of the highest table.   *)
TableArea == Area(Min(Tables(machine)), Max(Tables(machine)) + PageSize)

(* unsafe[0 .. 3] of kernel_main.                                          *)
InUse == <<machine.kernel, TableArea, machine.mapAt, machine.stack>>

(* The loop of kernel_main over the memory map.                            *)
NextEntry ==
  /\ pc = "entry"
  /\ IF i > Len(mmap) THEN pc' = "halted" /\ UNCHANGED <<i, scan>>
     ELSE IF i \notin Usable THEN i' = i + 1 /\ UNCHANGED <<pc, scan>>
     ELSE /\ pc' = "scan" /\ ptr' = mmap[i].base_addr /\ count' = 0
          /\ UNCHANGED <<i, safe>>
  /\ UNCHANGED <<boot, pmm>>

(* check_memory_bounds returns r; kernel_main stops looking unless it is 0. *)
ScanReturn(r) ==
  /\ safe' = r
  /\ IF r # 0 THEN pc' = "fill" /\ i' = 1 ELSE pc' = "entry" /\ i' = i + 1
  /\ UNCHANGED <<ptr, count>>

(* A mutation of Within: the last byte of an area counts as outside.       *)
WithinShort(a, area) == a > area.start /\ a < area.end - 1

(* The test of check_memory_bounds: both bounds are excluded.              *)
Within(a, area) == a > area.start /\ a < area.end

(* A mutation of AfterJump: the scan resumes at the start of the area.     *)
AfterJumpBack(area) == area.start + 1

(* Where a scan that met an area in use goes on: at its end, plus the step *)
(* of the loop.                                                            *)
AfterJump(area) == area.end + 1

(* A turn of the loop of check_memory_bounds.  After a jump to the end of  *)
(* an area in use the loop still advances both variables.                  *)
ScanByte ==
  /\ pc = "scan"
  /\ IF ptr >= EndOf(i) THEN ScanReturn(0)
     ELSE IF count >= required THEN ScanReturn(ptr - count)
     ELSE LET hits == {k \in DOMAIN InUse : Within(ptr, InUse[k])}
          IN  /\ IF hits = {} THEN ptr' = ptr + 1 /\ count' = count + 1
                 ELSE ptr' = AfterJump(InUse[Min(hits)]) /\ count' = 1
              /\ UNCHANGED <<pc, i, safe>>
  /\ UNCHANGED <<boot, pmm>>

-----------------------------------------------------------------------------
(* unsafe[0 .. 4] as pmm_init gets it.                                     *)
StackRegion == Area(safe, safe + required)
Unsafe == {InUse[k] : k \in DOMAIN InUse} \cup {StackRegion}

Up(a) == ((a + PageSize - 1) \div PageSize) * PageSize
Down(a) == (a \div PageSize) * PageSize

FirstPage(k) == Up(mmap[k].base_addr)

(* The loop of pmm_init over the memory map.  Ranges of another type are   *)
(* only recorded, in an array that nothing reads.                          *)
FillEntry ==
  /\ pc = "fill"
  /\ IF i > Len(mmap)
     THEN pc' = "paging" /\ cur' = 0 /\ UNCHANGED i
     ELSE IF i \in Usable THEN pc' = "pages" /\ cur' = FirstPage(i) /\ UNCHANGED i
     ELSE i' = i + 1 /\ UNCHANGED <<pc, cur>>
  /\ UNCHANGED <<boot, scan, freePages, apLow, slots, taken>>

(* A mutation of FillPage: the page kept for the APs is pushed as well.    *)
FillPageTwice ==
  /\ pc = "pages"
  /\ IF cur < Down(EndOf(i))
     THEN /\ IF \E u \in Unsafe : In(cur, u) THEN UNCHANGED <<freePages, apLow>>
             ELSE /\ apLow' = IF apLow = 0 /\ cur < LowLimit THEN cur ELSE apLow
                  /\ freePages' = Append(freePages, cur)
          /\ cur' = cur + PageSize
          /\ UNCHANGED <<pc, i>>
     ELSE pc' = "fill" /\ i' = i + 1 /\ UNCHANGED <<freePages, apLow, cur>>
  /\ UNCHANGED <<boot, scan, slots, taken>>

(* A turn of the loop of pmm_init over the pages of an entry.  A page is   *)
(* taken to be free if its first byte is.                                  *)
FillPage ==
  /\ pc = "pages"
  /\ IF cur < Down(EndOf(i))
     THEN /\ IF \E u \in Unsafe : In(cur, u) THEN UNCHANGED <<freePages, apLow>>
             ELSE IF apLow = 0 /\ cur < LowLimit
             THEN apLow' = cur /\ UNCHANGED freePages
             ELSE freePages' = Append(freePages, cur) /\ UNCHANGED apLow
          /\ cur' = cur + PageSize
          /\ UNCHANGED <<pc, i>>
     ELSE pc' = "fill" /\ i' = i + 1 /\ UNCHANGED <<freePages, apLow, cur>>
  /\ UNCHANGED <<boot, scan, slots, taken>>

-----------------------------------------------------------------------------
max_addr == Max({0} \cup {EndOf(k) : k \in DOMAIN mmap})

(* _get_low_page: the first index of the lowest page, which the pages      *)
(* above it then move down over.                                           *)
LowestIndex(s) == CHOOSE k \in DOMAIN s :
                    /\ \A l \in DOMAIN s : s[k] <= s[l]
                    /\ \A l \in 1 .. k - 1 : s[k] < s[l]

WithoutIndex(s, k) == SubSeq(s, 1, k - 1) \o SubSeq(s, k + 1, Len(s))

WithoutLowest(s) == WithoutIndex(s, LowestIndex(s))

(* A turn of the loop of _init_paging: a page directory, and a PDPT if the *)
(* entry of the PML4 has none.  Without a free page _free_index wraps      *)
(* around, which is beyond the model.                                      *)
MapBlock ==
  /\ pc = "paging"
  /\ LET slot == cur \div SlotSpan
         need == IF slot \in slots THEN 1 ELSE 2
         one == WithoutLowest(freePages)
     IN  IF cur >= max_addr
         THEN pc' = "done" /\ UNCHANGED <<freePages, cur, slots, taken>>
         ELSE IF Len(freePages) < need
         THEN pc' = "underflow" /\ UNCHANGED <<freePages, cur, slots, taken>>
         ELSE /\ freePages' = IF need = 1 THEN one ELSE WithoutLowest(one)
              /\ taken' = taken \cup {freePages[LowestIndex(freePages)]}
                   \cup (IF need = 1 THEN {} ELSE {one[LowestIndex(one)]})
              /\ slots' = slots \cup {slot}
              /\ cur' = cur + GiB
              /\ UNCHANGED pc
  /\ UNCHANGED <<boot, i, scan, apLow>>

Ended == pc \in {"halted", "done", "underflow"}

Next == \/ ReadTag \/ CheckInfo \/ NextEntry \/ ScanByte
        \/ FillEntry \/ FillPage \/ MapBlock

(* The boot processor runs alone, with interrupts disabled.                *)
Spec == Init /\ [][Next]_vars /\ WF_vars(Next)
-----------------------------------------------------------------------------
Placed == pc \in {"fill", "pages", "paging", "done", "underflow"}
HandedOut == Range(freePages) \cup taken \cup ({apLow} \ {0})

(* The region that check_memory_bounds finds lies in one usable entry of   *)
(* the memory map, and touches an area in use at most with its last byte.  *)
RegionUsable ==
  Placed =>
    /\ \E k \in Usable : Bytes(StackRegion) \subseteq mmap[k].base_addr .. EndOf(k) - 1
    /\ \A k \in DOMAIN InUse :
         Bytes(StackRegion) \cap Bytes(InUse[k]) \subseteq {StackRegion.end - 1}

(* The stack of free pages never outgrows the bytes that get_stack_size    *)
(* asked for, although it counts whole entries and pmm_init counts pages.  *)
StackFits == Len(freePages) * PtrSize <= required

(* Testing the first byte of a page is enough for each area that begins on *)
(* a page boundary, as the kernel and the program stack do: pmm_init hands *)
(* out no page with a byte of it.  The stack of free pages need not begin  *)
(* on one: it is kept unless it follows an area that does not either.      *)
AreasKept ==
  Placed =>
    \A p \in HandedOut :
      /\ \A k \in DOMAIN InUse :
           InUse[k].start % PageSize = 0 => PageBytes(p) \cap Bytes(InUse[k]) = {}
      /\ (\A k \in DOMAIN InUse : InUse[k].end = safe => InUse[k].start % PageSize = 0)
           => PageBytes(p) \cap Bytes(StackRegion) = {}

(* No page is lost or counted twice: at the end each usable page other     *)
(* than page 0 is free, or maps memory, or is the page kept for the APs.   *)
PagesConserved ==
  pc = "done" =>
    LET good == {p \in 1 .. max_addr :
                   /\ p % PageSize = 0 /\ \A u \in Unsafe : ~In(p, u)
                   /\ \E k \in Usable : PageBytes(p) \subseteq mmap[k].base_addr .. EndOf(k) - 1}
    IN  /\ HandedOut = good
        /\ IsInjective(freePages) /\ Range(freePages) \cap taken = {}
        /\ apLow \notin Range(freePages) \cup taken

(* The boot processor gets through, or stops in one of the hlt.            *)
BootEnds == <>Ended

(* "a stack of free 4k memory pages" (README.md): no page on the stack     *)
(* that pmm_init fills holds a byte of that stack.                         *)
StackPagesFree ==
  \A p \in Range(freePages) : PageBytes(p) \cap Bytes(StackRegion) = {}
=============================================================================
