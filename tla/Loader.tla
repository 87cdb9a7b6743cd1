------------------------------- MODULE Loader -------------------------------
(***************************************************************************)
(* The boot loader (loader.c, boot.s): page tables, the walk over the       *)
(* multiboot tags, a place for the kernel, its segments copied and mapped,  *)
(* long mode.  Memory is bytes of physical memory, each with a value that   *)
(* tells where it came from; page tables are kept apart from it, as entries *)
(* under <<table, index>>, since zeroed entries are not present.            *)
(***************************************************************************)
EXTENDS Integers, Sequences, FiniteSetsExt

CONSTANTS PageSize,    \* 4096
          Radix,       \* 512, the entries of a table
          Word,        \* 2^64
          Addr32,      \* 2^32
          TableArea,   \* first page of page_structs
          ZeroPages,   \* the 1 MiB of it that init_page_structure clears, in pages
          AreaPages,   \* the 4 MiB that image_end allows for it, in pages
          StackPage,   \* page of stack_bottom
          VmmPages,    \* virtual pages that setup_kern_vmm manages
          Machines     \* what the loader may be started on

MapEntries == [base_addr : Nat, length : Nat, type : Nat]
ProgramHeaders == [type : Nat, offset : Nat, vaddr : Nat, memsz : Nat, filesz : Nat,
                   exec : BOOLEAN]

(* The kernel is a module with something to load, and the firmware counts   *)
(* its memory in 64 bits.                                                   *)
ASSUME LoaderAssumption ==
  /\ {PageSize, Word, Addr32} \subseteq Nat \ {0} /\ Addr32 > 1
  /\ {TableArea, AreaPages} \subseteq Nat
  /\ \A m \in Machines :
       /\ {m.mb_end, m.mod_start, m.mod_end} \subseteq Nat
       /\ m.tags \in Seq({"module", "mmap", "other"}) /\ m.tags # << >>
       /\ m.valid => "module" \in Range(m.tags)
       /\ m.mmap \in Seq(MapEntries) /\ \A e \in Range(m.mmap) : e.length < Word
       /\ m.elf \in Seq(ProgramHeaders)
       /\ \E s \in DOMAIN m.elf : m.elf[s].type = 1

VARIABLES machine,   \* [mb_end, mod_start, tags, mmap, elf, valid, long_mode]
          stage,
          tag,       \* the tag mb_info points at
          min_elf64_addr,
          mod,       \* [start, end] of the module
          memory_map,
          pages,     \* page tables: [entries, page_free_point]
          ram,       \* physical memory below Addr32
          load,      \* [start, end]: *load_start, *load_end
          phys_location,
          seg        \* the program header phdr points at

loaderVars == <<machine, stage, tag, min_elf64_addr, mod, memory_map, pages, ram, load,
          phys_location, seg>>

-----------------------------------------------------------------------------
(* add_page.  An entry is the page it points at, for a last-level or large  *)
(* entry with the right to execute.                                         *)
pml4t == TableArea

Index(v, level) == (v \div Radix ^ (level - 1)) % Radix

IsPresent(p, table, idx) == <<table, idx>> \in DOMAIN p.entries

SetEntry(p, table, idx, e) ==
  [p EXCEPT !.entries = [x \in DOMAIN @ \cup {<<table, idx>>} |->
                           IF x = <<table, idx>> THEN e ELSE @[x]]]

(* A mutation of WithTable: a table is taken whether or not there is one.    *)
WithTableAlways(p, table, idx) ==
  [SetEntry(p, table, idx, [page |-> p.page_free_point, large |-> FALSE, exec |-> TRUE])
     EXCEPT !.page_free_point = @ + 1]

(* A mutation of WithTable: the entry is marked as that of a large page.     *)
WithTableLarge(p, table, idx) ==
  IF IsPresent(p, table, idx) THEN p
  ELSE [SetEntry(p, table, idx, [page |-> p.page_free_point, large |-> TRUE, exec |-> TRUE])
          EXCEPT !.page_free_point = @ + 1]

(* An entry that is not present is pointed at the next free page.           *)
WithTable(p, table, idx) ==
  IF IsPresent(p, table, idx) THEN p
  ELSE [SetEntry(p, table, idx, [page |-> p.page_free_point, large |-> FALSE, exec |-> TRUE])
          EXCEPT !.page_free_point = @ + 1]

add_page(p, v, page, exec) ==
  LET p1   == WithTable(p, pml4t, Index(v, 4))
      pdpt == p1.entries[<<pml4t, Index(v, 4)>>].page
      p2   == WithTable(p1, pdpt, Index(v, 3))
      pdt  == p2.entries[<<pdpt, Index(v, 3)>>].page
      p3   == WithTable(p2, pdt, Index(v, 2))
      pt   == p3.entries[<<pdt, Index(v, 2)>>].page
  IN  SetEntry(p3, pt, Index(v, 1), [page |-> page, large |-> FALSE, exec |-> exec])

(* init_page_structure: three tables, four large pages of identity map.     *)
init_page_structure ==
  LET pdpt == TableArea + 1
      pdt  == TableArea + 2
      Dir(t) == [page |-> t, large |-> FALSE, exec |-> TRUE]
  IN  [page_free_point |-> TableArea + 3,
       entries |-> [x \in {<<pml4t, 0>>, <<pdpt, 0>>} \cup {<<pdt, k>> : k \in 0 .. 3} |->
                      IF x = <<pml4t, 0>> THEN Dir(pdpt)
                      ELSE IF x = <<pdpt, 0>> THEN Dir(pdt)
                      ELSE [page |-> x[2] * Radix, large |-> TRUE, exec |-> TRUE]]]

-----------------------------------------------------------------------------
(* find_elf64_phys_origin, one entry: what is left of it above the lowest   *)
(* address, from the next page boundary on.  Lengths wrap; the difference   *)
(* is an int, and a negative one compares as larger than any length.        *)
LowestIn(e) ==
  LET skip == IF e.base_addr < min_elf64_addr THEN min_elf64_addr - e.base_addr ELSE 0
      base == e.base_addr + skip
      pad  == IF base % PageSize = 0 THEN 0 ELSE PageSize - (base % PageSize)
  IN  [base |-> base + pad, length |-> (e.length - skip - pad) % Word,
       skipped |-> skip > e.length \/ skip >= Addr32 \div 2]

(* A mutation of Holds: the padding to a page boundary is not deducted.     *)
HoldsUnpadded(e, size) ==
  LET skip == IF e.base_addr < min_elf64_addr THEN min_elf64_addr - e.base_addr ELSE 0
  IN  e.type = 1 /\ skip <= e.length /\ e.length - skip >= size

Holds(e, size) == /\ e.type = 1
                  /\ ~LowestIn(e).skipped
                  /\ LowestIn(e).length >= size

find_elf64_phys_origin(size) ==
  LET fit == {k \in DOMAIN memory_map : Holds(memory_map[k], size)}
  IN  IF fit = {} THEN 0 ELSE LowestIn(memory_map[Min(fit)]).base % Addr32

-----------------------------------------------------------------------------
(* Byte values: anything, zero, and byte k of segment s in the module.      *)
Junk == <<-1, 0>>
Zero == <<0, 0>>
FileByte(s, k) == <<s, k>>

(* The module as the multiboot loader has placed it.                        *)
ModuleByte(m, a) ==
  LET from == {s \in DOMAIN m.elf :
                 LET o == m.mod_start + m.elf[s].offset
                 IN  o <= a /\ a < o + m.elf[s].filesz}
  IN  IF from = {} THEN Junk
      ELSE LET s == Min(from) IN FileByte(s, a - m.mod_start - m.elf[s].offset)

LoaderInit ==
  /\ machine \in Machines
  /\ stage = "lmain" /\ tag = 1 /\ seg = 1
  /\ min_elf64_addr = 0 /\ phys_location = 0
  /\ mod = [start |-> 0, end |-> 0] /\ load = [start |-> 0, end |-> 0]
  /\ memory_map = << >>
  /\ pages = [page_free_point |-> 0, entries |-> << >>]
  /\ ram = [a \in 0 .. Addr32 - 1 |-> ModuleByte(machine, a)]

AtLeast(a, b) == IF a > b THEN a ELSE b

(* The last page of the address space, where the stack is mapped.           *)
StackVirt == Radix ^ 4 - 1

(* lmain up to the tags.                                                    *)
lmain ==
  /\ stage = "lmain"
  /\ pages' = add_page(init_page_structure, StackVirt, StackPage, FALSE)
  /\ min_elf64_addr' = AtLeast(machine.mb_end, (TableArea + AreaPages) * PageSize)
  /\ stage' = "tags"
  /\ UNCHANGED <<machine, tag, mod, memory_map, ram, load, phys_location, seg>>

(* One turn of the loop over the tags; after the last one the module's end  *)
(* counts for the lowest address too.                                       *)
ReadTag ==
  /\ stage = "tags"
  /\ mod' = IF machine.tags[tag] = "module"
            THEN [start |-> machine.mod_start, end |-> machine.mod_end] ELSE mod
  /\ memory_map' = IF machine.tags[tag] = "mmap" THEN machine.mmap ELSE memory_map
  /\ tag' = tag + 1
  /\ IF tag < Len(machine.tags)
     THEN UNCHANGED <<stage, min_elf64_addr>>
     ELSE /\ stage' = "elf"
          /\ min_elf64_addr' = AtLeast(min_elf64_addr, mod'.end)
  /\ UNCHANGED <<machine, pages, ram, load, phys_location, seg>>

-----------------------------------------------------------------------------
IsLoad(s) == machine.elf[s].type = 1   \* PT_LOAD

Loads == {s \in DOMAIN machine.elf : IsLoad(s)}

SegEnd(s) == machine.elf[s].vaddr + machine.elf[s].memsz

(* load_elf64_module up to the second loop; a header it does not accept     *)
(* makes it return 0, which lmain takes for the entry point.                *)
load_elf64_module ==
  /\ stage = "elf"
  /\ LET size == Max({SegEnd(s) : s \in Loads}) - Min({machine.elf[s].vaddr : s \in Loads})
         at   == find_elf64_phys_origin(size)
     IN  IF machine.valid
         THEN /\ phys_location' = at
              /\ load' = [start |-> at, end |-> at + size]
              /\ stage' = "segments"
         ELSE stage' = "boot" /\ UNCHANGED <<phys_location, load>>
  /\ UNCHANGED <<machine, tag, min_elf64_addr, mod, memory_map, pages, ram, seg>>

(* zero_memory, then memcpy from the module.                                *)
Loaded(s) ==
  [a \in DOMAIN ram |->
     LET k == a - phys_location
     IN  IF k \in 0 .. machine.elf[s].filesz - 1
         THEN LET src == mod.start + machine.elf[s].offset + k
              IN  IF src - phys_location \in 0 .. machine.elf[s].memsz - 1
                  THEN Zero ELSE ram[src]
         ELSE IF k \in 0 .. machine.elf[s].memsz - 1 THEN Zero ELSE ram[a]]

(* add_page for every page of the segment.                                  *)
Mapped(s) ==
  LET count == (machine.elf[s].memsz + PageSize - 1) \div PageSize
      with[j \in 0 .. count] ==
        IF j = 0 THEN pages
        ELSE add_page(with[j - 1], machine.elf[s].vaddr \div PageSize + j - 1,
                      phys_location \div PageSize + j - 1, machine.elf[s].exec)
  IN  with[count]

(* A mutation of LoadSegment: every segment is put at the same place.       *)
LoadSegmentInPlace ==
  /\ stage = "segments"
  /\ IF IsLoad(seg)
     THEN ram' = Loaded(seg) /\ pages' = Mapped(seg)
     ELSE UNCHANGED <<ram, pages>>
  /\ seg' = seg + 1
  /\ stage' = IF seg < Len(machine.elf) THEN stage ELSE "boot"
  /\ UNCHANGED <<machine, tag, min_elf64_addr, mod, memory_map, load, phys_location>>

(* One turn of the second loop of load_elf64_module.                        *)
LoadSegment ==
  /\ stage = "segments"
  /\ IF IsLoad(seg)
     THEN /\ ram' = Loaded(seg)
          /\ pages' = Mapped(seg)
          /\ phys_location' = phys_location + machine.elf[seg].memsz
     ELSE UNCHANGED <<ram, pages, phys_location>>
  /\ seg' = seg + 1
  /\ stage' = IF seg < Len(machine.elf) THEN stage ELSE "boot"
  /\ UNCHANGED <<machine, tag, min_elf64_addr, mod, memory_map, load>>

(* setup_longmode, which halts without long mode, and the jump of boot.s   *)
(* to the kernel.                                                          *)
setup_longmode ==
  /\ stage = "boot"
  /\ stage' = IF machine.long_mode THEN "kernel" ELSE "halt"
  /\ UNCHANGED <<machine, tag, min_elf64_addr, mod, memory_map, pages, ram, load,
                 phys_location, seg>>

LoaderNext == lmain \/ ReadTag \/ load_elf64_module \/ LoadSegment \/ setup_longmode

LoaderSpec == LoaderInit /\ [][LoaderNext]_loaderVars

-----------------------------------------------------------------------------
(* The translation the processor makes of virtual page v: the physical page *)
(* and the right to execute, or nothing.                                    *)
Step(t, v, level) ==
  {pages.entries[<<x.page, Index(v, level)>>] :
     x \in {x \in t : ~x.large /\ IsPresent(pages, x.page, Index(v, level))}}

Translate(v) ==
  LET top == Step({[page |-> pml4t, large |-> FALSE, exec |-> TRUE]}, v, 4)
      dir == Step(Step(top, v, 3), v, 2)
  IN  {[page |-> x.page + (v % Radix), exec |-> x.exec] : x \in {x \in dir : x.large}}
        \cup {[page |-> x.page, exec |-> x.exec] : x \in Step(dir, v, 1)}

(* Where the segments lie: one behind the other, in header order.           *)
SegAt(s) ==
  LET at[k \in 1 .. s] ==
        IF k = 1 THEN load.start
        ELSE at[k - 1] + IF IsLoad(k - 1) THEN machine.elf[k - 1].memsz ELSE 0
  IN  at[s]

SegPages(s) == machine.elf[s].vaddr \div PageSize .. SegEnd(s) \div PageSize - 1

Done == stage = "kernel" /\ machine.valid

EndOfEntry(e) == e.base_addr + e.length

RoundUp(a) == ((a + PageSize - 1) \div PageSize) * PageSize

(* Usable memory that reaches above the lowest address reaches the next     *)
(* page boundary too, and lies below 4 GiB; or the code may not take it for *)
(* what it is, and copy the kernel over the loader and its tables.          *)
Sound(e) ==
  e.type = 1 /\ EndOfEntry(e) >= min_elf64_addr
    => /\ EndOfEntry(e) >= RoundUp(AtLeast(e.base_addr, min_elf64_addr))
       /\ EndOfEntry(e) <= Addr32

(* Usable memory with room for the kernel above the lowest address, which   *)
(* is within an int of its start.                                           *)
Room(e) ==
  /\ e.type = 1 /\ min_elf64_addr - e.base_addr < Addr32 \div 2
  /\ RoundUp(AtLeast(e.base_addr, min_elf64_addr)) + (load.end - load.start) <= EndOfEntry(e)

(* The place was found, in a memory map whose entries are sound up to one   *)
(* that has room: what follows it, above 4 GiB for example, may be anything.*)
Placed ==
  /\ Done /\ load.start # 0
  /\ \E k \in DOMAIN machine.mmap :
       Room(machine.mmap[k]) /\ \A j \in 1 .. k : Sound(machine.mmap[j])

(* find_elf64_phys_origin finds a place inside one usable range, clear of   *)
(* the loader with its page tables, of the multiboot structure and of the   *)
(* module the kernel is copied from.                                        *)
LoadedApart ==
  Placed =>
    /\ \E e \in Range(machine.mmap) :
         e.type = 1 /\ e.base_addr <= load.start /\ load.end <= EndOfEntry(e)
    /\ load.start >= machine.mb_end /\ load.start >= machine.mod_end
    /\ load.start >= (TableArea + AreaPages) * PageSize

(* The four-level tables that add_page builds translate exactly the low     *)
(* memory, the stack and the pages of the segments, each with the segment's *)
(* right to execute.  The tables lie in the memory that                     *)
(* init_page_structure has cleared, so they hold no other entries.          *)
AddressSpace ==
  Placed =>
    /\ pages.page_free_point <= TableArea + ZeroPages
    /\ \A v \in 0 .. StackVirt :
      Translate(v) =
        IF v < 4 * Radix THEN {[page |-> v, exec |-> TRUE]}
        ELSE IF v = StackVirt THEN {[page |-> StackPage, exec |-> FALSE]}
        ELSE {[page |-> SegAt(s) \div PageSize + v - machine.elf[s].vaddr \div PageSize,
               exec |-> machine.elf[s].exec] : s \in {s \in Loads : v \in SegPages(s)}}

(* Read through those tables, the kernel's memory is the image that the ELF *)
(* headers describe: the bytes of the file, then zeros.                     *)
ImageLoaded ==
  Placed =>
    \A s \in Loads : \A k \in 0 .. machine.elf[s].memsz - 1 :
      LET a == machine.elf[s].vaddr + k
      IN  \A x \in Translate(a \div PageSize) :
            ram[x.page * PageSize + (a % PageSize)]
              = IF k < machine.elf[s].filesz THEN FileByte(s, k) ELSE Zero

(* The kernel's memory manager finds what it relies on: for the pages it    *)
(* manages, which share a page directory with the kernel, the loader has    *)
(* made the upper tables and left the directory's entries empty.            *)
ReadyForVmm ==
  Placed =>
    \A v \in VmmPages :
      LET top == Step({[page |-> pml4t, large |-> FALSE, exec |-> TRUE]}, v, 4)
      IN  Step(top, v, 3) # {} /\ Step(Step(top, v, 3), v, 2) = {}
=============================================================================
