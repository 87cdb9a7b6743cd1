# A TLA+ model of gapxos

gapxos is a small x86-64 kernel.  This directory models the parts of it in
which state changes in ways that are hard to test: how the loader places and
maps the kernel, how memory is found at boot, how physical and virtual memory
are handed out to several processors, the tree, the node allocator and the heap
behind that, the ACPI tables and the MADT, and how a second processor is
started.  TLC checks the modules on small instances (`*.cfg`); the central
results are proved with TLAPS for every value of the constants (`*Proofs.tla`).
`PROJECT.json` maps each definition to the lines it models.

## The system

| Part | Source | Modules |
|---|---|---|
| Loader: page tables, ELF segments, jump to the kernel | `loader/loader.c`, `loader/boot.s` | `Loader` |
| Boot: Multiboot tags, room for the PMM stack | `kernel/boot/main.c`, `common_boot.c` | `BootMem` |
| Physical memory manager (PMM): a stack of free frames | `mem_mgmt/pmm.c` | `BootMem` (set-up), `MemMgr` (use) |
| Virtual memory manager: malloc_pages, map_memory, free_pages | `vmm/mem_mgmt.c` | `RangeTree`, `RangeMap`, `MemMgr`, `VmmTree` |
| Page tables | `vmm/paging.c` | `MemMgr` (leaf tables) |
| AVL tree of ranges | `vmm/avl_tree.c` | `AvlTree`, used by `VmmTree` |
| Allocator of tree nodes | `vmm/node_alloc.c` | `NodeHeader`, `NodeAlloc` |
| Kernel heap | `mem_mgmt/heap.c` | `HeapMem`, `Heap` |
| GDT and TSSs | `gdt/gdt.c` | `Gdt`, on `HeapMem` |
| ACPI tables | `acpi/acpi.c` | `Acpi`, on `RangeMap` |
| MADT, APIC mode | `apic/apic.c` | `Madt` |
| Start of a second processor | `apic/cpu.c`, `ap_init_payload.h` | `ApStart` |

The loader copies the kernel, maps it and enters long mode.  The boot processor
then runs `kernel_main`, which fills the PMM; `system_main` creates the kernel's
one memory manager, reads ACPI and the MADT and starts a second processor,
which shares the manager.  The manager locks itself, changes its tree of
ranges, writes page tables and takes frames from the PMM; the tree takes its
nodes from pages that come from the PMM, too.  The heap takes its pages from
the manager.

## The modules

* **RangeTree** - the tree as its users see it, a map from first page to range:
  `alloc_virt`, the merges of `free_pages`, and the searches.
* **RangeMap** - the abstract specification of a manager: `Alloc` and `Free`
  take effect at one instant.
* **MemMgr** - the manager with its lock, leaf page tables, and the PMM stack.
  Between two steps of a processor another may run: taking the lock, the change
  of the tree, each page of the loop, the merge, the unlock.  Lost spins are
  stuttering.  A page table comes into use uncleared, so its entries start as
  `Garbage`.  `alloc_virt`'s NULL and the PMM's 0 are used as the code uses
  them.  `MemMgr` implements `RangeMap` under `OuterTree`, in which a range
  being released counts as allocated until the merge.
* **AvlTree**, **VmmTree** - linked nodes, heights and rotations, and
  `alloc_virt` / `free_pages` on them.  The pointer `parent` of `_delete_node`
  is uninitialised in one case; it is then any value of `Stale`.  `intact`
  records that no removal has left a freed node linked, `moved` that one has
  moved a successor.
* **NodeHeader**, **NodeAlloc** - the bit header and the list of node pages,
  with the arithmetic as it is: `1 << bit` is an int, the index of a freed node
  is negated, the header is not zeroed, the test for an empty page reads a
  node.
* **HeapMem** - `malloc` and `free` on headers linked through memory, written
  as functions of that memory, so that a caller can make several calls in a
  step.  **Heap** has clients that call them in any order; **Gdt** has
  `gdt_init` and `gdt_add_tss`, whose table moves when it grows.
* **Acpi** - `acpi_init` and `acpi_get_table`: each `map_memory` and
  `free_pages` is a step of `RangeMap`, and other users of `kern_vmm` take
  steps between them, also where a table is unmapped to be mapped again with
  more pages.  The checksum is read through the mapping, as far as it goes and
  beyond (`ReadsPast`, `CheckFaults`).
* **Madt** - the walk over the MADT, entry by entry in every order, with the
  records it makes, completes or overwrites, then `apic_get_current` and
  `apic_enable_x2apic` on the boot processor.  A field that no entry sets is
  any value of `Ids`.  The words of an x2APIC entry come in the firmware's order
  (`Words`) and are read in the code's (`UidOf`, `IdOf`, `FlagsOf`).
* **Loader** - page tables of four levels (`add_page`), the tags,
  `find_elf64_phys_origin` with the width of its integers, and the segments
  copied, cleared and mapped one at a time.
* **BootMem** - tags, checks, the walk of `get_page_table_area` over the tables
  (`Tables`), the byte-by-byte search of `check_memory_bounds`, `pmm_init` page
  by page, `_init_paging` block by block.
* **ApStart** - the boot processor, the PIT, the APIC's command register and
  the payload, at independent speeds.  The stack pointer is what `malloc_pages`
  returned, `NULL` included, as `cpu.c:100` stores it.

The `MC` modules hold the values of constants that a configuration cannot
write down.

## What the runs check

| Run | Bounds | Shows |
|---|---|---|
| `mem_mgr` | 2 processors, 3 pages in tables of 2 entries, 2 frames | mutual exclusion; a frame has one owner; none is lost before memory runs out; tables agree with the tree; the lock is given back; the manager implements `RangeMap` |
| `vmm_tree` | 6 pages, 10 nodes | while `intact`: the tree implements `RangeMap`, searches are complete, linked nodes are taken; balanced until a successor is moved |
| `node_alloc` | 8-bit words, 6-bit ints, 2 pages, 6 nodes held | `find_0_bit` finds the lowest clear bit; for indices up to half an int, nodes in use are protected and the list is linked |
| `heap` | pages of 9 units, 2 of them, 6 blocks held | for disciplined clients: blocks tile the pages, the allocated lists are what clients hold, free memory is one block per page |
| `acpi` | 7 pages of 4 bytes, 2 tables listed, 2 calls | ranges tile the region and merge; what `acpi.c` points at stays its own, covers its table and is not leaked; a search finds the first table that answers |
| `madt` | MADTs of up to 3 entries, of 14 kinds | a processor of a legacy entry has one record, with what the table says of it last, in every order; with a plain table the boot processor's record, and no other, has the mode `cpu_send_ipi` acts on |
| `loader` | tables of 4 entries, pages of 2 bytes, 128 bytes below "4 GiB" | the kernel gets memory of its own; the address space shows its image and the loader's pages, built in cleared tables; the upper levels the memory manager expects exist |
| `boot_mem` | 4-byte pages, 96 bytes of memory | the region is usable and large enough, each area that begins on a page is kept, pages are conserved, boot ends |
| `ap_start` | a payload page below and one above 64 KiB, a stack or none | the AP runs with the address `malloc_pages` returned for it; a late AP is held; `cpu_start` returns |

The bounds make the cases happen: the frames are too few for the pages and
their tables, so both the region and the PMM run out; a range can have a free
neighbour on both sides; a node page fills up, is released and re-used; a heap
block is split, taken whole, or needs a new page; ACPI tables lie inside a
page, across two and across three; a processor is listed twice, or by an NMI
entry alone, before or after its own entry; areas in use lie at edges of pages
and of map entries, and the tables are one, two or four levels deep.

`vmm_tree` explores no further once a removal has damaged the tree
(`StillIntact`), and its view forgets the numbers of nodes, except that of the
first, and what unlinked nodes hold.  `heap` follows a behaviour up to the
first call that leaves the discipline (`Disciplined`): releases in stack order
within a page, at least one block kept in each page, requests that a page block
can hold and that a page is left for.  Outside of it the heap's lists break:
`free` appends a block with its old link, so that blocks in use follow it on the
free list (`heap.c:96`), overwrites a link one step behind (`heap.c:106`), and
leaves a pointer to a page it has given back (`heap.c:115`).  `BootMem`'s memory
maps are in ascending order.  The properties of `Loader` are stated for memory
maps in which no entry before the first one with room for the kernel ends before
its first page boundary or above 4 GiB (`Placed`); what follows, memory above
4 GiB for example, may be anything.  `GetTableFinds` is stated for tables that
two pages hold.

`LegacyAsListed` compares the records with the table as the firmware means it.
It leaves out processors whose UID is a word of an x2APIC entry, because such an
entry may take over their record, and tables whose x2APIC NMI entry names 0xFF
or 0xFFFFFFFF.  `ModeRecorded` needs a `Plain` table: legacy entries with
distinct IDs for all processors that NMI entries name, the boot processor among
them.  A record that only an NMI entry made may have any ID.

Deadlock is checked except where the program ends (`boot_mem`, `ap_start`,
`acpi`, `madt`, `loader`: the kernel goes on elsewhere, or hlt) or where a bound
or a constraint stops the model (`vmm_tree`: every node used).

### Where the code disagrees with its documentation

Each of these runs checks what a comment or `src/README.md` says and ends in a
counterexample; `PROJECT.json` quotes the lines.

| Run | The code |
|---|---|
| `vmm_tree_once` | the uninitialised `parent`: after two allocations and two releases a range is stored twice |
| `boot_own_stack` | a page counts as free by its first byte: when the memory map begins and ends inside a page and the stack of free pages follows it, the page with the beginning of that stack is pushed on it |
| `gdt_tss` | the sixth TSS is given the memory of the GDT: `gdt_init` releases its first table with the second still linked behind it, so that the free list leads into the allocated one (`heap.c:96`), and the next growth drops the large free block from the list (`heap.c:106`) |

The following are built into the models as the code has them, without a run of
their own:

* `set_page` does not free the frame an entry held before, which the comment at
  `paging.c:53` says it does first.  Inside the region there is none to free
  (`NoFrameLeakedHolds`); once the region is exhausted, pages at address 0 are
  set again and again, and their frames are lost.
* Moving a successor leaves stale heights on the path to it, and the tree, which
  `src/README.md:72` calls self-balancing, may lose its balance
  (`BalancedUntilMove` is stated up to the first such move).
* `free_node` clears the bit of the negated index (`node_alloc.c:92` and
  `:121`); `init_avl_page`'s `memset` (`node_alloc.c:30`) counts down a zero and
  leaves the header as the frame had it (`StaleFrames`).
* The test `ptr > start` of `check_memory_bounds` (`common_boot.c:80`) lets the
  PMM stack end on the first byte of an area in use; `RegionUsable` states that
  exactly.
* `cpu_send_ipi` (`cpu.c:166`) tests the wrong bit and does not wait for
  delivery; the second poll of `cpu_start` (`cpu.c:125`), 10 ms in its comment,
  asks for 1000 ms, which the 16-bit counter makes about 11 ms (`PitCycles`).
* Case 9 of `apic_parse_madt` (`apic.c:154`) takes the ID, flags and UID of an
  x2APIC entry for UID, ID and flags, so that its record has the flags for an
  ID.  The order of the words is the firmware's; nothing in the repository
  states it.
* The override of the local APIC's address, which the comment at `apic.c:195`
  says "should be used", is recorded and used by `cpu_send_ipi`; the register
  accesses of `apic.c:219` and `:225` go to a fixed 0xFEE00000 all the same.

### Fairness

`MemMgr`: a processor that holds the lock keeps executing, since the loader
disables interrupts (`loader/boot.s:73`, `:199`), nothing enables them, and
nothing else runs on a processor.  No fairness is assumed of the calls, nor of
who wins the lock: a processor may spin for ever.  `BootMem`: the one processor
keeps executing.  `ApStart`: both processors execute, the PIT counts, the APIC
delivers.  The other modules state no liveness.

## What is proved

* `RangeMapProofs`, about `RangeMap`: `RangesTile`, `FreeRangesMerged`,
  `NothingFragmented`, for every region.  The invariant is types, tiling and
  merging together: merging finds its neighbours only because ranges tile.
  `RangeTreeProofs` has the lemmas on splits and merges, among them that
  neither changes which other ranges are allocated (`KeepsAllocated`).
* `RangeMapProofs`, about `Acpi`, for every region, page size and set of tables
  (`AcpiAssumption`): `AcpiUsesRangeMap` and with it `AcpiTiles`;
  `AcpiMappingsKept`, `AcpiNothingLeaked`, `AcpiTablesCovered` and
  `AcpiGetTableFinds`.  The invariant `AInv` says for each place in
  `_mmap_table` which ranges the pointers stand for, that they and the other
  users' ranges are distinct, and that they are all there is;
  `AcpiTablesCovered` rests on the arithmetic of the length rounded up to a page
  and one page more.  `AcpiGetTableFinds`, an action property, needs `SearchInv`
  beside it: no table before the one being looked at answers.
* About `MemMgr`, for any number of processors, region, table size and frames,
  in a chain of invariants, each of which uses the one before:
  * `LockExcludes` from `MutexInv` (`MemMgrProofs`);
  * `TypeCorrect` (`MemMgrProofs`): `MInv` adds to the types what the locals
    mean at each place (`CallInv`), the tree invariant with ranges being
    released excepted, and that each page of an allocated range has been set or
    is still to be set by the loop (`EntryInv`).  The last is why uncleared page
    tables never give stale memory to the PMM;
  * `FramesExclusiveHolds` (`MemMgrMapProofs`) from `OwnInv`: a frame is on the
    stack once, or in one entry, or one table, or among the node pages;
  * `NoFrameLeakedHolds` and `MappingsMatchHolds` (`MemMgrMapProofs`) from
    `MapInv`: a page of the region is mapped to memory the kernel chose exactly
    when a range in use has it (`Mapped`, `Used`), a table that is not there has
    no such entries, and before memory runs out every frame is held and 0 is
    nowhere (`Plenty`).  The two directions of the first need each other:
    `set_page` loses no frame because a page that is about to be set maps none,
    and that is so because `free_page` has cleared every page of a range before
    it is merged;
  * `Refinement` (`MemMgrMapProofs`): the initial states and all steps map to
    `RangeMap`.

  The assumptions are `MemMgrAssumption`: address 0 shares no table with the
  region, frames on the stack are distinct and not 0, device frames are apart,
  and no request is larger than one page table (`MaxCount <= Entries`).  The
  region may span many tables, as the kernel's 1000 pages do.
* `NodeAllocProofs`, for any finite set of pages, any width of words and ints
  and whatever the frames held: `FindsFirstHolds`, `LiveIsProtected`,
  `ListIsLinked`.  `NodeInv` has types, and, as long as no index has passed half
  the width of an int, the links of the list in both directions (`Chain`) and
  the bits of the nodes that are held (`Held`).  That the loop of `create_node`
  reaches the last page is part of it (`WalkEnds`): a walk that does not end
  within as many rounds as there are pages would meet a page twice.
* `BootMemProofs`, for every memory map whose usable entries ascend and every
  place of the kernel, the map and the stack (`BootMemAssumption`):
  `RegionIsUsable`, `FreeStackFits`, `AreasAreKept` (area by area: it holds for
  those that begin on a page whatever the others do), `PagesAreConserved`.
  `BInv` describes the bytes counted so far by `check_memory_bounds`
  (`ScanInv`), which pages the loops of `pmm_init` have met and that each is in
  one place (`FreeInv`), and that there are no more of them than
  `get_stack_size` counted (`CountInv`).  The last relates two loops: one
  rounds the length of each entry down to pages, the other its two ends inwards.
* `LoaderProofs`, for every machine with at least one segment to load and
  lengths below 2^64 (`LoaderAssumption`): `KernelIsApart`.  `LoaderInv` says
  what the tags read so far have set, and so that `min_elf64_addr` lies above
  the module, the multiboot structure and the loader; the rest is the
  arithmetic of `find_elf64_phys_origin` modulo 2^64 and 2^32, which does not
  wrap on the entries up to the one it takes (`Placed`).
* `CpuProofs`, about `Madt`, for every MADT: `LegacyRecordsAreRight`,
  `ModeIsRecorded`.  `MadtInv` is about the table as the code reads it, x2APIC
  entries included: records and entries name the same processors, each in one
  record (`Unique`, `Listed`); a record holds what the last entry of its processor says
  (`Filled`); its NMI is the last one for it (`OwnNmi`), and an NMI for all is
  kept aside until the walk is over (`Global`).  For legacy entries that reading
  is the firmware's (`LegacyRead`, `LegacyRecord`), and an entry that the table
  has is also there a last time (`LastExists`).  `ModeIsRecorded` needs all of
  it: `apic_get_current` finds the boot processor's record only because no other
  record has its ID, which the distinct IDs of a plain table give (`Plain`).
* `CpuProofs`, about `ApStart`: `HandshakeHolds` (inductive),
  `KernelHasStackHolds`, `LateApStaysHeld`, for every payload page, stub offset
  and set of stacks.

Where an argument is by induction over a loop or a recursive function
(`SizeAfter`, `Walk`, the greatest end of a segment), it is made with the least
counterexample: a non-empty set of natural numbers has a least element
(`LeastNat`), and a step leads from it to a smaller one.

Only model-checked:

* liveness (`LockReleased`, `BootEnds`, `StartedRuns`, `CallReturns`): fairness
  and `ENABLED` are beyond this prover;
* `RefinesRangeMap` of `VmmTree` and everything else about `AvlTree`, `VmmTree`,
  `HeapMem`, `Heap` and `Gdt`: recursive operators over linked memory, which
  the prover does not take;
* `AddressSpace`, `ImageLoaded` and `ReadyForVmm` of `Loader`: they compare a
  walk through four levels of tables with nested loops that build them, and hold
  for kernels whose segments are page-aligned and apart; `MCLoader` has such
  kernels, and `LoaderAssumption` does not ask for it.

## Abstractions and limits

* `MemMgr` uses the tree's abstract operations.  They are what the linked tree
  does only while it is `intact`: `vmm_tree_once` shows that four calls can end
  that.  The results on `MemMgr` and `Acpi` are about locking, page tables,
  frames and mappings for a tree that works.
* Requests are no larger than one page table, 512 pages: what a larger one
  without a range writes, from address 0 on, is not confined to the first table.
* `MemMgr` never returns a node page to the PMM; `free_node` would return its
  address in the physical map instead of its frame.
* `AvlTree` has one node page, taken to be zeroed, and at most half an int of
  nodes, where `LiveProtected` of `NodeAlloc` applies.
* In the kernel's region upper page table levels are taken to exist, which is
  `ReadyForVmm` of `Loader`; access flags are left out except the right to
  execute, which `Loader` has.
* `BootMem` stops where `_get_low_page` meets an empty stack (`underflow`); the
  framebuffer tag is left out, and so are the recorded reserved ranges, which
  nothing reads and which have room for 32 elements.
* A unit of `Heap` is the size of a header.
  `Gdt` has the sizes of the code; limits of descriptors that make `_add_entry`
  return early, and the order of loading a selector and the table's limit, are
  left out.
* `Acpi` stops where `map_memory` finds no room (`pc = "lost"`): `acpi.c` does
  not look at its NULL, and would take whatever low memory holds for a table.
* `Madt` has entries with the lengths their types prescribe: an entry of length
  0 would keep the walk in place.  UID 0xFF means every processor for both kinds
  of NMI entry, as in the code (`apic.c:106`); to the firmware it does so only in
  the legacy one, in an x2APIC one it is 0xFFFFFFFF.
* `Loader` has one module, the kernel; for another one, or none, the jump would
  go to address 0.  One page of the 64 KiB stack is mapped, as in the code
  (`loader.c:206`), and its bottom is taken to lie on a page, which only the
  order of the linked objects provides.
* `ApStart` has the one call that `system_main` makes.  The AP's stack pointer
  is the lowest address of its pages, or `NULL`, with no room to push below it
  (`cpu.c:100`); `KernelHasStack` says which address it is, not that there is
  room.  The memory accesses of the AP are not modelled.
* A region for the PMM's stack at address 0 counts as not found (`if (safe)` in
  `boot/main.c`).

## Not modelled

* **Translation caches.**  `set_page` invalidates an entry on its own processor
  only, `free_page` nowhere.  Nothing in the code or its documentation says what
  another processor may still see, and the kernel's second processor halts
  before it uses the region; a model would be of the processor, not of this
  code.
* **Several APs.**  `system_main` starts one.  The payload advances its far
  pointer in place (`ap_init_payload.h:23`), so that a second start needs the
  payload to be written anew; no code does that, and `cpu_free_ap_payload` is
  never called.
* **Node pages released into the PMM.**  What `free_node` pushes is not a frame,
  so the PMM's stack has no meaning afterwards; `NodeAlloc` ends at the release.
* **Device I/O of `apic_enable`** and the I/O APIC's count of inputs: writes to
  registers nothing reads back.
* **`display.c`**, which calls itself temporary and only writes; **the boot
  GDT** and the descriptor tables of `boot.s`, which are constants; **`fadt.h`**,
  which no code uses; **the utilities** (`memcpy`, `utoa`), which have no state.
