------------------------------ MODULE MCBootMem ------------------------------
(* Pages of four bytes and pointers of one, up to 96 bytes.  The memory     *)
(* maps have a hole, partial pages at both ends of an entry, or too little  *)
(* memory for the page directories; the areas in use sit at the edges of    *)
(* entries and of pages, and between them.                                  *)
EXTENDS BootMem, TLC

Entry(base, length, type) == [base_addr |-> base, length |-> length, type |-> type]

Maps == {<<Entry(0, 10, 1), Entry(10, 6, 2), Entry(16, 80, 1)>>,
         <<Entry(0, 9, 1), Entry(13, 75, 1)>>,
         <<Entry(0, 3, 2), Entry(3, 25, 1), Entry(28, 20, 3)>>}

Tags == {<<"mmap", "acpi1">>, <<"acpi2", "other", "mmap", "acpi1">>, <<"acpi1">>, <<"mmap">>}

(* Paging structures: a PML4 without a table below it; a PDPT one page away *)
(* from the PML4, with an empty entry and a large page; and all four levels,*)
(* not in the order of their addresses.                                     *)
Entries(addrs, large) == {[addr |-> a, large |-> large] : a \in addrs}

OneTable == [pml4t |-> 28, entries |-> 28 :> Entries({0}, FALSE) \cup Entries({40}, TRUE)]

TwoTables == [pml4t |-> 12,
              entries |-> 12 :> Entries({4}, FALSE) @@ 4 :> Entries({0}, FALSE) \cup Entries({64}, TRUE)]

AllTables == [pml4t |-> 52,
              entries |-> 52 :> Entries({44}, FALSE) @@ 44 :> Entries({48}, FALSE)
                          @@ 48 :> Entries({60}, FALSE) \cup Entries({0}, TRUE)]

AllMachines(kernels, pagings, maps, stacks) ==
  {m \in [mmap : Maps, kernel : kernels, paging : pagings, mapAt : maps, stack : stacks] :
     Apart(m)}

(* Areas that begin on page boundaries.                                     *)
Aligned ==
  AllMachines({Area(4, 7), Area(16, 26), Area(20, 22)}, {OneTable, TwoTables},
              {Area(32, 35), Area(4, 8)}, {Area(36, 40), Area(24, 28), Area(8, 12)})

(* The memory map, which the boot loader places, begins inside a page; it   *)
(* may end in that page, and the stack of free pages may follow it.         *)
Unaligned ==
  AllMachines({Area(16, 26)}, {OneTable, AllTables}, {Area(33, 36), Area(41, 43)}, {Area(36, 40)})

All == Aligned \cup Unaligned
=============================================================================
