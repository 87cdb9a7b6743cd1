------------------------------ MODULE MCLoader ------------------------------
(* Two-byte pages, tables of four entries, 128 bytes below "4 GiB".  The     *)
(* loader with its tables ends at byte 28.  Kernels of one or two segments  *)
(* in either order, with and without bytes that are not in the file; the    *)
(* module and the multiboot structure below or above the first free memory; *)
(* memory maps with holes, odd boundaries, an entry above 4 GiB and one     *)
(* that starts too far below the module for an int.                         *)
EXTENDS Loader

Kernel == 2 * Radix ^ 3 * PageSize

Seg(type, offset, page, count, filesz, exec) ==
  [type |-> type, offset |-> offset, vaddr |-> Kernel + page * PageSize,
   memsz |-> count * PageSize, filesz |-> filesz, exec |-> exec]

Elfs == {<<Seg(1, 1, 0, 3, 5, TRUE)>>,
         <<Seg(1, 1, 0, 2, 4, TRUE), Seg(1, 5, 3, 2, 1, FALSE)>>,
         <<Seg(1, 3, 4, 2, 3, FALSE), Seg(0, 0, 0, 0, 0, FALSE), Seg(1, 1, 0, 1, 2, TRUE)>>}

Range1(a, b) == [base_addr |-> a, length |-> b - a, type |-> 1]
Range2(a, b) == [base_addr |-> a, length |-> b - a, type |-> 2]

Maps == {<<Range1(2, 104), Range1(104, 128)>>,
         <<Range1(0, 3), Range2(3, 4), Range1(4, 64)>>,
         <<Range1(2, 38), Range2(38, 41), Range1(41, 64)>>,
         <<Range1(4, 44), Range1(44, 50), Range1(136, 150)>>,
         <<Range1(51, 64), Range1(2, 48)>>,
         <<Range1(2, 39), Range1(39, 45), Range1(46, 60)>>}

FileEnd(elf) == Max({elf[s].offset + elf[s].filesz : s \in DOMAIN elf})

Usable(m) == \A a \in m.mod_start .. m.mod_end - 1 :
               \E e \in Range(m.mmap) : e.type = 1 /\ a >= e.base_addr /\ a < EndOfEntry(e)

MCMachines ==
  {m \in {[mb_end |-> mb, mod_start |-> start, mod_end |-> start + FileEnd(elf),
           tags |-> tags, mmap |-> map, elf |-> elf, valid |-> ok, long_mode |-> long] :
            mb \in {2, 31}, start \in {31, 36, 46, 54, 90}, elf \in Elfs, map \in Maps,
            tags \in {<<"module", "mmap">>, <<"mmap", "other", "module">>},
            ok \in BOOLEAN, long \in BOOLEAN} : Usable(m)}

MCVmmPages == 2 * Radix ^ 3 + 2 * Radix .. 2 * Radix ^ 3 + 4 * Radix - 1
=============================================================================
