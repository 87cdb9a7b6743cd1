--------------------------------- MODULE Gdt ---------------------------------
(***************************************************************************)
(* The kernel's descriptor table (gdt/gdt.c) on the kernel heap: a table    *)
(* that doubles when it is full, and one TSS per processor, allocated and   *)
(* described in the table by gdt_add_tss.  A descriptor is what it points   *)
(* at: 0 for a segment, the block for a TSS.                                *)
(***************************************************************************)
EXTENDS HeapMem

CONSTANTS EntrySize,   \* GDT_ENTRY_SIZE
          FirstSize,   \* the initial _gdt_allocated_size
          TssSize,     \* sizeof (struct _tss)
          MaxTss       \* bound: calls of gdt_add_tss

VARIABLES heap,   \* the kernel heap
          gdt,    \* [base, entries, allocated_size, table]
          gdtr,   \* what _reload_gdt gave the processor: [base, limit]
          tss     \* the TSS blocks returned so far

vars == <<heap, gdt, gdtr, tss>>

(* The state that _add_entry changes together.                              *)
Machine == [heap |-> heap, gdt |-> gdt, gdtr |-> gdtr]

(* _add_entry, table full: the table moves to a block of twice the size,    *)
(* the processor is told, the old block is released.                        *)
Grow(m) ==
  LET size == 2 * m.gdt.allocated_size
      new  == malloc(m.heap, size)
  IN  [heap |-> free(new.heap, m.gdt.base),
       gdt  |-> [m.gdt EXCEPT !.base = new.addr, !.allocated_size = size],
       gdtr |-> [base |-> new.addr, limit |-> (m.gdt.entries + 1) * EntrySize]]

(* _add_entry.  The limits used here never make it return early.            *)
_add_entry(m, e) ==
  LET full == m.gdt.allocated_size \div EntrySize = m.gdt.entries
      m2   == IF full THEN Grow(m) ELSE m
  IN  [m2 EXCEPT !.gdt.entries = @ + 1, !.gdt.table = Append(@, e)]

SetMachine(m) == heap' = m.heap /\ gdt' = m.gdt /\ gdtr' = m.gdtr

-----------------------------------------------------------------------------
Init == /\ heap = EmptyHeap
        /\ gdt = [base |-> NULL, entries |-> 0, allocated_size |-> FirstSize,
                  table |-> << >>]
        /\ gdtr = [base |-> NULL, limit |-> 0]
        /\ tss = << >>

(* gdt_init: null, kernel data, kernel code, user data, user code.          *)
gdt_init ==
  LET first == malloc(heap, FirstSize)
      m     == FoldLeft(_add_entry, [heap |-> first.heap, gdtr |-> gdtr,
                                     gdt |-> [gdt EXCEPT !.base = first.addr]],
                        <<0, 0, 0, 0, 0>>)
  IN  /\ gdt.base = NULL
      /\ SetMachine([m EXCEPT !.gdtr = [base |-> m.gdt.base,
                                        limit |-> m.gdt.entries * EntrySize]])
      /\ UNCHANGED tss

(* gdt_add_tss: the block, then its descriptor.                             *)
gdt_add_tss ==
  LET r == malloc(heap, TssSize)
  IN  /\ gdt.base # NULL /\ Len(tss) < MaxTss
      /\ tss' = Append(tss, r.addr)
      /\ SetMachine(_add_entry([Machine EXCEPT !.heap = r.heap], r.addr))

Next == gdt_init \/ gdt_add_tss

Spec == Init /\ [][Next]_vars

-----------------------------------------------------------------------------
(* The bytes behind the header of block b that its owner uses.              *)
Used(b, size) == b + Hdr .. b + Hdr + size - 1

(* "This function creates a TSS for a CPU": each TSS that gdt_add_tss has   *)
(* returned is memory of its own, apart from the table the processor uses   *)
(* and from the other TSSs.                                                 *)
TssApart ==
  \A i \in DOMAIN tss :
    /\ Used(tss[i], TssSize) \cap Used(gdt.base, gdt.allocated_size) = {}
    /\ \A j \in DOMAIN tss : i # j => tss[i] # tss[j]
=============================================================================
