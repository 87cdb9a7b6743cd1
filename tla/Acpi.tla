-------------------------------- MODULE Acpi --------------------------------
(***************************************************************************)
(* The ACPI tables (acpi.c) seen through kern_vmm.  A table lies anywhere   *)
(* in physical memory: it is mapped to be looked at, mapped again when two  *)
(* pages do not hold it, and unmapped when it is not the one asked for.     *)
(* Every call of map_memory and free_pages is one step, which is what       *)
(* RangeMap promises, and other users of kern_vmm act between the steps.    *)
(***************************************************************************)
EXTENDS RangeMap, Sequences, FiniteSets

CONSTANTS PageSize,   \* 4096
          Tables,     \* the tables a machine may have: [addr, length, valid, sig]
          Roots,      \* the RSDTs and XSDTs a machine may have
          MaxTables,  \* bound: tables the RSDT lists
          MaxCalls    \* bound: calls of acpi_get_table

ASSUME AcpiAssumption ==
  /\ PageSize \in Nat \ {0} /\ MaxTables \in Nat /\ MaxCalls \in Nat
  /\ \A t \in Tables \cup Roots : t.addr \in Nat /\ t.length \in Nat /\ t.valid \in BOOLEAN
  /\ \A t \in Tables : t.sig # "init"

VARIABLES fw,      \* the firmware's tables: [root, entries]
          pc,      \* where _mmap_table or its caller is
          call,    \* "init" in acpi_init, the signature in acpi_get_table
          i,       \* the loop counter of acpi_get_table
          cur,     \* the mapping _mmap_table works on; empty for NULL
          rsdt,    \* _rsdt; empty for NULL
          found,   \* the mappings acpi_get_table has returned
          others,  \* history: where the other users' ranges start
          calls    \* bound

own == <<fw, pc, call, i, cur, rsdt, found, calls>>

acpiVars == <<tree, others, own>>

(* A pointer into kern_vmm's region: n pages from page at show table t.     *)
Mapping(a, n, t) == [at |-> a, n |-> n, table |-> t]

Offset(t) == t.addr % PageSize

Target == IF call = "init" THEN fw.root ELSE fw.entries[i]

-----------------------------------------------------------------------------
AcpiInit == /\ Init
            /\ fw \in [root : Roots,
                       entries : UNION {[1 .. n -> Tables] : n \in 0 .. MaxTables}]
            /\ pc = "map" /\ call = "init" /\ i = 1
            /\ cur = {} /\ rsdt = {} /\ found = {} /\ calls = 0 /\ others = {}

(* map_memory of n pages.  A NULL result is not tested: what follows reads  *)
(* whatever low memory holds, and the model ends.                           *)
MapMemory(n, then) ==
  /\ \/ \E a \in avl_min_size(tree, n) :
          /\ tree' = alloc_virt(tree, a, n)
          /\ cur' = {Mapping(a, n, Target)}
          /\ pc' = then
     \/ /\ avl_min_size(tree, n) = {}
        /\ pc' = "lost"
        /\ UNCHANGED <<tree, cur>>
  /\ UNCHANGED <<fw, call, i, rsdt, found, calls, others>>

(* _mmap_table, the first mapping: two pages, whatever the table needs.     *)
MapTable == pc = "map" /\ MapMemory(2, "check")

(* _validate_checksum reads length bytes through that mapping: bytes behind *)
(* it are another mapping's, so that any sum may result, or a page fault.   *)
ReadsPast(t) == Offset(t) + t.length > 2 * PageSize

Checksums(t) == IF ReadsPast(t) THEN BOOLEAN ELSE {t.valid}

(* A mutation of FreeCur: the pointer outlives its mapping.                 *)
FreeCurDangling == /\ \E m \in cur : Free(m.at)
                   /\ cur' = cur

(* free_pages of the mapping at hand.                                       *)
FreeCur == /\ \E m \in cur : Free(m.at)
           /\ cur' = {}

CheckTable ==
  /\ pc = "check"
  /\ \E m \in cur : \E ok \in Checksums(m.table) :
       \/ ~ok /\ FreeCur /\ pc' = "return"
       \/ ok /\ m.table.length > PageSize - Offset(m.table) /\ FreeCur /\ pc' = "remap"
       \/ /\ ok /\ m.table.length <= PageSize - Offset(m.table)
          /\ pc' = "return"
          /\ UNCHANGED <<tree, cur>>
  /\ UNCHANGED <<fw, call, i, rsdt, found, calls, others>>

CheckFaults ==
  /\ pc = "check"
  /\ \E m \in cur : ReadsPast(m.table)
  /\ pc' = "lost"
  /\ UNCHANGED <<tree, fw, call, i, cur, rsdt, found, calls, others>>

(* A mutation of PagesOf: the pages of the length alone.                    *)
PagesOfLength(t) == t.length \div PageSize + 1

(* _mmap_table, the second mapping: the length is rounded up to a further   *)
(* page, and one more page makes up for the offset.                         *)
PagesOf(t) ==
  LET len == t.length + (PageSize - (t.length % PageSize))
  IN  len \div PageSize + 1

RemapTable == pc = "remap" /\ MapMemory(PagesOf(Target), "return")

-----------------------------------------------------------------------------
(* acpi_init, the rest.                                                     *)
acpi_init == /\ pc = "return" /\ call = "init"
             /\ rsdt' = cur /\ cur' = {} /\ pc' = "idle"
             /\ UNCHANGED <<tree, fw, call, i, found, calls, others>>

(* acpi_get_table, up to the first _mmap_table.                             *)
acpi_get_table(signature) ==
  /\ pc = "idle" /\ rsdt # {} /\ calls < MaxCalls
  /\ call' = signature /\ i' = 1 /\ calls' = calls + 1
  /\ pc' = IF fw.entries = << >> THEN "idle" ELSE "map"
  /\ UNCHANGED <<tree, fw, cur, rsdt, found, others>>

(* _is_table holds: the mapping is the caller's.                            *)
ReturnTable ==
  /\ pc = "return" /\ call # "init"
  /\ \E m \in cur : m.table.sig = call
  /\ found' = found \cup cur /\ cur' = {} /\ pc' = "idle"
  /\ UNCHANGED <<tree, fw, call, i, rsdt, calls, others>>

(* A mutation of NextTable: the mapping is not undone.                      *)
NextTableMapped ==
  /\ pc = "return" /\ call # "init"
  /\ \A m \in cur : m.table.sig # call
  /\ cur' = {} /\ i' = i + 1
  /\ pc' = IF i < Len(fw.entries) THEN "map" ELSE "idle"
  /\ UNCHANGED <<tree, fw, call, rsdt, found, calls, others>>

(* A mutation of NextTable: the last entry is not looked at.                *)
NextTableShort ==
  /\ pc = "return" /\ call # "init"
  /\ \A m \in cur : m.table.sig # call
  /\ IF cur = {} THEN UNCHANGED <<tree, cur>> ELSE FreeCur
  /\ i' = i + 1
  /\ pc' = IF i + 1 < Len(fw.entries) THEN "map" ELSE "idle"
  /\ UNCHANGED <<fw, call, rsdt, found, calls, others>>

(* _is_table fails, for a NULL too (it reads the bytes at address 0, which  *)
(* are no signature): _unmap_table, and the next entry if there is one.     *)
(* free_pages(NULL) finds no range and does nothing.                        *)
NextTable ==
  /\ pc = "return" /\ call # "init"
  /\ \A m \in cur : m.table.sig # call
  /\ IF cur = {} THEN UNCHANGED <<tree, cur>> ELSE FreeCur
  /\ i' = i + 1
  /\ pc' = IF i < Len(fw.entries) THEN "map" ELSE "idle"
  /\ UNCHANGED <<fw, call, rsdt, found, calls, others>>

-----------------------------------------------------------------------------
(* The heap and the processors' stacks: an allocation, or a release of what *)
(* they have allocated.                                                     *)
OthersAlloc == /\ \E n \in 1 .. NPages : \E a \in avl_min_size(tree, n) :
                    tree' = alloc_virt(tree, a, n) /\ others' = others \cup {a}
               /\ UNCHANGED own

OthersFree == /\ \E a \in others : Free(a) /\ others' = others \ {a}
              /\ UNCHANGED own

AcpiNext == \/ MapTable \/ CheckTable \/ CheckFaults \/ RemapTable
            \/ acpi_init \/ ReturnTable \/ NextTable
            \/ OthersAlloc \/ OthersFree
            \/ \E t \in Tables : acpi_get_table(t.sig)

AcpiSpec == AcpiInit /\ [][AcpiNext]_acpiVars

-----------------------------------------------------------------------------
(* The mappings acpi.c holds or has returned.                                *)
Held == cur \cup rsdt \cup found

(* Whatever the other users of kern_vmm do, the pages behind each pointer   *)
(* acpi.c holds or has returned stay allocated, in one range, to it alone.  *)
MappingsKept ==
  /\ \A m \in Held : m.at \in DOMAIN tree /\ tree[m.at] = Node(m.n, 1)
  /\ \A m \in Held : m.at \notin others
  /\ \A m, o \in Held : m.at = o.at => m = o

(* acpi.c gives back every mapping it does not return: each allocated range *)
(* belongs to a pointer it holds or to another user, on the paths through a *)
(* bad checksum and a second mapping too.                                   *)
NothingLeaked ==
  \A a \in DOMAIN tree :
    tree[a].allocated = 1 => a \in others \/ \E m \in Held : m.at = a

(* The pages _mmap_table ends up with hold the whole table, wherever in its *)
(* first page the table starts: the RSDT that acpi_get_table walks and the  *)
(* tables it returns can be read to their ends.                             *)
TablesCovered ==
  \A m \in rsdt \cup found : Offset(m.table) + m.table.length <= m.n * PageSize

(* acpi_get_table answers with the first table the RSDT lists that has the  *)
(* signature and a good checksum, and with NULL when there is none (as long *)
(* as checksums are computed inside the mapping).                           *)
Answers(t) == t.valid /\ t.sig = call

FirstAnswer == {fw.entries[k] : k \in {k \in DOMAIN fw.entries :
                  /\ Answers(fw.entries[k])
                  /\ \A j \in 1 .. k - 1 : ~Answers(fw.entries[j])}}

Readable == \A k \in DOMAIN fw.entries : ~ReadsPast(fw.entries[k])

GetTableFinds ==
  [][(pc = "return" /\ call # "init" /\ pc' = "idle" /\ Readable)
       => {m.table : m \in found' \ found} = FirstAnswer]_acpiVars
=============================================================================
