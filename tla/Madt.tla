-------------------------------- MODULE Madt --------------------------------
(***************************************************************************)
(* The processors and interrupt controllers of the machine (apic.c): the    *)
(* walk over the MADT, which builds apic_info entry by entry, and what      *)
(* system_main does with it afterwards on the boot processor.  The walk     *)
(* meets the entries in the firmware's order; seen is the table up to the   *)
(* entry it has reached.  Lists are sequences, newest record first.         *)
(***************************************************************************)
EXTENDS Integers, Sequences, FiniteSetsExt

CONSTANTS Entries,      \* the MADT entries a machine may have, type by type
          MaxEntries,   \* bound: entries of one MADT
          HeaderAddr,   \* lapic_addr of the MADT header
          Broadcast,    \* 0xFFFFFFFF: the UID of all processors in an x2APIC NMI entry
          BspId,        \* the APIC ID that CPUID reports on the boot processor
          Ids           \* the values an uninitialised lapic_id may have

VARIABLES apic_info,        \* [lapic, io_apic, irq_gsi_map, nmi_source, lapic_addr]
          global_nmi_lint,  \* the NMI entry for all processors; empty before one
          seen,             \* history: the entries walked over
          supported,        \* CPUID: the processor has x2APIC
          x2apic,           \* IA32_APIC_BASE: the processor is in x2APIC mode
          pc                \* where system_main is

vars == <<apic_info, global_nmi_lint, seen, supported, x2apic, pc>>

AllCpus == 255   \* 0xFF: the UID of all processors in an NMI entry

-----------------------------------------------------------------------------
(* The three words after the header of an x2APIC entry, in the firmware's   *)
(* order: ID, flags, UID.                                                   *)
Words(e) == <<e.id, e.flags, e.uid>>

(* What cases 0 and 9 of apic_parse_madt pass on.  Case 9 takes the words   *)
(* for UID, ID and flags.                                                   *)
UidOf(e)   == IF e.type = "x2lapic" THEN Words(e)[1] ELSE e.uid
IdOf(e)    == IF e.type = "x2lapic" THEN Words(e)[2] ELSE e.id
FlagsOf(e) == IF e.type = "x2lapic" THEN Words(e)[3] ELSE e.flags
ModeOf(e)  == IF e.type = "x2lapic" THEN "x2apic" ELSE "legacy"

(* The bit fields of _local_apic_flags.                                     *)
Enabled(flags)       == flags % 2
OnlineCapable(flags) == (flags \div 2) % 2

(* The record of a processor in the list, as a set of positions.            *)
IndexOfUid(list, uid) == {k \in DOMAIN list : list[k].proc_uid = uid}

NoNmi == [present |-> 0, lint |-> 0]

Nmi(e) == [present |-> 1, lint |-> e.lint]

NewRecord(e, nmi) ==
  [proc_uid |-> UidOf(e), lapic_id |-> IdOf(e), mode |-> ModeOf(e), enabled |-> Enabled(FlagsOf(e)),
   online_capable |-> OnlineCapable(FlagsOf(e)), nmi |-> nmi]

(* A mutation of _register_lapic: a record is made for every entry.         *)
_register_lapic_always(list, e) == <<NewRecord(e, NoNmi)>> \o list

(* A mutation of _register_lapic: a record that an NMI entry has made keeps *)
(* its lapic_id.                                                            *)
_register_lapic_keep(list, e) ==
  LET at == IndexOfUid(list, UidOf(e))
  IN  IF at = {} THEN <<NewRecord(e, NoNmi)>> \o list
      ELSE [list EXCEPT ![Min(at)] = [NewRecord(e, @.nmi) EXCEPT !.lapic_id = list[Min(at)].lapic_id]]

(* _register_lapic: the record of the processor is found or made.           *)
_register_lapic(list, e) ==
  LET at == IndexOfUid(list, UidOf(e))
  IN  IF at = {} THEN <<NewRecord(e, NoNmi)>> \o list
      ELSE [list EXCEPT ![Min(at)] = NewRecord(e, @.nmi)]

(* _set_lapic_nmi_lint for one processor: a record it has to make has only  *)
(* its NMI filled in, the rest is what the heap block held before.          *)
_set_lapic_nmi_lint(list, e) ==
  LET at == IndexOfUid(list, e.uid)
  IN  IF at = {}
      THEN {<<r>> \o list : r \in [proc_uid : {e.uid}, lapic_id : Ids,
                                   mode : {"legacy", "x2apic"}, enabled : {0, 1},
                                   online_capable : {0, 1}, nmi : {Nmi(e)}]}
      ELSE {[list EXCEPT ![Min(at)].nmi = Nmi(e)]}

-----------------------------------------------------------------------------
Init == /\ apic_info = [lapic |-> << >>, io_apic |-> << >>, irq_gsi_map |-> << >>,
                        nmi_source |-> << >>, lapic_addr |-> HeaderAddr]
        /\ global_nmi_lint = << >>
        /\ seen = << >>
        /\ supported \in BOOLEAN
        /\ x2apic = FALSE
        /\ pc = "parse"

(* One turn of the loop of apic_parse_madt, up to its switch.               *)
Walk(e) == /\ pc = "parse" /\ Len(seen) < MaxEntries
           /\ seen' = Append(seen, e)
           /\ UNCHANGED <<supported, x2apic, pc>>

(* Cases 0 and 9.                                                           *)
LapicEntry(e) ==
  /\ Walk(e) /\ e.type \in {"lapic", "x2lapic"}
  /\ apic_info' = [apic_info EXCEPT !.lapic = _register_lapic(@, e)]
  /\ UNCHANGED global_nmi_lint

(* Cases 4 and 10, for one processor and for all of them: UID 0xFF stands   *)
(* for all in both.                                                         *)
NmiEntry(e) ==
  /\ Walk(e) /\ e.type \in {"nmi", "x2nmi"} /\ e.uid # AllCpus
  /\ \E list \in _set_lapic_nmi_lint(apic_info.lapic, e) :
       apic_info' = [apic_info EXCEPT !.lapic = list]
  /\ UNCHANGED global_nmi_lint

GlobalNmiEntry(e) ==
  /\ Walk(e) /\ e.type \in {"nmi", "x2nmi"} /\ e.uid = AllCpus
  /\ global_nmi_lint' = <<Nmi(e)>>
  /\ UNCHANGED apic_info

(* Cases 1, 2, 3 and 5; an entry of another type is skipped.                *)
OtherEntry(e) ==
  /\ Walk(e)
  /\ \/ /\ e.type = "ioapic"       \* _register_ioapic
        /\ apic_info' = [apic_info EXCEPT !.io_apic = <<e>> \o @]
     \/ /\ e.type = "iso"          \* _register_iso
        /\ apic_info' = [apic_info EXCEPT !.irq_gsi_map = <<e>> \o @]
     \/ /\ e.type = "nmi_source"   \* _register_nmi_source
        /\ apic_info' = [apic_info EXCEPT !.nmi_source = <<e>> \o @]
     \/ /\ e.type = "address"
        /\ apic_info' = [apic_info EXCEPT !.lapic_addr = e.addr]
     \/ e.type = "unknown" /\ UNCHANGED apic_info
  /\ UNCHANGED global_nmi_lint

(* The end of apic_parse_madt: an NMI for all processors goes to each one.  *)
ParseEnd ==
  /\ pc = "parse"
  /\ apic_info' =
       IF global_nmi_lint = << >> THEN apic_info
       ELSE [apic_info EXCEPT !.lapic =
               [k \in DOMAIN @ |-> [@[k] EXCEPT !.nmi = global_nmi_lint[1]]]]
  /\ pc' = "x2apic"
  /\ UNCHANGED <<global_nmi_lint, seen, supported, x2apic>>

(* apic_get_current, by the ID of CPUID: the MSR branch is never taken, the *)
(* bit it tests is one of the register number.                              *)
apic_get_current == {k \in DOMAIN apic_info.lapic :
                       /\ apic_info.lapic[k].lapic_id = BspId
                       /\ \A j \in 1 .. k - 1 : apic_info.lapic[j].lapic_id # BspId}

(* apic_enable_x2apic, with at least one record.                            *)
apic_enable_x2apic ==
  /\ pc = "x2apic" /\ apic_info.lapic # << >>
  /\ \/ \E k \in apic_get_current :
          /\ supported
          /\ apic_info' = [apic_info EXCEPT !.lapic[k].mode = "x2apic"]
          /\ x2apic' = TRUE
     \/ /\ apic_get_current = {} \/ ~supported
        /\ UNCHANGED <<apic_info, x2apic>>
  /\ pc' = "start"
  /\ UNCHANGED <<global_nmi_lint, seen, supported>>

(* With no record apic_get_current reads through NULL, and the model ends.  *)
NoRecords == /\ pc = "x2apic" /\ apic_info.lapic = << >>
             /\ pc' = "lost"
             /\ UNCHANGED <<apic_info, global_nmi_lint, seen, supported, x2apic>>

Next == \/ \E e \in Entries : LapicEntry(e) \/ NmiEntry(e) \/ GlobalNmiEntry(e) \/ OtherEntry(e)
        \/ ParseEnd
        \/ apic_enable_x2apic
        \/ NoRecords

Spec == Init /\ [][Next]_vars

-----------------------------------------------------------------------------
(* What the MADT says, read as the firmware means it and without an order   *)
(* of building records: where it names a processor in entries of some       *)
(* types, and where it does so last.                                        *)
NamedAt(uid, types) == {k \in DOMAIN seen : seen[k].type \in types /\ seen[k].uid = uid}

LastAt(uid, types) == {k \in NamedAt(uid, types) : \A j \in NamedAt(uid, types) : j <= k}

NmiOf(uid) ==
  LET global == LastAt(AllCpus, {"nmi"})
      at     == IF global # {} THEN global ELSE LastAt(uid, {"nmi", "x2nmi"})
  IN  IF at = {} THEN {NoNmi} ELSE {Nmi(seen[k]) : k \in at}

Of(type) == {e \in Range(seen) : e.type = type}

Records == Range(apic_info.lapic)

(* A processor with a legacy entry has one record after apic_parse_madt,    *)
(* and it says what the table says last, in whatever order the entries of   *)
(* the processors and of their NMIs come; an NMI for all processors counts  *)
(* for those listed later too.  Left out: the processors whose UID occurs   *)
(* as a word of an x2APIC entry, and tables with an x2APIC NMI entry that   *)
(* names 0xFF or all processors, which the code does not tell apart.        *)
LegacyAsListed ==
  pc = "x2apic" /\ (\A e \in Of("x2nmi") : e.uid \notin {AllCpus, Broadcast}) =>
    \A e \in Of("lapic") : (\A f \in Of("x2lapic") : e.uid \notin {f.id, f.uid}) =>
      \E j \in DOMAIN apic_info.lapic :
        LET r == apic_info.lapic[j]
        IN  /\ IndexOfUid(apic_info.lapic, e.uid) = {j}
            /\ \A k \in LastAt(e.uid, {"lapic"}) :
                 /\ r.lapic_id = seen[k].id /\ r.mode = "legacy"
                 /\ r.enabled = Enabled(seen[k].flags)
                 /\ r.online_capable = OnlineCapable(seen[k].flags)
            /\ r.nmi \in NmiOf(e.uid)

(* The table lists every processor it names, by a legacy entry with an ID   *)
(* of its own, the boot processor among them.                               *)
Plain ==
  /\ Of("x2lapic") = {}
  /\ \A e \in Of("nmi") \cup Of("x2nmi") : e.uid = AllCpus \/ \E f \in Of("lapic") : f.uid = e.uid
  /\ \A e, f \in Of("lapic") :
       \A k \in LastAt(e.uid, {"lapic"}) : \A l \in LastAt(f.uid, {"lapic"}) :
         seen[k].id = seen[l].id => k = l
  /\ \E e \in Of("lapic") : \E k \in LastAt(e.uid, {"lapic"}) : seen[k].id = BspId

(* cpu_send_ipi goes by CPUID alone, to the MSRs or to the memory-mapped    *)
(* registers.  With a plain table the boot processor is in the mode that    *)
(* cpu_send_ipi expects when cpu_start begins, and the record that          *)
(* apic_enable_x2apic marks is that of the boot processor and no other,     *)
(* also where an NMI entry made the record before its ID was known.         *)
ModeRecorded ==
  pc = "start" /\ Plain =>
    /\ x2apic = supported
    /\ \A e \in Of("lapic") : \A k \in LastAt(e.uid, {"lapic"}) : \E r \in Records :
         /\ r.proc_uid = e.uid /\ r.lapic_id = seen[k].id
         /\ r.mode = IF supported /\ seen[k].id = BspId THEN "x2apic" ELSE "legacy"
=============================================================================
