------------------------------- MODULE MCMadt -------------------------------
(* Two processors with legacy entries, one of them listed twice, and one    *)
(* with an x2APIC entry; NMI entries for one processor, for one that is not *)
(* listed and for all; one of each remaining type.                          *)
EXTENDS Madt

Lapic(uid, id, flags) == [type |-> "lapic", uid |-> uid, id |-> id, flags |-> flags]

X2Lapic(uid, id, flags) == [type |-> "x2lapic", uid |-> uid, id |-> id, flags |-> flags]

LapicNmi(type, uid, lint) == [type |-> type, uid |-> uid, lint |-> lint]

MCEntries == {Lapic(0, 1, 1), Lapic(1, 0, 1), Lapic(1, 0, 2), X2Lapic(2, 4, 1), X2Lapic(3, 1, 3),
              LapicNmi("nmi", 0, 1), LapicNmi("nmi", AllCpus, 0), LapicNmi("x2nmi", 1, 0),
              LapicNmi("x2nmi", Broadcast, 1),
              [type |-> "ioapic", id |-> 0, addr |-> 1], [type |-> "iso", irq |-> 0, gsi |-> 2],
              [type |-> "nmi_source", gsi |-> 3], [type |-> "address", addr |-> 2],
              [type |-> "unknown"]}
=============================================================================
