------------------------------- MODULE MCAcpi -------------------------------
(* Pages of four bytes.  A table inside its page, one that ends in the next *)
(* page, one of three pages that the first mapping cannot hold, one with a  *)
(* bad checksum.  Two of them have the signature that is looked for.        *)
EXTENDS Acpi

Table(a, len, ok, s) == [addr |-> a, length |-> len, valid |-> ok, sig |-> s]

MCTables == {Table(4, 4, TRUE, "APIC"), Table(11, 4, TRUE, "FACP"),
             Table(17, 7, TRUE, "APIC"), Table(23, 6, TRUE, "SSDT"),
             Table(32, 3, FALSE, "APIC")}

MCRoots == {Table(36, 4, TRUE, "RSDT"), Table(43, 6, TRUE, "XSDT"),
            Table(52, 4, FALSE, "RSDT")}
=============================================================================
