------------------------------ MODULE CpuProofs ------------------------------
(***************************************************************************)
(* How the kernel finds its processors and starts one.  What the walk over  *)
(* the MADT builds, for every table: one record per processor, with what    *)
(* the code reads last of it.  Then the handshake of cpu_start with the    *)
(* payload, for every page it may be in.                                    *)
(***************************************************************************)
EXTENDS Madt, ApStart, WellFoundedInduction, TLAPS

LapicTypes == {"lapic", "x2lapic"}
NmiTypes   == {"nmi", "x2nmi"}

OfType(types) == {e \in Entries : e.type \in types}

NmiState == [present : {0, 1}, lint : {0} \cup {e.lint : e \in OfType(NmiTypes)}]

Flags == {0, 1} \cup {Enabled(FlagsOf(e)) : e \in OfType(LapicTypes)}
                \cup {OnlineCapable(FlagsOf(e)) : e \in OfType(LapicTypes)}

Record == [proc_uid : {UidOf(e) : e \in OfType(LapicTypes \cup NmiTypes)},
           lapic_id : Ids \cup {IdOf(e) : e \in OfType(LapicTypes)},
           mode : {"legacy", "x2apic"},
           enabled : Flags, online_capable : Flags,
           nmi : NmiState]

Unique(list) == \A j, k \in DOMAIN list : list[j].proc_uid = list[k].proc_uid => j = k

(* new is list, in which the record of uid has been replaced or added.      *)
Replaces(new, list, uid) ==
  /\ new \in Seq(Record) /\ Unique(new)
  /\ \E j \in DOMAIN new : new[j].proc_uid = uid
  /\ \A i \in DOMAIN list : \E j \in DOMAIN new : new[j].proc_uid = list[i].proc_uid
  /\ \A j \in DOMAIN new : new[j].proc_uid # uid => \E i \in DOMAIN list : list[i] = new[j]

(* What a record says of an entry of its processor.                         *)
Says(r, e) ==
  /\ r.lapic_id = IdOf(e) /\ r.mode = ModeOf(e)
  /\ r.enabled = Enabled(FlagsOf(e)) /\ r.online_capable = OnlineCapable(FlagsOf(e))

SaysSame(r, q) ==
  /\ r.lapic_id = q.lapic_id /\ r.mode = q.mode
  /\ r.enabled = q.enabled /\ r.online_capable = q.online_capable

(* The one record of uid in list.                                           *)
LEMMA OneIndex ==
  ASSUME NEW list \in Seq(Record), Unique(list), NEW uid, NEW k \in DOMAIN list,
         list[k].proc_uid = uid
  PROVE  IndexOfUid(list, uid) = {k} /\ Min(IndexOfUid(list, uid)) = k
<1>1. IndexOfUid(list, uid) = {k}
  BY DEF IndexOfUid, Unique
<1>2. k \in Int /\ k <= k
  OBVIOUS
<1> QED BY <1>1, <1>2 DEF Min

(* A record added for a processor that had none.                            *)
LEMMA AddRecord ==
  ASSUME NEW list \in Seq(Record), Unique(list), NEW r \in Record,
         IndexOfUid(list, r.proc_uid) = {}
  PROVE  /\ Replaces(<<r>> \o list, list, r.proc_uid)
         /\ \A j \in DOMAIN (<<r>> \o list) :
              (<<r>> \o list)[j].proc_uid = r.proc_uid => (<<r>> \o list)[j] = r
<1> DEFINE new == <<r>> \o list
<1>1. /\ new \in Seq(Record) /\ DOMAIN new = 1 .. Len(list) + 1 /\ DOMAIN list = 1 .. Len(list)
      /\ new[1] = r /\ \A j \in 2 .. Len(list) + 1 : new[j] = list[j - 1]
  OBVIOUS
<1>2. \A i \in DOMAIN list : list[i].proc_uid # r.proc_uid
  BY DEF IndexOfUid
<1>3. \A i \in DOMAIN list : i + 1 \in DOMAIN new /\ new[i + 1] = list[i]
  BY <1>1
<1>4. \A j \in DOMAIN new : j # 1 => j - 1 \in DOMAIN list /\ new[j] = list[j - 1]
  BY <1>1
<1>5. 1 \in DOMAIN new
  BY <1>1
<1> HIDE DEF new
<1>6. Unique(new)
  <2> SUFFICES ASSUME NEW j \in DOMAIN new, NEW k \in DOMAIN new, new[j].proc_uid = new[k].proc_uid
               PROVE  j = k
    BY DEF Unique
  <2>1. CASE j = 1 \/ k = 1
    BY <2>1, <1>1, <1>2, <1>4
  <2>2. CASE j # 1 /\ k # 1
    <3>1. j - 1 = k - 1
      BY <2>2, <1>4 DEF Unique
    <3> QED BY <3>1, <1>1
  <2> QED BY <2>1, <2>2
<1>7. \A i \in DOMAIN list : \E j \in DOMAIN new : new[j].proc_uid = list[i].proc_uid
  BY Zenon, <1>3
<1>8. \A j \in DOMAIN new : new[j].proc_uid # r.proc_uid => \E i \in DOMAIN list : list[i] = new[j]
  BY <1>1, <1>4
<1>9. \A j \in DOMAIN new : new[j].proc_uid = r.proc_uid => new[j] = r
  BY <1>1, <1>2, <1>4
<1>10. Replaces(new, list, r.proc_uid)
  BY Zenon, <1>1, <1>5, <1>6, <1>7, <1>8 DEF Replaces
<1> QED BY Zenon, <1>9, <1>10 DEF new

(* A record of a processor overwritten in place.                            *)
LEMMA ChangeRecord ==
  ASSUME NEW list \in Seq(Record), Unique(list), NEW r \in Record,
         NEW k \in DOMAIN list, list[k].proc_uid = r.proc_uid
  PROVE  /\ Replaces([list EXCEPT ![k] = r], list, r.proc_uid)
         /\ \A j \in DOMAIN list :
              [list EXCEPT ![k] = r][j].proc_uid = r.proc_uid => [list EXCEPT ![k] = r][j] = r
<1> DEFINE new == [list EXCEPT ![k] = r]
<1>1. /\ new \in Seq(Record) /\ DOMAIN new = DOMAIN list /\ new[k] = r
      /\ \A j \in DOMAIN list : j # k => new[j] = list[j]
  OBVIOUS
<1> HIDE DEF new
<1> QED BY <1>1 DEF Replaces, Unique, new

(* _register_lapic leaves one record of the processor, with what the entry  *)
(* says and the NMI that the record had, if there was one.                  *)
LEMMA RegisterLapic ==
  ASSUME NEW list \in Seq(Record), Unique(list), NEW e \in Entries, e.type \in LapicTypes,
         NEW new, new = _register_lapic(list, e)
  PROVE  /\ Replaces(new, list, UidOf(e))
         /\ \A j \in DOMAIN new : new[j].proc_uid = UidOf(e) =>
              /\ Says(new[j], e)
              /\ \/ \E i \in DOMAIN list : list[i].proc_uid = UidOf(e) /\ new[j].nmi = list[i].nmi
                 \/ new[j].nmi = NoNmi /\ \A i \in DOMAIN list : list[i].proc_uid # UidOf(e)
<1> DEFINE Rec(nmi) == NewRecord(e, nmi)
<1>1. NoNmi \in NmiState
  BY DEF NoNmi, NmiState
<1>2. ModeOf(e) \in {"legacy", "x2apic"}
  BY DEF ModeOf
<1>3. \A nmi \in NmiState :
        /\ Rec(nmi) \in Record /\ Rec(nmi).proc_uid = UidOf(e) /\ Rec(nmi).nmi = nmi
        /\ Says(Rec(nmi), e)
  BY Zenon, <1>2 DEF Record, OfType, NewRecord, Flags, Says
<1> HIDE DEF Rec
<1>4. CASE IndexOfUid(list, UidOf(e)) = {}
  <2>1. new = <<Rec(NoNmi)>> \o list
    BY <1>4 DEF _register_lapic, Rec
  <2>2. Rec(NoNmi) \in Record /\ Rec(NoNmi).proc_uid = UidOf(e)
    BY <1>1, <1>3
  <2>3. /\ Replaces(new, list, UidOf(e))
        /\ \A j \in DOMAIN new : new[j].proc_uid = UidOf(e) => new[j] = Rec(NoNmi)
    <3> QED BY <2>1, <2>2, <1>4, AddRecord
  <2>4. \A i \in DOMAIN list : list[i].proc_uid # UidOf(e)
    BY <1>4 DEF IndexOfUid
  <2> QED BY Zenon, <1>1, <1>3, <2>3, <2>4
<1>5. CASE IndexOfUid(list, UidOf(e)) # {}
  <2>1. PICK k \in DOMAIN list : list[k].proc_uid = UidOf(e)
    BY <1>5 DEF IndexOfUid
  <2>2. Min(IndexOfUid(list, UidOf(e))) = k
    BY <2>1, OneIndex
  <2>3. new = [list EXCEPT ![k] = Rec(list[k].nmi)]
    BY <1>5, <2>1, <2>2 DEF _register_lapic, Rec
  <2>8. list[k] \in Record
    OBVIOUS
  <2>4. list[k].nmi \in NmiState
    BY <2>8 DEF Record
  <2>5. Rec(list[k].nmi) \in Record /\ Rec(list[k].nmi).proc_uid = UidOf(e)
    BY <2>4, <1>3
  <2>6. /\ Replaces(new, list, UidOf(e))
        /\ \A j \in DOMAIN list : new[j].proc_uid = UidOf(e) => new[j] = Rec(list[k].nmi)
    <3>1. PICK r \in Record : r = Rec(list[k].nmi) /\ r.proc_uid = UidOf(e)
      BY <2>5
    <3>2. new = [list EXCEPT ![k] = r]
      BY <3>1, <2>3
    <3>3. /\ Replaces([list EXCEPT ![k] = r], list, r.proc_uid)
          /\ \A j \in DOMAIN list : [list EXCEPT ![k] = r][j].proc_uid = r.proc_uid
                                     => [list EXCEPT ![k] = r][j] = r
      BY <2>1, <3>1, ChangeRecord
    <3> QED BY <3>1, <3>2, <3>3
  <2>7. DOMAIN new = DOMAIN list
    BY <2>3
  <2> QED BY ZenonT(60), <1>3, <2>1, <2>4, <2>6, <2>7
<1> QED BY <1>4, <1>5

(* _set_lapic_nmi_lint leaves one record of the processor, with the NMI and *)
(* with what it said before, if there was one.                              *)
LEMMA SetNmi ==
  ASSUME NEW list \in Seq(Record), Unique(list), NEW e \in Entries, e.type \in NmiTypes,
         NEW new \in _set_lapic_nmi_lint(list, e)
  PROVE  /\ Replaces(new, list, UidOf(e))
         /\ \A j \in DOMAIN new : new[j].proc_uid = UidOf(e) =>
              /\ new[j].nmi = Nmi(e)
              /\ \/ \A i \in DOMAIN list : list[i].proc_uid # UidOf(e)
                 \/ \E i \in DOMAIN list :
                      list[i].proc_uid = UidOf(e) /\ SaysSame(new[j], list[i])
<1>1. Nmi(e) \in NmiState
  BY DEF Nmi, NmiState, OfType
<1>4. UidOf(e) = e.uid
  BY DEF UidOf, NmiTypes
<1>2. CASE IndexOfUid(list, UidOf(e)) = {}
  <2>1. PICK r \in [proc_uid : {UidOf(e)}, lapic_id : Ids, mode : {"legacy", "x2apic"},
                    enabled : {0, 1}, online_capable : {0, 1}, nmi : {Nmi(e)}] : new = <<r>> \o list
    BY Zenon, <1>2, <1>4 DEF _set_lapic_nmi_lint
  <2>2. r \in Record /\ r.proc_uid = UidOf(e) /\ r.nmi = Nmi(e)
    BY <1>1 DEF Record, OfType, Flags
  <2>3. /\ Replaces(new, list, UidOf(e))
        /\ \A j \in DOMAIN new : new[j].proc_uid = UidOf(e) => new[j] = r
    BY <2>1, <2>2, <1>2, AddRecord
  <2> QED BY <2>2, <2>3, <1>2 DEF IndexOfUid
<1>3. CASE IndexOfUid(list, UidOf(e)) # {}
  <2>1. PICK k \in DOMAIN list : list[k].proc_uid = UidOf(e)
    BY <1>3 DEF IndexOfUid
  <2>2. Min(IndexOfUid(list, UidOf(e))) = k
    BY <2>1, OneIndex
  <2>3. PICK r : r = [list[k] EXCEPT !.nmi = Nmi(e)]
    BY Zenon
  <2>4. new = [list EXCEPT ![k] = r]
    BY <1>3, <1>4, <2>1, <2>2, <2>3 DEF _set_lapic_nmi_lint
  <2>5. /\ r \in Record /\ r.proc_uid = UidOf(e) /\ r.nmi = Nmi(e)
        /\ SaysSame(r, list[k])
    <3>1. list[k] \in Record
      OBVIOUS
    <3> QED BY Zenon, <3>1, <2>1, <2>3, <1>1 DEF Record, SaysSame
  <2>6. /\ Replaces(new, list, UidOf(e))
        /\ \A j \in DOMAIN list : new[j].proc_uid = UidOf(e) => new[j] = r
    <3>1. /\ Replaces([list EXCEPT ![k] = r], list, r.proc_uid)
          /\ \A j \in DOMAIN list : [list EXCEPT ![k] = r][j].proc_uid = r.proc_uid
                                     => [list EXCEPT ![k] = r][j] = r
      BY <2>1, <2>5, ChangeRecord
    <3> QED BY <2>4, <2>5, <3>1
  <2>7. DOMAIN new = DOMAIN list
    BY <2>4
  <2> QED BY <2>1, <2>5, <2>6, <2>7
<1> QED BY <1>2, <1>3

-----------------------------------------------------------------------------
(* What the MADT says, with the words of its entries as the code reads them. *)
ReadAt(uid, types) == {k \in DOMAIN seen : seen[k].type \in types /\ UidOf(seen[k]) = uid}

LastRead(uid, types) == {k \in ReadAt(uid, types) : \A j \in ReadAt(uid, types) : j <= k}

NamesCpu(e) == e.type \in LapicTypes \/ (e.type \in NmiTypes /\ UidOf(e) # AllCpus)

(* Where a processor is named last, after one more entry.                   *)
LEMMA WalkOn ==
  ASSUME seen \in Seq(Entries), NEW e \in Entries, seen' = Append(seen, e)
  PROVE  /\ seen' \in Seq(Entries)
         /\ \A k \in DOMAIN seen : k \in DOMAIN seen' /\ seen'[k] = seen[k]
         /\ \A k \in DOMAIN seen' : k \in DOMAIN seen \/ seen'[k] = e
         /\ \E k \in DOMAIN seen' : seen'[k] = e
         /\ \A uid, types :
              IF e.type \in types /\ UidOf(e) = uid
              THEN /\ LastRead(uid, types)' # {}
                   /\ \A k \in LastRead(uid, types)' : seen'[k] = e
              ELSE LastRead(uid, types)' = LastRead(uid, types)
<1> DEFINE n == Len(seen) + 1
<1>1. /\ seen' \in Seq(Entries) /\ DOMAIN seen = 1 .. n - 1 /\ DOMAIN seen' = 1 .. n
      /\ n \in Nat \ {0} /\ seen'[n] = e /\ \A k \in 1 .. n - 1 : seen'[k] = seen[k]
  OBVIOUS
<1> HIDE DEF n
<1>2. ASSUME NEW uid, NEW types, e.type \in types /\ UidOf(e) = uid
      PROVE  /\ LastRead(uid, types)' # {}
             /\ \A k \in LastRead(uid, types)' : seen'[k] = e
  <2>1. n \in ReadAt(uid, types)'
    BY <1>1, <1>2 DEF ReadAt
  <2>2. \A j \in ReadAt(uid, types)' : j \in 1 .. n /\ j <= n
    BY <1>1 DEF ReadAt
  <2>3. n \in LastRead(uid, types)'
    BY Zenon, <2>1, <2>2 DEF LastRead
  <2>4. ASSUME NEW k \in LastRead(uid, types)' PROVE k = n
    <3>1. k \in 1 .. n /\ n <= k
      BY <2>1, <2>2, <2>4 DEF LastRead
    <3> QED BY <3>1, <1>1
  <2> QED BY <1>1, <2>3, <2>4
<1>3. ASSUME NEW uid, NEW types, ~(e.type \in types /\ UidOf(e) = uid)
      PROVE  LastRead(uid, types)' = LastRead(uid, types)
  <2>1. ReadAt(uid, types)' = ReadAt(uid, types)
    BY <1>1, <1>3 DEF ReadAt
  <2> QED BY <2>1 DEF LastRead
<1>4. \A uid, types :
        IF e.type \in types /\ UidOf(e) = uid
        THEN /\ LastRead(uid, types)' # {}
             /\ \A k \in LastRead(uid, types)' : seen'[k] = e
        ELSE LastRead(uid, types)' = LastRead(uid, types)
  BY Zenon, <1>2, <1>3
<1>5. /\ \A k \in DOMAIN seen : k \in DOMAIN seen' /\ seen'[k] = seen[k]
      /\ \A k \in DOMAIN seen' : k \in DOMAIN seen \/ seen'[k] = e
      /\ \E k \in DOMAIN seen' : seen'[k] = e
  BY <1>1
<1> QED BY Zenon, <1>1, <1>4, <1>5

-----------------------------------------------------------------------------
(* The inductive invariant.  While the walk goes on, the NMI of a record is *)
(* that of the processor's own last entry; the one for all processors waits *)
(* in global_nmi_lint until the end.                                        *)
TypeOK ==
  /\ apic_info \in [lapic : Seq(Record), io_apic : Seq(Entries), irq_gsi_map : Seq(Entries),
                    nmi_source : Seq(Entries),
                    lapic_addr : {HeaderAddr} \cup {e.addr : e \in OfType({"address"})}]
  /\ seen \in Seq(Entries)
  /\ supported \in BOOLEAN /\ x2apic \in BOOLEAN
  /\ pc \in {"parse", "x2apic", "start", "lost"}

Listed ==
  /\ \A j \in DOMAIN apic_info.lapic : \E k \in DOMAIN seen :
       NamesCpu(seen[k]) /\ UidOf(seen[k]) = apic_info.lapic[j].proc_uid
  /\ \A k \in DOMAIN seen : NamesCpu(seen[k]) =>
       \E j \in DOMAIN apic_info.lapic : apic_info.lapic[j].proc_uid = UidOf(seen[k])

OwnNmi(r) ==
  IF r.proc_uid = AllCpus \/ LastRead(r.proc_uid, NmiTypes) = {} THEN r.nmi = NoNmi
  ELSE \A k \in LastRead(r.proc_uid, NmiTypes) : r.nmi = Nmi(seen[k])

Filled ==
  \A j \in DOMAIN apic_info.lapic : \A k \in LastRead(apic_info.lapic[j].proc_uid, LapicTypes) :
    Says(apic_info.lapic[j], seen[k])

Global ==
  IF LastRead(AllCpus, NmiTypes) = {} THEN global_nmi_lint = << >>
  ELSE \A k \in LastRead(AllCpus, NmiTypes) : global_nmi_lint = <<Nmi(seen[k])>>

ReadNmi(uid) ==
  LET global == LastRead(AllCpus, NmiTypes)
      at     == IF global # {} THEN global ELSE LastRead(uid, NmiTypes)
  IN  IF at = {} THEN {NoNmi} ELSE {Nmi(seen[k]) : k \in at}

MadtInv ==
  /\ TypeOK /\ Unique(apic_info.lapic) /\ Listed /\ Global
  /\ pc \in {"parse", "x2apic"} => Filled /\ x2apic = FALSE
  /\ pc = "parse" => \A j \in DOMAIN apic_info.lapic : OwnNmi(apic_info.lapic[j])
  /\ pc = "x2apic" => \A j \in DOMAIN apic_info.lapic :
                         apic_info.lapic[j].nmi \in ReadNmi(apic_info.lapic[j].proc_uid)
  /\ ModeRecorded

(* The records and the table name the same processors after an entry that   *)
(* names one.                                                               *)
LEMMA NamingStep ==
  ASSUME TypeOK, Listed, NEW e \in Entries, NamesCpu(e), seen' = Append(seen, e),
         Replaces(apic_info'.lapic, apic_info.lapic, UidOf(e))
  PROVE  Unique(apic_info.lapic)' /\ Listed'
<1>1. /\ \A k \in DOMAIN seen : k \in DOMAIN seen' /\ seen'[k] = seen[k]
      /\ \A k \in DOMAIN seen' : k \in DOMAIN seen \/ seen'[k] = e
      /\ \E k \in DOMAIN seen' : seen'[k] = e
  BY WalkOn DEF TypeOK
<1>2. Unique(apic_info.lapic)'
  BY DEF Replaces, Unique
<1>3. ASSUME NEW j \in DOMAIN apic_info'.lapic
      PROVE  \E k \in DOMAIN seen' :
               NamesCpu(seen'[k]) /\ UidOf(seen'[k]) = apic_info'.lapic[j].proc_uid
  <2>1. CASE apic_info'.lapic[j].proc_uid = UidOf(e)
    BY <2>1, <1>1
  <2>2. CASE apic_info'.lapic[j].proc_uid # UidOf(e)
    <3>1. PICK i \in DOMAIN apic_info.lapic : apic_info.lapic[i] = apic_info'.lapic[j]
      BY <2>2 DEF Replaces
    <3>2. PICK k \in DOMAIN seen : NamesCpu(seen[k]) /\ UidOf(seen[k]) = apic_info.lapic[i].proc_uid
      BY <3>1 DEF Listed
    <3> QED BY <3>1, <3>2, <1>1
  <2> QED BY <2>1, <2>2
<1>4. ASSUME NEW k \in DOMAIN seen', NamesCpu(seen'[k])
      PROVE  \E j \in DOMAIN apic_info'.lapic : apic_info'.lapic[j].proc_uid = UidOf(seen'[k])
  <2>1. CASE seen'[k] = e
    BY <2>1 DEF Replaces
  <2>2. CASE k \in DOMAIN seen
    <3>1. PICK i \in DOMAIN apic_info.lapic : apic_info.lapic[i].proc_uid = UidOf(seen[k])
      BY <2>2, <1>1, <1>4 DEF Listed
    <3> QED BY <3>1, <2>2, <1>1 DEF Replaces
  <2> QED BY <2>1, <2>2, <1>1
<1> QED BY <1>2, <1>3, <1>4 DEF Listed, NamesCpu

(* Where another processor, or in other types, is named last.               *)
LEMMA NotNamed ==
  ASSUME TypeOK, NEW e \in Entries, seen' = Append(seen, e), NEW uid, NEW types,
         ~(e.type \in types /\ UidOf(e) = uid)
  PROVE  /\ LastRead(uid, types)' = LastRead(uid, types)
         /\ \A k \in LastRead(uid, types) : k \in DOMAIN seen /\ seen'[k] = seen[k]
<1>1. \A k \in LastRead(uid, types) : k \in DOMAIN seen
  BY DEF LastRead, ReadAt
<1> QED BY <1>1, WalkOn DEF TypeOK

(* A record that stays as it is, when the entry is not about it, still says *)
(* what the table says.                                                     *)
LEMMA SameRecord ==
  ASSUME TypeOK, NEW e \in Entries, seen' = Append(seen, e), NEW r,
         \A k \in LastRead(r.proc_uid, LapicTypes) : Says(r, seen[k]), OwnNmi(r)
  PROVE  /\ ~(e.type \in LapicTypes /\ UidOf(e) = r.proc_uid) =>
              \A k \in LastRead(r.proc_uid, LapicTypes)' : Says(r, seen'[k])
         /\ (~(e.type \in NmiTypes /\ UidOf(e) = r.proc_uid) \/ r.proc_uid = AllCpus) =>
              IF r.proc_uid = AllCpus \/ LastRead(r.proc_uid, NmiTypes)' = {} THEN r.nmi = NoNmi
              ELSE \A k \in LastRead(r.proc_uid, NmiTypes)' : r.nmi = Nmi(seen'[k])
<1>1. ASSUME ~(e.type \in LapicTypes /\ UidOf(e) = r.proc_uid)
      PROVE  \A k \in LastRead(r.proc_uid, LapicTypes)' : Says(r, seen'[k])
  BY <1>1, NotNamed
<1>2. CASE r.proc_uid = AllCpus
  BY Zenon, <1>1, <1>2 DEF OwnNmi
<1>3. CASE r.proc_uid # AllCpus /\ ~(e.type \in NmiTypes /\ UidOf(e) = r.proc_uid)
  <2>1. /\ LastRead(r.proc_uid, NmiTypes)' = LastRead(r.proc_uid, NmiTypes)
        /\ \A k \in LastRead(r.proc_uid, NmiTypes) : seen'[k] = seen[k]
    BY <1>3, NotNamed
  <2> QED BY Zenon, <1>1, <1>3, <2>1 DEF OwnNmi
<1> QED BY Zenon, <1>1, <1>2, <1>3

(* A local APIC entry preserves MadtInv.                                    *)
LEMMA LapicStep ==
  ASSUME MadtInv, NEW e \in Entries, LapicEntry(e)
  PROVE  MadtInv'
<1> DEFINE list == apic_info.lapic
           new  == apic_info'.lapic
<1>1. /\ TypeOK /\ Listed /\ Global /\ Filled /\ x2apic = FALSE /\ pc = "parse"
      /\ \A j \in DOMAIN list : OwnNmi(list[j])
      /\ list \in Seq(Record) /\ Unique(list)
  BY DEF MadtInv, LapicEntry, Walk, TypeOK
<1>2. /\ seen' = Append(seen, e) /\ pc' = "parse" /\ x2apic' = FALSE
      /\ e.type \in LapicTypes /\ e.type \notin NmiTypes /\ NamesCpu(e)
      /\ supported' = supported /\ global_nmi_lint' = global_nmi_lint
  BY <1>1 DEF LapicEntry, Walk, LapicTypes, NmiTypes, NamesCpu
<1>3. new = _register_lapic(list, e)
  BY <1>1 DEF LapicEntry, TypeOK
<1>4. /\ Replaces(new, list, UidOf(e))
      /\ \A j \in DOMAIN new : new[j].proc_uid = UidOf(e) =>
           /\ Says(new[j], e)
           /\ \/ \E i \in DOMAIN list : list[i].proc_uid = UidOf(e) /\ new[j].nmi = list[i].nmi
              \/ new[j].nmi = NoNmi /\ \A i \in DOMAIN list : list[i].proc_uid # UidOf(e)
  BY <1>1, <1>2, <1>3, RegisterLapic
<1>5. Unique(apic_info.lapic)' /\ Listed'
  BY <1>1, <1>2, <1>4, NamingStep
<1>6. TypeOK'
  <2>1. new \in Seq(Record) /\ apic_info' = [apic_info EXCEPT !.lapic = new]
    BY <1>3, <1>4 DEF LapicEntry, Replaces
  <2>2. seen' \in Seq(Entries)
    BY <1>1, <1>2 DEF TypeOK
  <2> QED BY Zenon, <1>1, <1>2, <2>1, <2>2 DEF TypeOK
<1>7. Global'
  BY <1>1, <1>2, NotNamed DEF Global
<1>8. ASSUME NEW j \in DOMAIN new
      PROVE  /\ \A k \in LastRead(apic_info.lapic[j].proc_uid, LapicTypes)' : Says(new[j], seen'[k])
             /\ OwnNmi(apic_info.lapic[j])'
  <2>1. CASE new[j].proc_uid = UidOf(e)
    <3>1. \A k \in LastRead(apic_info.lapic[j].proc_uid, LapicTypes)' : Says(new[j], seen'[k])
      <4>1. \A k \in LastRead(UidOf(e), LapicTypes)' : seen'[k] = e
        BY Zenon, <1>1, <1>2, WalkOn DEF TypeOK
      <4> QED BY <1>4, <2>1, <4>1
    <3>2. /\ LastRead(UidOf(e), NmiTypes)' = LastRead(UidOf(e), NmiTypes)
          /\ \A k \in LastRead(UidOf(e), NmiTypes) : k \in DOMAIN seen /\ seen'[k] = seen[k]
      BY <1>1, <1>2, NotNamed
    <3>3. CASE \E i \in DOMAIN list : list[i].proc_uid = UidOf(e) /\ new[j].nmi = list[i].nmi
      <4>1. PICK i \in DOMAIN list : list[i].proc_uid = UidOf(e) /\ new[j].nmi = list[i].nmi
        BY <3>3
      <4>2. OwnNmi(list[i])
        BY <1>1 DEF Filled
      <4>3. OwnNmi(apic_info.lapic[j])'
        BY <1>1, <2>1, <3>2, <4>1, <4>2 DEF OwnNmi
      <4> QED BY <3>1, <4>3
    <3>4. CASE new[j].nmi = NoNmi /\ \A i \in DOMAIN list : list[i].proc_uid # UidOf(e)
      <4>1. UidOf(e) = AllCpus \/ LastRead(UidOf(e), NmiTypes) = {}
        BY <1>1, <3>4 DEF Listed, NamesCpu, LastRead, ReadAt
      <4> QED BY <2>1, <3>1, <3>2, <3>4, <4>1 DEF OwnNmi
    <3> QED BY <1>4, <2>1, <3>3, <3>4
  <2>2. CASE new[j].proc_uid # UidOf(e)
    <3>1. PICK i \in DOMAIN list : list[i] = new[j]
      BY <1>4, <2>2 DEF Replaces
    <3>2. PICK r : r = list[i]
      OBVIOUS
    <3>3. (\A k \in LastRead(r.proc_uid, LapicTypes) : Says(r, seen[k])) /\ OwnNmi(r)
      BY <1>1, <3>2 DEF Filled
    <3>4. /\ \A k \in LastRead(r.proc_uid, LapicTypes)' : Says(r, seen'[k])
          /\ IF r.proc_uid = AllCpus \/ LastRead(r.proc_uid, NmiTypes)' = {} THEN r.nmi = NoNmi
             ELSE \A k \in LastRead(r.proc_uid, NmiTypes)' : r.nmi = Nmi(seen'[k])
      BY ZenonT(40), <1>1, <1>2, <2>2, <3>1, <3>2, <3>3, SameRecord
    <3> QED BY <3>1, <3>2, <3>4 DEF OwnNmi
  <2> QED BY <2>1, <2>2
<1>9. Filled'
  BY <1>8 DEF Filled, Says, IdOf, ModeOf, FlagsOf, Words
<1> QED BY <1>2, <1>5, <1>6, <1>7, <1>8, <1>9 DEF MadtInv, ModeRecorded

(* An NMI entry for one processor preserves MadtInv.                        *)
LEMMA NmiStep ==
  ASSUME MadtInv, NEW e \in Entries, NmiEntry(e)
  PROVE  MadtInv'
<1> DEFINE list == apic_info.lapic
           new  == apic_info'.lapic
<1>1. /\ TypeOK /\ Listed /\ Global /\ Filled /\ x2apic = FALSE /\ pc = "parse"
      /\ \A j \in DOMAIN list : OwnNmi(list[j])
      /\ list \in Seq(Record) /\ Unique(list)
  BY DEF MadtInv, NmiEntry, Walk, TypeOK
<1>2. /\ seen' = Append(seen, e) /\ pc' = "parse" /\ x2apic' = FALSE
      /\ e.type \in NmiTypes /\ e.type \notin LapicTypes /\ UidOf(e) # AllCpus /\ NamesCpu(e)
      /\ supported' = supported /\ global_nmi_lint' = global_nmi_lint
  BY <1>1 DEF NmiEntry, Walk, LapicTypes, NmiTypes, NamesCpu, UidOf
<1>3. new \in _set_lapic_nmi_lint(list, e) /\ apic_info' = [apic_info EXCEPT !.lapic = new]
  BY <1>1 DEF NmiEntry, TypeOK
<1>4. /\ Replaces(new, list, UidOf(e))
      /\ \A j \in DOMAIN new : new[j].proc_uid = UidOf(e) =>
           /\ new[j].nmi = Nmi(e)
           /\ \/ \A i \in DOMAIN list : list[i].proc_uid # UidOf(e)
              \/ \E i \in DOMAIN list :
                   list[i].proc_uid = UidOf(e) /\ SaysSame(new[j], list[i])
  BY ZenonT(40), <1>1, <1>2, <1>3, SetNmi
<1>5. Unique(apic_info.lapic)' /\ Listed'
  BY <1>1, <1>2, <1>4, NamingStep
<1>6. TypeOK'
  <2>1. new \in Seq(Record)
    BY <1>4 DEF Replaces
  <2>2. seen' \in Seq(Entries)
    BY <1>1, <1>2 DEF TypeOK
  <2> QED BY Zenon, <1>1, <1>2, <1>3, <2>1, <2>2 DEF TypeOK
<1>7. Global'
  BY <1>1, <1>2, NotNamed DEF Global
<1>8. ASSUME NEW j \in DOMAIN new
      PROVE  /\ \A k \in LastRead(apic_info.lapic[j].proc_uid, LapicTypes)' : Says(new[j], seen'[k])
             /\ OwnNmi(apic_info.lapic[j])'
  <2>1. CASE new[j].proc_uid = UidOf(e)
    <3>1. /\ LastRead(UidOf(e), NmiTypes)' # {}
          /\ \A k \in LastRead(UidOf(e), NmiTypes)' : seen'[k] = e
      BY Zenon, <1>1, <1>2, WalkOn DEF TypeOK
    <3>2. OwnNmi(apic_info.lapic[j])'
      BY ZenonT(40), <1>2, <1>4, <2>1, <3>1 DEF OwnNmi
    <3>3. /\ LastRead(UidOf(e), LapicTypes)' = LastRead(UidOf(e), LapicTypes)
          /\ \A k \in LastRead(UidOf(e), LapicTypes) : k \in DOMAIN seen /\ seen'[k] = seen[k]
      BY <1>1, <1>2, NotNamed
    <3>4. CASE \A i \in DOMAIN list : list[i].proc_uid # UidOf(e)
      <4>1. LastRead(UidOf(e), LapicTypes) = {}
        BY SMTT(30), <1>1, <3>4 DEF Listed, NamesCpu, LastRead, ReadAt
      <4> QED BY <2>1, <3>2, <3>3, <4>1
    <3>5. CASE \E i \in DOMAIN list :
                 list[i].proc_uid = UidOf(e) /\ SaysSame(new[j], list[i])
      BY ZenonT(60), <1>1, <2>1, <3>2, <3>3, <3>5 DEF Filled, Says, SaysSame
    <3> QED BY Zenon, <1>4, <2>1, <3>4, <3>5
  <2>2. CASE new[j].proc_uid # UidOf(e)
    <3>1. PICK i \in DOMAIN list : list[i] = new[j]
      BY <1>4, <2>2 DEF Replaces
    <3>2. PICK r : r = list[i]
      OBVIOUS
    <3>3. (\A k \in LastRead(r.proc_uid, LapicTypes) : Says(r, seen[k])) /\ OwnNmi(r)
      BY Zenon, <1>1, <3>2 DEF Filled
    <3>4. /\ \A k \in LastRead(r.proc_uid, LapicTypes)' : Says(r, seen'[k])
          /\ IF r.proc_uid = AllCpus \/ LastRead(r.proc_uid, NmiTypes)' = {} THEN r.nmi = NoNmi
             ELSE \A k \in LastRead(r.proc_uid, NmiTypes)' : r.nmi = Nmi(seen'[k])
      BY ZenonT(40), <1>1, <1>2, <2>2, <3>1, <3>2, <3>3, SameRecord
    <3> QED BY Zenon, <3>1, <3>2, <3>4 DEF OwnNmi
  <2> QED BY Zenon, <2>1, <2>2
<1>9. Filled'
  BY <1>8 DEF Filled, Says, IdOf, ModeOf, FlagsOf, Words
<1> QED BY <1>2, <1>5, <1>6, <1>7, <1>8, <1>9 DEF MadtInv, ModeRecorded

(* An entry that is about no processor alone leaves the records as they are.*)
LEMMA NoCpuStep ==
  ASSUME MadtInv, NEW e \in Entries, GlobalNmiEntry(e) \/ OtherEntry(e)
  PROVE  MadtInv'
<1> DEFINE list == apic_info.lapic
<1>1. /\ TypeOK /\ Listed /\ Global /\ Filled /\ x2apic = FALSE /\ pc = "parse"
      /\ \A j \in DOMAIN list : OwnNmi(list[j])
      /\ Unique(list)
  BY DEF MadtInv, GlobalNmiEntry, OtherEntry, Walk
<1>2. /\ seen' = Append(seen, e) /\ pc' = "parse" /\ x2apic' = FALSE /\ supported' = supported
      /\ e.type \notin LapicTypes /\ ~NamesCpu(e)
      /\ e.type \in NmiTypes => UidOf(e) = AllCpus
  BY <1>1 DEF GlobalNmiEntry, OtherEntry, Walk, LapicTypes, NmiTypes, NamesCpu, UidOf
<1>3. apic_info'.lapic = apic_info.lapic
  BY <1>1 DEF GlobalNmiEntry, OtherEntry, TypeOK
<1>4. TypeOK'
  <2>1. seen' \in Seq(Entries)
    <3>1. seen \in Seq(Entries)
      BY Zenon, <1>1 DEF TypeOK
    <3>2. \A q \in Seq(Entries) : Append(q, e) \in Seq(Entries)
      OBVIOUS
    <3> QED BY Zenon, <1>2, <3>1, <3>2
  <2>2. \A q \in Seq(Entries) : <<e>> \o q \in Seq(Entries)
    OBVIOUS
  <2>3. e.type = "address" => e.addr \in {x.addr : x \in OfType({"address"})}
    BY DEF OfType
  <2> QED BY Zenon, <1>1, <1>2, <2>1, <2>2, <2>3 DEF TypeOK, GlobalNmiEntry, OtherEntry
<1>5. Listed'
  <2>1. /\ \A k \in DOMAIN seen : k \in DOMAIN seen' /\ seen'[k] = seen[k]
        /\ \A k \in DOMAIN seen' : k \in DOMAIN seen \/ seen'[k] = e
    BY Zenon, <1>1, <1>2, WalkOn DEF TypeOK
  <2>2. ASSUME NEW j \in DOMAIN list
        PROVE  \E k \in DOMAIN seen' : NamesCpu(seen'[k]) /\ UidOf(seen'[k]) = list[j].proc_uid
    <3>1. PICK k \in DOMAIN seen : NamesCpu(seen[k]) /\ UidOf(seen[k]) = list[j].proc_uid
      BY Zenon, <1>1 DEF Listed
    <3>2. k \in DOMAIN seen' /\ seen'[k] = seen[k]
      BY Zenon, <2>1
    <3> QED BY Zenon, <3>1, <3>2
  <2>3. ASSUME NEW k \in DOMAIN seen', NamesCpu(seen'[k])
        PROVE  \E j \in DOMAIN list : list[j].proc_uid = UidOf(seen'[k])
    <3>1. k \in DOMAIN seen /\ seen'[k] = seen[k]
      BY Zenon, <1>2, <2>1, <2>3
    <3>2. NamesCpu(seen[k])
      BY Zenon, <2>3, <3>1
    <3> QED BY Zenon, <1>1, <3>1, <3>2 DEF Listed
  <2> QED BY Zenon, <1>3, <2>2, <2>3 DEF Listed, NamesCpu, list
<1>6. Global'
  <2>1. CASE GlobalNmiEntry(e)
    <3>1. e.type \in NmiTypes /\ UidOf(e) = AllCpus /\ global_nmi_lint' = <<Nmi(e)>>
      BY <2>1 DEF GlobalNmiEntry, NmiTypes, UidOf
    <3>2. /\ LastRead(AllCpus, NmiTypes)' # {}
          /\ \A k \in LastRead(AllCpus, NmiTypes)' : seen'[k] = e
      <4>1. seen \in Seq(Entries) /\ e.type \in NmiTypes
        BY Zenon, <1>1, <3>1 DEF TypeOK
      <4>2. LastRead(UidOf(e), NmiTypes)' # {} /\ \A k \in LastRead(UidOf(e), NmiTypes)' : seen'[k] = e
        BY Zenon, <1>2, <4>1, WalkOn
      <4> QED BY <3>1, <4>2
    <3> QED BY <3>1, <3>2 DEF Global
  <2>2. CASE OtherEntry(e)
    <3>1. e.type \notin NmiTypes /\ global_nmi_lint' = global_nmi_lint
      BY <2>2 DEF OtherEntry, NmiTypes
    <3>2. /\ LastRead(AllCpus, NmiTypes)' = LastRead(AllCpus, NmiTypes)
          /\ \A k \in LastRead(AllCpus, NmiTypes) : k \in DOMAIN seen /\ seen'[k] = seen[k]
      BY <1>1, <1>2, <3>1, NotNamed
    <3> QED BY <1>1, <3>1, <3>2 DEF Global
  <2> QED BY <2>1, <2>2
<1>7. ASSUME NEW j \in DOMAIN list
      PROVE  /\ \A k \in LastRead(apic_info.lapic[j].proc_uid, LapicTypes)' : Says(list[j], seen'[k])
             /\ OwnNmi(apic_info.lapic[j])'
  <2>1. PICK r : r = list[j]
    OBVIOUS
  <2>2. (\A k \in LastRead(r.proc_uid, LapicTypes) : Says(r, seen[k])) /\ OwnNmi(r)
    BY Zenon, <1>1, <2>1 DEF Filled
  <2>3. /\ \A k \in LastRead(r.proc_uid, LapicTypes)' : Says(r, seen'[k])
        /\ IF r.proc_uid = AllCpus \/ LastRead(r.proc_uid, NmiTypes)' = {} THEN r.nmi = NoNmi
           ELSE \A k \in LastRead(r.proc_uid, NmiTypes)' : r.nmi = Nmi(seen'[k])
    BY Zenon, <1>1, <1>2, <2>2, SameRecord
  <2> QED BY <1>3, <2>1, <2>3 DEF OwnNmi
<1>8. Filled'
  BY Zenon, <1>3, <1>7 DEF Filled, Says
<1>9. Unique(apic_info.lapic)'
  BY Zenon, <1>1, <1>3 DEF Unique
<1> QED BY <1>2, <1>3, <1>4, <1>5, <1>6, <1>7, <1>8, <1>9
        DEF MadtInv, ModeRecorded

(* The end of the walk: what the records say now is what the table says.    *)
LEMMA ParseEndStep ==
  ASSUME MadtInv, ParseEnd
  PROVE  MadtInv'
<1> DEFINE list == apic_info.lapic
           new  == apic_info'.lapic
<1>1. /\ TypeOK /\ Listed /\ Global /\ Filled /\ x2apic = FALSE /\ pc = "parse"
      /\ \A j \in DOMAIN list : OwnNmi(list[j])
      /\ list \in Seq(Record) /\ Unique(list)
  BY DEF MadtInv, ParseEnd, TypeOK
<1>2. /\ pc' = "x2apic" /\ seen' = seen /\ global_nmi_lint' = global_nmi_lint
      /\ supported' = supported /\ x2apic' = FALSE
  BY <1>1 DEF ParseEnd
<1>3. \A k \in LastRead(AllCpus, NmiTypes) : Nmi(seen[k]) \in NmiState
  <2>1. \A k \in LastRead(AllCpus, NmiTypes) : seen[k] \in OfType(NmiTypes)
    BY <1>1 DEF LastRead, ReadAt, TypeOK, OfType
  <2> QED BY <2>1 DEF Nmi, NmiState
<1>4. /\ DOMAIN new = DOMAIN list /\ new \in Seq(Record)
      /\ apic_info' = [apic_info EXCEPT !.lapic = new]
      /\ \A j \in DOMAIN list :
           /\ new[j].proc_uid = list[j].proc_uid
           /\ \A e : Says(list[j], e) => Says(new[j], e)
           /\ IF LastRead(AllCpus, NmiTypes) = {} THEN new[j].nmi = list[j].nmi
              ELSE \A k \in LastRead(AllCpus, NmiTypes) : new[j].nmi = Nmi(seen[k])
  <2>1. CASE LastRead(AllCpus, NmiTypes) = {}
    <3>1. apic_info' = apic_info
      BY <1>1, <2>1 DEF ParseEnd, Global
    <3> QED BY <1>1, <2>1, <3>1 DEF TypeOK
  <2>2. CASE LastRead(AllCpus, NmiTypes) # {}
    <3>1. PICK n \in NmiState : /\ global_nmi_lint = <<n>>
                                /\ \A k \in LastRead(AllCpus, NmiTypes) : Nmi(seen[k]) = n
      BY <1>1, <1>3, <2>2 DEF Global
    <3>2. global_nmi_lint # << >> /\ global_nmi_lint[1] = n
      BY <3>1
    <3>3. apic_info' = [apic_info EXCEPT !.lapic = [k \in DOMAIN list |-> [list[k] EXCEPT !.nmi = n]]]
      BY <3>2 DEF ParseEnd
    <3>4. new = [k \in DOMAIN list |-> [list[k] EXCEPT !.nmi = n]]
      BY <1>1, <3>3 DEF TypeOK
    <3>5. ASSUME NEW j \in DOMAIN list
          PROVE  /\ new[j] \in Record /\ new[j].proc_uid = list[j].proc_uid /\ new[j].nmi = n
                 /\ \A e : Says(list[j], e) => Says(new[j], e)
      <4>1. list[j] \in Record /\ new[j] = [list[j] EXCEPT !.nmi = n]
        BY <1>1, <3>4
      <4> QED BY Zenon, <4>1 DEF Record, Says
    <3>6. new \in Seq(Record)
      <4>1. Len(list) \in Nat /\ DOMAIN list = 1 .. Len(list)
        BY <1>1
      <4>2. new \in [1 .. Len(list) -> Record]
        BY Zenon, <3>4, <3>5, <4>1
      <4> QED BY <4>1, <4>2
    <3>7. DOMAIN new = DOMAIN list
      BY <3>4
    <3> QED BY Zenon, <2>2, <3>1, <3>3, <3>4, <3>5, <3>6, <3>7
  <2> QED BY Zenon, <2>1, <2>2
<1> HIDE DEF list, new
<1>5. TypeOK'
  BY Zenon, <1>1, <1>2, <1>4 DEF TypeOK
<1>6. Unique(apic_info.lapic)' /\ Listed'
  BY <1>1, <1>2, <1>4 DEF Unique, Listed, NamesCpu, UidOf, Words, list, new
<1>7. Global'
  BY <1>1, <1>2 DEF Global, LastRead, ReadAt
<1>11. \A uid, types : LastRead(uid, types)' = LastRead(uid, types)
  BY Zenon, <1>2 DEF LastRead, ReadAt
<1>8. Filled'
  <2>1. \A j \in DOMAIN new : \A k \in LastRead(new[j].proc_uid, LapicTypes) : Says(new[j], seen[k])
    BY Zenon, <1>1, <1>4 DEF Filled, list
  <2> QED BY Zenon, <1>2, <1>11, <2>1 DEF Filled, new
<1>9. ASSUME NEW j \in DOMAIN new
      PROVE  new[j].nmi \in ReadNmi(new[j].proc_uid)
  <2>1. CASE LastRead(AllCpus, NmiTypes) # {}
    BY <1>4, <1>9, <2>1 DEF ReadNmi
  <2>2. CASE LastRead(AllCpus, NmiTypes) = {}
    <3>1. OwnNmi(list[j]) /\ new[j].nmi = list[j].nmi /\ new[j].proc_uid = list[j].proc_uid
      BY <1>1, <1>4, <1>9, <2>2
    <3>2. CASE LastRead(list[j].proc_uid, NmiTypes) = {}
      BY ZenonT(40), <2>2, <3>1, <3>2 DEF ReadNmi, OwnNmi
    <3>3. CASE LastRead(list[j].proc_uid, NmiTypes) # {}
      <4>1. list[j].proc_uid # AllCpus
        BY <2>2, <3>3
      <4> QED BY <2>2, <3>1, <3>3, <4>1 DEF ReadNmi, OwnNmi
    <3> QED BY <3>2, <3>3
  <2> QED BY <2>1, <2>2
<1>10. \A j \in DOMAIN new : new[j].nmi \in ReadNmi(apic_info.lapic[j].proc_uid)'
  <2>1. \A uid : ReadNmi(uid)' = ReadNmi(uid)
    BY Zenon, <1>2, <1>11 DEF ReadNmi
  <2> QED BY Zenon, <1>9, <2>1 DEF new
<1> QED BY Zenon, <1>2, <1>5, <1>6, <1>7, <1>8, <1>10 DEF MadtInv, ModeRecorded, new

(* A non-empty set of naturals has a least element: the search of           *)
(* apic_get_current finds a record when there is one.                       *)
LEMMA LeastNat ==
  ASSUME NEW T, T \subseteq Nat, T # {}
  PROVE  \E x \in T : \A y \in T : x <= y
<1> DEFINE R == {ss \in Nat \X Nat : ss[1] < ss[2]}
<1>1. IsWellFoundedOn(R, Nat)
  BY NatLessThanWellFounded DEF OpToRel
<1>2. \E x \in T : \A y \in T : ~(<<y, x>> \in R)
  <2> HIDE DEF R
  <2> QED BY Zenon, <1>1, WFMin
<1>3. PICK x \in T : \A y \in T : ~(<<y, x>> \in R)
  BY <1>2
<1>4. ASSUME NEW y \in T PROVE x <= y
  <2>1. x \in Nat /\ y \in Nat
    OBVIOUS
  <2>2. y < x => <<y, x>> \in R
    BY ZenonT(40), <2>1
  <2> HIDE DEF R
  <2> QED BY <1>3, <2>2, <2>1
<1> QED BY <1>4

(* A processor that the table names has an entry that names it last.        *)
LEMMA LastExists ==
  ASSUME seen \in Seq(Entries), NEW uid, NEW types, NamedAt(uid, types) # {}
  PROVE  LastAt(uid, types) # {}
<1> DEFINE n == Len(seen)
           T == {m \in Nat : n - m \in NamedAt(uid, types)}
<1>1. n \in Nat /\ NamedAt(uid, types) \subseteq 1 .. n
  BY DEF NamedAt
<1> HIDE DEF n
<1>2. T # {}
  <2>1. PICK k \in NamedAt(uid, types) : k \in Int /\ 1 <= k /\ k <= n
    BY <1>1
  <2>2. n - k \in Nat /\ n - (n - k) = k
    BY <1>1, <2>1
  <2> QED BY <2>1, <2>2
<1>3. PICK m \in T : \A y \in T : m <= y
  <2>1. T \subseteq Nat
    OBVIOUS
  <2> HIDE DEF T
  <2> QED BY Zenon, <1>2, <2>1, LeastNat
<1>4. ASSUME NEW j \in NamedAt(uid, types) PROVE j <= n - m
  <2>1. j \in Int /\ j <= n
    BY <1>1
  <2>2. n - j \in Nat /\ n - (n - j) = j
    BY <1>1, <2>1
  <2>3. m <= n - j
    BY <1>3, <2>2
  <2> QED BY <1>1, <1>3, <2>1, <2>3
<1> QED BY <1>3, <1>4 DEF LastAt

(* Where no x2APIC entry has the UID for its first word, the code reads the *)
(* legacy entries of the processor and no others.                           *)
LEMMA LegacyRead ==
  ASSUME NEW uid, \A f \in Of("x2lapic") : f.id # uid
  PROVE  LastRead(uid, LapicTypes) = LastAt(uid, {"lapic"})
<1>1. ASSUME NEW k \in DOMAIN seen
      PROVE  k \in ReadAt(uid, LapicTypes) <=> k \in NamedAt(uid, {"lapic"})
  <2>1. CASE seen[k].type = "x2lapic"
    <3>1. seen[k] \in Of("x2lapic")
      BY <2>1 DEF Of, Range
    <3>2. UidOf(seen[k]) = seen[k].id
      BY <2>1 DEF UidOf, Words
    <3> QED BY <2>1, <3>1, <3>2 DEF ReadAt, NamedAt
  <2>2. CASE seen[k].type # "x2lapic"
    BY <2>2 DEF ReadAt, NamedAt, UidOf, LapicTypes
  <2> QED BY <2>1, <2>2
<1>2. ReadAt(uid, LapicTypes) = NamedAt(uid, {"lapic"})
  BY <1>1 DEF ReadAt, NamedAt
<1> QED BY Zenon, <1>2 DEF LastRead, LastAt

(* The one record of a processor with a legacy entry.                       *)
LEMMA LegacyRecord ==
  ASSUME TypeOK, Unique(apic_info.lapic), Listed, Filled,
         NEW e \in Of("lapic"), \A f \in Of("x2lapic") : f.id # e.uid
  PROVE  \E j \in DOMAIN apic_info.lapic :
           /\ IndexOfUid(apic_info.lapic, e.uid) = {j}
           /\ apic_info.lapic[j].proc_uid = e.uid
           /\ \A k \in LastAt(e.uid, {"lapic"}) :
                /\ apic_info.lapic[j].lapic_id = seen[k].id
                /\ apic_info.lapic[j].mode = "legacy"
                /\ apic_info.lapic[j].enabled = Enabled(seen[k].flags)
                /\ apic_info.lapic[j].online_capable = OnlineCapable(seen[k].flags)
<1>1. PICK l \in DOMAIN seen : seen[l] = e /\ e.type = "lapic"
  BY DEF Of, Range
<1>2. NamesCpu(seen[l]) /\ UidOf(seen[l]) = e.uid
  BY <1>1 DEF NamesCpu, LapicTypes, UidOf
<1>3. PICK j \in DOMAIN apic_info.lapic : apic_info.lapic[j].proc_uid = e.uid
  BY Zenon, <1>2 DEF Listed
<1>4. IndexOfUid(apic_info.lapic, e.uid) = {j}
  BY <1>3 DEF IndexOfUid, Unique
<1>5. ASSUME NEW k \in LastAt(e.uid, {"lapic"})
      PROVE  Says(apic_info.lapic[j], seen[k]) /\ seen[k].type = "lapic"
  <2>1. LastRead(e.uid, LapicTypes) = LastAt(e.uid, {"lapic"})
    BY Zenon, LegacyRead
  <2>2. Says(apic_info.lapic[j], seen[k])
    BY Zenon, <1>3, <2>1 DEF Filled
  <2>3. seen[k].type = "lapic"
    BY DEF LastAt, NamedAt
  <2> QED BY <2>2, <2>3
<1>6. ASSUME NEW k \in LastAt(e.uid, {"lapic"})
      PROVE  /\ IdOf(seen[k]) = seen[k].id /\ FlagsOf(seen[k]) = seen[k].flags
             /\ ModeOf(seen[k]) = "legacy"
  BY <1>5 DEF IdOf, FlagsOf, ModeOf
<1> QED BY Zenon, <1>3, <1>4, <1>5, <1>6 DEF Says

(* Plain is about the table alone.                                          *)
LEMMA PlainStays ==
  ASSUME seen' = seen
  PROVE  /\ \A uid, types : LastAt(uid, types)' = LastAt(uid, types)
         /\ \A type : Of(type)' = Of(type)
         /\ Plain' <=> Plain
<1>1. /\ \A uid, types : LastAt(uid, types)' = LastAt(uid, types)
      /\ \A type : Of(type)' = Of(type)
  BY Zenon DEF LastAt, NamedAt, Of
<1>2. Plain' <=> Plain
  BY <1>1 DEF Plain
<1> QED BY Zenon, <1>1, <1>2

(* apic_get_current and apic_enable_x2apic preserve MadtInv.                *)
LEMMA EnableStep ==
  ASSUME MadtInv, apic_enable_x2apic
  PROVE  MadtInv'
<1> DEFINE list == apic_info.lapic
           new  == apic_info'.lapic
<1>1. /\ TypeOK /\ Listed /\ Global /\ x2apic = FALSE /\ pc = "x2apic"
      /\ list \in Seq(Record) /\ Unique(list)
  BY DEF MadtInv, apic_enable_x2apic, TypeOK
<1>2. /\ pc' = "start" /\ seen' = seen /\ global_nmi_lint' = global_nmi_lint
      /\ supported' = supported
  BY DEF apic_enable_x2apic
<1>3. /\ DOMAIN new = DOMAIN list /\ new \in Seq(Record)
      /\ apic_info' = [apic_info EXCEPT !.lapic = new]
      /\ \A j \in DOMAIN list : /\ new[j].proc_uid = list[j].proc_uid
                                /\ new[j].lapic_id = list[j].lapic_id
  <2>1. CASE apic_info' = apic_info
    BY <1>1, <2>1 DEF TypeOK
  <2>2. ASSUME NEW k \in apic_get_current,
               apic_info' = [apic_info EXCEPT !.lapic[k].mode = "x2apic"]
        PROVE  <1>3
    <3>1. k \in DOMAIN list /\ list[k] \in Record
      BY <1>1 DEF apic_get_current
    <3>2. PICK r : r = [list[k] EXCEPT !.mode = "x2apic"]
      OBVIOUS
    <3>3. /\ r \in Record /\ r.proc_uid = list[k].proc_uid /\ r.lapic_id = list[k].lapic_id
      BY Zenon, <3>1, <3>2 DEF Record
    <3>4. new = [list EXCEPT ![k] = r] /\ apic_info' = [apic_info EXCEPT !.lapic = new]
      BY <1>1, <2>2, <3>2 DEF TypeOK
    <3>5. new \in Seq(Record)
      BY <1>1, <3>1, <3>3, <3>4
    <3> QED BY <1>1, <3>1, <3>3, <3>4, <3>5
  <2> QED BY <2>1, <2>2 DEF apic_enable_x2apic
<1>4. TypeOK'
  BY Zenon, <1>1, <1>2, <1>3 DEF TypeOK, apic_enable_x2apic
<1>5. Unique(apic_info.lapic)' /\ Listed'
  <2> HIDE DEF list, new
  <2> QED BY <1>1, <1>2, <1>3 DEF Unique, Listed, NamesCpu, UidOf, Words, list, new
<1>6. Global'
  BY <1>1, <1>2 DEF Global, LastRead, ReadAt
<1>7. ASSUME Plain
      PROVE  /\ x2apic' = supported
             /\ \A e \in Of("lapic") : \A k \in LastAt(e.uid, {"lapic"}) : \E r \in Range(new) :
                  /\ r.proc_uid = e.uid /\ r.lapic_id = seen[k].id
                  /\ r.mode = IF supported /\ seen[k].id = BspId THEN "x2apic" ELSE "legacy"
  <2>0. Filled /\ seen \in Seq(Entries)
    BY <1>1 DEF MadtInv, TypeOK
  <2>1. ASSUME NEW e \in Of("lapic")
        PROVE  \E j \in DOMAIN list :
                 /\ IndexOfUid(list, e.uid) = {j} /\ list[j].proc_uid = e.uid
                 /\ \A k \in LastAt(e.uid, {"lapic"}) :
                      list[j].lapic_id = seen[k].id /\ list[j].mode = "legacy"
    <3>1. \A f \in Of("x2lapic") : f.id # e.uid
      BY Zenon, <1>7 DEF Plain
    <3> QED BY Zenon, <1>1, <2>0, <3>1, LegacyRecord
  <2>2. PICK m : m \in apic_get_current
    <3>1. PICK e \in Of("lapic") : \E k \in LastAt(e.uid, {"lapic"}) : seen[k].id = BspId
      BY Zenon, <1>7 DEF Plain
    <3>2. PICK j \in DOMAIN list : list[j].lapic_id = BspId
      BY Zenon, <2>1, <3>1
    <3> DEFINE T == {i \in DOMAIN list : list[i].lapic_id = BspId}
    <3>3. T \subseteq Nat /\ T # {}
      BY <1>1, <3>2
    <3>4. PICK k \in T : \A i \in T : k <= i
      BY Zenon, <3>3, LeastNat
    <3>5. \A i \in 1 .. k - 1 : i \notin T /\ i \in DOMAIN list
      BY <1>1, <3>3, <3>4
    <3>6. k \in apic_get_current
      BY <3>4, <3>5 DEF apic_get_current
    <3> QED BY <3>6
  <2>3. PICK n \in apic_get_current :
          IF supported THEN apic_info' = [apic_info EXCEPT !.lapic[n].mode = "x2apic"] /\ x2apic' = TRUE
          ELSE apic_info' = apic_info /\ x2apic' = FALSE
    BY Zenon, <1>1, <2>2 DEF apic_enable_x2apic, TypeOK
  <2>4. n \in DOMAIN list /\ list[n].lapic_id = BspId
    BY DEF apic_get_current
  <2>5. ASSUME NEW j \in DOMAIN list
        PROVE  \E k \in DOMAIN seen : /\ seen[k].uid = list[j].proc_uid /\ seen[k].id = list[j].lapic_id
                                      /\ \E e \in Of("lapic") : k \in LastAt(e.uid, {"lapic"})
    <3>1. PICK l \in DOMAIN seen : NamesCpu(seen[l]) /\ UidOf(seen[l]) = list[j].proc_uid
      BY Zenon, <1>1 DEF Listed
    <3>2. \A type : seen[l].type = type => seen[l] \in Of(type)
      BY DEF Of, Range
    <3>3. seen[l].type # "x2lapic"
      BY Zenon, <1>7, <3>2 DEF Plain
    <3>4. /\ seen[l].type \in {"lapic", "nmi", "x2nmi"} /\ seen[l].uid = list[j].proc_uid
          /\ seen[l].type # "lapic" => seen[l].uid # AllCpus
      BY <3>1, <3>3 DEF NamesCpu, LapicTypes, NmiTypes, UidOf
    <3>5. PICK e \in Of("lapic") : e.uid = list[j].proc_uid
      <4>1. CASE seen[l].type = "lapic"
        BY Zenon, <3>2, <3>4, <4>1
      <4>2. CASE seen[l].type # "lapic"
        <5>1. seen[l] \in Of("nmi") \cup Of("x2nmi") /\ seen[l].uid # AllCpus
          BY <3>2, <3>4, <4>2
        <5> QED BY Zenon, <1>7, <3>4, <5>1 DEF Plain
      <4> QED BY <4>1, <4>2
    <3>6. PICK i \in DOMAIN list :
                 /\ IndexOfUid(list, e.uid) = {i}
                 /\ \A k \in LastAt(e.uid, {"lapic"}) : list[i].lapic_id = seen[k].id
      BY Zenon, <2>1
    <3>7. i = j
      BY <3>5, <3>6 DEF IndexOfUid
    <3>8. LastAt(e.uid, {"lapic"}) # {}
      <4>1. NamedAt(e.uid, {"lapic"}) # {}
        BY DEF NamedAt, Of, Range
      <4> QED BY Zenon, <2>0, <4>1, LastExists
    <3>9. PICK k : k \in LastAt(e.uid, {"lapic"})
      BY <3>8
    <3>10. k \in DOMAIN seen /\ seen[k].uid = e.uid
      BY <3>9 DEF LastAt, NamedAt
    <3> QED BY Zenon, <3>5, <3>6, <3>7, <3>9, <3>10
  <2>6. ASSUME NEW j \in DOMAIN list, list[j].lapic_id = BspId
        PROVE  j = n
    <3>1. PICK k \in DOMAIN seen :
                 /\ seen[k].uid = list[j].proc_uid /\ seen[k].id = BspId
                 /\ \E e \in Of("lapic") : k \in LastAt(e.uid, {"lapic"})
      BY Zenon, <2>5, <2>6
    <3>2. PICK l \in DOMAIN seen :
                 /\ seen[l].uid = list[n].proc_uid /\ seen[l].id = BspId
                 /\ \E e \in Of("lapic") : l \in LastAt(e.uid, {"lapic"})
      BY Zenon, <2>4, <2>5
    <3>3. k = l
      <4>1. \A e, f \in Of("lapic") :
              \A x \in LastAt(e.uid, {"lapic"}) : \A y \in LastAt(f.uid, {"lapic"}) :
                seen[x].id = seen[y].id => x = y
        BY Zenon, <1>7 DEF Plain
      <4>2. PICK e \in Of("lapic") : k \in LastAt(e.uid, {"lapic"})
        BY Zenon, <3>1
      <4>3. PICK f \in Of("lapic") : l \in LastAt(f.uid, {"lapic"})
        BY Zenon, <3>2
      <4>4. seen[k].id = seen[l].id
        BY <3>1, <3>2
      <4> QED BY Zenon, <4>1, <4>2, <4>3, <4>4
    <3> QED BY Zenon, <1>1, <2>4, <3>1, <3>2, <3>3 DEF Unique
  <2>7. x2apic' = supported
    BY <1>1, <2>3 DEF TypeOK
  <2>8. ASSUME NEW e \in Of("lapic"), NEW k \in LastAt(e.uid, {"lapic"})
        PROVE  \E r \in Range(new) :
                  /\ r.proc_uid = e.uid /\ r.lapic_id = seen[k].id
                  /\ r.mode = IF supported /\ seen[k].id = BspId THEN "x2apic" ELSE "legacy"
    <3>1. PICK j \in DOMAIN list : /\ list[j].proc_uid = e.uid /\ list[j].lapic_id = seen[k].id
                                   /\ list[j].mode = "legacy"
      BY Zenon, <2>1, <2>8
    <3>2. /\ j \in DOMAIN new /\ new[j].proc_uid = e.uid /\ new[j].lapic_id = seen[k].id
      BY <1>3, <3>1
    <3>3. list[j] \in Record /\ list[n] \in Record
      BY <1>1, <2>4
    <3>4. CASE supported
      <4>1. new = [list EXCEPT ![n] = [list[n] EXCEPT !.mode = "x2apic"]]
        BY <1>1, <2>3, <3>4 DEF TypeOK
      <4>2. j = n <=> seen[k].id = BspId
        BY Zenon, <2>4, <2>6, <3>1
      <4>3. new[j].mode = IF j = n THEN "x2apic" ELSE "legacy"
        BY <1>1, <2>4, <3>1, <3>3, <4>1 DEF Record
      <4> QED BY <3>2, <3>4, <4>2, <4>3 DEF Range
    <3>5. CASE ~supported
      <4>1. new = list
        BY <2>3, <3>5
      <4> QED BY <3>1, <3>5, <4>1 DEF Range
    <3> QED BY Zenon, <3>4, <3>5
  <2> QED BY Zenon, <2>7, <2>8
<1>9. /\ \A uid, types : LastAt(uid, types)' = LastAt(uid, types)
      /\ \A type : Of(type)' = Of(type)
      /\ Plain' <=> Plain
  BY Zenon, <1>2, PlainStays
<1>8. ModeRecorded'
  BY ZenonT(60), <1>2, <1>7, <1>9 DEF ModeRecorded, Records
<1> QED BY <1>2, <1>4, <1>5, <1>6, <1>8 DEF MadtInv

-----------------------------------------------------------------------------
(* apic_parse_madt keeps the invariant from entry to entry, whatever table  *)
(* the firmware has written.                                                *)
THEOREM MadtInvariant == Spec => []MadtInv
<1>1. Init => MadtInv
  <2> SUFFICES ASSUME Init PROVE MadtInv
    OBVIOUS
  <2>1. /\ apic_info.lapic = << >> /\ seen = << >> /\ pc = "parse" /\ x2apic = FALSE
        /\ global_nmi_lint = << >>
    BY DEF Init
  <2>2. DOMAIN apic_info.lapic = {} /\ DOMAIN seen = {}
    BY <2>1
  <2>3. << >> \in Seq(Record) /\ << >> \in Seq(Entries)
    OBVIOUS
  <2>4. TypeOK
    BY Zenon, <2>3 DEF Init, TypeOK
  <2> QED BY <2>1, <2>2, <2>4 DEF MadtInv, Unique, Listed, Global, Filled, LastRead, ReadAt,
                                  ModeRecorded
<1>2. MadtInv /\ [Next]_vars => MadtInv'
  <2> SUFFICES ASSUME MadtInv, [Next]_vars PROVE MadtInv'
    OBVIOUS
  <2>1. ASSUME NEW e \in Entries, LapicEntry(e) \/ NmiEntry(e) \/ GlobalNmiEntry(e) \/ OtherEntry(e)
        PROVE  MadtInv'
    BY <2>1, LapicStep, NmiStep, NoCpuStep
  <2>2. CASE NoRecords
    BY ZenonT(40), <2>2 DEF NoRecords, MadtInv, TypeOK, Unique, Listed, Global, Filled, LastRead, ReadAt,
                NamesCpu, ModeRecorded
  <2>3. CASE UNCHANGED vars
    <3>1. \A uid, types : LastRead(uid, types)' = LastRead(uid, types)
      BY <2>3 DEF vars, LastRead, ReadAt
    <3>2. /\ TypeOK' = TypeOK /\ Unique(apic_info.lapic)' = Unique(apic_info.lapic)
          /\ Listed' = Listed
      BY Zenon, <2>3 DEF vars, TypeOK, Unique, Listed, NamesCpu
    <3>3. /\ Global' = Global /\ Filled' = Filled
          /\ \A j : OwnNmi(apic_info.lapic[j])' = OwnNmi(apic_info.lapic[j])
      BY Zenon, <2>3, <3>1 DEF vars, Global, Filled, OwnNmi, Says
    <3>4. \A uid : ReadNmi(uid)' = ReadNmi(uid)
      BY Zenon, <2>3, <3>1 DEF vars, ReadNmi
    <3>5. ModeRecorded' = ModeRecorded
      <4>1. /\ \A uid, types : LastAt(uid, types)' = LastAt(uid, types)
            /\ \A type : Of(type)' = Of(type)
            /\ Plain' <=> Plain
        BY Zenon, <2>3, PlainStays DEF vars
      <4> QED BY ZenonT(60), <2>3, <4>1 DEF vars, ModeRecorded, Records
    <3> QED BY <2>3, <3>2, <3>3, <3>4, <3>5 DEF vars, MadtInv
  <2> QED BY <2>1, <2>2, <2>3, ParseEndStep, EnableStep DEF Next
<1> QED BY <1>1, <1>2, PTL DEF Spec

(* After apic_parse_madt the record of every processor with a legacy entry   *)
(* has what the table says last of it, in whatever order the entries come.  *)
THEOREM LegacyRecordsAreRight == Spec => []LegacyAsListed
<1>1. MadtInv => LegacyAsListed
  <2> SUFFICES ASSUME MadtInv, pc = "x2apic",
                      \A f \in Of("x2nmi") : f.uid \notin {AllCpus, Broadcast},
                      NEW e \in Of("lapic"), \A f \in Of("x2lapic") : e.uid \notin {f.id, f.uid}
               PROVE  \E j \in DOMAIN apic_info.lapic :
                        /\ IndexOfUid(apic_info.lapic, e.uid) = {j}
                        /\ \A k \in LastAt(e.uid, {"lapic"}) :
                             /\ apic_info.lapic[j].lapic_id = seen[k].id
                             /\ apic_info.lapic[j].mode = "legacy"
                             /\ apic_info.lapic[j].enabled = Enabled(seen[k].flags)
                             /\ apic_info.lapic[j].online_capable = OnlineCapable(seen[k].flags)
                        /\ apic_info.lapic[j].nmi \in NmiOf(e.uid)
    BY Zenon DEF LegacyAsListed
  <2>1. /\ TypeOK /\ Unique(apic_info.lapic) /\ Listed /\ Filled
        /\ \A j \in DOMAIN apic_info.lapic :
             apic_info.lapic[j].nmi \in ReadNmi(apic_info.lapic[j].proc_uid)
    BY Zenon DEF MadtInv
  <2>2. \A f \in Of("x2lapic") : f.id # e.uid
    BY Zenon
  <2>3. ASSUME NEW uid PROVE LastRead(uid, NmiTypes) = LastAt(uid, {"nmi", "x2nmi"})
    <3>1. ReadAt(uid, NmiTypes) = NamedAt(uid, {"nmi", "x2nmi"})
      BY DEF ReadAt, NamedAt, NmiTypes, UidOf
    <3> QED BY Zenon, <3>1 DEF LastRead, LastAt
  <2>4. LastRead(AllCpus, NmiTypes) = LastAt(AllCpus, {"nmi"})
    <3>1. \A k \in DOMAIN seen : seen[k].type = "x2nmi" => seen[k].uid # AllCpus
      BY DEF Of, Range
    <3>2. ReadAt(AllCpus, NmiTypes) = NamedAt(AllCpus, {"nmi"})
      BY <3>1 DEF ReadAt, NamedAt, NmiTypes, UidOf
    <3> QED BY Zenon, <3>2 DEF LastRead, LastAt
  <2>5. ReadNmi(e.uid) = NmiOf(e.uid)
    BY Zenon, <2>3, <2>4 DEF ReadNmi, NmiOf
  <2>6. PICK j \in DOMAIN apic_info.lapic :
           /\ IndexOfUid(apic_info.lapic, e.uid) = {j}
           /\ apic_info.lapic[j].proc_uid = e.uid
           /\ \A k \in LastAt(e.uid, {"lapic"}) :
                /\ apic_info.lapic[j].lapic_id = seen[k].id
                /\ apic_info.lapic[j].mode = "legacy"
                /\ apic_info.lapic[j].enabled = Enabled(seen[k].flags)
                /\ apic_info.lapic[j].online_capable = OnlineCapable(seen[k].flags)
    BY Zenon, <2>1, <2>2, LegacyRecord
  <2>7. apic_info.lapic[j].nmi \in NmiOf(e.uid)
    <3>1. apic_info.lapic[j].nmi \in ReadNmi(apic_info.lapic[j].proc_uid)
      BY Zenon, <2>1
    <3> QED BY <2>5, <2>6, <3>1
  <2> QED BY Zenon, <2>6, <2>7
<1> QED BY <1>1, MadtInvariant, PTL

(* apic_enable_x2apic puts the boot processor of a plain table into the mode *)
(* that cpu_send_ipi expects, and marks its record and no other.            *)
THEOREM ModeIsRecorded == Spec => []ModeRecorded
<1>1. MadtInv => ModeRecorded
  BY DEF MadtInv
<1> QED BY <1>1, MadtInvariant, PTL

-----------------------------------------------------------------------------
(* Starting a processor.  ap_pc is where the BSP is in cpu_start.           *)
(* cpu_init_ap_payload has not run and no command has been sent.           *)
LEMMA InitHandshake == StartInit => Handshake
BY DEF StartInit, Handshake

(* No step of the BSP breaks Handshake.                                    *)
LEMMA BspHandshake == Handshake /\ Bsp => Handshake'
<1> SUFFICES ASSUME Handshake, Bsp PROVE Handshake'
  OBVIOUS
<1> USE DEF Handshake, data, apVars, Addressable
<1>1. CASE InitPayload
  BY <1>1 DEF InitPayload
<1>2. CASE \/ SendIpi("init", "INIT", "timer0") \/ SendIpi("sipi1", "SIPI", "timer1")
           \/ SendIpi("sipi2", "SIPI", "timer2")
  BY <1>2 DEF SendIpi
<1>3. CASE \/ SetTimeout("timer0", 10, "wait") \/ SetTimeout("timer1", 1, "poll1")
           \/ SetTimeout("timer2", 1000, "poll2")
  BY <1>3 DEF SetTimeout
<1>4. CASE WaitOver("wait", "sipi1") \/ WaitOver("poll1", "sipi2")
  BY <1>4 DEF WaitOver
<1>5. CASE PollSees("poll1") \/ PollSees("poll2")
  BY <1>5 DEF PollSees
<1>6. CASE GiveUp
  BY <1>6 DEF GiveUp
<1>7. CASE GiveStack
  BY <1>7 DEF GiveStack
<1>8. CASE Release
  BY <1>8 DEF Release
<1> HIDE DEF Handshake, data, apVars, Addressable
<1> QED
  BY SMTT(60), <1>1, <1>2, <1>3, <1>4, <1>5, <1>6, <1>7, <1>8 DEF Bsp

(* Nor does a step of the AP, the PIT or the APIC.                         *)
LEMMA OtherHandshake == Handshake /\ (Expire \/ Deliver \/ Ap) => Handshake'
<1> SUFFICES ASSUME Handshake, Expire \/ Deliver \/ Ap PROVE Handshake'
  OBVIOUS
<1> USE DEF Handshake, data, Addressable
<1>1. CASE Expire
  BY <1>1 DEF Expire, apVars
<1>2. CASE Deliver
  BY <1>2 DEF Deliver
<1>3. CASE ApSayStarted
  BY <1>3 DEF ApSayStarted
<1>4. CASE ApContinue
  BY <1>4 DEF ApContinue
<1>5. CASE ApJump
  BY <1>5 DEF ApJump
<1>6. CASE ApEnter
  BY <1>6 DEF ApEnter
<1> QED
  BY <1>1, <1>2, <1>3, <1>4, <1>5, <1>6 DEF Ap

(* Handshake holds in every state of cpu_start and of the payload.         *)
THEOREM HandshakeHolds == StartSpec => []Handshake
<1>1. Handshake /\ [StartNext]_startVars => Handshake'
  <2> SUFFICES ASSUME Handshake, [StartNext]_startVars PROVE Handshake'
    OBVIOUS
  <2>1. CASE StartNext
    BY <2>1, BspHandshake, OtherHandshake DEF StartNext
  <2>2. CASE UNCHANGED startVars
    BY <2>2 DEF startVars, Handshake, Addressable
  <2> QED
    BY <2>1, <2>2
<1> QED
  BY <1>1, InitHandshake, PTL DEF StartSpec

(* The AP reaches _ap_entry_point only with the stack that _cpu_started    *)
(* allocated, whatever the timing.                                         *)
THEOREM KernelHasStackHolds == StartSpec => []KernelHasStack
<1>1. Handshake => KernelHasStack
  BY DEF Handshake, KernelHasStack
<1> QED
  BY <1>1, HandshakeHolds, PTL

(* An AP that cpu_start has given up on never leaves the payload's loop.   *)
THEOREM LateApStaysHeld == StartSpec => []LateApHeld
<1>1. Handshake => LateApHeld
  BY DEF Handshake, LateApHeld
<1> QED
  BY <1>1, HandshakeHolds, PTL
=============================================================================
