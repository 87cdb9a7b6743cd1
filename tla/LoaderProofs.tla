---------------------------- MODULE LoaderProofs ----------------------------
(***************************************************************************)
(* Where the loader puts the kernel, for every machine: the invariant over  *)
(* the walk of the multiboot tags that fixes the lowest address allowed,    *)
(* and the arithmetic by which find_elf64_phys_origin stays above it and    *)
(* inside one usable range of the memory map.                               *)
(***************************************************************************)
EXTENDS Loader, WellFoundedInduction, TLAPS

(* A set of numbers has a least one.                                        *)
LEMMA LeastNat ==
  ASSUME NEW T, T \subseteq Nat, T # {}
  PROVE  \E x \in T : \A y \in T : x <= y
<1> DEFINE R == {ss \in Nat \X Nat : ss[1] < ss[2]}
<1>1. IsWellFoundedOn(R, Nat)
  BY NatLessThanWellFounded DEF OpToRel
<1>2. \E x \in T : \A y \in T : ~(<<y, x>> \in R)
  <2> HIDE DEF R
  <2> QED BY Zenon, <1>1, WFMin
<1>3. PICK x \in T : \A y \in T : ~(<<y, x>> \in R)
  BY <1>2
<1>4. ASSUME NEW y \in T PROVE x <= y
  <2>1. x \in Nat /\ y \in Nat
    OBVIOUS
  <2>2. y < x => <<y, x>> \in R
    BY <2>1
  <2> HIDE DEF R
  <2> QED BY <1>3, <2>2, <2>1
<1> QED BY <1>4


-----------------------------------------------------------------------------
(* The loader, for every machine.  First the difference of the highest end   *)
(* and the lowest start of the segments: it is a number.                     *)
MapSize == Max({SegEnd(s) : s \in Loads}) - Min({machine.elf[s].vaddr : s \in Loads})

(* Min of a set of numbers is one of them, and no more than the others.     *)
LEMMA LeastIs ==
  ASSUME NEW T, T \subseteq Nat, T # {}
  PROVE  Min(T) \in T /\ \A y \in T : Min(T) <= y
BY Zenon, LeastNat DEF Min

(* A set of indices has one with the greatest value.                         *)
LEMMA GreatestOf ==
  ASSUME NEW n \in Nat, NEW f, \A k \in 1 .. n : f[k] \in Nat,
         NEW K \in SUBSET (1 .. n), K # {}
  PROVE  \E k \in K : \A l \in K : f[l] <= f[k]
<1> DEFINE Has(m) == \A J \in SUBSET (1 .. m) : J # {} => \E k \in J : \A l \in J : f[l] <= f[k]
           T == {m \in 0 .. n : ~Has(m)}
<1>1. Has(0)
  <2>1. \A k : ~(k \in 1 .. 0)
    OBVIOUS
  <2> QED BY Zenon, <2>1
<1>2. ASSUME NEW m \in 1 .. n, Has(m - 1) PROVE Has(m)
  <2> SUFFICES ASSUME NEW J \in SUBSET (1 .. m), J # {}
               PROVE  \E k \in J : \A l \in J : f[l] <= f[k]
    OBVIOUS
  <2>1. J \ {m} \in SUBSET (1 .. m - 1) /\ \A l \in J : f[l] \in Nat
    OBVIOUS
  <2>2. CASE J \ {m} = {}
    <3>1. m \in J /\ \A l \in J : l = m
      BY <2>2
    <3> QED BY <2>1, <3>1
  <2>3. CASE J \ {m} # {}
    <3>1. PICK k \in J \ {m} : \A l \in J \ {m} : f[l] <= f[k]
      BY Zenon, <1>2, <2>1, <2>3
    <3>2. CASE m \notin J \/ f[m] <= f[k]
      BY Zenon, <3>1, <3>2
    <3>3. CASE m \in J /\ f[k] <= f[m]
      <4>1. \A l \in J : f[l] <= f[m]
        BY <2>1, <3>1, <3>3
      <4> QED BY Zenon, <3>3, <4>1
    <3>4. m \in J => f[m] <= f[k] \/ f[k] <= f[m]
      BY <2>1
    <3> QED BY Zenon, <3>2, <3>3, <3>4
  <2> QED BY Zenon, <2>2, <2>3
<1> HIDE DEF Has
<1>3. ASSUME T # {} PROVE FALSE
  <2>1. T \subseteq Nat
    OBVIOUS
  <2>2. PICK m \in T : \A l \in T : m <= l
    <3> HIDE DEF T
    <3> QED BY Zenon, <1>3, <2>1, LeastNat
  <2>3. m \in 1 .. n /\ m - 1 \in 0 .. n /\ ~(m <= m - 1)
    BY <1>1, <2>2
  <2> QED BY <1>2, <2>2, <2>3
<1>4. Has(n)
  BY <1>3
<1> QED BY Zenon, <1>4 DEF Has

(* The size of the kernel's image is a number, and not negative.            *)
LEMMA SizeIsNumber ==
  ASSUME machine \in Machines
  PROVE  MapSize \in Nat
<1> DEFINE elf == machine.elf
           f == [s \in DOMAIN elf |-> SegEnd(s)]
           ends == {SegEnd(s) : s \in Loads}
           starts == {elf[s].vaddr : s \in Loads}
<1>1. /\ Len(elf) \in Nat /\ DOMAIN elf = 1 .. Len(elf)
      /\ \A s \in DOMAIN elf : elf[s].vaddr \in Nat /\ elf[s].memsz \in Nat
      /\ \E s \in DOMAIN elf : elf[s].type = 1
  <2>1. elf \in Seq(ProgramHeaders) /\ \E s \in DOMAIN elf : elf[s].type = 1
    BY Zenon, LoaderAssumption
  <2> HIDE DEF elf
  <2>2. Len(elf) \in Nat /\ DOMAIN elf = 1 .. Len(elf)
        /\ \A s \in DOMAIN elf : elf[s] \in ProgramHeaders
    BY <2>1
  <2>3. \A h \in ProgramHeaders : h.vaddr \in Nat /\ h.memsz \in Nat
    BY DEF ProgramHeaders
  <2> QED BY Zenon, <2>1, <2>2, <2>3
<1> HIDE DEF elf
<1>2. \A s \in DOMAIN elf : SegEnd(s) \in Nat
  BY <1>1 DEF SegEnd, elf
<1>3. Loads \in SUBSET (1 .. Len(elf)) /\ Loads # {}
  BY Zenon, <1>1 DEF Loads, IsLoad, elf
<1>4. starts \subseteq Nat /\ starts # {}
  BY Zenon, <1>1, <1>3
<1>5. Min(starts) \in Nat /\ \A y \in starts : Min(starts) <= y
  <2> HIDE DEF starts
  <2> QED BY Zenon, <1>4, LeastIs
<1>6. PICK k \in Loads : \A l \in Loads : f[l] <= f[k]
  <2>1. \A s \in 1 .. Len(elf) : f[s] \in Nat
    BY Zenon, <1>1, <1>2
  <2> HIDE DEF f
  <2> QED BY Zenon, <1>1, <1>3, <2>1, GreatestOf
<1>7. \A l \in Loads : SegEnd(l) \in Nat /\ SegEnd(l) <= SegEnd(k)
  BY Zenon, <1>1, <1>2, <1>3, <1>6
<1>8. \E x \in ends : \A y \in ends : x >= y
  <2>1. \A y \in ends : SegEnd(k) >= y
    BY <1>7
  <2> QED BY Zenon, <2>1
<1>9. Max(ends) \in Nat /\ \A y \in ends : Max(ends) >= y
  <2>1. ends \subseteq Nat
    BY Zenon, <1>7
  <2> HIDE DEF ends
  <2> QED BY Zenon, <1>8, <2>1 DEF Max
<1>10. elf[k].vaddr \in Nat /\ SegEnd(k) \in Nat /\ elf[k].vaddr <= SegEnd(k)
  BY <1>1, <1>3 DEF SegEnd, elf
<1>11. Min(starts) <= elf[k].vaddr /\ SegEnd(k) <= Max(ends)
  <2>1. elf[k].vaddr \in starts /\ SegEnd(k) \in ends
    BY Zenon, <1>6
  <2>2. Max(ends) >= SegEnd(k)
    BY Zenon, <1>9, <2>1
  <2> QED BY <1>5, <1>9, <1>10, <2>1, <2>2
<1>12. Max(ends) - Min(starts) \in Nat
  <2> HIDE DEF ends, starts
  <2> QED BY <1>5, <1>9, <1>10, <1>11
<1> QED BY Zenon, <1>12 DEF MapSize, elf

(* The next page boundary is no more than RoundUp.                           *)
LEMMA Padded ==
  ASSUME NEW a \in Nat
  PROVE  LET pad == IF a % PageSize = 0 THEN 0 ELSE PageSize - (a % PageSize)
         IN  pad \in Nat /\ a + pad <= RoundUp(a)
<1>1. PICK n \in Nat \ {0} : n = PageSize
  BY LoaderAssumption
<1>2. PICK q \in Nat, r \in 0 .. n - 1 : a = n * q + r /\ r = a % n
  <2>1. a \div n \in Nat /\ a % n \in 0 .. n - 1 /\ a = n * (a \div n) + (a % n)
    BY <1>1
  <2> QED BY Zenon, <2>1
<1>3. PICK u \in Nat, v \in 0 .. n - 1 : a + n - 1 = n * u + v /\ u = (a + n - 1) \div n
  <2>1. PICK b \in Nat : b = a + n - 1
    BY <1>1
  <2>2. b \div n \in Nat /\ b % n \in 0 .. n - 1 /\ b = n * (b \div n) + (b % n)
    BY <1>1
  <2> QED BY Zenon, <2>1, <2>2
<1>4. RoundUp(a) = n * u
  <2>1. RoundUp(a) = u * n
    BY Zenon, <1>1, <1>3 DEF RoundUp
  <2> QED BY <2>1, <1>1, <1>3
<1>5. n * u \in Nat /\ n * q \in Nat /\ n * u >= a
  BY <1>1, <1>2, <1>3
<1>6. CASE r = 0
  BY <1>1, <1>2, <1>4, <1>5, <1>6
<1>7. CASE r # 0
  <2>1. n * q < n * u
    BY <1>1, <1>2, <1>5, <1>7
  <2>2. ~(u <= q)
    <3> SUFFICES ASSUME u <= q PROVE FALSE
      OBVIOUS
    <3>1. PICK d \in Nat : q = u + d
      <4>1. q - u \in Nat /\ q = u + (q - u)
        BY <1>2, <1>3
      <4> QED BY <4>1
    <3>2. n * (u + d) = n * u + n * d /\ n * d \in Nat
      BY <1>1, <1>3
    <3> QED BY <2>1, <1>5, <3>1, <3>2
  <2>3. PICK d \in Nat : u = q + 1 + d
    <3>1. u - q - 1 \in Nat /\ u = q + 1 + (u - q - 1)
      BY <1>2, <1>3, <2>2
    <3> QED BY <3>1
  <2>4. n * (q + 1 + d) = n * q + n + n * d /\ n * d \in Nat
    BY <1>1, <1>2
  <2>5. n * u >= n * q + n
    BY <1>1, <1>5, <2>3, <2>4
  <2> QED BY <1>1, <1>2, <1>4, <1>5, <1>7, <2>5
<1> QED BY Zenon, <1>6, <1>7

-----------------------------------------------------------------------------
(* The inductive invariant: what the walk over the tags has seen, what the   *)
(* lowest address is at least, and where load_elf64_module puts the kernel.  *)
Reading == stage \in {"lmain", "tags"}
ImageEnd == (TableArea + AreaPages) * PageSize

TagInv ==
  /\ Reading => tag \in 1 .. Len(machine.tags)
  /\ mod.end \in {0, machine.mod_end}
  /\ \A k \in DOMAIN machine.tags :
       machine.tags[k] = "module" /\ (Reading => k < tag) => mod.end = machine.mod_end
  /\ memory_map \in {<< >>, machine.mmap}

LowestInv ==
  /\ stage = "tags" => min_elf64_addr = AtLeast(machine.mb_end, ImageEnd)
  /\ ~Reading => /\ min_elf64_addr \in Nat
                 /\ min_elf64_addr >= machine.mb_end /\ min_elf64_addr >= ImageEnd
                 /\ machine.valid => min_elf64_addr >= machine.mod_end

PlaceInv ==
  stage \in {"segments", "boot", "kernel"} /\ machine.valid =>
    \E size \in Nat : load.start = find_elf64_phys_origin(size) /\ load.end = load.start + size

LoaderInv ==
  /\ machine \in Machines
  /\ stage \in {"lmain", "tags", "elf", "segments", "boot", "kernel", "halt"}
  /\ TagInv /\ LowestInv /\ PlaceInv

(* The facts about a machine that the assumption on Machines gives.          *)
LEMMA MachineIs ==
  ASSUME machine \in Machines
  PROVE  /\ machine.mb_end \in Nat /\ machine.mod_end \in Nat /\ ImageEnd \in Nat
         /\ Len(machine.tags) \in Nat \ {0} /\ DOMAIN machine.tags = 1 .. Len(machine.tags)
         /\ machine.valid => \E k \in DOMAIN machine.tags : machine.tags[k] = "module"
<1>1. machine.mb_end \in Nat /\ machine.mod_end \in Nat
  BY LoaderAssumption
<1>2. ImageEnd \in Nat
  BY LoaderAssumption DEF ImageEnd
<1>3. machine.tags \in Seq({"module", "mmap", "other"}) /\ machine.tags # << >>
  BY Zenon, LoaderAssumption
<1>4. Len(machine.tags) \in Nat \ {0} /\ DOMAIN machine.tags = 1 .. Len(machine.tags)
  BY <1>3
<1>5. machine.valid => \E k \in DOMAIN machine.tags : machine.tags[k] = "module"
  BY Zenon, LoaderAssumption DEF Range
<1> QED BY Zenon, <1>1, <1>2, <1>4, <1>5

(* The loader starts in the invariant.                                       *)
LEMMA StartLoader == LoaderInit => LoaderInv
<1> SUFFICES ASSUME LoaderInit PROVE LoaderInv
  OBVIOUS
<1>1. TagInv
  BY MachineIs DEF LoaderInit, TagInv, Reading
<1>2. LowestInv /\ PlaceInv
  BY DEF LoaderInit, LowestInv, PlaceInv, Reading
<1> QED BY <1>1, <1>2 DEF LoaderInit, LoaderInv

(* The place depends on the memory map and the lowest address only.          *)
LEMMA SamePlace ==
  ASSUME UNCHANGED <<memory_map, min_elf64_addr>>, NEW size
  PROVE  find_elf64_phys_origin(size)' = find_elf64_phys_origin(size)
<1>1. ASSUME NEW e PROVE LowestIn(e)' = LowestIn(e) /\ Holds(e, size)' = Holds(e, size)
  BY Zenon DEF LowestIn, Holds
<1> QED BY Zenon, <1>1 DEF find_elf64_phys_origin

(* lmain sets the lowest address.                                            *)
LEMMA LmainStep == ASSUME LoaderInv, lmain PROVE LoaderInv'
<1>1. /\ stage = "lmain" /\ stage' = "tags" /\ machine' = machine /\ tag' = tag /\ mod' = mod
      /\ memory_map' = memory_map
      /\ min_elf64_addr' = AtLeast(machine.mb_end, ImageEnd)
  BY DEF lmain, ImageEnd
<1>2. TagInv'
  BY <1>1 DEF LoaderInv, TagInv, Reading
<1>3. LowestInv' /\ PlaceInv'
  BY <1>1 DEF LowestInv, PlaceInv, Reading, AtLeast, ImageEnd
<1> QED BY <1>1, <1>2, <1>3 DEF LoaderInv

(* ReadTag: the module's tag sets mod, and the end of the walk min.          *)
LEMMA TagStep == ASSUME LoaderInv, ReadTag PROVE LoaderInv'
<1>1. /\ stage = "tags" /\ machine' = machine /\ tag' = tag + 1 /\ machine \in Machines
      /\ tag \in 1 .. Len(machine.tags)
      /\ min_elf64_addr = AtLeast(machine.mb_end, ImageEnd)
  BY DEF ReadTag, LoaderInv, TagInv, LowestInv, Reading
<1>2. /\ machine.tags[tag] = "module" => mod'.end = machine.mod_end
      /\ machine.tags[tag] # "module" => mod' = mod
      /\ memory_map' \in {memory_map, machine.mmap}
  BY DEF ReadTag
<1>3. \/ tag < Len(machine.tags) /\ stage' = "tags" /\ min_elf64_addr' = min_elf64_addr
      \/ /\ ~(tag < Len(machine.tags)) /\ stage' = "elf"
         /\ min_elf64_addr' = AtLeast(min_elf64_addr, mod'.end)
  BY <1>1 DEF ReadTag
<1>4. /\ Len(machine.tags) \in Nat /\ DOMAIN machine.tags = 1 .. Len(machine.tags)
      /\ machine.mb_end \in Nat /\ machine.mod_end \in Nat /\ ImageEnd \in Nat
  BY Zenon, <1>1, MachineIs
<1>5. ASSUME NEW k \in DOMAIN machine.tags, machine.tags[k] = "module", Reading' => k < tag'
      PROVE  mod'.end = machine.mod_end
  <2>1. CASE k = tag
    BY Zenon, <1>2, <1>5, <2>1
  <2>2. CASE k # tag
    <3>1. k < tag
      BY <1>1, <1>3, <1>4, <1>5, <2>2 DEF Reading
    <3>2. mod.end = machine.mod_end
      BY Zenon, <1>5, <3>1 DEF LoaderInv, TagInv
    <3> QED BY Zenon, <1>2, <3>2
  <2> QED BY Zenon, <2>1, <2>2
<1>6. mod'.end \in {0, machine.mod_end}
  BY Zenon, <1>2 DEF LoaderInv, TagInv
<1>7. TagInv'
  <2>1. Reading' => tag' \in 1 .. Len(machine'.tags)
    BY <1>1, <1>3, <1>4 DEF Reading
  <2>2. memory_map' \in {<< >>, machine.mmap}
    BY Zenon, <1>2 DEF LoaderInv, TagInv
  <2> QED BY Zenon, <1>1, <1>5, <1>6, <2>1, <2>2 DEF TagInv
<1>8. LowestInv'
  <2>1. CASE stage' = "tags"
    BY <1>1, <1>3, <2>1 DEF LowestInv, Reading, AtLeast, ImageEnd
  <2>2. CASE stage' = "elf"
    <3>1. min_elf64_addr' = AtLeast(AtLeast(machine.mb_end, ImageEnd), mod'.end)
      BY <1>1, <1>3, <2>2
    <3>2. machine.valid => mod'.end = machine.mod_end
      <4>1. ~Reading'
        BY <2>2 DEF Reading
      <4> QED BY Zenon, <1>1, <1>5, <4>1, MachineIs
    <3>3. PICK x \in Nat : x = mod'.end
      BY <1>4, <1>6
    <3>4. PICK y \in Nat : y = AtLeast(AtLeast(machine.mb_end, ImageEnd), x)
                           /\ y >= machine.mb_end /\ y >= ImageEnd /\ y >= x
      BY <1>4 DEF AtLeast
    <3>5. min_elf64_addr' = y /\ (machine.valid => y >= machine.mod_end)
      BY <3>1, <3>2, <3>3, <3>4
    <3> QED BY <1>1, <2>2, <3>4, <3>5 DEF LowestInv, ImageEnd
  <2> QED BY Zenon, <1>3, <2>1, <2>2
<1>9. PlaceInv'
  BY <1>3 DEF PlaceInv
<1> QED BY <1>1, <1>3, <1>7, <1>8, <1>9 DEF LoaderInv

(* load_elf64_module places the kernel.                                      *)
LEMMA PlaceStep == ASSUME LoaderInv, load_elf64_module PROVE LoaderInv'
<1>1. /\ stage = "elf" /\ UNCHANGED <<machine, tag, min_elf64_addr, mod, memory_map>>
      /\ machine \in Machines
  BY DEF load_elf64_module, LoaderInv
<1>2. stage' = IF machine.valid THEN "segments" ELSE "boot"
  BY DEF load_elf64_module
<1>3. TagInv' /\ LowestInv'
  BY <1>1, <1>2 DEF LoaderInv, TagInv, LowestInv, Reading, ImageEnd
<1>4. PlaceInv'
  <2>1. CASE machine.valid
    <3>1. load'.start = find_elf64_phys_origin(MapSize) /\ load'.end = load'.start + MapSize
      <4>1. load' = [start |-> find_elf64_phys_origin(MapSize),
                     end |-> find_elf64_phys_origin(MapSize) + MapSize]
        BY Zenon, <2>1 DEF load_elf64_module, MapSize
      <4> QED BY <4>1
    <3>2. PICK size \in Nat : load'.start = find_elf64_phys_origin(size)
                              /\ load'.end = load'.start + size
      BY Zenon, <1>1, <3>1, SizeIsNumber
    <3>3. find_elf64_phys_origin(size)' = find_elf64_phys_origin(size)
      BY Zenon, <1>1, SamePlace
    <3> QED BY Zenon, <3>2, <3>3 DEF PlaceInv
  <2>2. CASE ~machine.valid
    BY Zenon, <1>1, <2>2 DEF PlaceInv
  <2> QED BY Zenon, <2>1, <2>2
<1> QED BY <1>1, <1>2, <1>3, <1>4 DEF LoaderInv

(* What follows leaves all of this alone.                                    *)
LEMMA LoadStep ==
  ASSUME LoaderInv, LoadSegment \/ setup_longmode \/ UNCHANGED loaderVars
  PROVE  LoaderInv'
<1>1. UNCHANGED <<machine, tag, min_elf64_addr, mod, memory_map, load>>
  BY DEF LoadSegment, setup_longmode, loaderVars
<1>2. \/ stage' = stage
      \/ /\ stage \in {"segments", "boot"} /\ stage' \in {"boot", "kernel", "halt"}
  BY DEF LoadSegment, setup_longmode, loaderVars
<1>3. TagInv' /\ LowestInv'
  BY <1>1, <1>2 DEF LoaderInv, TagInv, LowestInv, Reading, ImageEnd
<1>4. PlaceInv'
  <2> SUFFICES ASSUME stage' \in {"segments", "boot", "kernel"}, machine.valid
               PROVE  \E size \in Nat : /\ load.start = find_elf64_phys_origin(size)'
                                        /\ load.end = load.start + size
    BY Zenon, <1>1 DEF PlaceInv
  <2>1. stage \in {"segments", "boot", "kernel"}
    BY <1>2
  <2> QED BY Zenon, <1>1, <2>1, SamePlace DEF LoaderInv, PlaceInv
<1> QED BY <1>1, <1>2, <1>3, <1>4 DEF LoaderInv

(* Whatever the memory map, the place found is a number.                     *)
LEMMA LowestIsInt == \A x : x \in Int => x % Addr32 \in Int
BY LoaderAssumption

(* What the code takes of a range: the part above the lowest address, from   *)
(* the next page boundary on.                                                *)
LEMMA WhatIsTaken ==
  ASSUME NEW e, e.base_addr \in Nat, e.length \in Nat, e.length < Word,
         min_elf64_addr \in Nat
  PROVE  \E skip, pad \in Nat :
           /\ LowestIn(e) = [base |-> e.base_addr + skip + pad,
                             length |-> (e.length - skip - pad) % Word,
                             skipped |-> skip > e.length \/ skip >= Addr32 \div 2]
           /\ skip = 0 \/ skip = min_elf64_addr - e.base_addr
           /\ e.base_addr + skip = AtLeast(e.base_addr, min_elf64_addr)
           /\ e.base_addr + skip >= min_elf64_addr
           /\ e.base_addr + skip + pad <= RoundUp(AtLeast(e.base_addr, min_elf64_addr))
           /\ e.base_addr + skip + pad <= EndOfEntry(e) =>
                (e.length - skip - pad) % Word = EndOfEntry(e) - (e.base_addr + skip + pad)
<1>1. PICK min \in Nat : min = min_elf64_addr
  OBVIOUS
<1>2. PICK skip : skip = IF e.base_addr < min THEN min - e.base_addr ELSE 0
  OBVIOUS
<1>3. PICK base : base = e.base_addr + skip
  OBVIOUS
<1>4. /\ skip \in Nat /\ base \in Nat /\ base >= min /\ base = AtLeast(e.base_addr, min)
      /\ skip = 0 \/ skip = min - e.base_addr
  BY <1>1, <1>2, <1>3 DEF AtLeast
<1>5. PICK pad : pad = IF base % PageSize = 0 THEN 0 ELSE PageSize - (base % PageSize)
  OBVIOUS
<1>6. pad \in Nat /\ base + pad <= RoundUp(base)
  BY Zenon, <1>4, <1>5, Padded
<1>7. LowestIn(e) = [base |-> base + pad, length |-> (e.length - skip - pad) % Word,
                     skipped |-> skip > e.length \/ skip >= Addr32 \div 2]
  BY Zenon, <1>1, <1>2, <1>3, <1>5 DEF LowestIn
<1>8. ASSUME base + pad <= EndOfEntry(e)
      PROVE  (e.length - skip - pad) % Word = EndOfEntry(e) - (base + pad)
  <2>1. PICK rest : rest = e.length - skip - pad
    OBVIOUS
  <2>2. EndOfEntry(e) = e.base_addr + e.length /\ Word \in Nat \ {0}
    BY LoaderAssumption DEF EndOfEntry
  <2>3. rest \in 0 .. Word - 1 /\ rest = EndOfEntry(e) - (base + pad)
    BY <1>3, <1>4, <1>6, <1>8, <2>1, <2>2
  <2>4. \A x \in 0 .. Word - 1 : x % Word = x
    BY <2>2
  <2> QED BY Zenon, <2>1, <2>3, <2>4
<1>9. base + pad = e.base_addr + skip + pad
  BY <1>3
<1> QED BY Zenon, <1>1, <1>3, <1>4, <1>6, <1>7, <1>8, <1>9

(* The code takes a range that has room, if it is sound.                     *)
LEMMA RoomHolds ==
  ASSUME NEW e, e.base_addr \in Nat, e.length \in Nat, e.length < Word,
         min_elf64_addr \in Nat, NEW size \in Nat, load.end - load.start = size, Room(e)
  PROVE  Holds(e, size)
<1>1. PICK skip \in Nat, pad \in Nat :
           /\ LowestIn(e) = [base |-> e.base_addr + skip + pad,
                             length |-> (e.length - skip - pad) % Word,
                             skipped |-> skip > e.length \/ skip >= Addr32 \div 2]
           /\ skip = 0 \/ skip = min_elf64_addr - e.base_addr
           /\ e.base_addr + skip = AtLeast(e.base_addr, min_elf64_addr)
           /\ e.base_addr + skip >= min_elf64_addr
           /\ e.base_addr + skip + pad <= RoundUp(AtLeast(e.base_addr, min_elf64_addr))
           /\ e.base_addr + skip + pad <= EndOfEntry(e) =>
                (e.length - skip - pad) % Word = EndOfEntry(e) - (e.base_addr + skip + pad)
  BY Zenon, WhatIsTaken
<1>2. PICK up : up = RoundUp(AtLeast(e.base_addr, min_elf64_addr))
  OBVIOUS
<1>3. up \in Int
  BY <1>1, <1>2, LoaderAssumption DEF RoundUp
<1>4. /\ e.type = 1 /\ min_elf64_addr - e.base_addr < Addr32 \div 2 /\ up + size <= EndOfEntry(e)
  BY Zenon, <1>2 DEF Room
<1>5. EndOfEntry(e) = e.base_addr + e.length
  BY DEF EndOfEntry
<1>6. e.base_addr + skip + pad + size <= EndOfEntry(e)
  <2>1. PICK a \in Int : a = e.base_addr + skip + pad
    OBVIOUS
  <2>2. EndOfEntry(e) \in Int
    BY <1>5
  <2>3. a <= up /\ up + size <= EndOfEntry(e)
    BY Zenon, <1>1, <1>2, <1>4, <2>1
  <2>4. a + size <= EndOfEntry(e)
    BY <1>3, <2>2, <2>3
  <2> QED BY Zenon, <2>1, <2>4
<1>7. ~(skip > e.length)
  BY <1>5, <1>6
<1>8. ~(skip >= Addr32 \div 2)
  <2>1. PICK half \in Nat \ {0} : half = Addr32 \div 2
    <3>1. Addr32 \in Nat /\ Addr32 > 1
      BY LoaderAssumption
    <3> QED BY <3>1
  <2>2. skip = 0 \/ skip = min_elf64_addr - e.base_addr
    BY Zenon, <1>1
  <2> QED BY <1>4, <2>1, <2>2
<1>9. (e.length - skip - pad) % Word >= size
  <2>1. e.base_addr + skip + pad <= EndOfEntry(e)
    BY <1>5, <1>6
  <2>2. (e.length - skip - pad) % Word = EndOfEntry(e) - (e.base_addr + skip + pad)
    BY Zenon, <1>1, <2>1
  <2> QED BY <1>5, <1>6, <2>2
<1>10. LowestIn(e).length = (e.length - skip - pad) % Word
       /\ LowestIn(e).skipped = (skip > e.length \/ skip >= Addr32 \div 2)
  BY <1>1
<1> QED BY Zenon, <1>4, <1>7, <1>8, <1>9, <1>10 DEF Holds

(* First fit does not get past the range that has room, so the one it takes  *)
(* is sound.                                                                 *)
LEMMA TakenIsSound ==
  ASSUME LoaderInv, Placed
  PROVE  \E e \in Range(machine.mmap), size \in Nat :
           /\ Holds(e, size) /\ Sound(e)
           /\ e.base_addr \in Nat /\ e.length \in Nat /\ e.length < Word
           /\ load.start = LowestIn(e).base % Addr32 /\ load.end = load.start + size
<1>1. /\ stage = "kernel" /\ machine.valid /\ load.start # 0 /\ machine \in Machines
      /\ min_elf64_addr \in Nat
  BY DEF LoaderInv, LowestInv, Placed, Done, Reading
<1>2. PICK size \in Nat : load.start = find_elf64_phys_origin(size) /\ load.end = load.start + size
  BY Zenon, <1>1 DEF LoaderInv, PlaceInv
<1> DEFINE fit == {k \in DOMAIN memory_map : Holds(memory_map[k], size)}
<1>3. fit # {} /\ load.start = LowestIn(memory_map[Min(fit)]).base % Addr32
  BY Zenon, <1>1, <1>2 DEF find_elf64_phys_origin
<1>4. /\ memory_map = machine.mmap /\ Len(machine.mmap) \in Nat
      /\ DOMAIN machine.mmap = 1 .. Len(machine.mmap)
      /\ \A k \in DOMAIN machine.mmap :
           /\ machine.mmap[k].base_addr \in Nat /\ machine.mmap[k].length \in Nat
           /\ machine.mmap[k].length < Word
  <2>1. memory_map # << >>
    BY <1>3
  <2>2. memory_map = machine.mmap
    BY Zenon, <2>1 DEF LoaderInv, TagInv
  <2>3. machine.mmap \in Seq(MapEntries) /\ \A x \in Range(machine.mmap) : x.length < Word
    BY Zenon, <1>1, LoaderAssumption
  <2>4. Len(machine.mmap) \in Nat /\ DOMAIN machine.mmap = 1 .. Len(machine.mmap)
        /\ \A k \in DOMAIN machine.mmap : machine.mmap[k] \in MapEntries
    BY <2>3
  <2>5. \A x \in MapEntries : x.base_addr \in Nat /\ x.length \in Nat
    BY DEF MapEntries
  <2> QED BY Zenon, <2>2, <2>3, <2>4, <2>5 DEF Range
<1>5. Min(fit) \in fit /\ (\A y \in fit : Min(fit) <= y) /\ fit \subseteq 1 .. Len(machine.mmap)
  <2>1. fit \subseteq 1 .. Len(machine.mmap)
    BY Zenon, <1>4
  <2>2. 1 .. Len(machine.mmap) \subseteq Nat
    OBVIOUS
  <2>3. fit \subseteq Nat
    BY Zenon, <2>1, <2>2
  <2> HIDE DEF fit
  <2> QED BY Zenon, <1>3, <2>1, <2>3, LeastIs
<1>6. PICK k \in DOMAIN machine.mmap :
        Room(machine.mmap[k]) /\ \A j \in 1 .. k : Sound(machine.mmap[j])
  BY Zenon DEF Placed
<1>7. load.end - load.start = size
  <2>1. PICK e : e = machine.mmap[Min(fit)]
    OBVIOUS
  <2>2. e.base_addr \in Nat /\ e.length \in Nat /\ e.length < Word
    BY Zenon, <1>4, <1>5, <2>1
  <2>3. \E skip, pad \in Nat : LowestIn(e) = [base |-> e.base_addr + skip + pad,
                                     length |-> (e.length - skip - pad) % Word,
                                     skipped |-> skip > e.length \/ skip >= Addr32 \div 2]
    BY Zenon, <1>1, <2>2, WhatIsTaken
  <2>4. LowestIn(e).base \in Int
    BY <2>2, <2>3
  <2>5. load.start = LowestIn(e).base % Addr32
    BY Zenon, <1>3, <1>4, <2>1
  <2>6. load.start \in Int
    BY Zenon, <2>4, <2>5, LowestIsInt
  <2> QED BY <1>2, <2>6
<1>8. Holds(machine.mmap[k], size)
  BY Zenon, <1>1, <1>4, <1>6, <1>7, RoomHolds
<1>9. Min(fit) <= k
  BY Zenon, <1>4, <1>5, <1>8
<1> HIDE DEF fit
<1>10. Min(fit) \in 1 .. k /\ Min(fit) \in DOMAIN machine.mmap
  <2>1. Min(fit) \in 1 .. Len(machine.mmap) /\ k \in 1 .. Len(machine.mmap)
    BY Zenon, <1>4, <1>5, <1>6
  <2>2. Min(fit) \in 1 .. k
    BY <1>9, <2>1
  <2> QED BY Zenon, <1>4, <2>1, <2>2
<1>11. Holds(machine.mmap[Min(fit)], size)
  BY Zenon, <1>4, <1>5 DEF fit
<1>12. Sound(machine.mmap[Min(fit)]) /\ machine.mmap[Min(fit)] \in Range(machine.mmap)
  BY Zenon, <1>6, <1>10 DEF Range
<1> QED BY Zenon, <1>2, <1>3, <1>4, <1>10, <1>11, <1>12

(* The place that was found is as the property asks: what is skipped of the  *)
(* range and what is added to reach a page boundary leave room for the size. *)
LEMMA ApartFollows == LoaderInv => LoadedApart
<1> SUFFICES ASSUME LoaderInv, Placed
             PROVE  /\ \E e \in Range(machine.mmap) :
                         e.type = 1 /\ e.base_addr <= load.start /\ load.end <= EndOfEntry(e)
                    /\ load.start >= machine.mb_end /\ load.start >= machine.mod_end
                    /\ load.start >= (TableArea + AreaPages) * PageSize
  BY DEF LoadedApart
<1>1. /\ load.start # 0 /\ machine \in Machines
      /\ min_elf64_addr \in Nat /\ min_elf64_addr >= machine.mb_end
      /\ min_elf64_addr >= ImageEnd /\ min_elf64_addr >= machine.mod_end
  BY DEF LoaderInv, LowestInv, Placed, Done, Reading
<1>2. PICK e \in Range(machine.mmap), size \in Nat :
           /\ Holds(e, size) /\ Sound(e)
           /\ e.base_addr \in Nat /\ e.length \in Nat /\ e.length < Word
           /\ load.start = LowestIn(e).base % Addr32 /\ load.end = load.start + size
  BY Zenon, TakenIsSound
<1>3. PICK skip \in Nat, pad \in Nat :
           /\ LowestIn(e) = [base |-> e.base_addr + skip + pad,
                             length |-> (e.length - skip - pad) % Word,
                             skipped |-> skip > e.length \/ skip >= Addr32 \div 2]
           /\ skip = 0 \/ skip = min_elf64_addr - e.base_addr
           /\ e.base_addr + skip = AtLeast(e.base_addr, min_elf64_addr)
           /\ e.base_addr + skip >= min_elf64_addr
           /\ e.base_addr + skip + pad <= RoundUp(AtLeast(e.base_addr, min_elf64_addr))
           /\ e.base_addr + skip + pad <= EndOfEntry(e) =>
                (e.length - skip - pad) % Word = EndOfEntry(e) - (e.base_addr + skip + pad)
  BY Zenon, <1>1, <1>2, WhatIsTaken
<1>4. PICK at \in Nat : at = e.base_addr + skip + pad
  BY <1>2, <1>3
<1>5. /\ e.type = 1 /\ ~(skip > e.length) /\ (e.length - skip - pad) % Word >= size
      /\ load.start = at % Addr32
  <2>1. /\ LowestIn(e).base = at /\ LowestIn(e).length = (e.length - skip - pad) % Word
        /\ LowestIn(e).skipped = (skip > e.length \/ skip >= Addr32 \div 2)
    BY <1>3, <1>4
  <2> QED BY Zenon, <1>2, <2>1 DEF Holds
<1>6. EndOfEntry(e) = e.base_addr + e.length /\ EndOfEntry(e) \in Nat
      /\ EndOfEntry(e) >= min_elf64_addr
  <2>1. EndOfEntry(e) = e.base_addr + e.length
    BY DEF EndOfEntry
  <2>2. e.base_addr + skip >= min_elf64_addr
    BY Zenon, <1>3
  <2> QED BY <1>1, <1>2, <1>5, <2>1, <2>2
<1>7. PICK up : up = RoundUp(AtLeast(e.base_addr, min_elf64_addr))
  OBVIOUS
<1>8. at <= up /\ up <= EndOfEntry(e) /\ EndOfEntry(e) <= Addr32
  BY Zenon, <1>2, <1>3, <1>4, <1>5, <1>6, <1>7 DEF Sound
<1>9. up \in Int /\ Addr32 \in Nat \ {0}
  BY <1>3, <1>7, LoaderAssumption DEF RoundUp
<1>10. at <= EndOfEntry(e) /\ at <= Addr32
  BY <1>6, <1>8, <1>9
<1>11. load.start = at
  <2>1. Addr32 % Addr32 = 0
    BY <1>9
  <2>2. at # Addr32
    BY Zenon, <1>1, <1>5, <2>1
  <2>3. at \in 0 .. Addr32 - 1
    BY <1>9, <1>10, <2>2
  <2>4. \A x \in 0 .. Addr32 - 1 : x % Addr32 = x
    BY <1>9
  <2> QED BY Zenon, <1>5, <2>3, <2>4
<1>12. EndOfEntry(e) - at >= size
  BY Zenon, <1>3, <1>4, <1>5, <1>10
<1>13. load.end <= EndOfEntry(e)
  BY <1>2, <1>6, <1>11, <1>12
<1>14. e.base_addr <= load.start /\ load.start >= min_elf64_addr
  <2>1. e.base_addr + skip >= min_elf64_addr
    BY Zenon, <1>3
  <2> QED BY <1>1, <1>2, <1>4, <1>11, <2>1
<1>15. load.start >= machine.mb_end /\ load.start >= machine.mod_end /\ load.start >= ImageEnd
  BY <1>1, <1>11, <1>14, MachineIs
<1> QED BY Zenon, <1>2, <1>5, <1>13, <1>14, <1>15 DEF ImageEnd

(* LoaderInv is an invariant of the loader.                                  *)
THEOREM LoaderInvariant == LoaderSpec => []LoaderInv
<1>1. LoaderInv /\ [LoaderNext]_loaderVars => LoaderInv'
  BY Zenon, LmainStep, TagStep, PlaceStep, LoadStep DEF LoaderNext
<1> QED BY <1>1, StartLoader, PTL DEF LoaderSpec

(* On every machine find_elf64_phys_origin puts the kernel into one usable   *)
(* range, clear of the loader, the multiboot structure and the module.       *)
THEOREM KernelIsApart == LoaderSpec => []LoadedApart
BY LoaderInvariant, ApartFollows, PTL
=============================================================================
