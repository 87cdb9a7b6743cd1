---------------------------- MODULE BootMemProofs ----------------------------
(***************************************************************************)
(* Proofs about BootMem for any machine: arithmetic on pages, the inductive *)
(* invariant BInv, and the steps that preserve it, from the information of  *)
(* the boot loader over the search for a region that holds the stack of     *)
(* free pages and the loops over entries and pages to _init_paging.  What   *)
(* the boot code does with the memory of any machine follows from BInv.     *)
(***************************************************************************)
EXTENDS BootMem, WellFoundedInduction, TLAPS

-----------------------------------------------------------------------------
(* Naturals: a least element, and multiples of the page size.               *)
LEMMA LeastNat ==
  ASSUME NEW T, T \subseteq Nat, T # {}
  PROVE  \E x \in T : \A y \in T : x <= y
<1> DEFINE R == {ss \in Nat \X Nat : ss[1] < ss[2]}
<1>1. IsWellFoundedOn(R, Nat)
  BY NatLessThanWellFounded DEF OpToRel
<1>2. \E x \in T : \A y \in T : ~(<<y, x>> \in R)
  <2> HIDE DEF R
  <2> QED BY Zenon, <1>1, WFMin
<1>3. PICK x \in T : \A y \in T : ~(<<y, x>> \in R)
  BY <1>2
<1>4. ASSUME NEW y \in T PROVE x <= y
  <2>1. x \in Nat /\ y \in Nat
    OBVIOUS
  <2>2. y < x => <<y, x>> \in R
    BY <2>1
  <2> HIDE DEF R
  <2> QED BY <1>3, <2>2, <2>1
<1> QED BY <1>4

(* Min of a set of numbers is its least element.                            *)
LEMMA MinOfNats ==
  ASSUME NEW T, T \subseteq Nat, T # {}
  PROVE  Min(T) \in T /\ \A y \in T : Min(T) <= y
BY Zenon, LeastNat DEF Min

(* The elements of a sequence have a greatest one.                          *)
LEMMA MaxOfSeq ==
  ASSUME NEW s \in Seq(Nat), s # << >>
  PROVE  \E k \in DOMAIN s : \A l \in DOMAIN s : s[l] <= s[k]
<1> DEFINE Top(n) == \E k \in 1 .. n : \A l \in 1 .. n : s[l] <= s[k]
           T == {n \in 1 .. Len(s) : ~Top(n)}
<1>1. Len(s) \in Nat /\ DOMAIN s = 1 .. Len(s) /\ Len(s) > 0 /\ \A k \in 1 .. Len(s) : s[k] \in Nat
  OBVIOUS
<1>2. ASSUME NEW n \in 1 .. Len(s), n = 1 \/ Top(n - 1) PROVE Top(n)
  <2>1. CASE n = 1
    BY <1>1, <2>1
  <2>2. CASE n # 1 /\ Top(n - 1)
    <3>1. PICK k \in 1 .. n - 1 : \A l \in 1 .. n - 1 : s[l] <= s[k]
      BY <2>2
    <3>2. k \in 1 .. n /\ n \in 1 .. n /\ s[k] \in Nat /\ s[n] \in Nat
      BY <1>1, <2>2
    <3>3. \A l \in 1 .. n : (l = n \/ l \in 1 .. n - 1) /\ s[l] \in Nat
      BY <1>1
    <3>4. CASE s[n] <= s[k]
      BY Zenon, <3>1, <3>2, <3>3, <3>4
    <3>5. CASE s[k] <= s[n]
      <4>1. \A l \in 1 .. n : s[l] <= s[n]
        BY SMTT(30), <3>1, <3>2, <3>3, <3>5
      <4> QED BY <3>2, <4>1
    <3>6. s[n] <= s[k] \/ s[k] <= s[n]
      BY <3>2
    <3> QED BY <3>4, <3>5, <3>6
  <2> QED BY <1>2, <2>1, <2>2
<1> HIDE DEF Top
<1>3. ASSUME T # {} PROVE FALSE
  <2>1. T \subseteq Nat
    BY <1>1
  <2>2. PICK n \in T : \A m \in T : n <= m
    <3> HIDE DEF T
    <3> QED BY Zenon, <1>3, <2>1, LeastNat
  <2>3. n \in 1 .. Len(s) /\ ~Top(n)
    BY <2>2
  <2>4. n # 1 => Top(n - 1)
    BY <1>1, <2>2, <2>3
  <2> QED BY <1>2, <2>3, <2>4
<1>4. Top(Len(s))
  BY <1>1, <1>3
<1> QED BY Zenon, <1>1, <1>4 DEF Top

(* Max of a finite set of numbers is its greatest element.                  *)
LEMMA MaxOfNats ==
  ASSUME NEW T, T \subseteq Nat, T # {}, IsFiniteSet(T)
  PROVE  Max(T) \in T /\ \A y \in T : y <= Max(T)
<1>1. PICK s \in Seq(T) : \A t \in T : \E n \in 1 .. Len(s) : s[n] = t
  BY DEF IsFiniteSet
<1>2. DOMAIN s = 1 .. Len(s) /\ \A n \in DOMAIN s : s[n] \in T
  BY <1>1
<1>5. s \in Seq(Nat) /\ s # << >>
  <2>1. PICK t \in T : TRUE
    OBVIOUS
  <2>2. PICK n \in 1 .. Len(s) : s[n] = t
    BY <1>1, <2>1
  <2>3. Len(s) # 0
    BY <2>2
  <2>4. Len(s) \in Nat /\ s \in [1 .. Len(s) -> Nat]
    <3>1. Len(s) \in Nat /\ s \in [1 .. Len(s) -> T]
      BY <1>1
    <3> QED BY Zenon, <3>1
  <2> QED BY <2>3, <2>4
<1>3. PICK k \in DOMAIN s : \A l \in DOMAIN s : s[l] <= s[k]
  BY <1>5, MaxOfSeq
<1>4. s[k] \in T /\ \A y \in T : y <= s[k]
  BY <1>1, <1>2, <1>3
<1> QED BY Zenon, <1>4 DEF Max

(* Quotient and remainder.                                                  *)
LEMMA DivMod ==
  ASSUME NEW p \in Nat \ {0}, NEW x \in Nat
  PROVE  x % p \in 0 .. p - 1 /\ x \div p \in Nat /\ x = p * (x \div p) + (x % p)
OBVIOUS

(* A quotient and a remainder are the only ones.                            *)
LEMMA DivModUnique ==
  ASSUME NEW p \in Nat \ {0}, NEW k \in Nat, NEW r \in 0 .. p - 1, NEW x, x = p * k + r
  PROVE  x \div p = k /\ x % p = r
<1> DEFINE q == x \div p
           s == x % p
<1>1. p * k \in Nat /\ x \in Nat
  OBVIOUS
<1>2. q \in Nat /\ s \in 0 .. p - 1 /\ x = p * q + s
  BY Zenon, <1>1, DivMod
<1> HIDE DEF q, s
<1>3. ASSUME NEW a \in Nat, NEW b \in Nat, a < b, NEW u \in 0 .. p - 1, NEW v \in 0 .. p - 1
      PROVE  p * a + u # p * b + v
  <2>1. PICK d \in Nat : b = a + 1 + d
    <3>1. b - a - 1 \in Nat /\ b = a + 1 + (b - a - 1)
      BY <1>3
    <3> QED BY <3>1
  <2>2. p * (a + 1 + d) = p * a + p + p * d /\ p * d \in Nat /\ p * a \in Nat
    OBVIOUS
  <2> QED BY <2>1, <2>2
<1>4. q = k
  <2>1. ~(q < k)
    BY <1>2, <1>3
  <2>2. ~(k < q)
    BY <1>2, <1>3
  <2> QED BY <1>2, <2>1, <2>2
<1>5. s = r
  BY <1>1, <1>2, <1>4
<1> QED BY <1>4, <1>5 DEF q, s

(* Multiples of the page size: no two lie less than a page apart.           *)
LEMMA Multiples ==
  ASSUME NEW a \in Nat, NEW b \in Nat, a % PageSize = 0, b % PageSize = 0
  PROVE  /\ (a + PageSize) % PageSize = 0
         /\ a < b => a + PageSize <= b
         /\ a <= b => \E q \in Nat : b = a + q * PageSize
<1>1. PageSize \in Nat \ {0}
  BY BootMemAssumption
<1>2. PICK k \in Nat : a = PageSize * k
  <2>1. a \div PageSize \in Nat /\ a = PageSize * (a \div PageSize) + (a % PageSize)
    BY <1>1, DivMod
  <2>2. a = PageSize * (a \div PageSize)
    BY <1>1, <2>1
  <2> QED BY <2>1, <2>2
<1>3. PICK l \in Nat : b = PageSize * l
  <2>1. b \div PageSize \in Nat /\ b = PageSize * (b \div PageSize) + (b % PageSize)
    BY <1>1, DivMod
  <2>2. b = PageSize * (b \div PageSize)
    BY <1>1, <2>1
  <2> QED BY <2>1, <2>2
<1>4. (a + PageSize) % PageSize = 0
  <2>1. a + PageSize = PageSize * (k + 1) + 0 /\ k + 1 \in Nat /\ 0 \in 0 .. PageSize - 1
    BY <1>1, <1>2
  <2>2. \A x : x = PageSize * (k + 1) + 0 => x % PageSize = 0
    BY <1>1, <2>1, DivModUnique
  <2> QED BY <2>1, <2>2
<1>5. ASSUME k < l PROVE a + PageSize <= b /\ \E q \in Nat : b = a + q * PageSize
  <2>1. PICK d \in Nat : l = k + 1 + d
    <3>1. l - k - 1 \in Nat /\ l = k + 1 + (l - k - 1)
      BY <1>5
    <3> QED BY <3>1
  <2>2. PageSize * (k + 1 + d) = PageSize * k + PageSize + PageSize * d /\ PageSize * d \in Nat
    BY <1>1
  <2>3. b = a + (d + 1) * PageSize
    BY <1>1, <1>2, <1>3, <2>1
  <2> QED BY <1>1, <1>2, <1>3, <2>1, <2>2, <2>3
<1>6. ASSUME l < k PROVE b < a
  <2>1. PICK d \in Nat : k = l + 1 + d
    <3>1. k - l - 1 \in Nat /\ k = l + 1 + (k - l - 1)
      BY <1>6
    <3> QED BY <3>1
  <2>2. PageSize * (l + 1 + d) = PageSize * l + PageSize + PageSize * d /\ PageSize * d \in Nat
    BY <1>1
  <2> QED BY <1>1, <1>2, <1>3, <2>1, <2>2
<1>7. ASSUME k = l PROVE a = b /\ b = a + 0 * PageSize
  BY <1>1, <1>2, <1>3, <1>7
<1> QED BY <1>4, <1>5, <1>6, <1>7

(* Rounding to page boundaries.                                             *)
LEMMA Rounding ==
  ASSUME NEW a \in Nat
  PROVE  /\ Up(a) \in Nat /\ Up(a) % PageSize = 0 /\ a <= Up(a) /\ Up(a) < a + PageSize
         /\ Down(a) \in Nat /\ Down(a) % PageSize = 0 /\ Down(a) <= a /\ a < Down(a) + PageSize
<1>1. PageSize \in Nat \ {0}
  BY BootMemAssumption
<1>2. ASSUME NEW x \in Nat
      PROVE  /\ Down(x) \in Nat /\ Down(x) % PageSize = 0
             /\ Down(x) <= x /\ x < Down(x) + PageSize
  <2>1. PICK q \in Nat, r \in 0 .. PageSize - 1 : x \div PageSize = q /\ x = PageSize * q + r
    BY <1>1, DivMod
  <2>2. Down(x) = PageSize * q + 0 /\ 0 \in 0 .. PageSize - 1 /\ PageSize * q \in Nat
    BY <1>1, <2>1 DEF Down
  <2>3. Down(x) % PageSize = 0
    BY Zenon, <1>1, <2>2, DivModUnique
  <2> QED BY <1>1, <2>1, <2>2, <2>3
<1>3. Up(a) = Down(a + PageSize - 1) /\ a + PageSize - 1 \in Nat
  BY <1>1 DEF Up, Down
<1>4. /\ Up(a) \in Nat /\ Up(a) % PageSize = 0
      /\ Up(a) <= a + PageSize - 1 /\ a + PageSize - 1 < Up(a) + PageSize
  BY <1>2, <1>3
<1>5. a <= Up(a) /\ Up(a) < a + PageSize
  <2>1. ASSUME NEW u \in Nat, u <= a + PageSize - 1, a + PageSize - 1 < u + PageSize
        PROVE  a <= u /\ u < a + PageSize
    BY <1>1, <2>1
  <2> QED BY <1>4, <2>1
<1>6. Down(a) \in Nat /\ Down(a) % PageSize = 0 /\ Down(a) <= a /\ a < Down(a) + PageSize
  BY <1>2
<1> QED BY <1>4, <1>5, <1>6

(* The pages that lie in an entry, by their bytes and by the bounds of the  *)
(* loop of pmm_init.                                                        *)
LEMMA PageInside ==
  ASSUME NEW base \in Nat, NEW end \in Nat, NEW p \in Nat, p % PageSize = 0
  PROVE  /\ PageBytes(p) \subseteq base .. end - 1 <=> Up(base) <= p /\ p < Down(end)
         /\ Up(base) <= p /\ p < Down(end) => base <= p /\ p + PageSize <= end
<1>1. PageSize \in Nat \ {0}
  BY BootMemAssumption
<1>2. PageBytes(p) \subseteq base .. end - 1 <=> base <= p /\ p + PageSize <= end
  <2>1. p \in PageBytes(p) /\ p + PageSize - 1 \in PageBytes(p)
    BY <1>1 DEF PageBytes
  <2> QED BY <1>1, <2>1 DEF PageBytes
<1>3. Up(base) <= p <=> base <= p
  <2>1. PICK u \in Nat : u = Up(base) /\ u % PageSize = 0 /\ base <= u /\ u < base + PageSize
    BY Rounding
  <2>2. p < u => p + PageSize <= u
    BY <2>1, Multiples
  <2> QED BY <1>1, <2>1, <2>2
<1>4. p < Down(end) <=> p + PageSize <= end
  <2>1. PICK d \in Nat : d = Down(end) /\ d % PageSize = 0 /\ d <= end /\ end < d + PageSize
    BY Rounding
  <2>2. /\ p < d => p + PageSize <= d
        /\ d < p => d + PageSize <= p
    BY <2>1, Multiples
  <2> QED BY <1>1, <2>1, <2>2
<1> QED BY <1>2, <1>3, <1>4

(* An area that begins on a page boundary has no byte in a page whose first *)
(* byte is outside of it.                                                   *)
LEMMA FirstByteDecides ==
  ASSUME NEW p \in Nat, p % PageSize = 0, NEW area \in Areas, area.start % PageSize = 0,
         ~In(p, area)
  PROVE  PageBytes(p) \cap Bytes(area) = {}
<1>1. PageSize \in Nat \ {0} /\ area.start \in Nat /\ area.end \in Nat
  BY BootMemAssumption DEF Areas
<1>2. p < area.start => p + PageSize <= area.start
  BY <1>1, Multiples
<1> QED BY <1>1, <1>2 DEF PageBytes, Bytes, In

-----------------------------------------------------------------------------
(* get_stack_size: what its loop adds up.                                   *)
EntrySize(map, n) ==
  IF map[n].type = 1 THEN (map[n].length \div PageSize) * PtrSize ELSE 0

(* What get_stack_size adds for an entry is a number.                       *)
LEMMA SizeOfEntry ==
  ASSUME NEW map \in Seq(MapEntries), NEW n \in 1 .. Len(map)
  PROVE  EntrySize(map, n) \in Nat
<1>1. map[n] \in MapEntries /\ PageSize \in Nat \ {0} /\ PtrSize \in Nat
  BY BootMemAssumption
<1>2. map[n].length \div PageSize \in Nat
  <2>1. map[n].length \in Nat
    BY Zenon, <1>1 DEF MapEntries
  <2> QED BY Zenon, <1>1, <2>1, DivMod
<1> QED BY <1>1, <1>2 DEF EntrySize

(* The sums of get_stack_size, entry by entry.                              *)
LEMMA Sums ==
  ASSUME NEW map \in Seq(MapEntries)
  PROVE  /\ SizeAfter(map) \in [0 .. Len(map) -> Nat]
         /\ SizeAfter(map)[0] = 0
         /\ \A n \in 1 .. Len(map) :
              SizeAfter(map)[n] = SizeAfter(map)[n - 1] + EntrySize(map, n)
<1> DEFINE F(f, m) == f = [n \in 0 .. m |-> IF n = 0 THEN 0 ELSE f[n - 1] + EntrySize(map, n)]
           Has(m) == \E f : F(f, m)
           T == {m \in 0 .. Len(map) : ~Has(m)}
<1>1. Len(map) \in Nat
  OBVIOUS
<1>2. Has(0)
  <2>1. F([n \in 0 .. 0 |-> 0], 0)
    OBVIOUS
  <2> QED BY Zenon, <2>1
<1>3. ASSUME NEW m \in 1 .. Len(map), Has(m - 1) PROVE Has(m)
  <2>1. PICK g : F(g, m - 1)
    BY <1>3
  <2> DEFINE f == [n \in 0 .. m |-> IF n = m THEN g[m - 1] + EntrySize(map, m) ELSE g[n]]
  <2>2. F(f, m)
    <3>1. ASSUME NEW n \in 0 .. m
          PROVE  f[n] = IF n = 0 THEN 0 ELSE f[n - 1] + EntrySize(map, n)
      BY <2>1
    <3> QED BY <3>1
  <2> QED BY Zenon, <2>2
<1>4. Has(Len(map))
  <2> HIDE DEF Has
  <2>1. ASSUME T # {} PROVE FALSE
    <3>1. T \subseteq Nat
      BY <1>1
    <3>2. PICK m \in T : \A l \in T : m <= l
      <4> HIDE DEF T
      <4> QED BY Zenon, <2>1, <3>1, LeastNat
    <3>3. m # 0 /\ m \in 1 .. Len(map)
      BY <1>2, <3>2
    <3>4. Has(m - 1)
      BY <1>1, <3>2, <3>3
    <3> QED BY <1>3, <3>2, <3>3, <3>4
  <2> QED BY <1>1, <2>1
<1>5. F(SizeAfter(map), Len(map))
  BY Zenon, <1>4 DEF SizeAfter, EntrySize
<1> DEFINE size == SizeAfter(map)
<1>6. /\ DOMAIN size = 0 .. Len(map) /\ size[0] = 0
      /\ \A n \in 1 .. Len(map) : size[n] = size[n - 1] + EntrySize(map, n)
      /\ size = [n \in 0 .. Len(map) |-> size[n]]
  <2> HIDE DEF size
  <2>1. F(size, Len(map))
    BY Zenon, <1>5 DEF size
  <2> QED BY <1>1, <2>1
<1>7. \A n \in 1 .. Len(map) : EntrySize(map, n) \in Nat
  BY SizeOfEntry
<1> HIDE DEF size, F, Has, T
<1>8. \A n \in 0 .. Len(map) : size[n] \in Nat
  <2> DEFINE U == {n \in 0 .. Len(map) : size[n] \notin Nat}
  <2>1. ASSUME U # {} PROVE FALSE
    <3>1. U \subseteq Nat
      BY <1>1
    <3>2. PICK n \in U : \A l \in U : n <= l
      <4> HIDE DEF U
      <4> QED BY Zenon, <2>1, <3>1, LeastNat
    <3>3. n \in 1 .. Len(map)
      BY <1>6, <3>2
    <3>4. n - 1 \in 0 .. Len(map) /\ n - 1 \notin U
      BY <1>1, <3>2, <3>3
    <3> QED BY SMTT(30), <1>6, <1>7, <3>2, <3>3, <3>4
  <2> QED BY <2>1
<1> QED BY Zenon, <1>6, <1>8 DEF size

(* The sums of get_stack_size do not decrease.                              *)
LEMMA SumsGrow ==
  ASSUME NEW map \in Seq(MapEntries), NEW n \in 0 .. Len(map)
  PROVE  SizeAfter(map)[n] <= SizeAfter(map)[Len(map)]
<1> DEFINE size == SizeAfter(map)
           Le(m) == size[n] <= size[m]
           T == {m \in n .. Len(map) : ~Le(m)}
<1>1. /\ Len(map) \in Nat /\ \A m \in 0 .. Len(map) : size[m] \in Nat
      /\ \A m \in 1 .. Len(map) : size[m] = size[m - 1] + EntrySize(map, m)
  BY SMTT(30), Sums
<1>2. \A m \in 1 .. Len(map) : EntrySize(map, m) \in Nat
  BY SizeOfEntry
<1> HIDE DEF size
<1>3. ASSUME T # {} PROVE FALSE
  <2>1. T \subseteq Nat
    BY <1>1
  <2>2. PICK m \in T : \A l \in T : m <= l
    <3> HIDE DEF T
    <3> QED BY Zenon, <1>3, <2>1, LeastNat
  <2>3. m # n
    BY <1>1, <2>2
  <2>4. m - 1 \in n .. Len(map) /\ m - 1 \notin T
    BY <1>1, <2>2, <2>3
  <2>5. Le(m - 1) /\ m \in 1 .. Len(map) /\ m - 1 \in 0 .. Len(map)
    BY <1>1, <2>2, <2>4
  <2>6. size[m] = size[m - 1] + EntrySize(map, m) /\ EntrySize(map, m) \in Nat
    BY <1>1, <1>2, <2>5
  <2>7. size[n] \in Nat /\ size[m - 1] \in Nat
    BY <1>1, <2>5
  <2>8. Le(m)
    BY <2>5, <2>6, <2>7
  <2> QED BY <2>2, <2>8
<1> QED BY <1>1, <1>3 DEF size

-----------------------------------------------------------------------------
(* A page pushed onto the stack of free pages.                              *)
LEMMA Pushed ==
  ASSUME NEW s \in Seq(Nat), NEW p \in Nat,
         \A x, y \in DOMAIN s : s[x] = s[y] => x = y, p \notin Range(s)
  PROVE  /\ Append(s, p) \in Seq(Nat) /\ Len(Append(s, p)) = Len(s) + 1
         /\ Range(Append(s, p)) = Range(s) \cup {p}
         /\ \A x, y \in DOMAIN Append(s, p) : Append(s, p)[x] = Append(s, p)[y] => x = y
<1> DEFINE t == Append(s, p)
<1>1. /\ t \in Seq(Nat) /\ Len(t) = Len(s) + 1 /\ DOMAIN t = DOMAIN s \cup {Len(s) + 1}
      /\ t[Len(s) + 1] = p /\ \A x \in DOMAIN s : t[x] = s[x]
  OBVIOUS
<1>2. \A x \in DOMAIN s : s[x] # p
  BY DEF Range
<1> HIDE DEF t
<1>3. Range(t) = Range(s) \cup {p}
  BY <1>1 DEF Range
<1>4. \A x, y \in DOMAIN t : t[x] = t[y] => x = y
  BY Zenon, <1>1, <1>2
<1> QED BY <1>1, <1>3, <1>4 DEF t

(* _get_low_page finds a lowest page and takes it off the stack.            *)
LEMMA Lowest ==
  ASSUME NEW s \in Seq(Nat), s # << >>
  PROVE  LowestIndex(s) \in DOMAIN s
<1>1. /\ Len(s) \in Nat /\ DOMAIN s = 1 .. Len(s) /\ Len(s) # 0
      /\ \A k \in DOMAIN s : s[k] \in Nat
  OBVIOUS
<1> DEFINE V == {s[k] : k \in DOMAIN s}
<1>2. V \subseteq Nat /\ s[1] \in V
  BY <1>1
<1>3. PICK v \in V : \A w \in V : v <= w
  <2> HIDE DEF V
  <2> QED BY Zenon, <1>2, LeastNat
<1> DEFINE K == {k \in DOMAIN s : s[k] = v}
<1>4. K \subseteq Nat /\ K # {}
  BY <1>1, <1>3
<1>5. PICK k \in K : \A l \in K : k <= l
  <2> HIDE DEF K
  <2> QED BY Zenon, <1>4, LeastNat
<1>6. k \in DOMAIN s /\ s[k] = v
  BY <1>5
<1>7. \A l \in DOMAIN s : s[k] <= s[l]
  BY <1>3, <1>6
<1>8. ASSUME NEW l \in 1 .. k - 1 PROVE s[k] < s[l]
  <2>1. l \in DOMAIN s /\ l < k
    BY <1>1, <1>6
  <2>2. l \notin K
    BY <1>1, <1>5, <1>6, <2>1
  <2>3. s[l] # v /\ s[k] <= s[l] /\ s[l] \in Nat /\ s[k] \in Nat
    BY <1>1, <1>6, <1>7, <2>1, <2>2
  <2> QED BY <1>6, <2>3
<1> HIDE DEF K, V
<1> QED BY Zenon, <1>6, <1>7, <1>8 DEF LowestIndex

(* Two sequences joined.                                                    *)
LEMMA Joined ==
  ASSUME NEW a \in Seq(Nat), NEW b \in Seq(Nat)
  PROVE  /\ a \o b \in Seq(Nat) /\ Len(a \o b) = Len(a) + Len(b)
         /\ \A x \in Len(a) + 1 .. Len(a) + Len(b) : (a \o b)[x] = b[x - Len(a)]
OBVIOUS

(* What follows the first n elements of a sequence.                         *)
LEMMA Rest ==
  ASSUME NEW s \in Seq(Nat), NEW n \in Nat, n <= Len(s), NEW x \in 1 .. Len(s) - n
  PROVE  SubSeq(s, n + 1, Len(s))[x] = s[x + n]
OBVIOUS

(* _get_low_page closes the gap: the others stay, each once.                *)
LEMMA Removed ==
  ASSUME NEW s \in Seq(Nat), NEW n \in DOMAIN s,
         \A x, y \in DOMAIN s : s[x] = s[y] => x = y
  PROVE  /\ WithoutIndex(s, n) \in Seq(Nat) /\ Len(WithoutIndex(s, n)) = Len(s) - 1
         /\ Range(WithoutIndex(s, n)) = Range(s) \ {s[n]}
         /\ \A x, y \in DOMAIN WithoutIndex(s, n) : WithoutIndex(s, n)[x] = WithoutIndex(s, n)[y] => x = y
<1> DEFINE t == WithoutIndex(s, n)
<1>1. Len(s) \in Nat /\ n \in 1 .. Len(s) /\ DOMAIN s = 1 .. Len(s)
  OBVIOUS
<1>2. /\ t \in Seq(Nat) /\ Len(t) = Len(s) - 1
      /\ \A x \in 1 .. Len(s) - 1 : t[x] = IF x < n THEN s[x] ELSE s[x + 1]
  <2> DEFINE a == SubSeq(s, 1, n - 1)
             b == SubSeq(s, n + 1, Len(s))
  <2>1. /\ a \in Seq(Nat) /\ Len(a) = n - 1 /\ \A x \in 1 .. n - 1 : a[x] = s[x]
    BY <1>1
  <2>2. b \in Seq(Nat) /\ Len(b) = Len(s) - n
    <3>1. b \in Seq(Nat)
      BY <1>1
    <3>2. Len(b) = Len(s) - n
      BY <1>1
    <3> QED BY <3>1, <3>2
  <2>6. \A x \in 1 .. Len(s) - n : b[x] = s[x + n]
    <3>1. n \in Nat /\ n <= Len(s)
      BY <1>1
    <3> QED BY Zenon, <3>1, Rest
  <2>3. t = a \o b
    BY DEF WithoutIndex
  <2> HIDE DEF a, b, t
  <2>4. /\ t \in Seq(Nat) /\ Len(t) = Len(s) - 1
    <3>1. a \o b \in Seq(Nat) /\ Len(a \o b) = Len(a) + Len(b)
      BY Zenon, <2>1, <2>2, Joined
    <3>2. n - 1 + (Len(s) - n) = Len(s) - 1
      BY <1>1
    <3> QED BY <2>1, <2>2, <2>3, <3>1, <3>2
  <2>5. ASSUME NEW x \in 1 .. Len(s) - 1 PROVE t[x] = IF x < n THEN s[x] ELSE s[x + 1]
    <3>1. CASE x < n
      BY <1>1, <2>1, <2>2, <2>3, <3>1
    <3>2. CASE x >= n
      <4>1. t[x] = b[x - (n - 1)]
        <5>1. x \in Len(a) + 1 .. Len(a) + Len(b)
          BY <1>1, <2>1, <2>2, <3>2
        <5>2. (a \o b)[x] = b[x - Len(a)]
          BY Zenon, <2>1, <2>2, <5>1, Joined
        <5> QED BY <2>1, <2>3, <5>2
      <4>2. x - (n - 1) \in 1 .. Len(s) - n /\ x - (n - 1) + n = x + 1
        BY <1>1, <3>2
      <4>3. b[x - (n - 1)] = s[x + 1]
        BY Zenon, <2>6, <4>2
      <4>4. ~(x < n)
        BY <1>1, <3>2
      <4> QED BY <4>1, <4>3, <4>4
    <3> QED BY <1>1, <3>1, <3>2
  <2> QED BY <2>4, <2>5
<1> HIDE DEF t
<1>3. DOMAIN t = 1 .. Len(s) - 1
  BY <1>2
<1> DEFINE at(x) == IF x < n THEN x ELSE x + 1
<1>4. ASSUME NEW x \in DOMAIN t PROVE at(x) \in DOMAIN s /\ at(x) # n /\ t[x] = s[at(x)]
  <2>1. t[x] = s[at(x)]
    BY Zenon, <1>2, <1>3
  <2>2. at(x) \in DOMAIN s /\ at(x) # n
    BY <1>1, <1>3
  <2> QED BY <2>1, <2>2
<1>5. \A x, y \in DOMAIN t : at(x) = at(y) => x = y
  BY SMTT(30), <1>1, <1>3
<1>6. \A y \in DOMAIN s : y # n => \E x \in DOMAIN t : at(x) = y
  <2>1. ASSUME NEW y \in DOMAIN s, y < n PROVE \E x \in DOMAIN t : at(x) = y
    <3>1. y \in DOMAIN t /\ at(y) = y
      BY <1>1, <1>3, <2>1
    <3> QED BY <3>1
  <2>2. ASSUME NEW y \in DOMAIN s, y > n PROVE \E x \in DOMAIN t : at(x) = y
    <3>1. y - 1 \in DOMAIN t /\ at(y - 1) = y
      BY <1>1, <1>3, <2>2
    <3> QED BY <3>1
  <2> QED BY <1>1, <2>1, <2>2
<1> HIDE DEF at
<1>7. Range(t) = Range(s) \ {s[n]}
  BY <1>4, <1>6 DEF Range
<1>8. \A x, y \in DOMAIN t : t[x] = t[y] => x = y
  BY <1>4, <1>5
<1> QED BY <1>2, <1>7, <1>8 DEF t

(* _get_low_page takes one page off the stack.                              *)
LEMMA LowestTaken ==
  ASSUME NEW s \in Seq(Nat), s # << >>, \A x, y \in DOMAIN s : s[x] = s[y] => x = y
  PROVE  /\ WithoutLowest(s) \in Seq(Nat) /\ Len(WithoutLowest(s)) = Len(s) - 1
         /\ s[LowestIndex(s)] \in Range(s)
         /\ Range(WithoutLowest(s)) = Range(s) \ {s[LowestIndex(s)]}
         /\ \A x, y \in DOMAIN WithoutLowest(s) :
              WithoutLowest(s)[x] = WithoutLowest(s)[y] => x = y
<1>1. LowestIndex(s) \in DOMAIN s
  BY Lowest
<1>2. s[LowestIndex(s)] \in Range(s)
  BY <1>1 DEF Range
<1> QED BY <1>1, <1>2, Removed DEF WithoutLowest

-----------------------------------------------------------------------------
(* The inductive invariant.  The scan of check_memory_bounds: the bytes it  *)
(* has counted lie in the entry and, but for the last, outside every area;  *)
(* they begin where the entry does or where an area ends.                   *)
SafeStart(a) == \/ \E k \in Usable : a = mmap[k].base_addr
                \/ \E k \in DOMAIN InUse : a = InUse[k].end

ScanInv ==
  /\ i \in Usable /\ count <= required /\ mmap[i].base_addr + count <= ptr
  /\ SafeStart(ptr - count)
  /\ \A k \in DOMAIN InUse : /\ count > 0 => ptr # InUse[k].end
                             /\ \A b \in ptr - count .. ptr - 2 : b \notin Bytes(InUse[k])

(* The pages that the loop of pmm_init may hand out of an entry, and those  *)
(* that it has met.                                                         *)
PagesOf(k) == {p \in 1 .. max_addr : /\ p % PageSize = 0
                                     /\ FirstPage(k) <= p /\ p < Down(EndOf(k))
                                     /\ \A u \in Unsafe : ~In(p, u)}

Met(p) == \E k \in Usable : p \in PagesOf(k) /\ (k < i \/ (k = i /\ pc = "pages" /\ p < cur))

FreeInv ==
  /\ HandedOut = {p \in 1 .. max_addr : Met(p)}
  /\ \A x, y \in DOMAIN freePages : freePages[x] = freePages[y] => x = y
  /\ taken \cap Range(freePages) = {}
  /\ apLow # 0 => apLow \notin Range(freePages) \cup taken

(* get_stack_size has counted the pages met so far.                         *)
CountInv ==
  /\ pc = "fill" => /\ i \in 1 .. Len(mmap) + 1 /\ taken = {}
                    /\ Len(freePages) * PtrSize <= SizeAfter(mmap)[i - 1]
  /\ pc = "pages" => /\ i \in Usable /\ cur % PageSize = 0 /\ taken = {}
                     /\ \E q \in 0 .. cur :
                          /\ cur = FirstPage(i) + q * PageSize
                          /\ q = 0 \/ cur <= Down(EndOf(i))
                          /\ Len(freePages) * PtrSize <= SizeAfter(mmap)[i - 1] + q * PtrSize
  /\ pc \in {"paging", "done", "underflow"} =>
       i = Len(mmap) + 1 /\ Len(freePages) * PtrSize <= required

BInv ==
  /\ machine \in Machines
  /\ i \in Nat \ {0} /\ {ptr, count, safe, cur, apLow} \subseteq Nat
  /\ freePages \in Seq(Nat) /\ taken \subseteq Nat
  /\ pc \in {"tags", "entry", "scan", "fill", "pages", "paging", "done", "underflow", "halted"}
  /\ pc \in {"tags", "entry", "scan"} => freePages = << >> /\ apLow = 0 /\ taken = {}
  /\ pc = "halted" => freePages = << >>
  /\ pc = "scan" => ScanInv
  /\ Placed => SafeStart(safe) /\ RegionUsable /\ FreeInv /\ CountInv

-----------------------------------------------------------------------------
(* What every machine has.                                                  *)
LEMMA MapTypes ==
  ASSUME machine \in Machines
  PROVE  /\ mmap \in Seq(MapEntries) /\ Len(mmap) \in Nat /\ DOMAIN mmap = 1 .. Len(mmap)
         /\ \A k \in DOMAIN mmap : /\ mmap[k].base_addr \in Nat /\ EndOf(k) \in Nat
                                   /\ mmap[k].length \in Nat
                                   /\ EndOf(k) = mmap[k].base_addr + mmap[k].length
         /\ \A k, l \in Usable : k < l => EndOf(k) <= mmap[l].base_addr
         /\ required \in Nat
<1>1. mmap \in Seq(MapEntries) /\ Ascending(mmap)
  BY BootMemAssumption DEF mmap
<1>2. Len(mmap) \in Nat /\ DOMAIN mmap = 1 .. Len(mmap)
  BY <1>1
<1>3. ASSUME NEW k \in DOMAIN mmap
      PROVE  /\ mmap[k].base_addr \in Nat /\ EndOf(k) \in Nat /\ mmap[k].length \in Nat
             /\ EndOf(k) = mmap[k].base_addr + mmap[k].length
  <2>1. mmap[k] \in MapEntries
    BY <1>1
  <2>2. mmap[k].base_addr \in Nat /\ mmap[k].length \in Nat
    BY <2>1 DEF MapEntries
  <2> QED BY <2>2 DEF EndOf
<1>4. \A k, l \in Usable : k < l => EndOf(k) <= mmap[l].base_addr
  BY <1>1 DEF Ascending, Usable, EndOf
<1>5. required \in Nat
  BY <1>1, <1>2, Sums DEF required
<1> QED BY Zenon, <1>1, <1>2, <1>3, <1>4, <1>5

(* max_addr is a number, and no entry of the map ends above it.             *)
LEMMA HighestAddress ==
  ASSUME machine \in Machines
  PROVE  max_addr \in Nat /\ \A k \in DOMAIN mmap : EndOf(k) <= max_addr
<1> DEFINE T == {0} \cup {EndOf(k) : k \in DOMAIN mmap}
           s == [n \in 1 .. Len(mmap) + 1 |-> IF n <= Len(mmap) THEN EndOf(n) ELSE 0]
<1>1. Len(mmap) \in Nat /\ DOMAIN mmap = 1 .. Len(mmap) /\ \A k \in DOMAIN mmap : EndOf(k) \in Nat
  BY MapTypes
<1>2. T \subseteq Nat /\ T # {}
  BY <1>1
<1>3. s \in Seq(Nat) /\ Len(s) = Len(mmap) + 1 /\ s # << >> /\ DOMAIN s = 1 .. Len(mmap) + 1
  <2>1. s \in [1 .. Len(mmap) + 1 -> Nat] /\ Len(mmap) + 1 \in Nat
    BY <1>1
  <2> QED BY <2>1
<1>4. PICK k \in DOMAIN s : \A l \in DOMAIN s : s[l] <= s[k]
  <2> HIDE DEF s
  <2> QED BY Zenon, <1>3, MaxOfSeq
<1>5. \A l \in 1 .. Len(mmap) : s[l] = EndOf(l) /\ l \in DOMAIN s
  BY <1>1
<1>6. s[Len(mmap) + 1] = 0 /\ Len(mmap) + 1 \in DOMAIN s
  BY <1>1
<1>7. s[k] \in T
  <2>1. CASE k \in 1 .. Len(mmap)
    <3> HIDE DEF s
    <3> QED BY <1>1, <1>5, <2>1
  <2>2. CASE k = Len(mmap) + 1
    <3> HIDE DEF s
    <3> QED BY <1>6, <2>2
  <2> QED BY <1>1, <1>3, <1>4, <2>1, <2>2
<1> HIDE DEF s
<1>8. \A t \in T : t <= s[k]
  BY <1>1, <1>3, <1>4, <1>5, <1>6
<1>9. Max(T) \in T /\ \A t \in T : t <= Max(T)
  <2> HIDE DEF T
  <2> QED BY Zenon, <1>7, <1>8 DEF Max
<1> QED BY <1>2, <1>9 DEF max_addr

(* The areas in use have numbers for their ends.                            *)
LEMMA AreaTypes ==
  ASSUME machine \in Machines
  PROVE  /\ DOMAIN InUse = 1 .. 4
         /\ \A k \in 1 .. 4 : /\ InUse[k] \in Areas
                              /\ InUse[k].start \in Nat /\ InUse[k].end \in Nat
                              /\ InUse[k].start + 1 < InUse[k].end
         /\ \A k, l \in 1 .. 4 : InUse[k].end # InUse[l].end + 1
<1> DEFINE tabs == UNION {PageBytes(t) : t \in Tables(machine)}
           areas == <<Bytes(machine.kernel), tabs, Bytes(machine.mapAt), Bytes(machine.stack)>>
           low == Min(Tables(machine))
           high == Max(Tables(machine))
<1>1. /\ PageSize \in Nat /\ PageSize > 1
      /\ Tables(machine) # {} /\ Tables(machine) \subseteq Nat /\ IsFiniteSet(Tables(machine))
      /\ machine.kernel \in Areas /\ machine.mapAt \in Areas /\ machine.stack \in Areas
      /\ \A area \in {machine.kernel, machine.mapAt, machine.stack} : area.start + 1 < area.end
  BY BootMemAssumption
<1>2. \A x, y \in 1 .. 4 : x # y => areas[x] \cap areas[y] = {}
  BY Zenon, BootMemAssumption DEF Apart
<1>3. low \in Tables(machine) /\ high \in Tables(machine) /\ low <= high
  BY <1>1, MinOfNats, MaxOfNats
<1> HIDE DEF low, high
<1>4. DOMAIN InUse = 1 .. 4
  BY DEF InUse
<1>5. /\ InUse[1] = machine.kernel /\ InUse[3] = machine.mapAt /\ InUse[4] = machine.stack
      /\ InUse[2] = [start |-> low, end |-> high + PageSize]
  BY DEF InUse, TableArea, Area, low, high
<1>6. ASSUME NEW k \in 1 .. 4
      PROVE  /\ InUse[k] \in Areas /\ InUse[k].start \in Nat /\ InUse[k].end \in Nat
             /\ InUse[k].start + 1 < InUse[k].end
  <2>1. CASE k = 2
    BY <1>1, <1>3, <1>5, <2>1 DEF Areas
  <2>2. CASE k # 2
    BY <1>1, <1>5, <2>2 DEF Areas
  <2> QED BY Zenon, <2>1, <2>2
<1>7. ASSUME NEW k \in 1 .. 4
      PROVE  InUse[k].end - 1 \in areas[k] /\ InUse[k].end - 2 \in areas[k]
  <2>1. CASE k = 2
    <3>1. high \in Nat /\ InUse[k].end = high + PageSize
      BY <1>1, <1>3, <1>5, <2>1
    <3>2. high + PageSize - 1 \in PageBytes(high) /\ high + PageSize - 2 \in PageBytes(high)
      BY <1>1, <3>1 DEF PageBytes
    <3>3. PageBytes(high) \subseteq tabs
      BY <1>3
    <3>4. areas[k] = tabs
      BY <2>1
    <3>5. InUse[k].end - 1 = high + PageSize - 1 /\ InUse[k].end - 2 = high + PageSize - 2
      BY <1>1, <3>1
    <3> HIDE DEF tabs, areas
    <3> QED BY Zenon, <3>2, <3>3, <3>4, <3>5
  <2>2. CASE k # 2
    <3>1. areas[k] = Bytes(InUse[k])
      BY <1>5, <2>2
    <3>2. PICK st \in Nat, en \in Nat : st = InUse[k].start /\ en = InUse[k].end /\ st + 1 < en
      BY <1>6
    <3>3. en - 1 \in Bytes(InUse[k]) /\ en - 2 \in Bytes(InUse[k])
      BY <3>2 DEF Bytes
    <3> HIDE DEF areas
    <3> QED BY Zenon, <3>1, <3>2, <3>3
  <2> QED BY <2>1, <2>2
<1> HIDE DEF areas
<1>8. ASSUME NEW k \in 1 .. 4, NEW l \in 1 .. 4, InUse[k].end = InUse[l].end + 1 PROVE FALSE
  <2>1. k # l
    BY <1>6, <1>8
  <2>2. InUse[k].end - 2 = InUse[l].end - 1
    BY <1>6, <1>8
  <2> QED BY <1>2, <1>7, <2>1, <2>2
<1> QED BY <1>4, <1>6, <1>8

(* What depends on the memory map alone stays as it is.                     *)
LEMMA Static ==
  ASSUME machine' = machine
  PROVE  /\ mmap' = mmap /\ Usable' = Usable /\ InUse' = InUse /\ required' = required
         /\ max_addr' = max_addr /\ \A k : EndOf(k)' = EndOf(k) /\ FirstPage(k)' = FirstPage(k)
         /\ \A a : SafeStart(a)' = SafeStart(a)
<1>1. mmap' = mmap /\ \A k : EndOf(k)' = EndOf(k)
  BY DEF mmap, EndOf
<1>2. Usable' = Usable /\ required' = required /\ max_addr' = max_addr
  BY <1>1 DEF Usable, required, max_addr
<1>3. InUse' = InUse
  BY DEF InUse, TableArea
<1> QED BY <1>1, <1>2, <1>3 DEF FirstPage, SafeStart

-----------------------------------------------------------------------------
(* check_memory_bounds.                                                     *)
LEMMA ScanStart ==
  ASSUME BInv, pc = "entry", i \in Usable, machine' = machine, i' = i,
         ptr' = mmap[i].base_addr, count' = 0
  PROVE  ScanInv' /\ ptr' \in Nat
<1>1. machine \in Machines
  BY DEF BInv
<1>2. i \in DOMAIN mmap /\ ptr' \in Nat /\ required \in Nat
  BY <1>1, MapTypes DEF Usable
<1>3. SafeStart(ptr' - count')
  BY <1>2 DEF SafeStart
<1>4. SafeStart(ptr - count)'
  BY Zenon, <1>3, Static DEF SafeStart
<1> QED BY <1>2, <1>4, Static DEF ScanInv

(* A byte that is in no area is counted.                                    *)
LEMMA ScanOn ==
  ASSUME BInv, pc = "scan", machine' = machine, i' = i,
         count < required, \A k \in DOMAIN InUse : ~Within(ptr, InUse[k]),
         ptr' = ptr + 1, count' = count + 1
  PROVE  ScanInv'
<1>1. machine \in Machines /\ ScanInv /\ ptr \in Nat /\ count \in Nat /\ required \in Nat
  BY Zenon, MapTypes DEF BInv
<1>2. i \in DOMAIN mmap /\ mmap[i].base_addr \in Nat
  BY Zenon, <1>1, MapTypes DEF ScanInv, Usable
<1>3. ASSUME NEW k \in DOMAIN InUse
      PROVE  /\ ptr + 1 # InUse[k].end
             /\ \A b \in ptr - count .. ptr - 1 : b \notin Bytes(InUse[k])
  <2>1. PICK st \in Nat, en \in Nat : st = InUse[k].start /\ en = InUse[k].end /\ st + 1 < en
    BY Zenon, <1>1, AreaTypes
  <2>2. ~(ptr > st /\ ptr < en)
    BY <2>1 DEF Within
  <2>3. /\ count > 0 => ptr # en
        /\ \A b \in ptr - count .. ptr - 2 : b \notin st .. en - 1
    BY <1>1, <2>1 DEF ScanInv, Bytes
  <2>4. ptr + 1 # en
    BY <1>1, <2>1, <2>2
  <2>5. ASSUME NEW b \in ptr - count .. ptr - 1 PROVE b \notin st .. en - 1
    <3>1. CASE b = ptr - 1
      BY <1>1, <2>1, <2>2, <2>3, <3>1
    <3>2. CASE b # ptr - 1
      BY <1>1, <2>3, <3>2
    <3> QED BY <3>1, <3>2
  <2> QED BY Zenon, <2>1, <2>4, <2>5 DEF Bytes
<1>4. ptr' - count' = ptr - count /\ ptr' - 2 = ptr - 1
  BY <1>1
<1>5. SafeStart(ptr - count)'
  BY Zenon, <1>1, <1>4, Static DEF ScanInv, SafeStart
<1>6. i \in Usable /\ count' <= required /\ mmap[i].base_addr + count' <= ptr'
  BY <1>1, <1>2 DEF ScanInv
<1>7. /\ InUse' = InUse /\ Usable' = Usable /\ required' = required /\ mmap' = mmap
  BY Static
<1>8. ASSUME NEW k \in DOMAIN InUse'
      PROVE  /\ count' > 0 => ptr' # InUse'[k].end
             /\ \A b \in ptr' - count' .. ptr' - 2 : b \notin Bytes(InUse'[k])
  BY Zenon, <1>3, <1>4, <1>7
<1> QED BY Zenon, <1>2, <1>5, <1>6, <1>7, <1>8 DEF ScanInv, Bytes

(* An area that the byte is in is jumped over.                              *)
LEMMA ScanJump ==
  ASSUME BInv, pc = "scan", machine' = machine, i' = i,
         count < required, NEW j \in DOMAIN InUse, Within(ptr, InUse[j]),
         ptr' = AfterJump(InUse[j]), count' = 1
  PROVE  ScanInv' /\ ptr' \in Nat
<1>1. machine \in Machines /\ ScanInv /\ ptr \in Nat /\ count \in Nat /\ required \in Nat
  BY Zenon, MapTypes DEF BInv
<1>2. i \in DOMAIN mmap /\ mmap[i].base_addr \in Nat
  BY Zenon, <1>1, MapTypes DEF ScanInv, Usable
<1>3. /\ DOMAIN InUse = 1 .. 4 /\ InUse[j].end \in Nat /\ ptr' = InUse[j].end + 1
      /\ ptr < InUse[j].end /\ \A k \in DOMAIN InUse : InUse[k].end \in Nat
      /\ \A k \in DOMAIN InUse : InUse[k].end # InUse[j].end + 1
  BY Zenon, <1>1, AreaTypes DEF AfterJump, Within
<1>4. ptr' - count' = InUse[j].end /\ ptr' \in Nat /\ ptr' - 2 < ptr' - count'
  BY <1>3
<1>5. SafeStart(ptr - count)'
  BY Zenon, <1>4, Static DEF SafeStart
<1>6. i \in Usable /\ 1 <= required /\ mmap[i].base_addr + 1 <= ptr'
  BY <1>1, <1>2, <1>3 DEF ScanInv
<1>7. /\ InUse' = InUse /\ Usable' = Usable /\ required' = required /\ mmap' = mmap
  BY Zenon, Static
<1>8. ASSUME NEW k \in DOMAIN InUse'
      PROVE  /\ count' > 0 => ptr' # InUse'[k].end
             /\ \A b \in ptr' - count' .. ptr' - 2 : b \notin Bytes(InUse'[k])
  BY <1>3, <1>4, <1>7
<1> QED BY Zenon, <1>4, <1>5, <1>6, <1>7, <1>8 DEF ScanInv, Bytes

(* The scan has counted as many bytes as the stack needs.                   *)
LEMMA ScanFound ==
  ASSUME BInv, pc = "scan", machine' = machine, ptr < EndOf(i), count >= required,
         safe' = ptr - count
  PROVE  /\ safe' \in Nat /\ SafeStart(safe')
         /\ \E k \in Usable : Bytes(StackRegion)' \subseteq mmap[k].base_addr .. EndOf(k) - 1
         /\ \A k \in DOMAIN InUse :
              Bytes(StackRegion)' \cap Bytes(InUse[k]) \subseteq {StackRegion.end - 1}'
<1>1. machine \in Machines /\ ScanInv /\ ptr \in Nat /\ count \in Nat /\ required \in Nat
  BY Zenon, MapTypes DEF BInv
<1>2. i \in Usable /\ i \in DOMAIN mmap /\ mmap[i].base_addr \in Nat /\ EndOf(i) \in Nat
  BY Zenon, <1>1, MapTypes DEF ScanInv, Usable
<1>3. count = required /\ mmap[i].base_addr <= ptr - count /\ ptr - count \in Nat
  BY <1>1, <1>2 DEF ScanInv
<1>4. /\ StackRegion' = [start |-> ptr - count, end |-> ptr]
      /\ Bytes(StackRegion)' = ptr - count .. ptr - 1
      /\ {StackRegion.end - 1}' = {ptr - 1}
  <2>1. StackRegion' = [start |-> ptr - count, end |-> ptr - count + required]
    BY Static DEF StackRegion, Area
  <2>2. ptr - count + required = ptr
    BY <1>1, <1>3
  <2> QED BY <2>1, <2>2 DEF Bytes
<1>5. ptr - count .. ptr - 1 \subseteq mmap[i].base_addr .. EndOf(i) - 1
  BY <1>1, <1>2, <1>3
<1>6. ASSUME NEW k \in DOMAIN InUse, NEW b \in ptr - count .. ptr - 1, b \in Bytes(InUse[k])
      PROVE  b = ptr - 1
  <2>1. b \notin ptr - count .. ptr - 2
    BY <1>1, <1>6 DEF ScanInv
  <2> QED BY <1>1, <2>1
<1>7. SafeStart(safe')
  BY <1>1 DEF ScanInv
<1> QED BY Zenon, <1>2, <1>3, <1>4, <1>5, <1>6, <1>7

(* pmm_init begins with an empty stack.                                     *)
LEMMA FillStart ==
  ASSUME BInv, pc = "scan", machine' = machine, ptr < EndOf(i), count >= required,
         safe' = ptr - count, pc' = "fill", i' = 1, ptr' = ptr, count' = count, UNCHANGED pmm
  PROVE  BInv'
<1>1. /\ machine \in Machines /\ freePages' = << >> /\ apLow' = 0 /\ taken' = {}
      /\ Len(mmap) \in Nat /\ mmap \in Seq(MapEntries)
  BY Zenon, MapTypes DEF BInv, pmm
<1>2. SafeStart(safe)' /\ safe' \in Nat
  BY Zenon, ScanFound, Static DEF SafeStart
<1>3. RegionUsable'
  <2>1. \E k \in Usable' : Bytes(StackRegion)' \subseteq mmap'[k].base_addr .. EndOf(k)' - 1
    BY Zenon, ScanFound, Static
  <2>2. \A k \in DOMAIN InUse' :
          Bytes(StackRegion)' \cap Bytes(InUse[k])' \subseteq {StackRegion.end - 1}'
    <3>1. \A k : Bytes(InUse[k])' = Bytes(InUse[k])
      BY Static DEF Bytes
    <3> QED BY <3>1, ScanFound, Static
  <2> QED BY Zenon, <2>1, <2>2 DEF RegionUsable
<1>4. FreeInv'
  <2>1. HandedOut' = {}
    BY <1>1 DEF HandedOut, Range
  <2>2. \A p : ~Met(p)'
    <3>1. \A k \in Usable' : ~(k < 1)
      BY <1>1, MapTypes, Static DEF Usable
    <3> QED BY Zenon, <3>1 DEF Met
  <2> QED BY <1>1, <2>1, <2>2 DEF FreeInv
<1>5. CountInv'
  <2>1. Len(freePages') * PtrSize = 0 /\ SizeAfter(mmap)[0] = 0
    BY <1>1, Sums, BootMemAssumption
  <2> QED BY <1>1, <2>1, Static DEF CountInv
<1> QED BY <1>1, <1>2, <1>3, <1>4, <1>5 DEF BInv, pmm, Placed

-----------------------------------------------------------------------------
(* Before a region has been found.                                          *)
LEMMA BeforeFill ==
  ASSUME BInv, pc \in {"tags", "entry", "scan"}, machine' = machine, UNCHANGED pmm,
         pc' \in {"tags", "entry", "scan", "halted"}, i' \in Nat \ {0},
         ptr' \in Nat, count' \in Nat, safe' \in Nat, pc' = "scan" => ScanInv'
  PROVE  BInv'
<1>1. pc' # "fill" /\ ~Placed'
  BY DEF Placed
<1> QED BY <1>1 DEF BInv, pmm

(* A byte of check_memory_bounds preserves BInv.                            *)
LEMMA ScanByteStep ==
  ASSUME BInv, ScanByte
  PROVE  BInv'
<1>1. /\ machine \in Machines /\ pc = "scan" /\ machine' = machine /\ UNCHANGED pmm
      /\ ptr \in Nat /\ count \in Nat /\ i \in Nat \ {0} /\ ScanInv /\ safe \in Nat
      /\ required \in Nat
  BY Zenon, MapTypes DEF BInv, ScanByte, boot
<1>2. EndOf(i) \in Nat /\ mmap[i].base_addr \in Nat
  BY <1>1, MapTypes DEF ScanInv, Usable
<1>3. ASSUME ScanReturn(0) PROVE BInv'
  <2>1. safe' = 0 /\ pc' = "entry" /\ i' = i + 1 /\ ptr' = ptr /\ count' = count
    BY <1>3 DEF ScanReturn
  <2> QED BY <1>1, <2>1, BeforeFill
<1>4. CASE ptr >= EndOf(i)
  BY <1>3, <1>4 DEF ScanByte
<1>5. CASE ptr < EndOf(i) /\ count >= required
  <2>1. ScanReturn(ptr - count)
    BY <1>1, <1>2, <1>5 DEF ScanByte
  <2>2. CASE ptr - count = 0
    BY <1>3, <2>1, <2>2
  <2>3. CASE ptr - count # 0
    <3>1. safe' = ptr - count /\ pc' = "fill" /\ i' = 1 /\ ptr' = ptr /\ count' = count
      BY <2>1, <2>3 DEF ScanReturn
    <3> QED BY <1>1, <1>5, <3>1, FillStart
  <2> QED BY <2>2, <2>3
<1>6. CASE ptr < EndOf(i) /\ count < required
  <2> DEFINE hits == {k \in DOMAIN InUse : Within(ptr, InUse[k])}
  <2>1. /\ IF hits = {} THEN ptr' = ptr + 1 /\ count' = count + 1
           ELSE ptr' = AfterJump(InUse[Min(hits)]) /\ count' = 1
        /\ pc' = pc /\ i' = i /\ safe' = safe
    BY <1>1, <1>2, <1>6 DEF ScanByte
  <2>2. CASE hits = {}
    <3>1. ScanInv'
      BY Zenon, <1>1, <1>6, <2>1, <2>2, ScanOn
    <3> QED BY <1>1, <2>1, <2>2, <3>1, BeforeFill
  <2>3. CASE hits # {}
    <3>1. hits \subseteq Nat
      BY <1>1, AreaTypes
    <3>2. Min(hits) \in hits
      <4> HIDE DEF hits
      <4> QED BY Zenon, <2>3, <3>1, MinOfNats
    <3>3. Min(hits) \in DOMAIN InUse /\ Within(ptr, InUse[Min(hits)])
      BY <3>2
    <3> HIDE DEF hits
    <3>4. ScanInv' /\ ptr' \in Nat
      BY <1>1, <1>6, <2>1, <2>3, <3>3, ScanJump
    <3> QED BY <1>1, <2>1, <2>3, <3>4, BeforeFill
  <2> QED BY Zenon, <2>2, <2>3
<1> QED BY <1>1, <1>2, <1>4, <1>5, <1>6

(* The tags, the checks and the entry to be searched next preserve BInv.    *)
LEMMA FirstSteps ==
  ASSUME BInv, ReadTag \/ CheckInfo \/ NextEntry
  PROVE  BInv'
<1>1. /\ i \in Nat \ {0} /\ ptr \in Nat /\ count \in Nat /\ safe \in Nat /\ machine' = machine
      /\ UNCHANGED pmm /\ pc \in {"tags", "entry"} /\ machine \in Machines
  BY DEF BInv, ReadTag, CheckInfo, NextEntry, boot
<1>2. CASE ReadTag \/ CheckInfo
  <2>1. pc' \in {"tags", "entry", "halted"} /\ UNCHANGED <<i, scan>>
    BY <1>2 DEF ReadTag, CheckInfo
  <2> QED BY <1>1, <2>1, BeforeFill DEF scan
<1>3. CASE NextEntry
  <2>1. CASE pc' # "scan"
    <3>1. pc' \in {"entry", "halted"} /\ i' \in {i, i + 1} /\ UNCHANGED scan
      BY <1>3, <2>1 DEF NextEntry
    <3> QED BY <1>1, <3>1, BeforeFill DEF scan
  <2>2. CASE pc' = "scan"
    <3>1. pc = "entry" /\ i \in Usable /\ i' = i /\ ptr' = mmap[i].base_addr /\ count' = 0 /\ safe' = safe
      BY <1>3, <2>2 DEF NextEntry, scan
    <3>2. ScanInv' /\ ptr' \in Nat
      BY <1>1, <3>1, ScanStart
    <3> QED BY Zenon, <1>1, <2>2, <3>1, <3>2, BeforeFill
  <2> QED BY <2>1, <2>2
<1> QED BY <1>2, <1>3

-----------------------------------------------------------------------------
(* pmm_init and _init_paging work on one machine and one region.            *)
LEMMA SameRegion ==
  ASSUME machine' = machine, safe' = safe
  PROVE  /\ Unsafe' = Unsafe /\ StackRegion' = StackRegion
         /\ \A k : PagesOf(k)' = PagesOf(k)
         /\ SafeStart(safe)' = SafeStart(safe)
         /\ Placed /\ RegionUsable => RegionUsable'
<1>1. StackRegion' = StackRegion
  BY Zenon, Static DEF StackRegion
<1>2. Unsafe' = Unsafe
  BY <1>1, Static DEF Unsafe
<1>3. \A k : PagesOf(k)' = PagesOf(k)
  BY <1>2, Static DEF PagesOf
<1>4. SafeStart(safe)' = SafeStart(safe)
  BY Zenon, Static DEF SafeStart
<1>5. Placed /\ RegionUsable => RegionUsable'
  BY Zenon, <1>1, Static DEF RegionUsable, Bytes
<1> QED BY <1>1, <1>2, <1>3, <1>4, <1>5

(* What pmm_init and _init_paging need not show again.                      *)
LEMMA FillFrame ==
  ASSUME BInv, Placed, Placed', UNCHANGED <<boot, scan>>,
         i' \in Nat \ {0}, cur' \in Nat, apLow' \in Nat, freePages' \in Seq(Nat), taken' \subseteq Nat,
         FreeInv', CountInv'
  PROVE  BInv'
<1>1. machine' = machine /\ safe' = safe /\ ptr' = ptr /\ count' = count
  BY DEF boot, scan
<1> QED BY Zenon, <1>1, SameRegion DEF BInv, Placed

(* A turn of the outer loop of pmm_init preserves BInv.                     *)
LEMMA FillEntryStep ==
  ASSUME BInv, FillEntry
  PROVE  BInv'
<1>1. /\ machine \in Machines /\ pc = "fill" /\ Placed /\ FreeInv /\ CountInv
      /\ machine' = machine /\ safe' = safe /\ taken = {} /\ taken' = {}
      /\ freePages' = freePages /\ apLow' = apLow
      /\ freePages \in Seq(Nat) /\ apLow \in Nat
  BY Zenon DEF BInv, FillEntry, Placed, boot, scan, CountInv
<1>2. /\ Len(mmap) \in Nat /\ DOMAIN mmap = 1 .. Len(mmap) /\ mmap \in Seq(MapEntries)
      /\ i \in 1 .. Len(mmap) + 1 /\ Len(freePages) * PtrSize <= SizeAfter(mmap)[i - 1]
      /\ Usable \subseteq 1 .. Len(mmap)
  BY Zenon, <1>1, MapTypes DEF CountInv, Usable
<1>9. SizeAfter(mmap)[i - 1] \in Nat /\ PageSize \in Nat /\ PtrSize \in Nat
  <2>1. SizeAfter(mmap) \in [0 .. Len(mmap) -> Nat] /\ i - 1 \in 0 .. Len(mmap)
    BY <1>2, Sums
  <2> QED BY <2>1, BootMemAssumption
<1>3. /\ mmap' = mmap /\ Usable' = Usable /\ required' = required /\ max_addr' = max_addr
      /\ \A k : PagesOf(k)' = PagesOf(k)
      /\ \A k : FirstPage(k)' = FirstPage(k)
  BY <1>1, Static, SameRegion
<1>4. HandedOut' = HandedOut
  BY Zenon, <1>1 DEF HandedOut
<1>5. ASSUME \A p \in 1 .. max_addr : Met(p)' <=> Met(p)
      PROVE  FreeInv'
  BY Zenon, <1>1, <1>3, <1>4, <1>5 DEF FreeInv
<1>6. CASE i > Len(mmap)
  <2>1. pc' = "paging" /\ cur' = 0 /\ i' = i
    BY <1>6 DEF FillEntry
  <2>2. \A p \in 1 .. max_addr : Met(p)' <=> Met(p)
    BY Zenon, <1>1, <1>3, <2>1 DEF Met
  <2>3. CountInv'
    <3>1. i = Len(mmap) + 1 /\ i - 1 = Len(mmap)
      BY <1>2, <1>6
    <3> QED BY <1>1, <1>2, <1>3, <2>1, <3>1 DEF CountInv, required
  <2>4. Placed' /\ UNCHANGED <<boot, scan>> /\ i' \in Nat \ {0}
    BY <1>2, <2>1 DEF Placed, FillEntry
  <2> QED BY Zenon, <1>1, <1>5, <2>1, <2>2, <2>3, <2>4, FillFrame
<1>7. CASE i <= Len(mmap) /\ i \in Usable
  <2>1. pc' = "pages" /\ cur' = FirstPage(i) /\ i' = i
    BY <1>2, <1>7 DEF FillEntry
  <2>2. FirstPage(i) \in Nat /\ FirstPage(i) % PageSize = 0
    BY Zenon, <1>1, <1>2, <1>7, MapTypes, Rounding DEF FirstPage
  <2>3. \A p \in 1 .. max_addr : Met(p)' <=> Met(p)
    <3>1. ASSUME NEW p \in PagesOf(i), p < FirstPage(i) PROVE FALSE
      BY <2>2, <3>1 DEF PagesOf
    <3> QED BY <1>1, <1>3, <2>1, <3>1 DEF Met
  <2>4. CountInv'
    <3>1. /\ FirstPage(i) = FirstPage(i) + 0 * PageSize /\ 0 \in 0 .. FirstPage(i)
          /\ Len(freePages) * PtrSize <= SizeAfter(mmap)[i - 1] + 0 * PtrSize
      BY <1>2, <1>9, <2>2
    <3> QED BY Zenon, <1>1, <1>3, <1>7, <2>1, <2>2, <3>1 DEF CountInv
  <2>5. Placed' /\ UNCHANGED <<boot, scan>> /\ i' \in Nat \ {0} /\ cur' \in Nat
    BY <1>2, <2>1, <2>2 DEF Placed, FillEntry
  <2> QED BY Zenon, <1>1, <1>5, <2>3, <2>4, <2>5, FillFrame
<1>8. CASE i <= Len(mmap) /\ i \notin Usable
  <2>1. pc' = "fill" /\ cur' = cur /\ i' = i + 1
    BY <1>1, <1>2, <1>8 DEF FillEntry
  <2>2. \A p \in 1 .. max_addr : Met(p)' <=> Met(p)
    <3>1. \A k \in Usable : k < i + 1 <=> k < i
      BY <1>2, <1>8
    <3> QED BY Zenon, <1>1, <1>3, <2>1, <3>1 DEF Met
  <2>3. CountInv'
    <3>1. SizeAfter(mmap)[i] = SizeAfter(mmap)[i - 1] + EntrySize(mmap, i)
      BY <1>2, <1>8, Sums
    <3>2. EntrySize(mmap, i) = 0
      BY <1>2, <1>8 DEF EntrySize, Usable
    <3>3. i + 1 \in 1 .. Len(mmap) + 1 /\ i + 1 - 1 = i
      BY <1>2, <1>8
    <3> QED BY <1>1, <1>2, <1>3, <1>9, <2>1, <3>1, <3>2, <3>3 DEF CountInv
  <2>4. Placed' /\ UNCHANGED <<boot, scan>> /\ i' \in Nat \ {0} /\ cur' \in Nat
    <3>1. Placed' /\ UNCHANGED <<boot, scan>>
      BY Zenon, <2>1 DEF Placed, FillEntry
    <3>2. i' \in Nat \ {0} /\ cur' \in Nat
      BY <1>2, <2>1 DEF BInv
    <3> QED BY Zenon, <3>1, <3>2
  <2> QED BY Zenon, <1>1, <1>5, <2>2, <2>3, <2>4, FillFrame
<1> QED BY <1>2, <1>6, <1>7, <1>8

(* The pages that have been handed out lie below the next one.              *)
LEMMA MetBelow ==
  ASSUME BInv, pc = "pages", NEW p, Met(p)
  PROVE  p < cur
<1>1. machine \in Machines /\ CountInv /\ i \in Usable /\ i \in DOMAIN mmap /\ cur \in Nat
  BY DEF BInv, CountInv, Placed, Usable
<1>2. PICK k \in Usable : p \in PagesOf(k) /\ (k < i \/ (k = i /\ p < cur))
  BY Zenon DEF Met
<1>3. CASE k < i
  <2>1. k \in DOMAIN mmap /\ EndOf(k) \in Nat /\ mmap[i].base_addr \in Nat
    BY Zenon, <1>1, <1>2, MapTypes DEF Usable
  <2>2. EndOf(k) <= mmap[i].base_addr
    BY Zenon, <1>1, <1>2, <1>3, MapTypes
  <2>3. p \in Nat /\ p < Down(EndOf(k)) /\ Down(EndOf(k)) \in Nat /\ Down(EndOf(k)) <= EndOf(k)
    BY SMTT(30), <1>1, <1>2, <2>1, Rounding, HighestAddress DEF PagesOf
  <2>4. FirstPage(i) \in Nat /\ mmap[i].base_addr <= FirstPage(i)
    BY Zenon, <2>1, Rounding DEF FirstPage
  <2>5. PICK q \in 0 .. cur : cur = FirstPage(i) + q * PageSize
    BY Zenon, <1>1 DEF CountInv
  <2>6. q * PageSize \in Nat
    BY <1>1, <2>5, BootMemAssumption
  <2> QED BY <1>1, <2>1, <2>2, <2>3, <2>4, <2>5, <2>6
<1> QED BY <1>2, <1>3

(* The pages of an entry are no more than get_stack_size has counted.       *)
LEMMA EntryHoldsPages ==
  ASSUME machine \in Machines, NEW k \in Usable, NEW q \in Nat,
         q = 0 \/ FirstPage(k) + q * PageSize <= Down(EndOf(k))
  PROVE  q * PtrSize <= EntrySize(mmap, k)
<1>1. /\ PageSize \in Nat \ {0} /\ PtrSize \in Nat \ {0} /\ k \in DOMAIN mmap
      /\ mmap[k].length \in Nat /\ mmap[k].base_addr \in Nat /\ EndOf(k) \in Nat
      /\ EndOf(k) = mmap[k].base_addr + mmap[k].length
  BY MapTypes, BootMemAssumption DEF Usable
<1> DEFINE n == mmap[k].length \div PageSize
           r == mmap[k].length % PageSize
<1>2. n \in Nat /\ r \in 0 .. PageSize - 1 /\ mmap[k].length = PageSize * n + r
  BY Zenon, <1>1, DivMod
<1>3. EntrySize(mmap, k) = n * PtrSize
  BY DEF EntrySize, Usable
<1>4. q <= n
  <2>1. CASE q = 0
    BY <1>2, <2>1
  <2>2. CASE FirstPage(k) + q * PageSize <= Down(EndOf(k))
    <3>1. /\ FirstPage(k) \in Nat /\ mmap[k].base_addr <= FirstPage(k)
          /\ Down(EndOf(k)) \in Nat /\ Down(EndOf(k)) <= EndOf(k)
      BY Zenon, <1>1, Rounding DEF FirstPage
    <3>2. q * PageSize \in Nat
      BY <1>1
    <3>3. q * PageSize <= mmap[k].length
      BY <1>1, <2>2, <3>1, <3>2
    <3> HIDE DEF n, r
    <3>4. ASSUME n < q PROVE FALSE
      <4>1. PICK d \in Nat : q = n + 1 + d
        <5>1. q - n - 1 \in Nat /\ q = n + 1 + (q - n - 1)
          BY <1>2, <3>4
        <5> QED BY Zenon, <5>1
      <4>2. /\ (n + 1 + d) * PageSize = PageSize * n + PageSize + d * PageSize
            /\ d * PageSize \in Nat /\ PageSize * n \in Nat
        BY <1>1, <1>2
      <4> QED BY <1>1, <1>2, <3>3, <4>1, <4>2
    <3> QED BY <1>2, <3>4
  <2> QED BY Zenon, <2>1, <2>2
<1> HIDE DEF n, r
<1>5. q * PtrSize <= n * PtrSize
  <2>1. PICK d \in Nat : n = q + d
    <3>1. n - q \in Nat /\ n = q + (n - q)
      BY <1>2, <1>4
    <3> QED BY <3>1
  <2>2. (q + d) * PtrSize = q * PtrSize + d * PtrSize /\ d * PtrSize \in Nat /\ q * PtrSize \in Nat
    BY <1>1
  <2> QED BY <2>1, <2>2
<1> QED BY Zenon, <1>3, <1>5

-----------------------------------------------------------------------------
(* pmm_init puts a page on the stack, keeps it for the APs or skips it.     *)
LEMMA FillPageStep ==
  ASSUME BInv, FillPage
  PROVE  BInv'
<1>1. /\ machine \in Machines /\ pc = "pages" /\ Placed /\ FreeInv /\ CountInv
      /\ machine' = machine /\ safe' = safe /\ taken = {} /\ taken' = {}
      /\ freePages \in Seq(Nat) /\ apLow \in Nat /\ cur \in Nat /\ UNCHANGED <<boot, scan>>
      /\ i \in Usable /\ cur % PageSize = 0
  BY DEF BInv, FillPage, Placed, boot, scan, CountInv
<1>2. /\ Len(mmap) \in Nat /\ DOMAIN mmap = 1 .. Len(mmap) /\ mmap \in Seq(MapEntries)
      /\ Usable \subseteq 1 .. Len(mmap) /\ EndOf(i) \in Nat /\ mmap[i].base_addr \in Nat
  BY <1>1, MapTypes DEF Usable
<1>3. /\ mmap' = mmap /\ Usable' = Usable /\ required' = required /\ max_addr' = max_addr
      /\ \A k : PagesOf(k)' = PagesOf(k)
      /\ \A k : FirstPage(k)' = FirstPage(k) /\ EndOf(k)' = EndOf(k)
  BY <1>1, Static, SameRegion
<1>4. /\ PageSize \in Nat \ {0} /\ PtrSize \in Nat \ {0} /\ LowLimit \in Nat \ {0}
      /\ SizeAfter(mmap)[i - 1] \in Nat /\ SizeAfter(mmap)[i] \in Nat
      /\ SizeAfter(mmap)[i] = SizeAfter(mmap)[i - 1] + EntrySize(mmap, i)
      /\ Len(freePages) \in Nat
  <2>1. /\ SizeAfter(mmap) \in [0 .. Len(mmap) -> Nat] /\ i \in 1 .. Len(mmap)
        /\ \A n \in 1 .. Len(mmap) : SizeAfter(mmap)[n] = SizeAfter(mmap)[n - 1] + EntrySize(mmap, n)
    BY <1>1, <1>2, Sums
  <2>2. i - 1 \in 0 .. Len(mmap) /\ i \in 0 .. Len(mmap)
    BY <1>2, <2>1
  <2>3. PageSize \in Nat \ {0} /\ PtrSize \in Nat \ {0} /\ LowLimit \in Nat \ {0}
    BY BootMemAssumption
  <2>4. Len(freePages) \in Nat
    BY <1>1
  <2> QED BY <2>1, <2>2, <2>3, <2>4
<1>5. PICK q \in 0 .. cur : /\ cur = FirstPage(i) + q * PageSize
                            /\ q = 0 \/ cur <= Down(EndOf(i))
                            /\ Len(freePages) * PtrSize <= SizeAfter(mmap)[i - 1] + q * PtrSize
  BY <1>1 DEF CountInv
<1>6. /\ FirstPage(i) \in Nat /\ mmap[i].base_addr <= FirstPage(i) /\ q * PageSize \in Nat
      /\ Down(EndOf(i)) \in Nat /\ Down(EndOf(i)) % PageSize = 0 /\ Down(EndOf(i)) <= EndOf(i)
      /\ EndOf(i) <= max_addr /\ max_addr \in Nat
  <2>1. q * PageSize \in Nat
    BY <1>4, <1>5
  <2>2. FirstPage(i) \in Nat /\ mmap[i].base_addr <= FirstPage(i)
    BY Zenon, <1>2, Rounding DEF FirstPage
  <2>3. Down(EndOf(i)) \in Nat /\ Down(EndOf(i)) % PageSize = 0 /\ Down(EndOf(i)) <= EndOf(i)
    BY <1>2, Rounding
  <2>4. EndOf(i) <= max_addr /\ max_addr \in Nat
    BY Zenon, <1>1, <1>2, HighestAddress
  <2> QED BY Zenon, <2>1, <2>2, <2>3, <2>4
<1>7. CASE cur < Down(EndOf(i))
  <2>1. pc' = "pages" /\ i' = i /\ cur' = cur + PageSize
    BY <1>1, <1>7 DEF FillPage
  <2>2. cur + PageSize <= Down(EndOf(i)) /\ (cur + PageSize) % PageSize = 0
    BY Zenon, <1>1, <1>6, <1>7, Multiples
  <2>3. ASSUME NEW p \in 1 .. max_addr
        PROVE  Met(p)' <=> Met(p) \/ (p = cur /\ p \in PagesOf(i))
    <3>1. ASSUME p \in PagesOf(i) PROVE p < cur + PageSize <=> p < cur \/ p = cur
      <4>1. p % PageSize = 0 /\ p \in Nat
        BY <3>1 DEF PagesOf
      <4>2. cur < p => cur + PageSize <= p
        BY <1>1, <4>1, Multiples
      <4> QED BY <1>1, <1>4, <4>1, <4>2
    <3>2. \A k \in Usable : k < i => k # i
      BY <1>2
    <3> QED BY Zenon, <1>1, <1>3, <2>1, <3>1, <3>2 DEF Met
  <2>4. cur \in PagesOf(i) <=> cur # 0 /\ \A u \in Unsafe : ~In(cur, u)
    <3>1. cur # 0 <=> cur \in 1 .. max_addr
      <4>1. cur < EndOf(i)
        BY <1>1, <1>2, <1>6, <1>7
      <4> QED BY <1>1, <1>2, <1>6, <4>1
    <3>2. FirstPage(i) <= cur
      BY <1>1, <1>5, <1>6
    <3> QED BY Zenon, <1>1, <1>7, <3>1, <3>2 DEF PagesOf
  <2>5. ASSUME Len(freePages') \in Nat, Len(freePages') <= Len(freePages) + 1
        PROVE  CountInv'
    <3>1. q + 1 \in 0 .. cur'
      <4>1. q <= cur /\ q \in Nat
        BY SMTT(30), <1>5
      <4> QED BY <1>1, <1>4, <2>1, <4>1
    <3>2. cur' = FirstPage(i) + (q + 1) * PageSize
      <4>1. (q + 1) * PageSize = q * PageSize + PageSize
        BY <1>4, <1>5
      <4> QED BY SMTT(30), <1>1, <1>4, <1>5, <1>6, <2>1, <4>1
    <3>3. Len(freePages') * PtrSize <= SizeAfter(mmap)[i - 1] + (q + 1) * PtrSize
      <4>1. (q + 1) * PtrSize = q * PtrSize + PtrSize /\ q * PtrSize \in Nat
        BY <1>4, <1>5
      <4>2. (Len(freePages) + 1) * PtrSize = Len(freePages) * PtrSize + PtrSize
            /\ Len(freePages) * PtrSize \in Nat
        BY <1>4
      <4>3. Len(freePages') * PtrSize <= (Len(freePages) + 1) * PtrSize
        <5>1. PICK d \in Nat : Len(freePages) + 1 = Len(freePages') + d
          <6>1. Len(freePages) + 1 - Len(freePages') \in Nat
            BY <1>4, <2>5
          <6>2. Len(freePages) + 1 = Len(freePages') + (Len(freePages) + 1 - Len(freePages'))
            BY <1>4, <2>5
          <6> QED BY <6>1, <6>2
        <5>2. (Len(freePages') + d) * PtrSize = Len(freePages') * PtrSize + d * PtrSize
              /\ d * PtrSize \in Nat /\ Len(freePages') * PtrSize \in Nat
          BY <1>4, <2>5
        <5> QED BY <5>1, <5>2
      <4>4. Len(freePages') * PtrSize \in Nat
        BY <1>4, <2>5
      <4> QED BY SMTT(30), <1>4, <1>5, <4>1, <4>2, <4>3, <4>4
    <3> QED BY ZenonT(40), <1>1, <1>3, <2>1, <2>2, <3>1, <3>2, <3>3 DEF CountInv
  <2>6. cur \notin HandedOut
    <3>1. ASSUME cur \in HandedOut PROVE FALSE
      <4>1. Met(cur)
        BY <1>1, <3>1 DEF FreeInv
      <4> QED BY <1>1, <4>1, MetBelow
    <3> QED BY <3>1
  <2>7. Placed' /\ i' \in Nat \ {0} /\ cur' \in Nat
    BY <1>1, <1>2, <1>4, <2>1 DEF Placed
  <2>8. CASE \E u \in Unsafe : In(cur, u)
    <3>1. freePages' = freePages /\ apLow' = apLow
      BY Zenon, <1>7, <2>8 DEF FillPage
    <3>2. FreeInv'
      <4>1. HandedOut' = HandedOut
        BY Zenon, <1>1, <3>1 DEF HandedOut
      <4>2. {p \in 1 .. max_addr : Met(p)}' = {p \in 1 .. max_addr : Met(p)}
        BY Zenon, <1>3, <2>3, <2>4, <2>8
      <4> QED BY Zenon, <1>1, <3>1, <4>1, <4>2 DEF FreeInv
    <3>3. Len(freePages) <= Len(freePages) + 1
      BY <1>4
    <3>4. CountInv'
      BY Zenon, <1>4, <2>5, <3>1, <3>3
    <3> QED BY Zenon, <1>1, <2>7, <3>1, <3>2, <3>4, FillFrame
  <2>9. CASE (~ \E u \in Unsafe : In(cur, u)) /\ apLow = 0 /\ cur < LowLimit
    <3>1. freePages' = freePages /\ apLow' = cur
      BY <1>7, <2>9 DEF FillPage
    <3>2. HandedOut' = IF cur = 0 THEN HandedOut ELSE HandedOut \cup {cur}
      BY <1>1, <2>9, <3>1 DEF HandedOut
    <3>3. cur # 0 => cur \in 1 .. max_addr /\ cur \in PagesOf(i)
      BY <2>4, <2>9 DEF PagesOf
    <3>4. HandedOut' = {p \in 1 .. max_addr : Met(p)}'
      BY ZenonT(40), <1>1, <1>3, <2>3, <2>4, <3>2, <3>3 DEF FreeInv
    <3>5. FreeInv'
      BY <1>1, <2>6, <3>1, <3>4 DEF FreeInv, HandedOut
    <3>6. Len(freePages) <= Len(freePages) + 1
      BY <1>4
    <3>7. CountInv'
      BY Zenon, <1>4, <2>5, <3>1, <3>6
    <3> QED BY Zenon, <1>1, <2>7, <3>1, <3>5, <3>7, FillFrame
  <2>10. CASE (~ \E u \in Unsafe : In(cur, u)) /\ ~(apLow = 0 /\ cur < LowLimit)
    <3>1. freePages' = Append(freePages, cur) /\ apLow' = apLow
      BY <1>7, <2>10 DEF FillPage
    <3>2. cur # 0
      <4>1. CASE apLow = 0
        BY <1>4, <2>10, <4>1
      <4>2. CASE apLow # 0
        <5>1. Met(apLow)
          BY <1>1, <4>2 DEF FreeInv, HandedOut
        <5> QED BY <1>1, <5>1, MetBelow
      <4> QED BY <4>1, <4>2
    <3>3. cur \in 1 .. max_addr /\ cur \in PagesOf(i)
      BY <2>4, <2>10, <3>2 DEF PagesOf
    <3>4. cur \notin Range(freePages) /\ (apLow # 0 => apLow # cur)
      BY <2>6 DEF HandedOut
    <3>5. /\ freePages' \in Seq(Nat) /\ Len(freePages') = Len(freePages) + 1
          /\ Range(freePages') = Range(freePages) \cup {cur}
          /\ \A x, y \in DOMAIN freePages' : freePages'[x] = freePages'[y] => x = y
      BY Zenon, <1>1, <3>1, <3>4, Pushed DEF FreeInv
    <3>6. HandedOut' = HandedOut \cup {cur}
      BY Zenon, <1>1, <3>1, <3>5 DEF HandedOut
    <3>7. HandedOut' = {p \in 1 .. max_addr : Met(p)}'
      BY Zenon, <1>1, <1>3, <2>3, <3>3, <3>6 DEF FreeInv
    <3>8. FreeInv'
      BY Zenon, <1>1, <3>1, <3>4, <3>5, <3>7 DEF FreeInv
    <3>9. Len(freePages') \in Nat /\ Len(freePages') <= Len(freePages) + 1
      BY <1>4, <3>5
    <3> QED BY Zenon, <1>1, <2>5, <2>7, <3>1, <3>5, <3>8, <3>9, FillFrame
  <2> QED BY <2>8, <2>9, <2>10
<1>8. CASE ~(cur < Down(EndOf(i)))
  <2>1. pc' = "fill" /\ i' = i + 1 /\ cur' = cur /\ freePages' = freePages /\ apLow' = apLow
    BY <1>8 DEF FillPage
  <2>2. ASSUME NEW p \in 1 .. max_addr PROVE Met(p)' <=> Met(p)
    <3>1. p \in PagesOf(i) => p < cur
      BY <1>1, <1>6, <1>8 DEF PagesOf
    <3>2. \A k \in Usable : k < i + 1 <=> k < i \/ k = i
      BY <1>1, <1>2
    <3> QED BY ZenonT(40), <1>1, <1>3, <2>1, <3>1, <3>2 DEF Met
  <2>3. FreeInv'
    BY ZenonT(40), <1>1, <1>3, <2>1, <2>2 DEF FreeInv, HandedOut
  <2>4. CountInv'
    <3>1. q = 0 \/ FirstPage(i) + q * PageSize <= Down(EndOf(i))
      BY <1>5
    <3>2. q * PtrSize <= EntrySize(mmap, i) /\ EntrySize(mmap, i) \in Nat
      BY <1>1, <1>2, <1>5, <3>1, EntryHoldsPages, SizeOfEntry
    <3>3. q * PtrSize \in Nat /\ Len(freePages) * PtrSize \in Nat
      BY <1>4, <1>5
    <3>4. Len(freePages) * PtrSize <= SizeAfter(mmap)[i]
      BY <1>4, <1>5, <3>2, <3>3
    <3>5. i + 1 \in 1 .. Len(mmap) + 1 /\ i + 1 - 1 = i
      BY <1>1, <1>2
    <3>6. Len(freePages') * PtrSize <= SizeAfter(mmap')[i' - 1] /\ i' \in 1 .. Len(mmap') + 1
      <4>1. i' - 1 = i /\ i' \in 1 .. Len(mmap) + 1
        BY <1>1, <1>2, <2>1, <3>5
      <4>2. mmap' = mmap /\ freePages' = freePages
        BY <1>3, <2>1
      <4> QED BY <3>4, <4>1, <4>2
    <3> QED BY <1>1, <2>1, <3>6 DEF CountInv
  <2>5. Placed' /\ i' \in Nat \ {0} /\ cur' \in Nat
    BY SMTT(30), <1>1, <1>2, <2>1 DEF Placed
  <2> QED BY Zenon, <1>1, <2>1, <2>3, <2>4, <2>5, FillFrame
<1> QED BY SMTT(30), <1>7, <1>8

-----------------------------------------------------------------------------
(* _init_paging moves pages from the stack to the tables.                   *)
LEMMA MapBlockStep ==
  ASSUME BInv, MapBlock
  PROVE  BInv'
<1>1. /\ machine \in Machines /\ pc = "paging" /\ Placed /\ FreeInv /\ CountInv
      /\ machine' = machine /\ safe' = safe /\ i' = i /\ apLow' = apLow
      /\ freePages \in Seq(Nat) /\ apLow \in Nat /\ cur \in Nat /\ UNCHANGED <<boot, scan>>
      /\ taken \subseteq Nat /\ i \in Nat \ {0} /\ i = Len(mmap) + 1
      /\ Len(freePages) * PtrSize <= required
  BY DEF BInv, MapBlock, Placed, boot, scan, CountInv
<1>2. /\ mmap' = mmap /\ Usable' = Usable /\ required' = required /\ max_addr' = max_addr
      /\ \A k : PagesOf(k)' = PagesOf(k)
  BY ZenonT(40), <1>1, Static, SameRegion
<1>3. /\ PtrSize \in Nat /\ required \in Nat /\ Len(freePages) \in Nat /\ GiB \in Nat
  <2>1. PtrSize \in Nat /\ GiB \in Nat
    BY BootMemAssumption
  <2>2. required \in Nat
    BY Zenon, <1>1, MapTypes
  <2>3. Len(freePages) \in Nat
    BY <1>1
  <2> QED BY Zenon, <2>1, <2>2, <2>3
<1>4. ASSUME pc' \in {"paging", "done", "underflow"}, cur' \in Nat,
             freePages' \in Seq(Nat), Len(freePages') <= Len(freePages),
             \A x, y \in DOMAIN freePages' : freePages'[x] = freePages'[y] => x = y,
             NEW m, m \subseteq Range(freePages), taken' = taken \cup m,
             Range(freePages') = Range(freePages) \ m
      PROVE  BInv'
  <2>1. HandedOut' = HandedOut
    BY <1>1, <1>4 DEF HandedOut
  <2>2. \A p : Met(p)' <=> Met(p)
    BY Zenon, <1>1, <1>2, <1>4 DEF Met
  <2>3. FreeInv'
    BY <1>1, <1>2, <1>4, <2>1, <2>2 DEF FreeInv
  <2>4. Len(freePages') * PtrSize <= required
    <3>1. Len(freePages') \in Nat
      BY <1>4
    <3>2. PICK d \in Nat : Len(freePages) = Len(freePages') + d
      <4>1. Len(freePages) - Len(freePages') \in Nat
        BY <1>3, <1>4, <3>1
      <4>2. Len(freePages) = Len(freePages') + (Len(freePages) - Len(freePages'))
        BY <1>3, <3>1
      <4> QED BY Zenon, <4>1, <4>2
    <3>3. (Len(freePages') + d) * PtrSize = Len(freePages') * PtrSize + d * PtrSize
          /\ d * PtrSize \in Nat /\ Len(freePages') * PtrSize \in Nat
      BY SMTT(30), <1>3, <3>1
    <3> QED BY SMTT(30), <1>1, <1>3, <3>2, <3>3
  <2>5. CountInv'
    BY <1>1, <1>2, <1>4, <2>4 DEF CountInv
  <2>6. taken' \subseteq Nat
    <3>1. Range(freePages) \subseteq Nat
      BY <1>1 DEF Range
    <3> QED BY Zenon, <1>1, <1>4, <3>1
  <2>7. Placed'
    BY <1>4 DEF Placed
  <2> QED BY Zenon, <1>1, <1>4, <2>3, <2>5, <2>6, <2>7, FillFrame
<1> DEFINE slot == cur \div SlotSpan
           one == WithoutLowest(freePages)
<1>5. CASE freePages' = freePages /\ taken' = taken /\ cur' = cur /\ pc' \in {"done", "underflow"}
  <2>1. Len(freePages) <= Len(freePages)
    BY <1>3
  <2> QED BY Zenon, <1>1, <1>4, <1>5, <2>1 DEF FreeInv
<1>6. CASE /\ cur < max_addr /\ slot \in slots /\ Len(freePages) >= 1
           /\ freePages' = one /\ taken' = taken \cup {freePages[LowestIndex(freePages)]}
           /\ cur' = cur + GiB /\ pc' = pc
  <2>1. freePages # << >>
    BY <1>6
  <2>2. /\ one \in Seq(Nat) /\ Len(one) = Len(freePages) - 1
        /\ freePages[LowestIndex(freePages)] \in Range(freePages)
        /\ Range(one) = Range(freePages) \ {freePages[LowestIndex(freePages)]}
        /\ \A x, y \in DOMAIN one : one[x] = one[y] => x = y
    BY <1>1, <2>1, LowestTaken DEF FreeInv
  <2>3. Len(one) <= Len(freePages) /\ cur' \in Nat
    BY <1>1, <1>3, <1>6, <2>2
  <2> HIDE DEF one
  <2>4. PICK m : m = {freePages[LowestIndex(freePages)]}
    OBVIOUS
  <2>5. /\ m \subseteq Range(freePages) /\ taken' = taken \cup m
        /\ Range(freePages') = Range(freePages) \ m
    BY Zenon, <1>6, <2>2, <2>4
  <2> QED BY Zenon, <1>1, <1>4, <1>6, <2>2, <2>3, <2>5
<1>7. CASE /\ cur < max_addr /\ slot \notin slots /\ Len(freePages) >= 2
           /\ freePages' = WithoutLowest(one)
           /\ taken' = taken \cup {freePages[LowestIndex(freePages)]} \cup {one[LowestIndex(one)]}
           /\ cur' = cur + GiB /\ pc' = pc
  <2>1. freePages # << >>
    BY <1>7
  <2>2. /\ one \in Seq(Nat) /\ Len(one) = Len(freePages) - 1
        /\ freePages[LowestIndex(freePages)] \in Range(freePages)
        /\ Range(one) = Range(freePages) \ {freePages[LowestIndex(freePages)]}
        /\ \A x, y \in DOMAIN one : one[x] = one[y] => x = y
    BY <1>1, <2>1, LowestTaken DEF FreeInv
  <2> DEFINE two == WithoutLowest(one)
  <2> HIDE DEF one
  <2>3. one # << >>
    BY <1>3, <1>7, <2>2
  <2>4. /\ two \in Seq(Nat) /\ Len(two) = Len(one) - 1
        /\ one[LowestIndex(one)] \in Range(one)
        /\ Range(two) = Range(one) \ {one[LowestIndex(one)]}
        /\ \A x, y \in DOMAIN two : two[x] = two[y] => x = y
    BY ZenonT(40), <2>2, <2>3, LowestTaken
  <2>5. Len(two) <= Len(freePages) /\ cur' \in Nat
    BY <1>1, <1>3, <1>7, <2>2, <2>4
  <2> HIDE DEF two
  <2> DEFINE m == {freePages[LowestIndex(freePages)], one[LowestIndex(one)]}
  <2>6. /\ m \subseteq Range(freePages) /\ taken' = taken \cup m
        /\ Range(two) = Range(freePages) \ m
    BY Zenon, <1>7, <2>2, <2>4
  <2>7. freePages' = two
    BY <1>7 DEF two
  <2> HIDE DEF m
  <2> QED BY Zenon, <1>1, <1>4, <1>7, <2>4, <2>5, <2>6, <2>7
<1>8. max_addr \in Nat
  BY <1>1, HighestAddress
<1>9. CASE cur >= max_addr
  BY Zenon, <1>5, <1>9 DEF MapBlock
<1>10. CASE ~(cur >= max_addr) /\ Len(freePages) < IF slot \in slots THEN 1 ELSE 2
  BY Zenon, <1>5, <1>10 DEF MapBlock
<1>11. CASE ~(cur >= max_addr) /\ ~(Len(freePages) < IF slot \in slots THEN 1 ELSE 2)
  <2>1. cur < max_addr
    BY <1>1, <1>8, <1>11
  <2>2. CASE slot \in slots
    <3>1. Len(freePages) >= 1
      BY SMTT(30), <1>3, <1>11, <2>2
    <3> QED BY <1>6, <1>11, <2>1, <2>2, <3>1 DEF MapBlock
  <2>3. CASE slot \notin slots
    <3>1. Len(freePages) >= 2
      BY <1>3, <1>11, <2>3
    <3> QED BY <1>7, <1>11, <2>1, <2>3, <3>1 DEF MapBlock
  <2> QED BY Zenon, <2>2, <2>3
<1> QED BY ZenonT(40), <1>9, <1>10, <1>11

-----------------------------------------------------------------------------
(* The boot processor keeps the invariant on every machine.                 *)
THEOREM BootInvariant == Spec => []BInv
<1>1. Init => BInv
  <2> SUFFICES ASSUME Init PROVE BInv
    OBVIOUS
  <2>1. << >> \in Seq(Nat)
    OBVIOUS
  <2> QED BY <2>1 DEF Init, BInv, Placed
<1>2. BInv /\ [Next]_vars => BInv'
  <2> SUFFICES ASSUME BInv, [Next]_vars PROVE BInv'
    OBVIOUS
  <2>1. CASE UNCHANGED vars
    <3>1. /\ machine' = machine /\ safe' = safe /\ pc' = pc /\ i' = i /\ ptr' = ptr
          /\ count' = count /\ freePages' = freePages /\ apLow' = apLow /\ cur' = cur
          /\ taken' = taken
      BY Zenon, <2>1 DEF vars
    <3>2. ScanInv => ScanInv'
      BY Zenon, <3>1, Static DEF ScanInv, SafeStart, Bytes
    <3>3. HandedOut' = HandedOut /\ \A p : Met(p)' <=> Met(p)
      BY Zenon, <3>1, Static, SameRegion DEF HandedOut, Met
    <3>4. FreeInv => FreeInv'
      BY ZenonT(40), <3>1, <3>3, Static DEF FreeInv
    <3>5. CountInv => CountInv'
      BY <3>1, Static DEF CountInv
    <3>6. Placed' = Placed
      BY <3>1 DEF Placed
    <3> QED BY Zenon, <3>1, <3>2, <3>4, <3>5, <3>6, SameRegion DEF BInv
  <2> QED BY Zenon, <2>1, FirstSteps, ScanByteStep, FillEntryStep, FillPageStep, MapBlockStep DEF Next
<1> QED BY <1>1, <1>2, PTL DEF Spec

(* check_memory_bounds returns a region in one usable entry, apart from     *)
(* every area in use but for its last byte.                                 *)
THEOREM RegionIsUsable == Spec => []RegionUsable
<1>1. BInv => RegionUsable
  BY Zenon DEF BInv, RegionUsable
<1> QED BY <1>1, BootInvariant, PTL

(* pmm_init never pushes more pages than get_stack_size has made room for.  *)
THEOREM FreeStackFits == Spec => []StackFits
<1>1. BInv => StackFits
  <2> SUFFICES ASSUME BInv PROVE Len(freePages) * PtrSize <= required
    BY Zenon DEF StackFits
  <2>1. /\ machine \in Machines /\ required \in Nat /\ PtrSize \in Nat
        /\ Len(mmap) \in Nat /\ mmap \in Seq(MapEntries) /\ Usable \subseteq 1 .. Len(mmap)
        /\ freePages \in Seq(Nat)
    BY MapTypes, BootMemAssumption DEF BInv, Usable
  <2>2. /\ SizeAfter(mmap) \in [0 .. Len(mmap) -> Nat]
        /\ \A n \in 0 .. Len(mmap) : SizeAfter(mmap)[n] <= required
    BY <2>1, Sums, SumsGrow DEF required
  <2>3. CASE freePages = << >>
    BY <2>1, <2>3
  <2>4. CASE pc = "fill"
    <3>1. i - 1 \in 0 .. Len(mmap) /\ Len(freePages) * PtrSize <= SizeAfter(mmap)[i - 1]
      BY <2>1, <2>4 DEF BInv, CountInv, Placed
    <3>2. SizeAfter(mmap)[i - 1] \in Nat /\ SizeAfter(mmap)[i - 1] <= required
      BY <2>2, <3>1
    <3>3. Len(freePages) * PtrSize \in Nat
      BY <2>1
    <3> QED BY <2>1, <3>1, <3>2, <3>3
  <2>5. CASE pc = "pages"
    <3>1. i \in Usable /\ CountInv /\ cur \in Nat
      BY <2>5 DEF BInv, CountInv, Placed
    <3>2. PICK q \in 0 .. cur :
            /\ q = 0 \/ FirstPage(i) + q * PageSize <= Down(EndOf(i))
            /\ Len(freePages) * PtrSize <= SizeAfter(mmap)[i - 1] + q * PtrSize
      BY <2>5, <3>1 DEF CountInv
    <3>3. /\ q * PtrSize <= EntrySize(mmap, i) /\ EntrySize(mmap, i) \in Nat
      BY <2>1, <3>1, <3>2, EntryHoldsPages, SizeOfEntry
    <3>4. i \in 1 .. Len(mmap) /\ i \in 0 .. Len(mmap) /\ i - 1 \in 0 .. Len(mmap)
      BY <2>1, <3>1
    <3>5. /\ SizeAfter(mmap)[i] = SizeAfter(mmap)[i - 1] + EntrySize(mmap, i)
          /\ SizeAfter(mmap)[i] <= required
          /\ SizeAfter(mmap)[i] \in Nat /\ SizeAfter(mmap)[i - 1] \in Nat
      BY Zenon, <2>1, <2>2, <3>4, Sums
    <3>6. q * PtrSize \in Nat /\ Len(freePages) * PtrSize \in Nat
      BY <2>1, <3>2
    <3> QED BY SMTT(30), <2>1, <3>2, <3>3, <3>5, <3>6
  <2>6. CASE pc \in {"paging", "done", "underflow"}
    BY <2>6 DEF BInv, CountInv, Placed
  <2> QED BY <2>3, <2>4, <2>5, <2>6 DEF BInv
<1> QED BY <1>1, BootInvariant, PTL

(* A page that was handed out is a whole page of one usable entry.          *)
LEMMA PageOfEntry ==
  ASSUME machine \in Machines, NEW k \in Usable, NEW p \in PagesOf(k)
  PROVE  /\ p \in Nat /\ p % PageSize = 0 /\ \A u \in Unsafe : ~In(p, u)
         /\ k \in DOMAIN mmap /\ mmap[k].base_addr \in Nat /\ EndOf(k) \in Nat
         /\ mmap[k].base_addr <= p /\ p + PageSize <= EndOf(k)
<1>1. k \in DOMAIN mmap /\ mmap[k].base_addr \in Nat /\ EndOf(k) \in Nat
  BY MapTypes DEF Usable
<1>2. /\ p \in Nat /\ p % PageSize = 0 /\ \A u \in Unsafe : ~In(p, u)
      /\ Up(mmap[k].base_addr) <= p /\ p < Down(EndOf(k))
  BY DEF PagesOf, FirstPage
<1> QED BY ZenonT(40), <1>1, <1>2, PageInside

(* A page that pmm_init hands out shares no byte with an area in use that   *)
(* begins on a page boundary, nor with the stack of free pages unless that  *)
(* follows an area that does not begin on one.                              *)
THEOREM AreasAreKept == Spec => []AreasKept
<1>1. BInv => AreasKept
  <2> SUFFICES ASSUME BInv, Placed, NEW p \in HandedOut
               PROVE  /\ \A l \in DOMAIN InUse : InUse[l].start % PageSize = 0
                                                 => PageBytes(p) \cap Bytes(InUse[l]) = {}
                      /\ (\A l \in DOMAIN InUse : InUse[l].end = safe
                                                  => InUse[l].start % PageSize = 0)
                           => PageBytes(p) \cap Bytes(StackRegion) = {}
    BY Zenon DEF AreasKept
  <2>1. /\ machine \in Machines /\ SafeStart(safe) /\ RegionUsable /\ FreeInv /\ safe \in Nat
        /\ required \in Nat /\ PageSize \in Nat \ {0}
    BY Zenon, MapTypes, BootMemAssumption DEF BInv
  <2>2. PICK k \in Usable : p \in PagesOf(k)
    BY <2>1 DEF FreeInv, Met
  <2>3. /\ p \in Nat /\ p % PageSize = 0 /\ \A v \in Unsafe : ~In(p, v)
        /\ k \in DOMAIN mmap /\ mmap[k].base_addr \in Nat /\ EndOf(k) \in Nat
        /\ mmap[k].base_addr <= p /\ p + PageSize <= EndOf(k)
    BY Zenon, <2>1, <2>2, PageOfEntry
  <2>4. ASSUME NEW l \in DOMAIN InUse
        PROVE  /\ InUse[l] \in Areas /\ InUse[l] \in Unsafe
               /\ InUse[l].start % PageSize = 0 => PageBytes(p) \cap Bytes(InUse[l]) = {}
    <3>1. InUse[l] \in Areas /\ InUse[l] \in Unsafe
      BY Zenon, <2>1, AreaTypes DEF Unsafe
    <3> QED BY Zenon, <2>3, <3>1, FirstByteDecides
  <2>6. safe \in Nat /\ required \in Nat /\ PageSize \in Nat \ {0} /\ p \in Nat
    BY Zenon, <2>1, <2>3
  <2>5. ASSUME \A l \in DOMAIN InUse : InUse[l].end = safe => InUse[l].start % PageSize = 0
        PROVE  PageBytes(p) \cap Bytes(StackRegion) = {}
    <3>0. StackRegion \in Unsafe
      BY Zenon DEF Unsafe
    <3>1. Bytes(StackRegion) = safe .. safe + required - 1
      <4>1. StackRegion.start = safe /\ StackRegion.end = safe + required
        BY ZenonT(40) DEF StackRegion, Area
      <4> QED BY <2>1, <4>1 DEF Bytes
    <3>2. p < safe \/ p >= safe + required
      <4>1. ~In(p, StackRegion)
        BY Zenon, <2>3, <3>0
      <4>2. ~(p >= safe /\ p < safe + required)
        BY <4>1 DEF In, StackRegion, Area
      <4> QED BY <2>6, <4>2
    <3>3. CASE p >= safe + required
      BY SMTT(30), <2>6, <3>1, <3>3 DEF PageBytes
    <3>4. CASE p < safe /\ required = 0
      BY SMTT(30), <2>6, <3>1, <3>4
    <3>5. CASE p < safe /\ required # 0 /\ \E l \in DOMAIN InUse : safe = InUse[l].end
      <4>1. PICK l \in DOMAIN InUse : safe = InUse[l].end
        BY Zenon, <3>5
      <4>2. PICK st \in Nat : st = InUse[l].start /\ st + 1 < safe /\ st % PageSize = 0
        BY Zenon, <2>1, <2>5, <4>1, AreaTypes
      <4>3. ~(st <= p)
        BY ZenonT(40), <2>3, <2>4, <3>5, <4>1, <4>2 DEF In
      <4>4. p + PageSize <= st
        BY SMTT(30), <2>3, <4>2, <4>3, Multiples
      <4> QED BY SMTT(30), <2>6, <3>1, <4>2, <4>4 DEF PageBytes
    <3>6. CASE p < safe /\ required # 0 /\ \E l \in Usable : safe = mmap[l].base_addr
      <4>1. PICK l \in Usable : safe = mmap[l].base_addr
        BY Zenon, <3>6
      <4>2. PICK j \in Usable : safe .. safe + required - 1 \subseteq mmap[j].base_addr .. EndOf(j) - 1
        BY ZenonT(40), <2>1, <3>1 DEF RegionUsable
      <4>3. /\ mmap[j].base_addr \in Nat /\ EndOf(j) \in Nat /\ EndOf(l) \in Nat
            /\ j \in Nat /\ l \in Nat /\ k \in Nat /\ mmap[l].base_addr <= EndOf(l)
        <5>1. j \in DOMAIN mmap /\ l \in DOMAIN mmap /\ DOMAIN mmap \subseteq Nat
          BY <2>1, MapTypes DEF Usable
        <5>2. /\ mmap[j].base_addr \in Nat /\ EndOf(j) \in Nat
              /\ EndOf(l) \in Nat /\ mmap[l].base_addr \in Nat /\ mmap[l].length \in Nat
              /\ EndOf(l) = mmap[l].base_addr + mmap[l].length
          BY ZenonT(40), <2>1, <5>1, MapTypes
        <5> QED BY SMTT(30), <2>3, <5>1, <5>2
      <4>4. /\ mmap[j].base_addr <= safe /\ safe < EndOf(j) /\ safe + required <= EndOf(j)
        <5>1. safe \in safe .. safe + required - 1 /\ safe + required - 1 \in safe .. safe + required - 1
          BY <2>1, <3>6
        <5>2. safe \in mmap[j].base_addr .. EndOf(j) - 1
              /\ safe + required - 1 \in mmap[j].base_addr .. EndOf(j) - 1
          BY Zenon, <4>2, <5>1
        <5> QED BY <2>1, <4>3, <5>2
      <4>5. /\ \A a, b \in Usable : a < b => EndOf(a) <= mmap[b].base_addr
        BY Zenon, <2>1, MapTypes
      <4>6. safe = mmap[j].base_addr
        <5>1. CASE j = l
          BY Zenon, <4>1, <5>1
        <5>2. CASE j < l
          BY SMTT(30), <2>1, <4>1, <4>3, <4>4, <4>5, <5>2
        <5>3. CASE l < j
          BY <2>1, <4>1, <4>3, <4>4, <4>5, <5>3
        <5> QED BY <4>3, <5>1, <5>2, <5>3
      <4>7. p + PageSize <= safe
        <5>1. CASE k = j
          BY SMTT(30), <2>1, <2>3, <3>6, <4>6, <5>1
        <5>2. CASE k < j
          <6>1. EndOf(k) <= safe
            BY ZenonT(40), <4>5, <4>6, <5>2
          <6> QED BY SMTT(30), <2>1, <2>3, <6>1
        <5>3. CASE j < k
          <6>1. EndOf(j) <= mmap[k].base_addr
            BY <4>5, <5>3
          <6>2. mmap[k].base_addr \in Nat /\ mmap[k].base_addr <= p
            BY Zenon, <2>3
          <6> QED BY <2>6, <3>6, <4>3, <4>4, <6>1, <6>2
        <5> QED BY SMTT(30), <4>3, <5>1, <5>2, <5>3
      <4> QED BY <2>1, <2>3, <3>1, <4>7 DEF PageBytes
    <3> QED BY ZenonT(40), <2>1, <3>2, <3>3, <3>4, <3>5, <3>6 DEF SafeStart
  <2> QED BY Zenon, <2>4, <2>5
<1> QED BY <1>1, BootInvariant, PTL

(* When _init_paging is done, the usable pages are exactly the free ones,   *)
(* those that map memory and the one for the APs, each counted once.        *)
THEOREM PagesAreConserved == Spec => []PagesConserved
<1>1. BInv => PagesConserved
  <2> SUFFICES ASSUME BInv, pc = "done" PROVE PagesConserved
    BY Zenon DEF PagesConserved
  <2> DEFINE good == {p \in 1 .. max_addr :
                   /\ p % PageSize = 0 /\ \A u \in Unsafe : ~In(p, u)
                   /\ \E k \in Usable : PageBytes(p) \subseteq mmap[k].base_addr .. EndOf(k) - 1}
  <2>1. /\ machine \in Machines /\ FreeInv /\ i = Len(mmap) + 1 /\ max_addr \in Nat
        /\ freePages \in Seq(Nat) /\ Len(mmap) \in Nat /\ Usable \subseteq 1 .. Len(mmap)
    BY Zenon, MapTypes, HighestAddress DEF BInv, Placed, CountInv, Usable
  <2>2. ASSUME NEW p \in 1 .. max_addr, p % PageSize = 0, NEW k \in Usable
        PROVE  PageBytes(p) \subseteq mmap[k].base_addr .. EndOf(k) - 1
                 <=> FirstPage(k) <= p /\ p < Down(EndOf(k))
    <3>1. mmap[k].base_addr \in Nat /\ EndOf(k) \in Nat /\ p \in Nat
      BY <2>1, MapTypes DEF Usable
    <3> QED BY ZenonT(40), <2>2, <3>1, PageInside DEF FirstPage
  <2>3. \A p \in 1 .. max_addr : Met(p) <=> \E k \in Usable : p \in PagesOf(k)
    <3>1. \A k \in Usable : k < i
      BY <2>1
    <3> QED BY <3>1 DEF Met
  <2>4. \A p \in 1 .. max_addr : p \in good <=> \E k \in Usable : p \in PagesOf(k)
    BY Zenon, <2>2 DEF PagesOf
  <2>5. HandedOut = good
    BY Zenon, <2>1, <2>3, <2>4 DEF FreeInv
  <2> HIDE DEF good
  <2>6. 0 \notin HandedOut
    BY <2>5 DEF good
  <2>7. IsInjective(freePages) /\ Range(freePages) \cap taken = {}
    BY <2>1 DEF FreeInv, IsInjective
  <2>8. apLow \notin Range(freePages) \cup taken
    BY <2>1, <2>6 DEF FreeInv, HandedOut
  <2> QED BY Zenon, <2>5, <2>7, <2>8 DEF PagesConserved, good
<1> QED BY <1>1, BootInvariant, PTL
=============================================================================
