--------------------------- MODULE NodeAllocProofs ---------------------------
(***************************************************************************)
(* Proofs about node_alloc.c for any finite set of pages, any width of the  *)
(* words and any contents of the frames: what the operations on a header    *)
(* do, that the loop of create_node ends, and the inductive invariant       *)
(* NodeInv from which the properties of NodeAlloc follow.                   *)
(***************************************************************************)
EXTENDS NodeAlloc, FiniteSetTheorems, WellFoundedInduction, TLAPS

(* A set of natural numbers has a least one: induction, for the searches    *)
(* and loops below.                                                         *)
LEMMA LeastNat ==
  ASSUME NEW T, T \subseteq Nat, T # {}
  PROVE  \E x \in T : \A y \in T : x <= y
<1> DEFINE R == {ss \in Nat \X Nat : ss[1] < ss[2]}
<1>1. IsWellFoundedOn(R, Nat)
  BY NatLessThanWellFounded DEF OpToRel
<1>2. \E x \in T : \A y \in T : ~(<<y, x>> \in R)
  <2> HIDE DEF R
  <2> QED BY Zenon, <1>1, WFMin
<1>3. PICK x \in T : \A y \in T : ~(<<y, x>> \in R)
  BY <1>2
<1>4. ASSUME NEW y \in T PROVE x <= y
  <2>1. x \in Nat /\ y \in Nat
    OBVIOUS
  <2>2. y < x => <<y, x>> \in R
    BY <2>1
  <2> HIDE DEF R
  <2> QED BY <1>3, <2>2, <2>1
<1> QED BY <1>4

Header == [lo : Word, hi : Word]
Pointer == PageIds \cup {NULL, Wild}
HalfInt == IntBits \div 2

-----------------------------------------------------------------------------
(* The search of one word: the CHOOSE has a value.                          *)
LEMMA FirstZeroIs ==
  ASSUME NEW word, NEW limit \in Nat
  PROVE  /\ FirstZero(word, limit) \in 0 .. limit
         /\ FirstZero(word, limit) \notin word \/ FirstZero(word, limit) = limit
         /\ \A k \in 0 .. FirstZero(word, limit) - 1 : k \in word
<1> DEFINE T == {j \in 0 .. limit : j \notin word \/ j = limit}
           P(j) == (j \notin word \/ j = limit) /\ \A k \in 0 .. j - 1 : k \in word
<1>1. T \subseteq Nat /\ limit \in T
  OBVIOUS
<1>2. PICK j \in T : \A k \in T : j <= k
  <2> HIDE DEF T
  <2> QED BY Zenon, <1>1, LeastNat
<1>3. j \in 0 .. limit /\ (j \notin word \/ j = limit)
  BY <1>2
<1>4. ASSUME NEW k \in 0 .. j - 1 PROVE k \in word
  <2>1. k \in 0 .. limit /\ k # limit /\ ~(j <= k)
    BY <1>3
  <2> QED BY Zenon, <1>2, <2>1
<1>5. \E x \in 0 .. limit : P(x)
  BY Zenon, <1>3, <1>4
<1> QED BY Zenon, <1>5 DEF FirstZero

(* find_0_bit is -1 when every bit is set, and the lowest clear one else.   *)
LEMMA Find ==
  ASSUME NEW h \in Header
  PROVE  LET bit == find_0_bit(h)
         IN  \/ bit = -1 /\ \A idx \in NodeIndices : Marked(h, idx)
             \/ /\ bit \in NodeIndices /\ ~Marked(h, bit)
                /\ \A idx \in 0 .. bit - 1 : Marked(h, idx)
<1>1. /\ WordBits \in Nat /\ HEADER_BITS \in Nat /\ NodeIndices = 0 .. WordBits + HEADER_BITS - 1
      /\ h.lo \subseteq 0 .. WordBits - 1
  BY HeaderAssumption DEF NodeIndices, Header, Word
<1>2. CASE h.lo = 0 .. WordBits - 1
  <2> DEFINE j == FirstZero(h.hi, HEADER_BITS)
  <2>1. /\ j \in 0 .. HEADER_BITS /\ (j \notin h.hi \/ j = HEADER_BITS)
        /\ \A k \in 0 .. j - 1 : k \in h.hi
    BY Zenon, <1>1, FirstZeroIs
  <2>2. find_0_bit(h) = IF j >= HEADER_BITS THEN -1 ELSE WordBits + j
    BY <1>2 DEF find_0_bit
  <2> HIDE DEF j
  <2>3. ASSUME NEW idx \in 0 .. WordBits + j - 1 PROVE Marked(h, idx)
    <3>1. CASE idx < WordBits
      BY <1>1, <1>2, <3>1 DEF Marked
    <3>2. CASE ~(idx < WordBits)
      <4>1. idx - WordBits \in 0 .. j - 1
        BY <1>1, <2>1, <3>2
      <4> QED BY <2>1, <3>2, <4>1 DEF Marked
    <3> QED BY <3>1, <3>2
  <2>4. CASE j >= HEADER_BITS
    <3>1. NodeIndices = 0 .. WordBits + j - 1
      BY <1>1, <2>1, <2>4
    <3> QED BY <2>2, <2>3, <2>4, <3>1
  <2>5. CASE ~(j >= HEADER_BITS)
    <3>1. /\ find_0_bit(h) = WordBits + j /\ WordBits + j \in NodeIndices /\ j \notin h.hi
          /\ ~(WordBits + j < WordBits) /\ WordBits + j - WordBits = j
      BY <1>1, <2>1, <2>2, <2>5
    <3>2. ~Marked(h, WordBits + j)
      BY <1>1, <2>1, <3>1 DEF Marked
    <3>3. \A idx \in 0 .. WordBits + j - 1 : Marked(h, idx)
      BY <2>3
    <3>4. find_0_bit(h) \in NodeIndices /\ ~Marked(h, find_0_bit(h))
      BY Zenon, <3>1, <3>2
    <3>5. 0 .. find_0_bit(h) - 1 = 0 .. WordBits + j - 1
      BY <1>1, <2>1, <3>1
    <3> QED BY Zenon, <3>3, <3>4, <3>5
  <2> QED BY <2>4, <2>5
<1>3. CASE h.lo # 0 .. WordBits - 1
  <2> DEFINE j == FirstZero(h.lo, WordBits)
  <2>1. /\ j \in 0 .. WordBits /\ (j \notin h.lo \/ j = WordBits)
        /\ \A k \in 0 .. j - 1 : k \in h.lo
    BY Zenon, <1>1, FirstZeroIs
  <2>2. find_0_bit(h) = IF j >= WordBits THEN -1 ELSE 0 + j
    BY <1>3 DEF find_0_bit
  <2> HIDE DEF j
  <2>3. j < WordBits
    <3>1. CASE j = WordBits
      BY Zenon, <1>1, <1>3, <2>1, <3>1
    <3> QED BY <1>1, <2>1, <3>1
  <2>4. find_0_bit(h) = j /\ j \in NodeIndices /\ j \notin h.lo
    BY <1>1, <2>1, <2>2, <2>3
  <2>5. \A idx \in 0 .. j - 1 : idx < WordBits
    BY <1>1, <2>1
  <2> QED BY <2>1, <2>3, <2>4, <2>5 DEF Marked
<1> QED BY <1>2, <1>3

-----------------------------------------------------------------------------
(* What 1 << bit is for the bits of the lower half of an int.               *)
LEMMA Half ==
  /\ HalfInt \in Nat /\ 2 * HalfInt <= IntBits /\ HalfInt < IntBits
  /\ HalfInt < WordBits
BY HeaderAssumption DEF HalfInt

(* The remainders that the masks are built from.                            *)
LEMMA Modulus ==
  ASSUME NEW n \in Nat \ {0}
  PROVE  /\ \A x \in Int : x % n \in 0 .. n - 1
         /\ \A x \in 0 .. n - 1 : x % n = x
         /\ \A x \in 1 .. n - 1 : (-x) % n = n - x
OBVIOUS

(* A mask is a word, whatever the shift.                                    *)
LEMMA MaskInWord ==
  ASSUME NEW bit \in Int
  PROVE  ShiftMask(bit) \subseteq 0 .. WordBits - 1
BY HeaderAssumption, Modulus DEF ShiftMask

(* A shift by an index of the lower half sets that bit.                     *)
LEMMA MaskSets ==
  ASSUME NEW idx \in 0 .. HalfInt
  PROVE  idx \in ShiftMask(idx)
<1>1. idx % IntBits = idx /\ idx \in 0 .. WordBits - 1
  BY HeaderAssumption, Half, Modulus
<1> QED BY <1>1 DEF ShiftMask

(* A shift by minus such an index has no other bit of the lower half.       *)
LEMMA MaskClears ==
  ASSUME NEW idx \in 0 .. HalfInt, NEW j \in 0 .. HalfInt, j \in ShiftMask(-idx)
  PROVE  j = idx
<1>1. CASE idx = 0
  <2>1. (-idx) % IntBits = 0
    BY <1>1, HeaderAssumption, Modulus
  <2> QED BY <1>1, <2>1, Half, HeaderAssumption DEF ShiftMask
<1>2. CASE idx # 0
  <2>1. (-idx) % IntBits = IntBits - idx
    <3>1. idx \in 1 .. IntBits - 1
      BY <1>2, HeaderAssumption, Half
    <3> QED BY Zenon, <3>1, HeaderAssumption, Modulus
  <2>2. j >= IntBits - idx
    BY <2>1, HeaderAssumption, Half DEF ShiftMask
  <2> QED BY <2>2, Half, HeaderAssumption
<1> QED BY <1>1, <1>2
-----------------------------------------------------------------------------
(* What SetBit and ClearBit do to a header.                                 *)
LEMMA SetBitMarks ==
  ASSUME NEW h \in Header, NEW idx \in NodeIndices
  PROVE  /\ SetBit(h, idx) \in Header
         /\ h.lo \subseteq SetBit(h, idx).lo
         /\ idx <= HalfInt => idx \in SetBit(h, idx).lo
<1>1. idx \in Nat /\ WordBits \in Nat /\ h.lo \in Word /\ h.hi \in Word
      /\ h = [lo |-> h.lo, hi |-> h.hi]
  BY HeaderAssumption DEF NodeIndices, Header
<1>2. ShiftMask(idx) \in Word /\ ShiftMask(idx - WordBits) \in Word
  BY <1>1, MaskInWord DEF Word
<1>3. h.lo \cup ShiftMask(idx) \in Word /\ h.hi \cup ShiftMask(idx - WordBits) \in Word
  BY Zenon, <1>1, <1>2 DEF Word
<1>4. idx <= HalfInt => idx < WordBits /\ idx \in ShiftMask(idx)
  BY <1>1, Half, MaskSets
<1> QED BY <1>1, <1>3, <1>4 DEF SetBit, Header

(* free_node clears no bit of the lower half but the one it is to clear.    *)
LEMMA ClearBitClears ==
  ASSUME NEW h \in Header, NEW idx \in NodeIndices
  PROVE  /\ ClearBit(h, idx) \in Header
         /\ idx <= HalfInt => \A j \in 0 .. HalfInt : j # idx /\ j \in h.lo => j \in ClearBit(h, idx).lo
<1>1. idx \in Nat /\ WordBits \in Nat /\ h.lo \in Word /\ h.hi \in Word
      /\ h = [lo |-> h.lo, hi |-> h.hi]
  BY HeaderAssumption DEF NodeIndices, Header
<1>2. h.lo \ ShiftMask(-idx) \in Word
  BY Zenon, <1>1 DEF Word
<1>3. ClearBit(h, idx) \in Header
  BY <1>1, <1>2 DEF ClearBit, Header
<1>4. ASSUME idx <= HalfInt, NEW j \in 0 .. HalfInt, j # idx, j \in h.lo
      PROVE  j \in ClearBit(h, idx).lo
  <2>1. idx \in 0 .. HalfInt
    BY <1>1, <1>4, Half
  <2>2. j \notin ShiftMask(-idx)
    BY <1>4, <2>1, MaskClears
  <2> QED BY <1>1, <1>4, <2>2 DEF ClearBit
<1> QED BY <1>3, <1>4

-----------------------------------------------------------------------------
(* The loop of create_node.                                                 *)
LEMMA WalkIs ==
  ASSUME NEW p
  PROVE  LET at == Walk(p)
             N  == Cardinality(PageIds)
         IN  at[0] = p /\ \A n \in 1 .. N : at[n] = Onward(at[n - 1])
<1> DEFINE N == Cardinality(PageIds)
           F(f, m) == f = [n \in 0 .. m |-> IF n = 0 THEN p ELSE Onward(f[n - 1])]
           Has(m) == \E f : F(f, m)
           T == {m \in 0 .. N : ~Has(m)}
<1>1. N \in Nat
  BY NodeAllocAssumption, FS_CardinalityType
<1> HIDE DEF N
<1>2. Has(0)
  <2>1. F([n \in 0 .. 0 |-> p], 0)
    OBVIOUS
  <2> QED BY Zenon, <2>1
<1>3. ASSUME NEW m \in 1 .. N, Has(m - 1) PROVE Has(m)
  <2>1. PICK g : F(g, m - 1)
    BY <1>3
  <2> DEFINE f == [n \in 0 .. m |-> IF n = m THEN Onward(g[m - 1]) ELSE g[n]]
  <2>2. F(f, m)
    <3>1. ASSUME NEW n \in 0 .. m
          PROVE  f[n] = IF n = 0 THEN p ELSE Onward(f[n - 1])
      BY <1>1, <2>1
    <3> QED BY <3>1
  <2> QED BY Zenon, <2>2
<1>4. Has(N)
  <2> HIDE DEF Has
  <2>1. ASSUME T # {} PROVE FALSE
    <3>1. T \subseteq Nat
      BY <1>1
    <3>2. PICK m \in T : \A l \in T : m <= l
      <4> HIDE DEF T
      <4> QED BY Zenon, <2>1, <3>1, LeastNat
    <3>3. m # 0 /\ m \in 1 .. N
      BY <1>1, <1>2, <3>2
    <3>4. Has(m - 1)
      BY <1>1, <3>2, <3>3
    <3> QED BY <1>3, <3>2, <3>3, <3>4
  <2> QED BY <1>1, <2>1
<1>5. F(Walk(p), N)
  BY Zenon, <1>4 DEF Walk, N
<1> DEFINE at == Walk(p)
<1>6. at[0] = p /\ \A n \in 1 .. N : at[n] = Onward(at[n - 1])
  <2> HIDE DEF at
  <2>1. F(at, N)
    BY Zenon, <1>5 DEF at
  <2> QED BY <1>1, <2>1
<1> QED BY Zenon, <1>6 DEF N, at
-----------------------------------------------------------------------------
(* The inductive invariant.  Beyond the lower half of an int free_node may  *)
(* clear any bit and the pointer before the header, and only types remain.  *)
NodeTypeOK ==
  /\ pages \in [PageIds -> [hdr : Header, prev : Pointer, next : Pointer]]
  /\ head \in Pointer /\ listed \subseteq PageIds
  /\ live \subseteq PageIds \X NodeIndices /\ top \in {-1} \cup NodeIndices
  /\ \A n \in live : n[2] <= top

Chain ==
  /\ head \in listed \cup {NULL} /\ (head # NULL => pages[head].prev = NULL)
  /\ \A p \in listed : pages[p].next # NULL =>
       pages[p].next \in listed /\ pages[pages[p].next].prev = p
  /\ \A p \in listed \ {head} : pages[p].prev \in listed /\ pages[pages[p].prev].next = p

Held == \A n \in live : n[1] \in listed /\ n[2] \in pages[n[1]].hdr.lo

NodeInv == NodeTypeOK /\ (top <= HalfInt => Chain /\ Held)

(* The loop of create_node ends within as many rounds as there are pages:   *)
(* it never comes to a page twice.                                          *)
LEMMA WalkEnds ==
  ASSUME NodeTypeOK, Chain, head # NULL
  PROVE  /\ Visits(head) \in listed
         /\ find_0_bit(pages[Visits(head)].hdr) < 0 => pages[Visits(head)].next = NULL
<1> DEFINE N == Cardinality(PageIds)
           at == Walk(head)
           Moves(q) == q \in PageIds /\ find_0_bit(pages[q].hdr) < 0 /\ pages[q].next # NULL
<1>1. N \in Nat /\ IsFiniteSet(PageIds) /\ 0 \notin PageIds
  BY NodeAllocAssumption, FS_CardinalityType
<1>2. at[0] = head /\ \A n \in 1 .. N : at[n] = Onward(at[n - 1])
  BY Zenon, WalkIs
<1>3. Visits(head) = at[N]
  BY DEF Visits
<1>4. \A q : IF Moves(q) THEN Onward(q) = pages[q].next ELSE Onward(q) = q
  BY DEF Onward
<1> HIDE DEF N, at, Moves
<1>5. \A n \in 0 .. N : at[n] \in listed
  <2> DEFINE T == {n \in 0 .. N : at[n] \notin listed}
  <2>1. ASSUME T # {} PROVE FALSE
    <3>1. T \subseteq Nat
      BY <1>1
    <3>2. PICK n \in T : \A m \in T : n <= m
      <4> HIDE DEF T
      <4> QED BY Zenon, <2>1, <3>1, LeastNat
    <3>3. n \in 1 .. N
      BY <1>1, <1>2, <3>2 DEF Chain
    <3>4. at[n - 1] \in listed /\ at[n] = Onward(at[n - 1])
      BY <1>1, <1>2, <3>2, <3>3
    <3>5. at[n] \in listed
      BY <1>4, <3>4 DEF Chain, Moves
    <3> QED BY <3>2, <3>5
  <2> QED BY <2>1
<1>6. ASSUME Moves(at[N]) PROVE FALSE
  <2>1. \A n \in 0 .. N : Moves(at[n])
    <3> DEFINE T == {k \in 0 .. N : ~Moves(at[N - k])}
    <3>1. ASSUME T # {} PROVE FALSE
      <4>1. T \subseteq Nat
        BY <1>1
      <4>2. PICK k \in T : \A m \in T : k <= m
        <5> HIDE DEF T
        <5> QED BY Zenon, <3>1, <4>1, LeastNat
      <4>3. k # 0 /\ k \in 0 .. N
        BY <1>1, <1>6, <4>2
      <4>4. k - 1 \in 0 .. N /\ k - 1 \notin T /\ N - k \in 0 .. N /\ N - (k - 1) \in 1 .. N
            /\ N - (k - 1) - 1 = N - k
        BY <1>1, <4>2, <4>3
      <4>5. at[N - (k - 1)] = at[N - k]
        BY <1>2, <1>4, <4>2, <4>4
      <4> QED BY <4>2, <4>4, <4>5
    <3>2. ASSUME NEW n \in 0 .. N PROVE Moves(at[n])
      <4>1. N - n \in 0 .. N /\ N - (N - n) = n
        BY <1>1
      <4> QED BY <3>1, <4>1
    <3> QED BY <3>2
  <2>2. \A n \in 1 .. N : n - 1 \in 0 .. N /\ pages[at[n]].prev = at[n - 1]
    <3> SUFFICES ASSUME NEW n \in 1 .. N
                 PROVE  n - 1 \in 0 .. N /\ pages[at[n]].prev = at[n - 1]
      OBVIOUS
    <3>1. n - 1 \in 0 .. N
      BY <1>1
    <3>2. at[n - 1] \in listed /\ Moves(at[n - 1]) /\ at[n] = pages[at[n - 1]].next
      BY Zenon, <1>2, <1>4, <1>5, <2>1, <3>1
    <3> QED BY <3>1, <3>2 DEF Chain, Moves
  <2> DEFINE T == {k \in 0 .. N : \E j \in 0 .. N : k < j /\ at[k] = at[j]}
  <2>3. ASSUME T # {} PROVE FALSE
    <3>1. T \subseteq Nat
      BY <1>1
    <3>2. PICK k \in T : \A m \in T : k <= m
      <4> HIDE DEF T
      <4> QED BY Zenon, <2>3, <3>1, LeastNat
    <3>3. PICK j \in 0 .. N : k < j /\ at[k] = at[j]
      BY <3>2
    <3>4. k \in 0 .. N /\ j \in 1 .. N /\ j - 1 \in 0 .. N
      BY <1>1, <3>2, <3>3
    <3>5. pages[at[j]].prev = at[j - 1]
      BY <2>2, <3>4
    <3>6. CASE k = 0
      <4>1. pages[at[j]].prev = NULL
        BY <1>2, <3>3, <3>6 DEF Chain
      <4>2. at[j - 1] \in PageIds
        BY <1>5, <3>4 DEF NodeTypeOK
      <4> QED BY <1>1, <3>5, <4>1, <4>2 DEF NULL
    <3>7. CASE k # 0
      <4>1. k \in 1 .. N /\ k - 1 \in 0 .. N /\ k - 1 < j - 1 /\ ~(k <= k - 1)
        BY <1>1, <3>3, <3>4, <3>7
      <4>2. at[k - 1] = at[j - 1]
        BY <2>2, <3>3, <3>5, <4>1
      <4> QED BY <3>2, <3>4, <4>1, <4>2
    <3> QED BY <3>6, <3>7
  <2>4. PICK x \in 0 .. N, y \in 0 .. N : x # y /\ at[x] = at[y]
    <3> DEFINE f == [n \in 0 .. N |-> at[n]]
    <3>1. f \in [0 .. N -> PageIds]
      BY <1>5 DEF NodeTypeOK
    <3>2. IsFiniteSet(0 .. N) /\ Cardinality(0 .. N) = N + 1
      BY <1>1, FS_Interval
    <3>3. N < N + 1
      BY <1>1
    <3>4. Cardinality(PageIds) < Cardinality(0 .. N)
      BY Zenon, <3>2, <3>3 DEF N
    <3>5. PICK x \in 0 .. N, y \in 0 .. N : x # y /\ f[x] = f[y]
      <4> HIDE DEF f
      <4> QED BY Zenon, <1>1, <3>1, <3>2, <3>4, FS_PigeonHole
    <3> QED BY <3>5
  <2>5. x < y \/ y < x
    BY <1>1, <2>4
  <2> QED BY <2>3, <2>4, <2>5
<1>7. at[N] \in PageIds
  BY <1>1, <1>5 DEF NodeTypeOK
<1> QED BY <1>1, <1>3, <1>5, <1>6, <1>7 DEF Moves
-----------------------------------------------------------------------------
(* FindsFirst is a fact about find_0_bit.                                   *)
LEMMA FindsFirstFollows == NodeTypeOK => FindsFirst
<1> SUFFICES ASSUME NodeTypeOK, NEW p \in listed
             PROVE  LET clear == {idx \in NodeIndices : ~Marked(pages[p].hdr, idx)}
                        bit == find_0_bit(pages[p].hdr)
                    IN  IF clear = {} THEN bit = -1
                        ELSE bit \in clear /\ \A idx \in clear : bit <= idx
  BY DEF FindsFirst
<1>1. PICK h : h = pages[p].hdr
  OBVIOUS
<1>2. h \in Header
  BY <1>1 DEF NodeTypeOK
<1>3. PICK bit : bit = find_0_bit(h)
  OBVIOUS
<1> DEFINE clear == {idx \in NodeIndices : ~Marked(h, idx)}
<1>4. \/ bit = -1 /\ \A idx \in NodeIndices : Marked(h, idx)
      \/ bit \in NodeIndices /\ ~Marked(h, bit) /\ \A idx \in 0 .. bit - 1 : Marked(h, idx)
  BY Zenon, <1>2, <1>3, Find
<1>5. CASE bit = -1 /\ \A idx \in NodeIndices : Marked(h, idx)
  BY <1>1, <1>3, <1>5
<1>6. CASE bit \in NodeIndices /\ ~Marked(h, bit) /\ \A idx \in 0 .. bit - 1 : Marked(h, idx)
  <2>1. \A idx \in NodeIndices : idx \in Int /\ (idx \in 0 .. bit - 1 \/ bit <= idx)
    BY <1>6, HeaderAssumption DEF NodeIndices
  <2>2. bit \in clear /\ \A idx \in clear : bit <= idx
    BY Zenon, <1>6, <2>1
  <2> QED BY Zenon, <1>1, <1>3, <2>2
<1> QED BY <1>4, <1>5, <1>6

(* What Take does to the header of page p.                                  *)
LEMMA Taken ==
  ASSUME NEW pgs \in [PageIds -> [hdr : Header, prev : Pointer, next : Pointer]],
         NEW p \in PageIds, Take(pgs, p)
  PROVE  \E idx \in NodeIndices, h \in Header :
           /\ pages' = [pgs EXCEPT ![p].hdr = h] /\ live' = live \cup {<<p, idx>>}
           /\ top' = IF idx > top THEN idx ELSE top
           /\ pgs[p].hdr.lo \subseteq h.lo /\ (idx <= HalfInt => idx \in h.lo)
<1> DEFINE idx == find_0_bit(pgs[p].hdr)
           h == SetBit(pgs[p].hdr, idx)
<1>1. pgs[p].hdr \in Header
  OBVIOUS
<1>2. /\ idx >= 0 /\ live' = live \cup {<<p, idx>>} /\ top' = IF idx > top THEN idx ELSE top
      /\ pages' = [pgs EXCEPT ![p].hdr = h]
  BY DEF Take
<1>3. idx = -1 \/ idx \in NodeIndices
  BY Zenon, <1>1, Find
<1> HIDE DEF idx, h
<1>4. idx \in NodeIndices
  BY <1>2, <1>3
<1>5. h \in Header /\ pgs[p].hdr.lo \subseteq h.lo /\ (idx <= HalfInt => idx \in h.lo)
  BY Zenon, <1>1, <1>4, SetBitMarks DEF h
<1> QED BY Zenon, <1>2, <1>4, <1>5
PageState == [hdr : Header, prev : Pointer, next : Pointer]

(* The types after a node has been taken, and what that says of the regime. *)
LEMMA TakenTypes ==
  ASSUME NodeTypeOK, NEW pgs \in [PageIds -> PageState], NEW p \in PageIds,
         NEW idx \in NodeIndices, NEW h \in Header,
         pages' = [pgs EXCEPT ![p].hdr = h], live' = live \cup {<<p, idx>>},
         top' = IF idx > top THEN idx ELSE top,
         head' \in Pointer, listed' \subseteq PageIds
  PROVE  NodeTypeOK' /\ (top' <= HalfInt => top <= HalfInt /\ idx <= HalfInt)
<1>1. pages' \in [PageIds -> PageState]
  BY DEF PageState
<1>2. live' \subseteq PageIds \X NodeIndices
  BY DEF NodeTypeOK
<1>3. /\ \A x \in NodeIndices : x \in Int
      /\ top \in Int /\ idx \in Int /\ HalfInt \in Int
  BY Half DEF NodeTypeOK, NodeIndices
<1>4. top' \in {-1} \cup NodeIndices /\ top' \in Int /\ top <= top' /\ idx <= top'
  BY <1>3 DEF NodeTypeOK
<1>5. ASSUME NEW n \in live' PROVE n[2] <= top'
  <2>1. CASE n \in live
    <3>1. n[2] \in Int /\ n[2] <= top
      BY <1>3, <2>1 DEF NodeTypeOK
    <3> QED BY <1>3, <1>4, <3>1
  <2>2. CASE n = <<p, idx>>
    BY <1>4, <2>2
  <2> QED BY <2>1, <2>2
<1>6. top' <= HalfInt => top <= HalfInt /\ idx <= HalfInt
  BY <1>3, <1>4
<1> QED BY Zenon, <1>1, <1>2, <1>4, <1>5, <1>6 DEF NodeTypeOK, PageState

(* create_node, on a list that has room.                                    *)
LEMMA CreateStep == ASSUME NodeInv, CreateNode PROVE NodeInv'
<1> DEFINE p == Visits(head)
<1>1. /\ head # NULL /\ p \in PageIds /\ Take(pages, p) /\ head' = head /\ listed' = listed
  BY DEF CreateNode
<1>2. NodeTypeOK /\ pages \in [PageIds -> PageState]
  BY DEF NodeInv, NodeTypeOK, PageState
<1>3. top <= HalfInt => Chain /\ Held /\ p \in listed
  BY <1>1, <1>2, WalkEnds DEF NodeInv
<1> HIDE DEF p
<1>4. PICK idx \in NodeIndices, h \in Header :
         /\ pages' = [pages EXCEPT ![p].hdr = h] /\ live' = live \cup {<<p, idx>>}
         /\ top' = IF idx > top THEN idx ELSE top
         /\ pages[p].hdr.lo \subseteq h.lo /\ (idx <= HalfInt => idx \in h.lo)
  BY Zenon, <1>1, <1>2, Taken DEF PageState
<1>5. NodeTypeOK' /\ (top' <= HalfInt => top <= HalfInt /\ idx <= HalfInt)
  <2>1. head' \in Pointer /\ listed' \subseteq PageIds
    BY <1>1, <1>2 DEF NodeTypeOK
  <2> QED BY Zenon, <1>1, <1>2, <1>4, <2>1, TakenTypes
<1>6. ASSUME top' <= HalfInt PROVE Chain' /\ Held'
  <2>1. Chain /\ Held /\ p \in listed /\ idx \in h.lo
    BY <1>3, <1>4, <1>5, <1>6
  <2>2. /\ listed \subseteq PageIds
        /\ \A q \in PageIds : /\ pages'[q].next = pages[q].next /\ pages'[q].prev = pages[q].prev
                              /\ pages[q].hdr.lo \subseteq pages'[q].hdr.lo
        /\ pages'[p].hdr.lo = h.lo
    BY <1>1, <1>2, <1>4 DEF NodeTypeOK, PageState
  <2>3. Chain'
    BY <1>1, <2>1, <2>2 DEF Chain
  <2>4. ASSUME NEW n \in live' PROVE n[1] \in listed' /\ n[2] \in pages'[n[1]].hdr.lo
    <3>1. CASE n \in live
      BY <1>1, <2>1, <2>2, <3>1 DEF Held
    <3>2. CASE n = <<p, idx>>
      BY <1>1, <2>1, <2>2, <3>2
    <3> QED BY <1>4, <3>1, <3>2
  <2> QED BY <2>3, <2>4 DEF Held
<1> QED BY <1>5, <1>6 DEF NodeInv

(* create_node, in a page that it adds at the end of the list.              *)
LEMMA NewPageStep == ASSUME NodeInv, CreateInNewPage PROVE NodeInv'
<1> DEFINE prev == IF head = NULL THEN NULL ELSE Visits(head)
<1>1. PICK p \in PageIds \ listed, content \in FrameContents :
         /\ Take(init_avl_page(pages, p, prev, content), p)
         /\ head' = (IF head = NULL THEN p ELSE head)
         /\ listed' = listed \cup {p}
  BY DEF CreateInNewPage
<1>2. head # NULL => Visits(head) \in PageIds /\ find_0_bit(pages[Visits(head)].hdr) < 0
  BY DEF CreateInNewPage
<1>3. NodeTypeOK /\ pages \in [PageIds -> PageState] /\ content \in Header /\ 0 \notin PageIds
  BY <1>1, NodeAllocAssumption DEF NodeInv, NodeTypeOK, PageState, Header
<1>4. /\ prev \in Pointer
      /\ head = NULL => prev = NULL
      /\ head # NULL /\ top <= HalfInt => prev \in listed /\ pages[prev].next = NULL
  BY <1>2, <1>3, WalkEnds DEF NodeInv, Pointer
<1> HIDE DEF prev
<1> DEFINE pgs == init_avl_page(pages, p, prev, content)
<1>5. /\ pgs \in [PageIds -> PageState]
      /\ pgs[p] = [hdr |-> content, prev |-> prev, next |-> NULL]
      /\ \A q \in PageIds \ {p} : /\ pgs[q].hdr = pages[q].hdr /\ pgs[q].prev = pages[q].prev
                                  /\ pgs[q].next = IF q = prev THEN p ELSE pages[q].next
  BY <1>1, <1>3, <1>4 DEF init_avl_page, PageState, Pointer
<1> HIDE DEF pgs
<1>6. PICK idx \in NodeIndices, h \in Header :
         /\ pages' = [pgs EXCEPT ![p].hdr = h] /\ live' = live \cup {<<p, idx>>}
         /\ top' = IF idx > top THEN idx ELSE top
         /\ pgs[p].hdr.lo \subseteq h.lo /\ (idx <= HalfInt => idx \in h.lo)
  <2>1. Take(pgs, p)
    BY <1>1 DEF pgs
  <2> QED BY Zenon, <1>1, <1>5, <2>1, Taken DEF PageState
<1>7. NodeTypeOK' /\ (top' <= HalfInt => top <= HalfInt /\ idx <= HalfInt)
  <2>1. head' \in Pointer /\ listed' \subseteq PageIds
    BY <1>1, <1>3 DEF NodeTypeOK, Pointer
  <2> QED BY Zenon, <1>1, <1>3, <1>5, <1>6, <2>1, TakenTypes
<1>8. ASSUME top' <= HalfInt PROVE Chain' /\ Held'
  <2>1. /\ Chain /\ Held /\ idx \in h.lo /\ listed \subseteq PageIds
        /\ head # NULL => prev \in listed /\ pages[prev].next = NULL
    BY <1>3, <1>4, <1>6, <1>7, <1>8 DEF NodeInv, NodeTypeOK
  <2>2. /\ p \in PageIds /\ p \notin listed /\ p # NULL
        /\ \A q \in listed : q # p /\ q # NULL
    BY <1>1, <1>3, <2>1 DEF NULL
  <2>3. /\ \A q \in listed : /\ pages'[q].hdr = pages[q].hdr /\ pages'[q].prev = pages[q].prev
                             /\ pages'[q].next = IF q = prev THEN p ELSE pages[q].next
        /\ pages'[p].hdr = h /\ pages'[p].prev = prev /\ pages'[p].next = NULL
    BY <1>5, <1>6, <2>1, <2>2 DEF PageState
  <2>4. Held'
    <3>1. ASSUME NEW n \in live' PROVE n[1] \in listed' /\ n[2] \in pages'[n[1]].hdr.lo
      <4>1. CASE n \in live
        BY <1>1, <2>1, <2>3, <4>1 DEF Held
      <4>2. CASE n = <<p, idx>>
        BY <1>1, <2>1, <2>3, <4>2
      <4> QED BY <1>6, <4>1, <4>2
    <3> QED BY <3>1 DEF Held
  <2>5. head' \in listed' \cup {NULL} /\ (head' # NULL => pages'[head'].prev = NULL)
    BY <1>1, <1>4, <2>1, <2>2, <2>3 DEF Chain
  <2>6. ASSUME NEW q \in listed', pages'[q].next # NULL
        PROVE  pages'[q].next \in listed' /\ pages'[pages'[q].next].prev = q
    <3>1. q \in listed
      BY <1>1, <2>3, <2>6
    <3>2. CASE q = prev
      BY <1>1, <2>3, <3>1, <3>2
    <3>3. CASE q # prev
      BY <1>1, <2>1, <2>3, <2>6, <3>1, <3>3 DEF Chain
    <3> QED BY <3>2, <3>3
  <2>7. ASSUME NEW q \in listed' \ {head'}
        PROVE  pages'[q].prev \in listed' /\ pages'[pages'[q].prev].next = q
    <3>1. CASE q = p
      BY <1>1, <2>1, <2>3, <2>7, <3>1
    <3>2. CASE q # p
      <4>1. q \in listed \ {head}
        BY <1>1, <2>2, <2>7, <3>2 DEF NULL
      <4>2. pages[q].prev \in listed /\ pages[pages[q].prev].next = q
        BY <2>1, <4>1 DEF Chain
      <4>3. pages[q].prev # prev
        BY <1>4, <2>1, <2>2, <4>1, <4>2
      <4> QED BY <1>1, <2>3, <4>1, <4>2, <4>3
    <3> QED BY <3>1, <3>2
  <2> QED BY <2>4, <2>5, <2>6, <2>7 DEF Chain
<1> QED BY <1>7, <1>8 DEF NodeInv
-----------------------------------------------------------------------------
(* Release of page p, field by field.                                       *)
LEMMA ReleaseTypes ==
  ASSUME NEW pgs \in [PageIds -> PageState], NEW p \in PageIds, head \in Pointer, Release(pgs, p)
  PROVE  /\ pages' \in [PageIds -> PageState] /\ head' \in Pointer
         /\ \A q \in PageIds : pages'[q].hdr = pgs[q].hdr
<1>1. pgs[p].next \in Pointer /\ pgs[p].prev \in Pointer
  BY DEF PageState
<1>2. CASE head = p
  BY <1>1, <1>2 DEF Release, PageState, Pointer
<1>3. CASE head # p
  <2>1. /\ head' = head
        /\ pages' = [q \in PageIds |->
                       [pgs[q] EXCEPT !.next = IF q = pgs[p].prev THEN pgs[p].next ELSE @,
                                      !.prev = IF q = pgs[p].next THEN pgs[p].prev ELSE @]]
    BY Zenon, <1>3 DEF Release
  <2>2. ASSUME NEW q \in PageIds, NEW a \in Pointer, NEW b \in Pointer
        PROVE  LET r == [pgs[q] EXCEPT !.next = IF q = b THEN a ELSE @,
                                       !.prev = IF q = a THEN b ELSE @]
               IN  r \in PageState /\ r.hdr = pgs[q].hdr
    BY Zenon DEF PageState
  <2> QED BY Zenon, <1>1, <2>1, <2>2
<1> QED BY <1>2, <1>3

(* The two pointers that free_node changes.                                 *)
LEMMA ReleaseLinks ==
  ASSUME NEW pgs \in [PageIds -> PageState], NEW p \in PageIds, head # p, Release(pgs, p)
  PROVE  \A q \in PageIds :
           /\ pages'[q].next = IF q = pgs[p].prev THEN pgs[p].next ELSE pgs[q].next
           /\ pages'[q].prev = IF q = pgs[p].next THEN pgs[p].prev ELSE pgs[q].prev
<1>1. PICK a, b : a = pgs[p].next /\ b = pgs[p].prev
  OBVIOUS
<1>2. pages' = [q \in PageIds |-> [pgs[q] EXCEPT !.next = IF q = b THEN a ELSE @,
                                                !.prev = IF q = a THEN b ELSE @]]
  BY Zenon, <1>1 DEF Release
<1>3. \A q \in PageIds : /\ pages'[q].next = IF q = b THEN a ELSE pgs[q].next
                         /\ pages'[q].prev = IF q = a THEN b ELSE pgs[q].prev
  BY Zenon, <1>2 DEF PageState
<1> QED BY Zenon, <1>1, <1>3

(* If p is a page of the chain, the others are one afterwards.              *)
LEMMA ReleaseChain ==
  ASSUME NEW pgs \in [PageIds -> PageState], NEW p \in listed, listed \subseteq PageIds,
         Chain, \A q \in PageIds : pgs[q].next = pages[q].next /\ pgs[q].prev = pages[q].prev,
         Release(pgs, p), listed' = listed \ {p}
  PROVE  Chain'
<1> DEFINE a == pages[p].next
           b == pages[p].prev
<1>1. /\ p \in PageIds /\ NULL \notin PageIds /\ pgs[p].next = a /\ pgs[p].prev = b
      /\ \A q \in listed : q \in PageIds /\ q # NULL
  BY NodeAllocAssumption DEF NULL
<1>2. /\ a # NULL => a \in listed /\ pages[a].prev = p
      /\ p # head => b \in listed /\ pages[b].next = p
      /\ head # NULL => head \in listed /\ pages[head].prev = NULL
      /\ head \in listed \cup {NULL}
      /\ \A q \in listed : pages[q].next # NULL =>
           pages[q].next \in listed /\ pages[pages[q].next].prev = q
      /\ \A q \in listed \ {head} : pages[q].prev \in listed /\ pages[pages[q].prev].next = q
  BY DEF Chain
<1>5. a = pages[p].next /\ b = pages[p].prev
  OBVIOUS
<1> HIDE DEF a, b
<1>3. CASE head = p
  <2>1. /\ head' = a
        /\ \A q \in PageIds : /\ pages'[q].next = pages[q].next
                              /\ pages'[q].prev = IF q = a THEN NULL ELSE pages[q].prev
    BY <1>1, <1>3 DEF Release, PageState
  <2>2. a # p
    BY <1>1, <1>2, <1>3
  <2>3. a \in listed' \cup {NULL} /\ (a # NULL => pages'[a].prev = NULL)
    BY <1>1, <1>2, <2>1, <2>2
  <2>4. ASSUME NEW q \in listed', pages'[q].next # NULL
        PROVE  pages'[q].next \in listed' /\ pages'[pages'[q].next].prev = q
    <3>1. q \in listed /\ q # p /\ pages'[q].next = pages[q].next
      BY <1>1, <2>1, <2>4
    <3>2. pages[q].next \in listed /\ pages[pages[q].next].prev = q
      BY <1>2, <2>4, <3>1
    <3>3. pages[q].next # p /\ pages[q].next # a
      BY <1>1, <1>2, <1>3, <3>1, <3>2
    <3> QED BY <1>1, <2>1, <3>1, <3>2, <3>3
  <2>5. ASSUME NEW q \in listed' \ {a}
        PROVE  pages'[q].prev \in listed' /\ pages'[pages'[q].prev].next = q
    <3>1. q \in listed /\ q # p /\ q # a /\ pages'[q].prev = pages[q].prev
      BY <1>1, <2>1, <2>5
    <3>2. pages[q].prev \in listed /\ pages[pages[q].prev].next = q
      BY <1>2, <1>3, <3>1
    <3>3. pages[q].prev # p
      BY <3>1, <3>2 DEF a
    <3> QED BY <1>1, <2>1, <3>1, <3>2, <3>3
  <2> QED BY <2>1, <2>3, <2>4, <2>5 DEF Chain
<1>4. CASE head # p
  <2>1. /\ head' = head
        /\ \A q \in PageIds : /\ pages'[q].next = IF q = b THEN a ELSE pages[q].next
                              /\ pages'[q].prev = IF q = a THEN b ELSE pages[q].prev
    <3>1. head' = head
      BY Zenon, <1>4 DEF Release
    <3>2. \A q \in PageIds :
            /\ pages'[q].next = IF q = pgs[p].prev THEN pgs[p].next ELSE pgs[q].next
            /\ pages'[q].prev = IF q = pgs[p].next THEN pgs[p].prev ELSE pgs[q].prev
      BY ZenonT(40), <1>1, <1>4, ReleaseLinks
    <3> QED BY Zenon, <1>1, <3>1, <3>2
  <2>2. head \in listed' \cup {NULL} /\ (head # NULL => pages'[head].prev = NULL)
    BY <1>1, <1>2, <1>4, <2>1
  <2>3. ASSUME NEW q \in listed', pages'[q].next # NULL
        PROVE  pages'[q].next \in listed' /\ pages'[pages'[q].next].prev = q
    <3>1. q \in listed /\ q # p
      BY <2>3
    <3>2. CASE q = b
      <4>1. pages'[q].next = a /\ a \in listed /\ pages'[a].prev = b
        BY <1>1, <1>2, <2>1, <2>3, <3>1, <3>2
      <4>2. a # p
        BY <1>1, <1>2, <1>5, <3>1, <3>2, <4>1
      <4> QED BY <3>2, <4>1, <4>2
    <3>3. CASE q # b
      <4>1. pages'[q].next = pages[q].next
        BY <1>1, <2>1, <3>1, <3>3
      <4>2. pages[q].next \in listed /\ pages[pages[q].next].prev = q
        BY <1>2, <2>3, <3>1, <4>1
      <4>3. pages[q].next # p /\ pages[q].next # a
        BY <1>1, <1>2, <1>5, <3>1, <3>3, <4>2
      <4> QED BY <1>1, <2>1, <4>1, <4>2, <4>3
    <3> QED BY <3>2, <3>3
  <2>4. ASSUME NEW q \in listed' \ {head}
        PROVE  pages'[q].prev \in listed' /\ pages'[pages'[q].prev].next = q
    <3>1. q \in listed /\ q # p /\ q # head
      BY <2>4
    <3>2. pages[q].prev \in listed /\ pages[pages[q].prev].next = q
      BY <1>2, <3>1
    <3>3. CASE q = a
      <4>1. pages'[q].prev = b /\ b \in listed /\ pages'[b].next = a
        BY <1>1, <1>2, <1>4, <2>1, <3>1, <3>3
      <4>2. b # p
        BY <1>2, <1>4, <3>1, <3>3 DEF a
      <4> QED BY <3>3, <4>1, <4>2
    <3>4. CASE q # a
      <4>1. pages'[q].prev = pages[q].prev
        BY <1>1, <2>1, <3>1, <3>4
      <4>2. pages[q].prev # p /\ pages[q].prev # b
        BY <1>2, <1>4, <3>1, <3>2, <3>4 DEF a
      <4> QED BY <1>1, <2>1, <3>2, <4>1, <4>2
    <3> QED BY <3>3, <3>4
  <2> QED BY <2>1, <2>2, <2>3, <2>4 DEF Chain
<1> QED BY <1>3, <1>4

(* free_node.                                                               *)
LEMMA FreeStep == ASSUME NodeInv, FreeNode PROVE NodeInv'
<1>1. PICK n \in live, stop \in BOOLEAN : \E next \in NextAfterFree(pages[n[1]].next, n[2]) :
        LET p == n[1]
            hdr == ClearBit(pages[p].hdr, n[2])
            pgs == [pages EXCEPT ![p].hdr = hdr, ![p].next = next]
        IN  /\ live' = live \ {n} /\ top' = top
            /\ IF hdr.lo # {} \/ stop
               THEN pages' = pgs /\ UNCHANGED <<head, listed>>
               ELSE Release(pgs, p) /\ listed' = listed \ {p}
  BY Zenon DEF FreeNode
<1> DEFINE p == n[1]
           hdr == ClearBit(pages[p].hdr, n[2])
<1>2. PICK next \in NextAfterFree(pages[p].next, n[2]) :
        LET pgs == [pages EXCEPT ![p].hdr = hdr, ![p].next = next]
        IN  /\ live' = live \ {n} /\ top' = top
            /\ IF hdr.lo # {} \/ stop
               THEN pages' = pgs /\ UNCHANGED <<head, listed>>
               ELSE Release(pgs, p) /\ listed' = listed \ {p}
  BY <1>1
<1> DEFINE pgs == [pages EXCEPT ![p].hdr = hdr, ![p].next = next]
<1>3. /\ NodeTypeOK /\ pages \in [PageIds -> PageState] /\ head \in Pointer
      /\ n = <<n[1], n[2]>> /\ p \in PageIds /\ n[2] \in NodeIndices /\ n[2] <= top
  BY DEF NodeInv, NodeTypeOK, PageState
<1>4. /\ hdr \in Header
      /\ n[2] <= HalfInt => \A j \in 0 .. HalfInt : j # n[2] /\ j \in pages[p].hdr.lo => j \in hdr.lo
  <2>1. pages[p].hdr \in Header
    BY <1>3 DEF PageState
  <2> QED BY Zenon, <1>3, <2>1, ClearBitClears
<1>5. next \in Pointer /\ (n[2] <= HalfInt => next = pages[p].next)
  <2>1. pages[p].next \in Pointer
    BY <1>3 DEF PageState
  <2>2. n[2] <= HalfInt => n[2] <= WordBits
    BY <1>3, Half, HeaderAssumption DEF NodeIndices
  <2> QED BY <1>2, <2>1, <2>2 DEF NextAfterFree, Pointer
<1> HIDE DEF p, hdr
<1>6. /\ pgs \in [PageIds -> PageState]
      /\ pgs[p] = [hdr |-> hdr, prev |-> pages[p].prev, next |-> next]
      /\ \A q \in PageIds \ {p} : pgs[q] = pages[q]
  BY Zenon, <1>3, <1>4, <1>5 DEF PageState
<1>7. /\ live' = live \ {n} /\ top' = top
      /\ \/ pages' = pgs /\ UNCHANGED <<head, listed>>
         \/ hdr.lo = {} /\ Release(pgs, p) /\ listed' = listed \ {p}
  BY <1>2
<1> HIDE DEF pgs
<1>8. /\ pages' \in [PageIds -> PageState] /\ head' \in Pointer
      /\ \A q \in PageIds : pages'[q].hdr = pgs[q].hdr
  BY <1>3, <1>6, <1>7, ReleaseTypes
<1>9. NodeTypeOK'
  BY <1>3, <1>7, <1>8 DEF NodeTypeOK, PageState
<1>10. ASSUME top' <= HalfInt PROVE Chain' /\ Held'
  <2>1. Chain /\ Held /\ n[2] <= HalfInt /\ p \in listed /\ listed \subseteq PageIds
    <3>1. Chain /\ Held /\ listed \subseteq PageIds
      BY <1>3, <1>7, <1>10 DEF NodeInv, NodeTypeOK
    <3>2. p \in listed
      BY <3>1 DEF Held, p
    <3>3. n[2] <= HalfInt
      BY <1>3, <1>7, <1>10, Half, HeaderAssumption DEF NodeTypeOK, NodeIndices
    <3> QED BY <3>1, <3>2, <3>3
  <2>2. \A q \in PageIds : pgs[q].next = pages[q].next /\ pgs[q].prev = pages[q].prev
    BY <1>3, <1>5, <1>6, <2>1
  <2>3. ASSUME NEW m \in live' PROVE m[1] \in listed /\ m[2] \in pgs[m[1]].hdr.lo
    <3>1. /\ m \in live /\ m # n /\ m = <<m[1], m[2]>> /\ m[1] \in PageIds /\ m[2] \in NodeIndices
          /\ m[2] <= top
      BY <1>3, <1>7, <2>3 DEF NodeTypeOK
    <3>2. m[1] \in listed /\ m[2] \in pages[m[1]].hdr.lo
      BY <2>1, <3>1 DEF Held
    <3>3. CASE m[1] = p
      <4>1. m[2] # n[2]
        BY <1>3, <3>1, <3>3 DEF p
      <4>2. m[2] \in 0 .. HalfInt
        BY <1>3, <1>7, <1>10, <3>1, Half, HeaderAssumption DEF NodeTypeOK, NodeIndices
      <4> QED BY <1>4, <1>6, <2>1, <3>2, <3>3, <4>1, <4>2
    <3>4. CASE m[1] # p
      BY <1>6, <3>1, <3>2, <3>4
    <3> QED BY <3>3, <3>4
  <2>4. CASE pages' = pgs /\ UNCHANGED <<head, listed>>
    <3>1. Chain'
      BY <2>1, <2>2, <2>4 DEF Chain
    <3>2. Held'
      BY <2>3, <2>4 DEF Held
    <3> QED BY <3>1, <3>2
  <2>5. CASE hdr.lo = {} /\ Release(pgs, p) /\ listed' = listed \ {p}
    <3>1. Chain'
      BY Zenon, <1>6, <2>1, <2>2, <2>5, ReleaseChain
    <3>2. ASSUME NEW m \in live' PROVE m[1] \in listed' /\ m[2] \in pages'[m[1]].hdr.lo
      <4>1. m[1] # p
        BY <1>6, <2>3, <2>5
      <4> QED BY <1>8, <2>1, <2>3, <2>5, <4>1
    <3> QED BY <3>1, <3>2 DEF Held
  <2> QED BY <1>7, <2>4, <2>5
<1> QED BY <1>9, <1>10 DEF NodeInv

-----------------------------------------------------------------------------
(* NodeInv is an invariant of create_node and free_node.                    *)
THEOREM NodeInvariant == NodeSpec => []NodeInv
<1>1. NodeInit => NodeInv
  <2> SUFFICES ASSUME NodeInit PROVE NodeInv
    OBVIOUS
  <2>1. Zero \in Header
    BY DEF Zero, Header, Word
  <2>2. NodeTypeOK
    BY <2>1 DEF NodeInit, NodeTypeOK, Pointer
  <2>3. Chain /\ Held
    BY DEF NodeInit, Chain, Held
  <2> QED BY <2>2, <2>3 DEF NodeInv
<1>2. NodeInv /\ [NodeNext]_nodeVars => NodeInv'
  <2> SUFFICES ASSUME NodeInv, [NodeNext]_nodeVars PROVE NodeInv'
    OBVIOUS
  <2>1. CASE UNCHANGED nodeVars
    BY <2>1 DEF nodeVars, NodeInv, NodeTypeOK, Chain, Held
  <2> QED BY <2>1, CreateStep, NewPageStep, FreeStep DEF NodeNext
<1> QED BY <1>1, <1>2, PTL DEF NodeSpec

(* find_0_bit finds the lowest free node of every page that is ever listed. *)
THEOREM FindsFirstHolds == NodeSpec => []FindsFirst
<1>1. NodeInv => FindsFirst
  BY FindsFirstFollows DEF NodeInv
<1> QED BY <1>1, NodeInvariant, PTL

(* While only the lower half of an int has been handed out, create_node     *)
(* cannot hand out a node twice: its bit stays set until it is freed.       *)
THEOREM LiveIsProtected == NodeSpec => []LiveProtected
<1>1. NodeInv => LiveProtected
  <2> SUFFICES ASSUME NodeInv, top <= HalfInt, NEW n \in live
               PROVE  n[1] \in listed /\ Marked(pages[n[1]].hdr, n[2])
    BY DEF LiveProtected, HalfInt
  <2>1. n[1] \in listed /\ n[2] \in pages[n[1]].hdr.lo
    BY DEF NodeInv, Held
  <2>2. pages[n[1]].hdr.lo \subseteq 0 .. WordBits - 1
    BY <2>1 DEF NodeInv, NodeTypeOK, Header, Word
  <2>3. n[2] < WordBits
    BY <2>1, <2>2, HeaderAssumption
  <2> QED BY <2>1, <2>3 DEF Marked
<1> QED BY <1>1, NodeInvariant, PTL

(* And the pages stay one doubly linked list: init_avl_page and free_node   *)
(* keep both directions.                                                    *)
THEOREM ListIsLinked == NodeSpec => []ListLinked
<1>1. NodeInv => ListLinked
  BY DEF NodeInv, ListLinked, Chain, HalfInt
<1> QED BY <1>1, NodeInvariant, PTL
=============================================================================
