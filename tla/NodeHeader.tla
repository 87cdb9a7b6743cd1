----------------------------- MODULE NodeHeader -----------------------------
(***************************************************************************)
(* The header of a page of tree nodes (node_alloc.c): which of its nodes   *)
(* are taken.  HEADER_64S is 1, so a header is one whole word and one word *)
(* of which HEADER_BITS bits count.  A word is the set of its 1 bits.  The *)
(* widths are constants: 64-bit words and 32-bit ints in the code.         *)
(***************************************************************************)
EXTENDS Integers, FiniteSets

CONSTANTS WordBits,    \* bits of a uint64_t
          IntBits,     \* bits of an int
          HEADER_BITS  \* nodes whose bits are in the second word

ASSUME HeaderAssumption ==
  /\ WordBits \in Nat /\ IntBits \in Nat \ {0} /\ HEADER_BITS \in Nat
  /\ IntBits < WordBits /\ HEADER_BITS < WordBits

Word == SUBSET (0 .. WordBits - 1)
NodeIndices == 0 .. WordBits + HEADER_BITS - 1
Zero == [lo |-> {}, hi |-> {}]

(* The index of the lowest 0 bit below limit, or limit.                    *)
FirstZero(word, limit) ==
  CHOOSE j \in 0 .. limit : /\ j \notin word \/ j = limit
                            /\ \A k \in 0 .. j - 1 : k \in word

(* A mutation of find_0_bit: every word is searched to its last bit.       *)
FindUnbounded(h) ==
  LET full == h.lo = 0 .. WordBits - 1
      j == FirstZero(IF full THEN h.hi ELSE h.lo, WordBits)
  IN  IF j >= WordBits THEN -1 ELSE (IF full THEN WordBits ELSE 0) + j

(* find_0_bit: the first word that is not all ones is searched; -1 when    *)
(* every bit that counts is set.                                           *)
find_0_bit(h) ==
  LET full == h.lo = 0 .. WordBits - 1
      max_bit == IF full THEN HEADER_BITS ELSE WordBits
      j == FirstZero(IF full THEN h.hi ELSE h.lo, max_bit)
  IN  IF j >= max_bit THEN -1 ELSE (IF full THEN WordBits ELSE 0) + j

(* The bits that 1 << bit has, and ~(1 << bit) lacks, once it has been     *)
(* widened to a word: the processor takes the shift count modulo the width *)
(* of an int, and the sign bit of the int fills the upper half.            *)
ShiftMask(bit) ==
  LET b == bit % IntBits
  IN  IF b = IntBits - 1 THEN b .. WordBits - 1 ELSE {b}

(* set_header_bit(page, idx, 1).                                           *)
SetBit(h, idx) ==
  IF idx < WordBits THEN [h EXCEPT !.lo = @ \cup ShiftMask(idx)]
                    ELSE [h EXCEPT !.hi = @ \cup ShiftMask(idx - WordBits)]

(* A mutation of set_header_bit: the complement is forgotten.              *)
ClearOthers(h, idx) ==
  IF idx < WordBits THEN [h EXCEPT !.lo = @ \cap ShiftMask(-idx)] ELSE h

(* set_header_bit(page, -idx, 0), as free_node calls it: it computes       *)
(* PAGE_NODES(page) - node, the negated index.  Division truncates, so the *)
(* indices of the second word reach the word before the header, which is   *)
(* the pointer to the next page (see NodeAlloc).                           *)
ClearBit(h, idx) ==
  IF idx < WordBits THEN [h EXCEPT !.lo = @ \ ShiftMask(-idx)] ELSE h

(* The bit of node idx.                                                    *)
Marked(h, idx) == IF idx < WordBits THEN idx \in h.lo ELSE idx - WordBits \in h.hi
=============================================================================
