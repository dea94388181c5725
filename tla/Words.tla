------------------------------- MODULE Words -------------------------------
(***************************************************************************)
(* The simulator's machine words (common.hh) and what the executor          *)
(* computes on them.  A word is the set of the positions of its one bits,   *)
(* so that the operators mean the same for every width XLEN, the 32 of the  *)
(* code and the few bits of a small check alike.                            *)
(***************************************************************************)
EXTENDS Powers

CONSTANT XLEN   \* bits of a Word

ASSUME XLENAssumption == XLEN \in Nat \ {0}

Bits == 0 .. XLEN - 1
Word == SUBSET Bits
Sign == XLEN - 1

----------------------------------------------------------------------------
(* C++'s own operators on unsigned words.  Sums and differences look the    *)
(* carry (borrow) into a bit up: it comes from the nearest lower bit that   *)
(* generates one, if every bit between passes it on.                        *)

Not(a) == Bits \ a
Xor(a, b) == (a \ b) \cup (b \ a)
ShiftLeft(a, n) == {i \in Bits : i - n \in a}
ShiftRight(a, n) == {i \in Bits : i + n \in a}
ShiftRightSigned(a, n) ==
  {i \in Bits : IF i + n > Sign THEN Sign \in a ELSE i + n \in a}

CarryInto(a, b, i) ==
  \E j \in a \cap b : j < i /\ \A k \in j + 1 .. i - 1 : k \in a \/ k \in b
BorrowInto(a, b, i) ==
  \E j \in b \ a : j < i /\ \A k \in j + 1 .. i - 1 : k \in a => k \in b

Plus(a, b) == Xor(Xor(a, b), {i \in Bits : CarryInto(a, b, i)})
Minus(a, b) == Xor(Xor(a, b), {i \in Bits : BorrowInto(a, b, i)})

Less(a, b) ==
  \E i \in b \ a : \A j \in i + 1 .. Sign : j \in a <=> j \in b
LessSigned(a, b) ==
  IF (Sign \in a) = (Sign \in b) THEN Less(a, b) ELSE Sign \in a

\* The number that the i lowest bits of a word stand for, the whole word's,
\* and the word of a number modulo 2^XLEN.
Sums(a) ==
  LET sum[i \in 0 .. XLEN] ==
        IF i = 0 THEN 0 ELSE sum[i - 1] + (IF i - 1 \in a THEN Pow2[i - 1] ELSE 0)
  IN  sum
Val(a) == Sums(a)[XLEN]
ToWord(n) == {i \in Bits : (n \div Pow2[i]) % 2 = 1}

----------------------------------------------------------------------------
(* common.hh's helpers.                                                     *)

\* getBitsNoShift masks only what lies above high; getBits then drops what
\* lies below low by shifting it out.
GetBitsNoShift(high, a) == {i \in a : i <= high}
\* (mutant) masked at both ends, never shifted down.
GetBitsInPlace(high, low, a) == {i \in a : low <= i /\ i <= high}

GetBits(high, low, a) == ShiftRight(GetBitsNoShift(high, a), low)

ClearBit(pos, a) == a \cap Not({pos})

\* signExtend<newSize, oldSize>: clear what is above the old sign bit, flip
\* that bit and subtract it again, cut to the new size.
SignExtend(newSize, oldSize, a) ==
  LET zeroed == GetBits(oldSize - 1, 0, a)
      mask   == {oldSize - 1}
  IN  IF newSize = oldSize
        THEN a
        ELSE GetBits(newSize - 1, 0, Minus(Xor(zeroed, mask), mask))
=============================================================================
