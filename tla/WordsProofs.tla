---------------------------- MODULE WordsProofs ----------------------------
(***************************************************************************)
(* The word operators of Words do the arithmetic of the numbers that words  *)
(* stand for, modulo 2^XLEN, for every width XLEN.                          *)
(***************************************************************************)
EXTENDS Words, TLAPS, WellFoundedInduction

\* The operators of C++ on words give words.
LEMMA WordOps ==
  ASSUME NEW a \in Word, NEW b \in Word
  PROVE  /\ Not(a) \in Word /\ Xor(a, b) \in Word
         /\ Plus(a, b) \in Word /\ Minus(a, b) \in Word
         /\ \A n \in Int : /\ ShiftLeft(a, n) \in Word
                           /\ ShiftRight(a, n) \in Word
                           /\ ShiftRightSigned(a, n) \in Word
         /\ \A n : ToWord(n) \in Word
         /\ \A p : ClearBit(p, a) \in Word
  BY DEF Word, Not, Xor, Plus, Minus, ShiftLeft, ShiftRight, ShiftRightSigned,
         ToWord, ClearBit

\* getBits<high, low> is the bits low..high of the word, at the bottom.
LEMMA GetBitsIs ==
  ASSUME NEW a \in Word, NEW high \in Nat, NEW low \in Nat
  PROVE  GetBits(high, low, a) = {i \in Bits : i + low <= high /\ i + low \in a}
  BY DEF GetBits, GetBitsNoShift, ShiftRight

\* signExtend's clear, flip and subtract copies bit oldSize - 1 into every
\* bit above it and keeps the bits below, for every width and every old size.
THEOREM SignExtendCopiesTheSign ==
  ASSUME NEW a \in Word, NEW old \in 1 .. XLEN 
  PROVE  SignExtend(XLEN, old, a) =
           {i \in Bits : IF i < old THEN i \in a ELSE old - 1 \in a}
<1> DEFINE zeroed == GetBits(old - 1, 0, a)
           mask   == {old - 1}
           flip   == Xor(zeroed, mask)
<1>1. CASE old = XLEN
  <2>1. SignExtend(XLEN, old, a) = a
    BY <1>1 DEF SignExtend
  <2>2. \A i \in Bits : i < old
    BY <1>1, XLENAssumption DEF Bits
  <2> QED BY <2>1, <2>2 DEF Word
<1>2. CASE old < XLEN
  <2>1. /\ XLEN \in Nat /\ old \in Nat /\ old >= 1
        /\ zeroed = {i \in Bits : i < old /\ i \in a}
    BY XLENAssumption, GetBitsIs DEF Word, Bits
  <2>2. flip = {i \in Bits : IF i = old - 1 THEN i \notin a
                                            ELSE i < old /\ i \in a}
    BY <2>1, <1>2 DEF Xor, Bits
  <2>3. \A i \in Bits : BorrowInto(flip, mask, i) <=> i >= old /\ old - 1 \in a
    <3>1. mask \ flip = {j \in {old - 1} : old - 1 \in a}
      BY <2>2, <2>1, <1>2 DEF Bits
    <3>2. \A k : k \in flip => k \in Int /\ k < old
      BY <2>2, <2>1 DEF Bits
    <3>3. \A i \in Bits : BorrowInto(flip, mask, i) =>
                            i >= old /\ old - 1 \in a
      BY <3>1, <2>1 DEF BorrowInto, Bits
    <3>4. \A i \in Bits : i >= old /\ old - 1 \in a =>
                            BorrowInto(flip, mask, i)
      <4> SUFFICES ASSUME NEW i \in Bits, i >= old, old - 1 \in a
                   PROVE  BorrowInto(flip, mask, i)
        OBVIOUS
      <4>1. old - 1 < i /\ i \in Int
        BY <2>1 DEF Bits
      <4>2. ASSUME NEW k \in (old - 1) + 1 .. i - 1
            PROVE  k \notin flip
        <5>1. k >= old
          BY <2>1, <4>1
        <5> HIDE DEF flip
        <5> QED BY <5>1, <3>2, <2>1
      <4>3. old - 1 \in mask \ flip
        BY <3>1
      <4> QED BY <4>1, <4>2, <4>3 DEF BorrowInto
    <3> QED BY <3>3, <3>4
  <2>4. Minus(flip, mask) =
          {i \in Bits : IF i < old THEN i \in a ELSE old - 1 \in a}
    <3>1. Xor(flip, mask) = {i \in Bits : i < old /\ i \in a}
      BY <2>1, <2>2, <1>2 DEF Xor, Bits
    <3>2. {i \in Bits : BorrowInto(flip, mask, i)} =
            {i \in Bits : i >= old /\ old - 1 \in a}
      BY <2>3
    <3>3. Minus(flip, mask) =
            Xor({i \in Bits : i < old /\ i \in a},
                {i \in Bits : i >= old /\ old - 1 \in a})
      BY <3>1, <3>2 DEF Minus
    <3>4. \A i \in Bits : ~(i < old /\ i >= old)
      BY <2>1 DEF Bits
    <3>5. Minus(flip, mask) = {i \in Bits : \/ i < old /\ i \in a
                                            \/ i >= old /\ old - 1 \in a}
      BY <3>3, <3>4 DEF Xor
    <3>6. \A i \in Bits : (i >= old) = ~(i < old)
      BY <2>1 DEF Bits
    <3> QED BY <3>5, <3>6
  <2>5. Minus(flip, mask) \in Word
    BY <2>4 DEF Word
  <2>6. GetBits(XLEN - 1, 0, Minus(flip, mask)) = Minus(flip, mask)
    <3>1. XLEN - 1 \in Nat /\ \A i \in Bits : i + 0 = i /\ i <= XLEN - 1
      BY <2>1, XLENAssumption DEF Bits
    <3>2. GetBits(XLEN - 1, 0, Minus(flip, mask)) =
            {i \in Bits : i + 0 <= XLEN - 1 /\ i + 0 \in Minus(flip, mask)}
      BY <2>5, <3>1, GetBitsIs
    <3> QED BY <3>1, <3>2, <2>5 DEF Word
  <2> QED BY <2>4, <2>6, <1>2, <2>1 DEF SignExtend
<1> QED BY <1>1, <1>2, XLENAssumption

----------------------------------------------------------------------------
(* Powers of two and the sums of a word's bits, out of their recursive definitions. *)

\* Induction over the natural numbers, for a set.
LEMMA SetInduction ==
  ASSUME NEW S \in SUBSET Nat, 0 \in S, \A n \in S : n + 1 \in S
  PROVE S = Nat
<1> SUFFICES ASSUME S # Nat PROVE FALSE
  OBVIOUS
<1> DEFINE T == Nat \ S
<1>1. PICK x \in T : \A y \in T : ~ (<<y, x>> \in OpToRel(<, Nat))
  <2>1. T \subseteq Nat /\ T # {}
    OBVIOUS
  <2> HIDE DEF T
  <2> QED BY <2>1, WFMin, NatLessThanWellFounded
<1>2. \A y \in T : ~ (y < x)
  BY <1>1 DEF OpToRel
<1>3. x # 0 /\ x - 1 \in Nat /\ x - 1 < x
  OBVIOUS
<1>4. x - 1 \in S
  BY <1>2, <1>3
<1> QED BY <1>4, <1>3

\* A function may be defined on the naturals by doubling what it gives one below.
LEMMA Pow2Def == Pow2 = [n \in Nat |-> IF n = 0 THEN 1 ELSE 2 * Pow2[n - 1]]
<1> DEFINE Upto(f, n) == f[0] = 1 /\ \A i \in 1 .. n : f[i] = 2 * f[i - 1]
           Some == {n \in Nat : \E f \in [0 .. n -> Nat] : Upto(f, n)}
<1>1. Some = Nat
  <2>1. 0 \in Some
    <3>1. [i \in 0 .. 0 |-> 1] \in [0 .. 0 -> Nat] /\ Upto([i \in 0 .. 0 |-> 1], 0)
      OBVIOUS
    <3> QED BY <3>1
  <2>2. ASSUME NEW n \in Some PROVE n + 1 \in Some
    <3>1. PICK f \in [0 .. n -> Nat] : Upto(f, n)
      OBVIOUS
    <3> DEFINE g == [i \in 0 .. n + 1 |-> IF i = n + 1 THEN 2 * f[n] ELSE f[i]]
    <3>2. n \in Nat /\ f[n] \in Nat
      OBVIOUS
    <3>3. g \in [0 .. n + 1 -> Nat]
      BY <3>2
    <3>4. g[0] = 1
      BY <3>1, <3>2
    <3>5. \A i \in 1 .. n + 1 : g[i] = 2 * g[i - 1]
      <4> TAKE i \in 1 .. n + 1
      <4>1. i - 1 \in 0 .. n /\ i \in 0 .. n + 1 /\ i - 1 \in 0 .. n + 1 /\ i - 1 # n + 1
        BY <3>2
      <4>2. g[i - 1] = f[i - 1]
        BY <4>1
      <4>3. CASE i = n + 1
        BY <4>3, <4>2, <3>2
      <4>4. CASE i # n + 1
        <5>1. i \in 1 .. n /\ g[i] = f[i]
          BY <4>1, <4>4, <3>2
        <5> QED BY <5>1, <4>2, <3>1
      <4> QED BY <4>3, <4>4
    <3> HIDE DEF g
    <3>6. Upto(g, n + 1)
      BY <3>4, <3>5
    <3> HIDE DEF Upto
    <3> QED BY <3>2, <3>3, <3>6
  <2> HIDE DEF Some
  <2> SUFFICES Some \subseteq Nat
    BY <2>1, <2>2, SetInduction
  <2> QED BY DEF Some
<1> DEFINE F(n) == CHOOSE f \in [0 .. n -> Nat] : Upto(f, n)
<1>2. \A n \in Nat : F(n) \in [0 .. n -> Nat] /\ Upto(F(n), n)
  BY <1>1
\* Two of them agree where both are defined.
<1>3. ASSUME NEW n \in Nat, NEW f, NEW g, Upto(f, n), Upto(g, n)
      PROVE  f[n] = g[n]
  <2> DEFINE Same == {i \in Nat : i <= n => f[i] = g[i]}
  <2>1. 0 \in Same
    BY <1>3
  <2>2. ASSUME NEW i \in Same PROVE i + 1 \in Same
    <3>1. CASE i + 1 <= n
      <4>1. i + 1 \in 1 .. n /\ (i + 1) - 1 = i
        BY <3>1
      <4>2. f[i + 1] = 2 * f[i] /\ g[i + 1] = 2 * g[i]
        BY <1>3, <4>1
      <4> QED BY <4>2, <3>1
    <3> QED BY <3>1
  <2>3. Same \subseteq Nat
    OBVIOUS
  <2> HIDE DEF Same
  <2>4. Same = Nat
    BY <2>1, <2>2, <2>3, SetInduction
  <2> QED BY <2>4 DEF Same
<1> DEFINE G == [n \in Nat |-> F(n)[n]]
<1>4. ASSUME NEW n \in Nat
      PROVE  G[n] = IF n = 0 THEN 1 ELSE 2 * G[n - 1]
  <2>1. CASE n = 0
    BY <2>1, <1>2
  <2>2. CASE n # 0
    <3>1. n - 1 \in Nat /\ n \in 1 .. n
      BY <2>2
    <3>2. Upto(F(n), n) /\ Upto(F(n - 1), n - 1)
      BY <3>1, <1>2
    <3>3. Upto(F(n), n - 1)
      <4>1. \A i \in 1 .. n - 1 : i \in 1 .. n
        BY <3>1
      <4> HIDE DEF F
      <4> QED BY <4>1, <3>2
    <3> HIDE DEF F
    <3>4. F(n)[n - 1] = F(n - 1)[n - 1]
      <4> HIDE DEF Upto
      <4> QED BY <3>1, <3>2, <3>3, <1>3
    <3>5. F(n)[n] = 2 * F(n)[n - 1]
      BY <3>1, <3>2
    <3> QED BY <3>1, <3>4, <3>5, <2>2
  <2> QED BY <2>1, <2>2
<1>5. G = [n \in Nat |-> IF n = 0 THEN 1 ELSE 2 * G[n - 1]]
  <2> HIDE DEF F
  <2> DEFINE K == G
  <2>1. K = [n \in Nat |-> K[n]]
    OBVIOUS
  <2>2. \A n \in Nat : K[n] = IF n = 0 THEN 1 ELSE 2 * K[n - 1]
    BY <1>4
  <2> HIDE DEF K
  <2>3. K = [n \in Nat |-> IF n = 0 THEN 1 ELSE 2 * K[n - 1]]
    BY <2>1, <2>2
  <2> QED BY <2>3 DEF K
<1> HIDE DEF G
<1> QED BY <1>5 DEF Pow2

\* The powers of two are positive, and each is twice the one before.
LEMMA Pow2Facts ==
  /\ Pow2[0] = 1
  /\ \A n \in Nat : Pow2[n] \in Nat \ {0} /\ Pow2[n + 1] = 2 * Pow2[n]
<1> DEFINE Positive == {n \in Nat : Pow2[n] \in Nat \ {0}}
<1>1. Pow2[0] = 1 /\ \A n \in Nat : Pow2[n + 1] = 2 * Pow2[n]
  <2> DEFINE P == Pow2
  <2>1. P = [n \in Nat |-> IF n = 0 THEN 1 ELSE 2 * P[n - 1]]
    BY Pow2Def
  <2> HIDE DEF P
  <2>2. \A n \in Nat : P[n] = IF n = 0 THEN 1 ELSE 2 * P[n - 1]
    BY <2>1
  <2>3. \A n \in Nat : n + 1 \in Nat /\ n + 1 # 0 /\ (n + 1) - 1 = n
    OBVIOUS
  <2>4. P[0] = 1
    BY <2>2
  <2>5. \A n \in Nat : P[n + 1] = 2 * P[n]
    BY <2>2, <2>3
  <2> QED BY <2>4, <2>5 DEF P
<1>2. 0 \in Positive /\ \A n \in Positive : n + 1 \in Positive
  BY <1>1
<1>3. Positive \subseteq Nat
  OBVIOUS
<1> HIDE DEF Positive
<1>4. Positive = Nat
  BY <1>2, <1>3, SetInduction
<1> QED BY <1>1, <1>4 DEF Positive

\* 2^(m+n) = 2^m * 2^n.
LEMMA Pow2Sum ==
  ASSUME NEW m \in Nat, NEW n \in Nat
  PROVE  Pow2[m + n] = Pow2[m] * Pow2[n]
<1> DEFINE Adds == {k \in Nat : Pow2[m + k] = Pow2[m] * Pow2[k]}
<1>1. 0 \in Adds
  BY Pow2Facts
<1>2. ASSUME NEW k \in Adds PROVE k + 1 \in Adds
  <2>1. Pow2[m + (k + 1)] = 2 * Pow2[m + k]
    <3>1. m + (k + 1) = (m + k) + 1 /\ m + k \in Nat
      OBVIOUS
    <3> QED BY <3>1, Pow2Facts
  <2>2. Pow2[k + 1] = 2 * Pow2[k]
    BY Pow2Facts
  <2>3. Pow2[m] \in Nat /\ Pow2[k] \in Nat
    BY Pow2Facts
  <2>4. \A x \in Nat, y \in Nat : x * (2 * y) = 2 * (x * y)
    OBVIOUS
  <2> QED BY <2>1, <2>2, <2>3, <2>4
<1>3. Adds \subseteq Nat
  OBVIOUS
<1> HIDE DEF Adds
<1>4. Adds = Nat
  BY <1>1, <1>2, <1>3, SetInduction
<1> QED BY <1>4 DEF Adds

\* Sums(a) is what its definition says: the recursion is well founded.
LEMMA SumsDef ==
  ASSUME NEW a
  PROVE  /\ Sums(a) \in [0 .. XLEN -> Nat] /\ Sums(a)[0] = 0
         /\ \A i \in 0 .. XLEN - 1 :
              Sums(a)[i + 1] = Sums(a)[i] + (IF i \in a THEN Pow2[i] ELSE 0)
<1> DEFINE W(i) == IF i \in a THEN Pow2[i] ELSE 0
           Upto(f, n) == f[0] = 0 /\ \A i \in 1 .. n : i <= XLEN => f[i] = f[i - 1] + W(i - 1)
           Some == {n \in Nat : \E f \in [0 .. XLEN -> Nat] : Upto(f, n)}
<1>1. \A i \in Nat : W(i) \in Nat
  BY Pow2Facts
<1>2. 0 \in Some
  <2>1. [i \in 0 .. XLEN |-> 0] \in [0 .. XLEN -> Nat] /\ Upto([i \in 0 .. XLEN |-> 0], 0)
    BY XLENAssumption
  <2> QED BY <2>1
<1> HIDE DEF W
<1>3. ASSUME NEW n \in Some PROVE n + 1 \in Some
  <2>1. PICK f \in [0 .. XLEN -> Nat] : Upto(f, n)
    OBVIOUS
  <2> DEFINE g == [f EXCEPT ![n + 1] = f[n] + W(n)]
  <2>2. CASE n + 1 <= XLEN
    <3>1. n \in 0 .. XLEN /\ n + 1 \in 0 .. XLEN /\ f[n] \in Nat
      BY <2>2, XLENAssumption
    <3>2. g \in [0 .. XLEN -> Nat]
      <4>1. n \in Nat
        OBVIOUS
      <4>2. f[n] + W(n) \in Nat
        BY <3>1, <4>1, <1>1
      <4> QED BY <4>2
    <3>3. g[0] = 0
      BY <2>1, <3>1
    <3>4. \A i \in 1 .. n + 1 : i <= XLEN => g[i] = g[i - 1] + W(i - 1)
      <4> TAKE i \in 1 .. n + 1
      <4>1. i \in 0 .. XLEN /\ i - 1 \in 0 .. XLEN /\ i - 1 # n + 1
        BY <3>1, XLENAssumption
      <4>2. g[i - 1] = f[i - 1]
        BY <4>1
      <4>3. CASE i = n + 1
        <5>1. g[i] = f[n] + W(n) /\ i - 1 = n
          BY <4>1, <4>3
        <5> QED BY <5>1, <4>2
      <4>4. CASE i # n + 1
        <5>1. i \in 1 .. n /\ g[i] = f[i] /\ i <= XLEN
          BY <4>1, <4>4, XLENAssumption
        <5> QED BY <5>1, <4>2, <2>1
      <4> QED BY <4>3, <4>4
    <3>5. Upto(g, n + 1)
      BY <3>3, <3>4
    <3> HIDE DEF g, Upto
    <3> QED BY <3>2, <3>5
  <2>3. CASE ~ (n + 1 <= XLEN)
    <3>1. Upto(f, n + 1)
      <4>1. \A i \in 1 .. n + 1 : i <= XLEN => i \in 1 .. n
        BY <2>3, XLENAssumption
      <4> QED BY <4>1, <2>1
    <3> HIDE DEF Upto
    <3> QED BY <3>1
  <2> QED BY <2>2, <2>3
<1>4. Some \subseteq Nat
  OBVIOUS
<1> HIDE DEF Some
<1>5. Some = Nat
  BY <1>2, <1>3, <1>4, SetInduction
<1>6. PICK f \in [0 .. XLEN -> Nat] : Upto(f, XLEN)
  BY <1>5, XLENAssumption DEF Some
<1>7. f = [i \in 0 .. XLEN |-> IF i = 0 THEN 0 ELSE f[i - 1] + W(i - 1)]
  <2>1. \A i \in 0 .. XLEN : f[i] = IF i = 0 THEN 0 ELSE f[i - 1] + W(i - 1)
    BY <1>6, XLENAssumption
  <2> QED BY <2>1
<1>8. Sums(a) = CHOOSE s : s = [i \in 0 .. XLEN |-> IF i = 0 THEN 0 ELSE s[i - 1] + W(i - 1)]
  BY DEF Sums, W
<1> DEFINE S == Sums(a)
<1>9. S = [i \in 0 .. XLEN |-> IF i = 0 THEN 0 ELSE S[i - 1] + W(i - 1)]
  BY <1>7, <1>8
<1> HIDE DEF S
<1>10. \A i \in 0 .. XLEN : S[i] = IF i = 0 THEN 0 ELSE S[i - 1] + W(i - 1)
  BY <1>9
<1>11. S[0] = 0
  BY <1>10, XLENAssumption
<1>12. \A i \in 0 .. XLEN - 1 : S[i + 1] = S[i] + W(i)
  <2>1. \A i \in 0 .. XLEN - 1 : i + 1 \in 0 .. XLEN /\ i + 1 # 0 /\ (i + 1) - 1 = i
    BY XLENAssumption
  <2> QED BY <2>1, <1>10
<1> DEFINE Natural == {i \in Nat : i <= XLEN => S[i] \in Nat}
<1>13. 0 \in Natural
  BY <1>11
<1>14. ASSUME NEW i \in Natural PROVE i + 1 \in Natural
  <2>1. CASE i + 1 <= XLEN
    <3>1. i \in Nat /\ i \in 0 .. XLEN - 1 /\ i <= XLEN
      BY <2>1, XLENAssumption
    <3>2. S[i] \in Nat /\ W(i) \in Nat /\ S[i + 1] = S[i] + W(i)
      BY <3>1, <1>1, <1>12
    <3> QED BY <3>1, <3>2
  <2>2. CASE ~ (i + 1 <= XLEN)
    BY <2>2, XLENAssumption
  <2> QED BY <2>1, <2>2
<1>15. Natural \subseteq Nat
  OBVIOUS
<1> HIDE DEF Natural
<1>16. Natural = Nat
  BY <1>13, <1>14, <1>15, SetInduction
<1>17. \A i \in 0 .. XLEN : S[i] \in Nat
  BY <1>16, XLENAssumption DEF Natural
<1>18. S \in [0 .. XLEN -> Nat]
  BY <1>9, <1>17
<1> QED BY <1>11, <1>12, <1>18 DEF S, W

----------------------------------------------------------------------------
(* Integer division, and the binary digits of a number.                     *)

\* Quotient and remainder, rounded down.
LEMMA DivFacts ==
  ASSUME NEW n \in Int, NEW d \in Nat \ {0}
  PROVE  n \div d \in Int /\ n % d \in 0 .. d - 1 /\ n = d * (n \div d) + (n % d)
  OBVIOUS

\* Quotient and remainder are the only numbers that go together so.
LEMMA DivUnique ==
  ASSUME NEW d \in Nat \ {0}, NEW q \in Int, NEW r \in 0 .. d - 1
  PROVE  (d * q + r) \div d = q /\ (d * q + r) % d = r
<1> DEFINE n == d * q + r  p == n \div d  s == n % d
<1>1. n \in Int /\ p \in Int /\ s \in 0 .. d - 1 /\ d * q + r = d * p + s
  BY DivFacts
<1> HIDE DEF p, s, n
<1>2. ASSUME NEW x \in Int, NEW y \in Int, x < y PROVE d * x + d <= d * y
  <2>1. d * (y - x - 1) \in Nat
    BY <1>2
  <2>2. d * (y - x - 1) = d * y - d * x - d
    OBVIOUS
  <2> QED BY <2>1, <2>2
<1>3. d * q \in Int /\ d * p \in Int
  BY <1>1
<1>4. ~ (q < p) /\ ~ (p < q)
  BY <1>1, <1>2, <1>3
<1>5. p = q
  BY <1>1, <1>4
<1> QED BY <1>1, <1>3, <1>5 DEF p, s, n

\* Positive numbers have a positive product.
LEMMA ProductPositive ==
  ASSUME NEW a \in Nat \ {0}, NEW b \in Nat \ {0} PROVE a * b \in Nat \ {0}
  OBVIOUS

\* Dividing twice is dividing by the product.
LEMMA DivDiv ==
  ASSUME NEW n \in Int, NEW a \in Nat \ {0}, NEW b \in Nat \ {0}
  PROVE  (n \div a) \div b = n \div (a * b)
<1> DEFINE q == n \div a  r == n % a  p == q \div b  s == q % b
<1>1. q \in Int /\ r \in 0 .. a - 1 /\ n = a * q + r
  BY DivFacts
<1> HIDE DEF q, r
<1>2. p \in Int /\ s \in 0 .. b - 1 /\ q = b * p + s
  BY <1>1, DivFacts
<1> HIDE DEF p, s
<1>3. a * b \in Nat \ {0}
  BY ProductPositive
<1>4. a * s + r \in 0 .. a * b - 1
  <2>1. a * s \in Nat /\ a * (b - 1 - s) \in Nat
    BY <1>2
  <2>2. a * (b - 1 - s) = a * b - a - a * s
    BY <1>2
  <2> QED BY <1>1, <1>2, <1>3, <2>1, <2>2
<1>5. n = (a * b) * p + (a * s + r)
  <2>1. a * (b * p + s) = (a * b) * p + a * s
    BY <1>2
  <2> QED BY <1>1, <1>2, <2>1
<1>6. n \div (a * b) = p
  BY <1>2, <1>3, <1>4, <1>5, DivUnique
<1> QED BY <1>6 DEF p, q

\* Adding a multiple of the divisor adds to the quotient only.
LEMMA DivAdd ==
  ASSUME NEW n \in Int, NEW d \in Nat \ {0}, NEW k \in Int
  PROVE  (n + d * k) \div d = n \div d + k /\ (n + d * k) % d = n % d
<1> DEFINE q == n \div d  r == n % d
<1>1. q \in Int /\ r \in 0 .. d - 1 /\ n = d * q + r
  BY DivFacts
<1> HIDE DEF q, r
<1>2. n + d * k = d * (q + k) + r /\ q + k \in Int
  <2>1. d * (q + k) = d * q + d * k
    BY <1>1
  <2> QED BY <1>1, <2>1
<1> QED BY <1>1, <1>2, DivUnique DEF q, r

\* A remainder modulo a multiple of d keeps the remainder modulo d.
LEMMA ModMod ==
  ASSUME NEW n \in Int, NEW d \in Nat \ {0}, NEW e \in Nat \ {0}
  PROVE  (n % (d * e)) % d = n % d
<1> DEFINE D == d * e  q == n \div D  r == n % D
<1>0. D \in Nat \ {0}
  BY ProductPositive
<1> HIDE DEF D
<1>1. q \in Int /\ r \in Int /\ n = D * q + r
  BY <1>0, DivFacts
<1> HIDE DEF q, r
<1>2. n = r + d * (e * q) /\ e * q \in Int
  <2>1. D * q = d * (e * q)
    BY <1>1 DEF D
  <2> QED BY <1>1, <2>1
<1>3. n % d = r % d
  <2> DEFINE c == e * q
  <2>1. c \in Int /\ n = r + d * c
    BY <1>2
  <2> HIDE DEF c
  <2>2. (r + d * c) % d = r % d
    BY <1>1, <2>1, DivAdd
  <2> QED BY <2>1, <2>2
<1> QED BY <1>3 DEF r, D

\* The i-th binary digit of a number.
Digit(n, i) == (n \div Pow2[i]) % 2

\* Digits are 0 and 1.
LEMMA DigitType ==
  ASSUME NEW n \in Int, NEW i \in Nat PROVE Digit(n, i) \in {0, 1} /\ n \div Pow2[i] \in Int
<1>1. n \div Pow2[i] \in Int
  BY Pow2Facts, DivFacts
<1>2. (n \div Pow2[i]) % 2 \in 0 .. 1
  BY <1>1, DivFacts
<1> QED BY <1>1, <1>2 DEF Digit

\* A power of two is a multiple of every smaller one.
LEMMA Pow2Split ==
  ASSUME NEW i \in Nat, NEW m \in Nat, i <= m
  PROVE  /\ Pow2[m] = Pow2[i] * Pow2[m - i] /\ m - i \in Nat
         /\ Pow2[i] \in Nat \ {0} /\ Pow2[m] \in Nat \ {0} /\ Pow2[m - i] \in Nat \ {0}
<1>1. m - i \in Nat /\ m = i + (m - i)
  OBVIOUS
<1>2. Pow2[i + (m - i)] = Pow2[i] * Pow2[m - i]
  BY <1>1, Pow2Sum
<1> QED BY <1>1, <1>2, Pow2Facts

\* Digits below the m-th are not changed by multiples of 2^m.
LEMMA DigitAdd ==
  ASSUME NEW n \in Int, NEW k \in Int, NEW m \in Nat, NEW i \in Nat, i < m
  PROVE  Digit(n + Pow2[m] * k, i) = Digit(n, i)
<1>1. /\ Pow2[m] = Pow2[i] * (2 * Pow2[m - i - 1])
      /\ Pow2[i] \in Nat \ {0} /\ Pow2[m - i - 1] \in Nat \ {0}
  <2>1. m - i - 1 \in Nat /\ (m - i - 1) + 1 = m - i
    OBVIOUS
  <2>2. Pow2[(m - i - 1) + 1] = 2 * Pow2[m - i - 1] /\ Pow2[m - i - 1] \in Nat \ {0}
    BY <2>1, Pow2Facts
  <2> QED BY <2>1, <2>2, Pow2Split
<1> DEFINE P == Pow2[i]  R == Pow2[m - i - 1]  c == R * k
<1>2. c \in Int /\ P \in Nat \ {0} /\ R \in Nat \ {0}
  BY <1>1
<1>3. Pow2[m] * k = P * (2 * c)
  <2>1. \A x \in Nat, y \in Nat : (x * (2 * y)) * k = x * (2 * (y * k))
    OBVIOUS
  <2> QED BY <1>1, <2>1
<1> HIDE DEF c, P, R
<1>4. (n + P * (2 * c)) \div P = n \div P + 2 * c /\ n \div P \in Int
  <2> DEFINE e == 2 * c
  <2>1. e \in Int
    BY <1>2
  <2> HIDE DEF e
  <2>2. (n + P * e) \div P = n \div P + e
    BY <1>2, <2>1, DivAdd
  <2>3. n \div P \in Int
    BY <1>2, DivFacts
  <2> QED BY <2>2, <2>3 DEF e
<1>5. (n \div P + 2 * c) % 2 = (n \div P) % 2
  BY <1>2, <1>4, DivAdd
<1> QED BY <1>3, <1>4, <1>5 DEF Digit, P

\* One more digit of a remainder.
LEMMA ModStep ==
  ASSUME NEW n \in Int, NEW k \in Nat
  PROVE  n % Pow2[k + 1] = (n % Pow2[k]) + Pow2[k] * Digit(n, k)
<1> DEFINE P == Pow2[k]  q == n \div P  r == n % P  h == q \div 2  b == q % 2
<1>1. P \in Nat \ {0} /\ Pow2[k + 1] = 2 * P
  BY Pow2Facts
<1> HIDE DEF P
<1>2. q \in Int /\ r \in 0 .. P - 1 /\ n = P * q + r
  BY <1>1, DivFacts
<1> HIDE DEF q, r
<1>3. h \in Int /\ b \in 0 .. 1 /\ q = 2 * h + b
  BY <1>2, DivFacts
<1> HIDE DEF h, b
<1>4. n = (2 * P) * h + (P * b + r)
  <2>1. P * (2 * h + b) = (2 * P) * h + P * b
    BY <1>1, <1>3
  <2>2. P * q = P * (2 * h + b)
    BY <1>3
  <2> DEFINE u == P * b  v == (2 * P) * h  w == P * q
  <2>3. u \in Int /\ v \in Int /\ w = v + u /\ n = w + r
    BY <1>1, <1>2, <1>3, <2>1, <2>2
  <2> HIDE DEF u, v, w
  <2>4. n = v + (u + r)
    BY <1>2, <2>3
  <2> QED BY <2>4 DEF u, v
<1>5. P * b + r \in 0 .. 2 * P - 1
  BY <1>1, <1>2, <1>3
<1>6. n % (2 * P) = P * b + r
  <2> DEFINE D == 2 * P  s == P * b + r
  <2>1. D \in Nat \ {0} /\ s \in 0 .. D - 1 /\ n = D * h + s
    BY <1>1, <1>4, <1>5
  <2> HIDE DEF D, s
  <2>2. n % D = s
    BY <1>3, <2>1, DivUnique
  <2> QED BY <2>2 DEF D, s
<1>7. P * b \in Int
  BY <1>1, <1>3
<1> QED BY <1>1, <1>2, <1>6, <1>7 DEF Digit, P, q, r, b

----------------------------------------------------------------------------
(* The number of a word and the word of a number.                           *)

\* Induction up to a bound, for a set.
LEMMA BoundedInduction ==
  ASSUME NEW N \in Nat, NEW S, 0 \in S, \A n \in 0 .. N - 1 : n \in S => n + 1 \in S
  PROVE  \A n \in 0 .. N : n \in S
<1> DEFINE T == {n \in Nat : n <= N => n \in S}
<1>1. 0 \in T
  OBVIOUS
<1>2. ASSUME NEW n \in T PROVE n + 1 \in T
  <2>1. n + 1 <= N => n \in 0 .. N - 1 /\ n <= N
    OBVIOUS
  <2> QED BY <2>1
<1>3. T \subseteq Nat
  OBVIOUS
<1> HIDE DEF T
<1>4. T = Nat
  BY <1>1, <1>2, <1>3, SetInduction
<1> QED BY <1>4 DEF T

\* The positions of a word's bits.
LEMMA BitsFacts == XLEN \in Nat /\ XLEN >= 1 /\ \A i : i \in Bits <=> i \in 0 .. XLEN - 1
  BY XLENAssumption DEF Bits

\* Sums grows by a power of two for every bit of the word.
LEMMA SumsStep ==
  ASSUME NEW a
  PROVE  /\ Sums(a)[0] = 0
         /\ \A k \in 0 .. XLEN : Sums(a)[k] \in Nat
         /\ \A k \in 0 .. XLEN - 1 :
              /\ k \in a => Sums(a)[k + 1] = Sums(a)[k] + Pow2[k]
              /\ k \notin a => Sums(a)[k + 1] = Sums(a)[k]
<1>1. \A k \in 0 .. XLEN - 1 : k \in 0 .. XLEN /\ k \in Nat
  BY BitsFacts
<1>2. Sums(a)[0] = 0 /\ \A k \in 0 .. XLEN : Sums(a)[k] \in Nat
  <2>1. Sums(a) \in [0 .. XLEN -> Nat] /\ Sums(a)[0] = 0
    BY SumsDef
  <2> QED BY <2>1
<1>3. ASSUME NEW k \in 0 .. XLEN - 1, k \in a PROVE Sums(a)[k + 1] = Sums(a)[k] + Pow2[k]
  BY <1>3, SumsDef
<1>4. ASSUME NEW k \in 0 .. XLEN - 1, k \notin a PROVE Sums(a)[k + 1] = Sums(a)[k]
  <2>1. Sums(a)[k + 1] = Sums(a)[k] + 0
    BY <1>4, SumsDef
  <2> QED BY <1>1, <1>2, <2>1
<1> QED BY <1>2, <1>3, <1>4

\* The k lowest bits stand for a number below 2^k.
LEMMA SumsBound ==
  ASSUME NEW a
  PROVE  \A k \in 0 .. XLEN : Sums(a)[k] \in 0 .. Pow2[k] - 1
<1> DEFINE S == {k \in Nat : Sums(a)[k] \in 0 .. Pow2[k] - 1}
<1>1. 0 \in S
  BY SumsStep, Pow2Facts
<1>2. ASSUME NEW k \in 0 .. XLEN - 1, k \in S PROVE k + 1 \in S
  <2>1. k \in Nat /\ Pow2[k] \in Nat /\ Pow2[k + 1] = 2 * Pow2[k] /\ k + 1 \in Nat
    BY Pow2Facts
  <2>2. Sums(a)[k + 1] = Sums(a)[k] + Pow2[k] \/ Sums(a)[k + 1] = Sums(a)[k]
    BY SumsStep
  <2>3. Sums(a)[k] \in 0 .. Pow2[k] - 1
    BY <1>2
  <2>4. Sums(a)[k + 1] \in 0 .. Pow2[k + 1] - 1
    BY <2>1, <2>2, <2>3
  <2> QED BY <2>1, <2>4
<1> HIDE DEF S
<1>3. \A k \in 0 .. XLEN : k \in S
  BY <1>1, <1>2, BitsFacts, BoundedInduction
<1> QED BY <1>3 DEF S

\* Below k the digits of the sum up to k are the word's bits.
LEMMA SumsDigits ==
  ASSUME NEW a
  PROVE  \A k \in 0 .. XLEN : \A i \in 0 .. k - 1 : Digit(Sums(a)[k], i) = 1 <=> i \in a
<1> DEFINE S == {k \in Nat : \A i \in 0 .. k - 1 : Digit(Sums(a)[k], i) = 1 <=> i \in a}
<1>1. 0 \in S
  OBVIOUS
<1>2. ASSUME NEW k \in 0 .. XLEN - 1, k \in S PROVE k + 1 \in S
  <2> DEFINE s == Sums(a)[k]  t == Sums(a)[k + 1]
  <2>1. k \in Nat /\ Pow2[k] \in Nat \ {0} /\ s \in 0 .. Pow2[k] - 1 /\ s \in Int
    BY Pow2Facts, SumsBound, BitsFacts
  <2>2. \A i \in 0 .. k - 1 : Digit(s, i) = 1 <=> i \in a
    BY <1>2
  <2>3. CASE k \in a
    <3>1. t = s + Pow2[k] * 1 /\ t = Pow2[k] * 1 + s
      BY <2>1, <2>3, SumsStep
    <3> HIDE DEF s, t
    <3>2. \A i \in 0 .. k - 1 : Digit(t, i) = Digit(s, i)
      BY <2>1, <3>1, DigitAdd
    <3>3. t \div Pow2[k] = 1
      BY <2>1, <3>1, DivUnique
    <3>4. Digit(t, k) = 1
      BY <3>3 DEF Digit
    <3>5. \A i \in 0 .. (k + 1) - 1 : Digit(t, i) = 1 <=> i \in a
      BY <2>1, <2>2, <2>3, <3>2, <3>4
    <3> QED BY <2>1, <3>5 DEF t
  <2>4. CASE k \notin a
    <3>1. t = s /\ s = Pow2[k] * 0 + s
      BY <2>1, <2>4, SumsStep
    <3> HIDE DEF s, t
    <3>2. s \div Pow2[k] = 0
      BY <2>1, <3>1, DivUnique
    <3>3. Digit(t, k) = 0
      BY <3>1, <3>2 DEF Digit
    <3>4. \A i \in 0 .. (k + 1) - 1 : Digit(t, i) = 1 <=> i \in a
      BY <2>1, <2>2, <2>4, <3>1, <3>3
    <3> QED BY <2>1, <3>4 DEF t
  <2> QED BY <2>3, <2>4
<1> HIDE DEF S
<1>3. \A k \in 0 .. XLEN : k \in S
  BY <1>1, <1>2, BitsFacts, BoundedInduction
<1> QED BY <1>3 DEF S

\* The word of a number has its digits for bits.
LEMMA ToWordIs == ASSUME NEW n PROVE ToWord(n) = {i \in Bits : Digit(n, i) = 1}
  BY DEF ToWord, Digit

\* The word of a number stands for that number modulo 2^XLEN, digit by digit.
LEMMA SumsToWord ==
  ASSUME NEW n \in Int
  PROVE  \A k \in 0 .. XLEN : Sums(ToWord(n))[k] = n % Pow2[k]
<1> DEFINE a == ToWord(n)  S == {k \in Nat : Sums(a)[k] = n % Pow2[k]}
<1>1. 0 \in S
  <2>1. n % 1 = 0
    OBVIOUS
  <2> QED BY <2>1, SumsStep, Pow2Facts
<1>2. ASSUME NEW k \in 0 .. XLEN - 1, k \in S PROVE k + 1 \in S
  <2>1. k \in Nat /\ k + 1 \in Nat /\ k \in Bits /\ Pow2[k] \in Nat
    BY BitsFacts, Pow2Facts
  <2>2. n % Pow2[k + 1] = (n % Pow2[k]) + Pow2[k] * Digit(n, k)
    BY <2>1, ModStep
  <2>3. k \in a <=> Digit(n, k) = 1
    BY <2>1, ToWordIs
  <2>4. Digit(n, k) \in {0, 1}
    BY <2>1, DigitType
  <2>5. Sums(a)[k] = n % Pow2[k] /\ Sums(a)[k] \in Nat
    BY <1>2, SumsStep, BitsFacts
  <2> HIDE DEF a
  <2>6. CASE k \in a
    BY <2>1, <2>2, <2>3, <2>5, <2>6, SumsStep
  <2>7. CASE k \notin a
    <3>1. Digit(n, k) = 0
      BY <2>3, <2>4, <2>7
    <3>2. Pow2[k] * 0 = 0
      BY <2>1
    <3> QED BY <2>1, <2>2, <2>5, <2>7, <3>1, <3>2, SumsStep
  <2> QED BY <2>6, <2>7
<1> HIDE DEF S
<1>3. \A k \in 0 .. XLEN : k \in S
  BY <1>1, <1>2, BitsFacts, BoundedInduction
<1> QED BY <1>3 DEF S, a

\* Val after ToWord is the remainder modulo 2^XLEN.
LEMMA ValToWord ==
  ASSUME NEW n \in Int PROVE Val(ToWord(n)) = n % Pow2[XLEN]
  BY SumsToWord, BitsFacts DEF Val

\* ToWord after Val is the identity.
LEMMA ToWordVal ==
  ASSUME NEW a \in Word
  PROVE  ToWord(Val(a)) = a /\ Val(a) \in 0 .. Pow2[XLEN] - 1 /\ Val(a) \in Nat
<1>1. \A i \in Bits : Digit(Val(a), i) = 1 <=> i \in a
  BY SumsDigits, BitsFacts DEF Val
<1>2. ToWord(Val(a)) = a
  BY <1>1, ToWordIs DEF Word
<1> QED BY <1>2, SumsBound, BitsFacts DEF Val

\* Two words that stand for the same number are the same word.
LEMMA ValInjective ==
  ASSUME NEW a \in Word, NEW b \in Word PROVE Val(a) = Val(b) <=> a = b
  BY ToWordVal

\* A word is determined by the digits of a number.
LEMMA ValIs ==
  ASSUME NEW a \in Word, NEW n \in Int, \A i \in Bits : i \in a <=> Digit(n, i) = 1
  PROVE  Val(a) = n % Pow2[XLEN]
<1>1. a = ToWord(n)
  BY ToWordIs DEF Word
<1> QED BY <1>1, ValToWord

\* The digits of a word's number are the word's bits.
LEMMA DigitOfVal ==
  ASSUME NEW a \in Word, NEW i \in Nat
  PROVE  /\ Digit(Val(a), i) = 1 <=> i \in a
         /\ Digit(Val(a), i) = IF i \in a THEN 1 ELSE 0
<1>1. CASE i \in Bits
  <2>1. Digit(Val(a), i) = 1 <=> i \in a
    BY <1>1, SumsDigits, BitsFacts DEF Val
  <2>2. Digit(Val(a), i) \in {0, 1}
    BY DigitType, ToWordVal
  <2> QED BY <2>1, <2>2
<1>2. CASE i \notin Bits
  <2>1. Val(a) \div Pow2[i] = 0
    <3>1. XLEN \in Nat /\ XLEN <= i
      BY <1>2, BitsFacts
    <3>2. Pow2[i] = Pow2[XLEN] * Pow2[i - XLEN] /\ Pow2[i - XLEN] \in Nat \ {0} /\ Pow2[XLEN] \in Nat \ {0} /\ Pow2[i] \in Nat \ {0}
      BY <3>1, Pow2Split
    <3>3. Pow2[XLEN] <= Pow2[i]
      <4>1. \A x \in Nat \ {0}, y \in Nat \ {0} : x <= x * y
        OBVIOUS
      <4> QED BY <3>2, <4>1
    <3>4. Val(a) \in 0 .. Pow2[i] - 1 /\ Val(a) = Pow2[i] * 0 + Val(a)
      BY <3>2, <3>3, ToWordVal
    <3> QED BY <3>2, <3>4, DivUnique
  <2>2. Digit(Val(a), i) = 0
    BY <2>1 DEF Digit
  <2> QED BY <1>2, <2>2 DEF Word
<1> QED BY <1>1, <1>2

\* The low bits of a word are a remainder of its number.
LEMMA SumsMod ==
  ASSUME NEW a \in Word
  PROVE  \A k \in 0 .. XLEN : Sums(a)[k] = Val(a) % Pow2[k]
  BY ToWordVal, SumsToWord

----------------------------------------------------------------------------
(* Sums, differences and comparisons: the carry (borrow) of the definitions is *)
(* the carry of the sums of the k lowest bits.                              *)

\* The carry into a bit comes from the bit below or through it.
LEMMA CarryStep ==
  ASSUME NEW a \in Word, NEW b \in Word
  PROVE  /\ ~ CarryInto(a, b, 0)
         /\ \A k \in Nat : CarryInto(a, b, k + 1) <=>
              (k \in a /\ k \in b) \/ ((k \in a \/ k \in b) /\ CarryInto(a, b, k))
<1>1. \A j \in a \cap b : j \in Nat
  BY BitsFacts DEF Word
<1>2. ~ CarryInto(a, b, 0)
  BY <1>1 DEF CarryInto
<1>3. ASSUME NEW k \in Nat, CarryInto(a, b, k + 1)
      PROVE  (k \in a /\ k \in b) \/ ((k \in a \/ k \in b) /\ CarryInto(a, b, k))
  <2>1. PICK j \in a \cap b : j < k + 1 /\ \A i \in j + 1 .. (k + 1) - 1 : i \in a \/ i \in b
    BY <1>3 DEF CarryInto
  <2>2. CASE j = k
    BY <2>1, <2>2
  <2>3. CASE j # k
    <3>1. j < k /\ k \in j + 1 .. (k + 1) - 1 /\ \A i \in j + 1 .. k - 1 : i \in j + 1 .. (k + 1) - 1
      BY <1>1, <2>1, <2>3
    <3> QED BY <2>1, <3>1 DEF CarryInto
  <2> QED BY <2>2, <2>3
<1>4. ASSUME NEW k \in Nat, k \in a, k \in b PROVE CarryInto(a, b, k + 1)
  <2>1. k < k + 1 /\ \A i \in k + 1 .. (k + 1) - 1 : FALSE
    OBVIOUS
  <2> QED BY <1>4, <2>1 DEF CarryInto
<1>5. ASSUME NEW k \in Nat, k \in a \/ k \in b, CarryInto(a, b, k) PROVE CarryInto(a, b, k + 1)
  <2>1. PICK j \in a \cap b : j < k /\ \A i \in j + 1 .. k - 1 : i \in a \/ i \in b
    BY <1>5 DEF CarryInto
  <2>2. j < k + 1 /\ \A i \in j + 1 .. (k + 1) - 1 : i \in j + 1 .. k - 1 \/ i = k
    BY <1>1, <2>1
  <2> QED BY <1>5, <2>1, <2>2 DEF CarryInto
<1> QED BY <1>2, <1>3, <1>4, <1>5

\* The same of the borrow.
LEMMA BorrowStep ==
  ASSUME NEW a \in Word, NEW b \in Word
  PROVE  /\ ~ BorrowInto(a, b, 0)
         /\ \A k \in Nat : BorrowInto(a, b, k + 1) <=>
              (k \in b /\ k \notin a) \/ ((k \in a => k \in b) /\ BorrowInto(a, b, k))
<1>1. \A j \in b \ a : j \in Nat
  BY BitsFacts DEF Word
<1>2. ~ BorrowInto(a, b, 0)
  BY <1>1 DEF BorrowInto
<1>3. ASSUME NEW k \in Nat, BorrowInto(a, b, k + 1)
      PROVE  (k \in b /\ k \notin a) \/ ((k \in a => k \in b) /\ BorrowInto(a, b, k))
  <2>1. PICK j \in b \ a : j < k + 1 /\ \A i \in j + 1 .. (k + 1) - 1 : i \in a => i \in b
    BY <1>3 DEF BorrowInto
  <2>2. CASE j = k
    BY <2>1, <2>2
  <2>3. CASE j # k
    <3>1. j < k /\ k \in j + 1 .. (k + 1) - 1 /\ \A i \in j + 1 .. k - 1 : i \in j + 1 .. (k + 1) - 1
      BY <1>1, <2>1, <2>3
    <3> QED BY <2>1, <3>1 DEF BorrowInto
  <2> QED BY <2>2, <2>3
<1>4. ASSUME NEW k \in Nat, k \in b, k \notin a PROVE BorrowInto(a, b, k + 1)
  <2>1. k < k + 1 /\ \A i \in k + 1 .. (k + 1) - 1 : FALSE
    OBVIOUS
  <2> QED BY <1>4, <2>1 DEF BorrowInto
<1>5. ASSUME NEW k \in Nat, k \in a => k \in b, BorrowInto(a, b, k) PROVE BorrowInto(a, b, k + 1)
  <2>1. PICK j \in b \ a : j < k /\ \A i \in j + 1 .. k - 1 : i \in a => i \in b
    BY <1>5 DEF BorrowInto
  <2>2. j < k + 1 /\ \A i \in j + 1 .. (k + 1) - 1 : i \in j + 1 .. k - 1 \/ i = k
    BY <1>1, <2>1
  <2> QED BY <1>5, <2>1, <2>2 DEF BorrowInto
<1> QED BY <1>2, <1>3, <1>4, <1>5

\* Operator + on words is addition modulo 2^XLEN.
THEOREM ValPlus ==
  ASSUME NEW a \in Word, NEW b \in Word
  PROVE  Val(Plus(a, b)) = (Val(a) + Val(b)) % Pow2[XLEN]
<1> DEFINE c == Plus(a, b)
           C(k) == CarryInto(a, b, k)
           S == {k \in Nat : Sums(a)[k] + Sums(b)[k] =
                               Sums(c)[k] + (IF C(k) THEN Pow2[k] ELSE 0)}
<1>1. \A k \in Bits : k \in c <=> ((k \in a <=> k \in b) <=> C(k))
  BY DEF Plus, Xor, Word
<1>2. 0 \in S
  BY SumsStep, CarryStep
<1>3. ASSUME NEW k \in 0 .. XLEN - 1, k \in S PROVE k + 1 \in S
  <2>1. k \in Nat /\ k + 1 \in Nat /\ k \in Bits /\ Pow2[k] \in Nat /\ Pow2[k + 1] = 2 * Pow2[k]
    BY BitsFacts, Pow2Facts
  <2>2. C(k + 1) <=> (k \in a /\ k \in b) \/ ((k \in a \/ k \in b) /\ C(k))
    BY <2>1, CarryStep
  <2>3. k \in c <=> ((k \in a <=> k \in b) <=> C(k))
    BY <2>1, <1>1
  <2> DEFINE P == Pow2[k]
             sa == Sums(a)[k]      sb == Sums(b)[k]      sc == Sums(c)[k]
             ta == Sums(a)[k + 1]  tb == Sums(b)[k + 1]  tc == Sums(c)[k + 1]
  <2>4. /\ P \in Nat /\ sa \in Nat /\ sb \in Nat /\ sc \in Nat
        /\ ta = sa + (IF k \in a THEN P ELSE 0)
        /\ tb = sb + (IF k \in b THEN P ELSE 0)
        /\ tc = sc + (IF k \in c THEN P ELSE 0)
    BY <2>1, SumsStep, BitsFacts
  <2>5. sa + sb = sc + (IF C(k) THEN P ELSE 0)
    BY <1>3
  <2> HIDE DEF c, C, P, sa, sb, sc, ta, tb, tc
  <2>6. ta + tb = tc + (IF C(k + 1) THEN 2 * P ELSE 0)
    <3>1. CASE C(k)
      BY <2>2, <2>3, <2>4, <2>5, <3>1
    <3>2. CASE ~ C(k)
      BY <2>2, <2>3, <2>4, <2>5, <3>2
    <3> QED BY <3>1, <3>2
  <2>7. Sums(a)[k + 1] + Sums(b)[k + 1] = Sums(c)[k + 1] + (IF C(k + 1) THEN Pow2[k + 1] ELSE 0)
    BY <2>1, <2>6 DEF ta, tb, tc, P
  <2> QED BY <2>1, <2>7
<1> HIDE DEF S
<1>4. \A k \in 0 .. XLEN : k \in S
  BY <1>2, <1>3, BitsFacts, BoundedInduction
<1>5. XLEN \in 0 .. XLEN
  BY BitsFacts
<1>6. Val(a) + Val(b) = Val(c) + (IF C(XLEN) THEN Pow2[XLEN] ELSE 0)
  BY <1>4, <1>5 DEF S, Val
<1>7. Val(c) \in 0 .. Pow2[XLEN] - 1 /\ Pow2[XLEN] \in Nat \ {0}
  BY SumsBound, <1>5, BitsFacts, Pow2Facts DEF Val
<1>8. PICK q \in {0, 1} : Val(a) + Val(b) = Pow2[XLEN] * q + Val(c)
  BY <1>6, <1>7
<1> HIDE DEF c, C
<1> QED BY <1>7, <1>8, DivUnique DEF c

\* Operator - on words is subtraction modulo 2^XLEN.
THEOREM ValMinus ==
  ASSUME NEW a \in Word, NEW b \in Word
  PROVE  Val(Minus(a, b)) = (Val(a) - Val(b)) % Pow2[XLEN]
<1> DEFINE c == Minus(a, b)
           B(k) == BorrowInto(a, b, k)
           S == {k \in Nat : Sums(a)[k] + (IF B(k) THEN Pow2[k] ELSE 0) =
                               Sums(b)[k] + Sums(c)[k]}
<1>1. \A k \in Bits : k \in c <=> ((k \in a <=> k \in b) <=> B(k))
  BY DEF Minus, Xor, Word
<1>2. 0 \in S
  BY SumsStep, BorrowStep
<1>3. ASSUME NEW k \in 0 .. XLEN - 1, k \in S PROVE k + 1 \in S
  <2>1. k \in Nat /\ k + 1 \in Nat /\ k \in Bits /\ Pow2[k] \in Nat /\ Pow2[k + 1] = 2 * Pow2[k]
    BY BitsFacts, Pow2Facts
  <2>2. B(k + 1) <=> (k \in b /\ k \notin a) \/ ((k \in a => k \in b) /\ B(k))
    BY <2>1, BorrowStep
  <2>3. k \in c <=> ((k \in a <=> k \in b) <=> B(k))
    BY <2>1, <1>1
  <2> DEFINE P == Pow2[k]
             sa == Sums(a)[k]      sb == Sums(b)[k]      sc == Sums(c)[k]
             ta == Sums(a)[k + 1]  tb == Sums(b)[k + 1]  tc == Sums(c)[k + 1]
  <2>4. /\ P \in Nat /\ sa \in Nat /\ sb \in Nat /\ sc \in Nat
        /\ ta = sa + (IF k \in a THEN P ELSE 0)
        /\ tb = sb + (IF k \in b THEN P ELSE 0)
        /\ tc = sc + (IF k \in c THEN P ELSE 0)
    BY <2>1, SumsStep, BitsFacts
  <2>5. sa + (IF B(k) THEN P ELSE 0) = sb + sc
    BY <1>3
  <2> HIDE DEF c, B, P, sa, sb, sc, ta, tb, tc
  <2>6. ta + (IF B(k + 1) THEN 2 * P ELSE 0) = tb + tc
    <3>1. CASE B(k)
      BY <2>2, <2>3, <2>4, <2>5, <3>1
    <3>2. CASE ~ B(k)
      BY <2>2, <2>3, <2>4, <2>5, <3>2
    <3> QED BY <3>1, <3>2
  <2>7. Sums(a)[k + 1] + (IF B(k + 1) THEN Pow2[k + 1] ELSE 0) = Sums(b)[k + 1] + Sums(c)[k + 1]
    BY <2>1, <2>6 DEF ta, tb, tc, P
  <2> QED BY <2>1, <2>7
<1> HIDE DEF S
<1>4. \A k \in 0 .. XLEN : k \in S
  BY <1>2, <1>3, BitsFacts, BoundedInduction
<1>5. XLEN \in 0 .. XLEN
  BY BitsFacts
<1>6. Val(a) + (IF B(XLEN) THEN Pow2[XLEN] ELSE 0) = Val(b) + Val(c)
  BY <1>4, <1>5 DEF S, Val
<1>7. /\ Val(c) \in 0 .. Pow2[XLEN] - 1 /\ Pow2[XLEN] \in Nat \ {0}
      /\ Val(a) \in Nat /\ Val(b) \in Nat
  BY SumsBound, <1>5, BitsFacts, Pow2Facts, ToWordVal DEF Val
<1> HIDE DEF c, B
<1>8. PICK q \in {0, -1} : Val(a) - Val(b) = Pow2[XLEN] * q + Val(c)
  <2>1. CASE B(XLEN)
    <3>1. Val(a) - Val(b) = Pow2[XLEN] * (-1) + Val(c)
      BY <1>6, <1>7, <2>1
    <3> QED BY <3>1
  <2>2. CASE ~ B(XLEN)
    <3>1. Val(a) - Val(b) = Pow2[XLEN] * 0 + Val(c)
      BY <1>6, <1>7, <2>2
    <3> QED BY <3>1
  <2> QED BY <2>1, <2>2
<1>9. q \in Int
  OBVIOUS
<1> QED BY <1>7, <1>8, <1>9, DivUnique DEF c

\* Operator < on words compares the numbers they stand for.
THEOREM LessIs ==
  ASSUME NEW a \in Word, NEW b \in Word
  PROVE  Less(a, b) <=> Val(a) < Val(b)
<1> DEFINE L(k) == \E i \in b \ a : i < k /\ \A j \in i + 1 .. k - 1 : j \in a <=> j \in b
           S == {k \in Nat : L(k) <=> Sums(a)[k] < Sums(b)[k]}
<1>0. \A i \in b \ a : i \in Nat /\ i < XLEN
  BY BitsFacts DEF Word
<1>1. Less(a, b) <=> L(XLEN)
  <2>1. \A i : i + 1 .. Sign = i + 1 .. XLEN - 1
    BY DEF Sign
  <2> QED BY <1>0, <2>1 DEF Less
<1>2. 0 \in S
  <2>1. ~ L(0)
    BY <1>0
  <2> QED BY <2>1, SumsStep
<1>3. \A k \in Nat : L(k + 1) <=> (k \in b /\ k \notin a) \/ ((k \in a <=> k \in b) /\ L(k))
  <2> TAKE k \in Nat
  <2>1. ASSUME L(k + 1) PROVE (k \in b /\ k \notin a) \/ ((k \in a <=> k \in b) /\ L(k))
    <3>1. PICK i \in b \ a : i < k + 1 /\ \A j \in i + 1 .. (k + 1) - 1 : j \in a <=> j \in b
      BY <2>1
    <3>2. CASE i = k
      BY <3>1, <3>2
    <3>3. CASE i # k
      <4>1. i < k /\ k \in i + 1 .. (k + 1) - 1 /\ \A j \in i + 1 .. k - 1 : j \in i + 1 .. (k + 1) - 1
        BY <1>0, <3>1, <3>3
      <4> QED BY <3>1, <4>1
    <3> QED BY <3>2, <3>3
  <2>2. ASSUME k \in b, k \notin a PROVE L(k + 1)
    <3>1. k < k + 1 /\ \A j \in k + 1 .. (k + 1) - 1 : FALSE
      OBVIOUS
    <3> QED BY <2>2, <3>1
  <2>3. ASSUME k \in a <=> k \in b, L(k) PROVE L(k + 1)
    <3>1. PICK i \in b \ a : i < k /\ \A j \in i + 1 .. k - 1 : j \in a <=> j \in b
      BY <2>3
    <3>2. i < k + 1 /\ \A j \in i + 1 .. (k + 1) - 1 : j \in i + 1 .. k - 1 \/ j = k
      BY <1>0, <3>1
    <3> QED BY <2>3, <3>1, <3>2
  <2> HIDE DEF L
  <2> QED BY <2>1, <2>2, <2>3
<1> HIDE DEF L
<1>4. ASSUME NEW k \in 0 .. XLEN - 1, k \in S PROVE k + 1 \in S
  <2> DEFINE P == Pow2[k]
             sa == Sums(a)[k]      sb == Sums(b)[k]
             ta == Sums(a)[k + 1]  tb == Sums(b)[k + 1]
  <2>1. k \in Nat /\ k + 1 \in Nat
    BY BitsFacts
  <2>2. /\ P \in Nat /\ sa \in Nat /\ sb \in Nat /\ sa < P /\ sb < P
        /\ ta = sa + (IF k \in a THEN P ELSE 0)
        /\ tb = sb + (IF k \in b THEN P ELSE 0)
    BY <2>1, SumsStep, SumsBound, BitsFacts, Pow2Facts
  <2>3. L(k) <=> sa < sb
    BY <1>4
  <2>4. L(k + 1) <=> (k \in b /\ k \notin a) \/ ((k \in a <=> k \in b) /\ L(k))
    BY <1>3, <2>1
  <2> HIDE DEF P, sa, sb, ta, tb
  <2>5. L(k + 1) <=> ta < tb
    BY <2>2, <2>3, <2>4
  <2> QED BY <2>1, <2>5 DEF ta, tb
<1> HIDE DEF S
<1>5. \A k \in 0 .. XLEN : k \in S
  BY <1>2, <1>4, BitsFacts, BoundedInduction
<1>6. L(XLEN) <=> Sums(a)[XLEN] < Sums(b)[XLEN]
  BY <1>5, BitsFacts DEF S
<1> QED BY <1>1, <1>6 DEF Val

\* The sign bit marks the upper half of the numbers.
LEMMA SignIs ==
  ASSUME NEW a \in Word
  PROVE  /\ Sign \in Nat /\ Sign + 1 = XLEN /\ Pow2[XLEN] = 2 * Pow2[Sign]
         /\ Sign \in a <=> Val(a) >= Pow2[Sign]
<1>1. Sign \in Nat /\ Sign + 1 = XLEN /\ Sign \in 0 .. XLEN - 1
  BY BitsFacts DEF Sign
<1>2. Pow2[XLEN] = 2 * Pow2[Sign] /\ Pow2[Sign] \in Nat
  BY <1>1, Pow2Facts
<1>3. Val(a) = Sums(a)[Sign] + (IF Sign \in a THEN Pow2[Sign] ELSE 0)
  BY <1>1, SumsStep DEF Val
<1>4. Sums(a)[Sign] \in 0 .. Pow2[Sign] - 1
  BY <1>1, SumsBound
<1> QED BY <1>1, <1>2, <1>3, <1>4

----------------------------------------------------------------------------
(* Signed numbers and shifts.                                               *)

\* The number of a word in two's complement.
SignedVal(a) == IF Sign \in a THEN Val(a) - Pow2[XLEN] ELSE Val(a)

\* A number in two's complement is negative when the sign bit is set.
LEMMA SignedRange ==
  ASSUME NEW a \in Word
  PROVE  /\ SignedVal(a) \in Int /\ Pow2[XLEN] \in Nat
         /\ SignedVal(a) < Pow2[XLEN] /\ SignedVal(a) >= - Pow2[XLEN]
         /\ Sign \in a <=> SignedVal(a) < 0
  BY SignIs, ToWordVal, Pow2Facts, BitsFacts DEF SignedVal

\* LessSigned compares the numbers in two's complement.
THEOREM LessSignedIs ==
  ASSUME NEW a \in Word, NEW b \in Word
  PROVE  LessSigned(a, b) <=> SignedVal(a) < SignedVal(b)
<1>1. /\ Val(a) \in 0 .. Pow2[XLEN] - 1 /\ Val(b) \in 0 .. Pow2[XLEN] - 1 /\ Pow2[XLEN] \in Nat
      /\ Less(a, b) <=> Val(a) < Val(b)
  BY ToWordVal, LessIs, Pow2Facts, BitsFacts
<1> HIDE DEF Less
<1>2. CASE Sign \in a
  <2>1. CASE Sign \in b
    BY <1>1, <1>2, <2>1 DEF LessSigned, SignedVal
  <2>2. CASE Sign \notin b
    BY <1>1, <1>2, <2>2 DEF LessSigned, SignedVal
  <2> QED BY <2>1, <2>2
<1>3. CASE Sign \notin a
  <2>1. CASE Sign \in b
    <3>1. ~ LessSigned(a, b)
      BY <1>3, <2>1 DEF LessSigned
    <3> QED BY <1>1, <1>3, <2>1, <3>1 DEF SignedVal
  <2>2. CASE Sign \notin b
    BY <1>1, <1>3, <2>2 DEF LessSigned, SignedVal
  <2> QED BY <2>1, <2>2
<1> QED BY <1>2, <1>3

\* A number below 2^k has no digits from k on.
LEMMA DigitHigh ==
  ASSUME NEW k \in Nat, NEW n \in 0 .. Pow2[k] - 1, NEW i \in Nat, i >= k
  PROVE  Digit(n, i) = 0 /\ n \div Pow2[i] = 0 /\ Pow2[k] <= Pow2[i]
<1>1. Pow2[i] = Pow2[k] * Pow2[i - k] /\ Pow2[i - k] \in Nat \ {0} /\ Pow2[k] \in Nat \ {0} /\ Pow2[i] \in Nat \ {0}
  BY Pow2Split
<1>2. Pow2[k] <= Pow2[i]
  <2>1. \A x \in Nat \ {0}, y \in Nat \ {0} : x <= x * y
    OBVIOUS
  <2> QED BY <1>1, <2>1
<1>3. n \in 0 .. Pow2[i] - 1 /\ n = Pow2[i] * 0 + n
  BY <1>1, <1>2
<1>4. n \div Pow2[i] = 0
  BY <1>1, <1>3, DivUnique
<1> QED BY <1>2, <1>4 DEF Digit

\* A number below the modulus is its own remainder.
LEMMA ModSmall ==
  ASSUME NEW d \in Nat \ {0}, NEW n \in 0 .. d - 1 PROVE n % d = n
<1>1. n = d * 0 + n
  OBVIOUS
<1> QED BY <1>1, DivUnique

\* A word whose bits are the digits of a number stands for it.
LEMMA ValUnique ==
  ASSUME NEW a \in Word, NEW n \in 0 .. Pow2[XLEN] - 1,
         \A i \in Bits : i \in a <=> Digit(n, i) = 1
  PROVE  Val(a) = n
<1>1. Val(a) = n % Pow2[XLEN]
  BY ValIs
<1> QED BY <1>1, ModSmall, Pow2Facts, BitsFacts

\* A left shift multiplies by a power of two, modulo 2^XLEN, for any amount.
THEOREM ValShiftLeft ==
  ASSUME NEW a \in Word, NEW n \in Nat
  PROVE  Val(ShiftLeft(a, n)) = (Val(a) * Pow2[n]) % Pow2[XLEN]
<1> DEFINE v == Val(a)
<1>1. v \in Nat /\ Pow2[n] \in Nat \ {0} /\ v * Pow2[n] \in Int /\ Pow2[n] * v = v * Pow2[n]
  BY ToWordVal, Pow2Facts
<1>2. ASSUME NEW i \in Bits PROVE i \in ShiftLeft(a, n) <=> Digit(v * Pow2[n], i) = 1
  <2>1. i \in Nat /\ (i \in ShiftLeft(a, n) <=> i - n \in a)
    BY BitsFacts DEF ShiftLeft
  <2>2. CASE i >= n
    <3>1. Pow2[i] = Pow2[n] * Pow2[i - n] /\ i - n \in Nat /\ Pow2[i - n] \in Nat \ {0}
      BY <2>1, <2>2, Pow2Split
    <3>2. (v * Pow2[n]) \div Pow2[n] = v
      <4>1. Pow2[n] * v + 0 = v * Pow2[n]
        BY <1>1
      <4>2. (Pow2[n] * v + 0) \div Pow2[n] = v
        BY <1>1, DivUnique
      <4> QED BY <4>1, <4>2
    <3>3. (v * Pow2[n]) \div Pow2[i] = v \div Pow2[i - n]
      BY <1>1, <3>1, <3>2, DivDiv
    <3>4. Digit(v * Pow2[n], i) = Digit(v, i - n)
      BY <3>3 DEF Digit
    <3> QED BY <2>1, <3>1, <3>4, DigitOfVal
  <2>3. CASE i < n
    <3>1. i - n \notin a
      BY <2>1, <2>3, BitsFacts DEF Word
    <3>2. Digit(0 + Pow2[n] * v, i) = Digit(0, i)
      BY <1>1, <2>1, <2>3, DigitAdd
    <3>3. 0 + Pow2[n] * v = v * Pow2[n]
      BY <1>1
    <3>4. Digit(0, i) = 0
      <4>1. 0 \in 0 .. Pow2[0] - 1 /\ i >= 0
        BY <2>1, Pow2Facts
      <4> QED BY <2>1, <4>1, DigitHigh
    <3> QED BY <2>1, <3>1, <3>2, <3>3, <3>4
  <2> QED BY <2>1, <2>2, <2>3
<1>3. ShiftLeft(a, n) \in Word
  BY DEF ShiftLeft, Word
<1> HIDE DEF v
<1>4. Val(ShiftLeft(a, n)) = (v * Pow2[n]) % Pow2[XLEN]
  BY <1>1, <1>2, <1>3, ValIs
<1> QED BY <1>4 DEF v

\* Dividing by 2^n moves the digits down by n.
LEMMA DigitDiv ==
  ASSUME NEW v \in Int, NEW n \in Nat, NEW i \in Nat
  PROVE  Digit(v \div Pow2[n], i) = Digit(v, i + n)
<1>1. Pow2[i + n] = Pow2[n] * Pow2[i] /\ Pow2[n] \in Nat \ {0} /\ Pow2[i] \in Nat \ {0}
  <2>1. Pow2[n + i] = Pow2[n] * Pow2[i] /\ n + i = i + n
    BY Pow2Sum
  <2> QED BY <2>1, Pow2Facts
<1> QED BY <1>1, DivDiv DEF Digit

\* A logical right shift divides by a power of two.
THEOREM ValShiftRight ==
  ASSUME NEW a \in Word, NEW n \in Nat
  PROVE  /\ Val(ShiftRight(a, n)) = Val(a) \div Pow2[n]
         /\ Val(a) \div Pow2[n] \in 0 .. Pow2[XLEN] - 1
<1> DEFINE v == Val(a)  q == v \div Pow2[n]
<1>1. v \in 0 .. Pow2[XLEN] - 1 /\ v \in Int /\ Pow2[n] \in Nat \ {0}
  BY ToWordVal, Pow2Facts
<1>2. q \in 0 .. Pow2[XLEN] - 1
  <2> HIDE DEF v
  <2>1. q \in Int /\ v % Pow2[n] \in 0 .. Pow2[n] - 1 /\ v = Pow2[n] * q + (v % Pow2[n])
    BY <1>1, DivFacts
  <2> HIDE DEF q
  <2>2. q >= 0
    <3>1. \A x \in Nat \ {0}, y \in Int : y <= -1 => x * y <= - x
      OBVIOUS
    <3> QED BY <1>1, <2>1, <3>1
  <2>3. q <= v
    <3>1. \A x \in Nat \ {0}, y \in Nat : y <= x * y
      OBVIOUS
    <3> QED BY <1>1, <2>1, <2>2, <3>1
  <2> QED BY <1>1, <2>1, <2>2, <2>3, Pow2Facts, BitsFacts
<1>3. ASSUME NEW i \in Bits PROVE i \in ShiftRight(a, n) <=> Digit(q, i) = 1
  <2>1. i \in Nat /\ i + n \in Nat /\ (i \in ShiftRight(a, n) <=> i + n \in a)
    BY BitsFacts DEF ShiftRight
  <2>2. Digit(q, i) = Digit(v, i + n)
    BY <1>1, <2>1, DigitDiv
  <2> QED BY <2>1, <2>2, DigitOfVal
<1>4. ShiftRight(a, n) \in Word
  BY DEF ShiftRight, Word
<1> HIDE DEF q
<1>5. Val(ShiftRight(a, n)) = q
  BY <1>2, <1>3, <1>4, ValUnique
<1> QED BY <1>2, <1>5 DEF q

\* An arithmetic right shift divides the signed number, rounding down.
THEOREM ValShiftRightSigned ==
  ASSUME NEW a \in Word, NEW n \in Nat
  PROVE  Val(ShiftRightSigned(a, n)) = (SignedVal(a) \div Pow2[n]) % Pow2[XLEN]
<1> DEFINE v == Val(a)  s == SignedVal(a)  q == s \div Pow2[n]
<1>1. /\ v \in 0 .. Pow2[XLEN] - 1 /\ v \in Int /\ s \in Int
      /\ Pow2[n] \in Nat \ {0} /\ Pow2[XLEN] \in Nat \ {0} /\ XLEN \in Nat
  BY ToWordVal, Pow2Facts, SignedRange, BitsFacts
<1>2. q \in Int
  <2> HIDE DEF s
  <2> QED BY <1>1, DivFacts
<1>3. ASSUME NEW j \in Nat, j < XLEN PROVE Digit(s, j) = Digit(v, j)
  <2>1. CASE Sign \in a
    <3>1. s = v + Pow2[XLEN] * (-1)
      BY <1>1, <2>1 DEF SignedVal
    <3> QED BY <1>1, <1>3, <3>1, DigitAdd
  <2>2. CASE Sign \notin a
    BY <2>2 DEF SignedVal
  <2> QED BY <2>1, <2>2
<1>4. ASSUME NEW j \in Nat, j >= XLEN PROVE Digit(s, j) = 1 <=> Sign \in a
  <2>1. CASE Sign \in a
    <3>1. s = v - Pow2[XLEN] /\ v >= Pow2[Sign] /\ Pow2[Sign] \in Nat
      BY <2>1, SignIs, Pow2Facts DEF SignedVal
    <3>2. Pow2[XLEN] <= Pow2[j] /\ Pow2[j] \in Nat \ {0}
      BY <1>1, <1>4, DigitHigh, Pow2Facts
    <3>3. s = Pow2[j] * (-1) + (s + Pow2[j]) /\ s + Pow2[j] \in 0 .. Pow2[j] - 1
      BY <1>1, <3>1, <3>2
    <3> HIDE DEF s
    <3> DEFINE r == s + Pow2[j]
    <3>4. r \in 0 .. Pow2[j] - 1 /\ s = Pow2[j] * (-1) + r
      BY <3>3
    <3> HIDE DEF r
    <3>5. s \div Pow2[j] = -1
      BY <3>2, <3>4, DivUnique
    <3> QED BY <2>1, <3>5 DEF Digit
  <2>2. CASE Sign \notin a
    <3>1. s = v
      BY <2>2 DEF SignedVal
    <3>2. Digit(v, j) = 0
      BY <1>1, <1>4, DigitHigh
    <3> QED BY <2>2, <3>1, <3>2
  <2> QED BY <2>1, <2>2
<1>5. ASSUME NEW i \in Bits PROVE i \in ShiftRightSigned(a, n) <=> Digit(q, i) = 1
  <2>1. i \in Nat /\ i + n \in Nat
    BY BitsFacts
  <2>2. Digit(q, i) = Digit(s, i + n)
    BY <1>1, <2>1, DigitDiv
  <2> HIDE DEF q, s, v
  <2>3. CASE i + n > Sign
    <3>1. i + n >= XLEN
      BY <2>1, <2>3, BitsFacts DEF Sign
    <3>2. Digit(s, i + n) = 1 <=> Sign \in a
      BY <1>4, <2>1, <3>1
    <3> QED BY <2>2, <2>3, <3>2 DEF ShiftRightSigned
  <2>4. CASE ~ (i + n > Sign)
    <3>1. i + n < XLEN
      BY <2>1, <2>4, BitsFacts DEF Sign
    <3>2. Digit(s, i + n) = 1 <=> i + n \in a
      BY <1>3, <2>1, <3>1, DigitOfVal DEF v
    <3> QED BY <2>2, <2>4, <3>2 DEF ShiftRightSigned
  <2> QED BY <2>3, <2>4
<1>6. ShiftRightSigned(a, n) \in Word
  BY DEF ShiftRightSigned, Word
<1> HIDE DEF q
<1>7. Val(ShiftRightSigned(a, n)) = q % Pow2[XLEN]
  BY <1>2, <1>5, <1>6, ValIs
<1> QED BY <1>7 DEF q

----------------------------------------------------------------------------
(* Parts of a word, and words given bit by bit.                             *)

\* The empty word is the only one that stands for zero.
LEMMA ValEmpty == Val({}) = 0 /\ {} \in Word /\ \A a \in Word : Val(a) = 0 <=> a = {}
<1>1. {} \in Word
  BY DEF Word
<1>2. \A i \in Nat : Digit(0, i) = 0
  <2> TAKE i \in Nat
  <2>1. 0 \in 0 .. Pow2[0] - 1 /\ i >= 0
    BY Pow2Facts
  <2> QED BY <2>1, DigitHigh
<1>3. 0 \in 0 .. Pow2[XLEN] - 1
  BY Pow2Facts, BitsFacts
<1>4. Val({}) = 0
  BY <1>1, <1>2, <1>3, ValUnique, BitsFacts
<1> QED BY <1>1, <1>4, ValInjective

\* Bits taken from the bottom are a remainder.
LEMMA ValLow ==
  ASSUME NEW a \in Word, NEW b \in Word, NEW k \in 0 .. XLEN,
         \A i \in Bits : i \in b <=> i < k /\ i \in a
  PROVE  Val(b) = Val(a) % Pow2[k]
<1> DEFINE n == Sums(a)[k]
<1>1. /\ k \in Nat /\ k <= XLEN /\ n \in 0 .. Pow2[k] - 1 /\ n = Val(a) % Pow2[k]
      /\ Pow2[k] \in Nat
  BY SumsBound, SumsMod, BitsFacts, Pow2Facts
<1>2. n \in 0 .. Pow2[XLEN] - 1
  <2>1. 0 \in 0 .. Pow2[k] - 1 /\ XLEN \in Nat /\ XLEN >= k
    BY <1>1, Pow2Facts, BitsFacts
  <2>2. Pow2[k] <= Pow2[XLEN]
    BY <1>1, <2>1, DigitHigh
  <2> QED BY <1>1, <2>1, <2>2, Pow2Facts
<1>3. ASSUME NEW i \in Bits PROVE i \in b <=> Digit(n, i) = 1
  <2>1. i \in Nat
    BY BitsFacts
  <2>2. CASE i < k
    <3>1. Digit(n, i) = 1 <=> i \in a
      BY <1>1, <2>1, <2>2, SumsDigits
    <3> QED BY <2>2, <3>1
  <2>3. CASE ~ (i < k)
    <3>1. Digit(n, i) = 0
      BY <1>1, <2>1, <2>3, DigitHigh
    <3> QED BY <2>3, <3>1
  <2> QED BY <2>2, <2>3
<1> HIDE DEF n
<1> QED BY <1>1, <1>2, <1>3, ValUnique

\* A number is a multiple of 2^k when its word has none of the k lowest bits.
LEMMA LowBitsClear ==
  ASSUME NEW a \in Word, NEW k \in 0 .. XLEN
  PROVE  a \cap 0 .. k - 1 = {} <=> Val(a) % Pow2[k] = 0
<1> DEFINE b == {i \in Bits : i < k /\ i \in a}
<1>1. b \in Word /\ \A i \in Bits : i \in b <=> i < k /\ i \in a
  BY DEF Word
<1>2. a \cap 0 .. k - 1 = b
  BY BitsFacts DEF Word
<1> HIDE DEF b
<1>3. Val(b) = Val(a) % Pow2[k]
  BY <1>1, ValLow
<1> QED BY <1>1, <1>2, <1>3, ValEmpty

\* Two words agree from bit k on when their numbers have one quotient by 2^k.
LEMMA HighBitsSame ==
  ASSUME NEW a \in Word, NEW b \in Word, NEW k \in Nat
  PROVE  {i \in a : i >= k} = {i \in b : i >= k} <=> Val(a) \div Pow2[k] = Val(b) \div Pow2[k]
<1>1. /\ Val(ShiftRight(a, k)) = Val(a) \div Pow2[k]
      /\ Val(ShiftRight(b, k)) = Val(b) \div Pow2[k]
      /\ ShiftRight(a, k) \in Word /\ ShiftRight(b, k) \in Word
  BY ValShiftRight DEF ShiftRight, Word
<1>2. ASSUME {i \in a : i >= k} = {i \in b : i >= k} PROVE ShiftRight(a, k) = ShiftRight(b, k)
  <2>1. \A i \in Bits : i + k >= k
    BY BitsFacts
  <2>2. \A j : j >= k => (j \in a <=> j \in b)
    BY <1>2
  <2> QED BY <2>1, <2>2 DEF ShiftRight
<1>3. ASSUME ShiftRight(a, k) = ShiftRight(b, k) PROVE {i \in a : i >= k} = {i \in b : i >= k}
  <2>1. ASSUME NEW j \in Bits, j >= k PROVE j \in a <=> j \in b
    <3>1. j - k \in Bits /\ (j - k) + k = j
      BY <2>1, BitsFacts
    <3>2. j - k \in ShiftRight(a, k) <=> j - k \in ShiftRight(b, k)
      BY <1>3
    <3> QED BY <3>1, <3>2 DEF ShiftRight
  <2> QED BY <2>1 DEF Word
<1> QED BY <1>1, <1>2, <1>3, ValInjective

\* Clearing bit 0 rounds down to an even number.
LEMMA ValClearLowest ==
  ASSUME NEW a \in Word
  PROVE  Val(ClearBit(0, a)) = Val(a) - (Val(a) % 2)
<1> DEFINE v == Val(a)  q == v \div 2  r == v % 2  c == ClearBit(0, a)  n == 2 * q
<1>1. v \in 0 .. Pow2[XLEN] - 1 /\ v \in Int /\ Pow2[1] = 2 /\ Pow2[XLEN] \in Nat
  <2>1. Pow2[0 + 1] = 2 * Pow2[0] /\ Pow2[0] = 1
    BY Pow2Facts
  <2> QED BY <2>1, ToWordVal, Pow2Facts, BitsFacts
<1>2. q \in Int /\ r \in 0 .. 1 /\ v = 2 * q + r
  <2> HIDE DEF v
  <2> QED BY <1>1, DivFacts
<1>3. ASSUME NEW i \in Bits PROVE i \in c <=> Digit(n, i) = 1
  <2>1. i \in Nat /\ (i \in c <=> i # 0 /\ i \in a)
    BY BitsFacts DEF ClearBit, Not
  <2> HIDE DEF q, r, v, c
  <2>2. CASE i = 0
    <3>1. Digit(0 + Pow2[1] * q, 0) = Digit(0, 0)
      BY <1>2, DigitAdd
    <3>2. Digit(0, 0) = 0 /\ 0 + Pow2[1] * q = n
      <4>1. 0 \in 0 .. Pow2[0] - 1
        BY Pow2Facts
      <4>2. Digit(0, 0) = 0
        BY <4>1, DigitHigh
      <4> QED BY <1>1, <1>2, <4>2
    <3> QED BY <2>1, <2>2, <3>1, <3>2
  <2>3. CASE i # 0
    <3>1. i - 1 \in Nat /\ (i - 1) + 1 = i
      BY <2>1, <2>3
    <3>2. n \div Pow2[1] = q /\ n \in Int
      <4>1. n = 2 * q + 0 /\ n \in Int
        BY <1>2
      <4>2. (2 * q + 0) \div 2 = q
        BY <1>2, DivUnique
      <4> HIDE DEF n
      <4> QED BY <1>1, <4>1, <4>2
    <3> HIDE DEF n
    <3>3. Digit(q, i - 1) = Digit(n, i)
      <4>1. Digit(n \div Pow2[1], i - 1) = Digit(n, (i - 1) + 1)
        BY <3>1, <3>2, DigitDiv
      <4> QED BY <3>1, <3>2, <4>1
    <3>4. Digit(q, i - 1) = Digit(v, i)
      BY <1>1, <3>1, DigitDiv DEF q
    <3> QED BY <2>1, <2>3, <3>3, <3>4, DigitOfVal DEF v
  <2> QED BY <2>2, <2>3
<1>4. c \in Word
  BY DEF ClearBit, Word
<1> HIDE DEF q, r, c
<1>5. n \in 0 .. Pow2[XLEN] - 1
  BY <1>1, <1>2
<1>6. Val(c) = n
  <2> HIDE DEF n, v
  <2> QED BY <1>3, <1>4, <1>5, ValUnique
<1>7. n = v - r
  BY <1>2
<1> QED BY <1>6, <1>7 DEF c, r

\* The word of a truth value stands for 0 or 1.
LEMMA ValOne == \A p : Val(IF p THEN ToWord(1) ELSE {}) = IF p THEN 1 ELSE 0
<1>1. Pow2[XLEN] \in Nat /\ Pow2[XLEN] = 2 * Pow2[Sign] /\ Pow2[Sign] \in Nat \ {0}
  BY SignIs, ValEmpty, Pow2Facts
<1>2. Val(ToWord(1)) = 1 % Pow2[XLEN] /\ 1 % Pow2[XLEN] = 1
  BY <1>1, ValToWord, ModSmall
<1> QED BY <1>2, ValEmpty

\* Operators on single bits are operators on digits.
LEMMA ValBits ==
  ASSUME NEW a \in Word, NEW b \in Word, NEW c \in Word, NEW n \in 0 .. Pow2[XLEN] - 1,
         \A i \in 0 .. XLEN - 1 :
           Digit(n, i) = IF i \in c THEN 1 ELSE 0
  PROVE  Val(c) = n
<1>1. \A i \in Bits : i \in c <=> Digit(n, i) = 1
  BY BitsFacts
<1> QED BY <1>1, ValUnique
=============================================================================
