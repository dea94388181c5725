--------------------------- MODULE ExecutorProofs ---------------------------
(***************************************************************************)
(* The executor's handlers keep words words, x0 zero and the pc even, and   *)
(* do what the manual's machine does, for every width, register file,       *)
(* program and initial memory.                                              *)
(***************************************************************************)
EXTENDS Executor, WordsProofs

\* What the decoder delivers is in range.
InRange(cmd) ==
  /\ {cmd.rd, cmd.rs1, cmd.rs2} \subseteq 0 .. kRegNum - 1
  /\ cmd.csr \in 0 .. kCSRegNum - 1
  /\ cmd.imm \in Word

LEMMA DecodedInRange ==
  ASSUME NEW i \in Program
  PROVE  InRange(Decoded(i))
<1>1. {i.rd, i.rs1, i.rs2, 0} \subseteq 0 .. kRegNum - 1 /\ i.csr \in 0 .. kCSRegNum - 1
  BY ExecutorAssumption
<1>2. \A n : ToWord(n) \in Word
  BY DEF ToWord, Word
<1>3. \A w \in Word : /\ ShiftLeft(w, kUpperShift) \in Word
                      /\ SignExtend(XLEN, kShamtBits, w) \in Word
  BY DEF ShiftLeft, SignExtend, GetBits, ShiftRight, Word
<1>4. Decoded(i).imm \in Word
  BY <1>2, <1>3 DEF Decoded
<1> QED BY <1>1, <1>4 DEF Decoded, InRange

\* Set stores a word and spares x0.
LEMMA SetKeepsRegisters ==
  ASSUME regs \in [0 .. kRegNum - 1 -> Word], regs[0] = {},
         NEW r \in 0 .. kRegNum - 1, NEW val \in Word, Set(r, val)
  PROVE  regs' \in [0 .. kRegNum - 1 -> Word] /\ regs'[0] = {}
  BY ExecutorAssumption DEF Set

\* The operators' results are words, whatever the amounts.
LEMMA Results ==
  ASSUME NEW a \in Word, NEW b \in Word
  PROVE  /\ Plus(a, b) \in Word /\ Minus(a, b) \in Word /\ Xor(a, b) \in Word
         /\ a \cap b \in Word /\ a \cup b \in Word /\ a \cap Not(b) \in Word
         /\ \A n : {ShiftLeft(a, n), ShiftRight(a, n), ShiftRightSigned(a, n), Imm(n),
                    GetBits(4, 0, a), ClearBit(n, a)} \subseteq Word
         /\ \A p : Truth(p) \in Word
<1>1. /\ Plus(a, b) \in Word /\ Minus(a, b) \in Word /\ Xor(a, b) \in Word
      /\ a \cap b \in Word /\ a \cup b \in Word /\ a \cap Not(b) \in Word
  BY DEF Plus, Minus, Xor, Not, Word
<1>2. \A n : {ShiftLeft(a, n), ShiftRight(a, n), ShiftRightSigned(a, n), Imm(n),
              GetBits(4, 0, a), ClearBit(n, a)} \subseteq Word
  BY DEF ShiftLeft, ShiftRight, ShiftRightSigned, Imm, ToWord, GetBits, ClearBit, Word
<1>3. \A p : Truth(p) \in Word
  BY DEF Truth, Imm, ToWord, Word
<1> QED BY <1>1, <1>2, <1>3

LEMMA NextPCIsWord == ASSUME pc \in Word PROVE NextPC \in Word
<1>1. Imm(kXLENInBytes) \in Word
  BY DEF Imm, ToWord, Word
<1> QED BY <1>1, Results DEF NextPC

----------------------------------------------------------------------------
\* The part of TypeOK that a handler can disturb.
StateOK ==
  /\ regs \in [0 .. kRegNum - 1 -> Word] /\ regs[0] = {}
  /\ csregs \in [0 .. kCSRegNum - 1 -> Word]
  /\ DOMAIN mem = Aligned
  /\ \A a \in Aligned : mem[a] = Absent \/ mem[a] \in Word
  /\ pc \in Word
  /\ status \in {"running", "complete", "threw"}

LEMMA HandlersKeepState ==
  ASSUME StateOK, NEW cmd, InRange(cmd), Execute(cmd)
  PROVE  StateOK'
<1> DEFINE rs1 == regs[cmd.rs1]
           rs2 == regs[cmd.rs2]
           old == csregs[cmd.csr]
<1>1. /\ cmd.rd \in 0 .. kRegNum - 1 /\ cmd.csr \in 0 .. kCSRegNum - 1
      /\ rs1 \in Word /\ rs2 \in Word /\ old \in Word
      /\ cmd.imm \in Word /\ pc \in Word /\ NextPC \in Word
  BY NextPCIsWord DEF StateOK, InRange
<1>2. \A val \in Word : Set(cmd.rd, val) =>
         regs' \in [0 .. kRegNum - 1 -> Word] /\ regs'[0] = {}
  BY <1>1, SetKeepsRegisters DEF StateOK
<1>3. Continue => pc' \in Word
  BY <1>1 DEF Continue
<1> HIDE DEF rs1, rs2, old
<1>4. CASE ExecuteRegisterRegisterOp(cmd)
  <2>1. /\ Plus(rs1, rs2) \in Word /\ Minus(rs1, rs2) \in Word
        /\ Xor(rs1, rs2) \in Word /\ \A n : ToWord(n) \in Word
    BY <1>1, WordOps
  <2>2. \E val \in Word : Set(cmd.rd, val)
    BY <1>4, <2>1 DEF ExecuteRegisterRegisterOp, rs1, rs2
  <2> QED BY <1>4, <2>2, <1>2, <1>3 DEF ExecuteRegisterRegisterOp, StateOK
<1>5. CASE ExecuteRegisterShift(cmd)
  <2>1. \A n : /\ ShiftLeft(rs1, n) \in Word /\ ShiftRight(rs1, n) \in Word
               /\ ShiftRightSigned(rs1, n) \in Word
    BY <1>1, Results
  <2>2. \E val \in Word : Set(cmd.rd, val)
    BY <1>5, <2>1 DEF ExecuteRegisterShift, rs1
  <2> QED BY <1>5, <2>2, <1>2, <1>3 DEF ExecuteRegisterShift, StateOK
<1>6. CASE ExecuteRegisterImmediateOp(cmd)
  <2>1. /\ Plus(rs1, cmd.imm) \in Word /\ Xor(rs1, cmd.imm) \in Word
        /\ rs1 \cap cmd.imm \in Word /\ rs1 \cup cmd.imm \in Word
    BY <1>1, Results
  <2>2. \A n : /\ ShiftLeft(rs1, n) \in Word /\ ShiftRight(rs1, n) \in Word
               /\ ShiftRightSigned(rs1, n) \in Word
    BY <1>1, Results
  <2>3. \A p : Truth(p) \in Word
    BY <1>1, Results
  <2>4. \E val \in Word : Set(cmd.rd, val)
    BY <1>6, <2>1, <2>2, <2>3 DEF ExecuteRegisterImmediateOp, rs1
  <2> QED BY <1>6, <2>4, <1>2, <1>3 DEF ExecuteRegisterImmediateOp, StateOK
<1>7. CASE ExecuteUpper(cmd)
  <2>1. ShiftLeft(cmd.imm, kUpperShift) \in Word
    BY <1>1, Results
  <2>2. Plus(pc, ShiftLeft(cmd.imm, kUpperShift)) \in Word
    BY <1>1, <2>1, Results
  <2> QED BY <1>7, <2>1, <2>2, <1>2, <1>3 DEF ExecuteUpper, StateOK
<1>8. CASE ExecuteCondBranch(cmd)
  <2>1. Plus(pc, cmd.imm) \in Word
    BY <1>1, Results
  <2> QED BY <1>8, <1>1, <2>1 DEF ExecuteCondBranch, StateOK
<1>9. CASE ExecuteJAL(cmd)
  <2>1. Plus(pc, cmd.imm) \in Word
    BY <1>1, Results
  <2> QED BY <1>9, <1>1, <1>2, <2>1 DEF ExecuteJAL, StateOK
<1>10. CASE ExecuteJALR(cmd)
  <2>1. ClearBit(0, Plus(rs1, cmd.imm)) \in Word
    <3>1. Plus(rs1, cmd.imm) \in Word
      BY <1>1, Results
    <3> QED BY <3>1, Results
  <2> QED BY <1>10, <1>1, <1>2, <2>1 DEF ExecuteJALR, StateOK, rs1
<1>11. CASE ExecuteLW(cmd)
  <2>1. Target(cmd) \in Word
    BY <1>1, Results DEF Target, rs1
  <2>2. Target(cmd) \in Aligned
    BY <1>11, <2>1 DEF ExecuteLW, Misaligned, Aligned
  <2>3. mem[Target(cmd)] \in Word
    BY <1>11, <2>2 DEF ExecuteLW, Mapped, StateOK
  <2> QED BY <1>11, <2>3, <1>2, <1>3 DEF ExecuteLW, StateOK
<1>12. CASE ExecuteSW(cmd)
  <2>1. rs2 \in Word /\ {} \in Word
    BY <1>1 DEF Word
  <2>2. mem' = Stored(Target(cmd), rs2)
    BY <1>12 DEF ExecuteSW, rs2
  <2>3. DOMAIN mem' = Aligned
    BY <2>2 DEF Stored, StateOK
  <2>4. \A a \in Aligned : mem'[a] = Absent \/ mem'[a] \in Word
    BY <2>1, <2>2 DEF Stored, StateOK
  <2> QED BY <1>12, <2>3, <2>4, <1>3 DEF ExecuteSW, StateOK
<1>13. CASE ExecuteCSR(cmd)
  <2>1. rs1 \in Word /\ rs1 \cup old \in Word /\ rs1 \cap Not(old) \in Word
    BY <1>1, Results
  <2>2. \E new \in Word : csregs' = [csregs EXCEPT ![cmd.csr] = new]
    BY <1>13, <2>1 DEF ExecuteCSR, rs1, old
  <2>3. csregs' \in [0 .. kCSRegNum - 1 -> Word]
    BY <2>2, <1>1 DEF StateOK
  <2>4. Set(cmd.rd, old)
    BY <1>13 DEF ExecuteCSR, old
  <2> QED BY <1>13, <2>3, <2>4, <1>1, <1>2, <1>3 DEF ExecuteCSR, StateOK
<1>14. CASE ExecuteCSRImm(cmd)
  <2> DEFINE zimm == GetBits(4, 0, Imm(cmd.rs1))
  <2>1. zimm \in Word
    BY DEF GetBits, ShiftRight, Word
  <2>2. old \cup zimm \in Word /\ old \cap Not(zimm) \in Word
    BY <1>1, <2>1, Results
  <2>3. \E new \in Word : csregs' = [csregs EXCEPT ![cmd.csr] = new]
    BY <1>14, <2>1, <2>2 DEF ExecuteCSRImm, CSRImmTypes, old
  <2>4. csregs' \in [0 .. kCSRegNum - 1 -> Word]
    BY <2>3, <1>1 DEF StateOK
  <2>5. Set(cmd.rd, old)
    BY <1>14 DEF ExecuteCSRImm, old
  <2> QED BY <1>14, <2>4, <2>5, <1>1, <1>2, <1>3 DEF ExecuteCSRImm, StateOK
<1>15. CASE ExecuteECALL(cmd)
  BY <1>15, <1>3 DEF ExecuteECALL, StateOK
<1>16. CASE Throws(cmd)
  BY <1>16 DEF Throws, StateOK
<1> QED BY <1>4, <1>5, <1>6, <1>7, <1>8, <1>9, <1>10, <1>11, <1>12, <1>13,
           <1>14, <1>15, <1>16 DEF Execute

\* Registers and csrs hold words, the memory words or nothing, and x0 is zero,
\* after every instruction of every program.
THEOREM ExecutorTypeCorrect == Spec => []TypeOK
<1>1. Init => TypeOK
  <2> SUFFICES ASSUME Init PROVE TypeOK
    OBVIOUS
  <2>1. {} \in Word /\ 0 \in 0 .. kRegNum - 1
    BY ExecutorAssumption DEF Word
  <2>2. /\ DOMAIN mem = Aligned /\ \A a \in Aligned : mem[a] = Absent \/ mem[a] \in Word
        /\ pc \in Word
    BY ExecutorAssumption DEF Init
  <2> QED BY <2>1, <2>2 DEF Init, TypeOK
<1>2. TypeOK /\ [Next]_vars => TypeOK'
  <2> SUFFICES ASSUME TypeOK, [Next]_vars PROVE TypeOK'
    OBVIOUS
  <2>1. CASE NextInst
    BY <2>1 DEF NextInst, TypeOK
  <2>2. CASE RunInst
    <3>1. inst \in Program /\ inst' = NoInst
      BY <2>2 DEF RunInst, TypeOK
    <3>2. StateOK /\ InRange(Decoded(inst)) /\ Execute(Decoded(inst))
      BY <2>2, <3>1, DecodedInRange DEF RunInst, TypeOK, StateOK
    <3>3. StateOK'
      BY <3>2, HandlersKeepState
    <3> QED BY <3>1, <3>3 DEF TypeOK, StateOK
  <2>3. CASE UNCHANGED vars
    BY <2>3 DEF vars, TypeOK
  <2> QED BY <2>1, <2>2, <2>3 DEF Next
<1> QED BY <1>1, <1>2, PTL DEF Spec

----------------------------------------------------------------------------
\* Nothing is carried into the lowest bit.
LEMMA EvenPlusEven ==
  ASSUME NEW a \in Word, NEW b \in Word, 0 \notin a, 0 \notin b
  PROVE  0 \notin Plus(a, b)
<1>1. \A j \in a \cap b : ~(j < 0)
  BY XLENAssumption DEF Word, Bits
<1>2. ~CarryInto(a, b, 0)
  BY <1>1 DEF CarryInto
<1> QED BY <1>2 DEF Plus, Xor

\* The pc is even before every instruction of every program whose branch and
\* jump offsets are: JALR clears the bit that its register may bring.
THEOREM PCAlwaysEven == Spec => []PCStaysEven
<1>1. Init => PCStaysEven
  BY EvenAssumption DEF Init, PCStaysEven
<1>2. TypeOK /\ PCStaysEven /\ [Next]_vars => PCStaysEven'
  <2> SUFFICES ASSUME TypeOK, PCStaysEven, [Next]_vars PROVE PCStaysEven'
    OBVIOUS
  <2>1. CASE RunInst
    <3> DEFINE cmd == Decoded(inst)
    <3>1. inst \in Program /\ InRange(cmd) /\ Execute(cmd) /\ pc \in Word
      BY <2>1, DecodedInRange DEF RunInst, TypeOK
    <3>2. 0 \notin NextPC
      <4>1. Imm(kXLENInBytes) \in Word
        BY DEF Imm, ToWord, Word
      <4> QED BY <3>1, <4>1, EvenPlusEven, EvenAssumption DEF NextPC, PCStaysEven
    <3>3. cmd.type \in BranchTypes \cup {"JAL"} => 0 \notin Plus(pc, cmd.imm)
      <4> SUFFICES ASSUME cmd.type \in BranchTypes \cup {"JAL"}
                   PROVE  0 \notin Plus(pc, cmd.imm)
        OBVIOUS
      <4>1. inst.op = cmd.type
        BY DEF Decoded
      <4>2. inst.op \notin UpperTypes \cup ShiftImmTypes
        BY <4>1 DEF BranchTypes, UpperTypes, ShiftImmTypes
      <4>3. cmd.imm = Imm(inst.imm)
        BY <4>2 DEF Decoded, Imm
      <4>4. 0 \notin cmd.imm
        BY <3>1, <4>1, <4>3, EvenAssumption
      <4>5. cmd.imm \in Word
        BY <3>1 DEF InRange
      <4> HIDE DEF cmd
      <4> QED BY <3>1, <4>4, <4>5, EvenPlusEven DEF PCStaysEven
    <3> HIDE DEF cmd
    <3>4. Continue => 0 \notin pc'
      BY <3>2 DEF Continue
    <3>5. CASE ExecuteCondBranch(cmd)
      BY <3>5, <3>2, <3>3 DEF ExecuteCondBranch, PCStaysEven
    <3>6. CASE ExecuteJAL(cmd)
      BY <3>6, <3>3 DEF ExecuteJAL, PCStaysEven
    <3>7. CASE ExecuteJALR(cmd)
      BY <3>7 DEF ExecuteJALR, ClearBit, Not, PCStaysEven
    <3>8. CASE Throws(cmd)
      BY <3>8 DEF Throws, PCStaysEven
    <3>9. CASE \/ ExecuteRegisterRegisterOp(cmd) \/ ExecuteRegisterShift(cmd)
               \/ ExecuteRegisterImmediateOp(cmd) \/ ExecuteUpper(cmd)
               \/ ExecuteLW(cmd) \/ ExecuteSW(cmd)
               \/ ExecuteCSR(cmd) \/ ExecuteCSRImm(cmd) \/ ExecuteECALL(cmd)
      BY <3>9, <3>4 DEF ExecuteRegisterRegisterOp, ExecuteRegisterShift,
         ExecuteRegisterImmediateOp, ExecuteUpper, ExecuteLW, ExecuteSW,
         ExecuteCSR, ExecuteCSRImm, ExecuteECALL, PCStaysEven
    <3> QED BY <3>1, <3>5, <3>6, <3>7, <3>8, <3>9 DEF Execute
  <2>2. CASE NextInst
    BY <2>2 DEF NextInst, PCStaysEven
  <2>3. CASE UNCHANGED vars
    BY <2>3 DEF vars, PCStaysEven
  <2> QED BY <2>1, <2>2, <2>3 DEF Next
<1> QED BY <1>1, <1>2, ExecutorTypeCorrect, PTL DEF Spec

----------------------------------------------------------------------------
(* The manual's machine, and its arithmetic on the numbers of words.        *)

\* The manual's machine computes with the same powers of two.
LEMMA ManualPowers == RV!Pow2 = Pow2
  BY DEF RV!Pow2, Pow2

\* Wrapping around is taking the remainder modulo 2^XLEN.
LEMMA ManualWidth == RV!Modulus = Pow2[XLEN] /\ \A n : RV!Wrap(n) = n % Pow2[XLEN]
  BY ManualPowers DEF RV!Modulus, RV!Wrap

\* The manual reads a number as signed as the executor reads its word.
LEMMA ManualSigned == ASSUME NEW a \in Word PROVE RV!Signed(Val(a)) = SignedVal(a)
<1>1. Pow2[XLEN] = 2 * Pow2[Sign] /\ Pow2[Sign] \in Nat /\ (Sign \in a <=> Val(a) >= Pow2[Sign])
  BY SignIs, Pow2Facts
<1>2. (2 * Pow2[Sign]) \div 2 = Pow2[Sign]
  BY <1>1
<1> QED BY <1>1, <1>2, ManualWidth DEF RV!Signed, SignedVal

\* The manual's bits of a number are its digits.
LEMMA ManualBits == ASSUME NEW n, NEW i PROVE RV!BitOf(n, i) = Digit(n, i)
  BY ManualPowers DEF RV!BitOf, Digit

\* The one number that has both arguments' bits is the intersection's.
LEMMA ManualAnd ==
  ASSUME NEW a \in Word, NEW b \in Word
  PROVE  RV!Bitwise(RV!And, Val(a), Val(b)) = Val((a \cap b)) /\ (a \cap b) \in Word
<1> DEFINE c == (a \cap b)
           f(p, q) == p * q
           Is(n) == \A i \in 0 .. XLEN - 1 :
                      Digit(n, i) = f(Digit(Val(a), i), Digit(Val(b), i))
           m == CHOOSE n \in 0 .. Pow2[XLEN] - 1 : Is(n)
<1>1. RV!Bitwise(RV!And, Val(a), Val(b)) = m
  BY ManualBits, ManualWidth DEF RV!Bitwise, RV!And
<1>2. c \in Word /\ \A i : i \in c <=> i \in a /\ i \in b
  BY BitsFacts DEF Word
<1> HIDE DEF c
<1>3. \A i \in 0 .. XLEN - 1 :
        f(Digit(Val(a), i), Digit(Val(b), i)) = IF i \in c THEN 1 ELSE 0
  <2> TAKE i \in 0 .. XLEN - 1
  <2>1. /\ Digit(Val(a), i) = IF i \in a THEN 1 ELSE 0
        /\ Digit(Val(b), i) = IF i \in b THEN 1 ELSE 0
    BY DigitOfVal, BitsFacts
  <2>2. /\ f(0, 0) = 0 /\ f(0, 1) = 0 /\ f(1, 0) = 0 /\ f(1, 1) = 1
    OBVIOUS
  <2> HIDE DEF f
  <2> QED BY <1>2, <2>1, <2>2
<1> HIDE DEF f
<1>4. Val(c) \in 0 .. Pow2[XLEN] - 1 /\ Is(Val(c))
  <2>1. \A i \in 0 .. XLEN - 1 : Digit(Val(c), i) = IF i \in c THEN 1 ELSE 0
    BY <1>2, DigitOfVal, BitsFacts
  <2> QED BY <1>2, <1>3, <2>1, ToWordVal
<1>5. m \in 0 .. Pow2[XLEN] - 1 /\ Is(m)
  BY <1>4
<1> HIDE DEF m
<1>6. Val(c) = m
  BY <1>2, <1>3, <1>5, ValBits
<1> QED BY <1>1, <1>2, <1>6 DEF c

\* The one number that has either argument's bits is the union's.
LEMMA ManualOr ==
  ASSUME NEW a \in Word, NEW b \in Word
  PROVE  RV!Bitwise(RV!Or, Val(a), Val(b)) = Val((a \cup b)) /\ (a \cup b) \in Word
<1> DEFINE c == (a \cup b)
           f(p, q) == p + q - p * q
           Is(n) == \A i \in 0 .. XLEN - 1 :
                      Digit(n, i) = f(Digit(Val(a), i), Digit(Val(b), i))
           m == CHOOSE n \in 0 .. Pow2[XLEN] - 1 : Is(n)
<1>1. RV!Bitwise(RV!Or, Val(a), Val(b)) = m
  BY ManualBits, ManualWidth DEF RV!Bitwise, RV!Or
<1>2. c \in Word /\ \A i : i \in c <=> i \in a \/ i \in b
  BY BitsFacts DEF Word
<1> HIDE DEF c
<1>3. \A i \in 0 .. XLEN - 1 :
        f(Digit(Val(a), i), Digit(Val(b), i)) = IF i \in c THEN 1 ELSE 0
  <2> TAKE i \in 0 .. XLEN - 1
  <2>1. /\ Digit(Val(a), i) = IF i \in a THEN 1 ELSE 0
        /\ Digit(Val(b), i) = IF i \in b THEN 1 ELSE 0
    BY DigitOfVal, BitsFacts
  <2>2. /\ f(0, 0) = 0 /\ f(0, 1) = 1 /\ f(1, 0) = 1 /\ f(1, 1) = 1
    OBVIOUS
  <2> HIDE DEF f
  <2> QED BY <1>2, <2>1, <2>2
<1> HIDE DEF f
<1>4. Val(c) \in 0 .. Pow2[XLEN] - 1 /\ Is(Val(c))
  <2>1. \A i \in 0 .. XLEN - 1 : Digit(Val(c), i) = IF i \in c THEN 1 ELSE 0
    BY <1>2, DigitOfVal, BitsFacts
  <2> QED BY <1>2, <1>3, <2>1, ToWordVal
<1>5. m \in 0 .. Pow2[XLEN] - 1 /\ Is(m)
  BY <1>4
<1> HIDE DEF m
<1>6. Val(c) = m
  BY <1>2, <1>3, <1>5, ValBits
<1> QED BY <1>1, <1>2, <1>6 DEF c

\* The one number that has exactly one argument's bits is Xor's.
LEMMA ManualExclusive ==
  ASSUME NEW a \in Word, NEW b \in Word
  PROVE  RV!Bitwise(RV!Exclusive, Val(a), Val(b)) = Val(Xor(a, b)) /\ Xor(a, b) \in Word
<1> DEFINE c == Xor(a, b)
           f(p, q) == (p + q) % 2
           Is(n) == \A i \in 0 .. XLEN - 1 :
                      Digit(n, i) = f(Digit(Val(a), i), Digit(Val(b), i))
           m == CHOOSE n \in 0 .. Pow2[XLEN] - 1 : Is(n)
<1>1. RV!Bitwise(RV!Exclusive, Val(a), Val(b)) = m
  BY ManualBits, ManualWidth DEF RV!Bitwise, RV!Exclusive
<1>2. c \in Word /\ \A i : i \in c <=> ~ (i \in a <=> i \in b)
  BY BitsFacts DEF Word, Xor
<1> HIDE DEF c
<1>3. \A i \in 0 .. XLEN - 1 :
        f(Digit(Val(a), i), Digit(Val(b), i)) = IF i \in c THEN 1 ELSE 0
  <2> TAKE i \in 0 .. XLEN - 1
  <2>1. /\ Digit(Val(a), i) = IF i \in a THEN 1 ELSE 0
        /\ Digit(Val(b), i) = IF i \in b THEN 1 ELSE 0
    BY DigitOfVal, BitsFacts
  <2>2. /\ f(0, 0) = 0 /\ f(0, 1) = 1 /\ f(1, 0) = 1 /\ f(1, 1) = 0
    OBVIOUS
  <2> HIDE DEF f
  <2> QED BY <1>2, <2>1, <2>2
<1> HIDE DEF f
<1>4. Val(c) \in 0 .. Pow2[XLEN] - 1 /\ Is(Val(c))
  <2>1. \A i \in 0 .. XLEN - 1 : Digit(Val(c), i) = IF i \in c THEN 1 ELSE 0
    BY <1>2, DigitOfVal, BitsFacts
  <2> QED BY <1>2, <1>3, <2>1, ToWordVal
<1>5. m \in 0 .. Pow2[XLEN] - 1 /\ Is(m)
  BY <1>4
<1> HIDE DEF m
<1>6. Val(c) = m
  BY <1>2, <1>3, <1>5, ValBits
<1> QED BY <1>1, <1>2, <1>6 DEF c

\* A summand may be wrapped around before the sum is.
LEMMA AddWrapped ==
  ASSUME NEW n \in Int, NEW k \in Int, NEW m \in Nat \ {0}
  PROVE  (n + (k % m)) % m = (n + k) % m
<1> DEFINE q == k \div m  r == k % m
<1>1. q \in Int /\ r \in Int /\ k = m * q + r
  BY DivFacts
<1> HIDE DEF q, r
<1>2. n + k = (n + r) + m * q /\ n + r \in Int
  BY <1>1
<1>3. ((n + r) + m * q) % m = (n + r) % m
  BY <1>1, <1>2, DivAdd
<1>4. (n + k) % m = (n + r) % m
  BY <1>2, <1>3, Zenon
<1> QED BY <1>4 DEF r

\* Adding an immediate, which the executor holds as a word, adds the number.
LEMMA ManualAdd ==
  ASSUME NEW a \in Word, NEW n \in Int
  PROVE  /\ Val(Plus(a, ToWord(n))) = (Val(a) + n) % Pow2[XLEN]
         /\ Plus(a, ToWord(n)) \in Word
<1>1. ToWord(n) \in Word
  BY DEF ToWord, Word
<1>0. Val(ToWord(n)) = n % Pow2[XLEN] /\ Val(a) \in Int /\ Pow2[XLEN] \in Nat \ {0}
  BY ValToWord, ToWordVal, Pow2Facts, BitsFacts
<1>2. Val(Plus(a, ToWord(n))) = (Val(a) + Val(ToWord(n))) % Pow2[XLEN]
  BY <1>1, ValPlus
<1>3. (Val(a) + (n % Pow2[XLEN])) % Pow2[XLEN] = (Val(a) + n) % Pow2[XLEN]
  BY <1>0, AddWrapped
<1>4. Plus(a, ToWord(n)) \in Word
  BY <1>1, WordOps
<1> QED BY <1>0, <1>2, <1>3, <1>4

\* executeRegisterShiftImm's getBits<4, 0> of the sign-extended immediate is the
\* immediate modulo XLEN: the extension copies the top bit above what is read.
LEMMA ManualShamt ==
  ASSUME NEW n \in Int
  PROVE  Shamt(SignExtend(XLEN, kShamtBits, ToWord(n))) = (n % Pow2[XLEN]) % XLEN
<1> DEFINE w == ToWord(n)
           e == SignExtend(XLEN, kShamtBits, w)
           s == GetBits(kShamtBits - 1, 0, e)
<1>0. w \in Word /\ Val(w) = n % Pow2[XLEN]
  BY ValToWord DEF ToWord, Word
<1>1. kShamtBits \in 1 .. XLEN /\ kShamtBits \in 0 .. XLEN /\ kShamtBits \in Nat
      /\ kShamtBits - 1 \in Nat /\ XLEN \in Nat
  BY ExecutorAssumption, BitsFacts
<1>2. e = {i \in Bits : IF i < kShamtBits THEN i \in w ELSE kShamtBits - 1 \in w}
  BY <1>0, <1>1, SignExtendCopiesTheSign
<1> HIDE DEF e, w
<1>3. e \in Word
  BY <1>2 DEF Word
<1>4. s = {i \in Bits : i + 0 <= kShamtBits - 1 /\ i + 0 \in e}
  BY <1>1, <1>3, GetBitsIs
<1>5. s \in Word /\ \A i \in Bits : i \in s <=> i < kShamtBits /\ i \in w
  BY <1>1, <1>2, <1>4, BitsFacts DEF Word
<1> HIDE DEF s
<1>6. Val(s) = Val(w) % Pow2[kShamtBits]
  BY <1>0, <1>1, <1>5, ValLow
<1>7. XLEN = Pow2[kShamtBits]
  BY ExecutorAssumption
<1> QED BY <1>0, <1>6, <1>7 DEF Shamt, e, w, s

----------------------------------------------------------------------------
(* Registers, pc and the state that both machines keep.                     *)

\* The manual's results, instruction by instruction.
LEMMA ManualResults ==
  ASSUME NEW i, NEW a, NEW b
  PROVE  /\ i.op \in {"ADD", "ADDI"} => RV!Result(i, a, b) = a + b
         /\ i.op = "SUB" => RV!Result(i, a, b) = a - b
         /\ i.op = "MUL" => RV!Result(i, a, b) = a * b
         /\ i.op \in {"XOR", "XORI"} => RV!Result(i, a, b) = RV!Bitwise(RV!Exclusive, a, b)
         /\ i.op = "ANDI" => RV!Result(i, a, b) = RV!Bitwise(RV!And, a, b)
         /\ i.op = "ORI" => RV!Result(i, a, b) = RV!Bitwise(RV!Or, a, b)
         /\ i.op = "SLTI" => RV!Result(i, a, b) = IF RV!Signed(a) < RV!Signed(b) THEN 1 ELSE 0
         /\ i.op = "SLTIU" => RV!Result(i, a, b) = IF a < b THEN 1 ELSE 0
         /\ i.op \in {"SLL", "SLLI"} => RV!Result(i, a, b) = a * Pow2[b % XLEN]
         /\ i.op \in {"SRL", "SRLI"} => RV!Result(i, a, b) = a \div Pow2[b % XLEN]
         /\ i.op \in {"SRA", "SRAI"} => RV!Result(i, a, b) = RV!Signed(a) \div Pow2[b % XLEN]
<1> HIDE DEF RV!Bitwise, RV!Signed
<1>1. i.op \in {"ADD", "ADDI"} => RV!Result(i, a, b) = a + b
  BY DEF RV!Result
<1>2. i.op = "SUB" => RV!Result(i, a, b) = a - b
  BY DEF RV!Result
<1>3. i.op = "MUL" => RV!Result(i, a, b) = a * b
  BY DEF RV!Result
<1>4. i.op \in {"XOR", "XORI"} => RV!Result(i, a, b) = RV!Bitwise(RV!Exclusive, a, b)
  BY DEF RV!Result
<1>5. i.op = "ANDI" => RV!Result(i, a, b) = RV!Bitwise(RV!And, a, b)
  BY DEF RV!Result
<1>6. i.op = "ORI" => RV!Result(i, a, b) = RV!Bitwise(RV!Or, a, b)
  BY DEF RV!Result
<1>7. i.op = "SLTI" => RV!Result(i, a, b) = IF RV!Signed(a) < RV!Signed(b) THEN 1 ELSE 0
  BY DEF RV!Result, RV!Truth
<1>8. i.op = "SLTIU" => RV!Result(i, a, b) = IF a < b THEN 1 ELSE 0
  BY DEF RV!Result, RV!Truth
<1>9. i.op \in {"SLL", "SLLI"} => RV!Result(i, a, b) = a * Pow2[b % XLEN]
  BY ManualPowers DEF RV!Result, RV!Amount
<1>10. i.op \in {"SRL", "SRLI"} => RV!Result(i, a, b) = a \div Pow2[b % XLEN]
  BY ManualPowers DEF RV!Result, RV!Amount
<1>11. i.op \in {"SRA", "SRAI"} => RV!Result(i, a, b) = RV!Signed(a) \div Pow2[b % XLEN]
  BY ManualPowers DEF RV!Result, RV!Amount
<1> QED BY <1>1, <1>2, <1>3, <1>4, <1>5, <1>6, <1>7, <1>8, <1>9, <1>10, <1>11

\* The state of the manual's machine that a state of the executor stands for.
Numbers(f) == [k \in DOMAIN f |-> Val(f[k])]
NumberedMemory(m) == [n \in {Val(a) : a \in Aligned} |-> NumberOf(m[ToWord(n)])]

\* RegFile::set writes what the manual writes, x0 included.
LEMMA SetIsWrite ==
  ASSUME TypeOK, NEW r \in 0 .. kRegNum - 1, NEW val \in Word, Set(r, val),
         NEW n, Val(val) = n % Pow2[XLEN]
  PROVE  Numbers(regs') = RV!Write(r, n)
<1>1. RV!Write(r, n) = [Numbers(regs) EXCEPT ![r] = IF r = 0 THEN 0 ELSE n % Pow2[XLEN]]
  BY ManualWidth DEF RV!Write, Numbers
<1>2. DOMAIN regs = 0 .. kRegNum - 1 /\ Val(regs[0]) = 0
  BY ValEmpty DEF TypeOK
<1>3. CASE r = 0
  <2>1. regs' = regs
    BY <1>3 DEF Set
  <2> QED BY <1>1, <1>2, <1>3, <2>1 DEF Numbers
<1>4. CASE r # 0
  <2>1. regs' = [regs EXCEPT ![r] = val]
    BY <1>4 DEF Set
  <2>2. DOMAIN regs' = DOMAIN regs /\ \A k \in DOMAIN regs : regs'[k] = IF k = r THEN val ELSE regs[k]
    BY <2>1
  <2>3. Numbers(regs') = [k \in DOMAIN regs |-> IF k = r THEN n % Pow2[XLEN] ELSE Val(regs[k])]
    BY <2>2 DEF Numbers
  <2> QED BY <1>1, <1>2, <1>4, <2>3 DEF Numbers
<1> QED BY <1>3, <1>4

\* The pc goes on by one instruction in both.
LEMMA NextIsContinue ==
  ASSUME TypeOK, Continue
  PROVE  RV!Continue /\ NextPC \in Word /\ Val(NextPC) = (Val(pc) + kXLENInBytes) % Pow2[XLEN]
<1>1. kXLENInBytes \in Int
  BY ExecutorAssumption, Pow2Facts
<1>2. /\ Val(Plus(pc, ToWord(kXLENInBytes))) = (Val(pc) + kXLENInBytes) % Pow2[XLEN]
      /\ Plus(pc, ToWord(kXLENInBytes)) \in Word
  BY <1>1, ManualAdd DEF TypeOK
<1> QED BY <1>2, ManualWidth DEF Continue, NextPC, Imm, RV!Continue, RV!Jump

\* What the executor leaves alone is left alone in the manual's machine.
LEMMA SameNumbers ==
  /\ UNCHANGED regs => Numbers(regs') = Numbers(regs)
  /\ UNCHANGED csregs => Numbers(csregs') = Numbers(csregs)
  /\ UNCHANGED mem => NumberedMemory(mem') = NumberedMemory(mem)
  OBVIOUS

----------------------------------------------------------------------------
(* The handlers against the manual, group by group.                         *)

\* The handlers that do not do what the manual says.  LUI's and AUIPC's
\* immediate arrives shifted and is shifted again.
DifferentOps == {"DIV", "CSRRC", "BLT", "BLTU", "LUI", "AUIPC", "CSRRWI", "CSRRSI", "CSRRCI"}

\* The fields of a compared instruction, as the handler gets them.
LEMMA DecodedFields ==
  ASSUME NEW i \in Program, i.op \notin DifferentOps
  PROVE  /\ Decoded(i).type = i.op /\ Decoded(i).rd = i.rd /\ Decoded(i).rs2 = i.rs2
         /\ Decoded(i).csr = i.csr /\ Decoded(i).rs1 = i.rs1
         /\ i.op \notin ShiftImmTypes => Decoded(i).imm = ToWord(i.imm)
         /\ i.op \in ShiftImmTypes =>
              Decoded(i).imm = SignExtend(XLEN, kShamtBits, ToWord(i.imm))
         /\ {i.rd, i.rs1, i.rs2} \subseteq 0 .. kRegNum - 1 /\ i.csr \in 0 .. kCSRegNum - 1
         /\ i.imm \in Int
<1>1. i.op \notin CSRImmTypes /\ i.op \notin UpperTypes
  BY DEF DifferentOps, CSRImmTypes, UpperTypes
<1>2. /\ {i.rd, i.rs1, i.rs2} \subseteq 0 .. kRegNum - 1 /\ i.csr \in 0 .. kCSRegNum - 1
      /\ i.imm \in Int
  BY ExecutorAssumption
<1>3. i.op \notin ShiftImmTypes => Decoded(i).imm = ToWord(i.imm)
  BY <1>1 DEF Decoded
<1>4. i.op \in ShiftImmTypes => Decoded(i).imm = SignExtend(XLEN, kShamtBits, ToWord(i.imm))
  BY <1>1 DEF Decoded
<1> QED BY <1>1, <1>2, <1>3, <1>4 DEF Decoded

\* A handler that sets rd to the word of the manual's result is its Compute.
LEMMA ManualCompute ==
  ASSUME TypeOK, NEW i \in Program, i.op \notin DifferentOps, Continue,
         UNCHANGED <<csregs, mem, status>>, NEW val \in Word, Set(i.rd, val),
         \/ /\ i.op \in RV!RegOps
            /\ Val(val) = RV!Result(i, Val(regs[i.rs1]), Val(regs[i.rs2])) % Pow2[XLEN]
         \/ /\ i.op \in RV!ImmOps
            /\ Val(val) = RV!Result(i, Val(regs[i.rs1]), i.imm % Pow2[XLEN]) % Pow2[XLEN]
  PROVE  RV!Compute(i)
<1>1. {i.rd, i.rs1, i.rs2} \subseteq 0 .. kRegNum - 1 /\ DOMAIN regs = 0 .. kRegNum - 1
  BY DecodedFields DEF TypeOK
<1>2. RV!Continue
  BY NextIsContinue
<1>3. Numbers(regs)[i.rs1] = Val(regs[i.rs1]) /\ Numbers(regs)[i.rs2] = Val(regs[i.rs2])
  BY <1>1 DEF Numbers
<1>4. \/ /\ i.op \in RV!RegOps
         /\ Numbers(regs') = RV!Write(i.rd, RV!Result(i, Numbers(regs)[i.rs1], Numbers(regs)[i.rs2]))
      \/ /\ i.op \in RV!ImmOps
         /\ Numbers(regs') = RV!Write(i.rd, RV!Result(i, Numbers(regs)[i.rs1], RV!Wrap(i.imm)))
  BY <1>1, <1>3, SetIsWrite, ManualWidth
<1>5. /\ UNCHANGED Numbers(csregs) /\ UNCHANGED NumberedMemory(mem) /\ UNCHANGED status
  BY SameNumbers
<1> QED BY <1>2, <1>4, <1>5 DEF RV!Compute, Numbers, NumberedMemory

\* executeADD, executeSUB, executeMUL and executeXOR follow the manual.
LEMMA RegisterOps ==
  ASSUME TypeOK, NEW i \in Program, i.op \notin DifferentOps,
         ExecuteRegisterRegisterOp(Decoded(i))
  PROVE  RV!Compute(i)
<1> DEFINE a == regs[i.rs1]  b == regs[i.rs2]
<1>1. a \in Word /\ b \in Word /\ Val(a) \in Int /\ Val(b) \in Int
  BY DecodedFields, ToWordVal DEF TypeOK
<1> HIDE DEF a, b
<1>2. /\ Val(Plus(a, b)) = (Val(a) + Val(b)) % Pow2[XLEN]
      /\ Val(Minus(a, b)) = (Val(a) - Val(b)) % Pow2[XLEN]
      /\ Val(ToWord(Val(a) * Val(b))) = (Val(a) * Val(b)) % Pow2[XLEN]
  <2>1. Val(a) * Val(b) \in Int
    BY <1>1
  <2> QED BY <1>1, <2>1, ValPlus, ValMinus, ValToWord
<1>3. /\ Plus(a, b) \in Word /\ Minus(a, b) \in Word /\ ToWord(Val(a) * Val(b)) \in Word
      /\ Xor(a, b) \in Word
  BY <1>1, WordOps
<1>4. /\ Val(Xor(a, b)) = RV!Bitwise(RV!Exclusive, Val(a), Val(b))
      /\ Val(Xor(a, b)) = Val(Xor(a, b)) % Pow2[XLEN]
  BY <1>1, <1>3, ManualExclusive, ToWordVal, ModSmall, Pow2Facts, BitsFacts
<1>5. /\ Continue /\ UNCHANGED <<csregs, mem, status>>
      /\ \/ i.op = "ADD" /\ Set(i.rd, Plus(a, b))
         \/ i.op = "SUB" /\ Set(i.rd, Minus(a, b))
         \/ i.op = "MUL" /\ Set(i.rd, ToWord(Val(a) * Val(b)))
         \/ i.op = "XOR" /\ Set(i.rd, Xor(a, b))
  BY DecodedFields DEF ExecuteRegisterRegisterOp, a, b, DifferentOps
<1>6. PICK val \in Word : /\ Set(i.rd, val) /\ i.op \in {"ADD", "SUB", "MUL", "XOR"}
                           /\ Val(val) = RV!Result(i, Val(a), Val(b)) % Pow2[XLEN]
  <2>1. CASE i.op = "ADD"
    BY <1>2, <1>3, <1>5, <2>1, ManualResults
  <2>2. CASE i.op = "SUB"
    BY <1>2, <1>3, <1>5, <2>2, ManualResults
  <2>3. CASE i.op = "MUL"
    BY <1>2, <1>3, <1>5, <2>3, ManualResults
  <2>4. CASE i.op = "XOR"
    BY <1>3, <1>4, <1>5, <2>4, ManualResults
  <2> QED BY <1>5, <2>1, <2>2, <2>3, <2>4
<1>7. i.op \in RV!RegOps
  BY <1>6 DEF RV!RegOps
<1> QED BY <1>5, <1>6, <1>7, ManualCompute DEF a, b

\* executeSLL, executeSRL and executeSRA follow it for amounts below XLEN.
LEMMA ShiftOps ==
  ASSUME TypeOK, NEW i \in Program, i.op \notin DifferentOps,
         Val(regs[i.rs2]) < XLEN, ExecuteRegisterShift(Decoded(i))
  PROVE  RV!Compute(i)
<1> DEFINE a == regs[i.rs1]  b == regs[i.rs2]
<1>1. a \in Word /\ b \in Word /\ Val(a) \in Int /\ Val(b) \in Nat /\ XLEN \in Nat \ {0}
  BY DecodedFields, ToWordVal, BitsFacts DEF TypeOK
<1>2. Val(b) % XLEN = Val(b) /\ Amounts(b) = {Val(b)}
  BY <1>1, ModSmall DEF Amounts
<1> HIDE DEF a, b
<1>3. /\ Continue /\ UNCHANGED <<csregs, mem, status>>
      /\ \/ i.op = "SLL" /\ Set(i.rd, ShiftLeft(a, Val(b)))
         \/ i.op = "SRL" /\ Set(i.rd, ShiftRight(a, Val(b)))
         \/ i.op = "SRA" /\ Set(i.rd, ShiftRightSigned(a, Val(b)))
  BY <1>2, DecodedFields DEF ExecuteRegisterShift, a, b
<1>4. /\ Val(ShiftLeft(a, Val(b))) = (Val(a) * Pow2[Val(b)]) % Pow2[XLEN]
      /\ Val(ShiftRight(a, Val(b))) = (Val(a) \div Pow2[Val(b)]) % Pow2[XLEN]
      /\ Val(ShiftRightSigned(a, Val(b))) = (RV!Signed(Val(a)) \div Pow2[Val(b)]) % Pow2[XLEN]
  <2>1. (Val(a) \div Pow2[Val(b)]) % Pow2[XLEN] = Val(a) \div Pow2[Val(b)]
    BY <1>1, ValShiftRight, ModSmall, Pow2Facts, BitsFacts
  <2> QED BY <1>1, <2>1, ValShiftLeft, ValShiftRight, ValShiftRightSigned, ManualSigned
<1>5. /\ ShiftLeft(a, Val(b)) \in Word /\ ShiftRight(a, Val(b)) \in Word
      /\ ShiftRightSigned(a, Val(b)) \in Word
  BY <1>1, WordOps
<1>6. PICK val \in Word : /\ Set(i.rd, val) /\ i.op \in {"SLL", "SRL", "SRA"}
                           /\ Val(val) = RV!Result(i, Val(a), Val(b)) % Pow2[XLEN]
  <2>1. CASE i.op = "SLL"
    BY <1>2, <1>3, <1>4, <1>5, <2>1, ManualResults
  <2>2. CASE i.op = "SRL"
    BY <1>2, <1>3, <1>4, <1>5, <2>2, ManualResults
  <2>3. CASE i.op = "SRA"
    BY <1>2, <1>3, <1>4, <1>5, <2>3, ManualResults
  <2> QED BY <1>3, <2>1, <2>2, <2>3
<1>7. i.op \in RV!RegOps
  BY <1>6 DEF RV!RegOps
<1> QED BY <1>3, <1>6, <1>7, ManualCompute DEF a, b

\* The register-immediate handlers follow it, shifts and comparisons included.
LEMMA ImmediateOps ==
  ASSUME TypeOK, NEW i \in Program, i.op \notin DifferentOps,
         ExecuteRegisterImmediateOp(Decoded(i))
  PROVE  RV!Compute(i)
<1> DEFINE a == regs[i.rs1]  w == ToWord(i.imm)  n == i.imm % Pow2[XLEN]  s == n % XLEN
           mod(v) == v % Pow2[XLEN]
<1>1. a \in Word /\ i.imm \in Int /\ Pow2[XLEN] \in Nat \ {0} /\ XLEN \in Nat \ {0}
  <2>1. a \in Word /\ i.imm \in Int
    BY DecodedFields DEF TypeOK
  <2>2. XLEN \in Nat \ {0}
    BY BitsFacts
  <2> QED BY <2>1, <2>2, Pow2Facts
<1>2. w \in Word /\ Val(w) = n /\ n \in Nat /\ s \in Nat /\ Val(a) \in Int
  <2>1. w \in Word
    BY DEF ToWord, Word
  <2>2. Val(w) = n
    BY <1>1, ValToWord
  <2>3. n \in Nat
    BY <1>1
  <2> HIDE DEF n
  <2>4. s \in Nat
    BY <1>1, <2>3
  <2> QED BY <1>1, <2>1, <2>2, <2>3, <2>4, ToWordVal
<1>3. i.op \in ShiftImmTypes => Shamt(Decoded(i).imm) = s
  BY <1>1, DecodedFields, ManualShamt
<1> HIDE DEF a, w, n, s
<1>4. /\ Continue /\ UNCHANGED <<csregs, mem, status>>
      /\ \/ i.op = "ADDI" /\ Set(i.rd, Plus(a, w))
         \/ i.op = "ANDI" /\ Set(i.rd, (a \cap w))
         \/ i.op = "ORI" /\ Set(i.rd, (a \cup w))
         \/ i.op = "XORI" /\ Set(i.rd, Xor(a, w))
         \/ i.op = "SLTI" /\ Set(i.rd, Truth(LessSigned(a, w)))
         \/ i.op = "SLTIU" /\ Set(i.rd, Truth(Less(a, w)))
         \/ i.op = "SLLI" /\ Set(i.rd, ShiftLeft(a, s))
         \/ i.op = "SRLI" /\ Set(i.rd, ShiftRight(a, s))
         \/ i.op = "SRAI" /\ Set(i.rd, ShiftRightSigned(a, s))
  <2> HIDE DEF Continue, Set
  <2>1. CASE i.op \in ShiftImmTypes
    BY <1>3, <2>1, DecodedFields DEF ExecuteRegisterImmediateOp, a, ShiftImmTypes
  <2>2. CASE i.op \notin ShiftImmTypes
    <3>1. Decoded(i).imm = w /\ Decoded(i).type = i.op /\ Decoded(i).rd = i.rd
          /\ Decoded(i).rs1 = i.rs1 /\ i.op \notin {"SLLI", "SRLI", "SRAI"}
      BY <2>2, DecodedFields DEF w, ShiftImmTypes
    <3> QED BY <3>1 DEF ExecuteRegisterImmediateOp, a
  <2> QED BY <2>1, <2>2
<1>5. /\ Plus(a, w) \in Word /\ (a \cap w) \in Word /\ (a \cup w) \in Word /\ Xor(a, w) \in Word
      /\ \A p : Truth(p) \in Word
      /\ ShiftLeft(a, s) \in Word /\ ShiftRight(a, s) \in Word /\ ShiftRightSigned(a, s) \in Word
  BY <1>1, <1>2, Results
<1>6. \A v \in Word : Val(v) % Pow2[XLEN] = Val(v)
  BY ToWordVal, ModSmall, Pow2Facts, BitsFacts
<1>7. \A p : Val(Truth(p)) = mod(IF p THEN 1 ELSE 0)
  <2>1. \A p : Val(Truth(p)) = IF p THEN 1 ELSE 0
    BY ValOne DEF Truth, Imm
  <2> QED BY <1>5, <1>6, <2>1
<1>8. /\ Val(Plus(a, w)) = mod(Val(a) + n)
      /\ Val(a \cap w) = mod(RV!Bitwise(RV!And, Val(a), n))
      /\ Val(a \cup w) = mod(RV!Bitwise(RV!Or, Val(a), n))
      /\ Val(Xor(a, w)) = mod(RV!Bitwise(RV!Exclusive, Val(a), n))
  <2>1. Val(Plus(a, w)) = (Val(a) + Val(w)) % Pow2[XLEN]
    BY <1>1, <1>2, ValPlus
  <2>2. /\ RV!Bitwise(RV!And, Val(a), n) = Val(a \cap w)
        /\ RV!Bitwise(RV!Or, Val(a), n) = Val(a \cup w)
        /\ RV!Bitwise(RV!Exclusive, Val(a), n) = Val(Xor(a, w))
    BY <1>1, <1>2, ManualAnd, ManualOr, ManualExclusive
  <2> QED BY <1>2, <1>5, <1>6, <2>1, <2>2
<1>9. /\ Val(Truth(LessSigned(a, w))) = mod(IF RV!Signed(Val(a)) < RV!Signed(n) THEN 1 ELSE 0)
      /\ Val(Truth(Less(a, w))) = mod(IF Val(a) < n THEN 1 ELSE 0)
  <2>1. LessSigned(a, w) <=> RV!Signed(Val(a)) < RV!Signed(n)
    BY <1>1, <1>2, LessSignedIs, ManualSigned
  <2>2. Less(a, w) <=> Val(a) < n
    BY <1>1, <1>2, LessIs
  <2> HIDE DEF mod
  <2> QED BY <1>7, <2>1, <2>2
<1>10. /\ Val(ShiftLeft(a, s)) = mod(Val(a) * Pow2[s])
       /\ Val(ShiftRight(a, s)) = mod(Val(a) \div Pow2[s])
       /\ Val(ShiftRightSigned(a, s)) = mod(RV!Signed(Val(a)) \div Pow2[s])
  <2>1. Val(ShiftRight(a, s)) = Val(a) \div Pow2[s]
    BY <1>1, <1>2, ValShiftRight
  <2>2. Val(ShiftRight(a, s)) % Pow2[XLEN] = Val(ShiftRight(a, s))
    BY <1>5, <1>6
  <2> QED BY <1>1, <1>2, <2>1, <2>2, ValShiftLeft, ValShiftRightSigned, ManualSigned
<1>11. PICK val \in Word : Set(i.rd, val) /\ Val(val) = mod(RV!Result(i, Val(a), n))
  <2> HIDE DEF mod
  <2>1. CASE i.op = "ADDI"
    BY <1>4, <1>5, <1>8, <2>1, ManualResults
  <2>2. CASE i.op = "ANDI"
    BY <1>4, <1>5, <1>8, <2>2, ManualResults
  <2>3. CASE i.op = "ORI"
    BY <1>4, <1>5, <1>8, <2>3, ManualResults
  <2>4. CASE i.op = "XORI"
    BY <1>4, <1>5, <1>8, <2>4, ManualResults
  <2>5. CASE i.op = "SLTI"
    BY <1>4, <1>5, <1>9, <2>5, ManualResults
  <2>6. CASE i.op = "SLTIU"
    BY <1>4, <1>5, <1>9, <2>6, ManualResults
  <2>7. CASE i.op = "SLLI"
    BY <1>4, <1>5, <1>10, <2>7, ManualResults DEF s
  <2>8. CASE i.op = "SRLI"
    BY <1>4, <1>5, <1>10, <2>8, ManualResults DEF s
  <2>9. CASE i.op = "SRAI"
    BY <1>4, <1>5, <1>10, <2>9, ManualResults DEF s
  <2> QED BY <1>4, <2>1, <2>2, <2>3, <2>4, <2>5, <2>6, <2>7, <2>8, <2>9
<1>12. i.op \in RV!ImmOps
  BY <1>4 DEF RV!ImmOps
<1> QED BY <1>4, <1>11, <1>12, ManualCompute DEF a, n

\* executeBEQ, executeBNE, executeBGE and executeBGEU follow it.
LEMMA Branches ==
  ASSUME TypeOK, NEW i \in Program, i.op \notin DifferentOps,
         ExecuteCondBranch(Decoded(i))
  PROVE  RV!Branch(i)
<1> DEFINE a == regs[i.rs1]  b == regs[i.rs2]
<1>1. a \in Word /\ b \in Word /\ i.imm \in Int /\ pc \in Word
      /\ Numbers(regs)[i.rs1] = Val(a) /\ Numbers(regs)[i.rs2] = Val(b)
  BY DecodedFields DEF TypeOK, Numbers
<1>2. i.op \in {"BEQ", "BNE", "BGE", "BGEU"} /\ i.op \notin ShiftImmTypes
  BY DecodedFields DEF ExecuteCondBranch, BranchTypes, DifferentOps, ShiftImmTypes
<1>3. Taken(Decoded(i)) <=> RV!Takes(i, Val(a), Val(b))
  <2> HIDE DEF a, b
  <2>0. Taken(Decoded(i)) <=> \/ i.op = "BEQ"  /\ a = b
                              \/ i.op = "BNE"  /\ a # b
                              \/ i.op = "BGEU" /\ ~Less(a, b)
                              \/ i.op = "BGE"  /\ ~LessSigned(a, b)
    BY <1>2, DecodedFields DEF Taken, a, b
  <2>1. CASE i.op = "BEQ"
    <3>1. RV!Takes(i, Val(a), Val(b)) <=> Val(a) = Val(b)
      BY <2>1 DEF RV!Takes
    <3> QED BY <1>1, <2>0, <2>1, <3>1, ValInjective
  <2>2. CASE i.op = "BNE"
    <3>1. RV!Takes(i, Val(a), Val(b)) <=> Val(a) # Val(b)
      BY <2>2 DEF RV!Takes
    <3> QED BY <1>1, <2>0, <2>2, <3>1, ValInjective
  <2>3. CASE i.op = "BGEU"
    <3>1. RV!Takes(i, Val(a), Val(b)) <=> Val(a) >= Val(b)
      BY <2>3 DEF RV!Takes
    <3> QED BY <1>1, <2>0, <2>3, <3>1, LessIs, ToWordVal
  <2>4. CASE i.op = "BGE"
    <3>1. RV!Takes(i, Val(a), Val(b)) <=> RV!Signed(Val(a)) >= RV!Signed(Val(b))
      BY <2>4 DEF RV!Takes
    <3>2. SignedVal(a) \in Int /\ SignedVal(b) \in Int
      BY <1>1, SignedRange
    <3> QED BY <1>1, <2>0, <2>4, <3>1, <3>2, LessSignedIs, ManualSigned
  <2> QED BY <1>2, <2>1, <2>2, <2>3, <2>4
<1>4. Val(Plus(pc, ToWord(i.imm))) = (Val(pc) + i.imm) % Pow2[XLEN]
  BY <1>1, ManualAdd
<1>5. /\ pc' = IF Taken(Decoded(i)) THEN Plus(pc, ToWord(i.imm)) ELSE NextPC
      /\ UNCHANGED <<regs, csregs, mem, status>>
  BY <1>2, DecodedFields DEF ExecuteCondBranch
<1>6. IF RV!Takes(i, Numbers(regs)[i.rs1], Numbers(regs)[i.rs2])
        THEN RV!Jump(Val(pc) + i.imm) ELSE RV!Continue
  <2>1. CASE Taken(Decoded(i))
    BY <1>1, <1>3, <1>4, <1>5, <2>1, ManualWidth DEF RV!Jump
  <2>2. CASE ~ Taken(Decoded(i))
    BY <1>1, <1>3, <1>5, <2>2, NextIsContinue DEF Continue
  <2> QED BY <2>1, <2>2
<1>7. /\ UNCHANGED Numbers(regs) /\ UNCHANGED Numbers(csregs)
      /\ UNCHANGED NumberedMemory(mem) /\ UNCHANGED status
  BY <1>5, SameNumbers
<1>8. i.op \in RV!Branches
  BY <1>2 DEF RV!Branches
<1> QED BY <1>6, <1>7, <1>8 DEF RV!Branch, Numbers, NumberedMemory

\* JAL and JALR link to the following instruction.
LEMMA LinkIsWrite ==
  ASSUME TypeOK, NEW r \in 0 .. kRegNum - 1, Set(r, NextPC)
  PROVE  Numbers(regs') = RV!Write(r, Val(pc) + kXLENInBytes)
<1>1. kXLENInBytes \in Int
  BY ExecutorAssumption, Pow2Facts
<1>2. /\ Val(Plus(pc, ToWord(kXLENInBytes))) = (Val(pc) + kXLENInBytes) % Pow2[XLEN]
      /\ Plus(pc, ToWord(kXLENInBytes)) \in Word
  BY <1>1, ManualAdd DEF TypeOK
<1> QED BY <1>2, SetIsWrite DEF NextPC, Imm

\* executeJAL and executeJALR follow it, also when rd is the base register: the
\* target is computed from the old value.
LEMMA Jumps ==
  ASSUME TypeOK, NEW i \in Program, i.op \notin DifferentOps,
         ExecuteJAL(Decoded(i)) \/ ExecuteJALR(Decoded(i))
  PROVE  RV!JumpAndLink(i)
<1> DEFINE t == Plus(regs[i.rs1], ToWord(i.imm))
<1>1. regs[i.rs1] \in Word /\ i.imm \in Int /\ pc \in Word /\ i.rd \in 0 .. kRegNum - 1
      /\ Numbers(regs)[i.rs1] = Val(regs[i.rs1])
  BY DecodedFields DEF TypeOK, Numbers
<1>2. i.op \in {"JAL", "JALR"} /\ Decoded(i).imm = ToWord(i.imm)
  <2>1. i.op \in {"JAL", "JALR"} /\ i.op \notin ShiftImmTypes
    BY DecodedFields DEF ExecuteJAL, ExecuteJALR, ShiftImmTypes
  <2> QED BY <2>1, DecodedFields
<1>3. /\ Set(i.rd, NextPC) /\ UNCHANGED <<csregs, mem, status>>
      /\ \/ i.op = "JAL" /\ pc' = Plus(pc, ToWord(i.imm))
         \/ i.op = "JALR" /\ pc' = ClearBit(0, t)
  BY <1>2, DecodedFields DEF ExecuteJAL, ExecuteJALR
<1>4. ASSUME i.op = "JAL", pc' = Plus(pc, ToWord(i.imm)) PROVE RV!Jump(Val(pc) + i.imm)
  BY <1>1, <1>4, ManualAdd, ManualWidth DEF RV!Jump
<1>5. ASSUME i.op = "JALR", pc' = ClearBit(0, t)
      PROVE  LET target == RV!Wrap(Numbers(regs)[i.rs1] + i.imm)
             IN  RV!Jump(target - (target % 2))
  <2>1. t \in Word /\ Val(t) = RV!Wrap(Numbers(regs)[i.rs1] + i.imm)
    BY <1>1, ManualAdd, ManualWidth
  <2> HIDE DEF t
  <2>2. Val(ClearBit(0, t)) = Val(t) - (Val(t) % 2) /\ ClearBit(0, t) \in Word
    BY <2>1, ValClearLowest DEF ClearBit, Word
  <2>3. Val(ClearBit(0, t)) % Pow2[XLEN] = Val(ClearBit(0, t))
    BY <2>2, ToWordVal, ModSmall, Pow2Facts, BitsFacts
  <2>4. Val(pc') = RV!Wrap(Val(t) - (Val(t) % 2))
    BY <1>5, <2>2, <2>3, ManualWidth
  <2>5. RV!Jump(Val(t) - (Val(t) % 2))
    BY <2>4 DEF RV!Jump
  <2> QED BY <2>1, <2>5
<1>6. Numbers(regs') = RV!Write(i.rd, Val(pc) + kXLENInBytes)
  BY <1>1, <1>3, LinkIsWrite
<1>7. UNCHANGED Numbers(csregs) /\ UNCHANGED NumberedMemory(mem) /\ UNCHANGED status
  BY <1>3, SameNumbers
<1> QED BY <1>3, <1>4, <1>5, <1>6, <1>7 DEF RV!JumpAndLink, Numbers, NumberedMemory

\* The address of an access and its alignment are the manual's.
LEMMA TargetIs ==
  ASSUME TypeOK, NEW i \in Program, i.op \in {"LW", "SW"}
  PROVE  /\ Target(Decoded(i)) \in Word /\ Val(Target(Decoded(i))) = RV!Target(i)
         /\ Misaligned(Target(Decoded(i))) <=> RV!Target(i) % kXLENInBytes # 0
         /\ ~ Misaligned(Target(Decoded(i))) => Target(Decoded(i)) \in Aligned
<1> DEFINE t == Target(Decoded(i))
<1>1. i.op \notin DifferentOps /\ i.op \notin ShiftImmTypes
  BY DEF DifferentOps, ShiftImmTypes
<1>2. regs[i.rs1] \in Word /\ i.imm \in Int /\ Numbers(regs)[i.rs1] = Val(regs[i.rs1])
      /\ t = Plus(regs[i.rs1], ToWord(i.imm))
  BY <1>1, DecodedFields DEF TypeOK, Numbers, Target
<1>3. t \in Word /\ Val(t) = RV!Target(i)
  BY <1>2, ManualAdd, ManualWidth DEF RV!Target, Numbers
<1> HIDE DEF t
<1>4. WordBits \in 0 .. XLEN /\ kXLENInBytes = Pow2[WordBits]
  BY ExecutorAssumption, BitsFacts
<1>5. Misaligned(t) <=> Val(t) % Pow2[WordBits] # 0
  BY <1>3, <1>4, LowBitsClear DEF Misaligned
<1> QED BY <1>3, <1>4, <1>5 DEF t, Aligned, Misaligned

\* The memory of numbers holds at an address what the memory of words holds.
LEMMA MemoryAt ==
  ASSUME TypeOK, NEW a \in Aligned
  PROVE  /\ Val(a) \in DOMAIN NumberedMemory(mem) /\ ToWord(Val(a)) = a
         /\ NumberedMemory(mem)[Val(a)] = NumberOf(mem[a])
         /\ mem[a] = Absent <=> NumberOf(mem[a]) = Absent
         /\ mem[a] # Absent => mem[a] \in Word /\ NumberOf(mem[a]) = Val(mem[a])
<1>1. a \in Word /\ ToWord(Val(a)) = a
  BY ToWordVal DEF Aligned
<1>2. Absent \notin Nat
  BY ExecutorAssumption
<1>3. mem[a] = Absent \/ mem[a] \in Word
  BY DEF TypeOK
<1>4. mem[a] \in Word => Val(mem[a]) \in Nat
  BY ToWordVal
<1> QED BY <1>1, <1>2, <1>3, <1>4 DEF NumberedMemory, NumberOf

\* An access faults in the manual's machine when the handler throws.
LEMMA FaultsAre ==
  ASSUME TypeOK, NEW i \in Program, i.op \in {"LW", "SW"}
  PROVE  RV!Faults(i) <=> \/ Misaligned(Target(Decoded(i)))
                          \/ i.op = "LW" /\ ~ Mapped(Target(Decoded(i)))
<1> DEFINE t == Target(Decoded(i))
<1>1. t \in Word /\ Val(t) = RV!Target(i) /\ (Misaligned(t) <=> RV!Target(i) % kXLENInBytes # 0)
      /\ (~ Misaligned(t) => t \in Aligned)
  BY TargetIs
<1> HIDE DEF t
<1>2. ~ Misaligned(t) => (Mapped(t) <=> NumberedMemory(mem)[RV!Target(i)] # Absent)
  BY <1>1, MemoryAt DEF Mapped
<1> QED BY <1>1, <1>2 DEF RV!Faults, NumberedMemory, t

\* executeLW follows the manual.
LEMMA Loads ==
  ASSUME TypeOK, NEW i \in Program, i.op \notin DifferentOps, ExecuteLW(Decoded(i))
  PROVE  RV!Load(i)
<1> DEFINE t == Target(Decoded(i))
<1>1. i.op = "LW" /\ ~ Misaligned(t) /\ Mapped(t) /\ Set(i.rd, mem[t]) /\ Continue
      /\ UNCHANGED <<csregs, mem, status>> /\ i.rd \in 0 .. kRegNum - 1
  BY DecodedFields DEF ExecuteLW
<1>2. t \in Aligned /\ Val(t) = RV!Target(i) /\ ~ RV!Faults(i)
  BY <1>1, TargetIs, FaultsAre
<1> HIDE DEF t
<1>3. mem[t] \in Word /\ NumberedMemory(mem)[RV!Target(i)] = Val(mem[t])
  BY <1>1, <1>2, MemoryAt DEF Mapped
<1>4. Val(mem[t]) = Val(mem[t]) % Pow2[XLEN]
  BY <1>3, ToWordVal, ModSmall, Pow2Facts, BitsFacts
<1>5. Numbers(regs') = RV!Write(i.rd, NumberedMemory(mem)[RV!Target(i)])
  BY <1>1, <1>3, <1>4, SetIsWrite
<1>6. UNCHANGED Numbers(csregs) /\ UNCHANGED NumberedMemory(mem) /\ UNCHANGED status
  BY <1>1, SameNumbers
<1>7. RV!Continue
  BY <1>1, NextIsContinue
<1> QED BY <1>1, <1>2, <1>5, <1>6, <1>7 DEF RV!Load, Numbers, NumberedMemory

\* Two addresses are in one page in both machines or in neither.
LEMMA PagesAre ==
  ASSUME NEW a \in Word, NEW b \in Word
  PROVE  /\ kXLENInBytes * RV!Pow2[PageBits - WordBits] = Pow2[PageBits]
         /\ PageOf(a) = PageOf(b) <=> Val(a) \div Pow2[PageBits] = Val(b) \div Pow2[PageBits]
<1>1. PageBits \in Nat /\ WordBits \in Nat /\ WordBits <= PageBits /\ kXLENInBytes = Pow2[WordBits]
  BY ExecutorAssumption, BitsFacts
<1>2. Pow2[PageBits] = Pow2[WordBits] * Pow2[PageBits - WordBits]
  BY <1>1, Pow2Split
<1> QED BY <1>1, <1>2, HighBitsSame, ManualPowers DEF PageOf

\* storeEntity changes the memory of numbers as a store of the manual's does.
LEMMA StoredIs ==
  ASSUME TypeOK, NEW t \in Aligned, NEW w \in Word, mem' = Stored(t, w)
  PROVE  NumberedMemory(mem') =
           [n \in DOMAIN NumberedMemory(mem) |->
              IF n = Val(t) THEN Val(w)
              ELSE IF n \in RV!Page(Val(t)) /\ NumberedMemory(mem)[n] = Absent THEN 0
              ELSE NumberedMemory(mem)[n]]
<1> DEFINE D == {Val(a) : a \in Aligned}
           N(n) == IF n = Val(t) THEN Val(w)
                   ELSE IF n \in RV!Page(Val(t)) /\ NumberedMemory(mem)[n] = Absent THEN 0
                   ELSE NumberedMemory(mem)[n]
<1>1. DOMAIN NumberedMemory(mem) = D
  BY DEF NumberedMemory
<1>2. ASSUME NEW n \in D PROVE NumberOf(mem'[ToWord(n)]) = N(n)
  <2>1. PICK a \in Aligned : n = Val(a)
    OBVIOUS
  <2>2. a \in Word /\ t \in Word /\ ToWord(n) = a
    BY <2>1, ToWordVal DEF Aligned
  <2>3. mem'[a] = IF a = t THEN w
                  ELSE IF PageOf(a) = PageOf(t) /\ mem[a] = Absent THEN {} ELSE mem[a]
    BY DEF Stored, TypeOK
  <2>4. n = Val(t) <=> a = t
    BY <2>1, <2>2, ValInjective
  <2>5. n \in RV!Page(Val(t)) <=> PageOf(a) = PageOf(t)
    <3>1. RV!Page(Val(t)) = {b \in D : b \div (kXLENInBytes * RV!Pow2[PageBits - WordBits])
                                      = Val(t) \div (kXLENInBytes * RV!Pow2[PageBits - WordBits])}
      BY ManualPowers DEF RV!Page
    <3>2. RV!Page(Val(t)) = {b \in D : b \div Pow2[PageBits] = Val(t) \div Pow2[PageBits]}
      BY <2>2, <3>1, PagesAre
    <3> QED BY <2>1, <2>2, <3>2, PagesAre
  <2>6. NumberedMemory(mem)[n] = NumberOf(mem[a]) /\ (mem[a] = Absent <=> NumberOf(mem[a]) = Absent)
    BY <2>1, MemoryAt
  <2>7. NumberOf(w) = Val(w) /\ NumberOf({}) = 0
    BY ExecutorAssumption, ValEmpty DEF NumberOf
  <2> HIDE DEF NumberOf
  <2> QED BY <2>2, <2>3, <2>4, <2>5, <2>6, <2>7
<1> HIDE DEF N, D
<1>3. NumberedMemory(mem') = [n \in D |-> NumberOf(mem'[ToWord(n)])]
  BY DEF NumberedMemory, D
<1>4. NumberedMemory(mem') = [n \in D |-> N(n)]
  BY <1>2, <1>3
<1> QED BY <1>1, <1>4 DEF N

\* executeSW follows the manual.
LEMMA Stores ==
  ASSUME TypeOK, NEW i \in Program, i.op \notin DifferentOps, ExecuteSW(Decoded(i))
  PROVE  RV!Store(i)
<1> DEFINE t == Target(Decoded(i))
<1>1. i.op = "SW" /\ ~ Misaligned(t) /\ mem' = Stored(t, regs[i.rs2]) /\ Continue
      /\ UNCHANGED <<regs, csregs, status>> /\ regs[i.rs2] \in Word
      /\ Numbers(regs)[i.rs2] = Val(regs[i.rs2])
  BY DecodedFields DEF ExecuteSW, TypeOK, Numbers
<1>2. t \in Aligned /\ Val(t) = RV!Target(i) /\ ~ RV!Faults(i)
  BY <1>1, TargetIs, FaultsAre
<1> HIDE DEF t
<1>3. NumberedMemory(mem') =
        [n \in DOMAIN NumberedMemory(mem) |->
           IF n = RV!Target(i) THEN Numbers(regs)[i.rs2]
           ELSE IF n \in RV!Page(RV!Target(i)) /\ NumberedMemory(mem)[n] = Absent THEN 0
           ELSE NumberedMemory(mem)[n]]
  BY <1>1, <1>2, StoredIs
<1>4. UNCHANGED Numbers(regs) /\ UNCHANGED Numbers(csregs) /\ UNCHANGED status
  BY <1>1, SameNumbers
<1>5. RV!Continue
  BY <1>1, NextIsContinue
<1> QED BY <1>1, <1>2, <1>3, <1>4, <1>5 DEF RV!Store, Numbers, NumberedMemory

\* executeCSRRW and executeCSRRS follow it: old value out, new value in.
LEMMA Exchanges ==
  ASSUME TypeOK, NEW i \in Program, i.op \notin DifferentOps, ExecuteCSR(Decoded(i))
  PROVE  RV!AccessCSR(i)
<1> DEFINE a == regs[i.rs1]  c == csregs[i.csr]
           new == IF i.op = "CSRRW" THEN a ELSE (c \cup a)
<1>1. /\ a \in Word /\ c \in Word /\ i.rd \in 0 .. kRegNum - 1 /\ i.csr \in 0 .. kCSRegNum - 1
      /\ Numbers(regs)[i.rs1] = Val(a) /\ Numbers(csregs)[i.csr] = Val(c)
      /\ DOMAIN csregs = 0 .. kCSRegNum - 1
  BY DecodedFields DEF TypeOK, Numbers
<1>2. i.op \in {"CSRRW", "CSRRS"}
  BY DecodedFields DEF ExecuteCSR, DifferentOps
<1>3. /\ csregs' = [csregs EXCEPT ![i.csr] = new] /\ Set(i.rd, c) /\ Continue
      /\ UNCHANGED <<mem, status>>
  <2>1. (CASE i.op = "CSRRW" -> a
           [] i.op = "CSRRS" -> a \cup c
           [] i.op = "CSRRC" -> a \cap Not(c)) = new
    BY <1>2
  <2> HIDE DEF new
  <2> QED BY <2>1, DecodedFields DEF ExecuteCSR
<1> DEFINE newNumber == CASE i.op \in {"CSRRW", "CSRRWI"} -> Val(a)
                     [] i.op \in {"CSRRS", "CSRRSI"} -> RV!Bitwise(RV!Or, Val(c), Val(a))
                     [] i.op \in {"CSRRC", "CSRRCI"} -> RV!Bitwise(RV!AndNot, Val(c), Val(a))
<1>4. newNumber = Val(new)
  <2> HIDE DEF a, c
  <2>1. CASE i.op = "CSRRW"
    BY <2>1
  <2>2. CASE i.op = "CSRRS"
    <3>1. newNumber = RV!Bitwise(RV!Or, Val(c), Val(a))
      BY <2>2
    <3>2. new = (c \cup a)
      BY <2>2
    <3> HIDE DEF new, newNumber
    <3> QED BY <1>1, <3>1, <3>2, ManualOr
  <2> QED BY <1>2, <2>1, <2>2
<1>5. Numbers(csregs') = [Numbers(csregs) EXCEPT ![i.csr] = newNumber]
  <2> HIDE DEF new, newNumber
  <2> QED BY <1>1, <1>3, <1>4 DEF Numbers
<1>6. Val(c) % Pow2[XLEN] = Val(c)
  BY <1>1, ToWordVal, ModSmall, Pow2Facts, BitsFacts
<1>7. Numbers(regs') = RV!Write(i.rd, Numbers(csregs)[i.csr])
  <2> HIDE DEF c
  <2> QED BY <1>1, <1>3, <1>6, SetIsWrite
<1>8. UNCHANGED NumberedMemory(mem) /\ UNCHANGED status
  BY <1>3, SameNumbers
<1>9. RV!Continue
  BY <1>3, NextIsContinue
<1>10. i.op \in RV!CSROps
  BY <1>2 DEF RV!CSROps
<1>11. LET source == IF i.op \in RV!CSROps THEN Numbers(regs)[i.rs1] ELSE i.imm
           old    == Numbers(csregs)[i.csr]
           later  == CASE i.op \in {"CSRRW", "CSRRWI"} -> source
                       [] i.op \in {"CSRRS", "CSRRSI"} -> RV!Bitwise(RV!Or, old, source)
                       [] i.op \in {"CSRRC", "CSRRCI"} -> RV!Bitwise(RV!AndNot, old, source)
       IN  /\ Numbers(regs') = RV!Write(i.rd, old)
           /\ Numbers(csregs') = [Numbers(csregs) EXCEPT ![i.csr] = later]
  <2>1. Numbers(regs)[i.rs1] = Val(a) /\ Numbers(csregs)[i.csr] = Val(c)
    BY <1>1
  <2> QED BY <1>5, <1>7, <1>10, <2>1
<1> QED BY <1>8, <1>9, <1>10, <1>11 DEF RV!AccessCSR, Numbers, NumberedMemory

----------------------------------------------------------------------------
(* The refinement.                                                          *)

\* executeECALL completes the run, and a handler throws where the manual traps.
LEMMA CallsAndTraps ==
  ASSUME TypeOK, NEW i \in Program, i.op \notin DifferentOps,
         ExecuteECALL(Decoded(i)) \/ Throws(Decoded(i))
  PROVE  RV!EnvironmentCall(i) \/ RV!Trap(i)
<1>1. CASE ExecuteECALL(Decoded(i))
  <2>1. i.op = "ECALL" /\ status' = "complete" /\ Continue /\ UNCHANGED <<regs, csregs, mem>>
    BY <1>1, DecodedFields DEF ExecuteECALL
  <2> QED BY <2>1, NextIsContinue, SameNumbers
          DEF RV!EnvironmentCall, Numbers, NumberedMemory
<1>2. CASE Throws(Decoded(i))
  <2>1. status' = "threw" /\ UNCHANGED <<regs, csregs, mem, pc>>
    BY <1>2 DEF Throws
  <2> DEFINE t == Target(Decoded(i))
  <2>2. \/ i.op \in {"LW", "SW"} /\ RV!Faults(i)
        \/ i.op = "SW" /\ ~ RV!Faults(i) /\ NumberedMemory(mem)[RV!Target(i)] = Absent
        \/ i.op = "NOT_IMPLEMENTED"
    <3>1. \/ i.op = "NOT_IMPLEMENTED"
          \/ i.op \in {"LW", "SW"} /\ Misaligned(t)
          \/ i.op \in {"LW", "SW"} /\ ~ Misaligned(t) /\ ~ Mapped(t)
      BY <1>2, DecodedFields
        DEF Throws, NotImplemented, DividesByZero, AccessThrows, DifferentOps
    <3> HIDE DEF t
    <3>2. CASE i.op = "NOT_IMPLEMENTED"
      BY <3>2
    <3>3. CASE i.op \in {"LW", "SW"} /\ Misaligned(t)
      BY <3>3, FaultsAre DEF t
    <3>4. CASE i.op = "LW" /\ ~ Mapped(t)
      BY <3>4, FaultsAre DEF t
    <3>5. CASE i.op = "SW" /\ ~ Misaligned(t) /\ ~ Mapped(t)
      <4>1. ~ RV!Faults(i)
        BY <3>5, FaultsAre DEF t
      <4>2. t \in Aligned /\ Val(t) = RV!Target(i)
        BY <3>5, TargetIs DEF t
      <4>3. NumberedMemory(mem)[Val(t)] = Absent
        BY <3>5, <4>2, MemoryAt DEF Mapped
      <4> QED BY <3>5, <4>1, <4>2, <4>3
    <3> QED BY <3>1, <3>2, <3>3, <3>4, <3>5
  <2>3. UNCHANGED Numbers(regs) /\ UNCHANGED Numbers(csregs) /\ UNCHANGED NumberedMemory(mem)
    BY <2>1, SameNumbers
  <2> QED BY <2>1, <2>2, <2>3 DEF RV!Trap, Numbers, NumberedMemory
<1> QED BY <1>1, <1>2

\* What the comparison leaves out: the handlers that differ, and a shift by a
\* register that holds XLEN or more.
Compared == \A i \in Program \ Deviating : i.op \notin DifferentOps
AmountsInRange ==
  inst \in Program \ Deviating /\ inst.op \in {"SLL", "SRL", "SRA"} => Val(regs[inst.rs2]) < XLEN

\* One step of the executor is one step of the manual's machine.
LEMMA HandlersFollowTheManual ==
  ASSUME TypeOK, NEW i \in Program, i.op \notin DifferentOps,
         i.op \in {"SLL", "SRL", "SRA"} => Val(regs[i.rs2]) < XLEN,
         Execute(Decoded(i))
  PROVE  RV!Step(i)
<1>1. CASE ExecuteRegisterRegisterOp(Decoded(i))
  BY <1>1, RegisterOps DEF RV!Step
<1>2. CASE ExecuteRegisterShift(Decoded(i))
  <2>1. i.op \in {"SLL", "SRL", "SRA"}
    BY <1>2, DecodedFields DEF ExecuteRegisterShift
  <2> QED BY <1>2, <2>1, ShiftOps DEF RV!Step
<1>3. CASE ExecuteRegisterImmediateOp(Decoded(i))
  BY <1>3, ImmediateOps DEF RV!Step
<1>4. CASE ExecuteUpper(Decoded(i))
  BY <1>4, DecodedFields DEF ExecuteUpper, DifferentOps
<1>5. CASE ExecuteCondBranch(Decoded(i))
  BY <1>5, Branches DEF RV!Step
<1>6. CASE ExecuteJAL(Decoded(i)) \/ ExecuteJALR(Decoded(i))
  BY <1>6, Jumps DEF RV!Step
<1>7. CASE ExecuteLW(Decoded(i))
  BY <1>7, Loads DEF RV!Step
<1>8. CASE ExecuteSW(Decoded(i))
  BY <1>8, Stores DEF RV!Step
<1>9. CASE ExecuteCSR(Decoded(i))
  BY <1>9, Exchanges DEF RV!Step
<1>10. CASE ExecuteCSRImm(Decoded(i))
  BY <1>10, DecodedFields DEF ExecuteCSRImm, CSRImmTypes, DifferentOps
<1>11. CASE ExecuteECALL(Decoded(i)) \/ Throws(Decoded(i))
  BY <1>11, CallsAndTraps DEF RV!Step
<1> QED BY <1>1, <1>2, <1>3, <1>4, <1>5, <1>6, <1>7, <1>8, <1>9, <1>10, <1>11 DEF Execute

\* Both start with all registers zero.
LEMMA StartsAsTheManual == ASSUME Init PROVE RV!Init
<1>1. /\ regs = [r \in 0 .. kRegNum - 1 |-> {}] /\ csregs = [c \in 0 .. kCSRegNum - 1 |-> {}]
      /\ status = "running" /\ inst = NoInst
  BY DEF Init
<1> QED BY <1>1, ValEmpty DEF RV!Init

\* The executor implements the RISC-V manual's machine on every compared
\* instruction: for every width, register file, program and initial memory, any
\* run of it in which the compared register shifts have amounts below XLEN is a
\* run of RVMachine on the numbers that its words stand for.
THEOREM ExecutorImplementsManual ==
  ASSUME Compared
  PROVE  Spec /\ []AmountsInRange => RVSpec
<1>1. Init => RV!Init
  BY StartsAsTheManual
<1>2. TypeOK /\ AmountsInRange /\ [Next]_vars => [RV!Next \/ inst \in Deviating]_(RV!vars)
  <2> SUFFICES ASSUME TypeOK, AmountsInRange, [Next]_vars
               PROVE  [RV!Next \/ inst \in Deviating]_(RV!vars)
    OBVIOUS
  <2>1. CASE NextInst
    <3>1. UNCHANGED Numbers(regs) /\ UNCHANGED Numbers(csregs) /\ UNCHANGED NumberedMemory(mem)
      BY <2>1, SameNumbers DEF NextInst
    <3>2. RV!Fetch
      BY <2>1, <3>1 DEF NextInst, RV!Fetch, Numbers, NumberedMemory
    <3> QED BY <3>2 DEF RV!Next
  <2>2. CASE RunInst
    <3>1. inst \in Program /\ Execute(Decoded(inst)) /\ inst' = NoInst /\ inst # NoInst
      BY <2>2 DEF RunInst, TypeOK
    <3>2. CASE inst \in Deviating
      BY <3>2
    <3>3. CASE inst \notin Deviating
      <4>1. inst.op \notin DifferentOps
        BY <3>1, <3>3 DEF Compared
      <4>2. RV!Step(inst)
        BY <3>1, <3>3, <4>1, HandlersFollowTheManual DEF AmountsInRange
      <4> QED BY <3>1, <4>2 DEF RV!Next, RV!Perform
    <3> QED BY <3>2, <3>3
  <2>3. CASE UNCHANGED vars
    <3>1. UNCHANGED <<regs, csregs, mem, pc, inst, status>>
      BY <2>3 DEF vars
    <3>2. UNCHANGED Numbers(regs) /\ UNCHANGED Numbers(csregs) /\ UNCHANGED NumberedMemory(mem)
      BY <3>1, SameNumbers
    <3>3. UNCHANGED RV!vars
      BY <3>1, <3>2 DEF RV!vars, Numbers, NumberedMemory
    <3> QED BY <3>3
  <2> QED BY <2>1, <2>2, <2>3 DEF Next
<1>3. Spec => []TypeOK
  BY ExecutorTypeCorrect
<1> QED BY <1>1, <1>2, <1>3, PTL DEF Spec, RVSpec
=============================================================================
