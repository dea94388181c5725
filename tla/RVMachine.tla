----------------------------- MODULE RVMachine -----------------------------
(***************************************************************************)
(* The unprivileged RISC-V machine of the manual in docs/spec, for the     *)
(* instructions the simulator implements: registers, counters and memory   *)
(* hold numbers, and every instruction is the arithmetic the manual gives  *)
(* it (chapters 2, 7 and 9).  The executor is checked against it.          *)
(***************************************************************************)
EXTENDS Powers

CONSTANTS
  XLEN,           \* bits of a register
  kXLENInBytes,   \* bytes of an instruction and of a word
  UpperShift,     \* where LUI and AUIPC put their immediate
  PageWords,      \* words that a store maps together
  Absent,         \* content of a word that is not mapped
  Program,        \* the instructions that may come: [op, rd, rs1, rs2, csr, imm]
  NoInst          \* no instruction fetched

VARIABLES x, csr, mem, pc, inst, status

vars == <<x, csr, mem, pc, inst, status>>

Modulus == Pow2[XLEN]
Signed(v) == IF v >= Modulus \div 2 THEN v - Modulus ELSE v
BitOf(v, i) == (v \div Pow2[i]) % 2
Bitwise(f(_, _), a, b) ==
  CHOOSE n \in 0 .. Modulus - 1 :
    \A i \in 0 .. XLEN - 1 : BitOf(n, i) = f(BitOf(a, i), BitOf(b, i))
And(a, b) == a * b
Or(a, b) == a + b - a * b
Exclusive(a, b) == (a + b) % 2
AndNot(a, b) == a * (1 - b)
Truth(p) == IF p THEN 1 ELSE 0

\* The quotient rounded towards zero; -1 for a division by zero.
Quotient(n, d) ==
  IF d = 0 THEN -1
  ELSE LET m == (IF n < 0 THEN -n ELSE n) \div (IF d < 0 THEN -d ELSE d)
       IN  IF (n < 0) # (d < 0) THEN -m ELSE m

\* A shift by the low log2(XLEN) bits of n; \div rounds down, as a signed
\* right shift does.
Amount(n) == n % XLEN

Result(i, a, b) ==
  CASE i.op \in {"ADD", "ADDI"} -> a + b
    [] i.op = "SUB"             -> a - b
    [] i.op = "MUL"             -> a * b
    [] i.op = "DIV"             -> Quotient(Signed(a), Signed(b))
    [] i.op \in {"XOR", "XORI"} -> Bitwise(Exclusive, a, b)
    [] i.op = "ANDI"            -> Bitwise(And, a, b)
    [] i.op = "ORI"             -> Bitwise(Or, a, b)
    [] i.op = "SLTI"            -> Truth(Signed(a) < Signed(b))
    [] i.op = "SLTIU"           -> Truth(a < b)
    [] i.op \in {"SLL", "SLLI"} -> a * Pow2[Amount(b)]
    [] i.op \in {"SRL", "SRLI"} -> a \div Pow2[Amount(b)]
    [] i.op \in {"SRA", "SRAI"} -> Signed(a) \div Pow2[Amount(b)]
    [] i.op = "LUI"             -> b * Pow2[UpperShift]
    [] i.op = "AUIPC"           -> pc + b * Pow2[UpperShift]

Takes(i, a, b) ==
  CASE i.op = "BEQ"  -> a = b
    [] i.op = "BNE"  -> a # b
    [] i.op = "BLT"  -> Signed(a) < Signed(b)
    [] i.op = "BLTU" -> a < b
    [] i.op = "BGE"  -> Signed(a) >= Signed(b)
    [] i.op = "BGEU" -> a >= b

RegOps == {"ADD", "SUB", "MUL", "DIV", "XOR", "SLL", "SRL", "SRA"}
ImmOps == {"ADDI", "ANDI", "ORI", "XORI", "SLTI", "SLTIU", "SLLI", "SRLI",
           "SRAI", "LUI", "AUIPC"}
Branches == {"BEQ", "BNE", "BLT", "BLTU", "BGE", "BGEU"}
CSROps == {"CSRRW", "CSRRS", "CSRRC"}
CSRImmOps == {"CSRRWI", "CSRRSI", "CSRRCI"}

Wrap(n) == n % Modulus
Write(r, n) == [x EXCEPT ![r] = IF r = 0 THEN 0 ELSE Wrap(n)]
Jump(n) == pc' = Wrap(n)
Continue == Jump(pc + kXLENInBytes)

----------------------------------------------------------------------------
Compute(i) ==
  /\ \/ i.op \in RegOps /\ x' = Write(i.rd, Result(i, x[i.rs1], x[i.rs2]))
     \/ i.op \in ImmOps /\ x' = Write(i.rd, Result(i, x[i.rs1], Wrap(i.imm)))
  /\ Continue
  /\ UNCHANGED <<csr, mem, status>>

Branch(i) ==
  /\ i.op \in Branches
  /\ IF Takes(i, x[i.rs1], x[i.rs2]) THEN Jump(pc + i.imm) ELSE Continue
  /\ UNCHANGED <<x, csr, mem, status>>

JumpAndLink(i) ==
  /\ \/ i.op = "JAL" /\ Jump(pc + i.imm)
     \/ i.op = "JALR" /\ LET target == Wrap(x[i.rs1] + i.imm)
                         IN  Jump(target - (target % 2))
  /\ x' = Write(i.rd, pc + kXLENInBytes)
  /\ UNCHANGED <<csr, mem, status>>

Target(i) == Wrap(x[i.rs1] + i.imm)
Faults(i) == \/ Target(i) % kXLENInBytes # 0
             \/ i.op = "LW" /\ mem[Target(i)] = Absent
Page(a) == {b \in DOMAIN mem : b \div (kXLENInBytes * PageWords) =
                               a \div (kXLENInBytes * PageWords)}

Load(i) ==
  /\ i.op = "LW" /\ ~Faults(i)
  /\ x' = Write(i.rd, mem[Target(i)])
  /\ Continue
  /\ UNCHANGED <<csr, mem, status>>

Store(i) ==
  /\ i.op = "SW" /\ ~Faults(i)
  /\ mem' = [a \in DOMAIN mem |->
               IF a = Target(i) THEN x[i.rs2]
               ELSE IF a \in Page(Target(i)) /\ mem[a] = Absent THEN 0
               ELSE mem[a]]
  /\ Continue
  /\ UNCHANGED <<x, csr, status>>

\* The old value goes to rd and the new one to the csr, in one step.
AccessCSR(i) ==
  /\ i.op \in CSROps \cup CSRImmOps
  /\ LET source == IF i.op \in CSROps THEN x[i.rs1] ELSE i.imm
         old    == csr[i.csr]
         new    == CASE i.op \in {"CSRRW", "CSRRWI"} -> source
                     [] i.op \in {"CSRRS", "CSRRSI"} -> Bitwise(Or, old, source)
                     [] i.op \in {"CSRRC", "CSRRCI"} -> Bitwise(AndNot, old, source)
     IN  x' = Write(i.rd, old) /\ csr' = [csr EXCEPT ![i.csr] = new]
  /\ Continue
  /\ UNCHANGED <<mem, status>>

EnvironmentCall(i) ==
  /\ i.op = "ECALL"
  /\ status' = "complete"
  /\ Continue
  /\ UNCHANGED <<x, csr, mem>>

\* An access that cannot be made, or an instruction this machine lacks, ends
\* it with nothing changed.  Whether a store to an address that has no memory
\* yet is given some or faults is left to the environment.
Trap(i) ==
  /\ \/ i.op \in {"LW", "SW"} /\ Faults(i)
     \/ i.op = "SW" /\ ~Faults(i) /\ mem[Target(i)] = Absent
     \/ i.op = "NOT_IMPLEMENTED"
  /\ status' = "threw"
  /\ UNCHANGED <<x, csr, mem, pc>>

Step(i) == Compute(i) \/ Branch(i) \/ JumpAndLink(i) \/ Load(i) \/ Store(i)
           \/ AccessCSR(i) \/ EnvironmentCall(i) \/ Trap(i)

Init == /\ status = "running" /\ inst = NoInst
        /\ \A r \in DOMAIN x : x[r] = 0
        /\ \A c \in DOMAIN csr : csr[c] = 0

Fetch == /\ status = "running" /\ inst = NoInst
         /\ inst' \in Program
         /\ UNCHANGED <<x, csr, mem, pc, status>>
Perform == inst # NoInst /\ Step(inst) /\ inst' = NoInst

Next == Fetch \/ Perform

Spec == Init /\ [][Next]_vars
=============================================================================
