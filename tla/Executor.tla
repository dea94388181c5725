------------------------------ MODULE Executor ------------------------------
(***************************************************************************)
(* The instruction handlers of executor.cc on the register file, the csr   *)
(* file, the memory and the pc of State, one step per instruction: the      *)
(* handler and the pc update of Executor::execute.  Instructions come as    *)
(* the decoder delivers them.  npc and branchIsTaken live only within a     *)
(* step (module Hart keeps them) and are left out.                          *)
(***************************************************************************)
EXTENDS Words

CONSTANTS
  kRegNum,        \* registers, 32 in the code
  kCSRegNum,      \* control and status registers, 4096 in the code
  kXLENInBytes,   \* bytes of a word and of an instruction
  kUpperShift,    \* the 12 of LUI and AUIPC
  kShamtBits,     \* the 5 bits of getBits<4, 0>
  WordBits,       \* address bits within a word, 2 in the code
  PageBits,       \* address bits within a page, the 12 of kOffsetBits
  Absent,         \* content of a word whose page is not in the page table
  Loaded,         \* contents of the memory when the program starts
  EntryPoints,    \* where it may start
  Program,        \* the instructions that may come: [op, rd, rs1, rs2, csr, imm]
  Deviating,      \* those of them that are not compared with the manual
  NoInst          \* the executor between two instructions

Aligned == {a \in Word : a \cap 0 .. WordBits - 1 = {}}

ASSUME ExecutorAssumption ==
  /\ kRegNum \in Nat \ {0} /\ kCSRegNum \in Nat \ {0}
  /\ WordBits \in Nat /\ PageBits \in WordBits .. XLEN
  /\ kXLENInBytes = Pow2[WordBits]
  /\ kUpperShift \in Nat /\ kShamtBits \in 1 .. XLEN /\ XLEN = Pow2[kShamtBits]
  /\ EntryPoints \subseteq Word
  /\ Absent \notin Nat /\ \A w \in Word : w # Absent
  /\ \A m \in Loaded : /\ DOMAIN m = Aligned
                        /\ \A a \in Aligned : m[a] = Absent \/ m[a] \in Word
  /\ \A i \in Program : /\ {i.rd, i.rs1, i.rs2} \subseteq 0 .. kRegNum - 1
                         /\ i.csr \in 0 .. kCSRegNum - 1
                         /\ i.imm \in Int
                         /\ i # NoInst

VARIABLES
  regs, csregs, mem, pc,   \* State
  inst,                    \* the instruction of the block whose turn it is
  status                   \* running; complete after ecall; threw

vars == <<regs, csregs, mem, pc, inst, status>>

----------------------------------------------------------------------------
(* What reaches the executor: the fields as the decoder fills them.         *)

UpperTypes == {"LUI", "AUIPC"}
ShiftImmTypes == {"SLLI", "SRLI", "SRAI"}
CSRImmTypes == {"CSRRWI", "CSRRSI", "CSRRCI"}

Decoded(i) ==
  [type |-> i.op, rd |-> i.rd, rs2 |-> i.rs2, csr |-> i.csr,
   rs1  |-> IF i.op \in CSRImmTypes THEN 0 ELSE i.rs1,
   imm  |-> CASE i.op \in UpperTypes    -> ShiftLeft(ToWord(i.imm), kUpperShift)
              [] i.op \in ShiftImmTypes -> SignExtend(XLEN, kShamtBits, ToWord(i.imm))
              [] OTHER                  -> ToWord(i.imm)]

----------------------------------------------------------------------------
(* Register file, pc and memory as the handlers see them.                   *)

\* (mutant) RegFile::set without its early return for x0.
SetAny(r, val) == regs' = [regs EXCEPT ![r] = val]

Set(r, val) == regs' = IF r = 0 THEN regs ELSE [regs EXCEPT ![r] = val]

Imm(n) == ToWord(n)
NextPC == Plus(pc, Imm(kXLENInBytes))
Continue == pc' = NextPC
Truth(p) == IF p THEN Imm(1) ELSE {}

Shamt(w) == Val(GetBits(kShamtBits - 1, 0, w))

\* x << y and x >> y with y of XLEN or more are undefined in C++: the host's
\* shifter drops the high bits of y, a compiler may also shift everything out.
Amounts(w) == IF Val(w) < XLEN THEN {Val(w)} ELSE {Shamt(w), XLEN}

Mapped(a) == mem[a] # Absent
Misaligned(a) == a \cap 0 .. WordBits - 1 # {}
PageOf(a) == {i \in a : i >= PageBits}

\* storeEntity<Word>: an absent page comes as zeros.
Stored(addr, word) ==
  [a \in DOMAIN mem |-> IF a = addr THEN word
                        ELSE IF PageOf(a) = PageOf(addr) /\ mem[a] = Absent
                             THEN {} ELSE mem[a]]

----------------------------------------------------------------------------
(* The handlers.                                                            *)

ExecuteRegisterRegisterOp(cmd) ==
  LET rs1 == regs[cmd.rs1]
      rs2 == regs[cmd.rs2]
  IN  /\ \/ cmd.type = "ADD" /\ Set(cmd.rd, Plus(rs1, rs2))
         \/ cmd.type = "SUB" /\ Set(cmd.rd, Minus(rs1, rs2))
         \/ cmd.type = "MUL" /\ Set(cmd.rd, ToWord(Val(rs1) * Val(rs2)))
         \/ cmd.type = "XOR" /\ Set(cmd.rd, Xor(rs1, rs2))
         \/ /\ cmd.type = "DIV" /\ rs2 # {}
            /\ Set(cmd.rd, ToWord(Val(rs1) \div Val(rs2)))
      /\ Continue
      /\ UNCHANGED <<csregs, mem, status>>

ExecuteRegisterShift(cmd) ==
  LET rs1 == regs[cmd.rs1]
  IN  /\ \E n \in Amounts(regs[cmd.rs2]) :
           \/ cmd.type = "SLL" /\ Set(cmd.rd, ShiftLeft(rs1, n))
           \/ cmd.type = "SRL" /\ Set(cmd.rd, ShiftRight(rs1, n))
           \/ cmd.type = "SRA" /\ Set(cmd.rd, ShiftRightSigned(rs1, n))
      /\ Continue
      /\ UNCHANGED <<csregs, mem, status>>

ExecuteRegisterImmediateOp(cmd) ==
  LET rs1 == regs[cmd.rs1]
      imm == cmd.imm
  IN  /\ \/ cmd.type = "ADDI"  /\ Set(cmd.rd, Plus(rs1, imm))
         \/ cmd.type = "ANDI"  /\ Set(cmd.rd, rs1 \cap imm)
         \/ cmd.type = "ORI"   /\ Set(cmd.rd, rs1 \cup imm)
         \/ cmd.type = "XORI"  /\ Set(cmd.rd, Xor(rs1, imm))
         \/ cmd.type = "SLTI"  /\ Set(cmd.rd, Truth(LessSigned(rs1, imm)))
         \/ cmd.type = "SLTIU" /\ Set(cmd.rd, Truth(Less(rs1, imm)))
         \/ cmd.type = "SLLI"  /\ Set(cmd.rd, ShiftLeft(rs1, Shamt(imm)))
         \/ cmd.type = "SRLI"  /\ Set(cmd.rd, ShiftRight(rs1, Shamt(imm)))
         \/ cmd.type = "SRAI"  /\ Set(cmd.rd, ShiftRightSigned(rs1, Shamt(imm)))
      /\ Continue
      /\ UNCHANGED <<csregs, mem, status>>

ExecuteUpper(cmd) ==
  /\ \/ cmd.type = "LUI"   /\ Set(cmd.rd, ShiftLeft(cmd.imm, kUpperShift))
     \/ cmd.type = "AUIPC" /\ Set(cmd.rd, Plus(pc, ShiftLeft(cmd.imm, kUpperShift)))
  /\ Continue
  /\ UNCHANGED <<csregs, mem, status>>

Taken(cmd) ==
  LET rs1 == regs[cmd.rs1]
      rs2 == regs[cmd.rs2]
  IN  \/ cmd.type = "BEQ"  /\ rs1 = rs2
      \/ cmd.type = "BNE"  /\ rs1 # rs2
      \/ cmd.type = "BLT"  /\ Less(rs1, rs2)
      \/ cmd.type = "BLTU" /\ Less(rs2, rs1)
      \/ cmd.type = "BGEU" /\ ~Less(rs1, rs2)
      \/ cmd.type = "BGE"  /\ ~LessSigned(rs1, rs2)

BranchTypes == {"BEQ", "BNE", "BLT", "BLTU", "BGEU", "BGE"}

\* Instructions take an even number of bytes, programs start at an even
\* address, and bimm12 and jimm20 have no bit 0.
ASSUME EvenAssumption ==
  /\ 0 \notin Imm(kXLENInBytes)
  /\ \A a \in EntryPoints : 0 \notin a
  /\ \A i \in Program : i.op \in BranchTypes \cup {"JAL"} => 0 \notin Imm(i.imm)

ExecuteCondBranch(cmd) ==
  /\ cmd.type \in BranchTypes
  /\ pc' = IF Taken(cmd) THEN Plus(pc, cmd.imm) ELSE NextPC
  /\ UNCHANGED <<regs, csregs, mem, status>>

ExecuteJAL(cmd) ==
  /\ cmd.type = "JAL"
  /\ Set(cmd.rd, NextPC)
  /\ pc' = Plus(pc, cmd.imm)
  /\ UNCHANGED <<csregs, mem, status>>

\* (mutant) the link written before rs1 is read.
ExecuteJALRLinkFirst(cmd) ==
  /\ cmd.type = "JALR"
  /\ Set(cmd.rd, NextPC)
  /\ pc' = ClearBit(0, Plus(regs'[cmd.rs1], cmd.imm))
  /\ UNCHANGED <<csregs, mem, status>>
\* (mutant) the target's lowest bit kept.
ExecuteJALROdd(cmd) ==
  /\ cmd.type = "JALR"
  /\ Set(cmd.rd, NextPC)
  /\ pc' = Plus(regs[cmd.rs1], cmd.imm)
  /\ UNCHANGED <<csregs, mem, status>>

ExecuteJALR(cmd) ==
  /\ cmd.type = "JALR"
  /\ Set(cmd.rd, NextPC)
  /\ pc' = ClearBit(0, Plus(regs[cmd.rs1], cmd.imm))
  /\ UNCHANGED <<csregs, mem, status>>

Target(cmd) == Plus(regs[cmd.rs1], cmd.imm)

ExecuteLW(cmd) ==
  /\ cmd.type = "LW"
  /\ ~Misaligned(Target(cmd)) /\ Mapped(Target(cmd))
  /\ Set(cmd.rd, mem[Target(cmd)])
  /\ Continue
  /\ UNCHANGED <<csregs, mem, status>>

ExecuteSW(cmd) ==
  /\ cmd.type = "SW"
  /\ ~Misaligned(Target(cmd))
  /\ mem' = Stored(Target(cmd), regs[cmd.rs2])
  /\ Continue
  /\ UNCHANGED <<regs, csregs, status>>

ExecuteCSR(cmd) ==
  LET rs1 == regs[cmd.rs1]
      csr == csregs[cmd.csr]
      new == CASE cmd.type = "CSRRW" -> rs1
               [] cmd.type = "CSRRS" -> rs1 \cup csr
               [] cmd.type = "CSRRC" -> rs1 \cap Not(csr)
  IN  /\ cmd.type \in {"CSRRW", "CSRRS", "CSRRC"}
      /\ csregs' = [csregs EXCEPT ![cmd.csr] = new]
      /\ Set(cmd.rd, csr)
      /\ Continue
      /\ UNCHANGED <<mem, status>>

\* getBits<4, 0> of the rs1 field, which these instructions do not have.
ExecuteCSRImm(cmd) ==
  LET zimm == GetBits(4, 0, Imm(cmd.rs1))
      csr  == csregs[cmd.csr]
      new  == CASE cmd.type = "CSRRWI" -> zimm
                [] cmd.type = "CSRRSI" -> csr \cup zimm
                [] cmd.type = "CSRRCI" -> csr \cap Not(zimm)
  IN  /\ cmd.type \in CSRImmTypes
      /\ csregs' = [csregs EXCEPT ![cmd.csr] = new]
      /\ Set(cmd.rd, csr)
      /\ Continue
      /\ UNCHANGED <<mem, status>>

ExecuteECALL(cmd) ==
  /\ cmd.type = "ECALL"
  /\ status' = "complete"
  /\ Continue
  /\ UNCHANGED <<regs, csregs, mem>>

NotImplemented(cmd) == cmd.type = "NOT_IMPLEMENTED"
DividesByZero(cmd) == cmd.type = "DIV" /\ regs[cmd.rs2] = {}

\* A load of an absent page throws always, a store to one when the host has no
\* memory for the page.
AccessThrows(cmd) ==
  /\ cmd.type \in {"LW", "SW"}
  /\ ~Misaligned(Target(cmd)) => ~Mapped(Target(cmd))

\* A handler that throws has changed nothing: every check comes first.
Throws(cmd) ==
  /\ NotImplemented(cmd) \/ DividesByZero(cmd) \/ AccessThrows(cmd)
  /\ status' = "threw"
  /\ UNCHANGED <<regs, csregs, mem, pc>>

Execute(cmd) ==
  \/ ExecuteRegisterRegisterOp(cmd) \/ ExecuteRegisterShift(cmd)
  \/ ExecuteRegisterImmediateOp(cmd) \/ ExecuteUpper(cmd)
  \/ ExecuteCondBranch(cmd) \/ ExecuteJAL(cmd) \/ ExecuteJALR(cmd)
  \/ ExecuteLW(cmd) \/ ExecuteSW(cmd)
  \/ ExecuteCSR(cmd) \/ ExecuteCSRImm(cmd)
  \/ ExecuteECALL(cmd) \/ Throws(cmd)

----------------------------------------------------------------------------
Init == /\ regs = [r \in 0 .. kRegNum - 1 |-> {}]
        /\ csregs = [c \in 0 .. kCSRegNum - 1 |-> {}]
        /\ mem \in Loaded
        /\ pc \in EntryPoints
        /\ inst = NoInst
        /\ status = "running"

\* The for_each over the block: the next instruction, then its handler.
NextInst == /\ status = "running" /\ inst = NoInst
            /\ inst' \in Program
            /\ UNCHANGED <<regs, csregs, mem, pc, status>>

RunInst == /\ inst # NoInst
           /\ Execute(Decoded(inst))
           /\ inst' = NoInst

Next == NextInst \/ RunInst

Spec == Init /\ [][Next]_vars

----------------------------------------------------------------------------
(* Properties.                                                              *)

\* Registers and csrs hold words, the memory words or nothing, and x0 is zero.
TypeOK ==
  /\ regs \in [0 .. kRegNum - 1 -> Word] /\ regs[0] = {}
  /\ csregs \in [0 .. kCSRegNum - 1 -> Word]
  /\ DOMAIN mem = Aligned
  /\ \A a \in Aligned : mem[a] = Absent \/ mem[a] \in Word
  /\ pc \in Word
  /\ inst \in Program \cup {NoInst}
  /\ status \in {"running", "complete", "threw"}

\* The pc stays even: branches and jumps add even offsets, and JALR, whose
\* target comes from a register, clears the lowest bit.
PCStaysEven == 0 \notin pc

\* What the executor does to words is the arithmetic the manual prescribes for
\* the numbers they stand for, instruction by instruction: values, wrap-around,
\* comparisons, jump targets and links also when registers coincide, csr
\* exchanges, the memory, and which instructions end the run.
NumberOf(w) == IF w = Absent THEN Absent ELSE Val(w)
RV == INSTANCE RVMachine WITH
        x          <- [r \in DOMAIN regs |-> Val(regs[r])],
        csr        <- [c \in DOMAIN csregs |-> Val(csregs[c])],
        mem        <- [n \in {Val(a) : a \in Aligned} |-> NumberOf(mem[ToWord(n)])],
        pc         <- Val(pc),
        UpperShift <- kUpperShift,
        PageWords  <- Pow2[PageBits - WordBits]
RVSpec == RV!Init /\ [][RV!Next \/ inst \in Deviating]_(RV!vars)
=============================================================================
