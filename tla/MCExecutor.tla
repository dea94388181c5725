----------------------------- MODULE MCExecutor -----------------------------
(* Four-bit registers x0, x1 and x2, one csr, pages of two words, and sets   *)
(* of instructions chosen so that the registers take every value.            *)
EXTENDS Executor

Regs == {0, 1, 2}
Reg(ops, rds, rs1s, rs2s) ==
  [op : ops, rd : rds, rs1 : rs1s, rs2 : rs2s, csr : {0}, imm : {0}]
Immediate(ops, rds, rs1s, imms) ==
  [op : ops, rd : rds, rs1 : rs1s, rs2 : {0}, csr : {0}, imm : imms]

Count == Immediate({"ADDI"}, {1, 2}, {1, 2}, {1})

MCArithmetic ==
  Count
    \cup Reg({"ADD", "SUB", "MUL", "XOR"}, {0, 1}, Regs, {1, 2})
    \cup Immediate({"ADDI", "ANDI", "ORI", "XORI", "SLTI", "SLTIU"},
                   {0, 1}, {1}, {-8, -3, 0, 7})
\* Shift amounts below XLEN only: x2, the amount, is set and never counted.
MCShifts ==
  Immediate({"ADDI"}, {1}, {1}, {1})
    \cup Immediate({"ADDI"}, {2}, {0}, 0 .. 3)
    \cup Reg({"SLL", "SRL", "SRA"}, {0, 1}, {1}, {0, 2})
    \cup Immediate({"SLLI", "SRLI", "SRAI"}, {1}, {1}, 0 .. 3)
MCFlow ==
  Count
    \cup [op : {"BEQ", "BNE", "BGE", "BGEU"}, rd : {0}, rs1 : {1, 2}, rs2 : {0, 1, 2},
          csr : {0}, imm : {-4, 6}]
    \cup Immediate({"JAL"}, Regs, {0}, {-4, 6})
    \cup Immediate({"JALR"}, Regs, {1, 2}, {-1, 0, 3})
    \cup Reg({"ECALL"}, {0}, {0}, {0})
MCMemoryAccess ==
  Immediate({"ADDI"}, {1}, {0}, {0, 1, 4, -8}) \cup Immediate({"ADDI"}, {2}, {0}, {3, -2})
    \cup [op : {"LW"}, rd : {0, 2}, rs1 : {1}, rs2 : {0}, csr : {0}, imm : {0, 4}]
    \cup [op : {"SW"}, rd : {0}, rs1 : {1}, rs2 : {2}, csr : {0}, imm : {0, 4}]
MCCounters ==
  Immediate({"ADDI"}, {1}, {1}, {1})
    \cup Reg({"CSRRW", "CSRRS"}, {0, 1}, {0, 1}, {0})
\* The handlers that differ from the manual, and shifts by more than a word.
MCDifferent ==
  Reg({"DIV", "CSRRC"}, {1}, {1, 2}, {2})
    \cup Reg({"SLL", "SRL", "SRA"}, {1}, {2}, {1})
    \cup [op : {"BLT", "BLTU"}, rd : {0}, rs1 : {1}, rs2 : {2}, csr : {0}, imm : {-4}]
    \cup Immediate({"LUI", "AUIPC", "CSRRWI", "CSRRSI", "CSRRCI"}, {1}, {0}, {1})
MCOthers ==
  Immediate({"ADDI"}, {1, 2}, {1}, {1}) \cup MCDifferent
    \cup Reg({"NOT_IMPLEMENTED"}, {0}, {0}, {0})

Mixes == {MCArithmetic, MCShifts, MCFlow, MCMemoryAccess, MCCounters, MCOthers}
MCProgram == UNION Mixes

\* One mix for a whole behaviour: together they would have too many states.
VARIABLE mix

MixInit == Init /\ mix \in Mixes
MixNext == Next /\ inst' \in mix \cup {NoInst} /\ UNCHANGED mix
MixSpec == MixInit /\ [][MixNext]_<<vars, mix>>

\* One group of them compared after all.
AllBut(ops) == {i \in MCDifferent : i.op \notin ops}
MCButUpper == AllBut({"LUI", "AUIPC"})
MCButZimm == AllBut({"CSRRWI", "CSRRSI", "CSRRCI"})
MCButLess == AllBut({"BLT", "BLTU"})
MCButClear == AllBut({"CSRRC"})
MCButDivide == AllBut({"DIV"})

MCLoaded == {[a \in Aligned |-> IF 3 \in a THEN Absent ELSE {}]}
MCEntry == {{}}
=============================================================================
