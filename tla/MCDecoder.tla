----------------------------- MODULE MCDecoder -----------------------------
(* Eleven encodings of RV32I and Zicsr, one or more of each format, as the  *)
(* decoder's unit tests spell them.                                         *)
EXTENDS Decoder, Sequences

Opcode == 0 .. 6
Funct3 == 12 .. 14
Funct7 == 25 .. 31
ShiftedTo(n, low) == {i \in low .. low + 7 : (n \div 2^(i - low)) % 2 = 1}
Encoding(name, mask, opcode, funct3, fields) ==
  [name |-> name, mask |-> mask, fields |-> fields,
   match |-> ShiftedTo(opcode, 0) \cup ShiftedTo(funct3, 12)]

MCTable == <<
  Encoding("lui",    Opcode, 55, 0, {"rd", "imm20"}),
  Encoding("jal",    Opcode, 111, 0, {"rd", "jimm20"}),
  Encoding("jalr",   Opcode \cup Funct3, 103, 0, {"rd", "rs1", "imm12"}),
  Encoding("bge",    Opcode \cup Funct3, 99, 5, {"bimm12hi", "rs1", "rs2", "bimm12lo"}),
  Encoding("lw",     Opcode \cup Funct3, 3, 2, {"rd", "rs1", "imm12"}),
  Encoding("sw",     Opcode \cup Funct3, 35, 2, {"imm12hi", "rs1", "rs2", "imm12lo"}),
  Encoding("xor",    Opcode \cup Funct3 \cup Funct7, 51, 4, {"rd", "rs1", "rs2"}),
  Encoding("slli",   Opcode \cup Funct3 \cup Funct7, 19, 1, {"rd", "rs1", "shamtw"}),
  Encoding("srli",   Opcode \cup Funct3 \cup Funct7, 19, 5, {"rd", "rs1", "shamtw"}),
  Encoding("csrrw",  Opcode \cup Funct3, 115, 1, {"rd", "rs1", "csr"}),
  Encoding("csrrsi", Opcode \cup Funct3, 115, 6, {"rd", "csr", "zimm"})>>
=============================================================================
