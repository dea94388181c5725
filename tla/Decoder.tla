------------------------------ MODULE Decoder ------------------------------
(***************************************************************************)
(* The decoder that decoder.py generates: which encoding of the opcode     *)
(* table each of the three generators gives an instruction word, and how   *)
(* the fields of the decoded instruction are filled from the word.         *)
(* The table itself comes from riscv-opcodes, which is not part of the     *)
(* repository, and is a parameter here.                                    *)
(***************************************************************************)
EXTENDS Words, FiniteSets

CONSTANTS
  Table,    \* sequence of [name, mask, match, fields], the opcode table
  MaxCalls  \* bound: words decoded in a behaviour

ASSUME DecoderWidth == XLEN = 32 /\ MaxCalls \in Nat

ASSUME TableAssumption ==
  /\ DOMAIN Table \subseteq Nat
  /\ \A k \in DOMAIN Table :
       /\ Table[k].mask \in Word
       /\ Table[k].match \in SUBSET Table[k].mask

VARIABLES
  generator,  \* how the look-up was generated, the script's --generator
  binInst,    \* the word decoded last
  inst,       \* the Instruction decode returned for it
  calls       \* words decoded so far

vars == <<generator, binInst, inst, calls>>

----------------------------------------------------------------------------
(* Filling the fields.                                                      *)

\* (mutant) from counted one bit too high, so the sign is taken there.
BitMapFromAbove(msb, lsb, lshift) ==
  [msb |-> msb, lsb |-> lsb, lshift |-> lshift, from |-> lshift + msb - lsb + 1]

\* Bits msb..lsb of the word become bits lshift.. of the field; from is the
\* highest of them.
BitMap(msb, lsb, lshift) ==
  [msb |-> msb, lsb |-> lsb, lshift |-> lshift, from |-> lshift + msb - lsb]

RegDict ==
  [rm |-> BitMap(14, 12, 0), rd |-> BitMap(11, 7, 0), csr |-> BitMap(31, 20, 0),
   rs2 |-> BitMap(24, 20, 0), rs1 |-> BitMap(19, 15, 0),
   rs3 |-> BitMap(31, 27, 0)]

ImmDict ==
  [imm20    |-> {BitMap(31, 12, 12)},
   jimm20   |-> {BitMap(31, 31, 20), BitMap(30, 21, 1),
                 BitMap(20, 20, 11), BitMap(19, 12, 12)},
   succ     |-> {BitMap(23, 20, 0)},
   pred     |-> {BitMap(27, 24, 4)},
   fm       |-> {BitMap(31, 28, 8)},
   imm12    |-> {BitMap(31, 20, 0)},
   zimm     |-> {BitMap(19, 15, 0)},
   aq       |-> {BitMap(26, 26, 1)},
   rl       |-> {BitMap(25, 25, 0)},
   bimm12hi |-> {BitMap(31, 31, 12), BitMap(30, 25, 5)},
   bimm12lo |-> {BitMap(11, 8, 1), BitMap(7, 7, 11)},
   imm12hi  |-> {BitMap(31, 25, 5)},
   imm12lo  |-> {BitMap(11, 7, 0)},
   shamtw   |-> {BitMap(24, 20, 0)}]

Unsigned == {"zimm"}   \* the fields with signext=False

\* gen_fill_inst raises ValueError for any other field, and no decoder is
\* generated.  Its assertion that max_from is at most 32 holds for all of
\* ImmDict.
ASSUME FieldsAssumption ==
  \A k \in DOMAIN Table : Table[k].fields \subseteq DOMAIN RegDict \cup DOMAIN ImmDict

Extract(m, w) == ShiftLeft(GetBits(m.msb, m.lsb, w), m.lshift)

BitMaps(fields) == UNION {ImmDict[f] : f \in fields \cap DOMAIN ImmDict}
MaxFrom(maps) ==
  CHOOSE n \in {m.from : m \in maps} : \A m \in maps : m.from <= n
RawImm(maps, w) == UNION {Extract(m, w) : m \in maps}

FillImm(fields, w) ==
  LET maps == BitMaps(fields)
      raw  == RawImm(maps, w)
  IN  IF maps = {} \/ fields \cap Unsigned # {}
        THEN raw
        ELSE SignExtend(XLEN, MaxFrom(maps) + 1, raw)

Blank == [name |-> "unknown", imm |-> {}, regs |-> [f \in DOMAIN RegDict |-> {}]]

FillInst(entry, w) ==
  [name |-> entry.name,
   imm  |-> FillImm(entry.fields, w),
   regs |-> [f \in DOMAIN RegDict |->
               IF f \in entry.fields THEN Extract(RegDict[f], w) ELSE {}]]

----------------------------------------------------------------------------
(* Finding the encoding.                                                    *)

\* yaml_dict, the table as the three generators read it.
YamlDict == Table

\* gen_ifs: the first entry in table order whose condition holds.
Matches(k, w) == w \cap YamlDict[k].mask = YamlDict[k].match
ByIfs(w) ==
  {k \in DOMAIN YamlDict :
     Matches(k, w) /\ \A j \in DOMAIN YamlDict : Matches(j, w) => k <= j}

\* gen_by_mask_dict: the masks, in the order of their first appearance.
MaskDict == {YamlDict[k].mask : k \in DOMAIN YamlDict}
NotAfter(mask, other) ==
  \E k \in DOMAIN YamlDict :
    /\ YamlDict[k].mask = mask
    /\ \A j \in DOMAIN YamlDict : YamlDict[j].mask = other => k <= j

\* The switch, or the unordered_map, of each mask: of two entries with one key
\* the map's initialiser list keeps the first, and the switch does not compile.
DecMap ==
  [mask \in MaskDict |->
     {k \in DOMAIN YamlDict :
        /\ YamlDict[k].mask = mask
        /\ \A j \in DOMAIN YamlDict :
             YamlDict[j].mask = mask /\ YamlDict[j].match = YamlDict[k].match => k <= j}]
Find(mask, key) == {k \in DecMap[mask] : YamlDict[k].match = key}

\* gen_switches and gen_maps: each mask in turn is asked for the bits of the
\* word under it, until one has a case (an entry) for them.
ByMasks(w) ==
  LET hits == {mask \in MaskDict : Find(mask, w \cap mask) # {}}
  IN  UNION {Find(mask, w \cap mask) :
               mask \in {m \in hits : \A other \in hits : NotAfter(m, other)}}

Generators == {"gen_ifs", "gen_maps", "gen_switches"}
Lookup(gen, w) == IF gen = "gen_ifs" THEN ByIfs(w) ELSE ByMasks(w)

Decoded(found, w) ==
  IF found = {} THEN Blank
                ELSE FillInst(YamlDict[CHOOSE k \in found : TRUE], w)

----------------------------------------------------------------------------
Init == /\ generator \in Generators
        /\ \E k \in DOMAIN YamlDict : binInst = YamlDict[k].match
        /\ inst = Decoded(Lookup(generator, binInst), binInst)
        /\ calls = 0

Decode(w) == /\ calls < MaxCalls
             /\ calls' = calls + 1
             /\ binInst' = w
             /\ inst' = Decoded(Lookup(generator, w), w)
             /\ UNCHANGED generator

\* decode keeps no state: each word differs from the one before in one bit
\* only to keep the graph small.
Next == \E b \in Bits : Decode(Xor(binInst, {b}))

Spec == Init /\ [][Next]_vars

----------------------------------------------------------------------------
(* Properties.                                                              *)

\* Every decoded instruction is blank or a table entry; its register numbers
\* fit RegId and index the register file (a csr number the csr file), so that
\* neither the static_cast of gen_fill_inst nor regs.at ever fails.
FieldWidth(f) == IF f = "csr" THEN 12 ELSE IF f = "rm" THEN 3 ELSE 5
TypeOK ==
  /\ generator \in Generators
  /\ binInst \in Word
  /\ inst.name \in {"unknown"} \cup {YamlDict[k].name : k \in DOMAIN YamlDict}
  /\ inst.imm \in Word
  /\ DOMAIN inst.regs = DOMAIN RegDict
  /\ \A f \in DOMAIN RegDict : inst.regs[f] \subseteq 0 .. FieldWidth(f) - 1
  /\ calls \in 0 .. MaxCalls

\* The immediate formats of the manual (docs/spec, figure 2.4): the fields of
\* the table that spell one, and for each bit of the immediate the bit of the
\* instruction it is, -1 for a bit that is always zero.
Formats == {"I", "S", "B", "U", "J", "Z"}
FormatFields ==
  [I |-> {"imm12"}, S |-> {"imm12hi", "imm12lo"}, B |-> {"bimm12hi", "bimm12lo"},
   U |-> {"imm20"}, J |-> {"jimm20"}, Z |-> {"zimm"}]
SourceBit(format, i) ==
  CASE format = "I" -> IF i < 11 THEN i + 20 ELSE 31
    [] format = "S" -> IF i < 5 THEN i + 7 ELSE IF i < 11 THEN i + 20 ELSE 31
    [] format = "B" -> IF i = 0 THEN -1 ELSE IF i < 5 THEN i + 7
                       ELSE IF i < 11 THEN i + 20 ELSE IF i = 11 THEN 7 ELSE 31
    [] format = "U" -> IF i < 12 THEN -1 ELSE i
    [] format = "J" -> IF i = 0 THEN -1 ELSE IF i < 11 THEN i + 20
                       ELSE IF i = 11 THEN 20 ELSE IF i < 20 THEN i ELSE 31
    [] format = "Z" -> IF i < 5 THEN i + 15 ELSE -1
ManualImm(format, w) == {i \in Bits : SourceBit(format, i) \in w}

ImmFields(k) == YamlDict[k].fields \cap DOMAIN ImmDict

\* The immediate of every decoded instruction is the one the manual gives its
\* format, scattered bits, sign and all, though the generator sign-extends
\* once, from the highest bit any piece of it happens to reach.
ImmediatesAreTheManuals ==
  \A k \in Lookup(generator, binInst), format \in Formats :
    ImmFields(k) = FormatFields[format] => inst.imm = ManualImm(format, binInst)

\* A shift amount, sign-extended by the generator like any immediate, is the
\* five bits of the word again once the executor's getBits<4, 0> has cut it.
ShiftAmountSurvives ==
  \A k \in Lookup(generator, binInst) :
    ImmFields(k) = {"shamtw"} =>
      GetBits(4, 0, inst.imm) = GetBits(24, 20, binInst)
=============================================================================
