--------------------------- MODULE DecoderProofs ---------------------------
(***************************************************************************)
(* For every instruction word and every opcode table: the immediates the   *)
(* generated decoder assembles are the manual's, and the three generators  *)
(* are interchangeable when no two encodings overlap.                      *)
(***************************************************************************)
EXTENDS Decoder, WordsProofs

\* What one entry of a bit dictionary puts into the field.
LEMMA ExtractIs ==
  ASSUME NEW w \in Word, NEW msb \in Bits, NEW lsb \in Bits, NEW lshift \in Bits
  PROVE  Extract(BitMap(msb, lsb, lshift), w) =
           {i \in Bits : /\ i >= lshift /\ i - lshift + lsb <= msb
                         /\ i - lshift + lsb \in w}
<1>1. \A i \in Bits : i - lshift \in Bits <=> i >= lshift
  BY DecoderWidth DEF Bits
<1>2. GetBits(msb, lsb, w) = {i \in Bits : i + lsb <= msb /\ i + lsb \in w}
  BY GetBitsIs, DecoderWidth DEF Bits
<1> QED BY <1>1, <1>2 DEF Extract, BitMap, ShiftLeft

\* The immediates before sign extension: the union of the pieces.
LEMMA RawImms ==
  ASSUME NEW w \in Word
  PROVE  /\ RawImm(BitMaps({"imm12"}), w) = {i \in Bits : i < 12 /\ i + 20 \in w}
         /\ RawImm(BitMaps({"imm12hi", "imm12lo"}), w) =
              {i \in Bits : i < 12 /\ (IF i < 5 THEN i + 7 \in w ELSE i + 20 \in w)}
         /\ RawImm(BitMaps({"bimm12hi", "bimm12lo"}), w) =
              {i \in Bits : i < 13 /\ SourceBit("B", i) \in w}
         /\ RawImm(BitMaps({"imm20"}), w) = {i \in Bits : i >= 12 /\ i \in w}
         /\ RawImm(BitMaps({"jimm20"}), w) =
              {i \in Bits : i < 21 /\ SourceBit("J", i) \in w}
         /\ RawImm(BitMaps({"zimm"}), w) = {i \in Bits : i < 5 /\ i + 15 \in w}
<1>1. /\ BitMaps({"imm12"}) = {BitMap(31, 20, 0)}
      /\ BitMaps({"imm12hi", "imm12lo"}) = {BitMap(31, 25, 5), BitMap(11, 7, 0)}
      /\ BitMaps({"bimm12hi", "bimm12lo"}) =
           {BitMap(31, 31, 12), BitMap(30, 25, 5), BitMap(11, 8, 1), BitMap(7, 7, 11)}
      /\ BitMaps({"imm20"}) = {BitMap(31, 12, 12)}
      /\ BitMaps({"jimm20"}) =
           {BitMap(31, 31, 20), BitMap(30, 21, 1), BitMap(20, 20, 11), BitMap(19, 12, 12)}
      /\ BitMaps({"zimm"}) = {BitMap(19, 15, 0)}
  BY DEF BitMaps, ImmDict
<1>0. Bits = 0 .. 31
  BY DecoderWidth DEF Bits
<1>2. RawImm(BitMaps({"imm12"}), w) = {i \in Bits : i < 12 /\ i + 20 \in w}
  <2>1. Extract(BitMap(31, 20, 0), w) = {i \in Bits : i \in 0 .. 11 /\ i + 20 \in w}
    <3>1. 31 \in Bits /\ 20 \in Bits /\ 0 \in Bits
      BY <1>0
    <3>2. Extract(BitMap(31, 20, 0), w) =
            {i \in Bits : i >= 0 /\ i - 0 + 20 <= 31 /\ i - 0 + 20 \in w}
      BY <3>1, ExtractIs
    <3> QED BY <3>2, <1>0
  <2>2. RawImm(BitMaps({"imm12"}), w) =
          Extract(BitMap(31, 20, 0), w)
    BY <1>1 DEF RawImm
  <2> QED BY <2>1, <2>2, <1>0
<1>3. RawImm(BitMaps({"imm12hi", "imm12lo"}), w) = {i \in Bits : i < 12 /\ (IF i < 5 THEN i + 7 \in w ELSE i + 20 \in w)}
  <2>1. Extract(BitMap(31, 25, 5), w) = {i \in Bits : i \in 5 .. 11 /\ i + 20 \in w}
    <3>1. 31 \in Bits /\ 25 \in Bits /\ 5 \in Bits
      BY <1>0
    <3>2. Extract(BitMap(31, 25, 5), w) =
            {i \in Bits : i >= 5 /\ i - 5 + 25 <= 31 /\ i - 5 + 25 \in w}
      BY <3>1, ExtractIs
    <3> QED BY <3>2, <1>0
  <2>2. Extract(BitMap(11, 7, 0), w) = {i \in Bits : i \in 0 .. 4 /\ i + 7 \in w}
    <3>1. 11 \in Bits /\ 7 \in Bits /\ 0 \in Bits
      BY <1>0
    <3>2. Extract(BitMap(11, 7, 0), w) =
            {i \in Bits : i >= 0 /\ i - 0 + 7 <= 11 /\ i - 0 + 7 \in w}
      BY <3>1, ExtractIs
    <3> QED BY <3>2, <1>0
  <2>3. RawImm(BitMaps({"imm12hi", "imm12lo"}), w) =
          Extract(BitMap(31, 25, 5), w)
            \cup Extract(BitMap(11, 7, 0), w)
    BY <1>1 DEF RawImm
  <2> QED BY <2>1, <2>2, <2>3, <1>0
<1>4. RawImm(BitMaps({"bimm12hi", "bimm12lo"}), w) = {i \in Bits : i < 13 /\ SourceBit("B", i) \in w}
  <2>1. Extract(BitMap(31, 31, 12), w) = {i \in Bits : i \in 12 .. 12 /\ i + 19 \in w}
    <3>1. 31 \in Bits /\ 31 \in Bits /\ 12 \in Bits
      BY <1>0
    <3>2. Extract(BitMap(31, 31, 12), w) =
            {i \in Bits : i >= 12 /\ i - 12 + 31 <= 31 /\ i - 12 + 31 \in w}
      BY <3>1, ExtractIs
    <3> QED BY <3>2, <1>0
  <2>2. Extract(BitMap(30, 25, 5), w) = {i \in Bits : i \in 5 .. 10 /\ i + 20 \in w}
    <3>1. 30 \in Bits /\ 25 \in Bits /\ 5 \in Bits
      BY <1>0
    <3>2. Extract(BitMap(30, 25, 5), w) =
            {i \in Bits : i >= 5 /\ i - 5 + 25 <= 30 /\ i - 5 + 25 \in w}
      BY <3>1, ExtractIs
    <3> QED BY <3>2, <1>0
  <2>3. Extract(BitMap(11, 8, 1), w) = {i \in Bits : i \in 1 .. 4 /\ i + 7 \in w}
    <3>1. 11 \in Bits /\ 8 \in Bits /\ 1 \in Bits
      BY <1>0
    <3>2. Extract(BitMap(11, 8, 1), w) =
            {i \in Bits : i >= 1 /\ i - 1 + 8 <= 11 /\ i - 1 + 8 \in w}
      BY <3>1, ExtractIs
    <3> QED BY <3>2, <1>0
  <2>4. Extract(BitMap(7, 7, 11), w) = {i \in Bits : i \in 11 .. 11 /\ i - 4 \in w}
    <3>1. 7 \in Bits /\ 7 \in Bits /\ 11 \in Bits
      BY <1>0
    <3>2. Extract(BitMap(7, 7, 11), w) =
            {i \in Bits : i >= 11 /\ i - 11 + 7 <= 7 /\ i - 11 + 7 \in w}
      BY <3>1, ExtractIs
    <3> QED BY <3>2, <1>0
  <2>5. RawImm(BitMaps({"bimm12hi", "bimm12lo"}), w) =
          Extract(BitMap(31, 31, 12), w)
            \cup Extract(BitMap(30, 25, 5), w)
            \cup Extract(BitMap(11, 8, 1), w)
            \cup Extract(BitMap(7, 7, 11), w)
    BY <1>1 DEF RawImm
  <2>6. \A i \in Bits : SourceBit("B", i) =
          IF i = 0 THEN -1 ELSE IF i < 5 THEN i + 7
          ELSE IF i < 11 THEN i + 20 ELSE IF i = 11 THEN 7 ELSE 31
    BY DEF SourceBit
  <2>7. \A i \in Bits : i \in RawImm(BitMaps({"bimm12hi", "bimm12lo"}), w) <=>
          i < 13 /\ SourceBit("B", i) \in w
    BY <2>1, <2>2, <2>3, <2>4, <2>5, <2>6, <1>0 DEF Word
  <2> QED BY <2>1, <2>2, <2>3, <2>4, <2>5, <2>6, <2>7, <1>0
<1>5. RawImm(BitMaps({"imm20"}), w) = {i \in Bits : i >= 12 /\ i \in w}
  <2>1. Extract(BitMap(31, 12, 12), w) = {i \in Bits : i \in 12 .. 31 /\ i \in w}
    <3>1. 31 \in Bits /\ 12 \in Bits /\ 12 \in Bits
      BY <1>0
    <3>2. Extract(BitMap(31, 12, 12), w) =
            {i \in Bits : i >= 12 /\ i - 12 + 12 <= 31 /\ i - 12 + 12 \in w}
      BY <3>1, ExtractIs
    <3> QED BY <3>2, <1>0
  <2>2. RawImm(BitMaps({"imm20"}), w) =
          Extract(BitMap(31, 12, 12), w)
    BY <1>1 DEF RawImm
  <2> QED BY <2>1, <2>2, <1>0
<1>6. RawImm(BitMaps({"jimm20"}), w) = {i \in Bits : i < 21 /\ SourceBit("J", i) \in w}
  <2>1. Extract(BitMap(31, 31, 20), w) = {i \in Bits : i \in 20 .. 20 /\ i + 11 \in w}
    <3>1. 31 \in Bits /\ 31 \in Bits /\ 20 \in Bits
      BY <1>0
    <3>2. Extract(BitMap(31, 31, 20), w) =
            {i \in Bits : i >= 20 /\ i - 20 + 31 <= 31 /\ i - 20 + 31 \in w}
      BY <3>1, ExtractIs
    <3> QED BY <3>2, <1>0
  <2>2. Extract(BitMap(30, 21, 1), w) = {i \in Bits : i \in 1 .. 10 /\ i + 20 \in w}
    <3>1. 30 \in Bits /\ 21 \in Bits /\ 1 \in Bits
      BY <1>0
    <3>2. Extract(BitMap(30, 21, 1), w) =
            {i \in Bits : i >= 1 /\ i - 1 + 21 <= 30 /\ i - 1 + 21 \in w}
      BY <3>1, ExtractIs
    <3> QED BY <3>2, <1>0
  <2>3. Extract(BitMap(20, 20, 11), w) = {i \in Bits : i \in 11 .. 11 /\ i + 9 \in w}
    <3>1. 20 \in Bits /\ 20 \in Bits /\ 11 \in Bits
      BY <1>0
    <3>2. Extract(BitMap(20, 20, 11), w) =
            {i \in Bits : i >= 11 /\ i - 11 + 20 <= 20 /\ i - 11 + 20 \in w}
      BY <3>1, ExtractIs
    <3> QED BY <3>2, <1>0
  <2>4. Extract(BitMap(19, 12, 12), w) = {i \in Bits : i \in 12 .. 19 /\ i \in w}
    <3>1. 19 \in Bits /\ 12 \in Bits /\ 12 \in Bits
      BY <1>0
    <3>2. Extract(BitMap(19, 12, 12), w) =
            {i \in Bits : i >= 12 /\ i - 12 + 12 <= 19 /\ i - 12 + 12 \in w}
      BY <3>1, ExtractIs
    <3> QED BY <3>2, <1>0
  <2>5. RawImm(BitMaps({"jimm20"}), w) =
          Extract(BitMap(31, 31, 20), w)
            \cup Extract(BitMap(30, 21, 1), w)
            \cup Extract(BitMap(20, 20, 11), w)
            \cup Extract(BitMap(19, 12, 12), w)
    BY <1>1 DEF RawImm
  <2>6. \A i \in Bits : SourceBit("J", i) =
          IF i = 0 THEN -1 ELSE IF i < 11 THEN i + 20
          ELSE IF i = 11 THEN 20 ELSE IF i < 20 THEN i ELSE 31
    BY DEF SourceBit
  <2>7. \A i \in Bits : i \in RawImm(BitMaps({"jimm20"}), w) <=>
          i < 21 /\ SourceBit("J", i) \in w
    BY <2>1, <2>2, <2>3, <2>4, <2>5, <2>6, <1>0 DEF Word
  <2> QED BY <2>1, <2>2, <2>3, <2>4, <2>5, <2>6, <2>7, <1>0
<1>7. RawImm(BitMaps({"zimm"}), w) = {i \in Bits : i < 5 /\ i + 15 \in w}
  <2>1. Extract(BitMap(19, 15, 0), w) = {i \in Bits : i \in 0 .. 4 /\ i + 15 \in w}
    <3>1. 19 \in Bits /\ 15 \in Bits /\ 0 \in Bits
      BY <1>0
    <3>2. Extract(BitMap(19, 15, 0), w) =
            {i \in Bits : i >= 0 /\ i - 0 + 15 <= 19 /\ i - 0 + 15 \in w}
      BY <3>1, ExtractIs
    <3> QED BY <3>2, <1>0
  <2>2. RawImm(BitMaps({"zimm"}), w) =
          Extract(BitMap(19, 15, 0), w)
    BY <1>1 DEF RawImm
  <2> QED BY <2>1, <2>2, <1>0
<1> QED BY <1>2, <1>3, <1>4, <1>5, <1>6, <1>7

\* The highest bit any piece reaches is the format's sign bit.
LEMMA SignBits ==
  /\ MaxFrom(BitMaps({"imm12"})) = 11
  /\ MaxFrom(BitMaps({"imm12hi", "imm12lo"})) = 11
  /\ MaxFrom(BitMaps({"bimm12hi", "bimm12lo"})) = 12
  /\ MaxFrom(BitMaps({"imm20"})) = 31
  /\ MaxFrom(BitMaps({"jimm20"})) = 20
<1>1. /\ BitMaps({"imm12"}) = {BitMap(31, 20, 0)}
      /\ BitMaps({"imm12hi", "imm12lo"}) = {BitMap(31, 25, 5), BitMap(11, 7, 0)}
      /\ BitMaps({"bimm12hi", "bimm12lo"}) =
           {BitMap(31, 31, 12), BitMap(30, 25, 5), BitMap(11, 8, 1), BitMap(7, 7, 11)}
      /\ BitMaps({"imm20"}) = {BitMap(31, 12, 12)}
      /\ BitMaps({"jimm20"}) =
           {BitMap(31, 31, 20), BitMap(30, 21, 1), BitMap(20, 20, 11), BitMap(19, 12, 12)}
  BY DEF BitMaps, ImmDict
<1>2. ASSUME NEW maps, NEW top \in maps, top.from \in Int,
             \A m \in maps : m.from \in Int /\ m.from <= top.from
      PROVE  MaxFrom(maps) = top.from
  <2>1. top.from \in {m.from : m \in maps}
    OBVIOUS
  <2>2. \A n \in {m.from : m \in maps} :
          (\A m \in maps : m.from <= n) <=> n = top.from
    BY <1>2
  <2> QED BY <2>1, <2>2 DEF MaxFrom
<1>3. /\ BitMap(31, 20, 0).from = 11 /\ BitMap(31, 25, 5).from = 11
      /\ BitMap(11, 7, 0).from = 4 /\ BitMap(31, 31, 12).from = 12
      /\ BitMap(30, 25, 5).from = 10 /\ BitMap(11, 8, 1).from = 4
      /\ BitMap(7, 7, 11).from = 11 /\ BitMap(31, 12, 12).from = 31
      /\ BitMap(31, 31, 20).from = 20 /\ BitMap(30, 21, 1).from = 10
      /\ BitMap(20, 20, 11).from = 11 /\ BitMap(19, 12, 12).from = 19
  BY DEF BitMap
<1>4. MaxFrom({BitMap(31, 20, 0)}) = 11
  <2> DEFINE maps == {BitMap(31, 20, 0)}
  <2>1. /\ BitMap(31, 20, 0) \in maps /\ BitMap(31, 20, 0).from = 11
        /\ \A m \in maps : m.from \in Int /\ m.from <= 11
    BY <1>3
  <2> HIDE DEF maps
  <2>2. MaxFrom(maps) = BitMap(31, 20, 0).from
    BY <2>1, <1>2
  <2> QED BY <2>1, <2>2 DEF maps
<1>5. MaxFrom({BitMap(31, 25, 5), BitMap(11, 7, 0)}) = 11
  <2> DEFINE maps == {BitMap(31, 25, 5), BitMap(11, 7, 0)}
  <2>1. /\ BitMap(31, 25, 5) \in maps /\ BitMap(31, 25, 5).from = 11
        /\ \A m \in maps : m.from \in Int /\ m.from <= 11
    BY <1>3
  <2> HIDE DEF maps
  <2>2. MaxFrom(maps) = BitMap(31, 25, 5).from
    BY <2>1, <1>2
  <2> QED BY <2>1, <2>2 DEF maps
<1>6. MaxFrom({BitMap(31, 31, 12), BitMap(30, 25, 5),
               BitMap(11, 8, 1), BitMap(7, 7, 11)}) = 12
  <2> DEFINE maps == {BitMap(31, 31, 12), BitMap(30, 25, 5),
               BitMap(11, 8, 1), BitMap(7, 7, 11)}
  <2>1. /\ BitMap(31, 31, 12) \in maps /\ BitMap(31, 31, 12).from = 12
        /\ \A m \in maps : m.from \in Int /\ m.from <= 12
    BY <1>3
  <2> HIDE DEF maps
  <2>2. MaxFrom(maps) = BitMap(31, 31, 12).from
    BY <2>1, <1>2
  <2> QED BY <2>1, <2>2 DEF maps
<1>7. MaxFrom({BitMap(31, 12, 12)}) = 31
  <2> DEFINE maps == {BitMap(31, 12, 12)}
  <2>1. /\ BitMap(31, 12, 12) \in maps /\ BitMap(31, 12, 12).from = 31
        /\ \A m \in maps : m.from \in Int /\ m.from <= 31
    BY <1>3
  <2> HIDE DEF maps
  <2>2. MaxFrom(maps) = BitMap(31, 12, 12).from
    BY <2>1, <1>2
  <2> QED BY <2>1, <2>2 DEF maps
<1>8. MaxFrom({BitMap(31, 31, 20), BitMap(30, 21, 1),
               BitMap(20, 20, 11), BitMap(19, 12, 12)}) = 20
  <2> DEFINE maps == {BitMap(31, 31, 20), BitMap(30, 21, 1),
               BitMap(20, 20, 11), BitMap(19, 12, 12)}
  <2>1. /\ BitMap(31, 31, 20) \in maps /\ BitMap(31, 31, 20).from = 20
        /\ \A m \in maps : m.from \in Int /\ m.from <= 20
    BY <1>3
  <2> HIDE DEF maps
  <2>2. MaxFrom(maps) = BitMap(31, 31, 20).from
    BY <2>1, <1>2
  <2> QED BY <2>1, <2>2 DEF maps
<1> QED BY <1>1, <1>4, <1>5, <1>6, <1>7, <1>8

\* For every instruction word, what the generator assembles from the fields
\* of a format is the immediate the manual gives that format.
THEOREM ImmediatesCorrect ==
  ASSUME NEW w \in Word, NEW format \in Formats
  PROVE  FillImm(FormatFields[format], w) = ManualImm(format, w)
<1>0. Bits = 0 .. 31 /\ XLEN = 32
  BY DecoderWidth DEF Bits
<1>1. /\ BitMaps({"imm12"}) # {} /\ BitMaps({"imm12hi", "imm12lo"}) # {}
      /\ BitMaps({"bimm12hi", "bimm12lo"}) # {}
      /\ BitMaps({"imm20"}) # {} /\ BitMaps({"jimm20"}) # {}
  BY DEF BitMaps, ImmDict
<1>2. ASSUME NEW fields, BitMaps(fields) # {}, fields \cap Unsigned = {},
             NEW top \in 0 .. 31, MaxFrom(BitMaps(fields)) = top,
             RawImm(BitMaps(fields), w) \in Word
      PROVE  FillImm(fields, w) =
               {i \in Bits : IF i < top + 1 THEN i \in RawImm(BitMaps(fields), w)
                                            ELSE top \in RawImm(BitMaps(fields), w)}
  <2>1. top + 1 \in 1 .. XLEN /\ top + 1 - 1 = top
    BY <1>0
  <2>2. FillImm(fields, w) = SignExtend(XLEN, top + 1, RawImm(BitMaps(fields), w))
    BY <1>2 DEF FillImm
  <2> QED BY <2>1, <2>2, <1>2, SignExtendCopiesTheSign
<1>3. CASE format = "I"
  <2>1. FillImm({"imm12"}, w) =
          {i \in Bits : IF i < 12 THEN i \in RawImm(BitMaps({"imm12"}), w)
                                  ELSE 11 \in RawImm(BitMaps({"imm12"}), w)}
    BY <1>1, <1>2, SignBits, RawImms DEF Unsigned, Word
  <2> QED BY <1>3, <2>1, <1>0, RawImms DEF FormatFields, ManualImm, SourceBit
<1>4. CASE format = "S"
  <2>1. FillImm({"imm12hi", "imm12lo"}, w) =
          {i \in Bits : IF i < 12 THEN i \in RawImm(BitMaps({"imm12hi", "imm12lo"}), w)
                                  ELSE 11 \in RawImm(BitMaps({"imm12hi", "imm12lo"}), w)}
    BY <1>1, <1>2, SignBits, RawImms DEF Unsigned, Word
  <2> QED BY <1>4, <2>1, <1>0, RawImms DEF FormatFields, ManualImm, SourceBit
<1>5. CASE format = "B"
  <2>1. FillImm({"bimm12hi", "bimm12lo"}, w) =
          {i \in Bits : IF i < 13 THEN i \in RawImm(BitMaps({"bimm12hi", "bimm12lo"}), w)
                                  ELSE 12 \in RawImm(BitMaps({"bimm12hi", "bimm12lo"}), w)}
    BY <1>1, <1>2, SignBits, RawImms DEF Unsigned, Word
  <2>2. \A i \in Bits : i >= 12 => SourceBit("B", i) = 31
    BY <1>0 DEF SourceBit
  <2>3. \A i \in Bits : i \in RawImm(BitMaps({"bimm12hi", "bimm12lo"}), w) <=>
                         i < 13 /\ SourceBit("B", i) \in w
    BY RawImms
  <2>4. 12 \in Bits
    BY <1>0
  <2>5. FillImm({"bimm12hi", "bimm12lo"}, w) = {i \in Bits : SourceBit("B", i) \in w}
    <3>1. \A i \in Bits : ~(i < 13) => i >= 12
      BY <1>0
    <3> QED BY <2>1, <2>2, <2>3, <2>4, <3>1
  <2>6. FormatFields["B"] = {"bimm12hi", "bimm12lo"}
    BY DEF FormatFields
  <2>7. ManualImm("B", w) = {i \in Bits : SourceBit("B", i) \in w}
    BY DEF ManualImm
  <2>8. FillImm(FormatFields["B"], w) = ManualImm("B", w)
    BY <2>5, <2>6, <2>7, Zenon
  <2> QED BY <1>5, <2>8, Zenon
<1>6. CASE format = "U"
  <2>1. FillImm({"imm20"}, w) =
          {i \in Bits : IF i < 32 THEN i \in RawImm(BitMaps({"imm20"}), w)
                                  ELSE 31 \in RawImm(BitMaps({"imm20"}), w)}
    BY <1>1, <1>2, SignBits, RawImms DEF Unsigned, Word
  <2>2. FillImm({"imm20"}, w) = {i \in Bits : i >= 12 /\ i \in w}
    BY <2>1, <1>0, RawImms
  <2>3. \A i \in Bits : SourceBit("U", i) \in w <=> i >= 12 /\ i \in w
    BY <1>0 DEF SourceBit, Word
  <2>4. FillImm(FormatFields["U"], w) = ManualImm("U", w)
    BY <2>2, <2>3 DEF FormatFields, ManualImm
  <2> QED BY <1>6, <2>4, Zenon
<1>7. CASE format = "J"
  <2>1. FillImm({"jimm20"}, w) =
          {i \in Bits : IF i < 21 THEN i \in RawImm(BitMaps({"jimm20"}), w)
                                  ELSE 20 \in RawImm(BitMaps({"jimm20"}), w)}
    BY <1>1, <1>2, SignBits, RawImms DEF Unsigned, Word
  <2>2. \A i \in Bits : i >= 20 => SourceBit("J", i) = 31
    BY <1>0 DEF SourceBit
  <2>3. \A i \in Bits : i \in RawImm(BitMaps({"jimm20"}), w) <=>
                         i < 21 /\ SourceBit("J", i) \in w
    BY RawImms
  <2>4. 20 \in Bits
    BY <1>0
  <2>5. FillImm({"jimm20"}, w) = {i \in Bits : SourceBit("J", i) \in w}
    <3>1. \A i \in Bits : ~(i < 21) => i >= 20
      BY <1>0
    <3> QED BY <2>1, <2>2, <2>3, <2>4, <3>1
  <2>6. FormatFields["J"] = {"jimm20"}
    BY DEF FormatFields
  <2>7. ManualImm("J", w) = {i \in Bits : SourceBit("J", i) \in w}
    BY DEF ManualImm
  <2>8. FillImm(FormatFields["J"], w) = ManualImm("J", w)
    BY <2>5, <2>6, <2>7, Zenon
  <2> QED BY <1>7, <2>8, Zenon
<1>8. CASE format = "Z"
  <2>1. FillImm({"zimm"}, w) = RawImm(BitMaps({"zimm"}), w)
    BY DEF FillImm, Unsigned
  <2>2. \A i \in Bits : SourceBit("Z", i) \in w <=> i < 5 /\ i + 15 \in w
    BY <1>0 DEF SourceBit, Word
  <2>3. FillImm(FormatFields["Z"], w) = ManualImm("Z", w)
    BY <2>1, <2>2, RawImms DEF FormatFields, ManualImm
  <2> QED BY <1>8, <2>3, Zenon
<1> QED BY <1>3, <1>4, <1>5, <1>6, <1>7, <1>8 DEF Formats

----------------------------------------------------------------------------
\* What every state of the decoder satisfies: the instruction returned is the
\* one the generator's look-up and the field filling give for the word.
DecodedInv == /\ generator \in Generators
              /\ binInst \in Word
              /\ inst = Decoded(Lookup(generator, binInst), binInst)

LEMMA DecodedInvariant == Spec => []DecodedInv
<1>1. Init => DecodedInv
  <2> SUFFICES ASSUME NEW k \in DOMAIN YamlDict, binInst = YamlDict[k].match
               PROVE  binInst \in Word
    BY DEF Init, DecodedInv
  <2> QED BY TableAssumption DEF YamlDict, Word
<1>2. DecodedInv /\ [Next]_vars => DecodedInv'
  <2> SUFFICES ASSUME DecodedInv, [Next]_vars PROVE DecodedInv'
    OBVIOUS
  <2>1. CASE Next
    <3>1. PICK b \in Bits : Decode(Xor(binInst, {b}))
      BY <2>1 DEF Next
    <3>2. Xor(binInst, {b}) \in Word
      BY DEF DecodedInv, Word, Xor
    <3> QED BY <3>1, <3>2 DEF Decode, DecodedInv
  <2>2. CASE UNCHANGED vars
    BY <2>2 DEF vars, DecodedInv
  <2> QED BY <2>1, <2>2
<1> QED BY <1>1, <1>2, PTL DEF Spec

\* Of two entries found by asking one mask for one key, the map keeps one; of
\* two masks that have a case for the word, one comes first.
LEMMA ByMasksUnique ==
  ASSUME NEW w, NEW j \in ByMasks(w), NEW k \in ByMasks(w)
  PROVE  j = k
<1>1. DOMAIN YamlDict \subseteq Nat
  BY TableAssumption DEF YamlDict
<1> DEFINE hits == {mask \in MaskDict : Find(mask, w \cap mask) # {}}
<1>2. PICK m \in hits : /\ \A other \in hits : NotAfter(m, other)
                        /\ j \in Find(m, w \cap m)
  BY DEF ByMasks
<1>3. PICK n \in hits : /\ \A other \in hits : NotAfter(n, other)
                        /\ k \in Find(n, w \cap n)
  BY DEF ByMasks
<1>4. m = n
  <2>1. NotAfter(m, n) /\ NotAfter(n, m)
    BY <1>2, <1>3
  <2>2. PICK a \in DOMAIN YamlDict :
          /\ YamlDict[a].mask = m
          /\ \A i \in DOMAIN YamlDict : YamlDict[i].mask = n => a <= i
    BY <2>1 DEF NotAfter
  <2>3. PICK b \in DOMAIN YamlDict :
          /\ YamlDict[b].mask = n
          /\ \A i \in DOMAIN YamlDict : YamlDict[i].mask = m => b <= i
    BY <2>1 DEF NotAfter
  <2>4. a <= b /\ b <= a /\ a \in Nat /\ b \in Nat
    BY <1>1, <2>2, <2>3
  <2>5. a = b
    BY <2>4
  <2> QED BY <2>2, <2>3, <2>5
<1>5. /\ j \in DecMap[m] /\ k \in DecMap[m]
      /\ YamlDict[j].match = YamlDict[k].match
  BY <1>2, <1>3, <1>4 DEF Find
<1>6. j \in Nat /\ k \in Nat /\ j <= k /\ k <= j
  BY <1>1, <1>5 DEF DecMap
<1> QED BY <1>6

\* Whichever generator made the decoder, a word has at most one encoding, an
\* entry of the table.
LEMMA LookupUnique ==
  ASSUME NEW gen, NEW w, NEW j \in Lookup(gen, w), NEW k \in Lookup(gen, w)
  PROVE  j = k /\ k \in DOMAIN YamlDict
<1>1. CASE gen = "gen_ifs"
  <2>1. /\ j \in DOMAIN YamlDict /\ k \in DOMAIN YamlDict
        /\ j <= k /\ k <= j
    BY <1>1 DEF Lookup, ByIfs
  <2>2. j \in Nat /\ k \in Nat
    BY <2>1, TableAssumption DEF YamlDict
  <2> QED BY <2>1, <2>2
<1>2. CASE gen # "gen_ifs"
  <2>1. j \in ByMasks(w) /\ k \in ByMasks(w)
    BY <1>2 DEF Lookup
  <2>2. k \in DOMAIN YamlDict
    BY <2>1 DEF ByMasks, Find, DecMap
  <2> QED BY <2>1, <2>2, ByMasksUnique
<1> QED BY <1>1, <1>2

\* Whatever the table, the immediate of every decoded instruction is the
\* manual's for its format (ImmediatesAreTheManuals, for all words).
THEOREM ImmediatesAlwaysManual == Spec => []ImmediatesAreTheManuals
<1>1. DecodedInv => ImmediatesAreTheManuals
  <2> SUFFICES ASSUME DecodedInv, NEW k \in Lookup(generator, binInst), NEW format \in Formats,
                      ImmFields(k) = FormatFields[format]
               PROVE  inst.imm = ManualImm(format, binInst)
    BY DEF ImmediatesAreTheManuals
  <2>1. \A j \in Lookup(generator, binInst) : j = k
    BY LookupUnique
  <2>2. inst.imm = FillImm(YamlDict[k].fields, binInst)
    BY <2>1 DEF DecodedInv, Decoded, FillInst
  <2>3. FillImm(YamlDict[k].fields, binInst) = FillImm(ImmFields(k), binInst)
    <3>1. Unsigned \subseteq DOMAIN ImmDict
      BY DEF Unsigned, ImmDict
    <3>2. ImmFields(k) \cap DOMAIN ImmDict = YamlDict[k].fields \cap DOMAIN ImmDict
      BY DEF ImmFields
    <3>3. (ImmFields(k) \cap Unsigned # {}) = (YamlDict[k].fields \cap Unsigned # {})
      BY <3>1 DEF ImmFields
    <3> QED BY <3>2, <3>3 DEF FillImm, BitMaps
  <2> QED BY <2>2, <2>3, ImmediatesCorrect DEF DecodedInv
<1> QED BY <1>1, DecodedInvariant, PTL

----------------------------------------------------------------------------
\* A sign-extended shift amount keeps its five bits.
LEMMA ShiftAmountKept ==
  ASSUME NEW w \in Word
  PROVE  GetBits(4, 0, FillImm({"shamtw"}, w)) = GetBits(24, 20, w)
<1> DEFINE maps == BitMaps({"shamtw"})  raw == RawImm(maps, w)  imm == FillImm({"shamtw"}, w)
<1>0. Bits = 0 .. 31 /\ XLEN = 32
  BY DecoderWidth DEF Bits
<1>1. maps = {BitMap(24, 20, 0)}
  BY DEF BitMaps, ImmDict
<1>2. MaxFrom(maps) = 4
  BY <1>1 DEF MaxFrom, BitMap
<1>3. raw = {i \in Bits : i < 5 /\ i + 20 \in w}
  <2>1. raw = Extract(BitMap(24, 20, 0), w)
    BY <1>1 DEF RawImm
  <2>2. 24 \in Bits /\ 20 \in Bits /\ 0 \in Bits
    BY <1>0
  <2>3. Extract(BitMap(24, 20, 0), w) =
          {i \in Bits : i >= 0 /\ i - 0 + 20 <= 24 /\ i - 0 + 20 \in w}
    BY <2>2, ExtractIs
  <2> HIDE DEF maps, raw
  <2> QED BY <2>1, <2>3, <1>0
<1>4. raw \in Word
  BY <1>3 DEF Word
<1>5. imm = SignExtend(XLEN, 4 + 1, raw)
  BY <1>1, <1>2 DEF FillImm, Unsigned
<1> HIDE DEF maps, raw, imm
<1>6. imm = {i \in Bits : IF i < 5 THEN i \in raw ELSE 4 \in raw}
  BY <1>0, <1>4, <1>5, SignExtendCopiesTheSign
<1>7. imm \in Word
  BY <1>6 DEF Word
<1>8. GetBits(4, 0, imm) = {i \in Bits : i + 0 <= 4 /\ i + 0 \in imm}
  BY <1>7, GetBitsIs
<1>9. GetBits(24, 20, w) = {i \in Bits : i + 20 <= 24 /\ i + 20 \in w}
  BY GetBitsIs
<1>10. \A i \in Bits : (i + 0 <= 4 /\ i + 0 \in imm) <=> (i + 20 <= 24 /\ i + 20 \in w)
  BY <1>0, <1>3, <1>6
<1> QED BY <1>8, <1>9, <1>10 DEF imm

\* Shift amounts of 16 and more arrive at the executor as huge numbers, but its
\* getBits<4, 0> finds the manual's five bits in them (ShiftAmountSurvives, for
\* every table and every word).
THEOREM ShiftAmountsAlwaysSurvive == Spec => []ShiftAmountSurvives
<1>1. DecodedInv => ShiftAmountSurvives
  <2> SUFFICES ASSUME DecodedInv, NEW k \in Lookup(generator, binInst), ImmFields(k) = {"shamtw"}
               PROVE  GetBits(4, 0, inst.imm) = GetBits(24, 20, binInst)
    BY DEF ShiftAmountSurvives
  <2>1. \A j \in Lookup(generator, binInst) : j = k
    BY LookupUnique
  <2>2. inst.imm = FillImm(YamlDict[k].fields, binInst)
    BY <2>1 DEF DecodedInv, Decoded, FillInst
  <2>3. FillImm(YamlDict[k].fields, binInst) = FillImm({"shamtw"}, binInst)
    <3>1. Unsigned \subseteq DOMAIN ImmDict /\ "shamtw" \in DOMAIN ImmDict
      BY DEF Unsigned, ImmDict
    <3>2. YamlDict[k].fields \cap DOMAIN ImmDict = {"shamtw"} \cap DOMAIN ImmDict
      BY <3>1 DEF ImmFields
    <3>3. (YamlDict[k].fields \cap Unsigned # {}) = ({"shamtw"} \cap Unsigned # {})
      BY <3>1, <3>2
    <3> QED BY <3>2, <3>3 DEF FillImm, BitMaps
  <2> QED BY <2>2, <2>3, ShiftAmountKept DEF DecodedInv
<1> QED BY <1>1, DecodedInvariant, PTL

\* A field taken to the low bits is no wider than its place in the word.
LEMMA FieldFits ==
  ASSUME NEW w \in Word, NEW msb \in Bits, NEW lsb \in Bits
  PROVE  Extract(BitMap(msb, lsb, 0), w) \subseteq 0 .. msb - lsb
<1>1. 0 \in Bits /\ Bits = 0 .. 31
  BY DecoderWidth DEF Bits
<1>2. Extract(BitMap(msb, lsb, 0), w) =
        {i \in Bits : i >= 0 /\ i - 0 + lsb <= msb /\ i - 0 + lsb \in w}
  <2>1. \A l \in Bits : Extract(BitMap(msb, lsb, l), w) =
          {i \in Bits : i >= l /\ i - l + lsb <= msb /\ i - l + lsb \in w}
    BY ExtractIs
  <2> QED BY <1>1, <2>1
<1>3. ASSUME NEW i \in Extract(BitMap(msb, lsb, 0), w)
      PROVE  i \in 0 .. msb - lsb
  <2>1. i \in Bits /\ i - 0 + lsb <= msb
    BY <1>2
  <2> QED BY <1>1, <2>1
<1> QED BY <1>3

\* What the fields of an instruction are filled with.
LEMMA FilledIsTyped ==
  ASSUME NEW entry, NEW w \in Word
  PROVE  /\ FillInst(entry, w).name = entry.name
         /\ FillInst(entry, w).imm \in Word
         /\ DOMAIN FillInst(entry, w).regs = DOMAIN RegDict
         /\ \A f \in DOMAIN RegDict : FillInst(entry, w).regs[f] \subseteq 0 .. FieldWidth(f) - 1
<1> DEFINE maps == BitMaps(entry.fields)
<1>0. Bits = 0 .. 31 /\ XLEN = 32
  BY DecoderWidth DEF Bits
<1>1. RawImm(maps, w) \in Word
  BY DEF RawImm, Extract, ShiftLeft, Word
<1>2. \A n, old, a : a \in Word => SignExtend(n, old, a) \in Word
  BY DEF SignExtend, GetBits, ShiftRight, Word
<1>3. FillImm(entry.fields, w) \in Word
  BY <1>1, <1>2 DEF FillImm
<1>4. ASSUME NEW f \in DOMAIN RegDict
      PROVE  Extract(RegDict[f], w) \subseteq 0 .. FieldWidth(f) - 1
  <2>1. f \in {"rm", "rd", "csr", "rs2", "rs1", "rs3"}
    BY DEF RegDict
  <2>2. CASE f = "rm"
    <3>1. Extract(BitMap(14, 12, 0), w) \subseteq 0 .. 14 - 12
      BY <1>0, FieldFits
    <3> QED BY <2>2, <3>1 DEF RegDict, FieldWidth
  <2>3. CASE f = "rd"
    <3>1. Extract(BitMap(11, 7, 0), w) \subseteq 0 .. 11 - 7
      BY <1>0, FieldFits
    <3> QED BY <2>3, <3>1 DEF RegDict, FieldWidth
  <2>4. CASE f = "csr"
    <3>1. Extract(BitMap(31, 20, 0), w) \subseteq 0 .. 31 - 20
      BY <1>0, FieldFits
    <3> QED BY <2>4, <3>1 DEF RegDict, FieldWidth
  <2>5. CASE f = "rs2"
    <3>1. Extract(BitMap(24, 20, 0), w) \subseteq 0 .. 24 - 20
      BY <1>0, FieldFits
    <3> QED BY <2>5, <3>1 DEF RegDict, FieldWidth
  <2>6. CASE f = "rs1"
    <3>1. Extract(BitMap(19, 15, 0), w) \subseteq 0 .. 19 - 15
      BY <1>0, FieldFits
    <3> QED BY <2>6, <3>1 DEF RegDict, FieldWidth
  <2>7. CASE f = "rs3"
    <3>1. Extract(BitMap(31, 27, 0), w) \subseteq 0 .. 31 - 27
      BY <1>0, FieldFits
    <3> QED BY <2>7, <3>1 DEF RegDict, FieldWidth
  <2> QED BY <2>1, <2>2, <2>3, <2>4, <2>5, <2>6, <2>7
<1> QED BY <1>3, <1>4 DEF FillInst

\* Register and csr numbers of every decoded instruction index their files,
\* whatever the word and the table: the static_cast of gen_fill_inst never cuts.
THEOREM DecoderTypeCorrect == Spec => []TypeOK
<1>1. DecodedInv /\ calls \in 0 .. MaxCalls => TypeOK
  <2> SUFFICES ASSUME DecodedInv, calls \in 0 .. MaxCalls PROVE TypeOK
    OBVIOUS
  <2>1. CASE Lookup(generator, binInst) = {}
    <3>1. inst = Blank
      BY <2>1 DEF DecodedInv, Decoded
    <3> QED BY <3>1 DEF DecodedInv, TypeOK, Blank, Word
  <2>2. CASE Lookup(generator, binInst) # {}
    <3>1. PICK k \in Lookup(generator, binInst) : inst = FillInst(YamlDict[k], binInst)
      BY <2>2 DEF DecodedInv, Decoded
    <3>2. k \in DOMAIN YamlDict
      BY LookupUnique
    <3> QED BY <3>1, <3>2, FilledIsTyped DEF DecodedInv, TypeOK
  <2> QED BY <2>1, <2>2
<1>2. Init => calls \in 0 .. MaxCalls
  BY DecoderWidth DEF Init
<1>3. calls \in 0 .. MaxCalls /\ [Next]_vars => (calls \in 0 .. MaxCalls)'
  <2> SUFFICES ASSUME calls \in 0 .. MaxCalls, [Next]_vars PROVE calls' \in 0 .. MaxCalls
    OBVIOUS
  <2>1. CASE UNCHANGED vars
    BY <2>1 DEF vars
  <2>2. ASSUME NEW b, Decode(b) PROVE calls' \in 0 .. MaxCalls
    BY <2>2, DecoderWidth DEF Decode
  <2> QED BY <2>1, <2>2 DEF Next
<1> QED BY <1>1, <1>2, <1>3, DecodedInvariant, PTL DEF Spec
=============================================================================
