---------------------------- MODULE HartGeometry ----------------------------
(***************************************************************************)
(* What the instruction interpreter and its specification share: the       *)
(* address space seen as a ring of instruction words, the decoder, and the *)
(* stores a program can make.  An instruction is abstracted to its kind    *)
(* and, for a direct jump or branch, its offset; the registers are left    *)
(* out, so an address, a stored word or an indirect target is any value.   *)
(***************************************************************************)
EXTENDS Integers, Sequences

CONSTANTS
  NumWords,      \* words of the address space
  WordBytes,     \* kXLENInBytes
  PageWords,     \* words per page
  Word,          \* the values of a word
  Zero,          \* the word of a fresh page
  Unmapped,      \* the content of a word no page holds
  Decode,        \* Decoder::decode: the instruction in a word
  StoreWords     \* the words the program stores

Kinds == {"op", "load", "store", "branch", "jal", "jalr", "ecall",
          "unimplemented", "UNKNOWN"}

ASSUME NumWordsAssumption  == NumWords \in Nat \ {0}
ASSUME WordBytesAssumption == WordBytes \in Nat \ {0}
ASSUME PageWordsAssumption == PageWords \in Nat \ {0}
ASSUME WordAssumption == Zero \in Word /\ Unmapped \notin Word /\ StoreWords \subseteq Word
ASSUME DecodeAssumption == Decode \in [Word -> [kind : Kinds, imm : Int]]

AddrSpace == NumWords * WordBytes
Addr      == 0 .. AddrSpace - 1
Slots     == 0 .. NumWords - 1

\* Mistake: addition without wrap-around.
PlusUnbounded(a, d) == a + d

\* 32-bit addition of addresses.
Plus(a, d) == (a + d) % AddrSpace

Aligned(a) == a % WordBytes = 0
Slot(a)    == a \div WordBytes

\* Mistake: ecall does not end a block.
IsBranchNotEcall(inst) == inst.kind \in {"branch", "jal", "jalr"}

\* The decoder's BRANCH_MNEMONICS: the instructions that end a block.
IsBranch(inst) == inst.kind \in {"branch", "jal", "jalr", "ecall"}

\* The addresses a branch or a jump at pc can go to: the immediate is added to
\* pc, and jalr clears the lowest bit of a register's value.
Targets(inst, pc) ==
  IF inst.kind = "jalr" THEN { a \in Addr : a % 2 = 0 } ELSE { Plus(pc, inst.imm) }

\* The word at a is there to be fetched or loaded.
Readable(m, a) == Aligned(a) /\ m[Slot(a)] # Unmapped

\* Decoding the word at a fails: it cannot be loaded, or is no instruction.
Undecodable(m, a) == Readable(m, a) => Decode[m[Slot(a)]].kind = "UNKNOWN"

\* Memory m with w stored at a: an absent page appears, filled with zeros.
Stored(m, a, w) ==
  [s \in Slots |-> IF s = Slot(a) THEN w
                   ELSE IF s \div PageWords = Slot(a) \div PageWords /\ m[s] = Unmapped
                   THEN Zero ELSE m[s]]
=============================================================================
