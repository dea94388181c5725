---------------------------- MODULE MemGeometry ----------------------------
(***************************************************************************)
(* The geometry of the simulated memory: how an address splits into a page *)
(* number and an offset, which TLB slot serves it, which accesses are      *)
(* aligned.  Addresses are the numbers below NumPages * PageBytes; in the  *)
(* code NumPages = 2^20, PageBytes = 4096 (kPageSize), TLBSize = 1024      *)
(* (kTLBSize) and Sizes = {1, 2, 4} (Byte, Half, Word).  The bit fields of *)
(* the code are quotients and remainders here.                             *)
(***************************************************************************)
EXTENDS Integers, Sequences

CONSTANTS
  NumPages,     \* pages of the address space
  PageBytes,    \* kPageSize
  TLBSize,      \* kTLBSize, the number of slots of the direct-mapped TLB
  Sizes,        \* sizeof(T) of the types an access is made with
  MemByte       \* the values of one byte of memory

ASSUME NumPagesAssumption  == NumPages \in Nat \ {0}
ASSUME PageBytesAssumption == PageBytes \in Nat \ {0}
ASSUME TLBSizeAssumption   == TLBSize \in Nat \ {0}
ASSUME SizesAssumption     == Sizes \subseteq 1 .. PageBytes
ASSUME MemByteAssumption   == 0 \in MemByte

Addr    == 0 .. NumPages * PageBytes - 1
Pages   == 0 .. NumPages - 1
Offsets == 0 .. PageBytes - 1
Slots   == 0 .. TLBSize - 1

\* An entity in memory is the sequence of its bytes, lowest address first.
Entities == UNION { [1 .. n -> MemByte] : n \in Sizes }

\* indexPt: the high bits of the address, the key of the page table.
IndexPt(addr) == addr \div PageBytes

\* getOffset: the low kOffsetBits bits of the address.
GetOffset(addr) == addr % PageBytes

\* getTLBIndex: the low kTLBBits bits of the page number.
GetTLBIndex(addr) == IndexPt(addr) % TLBSize

\* addr & kTLBMask: the address of the first byte of the page.
Tag(addr) == addr - GetOffset(addr)

\* The guard of getEntity.
Misaligned(addr, n) == \/ addr % n # 0
                       \/ GetOffset(addr) + n > PageBytes
=============================================================================
