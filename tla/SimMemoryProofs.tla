-------------------------- MODULE SimMemoryProofs --------------------------
(***************************************************************************)
(* Theorems about SimMemory for every geometry, every set of frames and    *)
(* every number of calls: facts about addresses, its type, the coherence   *)
(* of the TLB, the disjointness of pages, what the TLB caches and counts,  *)
(* and that it implements FlatMemory.                                      *)
(***************************************************************************)
EXTENDS SimMemory, FiniteSetTheorems, TLAPS

----------------------------------------------------------------------------
(* Facts about addresses, for any geometry.                                *)

(* A multiple of a positive number that lies strictly between -1 and +1     *)
(* times it is 0: the arithmetic behind every other fact here.              *)
LEMMA NoMultipleInBetween ==
  ASSUME NEW P \in Nat \ {0}, NEW p \in Int, NEW q \in Int,
         NEW o \in 0 .. P - 1, NEW r \in 0 .. P - 1,
         P * p + o = P * q + r
  PROVE  p = q /\ o = r
<1>1. ASSUME NEW s \in Int, NEW t \in Int, s < t  PROVE P * s + P <= P * t
  <2>1. t - s - 1 \in Nat
    BY <1>1
  <2>2. P * (t - s - 1) \in Nat
    BY <2>1
  <2>3. P * (t - s - 1) = P * t - P * s - P
    OBVIOUS
  <2> QED
    BY <2>2, <2>3
<1>2. ~ (p < q)
  BY <1>1
<1>3. ~ (q < p)
  BY <1>1
<1> QED
  BY <1>2, <1>3

(* Every address is its page's first address plus its offset                *)
(* (PhysMemory::AddrSections).                                              *)
LEMMA AddrParts ==
  ASSUME NEW addr \in Addr
  PROVE  /\ IndexPt(addr) \in Pages
         /\ GetOffset(addr) \in Offsets
         /\ addr = PageBytes * IndexPt(addr) + GetOffset(addr)
         /\ Tag(addr) = PageBytes * IndexPt(addr)
<1> USE NumPagesAssumption, PageBytesAssumption
<1>1. addr \in Nat
  BY DEF Addr
<1>2. GetOffset(addr) \in Offsets
  BY <1>1 DEF GetOffset, Offsets
<1>3. IndexPt(addr) \in Nat /\ addr = PageBytes * IndexPt(addr) + GetOffset(addr)
  BY <1>1 DEF GetOffset, IndexPt
<1>4. IndexPt(addr) < NumPages
  <2>1. SUFFICES ASSUME IndexPt(addr) >= NumPages PROVE FALSE
    BY <1>3
  <2>2. PageBytes * (IndexPt(addr) - NumPages) \in Nat
    BY <2>1, <1>3
  <2>3. PageBytes * IndexPt(addr) >= NumPages * PageBytes
    BY <2>2, <1>3
  <2> QED
    BY <2>3, <1>2, <1>3 DEF Addr, Offsets
<1> QED
  BY <1>1, <1>2, <1>3, <1>4 DEF Pages, Tag, Offsets

(* Conversely a page number and an offset determine the address.            *)
LEMMA PartsAddr ==
  ASSUME NEW pg \in Pages, NEW o \in Offsets
  PROVE  /\ PageBytes * pg + o \in Addr
         /\ IndexPt(PageBytes * pg + o) = pg
         /\ GetOffset(PageBytes * pg + o) = o
<1> USE NumPagesAssumption, PageBytesAssumption
<1> DEFINE a == PageBytes * pg + o
<1>1. PageBytes * (NumPages - 1 - pg) \in Nat /\ PageBytes * pg \in Nat
  BY DEF Pages
<1>2. PageBytes * pg + PageBytes <= NumPages * PageBytes
  BY <1>1 DEF Pages
<1>3. a \in Addr
  BY <1>1, <1>2 DEF Addr, Offsets
<1>4. IndexPt(a) = pg /\ GetOffset(a) = o
  <2>1. /\ IndexPt(a) \in Int /\ GetOffset(a) \in 0 .. PageBytes - 1
        /\ PageBytes * IndexPt(a) + GetOffset(a) = PageBytes * pg + o
    BY <1>3, AddrParts DEF Pages, Offsets
  <2> HIDE DEF a
  <2> QED
    BY <2>1, NoMultipleInBetween DEF Pages, Offsets
<1> QED
  BY <1>3, <1>4

(* An entity that getEntity accepts lies in one page, at consecutive        *)
(* offsets: reading or writing through the page pointer touches exactly the *)
(* bytes at addr, ..., addr + n - 1.                                        *)
LEMMA EntityInOnePage ==
  ASSUME NEW addr \in Addr, NEW n \in Sizes, ~ Misaligned(addr, n),
         NEW i \in 0 .. n - 1
  PROVE  /\ GetOffset(addr) + i \in Offsets
         /\ addr + i \in Addr
         /\ IndexPt(addr + i) = IndexPt(addr)
         /\ GetOffset(addr + i) = GetOffset(addr) + i
<1> USE PageBytesAssumption, SizesAssumption
<1>1. GetOffset(addr) + i \in Offsets
  BY AddrParts DEF Misaligned, Offsets
<1>2. IndexPt(addr) \in Pages
  BY AddrParts
<1>3. addr + i = PageBytes * IndexPt(addr) + (GetOffset(addr) + i)
  BY AddrParts DEF Pages, Offsets
<1> QED
  BY <1>1, <1>2, <1>3, PartsAddr

(* When the sizes divide the page (1, 2 and 4 divide 4096) the second half  *)
(* of the guard of getEntity never decides: an aligned entity cannot        *)
(* straddle two pages.                                                      *)
THEOREM AlignedNeverStraddles ==
  ASSUME NEW addr \in Addr, NEW n \in Sizes, PageBytes % n = 0, addr % n = 0
  PROVE  ~ Misaligned(addr, n)
<1> USE PageBytesAssumption, SizesAssumption
<1> DEFINE k == PageBytes \div n
           t == addr \div n
           d == k * (IndexPt(addr) + 1) - t
<1>1. n \in Nat \ {0} /\ addr \in Nat /\ IndexPt(addr) \in Nat
  BY AddrParts DEF Addr, Pages
<1>2. k \in Int /\ t \in Int /\ PageBytes = n * k /\ addr = n * t
  BY <1>1
<1>3. PageBytes * (IndexPt(addr) + 1) = n * (k * (IndexPt(addr) + 1))
  BY <1>1, <1>2
<1>4. d \in Int /\ n * d = PageBytes - GetOffset(addr)
  <2>1. addr = PageBytes * IndexPt(addr) + GetOffset(addr) /\ GetOffset(addr) \in Int
    BY AddrParts DEF Offsets
  <2>2. PageBytes * (IndexPt(addr) + 1) = PageBytes * IndexPt(addr) + PageBytes
    BY <1>1
  <2> DEFINE e == k * (IndexPt(addr) + 1)
  <2>3. e \in Int /\ d = e - t
    BY <1>1, <1>2
  <2>4. n * d = n * e - n * t
    <3> HIDE DEF d, e, t
    <3> QED
      BY <1>1, <1>2, <2>3
  <2> HIDE DEF d, k, t
  <2> QED
    BY <1>1, <1>2, <1>3, <2>1, <2>2, <2>3, <2>4
<1>5. n * d > 0
  BY <1>4, AddrParts DEF Offsets
<1>6. d >= 1
  <2> HIDE DEF d
  <2> QED
    BY <1>1, <1>4, <1>5
<1>7. n * d >= n
  <2> HIDE DEF d
  <2>1. n * (d - 1) \in Nat
    BY <1>1, <1>4, <1>6
  <2> QED
    BY <1>1, <1>4, <2>1
<1> QED
  BY <1>4, <1>7, <1>1, AddrParts DEF Misaligned, Offsets

----------------------------------------------------------------------------

USE NumPagesAssumption, PageBytesAssumption, TLBSizeAssumption,
    SizesAssumption, MemByteAssumption, NullAssumption

-----------------------------------------------------------------------------
(* An entity is a sequence of one of the access sizes.                      *)
LEMMA EntityLength ==
  ASSUME NEW v \in Entities
  PROVE  Len(v) \in Sizes /\ Len(v) \in Nat \ {0} /\ v \in [1 .. Len(v) -> MemByte]
<1>1. PICK n \in Sizes : v \in [1 .. n -> MemByte]
  BY DEF Entities
<1>2. n \in Nat \ {0}
  OBVIOUS
<1>3. Len(v) = n
  BY <1>1, <1>2
<1> QED
  BY <1>1, <1>2, <1>3

LEMMA SlotOfAddress ==
  ASSUME NEW addr \in Addr
  PROVE  GetTLBIndex(addr) \in Slots /\ Tag(addr) \in Addr
<1>1. GetTLBIndex(addr) \in Slots
  BY AddrParts DEF GetTLBIndex, Slots, Pages
<1>2. Tag(addr) = PageBytes * IndexPt(addr) + 0
  BY AddrParts DEF Pages
<1>3. Tag(addr) \in Addr
  BY <1>2, AddrParts, PartsAddr DEF Offsets
<1> QED
  BY <1>1, <1>3

(* Address 0 exists.                                                        *)
LEMMA ZeroAddr == 0 \in Addr
<1>1. 0 = PageBytes * 0 + 0
  OBVIOUS
<1> QED
  BY <1>1, PartsAddr DEF Pages, Offsets

LEMMA ReadEntityType ==
  ASSUME NEW c \in [Offsets -> MemByte], NEW addr \in Addr, NEW n \in Sizes,
         ~ Misaligned(addr, n)
  PROVE  ReadEntity(c, GetOffset(addr), n) \in Entities
<1>1. ASSUME NEW i \in 1 .. n
      PROVE  GetOffset(addr) + i - 1 \in Offsets
  BY AddrParts DEF Misaligned, Offsets
<1>2. ReadEntity(c, GetOffset(addr), n) \in [1 .. n -> MemByte]
  BY <1>1 DEF ReadEntity
<1> QED
  BY <1>2 DEF Entities

LEMMA WriteEntityType ==
  ASSUME NEW c \in [Offsets -> MemByte], NEW off \in Offsets, NEW v \in Entities
  PROVE  WriteEntity(c, off, v) \in [Offsets -> MemByte]
<1> SUFFICES ASSUME NEW o \in Offsets, o \in off .. off + Len(v) - 1
             PROVE  v[o - off + 1] \in MemByte
  BY DEF WriteEntity
<1>1. o - off + 1 \in 1 .. Len(v)
  BY EntityLength DEF Offsets
<1> QED
  BY <1>1, EntityLength

(* The frame getEntity works on exists.                                     *)
LEMMA PageIsFrame ==
  ASSUME TypeOK, NEW addr \in Addr, NEW page,
         FromTLB(addr, page) \/ FromPageTable(addr, page)
  PROVE  page \in Frame
<1>1. CASE FromTLB(addr, page)
  BY <1>1, SlotOfAddress DEF TypeOK, FromTLB, TLBLookup, TLBEntry
<1>2. CASE FromPageTable(addr, page)
  BY <1>2 DEF TypeOK, FromPageTable, Mapped
<1> QED
  BY <1>1, <1>2

-----------------------------------------------------------------------------
LEMMA CountsTyped ==
  ASSUME TypeOK, NEW addr \in Addr, CountLookup(addr)
  PROVE  tlbStats' \in [requests : Nat, hits : Nat, misses : Nat]
BY DEF TypeOK, CountLookup

LEMMA TLBUpdateTyped ==
  ASSUME TypeOK, NEW addr \in Addr, NEW page \in Frame, TLBUpdate(addr, page)
  PROVE  tlb' \in [Slots -> TLBEntry]
BY SlotOfAddress DEF TypeOK, TLBUpdate, TLBEntry

(* getEntity leaves the structures well typed on each of its three ways to  *)
(* a page.                                                                  *)
LEMMA AccessTyped ==
  ASSUME TypeOK, NEW addr \in Addr, NEW page \in Frame,
         FromTLB(addr, page) \/ FromPageTable(addr, page) \/ FromNewPage(addr, page)
  PROVE  /\ DOMAIN pageTable' \subseteq Pages
         /\ pageTable' \in [DOMAIN pageTable' -> Frame]
         /\ tlb' \in [Slots -> TLBEntry]
<1>1. CASE FromTLB(addr, page)
  BY <1>1 DEF TypeOK, FromTLB
<1>2. CASE FromPageTable(addr, page)
  BY <1>2, TLBUpdateTyped DEF TypeOK, FromPageTable
<1>3. CASE FromNewPage(addr, page)
  <2>1. IndexPt(addr) \in Pages
    BY AddrParts
  <2> QED
    BY <1>3, <2>1, TLBUpdateTyped DEF TypeOK, FromNewPage
<1> QED
  BY <1>1, <1>2, <1>3

LEMMA InitType == Init => TypeOK
<1> SUFFICES ASSUME Init PROVE TypeOK
  OBVIOUS
<1>1. result \in Outcomes
  BY ZeroAddr DEF Init, Outcome, Outcomes
<1>2. tlb \in [Slots -> TLBEntry]
  BY ZeroAddr DEF Init, TLBEntry
<1> QED
  BY <1>1, <1>2 DEF Init, TypeOK

LEMMA LoadType ==
  ASSUME TypeOK, NEW addr \in Addr, NEW n \in Sizes, Load(addr, n)
  PROVE  TypeOK'
<1>1. memStats' \in [loads : Nat, stores : Nat]
  BY DEF TypeOK, Load, LoadMisaligned, LoadDone, LoadFault, CountLoad
<1>2. CASE LoadMisaligned(addr, n)
  BY <1>1, <1>2 DEF TypeOK, LoadMisaligned, Outcome, Outcomes
<1>3. CASE LoadFault(addr, n)
  BY <1>1, <1>3, CountsTyped DEF TypeOK, LoadFault, WalkThrew, Outcome, Outcomes
<1>4. CASE LoadDone(addr, n)
  <2>1. PICK page \in Frame :
          /\ FromTLB(addr, page) \/ FromPageTable(addr, page)
          /\ result' = Outcome("load", addr, n, "done",
                               ReadEntity(heap[page], GetOffset(addr), n))
    BY <1>4 DEF LoadDone
  <2>2. heap[page] \in [Offsets -> MemByte]
    BY DEF TypeOK
  <2>3. result' \in Outcomes
    BY <1>4, <2>1, <2>2, ReadEntityType DEF LoadDone, Outcome, Outcomes
  <2> QED
    BY <1>1, <1>4, <2>1, <2>3, AccessTyped, CountsTyped DEF TypeOK, LoadDone
<1> QED
  BY <1>2, <1>3, <1>4 DEF Load

LEMMA StoreType ==
  ASSUME TypeOK, NEW addr \in Addr, NEW v \in Entities, Store(addr, v)
  PROVE  TypeOK'
<1>1. memStats' \in [loads : Nat, stores : Nat]
  BY DEF TypeOK, Store, StoreMisaligned, StoreDone, StoreBadAlloc, CountStore
<1>2. result' \in Outcomes
  BY EntityLength
     DEF Store, StoreMisaligned, StoreDone, StoreBadAlloc, Outcome, Outcomes
<1>3. CASE StoreMisaligned(addr, v)
  BY <1>1, <1>2, <1>3 DEF TypeOK, StoreMisaligned
<1>4. CASE StoreBadAlloc(addr, v)
  BY <1>1, <1>2, <1>4, CountsTyped DEF TypeOK, StoreBadAlloc, WalkThrew
<1>5. CASE StoreDone(addr, v)
  <2>1. PICK page \in Frame :
          \/ /\ FromTLB(addr, page) \/ FromPageTable(addr, page)
             /\ heap' = [heap EXCEPT ![page] = WriteEntity(@, GetOffset(addr), v)]
          \/ /\ FromNewPage(addr, page)
             /\ heap' = [heap EXCEPT ![page] =
                           WriteEntity(EmptyPage, GetOffset(addr), v)]
    BY <1>5 DEF StoreDone
  <2>2. heap[page] \in [Offsets -> MemByte] /\ EmptyPage \in [Offsets -> MemByte]
    BY DEF TypeOK, EmptyPage
  <2>3. heap' \in [Frame -> [Offsets -> MemByte]]
    <3>1. GetOffset(addr) \in Offsets
      BY AddrParts
    <3>2. PICK c \in [Offsets -> MemByte] : heap' = [heap EXCEPT ![page] = c]
      BY <2>1, <2>2, <3>1, WriteEntityType
    <3> QED
      BY <3>2 DEF TypeOK
  <2> QED
    BY <1>1, <1>2, <1>5, <2>1, <2>3, AccessTyped, CountsTyped DEF TypeOK, StoreDone
<1> QED
  BY <1>3, <1>4, <1>5 DEF Store

(* Every field stays in its domain whatever is loaded and stored.           *)
THEOREM TypeCorrect == Spec => []TypeOK
<1>1. Init => TypeOK
  BY InitType
<1>2. TypeOK /\ [Next]_vars => TypeOK'
  <2>1. ASSUME TypeOK, Next PROVE TypeOK'
    BY <2>1, LoadType, StoreType DEF Next
  <2>2. ASSUME TypeOK, UNCHANGED vars PROVE TypeOK'
    BY <2>2 DEF TypeOK, vars
  <2> QED
    BY <2>1, <2>2
<1> QED
  BY <1>1, <1>2, PTL DEF Spec

-----------------------------------------------------------------------------
(* The inductive invariant behind the two safety theorems and the           *)
(* refinement.  Coherence alone is not inductive: that a hit returns the    *)
(* page's own frame needs the types, and that a new page takes a frame no   *)
(* other page has needs disjointness.                                       *)
MemInv == TypeOK /\ TLBCoherent /\ PagesDisjoint

(* The TLB never gives another page than the page table would.              *)
LEMMA PageReached ==
  ASSUME MemInv, NEW addr \in Addr, NEW page \in Frame,
         FromTLB(addr, page) \/ FromPageTable(addr, page)
  PROVE  Mapped(addr) /\ page = pageTable[IndexPt(addr)] /\ UNCHANGED pageTable
<1>1. CASE FromPageTable(addr, page)
  BY <1>1 DEF FromPageTable
<1>2. CASE FromTLB(addr, page)
  <2>1. TLBHit(addr) /\ page = tlb[GetTLBIndex(addr)].physPage /\ UNCHANGED pageTable
    BY <1>2 DEF FromTLB, TLBLookup
  <2>2. PICK pg \in DOMAIN pageTable :
          /\ tlb[GetTLBIndex(addr)].virtualAddress = pg * PageBytes
          /\ tlb[GetTLBIndex(addr)].physPage = pageTable[pg]
    BY <2>1, SlotOfAddress DEF MemInv, TLBCoherent, TLBHit
  <2>3. pg \in Pages /\ IndexPt(addr) \in Pages
    BY AddrParts DEF MemInv, TypeOK
  <2>4. PageBytes * pg + 0 = PageBytes * IndexPt(addr) + 0
    <3>1. pg * PageBytes = Tag(addr)
      BY <2>1, <2>2 DEF TLBHit
    <3>2. pg * PageBytes = PageBytes * IndexPt(addr)
      BY <3>1, AddrParts
    <3> QED
      BY <2>3, <3>2 DEF Pages
  <2>5. pg = IndexPt(addr)
    BY <2>3, <2>4, NoMultipleInBetween DEF Pages
  <2> QED
    BY <2>1, <2>2, <2>5 DEF Mapped
<1> QED
  BY <1>1, <1>2

(* A lookup that misses and finds the page unmapped has no pointer to it.   *)
LEMMA UpdateCoherent ==
  ASSUME MemInv, NEW addr \in Addr, NEW page \in Frame, TLBUpdate(addr, page),
         \A pg \in DOMAIN pageTable :
            pg \in DOMAIN pageTable' /\ pageTable'[pg] = pageTable[pg],
         IndexPt(addr) \in DOMAIN pageTable', pageTable'[IndexPt(addr)] = page
  PROVE  TLBCoherent'
<1> SUFFICES ASSUME NEW s \in Slots, tlb'[s].valid
             PROVE  \E pg \in DOMAIN pageTable' :
                       /\ tlb'[s].virtualAddress = pg * PageBytes
                       /\ pg % TLBSize = s
                       /\ tlb'[s].physPage = pageTable'[pg]
  BY DEF TLBCoherent
<1>1. CASE s = GetTLBIndex(addr)
  <2>1. tlb'[s] = [virtualAddress |-> Tag(addr), physPage |-> page, valid |-> TRUE]
    BY <1>1 DEF TLBUpdate, MemInv, TypeOK
  <2>2. Tag(addr) = IndexPt(addr) * PageBytes
    BY AddrParts DEF Pages
  <2> QED
    BY <1>1, <2>1, <2>2 DEF GetTLBIndex
<1>2. CASE s # GetTLBIndex(addr)
  <2>1. tlb'[s] = tlb[s]
    BY <1>2 DEF TLBUpdate, MemInv, TypeOK
  <2> QED
    BY <2>1 DEF MemInv, TLBCoherent
<1> QED
  BY <1>1, <1>2

LEMMA AccessSafe ==
  ASSUME MemInv, NEW addr \in Addr, NEW page \in Frame,
         FromTLB(addr, page) \/ FromPageTable(addr, page) \/ FromNewPage(addr, page)
  PROVE  TLBCoherent' /\ PagesDisjoint'
<1>1. CASE FromTLB(addr, page)
  BY <1>1 DEF FromTLB, MemInv, TLBCoherent, PagesDisjoint
<1>2. CASE FromPageTable(addr, page)
  <2>1. TLBCoherent'
    BY <1>2, UpdateCoherent DEF FromPageTable, Mapped
  <2> QED
    BY <1>2, <2>1 DEF FromPageTable, MemInv, PagesDisjoint
<1>3. CASE FromNewPage(addr, page)
  <2>1. TLBCoherent'
    BY <1>3, UpdateCoherent DEF FromNewPage, Mapped
  <2>2. PagesDisjoint'
    BY <1>3 DEF FromNewPage, FreeFrames, Mapped, MemInv, PagesDisjoint
  <2> QED
    BY <2>1, <2>2
<1> QED
  BY <1>1, <1>2, <1>3

LEMMA InitMemInv == Init => MemInv
BY InitType DEF Init, MemInv, TLBCoherent, PagesDisjoint

LEMMA NextMemInv == MemInv /\ [Next]_vars => MemInv'
<1> SUFFICES ASSUME MemInv, [Next]_vars PROVE MemInv'
  OBVIOUS
<1>1. CASE UNCHANGED vars
  BY <1>1 DEF MemInv, TypeOK, TLBCoherent, PagesDisjoint, vars
<1>2. CASE Next
  <2>1. TypeOK'
    BY <1>2, LoadType, StoreType DEF Next, MemInv
  <2>2. PICK addr \in Addr : \/ \E n \in Sizes : Load(addr, n)
                           \/ \E v \in Entities : Store(addr, v)
    BY <1>2 DEF Next
  <2>3. ASSUME UNCHANGED <<tlb, pageTable>> PROVE TLBCoherent' /\ PagesDisjoint'
    BY <2>3 DEF MemInv, TLBCoherent, PagesDisjoint
  <2>4. ASSUME NEW n \in Sizes, Load(addr, n) PROVE TLBCoherent' /\ PagesDisjoint'
    <3>1. CASE LoadMisaligned(addr, n) \/ LoadFault(addr, n)
      BY <2>3, <3>1 DEF LoadMisaligned, LoadFault, WalkThrew
    <3>2. CASE LoadDone(addr, n)
      BY <3>2, AccessSafe DEF LoadDone
    <3> QED
      BY <2>4, <3>1, <3>2 DEF Load
  <2>5. ASSUME NEW v \in Entities, Store(addr, v) PROVE TLBCoherent' /\ PagesDisjoint'
    <3>1. CASE StoreMisaligned(addr, v) \/ StoreBadAlloc(addr, v)
      BY <2>3, <3>1 DEF StoreMisaligned, StoreBadAlloc, WalkThrew
    <3>2. CASE StoreDone(addr, v)
      BY <3>2, AccessSafe DEF StoreDone
    <3> QED
      BY <2>5, <3>1, <3>2 DEF Store
  <2> QED
    BY <2>1, <2>2, <2>4, <2>5 DEF MemInv
<1> QED
  BY <1>1, <1>2

LEMMA Invariance == Spec => []MemInv
BY InitMemInv, NextMemInv, PTL DEF Spec

(* The TLB agrees with the page table in every reachable state, for every   *)
(* TLB size, however pages collide in its slots.                            *)
THEOREM TLBAlwaysCoherent == Spec => []TLBCoherent
<1>1. MemInv => TLBCoherent
  BY DEF MemInv
<1> QED
  BY <1>1, Invariance, PTL

(* No store to one page ever shows in another.                              *)
THEOREM PagesNeverShared == Spec => []PagesDisjoint
<1>1. MemInv => PagesDisjoint
  BY DEF MemInv
<1> QED
  BY <1>1, Invariance, PTL

-----------------------------------------------------------------------------
(* What a store writes through the page pointer is, seen from the whole     *)
(* address space, the entity at its addresses and nothing else: c is what   *)
(* the page held before, the zeros of a new page included.                  *)
LEMMA StoreEffect ==
  ASSUME MemInv, NEW addr \in Addr, NEW v \in Entities, ~ Misaligned(addr, Len(v)),
         NEW page \in Frame, NEW c \in [Offsets -> MemByte],
         DOMAIN pageTable' = DOMAIN pageTable \union {IndexPt(addr)},
         pageTable'[IndexPt(addr)] = page,
         \A q \in DOMAIN pageTable \ {IndexPt(addr)} :
            pageTable'[q] = pageTable[q] /\ pageTable[q] # page,
         \A o \in Offsets : c[o] = IF Mapped(addr) THEN heap[pageTable[IndexPt(addr)]][o] ELSE 0,
         heap' = [heap EXCEPT ![page] = WriteEntity(c, GetOffset(addr), v)]
  PROVE  FlatBytes' = Flat!Overwrite(FlatBytes, addr, v)
<1> DEFINE old(b) == IF Mapped(b) THEN heap[pageTable[IndexPt(b)]][GetOffset(b)] ELSE 0
           new(b) == IF IndexPt(b) \in DOMAIN pageTable'
                     THEN heap'[pageTable'[IndexPt(b)]][GetOffset(b)] ELSE 0
           span == addr .. addr + Len(v) - 1
<1>1. ASSUME NEW b \in Addr, IndexPt(b) = IndexPt(addr)
      PROVE  new(b) = IF b \in span THEN v[b - addr + 1] ELSE old(b)
  <2>1. new(b) = WriteEntity(c, GetOffset(addr), v)[GetOffset(b)]
    BY <1>1 DEF MemInv, TypeOK
  <2>2. GetOffset(b) \in Offsets /\ GetOffset(addr) \in Offsets
    BY AddrParts
  <2>3. GetOffset(b) - GetOffset(addr) = b - addr
    BY <1>1, AddrParts DEF Pages, Offsets
  <2>4. b \in span <=> GetOffset(b) \in GetOffset(addr) .. GetOffset(addr) + Len(v) - 1
    BY <2>2, <2>3, EntityLength DEF Addr, Offsets
  <2>5. old(b) = c[GetOffset(b)]
    BY <1>1, <2>2 DEF Mapped
  <2> QED
    BY <2>1, <2>2, <2>3, <2>4, <2>5 DEF WriteEntity
<1>2. ASSUME NEW b \in Addr, IndexPt(b) # IndexPt(addr)
      PROVE  new(b) = IF b \in span THEN v[b - addr + 1] ELSE old(b)
  <2>1. b \notin span
    <3>1. SUFFICES ASSUME b \in span PROVE FALSE
      OBVIOUS
    <3>2. b - addr \in 0 .. Len(v) - 1 /\ b = addr + (b - addr) /\ Len(v) \in Sizes
      BY <3>1, EntityLength DEF Addr
    <3> QED
      BY <1>2, <3>2, EntityInOnePage
  <2>2. new(b) = old(b)
    <3>1. CASE IndexPt(b) \in DOMAIN pageTable
      BY <1>2, <3>1 DEF Mapped, MemInv, TypeOK
    <3>2. CASE IndexPt(b) \notin DOMAIN pageTable
      BY <1>2, <3>2 DEF Mapped
    <3> QED
      BY <3>1, <3>2
  <2> QED
    BY <2>1, <2>2
<1>3. FlatBytes' = [b \in Addr |-> new(b)]
  BY DEF FlatBytes, Mapped
<1>4. Flat!Overwrite(FlatBytes, addr, v)
        = [b \in Addr |-> IF b \in span THEN v[b - addr + 1] ELSE old(b)]
  BY DEF Flat!Overwrite, FlatBytes
<1> HIDE DEF old, new, span
<1> QED
  BY <1>1, <1>2, <1>3, <1>4

(* The abstract store uses the geometry of the detailed one.                *)
LEMMA SameGeometry ==
  /\ \A addr, n : Flat!Misaligned(addr, n) <=> Misaligned(addr, n)
  /\ \A addr : Flat!IndexPt(addr) = IndexPt(addr)
  /\ \A op, addr, n, what, data :
        Flat!Outcome(op, addr, n, what, data) = Outcome(op, addr, n, what, data)
BY DEF Flat!Misaligned, Misaligned, Flat!IndexPt, IndexPt, Flat!GetOffset,
       GetOffset, Flat!Outcome, Outcome

LEMMA LoadImplements ==
  ASSUME MemInv, NEW addr \in Addr, NEW n \in Sizes, Load(addr, n)
  PROVE  Flat!FlatLoad(addr, n)
<1> USE SameGeometry DEF Flat!FlatLoad
<1>1. ASSUME UNCHANGED <<pageTable, heap>>
      PROVE  DOMAIN pageTable' = DOMAIN pageTable /\ FlatBytes' = FlatBytes
  BY <1>1 DEF FlatBytes, Mapped
<1>2. CASE LoadMisaligned(addr, n)
  BY <1>1, <1>2 DEF LoadMisaligned
<1>3. CASE LoadFault(addr, n)
  BY <1>1, <1>3 DEF LoadFault, WalkThrew, Mapped
<1>4. CASE LoadDone(addr, n)
  <2>1. PICK page \in Frame :
          /\ FromTLB(addr, page) \/ FromPageTable(addr, page)
          /\ result' = Outcome("load", addr, n, "done",
                               ReadEntity(heap[page], GetOffset(addr), n))
    BY <1>4 DEF LoadDone
  <2>2. Mapped(addr) /\ page = pageTable[IndexPt(addr)] /\ UNCHANGED pageTable
    BY <2>1, PageReached
  <2>3. ~ Misaligned(addr, n)
    BY <1>4 DEF LoadDone
  <2>4. ASSUME NEW i \in 1 .. n
        PROVE  FlatBytes[addr + i - 1] = heap[page][GetOffset(addr) + i - 1]
    <3>1. i - 1 \in 0 .. n - 1 /\ addr + (i - 1) = addr + i - 1
          /\ GetOffset(addr) + (i - 1) = GetOffset(addr) + i - 1
      BY AddrParts DEF Addr, Offsets
    <3>2. /\ addr + (i - 1) \in Addr
          /\ IndexPt(addr + (i - 1)) = IndexPt(addr)
          /\ GetOffset(addr + (i - 1)) = GetOffset(addr) + (i - 1)
      BY <2>3, <3>1, EntityInOnePage
    <3> QED
      BY <2>2, <3>1, <3>2 DEF FlatBytes, Mapped
  <2>5. ReadEntity(heap[page], GetOffset(addr), n)
          = [i \in 1 .. n |-> FlatBytes[addr + i - 1]]
    BY <2>4 DEF ReadEntity
  <2> QED
    BY <1>1, <1>4, <2>1, <2>2, <2>3, <2>5 DEF LoadDone, Mapped
<1> QED
  BY <1>2, <1>3, <1>4 DEF Load

LEMMA StoreImplements ==
  ASSUME MemInv, NEW addr \in Addr, NEW v \in Entities, Store(addr, v)
  PROVE  Flat!FlatStore(addr, v) \/ Flat!FlatStoreRefused(addr, v)
<1> USE SameGeometry DEF Flat!FlatStore, Flat!FlatStoreRefused
<1>1. ASSUME UNCHANGED <<pageTable, heap>>
      PROVE  DOMAIN pageTable' = DOMAIN pageTable /\ FlatBytes' = FlatBytes
  BY <1>1 DEF FlatBytes, Mapped
<1>2. CASE StoreMisaligned(addr, v)
  BY <1>1, <1>2 DEF StoreMisaligned
<1>3. CASE StoreBadAlloc(addr, v)
  BY <1>1, <1>3 DEF StoreBadAlloc, WalkThrew, Mapped
<1>4. CASE StoreDone(addr, v)
  <2>1. ~ Misaligned(addr, Len(v)) /\ result' = Outcome("store", addr, Len(v), "done", v)
    BY <1>4 DEF StoreDone
  <2>2. PICK page \in Frame :
          \/ /\ FromTLB(addr, page) \/ FromPageTable(addr, page)
             /\ heap' = [heap EXCEPT ![page] = WriteEntity(@, GetOffset(addr), v)]
          \/ /\ FromNewPage(addr, page)
             /\ heap' = [heap EXCEPT ![page] =
                           WriteEntity(EmptyPage, GetOffset(addr), v)]
    BY <1>4 DEF StoreDone
  <2>3. heap[page] \in [Offsets -> MemByte] /\ EmptyPage \in [Offsets -> MemByte]
    BY DEF MemInv, TypeOK, EmptyPage
  <2>4. CASE /\ FromTLB(addr, page) \/ FromPageTable(addr, page)
             /\ heap' = [heap EXCEPT ![page] = WriteEntity(@, GetOffset(addr), v)]
    <3>1. Mapped(addr) /\ page = pageTable[IndexPt(addr)] /\ UNCHANGED pageTable
      BY <2>4, PageReached
    <3>2. heap' = [heap EXCEPT ![page] = WriteEntity(heap[page], GetOffset(addr), v)]
      BY <2>4
    <3>3. \A q \in DOMAIN pageTable \ {IndexPt(addr)} :
             pageTable'[q] = pageTable[q] /\ pageTable[q] # page
      BY <3>1 DEF MemInv, PagesDisjoint, Mapped
    <3>4. FlatBytes' = Flat!Overwrite(FlatBytes, addr, v)
      BY <2>1, <2>3, <3>1, <3>2, <3>3, StoreEffect DEF Mapped
    <3> QED
      BY <2>1, <3>1, <3>4 DEF Mapped, IndexPt
  <2>5. CASE /\ FromNewPage(addr, page)
             /\ heap' = [heap EXCEPT ![page] =
                           WriteEntity(EmptyPage, GetOffset(addr), v)]
    <3>1. /\ ~ Mapped(addr) /\ page \in FreeFrames
          /\ DOMAIN pageTable' = DOMAIN pageTable \union {IndexPt(addr)}
          /\ pageTable'[IndexPt(addr)] = page
          /\ \A q \in DOMAIN pageTable : q # IndexPt(addr) => pageTable'[q] = pageTable[q]
      BY <2>5 DEF FromNewPage
    <3>2. \A q \in DOMAIN pageTable \ {IndexPt(addr)} :
             pageTable'[q] = pageTable[q] /\ pageTable[q] # page
      BY <3>1 DEF FreeFrames
    <3>3. FlatBytes' = Flat!Overwrite(FlatBytes, addr, v)
      BY <2>1, <2>3, <2>5, <3>1, <3>2, StoreEffect DEF EmptyPage
    <3> QED
      BY <2>1, <3>1, <3>3
  <2> QED
    BY <2>2, <2>4, <2>5
<1> QED
  BY <1>2, <1>3, <1>4 DEF Store

(* The TLB, the lazy page table and the allocation of pages cannot be       *)
(* observed: Memory behaves as the flat zero-filled byte store.             *)
THEOREM MemoryIsFlat == Spec => FlatSpec
<1>1. Init => Flat!FlatInit
  <2> SUFFICES ASSUME Init PROVE Flat!FlatInit
    OBVIOUS
  <2>1. DOMAIN pageTable = {}
    BY DEF Init
  <2>2. FlatBytes = [a \in Addr |-> 0]
    BY <2>1 DEF FlatBytes, Mapped
  <2> QED
    BY <2>1, <2>2 DEF Init, Flat!FlatInit, Flat!Addr, Addr, Flat!NoCall,
                      Flat!Outcome, Outcome
<1>2. MemInv /\ [Next]_vars => [Flat!FlatNext]_Flat!flatVars
  <2> SUFFICES ASSUME MemInv, [Next]_vars PROVE [Flat!FlatNext]_Flat!flatVars
    OBVIOUS
  <2>1. CASE UNCHANGED vars
    BY <2>1 DEF vars, Flat!flatVars, FlatBytes, Mapped
  <2>2. CASE Next
    <3>1. PICK addr \in Addr : \/ \E n \in Sizes : Load(addr, n)
                             \/ \E v \in Entities : Store(addr, v)
      BY <2>2 DEF Next
    <3>2. CASE \E n \in Sizes : Load(addr, n)
      BY <3>2, LoadImplements DEF Flat!FlatNext, Flat!Addr, Addr
    <3>3. CASE \E v \in Entities : Store(addr, v)
      BY <3>3, StoreImplements
         DEF Flat!FlatNext, Flat!Addr, Addr, Flat!Entities, Entities
    <3> QED
      BY <3>1, <3>2, <3>3
  <2> QED
    BY <2>1, <2>2
<1>3. Spec => Flat!FlatSpec
  BY <1>1, <1>2, Invariance, PTL DEF Spec, Flat!FlatSpec
<1> QED
  BY <1>3 DEF FlatSpec

-----------------------------------------------------------------------------
\* A TLB slot that has just been filled, or has just hit, holds the page.
LEMMA AccessCaches ==
  ASSUME MemInv, NEW addr \in Addr, NEW page \in Frame,
         FromTLB(addr, page) \/ FromPageTable(addr, page) \/ FromNewPage(addr, page)
  PROVE  TLBHit(addr)'
<1>1. CASE FromTLB(addr, page)
  BY <1>1 DEF FromTLB, TLBLookup, TLBHit
<1>2. CASE TLBUpdate(addr, page)
  <2>1. tlb'[GetTLBIndex(addr)] = [virtualAddress |-> Tag(addr), physPage |-> page, valid |-> TRUE]
    BY <1>2, SlotOfAddress DEF TLBUpdate, MemInv, TypeOK
  <2> QED
    BY <2>1 DEF TLBHit
<1> QED
  BY <1>1, <1>2 DEF FromPageTable, FromNewPage

(* Whatever page an access has displaced from its slot, the page it has     *)
(* used is there for the next one (memory.hh 160-174).                      *)
THEOREM LastPageAlwaysCached == Spec => []LastPageCached
<1>1. Init => LastPageCached
  BY DEF Init, LastPageCached, Outcome
<1>2. MemInv /\ LastPageCached /\ [Next]_vars => LastPageCached'
  <2> SUFFICES ASSUME MemInv, LastPageCached, [Next]_vars PROVE LastPageCached'
    OBVIOUS
  <2>1. CASE UNCHANGED vars
    BY <2>1 DEF vars, LastPageCached, TLBHit
  <2>2. ASSUME NEW addr \in Addr, NEW n \in Sizes, Load(addr, n)  PROVE LastPageCached'
    <3>1. CASE LoadDone(addr, n)
      <4>1. TLBHit(addr)'
        BY <3>1, AccessCaches DEF LoadDone
      <4>2. result'.addr = addr
        BY <3>1 DEF LoadDone, Outcome
      <4> QED
        BY <4>1, <4>2 DEF LastPageCached, TLBHit
    <3>2. CASE LoadMisaligned(addr, n) \/ LoadFault(addr, n)
      BY <3>2 DEF LoadMisaligned, LoadFault, Outcome, LastPageCached
    <3> QED
      BY <2>2, <3>1, <3>2 DEF Load
  <2>3. ASSUME NEW addr \in Addr, NEW v \in Entities, Store(addr, v)  PROVE LastPageCached'
    <3>1. CASE StoreDone(addr, v)
      <4>1. TLBHit(addr)'
        BY <3>1, AccessCaches DEF StoreDone
      <4>2. result'.addr = addr
        BY <3>1 DEF StoreDone, Outcome
      <4> QED
        BY <4>1, <4>2 DEF LastPageCached, TLBHit
    <3>2. CASE StoreMisaligned(addr, v) \/ StoreBadAlloc(addr, v)
      BY <3>2 DEF StoreMisaligned, StoreBadAlloc, Outcome, LastPageCached
    <3> QED
      BY <2>3, <3>1, <3>2 DEF Store
  <2> QED
    BY <2>1, <2>2, <2>3 DEF Next
<1> QED
  BY <1>1, <1>2, Invariance, PTL DEF Spec

-----------------------------------------------------------------------------
\* The step of PagesStay: what may become of a page.
PageStays(pg) ==
  /\ pg \in DOMAIN pageTable'
  /\ pageTable'[pg] = pageTable[pg]
  /\ \A o \in Offsets :
       heap'[pageTable[pg]][o] # heap[pageTable[pg]][o] =>
          /\ result'.op = "store"
          /\ pg * PageBytes + o \in result'.addr .. result'.addr + result'.size - 1

(* A store changes no byte of any page but those of the entity stored.      *)
LEMMA StoreStays ==
  ASSUME MemInv, NEW addr \in Addr, NEW v \in Entities, StoreDone(addr, v),
         NEW pg \in DOMAIN pageTable
  PROVE  PageStays(pg)
<1>1. result' = Outcome("store", addr, Len(v), "done", v)
  BY DEF StoreDone
<1>2. /\ pg \in Pages /\ IndexPt(addr) \in Pages /\ GetOffset(addr) \in Offsets
      /\ addr = PageBytes * IndexPt(addr) + GetOffset(addr)
  BY AddrParts DEF MemInv, TypeOK
<1>3. PICK page \in Frame :
        \/ /\ FromTLB(addr, page) \/ FromPageTable(addr, page)
           /\ heap' = [heap EXCEPT ![page] = WriteEntity(@, GetOffset(addr), v)]
        \/ /\ FromNewPage(addr, page)
           /\ heap' = [heap EXCEPT ![page] = WriteEntity(EmptyPage, GetOffset(addr), v)]
  BY DEF StoreDone
<1>4. CASE /\ FromTLB(addr, page) \/ FromPageTable(addr, page)
           /\ heap' = [heap EXCEPT ![page] = WriteEntity(@, GetOffset(addr), v)]
  <2>1. Mapped(addr) /\ page = pageTable[IndexPt(addr)] /\ UNCHANGED pageTable
    BY <1>4, PageReached
  <2>2. CASE pg = IndexPt(addr)
    <3>1. ASSUME NEW o \in Offsets, heap'[pageTable[pg]][o] # heap[pageTable[pg]][o]
          PROVE  pg * PageBytes + o \in addr .. addr + Len(v) - 1
      <4>1. heap'[page] = WriteEntity(heap[page], GetOffset(addr), v)
        BY <1>4 DEF MemInv, TypeOK
      <4>2. o \in GetOffset(addr) .. GetOffset(addr) + Len(v) - 1
        BY <2>1, <2>2, <3>1, <4>1 DEF WriteEntity
      <4>3. Len(v) \in Nat
        BY EntityLength
      <4> QED
        BY <1>2, <2>2, <4>2, <4>3 DEF Pages, Offsets
    <3> QED
      BY <1>1, <2>1, <3>1 DEF PageStays, Outcome
  <2>3. CASE pg # IndexPt(addr)
    <3>1. pageTable[pg] # page
      BY <2>1, <2>3 DEF MemInv, PagesDisjoint, Mapped
    <3>2. heap'[pageTable[pg]] = heap[pageTable[pg]]
      BY <1>4, <3>1 DEF MemInv, TypeOK
    <3> QED
      BY <2>1, <3>2 DEF PageStays
  <2> QED
    BY <2>2, <2>3
<1>5. CASE /\ FromNewPage(addr, page)
           /\ heap' = [heap EXCEPT ![page] = WriteEntity(EmptyPage, GetOffset(addr), v)]
  <2>1. /\ pg \in DOMAIN pageTable' /\ pageTable'[pg] = pageTable[pg] /\ pageTable[pg] # page
    BY <1>5 DEF FromNewPage, Mapped, FreeFrames
  <2>2. heap'[pageTable[pg]] = heap[pageTable[pg]]
    BY <1>5, <2>1 DEF MemInv, TypeOK
  <2> QED
    BY <2>1, <2>2 DEF PageStays
<1> QED
  BY <1>3, <1>4, <1>5

(* Pages never move and never go away, so the pointers the TLB keeps stay   *)
(* good, and no access changes a byte it has not been asked to.             *)
THEOREM PagesAlwaysStay == Spec => PagesStay
<1>1. MemInv /\ [Next]_vars => [\A pg \in DOMAIN pageTable : PageStays(pg)]_vars
  <2> SUFFICES ASSUME MemInv, Next, NEW pg \in DOMAIN pageTable PROVE PageStays(pg)
    OBVIOUS
  <2>1. ASSUME UNCHANGED heap, pg \in DOMAIN pageTable', pageTable'[pg] = pageTable[pg]
        PROVE  PageStays(pg)
    BY <2>1 DEF PageStays
  <2>2. PICK addr \in Addr : \/ \E n \in Sizes : Load(addr, n)
                             \/ \E v \in Entities : Store(addr, v)
    BY DEF Next
  <2>3. ASSUME NEW n \in Sizes, Load(addr, n)  PROVE PageStays(pg)
    BY <2>1, <2>3 DEF Load, LoadMisaligned, LoadDone, LoadFault, WalkThrew, FromTLB, FromPageTable
  <2>4. ASSUME NEW v \in Entities, Store(addr, v)  PROVE PageStays(pg)
    <3>1. CASE StoreDone(addr, v)
      BY <3>1, StoreStays
    <3>2. CASE StoreMisaligned(addr, v) \/ StoreBadAlloc(addr, v)
      BY <2>1, <3>2 DEF StoreMisaligned, StoreBadAlloc, WalkThrew
    <3> QED
      BY <2>4, <3>1, <3>2 DEF Store
  <2> QED
    BY <2>2, <2>3, <2>4
<1> QED
  BY <1>1, Invariance, PTL DEF Spec, PagesStay, PageStays

-----------------------------------------------------------------------------
\* The part of StatsAccountForPages that counts.
StatsInv == /\ tlbStats.hits + tlbStats.misses = tlbStats.requests
            /\ tlbStats.requests <= memStats.loads + memStats.stores
            /\ Cardinality(DOMAIN pageTable) <= tlbStats.misses

LEMMA PagesAreFinite ==
  ASSUME TypeOK
  PROVE  IsFiniteSet(DOMAIN pageTable) /\ Cardinality(DOMAIN pageTable) \in Nat
<1>1. IsFiniteSet(Pages)
  BY FS_Interval DEF Pages
<1>2. DOMAIN pageTable \in SUBSET Pages
  BY DEF TypeOK
<1> QED
  BY <1>1, <1>2, FS_Subset, FS_CardinalityType

\* Valid slots belong to different pages.
LEMMA ValidSlotsHavePages ==
  ASSUME MemInv
  PROVE  Cardinality({s \in Slots : tlb[s].valid}) <= Cardinality(DOMAIN pageTable)
<1> DEFINE valid == {s \in Slots : tlb[s].valid}
           page == [s \in valid |-> CHOOSE pg \in DOMAIN pageTable : pg % TLBSize = s]
<1>1. \A s \in valid : \E pg \in DOMAIN pageTable : pg % TLBSize = s
  BY DEF MemInv, TLBCoherent
<1>2. \A s \in valid : page[s] \in DOMAIN pageTable /\ page[s] % TLBSize = s
  BY <1>1
<1> HIDE DEF page
<1>3. \A s, t \in valid : page[s] = page[t] => s = t
  BY <1>2
<1>4. page \in Injection(valid, DOMAIN pageTable)
  <2>1. page \in [valid -> DOMAIN pageTable]
    BY <1>2 DEF page
  <2> QED
    BY <1>3, <2>1 DEF Injection, IsInjective
<1> QED
  BY <1>4, PagesAreFinite, FS_Injection DEF MemInv

\* A new page has cost a miss.
LEMMA AccessCounted ==
  ASSUME MemInv, StatsInv, NEW addr \in Addr, NEW page \in Frame, CountLookup(addr),
         FromTLB(addr, page) \/ FromPageTable(addr, page) \/ FromNewPage(addr, page)
  PROVE  /\ tlbStats'.hits + tlbStats'.misses = tlbStats'.requests
         /\ tlbStats'.requests = tlbStats.requests + 1
         /\ Cardinality(DOMAIN pageTable') <= tlbStats'.misses
<1>1. /\ tlbStats'.requests = tlbStats.requests + 1
      /\ tlbStats'.hits = tlbStats.hits + (IF TLBHit(addr) THEN 1 ELSE 0)
      /\ tlbStats'.misses = tlbStats.misses + (IF TLBHit(addr) THEN 0 ELSE 1)
      /\ tlbStats.requests \in Nat /\ tlbStats.hits \in Nat /\ tlbStats.misses \in Nat
  BY DEF CountLookup, MemInv, TypeOK
<1>2. Cardinality(DOMAIN pageTable) \in Nat /\ IsFiniteSet(DOMAIN pageTable)
  BY PagesAreFinite DEF MemInv
<1>3. tlbStats'.hits + tlbStats'.misses = tlbStats'.requests
  BY <1>1 DEF StatsInv
<1>4. Cardinality(DOMAIN pageTable') <= tlbStats'.misses
  <2>1. CASE UNCHANGED pageTable
    BY <1>1, <1>2, <2>1 DEF StatsInv
  <2>2. CASE FromNewPage(addr, page)
    <3>1. DOMAIN pageTable' = DOMAIN pageTable \union {IndexPt(addr)}
      BY <2>2 DEF FromNewPage
    <3>2. Cardinality(DOMAIN pageTable') =
            IF IndexPt(addr) \in DOMAIN pageTable THEN Cardinality(DOMAIN pageTable)
                                                  ELSE Cardinality(DOMAIN pageTable) + 1
      <4> DEFINE pages == DOMAIN pageTable  new == IndexPt(addr)
      <4>1. IsFiniteSet(pages) /\ DOMAIN pageTable' = pages \union {new}
        BY <1>2, <3>1
      <4>2. IsFiniteSet(pages) => Cardinality(pages \union {new}) =
              IF new \in pages THEN Cardinality(pages) ELSE Cardinality(pages) + 1
        <5> HIDE DEF pages, new
        <5> QED BY FS_AddElement
      <4> QED BY <4>1, <4>2, Zenon
    <3>3. ~ TLBHit(addr)
      <4>1. TLBHit(addr) => tlb[GetTLBIndex(addr)].physPage \in Frame
        BY SlotOfAddress DEF TLBHit, MemInv, TLBCoherent, TypeOK
      <4> QED
        BY <2>2, <4>1 DEF FromNewPage, TLBLookup
    <3>4. Cardinality(DOMAIN pageTable') \in Nat
      BY <1>2, <3>2
    <3> QED
      BY <1>1, <1>2, <3>2, <3>3, <3>4 DEF StatsInv
  <2> QED
    BY <2>1, <2>2 DEF FromTLB, FromPageTable
<1> QED
  BY <1>1, <1>3, <1>4

LEMMA StatsKept ==
  ASSUME MemInv, StatsInv, Next
  PROVE  StatsInv'
<1> DEFINE calls == memStats.loads + memStats.stores
<1>1. PICK addr \in Addr : \/ \E n \in Sizes : Load(addr, n)
                           \/ \E v \in Entities : Store(addr, v)
  BY DEF Next
<1>2. /\ calls \in Nat /\ tlbStats.requests \in Nat /\ tlbStats.hits \in Nat /\ tlbStats.misses \in Nat
      /\ tlbStats.requests <= calls /\ tlbStats.hits + tlbStats.misses = tlbStats.requests
      /\ Cardinality(DOMAIN pageTable) <= tlbStats.misses /\ Cardinality(DOMAIN pageTable) \in Nat
  BY PagesAreFinite DEF MemInv, TypeOK, StatsInv
<1>3. calls' = calls + 1
  <2>1. CountLoad \/ CountStore
    BY <1>1 DEF Load, LoadMisaligned, LoadDone, LoadFault, Store, StoreMisaligned, StoreDone, StoreBadAlloc
  <2> QED
    BY <2>1 DEF CountLoad, CountStore, MemInv, TypeOK
<1> HIDE DEF calls
<1>4. CASE UNCHANGED <<tlbStats, pageTable>>
  BY <1>2, <1>3, <1>4 DEF StatsInv, calls
<1>5. ASSUME CountLookup(addr), NEW page \in Frame,
             FromTLB(addr, page) \/ FromPageTable(addr, page) \/ FromNewPage(addr, page)
      PROVE  StatsInv'
  <2>1. /\ tlbStats'.hits + tlbStats'.misses = tlbStats'.requests
        /\ tlbStats'.requests = tlbStats.requests + 1
        /\ Cardinality(DOMAIN pageTable') <= tlbStats'.misses
    BY <1>5, AccessCounted
  <2>2. tlbStats'.requests <= calls'
    BY <1>2, <1>3, <2>1
  <2> QED
    BY <2>1, <2>2 DEF StatsInv, calls
<1>6. CASE WalkThrew(addr)
  <2>1. /\ UNCHANGED pageTable /\ tlbStats'.requests = tlbStats.requests + 1
        /\ tlbStats'.hits = tlbStats.hits + (IF TLBHit(addr) THEN 1 ELSE 0)
        /\ tlbStats'.misses = tlbStats.misses + (IF TLBHit(addr) THEN 0 ELSE 1)
    BY <1>6 DEF WalkThrew, CountLookup
  <2>2. tlbStats'.hits + tlbStats'.misses = tlbStats'.requests /\ tlbStats.misses <= tlbStats'.misses
    BY <1>2, <2>1
  <2>3. tlbStats'.requests <= calls' /\ Cardinality(DOMAIN pageTable') <= tlbStats'.misses
    <3>1. Cardinality(DOMAIN pageTable') = Cardinality(DOMAIN pageTable)
      BY <2>1
    <3>2. tlbStats'.misses \in Nat
      BY <1>2, <2>1
    <3> QED
      BY <1>2, <1>3, <2>1, <2>2, <3>1, <3>2
  <2> QED
    BY <2>2, <2>3 DEF StatsInv, calls
<1> QED
  BY <1>1, <1>4, <1>5, <1>6
     DEF Load, LoadMisaligned, LoadDone, LoadFault, Store, StoreMisaligned, StoreDone, StoreBadAlloc

(* The statistics main prints account for each other, for the accesses made *)
(* and for the pages that exist, after faults and failed stores too.        *)
THEOREM StatsAlwaysAccount == Spec => []StatsAccountForPages
<1>1. Init => StatsInv
  BY FS_EmptySet DEF Init, StatsInv
<1>2. MemInv /\ StatsInv /\ [Next]_vars => StatsInv'
  BY StatsKept DEF vars, StatsInv
<1>3. MemInv /\ StatsInv => StatsAccountForPages
  BY ValidSlotsHavePages DEF StatsInv, StatsAccountForPages
<1> QED
  BY <1>1, <1>2, <1>3, Invariance, PTL DEF Spec
=============================================================================
