----------------------------- MODULE SimMemory -----------------------------
(***************************************************************************)
(* Memory, PhysMemory and TLB (memory/memory.hh, memory/memory.cc).        *)
(*                                                                         *)
(* The page table is an unordered_map from page numbers to Page objects;   *)
(* the TLB keeps raw pointers to those objects.  A frame is the place of   *)
(* one Page in the host's heap, a PagePtr is a frame or Null, and the map  *)
(* is the partial function pageTable.  An access is one call of            *)
(* loadEntity or storeEntity with everything getEntity does inside it.     *)
(* Nothing is ever unmapped and the TLB is never flushed: tlbFlush has no  *)
(* caller and PhysMemory::tlb is private.                                  *)
(***************************************************************************)
EXTENDS MemGeometry, FiniteSets

CONSTANTS
  Frame,     \* places in the host's heap where a Page object can live
  Null,      \* nullptr
  MaxCalls   \* bound on the statistics counters (64-bit in the code)

ASSUME NullAssumption == Null \notin Frame
ASSUME MaxCallsAssumption == MaxCalls \in Nat

VARIABLES
  pageTable,   \* PhysMemory::pageTable
  heap,        \* contents of the frames
  tlb,         \* TLB::tlb
  tlbStats,    \* TLB::stats
  memStats,    \* Memory::stats
  result       \* outcome of the last call: a value or an exception

vars == <<pageTable, heap, tlb, tlbStats, memStats, result>>

\* What the caller of a load or store sees.
Outcome(op, addr, n, what, data) ==
  [op |-> op, addr |-> addr, size |-> n, what |-> what, data |-> data]

TLBEntry == [virtualAddress : Addr, physPage : Frame \union {Null}, valid : BOOLEAN]

Outcomes ==
  [op   : {"none", "load", "store"},
   addr : Addr,
   size : Sizes \union {0},
   what : {"none", "done", "misaligned", "pagefault", "badalloc"},
   data : Entities \union {<<>>}]

TypeOK ==
  /\ DOMAIN pageTable \subseteq Pages
  /\ pageTable \in [DOMAIN pageTable -> Frame]
  /\ heap \in [Frame -> [Offsets -> MemByte]]
  /\ tlb \in [Slots -> TLBEntry]
  /\ tlbStats \in [requests : Nat, hits : Nat, misses : Nat]
  /\ memStats \in [loads : Nat, stores : Nat]
  /\ result \in Outcomes

-----------------------------------------------------------------------------
\* A fresh heap holds whatever the host left there; only Page() clears it.
Init ==
  /\ pageTable = [pg \in {} |-> Null]
  /\ heap \in [Frame -> [Offsets -> MemByte]]
  /\ tlb = [s \in Slots |-> [virtualAddress |-> 0, physPage |-> Null, valid |-> FALSE]]
  /\ tlbStats = [requests |-> 0, hits |-> 0, misses |-> 0]
  /\ memStats = [loads |-> 0, stores |-> 0]
  /\ result = Outcome("none", 0, 0, "none", <<>>)

-----------------------------------------------------------------------------
Mapped(addr) == IndexPt(addr) \in DOMAIN pageTable

\* Mistake: storage is handed out without looking who has it.
FreeFramesAny == Frame

FreeFrames == Frame \ { pageTable[pg] : pg \in DOMAIN pageTable }

\* Mistake: the slot's validity alone makes a hit.
TLBHitAnyTag(addr) == tlb[GetTLBIndex(addr)].valid

\* tlbLookup finds the address: the slot is valid and holds its page's tag.
TLBHit(addr) ==
  LET found == tlb[GetTLBIndex(addr)]
  IN  found.valid /\ found.virtualAddress = Tag(addr)

TLBLookup(addr) == IF TLBHit(addr) THEN tlb[GetTLBIndex(addr)].physPage ELSE Null

\* Mistake: a valid slot with another page's tag counts as a hit.
CountLookupByValidity(addr) ==
  LET hit == tlb[GetTLBIndex(addr)].valid
  IN  tlbStats' = [requests |-> tlbStats.requests + 1,
                   hits     |-> tlbStats.hits   + (IF hit THEN 1 ELSE 0),
                   misses   |-> tlbStats.misses + (IF hit THEN 0 ELSE 1)]

\* The three counters tlbLookup moves.
CountLookup(addr) ==
  tlbStats' = [requests |-> tlbStats.requests + 1,
               hits     |-> tlbStats.hits   + (IF TLBHit(addr) THEN 1 ELSE 0),
               misses   |-> tlbStats.misses + (IF TLBHit(addr) THEN 0 ELSE 1)]

\* Mistake: the address is kept whole, not masked to its page.
TLBUpdateUnmasked(addr, page) ==
  tlb' = [tlb EXCEPT ![GetTLBIndex(addr)] =
            [virtualAddress |-> addr, physPage |-> page, valid |-> TRUE]]

TLBUpdate(addr, page) ==
  tlb' = [tlb EXCEPT ![GetTLBIndex(addr)] =
            [virtualAddress |-> Tag(addr), physPage |-> page, valid |-> TRUE]]

\* getEntity found the page in the TLB.
FromTLB(addr, page) ==
  /\ TLBLookup(addr) # Null
  /\ page = TLBLookup(addr)
  /\ UNCHANGED <<tlb, pageTable>>

\* getEntity walked the page table and found the page there.
FromPageTable(addr, page) ==
  /\ TLBLookup(addr) = Null
  /\ Mapped(addr)
  /\ page = pageTable[IndexPt(addr)]
  /\ TLBUpdate(addr, page)
  /\ UNCHANGED pageTable

\* Mistake: the new page is entered under its address, not its number.
FromNewPageByTag(addr, page) ==
  /\ TLBLookup(addr) = Null
  /\ ~ Mapped(addr)
  /\ page \in FreeFrames
  /\ pageTable' = [pg \in DOMAIN pageTable \union {Tag(addr)} |->
                     IF pg = Tag(addr) THEN page ELSE pageTable[pg]]
  /\ TLBUpdate(addr, page)

\* pageTable[index] = Page(): the store creates the page.
FromNewPage(addr, page) ==
  /\ TLBLookup(addr) = Null
  /\ ~ Mapped(addr)
  /\ page \in FreeFrames
  /\ pageTable' = [pg \in DOMAIN pageTable \union {IndexPt(addr)} |->
                     IF pg = IndexPt(addr) THEN page ELSE pageTable[pg]]
  /\ TLBUpdate(addr, page)

\* Mistake: the slot is filled before the walk is known to succeed.
WalkThrewAfterUpdate(addr) ==
  /\ TLBLookup(addr) = Null
  /\ ~ Mapped(addr)
  /\ CountLookup(addr)
  /\ TLBUpdate(addr, Null)
  /\ UNCHANGED <<pageTable, heap>>

\* The walk threw: the lookup has been counted, nothing else has happened.
WalkThrew(addr) ==
  /\ TLBLookup(addr) = Null
  /\ ~ Mapped(addr)
  /\ CountLookup(addr)
  /\ UNCHANGED <<tlb, pageTable, heap>>

\* Mistake: the write runs on to the end of the page.
WriteEntityToEnd(c, off, v) ==
  [o \in Offsets |-> IF o \in off .. off + Len(v) - 1 THEN v[o - off + 1]
                     ELSE IF o > off THEN 0 ELSE c[o]]

\* The entity v written into the contents c of a page at an offset.
WriteEntity(c, off, v) ==
  [o \in Offsets |-> IF o \in off .. off + Len(v) - 1 THEN v[o - off + 1] ELSE c[o]]

ReadEntity(c, off, n) == [i \in 1 .. n |-> c[off + i - 1]]

EmptyPage == [o \in Offsets |-> 0]

CountLoad  == memStats' = [memStats EXCEPT !.loads = @ + 1]
CountStore == memStats' = [memStats EXCEPT !.stores = @ + 1]

MayCall == memStats.loads + memStats.stores < MaxCalls

-----------------------------------------------------------------------------
\* loadEntity<T>(addr) with sizeof(T) = n.
LoadMisaligned(addr, n) ==
  /\ CountLoad
  /\ Misaligned(addr, n)
  /\ result' = Outcome("load", addr, n, "misaligned", <<>>)
  /\ UNCHANGED <<tlb, tlbStats, pageTable, heap>>

LoadDone(addr, n) ==
  /\ CountLoad
  /\ ~ Misaligned(addr, n)
  /\ CountLookup(addr)
  /\ \E page \in Frame :
       /\ FromTLB(addr, page) \/ FromPageTable(addr, page)
       /\ result' = Outcome("load", addr, n, "done",
                            ReadEntity(heap[page], GetOffset(addr), n))
  /\ UNCHANGED heap

LoadFault(addr, n) ==
  /\ CountLoad
  /\ ~ Misaligned(addr, n)
  /\ WalkThrew(addr)
  /\ result' = Outcome("load", addr, n, "pagefault", <<>>)

Load(addr, n) == LoadMisaligned(addr, n) \/ LoadDone(addr, n) \/ LoadFault(addr, n)

\* storeEntity<T>(addr, v).
StoreMisaligned(addr, v) ==
  /\ CountStore
  /\ Misaligned(addr, Len(v))
  /\ result' = Outcome("store", addr, Len(v), "misaligned", v)
  /\ UNCHANGED <<tlb, tlbStats, pageTable, heap>>

StoreDone(addr, v) ==
  /\ CountStore
  /\ ~ Misaligned(addr, Len(v))
  /\ CountLookup(addr)
  /\ \E page \in Frame :
       \/ /\ FromTLB(addr, page) \/ FromPageTable(addr, page)
          /\ heap' = [heap EXCEPT ![page] = WriteEntity(@, GetOffset(addr), v)]
       \/ /\ FromNewPage(addr, page)
          /\ heap' = [heap EXCEPT ![page] = WriteEntity(EmptyPage, GetOffset(addr), v)]
  /\ result' = Outcome("store", addr, Len(v), "done", v)

\* The host has no memory for Page() or for the map's node: std::bad_alloc
\* before the entry is linked into the page table.
StoreBadAlloc(addr, v) ==
  /\ CountStore
  /\ ~ Misaligned(addr, Len(v))
  /\ WalkThrew(addr)
  /\ result' = Outcome("store", addr, Len(v), "badalloc", v)

Store(addr, v) == StoreMisaligned(addr, v) \/ StoreDone(addr, v) \/ StoreBadAlloc(addr, v)

Next == /\ MayCall
        /\ \E addr \in Addr :
             \/ \E n \in Sizes : Load(addr, n)
             \/ \E v \in Entities : Store(addr, v)

Spec == Init /\ [][Next]_vars
-----------------------------------------------------------------------------
(* A valid TLB slot speaks of a page that exists: its tag is that page's    *)
(* address, the page belongs in that slot, and the pointer it keeps is the  *)
(* one the page table would return.  tlbLookup trusts all three (memory.cc  *)
(* 28-42); the map growing must never make a kept pointer stale.            *)
TLBCoherent ==
  \A s \in Slots : tlb[s].valid =>
     \E pg \in DOMAIN pageTable :
        /\ tlb[s].virtualAddress = pg * PageBytes
        /\ pg % TLBSize = s
        /\ tlb[s].physPage = pageTable[pg]

(* No two pages share storage: a store to one page cannot show in another   *)
(* (pageTableLookup gives every index a Page of its own).                   *)
PagesDisjoint ==
  \A p, q \in DOMAIN pageTable : pageTable[p] = pageTable[q] => p = q

(* The statistics that main.cc and Hart::run print agree with each other    *)
(* and with the structures: every lookup is a hit or a miss, an access      *)
(* looks up at most once, a page that exists has missed at least once, and  *)
(* no more slots are valid than there are pages.                            *)
StatsAccountForPages ==
  /\ tlbStats.hits + tlbStats.misses = tlbStats.requests
  /\ tlbStats.requests <= memStats.loads + memStats.stores
  /\ Cardinality(DOMAIN pageTable) <= tlbStats.misses
  /\ Cardinality({s \in Slots : tlb[s].valid}) <= Cardinality(DOMAIN pageTable)

(* The page an access has just used is in the TLB: the next access to it,   *)
(* of whatever size, hits.                                                  *)
LastPageCached == result.what = "done" => TLBHit(result.addr)

(* A page never moves and never goes away, and what a step changes of its   *)
(* contents lies in the bytes of the entity that step stored.               *)
PagesStay ==
  [][\A pg \in DOMAIN pageTable :
        /\ pg \in DOMAIN pageTable'
        /\ pageTable'[pg] = pageTable[pg]
        /\ \A o \in Offsets :
             heap'[pageTable[pg]][o] # heap[pageTable[pg]][o] =>
                /\ result'.op = "store"
                /\ pg * PageBytes + o \in
                     result'.addr .. result'.addr + result'.size - 1]_vars

-----------------------------------------------------------------------------
(* Behind the TLB, the page table and the allocation of frames, Memory is   *)
(* the flat store: the byte at an address is the one at its offset in the   *)
(* frame of its page, and 0 where there is no page.                         *)
FlatBytes == [a \in Addr |-> IF Mapped(a)
                             THEN heap[pageTable[IndexPt(a)]][GetOffset(a)]
                             ELSE 0]

Flat == INSTANCE FlatMemory WITH mapped <- DOMAIN pageTable, bytes <- FlatBytes

FlatSpec == Flat!FlatSpec
=============================================================================
