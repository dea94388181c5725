----------------------------- MODULE HartProofs -----------------------------
(***************************************************************************)
(* Blocks end in their only branch, pc follows the block, decoded blocks   *)
(* come from memory and nothing runs after an ecall; execution by cached   *)
(* blocks is execution by instructions.  For every program, address space, *)
(* decoder, cache size and bound.                                          *)
(***************************************************************************)
EXTENDS Hart, TLAPS

\* What createBB has decoded so far is what is in memory, and has no branch.
Creating ==
  phase = "create" =>
    /\ pc = entry /\ addr = Plus(entry, Len(bb) * WordBytes)
    /\ \A i \in 1 .. Len(bb) :
         LET c == Plus(entry, (i - 1) * WordBytes)
         IN  ~ Undecodable(mem, c) /\ bb[i] = Decode[mem[Slot(c)]] /\ ~ IsBranch(bb[i])

\* Memory as the sets held is made of.
Now == [s \in Slots |-> {mem[s]} \ {Unmapped}]

HartInv == /\ TypeOK
           /\ BlocksEndInBranch /\ PCFollowsBlock /\ BlocksFromMemory /\ FreshWithoutCache
           /\ Creating
           /\ \A s \in Slots : Now[s] \subseteq held[s]
           /\ branchIsTaken = FALSE
           /\ complete => phase \in {"lookup", "finished"}
           /\ bbCacheSize = 0 => DOMAIN kept = {}

-----------------------------------------------------------------------------
\* A multiple of P strictly between -P and P is 0.
LEMMA NoMultipleBetween ==
  ASSUME NEW P \in Nat \ {0}, NEW p \in Int, NEW q \in Int,
         NEW o \in 0 .. P - 1, NEW r \in 0 .. P - 1, P * p + o = P * q + r
  PROVE  o = r
<1>1. ASSUME NEW s \in Int, NEW t \in Int, s < t  PROVE P * s + P <= P * t
  <2>1. t - s - 1 \in Nat
    BY <1>1
  <2>2. P * (t - s - 1) \in Nat
    BY <2>1
  <2>3. P * (t - s - 1) = P * t - P * s - P
    OBVIOUS
  <2> QED BY <2>2, <2>3
<1>2. ~ (p < q) /\ ~ (q < p)
  BY <1>1
<1> QED BY <1>2

LEMMA AddrSpaceIsPositive == AddrSpace \in Nat \ {0}
<1>1. NumWords * WordBytes >= 1
  <2>1. NumWords \in Nat \ {0} /\ WordBytes \in Nat \ {0}
    BY NumWordsAssumption, WordBytesAssumption
  <2>2. (NumWords - 1) * WordBytes \in Nat /\ (NumWords - 1) * WordBytes = NumWords * WordBytes - WordBytes
    BY <2>1
  <2> QED BY <2>1, <2>2
<1> QED BY <1>1, NumWordsAssumption, WordBytesAssumption DEF AddrSpace

\* A sum of addresses is the remainder of some division by the address space.
LEMMA PlusIsRemainder ==
  ASSUME NEW a \in Int, NEW d \in Int
  PROVE  Plus(a, d) \in Addr /\ \E q \in Int : a + d = AddrSpace * q + Plus(a, d)
<1> HIDE DEF AddrSpace
<1>1. AddrSpace \in Nat \ {0} /\ a + d \in Int
  BY AddrSpaceIsPositive
<1>2. (a + d) % AddrSpace \in 0 .. AddrSpace - 1 /\ (a + d) \div AddrSpace \in Int
  BY <1>1
<1>3. a + d = AddrSpace * ((a + d) \div AddrSpace) + ((a + d) % AddrSpace)
  BY <1>1
<1> QED BY <1>2, <1>3 DEF Plus, Addr

LEMMA PlusOfPlus ==
  ASSUME NEW a \in Int, NEW d \in Int, NEW e \in Int
  PROVE  Plus(Plus(a, d), e) = Plus(a, d + e)
<1> DEFINE A == AddrSpace  f == d + e  x == Plus(a, d)  y == Plus(x, e)  z == Plus(a, f)
<1>1. A \in Nat \ {0} /\ f \in Int
  BY AddrSpaceIsPositive
<1> HIDE DEF f
<1>2. x \in 0 .. A - 1 /\ \E p \in Int : a + d = A * p + x
  BY PlusIsRemainder DEF Addr
<1>3. z \in 0 .. A - 1 /\ \E r \in Int : a + f = A * r + z
  BY <1>1, PlusIsRemainder DEF Addr
<1> HIDE DEF x, z
<1>4. x \in Int
  BY <1>1, <1>2
<1>5. y \in 0 .. A - 1 /\ \E q \in Int : x + e = A * q + y
  BY <1>4, PlusIsRemainder DEF Addr
<1> HIDE DEF y, A
<1>6. PICK p \in Int, q \in Int, r \in Int :
        a + d = A * p + x /\ x + e = A * q + y /\ a + f = A * r + z
  BY <1>2, <1>3, <1>5
<1>7. A * (p + q) = A * p + A * q
  BY <1>1
<1>8. a + f = (a + d) + e
  BY DEF f
<1>9. A * (p + q) + y = A * r + z
  BY <1>1, <1>2, <1>3, <1>5, <1>6, <1>7, <1>8
<1>10. p + q \in Int
  OBVIOUS
<1>11. y = z
  BY <1>1, <1>3, <1>5, <1>6, <1>9, <1>10, NoMultipleBetween
<1> QED BY <1>11 DEF x, y, z, f

LEMMA PlusZero ==
  ASSUME NEW a \in Addr
  PROVE  Plus(a, 0) = a
<1> DEFINE A == AddrSpace  zero == 0  x == Plus(a, zero)
<1>1. A \in Nat \ {0} /\ a \in 0 .. A - 1 /\ zero \in Int /\ a \in Int
  BY AddrSpaceIsPositive DEF Addr
<1> HIDE DEF zero
<1>2. x \in 0 .. A - 1 /\ \E q \in Int : a + zero = A * q + x
  BY <1>1, PlusIsRemainder DEF Addr
<1> HIDE DEF x, A
<1>3. PICK q \in Int : a + zero = A * q + x
  BY <1>2
<1>4. A * 0 + a = A * q + x
  BY <1>1, <1>2, <1>3 DEF zero
<1>5. a = x
  BY <1>1, <1>2, <1>4, NoMultipleBetween
<1> QED BY <1>5 DEF x, zero

\* Going round the address space once leads back.
LEMMA PlusRound ==
  ASSUME NEW a \in Addr, NEW n \in Int
  PROVE  Plus(a, (n - NumWords) * WordBytes) = Plus(a, n * WordBytes)
<1>0. WordBytes \in Nat /\ NumWords \in Nat
  BY WordBytesAssumption, NumWordsAssumption
<1> DEFINE d == (n - NumWords) * WordBytes  e == n * WordBytes
<1>1. AddrSpace \in Nat \ {0} /\ a \in Int /\ d \in Int /\ e \in Int
  BY <1>0, AddrSpaceIsPositive DEF Addr
<1>2. e = d + AddrSpace
  BY <1>0 DEF AddrSpace
<1> HIDE DEF d, e
<1> DEFINE A == AddrSpace  x == Plus(a, d)  y == Plus(a, e)
<1>3. x \in 0 .. A - 1 /\ \E p \in Int : a + d = A * p + x
  BY <1>1, PlusIsRemainder DEF Addr
<1>4. y \in 0 .. A - 1 /\ \E q \in Int : a + e = A * q + y
  BY <1>1, PlusIsRemainder DEF Addr
<1> HIDE DEF x, y
<1>5. PICK p \in Int, q \in Int : a + d = A * p + x /\ a + e = A * q + y
  BY <1>3, <1>4
<1>6. A * (p + 1) = A * p + A /\ p + 1 \in Int
  BY <1>1
<1>7. A * (p + 1) + x = A * q + y
  BY <1>1, <1>2, <1>3, <1>4, <1>5, <1>6
<1> HIDE DEF A
<1>8. x = y
  BY <1>1, <1>3, <1>4, <1>5, <1>6, <1>7, NoMultipleBetween DEF A
<1> QED BY <1>8 DEF d, e, x, y

LEMMA SlotOfAddr ==
  ASSUME NEW a \in Addr
  PROVE  Slot(a) \in Slots
<1>1. WordBytes \in Nat \ {0} /\ NumWords \in Nat \ {0} /\ a \in Nat
  BY WordBytesAssumption, NumWordsAssumption, AddrSpaceIsPositive DEF Addr
<1>2. /\ a \div WordBytes \in Nat /\ a % WordBytes \in 0 .. WordBytes - 1
      /\ a = WordBytes * (a \div WordBytes) + (a % WordBytes)
  BY <1>1
<1>3. a < NumWords * WordBytes
  BY <1>1, AddrSpaceIsPositive DEF Addr, AddrSpace
<1> DEFINE s == a \div WordBytes
<1>4. s < NumWords
  <2>1. SUFFICES ASSUME s >= NumWords PROVE FALSE
    BY <1>1, <1>2
  <2> HIDE DEF s
  <2>2. s - NumWords \in Nat
    BY <2>1, <1>1, <1>2 DEF s
  <2>3. WordBytes * (s - NumWords) \in Nat
    BY <2>2, <1>1
  <2>4. WordBytes * (s - NumWords) = WordBytes * s - NumWords * WordBytes
    BY <1>1, <1>2 DEF s
  <2> QED BY <1>1, <1>2, <1>3, <2>3, <2>4 DEF s
<1> QED BY <1>1, <1>2, <1>4 DEF Slot, Slots

-----------------------------------------------------------------------------
LEMMA AddrsAreInts == Addr \subseteq Int /\ WordBytes \in Int /\ NumWords \in Int
  BY AddrSpaceIsPositive, WordBytesAssumption, NumWordsAssumption DEF Addr

\* A block made from some contents is made from any that include them.
LEMMA MadeFromMore ==
  ASSUME NEW b \in Seq(Inst), NEW a \in Addr, NEW m, NEW n,
         \A s \in Slots : m[s] \subseteq n[s], MadeFrom(b, a, m)
  PROVE  MadeFrom(b, a, n)
<1> SUFFICES ASSUME NEW i \in 1 .. Len(b)
             PROVE  LET c == Plus(a, (i - 1) * WordBytes)
                    IN  Aligned(c) /\ \E w \in n[Slot(c)] : b[i] = Decode[w]
  BY DEF MadeFrom
<1> DEFINE c == Plus(a, (i - 1) * WordBytes)
<1>1. a \in Int /\ (i - 1) * WordBytes \in Int
  BY AddrsAreInts
<1>2. Slot(c) \in Slots
  BY <1>1, PlusIsRemainder, SlotOfAddr
<1>3. Aligned(c) /\ \E w \in m[Slot(c)] : b[i] = Decode[w]
  BY DEF MadeFrom
<1> QED BY <1>2, <1>3

\* The caches only ever forget to make room.
LEMMA RoomForgets ==
  ASSUME NEW f, NEW g \in MadeRoom(f), bbCacheSize \in Int,
         DOMAIN f \subseteq Addr, f \in [DOMAIN f -> Seq(Inst)]
  PROVE  /\ DOMAIN g \subseteq DOMAIN f /\ g \in [DOMAIN g -> Seq(Inst)]
         /\ \A a \in DOMAIN g : g[a] = f[a]
<1>1. CASE bbCacheSize < 0
  BY <1>1 DEF MadeRoom
<1>2. CASE bbCacheSize = 0
  BY <1>2 DEF MadeRoom
<1>3. CASE bbCacheSize > 0
  <2>1. MadeRoom(f) = IF Cardinality(DOMAIN f) = bbCacheSize
                      THEN { [a \in DOMAIN f \ {k} |-> f[a]] : k \in DOMAIN f }
                      ELSE {f}
    BY <1>3 DEF MadeRoom
  <2>2. g = f \/ \E k \in DOMAIN f : g = [a \in DOMAIN f \ {k} |-> f[a]]
    BY <2>1
  <2> QED BY <2>2
<1> QED BY <1>1, <1>2, <1>3

LEMMA DecodedIsInst ==
  ASSUME TypeOK, NEW a \in Addr, ~ Undecodable(mem, a)
  PROVE  /\ Aligned(a) /\ Slot(a) \in Slots
         /\ mem[Slot(a)] \in Word /\ mem[Slot(a)] # Unmapped
         /\ Decode[mem[Slot(a)]] \in Inst
<1>1. Aligned(a) /\ mem[Slot(a)] # Unmapped
  BY DEF Undecodable, Readable
<1>2. Slot(a) \in Slots
  BY SlotOfAddr
<1>3. mem[Slot(a)] \in Word
  BY <1>1, <1>2 DEF TypeOK
<1> QED BY <1>1, <1>2, <1>3 DEF Inst

LEMMA LookupHitKeeps ==
  ASSUME HartInv, LookupHit
  PROVE  HartInv'
<1>1. /\ phase = "lookup" /\ ~ complete /\ pc \in DOMAIN kept
      /\ bb' = kept[pc] /\ entry' = pc /\ pos' = 1 /\ phase' = "execute"
      /\ UNCHANGED <<bbCacheSize, pc, npc, branchIsTaken, complete, mem, held, kept, addr, instrCount, retired>>
  BY DEF LookupHit, stateVars
<1>2. TypeOK /\ TypeOK'
  <2>1. TypeOK
    BY DEF HartInv
  <2>2. bb' \in Seq(Inst) /\ entry' \in Addr /\ pos' \in Nat /\ phase' \in Phases
    BY <1>1, <2>1 DEF TypeOK, Phases
  <2> QED BY <1>1, <2>1, <2>2 DEF TypeOK
<1>3. BlocksEndInBranch'
  <2>1. IsBlock(kept[pc]) /\ kept[pc] \in Seq(Inst)
    BY <1>1, <1>2 DEF HartInv, BlocksEndInBranch, TypeOK
  <2>2. 1 \in 1 .. Len(kept[pc])
    BY <2>1 DEF IsBlock
  <2>3. \A a \in DOMAIN kept : IsBlock(kept[a])
    BY DEF HartInv, BlocksEndInBranch
  <2> QED BY <1>1, <2>1, <2>2, <2>3 DEF BlocksEndInBranch, IsBlock
<1>4. PCFollowsBlock'
  <2>1. pc \in Addr /\ WordBytes \in Int
    BY <1>2, AddrsAreInts DEF TypeOK
  <2>2. pc = Plus(pc, (1 - 1) * WordBytes)
    BY <2>1, PlusZero
  <2> QED BY <1>1, <2>2 DEF PCFollowsBlock
<1>5. BlocksFromMemory'
  BY <1>1 DEF HartInv, BlocksFromMemory, MadeFrom
<1>6. FreshWithoutCache'
  BY <1>1 DEF HartInv, FreshWithoutCache
<1>7. Creating'
  BY <1>1 DEF Creating
<1>8. /\ \A s \in Slots : Now'[s] \subseteq held'[s]
      /\ branchIsTaken' = FALSE
      /\ complete' => phase' \in {"lookup", "finished"}
      /\ bbCacheSize' = 0 => DOMAIN kept' = {}
  BY <1>1 DEF HartInv, Now
<1> QED BY <1>2, <1>3, <1>4, <1>5, <1>6, <1>7, <1>8 DEF HartInv

LEMMA LookupMissKeeps ==
  ASSUME HartInv, LookupMiss
  PROVE  HartInv'
<1>1. /\ phase = "lookup" /\ ~ complete /\ pc \notin DOMAIN kept /\ kept' \in MadeRoom(kept)
      /\ bb' = <<>> /\ entry' = pc /\ addr' = pc /\ phase' = "create"
      /\ UNCHANGED <<bbCacheSize, pc, npc, branchIsTaken, complete, mem, held, pos, instrCount, retired>>
  BY DEF LookupMiss, stateVars
<1>2. TypeOK /\ pc \in Addr /\ bbCacheSize \in Int
  BY CacheSizesAssumption DEF HartInv, TypeOK
<1>3. /\ DOMAIN kept' \subseteq DOMAIN kept /\ kept' \in [DOMAIN kept' -> Seq(Inst)]
      /\ \A a \in DOMAIN kept' : kept'[a] = kept[a]
  BY <1>1, <1>2, RoomForgets DEF TypeOK
<1>4. Len(bb') = 0 /\ bb' \in Seq(Inst)
  BY <1>1
<1>5. TypeOK'
  <2>1. phase' \in Phases /\ addr' \in Addr /\ entry' \in Addr /\ DOMAIN kept' \subseteq Addr
    BY <1>1, <1>2, <1>3 DEF Phases, TypeOK
  <2> QED BY <1>1, <1>2, <1>3, <1>4, <2>1 DEF TypeOK
<1>6. BlocksEndInBranch'
  BY <1>1, <1>3 DEF HartInv, BlocksEndInBranch, IsBlock
<1>7. PCFollowsBlock' /\ FreshWithoutCache'
  BY <1>1 DEF PCFollowsBlock, FreshWithoutCache
<1>8. BlocksFromMemory'
  <2>1. \A a \in DOMAIN kept' : MadeFrom(kept'[a], a, held')
    BY <1>1, <1>3 DEF HartInv, BlocksFromMemory, MadeFrom
  <2>2. MadeFrom(bb', entry', held')
    BY <1>4 DEF MadeFrom
  <2> QED BY <2>1, <2>2 DEF BlocksFromMemory, MadeFrom
<1>9. Creating'
  <2>1. Plus(pc, Len(bb') * WordBytes) = pc
    BY <1>2, <1>4, PlusZero, AddrsAreInts
  <2> QED BY <1>1, <1>4, <2>1 DEF Creating
<1>10. /\ \A s \in Slots : Now'[s] \subseteq held'[s]
       /\ branchIsTaken' = FALSE
       /\ complete' => phase' \in {"lookup", "finished"}
       /\ bbCacheSize' = 0 => DOMAIN kept' = {}
  BY <1>1, <1>3 DEF HartInv, Now
<1> QED BY <1>5, <1>6, <1>7, <1>8, <1>9, <1>10 DEF HartInv

LEMMA AbortKeeps ==
  ASSUME HartInv, Abort, phase \in {"create", "execute"}
  PROVE  HartInv'
<1>1. /\ phase' = "aborted"
      /\ UNCHANGED <<bbCacheSize, pc, npc, branchIsTaken, complete, mem, held, kept, addr, bb, entry, pos,
                     instrCount, retired>>
  BY DEF Abort, stateVars
<1>2. TypeOK'
  BY <1>1 DEF HartInv, TypeOK, Phases
<1>3. ~ complete
  BY DEF HartInv
<1>4. BlocksEndInBranch'
  BY <1>1 DEF HartInv, BlocksEndInBranch, IsBlock
<1>5. BlocksFromMemory'
  BY <1>1 DEF HartInv, BlocksFromMemory, MadeFrom
<1>6. PCFollowsBlock' /\ FreshWithoutCache' /\ Creating'
  BY <1>1 DEF PCFollowsBlock, FreshWithoutCache, Creating
<1>7. /\ \A s \in Slots : Now'[s] \subseteq held'[s]
      /\ branchIsTaken' = FALSE
      /\ complete' => phase' \in {"lookup", "finished"}
      /\ bbCacheSize' = 0 => DOMAIN kept' = {}
  BY <1>1, <1>3 DEF HartInv, Now
<1> QED BY <1>2, <1>4, <1>5, <1>6, <1>7 DEF HartInv

LEMMA FinishKeeps ==
  ASSUME HartInv, Finish
  PROVE  HartInv'
<1>1. /\ phase' = "finished"
      /\ UNCHANGED <<bbCacheSize, pc, npc, branchIsTaken, complete, mem, held, kept, addr, bb, entry, pos,
                     instrCount, retired>>
  BY DEF Finish, stateVars
<1>2. TypeOK'
  BY <1>1 DEF HartInv, TypeOK, Phases
<1> QED BY <1>1, <1>2 DEF HartInv, BlocksEndInBranch, IsBlock, PCFollowsBlock, BlocksFromMemory, MadeFrom,
           FreshWithoutCache, Creating, Now

LEMMA DecodeInstKeeps ==
  ASSUME HartInv, DecodeInst
  PROVE  HartInv'
<1> DEFINE inst == Decode[mem[Slot(addr)]]
           n == Len(bb)
<1>1. /\ phase = "create" /\ ~ Undecodable(mem, addr)
      /\ bb' = Append(bb, inst) /\ addr' = Plus(addr, WordBytes)
      /\ IF IsBranch(inst) THEN kept' = Keep(kept, entry, bb') /\ phase' = "execute" /\ pos' = 1
                           ELSE UNCHANGED <<kept, phase, pos>>
      /\ UNCHANGED <<bbCacheSize, pc, npc, branchIsTaken, complete, mem, held, entry, instrCount, retired>>
  BY DEF DecodeInst, stateVars
<1>2. /\ TypeOK /\ bb \in Seq(Inst) /\ n \in Nat /\ entry \in Addr /\ addr \in Addr
      /\ bbCacheSize \in Int /\ DOMAIN kept \subseteq Addr /\ kept \in [DOMAIN kept -> Seq(Inst)]
  BY CacheSizesAssumption DEF HartInv, TypeOK
<1>3. /\ Aligned(addr) /\ Slot(addr) \in Slots /\ mem[Slot(addr)] # Unmapped /\ inst \in Inst
  BY <1>1, <1>2, DecodedIsInst
<1>4. /\ pc = entry /\ addr = Plus(entry, n * WordBytes)
      /\ \A i \in 1 .. n : LET c == Plus(entry, (i - 1) * WordBytes)
                           IN  ~ Undecodable(mem, c) /\ bb[i] = Decode[mem[Slot(c)]] /\ ~ IsBranch(bb[i])
  BY <1>1 DEF HartInv, Creating
<1> HIDE DEF inst
<1>5. /\ bb' \in Seq(Inst) /\ Len(bb') = n + 1 /\ bb'[n + 1] = inst
      /\ \A i \in 1 .. n : bb'[i] = bb[i]
  BY <1>1, <1>2, <1>3
<1>6. \A i \in 1 .. n + 1 : LET c == Plus(entry, (i - 1) * WordBytes)
                            IN  ~ Undecodable(mem, c) /\ bb'[i] = Decode[mem[Slot(c)]]
  <2>1. ASSUME NEW i \in 1 .. n
        PROVE  LET c == Plus(entry, (i - 1) * WordBytes)
               IN  ~ Undecodable(mem, c) /\ bb'[i] = Decode[mem[Slot(c)]]
    BY <1>4, <1>5
  <2>2. (n + 1) - 1 = n
    BY <1>2
  <2>3. LET c == Plus(entry, ((n + 1) - 1) * WordBytes)
        IN  ~ Undecodable(mem, c) /\ bb'[n + 1] = Decode[mem[Slot(c)]]
    BY <2>2, <1>1, <1>4, <1>5 DEF inst
  <2>4. \A i \in 1 .. n + 1 : i \in 1 .. n \/ i = n + 1
    BY <1>2
  <2> QED BY <2>1, <2>3, <2>4
<1>7. \A i \in 1 .. n : ~ IsBranch(bb'[i])
  BY <1>4, <1>5
<1>8. addr' = Plus(entry, Len(bb') * WordBytes) /\ addr' \in Addr
  <2>1. (n + 1) * WordBytes = n * WordBytes + WordBytes /\ n * WordBytes \in Int
    BY <1>2, AddrsAreInts
  <2>2. addr' = Plus(entry, n * WordBytes + WordBytes)
    BY <1>1, <1>2, <1>4, <2>1, PlusOfPlus, AddrsAreInts
  <2>3. addr \in Int /\ WordBytes \in Int
    BY <1>2, AddrsAreInts
  <2> QED BY <1>1, <1>5, <2>1, <2>2, <2>3, PlusIsRemainder
<1>9. MadeFrom(bb', entry, Now)
  <2>1. SUFFICES ASSUME NEW i \in 1 .. n + 1
                 PROVE  LET c == Plus(entry, (i - 1) * WordBytes)
                        IN  Aligned(c) /\ \E w \in Now[Slot(c)] : bb'[i] = Decode[w]
    BY <1>5 DEF MadeFrom
  <2> DEFINE c == Plus(entry, (i - 1) * WordBytes)
  <2>2. entry \in Int /\ (i - 1) * WordBytes \in Int
    BY <1>2, AddrsAreInts
  <2>3. c \in Addr /\ ~ Undecodable(mem, c) /\ bb'[i] = Decode[mem[Slot(c)]]
    BY <1>6, <2>2, PlusIsRemainder
  <2>4. Aligned(c) /\ Slot(c) \in Slots /\ mem[Slot(c)] # Unmapped
    BY <1>2, <2>3, DecodedIsInst
  <2>5. mem[Slot(c)] \in Now[Slot(c)]
    BY <2>4 DEF Now
  <2> QED BY <2>3, <2>4, <2>5
<1>10. MadeFrom(bb', entry, held)
  BY <1>2, <1>5, <1>9, MadeFromMore DEF HartInv
<1>11. /\ DOMAIN kept' \subseteq Addr /\ kept' \in [DOMAIN kept' -> Seq(Inst)]
       /\ \A a \in DOMAIN kept' : \/ a \in DOMAIN kept /\ kept'[a] = kept[a]
                                  \/ IsBranch(inst) /\ a = entry /\ kept'[a] = bb'
       /\ bbCacheSize = 0 => DOMAIN kept' = DOMAIN kept
  <2>1. CASE IsBranch(inst) /\ bbCacheSize # 0
    <3>1. kept' = [a \in DOMAIN kept \union {entry} |-> IF a = entry THEN bb' ELSE kept[a]]
      BY <1>1, <2>1 DEF Keep, With, inst
    <3> QED BY <3>1, <2>1, <1>2, <1>5
  <2>2. CASE IsBranch(inst) /\ bbCacheSize = 0
    <3>1. kept' = kept
      BY <1>1, <2>2 DEF Keep, inst
    <3> QED BY <3>1, <1>2
  <2>3. CASE ~ IsBranch(inst)
    <3>1. kept' = kept
      BY <1>1, <2>3 DEF inst
    <3> QED BY <3>1, <1>2
  <2> QED BY <2>1, <2>2, <2>3
<1>12. (phase' = "create" /\ ~ IsBranch(inst)) \/ (phase' = "execute" /\ pos' = 1 /\ IsBranch(inst))
  BY <1>1 DEF inst
<1>13. IsBranch(inst) => IsBlock(bb') /\ 1 \in 1 .. Len(bb')
  <2>1. SUFFICES ASSUME IsBranch(inst) PROVE IsBlock(bb') /\ 1 \in 1 .. Len(bb')
    OBVIOUS
  <2>2. bb' # <<>> /\ 1 \in 1 .. Len(bb')
    BY <1>2, <1>5
  <2>3. \A i \in 1 .. Len(bb') : IsBranch(bb'[i]) <=> i = Len(bb')
    <3>1. \A i \in 1 .. n + 1 : i \in 1 .. n \/ i = n + 1
      BY <1>2
    <3>2. \A i \in 1 .. n : i # n + 1
      BY <1>2
    <3> QED BY <3>1, <3>2, <2>1, <1>5, <1>7
  <2> QED BY <2>2, <2>3 DEF IsBlock
<1>14. TypeOK'
  <2>1. phase' \in Phases /\ pos' \in Nat
    BY <1>1, <1>2, <1>12 DEF Phases, TypeOK
  <2> QED BY <1>1, <1>2, <1>5, <1>8, <1>11, <2>1 DEF TypeOK
<1>15. BlocksEndInBranch'
  <2>1. \A a \in DOMAIN kept' : IsBlock(kept'[a])
    BY <1>11, <1>13 DEF HartInv, BlocksEndInBranch
  <2>2. phase' = "execute" => IsBlock(bb') /\ pos' \in 1 .. Len(bb')
    BY <1>12, <1>13
  <2> QED BY <2>1, <2>2 DEF BlocksEndInBranch, IsBlock
<1>16. PCFollowsBlock'
  <2>1. entry = Plus(entry, (1 - 1) * WordBytes)
    BY <1>2, AddrsAreInts, PlusZero
  <2> QED BY <1>1, <1>4, <1>12, <2>1 DEF PCFollowsBlock
<1>17. BlocksFromMemory'
  <2>1. \A a \in DOMAIN kept' : MadeFrom(kept'[a], a, held)
    BY <1>10, <1>11 DEF HartInv, BlocksFromMemory
  <2> QED BY <1>1, <1>10, <2>1 DEF BlocksFromMemory, MadeFrom
<1>18. FreshWithoutCache'
  <2>1. MadeFrom(bb', entry', [s \in Slots |-> {mem'[s]} \ {Unmapped}])
    BY <1>1, <1>9 DEF Now
  <2> QED BY <2>1 DEF FreshWithoutCache, MadeFrom
<1>19. Creating'
  <2>1. SUFFICES ASSUME phase' = "create"
                 PROVE  /\ pc = entry /\ addr' = Plus(entry, Len(bb') * WordBytes)
                        /\ \A i \in 1 .. n + 1 :
                             LET c == Plus(entry, (i - 1) * WordBytes)
                             IN  /\ ~ Undecodable(mem, c) /\ bb'[i] = Decode[mem[Slot(c)]]
                                 /\ ~ IsBranch(bb'[i])
    BY <1>1, <1>5 DEF Creating
  <2>2. \A i \in 1 .. n + 1 : ~ IsBranch(bb'[i])
    <3>1. \A i \in 1 .. n + 1 : i \in 1 .. n \/ i = n + 1
      BY <1>2
    <3>2. ~ IsBranch(inst)
      BY <1>12, <2>1
    <3> QED BY <3>1, <3>2, <1>5, <1>7
  <2> QED BY <2>2, <1>4, <1>6, <1>8
<1>20. /\ \A s \in Slots : Now'[s] \subseteq held'[s]
       /\ branchIsTaken' = FALSE
       /\ complete' => phase' \in {"lookup", "finished"}
       /\ bbCacheSize' = 0 => DOMAIN kept' = {}
  BY <1>1, <1>11 DEF HartInv, Now
<1> QED BY <1>14, <1>15, <1>16, <1>17, <1>18, <1>19, <1>20 DEF HartInv

-----------------------------------------------------------------------------
\* A store leaves words in memory, each of them among those held from then on.
LEMMA StoredIsMemory ==
  ASSUME mem \in [Slots -> Word \union {Unmapped}], NEW a \in Addr, NEW w \in StoreWords
  PROVE  Stored(mem, a, w) \in [Slots -> Word \union {Unmapped}]
<1>1. w \in Word /\ Zero \in Word
  BY WordAssumption
<1> QED BY <1>1 DEF Stored

LEMMA MemoryKeeps ==
  ASSUME TypeOK, \A s \in Slots : Now[s] \subseteq held[s], NEW inst, Memory(inst)
  PROVE  /\ mem' \in [Slots -> Word \union {Unmapped}]
         /\ held' \in [Slots -> SUBSET Word]
         /\ \A s \in Slots : held[s] \subseteq held'[s] /\ Now'[s] \subseteq held'[s]
<1>1. CASE inst.kind = "store"
  <2>1. mem' \in [Slots -> Word \union {Unmapped}]
    BY <1>1, StoredIsMemory DEF Memory, TypeOK
  <2>2. held' = [s \in Slots |-> held[s] \union ({mem'[s]} \ {Unmapped})]
    BY <1>1 DEF Memory
  <2>3. \A s \in Slots : Now'[s] = {mem'[s]} \ {Unmapped}
    BY DEF Now
  <2>4. \A s \in Slots : held[s] \in SUBSET Word /\ {mem'[s]} \ {Unmapped} \in SUBSET Word
    BY <2>1 DEF TypeOK
  <2> QED BY <2>1, <2>2, <2>3, <2>4
<1>2. CASE inst.kind # "store"
  <2>1. mem' = mem /\ held' = held
    BY <1>2 DEF Memory
  <2> QED BY <2>1 DEF TypeOK, Now
<1> QED BY <1>1, <1>2

LEMMA TargetsAreAddrs ==
  ASSUME NEW i \in Inst, NEW a \in Addr
  PROVE  Targets(i, a) \subseteq Addr
<1>1. i.imm \in Int
  BY DecodeAssumption DEF Inst
<1>2. a \in Int
  BY AddrsAreInts
<1>3. Plus(a, i.imm) \in Addr
  BY <1>1, <1>2, PlusIsRemainder
<1> QED BY <1>3 DEF Targets

LEMMA ExecuteKeeps ==
  ASSUME HartInv, Execute
  PROVE  HartInv'
<1> DEFINE inst == bb[pos]
<1>1. /\ phase = "execute"
      /\ \/ MayFallThrough(inst) /\ UpdatePC(branchIsTaken, npc)
         \/ MayBranch(inst) /\ \E a \in Targets(inst, pc) : UpdatePC(TRUE, a)
      /\ complete' = (complete \/ inst.kind = "ecall")
      /\ Memory(inst)
      /\ instrCount' = instrCount + 1 /\ retired' = retired + 1 /\ pos' = pos + 1
      /\ phase' = (IF pos = Len(bb) THEN "lookup" ELSE "execute")
      /\ UNCHANGED <<bbCacheSize, kept, addr, bb, entry>>
  BY DEF Execute
<1>2. /\ TypeOK /\ bb \in Seq(Inst) /\ pos \in 1 .. Len(bb) /\ inst \in Inst
      /\ pc \in Addr /\ npc \in Addr /\ entry \in Addr /\ instrCount \in Nat /\ retired \in Nat
  BY <1>1 DEF HartInv, TypeOK, BlocksEndInBranch
<1>3. IsBranch(inst) <=> pos = Len(bb)
  BY <1>1, <1>2 DEF HartInv, BlocksEndInBranch, IsBlock
<1>4. ~ complete /\ branchIsTaken = FALSE
  BY <1>1 DEF HartInv
<1>5. /\ mem' \in [Slots -> Word \union {Unmapped}] /\ held' \in [Slots -> SUBSET Word]
      /\ \A s \in Slots : held[s] \subseteq held'[s] /\ Now'[s] \subseteq held'[s]
  BY <1>1, <1>2, MemoryKeeps DEF HartInv
<1>6. pc = Plus(entry, (pos - 1) * WordBytes)
  BY <1>1 DEF HartInv, PCFollowsBlock
<1> HIDE DEF inst
<1>7. /\ branchIsTaken' = FALSE /\ npc' \in Addr
      /\ pc' = Plus(pc, WordBytes) \/ (IsBranch(inst) /\ pc' \in Addr)
  <2>1. CASE MayFallThrough(inst) /\ UpdatePC(branchIsTaken, npc)
    BY <2>1, <1>2, <1>4 DEF UpdatePC
  <2>2. CASE MayBranch(inst) /\ \E a \in Targets(inst, pc) : UpdatePC(TRUE, a)
    <3>1. PICK a \in Targets(inst, pc) : UpdatePC(TRUE, a)
      BY <2>2
    <3>2. a \in Addr
      BY <1>2, TargetsAreAddrs
    <3>3. IsBranch(inst)
      BY <2>2 DEF MayBranch, IsBranch
    <3> QED BY <3>1, <3>2, <3>3 DEF UpdatePC
  <2> QED BY <1>1, <2>1, <2>2
<1>8. pc' \in Addr
  <2>1. pc \in Int /\ WordBytes \in Int
    BY <1>2, AddrsAreInts
  <2> QED BY <2>1, <1>7, PlusIsRemainder
<1>9. TypeOK'
  <2>1. phase' \in Phases /\ complete' \in BOOLEAN /\ pos' \in Nat
    BY <1>1, <1>2 DEF Phases
  <2>2. branchIsTaken' \in BOOLEAN
    BY <1>7
  <2>3. instrCount' \in Nat /\ retired' \in Nat
    BY <1>1, <1>2
  <2> QED BY <1>1, <1>2, <1>5, <1>7, <1>8, <2>1, <2>2, <2>3 DEF TypeOK
<1>10. BlocksEndInBranch'
  <2>1. \A a \in DOMAIN kept' : IsBlock(kept'[a])
    BY <1>1 DEF HartInv, BlocksEndInBranch
  <2>2. phase' = "execute" => pos' \in 1 .. Len(bb')
    BY <1>1, <1>2
  <2>3. IsBlock(bb')
    BY <1>1 DEF HartInv, BlocksEndInBranch
  <2> QED BY <2>1, <2>2, <2>3 DEF BlocksEndInBranch, IsBlock
<1>11. PCFollowsBlock'
  <2>1. SUFFICES ASSUME phase' = "execute" PROVE pc' = Plus(entry, (pos' - 1) * WordBytes)
    BY <1>1 DEF PCFollowsBlock
  <2>2. pc' = Plus(pc, WordBytes)
    BY <2>1, <1>1, <1>3, <1>7
  <2>3. /\ entry \in Int /\ WordBytes \in Int /\ pos \in Int /\ (pos - 1) * WordBytes \in Int
    BY <1>2, AddrsAreInts
  <2>4. (pos' - 1) * WordBytes = (pos - 1) * WordBytes + WordBytes
    BY <1>1, <2>3
  <2> QED BY <2>2, <2>3, <2>4, <1>6, PlusOfPlus
<1>12. BlocksFromMemory'
  <2>1. \A a \in DOMAIN kept' : MadeFrom(kept'[a], a, held')
    <3>1. SUFFICES ASSUME NEW a \in DOMAIN kept PROVE MadeFrom(kept[a], a, held')
      BY <1>1
    <3>2. a \in Addr /\ kept[a] \in Seq(Inst) /\ MadeFrom(kept[a], a, held)
      BY <1>2 DEF HartInv, BlocksFromMemory, TypeOK
    <3> QED BY <3>2, <1>5, MadeFromMore
  <2>2. MadeFrom(bb, entry, held)
    BY <1>1 DEF HartInv, BlocksFromMemory
  <2>3. MadeFrom(bb, entry, held')
    BY <1>2, <1>5, <2>2, MadeFromMore
  <2> QED BY <1>1, <2>1, <2>3 DEF BlocksFromMemory, MadeFrom
<1>13. FreshWithoutCache'
  <2>1. pos' # 1
    BY <1>1, <1>2
  <2> QED BY <2>1 DEF FreshWithoutCache
<1>14. Creating'
  <2>1. phase' # "create"
    BY <1>1
  <2> QED BY <2>1 DEF Creating
<1>15. complete' => phase' \in {"lookup", "finished"}
  <2>1. inst.kind = "ecall" => IsBranch(inst)
    BY DEF IsBranch
  <2> QED BY <2>1, <1>1, <1>3, <1>4
<1>16. bbCacheSize' = 0 => DOMAIN kept' = {}
  BY <1>1 DEF HartInv
<1> QED BY <1>5, <1>7, <1>9, <1>10, <1>11, <1>12, <1>13, <1>14, <1>15, <1>16 DEF HartInv

LEMMA HartInvStarts ==
  ASSUME Init  PROVE HartInv
<1>1. TypeOK
  <2>1. 0 \in Addr
    BY AddrSpaceIsPositive DEF Addr
  <2>2. held \in [Slots -> SUBSET Word]
    BY DEF Init
  <2>3. kept \in [DOMAIN kept -> Seq(Inst)] /\ DOMAIN kept \subseteq Addr
    BY DEF Init
  <2>4. phase \in Phases /\ bb \in Seq(Inst)
    BY DEF Init, Phases
  <2>7. branchIsTaken \in BOOLEAN /\ complete \in BOOLEAN
    BY DEF Init
  <2>5. pc \in Addr /\ npc \in Addr /\ addr \in Addr /\ entry \in Addr /\ bbCacheSize \in CacheSizes
    BY <2>1 DEF Init
  <2>6. mem \in [Slots -> Word \union {Unmapped}] /\ pos \in Nat /\ instrCount \in Nat /\ retired \in Nat
    BY DEF Init
  <2> QED BY <2>2, <2>3, <2>4, <2>5, <2>6, <2>7 DEF TypeOK
<1>2. BlocksEndInBranch /\ PCFollowsBlock /\ BlocksFromMemory /\ FreshWithoutCache /\ Creating
  BY DEF Init, BlocksEndInBranch, PCFollowsBlock, BlocksFromMemory, FreshWithoutCache, Creating
<1>3. /\ \A s \in Slots : Now[s] \subseteq held[s]
      /\ branchIsTaken = FALSE
      /\ complete => phase \in {"lookup", "finished"}
      /\ bbCacheSize = 0 => DOMAIN kept = {}
  BY DEF Init, Now
<1> QED BY <1>1, <1>2, <1>3 DEF HartInv

LEMMA HartInvKept ==
  ASSUME HartInv, [Next]_vars  PROVE HartInv'
<1>1. CASE LookupHit
  BY <1>1, LookupHitKeeps
<1>2. CASE LookupMiss
  BY <1>2, LookupMissKeeps
<1>3. CASE DecodeInst
  BY <1>3, DecodeInstKeeps
<1>4. CASE DecodeThrew
  BY <1>4, AbortKeeps DEF DecodeThrew
<1>5. CASE Execute
  BY <1>5, ExecuteKeeps
<1>6. CASE ExecuteThrew
  BY <1>6, AbortKeeps DEF ExecuteThrew
<1>7. CASE Finish
  BY <1>7, FinishKeeps
<1>8. CASE UNCHANGED vars
  <2>1. UNCHANGED <<bbCacheSize, pc, npc, branchIsTaken, complete, mem, held, kept, phase, addr, bb, entry, pos,
                    instrCount, retired>>
    BY <1>8 DEF vars, stateVars, runVars
  <2>2. TypeOK'
    BY <2>1 DEF HartInv, TypeOK
  <2>3. BlocksEndInBranch' /\ PCFollowsBlock'
    BY <2>1 DEF HartInv, BlocksEndInBranch, IsBlock, PCFollowsBlock
  <2>4. BlocksFromMemory'
    BY <2>1 DEF HartInv, BlocksFromMemory, MadeFrom
  <2>5. FreshWithoutCache'
    BY <2>1 DEF HartInv, FreshWithoutCache, MadeFrom
  <2>6. Creating'
    BY <2>1 DEF HartInv, Creating
  <2>7. /\ \A s \in Slots : Now'[s] \subseteq held'[s]
        /\ branchIsTaken' = FALSE
        /\ complete' => phase' \in {"lookup", "finished"}
        /\ bbCacheSize' = 0 => DOMAIN kept' = {}
    BY <2>1 DEF HartInv, Now
  <2> QED BY <2>2, <2>3, <2>4, <2>5, <2>6, <2>7 DEF HartInv
<1> QED BY <1>1, <1>2, <1>3, <1>4, <1>5, <1>6, <1>7, <1>8 DEF Next

LEMMA HartInvHolds == Spec => []HartInv
<1>1. Init => HartInv
  BY HartInvStarts
<1>2. HartInv /\ [Next]_vars => HartInv'
  BY HartInvKept
<1> QED BY <1>1, <1>2, PTL DEF Spec

-----------------------------------------------------------------------------
(* Hart::run's state keeps its types: pc and createBB's running address stay *)
(* in the address space, whatever the program jumps to.                      *)
THEOREM HartTypeCorrect == Spec => []TypeOK
<1>1. HartInv => TypeOK
  BY DEF HartInv
<1> QED BY <1>1, HartInvHolds, PTL

(* createBB and the caches hand the executor only blocks that end in their   *)
(* only branch, so that nothing of a block runs after it has been left.      *)
THEOREM BlocksAlwaysEndInBranch == Spec => []BlocksEndInBranch
<1>1. HartInv => BlocksEndInBranch
  BY DEF HartInv
<1> QED BY <1>1, HartInvHolds, PTL

(* The executor's pc is the address of the instruction its iterator is at,   *)
(* although for_each never compares the two.                                 *)
THEOREM PCAlwaysFollowsBlock == Spec => []PCFollowsBlock
<1>1. HartInv => PCFollowsBlock
  BY DEF HartInv
<1> QED BY <1>1, HartInvHolds, PTL

(* Whatever the program stores over its own code, a decoded instruction in a *)
(* cache or in hand decodes a word that its own address has held.            *)
THEOREM BlocksAlwaysFromMemory == Spec => []BlocksFromMemory
<1>1. HartInv => BlocksFromMemory
  BY DEF HartInv
<1> QED BY <1>1, HartInvHolds, PTL

(* With --bbc-size 0 a store to code is seen by the next block.              *)
THEOREM AlwaysFreshWithoutCache == Spec => []FreshWithoutCache
<1>1. HartInv => FreshWithoutCache
  BY DEF HartInv
<1> QED BY <1>1, HartInvHolds, PTL

(* run looks at complete only between blocks, and yet nothing executes once  *)
(* an ecall has set it.                                                      *)
THEOREM NothingRunsAfterComplete == Spec => NothingAfterComplete
<1>1. HartInv /\ [Next]_vars => [complete => UNCHANGED <<pc, mem, retired>>]_vars
  <2>1. SUFFICES ASSUME HartInv, Next, complete PROVE UNCHANGED <<pc, mem, retired>>
    OBVIOUS
  <2>2. phase \in {"lookup", "finished"}
    BY <2>1 DEF HartInv
  <2>3. Finish
    BY <2>1, <2>2 DEF Next, LookupHit, LookupMiss, DecodeInst, DecodeThrew, Execute, ExecuteThrew
  <2> QED BY <2>3 DEF Finish, stateVars
<1> QED BY <1>1, HartInvHolds, PTL DEF Spec, NothingAfterComplete

-----------------------------------------------------------------------------
\* What is executed is an instruction its address, pc, has held.
LEMMA ExecutesWhatWasHeld ==
  ASSUME HartInv, phase = "execute"
  PROVE  /\ Aligned(pc) /\ \E w \in held[Slot(pc)] : bb[pos] = Decode[w]
         /\ Status = "running" /\ ~ complete /\ branchIsTaken = FALSE
<1>1. pos \in 1 .. Len(bb) /\ pc = Plus(entry, (pos - 1) * WordBytes) /\ MadeFrom(bb, entry, held)
  BY DEF HartInv, BlocksEndInBranch, PCFollowsBlock, BlocksFromMemory
<1>2. Aligned(pc) /\ \E w \in held[Slot(pc)] : bb[pos] = Decode[w]
  BY <1>1 DEF MadeFrom
<1>3. ~ complete /\ branchIsTaken = FALSE
  BY DEF HartInv
<1> QED BY <1>2, <1>3 DEF Status

\* The straight-line code that createBB has decoded when it meets a word that is
\* no instruction is shorter than the address space, or it would have met it
\* a round earlier.
LEMMA DecodeThrewGivesUp ==
  ASSUME HartInv, DecodeThrew
  PROVE  Unblocked!IsaNext
<1> DEFINE n == Len(bb)
<1>1. phase = "create" /\ Undecodable(mem, addr) /\ phase' = "aborted" /\ UNCHANGED <<pc, mem, held>>
  BY DEF DecodeThrew, Abort, stateVars
<1>2. /\ pc = entry /\ addr = Plus(pc, n * WordBytes) /\ pc \in Addr /\ n \in Nat /\ NumWords \in Nat
  BY <1>1, NumWordsAssumption DEF HartInv, Creating, TypeOK
<1>3. \A i \in 1 .. n : /\ ~ Undecodable(mem, Plus(pc, (i - 1) * WordBytes))
                        /\ ~ IsBranch(Decode[mem[Slot(Plus(pc, (i - 1) * WordBytes))]])
  BY <1>1 DEF HartInv, Creating
<1>4. \A i \in 0 .. n - 1 : /\ ~ Undecodable(mem, Plus(pc, i * WordBytes))
                            /\ ~ IsBranch(Decode[mem[Slot(Plus(pc, i * WordBytes))]])
  <2>1. SUFFICES ASSUME NEW i \in 0 .. n - 1
                 PROVE  /\ ~ Undecodable(mem, Plus(pc, i * WordBytes))
                        /\ ~ IsBranch(Decode[mem[Slot(Plus(pc, i * WordBytes))]])
    OBVIOUS
  <2>2. i + 1 \in 1 .. n /\ (i + 1) - 1 = i
    BY <1>2
  <2> QED BY <2>2, <1>3
<1>5. n \in 0 .. NumWords
  <2>1. SUFFICES ASSUME n > NumWords PROVE FALSE
    BY <1>2
  <2>2. n - NumWords \in 0 .. n - 1 /\ n \in Int
    BY <2>1, <1>2, NumWordsAssumption
  <2>3. Plus(pc, (n - NumWords) * WordBytes) = addr
    BY <1>2, <2>2, PlusRound
  <2> QED BY <1>1, <1>4, <2>2, <2>3
<1>6. Status = "running" /\ Status' = "aborted"
  BY <1>1 DEF HartInv, Status
<1>7. Unblocked!GiveUp
  BY <1>1, <1>2, <1>4, <1>5, <1>6
     DEF Unblocked!GiveUp, Unblocked!Undecodable, Unblocked!Readable, Unblocked!Aligned, Unblocked!Slot,
         Unblocked!Plus, Unblocked!AddrSpace, Unblocked!IsBranch, Undecodable, Readable, Aligned, Slot, Plus, AddrSpace, IsBranch
<1> QED BY <1>6, <1>7 DEF Unblocked!IsaNext

LEMMA ExecuteThrewTraps ==
  ASSUME HartInv, ExecuteThrew
  PROVE  Unblocked!IsaNext
<1> DEFINE inst == bb[pos]
<1>1. phase = "execute" /\ MayThrow(inst) /\ phase' = "aborted" /\ UNCHANGED <<pc, mem, held>>
  BY DEF ExecuteThrew, Abort, stateVars
<1>2. Aligned(pc) /\ Status = "running" /\ \E w \in held[Slot(pc)] : inst = Decode[w]
  BY <1>1, ExecutesWhatWasHeld
<1>3. Status' = "aborted"
  BY <1>1 DEF Status
<1> HIDE DEF inst
<1>4. Unblocked!Trap(inst)
  BY <1>1, <1>3 DEF MayThrow, Unblocked!Trap, Unblocked!Addr, Unblocked!AddrSpace, Unblocked!Readable,
     Unblocked!Aligned, Unblocked!Slot, Addr, AddrSpace, Readable, Aligned, Slot
<1>5. Unblocked!Aligned(pc) /\ Unblocked!Slot(pc) = Slot(pc)
  BY <1>2 DEF Unblocked!Aligned, Unblocked!Slot, Aligned, Slot
<1> QED BY <1>2, <1>4, <1>5 DEF Unblocked!IsaNext, Unblocked!IsaExecute

LEMMA ExecuteExecutes ==
  ASSUME HartInv, Execute
  PROVE  Unblocked!IsaNext
<1> DEFINE inst == bb[pos]
<1>1. /\ phase = "execute" /\ phase' # "aborted"
      /\ \/ MayFallThrough(inst) /\ UpdatePC(branchIsTaken, npc)
         \/ MayBranch(inst) /\ \E a \in Targets(inst, pc) : UpdatePC(TRUE, a)
      /\ complete' = (complete \/ inst.kind = "ecall")
      /\ Memory(inst)
  BY DEF Execute
<1>2. /\ Aligned(pc) /\ Status = "running" /\ \E w \in held[Slot(pc)] : inst = Decode[w]
      /\ ~ complete /\ branchIsTaken = FALSE
  BY <1>1, ExecutesWhatWasHeld
<1> HIDE DEF inst
<1>3. inst.kind = "ecall" => Status' = "complete"
  BY <1>1 DEF Status
<1>4. inst.kind # "ecall" => Status' = Status
  BY <1>1, <1>2 DEF Status
<1>5. Unblocked!Plus(pc, WordBytes) = Plus(pc, WordBytes)
  BY DEF Unblocked!Plus, Unblocked!AddrSpace, Plus, AddrSpace
<1>6. Unblocked!Targets(inst, pc) = Targets(inst, pc)
  BY DEF Unblocked!Targets, Unblocked!Plus, Unblocked!Addr, Unblocked!AddrSpace, Targets, Plus, Addr, AddrSpace
<1>7. Unblocked!IsaExecute(inst)
  <2>1. CASE MayFallThrough(inst) /\ UpdatePC(branchIsTaken, npc)
    <3>1. pc' = Plus(pc, WordBytes)
      BY <2>1, <1>2 DEF UpdatePC
    <3>2. CASE inst.kind \in {"op", "load"}
      <4>1. UNCHANGED <<mem, held>>
        BY <1>1, <3>2 DEF Memory
      <4> QED BY <3>1, <3>2, <4>1, <1>4, <1>5 DEF Unblocked!IsaExecute, Unblocked!Advance, Unblocked!Goto
    <3>3. CASE inst.kind = "store"
      <4>1. /\ \E a \in Addr, w \in StoreWords : Aligned(a) /\ mem' = Stored(mem, a, w)
            /\ held' = [s \in Slots |-> held[s] \union ({mem'[s]} \ {Unmapped})]
        BY <1>1, <3>3 DEF Memory
      <4>2. \E a \in Unblocked!Addr, w \in StoreWords : Unblocked!Aligned(a) /\ mem' = Unblocked!Stored(mem, a, w)
        BY <4>1 DEF Unblocked!Addr, Unblocked!AddrSpace, Unblocked!Aligned, Unblocked!Stored, Unblocked!Slots,
           Unblocked!Slot, Addr, AddrSpace, Aligned, Stored, Slots, Slot
      <4>3. held' = Unblocked!Holding(held, mem')
        BY <4>1 DEF Unblocked!Holding, Unblocked!Slots, Slots
      <4> QED BY <3>1, <3>3, <4>2, <4>3, <1>4, <1>5 DEF Unblocked!IsaExecute, Unblocked!Store
    <3>4. CASE inst.kind = "branch"
      <4>1. UNCHANGED <<mem, held>>
        BY <1>1, <3>4 DEF Memory
      <4> QED BY <3>1, <3>4, <4>1, <1>4, <1>5 DEF Unblocked!IsaExecute, Unblocked!Jump, Unblocked!Goto
    <3>5. CASE inst.kind = "ecall"
      <4>1. UNCHANGED <<mem, held>>
        BY <1>1, <3>5 DEF Memory
      <4> QED BY <3>1, <3>5, <4>1, <1>3, <1>5 DEF Unblocked!IsaExecute, Unblocked!Ecall
    <3> QED BY <2>1, <3>2, <3>3, <3>4, <3>5 DEF MayFallThrough
  <2>2. CASE MayBranch(inst) /\ \E a \in Targets(inst, pc) : UpdatePC(TRUE, a)
    <3>1. UNCHANGED <<mem, held>> /\ Status' = Status /\ inst.kind \in {"branch", "jal", "jalr"}
      BY <1>1, <1>4, <2>2 DEF Memory, MayBranch
    <3>2. \E a \in Unblocked!Targets(inst, pc) : pc' = a
      BY <1>6, <2>2 DEF UpdatePC
    <3> QED BY <3>1, <3>2 DEF Unblocked!IsaExecute, Unblocked!Jump, Unblocked!Goto
  <2> QED BY <1>1, <2>1, <2>2
<1>8. Unblocked!Aligned(pc) /\ Unblocked!Slot(pc) = Slot(pc)
  BY <1>2 DEF Unblocked!Aligned, Unblocked!Slot, Aligned, Slot
<1> QED BY <1>2, <1>7, <1>8 DEF Unblocked!IsaNext

(* Basic blocks and their cache are invisible: every step of Hart::run is a  *)
(* step of fetching and executing one instruction, or none.                  *)
THEOREM HartIsUnblockedMachine == Spec => IsaSpec
<1>1. Init => Unblocked!IsaInit
  <2>1. SUFFICES ASSUME Init PROVE Unblocked!IsaInit
    OBVIOUS
  <2>2. held = Unblocked!Holding([s \in Unblocked!Slots |-> {}], mem)
    BY <2>1 DEF Init, Unblocked!Holding, Unblocked!Slots, Slots
  <2>3. Status = "running"
    BY <2>1 DEF Init, Status
  <2>4. pc \in Unblocked!Addr /\ mem \in [Unblocked!Slots -> Word \union {Unmapped}]
    BY <2>1 DEF Init, Addr, AddrSpace, Slots, Unblocked!Addr, Unblocked!AddrSpace, Unblocked!Slots
  <2> QED BY <2>2, <2>3, <2>4 DEF Unblocked!IsaInit
<1>2. HartInv /\ [Next]_vars => [Unblocked!IsaNext]_(Unblocked!isaVars)
  <2>1. SUFFICES ASSUME HartInv, [Next]_vars
                 PROVE  Unblocked!IsaNext \/ UNCHANGED <<pc, mem, held, Status>>
    BY DEF Unblocked!isaVars
  <2>2. CASE LookupHit \/ LookupMiss \/ DecodeInst \/ Finish
    <3>1. UNCHANGED <<pc, mem, held, complete>>
      BY <2>2 DEF LookupHit, LookupMiss, DecodeInst, Finish, stateVars
    <3>2. phase # "aborted" /\ phase' # "aborted"
      BY <2>2 DEF LookupHit, LookupMiss, DecodeInst, Finish
    <3> QED BY <3>1, <3>2 DEF Status
  <2>3. CASE DecodeThrew
    BY <2>3, <2>1, DecodeThrewGivesUp
  <2>4. CASE Execute
    BY <2>4, <2>1, ExecuteExecutes
  <2>5. CASE ExecuteThrew
    BY <2>5, <2>1, ExecuteThrewTraps
  <2>6. CASE UNCHANGED vars
    BY <2>6 DEF vars, stateVars, runVars, Status
  <2> QED BY <2>1, <2>2, <2>3, <2>4, <2>5, <2>6 DEF Next
<1> QED BY <1>1, <1>2, HartInvHolds, PTL DEF Spec, IsaSpec, Unblocked!IsaSpec
=============================================================================
