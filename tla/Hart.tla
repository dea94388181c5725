-------------------------------- MODULE Hart --------------------------------
(***************************************************************************)
(* Hart::run with createBB, the basic-block cache and Executor::execute    *)
(* (hart/hart.cc, executor/executor.hh).  One step is one turn of a loop:  *)
(* of run (a lookup), of createBB (a word loaded and decoded), of the      *)
(* executor's for_each (an instruction's callback and the update of pc).   *)
(* The cache is the one of the module BlockCache, which the LRU list       *)
(* implements: which block a full cache forgets is left open.              *)
(***************************************************************************)
EXTENDS HartGeometry, FiniteSets

CONSTANTS
  CacheSizes,    \* what --bbc-size may be
  MaxInstr,      \* bound on instrCount (64-bit in the code)
  MaxBlock       \* bound on the length of a block (the code has none)

ASSUME CacheSizesAssumption == CacheSizes \subseteq Int
ASSUME BoundsAssumption == MaxInstr \in Nat /\ MaxBlock \in Nat

VARIABLES
  bbCacheSize,  \* --bbc-size: negative, keep all; 0, keep none; else LRU
  pc, npc, branchIsTaken, complete, mem,   \* State
  kept,         \* bbc_: the partial function from addresses to blocks
  phase,        \* what run is doing
  addr,         \* createBB's running address
  bb,           \* the block being created or executed
  entry,        \* the address it was looked up at
  pos,          \* the executor's iterator
  instrCount,   \* Executor::instrCount
  held,         \* history: the words each address has held
  retired       \* history: the instructions executed to the end

stateVars == <<pc, npc, branchIsTaken, complete, mem, held>>
runVars   == <<bbCacheSize, kept, phase, addr, bb, entry, pos>>
vars      == <<stateVars, runVars, instrCount, retired>>

Inst == { Decode[w] : w \in Word }

Phases == {"lookup", "create", "execute", "finished", "aborted"}

TypeOK ==
  /\ bbCacheSize \in CacheSizes
  /\ pc \in Addr /\ npc \in Addr /\ addr \in Addr /\ entry \in Addr
  /\ branchIsTaken \in BOOLEAN /\ complete \in BOOLEAN
  /\ mem \in [Slots -> Word \union {Unmapped}]
  /\ held \in [Slots -> SUBSET Word]
  /\ DOMAIN kept \subseteq Addr
  /\ kept \in [DOMAIN kept -> Seq(Inst)]
  /\ bb \in Seq(Inst)
  /\ phase \in Phases
  /\ pos \in Nat /\ instrCount \in Nat /\ retired \in Nat

\* The constructor has loaded the program and set pc to its entry point.
Init ==
  /\ bbCacheSize \in CacheSizes
  /\ pc \in Addr
  /\ mem \in [Slots -> Word \union {Unmapped}]
  /\ \A s, t \in Slots : s \div PageWords = t \div PageWords =>
                           (mem[s] = Unmapped <=> mem[t] = Unmapped)
  /\ held = [s \in Slots |-> {mem[s]} \ {Unmapped}]
  /\ npc = 0 /\ branchIsTaken = FALSE /\ complete = FALSE
  /\ kept = [a \in {} |-> <<>>]
  /\ phase = "lookup" /\ addr = 0 /\ bb = <<>> /\ entry = 0 /\ pos = 1
  /\ instrCount = 1 /\ retired = 0

-----------------------------------------------------------------------------
\* What may be left of the cache f once a missing block has been asked for: the
\* three classes the constructor chooses between.
MadeRoom(f) ==
  CASE bbCacheSize < 0 -> {f}
    [] bbCacheSize = 0 -> {[a \in {} |-> <<>>]}
    [] bbCacheSize > 0 ->
         IF Cardinality(DOMAIN f) = bbCacheSize
         THEN { [a \in DOMAIN f \ {k} |-> f[a]] : k \in DOMAIN f }
         ELSE {f}

With(f, k, b) == [a \in DOMAIN f \union {k} |-> IF a = k THEN b ELSE f[a]]

\* Mistakes: the block is kept although nothing is to be kept; it is kept under
\* the address after its key.
KeepAlways(f, k, b) == With(f, k, b)
KeepUnderNext(f, k, b) == With(f, Plus(k, WordBytes), b)

\* What is kept of a new block.
Keep(f, k, b) == IF bbCacheSize = 0 THEN f ELSE With(f, k, b)

\* An exception leaves run and ends the program: main reports it.
Abort == /\ phase' = "aborted"
         /\ UNCHANGED <<bbCacheSize, stateVars, kept, addr, bb, entry, pos, instrCount, retired>>

-----------------------------------------------------------------------------
\* Mistake: the iterator is not taken back to the block's beginning.
LookupHitAtEnd ==
  /\ phase = "lookup" /\ ~ complete
  /\ pc \in DOMAIN kept
  /\ bb' = kept[pc] /\ entry' = pc
  /\ phase' = "execute"
  /\ UNCHANGED <<bbCacheSize, stateVars, kept, addr, pos, instrCount, retired>>

\* while (!state_.complete) bbc_->lookupUpdate(getPC(), ...)
LookupHit ==
  /\ phase = "lookup" /\ ~ complete
  /\ pc \in DOMAIN kept
  /\ bb' = kept[pc] /\ entry' = pc /\ pos' = 1
  /\ phase' = "execute"
  /\ UNCHANGED <<bbCacheSize, stateVars, kept, addr, instrCount, retired>>

\* Mistake: createBB goes on with the block it made last.
LookupMissOldBlock ==
  /\ phase = "lookup" /\ ~ complete
  /\ pc \notin DOMAIN kept
  /\ kept' \in MadeRoom(kept)
  /\ entry' = pc /\ addr' = pc
  /\ phase' = "create"
  /\ UNCHANGED <<bbCacheSize, stateVars, bb, pos, instrCount, retired>>

LookupMiss ==
  /\ phase = "lookup" /\ ~ complete
  /\ pc \notin DOMAIN kept
  /\ kept' \in MadeRoom(kept)
  /\ bb' = <<>> /\ entry' = pc /\ addr' = pc
  /\ phase' = "create"
  /\ UNCHANGED <<bbCacheSize, stateVars, pos, instrCount, retired>>

\* A turn of createBB's loop.
DecodeThrew ==
  /\ phase = "create"
  /\ Undecodable(mem, addr)
  /\ Abort

\* Mistake: the running address does not run.
DecodeInstInPlace ==
  /\ phase = "create"
  /\ ~ Undecodable(mem, addr)
  /\ Len(bb) < MaxBlock
  /\ LET inst == Decode[mem[Slot(addr)]]
     IN  /\ bb' = Append(bb, inst)
         /\ IF IsBranch(inst)
            THEN /\ kept' = Keep(kept, entry, bb')
                 /\ phase' = "execute"
                 /\ pos' = 1
            ELSE UNCHANGED <<kept, phase, pos>>
  /\ UNCHANGED <<bbCacheSize, stateVars, addr, entry, instrCount, retired>>

DecodeInst ==
  /\ phase = "create"
  /\ ~ Undecodable(mem, addr)
  /\ Len(bb) < MaxBlock
  /\ LET inst == Decode[mem[Slot(addr)]]
     IN  /\ bb' = Append(bb, inst)
         /\ addr' = Plus(addr, WordBytes)
         /\ IF IsBranch(inst)
            THEN /\ kept' = Keep(kept, entry, bb')
                 /\ phase' = "execute"
                 /\ pos' = 1
            ELSE UNCHANGED <<kept, phase, pos>>
  /\ UNCHANGED <<bbCacheSize, stateVars, entry, instrCount, retired>>

\* Instructions whose callback can throw: division by zero and what is not
\* implemented, loads from absent or unaligned and stores to unaligned addresses.
MayThrow(inst) ==
  \/ inst.kind \in {"op", "unimplemented"}
  \/ inst.kind = "load"  /\ \E a \in Addr : ~ Readable(mem, a)
  \/ inst.kind = "store" /\ \E a \in Addr : ~ Aligned(a)

\* Whether the callback can leave branchIsTaken as it was, or set it.
MayFallThrough(inst) == inst.kind \in {"op", "load", "store", "branch", "ecall"}
MayBranch(inst)      == inst.kind \in {"branch", "jal", "jalr"}

\* Mistake: branchIsTaken is not reset.
UpdatePCOnceTaken(taken, target) ==
  /\ npc' = target
  /\ branchIsTaken' = taken
  /\ pc' = IF taken THEN target ELSE Plus(pc, WordBytes)

\* The end of Executor::execute, for a callback that left branchIsTaken = taken
\* and npc = target.
UpdatePC(taken, target) ==
  /\ npc' = target
  /\ branchIsTaken' = FALSE
  /\ pc' = IF taken THEN target ELSE Plus(pc, WordBytes)

\* What the callback does to memory.
Memory(inst) ==
  IF inst.kind = "store"
  THEN /\ \E a \in Addr, w \in StoreWords : Aligned(a) /\ mem' = Stored(mem, a, w)
       /\ held' = [s \in Slots |-> held[s] \union ({mem'[s]} \ {Unmapped})]
  ELSE UNCHANGED <<mem, held>>

\* A turn of the executor's for_each: the instruction runs to its end.
Execute ==
  /\ phase = "execute"
  /\ instrCount <= MaxInstr
  /\ LET inst == bb[pos]
     IN  /\ \/ MayFallThrough(inst) /\ UpdatePC(branchIsTaken, npc)
            \/ MayBranch(inst) /\ \E a \in Targets(inst, pc) : UpdatePC(TRUE, a)
         /\ complete' = (complete \/ inst.kind = "ecall")
         /\ Memory(inst)
  /\ instrCount' = instrCount + 1 /\ retired' = retired + 1
  /\ pos' = pos + 1
  /\ phase' = IF pos = Len(bb) THEN "lookup" ELSE "execute"
  /\ UNCHANGED <<bbCacheSize, kept, addr, bb, entry>>

ExecuteThrew ==
  /\ phase = "execute"
  /\ MayThrow(bb[pos])
  /\ Abort

\* run sees complete and returns.
Finish ==
  /\ phase = "lookup" /\ complete
  /\ phase' = "finished"
  /\ UNCHANGED <<bbCacheSize, stateVars, kept, addr, bb, entry, pos, instrCount, retired>>

Next == \/ LookupHit \/ LookupMiss
        \/ DecodeInst \/ DecodeThrew
        \/ Execute \/ ExecuteThrew
        \/ Finish

Spec == Init /\ [][Next]_vars

\* The simulator is one thread that keeps running until it returns or throws.
FairSpec == Spec /\ WF_vars(Next)
-----------------------------------------------------------------------------
IsBlock(b) == b # <<>> /\ \A i \in 1 .. Len(b) : IsBranch(b[i]) <=> i = Len(b)

(* Every block that is executed or kept ends in its only instruction that   *)
(* can leave the straight line, so that nothing of a block runs after a     *)
(* taken branch or an ecall.                                                *)
BlocksEndInBranch ==
  /\ \A a \in DOMAIN kept : IsBlock(kept[a])
  /\ phase = "execute" => IsBlock(bb) /\ pos \in 1 .. Len(bb)

(* pc is the address of the instruction being executed: it is updated by    *)
(* each instruction on its own, while the iterator walks the block without  *)
(* looking at it (executor.hh 42-55).  AUIPC, JAL and the branches use it.  *)
PCFollowsBlock ==
  phase = "execute" => pc = Plus(entry, (pos - 1) * WordBytes)

MadeFrom(b, a, m) ==
  \A i \in 1 .. Len(b) :
     LET c == Plus(a, (i - 1) * WordBytes)
     IN  Aligned(c) /\ \E w \in m[Slot(c)] : b[i] = Decode[w]

(* Every decoded instruction, in the cache or in hand, came from its own    *)
(* address: it decodes a word that address has held.  Where the program has *)
(* stored nothing new it is the word in memory, and the cache is invisible. *)
BlocksFromMemory ==
  /\ \A a \in DOMAIN kept : MadeFrom(kept[a], a, held)
  /\ phase \in {"create", "execute"} => MadeFrom(bb, entry, held)

(* Without a cache every block is decoded from memory as it is when the     *)
(* block begins: a store to code is seen at the next block at the latest.   *)
FreshWithoutCache ==
  bbCacheSize = 0 /\ phase = "execute" /\ pos = 1 =>
     MadeFrom(bb, entry, [s \in Slots |-> {mem[s]} \ {Unmapped}])

(* Once ecall has set complete, no instruction executes and no memory       *)
(* changes (hart.cc 119 looks at complete only between blocks).             *)
NothingAfterComplete == [][complete => UNCHANGED <<pc, mem, retired>>]_vars

(* createBB ends, by returning or by throwing, if some word is absent, is   *)
(* no instruction, or ends a block; its loop has no other bound.            *)
Stopper(s) == mem[s] # Unmapped => \/ Decode[mem[s]].kind = "UNKNOWN"
                                  \/ IsBranch(Decode[mem[s]])

CreationEnds ==
  (phase = "create" /\ \E s \in Slots : Stopper(s)) ~> phase # "create"

(* A program that has executed its ecall has ended well: no exception and   *)
(* no further block comes between the ecall and run's return (hart.cc 119). *)
EcallEndsRun == complete ~> phase = "finished"

(* main.cc 90-91 prints getInstrCount() as "Instruction number".            *)
InstrCountIsRetired == phase = "finished" => instrCount = retired

-----------------------------------------------------------------------------
(* Blocks and their cache are invisible, up to the liberties the module ISA *)
(* grants.                                                                  *)
Status == IF phase = "aborted" THEN "aborted"
          ELSE IF complete THEN "complete" ELSE "running"

Unblocked == INSTANCE ISA WITH status <- Status

IsaSpec == Unblocked!IsaSpec
=============================================================================
