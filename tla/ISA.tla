-------------------------------- MODULE ISA --------------------------------
(***************************************************************************)
(* What the simulator promises of a program's control flow, with no basic  *)
(* blocks and no cache: fetch one word at pc, do what it says, go on.      *)
(*                                                                         *)
(* Two liberties, both the architecture's or the simulator's own.  A fetch *)
(* may return any word its address has held since the program was loaded:  *)
(* there is no instruction-fetch fence in the simulator, so a store to     *)
(* code need not be seen.  And the run may be given up early, before the   *)
(* straight-line code at pc has run, when that code ends in a word that    *)
(* cannot be fetched or decoded: blocks are decoded before they run.       *)
(***************************************************************************)
EXTENDS HartGeometry

VARIABLES
  pc,        \* address of the next instruction
  mem,       \* contents of memory, word by word
  held,      \* the words each address has held
  status     \* "running", "complete" after an ecall, "aborted" by an exception

isaVars == <<pc, mem, held, status>>

Holding(h, m) == [s \in Slots |-> h[s] \union ({m[s]} \ {Unmapped})]

IsaInit == /\ pc \in Addr
           /\ mem \in [Slots -> Word \union {Unmapped}]
           /\ held = Holding([s \in Slots |-> {}], mem)
           /\ status = "running"

Goto(a) == pc' = a /\ UNCHANGED <<mem, held, status>>

Advance(inst) == inst.kind \in {"op", "load"} /\ Goto(Plus(pc, WordBytes))

Jump(inst) ==
  \/ /\ inst.kind \in {"branch", "jal", "jalr"}
     /\ \E a \in Targets(inst, pc) : Goto(a)
  \/ inst.kind = "branch" /\ Goto(Plus(pc, WordBytes))

Store(inst) ==
  /\ inst.kind = "store"
  /\ pc' = Plus(pc, WordBytes)
  /\ \E a \in Addr, w \in StoreWords : Aligned(a) /\ mem' = Stored(mem, a, w)
  /\ held' = Holding(held, mem')
  /\ UNCHANGED status

Ecall(inst) ==
  /\ inst.kind = "ecall"
  /\ pc' = Plus(pc, WordBytes)
  /\ status' = "complete"
  /\ UNCHANGED <<mem, held>>

\* Instructions whose execution can throw.
Trap(inst) ==
  /\ \/ inst.kind \in {"op", "unimplemented"}
     \/ inst.kind = "load"  /\ \E a \in Addr : ~ Readable(mem, a)
     \/ inst.kind = "store" /\ \E a \in Addr : ~ Aligned(a)
  /\ status' = "aborted"
  /\ UNCHANGED <<pc, mem, held>>

IsaExecute(inst) ==
  Advance(inst) \/ Jump(inst) \/ Store(inst) \/ Ecall(inst) \/ Trap(inst)

\* Straight-line code at pc runs into a word that is no instruction.
GiveUp ==
  /\ \E n \in 0 .. NumWords :
       /\ Undecodable(mem, Plus(pc, n * WordBytes))
       /\ \A i \in 0 .. n - 1 :
            LET a == Plus(pc, i * WordBytes)
            IN  ~ Undecodable(mem, a) /\ ~ IsBranch(Decode[mem[Slot(a)]])
  /\ status' = "aborted"
  /\ UNCHANGED <<pc, mem, held>>

IsaNext ==
  /\ status = "running"
  /\ \/ Aligned(pc) /\ \E w \in held[Slot(pc)] : IsaExecute(Decode[w])
     \/ GiveUp

IsaSpec == IsaInit /\ [][IsaNext]_isaVars
=============================================================================
