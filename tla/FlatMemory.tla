----------------------------- MODULE FlatMemory -----------------------------
(***************************************************************************)
(* What Memory promises to the rest of the simulator: a byte-addressed     *)
(* store in which a page comes into existence, filled with zeros, at the   *)
(* first store to it, a load outside the existing pages faults, and an     *)
(* unaligned access is refused.  No TLB, no page table, no allocation: the *)
(* module SimMemory, which has them, is shown to implement this one.       *)
(***************************************************************************)
EXTENDS MemGeometry

VARIABLES
  mapped,   \* the pages that exist
  bytes,    \* the contents of the address space
  result    \* the outcome of the last call

flatVars == <<mapped, bytes, result>>

Outcome(op, addr, n, what, data) ==
  [op |-> op, addr |-> addr, size |-> n, what |-> what, data |-> data]

NoCall == Outcome("none", 0, 0, "none", <<>>)

\* The bytes of memory m once entity v has been stored at addr.
Overwrite(m, addr, v) ==
  [a \in DOMAIN m |-> IF a \in addr .. addr + Len(v) - 1
                      THEN v[a - addr + 1] ELSE m[a]]

FlatInit == /\ mapped = {}
            /\ bytes = [a \in Addr |-> 0]
            /\ result = NoCall

FlatLoad(addr, n) ==
  /\ result' = IF Misaligned(addr, n)
               THEN Outcome("load", addr, n, "misaligned", <<>>)
               ELSE IF IndexPt(addr) \notin mapped
               THEN Outcome("load", addr, n, "pagefault", <<>>)
               ELSE Outcome("load", addr, n, "done",
                            [i \in 1 .. n |-> bytes[addr + i - 1]])
  /\ UNCHANGED <<mapped, bytes>>

FlatStore(addr, v) ==
  /\ ~ Misaligned(addr, Len(v))
  /\ result' = Outcome("store", addr, Len(v), "done", v)
  /\ mapped' = mapped \union {IndexPt(addr)}
  /\ bytes' = Overwrite(bytes, addr, v)

\* A store is refused when it is unaligned; one that has to create a page is
\* refused when the host has no memory left.  Neither leaves a trace.
FlatStoreRefused(addr, v) ==
  /\ \/ /\ Misaligned(addr, Len(v))
        /\ result' = Outcome("store", addr, Len(v), "misaligned", v)
     \/ /\ ~ Misaligned(addr, Len(v))
        /\ IndexPt(addr) \notin mapped
        /\ result' = Outcome("store", addr, Len(v), "badalloc", v)
  /\ UNCHANGED <<mapped, bytes>>

FlatNext == \E addr \in Addr :
              \/ \E n \in Sizes : FlatLoad(addr, n)
              \/ \E v \in Entities : FlatStore(addr, v) \/ FlatStoreRefused(addr, v)

FlatSpec == FlatInit /\ [][FlatNext]_flatVars
=============================================================================
