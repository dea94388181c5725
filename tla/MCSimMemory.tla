---------------------------- MODULE MCSimMemory ----------------------------
(* Bounds of the memory runs: three pages of two bytes that share two TLB   *)
(* slots, accesses of one and two bytes, a few calls.  The host's heap      *)
(* holds ones everywhere: storage that is by luck already zero would hide a *)
(* page that is not cleared.                                                *)
EXTENDS SimMemory, TLC

DirtyHeap == \A f \in Frame, o \in Offsets : heap[f][o] = 1

MCInit == Init /\ DirtyHeap

MCSpec == MCInit /\ [][Next]_vars

FrameSymmetry == Permutations(Frame)
=============================================================================
