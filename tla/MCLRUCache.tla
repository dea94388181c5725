----------------------------- MODULE MCLRUCache -----------------------------
(* Four keys against a cache of three blocks; one node more than what       *)
(* the list can hold, so that a new node need not reuse the freed one.      *)
EXTENDS LRUCache, TLC

NodeSymmetry == Permutations(Node) \union Permutations(Block)
=============================================================================
