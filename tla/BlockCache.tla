----------------------------- MODULE BlockCache -----------------------------
(***************************************************************************)
(* What Hart::run asks of an IBBCache: lookupUpdate(key, slowGetData)      *)
(* answers with the block kept for key if one is kept, and with a block    *)
(* slowGetData has just made for key otherwise.  Which blocks are kept is  *)
(* the cache's own affair: it may forget any of them whenever it calls     *)
(* slowGetData, also when slowGetData throws.  Nothing is ever refreshed.  *)
(***************************************************************************)
CONSTANTS
  Key,     \* addresses of basic blocks
  Block,   \* the blocks slowGetData (Hart::createBB) can make
  NoBlock  \* no block at all

VARIABLES
  kept,    \* the partial function from keys to the blocks kept for them
  answer   \* what the last call returned or threw

cacheVars == <<kept, answer>>

Answer(k, what, bb) == [key |-> k, what |-> what, bb |-> bb]

\* The function kept with some of its keys forgotten.
Forgotten(f) == { [k \in K |-> f[k]] : K \in SUBSET DOMAIN f }

With(f, k, bb) == [j \in DOMAIN f \union {k} |-> IF j = k THEN bb ELSE f[j]]

CacheInit == /\ kept = [k \in {} |-> NoBlock]
             /\ answer = NoBlock

AnswerKept(k) ==
  /\ k \in DOMAIN kept
  /\ answer' = Answer(k, "block", kept[k])
  /\ UNCHANGED kept

AnswerMade(k, bb) ==
  /\ k \notin DOMAIN kept
  /\ answer' = Answer(k, "block", bb)
  /\ kept' \in Forgotten(With(kept, k, bb))

AnswerThrew(k) ==
  /\ k \notin DOMAIN kept
  /\ answer' = Answer(k, "threw", NoBlock)
  /\ kept' \in Forgotten(kept)

CacheNext ==
  \E k \in Key : \/ AnswerKept(k)
                 \/ \E bb \in Block : AnswerMade(k, bb)
                 \/ AnswerThrew(k)

CacheSpec == CacheInit /\ [][CacheNext]_cacheVars
=============================================================================
