------------------------------ MODULE LRUCache ------------------------------
(***************************************************************************)
(* LRUCache (hart/hart.cc 37-64), the cache Hart uses for a positive       *)
(* --bbc-size.  cache_ is a std::list of (key, block) pairs and hash_ maps *)
(* a key to an iterator, that is to a node of the list, whose address      *)
(* survives splicing and dies with pop_back.  Here a list is a sequence of *)
(* nodes, node holds what each node contains, and a freed node holds junk. *)
(* One call of lookupUpdate is one step: nothing runs between its parts,   *)
(* but slowGetData, called after the eviction, may throw, and the host may *)
(* have no storage for the list's node or, after that, for the hash's.     *)
(***************************************************************************)
EXTENDS Integers, Sequences, SequencesExt

CONSTANTS
  Key,       \* addresses of basic blocks
  Block,     \* the blocks slowGetData can make
  Node,      \* addresses of list nodes
  Size,      \* size_
  NoBlock    \* no block at all

ASSUME SizeAssumption  == Size \in Nat \ {0}
ASSUME BlockAssumption == NoBlock \notin Block

VARIABLES
  cache_,    \* the list, most recently used first
  node,      \* the contents of the nodes
  hash_,     \* the partial function from keys to nodes
  answer,    \* what the last call returned or threw
  uses,      \* history: the keys looked up with success, latest first
  lost       \* history: hash_ has had no storage for a node of the list

vars == <<cache_, node, hash_, answer, uses, lost>>

Answer(k, what, bb) == [key |-> k, what |-> what, bb |-> bb]

Junk == [first |-> NoBlock, second |-> NoBlock]

Pair == [first : Key, second : Block]

TypeOK ==
  /\ cache_ \in Seq(Node)
  /\ node \in [Node -> Pair \union {Junk}]
  /\ DOMAIN hash_ \subseteq Key
  /\ hash_ \in [DOMAIN hash_ -> Node]
  /\ answer \in {NoBlock} \union [key : Key, what : {"block"}, bb : Block]
                          \union [key : Key, what : {"threw"}, bb : {NoBlock}]
  /\ uses \in Seq(Key)
  /\ lost \in BOOLEAN

Init ==
  /\ cache_ = <<>>
  /\ node = [n \in Node |-> Junk]
  /\ hash_ = [k \in {} |-> NoBlock]
  /\ answer = NoBlock
  /\ uses = <<>>
  /\ lost = FALSE

-----------------------------------------------------------------------------
\* Mistakes: off by one, in either direction.
IsFullLate  == Len(cache_) = Size + 1
IsFullEarly == Len(cache_) = Size - 1

IsFull == Len(cache_) = Size

\* The back of the list, its least recently used pair.
Back == Last(cache_)

\* hash_.erase(cache_.back().first); cache_.pop_back().
EvictedList == IF IsFull THEN Front(cache_) ELSE cache_

EvictedNodes == IF IsFull THEN [node EXCEPT ![Back] = Junk] ELSE node

\* Mistake: the evicted key stays in the hash.
EvictedHashKept == hash_

EvictedHash == IF IsFull
               THEN [k \in DOMAIN hash_ \ {node[Back].first} |-> hash_[k]]
               ELSE hash_

\* The sequence s with e put in front: what was before e moves back by one,
\* what was after it stays in its place.
MovedToFront(s, e) ==
  <<e>> \o [i \in 1 .. IF e \in ToSet(s) THEN Len(s) - 1 ELSE Len(s) |->
              IF \E j \in 1 .. i : s[j] = e THEN s[i + 1] ELSE s[i]]

\* Mistake: a hit leaves the list as it is.
SplicedNot(elt) == cache_

\* cache_.splice(cache_.begin(), cache_, elt, std::next(elt)).
Spliced(elt) == MovedToFront(cache_, elt)

\* History only: key k has been used.
Used(k) == uses' = MovedToFront(uses, k)

-----------------------------------------------------------------------------
\* hash_.find(key) finds the key.
Hit(k) ==
  /\ k \in DOMAIN hash_
  /\ cache_' = Spliced(hash_[k])
  /\ answer' = Answer(k, "block", node[Head(cache_')].second)
  /\ Used(k)
  /\ UNCHANGED <<node, hash_, lost>>

\* It does not, and what slowGetData returns, bb, is put in front.
MadeRoomFor(k, bb) ==
  /\ k \notin DOMAIN hash_
  /\ \E n \in Node \ ToSet(EvictedList) :
       /\ cache_' = <<n>> \o EvictedList
       /\ node' = [EvictedNodes EXCEPT ![n] = [first |-> k, second |-> bb]]

\* hash_.emplace(key, cache_.begin()).
Hashed(k) == [j \in DOMAIN EvictedHash \union {k} |->
                IF j = k THEN Head(cache_') ELSE EvictedHash[j]]

Miss(k, bb) ==
  /\ MadeRoomFor(k, bb)
  /\ hash_' = Hashed(k)
  /\ answer' = Answer(k, "block", node'[Head(cache_')].second)
  /\ Used(k)
  /\ UNCHANGED lost

\* hash_.emplace throws: the list has a node that hash_ does not know.
MissUnhashed(k, bb) ==
  /\ MadeRoomFor(k, bb)
  /\ hash_' = EvictedHash
  /\ answer' = Answer(k, "threw", NoBlock)
  /\ lost' = TRUE
  /\ UNCHANGED uses

\* slowGetData or emplace_front throws: the eviction has already happened.
MissThrew(k) ==
  /\ k \notin DOMAIN hash_
  /\ cache_' = EvictedList
  /\ node' = EvictedNodes
  /\ hash_' = EvictedHash
  /\ answer' = Answer(k, "threw", NoBlock)
  /\ UNCHANGED <<uses, lost>>

LookupUpdate(k) ==
  \/ Hit(k)
  \/ \E bb \in Block : Miss(k, bb) \/ MissUnhashed(k, bb)
  \/ MissThrew(k)

Next == \E k \in Key : LookupUpdate(k)

Spec == Init /\ [][Next]_vars
-----------------------------------------------------------------------------
(* The list and the hash describe the same cache: no node is on the list    *)
(* twice, every iterator the hash keeps is a live node holding that key,    *)
(* and every node on the list is the one the hash finds for its key, unless *)
(* hash_.emplace has thrown.  A stale iterator is undefined behaviour at    *)
(* the next hit (hart.cc 59-60); not even a lost node makes one, although a *)
(* key may then be on the list twice and its eviction unhash the other.     *)
HashMatchesList ==
  /\ \A i, j \in DOMAIN cache_ : cache_[i] = cache_[j] => i = j
  /\ \A k \in DOMAIN hash_ : hash_[k] \in ToSet(cache_) /\ node[hash_[k]].first = k
  /\ lost \/ \A n \in ToSet(cache_) :
                node[n].first \in DOMAIN hash_ /\ hash_[node[n].first] = n

(* isFull compares with ==, so a list that once outgrew size_ would grow    *)
(* for ever.                                                                *)
CapacityRespected == Len(cache_) <= Size

(* The cache is an LRU cache: the keys on the list, in order, are the most  *)
(* recently used keys, whatever hits, misses, evictions and failures there  *)
(* have been, as long as hash_.emplace has not thrown.                      *)
KeepsMostRecentlyUsed ==
  lost \/ [i \in DOMAIN cache_ |-> node[cache_[i]].first] = SubSeq(uses, 1, Len(cache_))

(* Failed lookups cost at most one block: slowGetData throwing after the    *)
(* eviction leaves one place free, and further failures evict no more.      *)
FailureCostsOneBlock ==
  \/ Len(cache_) >= Size - 1
  \/ Len(cache_) >= Len(uses)

(* Locality pays: a lookup of one of the Size - 1 most recently used keys   *)
(* never calls slowGetData, even after failures.                            *)
RecentlyUsedHits ==
  [][\A k \in Key :
       ~ lost /\ (\E i \in 1 .. Len(uses) : i <= Size - 1 /\ uses[i] = k) /\ answer'.key = k
          => UNCHANGED hash_]_vars

-----------------------------------------------------------------------------
(* The LRU cache is a block cache.                                          *)
Kept == [k \in DOMAIN hash_ |-> node[hash_[k]].second]

Cache == INSTANCE BlockCache WITH kept <- Kept

CacheSpec == Cache!CacheSpec
=============================================================================
