--------------------------- MODULE LRUCacheProofs ---------------------------
(***************************************************************************)
(* The LRU cache for every size, set of keys and host heap: its list and   *)
(* its hash agree, it stays within its size, it keeps the most recently    *)
(* used blocks, and it implements BlockCache.                              *)
(***************************************************************************)
EXTENDS LRUCache, SequenceTheorems, TLAPS

Distinct(s) == \A i, j \in 1 .. Len(s) : s[i] = s[j] => i = j

\* What is on the list is live, and uses has every key once.
LRUInv == /\ TypeOK
          /\ CapacityRespected
          /\ HashMatchesList
          /\ \A i \in 1 .. Len(cache_) : node[cache_[i]] \in Pair
          /\ Distinct(uses)
          /\ lost \/ /\ Len(cache_) <= Len(uses)
                     /\ \A i \in 1 .. Len(cache_) : node[cache_[i]].first = uses[i]

\* Moving an element of a sequence to the front permutes it.
LEMMA MovedWithin ==
  ASSUME NEW S, NEW s \in Seq(S), NEW p \in 1 .. Len(s), Distinct(s)
  PROVE  LET r == MovedToFront(s, s[p])
         IN  /\ r \in Seq(S) /\ Len(r) = Len(s)
             /\ \A i \in 1 .. Len(s) : r[i] = IF i = 1 THEN s[p] ELSE IF i <= p THEN s[i - 1] ELSE s[i]
<1> DEFINE f == [i \in 1 .. Len(s) - 1 |->
                   IF \E j \in 1 .. i : s[j] = s[p] THEN s[i + 1] ELSE s[i]]
<1>1. s[p] \in ToSet(s) /\ Len(s) \in Nat /\ s[p] \in S
  BY DEF ToSet
<1>2. f \in Seq(S) /\ Len(f) = Len(s) - 1
  <2>1. f \in [1 .. Len(s) - 1 -> S]
    BY <1>1
  <2> QED BY <2>1, <1>1
<1>3. MovedToFront(s, s[p]) = <<s[p]>> \o f
  BY <1>1 DEF MovedToFront
<1>4. \A i \in 1 .. Len(s) - 1 : (\E j \in 1 .. i : s[j] = s[p]) <=> p <= i
  BY <1>1 DEF Distinct
<1>5. \A i \in 1 .. Len(s) - 1 : f[i] = IF p <= i THEN s[i + 1] ELSE s[i]
  BY <1>4
<1> HIDE DEF f
<1>6. /\ <<s[p]>> \o f \in Seq(S) /\ Len(<<s[p]>> \o f) = Len(s)
      /\ (<<s[p]>> \o f)[1] = s[p]
      /\ \A i \in 2 .. Len(s) : (<<s[p]>> \o f)[i] = f[i - 1]
  <2>1. <<s[p]>> \in Seq(S) /\ Len(<<s[p]>>) = 1 /\ <<s[p]>>[1] = s[p]
    BY <1>1
  <2> QED BY <2>1, <1>1, <1>2, ConcatProperties
<1>7. \A i \in 2 .. Len(s) : (<<s[p]>> \o f)[i] = IF i <= p THEN s[i - 1] ELSE s[i]
  BY <1>5, <1>6, <1>1
<1> QED BY <1>3, <1>6, <1>7, <1>1

\* Moving to the front what is not there prepends it.
LEMMA MovedFromOutside ==
  ASSUME NEW S, NEW s \in Seq(S), NEW e \in S, \A i \in 1 .. Len(s) : s[i] # e
  PROVE  LET r == MovedToFront(s, e)
         IN  /\ r \in Seq(S) /\ Len(r) = Len(s) + 1
             /\ \A i \in 1 .. Len(s) + 1 : r[i] = IF i = 1 THEN e ELSE s[i - 1]
<1> DEFINE f == [i \in 1 .. Len(s) |-> IF \E j \in 1 .. i : s[j] = e THEN s[i + 1] ELSE s[i]]
<1>1. e \notin ToSet(s) /\ Len(s) \in Nat
  BY DEF ToSet
<1>2. f = s
  <2>1. \A i \in 1 .. Len(s) : f[i] = s[i]
    OBVIOUS
  <2> QED BY <2>1
<1>3. MovedToFront(s, e) = <<e>> \o s
  BY <1>1, <1>2 DEF MovedToFront
<1>4. <<e>> \in Seq(S) /\ Len(<<e>>) = 1 /\ <<e>>[1] = e
  OBVIOUS
<1>5. /\ <<e>> \o s \in Seq(S) /\ Len(<<e>> \o s) = Len(s) + 1
      /\ \A i \in 1 .. Len(s) + 1 : (<<e>> \o s)[i] = IF i <= 1 THEN <<e>>[i] ELSE s[i - 1]
  BY <1>4, <1>1, ConcatProperties
<1> QED BY <1>1, <1>3, <1>4, <1>5

-----------------------------------------------------------------------------
\* What the eviction leaves is the front of the list, with place for one more
\* node, and the hash of it.
LEMMA Evicted ==
  ASSUME LRUInv
  PROVE  /\ EvictedList \in Seq(Node) /\ Len(EvictedList) < Size
         /\ Len(EvictedList) <= Len(cache_)
         /\ \A i \in 1 .. Len(EvictedList) : EvictedList[i] = cache_[i]
         /\ EvictedNodes \in [Node -> Pair \union {Junk}]
         /\ \A i \in 1 .. Len(EvictedList) : EvictedNodes[cache_[i]] = node[cache_[i]]
         /\ DOMAIN EvictedHash \subseteq DOMAIN hash_
         /\ \A k \in DOMAIN EvictedHash :
              /\ EvictedHash[k] = hash_[k]
              /\ \E i \in 1 .. Len(EvictedList) : hash_[k] = cache_[i]
         /\ lost \/ \A i \in 1 .. Len(EvictedList) : node[cache_[i]].first \in DOMAIN EvictedHash
<1>1. /\ cache_ \in Seq(Node) /\ Len(cache_) \in Nat /\ Len(cache_) <= Size /\ Size \in Nat \ {0}
      /\ node \in [Node -> Pair \union {Junk}]
      /\ \A i \in 1 .. Len(cache_) : cache_[i] \in Node
  BY SizeAssumption DEF LRUInv, TypeOK, CapacityRespected
<1>2. /\ \A i, j \in 1 .. Len(cache_) : cache_[i] = cache_[j] => i = j
      /\ \A k \in DOMAIN hash_ : node[hash_[k]].first = k
      /\ \A k \in DOMAIN hash_ : \E i \in 1 .. Len(cache_) : hash_[k] = cache_[i]
      /\ lost \/ \A i \in 1 .. Len(cache_) :
                    node[cache_[i]].first \in DOMAIN hash_ /\ hash_[node[cache_[i]].first] = cache_[i]
  BY <1>1 DEF LRUInv, HashMatchesList, ToSet
<1>3. CASE ~ IsFull
  <2>1. Len(cache_) < Size
    BY <1>1, <1>3 DEF IsFull
  <2> QED BY <1>1, <1>2, <1>3, <2>1 DEF EvictedList, EvictedNodes, EvictedHash
<1>4. CASE IsFull
  <2>1. Len(cache_) = Size /\ Len(cache_) \in 1 .. Len(cache_)
    BY <1>1, <1>4 DEF IsFull
  <2>2. /\ EvictedList \in Seq(Node) /\ Len(EvictedList) = Len(cache_) - 1
        /\ \A i \in 1 .. Len(cache_) - 1 : EvictedList[i] = cache_[i]
    <3>1. \A i \in 1 .. Len(cache_) - 1 : cache_[i] \in Node
      BY <1>1
    <3>2. EvictedList = SubSeq(cache_, 1, Len(cache_) - 1)
      BY <1>4 DEF EvictedList, Front
    <3> QED BY <3>1, <3>2, <1>1, <2>1, SubSeqProperties
  <2>3. Back = cache_[Len(cache_)]
    BY DEF Back, Last
  <2>4. \A i \in 1 .. Len(cache_) - 1 : cache_[i] # Back
    BY <1>1, <1>2, <2>1, <2>3
  <2>5. EvictedNodes = [node EXCEPT ![Back] = Junk]
    BY <1>4 DEF EvictedNodes
  <2>6. /\ EvictedNodes \in [Node -> Pair \union {Junk}]
        /\ \A i \in 1 .. Len(cache_) - 1 : EvictedNodes[cache_[i]] = node[cache_[i]]
    <3>1. Junk \in Pair \union {Junk} /\ \A i \in 1 .. Len(cache_) - 1 : cache_[i] \in Node
      BY <1>1
    <3> DEFINE N == Pair \union {Junk}
    <3>2. node \in [Node -> N] /\ Junk \in N
      BY <1>1, <3>1
    <3> HIDE DEF N
    <3>3. [node EXCEPT ![Back] = Junk] \in [Node -> N]
      BY <3>2
    <3>4. \A i \in 1 .. Len(cache_) - 1 : EvictedNodes[cache_[i]] = node[cache_[i]]
      BY <3>1, <3>2, <2>4, <2>5
    <3> QED BY <3>3, <3>4, <2>5 DEF N
  <2>7. /\ DOMAIN EvictedHash = DOMAIN hash_ \ {node[Back].first}
        /\ \A k \in DOMAIN EvictedHash : EvictedHash[k] = hash_[k]
    BY <1>4 DEF EvictedHash
  <2>8. \A k \in DOMAIN EvictedHash : \E i \in 1 .. Len(cache_) - 1 : hash_[k] = cache_[i]
    <3>1. SUFFICES ASSUME NEW k \in DOMAIN EvictedHash
                   PROVE  \E i \in 1 .. Len(cache_) - 1 : hash_[k] = cache_[i]
      OBVIOUS
    <3>2. PICK i \in 1 .. Len(cache_) : hash_[k] = cache_[i]
      BY <1>2, <2>7
    <3>3. k # node[Back].first /\ node[hash_[k]].first = k
      BY <1>2, <2>7
    <3>4. i # Len(cache_)
      BY <3>2, <3>3, <2>3
    <3> QED BY <3>2, <3>4, <1>1
  <2>9. ASSUME ~ lost, NEW i \in 1 .. Len(cache_) - 1
        PROVE  node[cache_[i]].first \in DOMAIN EvictedHash
    <3>1. /\ node[cache_[i]].first \in DOMAIN hash_
          /\ hash_[node[cache_[i]].first] = cache_[i] /\ hash_[node[Back].first] = Back
      BY <2>9, <1>2, <1>1, <2>1, <2>3
    <3> QED BY <3>1, <2>4, <2>7
  <2> QED BY <1>1, <2>1, <2>2, <2>6, <2>7, <2>8, <2>9
<1> QED BY <1>3, <1>4

\* What is put in front is new to the list.
LEMMA RoomMade ==
  ASSUME LRUInv, NEW k \in Key, NEW bb \in Block, MadeRoomFor(k, bb)
  PROVE  \E n \in Node :
           /\ cache_' \in Seq(Node) /\ Len(cache_') = Len(EvictedList) + 1
           /\ Head(cache_') = n /\ cache_'[1] = n
           /\ \A i \in 1 .. Len(EvictedList) : cache_'[i + 1] = cache_[i] /\ cache_[i] # n
           /\ node' \in [Node -> Pair \union {Junk}]
           /\ node'[n] = [first |-> k, second |-> bb]
           /\ \A i \in 1 .. Len(EvictedList) : node'[cache_[i]] = node[cache_[i]]
<1>1. PICK n \in Node \ ToSet(EvictedList) :
        /\ cache_' = <<n>> \o EvictedList
        /\ node' = [EvictedNodes EXCEPT ![n] = [first |-> k, second |-> bb]]
  BY DEF MadeRoomFor
<1> DEFINE N == Pair \union {Junk}
<1>2. /\ EvictedList \in Seq(Node) /\ Len(EvictedList) \in Nat
      /\ \A i \in 1 .. Len(EvictedList) : EvictedList[i] = cache_[i] /\ cache_[i] \in Node
      /\ EvictedNodes \in [Node -> N]
      /\ \A i \in 1 .. Len(EvictedList) : EvictedNodes[cache_[i]] = node[cache_[i]]
  BY Evicted
<1>3. [first |-> k, second |-> bb] \in N
  BY DEF Pair
<1>4. \A i \in 1 .. Len(EvictedList) : cache_[i] # n
  BY <1>1, <1>2 DEF ToSet
<1>5. /\ cache_' \in Seq(Node) /\ Len(cache_') = Len(EvictedList) + 1 /\ cache_'[1] = n
      /\ \A i \in 1 .. Len(EvictedList) : cache_'[i + 1] = EvictedList[i]
  <2>1. <<n>> \in Seq(Node) /\ Len(<<n>>) = 1 /\ <<n>>[1] = n
    OBVIOUS
  <2> QED BY <1>1, <1>2, <2>1, ConcatProperties
<1>6. Head(cache_') = n
  BY <1>5, <1>2
<1> HIDE DEF N
<1>7. /\ node' \in [Node -> N] /\ node'[n] = [first |-> k, second |-> bb]
      /\ \A i \in 1 .. Len(EvictedList) : node'[cache_[i]] = node[cache_[i]]
  BY <1>1, <1>2, <1>3, <1>4
<1> QED BY <1>1, <1>2, <1>4, <1>5, <1>6, <1>7 DEF N

\* The elements of the list and of its copy one place back differ.
LEMMA StillDistinct ==
  ASSUME LRUInv, NEW k \in Key, NEW bb \in Block, MadeRoomFor(k, bb)
  PROVE  \A i, j \in 1 .. Len(cache_') : cache_'[i] = cache_'[j] => i = j
<1>1. PICK n \in Node :
        /\ Len(cache_') = Len(EvictedList) + 1 /\ cache_'[1] = n
        /\ \A i \in 1 .. Len(EvictedList) : cache_'[i + 1] = cache_[i] /\ cache_[i] # n
  BY RoomMade
<1>2. /\ Len(EvictedList) \in Nat /\ Len(cache_) \in Nat /\ Len(EvictedList) <= Len(cache_)
      /\ \A i, j \in 1 .. Len(cache_) : cache_[i] = cache_[j] => i = j
  BY Evicted DEF LRUInv, TypeOK, HashMatchesList
<1>3. SUFFICES ASSUME NEW i \in 1 .. Len(cache_'), NEW j \in 1 .. Len(cache_'), cache_'[i] = cache_'[j]
               PROVE  i = j
  OBVIOUS
<1>4. CASE i = 1 \/ j = 1
  <2>1. \A l \in 2 .. Len(cache_') : cache_'[l] # n
    <3>1. ASSUME NEW l \in 2 .. Len(cache_') PROVE cache_'[l] # n
      <4>1. l - 1 \in 1 .. Len(EvictedList) /\ (l - 1) + 1 = l
        BY <1>1, <1>2
      <4> QED BY <4>1, <1>1
    <3> QED BY <3>1
  <2> QED BY <2>1, <1>1, <1>2, <1>3, <1>4
<1>5. CASE i # 1 /\ j # 1
  <2>1. /\ i - 1 \in 1 .. Len(EvictedList) /\ j - 1 \in 1 .. Len(EvictedList)
        /\ (i - 1) + 1 = i /\ (j - 1) + 1 = j
    BY <1>1, <1>2, <1>5
  <2>2. cache_[i - 1] = cache_[j - 1]
    BY <1>1, <1>3, <2>1
  <2>3. i - 1 = j - 1
    BY <1>2, <2>1, <2>2
  <2> QED BY <2>3, <2>1
<1> QED BY <1>4, <1>5

-----------------------------------------------------------------------------
\* However it is moved, nothing is there twice and nothing is lost.
LEMMA MovedDistinct ==
  ASSUME NEW S, NEW s \in Seq(S), NEW e \in S, Distinct(s)
  PROVE  LET r == MovedToFront(s, e)
         IN  /\ r \in Seq(S) /\ Distinct(r) /\ Len(r) >= Len(s) /\ r[1] = e
             /\ \A i \in 1 .. Len(s) : (\A j \in 1 .. i : s[j] # e) => i + 1 <= Len(r) /\ r[i + 1] = s[i]
<1> DEFINE r == MovedToFront(s, e)
<1>0. Len(s) \in Nat
  OBVIOUS
<1>1. CASE \E p \in 1 .. Len(s) : s[p] = e
  <2>1. PICK p \in 1 .. Len(s) : s[p] = e
    BY <1>1
  <2>2. /\ r \in Seq(S) /\ Len(r) = Len(s)
        /\ \A i \in 1 .. Len(s) : r[i] = IF i = 1 THEN s[p] ELSE IF i <= p THEN s[i - 1] ELSE s[i]
    BY <2>1, MovedWithin
  <2> HIDE DEF r
  <2>3. ASSUME NEW i \in 1 .. Len(s), NEW j \in 1 .. Len(s), r[i] = r[j]
        PROVE  i = j
    <3> DEFINE o(l) == IF l = 1 THEN p ELSE IF l <= p THEN l - 1 ELSE l
    <3>1. o(i) \in 1 .. Len(s) /\ o(j) \in 1 .. Len(s) /\ r[i] = s[o(i)] /\ r[j] = s[o(j)]
      BY <2>2, <1>0
    <3>2. o(i) = o(j)
      BY <3>1, <2>3 DEF Distinct
    <3> QED BY <3>2, <1>0
  <2>4. ASSUME NEW i \in 1 .. Len(s), \A j \in 1 .. i : s[j] # e
        PROVE  i + 1 <= Len(r) /\ r[i + 1] = s[i]
    <3>1. i < p
      BY <2>1, <2>4, <1>0
    <3>2. i + 1 \in 1 .. Len(s) /\ i + 1 # 1 /\ i + 1 <= p /\ (i + 1) - 1 = i
      BY <3>1, <1>0
    <3> QED BY <3>2, <2>2
  <2>5. 1 \in 1 .. Len(s)
    BY <1>0
  <2> QED BY <2>1, <2>2, <2>3, <2>4, <2>5, <1>0 DEF Distinct, r
<1>2. CASE \A i \in 1 .. Len(s) : s[i] # e
  <2>2. /\ r \in Seq(S) /\ Len(r) = Len(s) + 1
        /\ \A i \in 1 .. Len(s) + 1 : r[i] = IF i = 1 THEN e ELSE s[i - 1]
    BY <1>2, MovedFromOutside
  <2> HIDE DEF r
  <2>3. ASSUME NEW i \in 1 .. Len(s) + 1, NEW j \in 1 .. Len(s) + 1, r[i] = r[j]
        PROVE  i = j
    <3>1. CASE i = 1 \/ j = 1
      BY <3>1, <1>2, <2>2, <2>3, <1>0
    <3>2. CASE i # 1 /\ j # 1
      <4>1. i - 1 \in 1 .. Len(s) /\ j - 1 \in 1 .. Len(s) /\ s[i - 1] = s[j - 1]
        BY <3>2, <2>2, <2>3, <1>0
      <4> QED BY <4>1 DEF Distinct
    <3> QED BY <3>1, <3>2
  <2>4. ASSUME NEW i \in 1 .. Len(s)
        PROVE  i + 1 <= Len(r) /\ r[i + 1] = s[i]
    BY <2>2, <1>0
  <2> QED BY <2>2, <2>3, <2>4, <1>0 DEF Distinct, r
<1> QED BY <1>1, <1>2

LEMMA Unpacked ==
  ASSUME LRUInv
  PROVE  /\ cache_ \in Seq(Node) /\ Len(cache_) \in Nat /\ Len(cache_) <= Size /\ Size \in Nat \ {0}
         /\ \A i \in 1 .. Len(cache_) : cache_[i] \in Node /\ node[cache_[i]] \in Pair
         /\ Distinct(cache_)
         /\ \A k \in DOMAIN hash_ : node[hash_[k]].first = k
         /\ \A k \in DOMAIN hash_ : \E i \in 1 .. Len(cache_) : hash_[k] = cache_[i]
         /\ lost \/ \A i \in 1 .. Len(cache_) :
                       node[cache_[i]].first \in DOMAIN hash_ /\ hash_[node[cache_[i]].first] = cache_[i]
         /\ uses \in Seq(Key) /\ Len(uses) \in Nat /\ Distinct(uses)
         /\ lost \in BOOLEAN
<1>1. /\ cache_ \in Seq(Node) /\ Len(cache_) \in Nat /\ Len(cache_) <= Size /\ Size \in Nat \ {0}
      /\ \A i \in 1 .. Len(cache_) : cache_[i] \in Node /\ node[cache_[i]] \in Pair
  BY SizeAssumption DEF LRUInv, TypeOK, CapacityRespected
<1>2. uses \in Seq(Key) /\ Len(uses) \in Nat /\ Distinct(uses) /\ lost \in BOOLEAN
  BY DEF LRUInv, TypeOK
<1> QED BY <1>1, <1>2 DEF LRUInv, HashMatchesList, ToSet, Distinct

LEMMA HitKeeps ==
  ASSUME LRUInv, NEW k \in Key, Hit(k)
  PROVE  LRUInv'
<1>1. PICK p \in 1 .. Len(cache_) : hash_[k] = cache_[p]
  BY Unpacked DEF Hit
<1>2. /\ cache_' \in Seq(Node) /\ Len(cache_') = Len(cache_)
      /\ \A i \in 1 .. Len(cache_) :
           cache_'[i] = IF i = 1 THEN cache_[p] ELSE IF i <= p THEN cache_[i - 1] ELSE cache_[i]
  BY <1>1, Unpacked, MovedWithin DEF Hit, Spliced
<1>3. node' = node /\ hash_' = hash_ /\ lost' = lost /\ uses' = MovedToFront(uses, k)
      /\ k \in DOMAIN hash_ /\ node[cache_[p]].first = k
  BY <1>1, Unpacked DEF Hit, Used
<1>4. Head(cache_') = cache_[p]
  BY <1>2, Unpacked, HeadTailProperties
<1>5. Distinct(cache_')
  BY <1>1, Unpacked, MovedDistinct DEF Hit, Spliced
<1>6. \A i \in 1 .. Len(cache_) : \E j \in 1 .. Len(cache_) : cache_'[i] = cache_[j]
  <2>1. ASSUME NEW i \in 1 .. Len(cache_)
        PROVE  \E j \in 1 .. Len(cache_) : cache_'[i] = cache_[j]
    <3>1. CASE i = 1
      BY <3>1, <1>2
    <3>2. CASE i # 1 /\ i <= p
      <4>1. i - 1 \in 1 .. Len(cache_) /\ cache_'[i] = cache_[i - 1]
        BY <3>2, <1>2, Unpacked
      <4> QED BY <4>1
    <3>3. CASE i # 1 /\ ~ i <= p
      BY <3>3, <1>2
    <3> QED BY <3>1, <3>2, <3>3
  <2> QED BY <2>1
<1>7. \A i \in 1 .. Len(cache_) : \E j \in 1 .. Len(cache_) : cache_[i] = cache_'[j]
  <2>1. ASSUME NEW i \in 1 .. Len(cache_)
        PROVE  \E j \in 1 .. Len(cache_) : cache_[i] = cache_'[j]
    <3>1. CASE i = p
      <4>1. 1 \in 1 .. Len(cache_) /\ cache_'[1] = cache_[p]
        BY <1>2, Unpacked
      <4> QED BY <4>1, <3>1
    <3>2. CASE i < p
      <4>1. i + 1 \in 1 .. Len(cache_) /\ i + 1 # 1 /\ i + 1 <= p /\ (i + 1) - 1 = i
        BY <3>2, Unpacked
      <4> QED BY <4>1, <1>2
    <3>3. CASE i > p
      <4>1. i # 1 /\ ~ i <= p
        BY <3>3, Unpacked
      <4> QED BY <4>1, <1>2
    <3> QED BY <3>1, <3>2, <3>3, Unpacked
  <2> QED BY <2>1
<1>8. uses' \in Seq(Key) /\ Distinct(uses')
  BY <1>3, Unpacked, MovedDistinct
<1>9. answer' \in [key : Key, what : {"block"}, bb : Block]
  <2>1. node[cache_[p]].second \in Block
    BY Unpacked DEF Pair
  <2>2. answer' = [key |-> k, what |-> "block", bb |-> node[cache_[p]].second]
    BY <1>4 DEF Hit, Answer
  <2> QED BY <2>1, <2>2
<1>10. HashMatchesList'
  <2>0. DOMAIN cache_' = 1 .. Len(cache_)
    BY <1>2
  <2>1. \A j \in DOMAIN hash_ : \E i \in DOMAIN cache_' : hash_[j] = cache_'[i]
    <3>1. ASSUME NEW j \in DOMAIN hash_ PROVE \E i \in DOMAIN cache_' : hash_[j] = cache_'[i]
      <4>1. PICK i \in 1 .. Len(cache_) : hash_[j] = cache_[i]
        BY Unpacked
      <4>2. PICK l \in 1 .. Len(cache_) : cache_[i] = cache_'[l]
        BY <1>7
      <4> QED BY <4>1, <4>2, <2>0
    <3> QED BY <3>1
  <2>2. lost \/ \A i \in DOMAIN cache_' :
                  node[cache_'[i]].first \in DOMAIN hash_ /\ hash_[node[cache_'[i]].first] = cache_'[i]
    <3>1. ASSUME ~ lost, NEW i \in DOMAIN cache_'
          PROVE  node[cache_'[i]].first \in DOMAIN hash_ /\ hash_[node[cache_'[i]].first] = cache_'[i]
      <4>1. PICK j \in 1 .. Len(cache_) : cache_'[i] = cache_[j]
        BY <1>6, <2>0
      <4> QED BY <4>1, <3>1, Unpacked
    <3> QED BY <3>1
  <2>3. \A i, j \in DOMAIN cache_' : cache_'[i] = cache_'[j] => i = j
    BY <2>0, <1>2, <1>5 DEF Distinct
  <2>4. \A j \in DOMAIN hash_ : node[hash_[j]].first = j
    BY Unpacked
  <2> QED BY <1>3, <2>1, <2>2, <2>3, <2>4 DEF HashMatchesList, ToSet
<1>11. \A i \in 1 .. Len(cache_') : node'[cache_'[i]] \in Pair
  BY <1>2, <1>3, <1>6, Unpacked
<1>12. ASSUME ~ lost
       PROVE  /\ Len(cache_') <= Len(uses')
              /\ \A i \in 1 .. Len(cache_') : node'[cache_'[i]].first = uses'[i]
  <2>1. Len(cache_) <= Len(uses) /\ \A i \in 1 .. Len(cache_) : node[cache_[i]].first = uses[i]
    BY <1>12 DEF LRUInv
  <2>2. p \in 1 .. Len(uses) /\ uses[p] = k
    BY <2>1, <1>3, Unpacked
  <2>3. /\ Len(uses') = Len(uses)
        /\ \A i \in 1 .. Len(uses) : uses'[i] = IF i = 1 THEN uses[p] ELSE IF i <= p THEN uses[i - 1] ELSE uses[i]
    BY <2>2, <1>3, Unpacked, MovedWithin
  <2>4. ASSUME NEW i \in 1 .. Len(cache_) PROVE node[cache_'[i]].first = uses'[i]
    <3>1. i \in 1 .. Len(uses) /\ (i # 1 => i - 1 \in 1 .. Len(cache_))
      BY <2>1, Unpacked
    <3> QED BY <3>1, <2>1, <2>2, <2>3, <1>2
  <2> QED BY <2>1, <2>3, <2>4, <1>2, <1>3
<1>13. TypeOK'
  <2>1. answer' \in {NoBlock} \union [key : Key, what : {"block"}, bb : Block]
                       \union [key : Key, what : {"threw"}, bb : {NoBlock}]
    BY <1>9
  <2> QED BY <1>2, <1>3, <1>8, <2>1 DEF LRUInv, TypeOK
<1>14. CapacityRespected'
  BY <1>2, Unpacked DEF CapacityRespected
<1> QED BY <1>3, <1>8, <1>10, <1>11, <1>12, <1>13, <1>14 DEF LRUInv

\* What Miss and MissUnhashed have in common.
LEMMA RoomKeeps ==
  ASSUME LRUInv, NEW k \in Key, NEW bb \in Block, MadeRoomFor(k, bb)
  PROVE  /\ cache_' \in Seq(Node) /\ CapacityRespected'
         /\ node' \in [Node -> Pair \union {Junk}]
         /\ \A i, j \in DOMAIN cache_' : cache_'[i] = cache_'[j] => i = j
         /\ \A i \in 1 .. Len(cache_') : node'[cache_'[i]] \in Pair
         /\ \A j \in DOMAIN EvictedHash :
              /\ \E i \in DOMAIN cache_' : EvictedHash[j] = cache_'[i]
              /\ node'[EvictedHash[j]] = node[hash_[j]] /\ node'[EvictedHash[j]].first = j
<1>1. PICK n \in Node :
           /\ cache_' \in Seq(Node) /\ Len(cache_') = Len(EvictedList) + 1
           /\ Head(cache_') = n /\ cache_'[1] = n
           /\ \A i \in 1 .. Len(EvictedList) : cache_'[i + 1] = cache_[i] /\ cache_[i] # n
           /\ node' \in [Node -> Pair \union {Junk}]
           /\ node'[n] = [first |-> k, second |-> bb]
           /\ \A i \in 1 .. Len(EvictedList) : node'[cache_[i]] = node[cache_[i]]
  BY RoomMade
<1>2. Len(EvictedList) \in Nat /\ Len(EvictedList) < Size /\ Len(EvictedList) <= Len(cache_)
  BY Evicted
<1>3. DOMAIN cache_' = 1 .. Len(EvictedList) + 1
  BY <1>1
<1>4. CapacityRespected'
  BY <1>1, <1>2, Unpacked DEF CapacityRespected
<1>5. \A i, j \in DOMAIN cache_' : cache_'[i] = cache_'[j] => i = j
  BY <1>1, <1>3, StillDistinct
<1>6. ASSUME NEW i \in 1 .. Len(cache_') PROVE node'[cache_'[i]] \in Pair
  <2>1. CASE i = 1
    BY <2>1, <1>1 DEF Pair
  <2>2. CASE i # 1
    <3>1. i - 1 \in 1 .. Len(EvictedList) /\ (i - 1) + 1 = i /\ i - 1 \in 1 .. Len(cache_)
      BY <2>2, <1>1, <1>2, Unpacked
    <3>2. node'[cache_'[i]] = node[cache_[i - 1]]
      BY <1>1, <3>1
    <3> QED BY <3>1, <3>2, Unpacked
  <2> QED BY <2>1, <2>2
<1>7. ASSUME NEW j \in DOMAIN EvictedHash
      PROVE  /\ \E i \in DOMAIN cache_' : EvictedHash[j] = cache_'[i]
             /\ node'[EvictedHash[j]] = node[hash_[j]] /\ node'[EvictedHash[j]].first = j
  <2>1. EvictedHash[j] = hash_[j] /\ j \in DOMAIN hash_
    BY Evicted
  <2>2. PICK i \in 1 .. Len(EvictedList) : hash_[j] = cache_[i]
    BY Evicted
  <2>3. i + 1 \in DOMAIN cache_' /\ cache_'[i + 1] = cache_[i]
    BY <1>1, <1>2, <1>3
  <2>4. node'[cache_[i]] = node[cache_[i]]
    BY <1>1
  <2>5. node[hash_[j]].first = j
    BY <2>1, Unpacked
  <2> QED BY <2>1, <2>2, <2>3, <2>4, <2>5
<1> QED BY <1>1, <1>4, <1>5, <1>6, <1>7

LEMMA MissKeeps ==
  ASSUME LRUInv, NEW k \in Key, NEW bb \in Block, Miss(k, bb)
  PROVE  LRUInv'
<1> DEFINE m == Len(EvictedList)
<1>0. MadeRoomFor(k, bb) /\ k \notin DOMAIN hash_
  BY DEF Miss, MadeRoomFor
<1>1. PICK n \in Node :
           /\ cache_' \in Seq(Node) /\ Len(cache_') = m + 1
           /\ Head(cache_') = n /\ cache_'[1] = n
           /\ \A i \in 1 .. m : cache_'[i + 1] = cache_[i] /\ cache_[i] # n
           /\ node'[n] = [first |-> k, second |-> bb]
           /\ \A i \in 1 .. m : node'[cache_[i]] = node[cache_[i]]
  BY <1>0, RoomMade
<1>2. m \in Nat /\ m <= Len(cache_) /\ DOMAIN EvictedHash \subseteq DOMAIN hash_
  BY Evicted
<1> HIDE DEF m
<1>3. DOMAIN cache_' = 1 .. m + 1
  BY <1>1
<1>4. /\ DOMAIN hash_' = DOMAIN EvictedHash \union {k} /\ hash_'[k] = n
      /\ \A j \in DOMAIN EvictedHash : hash_'[j] = EvictedHash[j]
      /\ k \notin DOMAIN EvictedHash
  <2>1. hash_' = [j \in DOMAIN EvictedHash \union {k} |-> IF j = k THEN n ELSE EvictedHash[j]]
    BY <1>1 DEF Miss, Hashed
  <2> QED BY <2>1, <1>0, <1>2
<1>5. hash_' \in [DOMAIN hash_' -> Node] /\ DOMAIN hash_' \subseteq Key
  <2>1. DOMAIN hash_ \subseteq Key /\ hash_ \in [DOMAIN hash_ -> Node]
    BY DEF LRUInv, TypeOK
  <2>2. \A j \in DOMAIN EvictedHash : EvictedHash[j] = hash_[j]
    BY Evicted
  <2>3. hash_' = [j \in DOMAIN EvictedHash \union {k} |-> IF j = k THEN n ELSE EvictedHash[j]]
    BY <1>1 DEF Miss, Hashed
  <2> QED BY <2>1, <2>2, <2>3, <1>2
<1>6. uses' = MovedToFront(uses, k) /\ lost' = lost
  BY DEF Miss, Used
<1>7. uses' \in Seq(Key) /\ Distinct(uses') /\ Len(uses') >= Len(uses) /\ uses'[1] = k
  BY <1>6, Unpacked, MovedDistinct
<1>7a. \A i \in 1 .. Len(uses) :
         (\A j \in 1 .. i : uses[j] # k) => i + 1 <= Len(uses') /\ uses'[i + 1] = uses[i]
  <2>0. uses \in Seq(Key) /\ Distinct(uses)
    BY Unpacked
  <2>1. LET r == MovedToFront(uses, k)
        IN  \A i \in 1 .. Len(uses) :
              (\A j \in 1 .. i : uses[j] # k) => i + 1 <= Len(r) /\ r[i + 1] = uses[i]
    BY <2>0, MovedDistinct, Zenon
  <2> QED BY <2>1, <1>6
<1>8. answer' \in [key : Key, what : {"block"}, bb : Block]
  BY <1>1 DEF Miss, Answer
<1>9. HashMatchesList'
  <2>1. \A j \in DOMAIN hash_' : \E i \in DOMAIN cache_' : hash_'[j] = cache_'[i]
    <3>1. \A j \in DOMAIN EvictedHash : \E i \in DOMAIN cache_' : hash_'[j] = cache_'[i]
      BY <1>0, <1>4, RoomKeeps
    <3>2. 1 \in DOMAIN cache_' /\ hash_'[k] = cache_'[1]
      BY <1>1, <1>2, <1>3, <1>4
    <3> QED BY <3>1, <3>2, <1>4
  <2>2. \A j \in DOMAIN hash_' : node'[hash_'[j]].first = j
    <3>1. \A j \in DOMAIN EvictedHash : node'[hash_'[j]].first = j
      BY <1>0, <1>4, RoomKeeps
    <3> QED BY <3>1, <1>1, <1>4
  <2>3. ASSUME ~ lost, NEW i \in DOMAIN cache_'
        PROVE  node'[cache_'[i]].first \in DOMAIN hash_' /\ hash_'[node'[cache_'[i]].first] = cache_'[i]
    <3>1. CASE i = 1
      BY <3>1, <1>1, <1>4
    <3>2. CASE i # 1
      <4>1. i - 1 \in 1 .. m /\ (i - 1) + 1 = i /\ i - 1 \in 1 .. Len(cache_)
        BY <3>2, <1>2, <1>3, Unpacked
      <4>2. cache_'[i] = cache_[i - 1] /\ node'[cache_'[i]] = node[cache_[i - 1]]
        BY <1>1, <4>1
      <4>3. node[cache_[i - 1]].first \in DOMAIN EvictedHash
        BY <2>3, <4>1, Evicted DEF m
      <4>4. hash_[node[cache_[i - 1]].first] = cache_[i - 1]
        BY <2>3, <4>1, Unpacked
      <4>5. EvictedHash[node[cache_[i - 1]].first] = cache_[i - 1]
        BY <4>3, <4>4, Evicted
      <4> QED BY <4>2, <4>3, <4>5, <1>4
    <3> QED BY <3>1, <3>2
  <2>4. \A i, j \in DOMAIN cache_' : cache_'[i] = cache_'[j] => i = j
    BY <1>0, RoomKeeps
  <2> QED BY <1>6, <2>1, <2>2, <2>3, <2>4 DEF HashMatchesList, ToSet
<1>10. ASSUME ~ lost
       PROVE  /\ Len(cache_') <= Len(uses')
              /\ \A i \in 1 .. Len(cache_') : node'[cache_'[i]].first = uses'[i]
  <2>1. Len(cache_) <= Len(uses) /\ \A i \in 1 .. Len(cache_) : node[cache_[i]].first = uses[i]
    BY <1>10 DEF LRUInv
  <2>2. ASSUME NEW i \in 1 .. m
        PROVE  /\ i + 1 <= Len(uses') /\ uses'[i + 1] = uses[i]
               /\ node'[cache_'[i + 1]].first = uses[i]
    <3>1. \A j \in 1 .. i : j \in 1 .. Len(cache_) /\ j \in 1 .. Len(uses)
      BY <2>1, <1>2, Unpacked
    <3>2. \A j \in 1 .. i : uses[j] # k
      BY <3>1, <2>1, <1>0, <1>10, Unpacked
    <3>3. i \in 1 .. Len(uses) /\ i \in 1 .. Len(cache_)
      BY <3>1, <1>2
    <3>4. i + 1 <= Len(uses') /\ uses'[i + 1] = uses[i]
      BY <3>2, <3>3, <1>7a
    <3>5. node'[cache_'[i + 1]] = node[cache_[i]]
      BY <1>1
    <3> QED BY <3>3, <3>4, <3>5, <2>1
  <2>3. 1 <= Len(uses')
    <3>1. CASE Len(uses) = 0
      <4>0. \A i \in 1 .. Len(uses) : uses[i] # k
        BY <3>1
      <4>1. Len(uses') = Len(uses) + 1
        BY <4>0, <1>6, Unpacked, MovedFromOutside
      <4> QED BY <4>1, <3>1
    <3> QED BY <3>1, <1>7, Unpacked
  <2>4. m + 1 <= Len(uses')
    BY <2>2, <2>3, <1>2
  <2>5. ASSUME NEW i \in 1 .. m + 1
        PROVE  node'[cache_'[i]].first = uses'[i]
    <3>1. CASE i = 1
      BY <3>1, <1>1, <1>7
    <3>2. CASE i # 1
      <4>1. i - 1 \in 1 .. m /\ (i - 1) + 1 = i
        BY <3>2, <1>2
      <4> QED BY <4>1, <2>2
    <3> QED BY <3>1, <3>2
  <2> QED BY <2>4, <2>5, <1>1
<1>11. TypeOK'
  <2>1. answer' \in {NoBlock} \union [key : Key, what : {"block"}, bb : Block]
                       \union [key : Key, what : {"threw"}, bb : {NoBlock}]
    BY <1>8
  <2>2. cache_' \in Seq(Node) /\ node' \in [Node -> Pair \union {Junk}] /\ lost' \in BOOLEAN
    BY <1>0, <1>6, RoomKeeps, Unpacked
  <2> QED BY <1>5, <1>7, <2>1, <2>2 DEF TypeOK
<1> QED BY <1>0, <1>6, <1>7, <1>9, <1>10, <1>11, RoomKeeps DEF LRUInv

LEMMA EvictedHashTyped ==
  ASSUME LRUInv
  PROVE  DOMAIN EvictedHash \subseteq Key /\ EvictedHash \in [DOMAIN EvictedHash -> Node]
<1>1. DOMAIN hash_ \subseteq Key /\ hash_ \in [DOMAIN hash_ -> Node]
  BY DEF LRUInv, TypeOK
<1>2. CASE IsFull
  <2>1. EvictedHash = [k \in DOMAIN hash_ \ {node[Back].first} |-> hash_[k]]
    BY <1>2 DEF EvictedHash
  <2> QED BY <2>1, <1>1
<1>3. CASE ~ IsFull
  BY <1>1, <1>3 DEF EvictedHash
<1> QED BY <1>2, <1>3

LEMMA ThrewAnswers ==
  ASSUME NEW k \in Key
  PROVE  Answer(k, "threw", NoBlock) \in [key : Key, what : {"threw"}, bb : {NoBlock}]
  BY DEF Answer

LEMMA MissUnhashedKeeps ==
  ASSUME LRUInv, NEW k \in Key, NEW bb \in Block, MissUnhashed(k, bb)
  PROVE  LRUInv'
<1>1. /\ MadeRoomFor(k, bb) /\ hash_' = EvictedHash /\ lost' = TRUE /\ uses' = uses
      /\ answer' = Answer(k, "threw", NoBlock)
  BY DEF MissUnhashed
<1>2. TypeOK'
  <2>1. cache_' \in Seq(Node) /\ node' \in [Node -> Pair \union {Junk}]
    BY <1>1, RoomKeeps
  <2>2. answer' \in {NoBlock} \union [key : Key, what : {"block"}, bb : Block]
                       \union [key : Key, what : {"threw"}, bb : {NoBlock}]
    BY <1>1, ThrewAnswers
  <2>3. DOMAIN hash_' \subseteq Key /\ hash_' \in [DOMAIN hash_' -> Node]
    BY <1>1, EvictedHashTyped
  <2>4. uses' \in Seq(Key) /\ lost' \in BOOLEAN
    BY <1>1, Unpacked
  <2> QED BY <2>1, <2>2, <2>3, <2>4 DEF TypeOK
<1>3. HashMatchesList'
  <2>1. \A j \in DOMAIN hash_' : /\ \E i \in DOMAIN cache_' : hash_'[j] = cache_'[i]
                                 /\ node'[hash_'[j]].first = j
    BY <1>1, RoomKeeps
  <2>2. \A i, j \in DOMAIN cache_' : cache_'[i] = cache_'[j] => i = j
    BY <1>1, RoomKeeps
  <2> QED BY <1>1, <2>1, <2>2 DEF HashMatchesList, ToSet
<1>4. CapacityRespected' /\ \A i \in 1 .. Len(cache_') : node'[cache_'[i]] \in Pair
  BY <1>1, RoomKeeps
<1> QED BY <1>1, <1>2, <1>3, <1>4, Unpacked DEF LRUInv, Distinct

LEMMA MissThrewKeeps ==
  ASSUME LRUInv, NEW k \in Key, MissThrew(k)
  PROVE  LRUInv'
<1> DEFINE m == Len(EvictedList)
<1>1. /\ cache_' = EvictedList /\ node' = EvictedNodes /\ hash_' = EvictedHash
      /\ answer' = Answer(k, "threw", NoBlock) /\ uses' = uses /\ lost' = lost
  BY DEF MissThrew
<1>2. /\ m \in Nat /\ m < Size /\ m <= Len(cache_) /\ DOMAIN cache_' = 1 .. m
      /\ \A i \in 1 .. m : cache_'[i] = cache_[i] /\ node'[cache_[i]] = node[cache_[i]]
  BY <1>1, Evicted
<1>3. TypeOK'
  <2>1. cache_' \in Seq(Node) /\ node' \in [Node -> Pair \union {Junk}]
    BY <1>1, Evicted
  <2>2. answer' \in {NoBlock} \union [key : Key, what : {"block"}, bb : Block]
                       \union [key : Key, what : {"threw"}, bb : {NoBlock}]
    BY <1>1, ThrewAnswers
  <2>3. DOMAIN hash_' \subseteq Key /\ hash_' \in [DOMAIN hash_' -> Node]
    BY <1>1, EvictedHashTyped
  <2>4. uses' \in Seq(Key) /\ lost' \in BOOLEAN
    BY <1>1, Unpacked
  <2> QED BY <2>1, <2>2, <2>3, <2>4 DEF TypeOK
<1>4. CapacityRespected'
  BY <1>1, <1>2, Unpacked DEF CapacityRespected
<1> HIDE DEF m
<1>5. \A i \in 1 .. m : i \in 1 .. Len(cache_)
  BY <1>2, Unpacked
<1>6. HashMatchesList'
  <2>1. \A i, j \in DOMAIN cache_' : cache_'[i] = cache_'[j] => i = j
    BY <1>2, <1>5, Unpacked DEF Distinct
  <2>2. ASSUME NEW j \in DOMAIN hash_'
        PROVE  (\E i \in DOMAIN cache_' : hash_'[j] = cache_'[i]) /\ node'[hash_'[j]].first = j
    <3>1. hash_'[j] = hash_[j] /\ j \in DOMAIN hash_
      BY <1>1, Evicted
    <3>2. PICK i \in 1 .. m : hash_[j] = cache_[i]
      BY <1>1, Evicted DEF m
    <3>3. node[hash_[j]].first = j
      BY <3>1, Unpacked
    <3> QED BY <3>1, <3>2, <3>3, <1>2
  <2>3. ASSUME ~ lost, NEW i \in DOMAIN cache_'
        PROVE  node'[cache_'[i]].first \in DOMAIN hash_' /\ hash_'[node'[cache_'[i]].first] = cache_'[i]
    <3>1. i \in 1 .. m /\ i \in 1 .. Len(cache_) /\ cache_'[i] = cache_[i] /\ node'[cache_'[i]] = node[cache_[i]]
      BY <1>2, <1>5
    <3>2. node[cache_[i]].first \in DOMAIN EvictedHash
      BY <2>3, <3>1, Evicted DEF m
    <3>3. hash_[node[cache_[i]].first] = cache_[i]
      BY <2>3, <3>1, Unpacked
    <3>4. EvictedHash[node[cache_[i]].first] = cache_[i]
      BY <3>2, <3>3, Evicted
    <3> QED BY <3>1, <3>2, <3>4, <1>1
  <2> QED BY <1>1, <2>1, <2>2, <2>3 DEF HashMatchesList, ToSet
<1>7. \A i \in 1 .. Len(cache_') : node'[cache_'[i]] \in Pair
  <2>1. Len(cache_') = m
    BY <1>1 DEF m
  <2> QED BY <2>1, <1>2, <1>5, Unpacked
<1>8. ASSUME ~ lost
      PROVE  /\ Len(cache_') <= Len(uses')
             /\ \A i \in 1 .. Len(cache_') : node'[cache_'[i]].first = uses'[i]
  <2>1. Len(cache_) <= Len(uses) /\ \A i \in 1 .. Len(cache_) : node[cache_[i]].first = uses[i]
    BY <1>8 DEF LRUInv
  <2>2. Len(cache_') = m
    BY <1>1 DEF m
  <2> QED BY <2>1, <2>2, <1>1, <1>2, <1>5, Unpacked
<1> QED BY <1>1, <1>3, <1>4, <1>6, <1>7, <1>8, Unpacked DEF LRUInv, Distinct

-----------------------------------------------------------------------------
LEMMA LRUInvStarts == Init => LRUInv
<1> SUFFICES ASSUME Init PROVE LRUInv
  OBVIOUS
<1>1. cache_ = <<>> /\ uses = <<>> /\ Len(cache_) = 0 /\ Len(uses) = 0 /\ DOMAIN cache_ = {}
  BY DEF Init
<1>2. hash_ = [k \in {} |-> NoBlock] /\ DOMAIN hash_ = {}
  BY DEF Init
<1>3. TypeOK
  <2>1. node \in [Node -> Pair \union {Junk}]
    BY DEF Init
  <2>2. hash_ \in [DOMAIN hash_ -> Node]
    BY <1>2
  <2>3. cache_ \in Seq(Node) /\ uses \in Seq(Key) /\ lost \in BOOLEAN
    <3>1. cache_ \in Seq(Node) /\ uses \in Seq(Key)
      BY <1>1, EmptySeq
    <3> QED BY <3>1 DEF Init
  <2>4. answer \in {NoBlock} \union [key : Key, what : {"block"}, bb : Block]
                      \union [key : Key, what : {"threw"}, bb : {NoBlock}]
    BY DEF Init
  <2> QED BY <1>2, <2>1, <2>2, <2>3, <2>4 DEF TypeOK
<1>4. CapacityRespected /\ HashMatchesList
  BY <1>1, <1>2, SizeAssumption DEF CapacityRespected, HashMatchesList, ToSet
<1> QED BY <1>1, <1>3, <1>4 DEF LRUInv, Distinct

LEMMA LRUInvKept == LRUInv /\ [Next]_vars => LRUInv'
<1> SUFFICES ASSUME LRUInv, [Next]_vars PROVE LRUInv'
  OBVIOUS
<1>1. CASE UNCHANGED vars
  BY <1>1 DEF vars, LRUInv, TypeOK, CapacityRespected, HashMatchesList, Distinct, ToSet
<1>2. ASSUME NEW k \in Key, LookupUpdate(k) PROVE LRUInv'
  BY <1>2, HitKeeps, MissKeeps, MissUnhashedKeeps, MissThrewKeeps DEF LookupUpdate
<1> QED BY <1>1, <1>2 DEF Next

(* List and hash of the cache describe the same blocks, and every iterator  *)
(* in the hash is valid, after any calls of lookupUpdate (hart.cc 49-63).   *)
THEOREM ListAndHashAgree == Spec => []HashMatchesList
<1>1. LRUInv => HashMatchesList
  BY DEF LRUInv
<1> QED BY <1>1, LRUInvStarts, LRUInvKept, PTL DEF Spec

(* The fields of LRUCache stay in their domains, and its answers are blocks *)
(* that slowGetData has made.                                               *)
THEOREM LRUTypeCorrect == Spec => []TypeOK
<1>1. LRUInv => TypeOK
  BY DEF LRUInv
<1> QED BY <1>1, LRUInvStarts, LRUInvKept, PTL DEF Spec

(* The list never outgrows size_, although isFull compares with == only     *)
(* (hart.cc 47).                                                            *)
THEOREM CapacityAlwaysRespected == Spec => []CapacityRespected
<1>1. LRUInv => CapacityRespected
  BY DEF LRUInv
<1> QED BY <1>1, LRUInvStarts, LRUInvKept, PTL DEF Spec

(* The blocks kept are the most recently used ones, in order of use, for    *)
(* any keys, size and failures of slowGetData (hart.cc 49-63).              *)
THEOREM MostRecentlyUsedKept == Spec => []KeepsMostRecentlyUsed
<1>1. LRUInv => KeepsMostRecentlyUsed
  <2> SUFFICES ASSUME LRUInv, ~ lost
               PROVE  [i \in DOMAIN cache_ |-> node[cache_[i]].first] = SubSeq(uses, 1, Len(cache_))
    BY DEF KeepsMostRecentlyUsed
  <2> DEFINE ks == [i \in 1 .. Len(cache_) |-> node[cache_[i]].first]
  <2>1. /\ Len(cache_) <= Len(uses) /\ \A i \in 1 .. Len(cache_) : node[cache_[i]].first = uses[i]
        /\ Len(cache_) \in Nat /\ Len(uses) \in Nat /\ uses \in Seq(Key) /\ DOMAIN cache_ = 1 .. Len(cache_)
    BY Unpacked DEF LRUInv
  <2>2. \A i \in 1 .. Len(cache_) : uses[i] \in Key
    BY <2>1
  <2>3. ks \in Seq(Key) /\ Len(ks) = Len(cache_) /\ \A i \in 1 .. Len(cache_) : ks[i] = uses[i]
    BY <2>1, <2>2
  <2>4. /\ SubSeq(uses, 1, Len(cache_)) \in Seq(Key)
        /\ Len(SubSeq(uses, 1, Len(cache_))) = Len(cache_)
        /\ \A i \in 1 .. Len(cache_) : SubSeq(uses, 1, Len(cache_))[i] = uses[i]
    BY <2>1, <2>2, SubSeqProperties
  <2> HIDE DEF ks
  <2>5. ks = SubSeq(uses, 1, Len(cache_))
    BY <2>3, <2>4, SeqEqual
  <2> QED BY <2>5, <2>1 DEF ks
<1> QED BY <1>1, LRUInvStarts, LRUInvKept, PTL DEF Spec

-----------------------------------------------------------------------------
\* Every key the hash knows has been used.
KnownKeysUsed == \A k \in DOMAIN hash_ : \E i \in 1 .. Len(uses) : uses[i] = k

UseInv == LRUInv /\ KnownKeysUsed /\ FailureCostsOneBlock

\* Using a key adds it to the history and takes none away.
LEMMA UsedGrows ==
  ASSUME LRUInv, NEW k \in Key, Used(k)
  PROVE  /\ Len(uses') \in Nat /\ Len(uses') <= Len(uses) + 1
         /\ \E i \in 1 .. Len(uses') : uses'[i] = k
         /\ \A i \in 1 .. Len(uses) : \E j \in 1 .. Len(uses') : uses'[j] = uses[i]
         /\ (\E i \in 1 .. Len(uses) : uses[i] = k) => Len(uses') = Len(uses)
<1>1. uses \in Seq(Key) /\ Len(uses) \in Nat /\ Distinct(uses) /\ uses' = MovedToFront(uses, k)
  BY Unpacked DEF Used
<1>2. CASE \E p \in 1 .. Len(uses) : uses[p] = k
  <2>1. PICK p \in 1 .. Len(uses) : uses[p] = k
    BY <1>2
  <2>2. /\ Len(uses') = Len(uses)
        /\ \A i \in 1 .. Len(uses) :
             uses'[i] = IF i = 1 THEN uses[p] ELSE IF i <= p THEN uses[i - 1] ELSE uses[i]
    BY <1>1, <2>1, MovedWithin
  <2>3. ASSUME NEW i \in 1 .. Len(uses)
        PROVE  \E j \in 1 .. Len(uses') : uses'[j] = uses[i]
    <3>1. CASE i = p
      BY <3>1, <2>2, <1>1
    <3>2. CASE i < p
      <4>1. i + 1 \in 1 .. Len(uses) /\ i + 1 # 1 /\ i + 1 <= p /\ (i + 1) - 1 = i
        BY <3>2, <1>1
      <4> QED BY <4>1, <2>2
    <3>3. CASE i > p
      BY <3>3, <2>2, <1>1
    <3> QED BY <3>1, <3>2, <3>3
  <2>4. \E i \in 1 .. Len(uses') : uses'[i] = k
    BY <2>1, <2>3
  <2>5. Len(uses') \in Nat /\ Len(uses') <= Len(uses) + 1 /\ Len(uses') = Len(uses)
    BY <1>1, <2>2
  <2> QED BY <2>3, <2>4, <2>5
<1>3. CASE \A p \in 1 .. Len(uses) : uses[p] # k
  <2>1. /\ Len(uses') = Len(uses) + 1
        /\ \A i \in 1 .. Len(uses) + 1 : uses'[i] = IF i = 1 THEN k ELSE uses[i - 1]
    BY <1>1, <1>3, MovedFromOutside
  <2>2. ASSUME NEW i \in 1 .. Len(uses)
        PROVE  \E j \in 1 .. Len(uses') : uses'[j] = uses[i]
    <3>1. i + 1 \in 1 .. Len(uses') /\ i + 1 # 1 /\ (i + 1) - 1 = i
      BY <2>1, <1>1
    <3> QED BY <3>1, <2>1
  <2>3. 1 \in 1 .. Len(uses') /\ uses'[1] = k
    BY <2>1, <1>1
  <2> QED BY <1>1, <1>3, <2>1, <2>2, <2>3
<1> QED BY <1>2, <1>3

\* How long the list is after a lookup.
LEMMA EvictionLength ==
  ASSUME LRUInv
  PROVE  /\ Len(EvictedList) \in Nat
         /\ Len(EvictedList) = Len(cache_) \/ Len(EvictedList) = Size - 1
<1>1. cache_ \in Seq(Node) /\ Len(cache_) \in Nat /\ Size \in Nat \ {0}
  BY Unpacked
<1>2. CASE IsFull
  <2>1. EvictedList = Front(cache_) /\ Len(cache_) = Size
    BY <1>2 DEF EvictedList, IsFull
  <2>2. Len(Front(cache_)) = Len(cache_) - 1
    BY <1>1, <2>1 DEF Front
  <2> QED BY <1>1, <2>1, <2>2
<1>3. CASE ~ IsFull
  BY <1>1, <1>3 DEF EvictedList
<1> QED BY <1>2, <1>3

LEMMA UseInvKept ==
  ASSUME UseInv, NEW k \in Key, LookupUpdate(k)
  PROVE  KnownKeysUsed' /\ FailureCostsOneBlock'
<1>1. /\ LRUInv /\ KnownKeysUsed /\ (Len(cache_) >= Size - 1 \/ Len(cache_) >= Len(uses))
      /\ Len(cache_) \in Nat /\ Len(uses) \in Nat /\ Size \in Nat \ {0}
  BY Unpacked DEF UseInv, FailureCostsOneBlock
<1>2. DOMAIN EvictedHash \subseteq DOMAIN hash_
  BY DEF EvictedHash
<1>3. Len(EvictedList) \in Nat /\ (Len(EvictedList) = Len(cache_) \/ Len(EvictedList) = Size - 1)
  BY <1>1, EvictionLength
<1>4. ASSUME NEW bb \in Block, MadeRoomFor(k, bb)  PROVE Len(cache_') = Len(EvictedList) + 1
  BY <1>1, <1>4, RoomMade
<1>5. CASE Hit(k)
  <2>1. k \in DOMAIN hash_ /\ hash_' = hash_ /\ Used(k)
    BY <1>5 DEF Hit
  <2>2. Len(cache_') = Len(cache_)
    <3>1. PICK p \in 1 .. Len(cache_) : hash_[k] = cache_[p]
      BY <1>1, <2>1, Unpacked
    <3> QED BY <3>1, <1>1, <1>5, Unpacked, MovedWithin DEF Hit, Spliced
  <2>3. \E i \in 1 .. Len(uses) : uses[i] = k
    BY <1>1, <2>1 DEF KnownKeysUsed
  <2>4. Len(uses') = Len(uses) /\ \A i \in 1 .. Len(uses) : \E j \in 1 .. Len(uses') : uses'[j] = uses[i]
    BY <1>1, <2>1, <2>3, UsedGrows
  <2> QED BY <1>1, <2>1, <2>2, <2>4 DEF KnownKeysUsed, FailureCostsOneBlock
<1>6. ASSUME NEW bb \in Block, Miss(k, bb)  PROVE KnownKeysUsed' /\ FailureCostsOneBlock'
  <2>1. Used(k) /\ hash_' = Hashed(k) /\ Len(cache_') = Len(EvictedList) + 1
    BY <1>4, <1>6 DEF Miss
  <2>2. DOMAIN hash_' \subseteq DOMAIN hash_ \union {k}
    BY <1>2, <2>1 DEF Hashed
  <2>3. /\ Len(uses') \in Nat /\ Len(uses') <= Len(uses) + 1
        /\ \E i \in 1 .. Len(uses') : uses'[i] = k
        /\ \A i \in 1 .. Len(uses) : \E j \in 1 .. Len(uses') : uses'[j] = uses[i]
    BY <1>1, <2>1, UsedGrows
  <2>4. KnownKeysUsed'
    BY <1>1, <2>2, <2>3 DEF KnownKeysUsed
  <2>5. FailureCostsOneBlock'
    BY <1>1, <1>3, <2>1, <2>3 DEF FailureCostsOneBlock
  <2> QED BY <2>4, <2>5
<1>7. ASSUME NEW bb \in Block, MissUnhashed(k, bb)  PROVE KnownKeysUsed' /\ FailureCostsOneBlock'
  <2>1. uses' = uses /\ hash_' = EvictedHash /\ Len(cache_') = Len(EvictedList) + 1
    BY <1>4, <1>7 DEF MissUnhashed
  <2> QED BY <1>1, <1>2, <1>3, <2>1 DEF KnownKeysUsed, FailureCostsOneBlock
<1>8. CASE MissThrew(k)
  <2>1. uses' = uses /\ hash_' = EvictedHash /\ cache_' = EvictedList
    BY <1>8 DEF MissThrew
  <2> QED BY <1>1, <1>2, <1>3, <2>1 DEF KnownKeysUsed, FailureCostsOneBlock
<1> QED BY <1>5, <1>6, <1>7, <1>8 DEF LookupUpdate

LEMMA UseInvHolds == Spec => []UseInv
<1>1. Init => UseInv
  <2> SUFFICES ASSUME Init PROVE UseInv
    OBVIOUS
  <2>1. DOMAIN hash_ = {} /\ Len(cache_) = 0 /\ Len(uses) = 0
    BY DEF Init
  <2> QED BY <2>1, LRUInvStarts DEF UseInv, KnownKeysUsed, FailureCostsOneBlock
<1>2. UseInv /\ [Next]_vars => UseInv'
  <2> SUFFICES ASSUME UseInv, [Next]_vars PROVE UseInv'
    OBVIOUS
  <2>1. LRUInv'
    BY LRUInvKept DEF UseInv
  <2>2. CASE UNCHANGED vars
    BY <2>1, <2>2 DEF vars, UseInv, KnownKeysUsed, FailureCostsOneBlock
  <2>3. CASE Next
    BY <2>1, <2>3, UseInvKept DEF Next, UseInv
  <2> QED BY <2>2, <2>3
<1> QED BY <1>1, <1>2, PTL DEF Spec

(* However often slowGetData or an allocation fails, the list is never more *)
(* than one block shorter than it could be (hart.cc 51-58).                 *)
THEOREM FailuresCostOneBlock == Spec => []FailureCostsOneBlock
<1>1. UseInv => FailureCostsOneBlock
  BY DEF UseInv
<1> QED BY <1>1, UseInvHolds, PTL

(* A lookup of one of the Size - 1 most recently used keys is a hit, failed *)
(* lookups in between or not.                                               *)
THEOREM RecentlyUsedAlwaysHit == Spec => RecentlyUsedHits
<1> DEFINE Recent(k) == ~ lost /\ \E i \in 1 .. Len(uses) : i <= Size - 1 /\ uses[i] = k
<1>1. UseInv /\ [Next]_vars => [\A k \in Key : Recent(k) /\ answer'.key = k => UNCHANGED hash_]_vars
  <2> SUFFICES ASSUME UseInv, Next, NEW k \in Key, Recent(k), answer'.key = k
               PROVE  UNCHANGED hash_
    OBVIOUS
  <2>1. PICK i \in 1 .. Len(uses) : i <= Size - 1 /\ uses[i] = k
    OBVIOUS
  <2>2. /\ Len(cache_) \in Nat /\ Len(uses) \in Nat /\ Size \in Nat
        /\ Len(cache_) >= Size - 1 \/ Len(cache_) >= Len(uses)
    BY Unpacked DEF UseInv, FailureCostsOneBlock
  <2>3. i \in 1 .. Len(cache_)
    BY <2>1, <2>2
  <2>4. node[cache_[i]].first = uses[i]
    BY <2>3 DEF UseInv, LRUInv
  <2>5. k \in DOMAIN hash_
    BY <2>1, <2>3, <2>4, Unpacked DEF UseInv
  <2>6. PICK j \in Key : LookupUpdate(j)
    BY DEF Next
  <2>7. j = k
    BY <2>6 DEF LookupUpdate, Hit, Miss, MissUnhashed, MissThrew, Answer
  <2>8. Hit(k)
    BY <2>5, <2>6, <2>7 DEF LookupUpdate, Miss, MissUnhashed, MissThrew, MadeRoomFor
  <2> QED BY <2>8 DEF Hit
<1> QED BY <1>1, UseInvHolds, PTL DEF Spec, RecentlyUsedHits

-----------------------------------------------------------------------------
\* What is left of Kept after an eviction and a miss.
LEMMA KeptAfterMiss ==
  ASSUME LRUInv, NEW k \in Key, NEW bb \in Block, MadeRoomFor(k, bb)
  PROVE  /\ k \notin DOMAIN Kept
         /\ node'[Head(cache_')].second = bb
         /\ hash_' = Hashed(k) => Kept' \in Cache!Forgotten(Cache!With(Kept, k, bb))
         /\ hash_' = EvictedHash => Kept' \in Cache!Forgotten(Kept)
<1>1. PICK n \in Node : Head(cache_') = n /\ node'[n] = [first |-> k, second |-> bb]
  BY RoomMade
<1>2. k \notin DOMAIN hash_ /\ DOMAIN EvictedHash \subseteq DOMAIN hash_
  BY Evicted DEF MadeRoomFor
<1>3. \A j \in DOMAIN EvictedHash : node'[EvictedHash[j]].second = Kept[j]
  BY <1>2, RoomKeeps DEF Kept
<1>4. DOMAIN Kept = DOMAIN hash_
  BY DEF Kept
<1>5. ASSUME hash_' = EvictedHash
      PROVE  Kept' \in Cache!Forgotten(Kept)
  <2>1. Kept' = [j \in DOMAIN EvictedHash |-> Kept[j]]
    BY <1>3, <1>5 DEF Kept
  <2> QED BY <2>1, <1>2, <1>4 DEF Cache!Forgotten
<1>6. ASSUME hash_' = Hashed(k)
      PROVE  Kept' \in Cache!Forgotten(Cache!With(Kept, k, bb))
  <2> DEFINE K == DOMAIN EvictedHash \union {k}
             w == Cache!With(Kept, k, bb)
  <2>1. hash_' = [j \in K |-> IF j = k THEN n ELSE EvictedHash[j]]
    BY <1>1, <1>6 DEF Hashed
  <2>2. DOMAIN w = DOMAIN Kept \union {k} /\ \A j \in DOMAIN w : w[j] = IF j = k THEN bb ELSE Kept[j]
    BY DEF Cache!With
  <2>3. \A j \in K : node'[hash_'[j]].second = w[j]
    BY <2>1, <2>2, <1>1, <1>2, <1>3, <1>4
  <2>4. DOMAIN hash_' = K
    BY <2>1
  <2>5. Kept' = [j \in DOMAIN hash_' |-> node'[hash_'[j]].second]
    BY DEF Kept
  <2> HIDE DEF w, K
  <2>6. Kept' = [j \in K |-> w[j]]
    BY <2>3, <2>4, <2>5
  <2>7. K \in SUBSET DOMAIN w
    BY <2>2, <1>2, <1>4 DEF K
  <2>8. Kept' \in Cache!Forgotten(w)
    BY <2>6, <2>7 DEF Cache!Forgotten
  <2> QED BY <2>8 DEF w
<1> QED BY <1>1, <1>2, <1>4, <1>5, <1>6

LEMMA LookupIsACacheStep ==
  ASSUME LRUInv, NEW k \in Key, LookupUpdate(k)
  PROVE  Cache!CacheNext
<1>1. DOMAIN Kept = DOMAIN hash_
  BY DEF Kept
<1>2. CASE Hit(k)
  <2>1. PICK p \in 1 .. Len(cache_) : hash_[k] = cache_[p]
    BY <1>2, Unpacked DEF Hit
  <2>2. Head(cache_') = cache_[p]
    <3>1. /\ cache_' \in Seq(Node) /\ Len(cache_') = Len(cache_)
          /\ \A i \in 1 .. Len(cache_) :
               cache_'[i] = IF i = 1 THEN cache_[p] ELSE IF i <= p THEN cache_[i - 1] ELSE cache_[i]
      BY <1>2, <2>1, Unpacked, MovedWithin DEF Hit, Spliced
    <3> QED BY <3>1, Unpacked
  <2>3. answer' = Cache!Answer(k, "block", Kept[k]) /\ k \in DOMAIN Kept
    BY <1>1, <1>2, <2>1, <2>2 DEF Hit, Answer, Cache!Answer, Kept
  <2>4. Kept' = Kept
    BY <1>2 DEF Hit, Kept
  <2> QED BY <2>3, <2>4 DEF Cache!CacheNext, Cache!AnswerKept
<1>3. ASSUME NEW bb \in Block, Miss(k, bb)
      PROVE  Cache!CacheNext
  <2>1. /\ MadeRoomFor(k, bb) /\ hash_' = Hashed(k)
        /\ answer' = Answer(k, "block", node'[Head(cache_')].second)
    BY <1>3 DEF Miss
  <2>2. answer' = Cache!Answer(k, "block", bb)
    BY <2>1, KeptAfterMiss DEF Answer, Cache!Answer
  <2>3. Cache!AnswerMade(k, bb)
    BY <2>1, <2>2, KeptAfterMiss DEF Cache!AnswerMade
  <2> QED BY <2>3 DEF Cache!CacheNext
<1>4. ASSUME NEW bb \in Block, MissUnhashed(k, bb)
      PROVE  Cache!CacheNext
  <2>1. MadeRoomFor(k, bb) /\ hash_' = EvictedHash /\ answer' = Cache!Answer(k, "threw", NoBlock)
    BY <1>4 DEF MissUnhashed, Answer, Cache!Answer
  <2>2. Cache!AnswerThrew(k)
    BY <2>1, KeptAfterMiss DEF Cache!AnswerThrew
  <2> QED BY <2>2 DEF Cache!CacheNext
<1>5. CASE MissThrew(k)
  <2>1. /\ k \notin DOMAIN Kept /\ answer' = Cache!Answer(k, "threw", NoBlock)
        /\ hash_' = EvictedHash /\ node' = EvictedNodes
    BY <1>1, <1>5 DEF MissThrew, Answer, Cache!Answer
  <2>2. \A j \in DOMAIN EvictedHash : j \in DOMAIN hash_ /\ EvictedNodes[EvictedHash[j]] = node[hash_[j]]
    BY Evicted
  <2>3. Kept' = [j \in DOMAIN EvictedHash |-> Kept[j]]
    BY <2>1, <2>2 DEF Kept
  <2>4. Kept' \in Cache!Forgotten(Kept)
    BY <2>2, <2>3, <1>1 DEF Cache!Forgotten
  <2>5. Cache!AnswerThrew(k)
    BY <2>1, <2>4 DEF Cache!AnswerThrew
  <2> QED BY <2>5 DEF Cache!CacheNext
<1> QED BY <1>2, <1>3, <1>4, <1>5 DEF LookupUpdate

(* The LRU cache implements BlockCache: it answers with the block kept for  *)
(* the key or with the one just made, and only ever forgets.                *)
THEOREM LRUIsABlockCache == Spec => CacheSpec
<1>1. Init => Cache!CacheInit
  <2> SUFFICES ASSUME Init PROVE Cache!CacheInit
    OBVIOUS
  <2>1. Kept = [k \in {} |-> NoBlock]
    BY DEF Init, Kept
  <2> QED BY <2>1 DEF Init, Cache!CacheInit
<1>2. LRUInv /\ [Next]_vars => [Cache!CacheNext]_(Cache!cacheVars)
  <2> SUFFICES ASSUME LRUInv, [Next]_vars PROVE [Cache!CacheNext]_(Cache!cacheVars)
    OBVIOUS
  <2>1. CASE UNCHANGED vars
    BY <2>1 DEF vars, Kept, Cache!cacheVars
  <2>2. CASE Next
    BY <2>2, LookupIsACacheStep DEF Next
  <2> QED BY <2>1, <2>2
<1> QED BY <1>1, <1>2, LRUInvStarts, LRUInvKept, PTL DEF Spec, CacheSpec, Cache!CacheSpec
=============================================================================
