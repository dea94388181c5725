---------------------------- MODULE LoaderProofs ----------------------------
(***************************************************************************)
(* The constructor that returns has loaded the image of the file: for any  *)
(* executables, address space and word size, whichever stores are refused. *)
(***************************************************************************)
EXTENDS Loader, SequenceTheorems, TLAPS

Segment(i) == file.segments[i]

Typed == TypeOK /\ file \in Files /\ index \in Nat /\ (phase = "open" => index = 0)

\* How many bytes of segment i have been stored, from its first on.
Stored(i) ==
  IF i < index \/ phase = "loaded"
  THEN IF Len(Segment(i).data) < Segment(i).memSize THEN Segment(i).memSize
                                                    ELSE Len(Segment(i).data)
  ELSE IF i = index /\ phase = "text" THEN word * kXLENInBytes
  ELSE IF i = index /\ phase = "fill" THEN fileSize
  ELSE 0

Extent == [i \in Loadable |-> Stored(i)]

\* The segments of which address a has been stored, and what it then holds.
Storing(extent, a) == { i \in Loadable : Offset(Segment(i), a) < extent[i] }
Latest(set) == CHOOSE i \in set : \A j \in set : j <= i
Loaded(extent) ==
  [a \in Addr |-> IF Storing(extent, a) = {} THEN 0
                  ELSE Content(Segment(Latest(Storing(extent, a))), a)]

\* The segment being loaded is not ahead of its words or its fill.
Position ==
  /\ phase = "text" => word <= TextWords(Segment(index))
  /\ phase = "fill" => /\ Len(Segment(index).data) <= fileSize
                       /\ fileSize % kXLENInBytes = 0
                       /\ \/ fileSize = Len(Segment(index).data)
                          \/ fileSize <= Segment(index).memSize

AllWordSized == \A i \in Loadable : WordSized(Segment(i))

LoaderInv ==
  /\ Typed
  /\ phase \in {"text", "fill", "loaded"} => file.flaws = {} /\ pc = file.entry
  /\ phase \in {"text", "fill"} => index \in Loadable
  /\ AllWordSized /\ phase # "failed" => Position /\ bytes = Loaded(Extent)

-----------------------------------------------------------------------------
LEMMA AddrSpaceIsPositive ==
  /\ AddrSpace \in Nat \ {0} /\ Addr = 0 .. AddrSpace - 1 /\ 0 \in Addr
  /\ kXLENInBytes \in Nat \ {0} /\ kXLENInBytes <= PageBytes
<1>1. NumPages \in Nat \ {0} /\ PageBytes \in Nat \ {0}
  BY NumPagesAssumption, PageBytesAssumption
<1>2. NumPages * PageBytes \in Nat \ {0}
  <2>1. (NumPages - 1) * PageBytes \in Nat
        /\ (NumPages - 1) * PageBytes = NumPages * PageBytes - PageBytes
    BY <1>1
  <2> QED BY <1>1, <2>1
<1>3. kXLENInBytes \in 1 .. PageBytes
  BY XLENAssumption, SizesAssumption
<1> QED BY <1>1, <1>2, <1>3 DEF AddrSpace, Addr

(* A multiple of a positive number that lies strictly between -1 and +1     *)
(* times it is 0: the arithmetic behind every other fact here.              *)
LEMMA NoMultipleInBetween ==
  ASSUME NEW P \in Nat \ {0}, NEW p \in Int, NEW q \in Int,
         NEW o \in 0 .. P - 1, NEW r \in 0 .. P - 1,
         P * p + o = P * q + r
  PROVE  p = q /\ o = r
<1>1. ASSUME NEW s \in Int, NEW t \in Int, s < t  PROVE P * s + P <= P * t
  <2>1. t - s - 1 \in Nat
    BY <1>1
  <2>2. P * (t - s - 1) \in Nat
    BY <2>1
  <2>3. P * (t - s - 1) = P * t - P * s - P
    OBVIOUS
  <2> QED
    BY <2>2, <2>3
<1>2. ~ (p < q)
  BY <1>1
<1>3. ~ (q < p)
  BY <1>1
<1> QED
  BY <1>2, <1>3

\* Numbers split into quotient and remainder in one way only.
LEMMA Division ==
  ASSUME NEW n \in Int, NEW P \in Nat \ {0}
  PROVE  /\ n % P \in 0 .. P - 1 /\ n \div P \in Int
         /\ n = P * (n \div P) + (n % P)
         /\ \A q \in Int, r \in 0 .. P - 1 : n = P * q + r => r = n % P
<1>1. n % P \in 0 .. P - 1 /\ n \div P \in Int /\ n = P * (n \div P) + (n % P)
  OBVIOUS
<1>2. ASSUME NEW q \in Int, NEW r \in 0 .. P - 1, n = P * q + r
      PROVE  r = n % P
  <2> DEFINE d == n \div P  m == n % P
  <2>1. d \in Int /\ m \in 0 .. P - 1 /\ P * d + m = P * q + r
    BY <1>1, <1>2
  <2> HIDE DEF d, m
  <2>2. m = r
    BY <2>1, NoMultipleInBetween
  <2> QED BY <2>2 DEF m
<1> QED BY <1>1, <1>2

LEMMA IndexPtIsPage ==
  ASSUME NEW addr \in Addr
  PROVE  IndexPt(addr) \in Pages
<1> DEFINE p == addr \div PageBytes  o == addr % PageBytes
<1>1. PageBytes \in Nat \ {0} /\ NumPages \in Nat \ {0} /\ addr \in Nat /\ addr < NumPages * PageBytes
  BY PageBytesAssumption, NumPagesAssumption DEF Addr
<1>2. p \in Nat /\ o \in Nat /\ addr = PageBytes * p + o
  BY <1>1
<1> HIDE DEF p, o
<1>3. ~ (p >= NumPages)
  <2> SUFFICES ASSUME p >= NumPages PROVE FALSE
    OBVIOUS
  <2>1. PageBytes * (p - NumPages) \in Nat
    BY <1>1, <1>2
  <2>2. PageBytes * (p - NumPages) = PageBytes * p - NumPages * PageBytes
    BY <1>1, <1>2
  <2> QED BY <1>1, <1>2, <2>1, <2>2
<1>4. p \in Pages
  BY <1>1, <1>2, <1>3 DEF Pages
<1> QED BY <1>4 DEF IndexPt, p

\* Between multiples of P there is room for P.
LEMMA RoomForOne ==
  ASSUME NEW P \in Nat \ {0}, NEW m \in Int, NEW n \in Int,
         m % P = 0, n % P = 0, m < n
  PROVE  m + P <= n /\ (m + P) % P = 0
<1> DEFINE c == m \div P  d == n \div P
<1>1. c \in Int /\ d \in Int /\ m = P * c /\ n = P * d
  BY Division
<1> HIDE DEF c, d
<1>2. P * (d - c) = n - m
  BY <1>1
<1>3. d - c >= 1
  <2>1. SUFFICES ASSUME c - d \in Nat PROVE FALSE
    BY <1>1
  <2>2. P * (c - d) \in Nat /\ P * (c - d) = m - n
    BY <1>1, <2>1
  <2> QED BY <2>2
<1>4. P * (d - c - 1) \in Nat /\ P * (d - c - 1) = n - m - P
  BY <1>1, <1>2, <1>3
<1>5. m + P = P * (c + 1) + 0 /\ c + 1 \in Int /\ 0 \in 0 .. P - 1 /\ m + P \in Int
  BY <1>1
<1>6. (m + P) % P = 0
  <2> DEFINE x == m + P  none == 0
  <2>1. x \in Int /\ none \in 0 .. P - 1 /\ x = P * (c + 1) + none
    BY <1>5
  <2> HIDE DEF x, none
  <2>2. none = x % P
    BY <1>5, <2>1, Division
  <2> QED BY <2>2 DEF x, none
<1> QED BY <1>4, <1>6

LEMMA MultipleIsMultiple ==
  ASSUME NEW P \in Nat \ {0}, NEW c \in Int
  PROVE  (c * P) % P = 0
<1> DEFINE n == c * P
<1>1. n \in Int /\ n = P * c + 0 /\ 0 \in 0 .. P - 1
  OBVIOUS
<1> HIDE DEF n
<1>2. 0 = n % P
  BY <1>1, Division
<1> QED BY <1>2 DEF n

\* Whole words of text are all of the text.
LEMMA WholeText ==
  ASSUME NEW s, Len(s.data) \in Nat, Len(s.data) % kXLENInBytes = 0
  PROVE  TextWords(s) \in Nat /\ TextWords(s) * kXLENInBytes = Len(s.data)
<1> DEFINE n == Len(s.data)  P == kXLENInBytes  d == n \div P
<1>1. P \in Nat \ {0} /\ n \in Nat /\ n % P = 0
  BY AddrSpaceIsPositive
<1> HIDE DEF n, P
<1>2. d \in Nat
  BY <1>1
<1> HIDE DEF d
<1>3. n = P * d
  <2>1. n = P * (n \div P) + (n % P)
    BY <1>1, Division
  <2> QED BY <1>1, <1>2, <2>1 DEF d
<1>4. P * d = d * P
  BY <1>1, <1>2
<1> QED BY <1>2, <1>3, <1>4 DEF TextWords, n, P, d

\* Bytes e, ..., e + k - 1 of a segment that are stored at addr without going
\* past the end of the address space are the bytes from addr on.
LEMMA StoredBytes ==
  ASSUME NEW s, s.addr \in Addr, NEW e \in Nat, NEW k \in Nat \ {0},
         e + k <= AddrSpace, InSegment(s, e) + k <= AddrSpace, NEW a \in Addr
  PROVE  /\ InSegment(s, e) \in Addr /\ Offset(s, a) \in Addr
         /\ a \in InSegment(s, e) .. InSegment(s, e) + k - 1
              <=> Offset(s, a) \in e .. e + k - 1
         /\ a \in InSegment(s, e) .. InSegment(s, e) + k - 1
              => Offset(s, a) = e + (a - InSegment(s, e))
<1> DEFINE A == AddrSpace  b == s.addr  c == InSegment(s, e)  o == Offset(s, a)
<1>1. A \in Nat \ {0} /\ Addr = 0 .. A - 1 /\ a \in 0 .. A - 1 /\ b \in 0 .. A - 1
  BY AddrSpaceIsPositive
<1>2. c \in 0 .. A - 1 /\ \E p \in Int : b + e = A * p + c
  <2>1. b + e \in Int
    BY <1>1
  <2>2. /\ (b + e) % A \in 0 .. A - 1 /\ (b + e) \div A \in Int
        /\ b + e = A * ((b + e) \div A) + ((b + e) % A)
    <3> HIDE DEF A, b
    <3> QED BY <1>1, <2>1, Division
  <2> QED BY <2>2 DEF InSegment
<1>3. o \in 0 .. A - 1 /\ \E q \in Int : a - b = A * q + o
  <2>1. a - b \in Int
    BY <1>1
  <2>2. /\ (a - b) % A \in 0 .. A - 1 /\ (a - b) \div A \in Int
        /\ a - b = A * ((a - b) \div A) + ((a - b) % A)
    <3> HIDE DEF A, b
    <3> QED BY <1>1, <2>1, Division
  <2> QED BY <2>2 DEF Offset
<1>4. e + k <= A /\ c + k <= A
  OBVIOUS
<1> HIDE DEF A, b, c, o
<1>5. PICK p \in Int, q \in Int : b + e = A * p + c /\ a - b = A * q + o
  BY <1>2, <1>3
<1>6. A * (p + q) = A * p + A * q /\ A * (0 - p) = 0 - A * p /\ p + q \in Int /\ 0 - p \in Int
  BY <1>1
<1>7. ASSUME a \in c .. c + k - 1 PROVE o = e + (a - c)
  <2> DEFINE r == e + (a - c)
  <2>1. r \in 0 .. A - 1
    BY <1>1, <1>2, <1>4, <1>7
  <2>2. A * q + o = A * (0 - p) + r
    BY <1>1, <1>2, <1>3, <1>5, <1>6
  <2> HIDE DEF r
  <2>3. o = r
    BY <1>1, <1>3, <1>6, <2>1, <2>2, NoMultipleInBetween
  <2> QED BY <2>3 DEF r
<1>8. ASSUME o \in e .. e + k - 1 PROVE a \in c .. c + k - 1
  <2> DEFINE r == c + (o - e)  none == 0
  <2>1. r \in 0 .. A - 1 /\ none \in Int
    BY <1>1, <1>2, <1>3, <1>4, <1>8
  <2>2. A * none + a = A * (p + q) + r
    BY <1>1, <1>2, <1>3, <1>5, <1>6
  <2> HIDE DEF r, none
  <2>3. a = r
    BY <1>1, <1>6, <2>1, <2>2, NoMultipleInBetween
  <2> QED BY <2>3, <1>1, <1>2, <1>3, <1>8 DEF r
<1>9. a \in c .. c + k - 1 => o \in e .. e + k - 1
  BY <1>1, <1>2, <1>7
<1> QED BY <1>1, <1>2, <1>3, <1>7, <1>8, <1>9 DEF c, o

-----------------------------------------------------------------------------
LEMMA SegmentFacts ==
  ASSUME file \in Files, NEW i \in Loadable
  PROVE  /\ i \in Nat /\ i >= 1
         /\ Segment(i).addr \in Addr /\ Segment(i).memSize \in Addr
         /\ Segment(i).data \in Seq(MemByte) /\ Len(Segment(i).data) \in Addr
<1>1. file.segments \in Seq(Segments) /\ i \in DOMAIN file.segments
  BY FilesAssumption DEF Loadable
<1>2. file.segments[i] \in Segments /\ i \in Nat /\ i >= 1
  BY <1>1
<1>3. Len(file.segments[i].data) \in Addr
  BY <1>1, FilesAssumption
<1> QED BY <1>2, <1>3 DEF Segments, Segment

\* A store that is accepted lies in the address space.
LEMMA StoreInSpace ==
  ASSUME NEW addr \in Addr, ~ Misaligned(addr, kXLENInBytes)
  PROVE  addr + kXLENInBytes <= AddrSpace
<1>1. addr % kXLENInBytes = 0 /\ AddrSpace % kXLENInBytes = 0
  BY XLENAssumption DEF Misaligned
<1>2. addr \in Int /\ AddrSpace \in Int /\ addr < AddrSpace /\ kXLENInBytes \in Nat \ {0}
  BY AddrSpaceIsPositive
<1> HIDE DEF AddrSpace
<1> QED BY <1>1, <1>2, RoomForOne

\* Of segment n, the last one begun, e bytes have been stored, and a word more;
\* and v is that word.
Longer(n, e, extent, longer) ==
  /\ \A i \in Loadable : i # n => longer[i] = extent[i]
  /\ \A i \in Loadable : i > n => extent[i] = 0
  /\ extent[n] = e /\ longer[n] = e + kXLENInBytes

WordAt(n, e, v) ==
  /\ e + kXLENInBytes <= AddrSpace
  /\ Len(v) = kXLENInBytes
  /\ \A b \in 1 .. kXLENInBytes :
       v[b] = IF e + b - 1 < Len(Segment(n).data) THEN Segment(n).data[e + b] ELSE 0

\* The word after the first e bytes of segment n, the last one begun, makes
\* e + k bytes of it stored.
LEMMA OneWordMore ==
  ASSUME file \in Files, NEW n \in Loadable, NEW extent, NEW longer, NEW e \in Nat, NEW v,
         Longer(n, e, extent, longer), WordAt(n, e, v),
         ~ Misaligned(InSegment(Segment(n), e), kXLENInBytes)
  PROVE  Overwrite(Loaded(extent), InSegment(Segment(n), e), v) = Loaded(longer)
<1>0. /\ \A i \in Loadable : i # n => longer[i] = extent[i]
      /\ \A i \in Loadable : i > n => extent[i] = 0
      /\ extent[n] = e /\ longer[n] = e + kXLENInBytes
      /\ e + kXLENInBytes <= AddrSpace
      /\ Len(v) = kXLENInBytes
      /\ \A b \in 1 .. kXLENInBytes :
           v[b] = IF e + b - 1 < Len(Segment(n).data) THEN Segment(n).data[e + b] ELSE 0
  BY DEF Longer, WordAt
<1> USE <1>0
<1> DEFINE s == Segment(n)  addr == InSegment(s, e)  k == kXLENInBytes
<1>1. s.addr \in Addr /\ n \in Nat /\ Len(s.data) \in Nat /\ k \in Nat \ {0}
  BY SegmentFacts, AddrSpaceIsPositive
<1>2. addr \in Addr
  <2> DEFINE x == s.addr + e
  <2>1. x \in Int /\ AddrSpace \in Nat \ {0}
    BY <1>1, AddrSpaceIsPositive
  <2> HIDE DEF x
  <2>2. x % AddrSpace \in 0 .. AddrSpace - 1
    BY <2>1, Division
  <2> QED BY <2>2, AddrSpaceIsPositive DEF InSegment, x
<1>3. addr + k <= AddrSpace
  BY <1>2, StoreInSpace
<1>4. ASSUME NEW a \in Addr
      PROVE  /\ \A i \in Loadable : Offset(Segment(i), a) \in Nat
             /\ a \in addr .. addr + k - 1 <=> Offset(s, a) \in e .. e + k - 1
             /\ a \in addr .. addr + k - 1 => Offset(s, a) = e + (a - addr)
  <2>1. \A i \in Loadable : Offset(Segment(i), a) \in Nat
    <3> SUFFICES ASSUME NEW i \in Loadable PROVE Offset(Segment(i), a) \in Nat
      OBVIOUS
    <3> DEFINE d == a - Segment(i).addr
    <3>1. d \in Int
      BY SegmentFacts, AddrSpaceIsPositive
    <3> HIDE DEF d
    <3>2. d % AddrSpace \in 0 .. AddrSpace - 1 /\ AddrSpace \in Nat \ {0}
      BY <3>1, AddrSpaceIsPositive, Division
    <3> QED BY <3>2 DEF d, Offset
  <2> QED BY <1>1, <1>3, <2>1, StoredBytes
<1> DEFINE before(a) == Storing(extent, a)  after(a) == Storing(longer, a)
<1>5. ASSUME NEW a \in Addr, a \in addr .. addr + k - 1
      PROVE  after(a) # {} /\ Content(Segment(Latest(after(a))), a) = v[a - addr + 1]
  <2>1. n \in after(a) /\ \A j \in after(a) : j <= n
    <3>1. n \in after(a)
      BY <1>1, <1>4, <1>5 DEF Storing
    <3>2. ASSUME NEW j \in after(a) PROVE j <= n
      <4>1. j \in Loadable /\ j \in Nat /\ Offset(Segment(j), a) < longer[j]
        BY SegmentFacts DEF Storing
      <4>2. j > n => longer[j] = 0
        BY <4>1, <1>1
      <4> QED BY <1>1, <1>4, <4>1, <4>2
    <3> QED BY <3>1, <3>2
  <2>2. after(a) \subseteq Nat
    BY SegmentFacts DEF Storing
  <2> HIDE DEF after
  <2>3. Latest(after(a)) = n
    <3>1. \A i \in after(a) : (\A j \in after(a) : j <= i) <=> i = n
      BY <1>1, <2>1, <2>2
    <3> QED BY <2>1, <3>1 DEF Latest
  <2>4. Content(s, a) = v[a - addr + 1]
    <3> DEFINE b == a - addr + 1
    <3>1. b \in 1 .. k /\ Offset(s, a) = e + b - 1 /\ e + b - 1 + 1 = e + b
      <4>1. addr \in Int /\ a \in Int /\ k \in Int
        BY <1>1, <1>2, AddrSpaceIsPositive
      <4>2. Offset(s, a) = e + (a - addr) /\ a \in addr .. addr + k - 1
        BY <1>4, <1>5
      <4> HIDE DEF addr, k, s
      <4> QED BY <4>1, <4>2
    <3> HIDE DEF b, s
    <3>2. v[b] = IF e + b - 1 < Len(s.data) THEN s.data[e + b] ELSE 0
      BY <3>1 DEF s
    <3> QED BY <3>1, <3>2 DEF Content, b
  <2> QED BY <2>1, <2>3, <2>4
<1>6. ASSUME NEW a \in Addr, a \notin addr .. addr + k - 1
      PROVE  after(a) = before(a)
  <2>1. Offset(s, a) \notin e .. e + k - 1 /\ Offset(s, a) \in Nat
    BY <1>4, <1>6
  <2>2. Offset(s, a) < e + k <=> Offset(s, a) < e
    BY <1>1, <2>1
  <2> QED BY <2>2 DEF Storing
<1> HIDE DEF before, after, addr, k
<1>7. \A a \in Addr : Overwrite(Loaded(extent), addr, v)[a] = Loaded(longer)[a]
  <2> SUFFICES ASSUME NEW a \in Addr
               PROVE  Overwrite(Loaded(extent), addr, v)[a] = Loaded(longer)[a]
    OBVIOUS
  <2>1. Overwrite(Loaded(extent), addr, v)[a] =
          IF a \in addr .. addr + k - 1 THEN v[a - addr + 1] ELSE Loaded(extent)[a]
    BY DEF Overwrite, Loaded, k
  <2>2. CASE a \in addr .. addr + k - 1
    BY <1>5, <2>1, <2>2 DEF Loaded, after
  <2>3. CASE a \notin addr .. addr + k - 1
    BY <1>6, <2>1, <2>3 DEF Loaded, after, before
  <2> QED BY <2>2, <2>3
<1>8. Overwrite(Loaded(extent), addr, v) = [a \in Addr |-> Overwrite(Loaded(extent), addr, v)[a]]
  BY DEF Overwrite, Loaded
<1>9. Loaded(longer) = [a \in Addr |-> Loaded(longer)[a]]
  BY DEF Loaded
<1> QED BY <1>7, <1>8, <1>9 DEF addr

-----------------------------------------------------------------------------
\* What a turn of storeRange stores, and a turn of the fill.
TextWord(s) == SubSeq(s.data, word * kXLENInBytes + 1, (word + 1) * kXLENInBytes)
ZeroWord == [b \in 1 .. kXLENInBytes |-> 0]

LEMMA TextWordIs ==
  ASSUME Typed, NEW i \in Loadable, word < TextWords(Segment(i))
  PROVE  /\ (word + 1) * kXLENInBytes = word * kXLENInBytes + kXLENInBytes
         /\ word * kXLENInBytes \in Nat
         /\ word * kXLENInBytes + kXLENInBytes <= Len(Segment(i).data)
         /\ Len(TextWord(Segment(i))) = kXLENInBytes
         /\ \A b \in 1 .. kXLENInBytes :
              /\ TextWord(Segment(i))[b] = Segment(i).data[word * kXLENInBytes + b]
              /\ TextWord(Segment(i))[b] \in MemByte
<1> DEFINE d == Segment(i).data  n == Len(d)  k == kXLENInBytes  e == word * k  q == n \div k
<1>1. d \in Seq(MemByte) /\ n \in Nat /\ k \in Nat \ {0} /\ word \in Nat
  BY SegmentFacts, AddrSpaceIsPositive DEF Typed, TypeOK
<1>2. word < q
  BY DEF TextWords
<1>3. (word + 1) * k = e + k /\ e \in Nat
  BY <1>1
<1>4. e + k <= n
  <2>1. q \in Int /\ n % k \in 0 .. k - 1 /\ n = k * q + (n % k)
    <3> HIDE DEF n, k
    <3> QED BY <1>1, Division
  <2>2. k * (q - word - 1) \in Nat
    <3> HIDE DEF q, k, n
    <3>1. q - word - 1 \in Nat
      BY <1>1, <1>2, <2>1
    <3> QED BY <1>1, <3>1
  <2>3. k * (q - word - 1) = k * q - e - k
    <3> HIDE DEF q, k
    <3> QED BY <1>1, <2>1
  <2>4. k * q \in Int
    <3> HIDE DEF q, k
    <3> QED BY <1>1, <2>1
  <2>5. k * q <= n
    <3> HIDE DEF q, k, n
    <3> QED BY <1>1, <2>1, <2>4
  <2> HIDE DEF q, n, e, k
  <2> QED BY <1>1, <1>3, <2>2, <2>3, <2>4, <2>5
<1> HIDE DEF e, k, n
<1>5. \A j \in e + 1 .. e + k : d[j] \in MemByte
  <2>1. \A j \in 1 .. n : d[j] \in MemByte
    BY <1>1 DEF n
  <2> QED BY <1>1, <1>3, <1>4, <2>1
<1>6. Len(SubSeq(d, e + 1, e + k)) = k
      /\ \A b \in 1 .. k : SubSeq(d, e + 1, e + k)[b] = d[e + 1 + b - 1]
  <2>1. e + 1 \in Int /\ e + k \in Int /\ e + k - (e + 1) + 1 = k /\ e + 1 <= e + k
    BY <1>1, <1>3
  <2> DEFINE l == e + 1  r == e + k
  <2>2. \A j \in l .. r : d[j] \in MemByte
    BY <1>5
  <2> HIDE DEF d, l, r
  <2>3. /\ Len(SubSeq(d, l, r)) = IF l <= r THEN r - l + 1 ELSE 0
        /\ \A b \in 1 .. r - l + 1 : SubSeq(d, l, r)[b] = d[l + b - 1]
    BY <2>1, <2>2, SubSeqProperties DEF l, r
  <2>4. r - l + 1 = k /\ l <= r
    BY <1>1, <1>3, <2>1 DEF l, r
  <2>5. Len(SubSeq(d, l, r)) = k /\ \A b \in 1 .. k : SubSeq(d, l, r)[b] = d[l + b - 1]
    BY <2>3, <2>4
  <2> QED BY <2>5 DEF l, r
<1>7. \A b \in 1 .. k : e + 1 + b - 1 = e + b /\ e + b \in e + 1 .. e + k
  BY <1>1, <1>3
<1>8. TextWord(Segment(i)) = SubSeq(d, e + 1, e + k)
  BY <1>3 DEF TextWord, e, k
<1> QED BY <1>3, <1>4, <1>5, <1>6, <1>7, <1>8 DEF e, k, n

LEMMA StoreTyped ==
  ASSUME Typed, NEW addr \in Addr, NEW v, Len(v) = kXLENInBytes,
         \A b \in 1 .. kXLENInBytes : v[b] \in MemByte, FlatStore(addr, v)
  PROVE  mapped' \subseteq Pages /\ bytes' \in [Addr -> MemByte]
<1>1. mapped' \subseteq Pages
  <2>1. IndexPt(addr) \in Pages
    BY IndexPtIsPage
  <2> QED BY <2>1 DEF FlatStore, Typed, TypeOK
<1>2. bytes' = [a \in Addr |-> IF a \in addr .. addr + kXLENInBytes - 1
                               THEN v[a - addr + 1] ELSE bytes[a]]
  BY DEF FlatStore, Overwrite, Typed, TypeOK
<1>3. ASSUME NEW a \in Addr, a \in addr .. addr + kXLENInBytes - 1
      PROVE  v[a - addr + 1] \in MemByte
  <2>1. a - addr + 1 \in 1 .. kXLENInBytes
    BY <1>3, AddrSpaceIsPositive
  <2> QED BY <2>1
<1> QED BY <1>1, <1>2, <1>3 DEF Typed, TypeOK

LEMMA InSegmentIsAddress ==
  ASSUME NEW s, s.addr \in Addr, NEW e \in Nat
  PROVE  InSegment(s, e) \in Addr
<1> DEFINE x == s.addr + e
<1>1. x \in Int /\ AddrSpace \in Nat \ {0}
  BY AddrSpaceIsPositive
<1> HIDE DEF x
<1>2. x % AddrSpace \in 0 .. AddrSpace - 1
  BY <1>1, Division
<1> QED BY <1>2, AddrSpaceIsPositive DEF InSegment, x

LEMMA SegmentsKept ==
  ASSUME file' = file
  PROVE  /\ Loadable' = Loadable
         /\ \A i : Segment(i)' = Segment(i)
         /\ (AllWordSized)' = AllWordSized
         /\ \A extent : Loaded(extent)' = Loaded(extent)
<1>1. Loadable' = Loadable /\ \A i : Segment(i)' = Segment(i)
  BY DEF Loadable, Segment
<1> QED BY <1>1 DEF AllWordSized, Loaded, Storing

LEMMA TypedKept ==
  ASSUME Typed, phase \in {"text", "fill"} => index \in Loadable, [Next]_vars
  PROVE  Typed'
<1> USE DEF Typed, TypeOK
<1>1. CASE UNCHANGED vars
  BY <1>1, SegmentsKept DEF vars, flatVars, loadVars
<1>2. ASSUME NEW n \in Nat, FromSegment(n), file' = file
      PROVE  /\ phase' \in {"loaded", "text"} /\ index' \in Nat /\ word' \in Nat
             /\ phase' \in {"text", "fill"} => index' \in DOMAIN file'.segments
  BY <1>2, SegmentFacts DEF FromSegment, Loadable
<1>3. CASE Reject
  BY <1>3 DEF Reject, flatVars
<1>4. CASE Accept
  <2>1. file.entry \in Addr
    BY FilesAssumption
  <2> QED BY <1>2, <1>4, <2>1 DEF Accept, flatVars
<1>5. CASE StoreWord
  <2> DEFINE s == Segment(index)  addr == InSegment(s, word * kXLENInBytes)
  <2>1. index \in Loadable /\ word < TextWords(s) /\ addr \in Addr
    BY <1>5, TextWordIs, SegmentFacts, InSegmentIsAddress DEF StoreWord, Segment
  <2>2. CASE StoreThrew(addr, TextWord(s))
    BY <2>2 DEF StoreThrew, FlatStoreRefused
  <2>3. CASE /\ FlatStore(addr, TextWord(s)) /\ word' = word + 1
             /\ UNCHANGED <<file, pc, phase, index, fileSize>>
    <3>1. mapped' \subseteq Pages /\ bytes' \in [Addr -> MemByte]
      BY <2>1, <2>3, TextWordIs, StoreTyped
    <3> QED BY <2>3, <3>1
  <2> QED BY <1>5, <2>2, <2>3 DEF StoreWord, TextWord, Segment
<1>6. CASE BeginFill
  BY <1>6, SegmentFacts DEF BeginFill, Segment, flatVars
<1>7. CASE FillWord
  <2> DEFINE s == Segment(index)  addr == InSegment(s, fileSize)
  <2>1. index \in Loadable /\ addr \in Addr
    BY <1>7, SegmentFacts, InSegmentIsAddress, AddrSpaceIsPositive DEF FillWord
  <2>2. CASE StoreThrew(addr, ZeroWord)
    BY <2>2 DEF StoreThrew, FlatStoreRefused
  <2>3. CASE /\ FlatStore(addr, ZeroWord)
             /\ fileSize' = (fileSize + kXLENInBytes) % AddrSpace
             /\ UNCHANGED <<file, pc, phase, index, word>>
    <3>1. Len(ZeroWord) = kXLENInBytes /\ \A b \in 1 .. kXLENInBytes : ZeroWord[b] \in MemByte
      BY AddrSpaceIsPositive, MemByteAssumption DEF ZeroWord
    <3>2. mapped' \subseteq Pages /\ bytes' \in [Addr -> MemByte]
      BY <2>1, <2>3, <3>1, StoreTyped
    <3>3. fileSize' \in Addr
      <4> DEFINE x == fileSize + kXLENInBytes
      <4>1. x \in Int /\ AddrSpace \in Nat \ {0}
        BY AddrSpaceIsPositive
      <4> HIDE DEF x
      <4>2. x % AddrSpace \in 0 .. AddrSpace - 1
        BY <4>1, Division
      <4> QED BY <2>3, <4>2, AddrSpaceIsPositive DEF x
    <3> QED BY <2>3, <3>2, <3>3
  <2> QED BY <1>7, <2>2, <2>3 DEF FillWord, ZeroWord, Segment
<1>8. CASE NextSegment
  <2>1. index + 1 \in Nat
    OBVIOUS
  <2> QED BY <1>2, <1>8, <2>1 DEF NextSegment, flatVars
<1> QED BY <1>1, <1>3, <1>4, <1>5, <1>6, <1>7, <1>8 DEF Next

-----------------------------------------------------------------------------
\* Going on from segment n, where everything up to it is done, begins the next.
LEMMA NextBegun ==
  ASSUME LoaderInv, NEW n \in Nat, FromSegment(n), file' = file, Typed',
         NEW extent, extent = [i \in Loadable |->
            IF i < n THEN IF Len(Segment(i).data) < Segment(i).memSize THEN Segment(i).memSize
                                                                      ELSE Len(Segment(i).data)
            ELSE 0],
         index < n, \A i \in Loadable : i <= index \/ i >= n
  PROVE  Extent' = extent /\ Position' /\ (phase' \in {"text", "fill"} => index' \in Loadable')
<1>1. Loadable' = Loadable /\ \A i : Segment(i)' = Segment(i)
  BY SegmentsKept
<1>2. \A i \in Loadable : i \in Nat
  BY SegmentFacts DEF LoaderInv, Typed
<1>3. n \in Nat /\ index \in Nat /\ index' \in Nat
  BY DEF LoaderInv, Typed
<1>4. CASE /\ \A j \in Loadable : j < n
           /\ phase' = "loaded" /\ UNCHANGED <<index, word>>
  <2>1. \A i \in Loadable : Stored(i)' = extent[i]
    BY <1>1, <1>4 DEF Stored
  <2> QED BY <1>1, <1>4, <2>1 DEF Extent, Position
<1>5. CASE \E j \in Loadable :
             /\ j >= n /\ (\A k \in Loadable : k >= n => j <= k)
             /\ index' = j /\ word' = 0 /\ phase' = "text"
  <2>1. PICK j \in Loadable :
             /\ j >= n /\ (\A k \in Loadable : k >= n => j <= k)
             /\ index' = j /\ word' = 0 /\ phase' = "text"
    BY <1>5
  <2>2. \A i \in Loadable : i < j <=> i < n
    BY <1>2, <1>3, <2>1
  <2>3. word' * kXLENInBytes = 0
    BY <2>1, AddrSpaceIsPositive
  <2>4. \A i \in Loadable : Stored(i)' = extent[i]
    BY <1>1, <1>2, <1>3, <2>1, <2>2, <2>3 DEF Stored
  <2>5. 0 <= TextWords(Segment(j))
    <3>1. Len(Segment(j).data) \in Nat /\ kXLENInBytes \in Nat \ {0}
      BY SegmentFacts, AddrSpaceIsPositive DEF LoaderInv, Typed
    <3> DEFINE m == Len(Segment(j).data)  k == kXLENInBytes
    <3>2. m \in Nat /\ k \in Nat \ {0}
      BY <3>1
    <3> HIDE DEF m, k
    <3>3. m \div k \in Nat
      BY <3>2
    <3>4. 0 <= m \div k
      BY <3>3
    <3> QED BY <3>4 DEF TextWords, m, k
  <2>6. Position'
    BY <1>1, <2>1, <2>5 DEF Position
  <2>7. Extent' = extent
    BY <1>1, <2>4 DEF Extent
  <2> QED BY <1>1, <2>1, <2>6, <2>7
<1> QED BY <1>4, <1>5 DEF FromSegment

LEMMA NothingStoredYet ==
  ASSUME LoaderInv, phase = "open", NEW extent, \A i \in Loadable : extent[i] = 0
  PROVE  Loaded(extent) = Loaded(Extent)
<1>1. \A i \in Loadable : Extent[i] = 0
  BY SegmentFacts DEF LoaderInv, Typed, Extent, Stored
<1>2. \A a : Storing(extent, a) = Storing(Extent, a)
  BY <1>1 DEF Storing
<1> QED BY <1>2 DEF Loaded

-----------------------------------------------------------------------------
\* A word of text that is stored is recorded as stored.
LEMMA StoreWordStores ==
  ASSUME Typed, index \in Loadable, StoreWord, phase' # "failed"
  PROVE  /\ file' = file /\ phase' = "text" /\ index' = index
         /\ word < TextWords(Segment(index)) /\ word' = word + 1
         /\ \E addr \in Addr : \E v :
               /\ bytes' = Overwrite(bytes, addr, v)
               /\ Loaded(Extent)' = Overwrite(Loaded(Extent), addr, v)
<1> DEFINE s == Segment(index)  e == word * kXLENInBytes  addr == InSegment(s, e)
<1>0. phase = "text" /\ file \in Files /\ index \in Loadable
  BY DEF StoreWord, Typed
<1>1. word < TextWords(s)
  BY DEF StoreWord, Segment
<1>2. /\ FlatStore(addr, TextWord(s))
      /\ word' = word + 1
      /\ UNCHANGED <<file, pc, phase, index, fileSize>>
  BY DEF StoreWord, StoreThrew, Segment, TextWord
<1>3. /\ (word + 1) * kXLENInBytes = e + kXLENInBytes /\ e \in Nat
      /\ e + kXLENInBytes <= Len(s.data)
      /\ Len(TextWord(s)) = kXLENInBytes
      /\ \A b \in 1 .. kXLENInBytes : TextWord(s)[b] = s.data[e + b]
  BY <1>0, <1>1, TextWordIs
<1>4. Len(s.data) \in 0 .. AddrSpace - 1 /\ kXLENInBytes \in Nat \ {0} /\ AddrSpace \in Nat
  BY <1>0, SegmentFacts, AddrSpaceIsPositive
<1> DEFINE longer == [i \in Loadable |-> Stored(i)']
<1> HIDE DEF s, e
<1>5. addr \in Addr
  BY <1>0, <1>3, SegmentFacts, InSegmentIsAddress DEF s
<1>6. Extent' = longer
  BY <1>2, SegmentsKept DEF Extent
<1>7. Extent[index] = e /\ longer[index] = e + kXLENInBytes
  BY <1>0, <1>2, <1>3 DEF Extent, Stored, e, Typed
<1>8. /\ \A i \in Loadable : i # index => longer[i] = Extent[i]
      /\ \A i \in Loadable : i > index => Extent[i] = 0
  BY <1>0, <1>2, SegmentsKept, SegmentFacts DEF Extent, Stored, Typed
<1> HIDE DEF longer
<1>9. Overwrite(Loaded(Extent), addr, TextWord(s)) = Loaded(longer)
  <2>1. ~ Misaligned(addr, kXLENInBytes)
    BY <1>2, <1>3 DEF FlatStore
  <2>2. e + kXLENInBytes <= AddrSpace
    BY <1>3, <1>4
  <2>3. \A b \in 1 .. kXLENInBytes :
          TextWord(s)[b] = IF e + b - 1 < Len(s.data) THEN s.data[e + b] ELSE 0
    BY <1>3, <1>4
  <2>4. Longer(index, e, Extent, longer)
    BY <1>7, <1>8 DEF Longer
  <2>5. WordAt(index, e, TextWord(s))
    BY <1>3, <2>2, <2>3 DEF WordAt, s
  <2> QED BY <1>0, <1>3, <2>1, <2>4, <2>5, OneWordMore, Zenon DEF s
<1>10. /\ bytes' = Overwrite(bytes, addr, TextWord(s))
       /\ Loaded(Extent)' = Overwrite(Loaded(Extent), addr, TextWord(s))
  BY <1>2, <1>6, <1>9, SegmentsKept DEF FlatStore
<1> HIDE DEF addr
<1>11. \E ad \in Addr : \E v :
         /\ bytes' = Overwrite(bytes, ad, v)
         /\ Loaded(Extent)' = Overwrite(Loaded(Extent), ad, v)
  BY <1>5, <1>10
<1> QED BY <1>0, <1>1, <1>2, <1>11 DEF s

\* So is a word of zeros, unless fileSize wraps around.
LEMMA FillWordStores ==
  ASSUME Typed, index \in Loadable, FillWord, phase' # "failed",
         Len(Segment(index).data) <= fileSize, fileSize + kXLENInBytes < AddrSpace
  PROVE  /\ file' = file /\ phase' = "fill" /\ index' = index
         /\ fileSize' = fileSize + kXLENInBytes
         /\ \E addr \in Addr : \E v :
               /\ bytes' = Overwrite(bytes, addr, v)
               /\ Loaded(Extent)' = Overwrite(Loaded(Extent), addr, v)
<1> DEFINE s == Segment(index)  e == fileSize  addr == InSegment(s, e)
<1>0. phase = "fill" /\ file \in Files /\ index \in Loadable
  BY DEF FillWord, Typed
<1>1. /\ FlatStore(addr, ZeroWord)
      /\ fileSize' = (fileSize + kXLENInBytes) % AddrSpace
      /\ UNCHANGED <<file, pc, phase, index, word>>
  BY DEF FillWord, StoreThrew, Segment, ZeroWord
<1>2. Len(s.data) \in Nat
  <2>1. Len(s.data) \in Addr
    BY <1>0, SegmentFacts
  <2> HIDE DEF s
  <2> QED BY <2>1, AddrSpaceIsPositive
<1>3. kXLENInBytes \in Nat \ {0} /\ AddrSpace \in Nat \ {0} /\ fileSize \in Nat
  BY <1>0, AddrSpaceIsPositive DEF Typed, TypeOK
<1> HIDE DEF s
<1>4. addr \in Addr
  BY <1>0, <1>3, SegmentFacts, InSegmentIsAddress DEF s
<1>5. fileSize' = fileSize + kXLENInBytes
  <2> DEFINE x == fileSize + kXLENInBytes  A == AddrSpace  none == 0
  <2>1. A \in Nat \ {0} /\ x \in Int /\ x \in 0 .. A - 1 /\ none \in Int /\ x = A * none + x
    BY <1>3
  <2> HIDE DEF x, A, none
  <2>2. \A q \in Int, r \in 0 .. A - 1 : x = A * q + r => r = x % A
    BY <2>1, Division
  <2>3. x = x % A
    BY <2>1, <2>2
  <2> QED BY <1>1, <2>3 DEF x, A
<1> DEFINE longer == [i \in Loadable |-> Stored(i)']
<1>6. Extent' = longer
  BY <1>1, SegmentsKept DEF Extent
<1>7. Extent[index] = fileSize /\ longer[index] = fileSize + kXLENInBytes
  BY <1>0, <1>1, <1>5 DEF Extent, Stored, Typed
<1>8. /\ \A i \in Loadable : i # index => longer[i] = Extent[i]
      /\ \A i \in Loadable : i > index => Extent[i] = 0
  BY <1>0, <1>1, SegmentsKept, SegmentFacts DEF Extent, Stored, Typed
<1> HIDE DEF longer
<1>9. Overwrite(Loaded(Extent), addr, ZeroWord) = Loaded(longer)
  <2>1. Len(ZeroWord) = kXLENInBytes
    BY <1>3 DEF ZeroWord
  <2>2. ~ Misaligned(addr, kXLENInBytes)
    BY <1>1, <2>1 DEF FlatStore
  <2>3. fileSize + kXLENInBytes <= AddrSpace
    BY <1>3
  <2>4. \A b \in 1 .. kXLENInBytes :
          ZeroWord[b] = IF fileSize + b - 1 < Len(s.data) THEN s.data[fileSize + b] ELSE 0
    BY <1>2, <1>3 DEF ZeroWord, s
  <2> HIDE DEF e
  <2>5. /\ e \in Nat /\ Extent[index] = e /\ longer[index] = e + kXLENInBytes
        /\ e + kXLENInBytes <= AddrSpace
        /\ \A b \in 1 .. kXLENInBytes :
             ZeroWord[b] = IF e + b - 1 < Len(s.data) THEN s.data[e + b] ELSE 0
    BY <1>3, <1>7, <2>3, <2>4 DEF e
  <2>6. Longer(index, e, Extent, longer)
    BY <1>8, <2>5 DEF Longer
  <2>7. WordAt(index, e, ZeroWord)
    BY <2>1, <2>5 DEF WordAt, s
  <2>8. e \in Nat
    BY <2>5
  <2> QED BY <1>0, <2>2, <2>6, <2>7, <2>8, OneWordMore DEF s
<1>10. /\ bytes' = Overwrite(bytes, addr, ZeroWord)
       /\ Loaded(Extent)' = Overwrite(Loaded(Extent), addr, ZeroWord)
  BY <1>1, <1>6, <1>9, SegmentsKept DEF FlatStore
<1> HIDE DEF addr
<1>11. \E ad \in Addr : \E v :
         /\ bytes' = Overwrite(bytes, ad, v)
         /\ Loaded(Extent)' = Overwrite(Loaded(Extent), ad, v)
  BY <1>4, <1>10
<1> QED BY <1>0, <1>1, <1>5, <1>11

-----------------------------------------------------------------------------
\* With whole words, each step keeps memory what is recorded as stored.
LEMMA StoreWordKeeps ==
  ASSUME LoaderInv, StoreWord, phase' # "failed", AllWordSized
  PROVE  Position' /\ bytes' = Loaded(Extent)'
<1> DEFINE s == Segment(index)
<1>1. phase = "text" /\ index \in Loadable /\ file \in Files /\ Typed /\ bytes = Loaded(Extent)
  BY DEF StoreWord, LoaderInv, Typed
<1>2. bytes' = Loaded(Extent)'
  BY <1>1, StoreWordStores
<1>3. TextWords(s) \in Nat
  <2>1. WordSized(s)
    BY <1>1 DEF AllWordSized, s
  <2>2. Len(s.data) \in Addr
    BY <1>1, SegmentFacts
  <2> HIDE DEF s
  <2>3. Len(s.data) \in Nat
    BY <2>2, AddrSpaceIsPositive
  <2>4. Len(s.data) % kXLENInBytes = 0
    BY <2>1 DEF WordSized
  <2> QED BY <2>3, <2>4, WholeText
<1>4. word + 1 <= TextWords(s)
  BY <1>1, <1>3, StoreWordStores DEF Typed, TypeOK
<1>5. Position'
  BY <1>1, <1>4, StoreWordStores, SegmentsKept DEF Position
<1> QED BY <1>2, <1>5

LEMMA FillWordKeeps ==
  ASSUME LoaderInv, FillWord, phase' # "failed", AllWordSized
  PROVE  Position' /\ bytes' = Loaded(Extent)'
<1> DEFINE s == Segment(index)
<1>1. phase = "fill" /\ index \in Loadable /\ file \in Files /\ Typed /\ bytes = Loaded(Extent)
  BY DEF FillWord, LoaderInv, Typed
<1>2. fileSize < s.memSize /\ Len(s.data) <= fileSize /\ fileSize % kXLENInBytes = 0
  BY <1>1 DEF FillWord, Filling, Segment, LoaderInv, Position
<1>3. Len(s.data) \in Nat /\ s.memSize \in 0 .. AddrSpace - 1 /\ s.memSize % kXLENInBytes = 0
  <2>1. WordSized(s)
    BY <1>1 DEF AllWordSized
  <2>2. s.memSize \in Addr /\ Len(s.data) \in Addr
    BY <1>1, SegmentFacts
  <2> QED BY <2>1, <2>2, AddrSpaceIsPositive DEF WordSized
<1>4. kXLENInBytes \in Nat \ {0} /\ AddrSpace \in Nat \ {0} /\ fileSize \in Nat
  BY <1>1, AddrSpaceIsPositive DEF Typed, TypeOK
<1> HIDE DEF s
<1>5. fileSize + kXLENInBytes <= s.memSize /\ (fileSize + kXLENInBytes) % kXLENInBytes = 0
  <2> DEFINE m == fileSize  n == s.memSize  k == kXLENInBytes
  <2>1. m \in Int /\ n \in Int /\ k \in Nat \ {0} /\ m % k = 0 /\ n % k = 0 /\ m < n
    BY <1>2, <1>3, <1>4
  <2> HIDE DEF m, n, k
  <2>2. m + k <= n /\ (m + k) % k = 0
    BY <2>1, RoomForOne
  <2> QED BY <2>2 DEF m, n, k
<1>6. fileSize + kXLENInBytes < AddrSpace
  BY <1>3, <1>4, <1>5
<1>7. /\ file' = file /\ phase' = "fill" /\ index' = index
      /\ fileSize' = fileSize + kXLENInBytes /\ bytes' = Loaded(Extent)'
  BY <1>1, <1>2, <1>6, FillWordStores DEF s
<1>8. Position'
  <2>1. Segment(index)' = s
    BY <1>7, SegmentsKept DEF s
  <2>2. Len(s.data) <= fileSize'
    BY <1>2, <1>3, <1>4, <1>7
  <2> QED BY <1>5, <1>7, <2>1, <2>2 DEF Position
<1> QED BY <1>7, <1>8

LEMMA BeginFillKeeps ==
  ASSUME LoaderInv, BeginFill, AllWordSized
  PROVE  Position' /\ bytes' = Loaded(Extent)'
<1> DEFINE s == Segment(index)
<1>1. /\ phase = "text" /\ index \in Loadable /\ file \in Files
      /\ word = TextWords(s) /\ fileSize' = Len(s.data) /\ phase' = "fill"
      /\ UNCHANGED <<flatVars, file, pc, index, word>>
  BY DEF BeginFill, LoaderInv, Typed, Segment
<1>2. Len(s.data) \in Nat /\ Len(s.data) % kXLENInBytes = 0
  <2>1. WordSized(s)
    BY <1>1 DEF AllWordSized
  <2>2. Len(s.data) \in Addr
    BY <1>1, SegmentFacts
  <2>3. Len(s.data) \in Nat
    <3> HIDE DEF s
    <3> QED BY <2>2, AddrSpaceIsPositive
  <2>4. Len(s.data) % kXLENInBytes = 0
    BY <2>1 DEF WordSized
  <2> QED BY <2>3, <2>4
<1>3. word * kXLENInBytes = Len(s.data)
  BY <1>1, <1>2, WholeText
<1> HIDE DEF s
<1>4. \A i \in Loadable : Stored(i)' = Stored(i)
  BY <1>1, <1>3, SegmentsKept DEF Stored, s
<1>5. Extent' = Extent
  BY <1>1, <1>4, SegmentsKept DEF Extent
<1>6. bytes' = Loaded(Extent)'
  BY <1>1, <1>5, SegmentsKept DEF LoaderInv, flatVars
<1>7. Position'
  BY <1>1, <1>2, SegmentsKept DEF Position, s
<1> QED BY <1>6, <1>7

LEMMA NextSegmentKeeps ==
  ASSUME LoaderInv, NextSegment, AllWordSized, Typed'
  PROVE  /\ Position' /\ bytes' = Loaded(Extent)'
         /\ phase' \in {"text", "fill"} => index' \in Loadable'
<1> DEFINE n == index + 1
           whole(i) == IF Len(Segment(i).data) < Segment(i).memSize THEN Segment(i).memSize
                                                                   ELSE Len(Segment(i).data)
           extent == [i \in Loadable |-> IF i < n THEN whole(i) ELSE 0]
<1>1. /\ phase = "fill" /\ index \in Loadable /\ file \in Files /\ FromSegment(n)
      /\ ~ (fileSize < Segment(index).memSize)
      /\ UNCHANGED <<flatVars, file, pc, fileSize>>
  BY DEF NextSegment, LoaderInv, Typed, Filling, Segment
<1>2. \A i \in Loadable : i \in Nat
  BY <1>1, SegmentFacts
<1>3. index \in Nat /\ n \in Nat /\ index < n /\ \A i \in Loadable : i <= index \/ i >= n
  BY <1>2 DEF LoaderInv, Typed
<1>4. Extent' = extent /\ Position' /\ (phase' \in {"text", "fill"} => index' \in Loadable')
  BY <1>1, <1>3, NextBegun
<1>5. Stored(index) = whole(index)
  <2>1. /\ Len(Segment(index).data) \in Nat /\ Segment(index).memSize \in Nat /\ fileSize \in Nat
    <3>1. Len(Segment(index).data) \in Addr /\ Segment(index).memSize \in Addr /\ fileSize \in Addr
      BY <1>1, SegmentFacts DEF LoaderInv, Typed, TypeOK
    <3> QED BY <3>1, AddrSpaceIsPositive
  <2>2. /\ Len(Segment(index).data) <= fileSize
        /\ fileSize = Len(Segment(index).data) \/ fileSize <= Segment(index).memSize
    BY <1>1 DEF LoaderInv, Position
  <2>3. Stored(index) = fileSize
    BY <1>1, <1>3 DEF Stored
  <2> QED BY <1>1, <2>1, <2>2, <2>3
<1>6. \A i \in Loadable : extent[i] = Stored(i)
  <2> SUFFICES ASSUME NEW i \in Loadable PROVE extent[i] = Stored(i)
    OBVIOUS
  <2>1. CASE i = index
    BY <1>3, <1>5, <2>1
  <2>2. CASE i < index
    BY <1>2, <1>3, <2>2 DEF Stored
  <2>3. CASE i >= n
    BY <1>1, <1>2, <1>3, <2>3 DEF Stored
  <2> QED BY <1>2, <1>3, <2>1, <2>2, <2>3
<1>7. Extent' = Extent
  BY <1>4, <1>6 DEF Extent
<1>8. bytes' = Loaded(Extent)'
  BY <1>1, <1>7, SegmentsKept DEF LoaderInv, flatVars
<1> QED BY <1>4, <1>8

LEMMA AcceptStoresNothing ==
  ASSUME LoaderInv, Accept, Typed'
  PROVE  /\ Position' /\ Loaded(Extent)' = Loaded(Extent) /\ bytes' = bytes
         /\ phase' \in {"text", "fill"} => index' \in Loadable'
<1> DEFINE whole(i) == IF Len(Segment(i).data) < Segment(i).memSize THEN Segment(i).memSize
                                                                   ELSE Len(Segment(i).data)
           extent == [i \in Loadable |-> IF i < 1 THEN whole(i) ELSE 0]
<1>1. /\ phase = "open" /\ index = 0 /\ file \in Files /\ FromSegment(1)
      /\ UNCHANGED <<flatVars, file, fileSize>>
  BY DEF Accept, LoaderInv, Typed
<1>2. \A i \in Loadable : i \in Nat /\ i >= 1
  BY <1>1, SegmentFacts
<1>3. Extent' = extent /\ Position' /\ (phase' \in {"text", "fill"} => index' \in Loadable')
  <2>1. index < 1 /\ 1 \in Nat /\ \A i \in Loadable : i <= index \/ i >= 1
    BY <1>1, <1>2
  <2> QED BY <1>1, <2>1, NextBegun
<1>4. \A i \in Loadable : extent[i] = 0
  BY <1>2
<1> HIDE DEF extent
<1>5. Loaded(Extent)' = Loaded(Extent)
  <2>1. Loaded(extent) = Loaded(Extent)
    BY <1>1, <1>4, NothingStoredYet
  <2>2. Loaded(Extent)' = Loaded(extent)
    BY <1>1, <1>3, SegmentsKept
  <2> QED BY <2>1, <2>2
<1>6. bytes' = bytes
  BY <1>1 DEF flatVars
<1> QED BY <1>3, <1>5, <1>6

-----------------------------------------------------------------------------
THEOREM LoaderInvariant == Spec => []LoaderInv
<1>1. Init => LoaderInv
  <2> SUFFICES ASSUME Init PROVE LoaderInv
    OBVIOUS
  <2>1. /\ file \in Files /\ phase = "open" /\ index = 0 /\ word = 0 /\ fileSize = 0 /\ pc = 0
        /\ mapped = {} /\ bytes = [a \in Addr |-> 0]
    BY DEF Init, FlatInit
  <2>2. Typed
    BY <2>1, FilesAssumption, AddrSpaceIsPositive, MemByteAssumption DEF Typed, TypeOK
  <2>3. \A i \in Loadable : Extent[i] = 0
    BY <2>1, SegmentFacts DEF Extent, Stored
  <2>4. \A a \in Addr : Storing(Extent, a) = {}
    <3> SUFFICES ASSUME NEW a \in Addr, NEW i \in Loadable
                 PROVE  ~ (Offset(Segment(i), a) < 0)
      BY <2>3 DEF Storing
    <3> DEFINE d == a - Segment(i).addr
    <3>1. d \in Int /\ AddrSpace \in Nat \ {0}
      BY <2>1, SegmentFacts, AddrSpaceIsPositive
    <3> HIDE DEF d
    <3>2. d % AddrSpace \in 0 .. AddrSpace - 1
      BY <3>1, Division
    <3>3. ~ (d % AddrSpace < 0)
      BY <3>1, <3>2
    <3> QED BY <3>3 DEF d, Offset
  <2>5. bytes = Loaded(Extent)
    BY <2>1, <2>4 DEF Loaded
  <2> QED BY <2>1, <2>2, <2>5 DEF LoaderInv, Position
<1>2. LoaderInv /\ [Next]_vars => LoaderInv'
  <2> SUFFICES ASSUME LoaderInv, [Next]_vars PROVE LoaderInv'
    OBVIOUS
  <2>1. Typed'
    BY TypedKept DEF LoaderInv
  <2>2. (phase \in {"text", "fill", "loaded"} => file.flaws = {} /\ pc = file.entry)'
    BY DEF LoaderInv, Next, Reject, Accept, StoreWord, BeginFill, FillWord, NextSegment,
           StoreThrew, FromSegment, vars, loadVars
  <2>3. (phase \in {"text", "fill"} => index \in Loadable)'
    BY SegmentsKept DEF LoaderInv, Next, Reject, Accept, StoreWord, BeginFill, FillWord, NextSegment,
           StoreThrew, FromSegment, vars, loadVars
  <2>4. ASSUME (AllWordSized /\ phase # "failed")' PROVE (Position /\ bytes = Loaded(Extent))'
    <3>1. file' = file
      BY DEF Next, Reject, Accept, StoreWord, BeginFill, FillWord, NextSegment,
             StoreThrew, vars, loadVars
    <3>2. AllWordSized /\ phase' # "failed"
      BY <2>4, <3>1, SegmentsKept
    <3>3. CASE UNCHANGED vars
      <4>1. UNCHANGED <<file, phase, index, word, fileSize, bytes>>
        BY <3>3 DEF vars, loadVars, flatVars
      <4>2. \A i : Stored(i)' = Stored(i)
        BY <4>1, SegmentsKept DEF Stored
      <4>3. Extent' = Extent
        BY <4>1, <4>2, SegmentsKept DEF Extent
      <4>4. Loaded(Extent)' = Loaded(Extent)
        BY <4>1, <4>3, SegmentsKept
      <4>5. Position /\ bytes = Loaded(Extent)
        BY <3>2, <4>1 DEF LoaderInv
      <4>6. Position'
        BY <4>1, <4>5, SegmentsKept DEF Position
      <4> QED BY <4>1, <4>4, <4>5, <4>6
    <3>4. CASE Reject
      BY <3>2, <3>4 DEF Reject
    <3>5. CASE Accept
      <4>1. bytes = Loaded(Extent)
        BY <3>2, <3>5 DEF LoaderInv, Accept
      <4> QED BY <2>1, <3>5, <4>1, AcceptStoresNothing
    <3>6. CASE StoreWord
      BY <3>2, <3>6, StoreWordKeeps
    <3>7. CASE BeginFill
      BY <3>2, <3>7, BeginFillKeeps
    <3>8. CASE FillWord
      BY <3>2, <3>8, FillWordKeeps
    <3>9. CASE NextSegment
      BY <2>1, <3>2, <3>9, NextSegmentKeeps
    <3> QED BY <3>3, <3>4, <3>5, <3>6, <3>7, <3>8, <3>9 DEF Next
  <2> QED BY <2>1, <2>2, <2>3, <2>4 DEF LoaderInv
<1> QED BY <1>1, <1>2, PTL DEF Spec

(* Loading keeps its types: storing never leaves the address space.         *)
THEOREM LoaderTypeCorrect == Spec => []TypeOK
<1>1. LoaderInv => TypeOK
  BY DEF LoaderInv, Typed
<1> QED BY <1>1, LoaderInvariant, PTL

\* Once the constructor returns, what is recorded as stored is the image.
LEMMA LoadedIsImage ==
  ASSUME LoaderInv, phase = "loaded"
  PROVE  Loaded(Extent) = Image
<1>1. \A i \in Loadable, a \in Addr :
        Offset(Segment(i), a) < Extent[i] <=> Describes(Segment(i), a)
  <2> SUFFICES ASSUME NEW i \in Loadable, NEW a \in Addr
               PROVE  Offset(Segment(i), a) < Extent[i] <=> Describes(Segment(i), a)
    OBVIOUS
  <2> DEFINE s == Segment(i)  d == a - s.addr  o == Offset(s, a)
  <2>1. /\ d \in Int /\ AddrSpace \in Nat \ {0}
        /\ Len(s.data) \in Nat /\ s.memSize \in Nat
    BY SegmentFacts, AddrSpaceIsPositive DEF LoaderInv, Typed
  <2>2. o \in Int
    <3> HIDE DEF d
    <3>1. d % AddrSpace \in 0 .. AddrSpace - 1
      BY <2>1, Division
    <3> QED BY <2>1, <3>1 DEF d, Offset
  <2>3. Extent[i] = IF Len(s.data) < s.memSize THEN s.memSize ELSE Len(s.data)
    BY DEF Extent, Stored
  <2> HIDE DEF o, s
  <2>4. o < Extent[i] <=> o < Len(s.data) \/ o < s.memSize
    BY <2>1, <2>2, <2>3
  <2> QED BY <2>4 DEF Describes, o, s
<1>2. \A a \in Addr : Storing(Extent, a) = { i \in Loadable : Describes(Segment(i), a) }
  BY <1>1 DEF Storing
<1>3. Loaded(Extent) = Image
  <2>1. ASSUME NEW a \in Addr PROVE Loaded(Extent)[a] = Image[a]
    <3> DEFINE by == { i \in Loadable : Describes(file.segments[i], a) }
    <3>1. Storing(Extent, a) = by
      BY <1>2 DEF Segment
    <3>2. Loaded(Extent)[a] = IF by = {} THEN 0 ELSE Content(Segment(Latest(by)), a)
      BY <3>1 DEF Loaded
    <3>3. Image[a] = IF by = {} THEN 0 ELSE Content(Segment(Latest(by)), a)
      BY DEF Image, Latest, Segment
    <3> QED BY <3>2, <3>3
  <2>2. Loaded(Extent) = [a \in Addr |-> Loaded(Extent)[a]] /\ Image = [a \in Addr |-> Image[a]]
    BY DEF Loaded, Image
  <2> QED BY <2>1, <2>2
<1> QED BY <1>3

(* A constructor that returns has loaded the image of the file, for every   *)
(* executable whose segments consist of whole words.                        *)
THEOREM ImageAlwaysLoaded == Spec => []ImageLoaded
<1>1. LoaderInv => ImageLoaded
  <2> SUFFICES ASSUME LoaderInv, phase = "loaded"
               PROVE  /\ file.flaws = {} /\ pc = file.entry
                      /\ AllWordSized => bytes = Image
    BY DEF ImageLoaded, AllWordSized, Segment
  <2>1. ASSUME AllWordSized PROVE bytes = Image
    <3>1. bytes = Loaded(Extent)
      BY <2>1 DEF LoaderInv
    <3>2. Loaded(Extent) = Image
      BY LoadedIsImage
    <3> QED BY <3>1, <3>2
  <2> QED BY <2>1 DEF LoaderInv
<1> QED BY <1>1, LoaderInvariant, PTL

-----------------------------------------------------------------------------
(* Segments of any size.  A fill that passes the end of the address space   *)
(* goes on for ever, so that where the constructor returns every fill has   *)
(* ended in its first round, at most a word after its segment.              *)
EveryFillEnds == \A i \in Loadable : FillEnds(Segment(i))

Hurt(a) ==
  \E i \in Loadable : Offset(Segment(i), a) \in Dropped(Segment(i)) \union Spilled(Segment(i))

FirstRound ==
  phase = "fill" =>
    LET s == Segment(index)
    IN  /\ Len(s.data) <= fileSize
        /\ fileSize = Len(s.data) \/ (Len(s.data) < s.memSize /\ fileSize < s.memSize + kXLENInBytes)

InStep == phase = "fill" => (fileSize - Len(Segment(index).data)) % kXLENInBytes = 0

DamageInv ==
  /\ LoaderInv
  /\ phase # "failed" =>
       /\ \A i \in Loadable : i < index \/ phase = "loaded" => FillEnds(Segment(i))
       /\ InStep
       /\ EveryFillEnds => FirstRound /\ \A a \in Addr : ~ Hurt(a) => bytes[a] = Loaded(Extent)[a]

LEMMA HurtKept ==
  ASSUME file' = file
  PROVE  EveryFillEnds' = EveryFillEnds /\ \A a : Hurt(a)' = Hurt(a)
<1>1. Loadable' = Loadable /\ \A i : Segment(i)' = Segment(i)
  BY SegmentsKept
<1> QED BY <1>1 DEF EveryFillEnds, Hurt

\* The numbers of a segment.
LEMMA SegmentNumbers ==
  ASSUME Typed, NEW i \in Loadable
  PROVE  /\ Len(Segment(i).data) \in Nat /\ Segment(i).memSize \in Nat
         /\ Segment(i).memSize < AddrSpace /\ Len(Segment(i).data) < AddrSpace
         /\ AddrSpace \in Nat \ {0} /\ kXLENInBytes \in Nat \ {0} /\ fileSize \in Nat
         /\ \A f : f \in Addr <=> f \in Nat /\ f < AddrSpace
<1>1. Segment(i).memSize \in Addr /\ Len(Segment(i).data) \in Addr /\ fileSize \in Addr
  BY SegmentFacts DEF Typed, TypeOK
<1> DEFINE m == Segment(i).memSize  n == Len(Segment(i).data)
<1> HIDE DEF m, n
<1>2. m \in Addr /\ n \in Addr /\ fileSize \in Addr
  BY <1>1 DEF m, n
<1>3. /\ n \in Nat /\ m \in Nat /\ m < AddrSpace /\ n < AddrSpace
      /\ AddrSpace \in Nat \ {0} /\ kXLENInBytes \in Nat \ {0} /\ fileSize \in Nat
      /\ \A f : f \in Addr <=> f \in Nat /\ f < AddrSpace
  BY <1>2, AddrSpaceIsPositive
<1> QED BY <1>3 DEF m, n

LEMMA OffsetIsNat ==
  ASSUME Typed, NEW i \in Loadable, NEW a \in Addr
  PROVE  Offset(Segment(i), a) \in Addr
<1> DEFINE d == a - Segment(i).addr
<1>1. d \in Int /\ AddrSpace \in Nat \ {0}
  BY SegmentFacts, AddrSpaceIsPositive DEF Typed
<1> HIDE DEF d
<1>2. d % AddrSpace \in 0 .. AddrSpace - 1
  BY <1>1, Division
<1> QED BY <1>2, AddrSpaceIsPositive DEF d, Offset

\* A segment whose text fills its memory has no fill that could go on for ever.
LEMMA NothingToFill ==
  ASSUME Typed, NEW i \in Loadable, NEW f \in Addr,
         f >= Segment(i).memSize, (f - Len(Segment(i).data)) % kXLENInBytes = 0
  PROVE  FillEnds(Segment(i))
<1> DEFINE n == Len(Segment(i).data)  m == Segment(i).memSize  k == kXLENInBytes
<1>1. /\ n \in Nat /\ m \in Nat /\ n \in Addr /\ f \in Nat /\ k \in Nat \ {0}
  BY SegmentNumbers
<1>2. f >= m /\ (f - n) % k = 0
  OBVIOUS
<1>3. (n - n) % k = 0
  <2> HIDE DEF n, k
  <2>1. n - n = 0 /\ 0 % k = 0
    BY <1>1
  <2> QED BY <2>1
<1> HIDE DEF n, m, k
<1>4. \E g \in Addr : g >= m /\ g >= n /\ (g - n) % k = 0
  <2>1. CASE f >= n
    BY <1>2, <2>1
  <2>2. CASE f < n
    BY <1>1, <1>2, <1>3, <2>2
  <2> QED BY <1>1, <2>1, <2>2
<1> QED BY <1>4 DEF FillEnds, n, m, k

\* A fill that ends and has not ended yet has room for its next word.
LEMMA RoomToFill ==
  ASSUME Typed, index \in Loadable, FillEnds(Segment(index)), InStep, phase = "fill",
         fileSize < Segment(index).memSize
  PROVE  fileSize + kXLENInBytes < AddrSpace
<1> DEFINE n == Len(Segment(index).data)  k == kXLENInBytes
<1>1. PICK f \in Addr : f >= Segment(index).memSize /\ f >= n /\ (f - n) % k = 0
  BY DEF FillEnds
<1>2. /\ n \in Nat /\ k \in Nat \ {0} /\ f \in Nat /\ f < AddrSpace /\ fileSize \in Nat
      /\ fileSize < f /\ AddrSpace \in Nat
  BY <1>1, SegmentNumbers
<1>3. (fileSize - n) % k = 0
  BY DEF InStep
<1> DEFINE x == fileSize - n  y == f - n
<1> HIDE DEF n, k
<1>4. x \in Int /\ y \in Int /\ x < y /\ x % k = 0 /\ y % k = 0
  BY <1>1, <1>2, <1>3
<1> HIDE DEF x, y
<1>5. x + k <= y
  BY <1>2, <1>4, RoomForOne
<1>6. fileSize - n + k <= f - n
  BY <1>5 DEF x, y
<1> QED BY <1>2, <1>6 DEF k

\* A store makes memory and what is recorded as stored the same where it goes.
LEMMA StoreMends ==
  ASSUME Typed, NEW extent, NEW addr \in Addr, NEW v, NEW a \in Addr,
         bytes[a] = Loaded(extent)[a]
  PROVE  Overwrite(bytes, addr, v)[a] = Overwrite(Loaded(extent), addr, v)[a]
<1>1. DOMAIN bytes = Addr /\ DOMAIN Loaded(extent) = Addr
  BY DEF Typed, TypeOK, Loaded
<1> QED BY <1>1 DEF Overwrite

\* Addresses at which two records agree.
LEMMA SameThere ==
  ASSUME NEW extent, NEW other, NEW a \in Addr,
         \A i \in Loadable : Offset(Segment(i), a) < extent[i] <=> Offset(Segment(i), a) < other[i]
  PROVE  Loaded(extent)[a] = Loaded(other)[a]
<1>1. Storing(extent, a) = Storing(other, a)
  BY DEF Storing
<1> QED BY <1>1 DEF Loaded

\* The wrap-around keeps the fill in step: words divide the address space.
LEMMA WrapInStep ==
  ASSUME NEW A \in Nat \ {0}, NEW k \in Nat \ {0}, NEW f \in Int, NEW n \in Int,
         A % k = 0, (f - n) % k = 0
  PROVE  (((f + k) % A) - n) % k = 0
<1> DEFINE x == f - n  y == f + k  g == y % A  z == g - n  none == 0
<1>1. x \in Int /\ y \in Int /\ x % k = 0
  OBVIOUS
<1>2. g \in 0 .. A - 1 /\ \E q \in Int : y = A * q + g
  <2> HIDE DEF y
  <2>1. y % A \in 0 .. A - 1 /\ y \div A \in Int /\ y = A * (y \div A) + (y % A)
    BY <1>1, Division
  <2> QED BY <2>1
<1> HIDE DEF x, g
<1>3. PICK q \in Int : y = A * q + g
  BY <1>2
<1>4. PICK c \in Int : x = k * c
  <2>1. x \div k \in Int /\ x = k * (x \div k) + (x % k)
    BY <1>1, Division
  <2>2. x = k * (x \div k)
    BY <1>1, <2>1
  <2> QED BY <2>1, <2>2
<1>5. PICK d \in Int : A = k * d
  <2>1. A \div k \in Int /\ A = k * (A \div k) + (A % k)
    BY Division
  <2>2. A = k * (A \div k)
    BY <2>1
  <2> QED BY <2>1, <2>2
<1>6. z = k * (c + 1 - d * q)
  <2>1. A * q = k * (d * q)
    BY <1>5
  <2> DEFINE r == d * q
  <2>2. r \in Int
    OBVIOUS
  <2> HIDE DEF r
  <2>3. k * (c + 1 - r) = k * c + k - k * r
    BY <2>2
  <2>4. A * q = k * r
    BY <2>1 DEF r
  <2>5. x = f - n /\ y = f + k
    BY DEF x
  <2>6. k * c \in Int /\ k * r \in Int /\ g \in Int
    BY <1>2, <2>2
  <2>7. g - n = k * c + k - k * r
    BY <1>2, <1>3, <1>4, <2>4, <2>5, <2>6
  <2>8. g - n = k * (c + 1 - r)
    BY <2>3, <2>7
  <2> QED BY <2>8 DEF r
<1>7. z \in Int /\ c + 1 - d * q \in Int /\ none \in 0 .. k - 1 /\ z = k * (c + 1 - d * q) + none
  BY <1>2, <1>6
<1> DEFINE h == c + 1 - d * q
<1> HIDE DEF z, h, none
<1>8. \A m \in Int, r \in 0 .. k - 1 : z = k * m + r => r = z % k
  BY <1>7, Division
<1>9. none = z % k
  BY <1>7, <1>8 DEF h
<1> QED BY <1>9 DEF z, g, y, none

LEMMA DamageStoreWord ==
  ASSUME DamageInv, StoreWord, phase' # "failed", LoaderInv'
  PROVE  DamageInv'
<1>1. Typed /\ index \in Loadable /\ phase = "text"
  BY DEF DamageInv, LoaderInv, StoreWord
<1>2. file' = file /\ phase' = "text" /\ index' = index
  BY <1>1, StoreWordStores
<1>3. PICK addr \in Addr : \E v :
         /\ bytes' = Overwrite(bytes, addr, v)
         /\ Loaded(Extent)' = Overwrite(Loaded(Extent), addr, v)
  BY <1>1, StoreWordStores
<1>3a. PICK v : /\ bytes' = Overwrite(bytes, addr, v)
               /\ Loaded(Extent)' = Overwrite(Loaded(Extent), addr, v)
  BY <1>3
<1>4. ASSUME EveryFillEnds, NEW a \in Addr, ~ Hurt(a)
      PROVE  bytes'[a] = Loaded(Extent)'[a]
  <2>1. bytes[a] = Loaded(Extent)[a]
    BY <1>1, <1>4 DEF DamageInv
  <2>2. Overwrite(bytes, addr, v)[a] = Overwrite(Loaded(Extent), addr, v)[a]
    BY <1>1, <2>1, StoreMends
  <2> QED BY <1>3a, <2>2
<1>5. \A i \in Loadable' : i < index' \/ phase' = "loaded" => FillEnds(Segment(i)')
  BY <1>1, <1>2, SegmentsKept DEF DamageInv
<1> QED BY <1>2, <1>4, <1>5, HurtKept DEF DamageInv, FirstRound, InStep

LEMMA DamageFillWord ==
  ASSUME DamageInv, FillWord, phase' # "failed", LoaderInv'
  PROVE  DamageInv'
<1> DEFINE s == Segment(index)  n == Len(s.data)  k == kXLENInBytes
<1>1. Typed /\ index \in Loadable /\ phase = "fill" /\ fileSize < s.memSize
  BY DEF DamageInv, LoaderInv, FillWord, Filling, Segment
<1>2. /\ fileSize' = (fileSize + k) % AddrSpace
      /\ UNCHANGED <<file, phase, index>>
  BY DEF FillWord, StoreThrew
<1>3. /\ n \in Nat /\ s.memSize \in Nat /\ fileSize \in Nat /\ k \in Nat \ {0}
      /\ AddrSpace \in Nat \ {0}
  BY <1>1, SegmentNumbers
<1>4. Segment(index)' = s
  BY <1>2, SegmentsKept
<1>5. InStep'
  <2>1. (fileSize - n) % k = 0 /\ AddrSpace % k = 0
    BY <1>1, XLENAssumption DEF DamageInv, InStep
  <2> DEFINE A == AddrSpace  f == fileSize
  <2>2. A % k = 0 /\ (f - n) % k = 0
    BY <2>1
  <2> HIDE DEF n, k
  <2>4. A \in Nat \ {0} /\ k \in Nat \ {0} /\ f \in Int /\ n \in Int
    BY <1>3
  <2> HIDE DEF A, f
  <2>3. (((f + k) % A) - n) % k = 0
    BY <2>2, <2>4, WrapInStep
  <2> QED BY <1>2, <1>4, <2>3 DEF InStep, n, k, A, f
<1>6. ASSUME EveryFillEnds
      PROVE  FirstRound' /\ \A a \in Addr : ~ Hurt(a) => bytes'[a] = Loaded(Extent)'[a]
  <2>1. FirstRound /\ \A a \in Addr : ~ Hurt(a) => bytes[a] = Loaded(Extent)[a]
    BY <1>1, <1>6 DEF DamageInv
  <2>2. n <= fileSize
    BY <1>1, <2>1 DEF FirstRound
  <2>3. fileSize + k < AddrSpace
    BY <1>1, <1>6, RoomToFill DEF EveryFillEnds, DamageInv
  <2>4. fileSize' = fileSize + k
    BY <1>1, <2>2, <2>3, FillWordStores
  <2>5. FirstRound'
    <3>1. n <= fileSize' /\ n < s.memSize /\ fileSize' < s.memSize + k
      <4> HIDE DEF n, k, s
      <4> QED BY <1>1, <1>3, <2>2, <2>4
    <3> QED BY <1>4, <3>1 DEF FirstRound
  <2>6. PICK addr \in Addr : \E v :
           /\ bytes' = Overwrite(bytes, addr, v)
           /\ Loaded(Extent)' = Overwrite(Loaded(Extent), addr, v)
    BY <1>1, <2>2, <2>3, FillWordStores
  <2>6a. PICK v : /\ bytes' = Overwrite(bytes, addr, v)
                 /\ Loaded(Extent)' = Overwrite(Loaded(Extent), addr, v)
    BY <2>6
  <2>7. ASSUME NEW a \in Addr, ~ Hurt(a) PROVE bytes'[a] = Loaded(Extent)'[a]
    <3>1. bytes[a] = Loaded(Extent)[a]
      BY <2>1, <2>7
    <3>2. Overwrite(bytes, addr, v)[a] = Overwrite(Loaded(Extent), addr, v)[a]
      BY <1>1, <3>1, StoreMends
    <3> QED BY <2>6a, <3>2
  <2> QED BY <2>5, <2>7
<1>7. \A i \in Loadable' : i < index' \/ phase' = "loaded" => FillEnds(Segment(i)')
  BY <1>1, <1>2, SegmentsKept DEF DamageInv
<1> QED BY <1>2, <1>5, <1>6, <1>7, HurtKept DEF DamageInv

LEMMA DamageBeginFill ==
  ASSUME DamageInv, BeginFill, LoaderInv'
  PROVE  DamageInv'
<1> DEFINE s == Segment(index)  n == Len(s.data)
<1>1. Typed /\ index \in Loadable /\ phase = "text" /\ word = TextWords(s)
  BY DEF DamageInv, LoaderInv, BeginFill, Segment
<1>2. /\ fileSize' = n /\ phase' = "fill"
      /\ UNCHANGED <<flatVars, file, pc, index, word>>
  BY DEF BeginFill, Segment
<1>3. n \in Nat /\ kXLENInBytes \in Nat \ {0} /\ index \in Nat
  BY <1>1, SegmentNumbers DEF Typed
<1>4. Segment(index)' = s
  BY <1>2, SegmentsKept
<1>5. InStep'
  <2>1. (n - n) % kXLENInBytes = 0
    <3> HIDE DEF n
    <3>1. n - n = 0 /\ 0 % kXLENInBytes = 0
      BY <1>3
    <3> QED BY <3>1
  <2> QED BY <1>2, <1>4, <2>1 DEF InStep
<1>6. FirstRound'
  <2>1. n <= n
    BY <1>3
  <2> QED BY <1>2, <1>4, <2>1 DEF FirstRound
<1> DEFINE longer == [i \in Loadable |-> Stored(i)']
<1>7. Extent' = longer
  BY <1>2, SegmentsKept DEF Extent
<1>8. Loaded(Extent)' = Loaded(longer)
  BY <1>2, <1>7, SegmentsKept
<1>9. ASSUME NEW a \in Addr, ~ Hurt(a)
      PROVE  Loaded(Extent)[a] = Loaded(longer)[a]
  <2> DEFINE o == Offset(s, a)  e == TextWords(s) * kXLENInBytes
  <2>1. o \notin Dropped(s) /\ o \in Addr
    BY <1>1, <1>9, OffsetIsNat DEF Hurt
  <2>2. ~ (e <= o /\ o < n)
    BY <2>1 DEF Dropped
  <2>3. e <= n /\ e \in Int
    <3> DEFINE k == kXLENInBytes  d == n \div k
    <3> HIDE DEF n, k
    <3>1. d \in Int /\ n % k \in 0 .. k - 1 /\ n = k * d + (n % k) /\ k \in Nat
      BY <1>3, Division DEF k
    <3> HIDE DEF d
    <3>2. k * d \in Int /\ d * k = k * d
      BY <3>1
    <3>3. d * k <= n /\ d * k \in Int
      BY <1>3, <3>1, <3>2
    <3> QED BY <3>3 DEF TextWords, n, k, d
  <2>4. o \in Int
    BY <1>1, <2>1, SegmentNumbers
  <2> HIDE DEF o, e, n
  <2>5. o < e <=> o < n
    BY <1>3, <2>2, <2>3, <2>4
  <2>6. Extent[index] = e /\ longer[index] = n
    BY <1>1, <1>2, <1>3 DEF Extent, Stored, e
  <2>7. \A i \in Loadable : i # index => longer[i] = Extent[i]
    BY <1>1, <1>2, SegmentsKept DEF Extent, Stored
  <2>8. \A i \in Loadable : Offset(Segment(i), a) < Extent[i] <=> Offset(Segment(i), a) < longer[i]
    BY <2>5, <2>6, <2>7 DEF o
  <2> HIDE DEF longer
  <2> QED BY <2>8, SameThere
<1>10. \A a \in Addr : EveryFillEnds /\ ~ Hurt(a) => bytes'[a] = Loaded(Extent)'[a]
  BY <1>1, <1>2, <1>8, <1>9 DEF DamageInv, flatVars
<1>11. \A i \in Loadable' : i < index' \/ phase' = "loaded" => FillEnds(Segment(i)')
  BY <1>1, <1>2, SegmentsKept DEF DamageInv
<1> QED BY <1>2, <1>5, <1>6, <1>10, <1>11, HurtKept DEF DamageInv

LEMMA DamageNextSegment ==
  ASSUME DamageInv, NextSegment, LoaderInv'
  PROVE  DamageInv'
<1> DEFINE s == Segment(index)  n == Len(s.data)  m == s.memSize  next == index + 1
           whole(i) == IF Len(Segment(i).data) < Segment(i).memSize THEN Segment(i).memSize
                                                                   ELSE Len(Segment(i).data)
           extent == [i \in Loadable |-> IF i < next THEN whole(i) ELSE 0]
<1>1. /\ Typed /\ index \in Loadable /\ phase = "fill" /\ FromSegment(next)
      /\ ~ (fileSize < m)
      /\ UNCHANGED <<flatVars, file, pc, fileSize>>
  BY DEF DamageInv, LoaderInv, NextSegment, Filling, Segment
<1>2. \A i \in Loadable : i \in Nat
  BY <1>1, SegmentFacts DEF Typed
<1>3. index \in Nat /\ next \in Nat /\ index < next /\ \A i \in Loadable : i <= index \/ i >= next
  BY <1>1, <1>2 DEF Typed
<1>4. Extent' = extent
  BY <1>1, <1>3, NextBegun DEF DamageInv, LoaderInv
<1>5. /\ n \in Nat /\ m \in Nat /\ fileSize \in Nat /\ kXLENInBytes \in Nat \ {0}
      /\ fileSize \in Addr
  BY <1>1, SegmentNumbers DEF Typed, TypeOK
<1>6. FillEnds(s)
  <2>1. (fileSize - n) % kXLENInBytes = 0
    BY <1>1 DEF DamageInv, InStep
  <2>2. fileSize >= m
    BY <1>1, <1>5
  <2> QED BY <1>1, <1>5, <2>1, <2>2, NothingToFill
<1>7. phase' \in {"text", "loaded"}
  BY <1>1 DEF FromSegment
<1>8. \A i \in Loadable : i < index' \/ phase' = "loaded" => FillEnds(Segment(i))
  <2> SUFFICES ASSUME NEW i \in Loadable, i < index' \/ phase' = "loaded"
               PROVE  FillEnds(Segment(i))
    OBVIOUS
  <2>1. ~ (i >= next)
    BY <1>1, <1>2, <1>3 DEF FromSegment
  <2>2. i < index \/ i = index
    BY <1>2, <1>3, <2>1
  <2> QED BY <1>1, <1>6, <2>2 DEF DamageInv
<1>9. ASSUME EveryFillEnds, NEW a \in Addr, ~ Hurt(a)
      PROVE  Loaded(Extent)[a] = Loaded(extent)[a]
  <2> DEFINE o == Offset(s, a)
  <2>1. o \notin Spilled(s) /\ o \in Addr
    BY <1>1, <1>9, OffsetIsNat DEF Hurt
  <2>2. ~ (m <= o /\ o < m + kXLENInBytes - 1 /\ n < m)
    BY <2>1 DEF Spilled
  <2>3. n <= fileSize /\ (fileSize = n \/ (n < m /\ fileSize < m + kXLENInBytes))
    BY <1>1, <1>9 DEF DamageInv, FirstRound
  <2>4. o \in Int
    BY <1>1, <2>1, SegmentNumbers
  <2>5. Extent[index] = fileSize
    BY <1>1, <1>3 DEF Extent, Stored
  <2>6. extent[index] = IF n < m THEN m ELSE n
    BY <1>1, <1>3
  <2>7. \A i \in Loadable : i # index => extent[i] = Extent[i]
    <3> SUFFICES ASSUME NEW i \in Loadable, i # index PROVE extent[i] = Stored(i)
      BY DEF Extent
    <3>1. CASE i < index
      BY <1>2, <1>3, <3>1 DEF Stored
    <3>2. CASE i >= next
      BY <1>1, <1>2, <1>3, <3>2 DEF Stored
    <3> QED BY <1>2, <1>3, <3>1, <3>2
  <2> HIDE DEF o, n, m, extent
  <2>8. o < Extent[index] <=> o < extent[index]
    BY <1>1, <1>5, <2>2, <2>3, <2>4, <2>5, <2>6
  <2>9. \A i \in Loadable : Offset(Segment(i), a) < Extent[i] <=> Offset(Segment(i), a) < extent[i]
    BY <2>7, <2>8 DEF o
  <2> QED BY <2>9, SameThere
<1> HIDE DEF extent
<1>10. Loaded(Extent)' = Loaded(extent)
  BY <1>1, <1>4, SegmentsKept
<1>11. \A a \in Addr : EveryFillEnds /\ ~ Hurt(a) => bytes'[a] = Loaded(Extent)'[a]
  BY <1>1, <1>9, <1>10 DEF DamageInv, flatVars
<1> QED BY <1>1, <1>7, <1>8, <1>11, SegmentsKept, HurtKept DEF DamageInv, FirstRound, InStep

LEMMA DamageAccept ==
  ASSUME DamageInv, Accept, LoaderInv'
  PROVE  DamageInv'
<1>1. Loaded(Extent)' = Loaded(Extent) /\ bytes' = bytes
  BY AcceptStoresNothing DEF DamageInv, LoaderInv
<1>2. file' = file /\ phase = "open" /\ index = 0 /\ FromSegment(1) /\ file \in Files
  BY DEF DamageInv, LoaderInv, Typed, Accept
<1>3. phase' \in {"text", "loaded"}
  BY <1>2 DEF FromSegment
<1>4. \A i \in Loadable : ~ (i < index' \/ phase' = "loaded")
  <2> SUFFICES ASSUME NEW i \in Loadable PROVE ~ (i < index' \/ phase' = "loaded")
    OBVIOUS
  <2>1. i \in Nat /\ i >= 1
    BY <1>2, SegmentFacts
  <2>2. index' \in Nat
    BY DEF LoaderInv, Typed
  <2> QED BY <1>2, <2>1, <2>2 DEF FromSegment
<1>5. \A a \in Addr : EveryFillEnds /\ ~ Hurt(a) => bytes'[a] = Loaded(Extent)'[a]
  BY <1>1, <1>2 DEF DamageInv
<1> QED BY <1>2, <1>3, <1>4, <1>5, SegmentsKept, HurtKept DEF DamageInv, FirstRound, InStep

(* Whatever the sizes of segments, memory differs from the image only in    *)
(* their incomplete last words and less than a word after them.             *)
THEOREM DamageAlwaysConfined == Spec => []DamageConfined
<1>1. Init /\ LoaderInv => DamageInv
  <2> SUFFICES ASSUME Init, LoaderInv PROVE DamageInv
    OBVIOUS
  <2>1. phase = "open" /\ index = 0 /\ file \in Files /\ \A a \in Addr : bytes[a] = 0
    BY DEF Init, FlatInit
  <2>2. \A i \in Loadable : ~ (i < index) /\ Extent[i] = 0
    BY <2>1, SegmentFacts DEF Extent, Stored
  <2>3. ASSUME NEW a \in Addr PROVE Loaded(Extent)[a] = 0
    <3>1. \A i \in Loadable : ~ (Offset(Segment(i), a) < 0)
      <4> SUFFICES ASSUME NEW i \in Loadable PROVE ~ (Offset(Segment(i), a) < 0)
        OBVIOUS
      <4>1. Offset(Segment(i), a) \in Addr
        BY OffsetIsNat DEF LoaderInv
      <4> DEFINE o == Offset(Segment(i), a)
      <4> HIDE DEF o
      <4>2. ~ (o < 0)
        BY <4>1, AddrSpaceIsPositive DEF o
      <4> QED BY <4>2 DEF o
    <3>2. Storing(Extent, a) = {}
      BY <2>2, <3>1 DEF Storing
    <3> QED BY <3>2 DEF Loaded
  <2> QED BY <2>1, <2>2, <2>3 DEF DamageInv, FirstRound, InStep
<1>2. DamageInv /\ [Next]_vars /\ LoaderInv' => DamageInv'
  <2> SUFFICES ASSUME DamageInv, [Next]_vars, LoaderInv' PROVE DamageInv'
    OBVIOUS
  <2>1. CASE UNCHANGED vars
    <3>1. UNCHANGED <<file, phase, index, word, fileSize, bytes>>
      BY <2>1 DEF vars, loadVars, flatVars
    <3>2. \A i : Stored(i)' = Stored(i)
      BY <3>1, SegmentsKept DEF Stored
    <3>3. Extent' = Extent
      BY <3>1, <3>2, SegmentsKept DEF Extent
    <3>4. Loaded(Extent)' = Loaded(Extent)
      BY <3>1, <3>3, SegmentsKept
    <3> QED BY <3>1, <3>4, SegmentsKept, HurtKept DEF DamageInv, FirstRound, InStep
  <2>2. CASE phase' = "failed"
    BY <2>2 DEF DamageInv
  <2>3. CASE Reject
    BY <2>2, <2>3 DEF Reject
  <2>4. CASE Accept
    BY <2>4, DamageAccept
  <2>5. CASE StoreWord
    BY <2>2, <2>5, DamageStoreWord
  <2>6. CASE BeginFill
    BY <2>6, DamageBeginFill
  <2>7. CASE FillWord
    BY <2>2, <2>7, DamageFillWord
  <2>8. CASE NextSegment
    BY <2>8, DamageNextSegment
  <2> QED BY <2>1, <2>3, <2>4, <2>5, <2>6, <2>7, <2>8 DEF Next
<1>3. DamageInv => DamageConfined
  <2> SUFFICES ASSUME DamageInv, phase = "loaded", NEW a \in Addr, ~ Hurt(a)
               PROVE  bytes[a] = Image[a]
    BY DEF DamageConfined, Hurt, Segment
  <2>1. bytes[a] = Loaded(Extent)[a]
    BY DEF DamageInv, EveryFillEnds
  <2>2. Loaded(Extent) = Image
    BY LoadedIsImage DEF DamageInv
  <2> QED BY <2>1, <2>2
<1> QED BY <1>1, <1>2, <1>3, LoaderInvariant, PTL DEF Spec
=============================================================================
