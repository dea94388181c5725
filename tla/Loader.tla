------------------------------- MODULE Loader -------------------------------
(***************************************************************************)
(* Loading a program: ELFLoader (elfloader/elfloader.cc) and the loop of   *)
(* Hart's constructor over the loadable segments (hart/hart.cc 74-88).     *)
(* What ELFIO has parsed is the record file; every word the loop stores is *)
(* a store of FlatMemory, which may be refused, and an exception anywhere  *)
(* ends the constructor and the program.                                   *)
(***************************************************************************)
EXTENDS FlatMemory, FiniteSets

CONSTANTS
  kXLENInBytes,   \* bytes of a word
  Files           \* the executables the simulator may be given

AddrSpace == NumPages * PageBytes

\* Why a file is turned away, in the order in which it is looked at: ELFIO
\* cannot read it, then the tests of ELFLoader::check.
Flaws == {"unreadable", "invalid", "class", "encoding", "type", "machine"}

Segments == [type : {"PT_LOAD", "other"}, addr : Addr, data : Seq(MemByte), memSize : Addr]

ASSUME XLENAssumption ==
  /\ kXLENInBytes \in Sizes
  /\ AddrSpace % kXLENInBytes = 0
ASSUME FilesAssumption ==
  \A f \in Files : /\ f.flaws \subseteq Flaws
                   /\ f.entry \in Addr
                   /\ f.segments \in Seq(Segments)
                   /\ \A i \in DOMAIN f.segments : Len(f.segments[i].data) \in Addr

VARIABLES
  file,      \* ELFLoader::elfFile_
  pc,        \* State::pc
  phase,     \* where the constructor is
  index,     \* segmentIdx
  word,      \* words of text that storeRange has stored
  fileSize   \* the running fileSize of the zero fill

loadVars == <<file, pc, phase, index, word, fileSize>>
vars == <<flatVars, loadVars>>

TypeOK ==
  /\ file.flaws \subseteq Flaws
  /\ mapped \subseteq Pages
  /\ bytes \in [Addr -> MemByte]
  /\ pc \in Addr
  /\ phase \in {"open", "text", "fill", "loaded", "failed"}
  /\ phase \in {"text", "fill"} => index \in DOMAIN file.segments
  /\ word \in Nat
  /\ fileSize \in Addr

Init == /\ FlatInit
        /\ file \in Files
        /\ pc = 0 /\ phase = "open" /\ index = 0 /\ word = 0 /\ fileSize = 0

-----------------------------------------------------------------------------
\* getLoadableSegments, as positions in the program header table.
Loadable == { i \in DOMAIN file.segments : file.segments[i].type = "PT_LOAD" }

\* The size of the span getSegment returns: whole words only.
TextWords(s) == Len(s.data) \div kXLENInBytes

\* Mistake: an address that does not wrap around.
InSegmentNoWrap(s, offset) == s.addr + offset

\* Addresses are 32 bits wide.
InSegment(s, offset) == (s.addr + offset) % AddrSpace

\* Mistake: off by one, the first loadable segment is passed over.
FromSegmentAfter(i) ==
  \/ /\ \A j \in Loadable : j <= i
     /\ phase' = "loaded"
     /\ UNCHANGED <<index, word>>
  \/ \E j \in Loadable :
       /\ j > i
       /\ \A k \in Loadable : k > i => j <= k
       /\ index' = j /\ word' = 0
       /\ phase' = "text"

\* Goes on with the first loadable segment from position i on, or is done.
FromSegment(i) ==
  \/ /\ \A j \in Loadable : j < i
     /\ phase' = "loaded"
     /\ UNCHANGED <<index, word>>
  \/ \E j \in Loadable :
       /\ j >= i
       /\ \A k \in Loadable : k >= i => j <= k
       /\ index' = j /\ word' = 0
       /\ phase' = "text"

\* storeEntity<Word>: where to go on if it returns is the caller's to say.
StoreThrew(addr, v) ==
  /\ FlatStoreRefused(addr, v)
  /\ phase' = "failed"
  /\ UNCHANGED <<file, pc, index, word, fileSize>>

-----------------------------------------------------------------------------
\* The constructor of ELFLoader throws.
Reject ==
  /\ phase = "open"
  /\ file.flaws # {}
  /\ phase' = "failed"
  /\ UNCHANGED <<flatVars, file, pc, index, word, fileSize>>

\* It returns: the entry point goes to pc, and the first segment is begun.
Accept ==
  /\ phase = "open"
  /\ file.flaws = {}
  /\ pc' = file.entry
  /\ FromSegment(1)
  /\ UNCHANGED <<flatVars, file, fileSize>>

\* A turn of storeRange's for_each.
StoreWord ==
  /\ phase = "text"
  /\ LET s == file.segments[index]
         addr == InSegment(s, word * kXLENInBytes)
         v == SubSeq(s.data, word * kXLENInBytes + 1, (word + 1) * kXLENInBytes)
     IN  /\ word < TextWords(s)
         /\ \/ /\ FlatStore(addr, v)
               /\ word' = word + 1
               /\ UNCHANGED <<file, pc, phase, index, fileSize>>
            \/ StoreThrew(addr, v)

\* storeRange has returned: fileSize is read again from the program header.
BeginFill ==
  /\ phase = "text"
  /\ word = TextWords(file.segments[index])
  /\ fileSize' = Len(file.segments[index].data)
  /\ phase' = "fill"
  /\ UNCHANGED <<flatVars, file, pc, index, word>>

\* Mistakes: the fill goes on until it meets memSize exactly, or one word longer.
FillingUntilEqual(s) == fileSize # s.memSize
FillingOneMore(s) == fileSize <= s.memSize

\* The condition of the fill's loop.
Filling(s) == fileSize < s.memSize

\* A turn of the fill's loop: fileSize is an Addr and wraps around like one.
FillWord ==
  /\ phase = "fill"
  /\ LET s == file.segments[index]
         addr == InSegment(s, fileSize)
         v == [b \in 1 .. kXLENInBytes |-> 0]
     IN  /\ Filling(s)
         /\ \/ /\ FlatStore(addr, v)
               /\ fileSize' = (fileSize + kXLENInBytes) % AddrSpace
               /\ UNCHANGED <<file, pc, phase, index, word>>
            \/ StoreThrew(addr, v)

\* The segment is done; after the last, setProgramStoredFlag.
NextSegment ==
  /\ phase = "fill"
  /\ ~ Filling(file.segments[index])
  /\ FromSegment(index + 1)
  /\ UNCHANGED <<flatVars, file, pc, fileSize>>

Next == Reject \/ Accept \/ StoreWord \/ BeginFill \/ FillWord \/ NextSegment

Spec == Init /\ [][Next]_vars

\* The simulator is one thread that keeps running until it returns or throws.
FairSpec == Spec /\ WF_vars(Next)
-----------------------------------------------------------------------------
\* Which byte of segment s address a is.
Offset(s, a) == (a - s.addr) % AddrSpace

\* Segment s says what address a holds, and what it says.
Describes(s, a) == Offset(s, a) < Len(s.data) \/ Offset(s, a) < s.memSize
Content(s, a) == IF Offset(s, a) < Len(s.data) THEN s.data[Offset(s, a) + 1] ELSE 0

\* The program headers' image of memory: a later segment goes over an earlier.
Image ==
  [a \in Addr |->
     LET by == { i \in Loadable : Describes(file.segments[i], a) }
     IN  IF by = {} THEN 0
         ELSE Content(file.segments[CHOOSE i \in by : \A j \in by : j <= i], a)]

WordSized(s) == Len(s.data) % kXLENInBytes = 0 /\ s.memSize % kXLENInBytes = 0

(* When the constructor returns, the file has no flaw, pc is its entry      *)
(* point, and, if all its segments consist of whole words, memory is the    *)
(* image its program headers describe: text, zeros after it, zeros where    *)
(* nothing is described, later segments over earlier ones.                  *)
ImageLoaded ==
  phase = "loaded" =>
     /\ file.flaws = {}
     /\ pc = file.entry
     /\ (\A i \in Loadable : WordSized(file.segments[i])) => bytes = Image

\* Bytes of an incomplete last word of the text, which getSegment drops.
Dropped(s) == { o \in Addr : TextWords(s) * kXLENInBytes <= o /\ o < Len(s.data) }

\* Bytes the fill's last word has beyond the segment's end.
Spilled(s) == { o \in Addr : s.memSize <= o /\ o < s.memSize + kXLENInBytes - 1
                             /\ Len(s.data) < s.memSize }

(* Segments of other sizes are not loaded faithfully, but what is wrong is  *)
(* confined: a byte that differs from the image lies in the incomplete last *)
(* word of some segment's text, or less than a word after some segment.     *)
DamageConfined ==
  phase = "loaded" =>
     \A a \in Addr : bytes[a] # Image[a] =>
        \E i \in Loadable :
           Offset(file.segments[i], a) \in Dropped(file.segments[i]) \union Spilled(file.segments[i])

\* From fileSize in steps of a word, memSize is reached before the wrap-around.
FillEnds(s) ==
  \E f \in Addr : /\ f >= s.memSize /\ f >= Len(s.data)
                  /\ (f - Len(s.data)) % kXLENInBytes = 0

(* The constructor returns or throws unless some segment is so large that   *)
(* the 32-bit fileSize wraps around before it reaches memSize: that fill    *)
(* never ends (hart.cc 84).                                                 *)
LoadingEnds ==
  (\A i \in Loadable : FillEnds(file.segments[i])) => <>(phase \in {"loaded", "failed"})
=============================================================================
