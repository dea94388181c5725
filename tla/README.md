# A verification of the sim2022 RISC-V simulator

sim2022 is a single-threaded functional simulator of RV32 in C++20. It loads an
ELF file into a simulated memory, cuts the code into basic blocks, keeps decoded
blocks in a cache, and executes them one instruction at a time until an `ecall`.
This directory holds TLA+ models of it, TLC configurations that check them on
small instances, and TLAPS proofs about them.

Contents: [inventory](#the-system-an-inventory), [modules](#the-modules),
[runs](#the-runs), [differences found](#where-code-and-documents-disagree),
[proofs](#the-proofs), [not modelled](#not-modelled), [plan](#plan).

## The system: an inventory

| Component | State | Operations | Interacts with | What makes it correct |
|---|---|---|---|---|
| Memory (`memory.hh`, `memory.cc`) | page table (`unordered_map`, page number to `Page`), TLB slots with raw pointers to pages, counters | `loadEntity`, `storeEntity`, `storeRange` | called by Hart (fetch, loading) and LW/SW; throws to them | it is a flat byte store; no stale TLB pointer; counters add up |
| Basic-block caches (`hart.cc` 13-64) | LRU: list and hash of iterators; Inf: map; No: one static block | `lookupUpdate(key, slowGetData)` | called by `Hart::run`, calls back `createBB`, which may throw | list and hash agree; capacity; the order of use; a block belongs to its key |
| Hart (`hart.cc` 66-128) | `State` (pc, npc, branchIsTaken, complete, registers, memory), the cache `--bbc-size` asks for | constructor, `run`, `createBB` | everything | execution by blocks is execution by instructions |
| Executor (`executor.hh`, `executor.cc`) | `instrCount` | `execute` of a block and of an instruction; one handler per mnemonic | `State` | each handler is the manual's instruction |
| Registers and CSRs (`state.hh`, `counters.hh`) | 32 registers, 4096 CSRs | `get`, `set`, `updateTimers` (no caller) | handlers | x0 is zero; indices in range |
| Bit operations (`common.hh`) | none | `getBits`, `setBit`, `signExtend`, `signCast` | decoder, handlers, memory | every width and every sign |
| Decoder generator (`decoder.py`) | none | three ways to generate `Decoder::decode` from the opcode table | `createBB` | immediates, register fields, shift amounts, whichever generator |
| ELF loader and loading (`elfloader.cc`, `hart.cc` 74-88) | the parsed file; the segment, the word and the running `fileSize` | `check`, segment and entry getters; the segment loop, `storeRange`, the zero fill | Memory, pc | memory holds the image the program headers describe, or the constructor throws |
| Cosimulation (`cosim.py`; the log lines of the simulator) | two traces, two `State`s, verdict | `State.update`, `Cosim.run`, `__compare`, `dumpResults` | reads what `cosimLog` wrote | success exactly if the runs are the same; a message that is right |
| Command line (`main.cc`) | options | run, statistics, report exceptions | Hart | the printed numbers |

Nothing runs concurrently and nothing survives the process. What is hard to
test here: long sequences of legal calls (TLB and LRU list keep pointers into
structures that change), exceptions that leave an operation half way (a block
that fails to decode after the cache has evicted another; a hash that has no
storage for a node the list already has; a store refused in the middle of a
segment), stale copies (decoded
blocks of code that has been overwritten, TLB slots of pages that were displaced
and come back), loops without a bound of their own (`createBB`, the zero fill), a comparison
that keeps only what each trace said last, and widths, signs and field
conventions that decoder and handlers share but no test exercises together.
`PROJECT.json` lists these hazards at their lines with the properties for each.

## The modules

    MemGeometry <- FlatMemory            (what Memory promises)
                <- SimMemory             (implements FlatMemory)   <- MCSimMemory
    FlatMemory  <- Loader                (loading, on that memory) <- MCLoader
    BlockCache                           (what run asks of a cache)
                <- LRUCache              (implements BlockCache)   <- MCLRUCache
    HartGeometry <- ISA                  (instruction-at-a-time execution)
                 <- Hart                 (implements ISA)          <- MCHart
    Powers      <- Words <- Decoder                                <- MCDecoder
                         <- Executor     (implements RVMachine)    <- MCExecutor
                <- RVMachine             (the manual's machine, on numbers)
    Cosim                                (traces and their comparison) <- MCCosim

The proofs are in `SimMemoryProofs`, `LRUCacheProofs`, `HartProofs`,
`WordsProofs`, `DecoderProofs`, `ExecutorProofs`, `LoaderProofs` and
`CosimProofs`. An operator marked "Mistake" or "(mutant)" is a plausible bug:
with it in place of the definition that follows it, a named property must fail
(`PROJECT.json`, "mutants").

**SimMemory.** `pageTable` is the `unordered_map`, a `Frame` the heap place of
one `Page`, `tlb` the vector of slots with their pointers. A step is one call of
`loadEntity<T>` or `storeEntity<T>` with everything `getEntity` does in it:
alignment guard, counted TLB lookup, page-table walk, page creation, TLB update,
the access. Faulting calls are steps too: misaligned, unmapped load, host out
of memory while a store makes a page. The frames' initial contents are
arbitrary, so a page that is not cleared is visible. The abstract `FlatMemory`
has only the bytes and the set of pages that exist.

**Loader.** `file` is what ELFIO has parsed: flaws it can be turned away for,
entry point, segments with their text and sizes. The program's stores are those
of `FlatMemory`, which `SimMemory` implements, so the two modules compose:
either store may be refused (misaligned, or the host has no memory for a page),
and that ends the constructor. A step is one word stored by `storeRange` or by
the zero fill; `TextWords` is the division in `getSegment` that drops an
incomplete last word; all sums are those of a 32-bit `Addr`. `Image` is what the
program headers say memory should be.

**LRUCache.** The list is a sequence of nodes; `hash_` maps keys to nodes as the
code maps them to iterators; a freed node holds junk and can be handed out
again. `MissThrew` is `slowGetData` (or the list) throwing after the eviction,
`MissUnhashed` is `hash_.emplace` throwing after the list has taken the block: a
node the hash does not know. `main` ends the program after either exception, so
what calls after a failure find is a question about the class, which promises
nothing less. `uses` is a history of successful look-ups, `lost` records that a
node has been lost. `BlockCache` says what `run` relies on: the block kept for
the key or a new one; any block may be forgotten on a miss.

**Hart.** One step is one turn of a loop of `run`, `createBB` or the executor's
`for_each`. Instructions are reduced to their kind and offset, the addresses
that loads, stores and indirect jumps use are any address: registers are in
`Executor`. `bbCacheSize` is chosen once, from the values a run allows, as the
command line chooses it; `MadeRoom` and `Keep` are the three caches (the LRU one
as `BlockCache`, which block is evicted is left open). `held` and `retired` are
history. `ISA` fetches, executes and advances one instruction at a time, with
two liberties that the simulator really takes: a fetch may return any word the
address has held since the start (nothing invalidates decoded blocks), and the
run may be given up before a straight line whose end cannot be decoded has run
(blocks are decoded whole).

**Cosim.** `Log` is the order in which the simulator writes a run to its trace:
preamble and NUM before an instruction, the register or the word of memory it
changed, PC after it, nothing after NUM if it threw. The rest is `cosim.py`: a
`Turn` reads at most one line of each trace (every branch of `State.update`
breaks out of its loop) and compares what was last said of NUM, PC, register
and memory. A line is its kind and its value. `SameRun` is equality of two logs
line by line, except that a line for a register and one for a word of memory
also pass for the same if each repeats the last such access of its trace: the
comparer keeps what it kept.

**Words, Decoder.** A word is the set of the positions of its one bits, so the
operators have one definition for every width; `getBits`, `setBit` and
`signExtend` are translated step by step. `Decoder` takes the opcode table as a
parameter, because it comes from riscv-opcodes, a submodule that is not part of
the repository; from it come the field dictionaries, the immediate assembled
from its pieces and sign-extended from the highest bit a piece reaches, and the
look-up: an `if` per entry in table order (`gen_ifs`), or mask by mask, each
asked for the bits of the word under it (`gen_switches`, `gen_maps`). `generator`
is the one the build chose. That a field is in one of the dictionaries
(`FieldsAssumption`) is what `gen_fill_inst` raises `ValueError` for; without it
there is no decoder. A step decodes one word. `Val` is the number a word stands for, the sum of
`Powers`' `Pow2` at its positions: a recursive function, because the provers know
no recurrence of `^`.

**Executor, RVMachine.** A step is one instruction: its handler and the pc
update of `Executor::execute`, on registers, csrs, memory and pc. `Decoded` is
how the decoder delivers the fields (an already shifted U-immediate, a
sign-extended shift amount, `zimm` in `imm`). `npc` and `branchIsTaken` live
only within such a step and are in `Hart`. `RVMachine` is written from the manual in
`docs/spec` on integers: what must be computed, not how. Shifts by XLEN or more
are undefined in C++ and are a nondeterministic choice (`Amounts`). A store that
needs a new page may throw for want of host memory (`AccessThrows`); to the
manual's machine that is an environment that has no memory there.

## The runs

Deadlock is not checked where the system stops: a program that has ended or
thrown, or a bound reached. `LRUCache` has no bound and deadlock is checked.

| Run | Shows | Bounds, and why they are enough |
|---|---|---|
| `memory` | `TLBCoherent`, `PagesDisjoint`, `StatsAccountForPages`, `LastPageCached`, `PagesStay`, and that SimMemory implements FlatMemory | 3 pages of 2 bytes on 2 TLB slots: two pages displace each other, a third does not; accesses of 1 and 2 bytes cover aligned, misaligned and straddling; 4 calls are enough to make two pages, return to the displaced one and hit it. The frames are symmetric. |
| `lru` | `HashMatchesList`, `CapacityRespected`, `KeepsMostRecentlyUsed`, `FailureCostsOneBlock`, `RecentlyUsedHits`, `BlockCache` implemented | 4 keys, 3 blocks in the cache, a spare node; no bound on the calls. Hits at front, middle and back, evictions, repeated failures of either kind, a key twice on the list and its eviction all occur. |
| `hart` | `BlocksEndInBranch`, `PCFollowsBlock`, `NothingAfterComplete`, ISA implemented | every 4-word program (2 pages, mapped or not) of 5 kinds of words from every entry address, misaligned ones included, a cache of 2 blocks, 7 instructions: loops, evicted blocks and blocks that overlap |
| `hart_selfmod` | `BlocksFromMemory`, `FreshWithoutCache`, `CreationEnds`, `EcallEndsRun`, ISA implemented | the same with stores of instructions anywhere, with the unbounded cache and with none, 4 instructions: enough to overwrite a block, leave it and enter it again |
| `hart_count` | violation: `InstrCountIsRetired` | see below |
| `loader` | `ImageLoaded`, `DamageConfined`, `LoadingEnds` | 3 pages of 4 bytes, words of 2; no segment, one or two of up to three bytes of text (no word, one, one and a half), memory sizes from nothing to a byte less than the address space: overlaps, segments out of order, misaligned ones, fills that run into the next segment, past the end of the address space and round it; every set of flaws; any store refused |
| `cosim` | `VerdictIsAgreement`, `SuccessMeansSameRun`, `DiagnosisIsRight`, `ComparisonEnds` | all pairs of traces of runs of at most two completed instructions and one that throws, each writing one of two values to a register or one to memory or nothing and going to one of two addresses; of runs of three instructions, where the third may repeat what the first wrote to a register or the second to memory; and one trace numbered from zero or with any line lost, doubled or spoilt. What the comparer remembers is one line of each kind: two instructions reach every state of it, the third one is what it takes for an access to repeat an earlier one of its kind after one of the other kind. |
| `cosim_finished` | violation: `FinishedTraceHasEnded` | see below |
| `decoder` | `ImmediatesAreTheManuals`, `ShiftAmountSurvives`, register fields in range | the real width, 32; each of the three generators; 11 encodings with every immediate format; words up to 3 bit flips from an encoding, so that every bit alone and with every other is seen. Decoding keeps no state: more calls only reach more words. |
| `executor` | Executor implements RVMachine; `PCStaysEven`; x0 is zero | 4-bit words, so that ADDI takes the registers through every value, sums wrap and all signs meet; x0, x1 and x2 as operands, rd coinciding with rs1, with rs2, with both and with neither; pages of 2 words, one of the two mapped. The 12 of LUI and the 5 bits of a shift amount scale to 2 and 2. Six mixes of instructions, one per behaviour (`mix`), because together they have too many states. |
| `exec_upper`, `exec_less` | violation: `RVSpec` | see below |

`MaxBlock` in Hart is larger than the address space, so no block of a program
with a stopper is cut; `MaxInstr`, `MaxCalls` bound counters that are 64 bits
wide in the code.

**Fairness.** `CreationEnds`, `EcallEndsRun`, `LoadingEnds` and `ComparisonEnds`
are checked under `WF_vars(Next)`: simulator and comparer are each one thread
that goes on until it returns or throws, so some enabled step is always taken.
Nothing else is assumed fair, and no other property needs it. `CreationEnds`
and `LoadingEnds` have the premise the code needs: some word stops the block,
and no segment is so large that the fill wraps around.

**RVSpec and Deviating.** `RVSpec` compares every step of the executor with
`RVMachine` except for the instructions in `Deviating`. In the run `executor`
these are the handlers that are known to differ (next section) and
register-amount shifts by more than a word, which C++ leaves undefined; the two
violation runs take one group out of that set. They show the difference; the run
`executor` shows that there is no other in the mixes it covers.

## Where code and documents disagree

* `hart_count`: `instrCount` starts at one, it numbers the trace, and `main`
  prints it as the number of instructions.
* `exec_upper`: decoder and executor both shift the U-immediate (LUI, AUIPC). The
  tests of each side pass because each uses its own convention.
* `exec_less`: BLT compares unsigned; BLTU branches on greater.
* `cosim_finished`: `__compare` reports that a trace has finished whenever the
  instruction numbers differ, and names the slave unless the master is at its
  end. For traces numbered from different starts neither has finished. For
  traces this simulator writes the message is right (`DiagnosisIsRight`).
* Of traces this simulator writes one difference goes unseen, which is why
  `SuccessMeansSameRun` says `SameRun` and not equal: after an instruction that
  wrote 5 to x5 and one that stored 5 at some address, a third that writes 5 to
  x5 again and a third that stores 5 there again leave the same `State` line by
  line. The runs of three instructions in `cosim` hold such pairs.
* Loading, shown by the premises `ImageLoaded` and `LoadingEnds` need: a file
  size that is not a multiple of four loses its last bytes (`getSegment`), a
  segment whose address is not (the one at 0x110b1 in
  `test/unit/elfloader/elfloader.cc` 171) makes the first store throw, and a
  segment whose memory size is within a word of 2^32 is filled for ever.
* Of the same kind, without a run of their own; `Deviating <- MCButZimm`,
  `MCButClear` or `MCButDivide` in `MCExecutorUpper.cfg` shows each of them:
  CSRRWI, CSRRSI, CSRRCI read their operand from `inst.rs1`, where the decoder
  never puts it (`executor.cc` 219, 226, 233; `decoder.py` 124); CSRRC writes
  `rs1 & ~csr` (214) where the manual clears the bits of rs1 in the csr; DIV is
  unsigned and throws on zero (56-62) where the manual divides signed and gives
  all ones.

## The proofs

Proved by TLAPS for every value of the constants:

* `AlignedNeverStraddles`: if the access sizes divide the page size, an aligned
  access lies in one page, so the second half of `getEntity`'s guard never
  decides.
* `TypeCorrect`, `TLBAlwaysCoherent`, `PagesNeverShared`, `MemoryIsFlat`: any
  number of pages, TLB slots, frames and calls. The invariant is `MemInv ==
  TypeOK /\ TLBCoherent /\ PagesDisjoint`. Coherence alone is not enough for the
  refinement: that a store changes one page only needs that pages do not share
  a frame, and that the page reached through the TLB is the page table's needs
  coherence. The refinement then goes step by step: a load or a refused call
  leaves `FlatBytes` alone, a store through any of the three ways to a page
  overwrites exactly the entity's bytes.
* `LastPageAlwaysCached`, `PagesAlwaysStay` follow step by step from that
  invariant. `StatsAlwaysAccount` counts: valid slots inject into the existing
  pages, and a page comes into existence only after a counted miss.
* `ListAndHashAgree`, `LRUTypeCorrect`, `CapacityAlwaysRespected`,
  `MostRecentlyUsedKept`, `LRUIsABlockCache`: any number of keys, nodes and
  blocks, every size, every sequence of calls and failures. The invariant
  `LRUInv` adds to the properties that what is on the list is live and that
  `uses` repeats no key, without which "moved to the front" on the list and on
  the history would not be the same thing. What a call leaves kept
  (`KeptAfterMiss`) is then a step of BlockCache.
* `FailuresCostOneBlock`, `RecentlyUsedAlwaysHit`: `UseInv` adds to `LRUInv`
  that every key known to the list has been used and the bound itself, which is
  inductive only together with `CapacityRespected`.
* `HartTypeCorrect`, `BlocksAlwaysEndInBranch`, `PCAlwaysFollowsBlock`,
  `BlocksAlwaysFromMemory`, `AlwaysFreshWithoutCache`,
  `NothingRunsAfterComplete`, `HartIsUnblockedMachine`: every program, address
  space, decoder and cache size, with no bound on blocks or instructions (the
  bounds only appear in guards). `HartInv` adds what the loops rely on: while
  `createBB` runs, the block is a branch-free prefix of what is in memory
  (`Creating`), `branchIsTaken` is false between instructions, and a complete
  run is not inside a block. Sums of addresses are handled by `PlusOfPlus`
  (advancing pc step by step is advancing it at once, modulo the address
  space), and that a block given up is shorter than the address space by
  `PlusRound`: a round earlier it would have met the same word.
* `SignExtendCopiesTheSign`: clear, flip and subtract is sign extension, for
  every width; the borrow of the subtraction runs exactly from the old sign bit
  upwards if that bit was set.
* `ImmediatesAlwaysManual`: for every opcode table and every 32-bit word the
  decoded immediate is the manual's. It rests on `ImmediatesCorrect`, a case per
  format, which uses `SignExtendCopiesTheSign`; the invariant `DecodedInv` says
  only that `inst` is what was decoded from `binInst`.
* `ShiftAmountsAlwaysSurvive`, `DecoderTypeCorrect`: from the same invariant; a
  sign-extended shift amount keeps its low five bits, and a field taken to the
  low bits is no wider than its place in the word. Both, like the theorem on
  immediates, hold for each generator and for tables in which encodings overlap:
  `LookupUnique` shows that any look-up ends at one entry. `TableAssumption` (a
  match has no bit outside its mask) is a property of riscv-opcodes; TLC checks
  it on the table of the run.
* `ExecutorTypeCorrect`, `PCAlwaysEven`: every program, width and register
  file. The second needs `EvenAssumption`: the entry point is even, and branch
  and jump offsets have no bit 0, which `ImmediatesCorrect` gives for bimm12 and
  jimm20. Its induction carries `TypeOK`, because "no carry into bit 0" needs
  operands without negative positions.

* `LoaderTypeCorrect`, `ImageAlwaysLoaded`: every file, address space and word
  size, whichever stores are refused. `LoaderInv` says that memory is `Loaded`
  of `Stored`: the image of the segments that are done and of as many bytes of
  the current one as have been stored. A word stored at `InSegment(s, e)` is
  bytes e, e + 1, ... of the segment and of no place else (`StoredBytes`),
  although both wrap around the address space, because a store that is accepted
  is aligned and words divide the address space. With whole words the fill meets
  `memSize` exactly and never wraps (`RoomForOne`).
* `DamageAlwaysConfined`: segments of any size. The difficult case is a fill
  that passes the end of the address space and comes back over the segment's
  text. `DamageInv` carries that `fileSize` stays in step with the text's size
  (`WrapInStep`), so that a fill that could end has ended before the wrap-around
  (`RoomToFill`), and one that could not is still running; where the constructor
  returns every fill has been of the first kind, and only the places `Hurt`
  names differ.
* `ValPlus`, `ValMinus`, `LessIs`, `LessSignedIs`, `ValShiftLeft`,
  `ValShiftRight`, `ValShiftRightSigned`: what the operators on words, defined
  bit by bit with carries and borrows, compute of the numbers the words stand
  for, modulo 2^XLEN, for every width. Each is an induction over the bit
  positions. The library's induction theorems take an operator, but a set of
  numbers does as well: `SetInduction` gets from `WFMin` that a subset of Nat
  with 0 and closed under successor is Nat, and an induction is that the set of
  the positions where the claim holds is one (for `ValPlus`: the sums of the
  lower bits of a and b are those of the result, plus the carry).
* `ExecutorImplementsManual`: every width, register file, memory and program.
  It goes handler by handler (`RegisterOps` to `CallsAndTraps`) on
  those lemmas, on what the decoder delivers (`DecodedFields`) and, for loads
  and stores, on the pages of words being those of their numbers. Its two
  hypotheses are what is known to differ: no compared instruction is of the
  `DifferentOps` (the handlers under "Where code and documents disagree"), and a
  compared SLL, SRL or SRA shifts by less than XLEN (`AmountsInRange`), above
  which C++ leaves the shift undefined. All but the mix `MCOthers` of the run
  `executor` satisfy both throughout, `MCOthers` puts all it has of these in
  `Deviating`.
* `CosimTypeCorrect`, `VerdictIsAlwaysAgreement`: every pair of traces, damaged
  ones included. `CosimInv` says that `state` is `Latest` of the lines read,
  that both traces are read as far as `Frontier`, or to their ends, and that they
  agree up to it, or that the states differ if `isSame` has fallen. It rests on
  `NoneAssumption`: a message is not Python's None.
* `SuccessAlwaysMeansSameRun`, `DiagnosisIsAlwaysRight`: the logs of any two
  runs in which every instruction moves the pc (`Moving`), of any length. What
  a run is comes from `RunsAssumption`: an instruction logs at most one access,
  and one that threw logs neither access nor pc and is the last. `LogShape`
  shows that a log, a concatenation over the run (`FlattenIs`), keeps to the
  order preamble, NUM, access, PC, numbers the instructions one by one and gives
  a new pc each time. Two such logs that have said the same up to a line
  (`PrefixAll`) are the same up to it, unless one has ended and the other has
  just begun something that is not compared (`Short`), and that cannot last
  (`NotShort`): the next line would be a new NUM or PC. At the first difference
  the numbers differ exactly if one log outlasts the other, and otherwise the
  number is the first differing instruction's (`FirstDifference`). Only a `Turn`
  sets a message, so `CosimInv` is enough for the induction.

Only model-checked: the liveness properties `CreationEnds`, `EcallEndsRun`,
`LoadingEnds` and `ComparisonEnds` (fairness is out of the prover's reach).
`SetInduction` and `BoundedInduction` stand in both `WordsProofs` and
`CosimProofs`, which have no other module in common.

## Not modelled

* `tlbFlush` and `updateTimers` with its latency table have no caller; nor do
  the getters of a section by name, `signAdd` and `setBit<pos, true>` outside
  the tests.
* What ELFIO, CLI11, spdlog and PyYAML do; formatting of traces and
  disassembly; wall-clock timing; the generated `OpType` enum.
* The opcode table: only what `decoder.py` does with one. That the three
  generators decode every word alike is not claimed: it is so for a table
  without overlapping encodings, and the table is not part of the repository.
* Shifts by XLEN or more have no property: they are undefined in C++, and the
  model chooses between what builds do.

## Plan

Every part of the program that decides anything is modelled: memory, block
caches, Hart, decoder, executor, loading, cosimulation, and every safety
property, action property and refinement that a run checks is proved. What
could still be said for every value of the constants:

- the composition of the proved parts: that what the decoder delivers is what
  `Decoded` in the executor assumes is shown field by field (`ImmediatesCorrect`,
  `ShiftAmountsAlwaysSurvive`), not as one theorem over both modules;
- multiplication: `MUL` and `DIV` are defined through `Val` and `ToWord`, there
  is no bit-level algorithm to verify.

Code that is worth modelling only once it does more is under "Not modelled".
