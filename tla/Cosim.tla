------------------------------- MODULE Cosim -------------------------------
(***************************************************************************)
(* Cosimulation: what the simulator logs of a run (cosimLog in executor.hh, *)
(* state.hh and memory.hh), and tools/cosim.py, which compares the logs of  *)
(* two simulators.  Both traces are read in step, one line each in a turn   *)
(* of Cosim.run, and what the comparer has kept of them so far must agree   *)
(* after every turn.  A line is its kind and its content; how it is spelled *)
(* is left out.                                                             *)
(***************************************************************************)
EXTENDS Integers, Sequences, SequencesExt

CONSTANTS
  None,     \* Python's None
  Runs,     \* runs of the simulator, as what each instruction did
  Traces    \* the traces there may be to compare

\* Lines of a trace: the preamble, NUM, PC, a register or memory access, or
\* anything else.
Kept  == {"NUM", "PC", "x", "M"}
Kinds == Kept \union {"preamble", "garbage"}

ASSUME TracesAssumption ==
  \A t \in Traces : /\ t \in Seq([kind : Kinds, val : UNION { {t[i].val} : i \in DOMAIN t }])

\* An instruction changes one register or one word of memory or neither; one
\* that threw has no pc after it, has changed nothing and is the last.
ASSUME RunsAssumption ==
  \A r \in Runs :
    /\ r \in Seq({ r[n] : n \in DOMAIN r })
    /\ \A n \in DOMAIN r :
         LET writes == r[n].writes
         IN  /\ \/ writes = <<>>
                \/ \E k \in {"x", "M"} : writes = <<[kind |-> k, val |-> writes[1].val]>>
             /\ r[n].pc = None => n = Len(r) /\ writes = <<>>

Sides == {"master", "slave"}

\* What errorMsg may be set to: the side said to have finished, or the number of
\* the instruction at which the states differ.
Messages ==
  [what : {"finished"}, who : Sides]
    \union [what : {"mismatch"}, num : {0} \union UNION { { t[i].val : i \in DOMAIN t } : t \in Traces }]

ASSUME NoneAssumption == None \notin Messages

VARIABLES
  trace,      \* the two files
  read,       \* lines read of each, the stream's position
  state,      \* State.currentInstrCount, PC, lastChangedReg.. and lastChangedMem..
  EOF,        \* State.EOF
  isSame,     \* Cosim.isSame
  errorMsg,   \* Cosim.errorMsg, or the exception that ended the program
  phase       \* "open", "run", "done" or "raised"

vars == <<trace, read, state, EOF, isSame, errorMsg, phase>>

\* What State.__init__ sets the fields to.
Fresh == [k \in Kept |-> IF k \in {"NUM", "PC"} THEN 0 ELSE None]

Init == /\ trace \in [Sides -> Traces]
        /\ read = [s \in Sides |-> 0]
        /\ state = [s \in Sides |-> Fresh]
        /\ EOF = [s \in Sides |-> FALSE]
        /\ isSame = TRUE /\ errorMsg = None /\ phase = "open"

-----------------------------------------------------------------------------
\* What cosimLog writes of the n-th instruction executed: the preamble and NUM
\* before it, the register or word of memory it changed, and PC after it.  The
\* pc of an instruction that threw is None, and it has changed nothing.
InstLines(n, inst) ==
  <<[kind |-> "preamble", val |-> None], [kind |-> "NUM", val |-> n]>>
    \o inst.writes
    \o IF inst.pc = None THEN <<>> ELSE <<[kind |-> "PC", val |-> inst.pc]>>

Log(run) == FlattenSeq([n \in DOMAIN run |-> InstLines(n, run[n])])

-----------------------------------------------------------------------------
\* State.__init__ accepts the file: its first line is a preamble.
Opens(s) == trace[s] # <<>> /\ trace[s][1].kind = "preamble"

Raise == /\ phase' = "raised"
         /\ UNCHANGED <<trace, read, state, EOF, isSame, errorMsg>>

\* Cosim.__init__ opens both.
Open ==
  /\ phase = "open"
  /\ \A s \in Sides : Opens(s)
  /\ read' = [s \in Sides |-> 1]
  /\ phase' = "run"
  /\ UNCHANGED <<trace, state, EOF, isSame, errorMsg>>

OpenRaised ==
  /\ phase = "open"
  /\ \E s \in Sides : ~ Opens(s)
  /\ Raise

-----------------------------------------------------------------------------
\* Mistake: the loop looks at isSame only.
RunningWhileSame == phase = "run" /\ isSame

\* Cosim.run goes on.
Running == phase = "run" /\ isSame /\ \E s \in Sides : ~ EOF[s]

\* The line State.update reads of s next, if there is one to be read.
HasLine(s) == ~ EOF[s] /\ read[s] < Len(trace[s])
Line(s) == trace[s][read[s] + 1]

\* State.update raises on it.
Unreadable(s) == HasLine(s) /\ Line(s).kind = "garbage"

\* Mistakes: a line counts only if nothing of its kind has been seen; registers
\* are filed under memory.
UpdatedOnce(s) ==
  IF HasLine(s) /\ Line(s).kind \in Kept /\ state[s][Line(s).kind] = Fresh[Line(s).kind]
  THEN [state[s] EXCEPT ![Line(s).kind] = Line(s).val]
  ELSE state[s]
UpdatedMisfiled(s) ==
  IF HasLine(s) /\ Line(s).kind \in Kept
  THEN [state[s] EXCEPT ![IF Line(s).kind = "x" THEN "M" ELSE Line(s).kind] = Line(s).val]
  ELSE state[s]

\* State.update: every branch of its loop breaks, so one call reads one line.
Updated(s) ==
  IF HasLine(s) /\ Line(s).kind \in Kept
  THEN [state[s] EXCEPT ![Line(s).kind] = Line(s).val]
  ELSE state[s]

\* Mistakes: PC is not compared; the wrong side is said to have finished.
VerdictWithoutPC(st, eof) ==
  IF st["master"]["NUM"] # st["slave"]["NUM"]
  THEN [what |-> "finished", who |-> IF eof["master"] THEN "master" ELSE "slave"]
  ELSE IF \E k \in {"x", "M"} : st["master"][k] # st["slave"][k]
  THEN [what |-> "mismatch", num |-> st["master"]["NUM"]]
  ELSE None
VerdictWrongSide(st, eof) ==
  IF st["master"]["NUM"] # st["slave"]["NUM"]
  THEN [what |-> "finished", who |-> IF eof["slave"] THEN "master" ELSE "slave"]
  ELSE IF st["master"] # st["slave"]
  THEN [what |-> "mismatch", num |-> st["master"]["NUM"]]
  ELSE None

\* Cosim.__compare after both updates: the message it leaves, if any.
Verdict(st, eof) ==
  IF st["master"]["NUM"] # st["slave"]["NUM"]
  THEN [what |-> "finished", who |-> IF eof["master"] THEN "master" ELSE "slave"]
  ELSE IF st["master"] # st["slave"]
  THEN [what |-> "mismatch", num |-> st["master"]["NUM"]]
  ELSE None

\* A turn of Cosim.run's loop.
Turn ==
  /\ Running
  /\ \A s \in Sides : ~ Unreadable(s)
  /\ read' = [s \in Sides |-> read[s] + (IF HasLine(s) THEN 1 ELSE 0)]
  /\ state' = [s \in Sides |-> Updated(s)]
  /\ EOF' = [s \in Sides |-> EOF[s] \/ ~ HasLine(s)]
  /\ errorMsg' = Verdict(state', EOF')
  /\ isSame' = (errorMsg' = None)
  /\ UNCHANGED <<trace, phase>>

TurnRaised ==
  /\ Running
  /\ \E s \in Sides : Unreadable(s)
  /\ Raise

\* dumpResults: success if there is no message.
DumpResults ==
  /\ phase = "run" /\ ~ Running
  /\ phase' = "done"
  /\ UNCHANGED <<trace, read, state, EOF, isSame, errorMsg>>

Next == Open \/ OpenRaised \/ Turn \/ TurnRaised \/ DumpResults

Spec == Init /\ [][Next]_vars

\* The comparer is one thread that keeps running until it returns or raises.
FairSpec == Spec /\ WF_vars(Next)
-----------------------------------------------------------------------------
TypeOK ==
  /\ trace \in [Sides -> Traces]
  /\ \A s \in Sides : read[s] \in 0 .. Len(trace[s])
  /\ \A s \in Sides, k \in Kept :
       state[s][k] = Fresh[k] \/ \E i \in 1 .. read[s] : trace[s][i] = [kind |-> k, val |-> state[s][k]]
  /\ EOF \in [Sides -> BOOLEAN]
  /\ isSame \in BOOLEAN
  /\ errorMsg \in Messages \union {None}
  /\ isSame <=> errorMsg = None
  /\ phase \in {"open", "run", "done", "raised"}

\* What the first n lines of trace t said last of k.
Latest(t, n, k) ==
  LET said == { i \in DOMAIN t : i <= n /\ t[i].kind = k }
  IN  IF said = {} THEN Fresh[k]
      ELSE t[CHOOSE i \in said : \A j \in said : j <= i].val

Agree(t, u) ==
  \A n \in 1 .. Len(t) + Len(u), k \in Kept : Latest(t, n, k) = Latest(u, n, k)

(* The comparison succeeds exactly if, line by line, the traces leave the   *)
(* same last NUM, PC, register and memory access, the shorter trace being   *)
(* held at its end: two traces that only order the lines of an instruction  *)
(* differently fail, a line that repeats what was said last can hide at     *)
(* the end.                                                                 *)
VerdictIsAgreement ==
  phase = "done" => (isSame <=> Agree(trace["master"], trace["slave"]))

\* Runs in which every instruction changes the pc the comparer has last seen.
Moving(run) ==
  \A n \in DOMAIN run : run[n].pc # (IF n = 1 THEN Fresh["PC"] ELSE run[n - 1].pc)

Logs == { Log(run) : run \in { r \in Runs : Moving(r) } }

\* The i-th lines say the same, or one accesses a register, the other memory,
\* and each only repeats the last such access of its trace.
Repeats(t, i) == t[i].val = Latest(t, i - 1, t[i].kind)
SameLine(t, u, i) ==
  \/ t[i] = u[i]
  \/ {t[i].kind, u[i].kind} = {"x", "M"} /\ Repeats(t, i) /\ Repeats(u, i)
SameTo(t, u, n) == n <= Len(t) /\ n <= Len(u) /\ \A i \in 1 .. n : SameLine(t, u, i)
SameRun(t, u) == Len(t) = Len(u) /\ SameTo(t, u, Len(t))

(* Of two runs of simulators that log like this one, in which no            *)
(* instruction jumps to itself, the comparison succeeds exactly if they are *)
(* the same, but for one thing it cannot see: a register written with the   *)
(* value logged last against a word of memory written so.                   *)
SuccessMeansSameRun ==
  phase = "done" /\ (\A s \in Sides : trace[s] \in Logs) =>
     (isSame <=> SameRun(trace["master"], trace["slave"]))

(* For such runs the message is right: the trace said to have finished is   *)
(* where the other goes on, and a mismatch is reported at the first         *)
(* instruction in which the runs differ: they are the same as far as its    *)
(* NUM and perhaps what it accesses, and not to its end.                    *)
DiagnosisIsRight ==
  errorMsg # None /\ (\A s \in Sides : trace[s] \in Logs) =>
     LET t == trace["master"]
         u == trace["slave"]
     IN  CASE errorMsg.what = "finished" ->
                /\ \A s \in Sides : EOF[s] <=> s = errorMsg.who
                /\ SameTo(t, u, Len(trace[errorMsg.who]))
           [] errorMsg.what = "mismatch" ->
                \E i \in 1 .. read["master"] :
                   /\ t[i] = [kind |-> "NUM", val |-> errorMsg.num]
                   /\ SameTo(t, u, i) /\ ~ SameRun(t, u)
                   /\ \A j \in i + 1 .. Len(t) : SameTo(t, u, j) => t[j].kind \in {"x", "M"}

(* cosim.py 90-92: a trace that the message says has finished has finished. *)
FinishedTraceHasEnded ==
  errorMsg # None /\ errorMsg.what = "finished" => EOF[errorMsg.who]

(* The comparison ends: every turn reads a line or finds an end of file.    *)
ComparisonEnds == <>(phase \in {"done", "raised"})
=============================================================================
