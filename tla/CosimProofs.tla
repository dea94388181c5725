----------------------------- MODULE CosimProofs -----------------------------
(***************************************************************************)
(* The comparer's verdict is the agreement of the traces line by line, for *)
(* every pair of traces, well formed or not; and for the logs of runs that *)
(* move the pc, agreement line by line is that of the runs, and the message *)
(* names the instruction they part in.                                     *)
(***************************************************************************)
EXTENDS Cosim, TLAPS, WellFoundedInduction

\* How far the longer of the two readings has come.
Frontier == IF read["master"] < read["slave"] THEN read["slave"] ELSE read["master"]

\* Both traces are read in step, each as far as it goes.
InStep ==
  \A s \in Sides : /\ read[s] = Frontier \/ read[s] = Len(trace[s])
                   /\ EOF[s] => read[s] = Len(trace[s])

\* What is kept of a trace is what its lines said last.
KeepsLatest == \A s \in Sides : state[s] = [k \in Kept |-> Latest(trace[s], read[s], k)]

\* The two traces say the same up to line n.
AgreeTo(n) ==
  \A m \in 1 .. n, k \in Kept : Latest(trace["master"], m, k) = Latest(trace["slave"], m, k)

Typed == TypeOK /\ read \in [Sides -> Nat]

CosimInv ==
  /\ Typed
  /\ KeepsLatest
  /\ phase = "open" => /\ read = [s \in Sides |-> 0] /\ EOF = [s \in Sides |-> FALSE]
                       /\ isSame
  /\ phase \in {"run", "done"} =>
       /\ InStep /\ Frontier >= 1
       /\ isSame => AgreeTo(Frontier)
       /\ ~ isSame => state["master"] # state["slave"]
  /\ phase = "done" /\ isSame => \A s \in Sides : EOF[s]

-----------------------------------------------------------------------------
\* A trace is a sequence of lines of the kinds there are.
LEMMA TraceFacts ==
  ASSUME NEW t \in Traces
  PROVE  /\ Len(t) \in Nat /\ DOMAIN t = 1 .. Len(t)
         /\ \A i \in DOMAIN t : /\ t[i].kind \in Kinds
                               /\ t[i] = [kind |-> t[i].kind, val |-> t[i].val]
<1>1. t \in Seq([kind : Kinds, val : UNION { {t[i].val} : i \in DOMAIN t }])
  BY TracesAssumption
<1> DEFINE S == [kind : Kinds, val : UNION { {t[i].val} : i \in DOMAIN t }]
<1>2. \A x \in S : x.kind \in Kinds /\ x = [kind |-> x.kind, val |-> x.val]
  OBVIOUS
<1> HIDE DEF S
<1>3. t \in Seq(S)
  BY <1>1 DEF S
<1>4. Len(t) \in Nat /\ DOMAIN t = 1 .. Len(t) /\ \A i \in DOMAIN t : t[i] \in S
  BY <1>3
<1> QED BY <1>2, <1>4

\* The lines up to n that say something of k, and the last of them.
Said(t, n, k) == { i \in DOMAIN t : i <= n /\ t[i].kind = k }
LastOf(S) == CHOOSE i \in S : \A j \in S : j <= i

\* What was said last, by the name of the lines that say it.
LEMMA LatestIs ==
  ASSUME NEW t, NEW n, NEW k
  PROVE  Latest(t, n, k) = IF Said(t, n, k) = {} THEN Fresh[k] ELSE t[LastOf(Said(t, n, k))].val
BY DEF Latest, Said, LastOf

\* A sequence of some length.
Sized(t) == Len(t) \in Nat /\ DOMAIN t = 1 .. Len(t)

\* What is said last up to a line: by the line itself or before it.
LEMMA LatestNext ==
  ASSUME NEW t, Sized(t), NEW n \in Nat, n < Len(t), NEW k
  PROVE  Latest(t, n + 1, k) = IF t[n + 1].kind = k THEN t[n + 1].val ELSE Latest(t, n, k)
<1>1. Len(t) \in Nat /\ DOMAIN t = 1 .. Len(t)
  BY DEF Sized
<1>2. CASE t[n + 1].kind = k
  <2> DEFINE all == Said(t, n + 1, k)
  <2>1. n + 1 \in all /\ all \subseteq Nat /\ \A j \in all : j <= n + 1
    BY <1>1, <1>2 DEF Said
  <2> HIDE DEF all
  <2>2. \A i \in all : (\A j \in all : j <= i) <=> i = n + 1
    BY <2>1
  <2>3. LastOf(all) = n + 1
    BY <2>1, <2>2 DEF LastOf
  <2>4. Latest(t, n + 1, k) = IF all = {} THEN Fresh[k] ELSE t[LastOf(all)].val
    BY LatestIs DEF all
  <2> QED BY <1>2, <2>1, <2>3, <2>4
<1>3. CASE t[n + 1].kind # k
  <2>1. Said(t, n + 1, k) = Said(t, n, k)
    BY <1>1, <1>3 DEF Said
  <2> QED BY <1>3, <2>1, LatestIs
<1> QED BY <1>2, <1>3

\* Before the first line nothing has been said.
LEMMA LatestNone ==
  ASSUME NEW t, Sized(t), NEW k PROVE Latest(t, 0, k) = Fresh[k]
<1>1. { i \in DOMAIN t : i <= 0 /\ t[i].kind = k } = {}
  BY DEF Sized
<1> QED BY <1>1 DEF Latest

\* After its last line a trace says nothing new.
LEMMA Held ==
  ASSUME NEW t, Sized(t), NEW n \in Nat, n >= Len(t), NEW k
  PROVE  Latest(t, n, k) = Latest(t, Len(t), k)
<1>1. Said(t, n, k) = Said(t, Len(t), k)
  BY DEF Said, Sized
<1> QED BY <1>1, LatestIs

\* The same of the traces.
LEMMA LatestAtLine ==
  ASSUME NEW t \in Traces, NEW n \in Nat, n < Len(t), NEW k
  PROVE  Latest(t, n + 1, k) = IF t[n + 1].kind = k THEN t[n + 1].val ELSE Latest(t, n, k)
BY TraceFacts, LatestNext DEF Sized

\* After its last line a trace says nothing new.
LEMMA LatestAtEnd ==
  ASSUME NEW t \in Traces, NEW n \in Nat, n >= Len(t), NEW k
  PROVE  Latest(t, n, k) = Latest(t, Len(t), k)
BY TraceFacts, Held DEF Sized

\* Before the first line nothing has been said.
LEMMA LatestAtStart ==
  ASSUME NEW t \in Traces, NEW k \in Kept
  PROVE  Latest(t, 0, k) = Fresh[k]
BY TraceFacts, LatestNone DEF Sized

-----------------------------------------------------------------------------
\* Updating by the next line keeps the state what the lines read say last.
LEMMA UpdatedKeepsLatest ==
  ASSUME Typed, KeepsLatest, NEW s \in Sides, HasLine(s)
  PROVE  /\ Updated(s) = [k \in Kept |-> Latest(trace[s], read[s] + 1, k)]
         /\ \A k \in Kept : \/ Updated(s)[k] = state[s][k]
                             \/ Line(s) = [kind |-> k, val |-> Updated(s)[k]]
<1> DEFINE t == trace[s]  n == read[s]
<1>1. t \in Traces /\ n \in Nat /\ n < Len(t) /\ state[s] = [k \in Kept |-> Latest(t, n, k)]
  BY DEF Typed, TypeOK, KeepsLatest, HasLine
<1>2. t[n + 1] = Line(s) /\ Line(s) = [kind |-> Line(s).kind, val |-> Line(s).val]
  <2>1. n + 1 \in DOMAIN t
    BY <1>1, TraceFacts
  <2> QED BY <1>1, <2>1, TraceFacts DEF Line
<1> HIDE DEF t, n
<1>3. \A k \in Kept : Latest(t, n + 1, k) = IF Line(s).kind = k THEN Line(s).val ELSE Latest(t, n, k)
  BY <1>1, <1>2, LatestAtLine
<1>4. Updated(s) = [k \in Kept |-> IF Line(s).kind = k THEN Line(s).val ELSE state[s][k]]
  BY <1>1 DEF Updated
<1>5. Updated(s) = [k \in Kept |-> Latest(t, n + 1, k)]
  BY <1>1, <1>3, <1>4
<1> QED BY <1>2, <1>4, <1>5 DEF t, n

\* __compare leaves no message exactly if the states are the same.
Numbers == {0} \union UNION { { t[i].val : i \in DOMAIN t } : t \in Traces }

\* __compare is silent exactly if the states are equal, and its message is one
\* of those there are.
LEMMA VerdictIsEquality ==
  ASSUME NEW st, NEW eof, st["master"]["NUM"] \in Numbers
  PROVE  /\ Verdict(st, eof) \in Messages \union {None}
         /\ Verdict(st, eof) = None <=> st["master"] = st["slave"]
<1>1. CASE st["master"] = st["slave"]
  BY <1>1 DEF Verdict
<1>2. CASE st["master"]["NUM"] # st["slave"]["NUM"]
  <2>1. Verdict(st, eof) \in [what : {"finished"}, who : Sides]
    BY <1>2 DEF Verdict, Sides
  <2>2. Verdict(st, eof) \in Messages
    BY <2>1 DEF Messages
  <2> QED BY <1>2, <2>2, NoneAssumption
<1>3. CASE st["master"]["NUM"] = st["slave"]["NUM"] /\ st["master"] # st["slave"]
  <2>1. Verdict(st, eof) \in [what : {"mismatch"}, num : Numbers]
    BY <1>3 DEF Verdict
  <2>2. Verdict(st, eof) \in Messages
    BY <2>1 DEF Messages, Numbers
  <2> QED BY <1>3, <2>2, NoneAssumption
<1> QED BY <1>1, <1>2, <1>3

\* A number kept is 0 or that of a NUM line.
LEMMA NumberKept ==
  ASSUME NEW t \in Traces, NEW n \in Nat, n <= Len(t), NEW num,
         \/ num = Fresh["NUM"]
         \/ \E i \in 1 .. n : t[i] = [kind |-> "NUM", val |-> num]
  PROVE  num \in Numbers
<1>1. CASE num = Fresh["NUM"]
  BY <1>1 DEF Numbers, Fresh, Kept
<1>2. CASE \E i \in 1 .. n : t[i] = [kind |-> "NUM", val |-> num]
  <2>1. PICK i \in 1 .. n : t[i] = [kind |-> "NUM", val |-> num]
    BY <1>2
  <2>2. i \in DOMAIN t /\ t[i].val = num
    BY <2>1, TraceFacts
  <2>3. num \in { t[j].val : j \in DOMAIN t }
    BY <2>2
  <2> QED BY <2>3 DEF Numbers
<1> QED BY <1>1, <1>2

-----------------------------------------------------------------------------
\* A turn keeps the types and what is kept of the traces.
LEMMA TurnKeepsLatest ==
  ASSUME Typed, KeepsLatest, Turn
  PROVE  Typed' /\ KeepsLatest'
<1>1. /\ trace' = trace /\ phase' = phase
      /\ read' = [s \in Sides |-> read[s] + (IF HasLine(s) THEN 1 ELSE 0)]
      /\ state' = [s \in Sides |-> Updated(s)]
      /\ EOF' = [s \in Sides |-> EOF[s] \/ ~ HasLine(s)]
      /\ errorMsg' = Verdict(state', EOF') /\ isSame' = (errorMsg' = None)
  BY DEF Turn
<1>2. \A s \in Sides : read[s] \in Nat /\ trace[s] \in Traces /\ Len(trace[s]) \in Nat /\ read[s] <= Len(trace[s])
  BY TraceFacts DEF Typed, TypeOK
<1>3. \A s \in Sides : read'[s] \in Nat /\ read'[s] <= Len(trace[s]) /\ read[s] <= read'[s]
  BY <1>1, <1>2 DEF HasLine
<1>4. ASSUME NEW s \in Sides
      PROVE  /\ state'[s] = [k \in Kept |-> Latest(trace[s], read'[s], k)]
             /\ \A k \in Kept : \/ state'[s][k] = state[s][k]
                                 \/ /\ read'[s] \in 1 .. read'[s]
                                    /\ trace[s][read'[s]] = [kind |-> k, val |-> state'[s][k]]
  <2>1. CASE HasLine(s)
    <3>1. read'[s] = read[s] + 1 /\ state'[s] = Updated(s)
      BY <1>1, <2>1
    <3>2. read[s] + 1 \in 1 .. read[s] + 1
      BY <1>2
    <3> QED BY <2>1, <3>1, <3>2, UpdatedKeepsLatest DEF Line
  <2>2. CASE ~ HasLine(s)
    <3>1. read'[s] = read[s] /\ state'[s] = state[s]
      BY <1>1, <1>2, <2>2 DEF Updated
    <3> QED BY <3>1 DEF KeepsLatest
  <2> QED BY <2>1, <2>2
<1>5. KeepsLatest'
  BY <1>1, <1>4 DEF KeepsLatest
<1>6. ASSUME NEW s \in Sides, NEW k \in Kept
      PROVE  \/ state'[s][k] = Fresh[k]
             \/ \E i \in 1 .. read'[s] : trace[s][i] = [kind |-> k, val |-> state'[s][k]]
  <2>1. CASE state'[s][k] = state[s][k]
    <3>1. CASE state[s][k] = Fresh[k]
      BY <2>1, <3>1
    <3>2. CASE \E i \in 1 .. read[s] : trace[s][i] = [kind |-> k, val |-> state[s][k]]
      BY <1>2, <1>3, <2>1, <3>2
    <3> QED BY <3>1, <3>2 DEF Typed, TypeOK
  <2>2. CASE state'[s][k] # state[s][k]
    BY <1>4, <2>2
  <2> QED BY <2>1, <2>2
<1>7. errorMsg' \in Messages \union {None} /\ isSame' \in BOOLEAN /\ (isSame' <=> errorMsg' = None)
  <2>1. state'["master"]["NUM"] \in Numbers
    <3>1. "NUM" \in Kept /\ "master" \in Sides
      BY DEF Kept, Sides
    <3>2. /\ trace["master"] \in Traces /\ read'["master"] \in Nat
          /\ read'["master"] <= Len(trace["master"])
      BY <1>2, <1>3, <3>1
    <3> QED BY <1>6, <3>1, <3>2, NumberKept
  <2>2. Verdict(state', EOF') \in Messages \union {None}
    BY <2>1, VerdictIsEquality
  <2> QED BY <1>1, <2>2
<1>8. EOF' \in [Sides -> BOOLEAN] /\ read' \in [Sides -> Nat]
  BY <1>1, <1>3 DEF Typed, TypeOK
<1>9. \A s \in Sides : read'[s] \in 0 .. Len(trace'[s])
  BY <1>1, <1>2, <1>3
<1> QED BY <1>1, <1>5, <1>6, <1>7, <1>8, <1>9 DEF Typed, TypeOK

\* Where a trace is read to, it has said what it says at the front.
LEMMA FrontIsReached ==
  ASSUME NEW t \in Traces, NEW r \in Nat, NEW front \in Nat, r <= front,
         r = front \/ r = Len(t), NEW k
  PROVE  Latest(t, front, k) = Latest(t, r, k)
BY LatestAtEnd

\* A turn moves the front by a line while there is one.
LEMMA TurnInStep ==
  ASSUME Typed, InStep, Turn
  PROVE  InStep' /\ (Frontier' = Frontier \/ Frontier' = Frontier + 1)
<1>1. /\ trace' = trace
      /\ read' = [s \in Sides |-> read[s] + (IF HasLine(s) THEN 1 ELSE 0)]
      /\ EOF' = [s \in Sides |-> EOF[s] \/ ~ HasLine(s)]
  BY DEF Turn
<1>2. \A s \in Sides : read[s] \in Nat /\ Len(trace[s]) \in Nat /\ read[s] <= Len(trace[s])
  BY TraceFacts DEF Typed, TypeOK
<1>3. "master" \in Sides /\ "slave" \in Sides /\ Sides = {"master", "slave"}
  BY DEF Sides
<1>4. \A s \in Sides : HasLine(s) => read[s] = Frontier /\ read'[s] = Frontier + 1
  BY <1>1, <1>2 DEF InStep, HasLine
<1>5. \A s \in Sides : ~ HasLine(s) => read'[s] = read[s] /\ read[s] = Len(trace[s])
  BY <1>1, <1>2 DEF InStep, HasLine
<1>6. /\ Frontier = IF read["master"] < read["slave"] THEN read["slave"] ELSE read["master"]
      /\ Frontier' = IF read'["master"] < read'["slave"] THEN read'["slave"] ELSE read'["master"]
  BY DEF Frontier
<1>7. CASE \E s \in Sides : HasLine(s)
  <2>1. Frontier' = Frontier + 1
    BY <1>2, <1>3, <1>4, <1>5, <1>6, <1>7
  <2>2. ASSUME NEW s \in Sides
        PROVE  /\ read'[s] = Frontier' \/ read'[s] = Len(trace[s])
               /\ EOF'[s] => read'[s] = Len(trace[s])
    BY <1>1, <1>2, <1>4, <1>5, <2>1 DEF InStep, HasLine
  <2> QED BY <1>1, <2>1, <2>2 DEF InStep
<1>8. CASE \A s \in Sides : ~ HasLine(s)
  BY <1>1, <1>3, <1>5, <1>6, <1>8 DEF InStep
<1> QED BY <1>7, <1>8

\* A turn that leaves no message has read a line that agrees.
LEMMA TurnKeepsAgreement ==
  ASSUME Typed, KeepsLatest, InStep, Frontier >= 1, AgreeTo(Frontier), Turn
  PROVE  /\ InStep' /\ Frontier' >= 1
         /\ isSame' => AgreeTo(Frontier)'
         /\ ~ isSame' => state'["master"] # state'["slave"]
<1>1. Typed' /\ KeepsLatest' /\ InStep' /\ (Frontier' = Frontier \/ Frontier' = Frontier + 1) /\ trace' = trace
  BY TurnKeepsLatest, TurnInStep DEF Turn
<1>2. "master" \in Sides /\ "slave" \in Sides
  BY DEF Sides
<1>3. /\ Frontier \in Nat /\ Frontier' \in Nat
      /\ \A s \in Sides : /\ read'[s] \in Nat /\ read'[s] <= Frontier'
                          /\ read'[s] = Frontier' \/ read'[s] = Len(trace[s])
                          /\ trace[s] \in Traces /\ read'[s] <= Len(trace[s])
  <2>1. \A s \in Sides : read[s] \in Nat /\ read'[s] \in Nat /\ trace[s] \in Traces /\ read'[s] <= Len(trace[s])
    BY <1>1, TraceFacts DEF Typed, TypeOK
  <2>2. Sides = {"master", "slave"}
    BY DEF Sides
  <2>3. Frontier \in Nat /\ Frontier' \in Nat /\ \A s \in Sides : read'[s] <= Frontier'
    BY <1>2, <2>1, <2>2 DEF Frontier
  <2>4. \A s \in Sides : read'[s] = Frontier' \/ read'[s] = Len(trace[s])
    BY <1>1 DEF InStep
  <2> QED BY <2>1, <2>3, <2>4
<1>4. isSame' <=> state'["master"] = state'["slave"]
  <2>1. "NUM" \in Kept
    BY DEF Kept
  <2>2. \/ state'["master"]["NUM"] = Fresh["NUM"]
        \/ \E i \in 1 .. read'["master"] :
             trace["master"][i] = [kind |-> "NUM", val |-> state'["master"]["NUM"]]
    BY <1>1, <1>2, <2>1 DEF Typed, TypeOK
  <2>3. state'["master"]["NUM"] \in Numbers
    BY <1>2, <1>3, <2>2, NumberKept
  <2>4. errorMsg' = Verdict(state', EOF') /\ isSame' = (errorMsg' = None)
    BY DEF Turn
  <2> QED BY <2>3, <2>4, VerdictIsEquality
<1>5. ASSUME isSame' PROVE AgreeTo(Frontier)'
  <2>1. \A k \in Kept : Latest(trace["master"], Frontier', k) = Latest(trace["slave"], Frontier', k)
    <3> SUFFICES ASSUME NEW k \in Kept
                 PROVE  Latest(trace["master"], Frontier', k) = Latest(trace["slave"], Frontier', k)
      OBVIOUS
    <3>1. \A s \in Sides : Latest(trace[s], Frontier', k) = Latest(trace[s], read'[s], k)
      BY <1>3, FrontIsReached
    <3>2. \A s \in Sides : state'[s][k] = Latest(trace[s], read'[s], k)
      BY <1>1 DEF KeepsLatest
    <3> QED BY <1>1, <1>2, <1>4, <1>5, <3>1, <3>2
  <2>2. ASSUME NEW m \in 1 .. Frontier', NEW k \in Kept
        PROVE  Latest(trace["master"], m, k) = Latest(trace["slave"], m, k)
    <3>1. m \in 1 .. Frontier \/ m = Frontier'
      BY <1>1, <1>3
    <3> QED BY <2>1, <3>1 DEF AgreeTo
  <2> QED BY <1>1, <2>2 DEF AgreeTo
<1> QED BY <1>1, <1>3, <1>4, <1>5

-----------------------------------------------------------------------------
\* What holds at every turn: the two traces are read in step, each as far as it
\* goes, what is kept of one is what its lines said last, and as long as there is
\* no message they have said the same line by line (Cosim.run, State.update).
THEOREM CosimInvariant == Spec => []CosimInv
<1>1. Init => CosimInv
  <2> SUFFICES ASSUME Init PROVE CosimInv
    OBVIOUS
  <2>1. \A s \in Sides : trace[s] \in Traces /\ Len(trace[s]) \in Nat
    BY TraceFacts DEF Init
  <2>2. Typed
    BY <2>1 DEF Init, Typed, TypeOK, Fresh
  <2>3. KeepsLatest
    BY <2>1, LatestAtStart DEF Init, KeepsLatest, Fresh
  <2> QED BY <2>2, <2>3 DEF Init, CosimInv
<1>2. CosimInv /\ [Next]_vars => CosimInv'
  <2> SUFFICES ASSUME CosimInv, [Next]_vars PROVE CosimInv'
    OBVIOUS
  <2>0. Typed /\ KeepsLatest
    BY DEF CosimInv
  <2>1. CASE UNCHANGED vars
    BY <2>1 DEF vars, CosimInv, Typed, TypeOK, KeepsLatest, InStep, Frontier, AgreeTo
  <2>2. CASE Open
    <3>1. /\ read' = [s \in Sides |-> 1] /\ phase' = "run"
          /\ UNCHANGED <<trace, state, EOF, isSame, errorMsg>>
          /\ \A s \in Sides : trace[s] # <<>> /\ trace[s][1].kind = "preamble"
          /\ read = [s \in Sides |-> 0] /\ isSame
      BY <2>2 DEF Open, Opens, CosimInv
    <3>2. \A s \in Sides : trace[s] \in Traces /\ Len(trace[s]) \in Nat /\ Len(trace[s]) >= 1
      <4> SUFFICES ASSUME NEW s \in Sides
                   PROVE  trace[s] \in Traces /\ Len(trace[s]) \in Nat /\ Len(trace[s]) >= 1
        OBVIOUS
      <4>1. trace[s] \in Traces /\ trace[s] # <<>>
        BY <2>0, <3>1 DEF Typed, TypeOK
      <4>2. trace[s] \in Seq([kind : Kinds, val : UNION { {trace[s][i].val} : i \in DOMAIN trace[s] }])
        BY <4>1, TracesAssumption
      <4> QED BY <4>1, <4>2
    <3>3. \A s \in Sides, k \in Kept :
            Latest(trace[s], 1, k) = Fresh[k] /\ Latest(trace[s], 0, k) = Fresh[k]
      <4> SUFFICES ASSUME NEW s \in Sides, NEW k \in Kept
                   PROVE  Latest(trace[s], 1, k) = Fresh[k] /\ Latest(trace[s], 0, k) = Fresh[k]
        OBVIOUS
      <4> DEFINE t == trace[s]  zero == 0
      <4>1. t \in Traces /\ zero \in Nat /\ zero < Len(t) /\ zero + 1 = 1
        BY <3>2
      <4>2. Latest(t, zero, k) = Fresh[k]
        BY <4>1, LatestAtStart
      <4>3. t[zero + 1].kind # k
        BY <3>1 DEF Kept
      <4> HIDE DEF t, zero
      <4>4. Latest(t, zero + 1, k) = Latest(t, zero, k)
        BY <4>1, <4>3, LatestAtLine
      <4> QED BY <4>1, <4>2, <4>4 DEF t, zero
    <3>4. KeepsLatest'
      BY <2>0, <3>1, <3>3 DEF KeepsLatest
    <3>5. Typed'
      <4>1. \A s \in Sides, k \in Kept : state[s][k] = Fresh[k]
        <5>1. \A s \in Sides : read[s] = 0
          BY <3>1
        <5>2. \A s \in Sides, k \in Kept : state[s][k] = Latest(trace[s], read[s], k)
          BY <2>0 DEF KeepsLatest
        <5> QED BY <3>3, <5>1, <5>2
      <4> QED BY <2>0, <3>1, <3>2, <4>1 DEF Typed, TypeOK
    <3>6. Frontier' = 1
      BY <3>1 DEF Frontier, Sides
    <3>7. \A s \in Sides : ~ EOF[s]
      BY <2>0, <2>2 DEF CosimInv, Open
    <3>8. AgreeTo(Frontier)'
      BY <3>1, <3>3, <3>6 DEF AgreeTo, Sides
    <3> QED BY <3>1, <3>4, <3>5, <3>6, <3>7, <3>8 DEF CosimInv, InStep
  <2>3. CASE OpenRaised
    BY <2>0, <2>3 DEF OpenRaised, Raise, CosimInv, Typed, TypeOK, KeepsLatest
  <2>4. CASE Turn
    <3>1. phase = "run" /\ phase' = "run" /\ isSame
      BY <2>4 DEF Turn, Running
    <3>2. InStep /\ Frontier >= 1 /\ AgreeTo(Frontier)
      BY <3>1 DEF CosimInv
    <3> QED BY <2>0, <2>4, <3>1, <3>2, TurnKeepsLatest, TurnKeepsAgreement DEF CosimInv
  <2>5. CASE TurnRaised
    BY <2>0, <2>5 DEF TurnRaised, Raise, CosimInv, Typed, TypeOK, KeepsLatest
  <2>6. CASE DumpResults
    <3>1. /\ phase = "run" /\ ~ Running /\ phase' = "done"
          /\ UNCHANGED <<trace, read, state, EOF, isSame, errorMsg>>
      BY <2>6 DEF DumpResults
    <3>2. isSame => \A s \in Sides : EOF[s]
      BY <3>1 DEF Running
    <3> QED BY <2>0, <3>1, <3>2 DEF CosimInv, Typed, TypeOK, KeepsLatest, InStep, Frontier, AgreeTo
  <2> QED BY <2>1, <2>2, <2>3, <2>4, <2>5, <2>6 DEF Next
<1> QED BY <1>1, <1>2, PTL DEF Spec

(* What the comparer keeps of a trace is Fresh or said by a line it read,   *)
(* and a message is one of __compare's two.                                 *)
THEOREM CosimTypeCorrect == Spec => []TypeOK
<1>1. CosimInv => TypeOK
  BY DEF CosimInv, Typed
<1> QED BY <1>1, CosimInvariant, PTL

(* The comparison succeeds exactly if the traces agree line by line.        *)
THEOREM VerdictIsAlwaysAgreement == Spec => []VerdictIsAgreement
<1>1. CosimInv => VerdictIsAgreement
  <2> SUFFICES ASSUME CosimInv, phase = "done"
               PROVE  isSame <=> Agree(trace["master"], trace["slave"])
    BY DEF VerdictIsAgreement
  <2> DEFINE t == trace["master"]  u == trace["slave"]
  <2>1. /\ InStep /\ Frontier >= 1 /\ (isSame => AgreeTo(Frontier))
        /\ (~ isSame => state["master"] # state["slave"])
        /\ (isSame => \A s \in Sides : EOF[s])
        /\ Typed /\ KeepsLatest
    BY DEF CosimInv
  <2>2. /\ "master" \in Sides /\ "slave" \in Sides
        /\ \A s \in Sides : /\ trace[s] \in Traces /\ Len(trace[s]) \in Nat
                            /\ read[s] \in Nat /\ read[s] <= Len(trace[s])
    BY <2>1, TraceFacts DEF Typed, TypeOK, Sides
  <2>3. /\ Frontier \in Nat /\ read["master"] <= Frontier /\ read["slave"] <= Frontier
        /\ Frontier = read["master"] \/ Frontier = read["slave"]
    BY <2>2 DEF Frontier
  <2>4. ASSUME isSame, NEW n \in 1 .. Len(t) + Len(u), NEW k \in Kept
        PROVE  Latest(t, n, k) = Latest(u, n, k)
    <3>1. CASE n <= Frontier
      BY <2>1, <2>4, <3>1 DEF AgreeTo
    <3>2. CASE n > Frontier
      <4>1. read["master"] = Len(t) /\ read["slave"] = Len(u)
        BY <2>1, <2>2, <2>4 DEF InStep
      <4>2. Frontier \in 1 .. Frontier /\ Frontier >= Len(t) /\ Frontier >= Len(u) /\ n \in Nat /\ n >= Len(t) /\ n >= Len(u)
        BY <2>1, <2>2, <2>3, <3>2, <4>1
      <4>3. Latest(t, Frontier, k) = Latest(u, Frontier, k)
        BY <2>1, <2>4, <4>2 DEF AgreeTo
      <4>4. Latest(t, n, k) = Latest(t, Len(t), k) /\ Latest(t, Frontier, k) = Latest(t, Len(t), k)
        BY <2>2, <2>3, <4>2, LatestAtEnd
      <4>5. Latest(u, n, k) = Latest(u, Len(u), k) /\ Latest(u, Frontier, k) = Latest(u, Len(u), k)
        BY <2>2, <2>3, <4>2, LatestAtEnd
      <4> QED BY <4>3, <4>4, <4>5
    <3> QED BY <2>2, <2>3, <3>1, <3>2
  <2>5. ASSUME ~ isSame PROVE ~ Agree(t, u)
    <3>1. PICK k \in Kept : Latest(t, read["master"], k) # Latest(u, read["slave"], k)
      BY <2>1, <2>2, <2>5 DEF KeepsLatest
    <3>2. \A s \in Sides : Latest(trace[s], Frontier, k) = Latest(trace[s], read[s], k)
      BY <2>1, <2>2, <2>3, FrontIsReached DEF InStep, Sides
    <3>3. Frontier \in 1 .. Len(t) + Len(u)
      <4> DEFINE a == Len(t)  b == Len(u)
      <4>1. a \in Nat /\ b \in Nat /\ read["master"] <= a /\ read["slave"] <= b
        BY <2>2
      <4> HIDE DEF a, b
      <4>2. Frontier <= a + b /\ Frontier >= 1 /\ Frontier \in Nat
        BY <2>1, <2>2, <2>3, <4>1
      <4>3. Frontier \in 1 .. a + b
        BY <4>1, <4>2
      <4> QED BY <4>3 DEF a, b
    <3> QED BY <2>2, <3>1, <3>2, <3>3 DEF Agree
  <2> QED BY <2>4, <2>5 DEF Agree
<1> QED BY <1>1, CosimInvariant, PTL

-----------------------------------------------------------------------------
\* A set of numbers with 0 and every successor is all of them: the least number
\* outside it would have a predecessor in it.
LEMMA SetInduction ==
  ASSUME NEW S \in SUBSET Nat, 0 \in S, \A n \in S : n + 1 \in S
  PROVE S = Nat
<1> SUFFICES ASSUME S # Nat PROVE FALSE
  OBVIOUS
<1> DEFINE T == Nat \ S
<1>1. PICK x \in T : \A y \in T : ~ (<<y, x>> \in OpToRel(<, Nat))
  <2>1. T \subseteq Nat /\ T # {}
    OBVIOUS
  <2> HIDE DEF T
  <2> QED BY <2>1, WFMin, NatLessThanWellFounded
<1>2. \A y \in T : ~ (y < x)
  BY <1>1 DEF OpToRel
<1>3. x # 0 /\ x - 1 \in Nat /\ x - 1 < x
  OBVIOUS
<1>4. x - 1 \in S
  BY <1>2, <1>3
<1> QED BY <1>4, <1>3

\* The same as far as a bound.
LEMMA BoundedInduction ==
  ASSUME NEW N \in Nat, NEW S, 0 \in S, \A n \in 0 .. N - 1 : n \in S => n + 1 \in S
  PROVE  \A n \in 0 .. N : n \in S
<1> DEFINE T == {n \in Nat : n <= N => n \in S}
<1>1. 0 \in T
  OBVIOUS
<1>2. ASSUME NEW n \in T PROVE n + 1 \in T
  <2>1. n + 1 <= N => n \in 0 .. N - 1 /\ n <= N
    OBVIOUS
  <2> QED BY <2>1
<1>3. T \subseteq Nat
  OBVIOUS
<1> HIDE DEF T
<1>4. T = Nat
  BY <1>1, <1>2, <1>3, SetInduction
<1> QED BY <1>4 DEF T


\* F are the first, the first two, ... of the sequences, appended.
Flattens(F, S, N, seqs) ==
  /\ F \in [1 .. N -> Seq(S)] /\ F[1] = seqs[1]
  /\ \A i \in 1 .. N - 1 : F[i + 1] = F[i] \o seqs[i + 1]
  /\ FlattenSeq(seqs) = F[N]

\* FlattenSeq appends the sequences one by one.
LEMMA FlattenIs ==
  ASSUME NEW S, NEW N \in Nat \ {0}, NEW seqs \in [1 .. N -> Seq(S)]
  PROVE  \E F : Flattens(F, S, N, seqs)
<1> DEFINE Eq(f, n) == f = [i \in 1 .. n |-> IF i = 1 THEN seqs[i] ELSE f[i - 1] \o seqs[i]]
           Some == {n \in Nat : n >= 1 => \E f : Eq(f, n)}
<1>1. 0 \in Some
  OBVIOUS
<1>2. ASSUME NEW n \in Some PROVE n + 1 \in Some
  <2>1. CASE n = 0
    <3> DEFINE f == [i \in 1 .. 1 |-> seqs[1]]
    <3>1. f = [i \in 1 .. 1 |-> IF i = 1 THEN seqs[i] ELSE f[i - 1] \o seqs[i]]
      <4>1. \A i \in 1 .. 1 : i = 1
        OBVIOUS
      <4> QED BY <4>1
    <3> HIDE DEF f
    <3>2. Eq(f, 1)
      BY <3>1
    <3>3. n + 1 = 1
      BY <2>1
    <3> HIDE DEF Eq
    <3> QED BY <3>2, <3>3
  <2>2. CASE n # 0
    <3>1. n \in Nat /\ n >= 1
      BY <2>2
    <3>2. PICK f : Eq(f, n)
      BY <3>1
    <3> DEFINE new == f[n] \o seqs[n + 1]
               g == [i \in 1 .. n + 1 |-> IF i = n + 1 THEN new ELSE f[i]]
    <3>3. \A i \in 1 .. n : f[i] = IF i = 1 THEN seqs[i] ELSE f[i - 1] \o seqs[i]
      <4>1. f = [i \in 1 .. n |-> IF i = 1 THEN seqs[i] ELSE f[i - 1] \o seqs[i]]
        BY <3>2
      <4> QED BY <4>1
    <3>4. ASSUME NEW i \in 1 .. n + 1
          PROVE  (IF i = n + 1 THEN new ELSE f[i]) = IF i = 1 THEN seqs[i] ELSE g[i - 1] \o seqs[i]
      <4>1. CASE i = n + 1
        <5>1. i # 1 /\ i - 1 = n /\ n \in 1 .. n + 1 /\ n # n + 1
          BY <3>1, <4>1
        <5>2. g[i - 1] = f[n]
          BY <5>1
        <5> HIDE DEF g
        <5> QED BY <4>1, <5>1, <5>2
      <4>2. CASE i # n + 1
        <5>1. i \in 1 .. n
          BY <3>1, <4>2
        <5>2. CASE i = 1
          BY <3>3, <4>2, <5>1, <5>2
        <5>3. CASE i # 1
          <6>1. i - 1 \in 1 .. n + 1 /\ i - 1 # n + 1
            BY <3>1, <5>1, <5>3
          <6>2. g[i - 1] = f[i - 1]
            BY <6>1
          <6> HIDE DEF g, new
          <6> QED BY <3>3, <4>2, <5>1, <5>3, <6>2
        <5> QED BY <5>2, <5>3
      <4> QED BY <4>1, <4>2
    <3>5. g = [i \in 1 .. n + 1 |-> IF i = 1 THEN seqs[i] ELSE g[i - 1] \o seqs[i]]
      <4> DEFINE rhs(i) == IF i = 1 THEN seqs[i] ELSE g[i - 1] \o seqs[i]
                 lhs(i) == IF i = n + 1 THEN new ELSE f[i]
      <4>1. \A i \in 1 .. n + 1 : lhs(i) = rhs(i)
        BY <3>4
      <4>2. g = [i \in 1 .. n + 1 |-> lhs(i)]
        OBVIOUS
      <4> HIDE DEF lhs, rhs, g
      <4>3. g = [i \in 1 .. n + 1 |-> rhs(i)]
        BY <4>1, <4>2
      <4> QED BY <4>3 DEF rhs
    <3> HIDE DEF g
    <3>6. Eq(g, n + 1)
      BY <3>5
    <3> HIDE DEF Eq
    <3> QED BY <3>1, <3>6
  <2> QED BY <2>1, <2>2
<1>3. Some \subseteq Nat
  OBVIOUS
<1> HIDE DEF Some
<1>4. Some = Nat
  BY <1>1, <1>2, <1>3, SetInduction
<1>5. \E f : Eq(f, N)
  <2> HIDE DEF Eq
  <2>1. N \in Some /\ N >= 1
    BY <1>4
  <2> QED BY <2>1 DEF Some
<1> DEFINE F == CHOOSE f : Eq(f, N)
<1>6. Eq(F, N)
  <2> HIDE DEF Eq
  <2> QED BY <1>5
<1>7. Len(seqs) = N
  OBVIOUS
<1>8. FlattenSeq(seqs) = F[N]
  BY <1>7 DEF FlattenSeq
<1> HIDE DEF F
<1>9. /\ DOMAIN F = 1 .. N
      /\ \A i \in 1 .. N : F[i] = IF i = 1 THEN seqs[i] ELSE F[i - 1] \o seqs[i]
  BY <1>6
<1>10. F[1] = seqs[1] /\ \A i \in 1 .. N - 1 : F[i + 1] = F[i] \o seqs[i + 1]
  <2>1. 1 \in 1 .. N /\ \A i \in 1 .. N - 1 : i + 1 \in 1 .. N /\ i + 1 # 1 /\ (i + 1) - 1 = i
    OBVIOUS
  <2> HIDE DEF Eq
  <2> QED BY <1>9, <2>1
<1> DEFINE T == {i \in Nat : i = 0 \/ F[i] \in Seq(S)}
<1>11. \A i \in 0 .. N : i \in T
  <2>1. 0 \in T
    OBVIOUS
  <2>2. ASSUME NEW i \in 0 .. N - 1, i \in T PROVE i + 1 \in T
    <3>1. CASE i = 0
      <4>1. F[1] \in Seq(S) /\ i + 1 = 1
        BY <1>10, <3>1
      <4> QED BY <4>1
    <3>2. CASE i # 0
      <4>1. i \in 1 .. N - 1 /\ i + 1 \in 1 .. N /\ i + 1 \in Nat
        BY <3>2
      <4>2. F[i + 1] = F[i] \o seqs[i + 1] /\ F[i] \in Seq(S) /\ seqs[i + 1] \in Seq(S)
        BY <1>10, <2>2, <3>2, <4>1
      <4>3. F[i + 1] \in Seq(S)
        BY <4>2
      <4> QED BY <4>1, <4>3
    <3> QED BY <3>1, <3>2
  <2> HIDE DEF T
  <2> QED BY <2>1, <2>2, BoundedInduction
<1>12. F \in [1 .. N -> Seq(S)]
  <2>1. \A i \in 1 .. N : F[i] \in Seq(S)
    BY <1>11
  <2>2. F = [i \in 1 .. N |-> F[i]]
    <3> HIDE DEF Eq
    <3>1. F = [i \in 1 .. N |-> IF i = 1 THEN seqs[i] ELSE F[i - 1] \o seqs[i]]
      BY <1>6 DEF Eq
    <3> QED BY <3>1
  <2> HIDE DEF Eq
  <2> QED BY <2>1, <2>2
<1> HIDE DEF Eq
<1> QED BY <1>8, <1>10, <1>12 DEF Flattens

-----------------------------------------------------------------------------
\* What was said last depends on the lines before only.
LEMMA LatestPrefix ==
  ASSUME NEW t, NEW s, Sized(t), Sized(s), NEW N \in Nat, N <= Len(t), N <= Len(s),
         \A i \in 1 .. N : s[i] = t[i]
  PROVE  \A n \in 0 .. N : \A k : Latest(s, n, k) = Latest(t, n, k)
<1> DEFINE T == {n \in Nat : \A k : Latest(s, n, k) = Latest(t, n, k)}
<1>1. 0 \in T
  BY LatestNone
<1>2. ASSUME NEW n \in 0 .. N - 1, n \in T PROVE n + 1 \in T
  <2>1. n \in Nat /\ n < Len(t) /\ n < Len(s) /\ n + 1 \in 1 .. N /\ n + 1 \in Nat
    BY DEF Sized
  <2>2. s[n + 1] = t[n + 1] /\ \A k : Latest(s, n, k) = Latest(t, n, k)
    BY <1>2, <2>1
  <2>3. ASSUME NEW k PROVE Latest(s, n + 1, k) = Latest(t, n + 1, k)
    <3>1. Latest(s, n + 1, k) = IF s[n + 1].kind = k THEN s[n + 1].val ELSE Latest(s, n, k)
      BY <2>1, LatestNext
    <3>2. Latest(t, n + 1, k) = IF t[n + 1].kind = k THEN t[n + 1].val ELSE Latest(t, n, k)
      BY <2>1, LatestNext
    <3> QED BY <2>2, <3>1, <3>2
  <2> QED BY <2>1, <2>3
<1> HIDE DEF T
<1>3. \A n \in 0 .. N : n \in T
  BY <1>1, <1>2, BoundedInduction
<1> QED BY <1>3 DEF T

\* The kind of the line before.
Before(t, i) == IF i = 1 THEN "none" ELSE t[i - 1].kind

\* The i-th line keeps to the order of InstLines, numbers the next instruction,
\* and says a pc that is new.
Legal(t, i) ==
  /\ t[i].kind \in {"preamble", "NUM", "x", "M", "PC"}
  /\ t[i].kind = "preamble" => Before(t, i) \in {"none", "PC"} /\ t[i].val = None
  /\ t[i].kind = "NUM" => Before(t, i) = "preamble" /\ t[i].val = Latest(t, i - 1, "NUM") + 1
  /\ t[i].kind \in {"x", "M"} => Before(t, i) = "NUM"
  /\ t[i].kind = "PC" => Before(t, i) \in {"NUM", "x", "M"} /\ t[i].val # Latest(t, i - 1, "PC")

Lawful(t) == Sized(t) /\ \A i \in 1 .. Len(t) : Legal(t, i)

\* A legal line after lawful ones.
LEMMA AppendLawful ==
  ASSUME NEW t, NEW s, Lawful(t), Sized(s), Len(s) = Len(t) + 1,
         \A i \in 1 .. Len(t) : s[i] = t[i], Legal(s, Len(t) + 1)
  PROVE  /\ Lawful(s)
         /\ \A k : Latest(s, Len(t) + 1, k) =
                     IF s[Len(t) + 1].kind = k THEN s[Len(t) + 1].val ELSE Latest(t, Len(t), k)
         /\ \A k : Latest(s, Len(t), k) = Latest(t, Len(t), k)
<1>1. Len(t) \in Nat /\ Sized(t)
  BY DEF Lawful, Sized
<1>2. \A n \in 0 .. Len(t) : \A k : Latest(s, n, k) = Latest(t, n, k)
  BY <1>1, LatestPrefix
<1>3. ASSUME NEW i \in 1 .. Len(t) PROVE Legal(s, i)
  <2>1. Legal(t, i)
    BY DEF Lawful
  <2>2. s[i] = t[i] /\ i - 1 \in 0 .. Len(t) /\ (i # 1 => i - 1 \in 1 .. Len(t))
    BY <1>1
  <2>3. Before(s, i) = Before(t, i)
    BY <2>2 DEF Before
  <2> QED BY <1>2, <2>1, <2>2, <2>3 DEF Legal
<1>4. \A i \in 1 .. Len(s) : i \in 1 .. Len(t) \/ i = Len(t) + 1
  BY <1>1
<1>5. \A k : Latest(s, Len(t) + 1, k) =
               IF s[Len(t) + 1].kind = k THEN s[Len(t) + 1].val ELSE Latest(s, Len(t), k)
  <2> DEFINE n == Len(t)
  <2>1. n \in Nat /\ n < Len(s)
    BY <1>1
  <2> HIDE DEF n
  <2>2. \A k : Latest(s, n + 1, k) = IF s[n + 1].kind = k THEN s[n + 1].val ELSE Latest(s, n, k)
    BY <2>1, LatestNext
  <2> QED BY <2>2 DEF n
<1>6. \A k : Latest(s, Len(t), k) = Latest(t, Len(t), k)
  BY <1>1, <1>2
<1> QED BY <1>3, <1>4, <1>5, <1>6 DEF Lawful

-----------------------------------------------------------------------------
\* A line of a log.
LineOf(k, v) == [kind |-> k, val |-> v]

\* A sequence has a length and indices up to it.
LEMMA SizedSeq == ASSUME NEW S, NEW t \in Seq(S) PROVE Sized(t)
  BY DEF Sized

\* What the State keeps, and starts with.
LEMMA KeptFacts ==
  /\ Kept = {"NUM", "PC", "x", "M"} /\ "NUM" # "PC" /\ "preamble" \notin Kept
  /\ Fresh["NUM"] = 0 /\ Fresh["PC"] = 0
  BY DEF Kept, Fresh

\* A sequence that keeps to the order, that has numbered k instructions and
\* last given pc.
Complete(t, k, pc) ==
  /\ Lawful(t) /\ (Len(t) = 0 \/ t[Len(t)].kind = "PC")
  /\ Latest(t, Len(t), "NUM") = k /\ Latest(t, Len(t), "PC") = pc

\* The preamble and the NUM of an instruction, logged before it is executed.
LEMMA Numbered ==
  ASSUME NEW S, NEW t \in Seq(S), NEW k \in Nat, NEW pc, Complete(t, k, pc),
         NEW a \in S, NEW b \in S, a = LineOf("preamble", None), b = LineOf("NUM", k + 1)
  PROVE  LET s == t \o <<a, b>>
         IN  /\ s \in Seq(S) /\ Lawful(s) /\ Len(s) = Len(t) + 2
             /\ s[Len(s)].kind = "NUM"
             /\ Latest(s, Len(s), "NUM") = k + 1 /\ Latest(s, Len(s), "PC") = pc
<1> DEFINE L == Len(t)  r == t \o <<a>>  s == t \o <<a, b>>
<1>1. L \in Nat /\ Sized(t) /\ Lawful(t) /\ (L = 0 \/ t[L].kind = "PC")
      /\ Latest(t, L, "NUM") = k /\ Latest(t, L, "PC") = pc
  BY SizedSeq DEF Complete
<1>2. /\ r \in Seq(S) /\ s \in Seq(S) /\ Len(r) = L + 1 /\ Len(s) = Len(r) + 1 /\ Len(s) = L + 2
      /\ r[L + 1] = a /\ s[L + 2] = b
      /\ \A i \in 1 .. L : r[i] = t[i] 
      /\ \A i \in 1 .. Len(r) : s[i] = r[i]
  BY <1>1
<1>3. Sized(r) /\ Sized(s)
  BY <1>2, SizedSeq
<1> HIDE DEF r, s
<1>4. Legal(r, L + 1)
  <2>1. Before(r, L + 1) \in {"none", "PC"}
    <3>1. CASE L = 0
      BY <3>1 DEF Before
    <3>2. CASE L # 0
      <4>1. L \in 1 .. L /\ (L + 1) - 1 = L /\ L + 1 # 1 /\ t[L].kind = "PC"
        BY <1>1, <3>2
      <4> QED BY <1>2, <4>1 DEF Before
    <3> QED BY <3>1, <3>2
  <2>2. r[L + 1].kind = "preamble" /\ r[L + 1].val = None
    BY <1>2 DEF LineOf
  <2> HIDE DEF L
  <2> QED BY <2>1, <2>2 DEF Legal
<1>5. /\ Lawful(r)
      /\ \A q : Latest(r, L + 1, q) = IF r[L + 1].kind = q THEN r[L + 1].val ELSE Latest(t, L, q)
  BY <1>1, <1>2, <1>3, <1>4, AppendLawful
<1>6. Latest(r, L + 1, "NUM") = k /\ Latest(r, L + 1, "PC") = pc /\ r[L + 1].kind = "preamble"
  BY <1>1, <1>2, <1>5 DEF LineOf
<1>7. Latest(s, L + 1, "NUM") = k
  <2> DEFINE N == Len(r)
  <2>0. N \in Nat /\ N <= Len(r) /\ N <= Len(s) /\ \A i \in 1 .. N : s[i] = r[i]
    BY <1>1, <1>2
  <2> HIDE DEF N
  <2>1. \A n \in 0 .. N : \A q : Latest(s, n, q) = Latest(r, n, q)
    BY <2>0, <1>3, LatestPrefix
  <2>2. L + 1 \in 0 .. N
    BY <1>1, <1>2 DEF N
  <2> QED BY <1>6, <2>1, <2>2
<1>8. Legal(s, Len(r) + 1)
  <2>1. Len(r) + 1 = L + 2 /\ (L + 2) - 1 = L + 1 /\ L + 2 # 1 /\ L + 1 \in 1 .. Len(r)
    BY <1>1, <1>2
  <2>2. Before(s, L + 2) = "preamble"
    BY <1>2, <1>6, <2>1 DEF Before
  <2>3. s[L + 2].kind = "NUM" /\ s[L + 2].val = k + 1
    BY <1>2 DEF LineOf
  <2> HIDE DEF L
  <2> QED BY <1>7, <2>1, <2>2, <2>3 DEF Legal
<1>9. /\ Lawful(s)
      /\ \A q : Latest(s, Len(r) + 1, q) =
                  IF s[Len(r) + 1].kind = q THEN s[Len(r) + 1].val ELSE Latest(r, Len(r), q)
  BY <1>2, <1>3, <1>5, <1>8, AppendLawful
<1>10. Len(r) + 1 = L + 2 /\ Len(s) = L + 2 /\ Len(r) = L + 1
  BY <1>1, <1>2
<1>11. s[L + 2].kind = "NUM" /\ s[L + 2].val = k + 1
  BY <1>2 DEF LineOf
<1> HIDE DEF L
<1>12. Latest(s, Len(s), "NUM") = k + 1 /\ Latest(s, Len(s), "PC") = pc
  BY <1>6, <1>9, <1>10, <1>11
<1> QED BY <1>2, <1>9, <1>10, <1>11, <1>12 DEF s, L

-----------------------------------------------------------------------------
\* One more line, an access or a pc.
LEMMA Accessed ==
  ASSUME NEW S, NEW t \in Seq(S), Lawful(t), Len(t) > 0, t[Len(t)].kind = "NUM",
         NEW w \in S, w.kind \in {"x", "M"}
  PROVE  LET s == t \o <<w>>
         IN  /\ s \in Seq(S) /\ Lawful(s) /\ Len(s) = Len(t) + 1
             /\ s[Len(s)].kind \in {"x", "M"}
             /\ \A q \in {"NUM", "PC"} : Latest(s, Len(s), q) = Latest(t, Len(t), q)
<1> DEFINE L == Len(t)  s == t \o <<w>>
<1>1. L \in Nat /\ L >= 1 /\ L \in 1 .. L /\ Sized(t) /\ (L + 1) - 1 = L /\ L + 1 # 1
  BY SizedSeq
<1>2. /\ s \in Seq(S) /\ Len(s) = L + 1 /\ s[L + 1] = w
      /\ \A i \in 1 .. L : s[i] = t[i] 
  BY <1>1
<1>3. Sized(s)
  BY <1>2, SizedSeq
<1> HIDE DEF s
<1>4. Legal(s, L + 1)
  <2>1. Before(s, L + 1) = "NUM"
    BY <1>1, <1>2 DEF Before
  <2> HIDE DEF L
  <2> QED BY <1>2, <2>1 DEF Legal
<1>5. /\ Lawful(s)
      /\ \A q : Latest(s, L + 1, q) = IF s[L + 1].kind = q THEN s[L + 1].val ELSE Latest(t, L, q)
  BY <1>1, <1>2, <1>3, <1>4, AppendLawful
<1> HIDE DEF L
<1>6. \A q \in {"NUM", "PC"} : Latest(s, L + 1, q) = Latest(t, L, q)
  BY <1>2, <1>5
<1> QED BY <1>2, <1>5, <1>6 DEF s, L

\* The pc logged after an instruction that did not throw.
LEMMA Advanced ==
  ASSUME NEW S, NEW t \in Seq(S), Lawful(t), Len(t) > 0, t[Len(t)].kind \in {"NUM", "x", "M"},
         NEW c \in S, c.kind = "PC", c.val # Latest(t, Len(t), "PC")
  PROVE  LET s == t \o <<c>>
         IN  s \in Seq(S) /\ Complete(s, Latest(t, Len(t), "NUM"), c.val) /\ Len(s) = Len(t) + 1
<1> DEFINE L == Len(t)  s == t \o <<c>>
<1>1. L \in Nat /\ L >= 1 /\ L \in 1 .. L /\ Sized(t) /\ (L + 1) - 1 = L /\ L + 1 # 1
  BY SizedSeq
<1>2. /\ s \in Seq(S) /\ Len(s) = L + 1 /\ s[L + 1] = c
      /\ \A i \in 1 .. L : s[i] = t[i] 
  BY <1>1
<1>3. Sized(s)
  BY <1>2, SizedSeq
<1> HIDE DEF s
<1>4. Legal(s, L + 1)
  <2>1. Before(s, L + 1) \in {"NUM", "x", "M"}
    BY <1>1, <1>2 DEF Before
  <2>2. Latest(s, L, "PC") = Latest(t, L, "PC")
    <3>1. L <= Len(t) /\ L <= Len(s) /\ L \in 0 .. L /\ Sized(s) /\ Sized(t)
      BY <1>1, <1>2, <1>3
    <3>2. \A n \in 0 .. L : \A q : Latest(s, n, q) = Latest(t, n, q)
      <4> HIDE DEF L
      <4> QED BY <1>1, <1>2, <3>1, LatestPrefix
    <3> QED BY <3>1, <3>2
  <2> QED BY <1>1, <1>2, <2>1, <2>2 DEF Legal
<1>5. /\ Lawful(s)
      /\ \A q : Latest(s, L + 1, q) = IF s[L + 1].kind = q THEN s[L + 1].val ELSE Latest(t, L, q)
  BY <1>1, <1>2, <1>3, <1>4, AppendLawful
<1> HIDE DEF L
<1>6. Latest(s, L + 1, "NUM") = Latest(t, L, "NUM") /\ Latest(s, L + 1, "PC") = c.val
  BY <1>2, <1>5
<1> QED BY <1>2, <1>5, <1>6 DEF s, L, Complete

\* One instruction's lines after those of k complete ones.
LEMMA InstructionLogged ==
  ASSUME NEW S, NEW t \in Seq(S), NEW k \in Nat, NEW pc, Complete(t, k, pc), NEW inst,
         inst.pc # pc, inst.pc = None => inst.writes = <<>>,
         \/ inst.writes = <<>>
         \/ \E q \in {"x", "M"} : inst.writes = <<[kind |-> q, val |-> inst.writes[1].val]>>,
         LineOf("preamble", None) \in S, LineOf("NUM", k + 1) \in S, LineOf("PC", inst.pc) \in S,
         inst.writes # <<>> => inst.writes[1] \in S
  PROVE  LET s == t \o InstLines(k + 1, inst)
         IN  /\ s \in Seq(S) /\ Lawful(s) /\ Len(s) > 0
             /\ IF inst.pc = None THEN s[Len(s)].kind = "NUM" ELSE Complete(s, k + 1, inst.pc)
<1> DEFINE a == LineOf("preamble", None)  b == LineOf("NUM", k + 1)  c == LineOf("PC", inst.pc)
           r == t \o <<a, b>>
           s == t \o InstLines(k + 1, inst)
           Goal(z) == /\ z \in Seq(S) /\ Lawful(z) /\ Len(z) > 0
                      /\ IF inst.pc = None THEN z[Len(z)].kind = "NUM" ELSE Complete(z, k + 1, inst.pc)
<1> SUFFICES Goal(s)
  OBVIOUS
<1>1. a \in S /\ b \in S /\ c \in S /\ c.kind = "PC" /\ c.val = inst.pc
  BY DEF LineOf
<1> HIDE DEF a, b, c
<1>2. InstLines(k + 1, inst) =
        <<a, b>> \o inst.writes \o IF inst.pc = None THEN <<>> ELSE <<c>>
  BY DEF InstLines, a, b, c, LineOf
<1>3. /\ r \in Seq(S) /\ Lawful(r) /\ Len(r) = Len(t) + 2 /\ Len(t) \in Nat
      /\ r[Len(r)].kind = "NUM"
      /\ Latest(r, Len(r), "NUM") = k + 1 /\ Latest(r, Len(r), "PC") = pc
  BY <1>1, Numbered DEF a, b
<1>4. Len(r) \in Nat /\ Len(r) > 0
  BY <1>3
<1>5. CASE inst.pc = None
  <2>1. t \o InstLines(k + 1, inst) = r
    <3>1. inst.writes = <<>>
      BY <1>5
    <3> HIDE DEF r
    <3>2. <<a, b>> \o <<>> \o <<>> = <<a, b>>
      BY <1>1
    <3> QED BY <1>2, <1>5, <3>1, <3>2 DEF r
  <2> HIDE DEF r
  <2>2. Goal(r)
    BY <1>3, <1>4, <1>5
  <2> HIDE DEF Goal
  <2> QED BY <2>1, <2>2
<1>6. CASE inst.pc # None /\ inst.writes = <<>>
  <2>1. t \o InstLines(k + 1, inst) = r \o <<c>>
    <3>1. <<a, b>> \o <<>> \o <<c>> = <<a, b>> \o <<c>>
      BY <1>1
    <3>2. t \o (<<a, b>> \o <<c>>) = (t \o <<a, b>>) \o <<c>>
      BY <1>1
    <3> QED BY <1>2, <1>6, <3>1, <3>2
  <2> HIDE DEF r
  <2>2. r \o <<c>> \in Seq(S) /\ Complete(r \o <<c>>, k + 1, inst.pc) /\ Len(r \o <<c>>) = Len(r) + 1
    BY <1>1, <1>3, <1>4, Advanced
  <2> DEFINE z == r \o <<c>>
  <2> HIDE DEF z
  <2>3. z \in Seq(S) /\ Complete(z, k + 1, inst.pc) /\ Len(z) = Len(r) + 1
    BY <2>2 DEF z
  <2>4. Goal(z)
    BY <1>4, <1>6, <2>3 DEF Complete
  <2> HIDE DEF Goal
  <2> QED BY <2>1, <2>4 DEF z
<1>7. CASE inst.pc # None /\ inst.writes # <<>>
  <2>1. PICK q \in {"x", "M"} : inst.writes = <<[kind |-> q, val |-> inst.writes[1].val]>>
    BY <1>7
  <2> DEFINE w == inst.writes[1]  v == r \o <<w>>
  <2>2. inst.writes = <<w>> /\ w.kind \in {"x", "M"} /\ w \in S
    BY <1>7, <2>1
  <2> HIDE DEF w
  <2>3. t \o InstLines(k + 1, inst) = v \o <<c>>
    <3>1. (<<a, b>> \o <<w>>) \o <<c>> = <<a, b>> \o (<<w>> \o <<c>>)
      BY <1>1, <2>2
    <3>2. t \o (<<a, b>> \o (<<w>> \o <<c>>)) = (t \o <<a, b>>) \o (<<w>> \o <<c>>)
      BY <1>1, <2>2
    <3>3. r \o (<<w>> \o <<c>>) = (r \o <<w>>) \o <<c>>
      <4> HIDE DEF r
      <4> QED BY <1>1, <1>3, <2>2
    <3> QED BY <1>2, <1>7, <2>2, <3>1, <3>2, <3>3
  <2> HIDE DEF r
  <2>4. /\ v \in Seq(S) /\ Lawful(v) /\ Len(v) = Len(r) + 1 /\ v[Len(v)].kind \in {"x", "M"}
        /\ Latest(v, Len(v), "NUM") = k + 1 /\ Latest(v, Len(v), "PC") = pc
    BY <1>3, <1>4, <2>2, Accessed
  <2> HIDE DEF v
  <2>5. v \o <<c>> \in Seq(S) /\ Complete(v \o <<c>>, k + 1, inst.pc) /\ Len(v \o <<c>>) = Len(v) + 1
    BY <1>1, <1>4, <2>4, Advanced
  <2> DEFINE z == v \o <<c>>
  <2> HIDE DEF z
  <2>6. z \in Seq(S) /\ Complete(z, k + 1, inst.pc) /\ Len(z) = Len(v) + 1
    BY <2>5 DEF z
  <2>7. Goal(z)
    BY <1>4, <1>7, <2>4, <2>6 DEF Complete
  <2> HIDE DEF Goal
  <2> QED BY <2>3, <2>7 DEF z
<1> QED BY <1>5, <1>6, <1>7

-----------------------------------------------------------------------------
\* The log ends with an instruction.
Ends(t) == Len(t) = 0 \/ t[Len(t)].kind \in {"NUM", "PC"}

\* A run whose instructions move the pc, one by one.
LEMMA RunFacts ==
  ASSUME NEW r \in Runs, Moving(r)
  PROVE  /\ Len(r) \in Nat /\ DOMAIN r = 1 .. Len(r)
         /\ \A n \in 1 .. Len(r) :
              /\ r[n].pc # IF n = 1 THEN 0 ELSE r[n - 1].pc
              /\ \/ r[n].writes = <<>>
                 \/ \E q \in {"x", "M"} : r[n].writes = <<[kind |-> q, val |-> r[n].writes[1].val]>>
              /\ r[n].pc = None => n = Len(r) /\ r[n].writes = <<>>
<1>1. r \in Seq({ r[n] : n \in DOMAIN r })
  BY RunsAssumption
<1> DEFINE S == { r[n] : n \in DOMAIN r }
<1>2. r \in Seq(S)
  BY <1>1
<1> HIDE DEF S
<1>3. Len(r) \in Nat /\ DOMAIN r = 1 .. Len(r)
  BY <1>2
<1>4. \A n \in 1 .. Len(r) : r[n].pc # IF n = 1 THEN 0 ELSE r[n - 1].pc
  BY <1>3, KeptFacts DEF Moving
<1>5. \A n \in 1 .. Len(r) :
              /\ \/ r[n].writes = <<>>
                 \/ \E q \in {"x", "M"} : r[n].writes = <<[kind |-> q, val |-> r[n].writes[1].val]>>
              /\ r[n].pc = None => n = Len(r) /\ r[n].writes = <<>>
  BY <1>3, RunsAssumption
<1> QED BY <1>3, <1>4, <1>5

\* The log of such a run keeps to the order cosimLog writes in, numbers the
\* instructions one by one, and ends with a whole instruction or the NUM of one
\* that threw.
LEMMA LogShape ==
  ASSUME NEW r \in Runs, Moving(r)
  PROVE  Lawful(Log(r)) /\ Ends(Log(r))
<1> DEFINE N == Len(r)
<1>1. N \in Nat /\ DOMAIN r = 1 .. N
  BY RunFacts
<1>2. \A n \in 1 .. N :
        /\ r[n].pc # IF n = 1 THEN 0 ELSE r[n - 1].pc
        /\ \/ r[n].writes = <<>>
           \/ \E q \in {"x", "M"} : r[n].writes = <<[kind |-> q, val |-> r[n].writes[1].val]>>
        /\ r[n].pc = None => n = N /\ r[n].writes = <<>>
  BY RunFacts
<1> HIDE DEF N
<1> DEFINE seqs == [n \in 1 .. N |-> InstLines(n, r[n])]
<1>3. Log(r) = FlattenSeq(seqs)
  BY <1>1 DEF Log
<1>4. CASE N = 0
  <2>1. seqs = <<>> /\ Len(seqs) = 0
    BY <1>4
  <2>2. FlattenSeq(seqs) = <<>>
    BY <2>1 DEF FlattenSeq
  <2> HIDE DEF seqs
  <2>3. Lawful(<<>>) /\ Ends(<<>>)
    BY DEF Lawful, Sized, Ends
  <2> QED BY <1>3, <2>2, <2>3
<1>5. CASE N # 0
  <2> DEFINE vals == {None} \union Nat \union { r[n].pc : n \in 1 .. N } \union { r[n].writes[1].val : n \in 1 .. N }
             S == [kind : Kinds, val : vals]
  <2>1. ASSUME NEW n \in 1 .. N
        PROVE  /\ LineOf("preamble", None) \in S /\ LineOf("NUM", n) \in S /\ LineOf("PC", r[n].pc) \in S
               /\ r[n].writes # <<>> => r[n].writes[1] \in S
               /\ InstLines(n, r[n]) \in Seq(S)
    <3>1. {"preamble", "NUM", "PC", "x", "M"} \subseteq Kinds
      BY DEF Kinds, Kept
    <3>2. None \in vals /\ n \in vals /\ r[n].pc \in vals /\ r[n].writes[1].val \in vals
      OBVIOUS
    <3> HIDE DEF vals
    <3>3. LineOf("preamble", None) \in S /\ LineOf("NUM", n) \in S /\ LineOf("PC", r[n].pc) \in S
      BY <3>1, <3>2 DEF LineOf
    <3>4. r[n].writes # <<>> => r[n].writes[1] \in S
      <4> SUFFICES ASSUME r[n].writes # <<>> PROVE r[n].writes[1] \in S
        OBVIOUS
      <4>1. PICK q \in {"x", "M"} : r[n].writes = <<[kind |-> q, val |-> r[n].writes[1].val]>>
        BY <1>2
      <4> DEFINE v == r[n].writes[1].val
      <4>2. r[n].writes = <<[kind |-> q, val |-> v]>> /\ v \in vals
        BY <3>2, <4>1
      <4> HIDE DEF v
      <4>3. r[n].writes[1] = [kind |-> q, val |-> v]
        BY <4>2
      <4> QED BY <3>1, <4>2, <4>3
    <3> HIDE DEF S
    <3>5. r[n].writes \in Seq(S)
      <4>1. CASE r[n].writes = <<>>
        BY <4>1
      <4>2. CASE r[n].writes # <<>>
        <5>1. r[n].writes = <<r[n].writes[1]>> /\ r[n].writes[1] \in S
          <6>1. PICK q \in {"x", "M"} : r[n].writes = <<[kind |-> q, val |-> r[n].writes[1].val]>>
            BY <1>2, <4>2
          <6> DEFINE v == r[n].writes[1].val
          <6>2. r[n].writes = <<[kind |-> q, val |-> v]>>
            BY <6>1
          <6> HIDE DEF v
          <6>3. r[n].writes[1] = [kind |-> q, val |-> v]
            BY <6>2
          <6> QED BY <3>4, <4>2, <6>2, <6>3
        <5> DEFINE w == r[n].writes[1]
        <5>2. r[n].writes = <<w>> /\ w \in S
          BY <5>1
        <5> HIDE DEF w
        <5>3. <<w>> \in Seq(S)
          BY <5>2
        <5> QED BY <5>2, <5>3
      <4> QED BY <4>1, <4>2
    <3>6. <<[kind |-> "preamble", val |-> None], [kind |-> "NUM", val |-> n]>> \in Seq(S)
      BY <3>3 DEF LineOf
    <3>7. (IF r[n].pc = None THEN <<>> ELSE <<[kind |-> "PC", val |-> r[n].pc]>>) \in Seq(S)
      BY <3>3 DEF LineOf
    <3>8. InstLines(n, r[n]) \in Seq(S)
      <4> DEFINE a == <<[kind |-> "preamble", val |-> None], [kind |-> "NUM", val |-> n]>>
                 b == r[n].writes
                 c == IF r[n].pc = None THEN <<>> ELSE <<[kind |-> "PC", val |-> r[n].pc]>>
      <4>1. InstLines(n, r[n]) = a \o b \o c
        BY DEF InstLines
      <4>2. a \in Seq(S) /\ b \in Seq(S) /\ c \in Seq(S)
        BY <3>5, <3>6, <3>7
      <4> HIDE DEF a, b, c
      <4> QED BY <4>1, <4>2
    <3> QED BY <3>3, <3>4, <3>8
  <2> HIDE DEF S
  <2>2. seqs \in [1 .. N -> Seq(S)] /\ N \in Nat \ {0}
    BY <1>1, <1>5, <2>1
  <2>3. \A n \in 1 .. N : seqs[n] = InstLines(n, r[n])
    OBVIOUS
  <2> HIDE DEF seqs
  <2>4. PICK F : Flattens(F, S, N, seqs)
    BY <2>2, FlattenIs
  <2>10. /\ F \in [1 .. N -> Seq(S)] /\ F[1] = seqs[1]
         /\ \A i \in 1 .. N - 1 : F[i + 1] = F[i] \o seqs[i + 1]
         /\ FlattenSeq(seqs) = F[N]
    BY <2>4 DEF Flattens
  <2> DEFINE Shape(n) == /\ F[n] \in Seq(S) /\ Lawful(F[n]) /\ Len(F[n]) > 0
                         /\ IF r[n].pc = None THEN F[n][Len(F[n])].kind = "NUM"
                            ELSE Complete(F[n], n, r[n].pc)
             T == {n \in Nat : n = 0 \/ Shape(n)}
  <2>5. Shape(1)
    <3> DEFINE e == <<>>
    <3>1. Complete(e, 0, 0) /\ e \in Seq(S)
      <4>1. Lawful(e) /\ Sized(e) /\ Len(e) = 0
        BY DEF Lawful, Sized
      <4>2. Latest(e, 0, "NUM") = 0 /\ Latest(e, 0, "PC") = 0
        BY <4>1, LatestNone, KeptFacts
      <4>3. e \in Seq(S)
        OBVIOUS
      <4> HIDE DEF e
      <4> QED BY <4>1, <4>2, <4>3 DEF Complete
    <3>2. 1 \in 1 .. N
      BY <2>2
    <3>3. e \o InstLines(1, r[1]) = F[1]
      <4>1. InstLines(1, r[1]) \in Seq(S) /\ F[1] = InstLines(1, r[1])
        BY <2>1, <2>3, <2>10, <3>2
      <4> QED BY <4>1
    <3> HIDE DEF e
    <3> DEFINE k == 0  inst == r[1]  one == 1
    <3>4. /\ k \in Nat /\ Complete(e, k, 0) /\ inst.pc # 0 /\ (inst.pc = None => inst.writes = <<>>)
          /\ \/ inst.writes = <<>>
             \/ \E q \in {"x", "M"} : inst.writes = <<[kind |-> q, val |-> inst.writes[1].val]>>
          /\ k + 1 = one
      BY <1>2, <3>1, <3>2
    <3>5. /\ LineOf("preamble", None) \in S /\ LineOf("NUM", one) \in S /\ LineOf("PC", inst.pc) \in S
          /\ inst.writes # <<>> => inst.writes[1] \in S
      BY <2>1, <3>2
    <3> HIDE DEF k, inst, one
    <3>6. LET s == e \o InstLines(k + 1, inst)
          IN  /\ s \in Seq(S) /\ Lawful(s) /\ Len(s) > 0
              /\ IF inst.pc = None THEN s[Len(s)].kind = "NUM" ELSE Complete(s, k + 1, inst.pc)
      BY <3>1, <3>4, <3>5, InstructionLogged
    <3>7. e \o InstLines(k + 1, inst) = F[one]
      BY <3>3, <3>4 DEF inst, one
    <3> QED BY <3>4, <3>6, <3>7 DEF inst, one
  <2>6. ASSUME NEW n \in 1 .. N - 1, Shape(n) PROVE Shape(n + 1)
    <3>1. n \in Nat /\ n \in 1 .. N /\ n + 1 \in 1 .. N /\ n # N /\ n + 1 # 1 /\ (n + 1) - 1 = n
      BY <2>2
    <3>2. Complete(F[n], n, r[n].pc) /\ F[n] \in Seq(S)
      BY <1>2, <2>6, <3>1
    <3>3. F[n + 1] = F[n] \o InstLines(n + 1, r[n + 1])
      BY <2>3, <2>10, <3>1
    <3> DEFINE inst == r[n + 1]  t == F[n]
    <3>4. /\ inst.pc # r[n].pc /\ (inst.pc = None => inst.writes = <<>>)
          /\ \/ inst.writes = <<>>
             \/ \E q \in {"x", "M"} : inst.writes = <<[kind |-> q, val |-> inst.writes[1].val]>>
      BY <1>2, <3>1
    <3>5. /\ LineOf("preamble", None) \in S /\ LineOf("NUM", n + 1) \in S /\ LineOf("PC", inst.pc) \in S
          /\ inst.writes # <<>> => inst.writes[1] \in S
      BY <2>1, <3>1
    <3>6. Complete(t, n, r[n].pc) /\ t \in Seq(S)
      BY <3>2
    <3> HIDE DEF inst, t
    <3>7. LET s == t \o InstLines(n + 1, inst)
          IN  /\ s \in Seq(S) /\ Lawful(s) /\ Len(s) > 0
              /\ IF inst.pc = None THEN s[Len(s)].kind = "NUM" ELSE Complete(s, n + 1, inst.pc)
      BY <3>1, <3>4, <3>5, <3>6, InstructionLogged
    <3>8. t \o InstLines(n + 1, inst) = F[n + 1]
      BY <3>3 DEF inst, t
    <3> QED BY <3>7, <3>8 DEF inst
  <2> HIDE DEF Shape
  <2>7. \A n \in 0 .. N : n \in T
    <3>1. 0 \in T
      OBVIOUS
    <3>2. ASSUME NEW n \in 0 .. N - 1, n \in T PROVE n + 1 \in T
      <4>1. CASE n = 0
        BY <2>5, <4>1
      <4>2. CASE n # 0
        <5>1. n \in 1 .. N - 1 /\ Shape(n) /\ n + 1 \in Nat
          BY <3>2, <4>2, <2>2
        <5> QED BY <2>6, <5>1
      <4> QED BY <4>1, <4>2
    <3> HIDE DEF T
    <3> QED BY <1>1, <3>1, <3>2, BoundedInduction
  <2>8. Shape(N)
    BY <2>2, <2>7
  <2>9. Ends(F[N])
    BY <2>8 DEF Shape, Ends, Complete
  <2> QED BY <1>3, <2>10, <2>8, <2>9 DEF Shape
<1> QED BY <1>4, <1>5

-----------------------------------------------------------------------------
\* Lines that are their kind and content.
Lined(t) == \A i \in 1 .. Len(t) : t[i] = [kind |-> t[i].kind, val |-> t[i].val]

\* A log: its lines keep to the order and it ends with a whole instruction.
Logged(t) == Lawful(t) /\ Ends(t) /\ Lined(t)

\* The number said last is one.
LEMMA Counts ==
  ASSUME NEW t, Lawful(t) PROVE \A n \in 0 .. Len(t) : Latest(t, n, "NUM") \in Nat
<1> DEFINE T == {n \in Nat : Latest(t, n, "NUM") \in Nat}
<1>1. Len(t) \in Nat /\ Sized(t)
  BY DEF Lawful, Sized
<1>2. 0 \in T
  BY <1>1, LatestNone, KeptFacts
<1>3. ASSUME NEW n \in 0 .. Len(t) - 1, n \in T PROVE n + 1 \in T
  <2>1. n \in Nat /\ n < Len(t) /\ n + 1 \in 1 .. Len(t) /\ (n + 1) - 1 = n
    BY <1>1
  <2>2. Latest(t, n + 1, "NUM") = IF t[n + 1].kind = "NUM" THEN t[n + 1].val ELSE Latest(t, n, "NUM")
    BY <1>1, <2>1, LatestNext
  <2>3. t[n + 1].kind = "NUM" => t[n + 1].val = Latest(t, n, "NUM") + 1
    BY <2>1 DEF Lawful, Legal
  <2> QED BY <1>3, <2>1, <2>2, <2>3
<1> HIDE DEF T
<1>4. \A n \in 0 .. Len(t) : n \in T
  BY <1>1, <1>2, <1>3, BoundedInduction
<1> QED BY <1>4 DEF T

\* A next line changes what was said last of NUM and PC, and nothing else that is counted.
LEMMA NextLine ==
  ASSUME NEW t, Lawful(t), NEW n \in Nat, n < Len(t)
  PROVE  /\ Legal(t, n + 1) /\ (n + 1) - 1 = n
         /\ \A k : Latest(t, n + 1, k) = IF t[n + 1].kind = k THEN t[n + 1].val ELSE Latest(t, n, k)
         /\ t[n + 1].kind = "NUM" => Latest(t, n + 1, "NUM") = Latest(t, n, "NUM") + 1 /\ Latest(t, n, "NUM") \in Nat
         /\ t[n + 1].kind = "PC" => Latest(t, n + 1, "PC") # Latest(t, n, "PC")
<1>1. Len(t) \in Nat /\ Sized(t) /\ n + 1 \in 1 .. Len(t) /\ (n + 1) - 1 = n /\ n \in 0 .. Len(t)
  BY DEF Lawful, Sized
<1>2. Legal(t, n + 1)
  BY <1>1 DEF Lawful
<1>3. \A k : Latest(t, n + 1, k) = IF t[n + 1].kind = k THEN t[n + 1].val ELSE Latest(t, n, k)
  BY <1>1, LatestNext
<1>4. Latest(t, n, "NUM") \in Nat
  BY <1>1, Counts
<1>5. t[n + 1].kind = "NUM" => t[n + 1].val = Latest(t, n, "NUM") + 1
  BY <1>1, <1>2 DEF Legal
<1>6. t[n + 1].kind = "PC" => t[n + 1].val # Latest(t, n, "PC")
  BY <1>1, <1>2 DEF Legal
<1> QED BY <1>1, <1>2, <1>3, <1>4, <1>5, <1>6

\* After line m the two say the same.
Alike(t, u, m) == \A k \in Kept : Latest(t, m, k) = Latest(u, m, k)

\* t has ended before line j, which u has.
Short(t, u, j) ==
  Len(t) = j - 1 /\ j <= Len(u) /\ SameTo(t, u, j - 1) /\ u[j].kind \in {"preamble", "x", "M"}

\* What may be when two logs have said the same up to line j.
Prefix(t, u, j) ==
  \/ SameTo(t, u, j)
  \/ Len(t) = Len(u) /\ Len(t) < j /\ SameTo(t, u, Len(t))
  \/ Short(t, u, j) \/ Short(u, t, j)

\* Which of the two is which does not matter.
LEMMA SameSym ==
  ASSUME NEW t, NEW u
  PROVE  /\ \A n : SameTo(t, u, n) <=> SameTo(u, t, n)
         /\ SameRun(t, u) <=> SameRun(u, t)
         /\ \A n : Alike(t, u, n) <=> Alike(u, t, n)
<1>1. \A i : SameLine(t, u, i) <=> SameLine(u, t, i)
  <2>1. \A a, b : {a, b} = {b, a}
    OBVIOUS
  <2> QED BY <2>1 DEF SameLine
<1>2. \A n : SameTo(t, u, n) <=> SameTo(u, t, n)
  BY <1>1 DEF SameTo
<1>3. SameRun(t, u) <=> SameRun(u, t)
  BY <1>2 DEF SameRun
<1> QED BY <1>2, <1>3 DEF Alike

\* Of two logs the same so far, the next lines are of the same sort.
LEMMA NextAlike ==
  ASSUME NEW t, NEW u, Logged(t), Logged(u), NEW n \in Nat, SameTo(t, u, n), n < Len(t), n < Len(u)
  PROVE  \/ t[n + 1].kind = u[n + 1].kind
         \/ t[n + 1].kind \in {"x", "M", "PC"} /\ u[n + 1].kind \in {"x", "M", "PC"}
<1>1. Lawful(t) /\ Lawful(u)
  BY DEF Logged
<1>2. Legal(t, n + 1) /\ Legal(u, n + 1) /\ (n + 1) - 1 = n
  BY <1>1, NextLine
<1>3. CASE n = 0
  BY <1>2, <1>3 DEF Legal, Before
<1>4. CASE n # 0
  <2>1. n \in 1 .. n /\ n + 1 # 1
    BY <1>4
  <2>2. SameLine(t, u, n)
    BY <2>1 DEF SameTo
  <2>3. \/ t[n].kind = u[n].kind
        \/ t[n].kind \in {"x", "M"} /\ u[n].kind \in {"x", "M"}
    BY <2>2 DEF SameLine
  <2>4. Before(t, n + 1) = t[n].kind /\ Before(u, n + 1) = u[n].kind
    BY <1>2, <2>1 DEF Before
  <2> QED BY <1>2, <2>3, <2>4 DEF Legal
<1> QED BY <1>3, <1>4

\* Alike lines after alike lines are the same.
LEMMA AlikeLine ==
  ASSUME NEW t, NEW u, Logged(t), Logged(u), NEW n \in Nat, SameTo(t, u, n), n < Len(t), n < Len(u),
         Alike(t, u, n), Alike(t, u, n + 1)
  PROVE  SameTo(t, u, n + 1)
<1> DEFINE a == t[n + 1]  b == u[n + 1]
<1>1. Lawful(t) /\ Lawful(u) /\ Len(t) \in Nat /\ Len(u) \in Nat
  BY DEF Logged, Lawful, Sized
<1>2. n + 1 \in 1 .. Len(t) /\ n + 1 \in 1 .. Len(u) /\ (n + 1) - 1 = n
  BY <1>1
<1>3. a = [kind |-> a.kind, val |-> a.val] /\ b = [kind |-> b.kind, val |-> b.val]
  BY <1>2 DEF Logged, Lined
<1>4. /\ \A k : Latest(t, n + 1, k) = IF a.kind = k THEN a.val ELSE Latest(t, n, k)
      /\ \A k : Latest(u, n + 1, k) = IF b.kind = k THEN b.val ELSE Latest(u, n, k)
      /\ a.kind = "PC" => Latest(t, n + 1, "PC") # Latest(t, n, "PC")
      /\ b.kind = "PC" => Latest(u, n + 1, "PC") # Latest(u, n, "PC")
  BY <1>1, NextLine
<1>5. a.kind = b.kind \/ (a.kind \in {"x", "M", "PC"} /\ b.kind \in {"x", "M", "PC"})
  BY NextAlike
<1>6. \A k \in Kept : Latest(t, n, k) = Latest(u, n, k) /\ Latest(t, n + 1, k) = Latest(u, n + 1, k)
  BY DEF Alike
<1>7. /\ a.kind \in {"preamble", "NUM", "x", "M", "PC"} /\ (a.kind = "preamble" => a.val = None)
      /\ b.kind = "preamble" => b.val = None
  BY <1>1, NextLine DEF Legal
<1>8. SameLine(t, u, n + 1)
  <2>1. CASE a.kind = b.kind
    <3>1. a.val = b.val
      <4>1. CASE a.kind = "preamble"
        BY <1>7, <2>1, <4>1
      <4>2. CASE a.kind # "preamble"
        <5>1. a.kind \in Kept
          BY <1>7, <4>2, KeptFacts
        <5> HIDE DEF a, b
        <5> QED BY <1>4, <1>6, <2>1, <5>1
      <4> QED BY <4>1, <4>2
    <3> QED BY <1>3, <2>1, <3>1 DEF SameLine
  <2>2. CASE a.kind # b.kind
    <3>1. a.kind \in {"x", "M", "PC"} /\ b.kind \in {"x", "M", "PC"}
      BY <1>5, <2>2
    <3>2. a.kind # "PC" /\ b.kind # "PC"
      BY <1>4, <1>6, <2>2, KeptFacts
    <3>3. {a.kind, b.kind} = {"x", "M"}
      BY <2>2, <3>1, <3>2
    <3>4. a.val = Latest(t, n, a.kind) /\ b.val = Latest(u, n, b.kind)
      <4>1. a.kind \in Kept /\ b.kind \in Kept
        BY <3>1, KeptFacts
      <4> HIDE DEF a, b
      <4> QED BY <1>4, <1>6, <2>2, <4>1
    <3> QED BY <1>2, <3>3, <3>4 DEF SameLine, Repeats
  <2> QED BY <2>1, <2>2
<1>9. \A i \in 1 .. n + 1 : i \in 1 .. n \/ i = n + 1
  OBVIOUS
<1> QED BY <1>2, <1>8, <1>9 DEF SameTo

-----------------------------------------------------------------------------
\* A log that has ended is not one line behind the other for long.
LEMMA NotShort ==
  ASSUME NEW t, NEW u, Logged(t), Logged(u), NEW j \in Nat, Short(t, u, j), Alike(t, u, j)
  PROVE  j < Len(u) /\ ~ Alike(t, u, j + 1)
<1>1. /\ Lawful(t) /\ Lawful(u) /\ Sized(t) /\ Sized(u) /\ Len(t) \in Nat /\ Len(u) \in Nat
      /\ Len(t) = j - 1 /\ j <= Len(u) /\ u[j].kind \in {"preamble", "x", "M"} /\ j # 0
  BY DEF Logged, Lawful, Sized, Short
<1>2. j < Len(u)
  <2>1. Len(u) # j
    BY <1>1 DEF Logged, Ends
  <2> QED BY <1>1, <2>1
<1>3. /\ Legal(u, j + 1) /\ (j + 1) - 1 = j
      /\ u[j + 1].kind = "NUM" => Latest(u, j + 1, "NUM") = Latest(u, j, "NUM") + 1 /\ Latest(u, j, "NUM") \in Nat
      /\ u[j + 1].kind = "PC" => Latest(u, j + 1, "PC") # Latest(u, j, "PC")
  BY <1>1, <1>2, NextLine
<1>4. u[j + 1].kind \in {"NUM", "PC"}
  <2>1. Before(u, j + 1) = u[j].kind
    BY <1>1, <1>3 DEF Before
  <2> QED BY <1>1, <1>3, <2>1 DEF Legal
<1>5. \A k : Latest(t, j + 1, k) = Latest(t, j, k)
  <2>1. j + 1 \in Nat /\ j + 1 >= Len(t) /\ j >= Len(t)
    BY <1>1
  <2>2. \A k : Latest(t, j + 1, k) = Latest(t, Len(t), k) /\ Latest(t, j, k) = Latest(t, Len(t), k)
    BY <1>1, <2>1, Held
  <2> QED BY <2>2
<1>6. ASSUME Alike(t, u, j + 1) PROVE FALSE
  <2>1. \A k \in {"NUM", "PC"} : Latest(u, j + 1, k) = Latest(u, j, k)
    BY <1>5, <1>6, KeptFacts DEF Alike
  <2> QED BY <1>3, <1>4, <2>1
<1> QED BY <1>2, <1>6

\* One log has a line more than the other: it is a preamble or an access.
LEMMA OneMore ==
  ASSUME NEW t, NEW u, Logged(t), Logged(u), NEW n \in Nat, SameTo(t, u, n), Len(t) = n, n < Len(u),
         Alike(t, u, n), Alike(t, u, n + 1)
  PROVE  Short(t, u, n + 1)
<1>1. /\ Lawful(t) /\ Lawful(u) /\ Sized(t) /\ Sized(u) /\ Len(t) \in Nat /\ Len(u) \in Nat
  BY DEF Logged, Lawful, Sized
<1>2. /\ Legal(u, n + 1) /\ (n + 1) - 1 = n
      /\ u[n + 1].kind = "NUM" => Latest(u, n + 1, "NUM") = Latest(u, n, "NUM") + 1 /\ Latest(u, n, "NUM") \in Nat
      /\ u[n + 1].kind = "PC" => Latest(u, n + 1, "PC") # Latest(u, n, "PC")
  BY <1>1, NextLine
<1>3. \A k : Latest(t, n + 1, k) = Latest(t, n, k)
  BY <1>1, Held
<1>4. \A k \in {"NUM", "PC"} : Latest(u, n + 1, k) = Latest(u, n, k)
  BY <1>3, KeptFacts DEF Alike
<1>5. u[n + 1].kind \in {"preamble", "x", "M"}
  BY <1>2, <1>4 DEF Legal
<1> QED BY <1>1, <1>2, <1>5 DEF Short

\* One agreeing line more.
LEMMA PrefixNext ==
  ASSUME NEW t, NEW u, Logged(t), Logged(u), NEW n \in Nat,
         Alike(t, u, n), Alike(t, u, n + 1), Prefix(t, u, n)
  PROVE  Prefix(t, u, n + 1)
<1>1. Len(t) \in Nat /\ Len(u) \in Nat
  BY DEF Logged, Lawful, Sized
<1>2. CASE SameTo(t, u, n)
  <2>1. n <= Len(t) /\ n <= Len(u)
    BY <1>2 DEF SameTo
  <2>2. CASE n < Len(t) /\ n < Len(u)
    BY <1>2, <2>2, AlikeLine DEF Prefix
  <2>3. CASE n = Len(t) /\ n < Len(u)
    BY <1>2, <2>3, OneMore DEF Prefix
  <2>4. CASE n < Len(t) /\ n = Len(u)
    <3>1. SameTo(u, t, n) /\ Alike(u, t, n) /\ Alike(u, t, n + 1)
      BY <1>2, SameSym
    <3>2. Short(u, t, n + 1)
      BY <2>4, <3>1, OneMore
    <3> QED BY <3>2 DEF Prefix
  <2>5. CASE n = Len(t) /\ n = Len(u)
    BY <1>2, <2>5 DEF Prefix
  <2> QED BY <1>1, <2>1, <2>2, <2>3, <2>4, <2>5
<1>3. CASE Len(t) = Len(u) /\ Len(t) < n /\ SameTo(t, u, Len(t))
  <2>1. Len(t) < n + 1
    BY <1>1, <1>3
  <2> QED BY <1>3, <2>1 DEF Prefix
<1>4. CASE Short(t, u, n)
  BY <1>4, NotShort
<1>5. CASE Short(u, t, n)
  <2>1. Alike(u, t, n) /\ Alike(u, t, n + 1)
    BY SameSym
  <2> QED BY <1>5, <2>1, NotShort
<1> QED BY <1>2, <1>3, <1>4, <1>5 DEF Prefix

\* Logs that say the same line by line are the same, but for one that goes on
\* with a line that changes nothing.
LEMMA PrefixAll ==
  ASSUME NEW t, NEW u, Logged(t), Logged(u), NEW N \in Nat, \A m \in 1 .. N : Alike(t, u, m)
  PROVE  Prefix(t, u, N)
<1> DEFINE T == {n \in Nat : Prefix(t, u, n)}
<1>0. Len(t) \in Nat /\ Len(u) \in Nat /\ Sized(t) /\ Sized(u)
  BY DEF Logged, Lawful, Sized
<1>1. 0 \in T
  <2>1. SameTo(t, u, 0)
    BY <1>0 DEF SameTo
  <2> QED BY <2>1 DEF Prefix
<1>2. Alike(t, u, 0)
  BY <1>0, LatestNone DEF Alike
<1>3. ASSUME NEW n \in 0 .. N - 1, n \in T PROVE n + 1 \in T
  <2>1. n \in Nat /\ (n = 0 \/ n \in 1 .. N) /\ n + 1 \in 1 .. N /\ n + 1 \in Nat
    OBVIOUS
  <2>2. Alike(t, u, n) /\ Alike(t, u, n + 1) /\ Prefix(t, u, n)
    BY <1>2, <1>3, <2>1
  <2>3. Prefix(t, u, n + 1)
    BY <2>1, <2>2, PrefixNext
  <2> QED BY <2>1, <2>3
<1> HIDE DEF T
<1>4. \A n \in 0 .. N : n \in T
  BY <1>1, <1>3, BoundedInduction
<1> QED BY <1>4 DEF T

\* The same lines say the same.
LEMMA SameIsAlike ==
  ASSUME NEW t, NEW u, Sized(t), Sized(u), NEW N \in Nat, SameTo(t, u, N)
  PROVE  \A n \in 0 .. N : Alike(t, u, n)
<1> DEFINE T == {n \in Nat : Alike(t, u, n)}
<1>0. Len(t) \in Nat /\ Len(u) \in Nat /\ N <= Len(t) /\ N <= Len(u)
  BY DEF Sized, SameTo
<1>1. 0 \in T
  BY LatestNone DEF Alike
<1>2. ASSUME NEW n \in 0 .. N - 1, n \in T PROVE n + 1 \in T
  <2>1. n \in Nat /\ n < Len(t) /\ n < Len(u) /\ n + 1 \in 1 .. N /\ (n + 1) - 1 = n /\ n + 1 \in Nat
    BY <1>0
  <2> DEFINE a == t[n + 1]  b == u[n + 1]
  <2>2. /\ \A k : Latest(t, n + 1, k) = IF a.kind = k THEN a.val ELSE Latest(t, n, k)
        /\ \A k : Latest(u, n + 1, k) = IF b.kind = k THEN b.val ELSE Latest(u, n, k)
    BY <2>1, LatestNext
  <2>3. \/ a = b
        \/ {a.kind, b.kind} = {"x", "M"} /\ a.val = Latest(t, n, a.kind) /\ b.val = Latest(u, n, b.kind)
    BY <2>1 DEF SameTo, SameLine, Repeats
  <2>4. Alike(t, u, n)
    BY <1>2
  <2> HIDE DEF a, b
  <2>5. ASSUME NEW k \in Kept PROVE Latest(t, n + 1, k) = Latest(u, n + 1, k)
    BY <2>2, <2>3, <2>4 DEF Alike
  <2>6. Alike(t, u, n + 1)
    BY <2>5 DEF Alike
  <2> QED BY <2>1, <2>6
<1> HIDE DEF T
<1>3. \A n \in 0 .. N : n \in T
  BY <1>1, <1>2, BoundedInduction
<1> QED BY <1>3 DEF T

\* The same runs say the same as long as one likes, the ended included.
LEMMA SameRunIsAlike ==
  ASSUME NEW t, NEW u, Sized(t), Sized(u), SameRun(t, u)
  PROVE  \A n \in Nat : Alike(t, u, n)
<1> DEFINE L == Len(t)
<1>1. L \in Nat /\ Len(u) = L /\ SameTo(t, u, L)
  BY DEF SameRun, Sized
<1> HIDE DEF L
<1>2. \A n \in 0 .. L : Alike(t, u, n)
  BY <1>1, SameIsAlike
<1> SUFFICES ASSUME NEW n \in Nat PROVE Alike(t, u, n)
  OBVIOUS
<1>3. CASE n <= L
  BY <1>1, <1>2, <1>3
<1>4. CASE n > L
  <2>1. \A k : Latest(t, n, k) = Latest(t, L, k) /\ Latest(u, n, k) = Latest(u, L, k)
    <3>1. n >= Len(t) /\ n >= Len(u) /\ Len(t) = L
      BY <1>1, <1>4 DEF L
    <3> QED BY <1>1, <3>1, Held
  <2>2. Alike(t, u, L)
    BY <1>1, <1>2
  <2> QED BY <2>1, <2>2 DEF Alike
<1> QED BY <1>1, <1>3, <1>4

\* Two logs agree line by line exactly if their runs are the same.
LEMMA AgreeIsSameRun ==
  ASSUME NEW t, NEW u, Logged(t), Logged(u)
  PROVE  Agree(t, u) <=> SameRun(t, u)
<1>1. Len(t) \in Nat /\ Len(u) \in Nat /\ Sized(t) /\ Sized(u)
  BY DEF Logged, Lawful, Sized
<1> DEFINE a == Len(t)  b == Len(u)  N == a + b
<1>2. N \in Nat /\ a \in Nat /\ b \in Nat
  BY <1>1
<1>3. Agree(t, u) <=> \A m \in 1 .. N : Alike(t, u, m)
  BY DEF Agree, Alike
<1>4. SameRun(t, u) => Agree(t, u)
  BY <1>1, <1>2, <1>3, SameRunIsAlike
<1>5. ASSUME Agree(t, u) PROVE SameRun(t, u)
  <2> HIDE DEF N
  <2>1. Prefix(t, u, N)
    BY <1>2, <1>3, <1>5, PrefixAll
  <2>2. CASE SameTo(t, u, N)
    <3>1. N <= a /\ N <= b
      BY <2>2 DEF SameTo
    <3>2. a = 0 /\ b = 0 /\ N = 0
      BY <1>2, <3>1 DEF N
    <3> QED BY <2>2, <3>2 DEF SameRun
  <2>3. CASE a = b /\ a < N /\ SameTo(t, u, a)
    BY <2>3 DEF SameRun
  <2>4. ASSUME NEW s, NEW w, Logged(w), Short(s, w, N), Len(s) \in Nat, Len(w) \in Nat, N = Len(s) + Len(w) PROVE FALSE
    <3>1. Len(w) = 1 /\ N <= 1 /\ N >= 1
      BY <2>4 DEF Short
    <3>2. w[1].kind \in {"preamble", "x", "M"} /\ N = 1
      BY <1>2, <2>4, <3>1 DEF Short
    <3> QED BY <2>4, <3>1, <3>2 DEF Logged, Ends
  <2>5. ~ Short(t, u, N) /\ ~ Short(u, t, N)
    <3>1. N = Len(t) + Len(u) /\ N = Len(u) + Len(t)
      BY <1>1 DEF N
    <3> QED BY <1>1, <2>4, <3>1
  <2> QED BY <2>1, <2>2, <2>3, <2>5 DEF Prefix
<1> QED BY <1>4, <1>5

\* The logs of moving runs are such logs.
LEMMA LogsAreLogged ==
  ASSUME NEW t \in Traces, t \in Logs PROVE Logged(t)
<1>1. PICK r \in Runs : Moving(r) /\ t = Log(r)
  BY DEF Logs
<1>2. Lawful(t) /\ Ends(t)
  BY <1>1, LogShape
<1> QED BY <1>2, TraceFacts DEF Logged, Lined

(* Of two logs of runs that move the pc at every instruction, the comparison *)
(* succeeds exactly if the runs are the same, but for a register written    *)
(* with the value logged last against a word of memory written so           *)
(* (__compare in cosim.py, with the lines logged by executor.hh 44-49,      *)
(* state.hh 34 and memory.hh 217).                                          *)
THEOREM SuccessAlwaysMeansSameRun == Spec => []SuccessMeansSameRun
<1>1. CosimInv /\ VerdictIsAgreement => SuccessMeansSameRun
  <2> SUFFICES ASSUME CosimInv, VerdictIsAgreement, phase = "done", \A s \in Sides : trace[s] \in Logs
               PROVE  isSame <=> SameRun(trace["master"], trace["slave"])
    BY DEF SuccessMeansSameRun
  <2>1. \A s \in Sides : trace[s] \in Traces
    BY DEF CosimInv, Typed, TypeOK
  <2>2. Logged(trace["master"]) /\ Logged(trace["slave"])
    BY <2>1, LogsAreLogged DEF Sides
  <2> QED BY <2>2, AgreeIsSameRun DEF VerdictIsAgreement
<1> QED BY <1>1, CosimInvariant, VerdictIsAlwaysAgreement, PTL

-----------------------------------------------------------------------------
\* What __compare can say of the first line that differs, num being the number
\* the first of the two has reached.
Outlasts(t, u, n) == Len(t) < n + 1 /\ n < Len(u) /\ SameTo(t, u, Len(t))
DiffersIn(t, u, num) ==
  \E i \in 1 .. Len(t) :
     /\ t[i] = [kind |-> "NUM", val |-> num]
     /\ SameTo(t, u, i) /\ ~ SameRun(t, u)
     /\ \A j \in i + 1 .. Len(t) : SameTo(t, u, j) => t[j].kind \in {"x", "M"}

\* A NUM line gives the number said last.
LEMMA NumberedLine ==
  ASSUME NEW t, Logged(t), NEW i \in 1 .. Len(t), t[i].kind = "NUM"
  PROVE  t[i] = [kind |-> "NUM", val |-> Latest(t, i, "NUM")]
<1>1. Sized(t) /\ Len(t) \in Nat /\ i - 1 \in Nat /\ i - 1 < Len(t) /\ (i - 1) + 1 = i
  BY DEF Logged, Lawful, Sized
<1> DEFINE n == i - 1
<1>2. n \in Nat /\ n < Len(t) /\ n + 1 = i
  BY <1>1
<1> HIDE DEF n
<1>3. Latest(t, n + 1, "NUM") = IF t[n + 1].kind = "NUM" THEN t[n + 1].val ELSE Latest(t, n, "NUM")
  BY <1>1, <1>2, LatestNext
<1>4. t[i] = [kind |-> t[i].kind, val |-> t[i].val]
  BY DEF Logged, Lined
<1> QED BY <1>2, <1>3, <1>4

\* Both logs are the same to line n, but not to the next.
LEMMA BothDiffer ==
  ASSUME NEW t, NEW u, Logged(t), Logged(u), NEW n \in Nat \ {0}, SameTo(t, u, n),
         \A m \in 1 .. n : Alike(t, u, m), ~ Alike(t, u, n + 1)
  PROVE  IF Latest(t, n + 1, "NUM") # Latest(u, n + 1, "NUM")
         THEN Outlasts(t, u, n) \/ Outlasts(u, t, n)
         ELSE DiffersIn(t, u, Latest(t, n + 1, "NUM"))
<1>1. /\ Lawful(t) /\ Lawful(u) /\ Sized(t) /\ Sized(u) /\ Len(t) \in Nat /\ Len(u) \in Nat
      /\ n <= Len(t) /\ n <= Len(u) /\ n \in 1 .. n /\ n \in Nat
  BY DEF Logged, Lawful, Sized, SameTo
<1>2. \A k \in Kept : Latest(t, n, k) = Latest(u, n, k)
  BY <1>1 DEF Alike
<1>3. /\ n = Len(t) => \A k : Latest(t, n + 1, k) = Latest(t, n, k)
      /\ n = Len(u) => \A k : Latest(u, n + 1, k) = Latest(u, n, k)
  BY <1>1, Held
<1>4. /\ n < Len(t) => /\ Legal(t, n + 1)
                       /\ \A k : Latest(t, n + 1, k) = IF t[n + 1].kind = k THEN t[n + 1].val ELSE Latest(t, n, k)
                       /\ t[n + 1].kind = "NUM" => Latest(t, n + 1, "NUM") = Latest(t, n, "NUM") + 1
      /\ n < Len(u) => /\ Legal(u, n + 1)
                       /\ \A k : Latest(u, n + 1, k) = IF u[n + 1].kind = k THEN u[n + 1].val ELSE Latest(u, n, k)
                       /\ u[n + 1].kind = "NUM" => Latest(u, n + 1, "NUM") = Latest(u, n, "NUM") + 1
      /\ (n + 1) - 1 = n /\ n + 1 # 1
  <2> SUFFICES ASSUME NEW w, Lawful(w), n < Len(w)
               PROVE  /\ Legal(w, n + 1)
                      /\ \A k : Latest(w, n + 1, k) = IF w[n + 1].kind = k THEN w[n + 1].val ELSE Latest(w, n, k)
                      /\ w[n + 1].kind = "NUM" => Latest(w, n + 1, "NUM") = Latest(w, n, "NUM") + 1
    BY <1>1
  <2> QED BY <1>1, NextLine
<1>5. n < Len(t) /\ n < Len(u) =>
        \/ t[n + 1].kind = u[n + 1].kind
        \/ t[n + 1].kind \in {"x", "M", "PC"} /\ u[n + 1].kind \in {"x", "M", "PC"}
  BY <1>1, NextAlike
<1>6. ASSUME Latest(t, n + 1, "NUM") # Latest(u, n + 1, "NUM")
      PROVE  Outlasts(t, u, n) \/ Outlasts(u, t, n)
  <2>1. ~ (n < Len(t) /\ n < Len(u))
    BY <1>2, <1>4, <1>5, <1>6, KeptFacts
  <2>2. ~ (n = Len(t) /\ n = Len(u))
    BY <1>2, <1>3, <1>6, KeptFacts
  <2>3. (Len(t) = n /\ n < Len(u)) \/ (Len(u) = n /\ n < Len(t))
    BY <1>1, <2>1, <2>2
  <2>4. SameTo(u, t, n) /\ n < n + 1
    BY SameSym
  <2> QED BY <2>3, <2>4 DEF Outlasts
<1>7. ASSUME Latest(t, n + 1, "NUM") = Latest(u, n + 1, "NUM")
      PROVE  DiffersIn(t, u, Latest(t, n + 1, "NUM"))
  <2>1. t[n].kind \notin {"PC", "preamble"}
    <3>1. Before(t, n + 1) = t[n].kind /\ Before(u, n + 1) = u[n].kind
      BY <1>4 DEF Before
    <3>2. SameLine(t, u, n)
      BY <1>1 DEF SameTo
    <3>3. CASE t[n].kind = "PC"
      <4>1. u[n].kind = "PC"
        BY <3>2, <3>3 DEF SameLine
      <4>2. (n < Len(t) => t[n + 1].kind = "preamble") /\ (n < Len(u) => u[n + 1].kind = "preamble")
        BY <1>4, <3>1, <3>3, <4>1 DEF Legal
      <4>3. \A k \in Kept : Latest(t, n + 1, k) = Latest(t, n, k) /\ Latest(u, n + 1, k) = Latest(u, n, k)
        BY <1>1, <1>3, <1>4, <4>2, KeptFacts
      <4> QED BY <1>2, <4>3 DEF Alike
    <3>4. CASE t[n].kind = "preamble"
      <4>1. u[n].kind = "preamble"
        BY <3>2, <3>4 DEF SameLine
      <4>2. (n < Len(t) => t[n + 1].kind = "NUM") /\ (n < Len(u) => u[n + 1].kind = "NUM")
        BY <1>4, <3>1, <3>4, <4>1 DEF Legal
      <4>3. Len(t) # n /\ Len(u) # n
        BY <4>1, <3>4, <1>1 DEF Logged, Ends
      <4>4. /\ \A k \in Kept : Latest(t, n + 1, k) = IF k = "NUM" THEN Latest(t, n + 1, "NUM") ELSE Latest(t, n, k)
            /\ \A k \in Kept : Latest(u, n + 1, k) = IF k = "NUM" THEN Latest(u, n + 1, "NUM") ELSE Latest(u, n, k)
        BY <1>1, <1>4, <4>2, <4>3
      <4> QED BY <1>2, <1>7, <4>4 DEF Alike
    <3> QED BY <3>3, <3>4
  <2>2. ~ SameRun(t, u)
    BY <1>1, SameRunIsAlike
  <2>3. ASSUME NEW j \in Nat, j > n, SameTo(t, u, j) PROVE FALSE
    <3>1. n + 1 \in 0 .. j
      BY <1>1, <2>3
    <3>2. Alike(t, u, n + 1)
      BY <1>1, <2>3, <3>1, SameIsAlike
    <3> QED BY <3>2
  <2>4. ASSUME n < Len(t), t[n].kind \in {"NUM", "x", "M"} PROVE t[n + 1].kind # "NUM"
    <3>1. Before(t, n + 1) = t[n].kind
      BY <1>4 DEF Before
    <3> QED BY <1>4, <2>4, <3>1 DEF Legal
  <2>5. t[n].kind \in {"NUM", "x", "M"} => Latest(t, n + 1, "NUM") = Latest(t, n, "NUM")
    <3>1. n < Len(t) \/ n = Len(t)
      BY <1>1
    <3> QED BY <1>3, <1>4, <2>4, <3>1
  <2>6. Legal(t, n) /\ n \in 1 .. Len(t)
    BY <1>1 DEF Lawful
  <2>7. CASE t[n].kind = "NUM"
    <3>1. t[n] = [kind |-> "NUM", val |-> Latest(t, n + 1, "NUM")]
      BY <2>5, <2>6, <2>7, NumberedLine
    <3>2. \A j \in n + 1 .. Len(t) : ~ SameTo(t, u, j)
      BY <1>1, <2>3
    <3> QED BY <2>2, <2>6, <3>1, <3>2 DEF DiffersIn
  <2>8. CASE t[n].kind \in {"x", "M"}
    <3> DEFINE i == n - 1
    <3>1. Before(t, n) = "NUM"
      BY <2>6, <2>8 DEF Legal
    <3>2. n # 1 /\ t[i].kind = "NUM"
      BY <3>1 DEF Before
    <3>3. i \in 1 .. Len(t) /\ i \in Nat /\ i + 1 = n /\ i < Len(t) /\ i <= Len(u)
      BY <1>1, <3>2
    <3> HIDE DEF i
    <3>4. t[i] = [kind |-> "NUM", val |-> Latest(t, i, "NUM")]
      BY <3>2, <3>3, NumberedLine
    <3>5. Latest(t, n, "NUM") = Latest(t, i, "NUM")
      <4>1. Latest(t, i + 1, "NUM") = IF t[i + 1].kind = "NUM" THEN t[i + 1].val ELSE Latest(t, i, "NUM")
        BY <1>1, <3>3, LatestNext
      <4>2. t[n].kind # "NUM"
        BY <2>8
      <4> QED BY <3>3, <4>1, <4>2
    <3>6. SameTo(t, u, i)
      <4>1. \A m \in 1 .. i : m \in 1 .. n
        BY <1>1, <3>3
      <4> QED BY <3>3, <4>1 DEF SameTo
    <3>7. ASSUME NEW j \in i + 1 .. Len(t), SameTo(t, u, j) PROVE t[j].kind \in {"x", "M"}
      <4>1. j \in Nat /\ j >= n
        BY <1>1, <3>3
      <4>2. j = n
        BY <1>1, <2>3, <3>7, <4>1
      <4> QED BY <2>8, <4>2
    <3>8. t[i] = [kind |-> "NUM", val |-> Latest(t, n + 1, "NUM")]
      BY <2>5, <2>8, <3>4, <3>5
    <3> QED BY <2>2, <3>3, <3>6, <3>7, <3>8 DEF DiffersIn
  <2> QED BY <2>1, <2>6, <2>7, <2>8 DEF Legal
<1> QED BY <1>6, <1>7

-----------------------------------------------------------------------------
\* One log ended a line before n, where the other goes on with an access or a preamble.
LEMMA ShortDiffers ==
  ASSUME NEW s, NEW w, Logged(s), Logged(w), NEW n \in Nat \ {0}, Short(s, w, n),
         Alike(s, w, n), ~ Alike(s, w, n + 1)
  PROVE  IF Latest(s, n + 1, "NUM") # Latest(w, n + 1, "NUM")
         THEN Outlasts(s, w, n)
         ELSE /\ DiffersIn(s, w, Latest(s, n + 1, "NUM"))
              /\ DiffersIn(w, s, Latest(w, n + 1, "NUM"))
<1>1. /\ Lawful(s) /\ Lawful(w) /\ Sized(s) /\ Sized(w) /\ Len(s) \in Nat /\ Len(w) \in Nat /\ n \in Nat
      /\ Len(s) = n - 1 /\ n <= Len(w) /\ SameTo(s, w, n - 1) /\ w[n].kind \in {"preamble", "x", "M"}
  BY DEF Logged, Lawful, Sized, Short
<1>2. n < Len(w)
  BY <1>1, NotShort
<1>3. Outlasts(s, w, n)
  BY <1>1, <1>2 DEF Outlasts
<1>4. ASSUME Latest(s, n + 1, "NUM") = Latest(w, n + 1, "NUM")
      PROVE  DiffersIn(s, w, Latest(s, n + 1, "NUM")) /\ DiffersIn(w, s, Latest(w, n + 1, "NUM"))
  <2>1. /\ Legal(w, n + 1) /\ (n + 1) - 1 = n /\ n + 1 # 1
        /\ \A k : Latest(w, n + 1, k) = IF w[n + 1].kind = k THEN w[n + 1].val ELSE Latest(w, n, k)
        /\ w[n + 1].kind = "NUM" => Latest(w, n + 1, "NUM") = Latest(w, n, "NUM") + 1 /\ Latest(w, n, "NUM") \in Nat
    BY <1>1, <1>2, NextLine
  <2>2. Latest(s, n + 1, "NUM") = Latest(w, n, "NUM")
    <3>1. n >= Len(s) /\ n + 1 >= Len(s) /\ n + 1 \in Nat
      BY <1>1
    <3>2. Latest(s, n + 1, "NUM") = Latest(s, Len(s), "NUM") /\ Latest(s, n, "NUM") = Latest(s, Len(s), "NUM")
      BY <1>1, <3>1, Held
    <3> QED BY <3>2, KeptFacts DEF Alike
  <2>3. w[n + 1].kind # "NUM"
    BY <1>4, <2>1, <2>2
  <2>4. Before(w, n + 1) = w[n].kind
    BY <2>1 DEF Before
  <2>5. w[n].kind \in {"x", "M"}
    BY <1>1, <2>1, <2>3, <2>4 DEF Legal
  <2> DEFINE i == n - 1
  <2>6. Legal(w, n) /\ n \in 1 .. Len(w)
    BY <1>1 DEF Lawful
  <2>7. n # 1 /\ w[i].kind = "NUM"
    BY <2>5, <2>6 DEF Legal, Before
  <2>8. i \in Nat /\ i \in 1 .. i /\ i + 1 = n /\ i < Len(w) /\ i \in 1 .. Len(w) /\ i \in 1 .. Len(s) /\ SameTo(s, w, i)
        /\ Len(s) = i
    BY <1>1, <2>7
  <2> HIDE DEF i
  <2>9. SameTo(w, s, i) /\ ~ SameRun(s, w) /\ ~ SameRun(w, s)
    BY <1>1, <1>2, <2>8, SameSym DEF SameRun
  <2>10. s[i] = w[i]
    <3>1. SameLine(s, w, i)
      BY <2>8 DEF SameTo
    <3> QED BY <2>7, <3>1 DEF SameLine
  <2>11. w[i] = [kind |-> "NUM", val |-> Latest(w, i, "NUM")]
    BY <2>7, <2>8, NumberedLine
  <2>12. Latest(w, n, "NUM") = Latest(w, i, "NUM")
    <3>1. Latest(w, i + 1, "NUM") = IF w[i + 1].kind = "NUM" THEN w[i + 1].val ELSE Latest(w, i, "NUM")
      BY <1>1, <2>8, LatestNext
    <3>2. w[n].kind # "NUM"
      BY <2>5
    <3> QED BY <2>8, <3>1, <3>2
  <2>13. \A j : SameTo(s, w, j) \/ SameTo(w, s, j) => j <= i
    BY <2>8 DEF SameTo
  <2>14. \A j \in i + 1 .. Len(w) : ~ SameTo(s, w, j) /\ ~ SameTo(w, s, j)
    BY <1>1, <2>8, <2>13
  <2>15. \A j \in i + 1 .. Len(s) : ~ SameTo(s, w, j) /\ ~ SameTo(w, s, j)
    BY <1>1, <2>8, <2>13
  <2> QED BY <1>4, <2>2, <2>8, <2>9, <2>10, <2>11, <2>12, <2>14, <2>15 DEF DiffersIn
<1> QED BY <1>3, <1>4

\* Where two logs first differ, __compare sees either that one outlasts the
\* other or the number of the instruction in which they differ.
LEMMA FirstDifference ==
  ASSUME NEW t, NEW u, Logged(t), Logged(u), NEW n \in Nat \ {0}, n < Len(t) \/ n < Len(u),
         \A m \in 1 .. n : Alike(t, u, m), ~ Alike(t, u, n + 1)
  PROVE  IF Latest(t, n + 1, "NUM") # Latest(u, n + 1, "NUM")
         THEN Outlasts(t, u, n) \/ Outlasts(u, t, n)
         ELSE DiffersIn(t, u, Latest(t, n + 1, "NUM"))
<1>1. Prefix(t, u, n) /\ Alike(t, u, n) /\ Len(t) \in Nat /\ Len(u) \in Nat
  <2>1. n \in Nat /\ n \in 1 .. n
    OBVIOUS
  <2> QED BY <2>1, PrefixAll DEF Logged, Lawful, Sized
<1>2. CASE SameTo(t, u, n)
  BY <1>2, BothDiffer
<1>3. CASE Short(t, u, n)
  BY <1>1, <1>3, ShortDiffers
<1>4. CASE Short(u, t, n)
  <2>1. Alike(u, t, n) /\ ~ Alike(u, t, n + 1)
    BY <1>1, SameSym
  <2> QED BY <1>4, <2>1, ShortDiffers
<1> QED BY <1>1, <1>2, <1>3, <1>4 DEF Prefix

\* The two messages that are right.
LEMMA Finished ==
  ASSUME NEW who,
         errorMsg' = [what |-> "finished", who |-> who], \A s \in Sides : EOF'[s] <=> s = who,
         SameTo(trace'["master"], trace'["slave"], Len(trace'[who]))
  PROVE  DiagnosisIsRight'
<1>1. errorMsg'.what = "finished" /\ errorMsg'.who = who /\ errorMsg'.what # "mismatch"
  OBVIOUS
<1> QED BY <1>1 DEF DiagnosisIsRight

\* A mismatch at an instruction both have.
LEMMA Mismatched ==
  ASSUME NEW num, errorMsg' = [what |-> "mismatch", num |-> num], NEW i \in 1 .. read'["master"],
         trace'["master"][i] = [kind |-> "NUM", val |-> num],
         SameTo(trace'["master"], trace'["slave"], i), ~ SameRun(trace'["master"], trace'["slave"]),
         \A j \in i + 1 .. Len(trace'["master"]) :
           SameTo(trace'["master"], trace'["slave"], j) => trace'["master"][j].kind \in {"x", "M"}
  PROVE  DiagnosisIsRight'
<1>1. errorMsg'.what = "mismatch" /\ errorMsg'.num = num /\ errorMsg'.what # "finished"
  OBVIOUS
<1> QED BY <1>1 DEF DiagnosisIsRight

\* The message a turn leaves on two logs is right.
LEMMA TurnDiagnoses ==
  ASSUME CosimInv, Turn, errorMsg' # None, \A s \in Sides : trace[s] \in Logs
  PROVE  DiagnosisIsRight'
<1> DEFINE t == trace["master"]  u == trace["slave"]  n == Frontier
<1>1. /\ Typed /\ KeepsLatest /\ InStep /\ n >= 1 /\ AgreeTo(n) /\ trace' = trace
      /\ errorMsg' = Verdict(state', EOF')
      /\ read' = [s \in Sides |-> read[s] + (IF HasLine(s) THEN 1 ELSE 0)]
      /\ EOF' = [s \in Sides |-> EOF[s] \/ ~ HasLine(s)]
  BY DEF CosimInv, Turn, Running
<1>2. "master" \in Sides /\ "slave" \in Sides /\ Sides = {"master", "slave"}
  BY DEF Sides
<1>3. \A s \in Sides : /\ trace[s] \in Traces /\ Len(trace[s]) \in Nat /\ read[s] \in Nat
                       /\ read[s] <= Len(trace[s]) /\ EOF[s] \in BOOLEAN
  BY <1>1, TraceFacts DEF Typed, TypeOK
<1>4. n \in Nat \ {0} /\ \A s \in Sides : read[s] <= n
  BY <1>1, <1>2, <1>3 DEF Frontier
<1>5. Typed' /\ KeepsLatest' /\ InStep' /\ (Frontier' = n \/ Frontier' = n + 1)
  BY <1>1, TurnKeepsLatest, TurnInStep
<1>6. Logged(t) /\ Logged(u)
  BY <1>2, <1>3, LogsAreLogged
<1>7. \A m \in 1 .. n : Alike(t, u, m)
  BY <1>1 DEF AgreeTo, Alike
<1>8. \A s \in Sides : read'[s] \in Nat /\ read'[s] <= Len(trace[s]) /\ read'[s] <= Frontier'
                       /\ (read'[s] = Frontier' \/ read'[s] = Len(trace[s]))
  <2>1. \A s \in Sides : read'[s] \in Nat /\ read'[s] <= Len(trace[s])
    BY <1>1, <1>5 DEF Typed, TypeOK
  <2>2. \A s \in Sides : read'[s] <= Frontier'
    BY <1>2, <2>1 DEF Frontier
  <2> QED BY <1>1, <1>5, <2>1, <2>2 DEF InStep
<1>9. \A s \in Sides, k \in Kept : state'[s][k] = Latest(trace[s], Frontier', k)
  <2> SUFFICES ASSUME NEW s \in Sides, NEW k \in Kept
               PROVE  state'[s][k] = Latest(trace[s], Frontier', k)
    OBVIOUS
  <2>1. state'[s][k] = Latest(trace[s], read'[s], k)
    <3>1. \A q \in Sides : state'[q] = [j \in Kept |-> Latest(trace'[q], read'[q], j)]
      BY <1>5 DEF KeepsLatest
    <3>2. state'[s] = [j \in Kept |-> Latest(trace[s], read'[s], j)]
      BY <1>1, <3>1
    <3> QED BY <3>2
  <2>2. Frontier' \in Nat
    BY <1>4, <1>5
  <2> QED BY <1>3, <1>8, <2>1, <2>2, FrontIsReached
<1>10. ~ Alike(t, u, Frontier')
  <2> SUFFICES ASSUME Alike(t, u, Frontier') PROVE FALSE
    OBVIOUS
  <2>1. \A k \in Kept : state'["master"][k] = state'["slave"][k]
    BY <1>2, <1>9 DEF Alike
  <2>2. \A s \in Sides : state'[s] = [k \in Kept |-> Latest(trace[s], read'[s], k)]
    BY <1>1, <1>5 DEF KeepsLatest
  <2>3. state'["master"] = state'["slave"]
    BY <1>2, <2>1, <2>2
  <2> QED BY <1>1, <2>3 DEF Verdict
<1>11. Frontier' = n + 1
  <2>1. n \in 1 .. n
    BY <1>4
  <2> QED BY <1>5, <1>7, <1>10, <2>1
<1>12. n < Len(t) \/ n < Len(u)
  <2>1. Frontier' = read'["master"] \/ Frontier' = read'["slave"]
    BY DEF Frontier
  <2> HIDE DEF n
  <2> QED BY <1>2, <1>3, <1>4, <1>8, <1>11, <2>1
<1> HIDE DEF n
<1>13. IF Latest(t, n + 1, "NUM") # Latest(u, n + 1, "NUM")
       THEN Outlasts(t, u, n) \/ Outlasts(u, t, n)
       ELSE DiffersIn(t, u, Latest(t, n + 1, "NUM"))
  <2> HIDE DEF t, u
  <2> QED BY <1>4, <1>6, <1>7, <1>10, <1>11, <1>12, FirstDifference
<1>14. \A s \in Sides : /\ Len(trace[s]) < n + 1 => EOF'[s]
                        /\ n < Len(trace[s]) => ~ EOF'[s]
  <2>1. \A s \in Sides : (read[s] = n \/ read[s] = Len(trace[s])) /\ (EOF[s] => read[s] = Len(trace[s]))
    BY <1>1 DEF InStep, n
  <2>2. \A s \in Sides : Len(trace[s]) < n + 1 => read[s] = Len(trace[s])
    BY <1>3, <1>4, <2>1
  <2>3. \A s \in Sides : n < Len(trace[s]) => read[s] < Len(trace[s])
    BY <1>3, <1>4
  <2>4. \A s \in Sides : EOF'[s] <=> EOF[s] \/ ~ (~ EOF[s] /\ read[s] < Len(trace[s]))
    BY <1>1, <1>3 DEF HasLine
  <2> QED BY <1>3, <2>1, <2>2, <2>3, <2>4
<1>15. state'["master"]["NUM"] = Latest(t, n + 1, "NUM") /\ state'["slave"]["NUM"] = Latest(u, n + 1, "NUM")
  BY <1>2, <1>9, <1>11, KeptFacts
<1>16. CASE Latest(t, n + 1, "NUM") # Latest(u, n + 1, "NUM")
  <2> DEFINE who == IF EOF'["master"] THEN "master" ELSE "slave"
  <2>1. errorMsg' = [what |-> "finished", who |-> who]
    BY <1>1, <1>15, <1>16 DEF Verdict
  <2>2. Outlasts(t, u, n) \/ Outlasts(u, t, n)
    BY <1>13, <1>16
  <2>3. CASE Outlasts(t, u, n)
    <3>1. EOF'["master"] /\ ~ EOF'["slave"] /\ SameTo(t, u, Len(t))
      BY <1>2, <1>14, <2>3 DEF Outlasts
    <3>2. who = "master"
      BY <3>1
    <3>3. \A s \in Sides : EOF'[s] <=> s = "master"
      BY <1>2, <3>1
    <3> QED BY <1>1, <2>1, <3>1, <3>2, <3>3, Finished
  <2>4. CASE Outlasts(u, t, n)
    <3>1. EOF'["slave"] /\ ~ EOF'["master"] /\ SameTo(t, u, Len(u))
      BY <1>2, <1>14, <2>4, SameSym DEF Outlasts
    <3>2. who = "slave"
      BY <3>1
    <3>3. \A s \in Sides : EOF'[s] <=> s = "slave"
      BY <1>2, <3>1
    <3> QED BY <1>1, <2>1, <3>1, <3>2, <3>3, Finished
  <2> QED BY <2>2, <2>3, <2>4
<1>17. CASE Latest(t, n + 1, "NUM") = Latest(u, n + 1, "NUM")
  <2> DEFINE num == Latest(t, n + 1, "NUM")
  <2>1. errorMsg' = [what |-> "mismatch", num |-> num]
    BY <1>1, <1>15, <1>17 DEF Verdict
  <2>2. DiffersIn(t, u, num)
    BY <1>13, <1>17
  <2> HIDE DEF num
  <2>3. PICK i \in 1 .. Len(t) :
           /\ t[i] = [kind |-> "NUM", val |-> num]
           /\ SameTo(t, u, i) /\ ~ SameRun(t, u)
           /\ \A j \in i + 1 .. Len(t) : SameTo(t, u, j) => t[j].kind \in {"x", "M"}
    BY <2>2 DEF DiffersIn
  <2>4. i < n + 1
    <3> SUFFICES ASSUME n + 1 <= i PROVE FALSE
      BY <1>3, <1>4
    <3>1. n + 1 \in 0 .. i /\ i \in Nat /\ Sized(t) /\ Sized(u)
      BY <1>4, <1>6 DEF Logged, Lawful
    <3>2. Alike(t, u, n + 1)
      <4> HIDE DEF t, u
      <4> QED BY <2>3, <3>1, SameIsAlike
    <3> QED BY <1>10, <1>11, <3>2
  <2>5. i \in 1 .. read'["master"]
    BY <1>2, <1>3, <1>4, <1>8, <1>11, <2>4
  <2> QED BY <1>1, <2>1, <2>3, <2>5, Mismatched
<1> QED BY <1>16, <1>17

(* For such logs the message __compare leaves is right: the side said to    *)
(* have finished has, and the number of a mismatch is that of the first     *)
(* instruction in which the runs differ (__compare in cosim.py).            *)
THEOREM DiagnosisIsAlwaysRight == Spec => []DiagnosisIsRight
<1> DEFINE Inv == CosimInv /\ DiagnosisIsRight
<1>1. Init => DiagnosisIsRight
  BY DEF Init, DiagnosisIsRight
<1>2. CosimInv /\ DiagnosisIsRight /\ [Next]_vars => DiagnosisIsRight'
  <2> SUFFICES ASSUME CosimInv, DiagnosisIsRight, [Next]_vars PROVE DiagnosisIsRight'
    OBVIOUS
  <2>1. CASE UNCHANGED <<trace, read, EOF, errorMsg>>
    BY <2>1 DEF DiagnosisIsRight
  <2>2. CASE Open
    <3>1. errorMsg' = None
      BY <2>2 DEF Open, CosimInv, Typed, TypeOK
    <3> QED BY <3>1 DEF DiagnosisIsRight
  <2>3. CASE Turn
    <3>1. CASE errorMsg' # None /\ \A s \in Sides : trace[s] \in Logs
      BY <2>3, <3>1, TurnDiagnoses
    <3>2. CASE errorMsg' = None
      BY <3>2 DEF DiagnosisIsRight
    <3>3. CASE ~ \A s \in Sides : trace[s] \in Logs
      <4>1. trace' = trace
        BY <2>3 DEF Turn
      <4> QED BY <3>3, <4>1 DEF DiagnosisIsRight
    <3> QED BY <3>1, <3>2, <3>3
  <2> QED BY <2>1, <2>2, <2>3 DEF Next, vars, OpenRaised, TurnRaised, DumpResults, Raise
<1> QED BY <1>1, <1>2, CosimInvariant, PTL DEF Spec
=============================================================================
