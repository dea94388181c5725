------------------------------ MODULE MCCosim ------------------------------
(* Runs of up to two instructions, the last of which may have thrown, that  *)
(* write one of two values to a register or one to memory, or nothing, and  *)
(* go to one of two addresses, the same one again included; and of three    *)
(* instructions, where the third may repeat what the first or the second    *)
(* wrote.  Of each run                                                      *)
(* the log, and logs as another simulator or a damaged file would have      *)
(* them: numbered from zero, a line lost, doubled or spoilt.                *)
EXTENDS Cosim

Written == { <<>>, <<[kind |-> "x", val |-> 5]>>, <<[kind |-> "x", val |-> 6]>>,
             <<[kind |-> "M", val |-> 5]>> }
Done  == [writes : Written, pc : {4, 8}]
Threw == [writes |-> <<>>, pc |-> None]

Completed == {<<>>} \union { <<a>> : a \in Done } \union { <<a, b>> : a, b \in Done }
Repeating == { <<[writes |-> <<[kind |-> "x", val |-> 5]>>, pc |-> 4],
                 [writes |-> <<[kind |-> "M", val |-> 5]>>, pc |-> 8], c>> : c \in Done }
MCRuns == Completed \union Repeating \union { Append(r, Threw) : r \in Completed }

FromZero(t) == [i \in DOMAIN t |-> IF t[i].kind = "NUM" THEN [t[i] EXCEPT !.val = @ - 1] ELSE t[i]]
Garbled(t, i) == [t EXCEPT ![i].kind = "garbage"]

Some == Log(<<[writes |-> <<[kind |-> "x", val |-> 5]>>, pc |-> 4],
              [writes |-> <<[kind |-> "x", val |-> 5]>>, pc |-> 8]>>)
MCTraces ==
  { Log(r) : r \in MCRuns }
    \union { FromZero(Some) }
    \union UNION { {RemoveAt(Some, i), InsertAt(Some, i, Some[i]), Garbled(Some, i)} : i \in DOMAIN Some }
=============================================================================
