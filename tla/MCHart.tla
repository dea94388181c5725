------------------------------- MODULE MCHart -------------------------------
(* Programs of four words in two pages.  A word is named for its            *)
(* instruction; every assignment of words to mapped pages is an initial     *)
(* state, that is, every program over the words of the run.                 *)
EXTENDS Hart

MCDecode ==
  [w \in Word |->
     CASE w = "br"  -> [kind |-> "branch", imm |-> 2 * WordBytes]
       [] w = "jal" -> [kind |-> "jal", imm |-> -WordBytes]
       [] w \in {"jalr", "ecall", "store", "load", "op"} -> [kind |-> w, imm |-> 0]
       [] w = "and" -> [kind |-> "unimplemented", imm |-> 0]
       [] OTHER     -> [kind |-> "UNKNOWN", imm |-> 0]]

\* --bbc-size -1, the default, and 0 (a cfg cannot hold a negative number).
AllOrNone == {-1, 0}
=============================================================================
