------------------------------ MODULE MCLoader ------------------------------
(* Three pages of four bytes, words of two.  One or two segments at         *)
(* addresses aligned and not, with up to three bytes of text: no whole      *)
(* word, one, one and a half; memory sizes from nothing to all but one      *)
(* byte of the address space, so that segments overlap, wrap around the     *)
(* address space and fill for ever.                                         *)
EXTENDS Loader

Texts == { <<>>, <<1>>, <<1, 2>>, <<1, 2, 3>> }
Raised(t) == [b \in DOMAIN t |-> t[b] + 3]

First  == [type : {"PT_LOAD"}, addr : {0, 2, 3, 10}, data : Texts, memSize : {0, 2, 3, 5, 11}]
Second == [type : {"PT_LOAD", "other"}, addr : {0, 2, 4, 9},
           data : { Raised(t) : t \in Texts }, memSize : {0, 2, 4, 5}]

File(flaws, segments) == [flaws |-> flaws, entry |-> 4, segments |-> segments]

MCFiles ==
  { File({}, <<s, t>>) : s \in First, t \in Second }
    \union { File({}, <<s>>) : s \in First } \union { File({}, <<>>) }
    \union { File(flaws, <<s>>) : flaws \in SUBSET Flaws \ {{}}, s \in {CHOOSE s \in First : TRUE} }
=============================================================================
