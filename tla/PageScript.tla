----------------------------- MODULE PageScript -----------------------------
(***************************************************************************)
(* What the modules of a page's scripts share: each keeps its state in one  *)
(* variable, which is Off when the script is not on the page.  jQuery's     *)
(* grep and filter give a part of a list in its order.                      *)
(***************************************************************************)
EXTENDS Naturals, Sequences

CONSTANT Off

\* The elements of s that are in S, in their order.
Only(s, S) ==
    LET upTo[i \in 0 .. Len(s)] ==
            IF i = 0 THEN <<>>
            ELSE IF s[i] \in S THEN Append(upTo[i - 1], s[i]) ELSE upTo[i - 1]
    IN upTo[Len(s)]
=============================================================================
