----------------------------- MODULE MCEffects ------------------------------
(* Two elements, each shown or hidden by its style or by its style sheet.   *)
EXTENDS Effects, TLC

CONSTANTS e1, e2

By(style, sheet) == [style |-> style, sheet |-> sheet]
MCStyles ==
  {e1 :> By("inline", "block") @@ e2 :> By("", "none"),
   e1 :> By("none", "inline") @@ e2 :> By("", "block")}

MCMaxCalls == <<4, 3>>
=============================================================================
