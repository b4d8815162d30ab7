------------------------------ MODULE MCEvents ------------------------------
(* A document, an item in it, and an element to append or to clone into.     *)
EXTENDS Events, TLC

CONSTANTS doc, item, spare, items, f, g

MCParent == doc :> None @@ item :> doc @@ spare :> None
MCMatched == items :> {item, spare}
Binding(t, fn, sel, one) == [type |-> t, fn |-> fn, sel |-> sel, one |-> one]
MCOffered ==
  {Binding("click", f, None, FALSE), Binding("click", f, None, TRUE), Binding("click", g, items, FALSE),
   Binding("click", f, items, TRUE), Binding("focusin", g, None, FALSE)}
=============================================================================
