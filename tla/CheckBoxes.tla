----------------------------- MODULE CheckBoxes -----------------------------
(***************************************************************************)
(* The check boxes of a page: the handlers of Common.js and utils.js that   *)
(* tick other boxes when one is clicked.  A page uses one rule:             *)
(*                                                                          *)
(*   "tree"    CheckChild: a node takes its branch along and its ancestors  *)
(*             show whether anything below them is ticked;                  *)
(*   "multi"   SelectMultiNode: a node takes its branch along;              *)
(*   "single"  SelectSingleNode, and "check" its twin on one container:     *)
(*             the clicked box is the only one;                             *)
(*   "radio"   SelectedCheckBox(.., "radio"): the same, leaving the         *)
(*             disabled boxes alone;                                        *)
(*   "all"     SelectedCheckBox(.., "all"), "byId" SelectAllById and        *)
(*             "table" selectAllChecked: a header box ticks the rows.       *)
(*                                                                          *)
(* SelectedCheckBox goes through jQuery's attr(), which writes the content  *)
(* attribute: a browser lets it tick a box only as long as nobody clicked   *)
(* the box or wrote its property (`touched`).                               *)
(***************************************************************************)
EXTENDS Naturals, Sequences, SequencesExt, FiniteSets, PageScript

CONSTANTS Row,        \* the boxes of the tree, the list or the table
          Above,      \* Above[b]: the node whose branch b is in, or Top
          Top,        \* the box above the first level: none
          Disabled,   \* the rows that are disabled
          Header      \* the "all" box, outside the list

(* The boxes stand in a document: nothing is above itself.                  *)
ASSUME CheckBoxesAssumption ==
    /\ IsFiniteSet(Row)
    /\ Above \in [Row -> Row \cup {Top}]
    /\ \E level \in [Row -> 0 .. Cardinality(Row)] :
           \A b \in Row : Above[b] # Top => level[Above[b]] < level[b]
    /\ Disabled \subseteq Row
    /\ Header \notin Row /\ Top \notin Row

VARIABLE boxes

Rules == {"tree", "multi", "single", "check", "radio", "all", "byId", "table"}

\* A box's branch: itself and everything below it.
Branch[b \in Row] == {b} \cup UNION {Branch[c] : c \in {r \in Row : Above[r] = b}}

\* The nodes above a box, the nearest first.
Ancestors[b \in Row] ==
    IF Above[b] = Top THEN <<>> ELSE <<Above[b]>> \o Ancestors[Above[b]]

\* The <input>s of the DIV a node stands in: its siblings and their branches.
Group(b) == UNION {Branch[s] : s \in {r \in Row : Above[r] = Above[b]}}

\* x.checked = v for each x of S.
Tick(B, S, v) ==
    [B EXCEPT !.on = [b \in DOMAIN B.on |-> IF b \in S THEN v ELSE B.on[b]],
              !.touched = @ \cup S]

\* removeAttr("checked") also clears the property.
RemoveAttr(B, S) == Tick(B, S, FALSE)

\* attr("checked", v): FALSE removes the attribute, TRUE only sets it.
Attr(B, S, v) ==
    IF v THEN [B EXCEPT !.on = [b \in DOMAIN B.on |->
                                   B.on[b] \/ b \in S \ B.touched]]
         ELSE RemoveAttr(B, S)

\* Mutant: the climb passes on what it was told instead of looking again.
CheckParentBlindly(B, b, chk) == Tick(B, ToSet(Ancestors[b]), chk)

\* The node above takes chk; further up, a group with a tick in it counts.
CheckParent(B, b, chk) ==
    LET path == Ancestors[b]
        up[i \in 0 .. Len(path)] ==
            IF i = 0 THEN [boxes |-> B, chk |-> chk]
            ELSE LET at == up[i - 1]
                     next == Tick(at.boxes, {path[i]}, at.chk)
                 IN [boxes |-> next, chk |-> at.chk \/ \E g \in Group(path[i]) : next.on[g]]
    IN up[Len(path)].boxes

\* CheckChild(obj, true): the branch follows, then the ancestors.
CheckChild(B, b) ==
    LET down == Tick(B, Branch[b], B.on[b])
    IN CheckParent(down, b, \E g \in Group(b) : down.on[g])

SelectMultiNode(B, b) == Tick(B, Branch[b], B.on[b])

\* SelectSingleNode and check: every check box off, then this one on.
SelectSingleNode(B, b) == Tick(Tick(B, Row, FALSE), {b}, TRUE)

SelectedCheckBox(B, b, action) ==
    IF action = "all"
    THEN Attr(B, Row \ Disabled, B.on[b])
    ELSE Tick(Attr(B, Row \ Disabled, FALSE), {b}, TRUE)

SelectAllById(B, b) == Tick(B, Row \ Disabled, B.on[b])

selectAllChecked(B, b) == Tick(B, Row, B.on[b])

\* The boxes whose click runs the rule's handler.
Clickable(rule) == IF rule \in {"all", "byId", "table"} THEN {Header} ELSE Row

\* What the rule's handler makes of the boxes.
OnClick(B, b) ==
    CASE B.rule = "tree"               -> CheckChild(B, b)
      [] B.rule = "multi"              -> SelectMultiNode(B, b)
      [] B.rule \in {"single", "check"} -> SelectSingleNode(B, b)
      [] B.rule \in {"all", "radio"}   -> SelectedCheckBox(B, b, B.rule)
      [] B.rule = "byId"               -> SelectAllById(B, b)
      [] B.rule = "table"              -> selectAllChecked(B, b)

BoxesInit ==
    boxes \in [rule : Rules, on : {[b \in Row \cup {Header} |-> FALSE]},
               touched : {{}},
               header : {FALSE}]    \* the header box was clicked last (auxiliary)

\* A click turns the box over, then its handler runs.
Click(b) ==
    /\ boxes # Off
    /\ b \in (Row \cup {Header}) \ Disabled
    /\ LET clicked == [Tick(boxes, {b}, ~boxes.on[b]) EXCEPT
                          !.header = b = Header /\ b \in Clickable(boxes.rule)]
       IN boxes' = IF b \in Clickable(boxes.rule) THEN OnClick(clicked, b)
                   ELSE clicked

BoxesNext == \E b \in Row \cup {Header} : Click(b)

-----------------------------------------------------------------------------

(* A node of the tree is ticked exactly when something directly below it is,*)
(* whatever the order of clicks on nodes and on their ancestors: the climb  *)
(* of CheckParent stops nowhere on the way.                                 *)
BranchShowsLeaves ==
    (boxes # Off /\ boxes.rule = "tree") =>
        \A b \in {Above[r] : r \in Row} \ {Top} :
            boxes.on[b] = \E r \in Row : Above[r] = b /\ boxes.on[r]

(* Under the single-choice handlers at most one enabled box is ticked, also *)
(* when the click turned off the one that was.                              *)
SingleChoice ==
    (boxes # Off /\ boxes.rule \in {"single", "check", "radio"}) =>
        LET ticked == {b \in Row \ Disabled : boxes.on[b]}
        IN boxes.touched \cap Row # {} => Cardinality(ticked) = 1

(* When the header box was clicked last, the enabled rows are as it is - but *)
(* for rows it should tick and the attr() of SelectedCheckBox cannot reach, *)
(* because they were clicked, or cleared by an earlier "all".               *)
HeaderReaches ==
    (boxes # Off /\ boxes.header) => \A b \in Row \ Disabled :
        \/ boxes.on[b] = boxes.on[Header]
        \/ boxes.rule = "all" /\ boxes.on[Header] /\ b \in boxes.touched

(* The ticks keep what the page's rule promises.                            *)
BoxesKeepRule == BranchShowsLeaves /\ SingleChoice /\ HeaderReaches
=============================================================================
