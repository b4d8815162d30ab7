-------------------------------- MODULE Page --------------------------------
(***************************************************************************)
(* The scripts of a page that keep a state of their own: the check boxes,   *)
(* the "more" menu, the number fields, the cookies and the forms of         *)
(* Common.js, layout.js, utils.js and jquery.cookie.js, and four parts of   *)
(* jQuery that run alone as well: the conversion of an answer, JSONP, the   *)
(* ready event and the evaluation of inserted scripts.  No two of them      *)
(* write the same state, so a behaviour follows one; the variables of the   *)
(* others are Off.                                                          *)
(***************************************************************************)
EXTENDS CheckBoxes, MoreMenu, Amount, Cookies, Forms,
        Conversion, Jsonp, Ready, Scripts

vars == <<boxes, bar, field, page, form, answer, jsonp, document, dom>>

Init ==
    \E script \in {"CheckBoxes", "MoreMenu", "Amount", "Cookies", "Forms",
                "Conversion", "Jsonp", "Ready", "Scripts"} :
        /\ IF script = "CheckBoxes" THEN BoxesInit ELSE boxes = Off
        /\ IF script = "MoreMenu" THEN MenuInit ELSE bar = Off
        /\ IF script = "Amount" THEN AmountInit ELSE field = Off
        /\ IF script = "Cookies" THEN CookiesInit ELSE page = Off
        /\ IF script = "Forms" THEN FormInit ELSE form = Off
        /\ IF script = "Conversion" THEN AnswerInit ELSE answer = Off
        /\ IF script = "Jsonp" THEN JsonpInit ELSE jsonp = Off
        /\ IF script = "Ready" THEN ReadyInit ELSE document = Off
        /\ IF script = "Scripts" THEN ScriptsInit ELSE dom = Off

Next ==
    \/ BoxesNext /\ UNCHANGED <<bar, field, page, form, answer, jsonp, document, dom>>
    \/ MenuNext /\ UNCHANGED <<boxes, field, page, form, answer, jsonp, document, dom>>
    \/ AmountNext /\ UNCHANGED <<boxes, bar, page, form, answer, jsonp, document, dom>>
    \/ CookiesNext /\ UNCHANGED <<boxes, bar, field, form, answer, jsonp, document, dom>>
    \/ FormNext /\ UNCHANGED <<boxes, bar, field, page, answer, jsonp, document, dom>>
    \/ AnswerNext /\ UNCHANGED <<boxes, bar, field, page, form, jsonp, document, dom>>
    \/ JsonpNext /\ UNCHANGED <<boxes, bar, field, page, form, answer, document, dom>>
    \/ ReadyNext /\ UNCHANGED <<boxes, bar, field, page, form, answer, jsonp, dom>>
    \/ ScriptsNext /\ UNCHANGED <<boxes, bar, field, page, form, answer, jsonp, document>>

\* Only the ready event waits for something that must come.
Spec == Init /\ [][Next]_vars /\ ReadyFairness

=============================================================================
