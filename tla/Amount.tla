------------------------------- MODULE Amount -------------------------------
(***************************************************************************)
(* The number fields of Common.js: after every key checkToInt,              *)
(* checkToIntAndEn, checkNum or checkDigit rewrites the field's text by a   *)
(* row of regular expressions and puts the cursor back where it was.  A     *)
(* digit, a letter, ".", "-" and "?" stand for the characters that the      *)
(* expressions tell apart.  Keys come one at a time; a held key or a pasted *)
(* text is left out.                                                        *)
(***************************************************************************)
EXTENDS Integers, Sequences, SequencesExt, FiniteSetsExt, PageScript

CONSTANTS MaxLength  \* bound: the field's length

ASSUME AmountAssumption == MaxLength \in Nat \ {0}

VARIABLE field

Characters == {"digit", "letter", ".", "-", "?"}

\* The characters a handler's first expression leaves in the text; the one
\* of checkDigit, /[^\-?\d.]/, leaves question marks as well.
Allowed == [checkToInt      |-> {"digit"},
            checkToIntAndEn |-> {"digit", "letter"},
            checkNum        |-> {"digit", "."},
            checkDigit      |-> {"digit", ".", "-", "?"}]

\* t without the positions of S.
Without(t, S) ==
    LET kept[i \in 0 .. Len(t)] ==
            IF i = 0 THEN <<>>
            ELSE IF i \in S THEN kept[i - 1] ELSE Append(kept[i - 1], t[i])
    IN kept[Len(t)]

Positions(t, c) == {i \in DOMAIN t : t[i] = c}

\* replace(/^\./, "")
DropLeadingDot(t) == Without(t, Positions(t, ".") \cap {1})

\* replace(/\.{2,}/g, ".")
CollapseDots(t) ==
    Without(t, {i \in Positions(t, ".") : i > 1 /\ t[i - 1] = "."})

\* The points with a digit before and n digits after them.
PointsBefore(t, n) ==
    {i \in Positions(t, ".") :
        /\ i > 1 /\ i + n \in DOMAIN t
        /\ \A j \in {i - 1} \cup (i + 1 .. i + n) : t[j] = "digit"}

\* The digits after the first n of the number whose point is at p.
RestOfNumber(t, p, n) ==
    {j \in DOMAIN t : j > p + n /\ \A k \in p + 1 .. j : t[k] = "digit"}

\* The characters after the first point, all when there is none.
AfterPoint(t) ==
    IF Positions(t, ".") = {} THEN Len(t) ELSE Len(t) - Min(Positions(t, "."))

\* Mutant: three decimals stay.
CutDecimalsLate(t) ==
    IF AfterPoint(t) <= 3 \/ PointsBefore(t, 3) = {} THEN t
    ELSE Without(t, RestOfNumber(t, Min(PointsBefore(t, 3)), 3))

\* replace(/([0-9]+\.[0-9]{2})[0-9]*/, "$1"), when more than two characters
\* follow the first point (or there is none): the first number with two
\* decimals loses the others.
CutDecimals(t) ==
    IF AfterPoint(t) <= 2 \/ PointsBefore(t, 2) = {} THEN t
    ELSE Without(t, RestOfNumber(t, Min(PointsBefore(t, 2)), 2))

\* The first c stays, the others go.
KeepFirst(t, c) ==
    Without(t, {i \in Positions(t, c) : \E j \in Positions(t, c) : j < i})

\* The text a handler leaves.
Checked(kind, t) ==
    LET allowed == Without(t, {i \in DOMAIN t : t[i] \notin Allowed[kind]})
    IN IF kind \in {"checkToInt", "checkToIntAndEn"} THEN allowed
       ELSE KeepFirst(KeepFirst(
                CutDecimals(CollapseDots(DropLeadingDot(allowed))), "."), "-")

\* The handler on a field whose text became t with the cursor at pos;
\* selectRange past the end goes to the end.
Handled(F, t, pos, again) ==
    LET text == Checked(F.kind, t)
    IN [F EXCEPT !.text = text, !.cursor = Min({pos, Len(text)}), !.again = again]

AmountInit ==
    field \in [kind : DOMAIN Allowed, text : {<<>>}, cursor : {0}, again : {FALSE}]

\* c is typed at the cursor; `again` when it is a mark the text already has.
Key(c) ==
    /\ field # Off
    /\ Len(field.text) < MaxLength
    /\ field' = Handled(field, InsertAt(field.text, field.cursor + 1, c),
                        field.cursor + 1,
                        c \in {".", "-"} /\ Positions(field.text, c) # {})

\* The character before the cursor is deleted.
Backspace ==
    /\ field # Off /\ field.cursor > 0
    /\ field' = Handled(field, Without(field.text, {field.cursor}),
                        field.cursor - 1, FALSE)

\* An arrow key, whose keyup runs the handler as well.
Arrow(pos) ==
    /\ field # Off /\ pos \in 0 .. Len(field.text)
    /\ field' = Handled(field, field.text, pos, FALSE)

AmountNext ==
    \/ \E c \in Characters : Key(c)
    \/ Backspace
    \/ \E pos \in 0 .. MaxLength : Arrow(pos)

-----------------------------------------------------------------------------

(* checkNum keeps a number: no point in front, one at most, two decimals at *)
(* most, however its digits were typed, deleted and moved through - unless  *)
(* the last key was a second point, for which the third decimal stays until *)
(* the next key.                                                            *)
AmountIsClean ==
    (field # Off /\ field.kind = "checkNum") =>
        /\ field.text # <<>> => field.text[1] # "."
        /\ Cardinality(Positions(field.text, ".")) <= 1
        /\ \/ Positions(field.text, ".") = {}
           \/ AfterPoint(field.text) <= 2
           \/ field.again

(* The handlers are settled: run again on what they left, as an arrow key   *)
(* does, they change nothing, unless a second mark was typed.               *)
HandlerSettles ==
    (field # Off /\ ~field.again) =>
        Checked(field.kind, field.text) = field.text

(* What a field holds is the number its handler should leave, and stays it. *)
AmountIsKept == AmountIsClean /\ HandlerSettles

=============================================================================
