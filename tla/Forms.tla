------------------------------- MODULE Forms -------------------------------
(***************************************************************************)
(* A form and what its page sends of it: jQuery's serializeArray lists the  *)
(* successful fields, serializeObject of utils.js gathers the list under    *)
(* the fields' names.                                                       *)
(***************************************************************************)
EXTENDS Naturals, Sequences, SequencesExt, FiniteSetsExt, PageScript

CONSTANTS FieldNames,  \* the name of each field of the form
          FieldKinds,  \* the kinds a field may have
          Texts,       \* the values a field may hold
          NoText      \* '', one of them

ASSUME FormsAssumption == FieldNames \in Seq(ToSet(FieldNames)) /\ NoText \in Texts

VARIABLE form

Fields == DOMAIN FieldNames

\* A field holds the values of val(): one, or those selected in a list.
FormInit ==
    form \in [kind     : [Fields -> FieldKinds],
              values   : {[i \in Fields |-> <<NoText>>]},
              checked  : {[i \in Fields |-> FALSE]},
              disabled : {[i \in Fields |-> FALSE]}]

\* The filter of serializeArray.
Successful(F, i) ==
    /\ ~F.disabled[i]
    /\ F.kind[i] # "button"
    /\ F.kind[i] = "checkbox" => F.checked[i]

\* What a field adds to the list.
PairsOf(F, i) ==
    IF Successful(F, i)
    THEN [k \in DOMAIN F.values[i] |->
             [name |-> FieldNames[i], value |-> F.values[i][k]]]
    ELSE <<>>

serializeArray(F) ==
    LET upTo[i \in 0 .. Len(FieldNames)] ==
            IF i = 0 THEN <<>> ELSE upTo[i - 1] \o PairsOf(F, i)
    IN upTo[Len(FieldNames)]

\* o[name] as it is in JavaScript: nothing, a value or an array.
Nothing == [is |-> "nothing", values |-> <<>>]

\* if ( o[this.name] ): '' is not true, an array always is.
Truthy(v) == v.is = "array" \/ (v.is = "value" /\ v.values # <<NoText>>)

\* Mutant: the test is for the name alone.
PutDefined(v, value) ==
    IF v.is # "nothing" THEN [is |-> "array", values |-> Append(v.values, value)]
    ELSE [is |-> "value", values |-> <<value>>]

\* One turn of serializeObject's loop: another value makes an array.
PutValue(v, value) ==
    IF Truthy(v) THEN [is |-> "array", values |-> Append(v.values, value)]
    ELSE [is |-> "value", values |-> <<value>>]

serializeObject(F) ==
    LET list == serializeArray(F)
        after[k \in 0 .. Len(list)] ==
            IF k = 0 THEN [n \in ToSet(FieldNames) |-> Nothing]
            ELSE [after[k - 1] EXCEPT ![list[k].name] = PutValue(@, list[k].value)]
    IN after[Len(list)]

\* The user fills in, ticks or chooses; a script disables a field.
Fill(i, values) ==
    /\ form # Off
    /\ form.kind[i] = "list" \/ Len(values) = 1
    /\ form' = [form EXCEPT !.values[i] = values]

TickField(i) ==
    /\ form # Off /\ form.kind[i] = "checkbox"
    /\ form' = [form EXCEPT !.checked[i] = ~@]

Disable(i) ==
    /\ form # Off
    /\ form' = [form EXCEPT !.disabled[i] = ~@]

FormNext ==
    \E i \in Fields :
        \/ \E values \in UNION {[1 .. k -> Texts] : k \in 0 .. 2} : Fill(i, values)
        \/ TickField(i) \/ Disable(i)

-----------------------------------------------------------------------------

(* serializeObject keeps, for each name, every value from the first that is *)
(* not empty on, in the order of the fields; empty values before it are     *)
(* lost, so that a column of values may come out shorter than its form.     *)
SerializedKeeps ==
    form # Off => \A n \in ToSet(FieldNames) :
        LET all == Only(serializeArray(form), [name : {n}, value : Texts])
            full == {k \in DOMAIN all : all[k].value # NoText}
            kept == IF all = <<>> THEN <<>>
                    ELSE SubSeq(all, IF full = {} THEN Len(all) ELSE Min(full), Len(all))
        IN serializeObject(form)[n].values = [k \in DOMAIN kept |-> kept[k].value]

=============================================================================
