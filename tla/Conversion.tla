----------------------------- MODULE Conversion -----------------------------
(***************************************************************************)
(* From the answer's content type and the caller's dataType to the data of  *)
(* success: ajaxHandleResponses chooses one of the transport's responses,   *)
(* ajaxConvert turns it, type by type, into what was asked, with direct     *)
(* converters or pairs of them.  The pairs are tried in the order of an     *)
(* object's keys, here in any order.                                        *)
(***************************************************************************)
EXTENDS Naturals, Sequences, SequencesExt, FiniteSets, PageScript

CONSTANTS Converters,   \* the converters of the settings: <<from, to>>
          Equivalences, \* those whose value is true: nothing to do
          Asked,        \* the dataTypes a caller may ask for
          ContentTypes, \* the answer's types jQuery knows, or None
          Responses,    \* what a transport may bring, in its order
          None         \* no such type

ASSUME ConversionAssumption ==
    /\ Equivalences \subseteq Converters
    /\ Converters \subseteq STRING \X (STRING \ {"*"})
    /\ Asked \subseteq Seq(STRING) \ {<<>>}
    /\ ContentTypes \subseteq {None} \cup (STRING \ {"*"})
    /\ Responses \subseteq Seq(STRING \ {"*"}) \ {<<>>}

VARIABLE answer

\* converters[ from + " " + to ] || converters[ "* " + to ]
Direct(from, to) == <<from, to>> \in Converters \/ <<"*", to>> \in Converters

\* The one of the two that is used.
Used(from, to) == IF <<from, to>> \in Converters THEN <<from, to>> ELSE <<"*", to>>

\* The types without the leading "*", behind the content type if one is
\* known; it is asked for only when there was a "*".
Expected(types, ct) ==
    LET first == SelectInSeq(types, LAMBDA t : t # "*")
        rest == IF first = 0 THEN <<>> ELSE SubSeq(types, first, Len(types))
    IN IF first = 1 \/ ct = None THEN rest ELSE <<ct>> \o rest

\* The response that is taken: of the first type, or one that converts to
\* it, or the first there is.
Chosen(types, responses) ==
    LET fits == SelectInSeq(responses, LAMBDA t :
                    types = <<>> \/ <<t, types[1]>> \in Converters)
    IN IF types # <<>> /\ Contains(responses, types[1]) THEN types[1]
       ELSE responses[IF fits = 0 THEN 1 ELSE fits]

\* The types ajaxConvert walks through, the chosen response's first.
Walk(types, responses) ==
    LET final == Chosen(types, responses)
    IN IF types # <<>> /\ types[1] = final THEN types ELSE <<final>> \o types

AnswerInit ==
    \E asked \in Asked, ct \in ContentTypes, responses \in Responses :
        answer = [types |-> Walk(Expected(asked, ct), responses),
                  start |-> Chosen(Expected(asked, ct), responses),
                  i |-> 1, data |-> <<>>, state |-> "converting"]

Prev == answer.types[answer.i]
Current == answer.types[answer.i + 1]

Converting == answer # Off /\ answer.state = "converting"

More == answer.i < Len(answer.types)

\* The pairs over an intermediate type.
Pairs(from, to) == {c \in Converters : c[2] = to /\ Direct(from, c[1])}

\* Something is to be done for the next type: it is not "*" and another one.
Due == Converting /\ More /\ Current \notin {Prev, "*"}

\* prev === current, or a "*", which leaves prev as it is.
SameType ==
    /\ Converting /\ More /\ Current \in {Prev, "*"}
    /\ answer' = [answer EXCEPT !.i = @ + 1, !.types[answer.i + 1] = Prev]

\* A direct converter, run unless it is an equivalence.
ConvertDirectly ==
    /\ Due /\ Direct(Prev, Current)
    /\ answer' = [answer EXCEPT
                     !.i = @ + 1,
                     !.data = IF Used(Prev, Current) \in Equivalences THEN @
                              ELSE Append(@, Used(Prev, Current))]

\* Mutant: the second half of a pair is used at once.
ThroughPairAtOnce(c) == [answer EXCEPT !.i = @ + 1, !.data = Append(@, c)]

\* A pair: when its first half is an equivalence the second is used at once,
\* when the second is one the first is enough, and else the type between is
\* put into the walk.
ThroughPair(c) ==
    LET first == Used(Prev, c[1])
    IN IF first \in Equivalences
       THEN [answer EXCEPT !.i = @ + 1,
                           !.data = IF c \in Equivalences THEN @ ELSE Append(@, c)]
       ELSE IF c \in Equivalences
       THEN [answer EXCEPT !.i = @ + 1, !.data = Append(@, first)]
       ELSE [answer EXCEPT !.i = @ + 1, !.data = Append(@, first),
                           !.types = InsertAt(@, answer.i + 1, c[1])]

ConvertByPair ==
    /\ Due /\ ~Direct(Prev, Current)
    /\ \E c \in Pairs(Prev, Current) : answer' = ThroughPair(c)

\* "No conversion from prev to current".
NoConversion ==
    /\ Due /\ ~Direct(Prev, Current) /\ Pairs(Prev, Current) = {}
    /\ answer' = [answer EXCEPT !.state = "no conversion"]

\* A converter that is run throws.
ConverterThrows ==
    /\ Due
    /\ IF Direct(Prev, Current) THEN Used(Prev, Current) \notin Equivalences
       ELSE \E c \in Pairs(Prev, Current) : ThroughPair(c).data # answer.data
    /\ answer' = [answer EXCEPT !.state = "parsererror"]

\* The converted response is the data of success.
Success ==
    /\ Converting /\ ~More
    /\ answer' = [answer EXCEPT !.state = "success"]

AnswerNext ==
    \/ SameType \/ ConvertDirectly \/ ConvertByPair
    \/ NoConversion \/ ConverterThrows \/ Success

-----------------------------------------------------------------------------

\* S holds the types data of type t stands for without being changed.
Closed(S, t) ==
    \A e \in Equivalences : e[1] \in S \cup {t, "*"} => e[2] \in S

\* Data of type t may stand for type u, over one equivalence or several.
Passes(t, u) ==
    \/ u \in {t, "*"}
    \/ \A S \in SUBSET {e[2] : e \in Equivalences} : Closed(S, t) => u \in S

\* The type of the data before converter k.
TypeBefore(k) == IF k = 1 THEN answer.start ELSE answer.data[k - 1][2]

(* Whatever was asked, sent and brought, every converter gets data of the   *)
(* type it takes, and the data of success is of the last type asked for:    *)
(* condensing a pair into one of its halves never skips a conversion.       *)
EndsAsAsked ==
    answer # Off =>
        /\ \A k \in DOMAIN answer.data : Passes(TypeBefore(k), answer.data[k][1])
        /\ answer.state = "success" =>
               Passes(TypeBefore(Len(answer.data) + 1), Last(answer.types))

=============================================================================
