----------------------------- MODULE Page_proofs ------------------------------
(***************************************************************************)
(* Theorems about the scripts of a page, for every page: any converters,    *)
(* any number of requests, of functions, of holds and of contents.          *)
(***************************************************************************)
EXTENDS Page, FiniteSetTheorems, WellFoundedInduction, TLAPS

(* Numbers are well ordered: this stands for induction where a property is  *)
(* a set of numbers.                                                        *)
LEMMA LeastElement ==
  ASSUME NEW T \in SUBSET Nat, T # {}
  PROVE  \E x \in T : \A y \in T : x <= y
<1> DEFINE Up == {0 .. n : n \in T}
<1>1. Up \subseteq FiniteSubsetsOf(Nat)
  <2> SUFFICES ASSUME NEW n \in T
               PROVE  0 .. n \in FiniteSubsetsOf(Nat)
    OBVIOUS
  <2>1. IsFiniteSet(0 .. n)
    BY FS_Interval
  <2>2. QED
    BY <2>1 DEF FiniteSubsetsOf
<1>2. Up # {}
  OBVIOUS
<1>3. PICK u \in Up : \A v \in Up : <<v, u>> \notin StrictSubsetOrdering(Nat)
  <2> HIDE DEF Up
  <2>1. IsWellFoundedOn(StrictSubsetOrdering(Nat), FiniteSubsetsOf(Nat))
    BY FS_StrictSubsetOrderingWellFounded, Zenon
  <2>2. QED
    BY <1>1, <1>2, <2>1, WFMin, Zenon
<1>4. PICK n \in T : u = 0 .. n
  OBVIOUS
<1>5. ASSUME NEW m \in T, m < n
      PROVE  FALSE
  <2>1. 0 .. m \in Up /\ <<0 .. m, 0 .. n>> \notin StrictSubsetOrdering(Nat)
    BY <1>3, <1>4, Zenon
  <2>2. /\ 0 .. m \in SUBSET Nat /\ 0 .. n \in SUBSET Nat
        /\ 0 .. m \subseteq 0 .. n /\ n \in 0 .. n /\ n \notin 0 .. m
    BY <1>5, SMT
  <2>3. QED
    BY <2>1, <2>2, Zenon DEF StrictSubsetOrdering
<1>6. QED
  BY <1>5

(* What the scripts do is one of the steps of one of them.                  *)
LEMMA OwnSteps ==
  ASSUME [Next]_vars
  PROVE  /\ AnswerNext \/ UNCHANGED answer
         /\ JsonpNext \/ UNCHANGED jsonp
         /\ ReadyNext \/ UNCHANGED document
         /\ ScriptsNext \/ UNCHANGED dom
         /\ BoxesNext \/ UNCHANGED boxes
         /\ CookiesNext \/ UNCHANGED page
         /\ FormNext \/ UNCHANGED form
         /\ MenuNext \/ UNCHANGED bar
         /\ AmountNext \/ UNCHANGED field
BY DEF Next, vars

LEMMA OwnStart ==
  ASSUME Init
  PROVE  /\ AnswerInit \/ answer = Off
         /\ JsonpInit \/ jsonp = Off
         /\ ReadyInit \/ document = Off
         /\ ScriptsInit \/ dom = Off
         /\ BoxesInit \/ boxes = Off
         /\ CookiesInit \/ page = Off
         /\ FormInit \/ form = Off
         /\ MenuInit \/ bar = Off
         /\ AmountInit \/ field = Off
BY DEF Init

-----------------------------------------------------------------------------
(* Conversion of an answer.                                                 *)

(* SelectInSeq gives a place that passes the test, or 0.                    *)
LEMMA LeastOfPlaces ==
  ASSUME NEW n \in Nat, NEW I \in SUBSET (1 .. n), I # {}
  PROVE  Min(I) \in I
<1>1. \E x \in I : \A y \in I : x <= y
  BY LeastElement
<1>2. QED
  BY <1>1 DEF Min

Before(start, data, k) == IF k = 1 THEN start ELSE data[k - 1][2]

(* The converters run so far fit each other, and the data they gave may     *)
(* stand for type t.                                                        *)
Chain(start, data, t) ==
  /\ \A k \in DOMAIN data : Passes(Before(start, data, k), data[k][1])
  /\ Passes(Before(start, data, Len(data) + 1), t)

ConverterKey == STRING \X STRING
Outcomes == {"converting", "no conversion", "parsererror", "success"}
Answers == [types : Seq(STRING), start : STRING, i : Nat,
            data : Seq(ConverterKey), state : Outcomes]

AnswerInv ==
  answer # Off =>
    /\ answer \in Answers
    /\ answer.i \in 1 .. Len(answer.types)
    /\ answer.types[answer.i] # "*"
    /\ Chain(answer.start, answer.data, answer.types[answer.i])
    /\ answer.state = "success" => answer.i = Len(answer.types)

(* Standing for another type goes through any number of types.              *)
LEMMA PassesOn ==
  ASSUME NEW t, NEW u, NEW v, u # "*", Passes(t, u), Passes(u, v)
  PROVE  Passes(t, v)
<1>1. CASE u = t \/ v \in {u, "*"}
  BY <1>1 DEF Passes
<1>2. CASE u # t /\ v \notin {u, "*"}
  <2> SUFFICES ASSUME NEW S \in SUBSET {e[2] : e \in Equivalences}, Closed(S, t)
               PROVE  v \in S
    BY DEF Passes
  <2>1. u \in S
    BY <1>2 DEF Passes
  <2>2. Closed(S, u)
    BY <2>1 DEF Closed
  <2>3. QED
    BY <1>2, <2>2 DEF Passes
<1>3. QED
  BY <1>1, <1>2

(* An equivalence that is used, from the type or from any, lets data pass.  *)
LEMMA EquivalencePasses ==
  ASSUME NEW t, NEW u, Used(t, u) \in Equivalences
  PROVE  Passes(t, u)
<1> SUFFICES ASSUME NEW S \in SUBSET {e[2] : e \in Equivalences}, Closed(S, t)
             PROVE  u \in S
  BY DEF Passes
<1>1. Used(t, u)[1] \in S \cup {t, "*"} /\ Used(t, u)[2] = u
  BY DEF Used
<1>2. QED
  BY <1>1 DEF Closed

LEMMA ChainRelabelled ==
  ASSUME NEW start, NEW data, NEW t, NEW u, t # "*", Chain(start, data, t), Passes(t, u)
  PROVE  Chain(start, data, u)
<1>1. Passes(Before(start, data, Len(data) + 1), u)
  BY PassesOn DEF Chain
<1>2. QED
  BY <1>1 DEF Chain

LEMMA ChainExtended ==
  ASSUME NEW start, NEW data \in Seq(ConverterKey), NEW t, NEW u, t # "*",
         NEW c \in ConverterKey, Chain(start, data, t),
         Passes(t, c[1]), Passes(c[2], u)
  PROVE  Chain(start, Append(data, c), u)
<1> DEFINE more == Append(data, c)
<1>1. /\ Len(more) = Len(data) + 1
      /\ \A k \in DOMAIN data : k \in Nat \ {0} /\ more[k] = data[k]
      /\ more[Len(data) + 1] = c
      /\ DOMAIN more = DOMAIN data \cup {Len(data) + 1}
      /\ Len(data) \in Nat
  OBVIOUS
<1>2. \A k \in DOMAIN more : Before(start, more, k) = Before(start, data, k)
  BY DEF Before
<1>3. Passes(Before(start, data, Len(data) + 1), c[1])
  BY PassesOn DEF Chain
<1>4. Before(start, more, Len(more) + 1) = c[2]
  BY <1>1 DEF Before
<1> HIDE DEF more
<1>5. \A k \in DOMAIN more : Passes(Before(start, more, k), more[k][1])
  BY <1>1, <1>2, <1>3 DEF Chain
<1>6. Passes(Before(start, more, Len(more) + 1), u)
  BY <1>4
<1>7. QED
  BY <1>5, <1>6 DEF Chain, more

LEMMA PassesSelf == ASSUME NEW t PROVE Passes(t, t)
BY DEF Passes

(* What is expected begins with a type, if it has any.                      *)
LEMMA ExpectedTypes ==
  ASSUME NEW asked \in Asked, NEW ct \in ContentTypes
  PROVE  /\ Expected(asked, ct) \in Seq(STRING)
         /\ Expected(asked, ct) # <<>> => Expected(asked, ct)[1] # "*"
<1> DEFINE Places == {k \in 1 .. Len(asked) : asked[k] # "*"}
           first == SelectInSeq(asked, LAMBDA t : t # "*")
           rest == IF first = 0 THEN <<>> ELSE SubSeq(asked, first, Len(asked))
<1>1. asked \in Seq(STRING) /\ Len(asked) \in Nat
  BY ConversionAssumption
<1>2. first = 0 \/ first \in Places
  <2>1. Places # {} => Min(Places) \in Places
    BY <1>1, LeastOfPlaces
  <2>2. QED
    BY <2>1 DEF SelectInSeq
<1>3. rest \in Seq(STRING) /\ (rest # <<>> => rest[1] # "*")
  <2>1. CASE first = 0
    BY <2>1
  <2>2. CASE first \in Places
    <3> HIDE DEF first
    <3>1. first \in 1 .. Len(asked) /\ asked[first] # "*"
      BY <2>2
    <3>2. first # 0 /\ rest = SubSeq(asked, first, Len(asked))
      BY <3>1
    <3>3. SubSeq(asked, first, Len(asked)) \in Seq(STRING)
          /\ SubSeq(asked, first, Len(asked))[1] = asked[first]
      BY <1>1, <3>1
    <3>4. QED
      BY <3>1, <3>2, <3>3
  <2>3. QED
    BY <1>2, <2>1, <2>2
<1>4. Expected(asked, ct) = IF first = 1 \/ ct = None THEN rest ELSE <<ct>> \o rest
  BY DEF Expected
<1>5. ct # None => ct \in STRING \ {"*"}
  BY ConversionAssumption
<1> HIDE DEF first, rest
<1>6. ct # None => <<ct>> \o rest \in Seq(STRING) /\ (<<ct>> \o rest)[1] = ct
  BY <1>3, <1>5
<1>7. QED
  BY <1>3, <1>4, <1>5, <1>6

(* A response is taken that a transport brought, or the first type asked.   *)
LEMMA ChosenType ==
  ASSUME NEW types \in Seq(STRING), types # <<>> => types[1] # "*",
         NEW responses \in Responses
  PROVE  Chosen(types, responses) \in STRING \ {"*"}
<1> DEFINE Fit == {k \in 1 .. Len(responses) :
                     types = <<>> \/ <<responses[k], types[1]>> \in Converters}
           fits == SelectInSeq(responses, LAMBDA t :
                     types = <<>> \/ <<t, types[1]>> \in Converters)
<1>1. responses \in Seq(STRING \ {"*"}) /\ Len(responses) \in Nat \ {0}
  BY ConversionAssumption
<1>2. fits = 0 \/ fits \in 1 .. Len(responses)
  <2>1. Fit # {} => Min(Fit) \in Fit
    BY <1>1, LeastOfPlaces
  <2>2. QED
    BY <2>1 DEF SelectInSeq
<1>3. \A k \in 1 .. Len(responses) : responses[k] \in STRING \ {"*"}
  BY <1>1
<1>4. responses[IF fits = 0 THEN 1 ELSE fits] \in STRING \ {"*"}
  <2> HIDE DEF fits
  <2>1. QED
    BY <1>1, <1>2, <1>3
<1>5. Chosen(types, responses) =
        IF types # <<>> /\ Contains(responses, types[1]) THEN types[1]
        ELSE responses[IF fits = 0 THEN 1 ELSE fits]
  BY DEF Chosen
<1>6. types # <<>> => types[1] \in STRING
  OBVIOUS
<1>7. QED
  BY <1>4, <1>5, <1>6

\* STRING under a name that the provers leave alone.
TypeName == STRING

LEMMA InsertedName ==
  ASSUME NEW s \in Seq(TypeName), NEW e \in TypeName, NEW i \in 1 .. Len(s),
         i + 1 \in 1 .. Len(s)
  PROVE  /\ InsertAt(s, i + 1, e) \in Seq(TypeName)
         /\ i + 1 \in 1 .. Len(InsertAt(s, i + 1, e))
         /\ InsertAt(s, i + 1, e)[i + 1] = e
<1> DEFINE upTo == SubSeq(s, 1, i)
           after == SubSeq(s, i + 1, Len(s))
           head == upTo \o <<e>>
<1>1. InsertAt(s, i + 1, e) = head \o after
  <2>1. i + 1 - 1 = i
    OBVIOUS
  <2>2. InsertAt(s, i + 1, e) = SubSeq(s, 1, i + 1 - 1) \o <<e>> \o SubSeq(s, i + 1, Len(s))
    BY DEF InsertAt
  <2>3. QED
    BY <2>1, <2>2
<1>2. upTo \in Seq(TypeName) /\ Len(upTo) = i
  OBVIOUS
<1>3. after \in Seq(TypeName)
  OBVIOUS
<1> HIDE DEF upTo, after
<1>4. head \in Seq(TypeName) /\ Len(head) = i + 1 /\ head[i + 1] = e
  BY <1>2
<1> HIDE DEF head
<1>5. /\ head \o after \in Seq(TypeName) /\ (head \o after)[i + 1] = e
      /\ i + 1 \in 1 .. Len(head \o after)
  BY <1>3, <1>4
<1>6. QED
  BY <1>1, <1>5

LEMMA InsertedType ==
  ASSUME NEW s \in Seq(STRING), NEW e \in STRING, NEW i \in 1 .. Len(s),
         i + 1 \in 1 .. Len(s)
  PROVE  /\ InsertAt(s, i + 1, e) \in Seq(STRING)
         /\ i + 1 \in 1 .. Len(InsertAt(s, i + 1, e))
         /\ InsertAt(s, i + 1, e)[i + 1] = e
BY InsertedName, Zenon DEF TypeName

LEMMA AnswerMade ==
  ASSUME NEW types \in Seq(STRING), NEW start \in STRING, NEW i \in Nat,
         NEW data \in Seq(ConverterKey), NEW state \in Outcomes
  PROVE  \A a : a = [types |-> types, start |-> start, i |-> i, data |-> data,
                     state |-> state] => a \in Answers
BY DEF Answers

LEMMA AnswerConverted ==
  ASSUME NEW a \in Answers, NEW i \in Nat, NEW data \in Seq(ConverterKey)
  PROVE  \A b : b = [a EXCEPT !.i = i, !.data = data] => b \in Answers
BY DEF Answers

LEMMA AnswerPassedOver ==
  ASSUME NEW a \in Answers, NEW i \in Nat, NEW types \in Seq(STRING)
  PROVE  \A b : b = [a EXCEPT !.i = i, !.types = types] => b \in Answers
BY DEF Answers

LEMMA AnswerLengthened ==
  ASSUME NEW a \in Answers, NEW i \in Nat, NEW types \in Seq(STRING),
         NEW data \in Seq(ConverterKey)
  PROVE  \A b : b = [a EXCEPT !.i = i, !.data = data, !.types = types]
                    => b \in Answers
BY DEF Answers

LEMMA AnswerEnded ==
  ASSUME NEW a \in Answers, NEW state \in Outcomes
  PROVE  \A b : b = [a EXCEPT !.state = state] => b \in Answers
BY DEF Answers

LEMMA AnswerStarts ==
  ASSUME AnswerInit
  PROVE  AnswerInv
<1>1. PICK asked \in Asked, ct \in ContentTypes, responses \in Responses :
        answer = [types |-> Walk(Expected(asked, ct), responses),
                  start |-> Chosen(Expected(asked, ct), responses),
                  i |-> 1, data |-> <<>>, state |-> "converting"]
  BY DEF AnswerInit
<1> DEFINE types == Expected(asked, ct)
           start == Chosen(types, responses)
<1>2. types \in Seq(STRING) /\ start \in STRING \ {"*"}
  BY ExpectedTypes, ChosenType
<1>3. /\ Walk(types, responses) \in Seq(STRING)
      /\ Walk(types, responses)[1] = start
      /\ 1 \in 1 .. Len(Walk(types, responses))
  <2>1. Walk(types, responses) = IF types # <<>> /\ types[1] = start THEN types
                                 ELSE <<start>> \o types
    BY DEF Walk
  <2> HIDE DEF types, start
  <2>2. <<start>> \o types \in Seq(STRING) /\ (<<start>> \o types)[1] = start
        /\ Len(<<start>> \o types) = Len(types) + 1 /\ Len(types) \in Nat
        /\ (types # <<>> => Len(types) >= 1)
    BY <1>2
  <2>3. CASE types # <<>> /\ types[1] = start
    <3>1. Walk(types, responses) = types
      BY <2>1, <2>3
    <3>2. QED
      BY <1>2, <2>2, <2>3, <3>1
  <2>4. CASE ~(types # <<>> /\ types[1] = start)
    <3>1. Walk(types, responses) = <<start>> \o types
      BY <2>1, <2>4
    <3>2. QED
      BY <2>2, <3>1
  <2>5. QED
    BY <2>3, <2>4
<1>4. Chain(start, <<>>, start)
  BY PassesSelf DEF Chain, Before
<1>5. QED
  <2> HIDE DEF types, start
  <2>1. answer = [types |-> Walk(types, responses), start |-> start,
                  i |-> 1, data |-> <<>>, state |-> "converting"]
    BY <1>1 DEF types, start
  <2>2. <<>> \in Seq(ConverterKey)
    OBVIOUS
  <2> DEFINE walk == Walk(types, responses)
  <2> HIDE DEF walk
  <2>3. answer = [types |-> walk, start |-> start, i |-> 1, data |-> <<>>,
                  state |-> "converting"]
    BY <2>1 DEF walk
  <2>4. walk \in Seq(STRING) /\ walk[1] = start /\ 1 \in 1 .. Len(walk)
    BY <1>3 DEF walk
  <2>5. answer \in Answers
    <3>1. 1 \in Nat /\ "converting" \in Outcomes /\ start \in STRING
      BY <1>2 DEF Outcomes
    <3>2. QED
      BY <2>2, <2>3, <2>4, <3>1, AnswerMade, Zenon
  <2>6. QED
    BY <1>2, <1>4, <2>3, <2>4, <2>5 DEF AnswerInv

LEMMA AnswerSteps ==
  ASSUME AnswerInv, AnswerNext
  PROVE  AnswerInv'
<1> DEFINE i == answer.i
           types == answer.types
           Kept(a) == /\ a \in Answers
                      /\ a.i \in 1 .. Len(a.types)
                      /\ a.types[a.i] # "*"
                      /\ Chain(a.start, a.data, a.types[a.i])
                      /\ a.state = "success" => a.i = Len(a.types)
<1>1. Converting /\ Kept(answer)
  <2>1. Converting
    BY DEF AnswerNext, SameType, ConvertDirectly, ConvertByPair, NoConversion,
           ConverterThrows, Success, Due
  <2>2. QED
    BY <2>1 DEF AnswerInv, Converting
<1>2. SUFFICES Kept(answer')
  BY DEF AnswerInv
<1>3. /\ types \in Seq(STRING) /\ i \in 1 .. Len(types) /\ types[i] # "*"
      /\ Chain(answer.start, answer.data, types[i])
      /\ answer.data \in Seq(ConverterKey)
      /\ answer.state = "converting"
  BY <1>1 DEF Converting, Answers
<1>4. ASSUME NEW a, NEW d \in Seq(ConverterKey),
             a = [answer EXCEPT !.i = @ + 1, !.data = d],
             More, Current # "*", Chain(answer.start, d, Current)
      PROVE  Kept(a)
  <2>1. /\ a.types = types /\ a.i = i + 1 /\ a.data = d /\ a.start = answer.start
        /\ a.state = "converting"
    BY <1>1, <1>3, <1>4 DEF Answers
  <2>2. i + 1 \in 1 .. Len(types) /\ Current = types[i + 1]
    BY <1>3, <1>4 DEF More, Current
  <2>3. i + 1 \in Nat /\ a = [answer EXCEPT !.i = i + 1, !.data = d]
    BY <1>3, <1>4
  <2>4. a \in Answers
    BY <1>1, <1>4, <2>3, AnswerConverted, Zenon
  <2>5. QED
    BY <1>4, <2>1, <2>2, <2>4
<1>5. CASE SameType
  <2> DEFINE on == [types EXCEPT ![i + 1] = types[i]]
  <2>1. More /\ answer' = [answer EXCEPT !.i = @ + 1, !.types[i + 1] = types[i]]
    BY <1>5 DEF SameType, Prev
  <2>2. i + 1 \in 1 .. Len(types)
    BY <1>3, <2>1 DEF More
  <2>3. types[i] \in STRING
    BY <1>3
  <2>4. on \in Seq(STRING) /\ Len(on) = Len(types) /\ on[i + 1] = types[i]
    BY <1>3, <2>2, <2>3
  <2>5. /\ answer'.types = on /\ answer'.i = i + 1 /\ answer'.data = answer.data
        /\ answer'.start = answer.start /\ answer'.state = "converting"
    BY <1>1, <1>3, <2>1, <2>4 DEF Answers
  <2>6. i + 1 \in Nat /\ answer' = [answer EXCEPT !.i = i + 1, !.types = on]
    BY <1>3, <2>1
  <2>7. answer' \in Answers
    BY <1>1, <2>4, <2>6, AnswerPassedOver, Zenon
  <2>8. QED
    BY <1>3, <2>2, <2>4, <2>5, <2>7
<1>6. CASE ConvertDirectly
  <2> DEFINE used == Used(types[i], types[i + 1])
             d == IF used \in Equivalences THEN answer.data ELSE Append(answer.data, used)
  <2>1. /\ More /\ Prev = types[i] /\ Current = types[i + 1] /\ Current # "*"
        /\ Direct(types[i], types[i + 1])
        /\ answer' = [answer EXCEPT !.i = @ + 1, !.data = d]
    BY <1>6 DEF ConvertDirectly, Due, Prev, Current
  <2>2. used \in Converters /\ used \in ConverterKey
        /\ used[1] \in {types[i], "*"} /\ used[2] = types[i + 1]
    BY <2>1, ConversionAssumption DEF Direct, Used, ConverterKey
  <2>3. Passes(types[i], used[1]) /\ Passes(used[2], types[i + 1])
    BY <2>2 DEF Passes
  <2>4. d \in Seq(ConverterKey) /\ Chain(answer.start, d, types[i + 1])
    <3>1. CASE used \in Equivalences
      BY <1>3, <3>1, ChainRelabelled, EquivalencePasses
    <3>2. CASE used \notin Equivalences
      <4>1. d = Append(answer.data, used)
        BY <3>2
      <4> HIDE DEF used
      <4>2. Chain(answer.start, Append(answer.data, used), types[i + 1])
        BY <1>3, <2>2, <2>3, ChainExtended
      <4>3. QED
        BY <1>3, <2>2, <4>1, <4>2
    <3>3. QED
      BY <3>1, <3>2
  <2>5. QED
    BY <1>4, <2>1, <2>4
<1>7. ASSUME NEW c \in Pairs(types[i], types[i + 1]), More, Current # "*",
             answer' = ThroughPair(c)
      PROVE  Kept(answer')
  <2> DEFINE first == Used(types[i], c[1])
             last == c[2]
  <2>1. /\ i + 1 \in 1 .. Len(types) /\ Prev = types[i] /\ Current = types[i + 1]
        /\ types[i + 1] \in STRING
    BY <1>3, <1>7 DEF More, Prev, Current
  <2>2. /\ c \in ConverterKey /\ c[1] \in STRING /\ last = types[i + 1]
        /\ c \in Converters /\ Direct(types[i], c[1])
    BY <1>7, ConversionAssumption DEF Pairs, ConverterKey
  <2>3. /\ first \in Converters /\ first \in ConverterKey
        /\ first[1] \in {types[i], "*"} /\ first[2] = c[1] /\ c[1] # "*"
    BY <2>2, ConversionAssumption DEF Direct, Used, ConverterKey
  <2>4. Passes(types[i], first[1]) /\ Passes(last, types[i + 1])
    BY <2>2, <2>3 DEF Passes
  <2>5. c \in Equivalences => Passes(c[1], types[i + 1])
    BY <2>2 DEF Passes, Closed
  <2>6. first \in Equivalences => Passes(types[i], c[1])
    BY EquivalencePasses
  <2>7. Chain(answer.start, Append(answer.data, first), c[1])
    <3>1. Passes(first[2], c[1])
      BY <2>3, PassesSelf
    <3> HIDE DEF first
    <3>2. QED
      BY <1>3, <2>3, <2>4, <3>1, ChainExtended
  <2>8. CASE first \in Equivalences
    <3> DEFINE d == IF c \in Equivalences THEN answer.data ELSE Append(answer.data, c)
    <3>1. answer' = [answer EXCEPT !.i = @ + 1, !.data = d]
      BY <1>7, <2>1, <2>8 DEF ThroughPair
    <3>2. Chain(answer.start, answer.data, c[1])
      BY <1>3, <2>6, <2>8, ChainRelabelled
    <3>3. d \in Seq(ConverterKey) /\ Chain(answer.start, d, types[i + 1])
      <4>1. CASE c \in Equivalences
        BY <1>3, <2>3, <2>5, <3>2, <4>1, ChainRelabelled
      <4>2. CASE c \notin Equivalences
        <5>1. Chain(answer.start, Append(answer.data, c), types[i + 1])
          BY <1>3, <2>2, <2>3, <2>4, <3>2, PassesSelf, ChainExtended
        <5>2. QED
          BY <1>3, <2>2, <4>2, <5>1
      <4>3. QED
        BY <4>1, <4>2
    <3>4. QED
      BY <1>4, <1>7, <2>1, <3>1, <3>3
  <2>9. CASE first \notin Equivalences /\ c \in Equivalences
    <3>1. answer' = [answer EXCEPT !.i = @ + 1, !.data = Append(answer.data, first)]
      BY <1>7, <2>1, <2>9 DEF ThroughPair
    <3>2. Chain(answer.start, Append(answer.data, first), types[i + 1])
      BY <2>3, <2>5, <2>7, <2>9, ChainRelabelled
    <3> HIDE DEF first
    <3>3. Append(answer.data, first) \in Seq(ConverterKey)
      BY <1>3, <2>3
    <3>4. QED
      BY <1>4, <1>7, <2>1, <3>1, <3>2, <3>3
  <2>10. CASE first \notin Equivalences /\ c \notin Equivalences
    <3> DEFINE longer == InsertAt(types, i + 1, c[1])
               d == Append(answer.data, first)
    <3>1. answer' = [answer EXCEPT !.i = @ + 1, !.data = d, !.types = longer]
      BY <1>7, <2>1, <2>10 DEF ThroughPair
    <3> HIDE DEF first
    <3>2. d \in Seq(ConverterKey)
      BY <1>3, <2>3
    <3>3. longer \in Seq(STRING) /\ i + 1 \in 1 .. Len(longer) /\ longer[i + 1] = c[1]
      BY <1>3, <2>1, <2>2, InsertedType
    <3> HIDE DEF longer, d
    <3>4. /\ answer'.types = longer /\ answer'.i = i + 1 /\ answer'.data = d
          /\ answer'.start = answer.start /\ answer'.state = "converting"
      BY <1>1, <1>3, <3>1 DEF Answers
    <3>5. answer' \in Answers
      <4>1. i + 1 \in Nat
            /\ answer' = [answer EXCEPT !.i = i + 1, !.data = d, !.types = longer]
        BY <1>3, <3>1
      <4>2. QED
        BY <1>1, <3>2, <3>3, <4>1, AnswerLengthened, Zenon
    <3>6. QED
      BY <2>3, <2>7, <3>3, <3>4, <3>5 DEF d
  <2>11. QED
    BY <2>8, <2>9, <2>10
<1>8. CASE NoConversion \/ ConverterThrows \/ Success
  <2>1. PICK outcome \in {"no conversion", "parsererror", "success"} :
          /\ answer' = [answer EXCEPT !.state = outcome]
          /\ outcome = "success" => ~More
    BY <1>8 DEF NoConversion, ConverterThrows, Success
  <2>2. /\ answer'.types = types /\ answer'.i = i /\ answer'.data = answer.data
        /\ answer'.start = answer.start /\ answer'.state = outcome
    BY <1>1, <1>3, <2>1 DEF Answers
  <2>3. answer' \in Answers
    <3>1. outcome \in Outcomes
      BY <2>1 DEF Outcomes
    <3>2. QED
      BY <1>1, <2>1, <3>1, AnswerEnded, Zenon
  <2>4. outcome = "success" => i = Len(types)
    BY <1>3, <2>1 DEF More
  <2>5. QED
    BY <1>3, <2>2, <2>3, <2>4
<1>9. QED
  BY <1>3, <1>5, <1>6, <1>7, <1>8 DEF AnswerNext, ConvertByPair, Due, Prev, Current

(* Whatever was asked, sent and brought, every converter gets data of the   *)
(* type it takes, and the data of success is of the last type asked for     *)
(* (ajaxConvert), for any converters, equivalences and lists of types.      *)
THEOREM EndsAsAskedThm == Spec => []EndsAsAsked
<1>1. Init => AnswerInv
  BY OwnStart, AnswerStarts DEF AnswerInv
<1>2. AnswerInv /\ [Next]_vars => AnswerInv'
  <2> SUFFICES ASSUME AnswerInv, [Next]_vars
               PROVE  AnswerInv'
    OBVIOUS
  <2>1. CASE AnswerNext
    BY <2>1, AnswerSteps
  <2>2. CASE UNCHANGED answer
    BY <2>2 DEF AnswerInv
  <2>3. QED
    BY <2>1, <2>2, OwnSteps
<1>3. AnswerInv => EndsAsAsked
  <2> SUFFICES ASSUME AnswerInv, answer # Off
               PROVE  EndsAsAsked
    BY DEF EndsAsAsked
  <2>1. \A k : TypeBefore(k) = Before(answer.start, answer.data, k)
    BY DEF TypeBefore, Before
  <2>2. Last(answer.types) = answer.types[Len(answer.types)]
    BY DEF Last
  <2>3. QED
    BY <2>1, <2>2 DEF AnswerInv, EndsAsAsked, Chain
<1>4. QED
  BY <1>1, <1>2, <1>3, PTL DEF Spec

-----------------------------------------------------------------------------
(* JSONP.                                                                   *)

JsonpStates ==
  [window : [Generated \cup {Given} -> Request \cup {PageValue, Empty}],
   oldCallbacks : Seq(Generated),
   nonce : Nat,
   name : [Request -> Generated \cup {Given, Empty}],
   overwritten : [Request -> Request \cup {PageValue, Empty}],
   container : [Request -> Request \cup {Empty}],
   script : [Request -> {"none", "loading", "removed", "ran"}],
   result : [Request -> Request \cup {Empty, Failed}],
   late : BOOLEAN, silent : BOOLEAN, overlap : BOOLEAN]

Sent(J) == {r \in Request : J.name[r] # Empty}

(* A number is spent on a request that is sent, and a script is of one.     *)
Counted(J) ==
  /\ J.nonce <= Cardinality(Sent(J))
  /\ \A r \in Request : J.script[r] = "removed" => J.name[r] # Empty

(* A request that is not sent has no answer.                                *)
Unsent(J) ==
  \A r \in Request : J.name[r] = Empty =>
      J.result[r] = Empty /\ J.container[r] = Empty

(* A pending request owns the function under its automatic name and hides   *)
(* nothing.                                                                 *)
Owned(J) ==
  \A r \in Request : Pending(J, r) /\ J.name[r] \in Generated =>
      /\ J.window[J.name[r]] = r
      /\ J.overwritten[r] = Empty
      /\ J.name[r] <= J.nonce

(* An automatic name is a pending request's or nobody's.                    *)
Tidy(J) ==
  \A n \in Generated :
      J.window[n] # Empty => /\ J.window[n] \in Request
                             /\ Pending(J, J.window[n])
                             /\ J.name[J.window[n]] = n

(* The names given back are used ones, nobody's, and different.             *)
Recycled(J) ==
  /\ \A i \in DOMAIN J.oldCallbacks :
         J.oldCallbacks[i] <= J.nonce /\ J.window[J.oldCallbacks[i]] = Empty
  /\ \A i, j \in DOMAIN J.oldCallbacks :
         i # j => J.oldCallbacks[i] # J.oldCallbacks[j]

(* Under the given name is the page's function or one of a request with     *)
(* that name, and so is what such a request hides.                          *)
GivenName(J) ==
  /\ J.window[Given] \in Request => J.name[J.window[Given]] = Given
  /\ \A r \in Request : J.overwritten[r] \in Request =>
         J.name[r] = Given /\ J.name[J.overwritten[r]] = Given

(* Without an overlap one request at most is pending under the given name,  *)
(* and it hides the page's function.                                        *)
OneAtATime(J) ==
  ~J.overlap =>
    /\ (\A r \in Request : ~(Pending(J, r) /\ J.name[r] = Given))
           => J.window[Given] = PageValue
    /\ \A r \in Request : Pending(J, r) /\ J.name[r] = Given =>
           J.window[Given] = r /\ J.overwritten[r] = PageValue

(* A container holds the request's own answer, unless removed scripts run.  *)
OwnAnswers(J) ==
  \A r \in Request : J.name[r] \in Generated =>
      /\ ~J.late => J.container[r] \in {Empty, r}
      /\ ~(J.late /\ J.silent) => J.result[r] \in {Empty, Failed, r}

JsonpInv(J) ==
  /\ J \in JsonpStates /\ Counted(J) /\ Unsent(J) /\ Owned(J) /\ Tidy(J)
  /\ Recycled(J) /\ GivenName(J) /\ OneAtATime(J) /\ OwnAnswers(J)


\* Request r is over: its name is free, and its result is x.
Over(J, K, r, x) ==
  /\ K.window = [J.window EXCEPT ![J.name[r]] = J.overwritten[r]]
  /\ K.oldCallbacks = IF J.name[r] = Given THEN J.oldCallbacks
                      ELSE Append(J.oldCallbacks, J.name[r])
  /\ K.nonce = J.nonce /\ K.name = J.name /\ K.overwritten = J.overwritten
  /\ K.late = J.late /\ K.silent = J.silent /\ K.overlap = J.overlap
  /\ K.result = [J.result EXCEPT ![r] = x]
  /\ \A q \in Request : q = r \/ K.script[q] = J.script[q]

LEMMA GivenApart == Given \notin Generated /\ Empty \notin Generated
<1>1. IsFiniteSet(Request) /\ Given \notin Nat /\ Empty \notin Nat
  BY JsonpAssumption
<1>2. Cardinality(Request) \in Nat
  BY <1>1, FS_CardinalityType
<1>3. QED
  BY <1>1, <1>2 DEF Generated

(* The number of requests that are sent leaves a number for one more.       *)
LEMMA NumberLeft ==
  ASSUME NEW J \in JsonpStates, Counted(J), NEW r \in Request, J.name[r] = Empty
  PROVE  J.nonce + 1 \in Generated
<1>1. IsFiniteSet(Request) /\ Cardinality(Request) \in Nat
  BY JsonpAssumption, FS_CardinalityType
<1>2. Sent(J) \subseteq Request /\ r \notin Sent(J)
  BY DEF Sent
<1>3. IsFiniteSet(Sent(J)) /\ Cardinality(Sent(J)) \in Nat
  BY <1>1, <1>2, FS_Subset, FS_CardinalityType
<1>4. Cardinality(Sent(J)) + 1 <= Cardinality(Request)
  <2>1. Sent(J) \cup {r} \subseteq Request
    BY <1>2
  <2>2. Cardinality(Sent(J) \cup {r}) = Cardinality(Sent(J)) + 1
    BY <1>2, <1>3, FS_AddElement
  <2>3. Cardinality(Sent(J) \cup {r}) <= Cardinality(Request)
    BY <1>1, <2>1, FS_Subset
  <2>4. QED
    BY <2>2, <2>3
<1>5. J.nonce \in Nat /\ J.nonce <= Cardinality(Sent(J))
  BY DEF JsonpStates, Counted
<1>6. QED
  BY <1>1, <1>3, <1>4, <1>5 DEF Generated

LEMMA SentOneMore ==
  ASSUME NEW J \in JsonpStates, NEW K \in JsonpStates, NEW r \in Request,
         J.name[r] = Empty, NEW n \in Generated \cup {Given},
         K.name = [J.name EXCEPT ![r] = n]
  PROVE  /\ Cardinality(Sent(K)) = Cardinality(Sent(J)) + 1
         /\ Cardinality(Sent(J)) \in Nat
<1>1. IsFiniteSet(Request)
  BY JsonpAssumption
<1>2. Sent(J) \subseteq Request /\ r \notin Sent(J)
  BY DEF Sent
<1>3. IsFiniteSet(Sent(J))
  BY <1>1, <1>2, FS_Subset
<1>4. n # Empty
  BY GivenApart, JsonpAssumption
<1>5. Sent(K) = Sent(J) \cup {r}
  BY <1>4 DEF Sent, JsonpStates
<1>6. QED
  BY <1>2, <1>3, <1>5, FS_AddElement, FS_CardinalityType


(* A request ends: what was its own is free, and the rest stays.            *)
LEMMA OverKeeps ==
  ASSUME NEW J \in JsonpStates, JsonpInv(J), NEW K \in JsonpStates,
         NEW r \in Request, Pending(J, r), NEW x \in Request \cup {Failed},
         Over(J, K, r, x)
  PROVE  Counted(K) /\ Owned(K) /\ Tidy(K) /\ Recycled(K) /\ GivenName(K) /\ OneAtATime(K)
<1> DEFINE n == J.name[r]
<1>0. /\ n \in Generated \cup {Given} /\ n # Empty
      /\ J.window \in [Generated \cup {Given} -> Request \cup {PageValue, Empty}]
      /\ J.result \in [Request -> Request \cup {Empty, Failed}]
      /\ x # Empty /\ r # Empty
      /\ Given \notin Generated
      /\ PageValue \notin Request /\ Empty \notin Request /\ PageValue # Empty
  BY GivenApart, JsonpAssumption DEF JsonpStates, Pending
<1>1. /\ \A m \in Generated \cup {Given} :
             K.window[m] = IF m = n THEN J.overwritten[r] ELSE J.window[m]
      /\ \A q \in Request : K.result[q] = IF q = r THEN x ELSE J.result[q]
      /\ K.nonce = J.nonce /\ K.name = J.name /\ K.overwritten = J.overwritten
      /\ K.late = J.late /\ K.silent = J.silent /\ K.overlap = J.overlap
  BY <1>0 DEF Over
<1>2. \A q \in Request : Pending(K, q) <=> Pending(J, q) /\ q # r
  BY <1>0, <1>1 DEF Pending
<1>3. /\ Counted(J) /\ Owned(J) /\ Tidy(J) /\ Recycled(J) /\ GivenName(J)
      /\ OneAtATime(J)
  BY DEF JsonpInv
<1>4. n \in Generated => J.window[n] = r /\ J.overwritten[r] = Empty /\ n <= J.nonce
  BY <1>3 DEF Owned
<1>5. Owned(K)
  <2> SUFFICES ASSUME NEW q \in Request, Pending(K, q), K.name[q] \in Generated
               PROVE  K.window[K.name[q]] = q /\ K.overwritten[q] = Empty /\ K.name[q] <= K.nonce
    BY DEF Owned
  <2>1. Pending(J, q) /\ q # r /\ J.name[q] \in Generated
    BY <1>1, <1>2
  <2>2. J.window[J.name[q]] = q /\ J.overwritten[q] = Empty /\ J.name[q] <= J.nonce
    BY <2>1, <1>3 DEF Owned
  <2>3. J.name[q] # n
    BY <2>1, <2>2, <1>4
  <2>4. QED
    BY <1>1, <2>1, <2>2, <2>3
<1>6. Tidy(K)
  <2> SUFFICES ASSUME NEW m \in Generated, K.window[m] # Empty
               PROVE  K.window[m] \in Request /\ Pending(K, K.window[m])
                      /\ K.name[K.window[m]] = m
    BY DEF Tidy
  <2>1. m # n
    BY <1>1, <1>4
  <2>2. K.window[m] = J.window[m]
    BY <1>1, <2>1
  <2>3. J.window[m] \in Request /\ Pending(J, J.window[m]) /\ J.name[J.window[m]] = m
    BY <2>2, <1>3 DEF Tidy
  <2>4. QED
    BY <1>1, <1>2, <2>1, <2>2, <2>3
<1>7. Recycled(K)
  <2>0. /\ J.oldCallbacks \in Seq(Generated)
        /\ \A i \in DOMAIN J.oldCallbacks :
               J.oldCallbacks[i] <= J.nonce /\ J.window[J.oldCallbacks[i]] = Empty
        /\ \A i, j \in DOMAIN J.oldCallbacks :
               i # j => J.oldCallbacks[i] # J.oldCallbacks[j]
    BY <1>3 DEF Recycled, JsonpStates
  <2>1. CASE n = Given
    <3>1. K.oldCallbacks = J.oldCallbacks
      BY <2>1 DEF Over
    <3>2. \A i \in DOMAIN J.oldCallbacks : J.oldCallbacks[i] \in Generated
      BY <2>0
    <3>3. \A i \in DOMAIN J.oldCallbacks : K.window[J.oldCallbacks[i]] = Empty
      BY <1>0, <1>1, <2>0, <2>1, <3>2
    <3>4. QED
      BY <1>1, <2>0, <3>1, <3>3 DEF Recycled
  <2>2. CASE n # Given
    <3>1. n \in Generated /\ K.window[n] = Empty /\ J.window[n] = r /\ n <= J.nonce
      BY <1>0, <1>1, <1>4, <2>2
    <3>2. K.oldCallbacks = Append(J.oldCallbacks, n)
      BY <2>2 DEF Over
    <3>3. \A i \in DOMAIN J.oldCallbacks :
              /\ J.oldCallbacks[i] \in Generated /\ J.oldCallbacks[i] # n
              /\ K.window[J.oldCallbacks[i]] = Empty
      BY <1>0, <1>1, <2>0, <3>1
    <3> HIDE DEF n
    <3>4. /\ \A i \in DOMAIN Append(J.oldCallbacks, n) :
                 \/ i \in DOMAIN J.oldCallbacks
                    /\ Append(J.oldCallbacks, n)[i] = J.oldCallbacks[i]
                 \/ i = Len(J.oldCallbacks) + 1 /\ Append(J.oldCallbacks, n)[i] = n
      BY <2>0, <3>1
    <3>5. /\ \A i \in DOMAIN K.oldCallbacks :
                 \/ i \in DOMAIN J.oldCallbacks
                    /\ K.oldCallbacks[i] = J.oldCallbacks[i]
                    /\ K.oldCallbacks[i] # n
                 \/ i = Len(J.oldCallbacks) + 1 /\ K.oldCallbacks[i] = n
      BY <3>2, <3>3, <3>4
    <3>6. ASSUME NEW i \in DOMAIN K.oldCallbacks
          PROVE  K.oldCallbacks[i] <= K.nonce /\ K.window[K.oldCallbacks[i]] = Empty
      BY <1>1, <2>0, <3>1, <3>3, <3>5
    <3>7. ASSUME NEW i \in DOMAIN K.oldCallbacks, NEW j \in DOMAIN K.oldCallbacks,
                 i # j
          PROVE  K.oldCallbacks[i] # K.oldCallbacks[j]
      BY <2>0, <3>5, <3>7
    <3>8. QED
      BY <3>6, <3>7 DEF Recycled
  <2>3. QED
    BY <2>1, <2>2
<1>8. GivenName(K)
  <2>1. K.window[Given] \in Request => K.name[K.window[Given]] = Given
    <3>1. CASE n = Given
      BY <1>0, <1>1, <1>3, <3>1 DEF GivenName
    <3>2. CASE n # Given
      BY <1>0, <1>1, <1>3, <3>2 DEF GivenName
    <3>3. QED
      BY <3>1, <3>2
  <2>2. QED
    BY <1>1, <1>3, <2>1 DEF GivenName
<1>9. OneAtATime(K)
  <2> SUFFICES ASSUME ~K.overlap
               PROVE  /\ (\A q \in Request : ~(Pending(K, q) /\ K.name[q] = Given))
                             => K.window[Given] = PageValue
                      /\ \A q \in Request : Pending(K, q) /\ K.name[q] = Given =>
                             K.window[Given] = q /\ K.overwritten[q] = PageValue
    BY DEF OneAtATime
  <2>1. /\ (\A q \in Request : ~(Pending(J, q) /\ J.name[q] = Given))
               => J.window[Given] = PageValue
        /\ \A q \in Request : Pending(J, q) /\ J.name[q] = Given =>
               J.window[Given] = q /\ J.overwritten[q] = PageValue
    BY <1>1, <1>3 DEF OneAtATime
  <2>2. CASE n = Given
    <3>1. J.window[Given] = r /\ J.overwritten[r] = PageValue
      BY <2>1, <2>2
    <3>2. K.window[Given] = PageValue
      BY <1>0, <1>1, <2>2, <3>1
    <3>3. \A q \in Request : ~(Pending(K, q) /\ K.name[q] = Given)
      BY <1>1, <1>2, <2>1, <3>1
    <3>4. QED
      BY <3>2, <3>3
  <2>3. CASE n # Given
    <3>1. K.window[Given] = J.window[Given]
      BY <1>0, <1>1, <2>3
    <3>2. \A q \in Request : Pending(K, q) /\ K.name[q] = Given
                             <=> Pending(J, q) /\ J.name[q] = Given
      BY <1>1, <1>2, <2>3
    <3>3. QED
      BY <1>1, <2>1, <3>1, <3>2
  <2>4. QED
    BY <2>2, <2>3
<1>10. Counted(K)
  <2>1. Sent(K) = Sent(J)
    BY <1>1 DEF Sent
  <2>2. \A q \in Request : K.script[q] = "removed" => K.name[q] # Empty
    BY <1>0, <1>1, <1>3 DEF Counted, Over
  <2>3. QED
    BY <1>1, <1>3, <2>1, <2>2 DEF Counted
<1>11. QED
  BY <1>5, <1>6, <1>7, <1>8, <1>9, <1>10


\* K is J but for its containers.
OnlyContainer(J, K) ==
  /\ K.window = J.window /\ K.oldCallbacks = J.oldCallbacks /\ K.nonce = J.nonce
  /\ K.name = J.name /\ K.overwritten = J.overwritten /\ K.script = J.script
  /\ K.result = J.result /\ K.late = J.late /\ K.silent = J.silent
  /\ K.overlap = J.overlap

Containers == [Request -> Request \cup {Empty}]

LEMMA OtherContainer ==
  ASSUME NEW J \in JsonpStates, NEW C \in Containers
  PROVE  \A K : K = [J EXCEPT !.container = C] =>
                    K \in JsonpStates /\ OnlyContainer(J, K) /\ K.container = C
BY ZenonT(40) DEF JsonpStates, OnlyContainer, Containers

(* A function of window that is called keeps the answer in the container of *)
(* its request, and only there.                                             *)
LEMMA CalledIs ==
  ASSUME NEW J \in JsonpStates, NEW n \in Generated \cup {Given}, NEW r \in Request
  PROVE  /\ Called(J, n, r) \in JsonpStates
         /\ OnlyContainer(J, Called(J, n, r))
         /\ \A q \in Request : Called(J, n, r).container[q] =
                IF q = J.window[n] THEN r ELSE J.container[q]
<1>1. CASE J.window[n] \in Request
  <2> DEFINE C == [J.container EXCEPT ![J.window[n]] = r]
  <2>1. C \in Containers /\ J.container \in Containers
    BY DEF JsonpStates, Containers
  <2>2. Called(J, n, r) = [J EXCEPT !.container = C]
    BY <1>1 DEF Called
  <2>3. \A q \in Request : C[q] = IF q = J.window[n] THEN r ELSE J.container[q]
    BY <2>1 DEF Containers
  <2> HIDE DEF C
  <2>4. /\ Called(J, n, r) \in JsonpStates /\ OnlyContainer(J, Called(J, n, r))
        /\ Called(J, n, r).container = C
    BY <2>1, <2>2, OtherContainer
  <2>5. QED
    BY <2>3, <2>4
<1>2. CASE J.window[n] \notin Request
  BY <1>2 DEF Called, OnlyContainer
<1>3. QED
  BY <1>1, <1>2

LEMMA RestoredIs ==
  ASSUME NEW J \in JsonpStates, NEW r \in Request, J.name[r] # Empty
  PROVE  /\ Restore(J, r) \in JsonpStates
         /\ Restore(J, r) = [J EXCEPT !.window = Restore(J, r).window]
         /\ Restore(J, r).window = [J.window EXCEPT ![J.name[r]] = J.overwritten[r]]
BY DEF Restore, JsonpStates

LEMMA SavedIs ==
  ASSUME NEW J \in JsonpStates, NEW n \in Generated \cup {Given}
  PROVE  /\ SaveName(J, n) \in JsonpStates
         /\ SaveName(J, n) = [J EXCEPT !.oldCallbacks = SaveName(J, n).oldCallbacks]
         /\ SaveName(J, n).oldCallbacks = IF n = Given THEN J.oldCallbacks
                                          ELSE Append(J.oldCallbacks, n)
<1>1. CASE n = Given
  BY <1>1 DEF SaveName, JsonpStates
<1>2. CASE n # Given
  <2>1. n \in Generated /\ J.oldCallbacks \in Seq(Generated)
    BY <1>2 DEF JsonpStates
  <2>2. Append(J.oldCallbacks, n) \in Seq(Generated)
    BY <2>1
  <2>3. SaveName(J, n) = [J EXCEPT !.oldCallbacks = Append(J.oldCallbacks, n)]
    BY <1>2 DEF SaveName
  <2> DEFINE O == Append(J.oldCallbacks, n)
  <2> HIDE DEF O
  <2>4. O \in Seq(Generated) /\ SaveName(J, n) = [J EXCEPT !.oldCallbacks = O]
    BY <2>2, <2>3 DEF O
  <2>5. SaveName(J, n) \in JsonpStates /\ SaveName(J, n).oldCallbacks = O
    BY <2>4 DEF JsonpStates
  <2>6. QED
    BY <1>2, <2>4, <2>5 DEF O
<1>3. QED
  BY <1>1, <1>2

LEMMA CallOverwrittenIs ==
  ASSUME NEW J \in JsonpStates, NEW r \in Request
  PROVE  /\ CallOverwritten(J, r) \in JsonpStates
         /\ OnlyContainer(J, CallOverwritten(J, r))
         /\ \A q \in Request :
                \/ CallOverwritten(J, r).container[q] = J.container[q]
                \/ q = J.overwritten[r]
<1>1. CASE J.container[r] # Empty /\ J.overwritten[r] \in Request
  <2> DEFINE C == [J.container EXCEPT ![J.overwritten[r]] = J.container[r]]
  <2>1. C \in Containers /\ J.container \in Containers
    BY DEF JsonpStates, Containers
  <2>2. CallOverwritten(J, r) = [J EXCEPT !.container = C]
    BY <1>1 DEF CallOverwritten
  <2>3. \A q \in Request : C[q] = J.container[q] \/ q = J.overwritten[r]
    BY <2>1 DEF Containers
  <2> HIDE DEF C
  <2>4. /\ CallOverwritten(J, r) \in JsonpStates /\ OnlyContainer(J, CallOverwritten(J, r))
        /\ CallOverwritten(J, r).container = C
    BY <2>1, <2>2, OtherContainer
  <2>5. QED
    BY <2>3, <2>4
<1>2. CASE ~(J.container[r] # Empty /\ J.overwritten[r] \in Request)
  BY <1>2 DEF CallOverwritten, OnlyContainer
<1>3. QED
  BY <1>1, <1>2

(* The clean-up of a request restores window, gives an automatic name back  *)
(* and at most hands the answer on to the function it had hidden.           *)
LEMMA CleanUpIs ==
  ASSUME NEW J \in JsonpStates, NEW r \in Request, J.name[r] # Empty
  PROVE  LET K == CleanUp(J, r) IN
         /\ K \in JsonpStates
         /\ K.window = [J.window EXCEPT ![J.name[r]] = J.overwritten[r]]
         /\ K.oldCallbacks = IF J.name[r] = Given THEN J.oldCallbacks
                             ELSE Append(J.oldCallbacks, J.name[r])
         /\ K.nonce = J.nonce /\ K.name = J.name /\ K.overwritten = J.overwritten
         /\ K.late = J.late /\ K.silent = J.silent /\ K.overlap = J.overlap
         /\ K.result = J.result /\ K.script = J.script
         /\ \A q \in Request : \/ K.container[q] = J.container[q]
                               \/ q = J.overwritten[r]
<1> DEFINE A == Restore(J, r)
           n == J.name[r]
           B == SaveName(A, n)
           K == CallOverwritten(B, r)
<1>1. n \in Generated \cup {Given}
  BY DEF JsonpStates
<1>2. /\ A \in JsonpStates /\ A = [J EXCEPT !.window = A.window]
      /\ A.window = [J.window EXCEPT ![n] = J.overwritten[r]]
  BY RestoredIs
<1> HIDE DEF A
<1>3. /\ B \in JsonpStates /\ B = [A EXCEPT !.oldCallbacks = B.oldCallbacks]
      /\ B.oldCallbacks = IF n = Given THEN A.oldCallbacks ELSE Append(A.oldCallbacks, n)
  BY <1>1, <1>2, SavedIs
<1> HIDE DEF B
<1>4. /\ K \in JsonpStates /\ OnlyContainer(B, K)
      /\ \A q \in Request : K.container[q] = B.container[q] \/ q = B.overwritten[r]
  BY <1>3, CallOverwrittenIs
<1>5. CleanUp(J, r) = K
  BY DEF CleanUp, A, B
<1> HIDE DEF K, n
<1>6. /\ A.oldCallbacks = J.oldCallbacks /\ A.nonce = J.nonce /\ A.name = J.name
      /\ A.overwritten = J.overwritten /\ A.late = J.late /\ A.silent = J.silent
      /\ A.overlap = J.overlap /\ A.result = J.result /\ A.script = J.script
      /\ A.container = J.container
  BY <1>2 DEF JsonpStates
<1>7. /\ B.window = A.window /\ B.nonce = A.nonce /\ B.name = A.name
      /\ B.overwritten = A.overwritten /\ B.late = A.late /\ B.silent = A.silent
      /\ B.overlap = A.overlap /\ B.result = A.result /\ B.script = A.script
      /\ B.container = A.container
  BY <1>2, <1>3 DEF JsonpStates
<1>8. QED
  BY <1>2, <1>3, <1>4, <1>5, <1>6, <1>7 DEF OnlyContainer, n


LEMMA EndKeeps ==
  ASSUME NEW J \in JsonpStates, JsonpInv(J), NEW r \in Request, Pending(J, r),
         NEW A \in JsonpStates, OnlyContainer(J, A),
         NEW x \in Request \cup {Failed}, NEW s \in {"ran", "removed"},
         J.name[r] \in Generated /\ ~(J.late /\ J.silent) => x \in {Failed, r},
         \A q \in Request : J.name[q] \in Generated /\ ~J.late
                                => A.container[q] \in {Empty, q},
         \A q \in Request : J.name[q] = Empty => A.container[q] = Empty,
         NEW K, K = [CleanUp(A, r) EXCEPT !.result[r] = x, !.script[r] = s]
  PROVE  JsonpInv(K)
<1> DEFINE B == CleanUp(A, r)
<1>1. /\ J.name[r] \in Generated \cup {Given} /\ J.name[r] # Empty
      /\ J.overwritten \in [Request -> Request \cup {PageValue, Empty}]
  BY DEF JsonpStates, Pending
<1>2. /\ A.window = J.window /\ A.oldCallbacks = J.oldCallbacks /\ A.nonce = J.nonce
      /\ A.name = J.name /\ A.overwritten = J.overwritten /\ A.script = J.script
      /\ A.result = J.result /\ A.late = J.late /\ A.silent = J.silent
      /\ A.overlap = J.overlap
  BY DEF OnlyContainer
<1>3. /\ B \in JsonpStates
      /\ B.window = [A.window EXCEPT ![A.name[r]] = A.overwritten[r]]
      /\ B.oldCallbacks = IF A.name[r] = Given THEN A.oldCallbacks
                          ELSE Append(A.oldCallbacks, A.name[r])
      /\ B.nonce = A.nonce /\ B.name = A.name /\ B.overwritten = A.overwritten
      /\ B.late = A.late /\ B.silent = A.silent /\ B.overlap = A.overlap
      /\ B.result = A.result /\ B.script = A.script
      /\ \A q \in Request : \/ B.container[q] = A.container[q]
                            \/ q = A.overwritten[r]
  BY <1>1, <1>2, CleanUpIs, SMTT(40)
<1>4. K = [B EXCEPT !.result = [B.result EXCEPT ![r] = x],
                    !.script = [B.script EXCEPT ![r] = s]]
  OBVIOUS
<1> HIDE DEF B
<1>5. /\ [B.result EXCEPT ![r] = x] \in [Request -> Request \cup {Empty, Failed}]
      /\ [B.script EXCEPT ![r] = s] \in [Request -> {"none", "loading", "removed", "ran"}]
  BY <1>3 DEF JsonpStates
<1>6. K \in JsonpStates
  BY <1>3, <1>4, <1>5, ZenonT(40) DEF JsonpStates
<1>7. /\ K.window = B.window /\ K.oldCallbacks = B.oldCallbacks /\ K.nonce = B.nonce
      /\ K.name = B.name /\ K.overwritten = B.overwritten /\ K.late = B.late
      /\ K.silent = B.silent /\ K.overlap = B.overlap /\ K.container = B.container
      /\ K.result = [B.result EXCEPT ![r] = x]
      /\ K.script = [B.script EXCEPT ![r] = s]
  BY <1>3, <1>4 DEF JsonpStates
<1>8. /\ \A q \in Request : q = r \/ K.script[q] = J.script[q]
      /\ \A q \in Request : K.result[q] = IF q = r THEN x ELSE J.result[q]
  BY <1>2, <1>3, <1>7 DEF JsonpStates
<1>9. Over(J, K, r, x)
  BY <1>2, <1>3, <1>7, <1>8 DEF Over
<1>10. Counted(K) /\ Owned(K) /\ Tidy(K) /\ Recycled(K) /\ GivenName(K) /\ OneAtATime(K)
  BY <1>6, <1>9, OverKeeps
<1>11. GivenName(J) /\ OwnAnswers(J)
  BY DEF JsonpInv
<1>12. OwnAnswers(K)
  <2> SUFFICES ASSUME NEW q \in Request, K.name[q] \in Generated
               PROVE  /\ ~K.late => K.container[q] \in {Empty, q}
                      /\ ~(K.late /\ K.silent) => K.result[q] \in {Empty, Failed, q}
    BY DEF OwnAnswers
  <2>1. J.name[q] \in Generated /\ K.late = J.late /\ K.silent = J.silent
    BY <1>2, <1>3, <1>7
  <2>2. q # J.overwritten[r]
    BY <1>11, <2>1, GivenApart DEF GivenName
  <2>3. K.container[q] = A.container[q]
    BY <1>2, <1>3, <1>7, <2>2
  <2>4. ~J.late => A.container[q] \in {Empty, q}
    BY <2>1
  <2>5. ~(J.late /\ J.silent) => J.result[q] \in {Empty, Failed, q}
    BY <1>11, <2>1 DEF OwnAnswers
  <2>6. K.result[q] = IF q = r THEN x ELSE J.result[q]
    BY <1>8
  <2>7. QED
    BY <2>1, <2>3, <2>4, <2>5, <2>6
<1>13. Unsent(K)
  <2> SUFFICES ASSUME NEW q \in Request, K.name[q] = Empty
               PROVE  K.result[q] = Empty /\ K.container[q] = Empty
    BY DEF Unsent
  <2>1. J.name[q] = Empty
    BY <1>2, <1>3, <1>7
  <2>2. q # J.overwritten[r]
    BY <1>11, <2>1, JsonpAssumption DEF GivenName
  <2>3. K.container[q] = A.container[q]
    BY <1>2, <1>3, <1>7, <2>2
  <2>4. J.result[q] = Empty /\ A.container[q] = Empty
    BY <2>1 DEF JsonpInv, Unsent
  <2>5. q # r
    BY <1>1, <2>1
  <2>6. QED
    BY <1>8, <2>3, <2>4, <2>5
<1>14. QED
  BY <1>6, <1>10, <1>12, <1>13 DEF JsonpInv

(* The functions of window belong to requests that are sent.                *)
LEMMA FunctionOfSent ==
  ASSUME NEW J \in JsonpStates, JsonpInv(J), NEW n \in Generated \cup {Given},
         NEW q \in Request, J.name[q] = Empty
  PROVE  J.window[n] # q
<1>1. n \in Generated /\ J.window[n] = q => J.name[q] = n
  BY JsonpAssumption DEF JsonpInv, Tidy
<1>2. J.window[Given] = q => J.name[q] = Given
  BY DEF JsonpInv, GivenName
<1>3. QED
  BY <1>1, <1>2, GivenApart, JsonpAssumption

(* The answers in the containers of automatic names after a call.           *)
LEMMA CalledKeepsOwn ==
  ASSUME NEW J \in JsonpStates, JsonpInv(J), NEW r \in Request, Pending(J, r),
         NEW q \in Request, J.name[q] \in Generated
  PROVE  /\ J.window[J.name[r]] = q => q = r
         /\ J.name[r] \in Generated => J.window[J.name[r]] = r
<1>1. J.name[r] \in Generated \cup {Given}
  BY DEF JsonpStates, Pending
<1>2. J.name[r] \in Generated => J.window[J.name[r]] = r
  BY DEF JsonpInv, Owned
<1>3. J.name[r] = Given /\ J.window[Given] = q => J.name[q] = Given
  BY DEF JsonpInv, GivenName
<1>4. QED
  BY <1>1, <1>2, <1>3, GivenApart

LEMMA OnloadKeeps ==
  ASSUME jsonp \in JsonpStates, JsonpInv(jsonp), NEW r \in Request,
         NEW calls \in BOOLEAN, Onload(r, calls)
  PROVE  JsonpInv(jsonp')
<1> DEFINE J == jsonp
           A == IF calls THEN Called(J, J.name[r], r) ELSE J
           x == Converted(A, r)
<1>1. /\ Pending(J, r) /\ (calls \/ J.silent)
      /\ jsonp' = [CleanUp(A, r) EXCEPT !.result[r] = x, !.script[r] = "ran"]
  BY DEF Onload
<1>2. J.name[r] \in Generated \cup {Given}
  BY <1>1 DEF JsonpStates, Pending
<1>3. /\ A \in JsonpStates /\ OnlyContainer(J, A)
      /\ \A q \in Request : A.container[q] =
             IF calls /\ q = J.window[J.name[r]] THEN r ELSE J.container[q]
  <2>1. CASE calls
    BY <1>2, <2>1, CalledIs
  <2>2. CASE ~calls
    BY <2>2 DEF OnlyContainer
  <2>3. QED
    BY <2>1, <2>2
<1> HIDE DEF A
<1>4. x \in Request \cup {Failed}
  BY <1>3 DEF Converted, JsonpStates
<1>5. \A q \in Request : J.name[q] \in Generated /\ ~J.late
                            => A.container[q] \in {Empty, q}
  <2> SUFFICES ASSUME NEW q \in Request, J.name[q] \in Generated, ~J.late
               PROVE  A.container[q] \in {Empty, q}
    OBVIOUS
  <2>1. J.window[J.name[r]] = q => q = r
    BY <1>1, CalledKeepsOwn
  <2>2. J.container[q] \in {Empty, q}
    BY DEF JsonpInv, OwnAnswers
  <2>3. QED
    BY <1>3, <2>1, <2>2
<1>6. J.name[r] \in Generated /\ ~(J.late /\ J.silent) => x \in {Failed, r}
  <2> SUFFICES ASSUME J.name[r] \in Generated, ~(J.late /\ J.silent)
               PROVE  x \in {Failed, r}
    OBVIOUS
  <2>1. J.window[J.name[r]] = r
    BY <1>1, CalledKeepsOwn
  <2>2. A.container[r] \in {Empty, r}
    <3>1. CASE calls
      BY <1>3, <2>1, <3>1
    <3>2. CASE ~calls
      BY <1>1, <1>5, <3>2
    <3>3. QED
      BY <3>1, <3>2
  <2>3. QED
    BY <2>2 DEF Converted
<1>7. \A q \in Request : J.name[q] = Empty => A.container[q] = Empty
  BY <1>2, <1>3, FunctionOfSent DEF JsonpInv, Unsent
<1> HIDE DEF x
<1>8. QED
  BY <1>1, <1>3, <1>4, <1>5, <1>6, <1>7, EndKeeps

LEMMA AbortKeeps ==
  ASSUME jsonp \in JsonpStates, JsonpInv(jsonp), NEW r \in Request, Abort(r)
  PROVE  JsonpInv(jsonp')
<1>1. /\ Pending(jsonp, r)
      /\ jsonp' = [CleanUp(jsonp, r) EXCEPT !.result[r] = Failed, !.script[r] = "removed"]
  BY DEF Abort
<1>2. OnlyContainer(jsonp, jsonp)
  BY DEF OnlyContainer
<1>3. \A q \in Request : jsonp.name[q] \in Generated /\ ~jsonp.late
                            => jsonp.container[q] \in {Empty, q}
  BY DEF JsonpInv, OwnAnswers
<1>4. \A q \in Request : jsonp.name[q] = Empty => jsonp.container[q] = Empty
  BY DEF JsonpInv, Unsent
<1>5. QED
  BY <1>1, <1>2, <1>3, <1>4, EndKeeps

(* A removed script that runs changes a container at most.                  *)
LEMMA LateScriptKeeps ==
  ASSUME jsonp \in JsonpStates, JsonpInv(jsonp), NEW r \in Request, LateScript(r)
  PROVE  JsonpInv(jsonp')
<1> DEFINE J == jsonp
           A == Called(J, J.name[r], r)
           K == jsonp'
<1>1. /\ J.late /\ J.script[r] = "removed"
      /\ K = [A EXCEPT !.script = [A.script EXCEPT ![r] = "ran"]]
  BY DEF LateScript
<1>2. J.name[r] \in Generated \cup {Given} /\ J.name[r] # Empty
  BY <1>1 DEF JsonpStates, JsonpInv, Counted
<1>3. A \in JsonpStates /\ OnlyContainer(J, A)
  BY <1>2, CalledIs
<1> HIDE DEF A
<1>4. [A.script EXCEPT ![r] = "ran"] \in [Request -> {"none", "loading", "removed", "ran"}]
  BY <1>3 DEF JsonpStates
<1>5. /\ K \in JsonpStates
      /\ K.window = A.window /\ K.oldCallbacks = A.oldCallbacks /\ K.nonce = A.nonce
      /\ K.name = A.name /\ K.overwritten = A.overwritten /\ K.late = A.late
      /\ K.silent = A.silent /\ K.overlap = A.overlap /\ K.result = A.result
      /\ K.script = [A.script EXCEPT ![r] = "ran"]
  BY <1>1, <1>3, <1>4 DEF JsonpStates
<1> HIDE DEF K
<1>6. /\ K.window = J.window /\ K.oldCallbacks = J.oldCallbacks /\ K.nonce = J.nonce
      /\ K.name = J.name /\ K.overwritten = J.overwritten /\ K.late = J.late
      /\ K.silent = J.silent /\ K.overlap = J.overlap /\ K.result = J.result
      /\ \A q \in Request : K.script[q] = IF q = r THEN "ran" ELSE J.script[q]
  BY <1>3, <1>5 DEF OnlyContainer, JsonpStates
<1>7. /\ Counted(J) /\ Owned(J) /\ Tidy(J) /\ Recycled(J) /\ GivenName(J)
      /\ OneAtATime(J) /\ OwnAnswers(J)
  BY DEF JsonpInv
<1>8. Counted(K)
  <2>1. Sent(K) = Sent(J)
    BY <1>6 DEF Sent
  <2>2. QED
    BY <1>6, <1>7, <2>1 DEF Counted
<1>9. \A q \in Request : Pending(K, q) <=> Pending(J, q)
  BY <1>6 DEF Pending
<1>10. Owned(K) /\ OneAtATime(K)
  BY <1>6, <1>7, <1>9 DEF Owned, OneAtATime
<1>11. Tidy(K)
  BY <1>6, <1>7, <1>9 DEF Tidy
<1>12. Recycled(K) /\ GivenName(K)
  BY <1>6, <1>7 DEF Recycled, GivenName
<1>13. OwnAnswers(K)
  BY <1>1, <1>6, <1>7 DEF OwnAnswers
<1>14. Unsent(K)
  <2>1. \A q \in Request : J.name[q] = Empty => A.container[q] = J.container[q]
    BY <1>2, CalledIs, FunctionOfSent DEF A
  <2>2. K.container = A.container
    BY <1>1, <1>3, <1>4 DEF JsonpStates, K
  <2>3. QED
    BY <1>6, <2>1, <2>2 DEF JsonpInv, Unsent
<1>15. QED
  BY <1>5, <1>8, <1>10, <1>11, <1>12, <1>13, <1>14 DEF JsonpInv, K

(* A request that is sent takes a name nobody uses, or the given one.       *)
LEMMA SendKeeps ==
  ASSUME jsonp \in JsonpStates, JsonpInv(jsonp), NEW r \in Request,
         NEW given \in BOOLEAN, Send(r, given)
  PROVE  JsonpInv(jsonp')
<1> DEFINE J == jsonp
           n == IF given THEN Given ELSE JsonpCallback(J)
           T == TakeName(J, n)
           K == jsonp'
           over == J.overlap \/ (given /\ \E q \in Request :
                                     Pending(J, q) /\ J.name[q] = Given)
<1>1. /\ J.name[r] = Empty
      /\ K = [T EXCEPT !.name = [T.name EXCEPT ![r] = n],
                       !.overwritten = [T.overwritten EXCEPT ![r] = J.window[n]],
                       !.window = [T.window EXCEPT ![n] = r],
                       !.script = [T.script EXCEPT ![r] = "loading"],
                       !.overlap = T.overlap \/ (given /\ \E q \in Request :
                                     Pending(J, q) /\ J.name[q] = Given)]
  BY DEF Send
<1>2. /\ Counted(J) /\ Owned(J) /\ Tidy(J) /\ Recycled(J) /\ GivenName(J)
      /\ OneAtATime(J) /\ OwnAnswers(J)
  BY DEF JsonpInv
<1>3. /\ Given \notin Generated /\ Empty \notin Generated /\ Given # Empty
      /\ Given \notin Nat /\ Generated \subseteq Nat
      /\ PageValue \notin Request /\ Empty \notin Request /\ PageValue # Empty
  BY GivenApart, JsonpAssumption DEF Generated
<1>4. /\ J.window \in [Generated \cup {Given} -> Request \cup {PageValue, Empty}]
      /\ J.oldCallbacks \in Seq(Generated) /\ J.nonce \in Nat
      /\ J.name \in [Request -> Generated \cup {Given, Empty}]
      /\ J.overwritten \in [Request -> Request \cup {PageValue, Empty}]
      /\ J.result \in [Request -> Request \cup {Empty, Failed}]
      /\ J.script \in [Request -> {"none", "loading", "removed", "ran"}]
      /\ J.overlap \in BOOLEAN
  BY DEF JsonpStates
(* The name, and what is taken for it.                                      *)
<1>5. /\ n \in Generated \cup {Given}
      /\ n \in Generated => J.window[n] = Empty
      /\ T.oldCallbacks \in Seq(Generated) /\ T.nonce \in {J.nonce, J.nonce + 1}
      /\ n \in Generated => n <= T.nonce
      /\ \A i \in DOMAIN T.oldCallbacks :
             i \in DOMAIN J.oldCallbacks /\ T.oldCallbacks[i] = J.oldCallbacks[i]
             /\ T.oldCallbacks[i] # n
      /\ T = [J EXCEPT !.oldCallbacks = T.oldCallbacks, !.nonce = T.nonce]
      /\ given <=> n = Given
  <2>1. CASE given
    <3>1. T = J /\ n = Given
      BY <2>1 DEF TakeName
    <3>2. J = [J EXCEPT !.oldCallbacks = J.oldCallbacks, !.nonce = J.nonce]
      BY DEF JsonpStates
    <3>3. \A i \in DOMAIN J.oldCallbacks : J.oldCallbacks[i] # Given
      BY <1>3, <1>4
    <3> HIDE DEF T, n
    <3>4. QED
      BY <1>3, <1>4, <2>1, <3>1, <3>2, <3>3
  <2>2. CASE ~given /\ J.oldCallbacks # <<>>
    <3> DEFINE O == J.oldCallbacks
    <3>1. n = O[Len(O)]
      BY <2>2 DEF JsonpCallback, Last
    <3>2. Len(O) \in DOMAIN O /\ n \in Generated /\ n # Given
      BY <1>3, <1>4, <2>2, <3>1
    <3>3. T = [J EXCEPT !.oldCallbacks = SubSeq(O, 1, Len(O) - 1)]
      BY <2>2, <3>2 DEF TakeName, Front
    <3>4. /\ SubSeq(O, 1, Len(O) - 1) \in Seq(Generated)
          /\ \A i \in DOMAIN SubSeq(O, 1, Len(O) - 1) :
                 i \in DOMAIN O /\ i # Len(O) /\ SubSeq(O, 1, Len(O) - 1)[i] = O[i]
      BY <1>4, <3>2
    <3> DEFINE front == SubSeq(O, 1, Len(O) - 1)
    <3>5. \A i \in DOMAIN front : front[i] # n
      BY <1>2, <3>1, <3>2, <3>4 DEF Recycled
    <3>6. J.window[n] = Empty /\ n <= J.nonce
      BY <1>2, <3>1, <3>2 DEF Recycled
    <3> HIDE DEF front, n
    <3>7. T = [J EXCEPT !.oldCallbacks = front]
      BY <3>3 DEF front
    <3> HIDE DEF T
    <3>8. T.oldCallbacks = front /\ T.nonce = J.nonce
      BY <3>7 DEF JsonpStates
    <3>9. T = [J EXCEPT !.oldCallbacks = T.oldCallbacks, !.nonce = T.nonce]
      BY <3>7, <3>8 DEF JsonpStates
    <3>10. /\ front \in Seq(Generated)
           /\ \A i \in DOMAIN front : i \in DOMAIN O /\ front[i] = O[i]
      BY <3>4 DEF front
    <3>11. QED
      BY <2>2, <3>2, <3>5, <3>6, <3>8, <3>9, <3>10
  <2>3. CASE ~given /\ J.oldCallbacks = <<>>
    <3>1. n = J.nonce + 1 /\ n \in Generated /\ n # Given
      BY <1>1, <1>2, <1>3, <2>3, NumberLeft DEF JsonpCallback
    <3>2. T = [J EXCEPT !.nonce = J.nonce + 1]
      BY <2>3, <3>1 DEF TakeName
    <3>3. J.window[n] = Empty
      <4>1. SUFFICES ASSUME J.window[n] # Empty  PROVE FALSE
        OBVIOUS
      <4> DEFINE q == J.window[n]
      <4>2. q \in Request /\ Pending(J, q) /\ J.name[q] = n
        BY <1>2, <3>1, <4>1 DEF Tidy
      <4>3. J.name[q] <= J.nonce
        BY <1>2, <3>1, <4>2 DEF Owned
      <4>4. QED
        BY <1>4, <3>1, <4>2, <4>3
    <3> HIDE DEF n, T
    <3>4. J.nonce + 1 \in Nat
      BY <1>4
    <3>5. T.oldCallbacks = J.oldCallbacks /\ T.nonce = J.nonce + 1
      BY <3>2, <3>4 DEF JsonpStates
    <3>6. T = [J EXCEPT !.oldCallbacks = T.oldCallbacks, !.nonce = T.nonce]
      BY <3>2, <3>5 DEF JsonpStates
    <3>7. T.oldCallbacks = <<>> /\ T.oldCallbacks \in Seq(Generated)
      BY <1>4, <2>3, <3>5
    <3>8. QED
      BY <1>3, <1>4, <2>3, <3>1, <3>3, <3>5, <3>6, <3>7
  <2>4. QED
    BY <2>1, <2>2, <2>3
<1> HIDE DEF n, T
<1>6. /\ T \in JsonpStates
      /\ T.window = J.window /\ T.name = J.name /\ T.overwritten = J.overwritten
      /\ T.container = J.container /\ T.script = J.script /\ T.result = J.result
      /\ T.late = J.late /\ T.silent = J.silent /\ T.overlap = J.overlap
  <2>1. T.nonce \in Nat
    BY <1>4, <1>5
  <2>2. QED
    BY <1>5, <2>1 DEF JsonpStates
<1> DEFINE N == [T.name EXCEPT ![r] = n]
           V == [T.overwritten EXCEPT ![r] = J.window[n]]
           W == [T.window EXCEPT ![n] = r]
           S == [T.script EXCEPT ![r] = "loading"]
           L == T.overlap \/ (given /\ \E q \in Request :
                                     Pending(J, q) /\ J.name[q] = Given)
<1>7. /\ N \in [Request -> Generated \cup {Given, Empty}]
      /\ V \in [Request -> Request \cup {PageValue, Empty}]
      /\ W \in [Generated \cup {Given} -> Request \cup {PageValue, Empty}]
      /\ S \in [Request -> {"none", "loading", "removed", "ran"}]
  BY <1>4, <1>5, <1>6
<1>8. L \in BOOLEAN
  BY <1>4, <1>6
<1>9. /\ \A q \in Request : N[q] = IF q = r THEN n ELSE J.name[q]
      /\ \A q \in Request : V[q] = IF q = r THEN J.window[n] ELSE J.overwritten[q]
      /\ \A m \in Generated \cup {Given} : W[m] = IF m = n THEN r ELSE J.window[m]
      /\ \A q \in Request : S[q] = IF q = r THEN "loading" ELSE J.script[q]
      /\ L <=> J.overlap \/ (n = Given /\ \E q \in Request :
                                     Pending(J, q) /\ J.name[q] = Given)
  BY <1>4, <1>5, <1>6
<1>10. K = [T EXCEPT !.name = N, !.overwritten = V, !.window = W, !.script = S,
                     !.overlap = L]
  BY <1>1
<1> HIDE DEF N, V, W, S, L, K
<1>11. /\ K \in JsonpStates
       /\ K.name = N /\ K.overwritten = V /\ K.window = W /\ K.script = S
       /\ K.overlap = L
       /\ K.oldCallbacks = T.oldCallbacks /\ K.nonce = T.nonce
       /\ K.container = J.container /\ K.result = J.result
       /\ K.late = J.late /\ K.silent = J.silent
  BY <1>6, <1>7, <1>8, <1>10 DEF JsonpStates
<1> USE DEF JsonpInv
<1>12. J.result[r] = Empty /\ J.container[r] = Empty
  BY <1>1 DEF Unsent
<1>13. \A q \in Request : Pending(K, q) <=> Pending(J, q) \/ q = r
  <2>1. n # Empty
    BY <1>3, <1>5
  <2>2. K.name[r] = n /\ K.result[r] = Empty
    BY <1>9, <1>11, <1>12
  <2>3. \A q \in Request : q # r => K.name[q] = J.name[q] /\ K.result[q] = J.result[q]
    BY <1>9, <1>11
  <2>4. QED
    BY <2>1, <2>2, <2>3 DEF Pending
<1>14. ~Pending(J, r) /\ J.window[n] # r
  BY <1>1, <1>5, FunctionOfSent DEF Pending
<1>15. Counted(K)
  <2>1. K.name = [J.name EXCEPT ![r] = n]
    BY <1>6, <1>11 DEF N
  <2>2. /\ Cardinality(Sent(K)) = Cardinality(Sent(J)) + 1
        /\ Cardinality(Sent(J)) \in Nat
    <3>1. J.name[r] = Empty /\ n \in Generated \cup {Given} /\ K \in JsonpStates
      BY <1>1, <1>5, <1>11
    <3>2. QED
      BY <2>1, <3>1, SentOneMore
  <2>3. K.nonce <= Cardinality(Sent(K))
    BY <1>2, <1>4, <1>5, <1>11, <2>2 DEF Counted
  <2>4. \A q \in Request : K.script[q] = "removed" => K.name[q] # Empty
    BY <1>2, <1>3, <1>5, <1>9, <1>11 DEF Counted
  <2>5. QED
    BY <2>3, <2>4 DEF Counted
<1>16. Unsent(K)
  BY <1>2, <1>3, <1>5, <1>9, <1>11 DEF Unsent
<1>17. Owned(K)
  <2> SUFFICES ASSUME NEW q \in Request, Pending(K, q), K.name[q] \in Generated
               PROVE  K.window[K.name[q]] = q /\ K.overwritten[q] = Empty /\ K.name[q] <= K.nonce
    BY DEF Owned
  <2>1. CASE q = r
    BY <1>5, <1>9, <1>11, <2>1
  <2>2. CASE q # r
    <3>1. Pending(J, q) /\ J.name[q] = K.name[q]
      BY <1>9, <1>11, <1>13, <2>2
    <3>2. J.window[J.name[q]] = q /\ J.overwritten[q] = Empty /\ J.name[q] <= J.nonce
      BY <1>2, <3>1 DEF Owned
    <3>3. J.name[q] # n
      BY <1>3, <1>5, <3>1, <3>2
    <3>4. K.window[K.name[q]] = q /\ K.overwritten[q] = Empty
      BY <1>9, <1>11, <2>2, <3>1, <3>2, <3>3
    <3>5. K.name[q] <= K.nonce
      BY <1>3, <1>4, <1>5, <1>11, <3>1, <3>2
    <3>6. QED
      BY <3>4, <3>5
  <2>3. QED
    BY <2>1, <2>2
<1>18. Tidy(K)
  <2> SUFFICES ASSUME NEW m \in Generated, K.window[m] # Empty
               PROVE  K.window[m] \in Request /\ Pending(K, K.window[m])
                      /\ K.name[K.window[m]] = m
    BY DEF Tidy
  <2>1. CASE m = n
    BY <1>9, <1>11, <1>13, <2>1
  <2>2. CASE m # n
    <3>1. K.window[m] = J.window[m]
      BY <1>9, <1>11, <2>2
    <3>2. J.window[m] \in Request /\ Pending(J, J.window[m]) /\ J.name[J.window[m]] = m
      BY <1>2, <3>1 DEF Tidy
    <3>3. QED
      BY <1>9, <1>11, <1>13, <1>14, <3>1, <3>2
  <2>3. QED
    BY <2>1, <2>2
<1>19. Recycled(K)
  <2>1. \A i \in DOMAIN K.oldCallbacks :
            /\ i \in DOMAIN J.oldCallbacks /\ K.oldCallbacks[i] = J.oldCallbacks[i]
            /\ K.oldCallbacks[i] # n /\ K.oldCallbacks[i] \in Generated
    BY <1>5, <1>11
  <2>2. /\ \A i \in DOMAIN J.oldCallbacks :
               J.oldCallbacks[i] <= J.nonce /\ J.window[J.oldCallbacks[i]] = Empty
        /\ \A i, j \in DOMAIN J.oldCallbacks :
               i # j => J.oldCallbacks[i] # J.oldCallbacks[j]
    BY <1>2 DEF Recycled
  <2>3. ASSUME NEW i \in DOMAIN K.oldCallbacks
        PROVE  K.oldCallbacks[i] <= K.nonce /\ K.window[K.oldCallbacks[i]] = Empty
    <3>1. K.window[K.oldCallbacks[i]] = Empty
      BY <1>9, <1>11, <2>1, <2>2
    <3>2. K.oldCallbacks[i] \in Nat /\ K.oldCallbacks[i] <= J.nonce
      BY <1>3, <2>1, <2>2
    <3>3. QED
      BY <1>4, <1>5, <1>11, <3>1, <3>2
  <2>4. QED
    BY <2>1, <2>2, <2>3 DEF Recycled
<1>20. GivenName(K)
  <2>1. K.window[Given] \in Request => K.name[K.window[Given]] = Given
    <3>1. CASE n = Given
      BY <1>9, <1>11, <3>1
    <3>2. CASE n # Given
      BY <1>2, <1>9, <1>11, <1>14, <3>2, FunctionOfSent, <1>1 DEF GivenName
    <3>3. QED
      BY <3>1, <3>2
  <2>2. ASSUME NEW q \in Request, K.overwritten[q] \in Request
        PROVE  K.name[q] = Given /\ K.name[K.overwritten[q]] = Given
    <3>1. CASE q = r
      <4>1. n = Given /\ J.window[Given] \in Request /\ K.overwritten[q] = J.window[Given]
        BY <1>3, <1>5, <1>9, <1>11, <2>2, <3>1
      <4>2. QED
        BY <1>2, <1>9, <1>11, <3>1, <4>1 DEF GivenName
    <3>2. CASE q # r
      <4>1. /\ K.overwritten[q] = J.overwritten[q]
            /\ J.name[q] = Given /\ J.name[J.overwritten[q]] = Given
        BY <1>2, <1>9, <1>11, <2>2, <3>2 DEF GivenName
      <4>2. K.overwritten[q] # r
        BY <1>1, <1>3, <4>1
      <4>3. K.name[q] = J.name[q] /\ K.name[K.overwritten[q]] = J.name[K.overwritten[q]]
        BY <1>9, <1>11, <2>2, <3>2, <4>2
      <4>4. QED
        BY <4>1, <4>3
    <3>3. QED
      BY <3>1, <3>2
  <2>3. QED
    BY <2>1, <2>2 DEF GivenName
<1>21. OneAtATime(K)
  <2> SUFFICES ASSUME ~K.overlap
               PROVE  /\ (\A q \in Request : ~(Pending(K, q) /\ K.name[q] = Given))
                             => K.window[Given] = PageValue
                      /\ \A q \in Request : Pending(K, q) /\ K.name[q] = Given =>
                             K.window[Given] = q /\ K.overwritten[q] = PageValue
    BY DEF OneAtATime
  <2>1. /\ (\A q \in Request : ~(Pending(J, q) /\ J.name[q] = Given))
               => J.window[Given] = PageValue
        /\ \A q \in Request : Pending(J, q) /\ J.name[q] = Given =>
               J.window[Given] = q /\ J.overwritten[q] = PageValue
        /\ n = Given => ~ \E q \in Request : Pending(J, q) /\ J.name[q] = Given
    BY <1>2, <1>9, <1>11 DEF OneAtATime
  <2>2. CASE n = Given
    <3>1. J.window[Given] = PageValue
      BY <2>1, <2>2
    <3>2. \A q \in Request : Pending(K, q) /\ K.name[q] = Given => q = r
      BY <1>9, <1>11, <1>13, <2>1, <2>2
    <3>3. Pending(K, r) /\ K.name[r] = Given
      BY <1>9, <1>11, <1>13, <2>2
    <3>4. K.window[Given] = r /\ K.overwritten[r] = PageValue
      BY <1>9, <1>11, <2>2, <3>1
    <3>5. QED
      BY <3>2, <3>3, <3>4
  <2>3. CASE n # Given
    <3>1. K.window[Given] = J.window[Given]
      BY <1>9, <1>11, <2>3
    <3>2. \A q \in Request : Pending(K, q) /\ K.name[q] = Given
                             <=> Pending(J, q) /\ J.name[q] = Given
      BY <1>9, <1>11, <1>13, <1>14, <2>3
    <3>3. \A q \in Request : Pending(J, q) => K.overwritten[q] = J.overwritten[q]
      BY <1>9, <1>11, <1>14
    <3>4. QED
      BY <2>1, <3>1, <3>2, <3>3
  <2>4. QED
    BY <2>2, <2>3
<1>22. OwnAnswers(K)
  BY <1>2, <1>9, <1>11, <1>12 DEF OwnAnswers
<1>23. QED
  BY <1>11, <1>15, <1>16, <1>17, <1>18, <1>19, <1>20, <1>21, <1>22 DEF K

LEMMA JsonpSteps ==
  ASSUME jsonp # Off, jsonp \in JsonpStates, JsonpInv(jsonp), JsonpNext
  PROVE  JsonpInv(jsonp')
BY SendKeeps, OnloadKeeps, AbortKeeps, LateScriptKeeps, Zenon DEF JsonpNext

LEMMA JsonpStarts ==
  ASSUME JsonpInit
  PROVE  JsonpInv(jsonp)
<1>1. /\ jsonp.window = [n \in Generated \cup {Given} |->
                             IF n = Given THEN PageValue ELSE Empty]
      /\ jsonp.oldCallbacks = <<>> /\ jsonp.nonce = 0
      /\ jsonp.name = [r \in Request |-> Empty]
      /\ jsonp.overwritten = [r \in Request |-> Empty]
      /\ jsonp.container = [r \in Request |-> Empty]
      /\ jsonp.script = [r \in Request |-> "none"]
      /\ jsonp.result = [r \in Request |-> Empty]
      /\ jsonp.overlap = FALSE
  BY DEF JsonpInit
<1>2. jsonp \in JsonpStates
  <2> DEFINE w == [n \in Generated \cup {Given} |-> IF n = Given THEN PageValue ELSE Empty]
             e == [r \in Request |-> Empty]
             s == [r \in Request |-> "none"]
  <2>1. /\ w \in [Generated \cup {Given} -> Request \cup {PageValue, Empty}]
        /\ e \in [Request -> Generated \cup {Given, Empty}]
        /\ e \in [Request -> Request \cup {PageValue, Empty}]
        /\ e \in [Request -> Request \cup {Empty}]
        /\ e \in [Request -> Request \cup {Empty, Failed}]
        /\ s \in [Request -> {"none", "loading", "removed", "ran"}]
        /\ <<>> \in Seq(Generated)
    OBVIOUS
  <2>2. jsonp \in [window : {w}, oldCallbacks : {<<>>}, nonce : {0}, name : {e},
                   overwritten : {e}, container : {e}, script : {s}, result : {e},
                   late : BOOLEAN, silent : BOOLEAN, overlap : {FALSE}]
    BY DEF JsonpInit
  <2> HIDE DEF w, e, s
  <2>3. PICK late \in BOOLEAN, silent \in BOOLEAN :
            jsonp = [window |-> w, oldCallbacks |-> <<>>, nonce |-> 0, name |-> e,
                     overwritten |-> e, container |-> e, script |-> s, result |-> e,
                     late |-> late, silent |-> silent, overlap |-> FALSE]
    BY <2>2, Zenon
  <2>4. QED
    BY <2>1, <2>3 DEF JsonpStates
<1>3. /\ Given \notin Generated /\ Given # Empty /\ Empty \notin Generated
      /\ PageValue \notin Request /\ Empty \notin Request
  BY GivenApart, JsonpAssumption
<1>4. Counted(jsonp)
  <2>1. Sent(jsonp) = {}
    BY <1>1 DEF Sent
  <2>2. Cardinality(Sent(jsonp)) = 0
    BY <2>1, FS_EmptySet
  <2>3. QED
    BY <1>1, <2>2 DEF Counted
<1>5. Unsent(jsonp) /\ Owned(jsonp) /\ OwnAnswers(jsonp)
  BY <1>1, <1>3 DEF Unsent, Owned, OwnAnswers, Pending
<1>6. Tidy(jsonp) /\ GivenName(jsonp)
  BY <1>1, <1>3 DEF Tidy, GivenName
<1>7. OneAtATime(jsonp)
  BY <1>1, <1>3 DEF OneAtATime, Pending
<1>8. Recycled(jsonp)
  BY <1>1 DEF Recycled
<1>9. QED
  BY <1>2, <1>4, <1>5, <1>6, <1>7, <1>8 DEF JsonpInv

(* What the invariant says of the answers, the names and window.            *)
LEMMA KeptApart ==
  ASSUME jsonp # Off, JsonpInv(jsonp)
  PROVE  AnswersKeptApart
<1>1. AnswerIsOwn
  BY DEF AnswerIsOwn, Automatic, JsonpInv, OwnAnswers
<1>2. NamesNotShared
  <2>1. ASSUME NEW r \in Request, NEW q \in Request, r # q, Pending(jsonp, r),
               Pending(jsonp, q), Automatic(r)
        PROVE  jsonp.name[r] # jsonp.name[q]
    BY <2>1 DEF Automatic, JsonpInv, Owned
  <2>2. ASSUME NEW i \in DOMAIN jsonp.oldCallbacks, NEW r \in Request, Pending(jsonp, r)
        PROVE  jsonp.name[r] # jsonp.oldCallbacks[i]
    <3>1. jsonp.oldCallbacks[i] \in Generated /\ jsonp.window[jsonp.oldCallbacks[i]] = Empty
      BY DEF JsonpInv, JsonpStates, Recycled
    <3>2. jsonp.name[r] \in Generated => jsonp.window[jsonp.name[r]] = r
      BY <2>2 DEF JsonpInv, Owned
    <3>3. QED
      BY <3>1, <3>2, JsonpAssumption
  <2>3. QED
    BY <2>1, <2>2 DEF NamesNotShared, JsonpInv, Recycled
<1>3. WindowRestored
  <2> SUFFICES ASSUME \A r \in Request : ~Pending(jsonp, r),
                      NEW n \in DOMAIN jsonp.window
               PROVE  \/ jsonp.window[n] = (IF n = Given THEN PageValue ELSE Empty)
                      \/ n = Given /\ jsonp.overlap
    BY DEF WindowRestored
  <2>1. n \in Generated \cup {Given}
    BY DEF JsonpInv, JsonpStates
  <2>2. n \in Generated => n # Given /\ jsonp.window[n] = Empty
    BY GivenApart DEF JsonpInv, Tidy
  <2>3. ~jsonp.overlap => jsonp.window[Given] = PageValue
    BY DEF JsonpInv, OneAtATime
  <2>4. QED
    BY <2>1, <2>2, <2>3
<1>4. QED
  BY <1>1, <1>2, <1>3 DEF AnswersKeptApart

(* Whatever is sent, however it ends, in any order: a request with an       *)
(* automatic name never gets the answer to another one (unless a removed    *)
(* script runs late for one whose own script calls nothing), no name is     *)
(* shared, and window is left as it was (jsonpCallback and its prefilter).  *)
THEOREM AnswersKeptApartThm == Spec => []AnswersKeptApart
<1> DEFINE Inv == jsonp # Off => JsonpInv(jsonp)
<1>1. Init => Inv
  BY OwnStart, JsonpStarts
<1>2. Inv /\ [Next]_vars => Inv'
  <2> SUFFICES ASSUME Inv, [Next]_vars
               PROVE  Inv'
    OBVIOUS
  <2>1. CASE JsonpNext
    <3>1. jsonp # Off
      BY <2>1 DEF JsonpNext, Send, Onload, Abort, LateScript
    <3>2. JsonpInv(jsonp) /\ jsonp \in JsonpStates
      BY <3>1 DEF JsonpInv
    <3>3. QED
      BY <2>1, <3>1, <3>2, JsonpSteps
  <2>2. CASE UNCHANGED jsonp
    BY <2>2
  <2>3. QED
    BY <2>1, <2>2, OwnSteps
<1>3. Inv => AnswersKeptApart
  <2>1. CASE jsonp # Off
    BY <2>1, KeptApart
  <2>2. CASE jsonp = Off
    BY <2>2 DEF AnswersKeptApart, AnswerIsOwn, NamesNotShared, WindowRestored
  <2>3. QED
    BY <2>1, <2>2
<1>4. QED
  BY <1>1, <1>2, <1>3, PTL DEF Spec

-----------------------------------------------------------------------------
(* The ready event.                                                         *)

DocumentStates ==
  [readyState : {"loading", "interactive", "complete"}, isReady : BOOLEAN,
   readyWait : Int, readyList : {"none", "made", "resolved"},
   listening : SUBSET {"DOMContentLoaded", "load"}, timers : Nat,
   registered : SUBSET Fn, ran : SUBSET Fn, holds : Nat, taken : Nat]

\* What the counter counts: the holds, and the event that is to come.
Waiting(D) == D.readyWait = D.holds + (IF D.isReady THEN 0 ELSE 1)

(* The counter is right, and what calls jQuery.ready() is there only for a  *)
(* list that was made; a timeout is asked for when everything is loaded.    *)
ReadyInv(D) ==
  /\ D \in DocumentStates
  /\ Waiting(D)
  /\ D.isReady => D.readyState # "loading" /\ D.readyList # "none"
  /\ D.readyList = "none" => D.listening = {} /\ D.timers = 0
  /\ D.timers > 0 => D.readyState = "complete"

\* From D to E the list is resolved only in time.
InTime(D, E) ==
  D.readyList # "resolved" /\ E.readyList = "resolved" =>
      D.readyList = "made" /\ E.readyState # "loading" /\ E.holds = 0

LEMMA DocumentFields ==
  ASSUME NEW D \in DocumentStates
  PROVE  /\ D.readyState \in {"loading", "interactive", "complete"}
         /\ D.isReady \in BOOLEAN /\ D.readyWait \in Int
         /\ D.readyList \in {"none", "made", "resolved"}
         /\ D.listening \in SUBSET {"DOMContentLoaded", "load"} /\ D.timers \in Nat
         /\ D.registered \in SUBSET Fn /\ D.ran \in SUBSET Fn
         /\ D.holds \in Nat /\ D.taken \in Nat
BY DEF DocumentStates

LEMMA ResolveIs ==
  ASSUME NEW D \in DocumentStates
  PROVE  /\ Resolve(D) \in DocumentStates
         /\ Resolve(D).readyList = "resolved"
         /\ Resolve(D).readyState = D.readyState /\ Resolve(D).isReady = D.isReady
         /\ Resolve(D).readyWait = D.readyWait /\ Resolve(D).timers = D.timers
         /\ Resolve(D).listening = D.listening /\ Resolve(D).holds = D.holds
BY DEF Resolve, DocumentStates

(* A listener or a timeout calls jQuery.ready(): D is the document then.    *)
LEMMA ReadyForEvent ==
  ASSUME NEW D, ReadyInv(D), D.readyState # "loading", D.readyList # "none"
  PROVE  ReadyInv(ready(D, FALSE)) /\ InTime(D, ready(D, FALSE))
<1> DEFINE E == ready(D, FALSE)
           C == [D EXCEPT !.readyWait = D.readyWait - 1, !.isReady = TRUE]
<1>1. /\ D \in DocumentStates /\ Waiting(D) /\ D.readyWait \in Int /\ D.holds \in Nat
      /\ D.isReady \in BOOLEAN
      /\ D.timers > 0 => D.readyState = "complete"
      /\ D.readyList \in {"made", "resolved"}
  BY DocumentFields DEF ReadyInv
<1>2. CASE D.isReady
  <2>1. E = D
    BY <1>2 DEF ready
  <2>2. QED
    BY <2>1 DEF InTime
<1>3. CASE ~D.isReady
  <2>1. D.readyWait = D.holds + 1 /\ D.readyWait - 1 \in Int
    BY <1>1, <1>3 DEF Waiting
  <2>2. /\ C \in DocumentStates
        /\ C.readyWait = D.readyWait - 1 /\ C.isReady = TRUE /\ C.readyState = D.readyState
        /\ C.readyList = D.readyList /\ C.timers = D.timers
        /\ C.listening = D.listening /\ C.holds = D.holds
    BY <1>1, <2>1 DEF DocumentStates
  <2>3. E = IF D.readyWait - 1 > 0 THEN C ELSE Resolve(C)
    <3>1. [D EXCEPT !.readyWait = D.readyWait - 1].readyWait = D.readyWait - 1
      BY <1>1 DEF DocumentStates
    <3>2. C = [[D EXCEPT !.readyWait = D.readyWait - 1] EXCEPT !.isReady = TRUE]
      BY <1>1 DEF DocumentStates
    <3>3. QED
      BY <1>3, <3>1, <3>2 DEF ready
  <2> HIDE DEF C
  <2>4. C.readyWait = D.holds /\ Waiting(C)
    BY <1>1, <2>1, <2>2 DEF Waiting
  <2>5. CASE D.readyWait - 1 > 0
    BY <1>1, <2>2, <2>3, <2>4, <2>5 DEF ReadyInv, InTime
  <2>6. CASE ~(D.readyWait - 1 > 0)
    <3>1. D.holds = 0
      BY <1>1, <2>1, <2>6
    <3>2. /\ Resolve(C) \in DocumentStates
          /\ Resolve(C).readyList = "resolved"
          /\ Resolve(C).readyState = C.readyState /\ Resolve(C).isReady = C.isReady
          /\ Resolve(C).readyWait = C.readyWait /\ Resolve(C).timers = C.timers
          /\ Resolve(C).listening = C.listening /\ Resolve(C).holds = C.holds
      BY <2>2, ResolveIs
    <3>3. Waiting(Resolve(C))
      BY <2>4, <3>2 DEF Waiting
    <3>4. E = Resolve(C)
      BY <2>3, <2>6
    <3> HIDE DEF E
    <3>5. ReadyInv(E)
      BY <1>1, <2>2, <3>2, <3>3, <3>4 DEF ReadyInv
    <3>6. InTime(D, E)
      BY <1>1, <2>2, <3>1, <3>2, <3>4 DEF InTime
    <3>7. QED
      BY <3>5, <3>6 DEF E
  <2>7. QED
    BY <2>5, <2>6
<1>4. QED
  BY <1>1, <1>2, <1>3

(* The release of a hold calls jQuery.ready( true ): D is the document with *)
(* one hold less that the counter still counts.                             *)
LEMMA ReadyForRelease ==
  ASSUME NEW D \in DocumentStates,
         D.readyWait = D.holds + 1 + (IF D.isReady THEN 0 ELSE 1),
         D.isReady => D.readyState # "loading" /\ D.readyList # "none",
         D.readyList = "none" => D.listening = {} /\ D.timers = 0,
         D.timers > 0 => D.readyState = "complete"
  PROVE  ReadyInv(ready(D, TRUE)) /\ InTime(D, ready(D, TRUE))
<1> DEFINE E == ready(D, TRUE)
           C == [D EXCEPT !.readyWait = D.readyWait - 1, !.isReady = D.isReady]
           Z == [D EXCEPT !.readyWait = D.readyWait - 1, !.isReady = TRUE]
<1>1. /\ D.readyWait - 1 \in Int /\ D.isReady \in BOOLEAN /\ D.holds \in Nat
      /\ D.readyList \in {"none", "made", "resolved"}
  BY DocumentFields
<1>2. /\ C \in DocumentStates
      /\ C.readyWait = D.readyWait - 1 /\ C.isReady = D.isReady
      /\ C.readyState = D.readyState
      /\ C.readyList = D.readyList /\ C.timers = D.timers
      /\ C.listening = D.listening /\ C.holds = D.holds
  BY <1>1 DEF DocumentStates
<1>3. /\ Z \in DocumentStates
      /\ Z.readyWait = D.readyWait - 1 /\ Z.isReady = TRUE
      /\ Z.readyState = D.readyState
      /\ Z.readyList = D.readyList /\ Z.timers = D.timers
      /\ Z.listening = D.listening /\ Z.holds = D.holds
  BY <1>1 DEF DocumentStates
<1>4. E = IF D.readyWait - 1 # 0 THEN C ELSE Resolve(Z)
  <2>1. [D EXCEPT !.readyWait = D.readyWait - 1].readyWait = D.readyWait - 1
    BY <1>1 DEF DocumentStates
  <2>2. C = [D EXCEPT !.readyWait = D.readyWait - 1]
    BY <1>1 DEF DocumentStates
  <2>3. Z = [[D EXCEPT !.readyWait = D.readyWait - 1] EXCEPT !.isReady = TRUE]
    BY <1>1 DEF DocumentStates
  <2>4. QED
    BY <2>1, <2>2, <2>3 DEF ready
<1> HIDE DEF C, Z, E
<1>5. CASE D.readyWait - 1 # 0
  <2>1. Waiting(C)
    BY <1>1, <1>2 DEF Waiting
  <2>2. QED
    BY <1>1, <1>2, <1>4, <1>5, <2>1 DEF ReadyInv, InTime, E
<1>6. CASE D.readyWait - 1 = 0
  <2>1. D.holds = 0 /\ D.isReady
    BY <1>1, <1>6
  <2>2. /\ Resolve(Z) \in DocumentStates
        /\ Resolve(Z).readyList = "resolved"
        /\ Resolve(Z).readyState = Z.readyState /\ Resolve(Z).isReady = Z.isReady
        /\ Resolve(Z).readyWait = Z.readyWait /\ Resolve(Z).timers = Z.timers
        /\ Resolve(Z).listening = Z.listening /\ Resolve(Z).holds = Z.holds
    BY <1>3, ResolveIs
  <2>3. E = Resolve(Z)
    BY <1>4, <1>6
  <2>4. ReadyInv(E) /\ InTime(D, E)
    BY <1>1, <1>3, <1>6, <2>1, <2>2, <2>3 DEF ReadyInv, InTime, Waiting
  <2>5. QED
    BY <2>4 DEF E
<1>7. QED
  BY <1>5, <1>6


(* The first registration makes the list, and what will call jQuery.ready().*)
LEMMA RegisterKeeps ==
  ASSUME ReadyInv(document), NEW f \in Fn, register(f)
  PROVE  ReadyInv(document') /\ InTime(document, document')
<1> DEFINE P == promise(document)
           D == [P EXCEPT !.registered = P.registered \cup {f}]
           E == document'
<1>1. document \in DocumentStates /\ ReadyInv(document)
  BY DEF ReadyInv
<1>2. /\ P \in DocumentStates
      /\ P.readyState = document.readyState /\ P.isReady = document.isReady
      /\ P.readyWait = document.readyWait /\ P.holds = document.holds
      /\ P.readyList = IF document.readyList = "none" THEN "made" ELSE document.readyList
      /\ P.timers > 0 => P.readyState = "complete"
  <2>1. CASE document.readyList # "none"
    BY <1>1, <2>1 DEF promise, ReadyInv
  <2>2. CASE document.readyList = "none" /\ document.readyState = "complete"
    <3>1. document.timers \in Nat /\ document.timers + 1 \in Nat
      BY <1>1, DocumentFields
    <3>2. P = [document EXCEPT !.readyList = "made", !.timers = document.timers + 1]
      BY <2>2 DEF promise
    <3> HIDE DEF P
    <3>3. QED
      BY <1>1, <2>2, <3>1, <3>2 DEF DocumentStates
  <2>3. CASE document.readyList = "none" /\ document.readyState # "complete"
    <3> DEFINE events == {"DOMContentLoaded", "load"}
    <3>1. P = [document EXCEPT !.readyList = "made", !.listening = events]
      BY <2>3 DEF promise
    <3>2. document.timers = 0
      BY <2>3 DEF ReadyInv
    <3>3. events \in SUBSET {"DOMContentLoaded", "load"}
      OBVIOUS
    <3> HIDE DEF P, events
    <3>4. /\ P \in DocumentStates
          /\ P.readyState = document.readyState /\ P.isReady = document.isReady
          /\ P.readyWait = document.readyWait /\ P.holds = document.holds
          /\ P.readyList = "made" /\ P.timers = document.timers
      BY <1>1, <3>1, <3>3 DEF DocumentStates
    <3>5. QED
      BY <2>3, <3>2, <3>4
  <2>4. QED
    BY <2>1, <2>2, <2>3
<1>3. E = IF D.readyList = "resolved" THEN [D EXCEPT !.ran = D.ran \cup {f}] ELSE D
  BY DEF register
<1> HIDE DEF P, E
<1>4. /\ D \in DocumentStates
      /\ D.readyState = P.readyState /\ D.isReady = P.isReady
      /\ D.readyWait = P.readyWait /\ D.holds = P.holds /\ D.timers = P.timers
      /\ D.readyList = P.readyList
  BY <1>2 DEF DocumentStates
<1> HIDE DEF D
<1>5. /\ E \in DocumentStates
      /\ E.readyState = D.readyState /\ E.isReady = D.isReady
      /\ E.readyWait = D.readyWait /\ E.holds = D.holds /\ E.timers = D.timers
      /\ E.readyList = D.readyList
  <2>1. CASE D.readyList = "resolved"
    BY <1>3, <1>4, <2>1 DEF DocumentStates
  <2>2. CASE D.readyList # "resolved"
    BY <1>3, <1>4, <2>2
  <2>3. QED
    BY <2>1, <2>2
<1>6. document.readyList \in {"none", "made", "resolved"}
  BY <1>1, DocumentFields
<1>7. ReadyInv(E)
  BY <1>1, <1>2, <1>4, <1>5, <1>6 DEF ReadyInv, Waiting
<1>8. InTime(document, E)
  BY <1>2, <1>4, <1>5, <1>6 DEF InTime
<1>9. QED
  BY <1>7, <1>8 DEF E

LEMMA HoldKeeps ==
  ASSUME ReadyInv(document), hold
  PROVE  ReadyInv(document') /\ InTime(document, document')
<1>1. /\ document \in DocumentStates
      /\ document.readyWait \in Int /\ document.holds \in Nat /\ document.taken \in Nat
      /\ document.isReady \in BOOLEAN
  BY DocumentFields DEF ReadyInv
<1>2. /\ document.readyWait + 1 \in Int /\ document.holds + 1 \in Nat
      /\ document.taken + 1 \in Nat
  BY <1>1
<1>3. document' = [document EXCEPT !.readyWait = document.readyWait + 1,
                                   !.holds = document.holds + 1,
                                   !.taken = document.taken + 1]
  BY DEF hold
<1>4. /\ document' \in DocumentStates
      /\ document'.readyState = document.readyState
      /\ document'.isReady = document.isReady
      /\ document'.readyWait = document.readyWait + 1
      /\ document'.holds = document.holds + 1
      /\ document'.readyList = document.readyList
      /\ document'.listening = document.listening
      /\ document'.timers = document.timers
  BY <1>1, <1>2, <1>3 DEF DocumentStates
<1>5. Waiting(document')
  BY <1>1, <1>4 DEF ReadyInv, Waiting
<1>6. QED
  BY <1>4, <1>5 DEF ReadyInv, InTime

LEMMA ReleaseKeeps ==
  ASSUME ReadyInv(document), release
  PROVE  ReadyInv(document') /\ InTime(document, document')
<1> DEFINE D == [document EXCEPT !.holds = document.holds - 1]
<1>1. /\ document \in DocumentStates /\ document.holds \in Nat
      /\ document.readyWait \in Int /\ document.isReady \in BOOLEAN
  BY DocumentFields DEF ReadyInv
<1>2. document.holds - 1 \in Nat /\ document' = ready(D, TRUE)
  BY <1>1 DEF release
<1>3. /\ D \in DocumentStates
      /\ D.readyState = document.readyState /\ D.isReady = document.isReady
      /\ D.readyWait = document.readyWait /\ D.holds = document.holds - 1
      /\ D.readyList = document.readyList /\ D.listening = document.listening
      /\ D.timers = document.timers
  BY <1>1, <1>2 DEF DocumentStates
<1> HIDE DEF D
<1>4. D.readyWait = D.holds + 1 + (IF D.isReady THEN 0 ELSE 1)
  BY <1>1, <1>3 DEF ReadyInv, Waiting
<1>5. /\ D.isReady => D.readyState # "loading" /\ D.readyList # "none"
      /\ D.readyList = "none" => D.listening = {} /\ D.timers = 0
      /\ D.timers > 0 => D.readyState = "complete"
  BY <1>3 DEF ReadyInv
<1>6. ReadyInv(ready(D, TRUE)) /\ InTime(D, ready(D, TRUE))
  BY <1>3, <1>4, <1>5, ReadyForRelease
<1>7. QED
  BY <1>2, <1>3, <1>6 DEF InTime

LEMMA DOMContentLoadedKeeps ==
  ASSUME ReadyInv(document), DOMContentLoaded
  PROVE  ReadyInv(document') /\ InTime(document, document')
<1> DEFINE D == [document EXCEPT !.readyState = "interactive",
                                 !.listening = document.listening \ {"DOMContentLoaded"}]
<1>1. /\ document \in DocumentStates /\ document.readyState = "loading"
      /\ document.listening \in SUBSET {"DOMContentLoaded", "load"}
      /\ document' = IF "DOMContentLoaded" \in document.listening
                     THEN ready(D, FALSE) ELSE D
  BY DocumentFields DEF ReadyInv, DOMContentLoaded
<1>2. /\ D \in DocumentStates
      /\ D.readyState = "interactive" /\ D.isReady = document.isReady
      /\ D.readyWait = document.readyWait /\ D.holds = document.holds
      /\ D.readyList = document.readyList
      /\ D.listening = document.listening \ {"DOMContentLoaded"}
      /\ D.timers = document.timers
  BY <1>1 DEF DocumentStates
<1> HIDE DEF D
<1>3. ReadyInv(D)
  BY <1>1, <1>2 DEF ReadyInv, Waiting
<1>4. CASE "DOMContentLoaded" \in document.listening
  <2>1. document.readyList # "none"
    BY <1>4 DEF ReadyInv
  <2>2. ReadyInv(ready(D, FALSE)) /\ InTime(D, ready(D, FALSE))
    BY <1>2, <1>3, <2>1, ReadyForEvent
  <2>3. QED
    BY <1>1, <1>2, <1>4, <2>2 DEF InTime
<1>5. CASE "DOMContentLoaded" \notin document.listening
  BY <1>1, <1>2, <1>3, <1>5 DEF InTime
<1>6. QED
  BY <1>4, <1>5

LEMMA LoadKeeps ==
  ASSUME ReadyInv(document), load
  PROVE  ReadyInv(document') /\ InTime(document, document')
<1> DEFINE D == [document EXCEPT !.readyState = "complete"]
<1>1. /\ document \in DocumentStates /\ document.readyState = "interactive"
      /\ document' = IF "load" \in document.listening THEN ready(D, FALSE) ELSE D
  BY DEF ReadyInv, load
<1>2. /\ D \in DocumentStates
      /\ D.readyState = "complete" /\ D.isReady = document.isReady
      /\ D.readyWait = document.readyWait /\ D.holds = document.holds
      /\ D.readyList = document.readyList
      /\ D.listening = document.listening
      /\ D.timers = document.timers
  BY <1>1 DEF DocumentStates
<1> HIDE DEF D
<1>3. ReadyInv(D)
  BY <1>1, <1>2 DEF ReadyInv, Waiting
<1>4. CASE "load" \in document.listening
  <2>1. document.readyList # "none"
    BY <1>4 DEF ReadyInv
  <2>2. ReadyInv(ready(D, FALSE)) /\ InTime(D, ready(D, FALSE))
    BY <1>2, <1>3, <2>1, ReadyForEvent
  <2>3. QED
    BY <1>1, <1>2, <1>4, <2>2 DEF InTime
<1>5. CASE "load" \notin document.listening
  BY <1>1, <1>2, <1>3, <1>5 DEF InTime
<1>6. QED
  BY <1>4, <1>5

LEMMA TimeoutKeeps ==
  ASSUME ReadyInv(document), timeout
  PROVE  ReadyInv(document') /\ InTime(document, document')
<1> DEFINE D == [document EXCEPT !.timers = document.timers - 1]
<1>1. /\ document \in DocumentStates /\ document.timers \in Nat /\ document.timers > 0
      /\ document.timers - 1 \in Nat /\ document' = ready(D, FALSE)
  BY DocumentFields DEF ReadyInv, timeout
<1>2. /\ D \in DocumentStates
      /\ D.readyState = document.readyState /\ D.isReady = document.isReady
      /\ D.readyWait = document.readyWait /\ D.holds = document.holds
      /\ D.readyList = document.readyList
      /\ D.listening = document.listening
      /\ D.timers = document.timers - 1
  BY <1>1 DEF DocumentStates
<1> HIDE DEF D
<1>3. D.readyList # "none" /\ D.readyState = "complete"
  BY <1>1, <1>2 DEF ReadyInv
<1>4. ReadyInv(D)
  BY <1>1, <1>2, <1>3 DEF ReadyInv, Waiting
<1>5. ReadyInv(ready(D, FALSE)) /\ InTime(D, ready(D, FALSE))
  BY <1>3, <1>4, ReadyForEvent
<1>6. QED
  BY <1>1, <1>2, <1>5 DEF InTime

LEMMA ReadyStarts ==
  ASSUME ReadyInit
  PROVE  ReadyInv(document)
<1>1. document = [readyState |-> "loading", isReady |-> FALSE, readyWait |-> 1,
                  readyList |-> "none", listening |-> {}, timers |-> 0,
                  registered |-> {}, ran |-> {}, holds |-> 0, taken |-> 0]
  BY DEF ReadyInit
<1>2. document \in DocumentStates
  BY <1>1 DEF DocumentStates
<1>3. Waiting(document)
  BY <1>1 DEF Waiting
<1>4. QED
  BY <1>1, <1>2, <1>3 DEF ReadyInv

(* The invariant of the ready event, off when the page does not use it.     *)
DocumentInv == document # Off => ReadyInv(document)

LEMMA DocumentSteps ==
  ASSUME DocumentInv, [Next]_vars
  PROVE  /\ DocumentInv'
         /\ document # Off => InTime(document, document')
<1>1. CASE ReadyNext
  <2>1. document # Off
    BY <1>1 DEF ReadyNext, register, hold, release, DOMContentLoaded, load, timeout
  <2>2. ReadyInv(document)
    BY <2>1 DEF DocumentInv
  <2>3. ReadyInv(document') /\ InTime(document, document')
    BY <1>1, <2>2, RegisterKeeps, HoldKeeps, ReleaseKeeps, DOMContentLoadedKeeps,
       LoadKeeps, TimeoutKeeps DEF ReadyNext
  <2>4. QED
    BY <2>3 DEF DocumentInv
<1>2. CASE UNCHANGED document
  BY <1>2 DEF DocumentInv, InTime
<1>3. QED
  BY <1>1, <1>2, OwnSteps

(* The functions of $(document).ready begin to run only when the document   *)
(* is parsed, nobody holds the event, and a registration has made the list: *)
(* for any number of holds, taken and released in any order with the events.*)
THEOREM NotTooEarlyThm == Spec => NotTooEarly
<1>1. Init => DocumentInv
  BY OwnStart, ReadyStarts DEF DocumentInv
<1>2. DocumentInv /\ [Next]_vars => DocumentInv'
  BY DocumentSteps
<1>3. DocumentInv /\ [Next]_vars =>
          [(document # Off /\ document.readyList # "resolved"
                       /\ document'.readyList = "resolved") =>
           /\ document.readyList = "made"
           /\ document'.readyState # "loading"
           /\ document'.holds = 0]_document
  BY DocumentSteps DEF InTime
<1>4. QED
  BY <1>1, <1>2, <1>3, PTL DEF Spec, NotTooEarly

-----------------------------------------------------------------------------
(* Scripts in inserted content.                                             *)

DomStates ==
  [at : [Holder \cup Content -> Holder \cup {Body, Nowhere}],
   made : Content, marked : [Content -> BOOLEAN], ran : [Content -> 0 .. 2],
   heard : [Content -> BOOLEAN], copy : [Content -> BOOLEAN],
   removed : [Content -> BOOLEAN]]

(* Holders are in the body or nowhere, contents in holders or nowhere, and  *)
(* what is not made yet has not run.                                        *)
Placed(D) ==
  /\ \A h \in Holder : D.at[h] \in {Body, Nowhere}
  /\ \A c \in Content : D.at[c] \in Holder \cup {Nowhere}
  /\ \A c \in Content : c > D.made => D.ran[c] = 0

(* A script that ran is marked once it is out of the document, and ran only *)
(* once, unless its content was cleaned.                                    *)
RanIsKnown(D) ==
  \A c \in Content : ~D.removed[c] =>
      /\ D.ran[c] <= 1
      /\ D.ran[c] >= 1 => D.marked[c] \/ InDocument(D, c)

(* What is marked or in the document was heard, or is one of the clones     *)
(* whose script is never evaluated.                                         *)
MarkedIsHeard(D) ==
  \A c \in 1 .. D.made :
      D.marked[c] \/ InDocument(D, c) => D.heard[c] \/ D.copy[c]

ScriptsInv(D) ==
  D \in DomStates /\ Placed(D) /\ RanIsKnown(D) /\ MarkedIsHeard(D)


LEMMA ContentFacts ==
  /\ Content \subseteq Nat /\ Holder \cap Content = {}
  /\ Body # Nowhere /\ Body \notin Holder /\ Nowhere \notin Holder
  /\ Body \notin Content /\ Nowhere \notin Content
  /\ MaxContents \in Nat /\ MaxContents >= 1
BY ScriptsAssumption DEF Content

\* E is D but for the places and the marks.
Moved(D, E) ==
  /\ E.made = D.made /\ E.ran = D.ran /\ E.heard = D.heard /\ E.copy = D.copy
  /\ E.removed = D.removed

LEMMA DomFields ==
  ASSUME NEW D \in DomStates
  PROVE  /\ D.at \in [Holder \cup Content -> Holder \cup {Body, Nowhere}]
         /\ D.made \in Content /\ D.marked \in [Content -> BOOLEAN]
         /\ D.ran \in [Content -> 0 .. 2] /\ D.heard \in [Content -> BOOLEAN]
         /\ D.copy \in [Content -> BOOLEAN] /\ D.removed \in [Content -> BOOLEAN]
         /\ D.made \in Nat /\ 1 .. D.made \subseteq Content
BY ContentFacts DEF DomStates, Content

LEMMA WithPlaces ==
  ASSUME NEW D \in DomStates,
         NEW A \in [Holder \cup Content -> Holder \cup {Body, Nowhere}]
  PROVE  \A E : E = [D EXCEPT !.at = A] =>
             E \in DomStates /\ Moved(D, E) /\ E.at = A /\ E.marked = D.marked
BY DEF DomStates, Moved

LEMMA WithMarks ==
  ASSUME NEW D \in DomStates, NEW M \in [Content -> BOOLEAN]
  PROVE  \A E : E = [D EXCEPT !.marked = M] =>
             E \in DomStates /\ Moved(D, E) /\ E.at = D.at /\ E.marked = M
BY DEF DomStates, Moved

LEMMA ScriptsOfMade ==
  ASSUME NEW D \in DomStates, NEW x \in Holder \cup (1 .. D.made)
  PROVE  /\ ScriptsOf(D, x) \subseteq 1 .. D.made
         /\ x \in Holder \cup Content
BY DomFields DEF ScriptsOf

(* The evaluation history of what is taken out is preserved.                *)
LEMMA PreserveIs ==
  ASSUME NEW D \in DomStates, NEW x \in Holder \cup (1 .. D.made)
  PROVE  /\ PreserveHistory(D, x) \in DomStates
         /\ Moved(D, PreserveHistory(D, x))
         /\ PreserveHistory(D, x).at = D.at
         /\ \A c \in Content : PreserveHistory(D, x).marked[c]
                <=> D.marked[c] \/ (InDocument(D, x) /\ c \in ScriptsOf(D, x))
<1>1. CASE InDocument(D, x)
  <2> DEFINE M == [c \in Content |-> D.marked[c] \/ c \in ScriptsOf(D, x)]
  <2>1. M \in [Content -> BOOLEAN]
    BY DomFields
  <2>2. PreserveHistory(D, x) = [D EXCEPT !.marked = M]
    BY <1>1 DEF PreserveHistory
  <2>3. \A c \in Content : M[c] <=> D.marked[c] \/ c \in ScriptsOf(D, x)
    OBVIOUS
  <2> HIDE DEF M
  <2>4. /\ PreserveHistory(D, x) \in DomStates /\ Moved(D, PreserveHistory(D, x))
        /\ PreserveHistory(D, x).at = D.at /\ PreserveHistory(D, x).marked = M
    BY <2>1, <2>2, WithMarks
  <2>5. QED
    BY <1>1, <2>3, <2>4
<1>2. CASE ~InDocument(D, x)
  BY <1>2 DEF PreserveHistory, Moved
<1>3. QED
  BY <1>1, <1>2

(* A content of a holder, or a content itself, is in the document with it.  *)
LEMMA InDocumentWith ==
  ASSUME NEW D \in DomStates, Placed(D), NEW x \in Holder \cup (1 .. D.made),
         NEW c \in 1 .. D.made
  PROVE  /\ c \in ScriptsOf(D, x) => (InDocument(D, c) <=> InDocument(D, x))
         /\ InDocument(D, c) <=> D.at[c] \in Holder /\ D.at[D.at[c]] = Body
<1>1. c \in Content /\ c \notin Holder
  BY DomFields, ContentFacts
<1>2. InDocument(D, c) <=> D.at[c] \in Holder /\ D.at[D.at[c]] = Body
  BY <1>1 DEF InDocument
<1>3. c \in ScriptsOf(D, x) => (InDocument(D, c) <=> InDocument(D, x))
  <2>1. CASE x \in Holder
    BY <1>1, <1>2, <2>1 DEF InDocument, ScriptsOf
  <2>2. CASE x \notin Holder
    BY <2>2 DEF ScriptsOf
  <2>3. QED
    BY <2>1, <2>2
<1>4. QED
  BY <1>2, <1>3

LEMMA PreserveKeeps ==
  ASSUME NEW D, ScriptsInv(D), NEW x \in Holder \cup (1 .. D.made)
  PROVE  /\ ScriptsInv(PreserveHistory(D, x))
         /\ Moved(D, PreserveHistory(D, x))
         /\ PreserveHistory(D, x).at = D.at
         /\ InDocument(PreserveHistory(D, x), x) =>
                \A c \in ScriptsOf(PreserveHistory(D, x), x) :
                    PreserveHistory(D, x).marked[c]
<1> DEFINE E == PreserveHistory(D, x)
<1>1. D \in DomStates /\ Placed(D) /\ RanIsKnown(D) /\ MarkedIsHeard(D)
  BY DEF ScriptsInv
<1>2. /\ E \in DomStates /\ Moved(D, E) /\ E.at = D.at
      /\ \A c \in Content : E.marked[c]
             <=> D.marked[c] \/ (InDocument(D, x) /\ c \in ScriptsOf(D, x))
  BY <1>1, PreserveIs
<1> HIDE DEF E
<1>3. /\ \A y : InDocument(E, y) <=> InDocument(D, y)
      /\ \A y : ScriptsOf(E, y) = ScriptsOf(D, y)
  BY <1>2 DEF InDocument, ScriptsOf, Moved
<1>4. Placed(E)
  BY <1>1, <1>2 DEF Placed, Moved
<1>5. RanIsKnown(E)
  BY <1>1, <1>2, <1>3 DEF RanIsKnown, Moved
<1>6. MarkedIsHeard(E)
  <2>1. 1 .. D.made \subseteq Content
    BY <1>1, DomFields
  <2>2. \A c \in 1 .. D.made : E.marked[c] => D.marked[c] \/ InDocument(D, c)
    BY <1>1, <1>2, <2>1, InDocumentWith
  <2>3. QED
    BY <1>1, <1>2, <1>3, <2>2 DEF MarkedIsHeard, Moved
<1>7. InDocument(E, x) => \A c \in ScriptsOf(E, x) : E.marked[c]
  BY <1>1, <1>2, <1>3, ScriptsOfMade, DomFields
<1>8. QED
  BY <1>2, <1>4, <1>5, <1>6, <1>7 DEF ScriptsInv, E


(* Taking out x, which is marked if it was in the document.                 *)
LEMMA TakenOut ==
  ASSUME NEW D, ScriptsInv(D), NEW x \in Holder \cup (1 .. D.made),
         InDocument(D, x) => \A c \in ScriptsOf(D, x) : D.marked[c]
  PROVE  LET E == [D EXCEPT !.at[x] = Nowhere]
         IN  /\ ScriptsInv(E) /\ Moved(D, E) /\ E.marked = D.marked
             /\ E.at = [D.at EXCEPT ![x] = Nowhere]
<1> DEFINE A == [D.at EXCEPT ![x] = Nowhere]
           E == [D EXCEPT !.at[x] = Nowhere]
<1>1. D \in DomStates /\ Placed(D) /\ RanIsKnown(D) /\ MarkedIsHeard(D)
  BY DEF ScriptsInv
<1>2. /\ A \in [Holder \cup Content -> Holder \cup {Body, Nowhere}]
      /\ x \in Holder \cup Content
      /\ \A y \in Holder \cup Content : A[y] = IF y = x THEN Nowhere ELSE D.at[y]
  BY <1>1, DomFields, ScriptsOfMade
<1>3. E = [D EXCEPT !.at = A]
  OBVIOUS
<1> HIDE DEF A, E
<1>4. E \in DomStates /\ Moved(D, E) /\ E.at = A /\ E.marked = D.marked
  BY <1>1, <1>2, <1>3, WithPlaces
<1>5. Placed(E)
  BY <1>1, <1>2, <1>4, ContentFacts DEF Placed, Moved
<1>6. /\ 1 .. D.made \subseteq Content /\ 1 .. E.made = 1 .. D.made
      /\ \A c \in Content : D.ran[c] \in Nat /\ (c \notin 1 .. D.made => D.ran[c] = 0)
  <2>1. \A c \in Content : c \notin 1 .. D.made => c > D.made
    BY <1>1, DomFields, ContentFacts DEF Content
  <2>2. QED
    BY <1>1, <1>4, <2>1, DomFields DEF Placed, Moved
<1>7. ASSUME NEW c \in 1 .. D.made
      PROVE  /\ InDocument(E, c) => InDocument(D, c)
             /\ InDocument(D, c) /\ ~InDocument(E, c) => D.marked[c]
  <2>1. c \in Content /\ c \notin Holder
    BY <1>6, ContentFacts
  <2>2. /\ InDocument(D, c) <=> D.at[c] \in Holder /\ D.at[D.at[c]] = Body
        /\ InDocument(E, c) <=> A[c] \in Holder /\ A[A[c]] = Body
    BY <1>4, <2>1 DEF InDocument
  <2>3. InDocument(E, c) => InDocument(D, c)
    BY <1>2, <2>1, <2>2, ContentFacts
  <2>4. InDocument(D, c) /\ ~InDocument(E, c) => c \in ScriptsOf(D, x)
    <3>1. CASE c = x
      BY <2>1, <3>1 DEF ScriptsOf
    <3>2. CASE c # x
      BY <1>2, <2>1, <2>2, <3>2 DEF ScriptsOf
    <3>3. QED
      BY <3>1, <3>2
  <2>5. c \in ScriptsOf(D, x) /\ InDocument(D, c) => D.marked[c]
    BY <1>1, InDocumentWith
  <2>6. QED
    BY <2>3, <2>4, <2>5
<1>8. RanIsKnown(E)
  <2> SUFFICES ASSUME NEW c \in Content, ~E.removed[c]
               PROVE  E.ran[c] <= 1 /\ (E.ran[c] >= 1 => E.marked[c] \/ InDocument(E, c))
    BY DEF RanIsKnown
  <2>1. D.ran[c] <= 1 /\ (D.ran[c] >= 1 => D.marked[c] \/ InDocument(D, c))
    BY <1>1, <1>4 DEF RanIsKnown, Moved
  <2>2. D.ran[c] >= 1 => c \in 1 .. D.made
    BY <1>6
  <2>3. QED
    BY <1>4, <1>7, <2>1, <2>2 DEF Moved
<1>9. MarkedIsHeard(E)
  BY <1>1, <1>4, <1>6, <1>7 DEF MarkedIsHeard, Moved
<1>10. QED
  BY <1>4, <1>5, <1>8, <1>9 DEF ScriptsInv, A, E

(* detach(), and what buildFragment does.                                   *)
LEMMA DetachedKeeps ==
  ASSUME NEW D, ScriptsInv(D), NEW x \in Holder \cup (1 .. D.made)
  PROVE  /\ ScriptsInv(Detached(D, x)) /\ Moved(D, Detached(D, x))
         /\ Detached(D, x).at = [D.at EXCEPT ![x] = Nowhere]
<1> DEFINE P == PreserveHistory(D, x)
<1>1. /\ ScriptsInv(P) /\ Moved(D, P) /\ P.at = D.at
      /\ InDocument(P, x) => \A c \in ScriptsOf(P, x) : P.marked[c]
  BY PreserveKeeps
<1>2. Detached(D, x) = [P EXCEPT !.at[x] = Nowhere] /\ P.made = D.made
  BY <1>1 DEF Detached, Moved
<1> HIDE DEF P
<1>3. /\ ScriptsInv(Detached(D, x)) /\ Moved(P, Detached(D, x))
      /\ Detached(D, x).at = [P.at EXCEPT ![x] = Nowhere]
  BY <1>1, <1>2, TakenOut
<1>4. QED
  BY <1>1, <1>3 DEF Moved

LEMMA EvaluateIs ==
  ASSUME NEW D \in DomStates, NEW x
  PROVE  LET E == Evaluate(D, x)
             due == {c \in ScriptsOf(D, x) : ~D.marked[c] /\ InDocument(D, c)}
         IN /\ E \in DomStates
            /\ E.at = D.at /\ E.made = D.made /\ E.marked = D.marked
            /\ E.copy = D.copy /\ E.removed = D.removed
            /\ \A c \in Content :
                   /\ E.ran[c] = IF c \in due /\ D.ran[c] < 2 THEN D.ran[c] + 1 ELSE D.ran[c]
                   /\ E.heard[c] <=> D.heard[c] \/ c \in due
<1> DEFINE due == {c \in ScriptsOf(D, x) : ~D.marked[c] /\ InDocument(D, c)}
           R == [c \in Content |-> IF c \in due /\ D.ran[c] < 2 THEN D.ran[c] + 1
                                   ELSE D.ran[c]]
           H == [c \in Content |-> D.heard[c] \/ c \in due]
           E == Evaluate(D, x)
<1>1. E = [D EXCEPT !.ran = R, !.heard = H]
  BY DEF Evaluate
<1> HIDE DEF due
<1>2. H \in [Content -> BOOLEAN] /\ R \in [Content -> 0 .. 2]
  BY DomFields
<1>3. \A c \in Content :
          /\ R[c] = IF c \in due /\ D.ran[c] < 2 THEN D.ran[c] + 1 ELSE D.ran[c]
          /\ H[c] <=> D.heard[c] \/ c \in due
  OBVIOUS
<1> HIDE DEF R, H, E
<1>4. /\ E \in DomStates
      /\ E.at = D.at /\ E.made = D.made /\ E.marked = D.marked
      /\ E.copy = D.copy /\ E.removed = D.removed /\ E.ran = R /\ E.heard = H
  BY <1>1, <1>2 DEF DomStates
<1>5. QED
  BY <1>3, <1>4 DEF due, E

(* x is put into its new place and evaluated: only what never ran runs.     *)
LEMMA PlaceEvaluated ==
  ASSUME NEW D, ScriptsInv(D), NEW x \in Holder \cup (1 .. D.made),
         InDocument(D, x) => \A c \in ScriptsOf(D, x) : D.marked[c],
         NEW y, IF x \in Holder THEN y = Body ELSE y \in Holder
  PROVE  /\ ScriptsInv(Evaluate([D EXCEPT !.at[x] = y], x))
         /\ Evaluate([D EXCEPT !.at[x] = y], x).made = D.made
<1> DEFINE A == [D.at EXCEPT ![x] = y]
           F == [D EXCEPT !.at[x] = y]
           G == Evaluate(F, x)
           due == {c \in ScriptsOf(F, x) : ~F.marked[c] /\ InDocument(F, c)}
<1>1. D \in DomStates /\ Placed(D) /\ RanIsKnown(D) /\ MarkedIsHeard(D)
  BY DEF ScriptsInv
<1>2. /\ A \in [Holder \cup Content -> Holder \cup {Body, Nowhere}]
      /\ x \in Holder \cup Content
      /\ \A z \in Holder \cup Content : A[z] = IF z = x THEN y ELSE D.at[z]
  BY <1>1, DomFields, ScriptsOfMade
<1>3. F = [D EXCEPT !.at = A]
  OBVIOUS
<1> HIDE DEF A, F
<1>4. F \in DomStates /\ Moved(D, F) /\ F.at = A /\ F.marked = D.marked
  BY <1>1, <1>2, <1>3, WithPlaces
<1>5. /\ G \in DomStates
      /\ G.at = F.at /\ G.made = F.made /\ G.marked = F.marked
      /\ G.copy = F.copy /\ G.removed = F.removed
      /\ \A c \in Content :
             /\ G.ran[c] = IF c \in due /\ F.ran[c] < 2 THEN F.ran[c] + 1 ELSE F.ran[c]
             /\ G.heard[c] <=> F.heard[c] \/ c \in due
  BY <1>4, EvaluateIs
<1> HIDE DEF G
<1>6. /\ 1 .. D.made \subseteq Content /\ G.made = D.made /\ D.made \in Nat
      /\ \A c \in Content : D.ran[c] \in Nat /\ (c \notin 1 .. D.made => D.ran[c] = 0)
  <2>1. \A c \in Content : c \notin 1 .. D.made => c > D.made
    BY <1>1, DomFields, ContentFacts DEF Content
  <2>2. QED
    BY <1>1, <1>4, <1>5, <2>1, DomFields DEF Placed, Moved
<1>7. ScriptsOf(F, x) = ScriptsOf(D, x) /\ ScriptsOf(D, x) \subseteq 1 .. D.made
  <2>1. ScriptsOf(D, x) \subseteq 1 .. D.made
    BY <1>1, ScriptsOfMade
  <2>2. x \in Holder => \A c \in 1 .. D.made : F.at[c] = D.at[c]
    BY <1>2, <1>4, <1>6, ContentFacts
  <2>3. QED
    BY <1>4, <2>1, <2>2 DEF ScriptsOf, Moved
(* Away from x nothing moves.                                               *)
<1>8. ASSUME NEW c \in 1 .. D.made
      PROVE  /\ InDocument(G, c) <=> InDocument(F, c)
             /\ c \notin ScriptsOf(D, x) => (InDocument(G, c) <=> InDocument(D, c))
  <2>1. c \in Content /\ c \notin Holder
    BY <1>6, ContentFacts
  <2>2. /\ InDocument(D, c) <=> D.at[c] \in Holder /\ D.at[D.at[c]] = Body
        /\ InDocument(F, c) <=> A[c] \in Holder /\ A[A[c]] = Body
        /\ InDocument(G, c) <=> A[c] \in Holder /\ A[A[c]] = Body
    BY <1>4, <1>5, <2>1 DEF InDocument
  <2>3. c \notin ScriptsOf(D, x) => c # x /\ ~(x \in Holder /\ D.at[c] = x)
    BY <2>1 DEF ScriptsOf
  <2>4. c \notin ScriptsOf(D, x) => (InDocument(G, c) <=> InDocument(D, c))
    BY <1>2, <2>1, <2>2, <2>3
  <2>5. QED
    BY <2>2, <2>4
<1>9. \A c \in ScriptsOf(D, x) : InDocument(D, c) => D.marked[c]
  BY <1>1, <1>7, InDocumentWith
<1>10. due = {c \in ScriptsOf(D, x) : ~D.marked[c] /\ InDocument(G, c)}
  BY <1>4, <1>7, <1>8
<1> HIDE DEF due
<1>11. Placed(G)
  <2>1. \A h \in Holder : G.at[h] \in {Body, Nowhere}
    BY <1>1, <1>2, <1>4, <1>5 DEF Placed
  <2>2. \A c \in Content : G.at[c] \in Holder \cup {Nowhere}
    BY <1>1, <1>2, <1>4, <1>5, ContentFacts DEF Placed
  <2>3. \A c \in Content : c > G.made => G.ran[c] = 0
    <3> SUFFICES ASSUME NEW c \in Content, c > G.made
                 PROVE  G.ran[c] = 0
      OBVIOUS
    <3>1. c \notin 1 .. D.made /\ D.ran[c] = 0
      BY <1>6, ContentFacts
    <3>2. c \notin due
      BY <1>7, <1>10, <3>1
    <3>3. QED
      BY <1>4, <1>5, <3>1, <3>2 DEF Moved
  <2>4. QED
    BY <2>1, <2>2, <2>3 DEF Placed
<1>12. RanIsKnown(G)
  <2> SUFFICES ASSUME NEW c \in Content, ~G.removed[c]
               PROVE  G.ran[c] <= 1 /\ (G.ran[c] >= 1 => G.marked[c] \/ InDocument(G, c))
    BY DEF RanIsKnown
  <2>1. D.ran[c] <= 1 /\ (D.ran[c] >= 1 => D.marked[c] \/ InDocument(D, c))
    BY <1>1, <1>4, <1>5 DEF RanIsKnown, Moved
  <2>2. CASE c \in due
    <3>1. ~D.marked[c] /\ InDocument(G, c) /\ ~InDocument(D, c)
      BY <1>9, <1>10, <2>2
    <3>2. D.ran[c] = 0
      BY <1>6, <2>1, <3>1
    <3>3. G.ran[c] = 1
      BY <1>4, <1>5, <2>2, <3>2 DEF Moved
    <3>4. QED
      BY <3>1, <3>3
  <2>3. CASE c \notin due
    <3>1. G.ran[c] = D.ran[c] /\ G.marked[c] = D.marked[c]
      BY <1>4, <1>5, <2>3 DEF Moved
    <3>2. D.ran[c] >= 1 => c \in 1 .. D.made
      BY <1>6
    <3>3. D.ran[c] >= 1 /\ ~D.marked[c] => InDocument(D, c) /\ c \notin ScriptsOf(D, x)
      BY <1>9, <2>1
    <3>4. QED
      BY <1>8, <2>1, <3>1, <3>2, <3>3
  <2>4. QED
    BY <2>2, <2>3
<1>13. MarkedIsHeard(G)
  <2> SUFFICES ASSUME NEW c \in 1 .. D.made, G.marked[c] \/ InDocument(G, c)
               PROVE  G.heard[c] \/ G.copy[c]
    BY <1>6 DEF MarkedIsHeard
  <2>1. c \in Content /\ G.marked[c] = D.marked[c] /\ G.copy[c] = D.copy[c]
        /\ (D.heard[c] \/ c \in due => G.heard[c])
    BY <1>4, <1>5, <1>6 DEF Moved
  <2>2. D.marked[c] \/ InDocument(D, c) => D.heard[c] \/ D.copy[c]
    BY <1>1 DEF MarkedIsHeard
  <2>3. ~D.marked[c] /\ ~InDocument(D, c) => c \in due
    BY <1>8, <1>10, <2>1
  <2>4. QED
    BY <2>1, <2>2, <2>3
<1>14. QED
  BY <1>5, <1>6, <1>11, <1>12, <1>13 DEF ScriptsInv, G, F

(* A clone starts with the history of its source.                           *)
LEMMA CloneKeeps ==
  ASSUME NEW D, ScriptsInv(D), NEW c \in 1 .. D.made, D.made < MaxContents,
         NEW place \in Holder \cup {Nowhere}, NEW isCopy \in BOOLEAN,
         isCopy \/ place = Nowhere
  PROVE  /\ ScriptsInv(CloneOf(D, c, place, isCopy))
         /\ CloneOf(D, c, place, isCopy).made = D.made + 1
         /\ \A b \in 1 .. D.made : CloneOf(D, c, place, isCopy).at[b] = D.at[b]
         /\ CloneOf(D, c, place, isCopy).at[D.made + 1] = place
<1> DEFINE n == D.made + 1
           A == [D.at EXCEPT ![n] = place]
           M == [D.marked EXCEPT ![n] = InDocument(D, c) \/ D.marked[c]]
           H == [D.heard EXCEPT ![n] = D.heard[c]]
           C == [D.copy EXCEPT ![n] = D.copy[c] \/ isCopy]
           E == CloneOf(D, c, place, isCopy)
<1>1. D \in DomStates /\ Placed(D) /\ RanIsKnown(D) /\ MarkedIsHeard(D)
  BY DEF ScriptsInv
<1>2. /\ n \in Content /\ n \notin 1 .. D.made /\ c \in Content /\ c # n
      /\ 1 .. n = (1 .. D.made) \cup {n} /\ D.made \in Nat
      /\ 1 .. D.made \subseteq Content /\ n \notin Holder
      /\ \A b \in Content : b > n => b > D.made
  BY <1>1, DomFields, ContentFacts DEF Content
<1>3. E = [D EXCEPT !.made = n, !.at = A, !.marked = M, !.heard = H, !.copy = C]
  BY DEF CloneOf
<1>4. InDocument(D, c) \in BOOLEAN
  BY DEF InDocument
<1> HIDE DEF n
<1>5. /\ A \in [Holder \cup Content -> Holder \cup {Body, Nowhere}]
      /\ M \in [Content -> BOOLEAN]
      /\ H \in [Content -> BOOLEAN]
      /\ C \in [Content -> BOOLEAN]
  BY <1>1, <1>2, <1>4, DomFields
<1>6. /\ \A y \in Holder \cup Content : A[y] = IF y = n THEN place ELSE D.at[y]
      /\ \A b \in Content : b # n => M[b] = D.marked[b] /\ H[b] = D.heard[b]
                                      /\ C[b] = D.copy[b]
      /\ M[n] = (InDocument(D, c) \/ D.marked[c])
      /\ H[n] = D.heard[c]
      /\ C[n] = (D.copy[c] \/ isCopy)
  BY <1>1, <1>2, DomFields
<1> HIDE DEF A, M, H, C, E
<1>7. /\ E \in DomStates
      /\ E.made = n /\ E.at = A /\ E.marked = M /\ E.heard = H /\ E.copy = C
      /\ E.ran = D.ran /\ E.removed = D.removed
  BY <1>1, <1>2, <1>3, <1>5 DEF DomStates
<1>8. Placed(E)
  <2>1. /\ \A h \in Holder : E.at[h] \in {Body, Nowhere}
        /\ \A b \in Content : E.at[b] \in Holder \cup {Nowhere}
    BY <1>1, <1>2, <1>6, <1>7 DEF Placed
  <2>2. \A b \in Content : b > E.made => E.ran[b] = 0
    BY <1>1, <1>2, <1>7 DEF Placed
  <2>3. QED
    BY <2>1, <2>2 DEF Placed
<1>9. \A b \in Content : b # n => (InDocument(E, b) <=> InDocument(D, b))
  <2> SUFFICES ASSUME NEW b \in Content, b # n
               PROVE  InDocument(E, b) <=> InDocument(D, b)
    OBVIOUS
  <2>1. b \notin Holder
    BY ContentFacts
  <2>2. /\ InDocument(D, b) <=> D.at[b] \in Holder /\ D.at[D.at[b]] = Body
        /\ InDocument(E, b) <=> A[b] \in Holder /\ A[A[b]] = Body
    BY <1>7, <2>1 DEF InDocument
  <2>3. QED
    BY <1>2, <1>6, <2>2
<1>10. InDocument(E, n) => isCopy
  <2>1. InDocument(E, n) => A[n] \in Holder
    BY <1>2, <1>7 DEF InDocument
  <2>2. QED
    BY <1>2, <1>6, <2>1, ContentFacts
<1>11. RanIsKnown(E)
  <2> SUFFICES ASSUME NEW b \in Content, ~E.removed[b]
               PROVE  E.ran[b] <= 1 /\ (E.ran[b] >= 1 => E.marked[b] \/ InDocument(E, b))
    BY DEF RanIsKnown
  <2>1. D.ran[b] <= 1 /\ (D.ran[b] >= 1 => D.marked[b] \/ InDocument(D, b))
    BY <1>1, <1>7 DEF RanIsKnown
  <2>2. CASE b = n
    <3>1. n > D.made
      BY <1>1, DomFields DEF n
    <3>2. E.ran[b] = 0
      BY <1>1, <1>2, <1>7, <2>2, <3>1 DEF Placed
    <3>3. QED
      BY <3>2
  <2>3. CASE b # n
    BY <1>6, <1>7, <1>9, <2>1, <2>3
  <2>4. QED
    BY <2>2, <2>3
<1>12. MarkedIsHeard(E)
  <2> SUFFICES ASSUME NEW b \in 1 .. n, E.marked[b] \/ InDocument(E, b)
               PROVE  E.heard[b] \/ E.copy[b]
    BY <1>7 DEF MarkedIsHeard
  <2>1. CASE b = n
    <3>1. D.marked[c] \/ InDocument(D, c) => D.heard[c] \/ D.copy[c]
      BY <1>1 DEF MarkedIsHeard
    <3>2. QED
      BY <1>6, <1>7, <1>10, <2>1, <3>1
  <2>2. CASE b # n
    <3>1. b \in 1 .. D.made /\ b \in Content
      BY <1>2, <2>2
    <3>2. D.marked[b] \/ InDocument(D, b) => D.heard[b] \/ D.copy[b]
      BY <1>1, <3>1 DEF MarkedIsHeard
    <3>3. QED
      BY <1>6, <1>7, <1>9, <2>2, <3>1, <3>2
  <2>3. QED
    BY <2>1, <2>2
<1>13. QED
  BY <1>2, <1>6, <1>7, <1>8, <1>11, <1>12 DEF ScriptsInv, E, n

(* cleanData: what is cleaned may run again.                                *)
LEMMA CleanedKeeps ==
  ASSUME NEW D, ScriptsInv(D), NEW x \in Holder \cup (1 .. D.made)
  PROVE  LET E == Cleaned(D, ScriptsOf(D, x)) IN
         /\ E \in DomStates
         /\ E.at = D.at /\ E.made = D.made /\ E.ran = D.ran /\ E.heard = D.heard
         /\ E.copy = D.copy
         /\ \A c \in Content :
                /\ E.marked[c] <=> D.marked[c] /\ c \notin ScriptsOf(D, x)
                /\ E.removed[c] <=> D.removed[c] \/ c \in ScriptsOf(D, x)
<1> DEFINE S == ScriptsOf(D, x)
           M == [c \in Content |-> D.marked[c] /\ c \notin S]
           R == [c \in Content |-> D.removed[c] \/ c \in S]
           E == Cleaned(D, S)
<1>1. D \in DomStates
  BY DEF ScriptsInv
<1>2. E = [D EXCEPT !.marked = M, !.removed = R]
  BY DEF Cleaned
<1> HIDE DEF S
<1>3. M \in [Content -> BOOLEAN] /\ R \in [Content -> BOOLEAN]
  BY <1>1, DomFields
<1>4. \A c \in Content : /\ M[c] <=> D.marked[c] /\ c \notin S
                         /\ R[c] <=> D.removed[c] \/ c \in S
  OBVIOUS
<1> HIDE DEF M, R, E
<1>5. /\ E \in DomStates
      /\ E.at = D.at /\ E.made = D.made /\ E.ran = D.ran /\ E.heard = D.heard
      /\ E.copy = D.copy /\ E.marked = M /\ E.removed = R
  BY <1>1, <1>2, <1>3 DEF DomStates
<1>6. QED
  BY <1>4, <1>5 DEF E, S

(* The scripts of x are cleaned, and x or what is in it is taken out.       *)
LEMMA CleanedOut ==
  ASSUME NEW D, ScriptsInv(D), NEW x \in Holder \cup (1 .. D.made),
         NEW A \in [Holder \cup Content -> Holder \cup {Body, Nowhere}],
         \A y \in Holder \cup Content :
             A[y] = D.at[y] \/ (A[y] = Nowhere /\ (y = x \/ D.at[y] = x)),
         NEW E, E = [Cleaned(D, ScriptsOf(D, x)) EXCEPT !.at = A]
  PROVE  ScriptsInv(E)
<1> DEFINE B == Cleaned(D, ScriptsOf(D, x))
<1>1. D \in DomStates /\ Placed(D) /\ RanIsKnown(D) /\ MarkedIsHeard(D)
  BY DEF ScriptsInv
<1>2. /\ B \in DomStates
      /\ B.at = D.at /\ B.made = D.made /\ B.ran = D.ran /\ B.heard = D.heard
      /\ B.copy = D.copy
      /\ \A c \in Content :
             /\ B.marked[c] <=> D.marked[c] /\ c \notin ScriptsOf(D, x)
             /\ B.removed[c] <=> D.removed[c] \/ c \in ScriptsOf(D, x)
  BY CleanedKeeps
<1> HIDE DEF B
<1>3. E = [B EXCEPT !.at = A]
  BY DEF B
<1>4. E \in DomStates /\ Moved(B, E) /\ E.at = A /\ E.marked = B.marked
  BY <1>2, <1>3, WithPlaces, ZenonT(40)
<1>5. Placed(E)
  BY <1>1, <1>2, <1>4, ContentFacts DEF Placed, Moved
<1>6. /\ 1 .. D.made \subseteq Content
      /\ \A c \in Content : D.ran[c] \in Nat /\ (c \notin 1 .. D.made => D.ran[c] = 0)
  <2>1. \A c \in Content : c \notin 1 .. D.made => c > D.made
    BY <1>1, DomFields, ContentFacts DEF Content
  <2>2. QED
    BY <1>1, <2>1, DomFields DEF Placed
<1>7. ASSUME NEW c \in 1 .. D.made
      PROVE  /\ InDocument(E, c) => InDocument(D, c)
             /\ InDocument(D, c) /\ ~InDocument(E, c) => c \in ScriptsOf(D, x)
  <2>1. c \in Content /\ c \notin Holder
    BY <1>6, ContentFacts
  <2>2. /\ InDocument(D, c) <=> D.at[c] \in Holder /\ D.at[D.at[c]] = Body
        /\ InDocument(E, c) <=> A[c] \in Holder /\ A[A[c]] = Body
    BY <1>4, <2>1 DEF InDocument
  <2>3. InDocument(E, c) => InDocument(D, c)
    BY <2>1, <2>2, ContentFacts
  <2>4. InDocument(D, c) /\ ~InDocument(E, c) => c \in ScriptsOf(D, x)
    <3> SUFFICES ASSUME InDocument(D, c), ~InDocument(E, c)
                 PROVE  c \in ScriptsOf(D, x)
      OBVIOUS
    <3> DEFINE h == D.at[c]
    <3>1. h \in Holder /\ D.at[h] = Body
      BY <2>2
    <3>2. A[c] # h \/ A[h] # Body
      BY <2>2, <3>1
    <3>3. CASE A[c] # h
      <4>1. c = x \/ h = x
        BY <2>1, <3>3
      <4>2. QED
        BY <2>1, <3>1, <4>1 DEF ScriptsOf
    <3>4. CASE A[h] # Body
      <4>1. h = x
        BY <1>1, <3>1, <3>4, ScriptsOfMade, ContentFacts
      <4>2. QED
        BY <3>1, <4>1 DEF ScriptsOf
    <3>5. QED
      BY <3>2, <3>3, <3>4
  <2>5. QED
    BY <2>3, <2>4
<1>8. RanIsKnown(E)
  <2> SUFFICES ASSUME NEW c \in Content, ~E.removed[c]
               PROVE  E.ran[c] <= 1 /\ (E.ran[c] >= 1 => E.marked[c] \/ InDocument(E, c))
    BY DEF RanIsKnown
  <2>1. ~D.removed[c] /\ c \notin ScriptsOf(D, x) /\ E.ran[c] = D.ran[c]
        /\ (E.marked[c] <=> D.marked[c])
    BY <1>2, <1>4 DEF Moved
  <2>2. D.ran[c] <= 1 /\ (D.ran[c] >= 1 => D.marked[c] \/ InDocument(D, c))
    BY <1>1, <2>1 DEF RanIsKnown
  <2>3. D.ran[c] >= 1 => c \in 1 .. D.made
    BY <1>6
  <2>4. QED
    BY <1>7, <2>1, <2>2, <2>3
<1>9. MarkedIsHeard(E)
  BY <1>1, <1>2, <1>4, <1>6, <1>7 DEF MarkedIsHeard, Moved
<1>10. QED
  BY <1>4, <1>5, <1>8, <1>9 DEF ScriptsInv

(* domManip for one content, with one place or two.                         *)
LEMMA DomManipKeeps ==
  ASSUME NEW D, ScriptsInv(D), NEW c \in 1 .. D.made, NEW targets,
         \/ \E h \in Holder : targets = <<h>>
         \/ D.made < MaxContents /\ \E h, k \in Holder : targets = <<h, k>>
  PROVE  /\ ScriptsInv(DomManip(D, c, targets))
         /\ Len(targets) = 1 => DomManip(D, c, targets).made = D.made
<1> DEFINE F == Detached(D, c)
<1>1. /\ ScriptsInv(F) /\ Moved(D, F) /\ F.at = [D.at EXCEPT ![c] = Nowhere]
      /\ c \in Content /\ c \notin Holder /\ F.made = D.made
      /\ D.at \in [Holder \cup Content -> Holder \cup {Body, Nowhere}]
  BY DetachedKeeps, DomFields, ContentFacts DEF ScriptsInv, Moved
<1>2. F.at[c] = Nowhere
  BY <1>1
<1>3. DomManip(D, c, targets) = Evaluate(ToTargets(F, c, targets), c)
  BY DEF DomManip, Detached
<1> HIDE DEF F
<1>4. CASE \E h \in Holder : targets = <<h>>
  <2>1. PICK h \in Holder : targets = <<h>>
    BY <1>4
  <2>2. ToTargets(F, c, targets) = [F EXCEPT !.at[c] = h]
    BY <2>1 DEF ToTargets, Last
  <2>3. ~InDocument(F, c)
    BY <1>1, <1>2, ContentFacts DEF InDocument
  <2>4. /\ ScriptsInv(Evaluate([F EXCEPT !.at[c] = h], c))
        /\ Evaluate([F EXCEPT !.at[c] = h], c).made = F.made
    BY <1>1, <2>3, PlaceEvaluated
  <2>5. QED
    BY <1>1, <1>3, <2>2, <2>4
<1>5. CASE D.made < MaxContents /\ \E h, k \in Holder : targets = <<h, k>>
  <2>1. PICK h \in Holder, k \in Holder : targets = <<h, k>>
    BY <1>5
  <2> DEFINE C == CloneOf(F, c, h, TRUE)
  <2>2. ToTargets(F, c, targets) = [C EXCEPT !.at[c] = k]
    BY <2>1 DEF ToTargets, Last
  <2>3. /\ ScriptsInv(C) /\ C.made = F.made + 1
        /\ \A b \in 1 .. F.made : C.at[b] = F.at[b]
    <3>1. c \in 1 .. F.made /\ F.made < MaxContents /\ h \in Holder \cup {Nowhere}
      BY <1>1, <1>5
    <3>2. ASSUME NEW b \in BOOLEAN, b
          PROVE  /\ ScriptsInv(CloneOf(F, c, h, b))
                 /\ CloneOf(F, c, h, b).made = F.made + 1
                 /\ \A a \in 1 .. F.made : CloneOf(F, c, h, b).at[a] = F.at[a]
      <4>1. ScriptsInv(F) /\ (b \/ h = Nowhere)
        BY <1>1, <3>2
      <4>2. QED
        BY <3>1, <4>1, CloneKeeps, ZenonT(40)
    <3>3. QED
      BY <3>2, Zenon
  <2> HIDE DEF C
  <2>4. c \in 1 .. C.made /\ C.at[c] = Nowhere
    BY <1>1, <1>2, <2>3, DomFields DEF ScriptsInv
  <2>5. ~InDocument(C, c)
    BY <1>1, <2>4, ContentFacts DEF InDocument
  <2>6. ScriptsInv(Evaluate([C EXCEPT !.at[c] = k], c))
    BY <1>1, <2>3, <2>4, <2>5, PlaceEvaluated
  <2>7. Len(targets) = 2
    BY <2>1
  <2>8. QED
    BY <1>3, <2>2, <2>6, <2>7
<1>6. QED
  BY <1>4, <1>5

LEMMA TargetsAre ==
  ASSUME ScriptsInv(dom), NEW targets \in Targets
  PROVE  \/ \E h \in Holder : targets = <<h>> /\ Len(targets) = 1
         \/ /\ dom.made < MaxContents
            /\ \E h, k \in Holder : targets = <<h, k>> /\ Len(targets) # 1
BY DomFields, ContentFacts DEF Targets, ScriptsInv

LEMMA AppendKeeps ==
  ASSUME ScriptsInv(dom), NEW c, NEW targets, append(c, targets)
  PROVE  ScriptsInv(dom')
<1>1. c \in 1 .. dom.made /\ targets \in Targets /\ dom' = DomManip(dom, c, targets)
  BY DEF append, Made
<1>2. QED
  BY <1>1, TargetsAre, DomManipKeeps

LEMMA AppendToKeeps ==
  ASSUME ScriptsInv(dom), NEW c, NEW targets, appendTo(c, targets)
  PROVE  ScriptsInv(dom')
<1> DEFINE C == CloneOf(dom, c, Nowhere, FALSE)
           M == DomManip(C, dom.made + 1, <<targets[1]>>)
           last == Last(targets)
<1>1. /\ c \in 1 .. dom.made /\ targets \in Targets
      /\ dom' = DomManip(IF Len(targets) = 1 THEN dom ELSE M, c, <<last>>)
  BY DEF appendTo, Made
<1>2. dom \in DomStates /\ dom.made \in Nat
  BY DomFields DEF ScriptsInv
<1>3. CASE \E h \in Holder : targets = <<h>> /\ Len(targets) = 1
  <2>1. last \in Holder
    BY <1>3 DEF Last
  <2>2. ScriptsInv(DomManip(dom, c, <<last>>))
    BY <1>1, <2>1, DomManipKeeps
  <2>3. QED
    BY <1>1, <1>3, <2>2
<1>4. CASE /\ dom.made < MaxContents
           /\ \E h, k \in Holder : targets = <<h, k>> /\ Len(targets) # 1
  <2>1. last \in Holder /\ targets[1] \in Holder /\ Len(targets) # 1
    BY <1>4 DEF Last
  <2>2. ScriptsInv(C) /\ C.made = dom.made + 1
    <3>1. dom.made < MaxContents /\ Nowhere \in Holder \cup {Nowhere}
      BY <1>4
    <3>2. QED
      BY <1>1, <3>1, CloneKeeps, Zenon
  <2> HIDE DEF C
  <2>3. dom.made + 1 \in 1 .. C.made
    BY <1>2, <2>2
  <2>4. Len(<<targets[1]>>) = 1
    OBVIOUS
  <2>5. ScriptsInv(M) /\ M.made = C.made
    BY <2>1, <2>2, <2>3, <2>4, DomManipKeeps
  <2> HIDE DEF M, last
  <2>6. c \in 1 .. M.made
    BY <1>1, <1>2, <2>2, <2>5
  <2>7. ScriptsInv(DomManip(M, c, <<last>>))
    BY <2>1, <2>5, <2>6, DomManipKeeps
  <2>8. QED
    BY <1>1, <2>1, <2>7
<1>5. QED
  BY <1>1, <1>3, <1>4, TargetsAre

LEMMA AppendHolderKeeps ==
  ASSUME ScriptsInv(dom), NEW h \in Holder, appendHolder(h)
  PROVE  ScriptsInv(dom')
<1> DEFINE P == PreserveHistory(dom, h)
<1>1. /\ ScriptsInv(P) /\ Moved(dom, P)
      /\ InDocument(P, h) => \A c \in ScriptsOf(P, h) : P.marked[c]
  BY PreserveKeeps
<1>2. dom' = Evaluate([P EXCEPT !.at[h] = Body], h)
  BY DEF appendHolder
<1> HIDE DEF P
<1>3. QED
  BY <1>1, <1>2, PlaceEvaluated

LEMMA DetachKeeps ==
  ASSUME ScriptsInv(dom), NEW x, detach(x)
  PROVE  ScriptsInv(dom')
BY DetachedKeeps DEF detach, Made

LEMMA RemoveKeeps ==
  ASSUME ScriptsInv(dom), NEW x, remove(x)
  PROVE  ScriptsInv(dom')
<1> DEFINE B == Cleaned(dom, ScriptsOf(dom, x))
           A == [dom.at EXCEPT ![x] = Nowhere]
<1>1. x \in Holder \cup (1 .. dom.made) /\ dom' = [B EXCEPT !.at[x] = Nowhere]
  BY DEF remove, Made
<1>2. B.at = dom.at
  BY <1>1, CleanedKeeps
<1>3. dom' = [B EXCEPT !.at = A]
  BY <1>1, <1>2
<1>4. /\ A \in [Holder \cup Content -> Holder \cup {Body, Nowhere}]
      /\ \A y \in Holder \cup Content :
             A[y] = dom.at[y] \/ (A[y] = Nowhere /\ (y = x \/ dom.at[y] = x))
  BY <1>1, DomFields DEF ScriptsInv
<1> HIDE DEF A
<1>5. QED
  BY <1>1, <1>3, <1>4, CleanedOut, Zenon

LEMMA EmptyKeeps ==
  ASSUME ScriptsInv(dom), NEW h \in Holder, empty(h)
  PROVE  ScriptsInv(dom')
<1> DEFINE B == Cleaned(dom, ScriptsOf(dom, h))
           A == [x \in DOMAIN B.at |-> IF B.at[x] = h THEN Nowhere ELSE B.at[x]]
<1>1. h \in Holder \cup (1 .. dom.made) /\ dom' = [B EXCEPT !.at = A]
  BY DEF empty
<1>2. B.at = dom.at
  BY <1>1, CleanedKeeps
<1>3. /\ A \in [Holder \cup Content -> Holder \cup {Body, Nowhere}]
      /\ \A y \in Holder \cup Content :
             A[y] = dom.at[y] \/ (A[y] = Nowhere /\ (y = h \/ dom.at[y] = h))
  <2> HIDE DEF B
  <2>1. QED
    BY <1>2, DomFields DEF ScriptsInv
<1> HIDE DEF A
<1>4. QED
  BY <1>1, <1>3, CleanedOut, Zenon

LEMMA CloneStepKeeps ==
  ASSUME ScriptsInv(dom), NEW c, clone(c)
  PROVE  ScriptsInv(dom')
<1>1. /\ c \in 1 .. dom.made /\ dom.made < MaxContents
      /\ Nowhere \in Holder \cup {Nowhere}
      /\ dom' = CloneOf(dom, c, Nowhere, FALSE)
  BY DEF clone, Made
<1>2. ScriptsInv(CloneOf(dom, c, Nowhere, FALSE))
  BY <1>1, CloneKeeps, Zenon
<1>3. QED
  BY <1>1, <1>2, Zenon

LEMMA ScriptsSteps ==
  ASSUME ScriptsInv(dom), ScriptsNext
  PROVE  ScriptsInv(dom')
<1>1. ASSUME NEW c \in Content, NEW targets \in Targets,
             append(c, targets) \/ appendTo(c, targets)
      PROVE  ScriptsInv(dom')
  BY <1>1, AppendKeeps, AppendToKeeps
<1>2. ASSUME NEW c \in Content, clone(c)
      PROVE  ScriptsInv(dom')
  BY <1>2, CloneStepKeeps
<1>3. ASSUME NEW h \in Holder, appendHolder(h) \/ empty(h)
      PROVE  ScriptsInv(dom')
  BY <1>3, AppendHolderKeeps, EmptyKeeps
<1>4. ASSUME NEW x \in Holder \cup Content, detach(x) \/ remove(x)
      PROVE  ScriptsInv(dom')
  BY <1>4, DetachKeeps, RemoveKeeps
<1>5. QED
  BY <1>1, <1>2, <1>3, <1>4 DEF ScriptsNext

LEMMA ScriptsStarts ==
  ASSUME ScriptsInit
  PROVE  ScriptsInv(dom)
<1> DEFINE A == [x \in Holder \cup Content |-> Nowhere]
           F == [c \in Content |-> FALSE]
           Z == [c \in Content |-> 0]
<1>1. dom = [at |-> A, made |-> 1, marked |-> F, ran |-> Z, heard |-> F, copy |-> F,
             removed |-> F]
  BY DEF ScriptsInit
<1>2. /\ A \in [Holder \cup Content -> Holder \cup {Body, Nowhere}]
      /\ F \in [Content -> BOOLEAN] /\ Z \in [Content -> 0 .. 2] /\ 1 \in Content
  BY ContentFacts DEF Content
<1>3. /\ \A x \in Holder \cup Content : A[x] = Nowhere
      /\ \A c \in Content : Z[c] = 0 /\ F[c] = FALSE
  OBVIOUS
<1> HIDE DEF A, F, Z
<1>4. dom \in DomStates
  BY <1>1, <1>2 DEF DomStates
<1>5. Placed(dom) /\ RanIsKnown(dom)
  BY <1>1, <1>3 DEF Placed, RanIsKnown
<1>6. MarkedIsHeard(dom)
  BY <1>1, <1>3, <1>4, DomFields, ContentFacts DEF MarkedIsHeard, InDocument
<1>7. QED
  BY <1>4, <1>5, <1>6 DEF ScriptsInv

LEMMA RunOnceInv ==
  ASSUME dom # Off, ScriptsInv(dom)
  PROVE  ScriptsRunOnce
<1>1. RunsOnce
  BY DEF ScriptsInv, RanIsKnown, RunsOnce
<1>2. InsertedHasRun
  BY DEF ScriptsInv, MarkedIsHeard, InsertedHasRun, Made
<1>3. QED
  BY <1>1, <1>2 DEF ScriptsRunOnce

(* A script of inserted content is evaluated, and once: for any number of   *)
(* contents, clones and holders, moved about in any order (domManip and its *)
(* "globalEval" marks).                                                     *)
THEOREM ScriptsRunOnceThm == Spec => []ScriptsRunOnce
<1> DEFINE Inv == dom # Off => ScriptsInv(dom)
<1>1. Init => Inv
  BY OwnStart, ScriptsStarts
<1>2. Inv /\ [Next]_vars => Inv'
  <2> SUFFICES ASSUME Inv, [Next]_vars
               PROVE  Inv'
    OBVIOUS
  <2>1. CASE ScriptsNext
    <3>1. dom # Off
      BY <2>1 DEF ScriptsNext
    <3>2. QED
      BY <2>1, <3>1, ScriptsSteps
  <2>2. CASE UNCHANGED dom
    BY <2>2
  <2>3. QED
    BY <2>1, <2>2, OwnSteps
<1>3. Inv => ScriptsRunOnce
  <2>1. CASE dom # Off
    BY <2>1, RunOnceInv
  <2>2. CASE dom = Off
    BY <2>2 DEF ScriptsRunOnce, RunsOnce, InsertedHasRun
  <2>3. QED
    BY <2>1, <2>2
<1>4. QED
  BY <1>1, <1>2, <1>3, PTL DEF Spec

-----------------------------------------------------------------------------
(* Check boxes.                                                             *)

(* What holds of 0 and of the next number with every number below n holds   *)
(* up to n.                                                                 *)
LEMMA UpTo ==
  ASSUME NEW n \in Nat, NEW P, 0 \in P, \A i \in 0 .. (n - 1) : i \in P => i + 1 \in P
  PROVE  0 .. n \subseteq P
<1> SUFFICES ASSUME (0 .. n) \ P # {}
             PROVE  FALSE
  OBVIOUS
<1>1. PICK x \in (0 .. n) \ P : \A y \in (0 .. n) \ P : x <= y
  <2>1. (0 .. n) \ P \in SUBSET Nat
    BY SMT
  <2>2. QED
    BY <2>1, LeastElement
<1>2. x - 1 \in 0 .. (n - 1) /\ x - 1 \in P /\ x - 1 + 1 = x
  BY <1>1, SMT
<1>3. QED
  BY <1>1, <1>2

(* A loop over 1 .. n, a turn of which takes one state of the loop to the   *)
(* next, has a state after every turn.                                      *)
Loops(at, n, base, turn) == at[0] = base /\ \A i \in 1 .. n : at[i] = turn[<<i, at[i - 1]>>]

LEMMA LoopExists ==
  ASSUME NEW n \in Nat, NEW S, NEW base \in S, NEW turn \in [(1 .. n) \X S -> S]
  PROVE  \E at \in [0 .. n -> S] : Loops(at, n, base, turn)
<1> DEFINE Fits(k, at) == \A i \in 0 .. k : at[i] = IF i = 0 THEN base ELSE turn[<<i, at[i - 1]>>]
           P == {k \in 0 .. n : \E at \in [0 .. k -> S] : Fits(k, at)}
<1>1. 0 \in P
  <2>1. [i \in 0 .. 0 |-> base] \in [0 .. 0 -> S]
    OBVIOUS
  <2>2. Fits(0, [i \in 0 .. 0 |-> base]) /\ 0 \in 0 .. n
    BY SMT
  <2>3. QED
    BY <2>1, <2>2
<1>2. ASSUME NEW k \in 0 .. (n - 1), k \in P
      PROVE  k + 1 \in P
  <2>1. PICK at \in [0 .. k -> S] : Fits(k, at)
    BY <1>2
  <2> DEFINE next == turn[<<k + 1, at[k]>>]
             more == [i \in 0 .. (k + 1) |-> IF i = k + 1 THEN next ELSE at[i]]
  <2>2. next \in S
    <3>1. k + 1 \in 1 .. n /\ at[k] \in S
      BY <1>2, SMT
    <3>2. QED
      BY <3>1
  <2>3. more \in [0 .. (k + 1) -> S]
    BY <2>2, SMT
  <2>4. ASSUME NEW i \in 0 .. (k + 1)
        PROVE  more[i] = IF i = 0 THEN base ELSE turn[<<i, more[i - 1]>>]
    <3>1. CASE i = k + 1
      <4>1. more[i] = next /\ more[i - 1] = at[k] /\ i # 0
        BY <3>1, <1>2, SMT
      <4>2. QED
        BY <4>1, <3>1
    <3>2. CASE i # k + 1
      <4>1. i \in 0 .. k /\ more[i] = at[i] /\ (i # 0 => more[i - 1] = at[i - 1])
        BY <3>2, <1>2, SMT
      <4>2. at[i] = IF i = 0 THEN base ELSE turn[<<i, at[i - 1]>>]
        BY <4>1, <2>1
      <4>3. QED
        BY <4>1, <4>2
    <3>3. QED
      BY <3>1, <3>2
  <2>5. k + 1 \in 0 .. n
    BY <1>2, SMT
  <2> HIDE DEF more
  <2>6. QED
    BY <2>3, <2>4, <2>5
<1>3. 0 .. n \subseteq P
  <2> HIDE DEF P
  <2>1. QED
    BY <1>1, <1>2, UpTo, Zenon
<1>4. PICK at \in [0 .. n -> S] : Fits(n, at)
  BY <1>3
<1>5. at[0] = base
  <2>1. 0 \in 0 .. n
    BY SMT
  <2>2. QED
    BY <1>4, <2>1, Zenon
<1>6. ASSUME NEW i \in 1 .. n
      PROVE  at[i] = turn[<<i, at[i - 1]>>]
  <2>1. i \in 0 .. n /\ i # 0
    BY SMT
  <2>2. QED
    BY <1>4, <2>1
<1>7. QED
  BY <1>5, <1>6 DEF Loops

(* What holds at the first level and goes down a level, holds of all boxes; *)
(* and so does what goes up from the boxes below.                           *)
LEMMA DownTree ==
  ASSUME NEW P, Top \in P, \A b \in Row : Above[b] \in P => b \in P
  PROVE  Row \subseteq P
<1>1. PICK level \in [Row -> 0 .. Cardinality(Row)] :
         \A b \in Row : Above[b] # Top => level[Above[b]] < level[b]
  BY CheckBoxesAssumption
<1> SUFFICES ASSUME Row \ P # {}
             PROVE  FALSE
  OBVIOUS
<1> DEFINE T == {level[b] : b \in Row \ P}
<1>2. T \in SUBSET Nat /\ T # {}
  BY <1>1, SMT
<1>3. PICK x \in T : \A y \in T : x <= y
  BY <1>2, LeastElement
<1>4. PICK b \in Row \ P : x = level[b]
  BY <1>3
<1>5. Above[b] \in Row \ P /\ Above[b] # Top
  BY <1>4, CheckBoxesAssumption
<1>6. level[Above[b]] < level[b] /\ level[Above[b]] \in T
  BY <1>1, <1>4, <1>5
<1>7. level[b] \in Nat /\ level[Above[b]] \in Nat /\ level[b] <= level[Above[b]]
  BY <1>1, <1>3, <1>4, <1>5, <1>6, SMT
<1>8. QED
  BY <1>6, <1>7, SMT

LEMMA UpTree ==
  ASSUME NEW P, \A b \in Row : (\A c \in Row : Above[c] = b => c \in P) => b \in P
  PROVE  Row \subseteq P
<1>1. PICK level \in [Row -> 0 .. Cardinality(Row)] :
         \A b \in Row : Above[b] # Top => level[Above[b]] < level[b]
  BY CheckBoxesAssumption
<1>2. PICK n \in Nat : n = Cardinality(Row)
  BY CheckBoxesAssumption, FS_CardinalityType
<1> SUFFICES ASSUME Row \ P # {}
             PROVE  FALSE
  OBVIOUS
<1> DEFINE T == {n - level[b] : b \in Row \ P}
<1>3. \A b \in Row : level[b] \in 0 .. n
  BY <1>1, <1>2
<1>4. T \in SUBSET Nat /\ T # {}
  BY <1>3, SMT
<1>5. PICK x \in T : \A y \in T : x <= y
  BY <1>4, LeastElement
<1>6. PICK b \in Row \ P : x = n - level[b]
  BY <1>5
<1>7. PICK c \in Row \ P : Above[c] = b
  BY <1>6
<1>8. level[b] < level[c]
  BY <1>1, <1>6, <1>7, CheckBoxesAssumption
<1>9. n - level[b] <= n - level[c]
  BY <1>5, <1>6, <1>7
<1>10. QED
  BY <1>3, <1>6, <1>7, <1>8, <1>9, SMT

Below(b) == {r \in Row : Above[r] = b}

(* The branch of a box is the box and the branches below it.                *)
LEMMA BranchIs ==
  /\ \A b \in Row : Branch[b] = {b} \cup UNION {Branch[c] : c \in Below(b)}
  /\ \A b \in Row : b \in Branch[b]
  /\ \A b \in Row : \A c \in Below(b) : Branch[c] \subseteq Branch[b]
<1> DEFINE Falls(S) == \A r \in Row : Above[r] \in S => r \in S
           tree == [b \in Row |-> {d \in Row : \A S \in SUBSET Row : b \in S /\ Falls(S) => d \in S}]
           Rec(g) == [b \in Row |-> {b} \cup UNION {g[c] : c \in {r \in Row : Above[r] = b}}]
<1>1. tree = Rec(tree)
  <2> SUFFICES ASSUME NEW b \in Row
               PROVE  tree[b] = {b} \cup UNION {tree[c] : c \in {r \in Row : Above[r] = b}}
    OBVIOUS
  <2> DEFINE W == {b} \cup UNION {tree[c] : c \in {r \in Row : Above[r] = b}}
  <2>1. \A c \in Row : c \in tree[c] /\ tree[c] \in SUBSET Row /\ Falls(tree[c])
    OBVIOUS
  <2>2. W \in SUBSET Row /\ b \in W
    BY <2>1
  <2>3. Falls(W)
    <3> SUFFICES ASSUME NEW r \in Row, Above[r] \in W
                 PROVE  r \in W
      OBVIOUS
    <3> HIDE DEF tree
    <3>1. CASE Above[r] = b
      BY <2>1, <3>1
    <3>2. CASE Above[r] # b
      BY <2>1, <3>2
    <3>3. QED
      BY <3>1, <3>2
  <2>4. tree[b] \subseteq W
    BY <2>2, <2>3
  <2>5. ASSUME NEW c \in Row, Above[c] = b
        PROVE  tree[c] \subseteq tree[b]
    BY <2>5
  <2>6. W \subseteq tree[b]
    <3> HIDE DEF tree
    <3>1. QED
      BY <2>1, <2>5
  <2>7. QED
    BY <2>4, <2>6
<1> HIDE DEF tree
<1>2. Branch = Rec(Branch)
  BY <1>1, Zenon DEF Branch
<1> DEFINE branch == Branch
<1> HIDE DEF branch
<1>3. \A b \in Row : branch[b] = {b} \cup UNION {branch[c] : c \in Below(b)}
  <2>1. branch = Rec(branch)
    BY <1>2, Zenon DEF branch
  <2>2. QED
    BY <2>1 DEF Below
<1>4. QED
  BY <1>3 DEF branch

(* The boxes above a box: the one it stands under, and those above that.    *)
Climb(path, b) == IF Above[b] = Top THEN <<>> ELSE <<Above[b]>> \o path[Above[b]]

LEMMA AncestorsExist ==
  \E path \in [Row -> Seq(Row)] : \A b \in Row : path[b] = Climb(path, b)
<1>1. PICK level \in [Row -> 0 .. Cardinality(Row)] :
         \A b \in Row : Above[b] # Top => level[Above[b]] < level[b]
  BY CheckBoxesAssumption
<1>2. PICK n \in Nat : n = Cardinality(Row)
  BY CheckBoxesAssumption, FS_CardinalityType
<1> DEFINE A(j) == {b \in Row : level[b] < j}
           P == {j \in 0 .. (n + 1) : \E path \in [A(j) -> Seq(Row)] :
                                        \A b \in A(j) : path[b] = Climb(path, b)}
<1>3. 0 \in P
  <2>1. A(0) = {}
    BY <1>1, SMT
  <2>2. [b \in {} |-> <<>>] \in [{} -> Seq(Row)] /\ 0 \in 0 .. (n + 1)
    BY SMT
  <2>3. QED
    BY <2>1, <2>2
<1>4. ASSUME NEW j \in 0 .. (n + 1 - 1), j \in P
      PROVE  j + 1 \in P
  <2>1. PICK path \in [A(j) -> Seq(Row)] : \A b \in A(j) : path[b] = Climb(path, b)
    BY <1>4
  <2> DEFINE more == [b \in A(j + 1) |-> Climb(path, b)]
  <2>2. ASSUME NEW b \in A(j + 1), Above[b] # Top
        PROVE  Above[b] \in A(j) /\ Above[b] \in A(j + 1)
    <3>1. Above[b] \in Row /\ b \in Row /\ level[b] < j + 1
      BY <2>2, CheckBoxesAssumption
    <3>2. level[Above[b]] < level[b] /\ level[Above[b]] \in Nat /\ level[b] \in Nat
      BY <1>1, <2>2, <3>1, SMT
    <3>3. QED
      BY <3>1, <3>2, <1>4, SMT
  <2>3. A(j) \subseteq A(j + 1)
    BY <1>1, <1>4, SMT
  <2>4. more \in [A(j + 1) -> Seq(Row)]
    <3> SUFFICES ASSUME NEW b \in A(j + 1)
                 PROVE  Climb(path, b) \in Seq(Row)
      OBVIOUS
    <3>1. CASE Above[b] = Top
      BY <3>1 DEF Climb
    <3>2. CASE Above[b] # Top
      <4>1. <<Above[b]>> \in Seq(Row) /\ path[Above[b]] \in Seq(Row)
        BY <2>1, <2>2, <3>2
      <4>2. QED
        BY <4>1, <3>2 DEF Climb
    <3>3. QED
      BY <3>1, <3>2
  <2>5. ASSUME NEW b \in A(j + 1)
        PROVE  more[b] = Climb(more, b)
    <3>1. CASE Above[b] = Top
      BY <3>1 DEF Climb
    <3>2. CASE Above[b] # Top
      <4>1. more[Above[b]] = Climb(path, Above[b]) /\ path[Above[b]] = Climb(path, Above[b])
        BY <2>1, <2>2, <3>2
      <4>2. more[b] = Climb(path, b)
        OBVIOUS
      <4> HIDE DEF more
      <4>3. QED
        BY <4>1, <4>2, <3>2 DEF Climb
    <3>3. QED
      BY <3>1, <3>2
  <2>6. j + 1 \in 0 .. (n + 1)
    BY <1>4, SMT
  <2> HIDE DEF more
  <2>7. QED
    BY <2>4, <2>5, <2>6
<1>5. n + 1 \in P
  <2> HIDE DEF P
  <2>1. PICK top \in Nat : top = n + 1
    BY SMT
  <2>2. ASSUME NEW j \in 0 .. (top - 1), j \in P
        PROVE  j + 1 \in P
    <3>1. j \in 0 .. (n + 1 - 1)
      BY <2>1, <2>2
    <3>2. QED
      BY <1>4, <2>2, <3>1
  <2>3. 0 .. top \subseteq P
    BY <1>3, <2>2, UpTo
  <2>4. QED
    BY <2>1, <2>3, SMT
<1>6. A(n + 1) = Row
  BY <1>1, <1>2, SMT
<1>7. QED
  BY <1>5, <1>6

LEMMA AncestorsAre ==
  /\ \A b \in Row : Ancestors[b] = Climb(Ancestors, b)
  /\ \A b \in Row : Ancestors[b] \in Seq(Row)
<1> DEFINE Rec(g) == [b \in Row |-> IF Above[b] = Top THEN <<>> ELSE <<Above[b]>> \o g[Above[b]]]
<1>1. PICK path \in [Row -> Seq(Row)] : \A b \in Row : path[b] = Climb(path, b)
  BY AncestorsExist
<1>2. path = Rec(path)
  BY <1>1 DEF Climb
<1>3. Ancestors = Rec(Ancestors)
  BY <1>2, Zenon DEF Ancestors
<1> DEFINE up == Ancestors
<1> HIDE DEF up
<1>4. up = Rec(up)
  BY <1>3, Zenon DEF up
<1>5. \A b \in Row : up[b] = Climb(up, b)
  BY <1>4 DEF Climb
<1> DEFINE P == {b \in Row : up[b] \in Seq(Row)} \cup {Top}
<1>6. Row \subseteq P
  <2>1. ASSUME NEW b \in Row, Above[b] \in P
        PROVE  up[b] \in Seq(Row)
    <3>1. CASE Above[b] = Top
      <4>1. up[b] = <<>>
        BY <1>5, <3>1 DEF Climb
      <4>2. QED
        BY <4>1
    <3>2. CASE Above[b] # Top
      <4>1. <<Above[b]>> \in Seq(Row) /\ up[Above[b]] \in Seq(Row)
        BY <2>1, <3>2, CheckBoxesAssumption
      <4>2. up[b] = <<Above[b]>> \o up[Above[b]]
        BY <1>5, <3>2 DEF Climb
      <4>3. QED
        BY <4>1, <4>2
    <3>3. QED
      BY <3>1, <3>2
  <2>2. \A b \in Row : Above[b] \in P => b \in P
    BY <2>1
  <2>3. Top \in P
    OBVIOUS
  <2> HIDE DEF P
  <2>4. QED
    BY <2>2, <2>3, DownTree, Zenon
<1>7. Top \notin Row
  BY CheckBoxesAssumption
<1>8. QED
  BY <1>5, <1>6, <1>7 DEF up

(* From a box along its ancestors, each stands under the next and the last  *)
(* at the first level.                                                      *)
At(b, i) == IF i = 0 THEN b ELSE Ancestors[b][i]

LEMMA PathUp ==
  ASSUME NEW b \in Row
  PROVE  /\ \A i \in 0 .. Len(Ancestors[b]) : At(b, i) \in Row
         /\ \A i \in 1 .. Len(Ancestors[b]) : Above[At(b, i - 1)] = At(b, i)
         /\ Above[At(b, Len(Ancestors[b]))] = Top
<1> DEFINE Goes(r) == /\ \A i \in 0 .. Len(Ancestors[r]) : At(r, i) \in Row
                      /\ \A i \in 1 .. Len(Ancestors[r]) : Above[At(r, i - 1)] = At(r, i)
                      /\ Above[At(r, Len(Ancestors[r]))] = Top
           P == {r \in Row : Goes(r)} \cup {Top}
<1>1. ASSUME NEW r \in Row, Above[r] \in P
      PROVE  Goes(r)
  <2>1. Ancestors[r] = Climb(Ancestors, r) /\ Ancestors[r] \in Seq(Row)
    BY AncestorsAre
  <2>2. CASE Above[r] = Top
    <3>1. Len(Ancestors[r]) = 0
      BY <2>1, <2>2 DEF Climb
    <3>2. QED
      BY <3>1, <2>2 DEF At
  <2>3. CASE Above[r] # Top
    <3>1. PICK p \in Row : p = Above[r]
      BY <2>3, CheckBoxesAssumption
    <3>2. Goes(p)
      BY <1>1, <2>3, <3>1
    <3> HIDE DEF P
    <3>3. PICK s \in Seq(Row) : s = Ancestors[p]
      BY <3>1, AncestorsAre
    <3>4. Ancestors[r] = <<p>> \o s
      BY <2>1, <2>3, <3>1, <3>3 DEF Climb
    <3>5. Len(Ancestors[r]) = Len(s) + 1
      BY <3>4
    <3>6. \A i \in 1 .. Len(s) + 1 : At(r, i) = At(p, i - 1)
      BY <3>3, <3>4 DEF At
    <3>7. /\ \A i \in 0 .. Len(s) : At(p, i) \in Row
          /\ \A i \in 1 .. Len(s) : Above[At(p, i - 1)] = At(p, i)
          /\ Above[At(p, Len(s))] = Top
      BY <3>2, <3>3
    <3>8. At(r, 0) = r /\ At(p, 0) = p
      BY DEF At
    <3>9. \A i \in 0 .. Len(s) + 1 : At(r, i) \in Row
      BY <3>6, <3>7, <3>8, SMT
    <3>10. ASSUME NEW i \in 1 .. Len(s) + 1
           PROVE  Above[At(r, i - 1)] = At(r, i)
      <4>1. CASE i = 1
        <5>1. At(r, i) = p /\ At(r, i - 1) = r
          BY <3>6, <3>8, <4>1, SMT
        <5>2. QED
          BY <5>1, <3>1
      <4>2. CASE i # 1
        <5>1. i - 1 \in 1 .. Len(s) /\ i - 1 \in 1 .. Len(s) + 1
          BY <4>2, SMT
        <5>2. At(r, i) = At(p, i - 1) /\ At(r, i - 1) = At(p, i - 1 - 1)
          BY <5>1, <3>6
        <5>3. QED
          BY <5>1, <5>2, <3>7
      <4>3. QED
        BY <4>1, <4>2
    <3>11. Above[At(r, Len(s) + 1)] = Top
      <4>1. Len(s) + 1 \in 1 .. Len(s) + 1 /\ Len(s) + 1 - 1 = Len(s)
        BY SMT
      <4>2. QED
        BY <4>1, <3>6, <3>7
    <3>12. QED
      BY <3>5, <3>9, <3>10, <3>11
  <2>4. QED
    BY <2>2, <2>3
<1>2. Row \subseteq P
  <2>1. \A r \in Row : Above[r] \in P => r \in P
    BY <1>1
  <2>2. Top \in P
    OBVIOUS
  <2> HIDE DEF P
  <2>3. QED
    BY <2>1, <2>2, DownTree, Zenon
<1>3. Top \notin Row
  BY CheckBoxesAssumption
<1>4. QED
  BY <1>2, <1>3

BoxSet == Row \cup {Header}
Boxes == [rule : Rules, on : [BoxSet -> BOOLEAN], touched : SUBSET BoxSet, header : BOOLEAN]

(* N is B with the boxes of S set to v.                                     *)
Ticked(N, B, S, v) ==
  /\ N \in Boxes /\ N.rule = B.rule /\ N.header = B.header /\ N.touched = B.touched \cup S
  /\ \A b \in S : N.on[b] = v
  /\ \A b \in BoxSet \ S : N.on[b] = B.on[b]

LEMMA TickIs ==
  ASSUME NEW B \in Boxes, NEW S \in SUBSET BoxSet, NEW v \in BOOLEAN
  PROVE  Ticked(Tick(B, S, v), B, S, v)
<1>1. DOMAIN B.on = BoxSet /\ B.on \in [BoxSet -> BOOLEAN] /\ B.touched \in SUBSET BoxSet
  BY DEF Boxes
<1> DEFINE on == [b \in BoxSet |-> IF b \in S THEN v ELSE B.on[b]]
<1>2. on \in [BoxSet -> BOOLEAN] /\ B.touched \cup S \in SUBSET BoxSet
  BY <1>1
<1>3. Tick(B, S, v) = [B EXCEPT !.on = on, !.touched = @ \cup S]
  BY <1>1, Zenon DEF Tick
<1>4. \A b \in BoxSet : on[b] = IF b \in S THEN v ELSE B.on[b]
  OBVIOUS
<1> HIDE DEF on
<1>5. QED
  BY <1>2, <1>3, <1>4 DEF Boxes, Ticked

(* A box shows what is below it.                                            *)
Shows(on, b) == Below(b) # {} => (on[b] <=> \E c \in Below(b) : on[c])

(* Where the boxes of a branch show what is below them, its top shows the   *)
(* whole branch.                                                            *)
LEMMA BranchRises ==
  ASSUME NEW on, NEW x \in Row, \A b \in Branch[x] : Shows(on, b), NEW d \in Branch[x], on[d]
  PROVE  on[x]
<1> DEFINE Rises(r) == (\A b \in Branch[r] : Shows(on, b)) => \A e \in Branch[r] : on[e] => on[r]
           P == {r \in Row : Rises(r)}
<1>1. ASSUME NEW r \in Row, \A c \in Row : Above[c] = r => c \in P
      PROVE  r \in P
  <2> SUFFICES ASSUME \A b \in Branch[r] : Shows(on, b), NEW e \in Branch[r], on[e]
               PROVE  on[r]
    OBVIOUS
  <2>1. CASE e = r
    BY <2>1
  <2>2. CASE e # r
    <3>1. PICK c \in Below(r) : e \in Branch[c]
      BY <2>2, BranchIs
    <3>2. Branch[c] \subseteq Branch[r]
      BY <3>1, BranchIs
    <3>3. Rises(c)
      BY <3>1, <1>1 DEF Below
    <3>4. on[c]
      BY <3>1, <3>2, <3>3
    <3>5. Shows(on, r)
      BY BranchIs
    <3>6. QED
      BY <3>1, <3>4, <3>5 DEF Shows
  <2>3. QED
    BY <2>1, <2>2
<1>2. Row \subseteq P
  <2> HIDE DEF P
  <2>1. QED
    BY <1>1, UpTree
<1>3. QED
  BY <1>2

(* Nothing of a branch is as near the first level as its top.               *)
LEMMA BranchIsBelow ==
  ASSUME NEW level \in [Row -> Nat], \A b \in Row : Above[b] # Top => level[Above[b]] < level[b],
         NEW x \in Row, NEW d \in Branch[x]
  PROVE  d \in Row /\ level[x] <= level[d]
<1> DEFINE Deep(r) == \A e \in Branch[r] : e \in Row /\ level[r] <= level[e]
           P == {r \in Row : Deep(r)}
<1>1. ASSUME NEW r \in Row, \A c \in Row : Above[c] = r => c \in P
      PROVE  r \in P
  <2> SUFFICES ASSUME NEW e \in Branch[r]
               PROVE  e \in Row /\ level[r] <= level[e]
    OBVIOUS
  <2>1. CASE e = r
    BY <2>1
  <2>2. CASE e # r
    <3>1. PICK c \in Below(r) : e \in Branch[c]
      BY <2>2, BranchIs
    <3>2. c \in Row /\ e \in Row /\ level[c] <= level[e] /\ level[r] < level[c]
      BY <3>1, <1>1, CheckBoxesAssumption DEF Below
    <3>3. QED
      BY <3>2, SMT
  <2>3. QED
    BY <2>1, <2>2
<1>2. Row \subseteq P
  <2> HIDE DEF P
  <2>1. QED
    BY <1>1, UpTree
<1>3. QED
  BY <1>2

(* A level of its own for every box, the first level the lowest.            *)
Levels == {level \in [Row -> Nat] : \A b \in Row : Above[b] # Top => level[Above[b]] < level[b]}

LEMMA LevelsExist == Levels # {}
<1>1. PICK level \in [Row -> 0 .. Cardinality(Row)] :
         \A b \in Row : Above[b] # Top => level[Above[b]] < level[b]
  BY CheckBoxesAssumption
<1>2. level \in [Row -> Nat]
  BY <1>1, SMT
<1>3. QED
  BY <1>1, <1>2 DEF Levels

LEMMA PathRises ==
  ASSUME NEW level \in Levels, NEW b \in Row, NEW i \in 0 .. Len(Ancestors[b]),
         NEW j \in 0 .. Len(Ancestors[b]), i <= j
  PROVE  level[At(b, j)] <= level[At(b, i)]
<1>1. PICK n \in Nat : n = Len(Ancestors[b])
  BY AncestorsAre
<1> DEFINE P == {k \in 0 .. n : i <= k => level[At(b, k)] <= level[At(b, i)]}
<1>2. 0 \in P
  BY <1>1, PathUp, SMT DEF Levels
<1>3. ASSUME NEW k \in 0 .. (n - 1), k \in P
      PROVE  k + 1 \in P
  <2>1. k \in 0 .. n /\ k + 1 \in 0 .. n /\ k + 1 \in 1 .. n /\ k + 1 - 1 = k
    BY <1>3, SMT
  <2>2. At(b, k) \in Row /\ At(b, k + 1) \in Row /\ At(b, i) \in Row /\ Above[At(b, k)] = At(b, k + 1)
    BY <1>1, <2>1, PathUp
  <2>3. level[At(b, k + 1)] < level[At(b, k)]
    BY <2>2, CheckBoxesAssumption DEF Levels
  <2>4. level[At(b, k + 1)] \in Nat /\ level[At(b, k)] \in Nat /\ level[At(b, i)] \in Nat
    BY <2>2 DEF Levels
  <2>5. QED
    BY <1>1, <1>3, <2>1, <2>3, <2>4, SMT
<1>4. 0 .. n \subseteq P
  <2> HIDE DEF P
  <2>1. QED
    BY <1>2, <1>3, UpTo, Zenon
<1>5. QED
  BY <1>1, <1>4

(* One turn of CheckParent: the box above takes what its group shows, and   *)
(* then only the boxes further up may still show something else.            *)
Climbed(next, x, chk, U) ==
  /\ chk = TRUE => \E g \in Group(Above[x]) : next.on[g]
  /\ \A q \in Row : (q \in U => q = Above[x]) /\ q # Above[Above[x]] => Shows(next.on, q)

LEMMA ClimbOne ==
  ASSUME NEW B \in Boxes, NEW x \in Row, Above[x] # Top, NEW chk \in BOOLEAN,
         (chk = TRUE) <=> \E g \in Group(x) : B.on[g],
         NEW U \in SUBSET Row, \A c \in Below(Above[x]) : U \cap Branch[c] = {},
         Above[x] \in U, \A q \in Row \ U : Shows(B.on, q),
         NEW next, next = Tick(B, {Above[x]}, chk)
  PROVE  Climbed(next, x, chk, U)
<1>1. PICK p \in Row : p = Above[x]
  BY CheckBoxesAssumption
<1>2. /\ next.on[p] = chk
      /\ \A d \in BoxSet \ {p} : next.on[d] = B.on[d]
      /\ Row \subseteq BoxSet /\ B.on \in [BoxSet -> BOOLEAN]
  <2>1. Row \subseteq BoxSet /\ B.on \in [BoxSet -> BOOLEAN]
    BY DEF BoxSet, Boxes
  <2>2. PICK S \in SUBSET BoxSet : S = {p}
    BY <2>1
  <2>3. Ticked(Tick(B, S, chk), B, S, chk)
    BY TickIs, Zenon
  <2>4. Ticked(next, B, {p}, chk)
    BY <1>1, <2>2, <2>3, Zenon
  <2>5. QED
    BY <2>1, <2>4 DEF Ticked
<1>3. p \in Group(p)
  BY BranchIs DEF Group
<1>4. (chk = TRUE) <=> \E c \in Below(p) : B.on[c]
  <2>1. ASSUME NEW c \in Below(p), B.on[c]
        PROVE  chk = TRUE
    <3>1. c \in Branch[c] /\ c \in Row /\ Above[c] = Above[x]
      BY <1>1, BranchIs DEF Below
    <3>2. c \in Group(x)
      BY <3>1 DEF Group
    <3>3. QED
      BY <2>1, <3>2
  <2>2. ASSUME chk = TRUE
        PROVE  \E c \in Below(p) : B.on[c]
    <3>1. PICK g \in Group(x) : B.on[g]
      BY <2>2
    <3>2. PICK c \in Below(p) : g \in Branch[c] /\ c \in Row
      BY <1>1, <3>1 DEF Group, Below
    <3>3. \A d \in Branch[c] : d \in Row
      BY <3>2, BranchIsBelow, LevelsExist DEF Levels
    <3>4. \A d \in Branch[c] : Shows(B.on, d)
      BY <1>1, <3>2, <3>3
    <3>5. B.on[c]
      BY <3>1, <3>2, <3>4, BranchRises
    <3>6. QED
      BY <3>2, <3>5
  <2>3. QED
    BY <2>1, <2>2
<1>5. ASSUME NEW q \in Row, q \in U => q = p, q # Above[p]
      PROVE  Shows(next.on, q)
  <2>1. \A c \in Below(q) : next.on[c] = B.on[c]
    BY <1>2, <1>5 DEF Below
  <2>2. CASE q = p
    BY <1>2, <1>4, <2>1, <2>2 DEF Shows
  <2>3. CASE q # p
    <3>1. next.on[q] = B.on[q] /\ Shows(B.on, q)
      BY <1>2, <1>5, <2>3
    <3>2. QED
      BY <2>1, <3>1 DEF Shows
  <2>4. QED
    BY <2>2, <2>3
<1>6. QED
  BY <1>1, <1>2, <1>3, <1>5 DEF Climbed

(* CheckParent goes all the way up, and then every box shows what is below  *)
(* it.                                                                      *)
PathOf(b) == {At(b, i) : i \in 1 .. Len(Ancestors[b])}
Settled(N, B) == N \in Boxes /\ N.rule = B.rule /\ N.header = B.header /\ \A p \in Row : Shows(N.on, p)

LEMMA CheckParentShows ==
  ASSUME NEW B \in Boxes, NEW b \in Row, NEW chk \in BOOLEAN,
         (chk = TRUE) <=> \E g \in Group(b) : B.on[g],
         \A p \in Row \ PathOf(b) : Shows(B.on, p)
  PROVE  Settled(CheckParent(B, b, chk), B)
<1> DEFINE path == Ancestors[b]
           n == Len(path)
<1>1. path \in Seq(Row) /\ path = Ancestors[b]
  BY AncestorsAre
<1>2. n \in Nat /\ n = Len(path)
  BY <1>1
<1> DEFINE S == [boxes : Boxes, chk : BOOLEAN]
           Turn(i, at) == LET next == Tick(at.boxes, {path[i]}, at.chk)
                          IN [boxes |-> next, chk |-> at.chk \/ \E g \in Group(path[i]) : next.on[g]]
           base == [boxes |-> B, chk |-> chk]
           turn == [p \in (1 .. n) \X S |-> Turn(p[1], p[2])]
           Rec(g) == [i \in 0 .. n |-> IF i = 0 THEN base ELSE Turn(i, g[i - 1])]
           up == CHOOSE g : g = Rec(g)
           Turned(to, i, at) ==
             /\ to \in S
             /\ to.boxes = Tick(at.boxes, {path[i]}, at.chk)
             /\ (to.chk = TRUE) <=> at.chk = TRUE \/ \E g \in Group(path[i]) : to.boxes.on[g]
             /\ to.boxes.rule = at.boxes.rule /\ to.boxes.header = at.boxes.header
<1>8. CheckParent(B, b, chk) = up[n].boxes
  BY Zenon DEF CheckParent
<1> HIDE DEF path, n
<1> USE <1>2
<1>3. ASSUME NEW i \in 1 .. n, NEW at \in S
      PROVE  Turned(Turn(i, at), i, at)
  <2>1. path[i] \in Row /\ {path[i]} \in SUBSET BoxSet /\ at.boxes \in Boxes /\ at.chk \in BOOLEAN
    BY <1>1 DEF BoxSet
  <2>2. PICK next \in Boxes : next = Tick(at.boxes, {path[i]}, at.chk)
                              /\ next.rule = at.boxes.rule /\ next.header = at.boxes.header
    <3> DEFINE N == Tick(at.boxes, {path[i]}, at.chk)
    <3>1. Ticked(N, at.boxes, {path[i]}, at.chk)
      BY <2>1, TickIs, Zenon
    <3> HIDE DEF N
    <3>2. \E next \in Boxes : next = N /\ next.rule = at.boxes.rule /\ next.header = at.boxes.header
      BY <3>1 DEF Ticked
    <3>3. QED
      BY <3>2 DEF N
  <2>3. PICK some \in BOOLEAN : some = (at.chk \/ \E g \in Group(path[i]) : next.on[g])
    OBVIOUS
  <2>4. Turn(i, at) = [boxes |-> next, chk |-> some]
    BY <2>2, <2>3
  <2>5. PICK to : to = Turn(i, at)
    OBVIOUS
  <2>6. to \in S /\ to.boxes = next /\ to.chk = some
    BY <2>4, <2>5
  <2> HIDE DEF Turn, S
  <2>7. QED
    BY <2>2, <2>3, <2>5, <2>6
<1>4. turn \in [(1 .. n) \X S -> S]
  <2> HIDE DEF Turn, S
  <2>1. \A i \in 1 .. n, at \in S : Turn(i, at) \in S
    BY <1>3
  <2>2. QED
    BY <2>1
<1>5. \A i \in 1 .. n, at \in S : turn[<<i, at>>] = Turn(i, at)
  <2> HIDE DEF Turn, S
  <2>1. QED
    OBVIOUS
<1>6. base \in S
  OBVIOUS
<1> HIDE DEF turn, Turn, Turned, S, base
<1>7. up = Rec(up) /\ \A i \in 0 .. n : up[i] \in S
  <2>1. PICK at \in [0 .. n -> S] :
          Loops(at, n, base, turn)
    BY <1>2, <1>4, <1>6, LoopExists, Zenon
  <2>2. ASSUME NEW i \in 0 .. n
        PROVE  at[i] = IF i = 0 THEN base ELSE Turn(i, at[i - 1])
    <3>1. i # 0 => i \in 1 .. n /\ i - 1 \in 0 .. n
      BY SMT
    <3>2. QED
      BY <3>1, <2>1, <1>5 DEF Loops
  <2>3. at = Rec(at)
    BY <2>1, <2>2
  <2>4. up = Rec(up)
    BY <2>3, Zenon
  <2> HIDE DEF up
  <2>5. \A i \in 0 .. n : up[i] = IF i = 0 THEN base ELSE Turn(i, up[i - 1])
    BY <2>4
  <2> DEFINE P == {i \in 0 .. n : up[i] \in S}
  <2>6. 0 \in P
    BY <2>5, <1>6
  <2>7. ASSUME NEW i \in 0 .. (n - 1), i \in P
        PROVE  i + 1 \in P
    <3>1. i + 1 \in 1 .. n /\ i + 1 \in 0 .. n /\ i + 1 # 0 /\ i + 1 - 1 = i
      BY <2>7, SMT
    <3>2. up[i + 1] = Turn(i + 1, up[i])
      BY <2>5, <3>1
    <3>3. up[i] \in S
      BY <2>7
    <3>4. Turned(Turn(i + 1, up[i]), i + 1, up[i])
      BY <1>3, <3>1, <3>3, Zenon
    <3>5. QED
      BY <3>1, <3>2, <3>4 DEF Turned
  <2>8. 0 .. n \subseteq P
    <3> HIDE DEF P
    <3>1. QED
      BY <2>6, <2>7, UpTo, Zenon
  <2>9. QED
    BY <2>4, <2>8
<1> HIDE DEF up
<1>9. \A i \in 0 .. n : up[i] = IF i = 0 THEN base ELSE Turn(i, up[i - 1])
  BY <1>7
<1>10. PICK level \in Levels : TRUE
  BY LevelsExist
<1> DEFINE U(i) == {At(b, j) : j \in (i + 1) .. n}
           J(i) == /\ up[i].boxes.rule = B.rule /\ up[i].boxes.header = B.header
                   /\ (up[i].chk = TRUE) <=> \E g \in Group(At(b, i)) : up[i].boxes.on[g]
                   /\ \A q \in Row \ U(i) : Shows(up[i].boxes.on, q)
           P == {i \in 0 .. n : J(i)}
<1>11. 0 \in P
  <2>1. up[0] = [boxes |-> B, chk |-> chk] /\ At(b, 0) = b /\ 0 \in 0 .. n
    BY <1>9, SMT DEF base, At
  <2>2. U(0) = PathOf(b)
    BY <1>1, <1>2, SMT DEF PathOf
  <2>3. \A q \in Row \ U(0) : Shows(B.on, q)
    BY <2>2
  <2>4. up[0].boxes = B /\ up[0].chk = chk
    BY <2>1
  <2> HIDE DEF U
  <2>5. J(0)
    BY <2>1, <2>3, <2>4
  <2> HIDE DEF J
  <2>6. QED
    BY <2>1, <2>5
<1>12. ASSUME NEW i \in 0 .. (n - 1), i \in P
       PROVE  i + 1 \in P
  <2>1. i + 1 \in 1 .. n /\ i + 1 \in 0 .. n /\ i + 1 # 0 /\ i + 1 - 1 = i /\ i \in 0 .. n
    BY <1>12, SMT
  <2>2. PICK x \in Row : x = At(b, i)
    BY <1>1, <1>2, <2>1, PathUp
  <2>3. PICK p \in Row : p = At(b, i + 1)
    BY <1>1, <1>2, <2>1, PathUp
  <2>4. Above[x] = p /\ path[i + 1] = p
    BY <1>1, <1>2, <2>1, <2>2, <2>3, PathUp DEF At
  <2>5. PICK at \in S : at = up[i]
    BY <1>7, <2>1
  <2>6. up[i + 1] = Turn(i + 1, at)
    BY <1>9, <2>1, <2>5
  <2>7. PICK next : next = up[i + 1].boxes
    OBVIOUS
  <2>8. /\ next = Tick(at.boxes, {p}, at.chk)
        /\ (up[i + 1].chk = TRUE) <=> at.chk = TRUE \/ \E g \in Group(p) : next.on[g]
        /\ next.rule = at.boxes.rule /\ next.header = at.boxes.header
    <3>1. Turned(Turn(i + 1, at), i + 1, at)
      BY <1>3, <2>1, <2>5, Zenon
    <3>2. Turned(up[i + 1], i + 1, at)
      BY <3>1, <2>6
    <3>3. QED
      BY <3>2, <2>4, <2>7 DEF Turned
  <2>9. /\ at.boxes \in Boxes /\ at.chk \in BOOLEAN /\ J(i)
    BY <1>12, <2>5 DEF S
  <2>10. PICK V : V = U(i)
    OBVIOUS
  <2>11. V \in SUBSET Row /\ p \in V /\ \A c \in Below(p) : V \cap Branch[c] = {}
    <3>1. i + 1 \in (i + 1) .. n
      BY <2>1, SMT
    <3>2. p \in V
      BY <2>3, <2>10, <3>1
    <3>3. ASSUME NEW j \in (i + 1) .. n
          PROVE  At(b, j) \in Row /\ level[At(b, j)] <= level[p]
      <4>1. j \in 0 .. n /\ i + 1 <= j
        BY <2>1, SMT
      <4>2. QED
        BY <1>1, <1>2, <2>1, <2>3, <4>1, PathUp, PathRises
    <3>4. \A u \in V : u \in Row /\ level[u] <= level[p]
      BY <3>3, <2>10
    <3>5. ASSUME NEW c \in Below(p), NEW d \in Branch[c], d \in V
          PROVE  FALSE
      <4>1. c \in Row /\ Above[c] = p
        BY <3>5 DEF Below
      <4>2. level[p] < level[c] /\ level[p] \in Nat /\ level[c] \in Nat
        BY <4>1, CheckBoxesAssumption DEF Levels
      <4>3. d \in Row /\ level[c] <= level[d] /\ level[d] \in Nat
        BY <4>1, BranchIsBelow DEF Levels
      <4>4. level[d] <= level[p]
        BY <3>4, <3>5
      <4>5. QED
        BY <4>2, <4>3, <4>4, SMT
    <3>6. QED
      BY <3>2, <3>4, <3>5
  <2>12. /\ (at.chk = TRUE) <=> \E g \in Group(x) : at.boxes.on[g]
         /\ \A q \in Row \ V : Shows(at.boxes.on, q)
    BY <2>2, <2>5, <2>9, <2>10
  <2>13. PICK A : A = at.boxes
    OBVIOUS
  <2>14. PICK c : c = at.chk
    OBVIOUS
  <2>15. /\ c = TRUE => \E g \in Group(p) : next.on[g]
         /\ \A q \in Row : (q \in V => q = p) /\ q # Above[p] => Shows(next.on, q)
    <3>1. A \in Boxes /\ c \in BOOLEAN /\ next = Tick(A, {Above[x]}, c) /\ Above[x] # Top
      BY <2>4, <2>8, <2>9, <2>13, <2>14, CheckBoxesAssumption
    <3>2. ((c = TRUE) <=> \E g \in Group(x) : A.on[g]) /\ \A q \in Row \ V : Shows(A.on, q)
      BY <2>12, <2>13, <2>14
    <3>3. Above[x] \in V /\ \A d \in Below(Above[x]) : V \cap Branch[d] = {}
      BY <2>4, <2>11
    <3>4. Climbed(next, x, c, V)
      BY <2>2, <2>11, <3>1, <3>2, <3>3, ClimbOne, Zenon
    <3>5. QED
      BY <2>4, <3>4 DEF Climbed
  <2>16. ASSUME NEW q \in Row \ U(i + 1)
         PROVE  Shows(next.on, q)
    <3>1. ASSUME q \in V, q # p
          PROVE  FALSE
      <4>1. PICK j \in (i + 1) .. n : q = At(b, j)
        BY <2>10, <3>1
      <4>2. j # i + 1
        BY <2>3, <3>1, <4>1
      <4>3. j \in (i + 1 + 1) .. n
        BY <2>1, <4>2, SMT
      <4>4. QED
        BY <4>1, <4>3
    <3>2. ASSUME q = Above[p]
          PROVE  FALSE
      <4>1. CASE i + 1 = n
        <5>1. Above[p] = Top
          BY <1>1, <1>2, <2>3, <4>1, PathUp
        <5>2. QED
          BY <3>2, <5>1, CheckBoxesAssumption
      <4>2. CASE i + 1 # n
        <5>1. i + 1 + 1 \in 1 .. n /\ i + 1 + 1 - 1 = i + 1 /\ i + 1 + 1 \in (i + 1 + 1) .. n
          BY <2>1, <4>2, SMT
        <5>2. Above[p] = At(b, i + 1 + 1)
          BY <1>1, <1>2, <2>3, <5>1, PathUp
        <5>3. QED
          BY <3>2, <5>1, <5>2
      <4>3. QED
        BY <4>1, <4>2
    <3>3. QED
      BY <2>15, <3>1, <3>2
  <2>17. J(i + 1)
    <3>1. up[i + 1].boxes.rule = B.rule /\ up[i + 1].boxes.header = B.header
      BY <2>5, <2>7, <2>8, <2>9
    <3>2. (up[i + 1].chk = TRUE) <=> \E g \in Group(At(b, i + 1)) : up[i + 1].boxes.on[g]
      BY <2>3, <2>7, <2>8, <2>14, <2>15
    <3>3. \A q \in Row \ U(i + 1) : Shows(up[i + 1].boxes.on, q)
      BY <2>7, <2>16
    <3> HIDE DEF U
    <3>4. QED
      BY <3>1, <3>2, <3>3
  <2> HIDE DEF J
  <2>18. QED
    BY <2>1, <2>17
<1>13. 0 .. n \subseteq P
  <2> HIDE DEF P
  <2>1. QED
    BY <1>11, <1>12, UpTo, Zenon
<1>14. J(n) /\ up[n] \in S
  <2>1. n \in 0 .. n
    BY SMT
  <2> HIDE DEF J
  <2>2. QED
    BY <1>7, <1>13, <2>1
<1>15. U(n) = {}
  BY SMT
<1>16. QED
  BY <1>8, <1>14, <1>15 DEF S, Settled

(* A branch holds what is below its boxes and, but for its top, what they   *)
(* stand under.                                                             *)
LEMMA BranchFalls ==
  ASSUME NEW b \in Row
  PROVE  \A d \in Branch[b] : /\ d \in Row
                              /\ Below(d) \subseteq Branch[b]
                              /\ d # b => Above[d] \in Branch[b]
<1> DEFINE Whole(r) == \A d \in Branch[r] : /\ d \in Row
                                            /\ Below(d) \subseteq Branch[r]
                                            /\ d # r => Above[d] \in Branch[r]
           P == {r \in Row : Whole(r)}
<1>1. ASSUME NEW r \in Row, \A c \in Row : Above[c] = r => c \in P
      PROVE  r \in P
  <2> SUFFICES ASSUME NEW d \in Branch[r]
               PROVE  /\ d \in Row
                      /\ Below(d) \subseteq Branch[r]
                      /\ d # r => Above[d] \in Branch[r]
    OBVIOUS
  <2>1. CASE d = r
    <3>1. \A c \in Below(r) : c \in Row /\ c \in Branch[c] /\ Branch[c] \subseteq Branch[r]
      BY BranchIs DEF Below
    <3>2. QED
      BY <2>1, <3>1
  <2>2. CASE d # r
    <3>1. PICK c \in Below(r) : d \in Branch[c]
      BY <2>2, BranchIs
    <3>2. c \in Row /\ Above[c] = r /\ Branch[c] \subseteq Branch[r] /\ r \in Branch[r]
      BY <3>1, BranchIs DEF Below
    <3>3. Whole(c)
      BY <1>1, <3>2
    <3>4. QED
      BY <3>1, <3>2, <3>3
  <2>3. QED
    BY <2>1, <2>2
<1>2. Row \subseteq P
  <2> HIDE DEF P
  <2>1. QED
    BY <1>1, UpTree
<1>3. QED
  BY <1>2

(* What the rules promise of the boxes.                                     *)
TreeFine(B) == B.rule = "tree" => \A p \in Row : Shows(B.on, p)
OneFine(B) ==
  B.rule \in {"single", "check", "radio"} /\ B.touched \cap Row # {} =>
    \E c \in Row \ Disabled : \A d \in Row \ Disabled : (B.on[d] = TRUE) <=> d = c
HeaderFine(B) ==
  B.header => \A b \in Row \ Disabled :
                \/ B.on[b] = B.on[Header]
                \/ B.rule = "all" /\ B.on[Header] /\ b \in B.touched
BoxesFine(B) == B \in Boxes /\ TreeFine(B) /\ OneFine(B) /\ HeaderFine(B)

LEMMA FineKeepsRule ==
  ASSUME boxes # Off => BoxesFine(boxes)
  PROVE  BoxesKeepRule
<1>1. BranchShowsLeaves
  <2> SUFFICES ASSUME boxes # Off, boxes.rule = "tree", NEW b \in {Above[r] : r \in Row} \ {Top}
               PROVE  boxes.on[b] = \E r \in Row : Above[r] = b /\ boxes.on[r]
    BY DEF BranchShowsLeaves
  <2>1. b \in Row /\ Below(b) # {}
    BY CheckBoxesAssumption DEF Below
  <2>2. Shows(boxes.on, b) /\ boxes.on[b] \in BOOLEAN
    BY <2>1 DEF BoxesFine, TreeFine, Boxes, BoxSet
  <2>3. boxes.on[b] <=> \E c \in Below(b) : boxes.on[c]
    BY <2>1, <2>2 DEF Shows
  <2>4. (\E c \in Below(b) : boxes.on[c]) <=> \E r \in Row : Above[r] = b /\ boxes.on[r]
    BY DEF Below
  <2>5. QED
    BY <2>2, <2>3, <2>4
<1>2. SingleChoice
  <2> SUFFICES ASSUME boxes # Off, boxes.rule \in {"single", "check", "radio"},
                      boxes.touched \cap Row # {}
               PROVE  Cardinality({b \in Row \ Disabled : boxes.on[b]}) = 1
    BY DEF SingleChoice
  <2>1. PICK c \in Row \ Disabled : \A d \in Row \ Disabled : (boxes.on[d] = TRUE) <=> d = c
    BY DEF BoxesFine, OneFine
  <2>2. \A d \in Row : boxes.on[d] \in BOOLEAN
    BY DEF BoxesFine, Boxes, BoxSet
  <2>3. {b \in Row \ Disabled : boxes.on[b]} = {c}
    BY <2>1, <2>2
  <2>4. Cardinality({c}) = 1
    BY FS_Singleton
  <2>5. QED
    BY <2>3, <2>4, Zenon
<1>3. HeaderReaches
  BY DEF HeaderReaches, BoxesFine, HeaderFine
<1>4. QED
  BY <1>1, <1>2, <1>3 DEF BoxesKeepRule

(* CheckChild: after the click on b, which turned it over.                  *)
LEMMA CheckChildKeeps ==
  ASSUME NEW B \in Boxes, \A p \in Row : Shows(B.on, p), NEW b \in Row,
         NEW C \in Boxes, \A d \in Row \ {b} : C.on[d] = B.on[d]
  PROVE  Settled(CheckChild(C, b), C)
<1>1. Branch[b] \subseteq Row /\ b \in Branch[b] /\ C.on[b] \in BOOLEAN /\ Row \subseteq BoxSet
  BY BranchFalls, BranchIs DEF Boxes, BoxSet
<1>2. PICK S \in SUBSET BoxSet : S = Branch[b]
  BY <1>1
<1>3. PICK v \in BOOLEAN : v = C.on[b]
  BY <1>1
<1>4. PICK down : down = Tick(C, S, v)
  OBVIOUS
<1>5. Ticked(Tick(C, S, v), C, S, v)
  BY TickIs, Zenon
<1>6. Ticked(down, C, S, v)
  BY <1>4, <1>5
<1>7. ASSUME NEW p \in Row, p \notin PathOf(b)
      PROVE  Shows(down.on, p)
  <2>1. CASE p \in Branch[b]
    <3>1. \A c \in Below(p) : c \in S
      BY <1>2, <2>1, BranchFalls
    <3>2. down.on[p] = v /\ \A c \in Below(p) : down.on[c] = v
      BY <1>2, <1>6, <2>1, <3>1 DEF Ticked
    <3>3. QED
      BY <3>2 DEF Shows
  <2>2. CASE p \notin Branch[b]
    <3>1. Above[b] # p
      <4> SUFFICES ASSUME Above[b] = p
                   PROVE  FALSE
        OBVIOUS
      <4>1. PICK n \in Nat : n = Len(Ancestors[b])
        BY AncestorsAre
      <4>2. At(b, 0) = b
        BY DEF At
      <4>3. n # 0
        BY <4>1, <4>2, PathUp, CheckBoxesAssumption
      <4>4. 1 \in 1 .. n /\ 1 - 1 = 0
        BY <4>3, SMT
      <4>5. At(b, 1) = p
        BY <4>1, <4>2, <4>4, PathUp
      <4>6. QED
        BY <1>7, <4>1, <4>4, <4>5 DEF PathOf
    <3>2. ASSUME NEW c \in Below(p)
          PROVE  c \notin Branch[b] /\ c \in Row
      <4>1. Above[c] = p /\ c \in Row
        BY <3>2 DEF Below
      <4>2. QED
        BY <2>2, <3>1, <4>1, BranchFalls
    <3>3. down.on[p] = B.on[p] /\ \A c \in Below(p) : down.on[c] = B.on[c]
      <4>1. p # b /\ \A c \in Below(p) : c # b
        BY <1>1, <2>2, <3>2
      <4>2. down.on[p] = C.on[p] /\ \A c \in Below(p) : down.on[c] = C.on[c]
        BY <1>1, <1>2, <1>6, <2>2, <3>2 DEF Ticked
      <4>3. QED
        BY <3>2, <4>1, <4>2
    <3>4. QED
      BY <3>3 DEF Shows
  <2>3. QED
    BY <2>1, <2>2
<1>8. PICK chk \in BOOLEAN : chk = \E g \in Group(b) : down.on[g]
  OBVIOUS
<1>9. CheckChild(C, b) = CheckParent(down, b, chk)
  BY <1>2, <1>3, <1>4, <1>8 DEF CheckChild
<1>10. down \in Boxes /\ down.rule = C.rule /\ down.header = C.header
  BY <1>6 DEF Ticked
<1>11. Settled(CheckParent(down, b, chk), down)
  <2>1. (chk = TRUE) <=> \E g \in Group(b) : down.on[g]
    BY <1>8
  <2>2. \A p \in Row \ PathOf(b) : Shows(down.on, p)
    BY <1>7
  <2>3. QED
    BY <1>8, <1>10, <2>1, <2>2, CheckParentShows, Zenon
<1>12. QED
  BY <1>9, <1>10, <1>11 DEF Settled

(* What attr() makes of boxes it turns off and of boxes it turns on.        *)
Attributed(N, B, S) ==
  /\ N \in Boxes /\ N.rule = B.rule /\ N.header = B.header /\ N.touched = B.touched
  /\ \A b \in BoxSet : (N.on[b] = TRUE) <=> (B.on[b] = TRUE \/ (b \in S /\ b \notin B.touched))

LEMMA AttrOn ==
  ASSUME NEW B \in Boxes, NEW S \in SUBSET BoxSet
  PROVE  Attributed(Attr(B, S, TRUE), B, S)
<1> DEFINE on == [b \in BoxSet |-> B.on[b] \/ b \in S \ B.touched]
<1>1. DOMAIN B.on = BoxSet /\ B.on \in [BoxSet -> BOOLEAN]
  BY DEF Boxes
<1>2. on \in [BoxSet -> BOOLEAN]
  BY <1>1
<1>3. Attr(B, S, TRUE) = [B EXCEPT !.on = on]
  BY <1>1, Zenon DEF Attr
<1>4. \A b \in BoxSet : (on[b] = TRUE) <=> (B.on[b] = TRUE \/ (b \in S /\ b \notin B.touched))
  BY <1>1
<1> HIDE DEF on
<1>5. QED
  BY <1>2, <1>3, <1>4 DEF Boxes, Attributed

LEMMA AttrOff ==
  ASSUME NEW B \in Boxes, NEW S \in SUBSET BoxSet
  PROVE  Ticked(Attr(B, S, FALSE), B, S, FALSE)
<1>1. Attr(B, S, FALSE) = Tick(B, S, FALSE)
  BY DEF Attr, RemoveAttr
<1>2. Ticked(Tick(B, S, FALSE), B, S, FALSE)
  BY TickIs
<1>3. QED
  BY <1>1, <1>2, Zenon

LEMMA EnabledRows == Row \ Disabled \in SUBSET BoxSet /\ Row \in SUBSET BoxSet
BY DEF BoxSet

(* The box that was clicked turned over, before the handler runs.           *)
Clicked(C, B, b) ==
  /\ C \in Boxes /\ C.rule = B.rule /\ C.touched = B.touched \cup {b}
  /\ C.header = (b = Header /\ b \in Clickable(B.rule))
  /\ \A d \in BoxSet \ {b} : C.on[d] = B.on[d]

LEMMA ClickedIs ==
  ASSUME NEW B \in Boxes, NEW b \in BoxSet
  PROVE  Clicked([Tick(B, {b}, ~B.on[b]) EXCEPT !.header = b = Header /\ b \in Clickable(B.rule)], B, b)
<1>1. {b} \in SUBSET BoxSet
  OBVIOUS
<1>2. PICK S \in SUBSET BoxSet : S = {b}
  BY <1>1
<1>3. PICK v \in BOOLEAN : v = ~B.on[b]
  OBVIOUS
<1>4. PICK T : T = Tick(B, S, v)
  OBVIOUS
<1>5. Ticked(Tick(B, S, v), B, S, v)
  BY TickIs, Zenon
<1>6. Ticked(T, B, {b}, v)
  BY <1>2, <1>4, <1>5
<1>7. PICK h \in BOOLEAN : h = (b = Header /\ b \in Clickable(B.rule))
  OBVIOUS
<1>8. PICK C : C = [T EXCEPT !.header = h]
  OBVIOUS
<1>9. T = Tick(B, {b}, ~B.on[b])
  BY <1>2, <1>3, <1>4
<1>10. C = [Tick(B, {b}, ~B.on[b]) EXCEPT !.header = b = Header /\ b \in Clickable(B.rule)]
  BY <1>7, <1>8, <1>9
<1>11. Clicked(C, B, b)
  BY <1>6, <1>7, <1>8 DEF Clicked, Ticked, Boxes
<1>12. QED
  BY <1>10, <1>11, Zenon

(* The rules that tick one box.                                             *)
LEMMA OneTicked ==
  ASSUME NEW C \in Boxes, C.rule \in {"single", "check", "radio"}, C.header = FALSE,
         NEW b \in Row \ Disabled, NEW N \in Boxes, NEW S \in SUBSET BoxSet,
         Row \ Disabled \subseteq S, Ticked(N, C, S, FALSE)
  PROVE  BoxesFine(Tick(N, {b}, TRUE)) /\ Tick(N, {b}, TRUE).rule = C.rule
<1>1. PICK one \in SUBSET BoxSet : one = {b}
  BY DEF BoxSet
<1>2. PICK T : T = Tick(N, one, TRUE)
  OBVIOUS
<1>3. Ticked(Tick(N, one, TRUE), N, one, TRUE)
  BY TickIs, Zenon
<1>4. Ticked(T, N, {b}, TRUE)
  BY <1>1, <1>2, <1>3
<1>5. T \in Boxes /\ T.rule = C.rule /\ T.header = FALSE
  BY <1>4 DEF Ticked
<1>6. ASSUME NEW d \in Row \ Disabled
      PROVE  (T.on[d] = TRUE) <=> d = b
  <2>1. d \in S /\ N.on[d] = FALSE /\ d \in BoxSet
    BY <1>6 DEF Ticked
  <2>2. CASE d = b
    BY <1>4, <2>2 DEF Ticked
  <2>3. CASE d # b
    <3>1. T.on[d] = FALSE
      BY <1>4, <2>1, <2>3 DEF Ticked
    <3>2. QED
      BY <3>1, <2>3
  <2>4. QED
    BY <2>2, <2>3
<1>7. BoxesFine(T)
  <2>1. TreeFine(T) /\ HeaderFine(T)
    BY <1>5 DEF TreeFine, HeaderFine
  <2>2. OneFine(T)
    BY <1>6 DEF OneFine
  <2>3. QED
    BY <1>5, <2>1, <2>2 DEF BoxesFine
<1>8. QED
  BY <1>1, <1>2, <1>5, <1>7

(* The rules that tick no row or any number of rows: only the header's      *)
(* promise is left.                                                         *)
LEMMA OtherRules ==
  ASSUME NEW N \in Boxes, N.rule \in {"multi", "all", "byId", "table"}, HeaderFine(N)
  PROVE  BoxesFine(N)
BY DEF BoxesFine, TreeFine, OneFine

(* A click on a box of a list or a tree, with the handler of its rule.      *)
LEMMA RowClick ==
  ASSUME NEW B \in Boxes, BoxesFine(B), NEW b \in Row \ Disabled, NEW C, Clicked(C, B, b),
         b \in Clickable(B.rule)
  PROVE  BoxesFine(OnClick(C, b))
<1>1. b # Header /\ b \in BoxSet /\ Branch[b] \in SUBSET BoxSet
  BY CheckBoxesAssumption, BranchFalls DEF BoxSet
<1>2. C \in Boxes /\ C.rule = B.rule /\ C.header = FALSE /\ C.on[b] \in BOOLEAN
  BY <1>1 DEF Clicked, Boxes
<1>3. C.rule \in {"tree", "multi", "single", "check", "radio"}
  BY <1>1, <1>2 DEF Clickable, Boxes, Rules
<1>4. CASE C.rule = "tree"
  <2>1. OnClick(C, b) = CheckChild(C, b)
    BY <1>4 DEF OnClick
  <2>2. \A p \in Row : Shows(B.on, p)
    BY <1>2, <1>4 DEF BoxesFine, TreeFine
  <2>3. \A d \in Row \ {b} : C.on[d] = B.on[d]
    BY DEF Clicked, BoxSet
  <2>4. Settled(CheckChild(C, b), C)
    BY <1>2, <2>2, <2>3, CheckChildKeeps, Zenon
  <2>5. PICK N : N = CheckChild(C, b)
    OBVIOUS
  <2>6. N \in Boxes /\ N.rule = "tree" /\ N.header = FALSE /\ \A p \in Row : Shows(N.on, p)
    BY <1>2, <1>4, <2>4, <2>5 DEF Settled
  <2>7. BoxesFine(N)
    BY <2>6 DEF BoxesFine, TreeFine, OneFine, HeaderFine
  <2>8. QED
    BY <2>1, <2>5, <2>7
<1>5. CASE C.rule = "multi"
  <2>1. PICK v \in BOOLEAN : v = C.on[b]
    BY <1>2
  <2>2. PICK S \in SUBSET BoxSet : S = Branch[b]
    BY <1>1
  <2>3. Ticked(Tick(C, S, v), C, S, v)
    BY <1>2, TickIs, Zenon
  <2>4. PICK N : N = Tick(C, S, v)
    OBVIOUS
  <2>5. OnClick(C, b) = N
    BY <1>5, <2>1, <2>2, <2>4 DEF OnClick, SelectMultiNode
  <2>6. N \in Boxes /\ N.rule = "multi" /\ N.header = FALSE
    BY <1>2, <1>5, <2>3, <2>4 DEF Ticked
  <2>7. BoxesFine(N)
    BY <2>6, OtherRules DEF HeaderFine
  <2>8. QED
    BY <2>5, <2>7
<1>6. CASE C.rule \in {"single", "check"}
  <2>1. PICK S \in SUBSET BoxSet : S = Row
    BY EnabledRows
  <2>2. PICK N : N = Tick(C, S, FALSE)
    OBVIOUS
  <2>3. Ticked(Tick(C, S, FALSE), C, S, FALSE)
    BY <1>2, TickIs
  <2>4. Ticked(N, C, S, FALSE) /\ N \in Boxes
    BY <2>2, <2>3 DEF Ticked
  <2>5. BoxesFine(Tick(N, {b}, TRUE))
    BY <1>2, <1>6, <2>1, <2>4, OneTicked
  <2>6. OnClick(C, b) = Tick(N, {b}, TRUE)
    BY <1>6, <2>1, <2>2 DEF OnClick, SelectSingleNode
  <2>7. QED
    BY <2>5, <2>6
<1>7. CASE C.rule = "radio"
  <2>1. PICK S \in SUBSET BoxSet : S = Row \ Disabled
    BY EnabledRows
  <2>2. PICK N : N = Attr(C, S, FALSE)
    OBVIOUS
  <2>3. Ticked(Attr(C, S, FALSE), C, S, FALSE)
    BY <1>2, AttrOff
  <2>4. Ticked(N, C, S, FALSE) /\ N \in Boxes
    BY <2>2, <2>3 DEF Ticked
  <2>5. BoxesFine(Tick(N, {b}, TRUE))
    BY <1>2, <1>7, <2>1, <2>4, OneTicked
  <2>6. OnClick(C, b) = Tick(N, {b}, TRUE)
    BY <1>7, <2>1, <2>2 DEF OnClick, SelectedCheckBox
  <2>7. QED
    BY <2>5, <2>6
<1>8. QED
  BY <1>3, <1>4, <1>5, <1>6, <1>7

(* A click on the header box, with the handler of its rule.                 *)
LEMMA HeaderClick ==
  ASSUME NEW B \in Boxes, NEW C, Clicked(C, B, Header), Header \in Clickable(B.rule)
  PROVE  BoxesFine(OnClick(C, Header))
<1>1. Header \in BoxSet /\ Header \notin Row
  BY CheckBoxesAssumption DEF BoxSet
<1>2. C \in Boxes /\ C.rule = B.rule /\ C.on[Header] \in BOOLEAN
  BY <1>1 DEF Clicked, Boxes
<1>3. C.rule \in {"all", "byId", "table"}
  BY <1>1, <1>2 DEF Clickable
<1>4. PICK v \in BOOLEAN : v = C.on[Header]
  BY <1>2
<1>5. CASE C.rule \in {"byId", "table"} \/ v = FALSE
  <2>1. PICK S \in SUBSET BoxSet : S = IF C.rule = "table" THEN Row ELSE Row \ Disabled
    BY EnabledRows
  <2>2. PICK N : N = Tick(C, S, v)
    OBVIOUS
  <2>3. Ticked(Tick(C, S, v), C, S, v)
    BY <1>2, TickIs, Zenon
  <2>4. Ticked(N, C, S, v)
    BY <2>2, <2>3
  <2>5. OnClick(C, Header) = N
    <3>1. CASE C.rule = "table"
      BY <1>4, <2>1, <2>2, <3>1 DEF OnClick, selectAllChecked
    <3>2. CASE C.rule = "byId"
      BY <1>4, <2>1, <2>2, <3>2 DEF OnClick, SelectAllById
    <3>3. CASE C.rule = "all"
      <4>1. v = FALSE /\ S = Row \ Disabled
        BY <1>5, <2>1, <3>3
      <4>2. OnClick(C, Header) = Attr(C, S, v)
        BY <1>4, <3>3, <4>1 DEF OnClick, SelectedCheckBox
      <4>3. Attr(C, S, v) = Tick(C, S, v)
        BY <4>1 DEF Attr, RemoveAttr
      <4>4. QED
        BY <2>2, <4>2, <4>3
    <3>4. QED
      BY <1>3, <3>1, <3>2, <3>3
  <2>6. Header \notin S /\ Row \ Disabled \subseteq S /\ Row \ Disabled \subseteq BoxSet
    BY <1>1, <2>1, EnabledRows
  <2>7. N \in Boxes /\ N.rule = C.rule /\ N.on[Header] = v
    BY <1>1, <1>4, <2>4, <2>6 DEF Ticked
  <2>8. \A b \in Row \ Disabled : N.on[b] = v
    BY <2>4, <2>6 DEF Ticked
  <2>9. HeaderFine(N)
    BY <2>7, <2>8 DEF HeaderFine
  <2>10. QED
    BY <1>3, <2>5, <2>7, <2>9, OtherRules
<1>6. CASE C.rule = "all" /\ v = TRUE
  <2>1. PICK S \in SUBSET BoxSet : S = Row \ Disabled
    BY EnabledRows
  <2>2. PICK N : N = Attr(C, S, TRUE)
    OBVIOUS
  <2>3. Attributed(Attr(C, S, TRUE), C, S)
    BY <1>2, AttrOn, Zenon
  <2>4. Attributed(N, C, S)
    BY <2>2, <2>3
  <2>5. OnClick(C, Header) = N
    BY <1>4, <1>6, <2>1, <2>2 DEF OnClick, SelectedCheckBox
  <2>6. N \in Boxes /\ N.rule = "all" /\ N.touched = C.touched /\ N.on[Header] = TRUE
    BY <1>1, <1>4, <1>6, <2>4 DEF Attributed
  <2>7. ASSUME NEW b \in Row \ Disabled, b \notin N.touched
        PROVE  N.on[b] = TRUE
    <3>1. b \in BoxSet /\ b \in S /\ b \notin C.touched
      BY <2>1, <2>6, <2>7, EnabledRows
    <3>2. QED
      BY <2>4, <3>1 DEF Attributed
  <2>8. HeaderFine(N)
    BY <2>6, <2>7 DEF HeaderFine
  <2>9. QED
    BY <2>5, <2>6, <2>8, OtherRules
<1>7. QED
  BY <1>3, <1>5, <1>6

(* A click that runs no handler.                                            *)
LEMMA PlainClick ==
  ASSUME NEW B \in Boxes, BoxesFine(B), NEW b \in BoxSet, NEW C, Clicked(C, B, b),
         b \notin Clickable(B.rule)
  PROVE  BoxesFine(C)
<1>1. C \in Boxes /\ C.rule = B.rule /\ C.header = FALSE
  BY DEF Clicked
<1>2. HeaderFine(C)
  BY <1>1 DEF HeaderFine
<1>3. CASE B.rule \in {"all", "byId", "table"}
  BY <1>1, <1>2, <1>3, OtherRules
<1>4. CASE B.rule \notin {"all", "byId", "table"}
  <2>1. b = Header /\ Header \notin Row
    BY <1>4, CheckBoxesAssumption DEF Clickable, BoxSet
  <2>2. \A d \in Row : C.on[d] = B.on[d]
    BY <2>1 DEF Clicked, BoxSet
  <2>3. C.touched \cap Row = B.touched \cap Row
    BY <2>1 DEF Clicked
  <2>4. TreeFine(C)
    <3> SUFFICES ASSUME C.rule = "tree", NEW p \in Row
                 PROVE  Shows(C.on, p)
      BY DEF TreeFine
    <3>1. Shows(B.on, p)
      BY <1>1 DEF BoxesFine, TreeFine
    <3>2. \A c \in Below(p) : c \in Row
      BY DEF Below
    <3>3. QED
      BY <2>2, <3>1, <3>2 DEF Shows
  <2>5. OneFine(C)
    BY <1>1, <2>2, <2>3 DEF BoxesFine, OneFine
  <2>6. QED
    BY <1>1, <1>2, <2>4, <2>5 DEF BoxesFine
<1>5. QED
  BY <1>3, <1>4

LEMMA BoxesStart == ASSUME BoxesInit PROVE BoxesFine(boxes)
<1>1. boxes.on = [b \in Row \cup {Header} |-> FALSE] /\ boxes.touched = {} /\ boxes.header = FALSE
  BY DEF BoxesInit
<1>2. boxes \in Boxes
  BY DEF BoxesInit, Boxes, BoxSet
<1>3. \A p \in Row : Shows(boxes.on, p)
  <2>1. \A p \in Row : boxes.on[p] = FALSE
    BY <1>1
  <2>2. QED
    BY <2>1 DEF Shows, Below
<1>4. QED
  BY <1>1, <1>2, <1>3 DEF BoxesFine, TreeFine, OneFine, HeaderFine

LEMMA BoxesStep == ASSUME BoxesFine(boxes), BoxesNext PROVE BoxesFine(boxes')
<1>1. PICK b \in Row \cup {Header} : Click(b)
  BY DEF BoxesNext
<1>2. PICK B \in Boxes : B = boxes
  BY DEF BoxesFine
<1>3. BoxesFine(B) /\ b \in BoxSet
  BY <1>1, <1>2 DEF BoxSet
<1>4. PICK C : C = [Tick(B, {b}, ~B.on[b]) EXCEPT !.header = b = Header /\ b \in Clickable(B.rule)]
  OBVIOUS
<1>5. Clicked(C, B, b)
  BY <1>3, <1>4, ClickedIs
<1>6. boxes' = IF b \in Clickable(B.rule) THEN OnClick(C, b) ELSE C
  BY <1>1, <1>2, <1>4 DEF Click
<1>7. b \notin Disabled
  BY <1>1 DEF Click
<1>8. CASE b \notin Clickable(B.rule)
  BY <1>3, <1>5, <1>6, <1>8, PlainClick
<1>9. CASE b \in Clickable(B.rule) /\ b = Header
  BY <1>5, <1>6, <1>9, HeaderClick
<1>10. CASE b \in Clickable(B.rule) /\ b # Header
  <2>1. b \in Row \ Disabled
    BY <1>7, <1>10
  <2>2. BoxesFine(OnClick(C, b))
    BY <1>3, <1>5, <1>10, <2>1, RowClick
  <2>3. QED
    BY <1>6, <1>10, <2>2
<1>11. QED
  BY <1>8, <1>9, <1>10

(* Whatever the boxes, their tree and the clicks: a node of a tree shows    *)
(* what is ticked below it, a single choice is one, and a header reaches    *)
(* the rows its handler can reach.                                          *)
THEOREM BoxesKeepRuleThm == Spec => []BoxesKeepRule
<1> DEFINE BoxesInv == boxes # Off => BoxesFine(boxes)
<1>1. Init => BoxesInv
  BY OwnStart, BoxesStart
<1>2. BoxesInv /\ [Next]_vars => BoxesInv'
  <2> SUFFICES ASSUME BoxesInv, [Next]_vars
               PROVE  BoxesInv'
    OBVIOUS
  <2>1. CASE BoxesNext
    <3>1. boxes # Off
      BY <2>1 DEF BoxesNext, Click
    <3>2. QED
      BY <2>1, <3>1, BoxesStep
  <2>2. CASE UNCHANGED boxes
    BY <2>2
  <2>3. QED
    BY <2>1, <2>2, OwnSteps
<1>3. BoxesInv => BoxesKeepRule
  BY FineKeepsRule
<1>4. QED
  BY <1>1, <1>2, <1>3, PTL DEF Spec

-----------------------------------------------------------------------------
(* Parts of lists.                                                          *)

LEMMA ToSetOfMore ==
  ASSUME NEW X, NEW s \in Seq(X), NEW x \in X
  PROVE  ToSet(Append(s, x)) = ToSet(s) \cup {x}
<1>1. /\ DOMAIN Append(s, x) = DOMAIN s \cup {Len(s) + 1}
      /\ Append(s, x)[Len(s) + 1] = x /\ \A i \in DOMAIN s : Append(s, x)[i] = s[i]
  BY SMT
<1>2. QED
  BY <1>1 DEF ToSet

LEMMA ToSetOfBoth ==
  ASSUME NEW X, NEW s \in Seq(X), NEW t \in Seq(X)
  PROVE  ToSet(s \o t) = ToSet(s) \cup ToSet(t)
<1>1. ASSUME NEW i \in DOMAIN (s \o t)
      PROVE  (s \o t)[i] \in ToSet(s) \cup ToSet(t)
  <2>1. CASE i <= Len(s)
    <3>1. i \in DOMAIN s /\ (s \o t)[i] = s[i]
      BY <2>1, SMT
    <3>2. QED
      BY <3>1 DEF ToSet
  <2>2. CASE ~(i <= Len(s))
    <3>1. i - Len(s) \in DOMAIN t /\ (s \o t)[i] = t[i - Len(s)]
      BY <2>2, SMT
    <3>2. QED
      BY <3>1 DEF ToSet
  <2>3. QED
    BY <2>1, <2>2
<1>2. ASSUME NEW i \in DOMAIN s
      PROVE  s[i] \in ToSet(s \o t)
  <2>1. i \in DOMAIN (s \o t) /\ (s \o t)[i] = s[i]
    BY SMT
  <2>2. QED
    BY <2>1 DEF ToSet
<1>3. ASSUME NEW i \in DOMAIN t
      PROVE  t[i] \in ToSet(s \o t)
  <2>1. Len(s) + i \in DOMAIN (s \o t) /\ (s \o t)[Len(s) + i] = t[i]
    BY SMT
  <2>2. QED
    BY <2>1 DEF ToSet
<1>4. ToSet(s \o t) \subseteq ToSet(s) \cup ToSet(t)
  BY <1>1 DEF ToSet
<1>5. ToSet(s) \subseteq ToSet(s \o t) /\ ToSet(t) \subseteq ToSet(s \o t)
  <2> HIDE DEF ToSet
  <2>1. (\A x \in ToSet(s) : \E i \in DOMAIN s : x = s[i]) /\ (\A x \in ToSet(t) : \E i \in DOMAIN t : x = t[i])
    BY DEF ToSet
  <2>2. QED
    BY <1>2, <1>3, <2>1
<1>6. QED
  BY <1>4, <1>5

(* The prefixes of what Only picks.                                         *)
Picks(up, s, S) ==
  /\ up[0] = <<>>
  /\ \A i \in 1 .. Len(s) : up[i] = IF s[i] \in S THEN Append(up[i - 1], s[i]) ELSE up[i - 1]

LEMMA OnlyIs ==
  ASSUME NEW X, NEW s \in Seq(X), NEW S
  PROVE  \E up \in [0 .. Len(s) -> Seq(X)] : Picks(up, s, S) /\ Only(s, S) = up[Len(s)]
<1> DEFINE turn == [p \in (1 .. Len(s)) \X Seq(X) |-> IF s[p[1]] \in S THEN Append(p[2], s[p[1]]) ELSE p[2]]
           Rec(g) == [i \in 0 .. Len(s) |->
                        IF i = 0 THEN <<>>
                        ELSE IF s[i] \in S THEN Append(g[i - 1], s[i]) ELSE g[i - 1]]
           chosen == CHOOSE g : g = Rec(g)
<1>1. Len(s) \in Nat /\ <<>> \in Seq(X)
  OBVIOUS
<1>2. turn \in [(1 .. Len(s)) \X Seq(X) -> Seq(X)]
  <2>1. ASSUME NEW i \in 1 .. Len(s), NEW t \in Seq(X)
        PROVE  (IF s[i] \in S THEN Append(t, s[i]) ELSE t) \in Seq(X)
    <3>1. s[i] \in X
      OBVIOUS
    <3>2. QED
      BY <3>1
  <2>2. QED
    BY <2>1
<1>3. \A i \in 1 .. Len(s), t \in Seq(X) : turn[<<i, t>>] = IF s[i] \in S THEN Append(t, s[i]) ELSE t
  OBVIOUS
<1> HIDE DEF turn
<1>4. PICK at \in [0 .. Len(s) -> Seq(X)] : Loops(at, Len(s), <<>>, turn)
  BY <1>1, <1>2, LoopExists, Zenon
<1>5. ASSUME NEW i \in 1 .. Len(s)
      PROVE  at[i] = IF s[i] \in S THEN Append(at[i - 1], s[i]) ELSE at[i - 1]
  <2>1. at[i - 1] \in Seq(X)
    BY <1>1, SMT
  <2>2. QED
    BY <1>3, <1>4, <2>1 DEF Loops
<1>6. Picks(at, s, S)
  BY <1>4, <1>5 DEF Picks, Loops
<1>7. at = Rec(at)
  <2>1. \A i \in 0 .. Len(s) : i # 0 => i \in 1 .. Len(s)
    BY <1>1, SMT
  <2>2. \A i \in 0 .. Len(s) : at[i] = Rec(at)[i]
    BY <1>6, <2>1 DEF Picks
  <2>3. QED
    BY <2>2
<1>8. chosen = Rec(chosen)
  BY <1>7, Zenon
<1>9. Only(s, S) = chosen[Len(s)]
  BY Zenon DEF Only
<1> HIDE DEF chosen
<1>10. chosen[0] = <<>> /\ \A i \in 1 .. Len(s) : chosen[i] = IF s[i] \in S THEN Append(chosen[i - 1], s[i]) ELSE chosen[i - 1]
  <2>1. 0 \in 0 .. Len(s) /\ \A i \in 1 .. Len(s) : i \in 0 .. Len(s) /\ i # 0
    BY <1>1, SMT
  <2>2. QED
    BY <1>8, <2>1
<1> DEFINE P == {k \in 0 .. Len(s) : chosen[k] = at[k]}
<1>11. 0 \in P
  BY <1>1, <1>6, <1>10, SMT DEF Picks
<1>12. ASSUME NEW k \in 0 .. (Len(s) - 1), k \in P
       PROVE  k + 1 \in P
  <2>1. k + 1 \in 1 .. Len(s) /\ k + 1 \in 0 .. Len(s) /\ k + 1 - 1 = k
    BY <1>1, <1>12, SMT
  <2>2. QED
    BY <1>5, <1>10, <1>12, <2>1
<1>13. 0 .. Len(s) \subseteq P
  <2> HIDE DEF P
  <2>1. QED
    BY <1>1, <1>11, <1>12, UpTo, Zenon
<1>14. QED
  BY <1>1, <1>6, <1>9, <1>13, SMT

(* Only picks the elements in S.                                            *)
LEMMA OnlyKeeps ==
  ASSUME NEW X, NEW s \in Seq(X), NEW S
  PROVE  Only(s, S) \in Seq(X) /\ ToSet(Only(s, S)) = ToSet(s) \cap S
<1>1. PICK up \in [0 .. Len(s) -> Seq(X)] : Picks(up, s, S) /\ Only(s, S) = up[Len(s)]
  BY OnlyIs, Zenon
<1> DEFINE First(k) == {s[i] : i \in 1 .. k}
           P == {k \in 0 .. Len(s) : ToSet(up[k]) = First(k) \cap S}
<1>2. Len(s) \in Nat
  OBVIOUS
<1>3. 0 \in P
  <2>1. up[0] = <<>> /\ 0 \in 0 .. Len(s) /\ First(0) = {}
    BY <1>1, <1>2, SMT DEF Picks
  <2>2. ToSet(<<>>) = {}
    BY DEF ToSet
  <2>3. QED
    BY <2>1, <2>2
<1>4. ASSUME NEW k \in 0 .. (Len(s) - 1), k \in P
      PROVE  k + 1 \in P
  <2>1. k + 1 \in 1 .. Len(s) /\ k + 1 \in 0 .. Len(s) /\ k + 1 - 1 = k /\ k \in 0 .. Len(s)
    BY <1>2, <1>4, SMT
  <2>2. ToSet(up[k]) = First(k) \cap S /\ up[k] \in Seq(X) /\ s[k + 1] \in X
    BY <1>4, <2>1
  <2>3. up[k + 1] = IF s[k + 1] \in S THEN Append(up[k], s[k + 1]) ELSE up[k]
    BY <1>1, <2>1 DEF Picks
  <2>4. First(k + 1) = First(k) \cup {s[k + 1]}
    <3>1. 1 .. (k + 1) = (1 .. k) \cup {k + 1}
      BY <2>1, SMT
    <3>2. QED
      BY <3>1
  <2>5. CASE s[k + 1] \in S
    <3>1. up[k + 1] = Append(up[k], s[k + 1])
      BY <2>3, <2>5
    <3>2. ToSet(Append(up[k], s[k + 1])) = ToSet(up[k]) \cup {s[k + 1]}
      BY <2>2, ToSetOfMore
    <3>3. QED
      BY <2>1, <2>2, <2>4, <2>5, <3>1, <3>2
  <2>6. CASE s[k + 1] \notin S
    BY <2>1, <2>2, <2>3, <2>4, <2>6
  <2>7. QED
    BY <2>5, <2>6
<1>5. Len(s) \in P
  <2> HIDE DEF P
  <2>1. 0 .. Len(s) \subseteq P
    BY <1>2, <1>3, <1>4, UpTo, Zenon
  <2>2. QED
    BY <1>2, <2>1, SMT
<1>6. First(Len(s)) = ToSet(s)
  BY DEF ToSet
<1>7. up[Len(s)] \in Seq(X)
  BY <1>2, SMT
<1>8. QED
  BY <1>1, <1>5, <1>6, <1>7

(* The first and the last place of some.                                    *)
LEMMA FirstPlace ==
  ASSUME NEW n \in Nat, NEW I \in SUBSET (1 .. n), I # {}
  PROVE  Min(I) \in I /\ \A i \in I : Min(I) <= i
<1>1. \E x \in I : \A y \in I : x <= y
  BY LeastElement
<1>2. QED
  BY <1>1 DEF Min

LEMMA LastPlace ==
  ASSUME NEW n \in Nat, NEW I \in SUBSET (1 .. n), I # {}
  PROVE  Max(I) \in I
<1> DEFINE T == {n - i : i \in I}
<1>1. T \in SUBSET Nat /\ T # {}
  <2>1. \A i \in I : i \in 1 .. n /\ n - i \in Nat
    BY SMT
  <2>2. QED
    BY <2>1
<1>2. PICK t \in T : \A u \in T : t <= u
  BY <1>1, LeastElement
<1>3. PICK x \in I : t = n - x
  BY <1>2
<1>4. ASSUME NEW y \in I
      PROVE  x >= y
  <2>1. n - x <= n - y
    BY <1>2, <1>3, <1>4
  <2>2. x \in Nat /\ y \in Nat
    BY SMT
  <2>3. QED
    BY <2>1, <2>2, SMT
<1>5. \E z \in I : \A y \in I : z >= y
  BY <1>4
<1>6. QED
  BY <1>5 DEF Max

-----------------------------------------------------------------------------
(* Cookies.                                                                 *)

Cookie == [name : CookieName \cup {BadName}, path : Depth,
           value : CookieValue \cup {BadValue}, lasting : BOOLEAN]

CookiesAt(jar, k) == Only(jar, {c \in ToSet(jar) : c.path = k})

(* What a page sees: the cookies at its own depth, then those above.        *)
LEMMA VisibleIs ==
  ASSUME NEW jar \in Seq(Cookie), NEW d \in Nat
  PROVE  /\ Visible(jar, d) \in Seq(Cookie)
         /\ \E rest \in Seq(Cookie) : Visible(jar, d) = CookiesAt(jar, d) \o rest
<1> DEFINE turn == [p \in (1 .. d) \X Seq(Cookie) |-> CookiesAt(jar, p[1]) \o p[2]]
           Rec(g) == [k \in 0 .. d |-> IF k = 0 THEN CookiesAt(jar, 0) ELSE CookiesAt(jar, k) \o g[k - 1]]
           from == CHOOSE g : g = Rec(g)
<1>1. \A k : CookiesAt(jar, k) \in Seq(Cookie)
  BY OnlyKeeps DEF CookiesAt
<1>2. Visible(jar, d) = from[d]
  BY Zenon DEF Visible, CookiesAt
<1>3. turn \in [(1 .. d) \X Seq(Cookie) -> Seq(Cookie)]
  <2>1. \A k : \A t \in Seq(Cookie) : CookiesAt(jar, k) \o t \in Seq(Cookie)
    BY <1>1
  <2>2. QED
    BY <2>1
<1>4. \A k \in 1 .. d, t \in Seq(Cookie) : turn[<<k, t>>] = CookiesAt(jar, k) \o t
  OBVIOUS
<1> HIDE DEF turn
<1>5. PICK at \in [0 .. d -> Seq(Cookie)] : Loops(at, d, CookiesAt(jar, 0), turn)
  BY <1>1, <1>3, LoopExists, Zenon
<1>6. ASSUME NEW k \in 1 .. d
      PROVE  at[k] = CookiesAt(jar, k) \o at[k - 1]
  <2>1. at[k - 1] \in Seq(Cookie)
    BY SMT
  <2>2. QED
    BY <1>4, <1>5, <2>1 DEF Loops
<1>7. at = Rec(at)
  <2>1. \A k \in 0 .. d : k # 0 => k \in 1 .. d
    BY SMT
  <2>2. \A k \in 0 .. d : at[k] = Rec(at)[k]
    BY <1>5, <1>6, <2>1 DEF Loops
  <2>3. QED
    BY <2>2
<1>8. from = Rec(from)
  BY <1>7, Zenon
<1> HIDE DEF from
<1>9. /\ 0 \in 0 .. d /\ d \in 0 .. d
      /\ \A k \in 1 .. d : k \in 0 .. d /\ k # 0
  BY SMT
<1>10. from[0] = CookiesAt(jar, 0) /\ \A k \in 1 .. d : from[k] = CookiesAt(jar, k) \o from[k - 1]
  BY <1>8, <1>9
<1> DEFINE P == {k \in 0 .. d : from[k] \in Seq(Cookie)}
<1>11. 0 \in P
  BY <1>1, <1>9, <1>10
<1>12. ASSUME NEW k \in 0 .. (d - 1), k \in P
       PROVE  k + 1 \in P
  <2>1. k + 1 \in 1 .. d /\ k + 1 \in 0 .. d /\ k + 1 - 1 = k
    BY <1>12, SMT
  <2>2. PICK j \in 1 .. d : j = k + 1 /\ j - 1 = k
    BY <2>1
  <2>3. CookiesAt(jar, k + 1) \in Seq(Cookie) /\ from[k] \in Seq(Cookie)
    BY <1>1, <1>12
  <2>4. CookiesAt(jar, k + 1) \o from[k] \in Seq(Cookie)
    BY <2>3
  <2>5. from[j] = CookiesAt(jar, j) \o from[j - 1]
    BY <1>10
  <2>6. from[k + 1] = CookiesAt(jar, k + 1) \o from[k]
    BY <2>2, <2>5
  <2>7. from[k + 1] \in Seq(Cookie)
    BY <2>4, <2>6
  <2>8. QED
    BY <2>1, <2>7
<1>13. 0 .. d \subseteq P
  <2> HIDE DEF P
  <2>1. QED
    BY <1>11, <1>12, UpTo, Zenon
<1>14. CASE d = 0
  <2>1. from[d] = CookiesAt(jar, d) \o <<>> /\ <<>> \in Seq(Cookie)
    BY <1>1, <1>10, <1>14
  <2>2. QED
    BY <1>2, <1>9, <1>13, <2>1
<1>15. CASE d # 0
  <2>1. d \in 1 .. d /\ d - 1 \in 0 .. d
    BY <1>15, SMT
  <2>2. from[d] = CookiesAt(jar, d) \o from[d - 1] /\ from[d - 1] \in Seq(Cookie)
    BY <1>10, <1>13, <2>1
  <2>3. QED
    BY <1>2, <1>9, <1>13, <2>2
<1>16. QED
  BY <1>14, <1>15

Alone(S) == \A c, d \in S : c.name = d.name /\ c.path = d.path => c = d

(* A cookie is set: the others stay, and those of its name and path go.     *)
LEMMA PutIs ==
  ASSUME NEW jar \in Seq(Cookie), NEW c \in Cookie
  PROVE  /\ Put(jar, c) \in Seq(Cookie)
         /\ ToSet(Put(jar, c)) = {c} \cup {d \in ToSet(jar) : d.name # c.name \/ d.path # c.path}
<1> DEFINE Same(d) == d.name = c.name /\ d.path = c.path
<1>1. CASE \E i \in DOMAIN jar : Same(jar[i])
  <2>1. Put(jar, c) = Replace(jar, c)
    BY <1>1 DEF Put
  <2>2. PICK r : r = Replace(jar, c)
    OBVIOUS
  <2>3. /\ DOMAIN r = DOMAIN jar /\ DOMAIN jar = 1 .. Len(jar) /\ Len(jar) \in Nat
        /\ r = [i \in DOMAIN jar |-> IF Same(jar[i]) THEN c ELSE jar[i]]
    BY <2>2 DEF Replace
  <2>4. r \in [1 .. Len(jar) -> Cookie]
    BY <2>3
  <2>5. r \in Seq(Cookie)
    BY <2>3, <2>4
  <2>6. \A i \in DOMAIN jar : r[i] = IF Same(jar[i]) THEN c ELSE jar[i]
    BY <2>3
  <2>7. ToSet(r) = {c} \cup {d \in ToSet(jar) : d.name # c.name \/ d.path # c.path}
    <3>1. ToSet(r) \subseteq {c} \cup {d \in ToSet(jar) : d.name # c.name \/ d.path # c.path}
      BY <2>3, <2>6 DEF ToSet
    <3>2. c \in ToSet(r)
      BY <1>1, <2>3, <2>6 DEF ToSet
    <3>3. {d \in ToSet(jar) : d.name # c.name \/ d.path # c.path} \subseteq ToSet(r)
      BY <2>3, <2>6 DEF ToSet
    <3>4. QED
      BY <3>1, <3>2, <3>3
  <2>8. QED
    BY <2>1, <2>2, <2>5, <2>7
<1>2. CASE ~\E i \in DOMAIN jar : Same(jar[i])
  <2>1. Put(jar, c) = Append(jar, c)
    BY <1>2 DEF Put
  <2>2. Append(jar, c) \in Seq(Cookie) /\ ToSet(Append(jar, c)) = ToSet(jar) \cup {c}
    BY ToSetOfMore
  <2>3. \A d \in ToSet(jar) : d.name # c.name \/ d.path # c.path
    BY <1>2 DEF ToSet
  <2>4. ToSet(jar) \cup {c} = {c} \cup {d \in ToSet(jar) : d.name # c.name \/ d.path # c.path}
    BY <2>3
  <2>5. QED
    BY <2>1, <2>2, <2>4
<1>3. QED
  BY <1>1, <1>2

(* The cookie a page wrote last at its own path.                            *)
Written(P, c) == c.name = P.last[1] /\ c.value = P.last[2] /\ c.path = P.depth

Pages == [depth : Depth, jar : Seq(Cookie), last : {<<>>} \cup (CookieName \X CookieValue)]

PageFine(P) ==
  /\ P \in Pages
  /\ Alone(ToSet(P.jar))
  /\ P.last # <<>> => \E c \in ToSet(P.jar) : Written(P, c)

LEMMA PutFine ==
  ASSUME PageFine(page), NEW c \in Cookie, NEW jar, jar = Put(page.jar, c)
  PROVE  /\ jar \in Seq(Cookie) /\ Alone(ToSet(jar)) /\ c \in ToSet(jar)
         /\ \A d \in ToSet(page.jar) : d.name # c.name => d \in ToSet(jar)
<1>1. page.jar \in Seq(Cookie) /\ Alone(ToSet(page.jar))
  BY DEF PageFine, Pages
<1>2. jar \in Seq(Cookie) /\ ToSet(jar) = {c} \cup {d \in ToSet(page.jar) : d.name # c.name \/ d.path # c.path}
  BY <1>1, PutIs
<1>3. QED
  BY <1>1, <1>2 DEF Alone

LEMMA PartFine ==
  ASSUME PageFine(page), NEW S, NEW jar, jar = Only(page.jar, S)
  PROVE  jar \in Seq(Cookie) /\ Alone(ToSet(jar))
<1>1. page.jar \in Seq(Cookie) /\ Alone(ToSet(page.jar))
  BY DEF PageFine, Pages
<1>2. jar \in Seq(Cookie) /\ ToSet(jar) = ToSet(page.jar) \cap S
  BY <1>1, OnlyKeeps
<1>3. QED
  BY <1>1, <1>2 DEF Alone

LEMMA PageStarts == ASSUME CookiesInit PROVE PageFine(page)
<1>1. page.jar = <<>> /\ page.last = <<>> /\ page \in Pages
  <2>1. PICK d \in Depth : page = [depth |-> d, jar |-> <<>>, last |-> <<>>]
    <3>1. page \in [depth : Depth, jar : {<<>>}, last : {<<>>}]
      BY DEF CookiesInit
    <3>2. page = [depth |-> page.depth, jar |-> <<>>, last |-> <<>>] /\ page.depth \in Depth
      BY <3>1
    <3>3. QED
      BY <3>2
  <2>2. <<>> \in Seq(Cookie)
    OBVIOUS
  <2>3. QED
    BY <2>1, <2>2 DEF Pages
<1>2. ToSet(<<>>) = {}
  BY DEF ToSet
<1>3. QED
  BY <1>1, <1>2 DEF PageFine, Alone

LEMMA WriteKeeps ==
  ASSUME PageFine(page), NEW key \in CookieName, NEW value \in CookieValue, NEW path \in Depth,
         NEW l \in BOOLEAN, Write(key, value, path, l)
  PROVE  PageFine(page')
<1>1. PICK c \in Cookie : c = [name |-> key, path |-> path, value |-> value, lasting |-> l]
  BY DEF Cookie
<1>2. PICK jar : jar = Put(page.jar, c)
  OBVIOUS
<1>3. PICK last : last = IF path = page.depth THEN <<key, value>> ELSE <<>>
  OBVIOUS
<1>4. page' = [page EXCEPT !.jar = jar, !.last = last]
  BY <1>1, <1>2, <1>3 DEF Write
<1>5. jar \in Seq(Cookie) /\ Alone(ToSet(jar)) /\ c \in ToSet(jar)
  BY <1>2, PutFine
<1>6. /\ page' \in Pages /\ page'.jar = jar /\ page'.last = last /\ page'.depth = page.depth
  BY <1>3, <1>4, <1>5 DEF PageFine, Pages
<1>7. last # <<>> => Written(page', c)
  BY <1>1, <1>3, <1>6 DEF Written
<1>8. QED
  BY <1>5, <1>6, <1>7 DEF PageFine

LEMMA ServerKeeps ==
  ASSUME PageFine(page), NEW name \in CookieName \cup {BadName},
         NEW value \in CookieValue \cup {BadValue}, NEW path \in Depth,
         ServerSets(name, value, path)
  PROVE  PageFine(page')
<1>1. PICK c \in Cookie : c = [name |-> name, path |-> path, value |-> value, lasting |-> TRUE]
  BY DEF Cookie
<1>2. PICK jar : jar = Put(page.jar, c)
  OBVIOUS
<1>3. PICK last : last = IF name = BadName THEN page.last ELSE <<>>
  OBVIOUS
<1>4. page' = [page EXCEPT !.jar = jar, !.last = last]
  BY <1>1, <1>2, <1>3 DEF ServerSets
<1>5. /\ jar \in Seq(Cookie) /\ Alone(ToSet(jar))
      /\ \A d \in ToSet(page.jar) : d.name # c.name => d \in ToSet(jar)
  BY <1>2, PutFine
<1>6. /\ page' \in Pages /\ page'.jar = jar /\ page'.last = last /\ page'.depth = page.depth
  BY <1>3, <1>4, <1>5 DEF PageFine, Pages
<1>7. ASSUME last # <<>>
      PROVE  \E d \in ToSet(jar) : Written(page', d)
  <2>1. name = BadName /\ last = page.last
    BY <1>3, <1>7
  <2>2. PICK d \in ToSet(page.jar) : Written(page, d)
    BY <1>7, <2>1 DEF PageFine
  <2>3. page.last[1] \in CookieName
    BY <1>7, <2>1 DEF PageFine, Pages
  <2>4. d.name # c.name
    BY <1>1, <2>1, <2>2, <2>3, CookiesAssumption DEF Written
  <2>5. Written(page', d)
    BY <1>6, <2>1, <2>2 DEF Written
  <2>6. QED
    BY <1>5, <2>4, <2>5
<1>8. QED
  BY <1>5, <1>6, <1>7 DEF PageFine

(* What takes cookies out, or the page elsewhere, forgets the last write.   *)
LEMMA ForgetKeeps ==
  ASSUME PageFine(page), NEW d \in Depth, NEW jar \in Seq(Cookie), Alone(ToSet(jar)),
         page' = [page EXCEPT !.depth = d, !.jar = jar, !.last = <<>>]
  PROVE  PageFine(page')
<1>1. page' \in Pages /\ page'.jar = jar /\ page'.last = <<>>
  BY DEF PageFine, Pages
<1>2. QED
  BY <1>1 DEF PageFine

LEMMA CookiesStep == ASSUME PageFine(page), CookiesNext PROVE PageFine(page')
<1>1. page.depth \in Depth /\ page \in Pages
  BY DEF PageFine, Pages
<1>2. ASSUME NEW S, page' = [page EXCEPT !.jar = Only(@, S), !.last = <<>>]
      PROVE  PageFine(page')
  <2>1. PICK jar \in Seq(Cookie) : jar = Only(page.jar, S) /\ Alone(ToSet(jar))
    BY PartFine
  <2>2. page' = [page EXCEPT !.depth = page.depth, !.jar = jar, !.last = <<>>]
    BY <1>1, <1>2, <2>1 DEF Pages
  <2>3. QED
    BY <1>1, <2>1, <2>2, ForgetKeeps
<1>3. CASE \E key \in CookieName, value \in CookieValue, path \in Depth, l \in BOOLEAN :
             Write(key, value, path, l)
  BY <1>3, WriteKeeps
<1>4. CASE \E key \in CookieName, path \in Depth : removeCookie(key, path)
  BY <1>2, <1>4 DEF removeCookie, Expire
<1>5. CASE ClearCookie
  BY <1>2, <1>5 DEF ClearCookie, Expire
<1>6. CASE \E name \in CookieName \cup {BadName}, path \in Depth,
              value \in CookieValue \cup {BadValue} : ServerSets(name, value, path)
  BY <1>6, ServerKeeps
<1>7. CASE \E d \in Depth : Navigate(d)
  <2>1. PICK d \in Depth : Navigate(d)
    BY <1>7
  <2>2. page' = [page EXCEPT !.depth = d, !.jar = page.jar, !.last = <<>>]
    BY <1>1, <2>1 DEF Navigate, Pages
  <2>3. page.jar \in Seq(Cookie) /\ Alone(ToSet(page.jar))
    BY DEF PageFine, Pages
  <2>4. QED
    BY <2>2, <2>3, ForgetKeeps
<1>8. CASE Reopen
  BY <1>2, <1>8 DEF Reopen
<1>9. QED
  BY <1>3, <1>4, <1>5, <1>6, <1>7, <1>8 DEF CookiesNext

(* What the page sees holds what it wrote at its own path, and first: only  *)
(* a name that does not decode may come before it.                          *)
LEMMA ReadIsWritten ==
  ASSUME PageFine(page), page.last # <<>>
  PROVE  WriteIsRead
<1>1. page \in Pages /\ page.depth \in Nat /\ page.last \in CookieName \X CookieValue
  BY CookiesAssumption DEF PageFine, Pages
<1>2. PICK c \in ToSet(page.jar) : Written(page, c)
  BY DEF PageFine
<1>3. PICK key \in CookieName, value \in CookieValue : page.last = <<key, value>>
  BY <1>1
<1>4. page.last[1] = key /\ page.last[2] = value /\ c.name = key /\ c.value = value /\ c.path = page.depth
  BY <1>2, <1>3 DEF Written
<1>5. page.jar \in Seq(Cookie) /\ Alone(ToSet(page.jar))
  BY <1>1 DEF PageFine, Pages
<1>6. PICK own \in Seq(Cookie), rest \in Seq(Cookie) : own = CookiesAt(page.jar, page.depth) /\ Seen = own \o rest
  <2>1. PICK rest \in Seq(Cookie) : Seen = CookiesAt(page.jar, page.depth) \o rest
    BY <1>1, <1>5, VisibleIs DEF Seen
  <2>2. CookiesAt(page.jar, page.depth) \in Seq(Cookie)
    BY <1>5, OnlyKeeps DEF CookiesAt
  <2>3. QED
    BY <2>1, <2>2
<1>7. ToSet(own) = {d \in ToSet(page.jar) : d.path = page.depth}
  <2>1. ToSet(own) = ToSet(page.jar) \cap {d \in ToSet(page.jar) : d.path = page.depth}
    BY <1>5, <1>6, OnlyKeeps DEF CookiesAt
  <2>2. QED
    BY <2>1
<1>8. PICK k \in 1 .. Len(own) : own[k] = c
  BY <1>2, <1>4, <1>7 DEF ToSet
<1> DEFINE I == {i \in 1 .. Len(Seen) : Seen[i].name \in {key, BadName}}
<1>9. /\ Len(Seen) \in Nat /\ DOMAIN Seen = 1 .. Len(Seen)
      /\ \A i \in 1 .. Len(own) : i \in 1 .. Len(Seen) /\ Seen[i] = own[i]
  BY <1>6
<1>10. k \in I
  BY <1>4, <1>8, <1>9
<1>11. PICK stop : stop = Min(I)
  OBVIOUS
<1>12. stop \in I /\ stop <= k
  <2>1. I \in SUBSET (1 .. Len(Seen)) /\ I # {}
    BY <1>10
  <2> HIDE DEF I
  <2>2. QED
    BY <1>9, <1>10, <1>11, <2>1, FirstPlace
<1>13. stop \in 1 .. Len(own) /\ stop \in DOMAIN Seen /\ stop # 0
  BY <1>8, <1>9, <1>12, SMT
<1>14. SelectInSeq(Seen, LAMBDA d : d.name \in {key, BadName}) = stop
  BY <1>9, <1>10, <1>11 DEF SelectInSeq
<1>15. Seen[stop] \in ToSet(page.jar) /\ Seen[stop].path = page.depth /\ Seen[stop].name \in {key, BadName}
  <2>1. own[stop] \in ToSet(own) /\ Seen[stop] = own[stop]
    BY <1>9, <1>13 DEF ToSet
  <2>2. QED
    BY <1>7, <1>12, <2>1
<1>16. Read(Seen, key) = IF Seen[stop].name = BadName THEN BadName ELSE Parsed(Seen[stop].value)
  BY <1>13, <1>14 DEF Read
<1>17. CASE Seen[stop].name = BadName
  <2>1. HasBadName
    BY <1>13, <1>17 DEF HasBadName
  <2>2. QED
    BY <1>4, <1>16, <1>17, <2>1 DEF WriteIsRead
<1>18. CASE Seen[stop].name # BadName
  <2>1. Seen[stop] = c
    BY <1>2, <1>4, <1>5, <1>15, <1>18 DEF Alone
  <2>2. Parsed(value) = value
    BY CookiesAssumption DEF Parsed
  <2>3. Read(Seen, key) = value
    BY <1>4, <1>16, <1>18, <2>1, <2>2
  <2>4. QED
    BY <1>4, <2>3 DEF WriteIsRead
<1>19. QED
  BY <1>17, <1>18

(* A name that is seen at one place only.                                   *)
Single(seen, key, c) ==
  /\ c \in ToSet(seen) /\ c.name = key
  /\ \A d \in ToSet(seen) : d.name = key => d = c

LEMMA ReadSingle ==
  ASSUME NEW seen \in Seq(Cookie), NEW key \in CookieName, NEW c, Single(seen, key, c),
         \A d \in ToSet(seen) : d.name # BadName
  PROVE  Read(seen, key) = Parsed(c.value)
<1> DEFINE I == {i \in 1 .. Len(seen) : seen[i].name \in {key, BadName}}
<1>1. Len(seen) \in Nat /\ DOMAIN seen = 1 .. Len(seen)
  OBVIOUS
<1>2. I # {}
  BY <1>1 DEF Single, ToSet
<1>3. PICK stop : stop = Min(I)
  OBVIOUS
<1>4. stop \in I
  <2>1. I \in SUBSET (1 .. Len(seen))
    OBVIOUS
  <2> HIDE DEF I
  <2>2. QED
    BY <1>1, <1>2, <1>3, <2>1, FirstPlace
<1>5. SelectInSeq(seen, LAMBDA d : d.name \in {key, BadName}) = stop
  BY <1>2, <1>3 DEF SelectInSeq
<1>6. stop # 0 /\ seen[stop] \in ToSet(seen) /\ seen[stop].name # BadName /\ seen[stop].name = key
  <2>1. stop \in DOMAIN seen /\ seen[stop].name \in {key, BadName} /\ stop # 0
    BY <1>1, <1>4
  <2>2. seen[stop] \in ToSet(seen)
    BY <2>1 DEF ToSet
  <2>3. QED
    BY <2>1, <2>2
<1>7. seen[stop] = c
  BY <1>6 DEF Single
<1>8. QED
  BY <1>5, <1>6, <1>7 DEF Read

LEMMA ReadNone ==
  ASSUME NEW seen \in Seq(Cookie), NEW key \in CookieName,
         \A d \in ToSet(seen) : d.name \notin {key, BadName}
  PROVE  Read(seen, key) = Undefined
<1> DEFINE I == {i \in 1 .. Len(seen) : seen[i].name \in {key, BadName}}
<1>1. I = {}
  BY DEF ToSet
<1>2. SelectInSeq(seen, LAMBDA d : d.name \in {key, BadName}) = 0
  BY <1>1 DEF SelectInSeq
<1>3. QED
  BY <1>2 DEF Read

(* The cookies that read.                                                   *)
Readable(seen) == Only(seen, {c \in ToSet(seen) : Parsed(c.value) # Undefined})

LEMMA ReadAllSingle ==
  ASSUME NEW seen \in Seq(Cookie), NEW key \in CookieName, NEW c, Single(seen, key, c),
         Parsed(c.value) # Undefined
  PROVE  key \in DOMAIN ReadAll(seen) /\ ReadAll(seen)[key] = c.value
<1>1. PICK good \in Seq(Cookie) : good = Readable(seen)
  BY OnlyKeeps DEF Readable
<1>2. ToSet(good) = {d \in ToSet(seen) : Parsed(d.value) # Undefined}
  <2>1. ToSet(good) = ToSet(seen) \cap {d \in ToSet(seen) : Parsed(d.value) # Undefined}
    BY <1>1, OnlyKeeps DEF Readable
  <2>2. QED
    BY <2>1
<1>3. c \in ToSet(good)
  BY <1>2 DEF Single
<1> DEFINE I == {i \in 1 .. Len(good) : good[i].name = key}
<1>4. Len(good) \in Nat /\ DOMAIN good = 1 .. Len(good)
  OBVIOUS
<1>5. I # {}
  BY <1>3, <1>4 DEF Single, ToSet
<1>6. PICK stop : stop = Max(I)
  OBVIOUS
<1>7. stop \in I
  <2>1. I \in SUBSET (1 .. Len(good))
    OBVIOUS
  <2> HIDE DEF I
  <2>2. QED
    BY <1>4, <1>5, <1>6, <2>1, LastPlace
<1>8. SelectLastInSeq(good, LAMBDA d : d.name = key) = stop
  BY <1>5, <1>6 DEF SelectLastInSeq
<1>9. good[stop] = c /\ key \in {good[i].name : i \in DOMAIN good}
  <2>1. stop \in DOMAIN good /\ good[stop].name = key
    BY <1>4, <1>7
  <2>2. good[stop] \in ToSet(good)
    BY <2>1 DEF ToSet
  <2>3. QED
    BY <1>2, <2>1, <2>2 DEF Single
<1>10. ReadAll(seen) = [n \in {good[i].name : i \in DOMAIN good} |->
                          good[SelectLastInSeq(good, LAMBDA d : d.name = n)].value]
  BY <1>1 DEF ReadAll, Readable
<1>11. QED
  BY <1>8, <1>9, <1>10

LEMMA ReadAllNone ==
  ASSUME NEW seen \in Seq(Cookie), NEW key \in CookieName,
         \A d \in ToSet(seen) : Parsed(d.value) # Undefined => d.name # key
  PROVE  key \notin DOMAIN ReadAll(seen)
<1>1. PICK good \in Seq(Cookie) : good = Readable(seen)
  BY OnlyKeeps DEF Readable
<1>2. ToSet(good) = ToSet(seen) \cap {d \in ToSet(seen) : Parsed(d.value) # Undefined}
  BY <1>1, OnlyKeeps DEF Readable
<1>3. \A i \in DOMAIN good : good[i] \in ToSet(good)
  BY DEF ToSet
<1>4. DOMAIN ReadAll(seen) = {good[i].name : i \in DOMAIN good}
  BY <1>1 DEF ReadAll, Readable
<1>5. QED
  BY <1>2, <1>3, <1>4

LEMMA OneAndAll ==
  ASSUME PageFine(page)
  PROVE  AllAgreesWithOne
<1> SUFFICES ASSUME ~HasBadName, NEW key \in CookieName,
                    ~\E i, j \in DOMAIN Seen : i # j /\ Seen[i].name = key /\ Seen[j].name = key
             PROVE  Read(Seen, key) = (IF key \in DOMAIN ReadAll(Seen) THEN ReadAll(Seen)[key] ELSE Undefined)
  BY DEF AllAgreesWithOne
<1>1. PICK seen \in Seq(Cookie) : seen = Seen
  <2>1. page.depth \in Nat /\ page.jar \in Seq(Cookie)
    BY CookiesAssumption DEF PageFine, Pages
  <2>2. QED
    BY <2>1, VisibleIs DEF Seen
<1>2. \A d \in ToSet(seen) : d.name # BadName
  BY <1>1 DEF HasBadName, ToSet
<1>3. CASE \E c \in ToSet(seen) : c.name = key
  <2>1. PICK k \in DOMAIN seen : seen[k].name = key
    BY <1>3 DEF ToSet
  <2>2. PICK c : c = seen[k]
    OBVIOUS
  <2>3. Single(seen, key, c)
    <3>1. \A i \in DOMAIN seen : seen[i].name = key => i = k
      BY <1>1, <2>1
    <3>2. QED
      BY <2>1, <2>2, <3>1 DEF Single, ToSet
  <2>4. Read(seen, key) = Parsed(c.value)
    BY <1>2, <2>3, ReadSingle
  <2>5. CASE Parsed(c.value) = Undefined
    <3>1. \A d \in ToSet(seen) : Parsed(d.value) # Undefined => d.name # key
      BY <2>3, <2>5 DEF Single
    <3>2. key \notin DOMAIN ReadAll(seen)
      BY <3>1, ReadAllNone
    <3>3. QED
      BY <1>1, <2>4, <2>5, <3>2
  <2>6. CASE Parsed(c.value) # Undefined
    <3>1. key \in DOMAIN ReadAll(seen) /\ ReadAll(seen)[key] = c.value
      BY <2>3, <2>6, ReadAllSingle
    <3>2. Parsed(c.value) = c.value
      BY <2>6 DEF Parsed
    <3>3. QED
      BY <1>1, <2>4, <3>1, <3>2
  <2>7. QED
    BY <2>5, <2>6
<1>4. CASE ~\E c \in ToSet(seen) : c.name = key
  <2>1. Read(seen, key) = Undefined
    BY <1>2, <1>4, ReadNone
  <2>2. key \notin DOMAIN ReadAll(seen)
    BY <1>4, ReadAllNone
  <2>3. QED
    BY <1>1, <2>1, <2>2
<1>5. QED
  BY <1>3, <1>4

(* Whatever the cookies and the pages: a page reads what it wrote at its    *)
(* own path, or a name that does not decode stops it; and one cookie reads  *)
(* as it does among all of them, unless two paths have its name.            *)
THEOREM CookiesAreReadThm == Spec => []CookiesAreRead
<1> DEFINE PageInv == page # Off => PageFine(page)
<1>1. Init => PageInv
  BY OwnStart, PageStarts
<1>2. PageInv /\ [Next]_vars => PageInv'
  <2> SUFFICES ASSUME PageInv, [Next]_vars
               PROVE  PageInv'
    OBVIOUS
  <2>1. CASE CookiesNext
    <3>1. page # Off
      BY <2>1 DEF CookiesNext, Write, removeCookie, ClearCookie, ServerSets, Navigate, Reopen
    <3>2. QED
      BY <2>1, <3>1, CookiesStep
  <2>2. CASE UNCHANGED page
    BY <2>2
  <2>3. QED
    BY <2>1, <2>2, OwnSteps
<1>3. PageInv => CookiesAreRead
  BY ReadIsWritten, OneAndAll DEF CookiesAreRead, WriteIsRead, AllAgreesWithOne
<1>4. QED
  BY <1>1, <1>2, <1>3, PTL DEF Spec

-----------------------------------------------------------------------------
(* Forms.                                                                   *)

Names == ToSet(FieldNames)
Pair == [name : Names, value : Texts]
FormValue == [is : {"nothing", "value", "array"}, values : Seq(Texts)]

FormFine(F) ==
  F \in [kind : [Fields -> FieldKinds], values : [Fields -> Seq(Texts)],
         checked : [Fields -> BOOLEAN], disabled : [Fields -> BOOLEAN]]

LEMMA PairsAre ==
  ASSUME NEW F, FormFine(F), NEW i \in Fields
  PROVE  PairsOf(F, i) \in Seq(Pair)
<1>1. FieldNames[i] \in Names
  BY DEF Names, ToSet, Fields
<1>2. F.values[i] \in Seq(Texts)
  BY DEF FormFine
<1>3. PICK v \in Seq(Texts) : v = F.values[i]
  BY <1>2
<1>4. PICK x \in Names : x = FieldNames[i]
  BY <1>1
<1>5. [k \in DOMAIN v |-> [name |-> x, value |-> v[k]]] \in Seq(Pair)
  <2>1. DOMAIN v = 1 .. Len(v) /\ Len(v) \in Nat
    OBVIOUS
  <2>2. \A k \in DOMAIN v : [name |-> x, value |-> v[k]] \in Pair
    BY DEF Pair
  <2>3. [k \in 1 .. Len(v) |-> [name |-> x, value |-> v[k]]] \in [1 .. Len(v) -> Pair]
    BY <2>1, <2>2
  <2>4. QED
    BY <2>1, <2>3
<1>6. <<>> \in Seq(Pair)
  OBVIOUS
<1>7. QED
  BY <1>3, <1>4, <1>5, <1>6 DEF PairsOf

LEMMA SerializedPairs ==
  ASSUME NEW F, FormFine(F)
  PROVE  serializeArray(F) \in Seq(Pair)
<1> DEFINE n == Len(FieldNames)
           turn == [p \in (1 .. n) \X Seq(Pair) |-> p[2] \o PairsOf(F, p[1])]
           Rec(g) == [i \in 0 .. n |-> IF i = 0 THEN <<>> ELSE g[i - 1] \o PairsOf(F, i)]
           upTo == CHOOSE g : g = Rec(g)
<1>1. n \in Nat /\ Fields = 1 .. n /\ <<>> \in Seq(Pair)
  BY FormsAssumption DEF Fields
<1>2. serializeArray(F) = upTo[n]
  BY Zenon DEF serializeArray
<1>3. turn \in [(1 .. n) \X Seq(Pair) -> Seq(Pair)]
  <2>1. \A i \in 1 .. n : \A t \in Seq(Pair) : t \o PairsOf(F, i) \in Seq(Pair)
    BY <1>1, PairsAre
  <2>2. QED
    BY <2>1
<1>4. \A i \in 1 .. n, t \in Seq(Pair) : turn[<<i, t>>] = t \o PairsOf(F, i)
  OBVIOUS
<1> HIDE DEF turn
<1>5. PICK at \in [0 .. n -> Seq(Pair)] : Loops(at, n, <<>>, turn)
  BY <1>1, <1>3, LoopExists, Zenon
<1> HIDE DEF n
<1>6. ASSUME NEW i \in 1 .. n
      PROVE  at[i] = at[i - 1] \o PairsOf(F, i)
  <2>1. at[i - 1] \in Seq(Pair)
    BY <1>1, SMT
  <2>2. QED
    BY <1>4, <1>5, <2>1 DEF Loops
<1>7. at = Rec(at)
  <2>1. \A i \in 0 .. n : i # 0 => i \in 1 .. n
    BY <1>1, SMT
  <2>2. \A i \in 0 .. n : at[i] = Rec(at)[i]
    BY <1>5, <1>6, <2>1 DEF Loops
  <2>3. QED
    BY <2>2
<1>8. upTo = Rec(upTo)
  BY <1>7, Zenon
<1> HIDE DEF upTo
<1>9. 0 \in 0 .. n /\ n \in 0 .. n /\ \A i \in 1 .. n : i \in 0 .. n /\ i # 0
  BY <1>1, SMT
<1>10. upTo[0] = <<>> /\ \A i \in 1 .. n : upTo[i] = upTo[i - 1] \o PairsOf(F, i)
  BY <1>8, <1>9
<1> DEFINE P == {i \in 0 .. n : upTo[i] \in Seq(Pair)}
<1>11. 0 \in P
  BY <1>1, <1>9, <1>10
<1>12. ASSUME NEW k \in 0 .. (n - 1), k \in P
       PROVE  k + 1 \in P
  <2>1. k + 1 \in 1 .. n /\ k + 1 \in 0 .. n /\ k + 1 - 1 = k
    BY <1>1, <1>12, SMT
  <2>2. PICK j \in 1 .. n : j = k + 1 /\ j - 1 = k
    BY <2>1
  <2>3. upTo[k] \in Seq(Pair) /\ PairsOf(F, j) \in Seq(Pair)
    BY <1>1, <1>12, PairsAre
  <2>4. upTo[j] = upTo[j - 1] \o PairsOf(F, j)
    BY <1>10
  <2>5. upTo[j] \in Seq(Pair)
    BY <2>2, <2>3, <2>4
  <2>6. QED
    BY <2>1, <2>2, <2>5
<1>13. 0 .. n \subseteq P
  <2> HIDE DEF P
  <2>1. QED
    BY <1>1, <1>11, <1>12, UpTo, Zenon
<1>14. QED
  BY <1>2, <1>9, <1>13

(* What serializeObject's loop has after each pair of the list.             *)
Gathers(after, list) ==
  /\ after[0] = [n \in Names |-> Nothing]
  /\ \A k \in 1 .. Len(list) :
       after[k] = [after[k - 1] EXCEPT ![list[k].name] = PutValue(@, list[k].value)]

LEMMA PutValueType ==
  ASSUME NEW v \in FormValue, NEW x \in Texts
  PROVE  PutValue(v, x) \in FormValue
<1>1. v.values \in Seq(Texts)
  BY DEF FormValue
<1>2. Append(v.values, x) \in Seq(Texts) /\ <<x>> \in Seq(Texts)
  BY <1>1
<1>3. PICK more : more = Append(v.values, x)
  OBVIOUS
<1>4. PICK one : one = <<x>>
  OBVIOUS
<1>5. [is |-> "array", values |-> more] \in FormValue /\ [is |-> "value", values |-> one] \in FormValue
  BY <1>2, <1>3, <1>4 DEF FormValue
<1>6. PutValue(v, x) \in {[is |-> "array", values |-> more], [is |-> "value", values |-> one]}
  BY <1>3, <1>4 DEF PutValue
<1>7. QED
  BY <1>5, <1>6

LEMMA SerializedObject ==
  ASSUME NEW F, FormFine(F)
  PROVE  \E list \in Seq(Pair) : \E after \in [0 .. Len(list) -> [Names -> FormValue]] :
            /\ list = serializeArray(F) /\ Gathers(after, list)
            /\ serializeObject(F) = after[Len(list)]
<1>1. PICK list \in Seq(Pair) : list = serializeArray(F)
  BY SerializedPairs
<1>2. PICK n \in Nat : n = Len(list)
  OBVIOUS
<1>3. PICK O : O = [Names -> FormValue]
  OBVIOUS
<1> DEFINE Put1(k, o) == [o EXCEPT ![list[k].name] = PutValue(@, list[k].value)]
           turn == [p \in (1 .. n) \X O |-> Put1(p[1], p[2])]
           base == [x \in Names |-> Nothing]
           Rec(g) == [k \in 0 .. n |-> IF k = 0 THEN base ELSE Put1(k, g[k - 1])]
           after == CHOOSE g : g = Rec(g)
<1>4. serializeObject(F) = after[n]
  BY <1>1, <1>2, Zenon DEF serializeObject, Names
<1>5. base \in O
  <2>1. Nothing \in FormValue
    <3>1. PICK none \in Seq(Texts) : none = <<>>
      <4>1. <<>> \in Seq(Texts)
        OBVIOUS
      <4>2. QED
        BY <4>1
    <3>2. [is |-> "nothing", values |-> none] \in FormValue
      BY DEF FormValue
    <3>3. QED
      BY <3>1, <3>2 DEF Nothing
  <2>2. QED
    BY <1>3, <2>1
<1>6. \A k \in 1 .. n : list[k] \in Pair
  BY <1>2
<1>7. ASSUME NEW k \in 1 .. n, NEW o \in O
      PROVE  Put1(k, o) \in O
  <2>1. list[k].name \in Names /\ list[k].value \in Texts
    BY <1>6 DEF Pair
  <2>2. PutValue(o[list[k].name], list[k].value) \in FormValue
    BY <1>3, <2>1, PutValueType
  <2>3. QED
    BY <1>3, <2>1, <2>2
<1>8. turn \in [(1 .. n) \X O -> O]
  <2> HIDE DEF Put1
  <2>1. QED
    BY <1>7
<1>9. \A k \in 1 .. n, o \in O : turn[<<k, o>>] = Put1(k, o)
  <2> HIDE DEF Put1
  <2>1. QED
    OBVIOUS
<1> HIDE DEF turn, base, Put1
<1>10. PICK at \in [0 .. n -> O] : Loops(at, n, base, turn)
  BY <1>5, <1>8, LoopExists, Zenon
<1>11. ASSUME NEW k \in 1 .. n
       PROVE  at[k] = Put1(k, at[k - 1])
  <2>1. at[k - 1] \in O
    BY SMT
  <2>2. QED
    BY <1>9, <1>10, <2>1 DEF Loops
<1>12. at = Rec(at)
  <2>1. \A k \in 0 .. n : k # 0 => k \in 1 .. n
    BY SMT
  <2>2. \A k \in 0 .. n : at[k] = Rec(at)[k]
    BY <1>10, <1>11, <2>1 DEF Loops
  <2>3. QED
    BY <2>2
<1>13. after = Rec(after)
  BY <1>12, Zenon
<1> HIDE DEF after
<1>14. 0 \in 0 .. n /\ n \in 0 .. n /\ \A k \in 1 .. n : k \in 0 .. n /\ k # 0
  BY SMT
<1>15. after[0] = base /\ \A k \in 1 .. n : after[k] = Put1(k, after[k - 1])
  BY <1>13, <1>14
<1>16. DOMAIN after = 0 .. n
  BY <1>13
<1> DEFINE P == {k \in 0 .. n : after[k] \in O}
<1>17. 0 \in P
  BY <1>5, <1>14, <1>15
<1>18. ASSUME NEW k \in 0 .. (n - 1), k \in P
       PROVE  k + 1 \in P
  <2>1. k + 1 \in 1 .. n /\ k + 1 \in 0 .. n /\ k + 1 - 1 = k
    BY <1>18, SMT
  <2>2. PICK j \in 1 .. n : j = k + 1 /\ j - 1 = k
    BY <2>1
  <2>3. PICK o \in O : o = after[k]
    BY <1>18
  <2>4. Put1(j, o) \in O /\ after[j] = Put1(j, o)
    BY <1>7, <1>15, <2>2, <2>3
  <2>5. QED
    BY <2>1, <2>2, <2>4
<1>19. 0 .. n \subseteq P
  <2> HIDE DEF P
  <2>1. QED
    BY <1>17, <1>18, UpTo, Zenon
<1>20. after \in [0 .. n -> O]
  <2>1. after = [k \in 0 .. n |-> after[k]]
    BY <1>13, <1>16
  <2>2. QED
    BY <1>19, <2>1
<1>21. Gathers(after, list)
  BY <1>2, <1>15 DEF Gathers, base, Put1
<1>22. QED
  BY <1>1, <1>2, <1>3, <1>4, <1>20, <1>21

(* The values of one name: those from the first that is not empty on.       *)
StartsAt(a, m) ==
  /\ m \in 1 .. Len(a)
  /\ \A j \in 1 .. Len(a) : j < m => a[j].value = NoText
  /\ a[m].value # NoText \/ m = Len(a)

KeepsFrom(v, a, m) ==
  /\ StartsAt(a, m)
  /\ Len(v.values) = Len(a) - m + 1
  /\ \A j \in 1 .. Len(v.values) : v.values[j] = a[m + j - 1].value
  /\ Truthy(v) <=> a[m].value # NoText

Keeps(v, a) == IF Len(a) = 0 THEN v = Nothing ELSE \E m \in 1 .. Len(a) : KeepsFrom(v, a, m)

LEMMA PutMore ==
  ASSUME NEW v \in FormValue, NEW a \in Seq(Pair), NEW p \in Pair, Keeps(v, a), Truthy(v)
  PROVE  Keeps(PutValue(v, p.value), Append(a, p))
<1>1. Len(a) # 0
  <2>1. ~Truthy(Nothing)
    BY DEF Nothing, Truthy
  <2>2. QED
    BY <2>1 DEF Keeps
<1>2. PICK m \in 1 .. Len(a) : KeepsFrom(v, a, m)
  BY <1>1 DEF Keeps
<1>3. PICK s \in Seq(Texts) : s = v.values
  BY DEF FormValue
<1>4. PICK x \in Texts : x = p.value
  BY DEF Pair
<1>5. PICK w \in FormValue : w = PutValue(v, x)
  BY <1>4, PutValueType
<1>6. PICK b \in Seq(Pair) : b = Append(a, p)
  <2>1. Append(a, p) \in Seq(Pair)
    OBVIOUS
  <2>2. QED
    BY <2>1
<1>7. w.is = "array" /\ w.values = Append(s, x)
  BY <1>3, <1>5 DEF PutValue
<1>8. /\ Len(s) \in Nat /\ Len(a) \in Nat /\ Len(b) = Len(a) + 1 /\ b[Len(a) + 1] = p
      /\ \A j \in 1 .. Len(a) : b[j] = a[j]
      /\ Len(w.values) = Len(s) + 1 /\ w.values[Len(s) + 1] = x
      /\ \A j \in 1 .. Len(s) : w.values[j] = s[j]
  BY <1>6, <1>7
<1>9. a[m].value # NoText /\ Len(s) = Len(a) - m + 1 /\ \A j \in 1 .. Len(s) : s[j] = a[m + j - 1].value
  BY <1>2, <1>3 DEF KeepsFrom
<1>10. StartsAt(b, m)
  <2>1. \A j \in 1 .. Len(a) : j < m => a[j].value = NoText
    BY <1>2 DEF KeepsFrom, StartsAt
  <2>2. m \in 1 .. Len(b) /\ b[m].value # NoText
    BY <1>8, <1>9
  <2>3. ASSUME NEW j \in 1 .. Len(b), j < m
        PROVE  b[j].value = NoText
    <3>1. j \in 1 .. Len(a)
      BY <1>8, <2>3
    <3>2. QED
      BY <1>8, <2>1, <2>3, <3>1
  <2>4. QED
    BY <2>2, <2>3 DEF StartsAt
<1>11. Len(w.values) = Len(b) - m + 1
  BY <1>8, <1>9
<1>12. ASSUME NEW j \in 1 .. Len(w.values)
       PROVE  w.values[j] = b[m + j - 1].value
  <2>1. CASE j \in 1 .. Len(s)
    <3>1. m + j - 1 \in 1 .. Len(a)
      BY <1>8, <1>9, <2>1
    <3>2. QED
      BY <1>8, <1>9, <2>1, <3>1
  <2>2. CASE j \notin 1 .. Len(s)
    <3>1. m \in Nat /\ j \in 1 .. (Len(s) + 1)
      BY <1>2, <1>8, <1>12
    <3>2. j = Len(s) + 1
      BY <1>8, <2>2, <3>1
    <3>3. m + j - 1 = Len(a) + 1
      BY <1>8, <1>9, <3>1, <3>2
    <3>4. QED
      BY <1>4, <1>8, <3>2, <3>3
  <2>3. QED
    BY <2>1, <2>2
<1>13. Truthy(w) /\ b[m].value # NoText
  BY <1>7, <1>8, <1>9 DEF Truthy
<1>14. m \in 1 .. Len(b) /\ Len(b) # 0
  BY <1>8
<1>15. Keeps(w, b)
  BY <1>10, <1>11, <1>12, <1>13, <1>14 DEF Keeps, KeepsFrom
<1>16. QED
  BY <1>4, <1>5, <1>6, <1>15

LEMMA PutFirst ==
  ASSUME NEW v \in FormValue, NEW a \in Seq(Pair), NEW p \in Pair, Keeps(v, a), ~Truthy(v)
  PROVE  Keeps(PutValue(v, p.value), Append(a, p))
<1>1. ASSUME NEW j \in 1 .. Len(a)
      PROVE  a[j].value = NoText
  <2>1. Len(a) # 0
    BY <1>1
  <2>2. PICK m \in 1 .. Len(a) : KeepsFrom(v, a, m)
    BY <2>1 DEF Keeps
  <2>3. a[m].value = NoText /\ m = Len(a)
    BY <2>2 DEF KeepsFrom, StartsAt
  <2>4. j < m \/ j = m
    BY <1>1, <2>3
  <2>5. QED
    BY <2>2, <2>3, <2>4 DEF KeepsFrom, StartsAt
<1>2. PICK x \in Texts : x = p.value
  BY DEF Pair
<1>3. PICK w : w = PutValue(v, x)
  OBVIOUS
<1>4. PICK b \in Seq(Pair) : b = Append(a, p)
  <2>1. Append(a, p) \in Seq(Pair)
    OBVIOUS
  <2>2. QED
    BY <2>1
<1>5. PICK s : s = <<x>>
  OBVIOUS
<1>6. w.is = "value" /\ w.values = s /\ Len(s) = 1 /\ s[1] = x
  BY <1>3, <1>5 DEF PutValue
<1>7. /\ Len(a) \in Nat /\ Len(b) = Len(a) + 1 /\ b[Len(a) + 1] = p
      /\ \A j \in 1 .. Len(a) : b[j] = a[j]
  BY <1>4
<1>8. PICK m : m = Len(b)
  OBVIOUS
<1>9. b[m].value = x /\ m \in 1 .. Len(b) /\ m = Len(a) + 1
  BY <1>2, <1>7, <1>8
<1>10. StartsAt(b, m)
  <2>1. ASSUME NEW j \in 1 .. Len(b), j < m
        PROVE  b[j].value = NoText
    <3>1. j \in 1 .. Len(a)
      BY <1>7, <1>8, <2>1
    <3>2. QED
      BY <1>1, <1>7, <3>1
  <2>2. QED
    BY <1>8, <1>9, <2>1 DEF StartsAt
<1>11. Len(w.values) = Len(b) - m + 1
  BY <1>6, <1>7, <1>8
<1>12. ASSUME NEW j \in 1 .. Len(w.values)
       PROVE  w.values[j] = b[m + j - 1].value
  <2>1. j = 1 /\ m + j - 1 = m
    BY <1>6, <1>9, <1>7
  <2>2. QED
    BY <1>6, <1>9, <2>1
<1>13. Truthy(w) <=> b[m].value # NoText
  <2>1. s = <<NoText>> <=> x = NoText
    BY <1>5
  <2>2. QED
    BY <1>6, <1>9, <2>1 DEF Truthy
<1>14. Keeps(w, b)
  <2>1. Len(b) # 0
    BY <1>7
  <2>2. KeepsFrom(w, b, m)
    BY <1>10, <1>11, <1>12, <1>13 DEF KeepsFrom
  <2>3. QED
    BY <1>9, <2>1, <2>2 DEF Keeps
<1>15. QED
  BY <1>2, <1>3, <1>4, <1>14

LEMMA KeptAlong ==
  ASSUME NEW list \in Seq(Pair), NEW after \in [0 .. Len(list) -> [Names -> FormValue]],
         Gathers(after, list), NEW n \in Names,
         NEW up \in [0 .. Len(list) -> Seq(Pair)], Picks(up, list, [name : {n}, value : Texts])
  PROVE  Keeps(after[Len(list)][n], up[Len(list)])
<1> DEFINE P == {k \in 0 .. Len(list) : Keeps(after[k][n], up[k])}
<1>1. Len(list) \in Nat /\ 0 \in 0 .. Len(list)
  OBVIOUS
<1>2. 0 \in P
  <2>1. up[0] = <<>> /\ after[0][n] = Nothing
    BY DEF Picks, Gathers
  <2>2. QED
    BY <1>1, <2>1 DEF Keeps
<1>3. ASSUME NEW k \in 0 .. (Len(list) - 1), k \in P
      PROVE  k + 1 \in P
  <2>1. PICK j \in 1 .. Len(list) : j = k + 1 /\ j - 1 = k
    BY <1>1, <1>3
  <2>2. PICK p \in Pair : p = list[j]
    OBVIOUS
  <2>3. PICK o \in [Names -> FormValue] : o = after[k]
    BY <1>3
  <2>4. PICK a \in Seq(Pair) : a = up[k]
    BY <1>3
  <2>5. Keeps(o[n], a) /\ o[n] \in FormValue
    BY <1>3, <2>3, <2>4
  <2>6. after[j] = [o EXCEPT ![p.name] = PutValue(@, p.value)]
    BY <2>1, <2>2, <2>3 DEF Gathers
  <2>7. up[j] = IF p \in [name : {n}, value : Texts] THEN Append(a, p) ELSE a
    BY <2>1, <2>2, <2>4 DEF Picks
  <2>8. CASE p.name = n
    <3>1. p \in [name : {n}, value : Texts]
      BY <2>8 DEF Pair
    <3>2. after[j][n] = PutValue(o[n], p.value) /\ up[j] = Append(a, p)
      BY <2>6, <2>7, <2>8, <3>1
    <3>3. Keeps(PutValue(o[n], p.value), Append(a, p))
      BY <2>5, PutMore, PutFirst
    <3>4. Keeps(after[j][n], up[j])
      BY <3>2, <3>3
    <3>5. QED
      BY <1>1, <2>1, <3>4
  <2>9. CASE p.name # n
    <3>1. p \notin [name : {n}, value : Texts]
      BY <2>9
    <3>2. after[j][n] = o[n] /\ up[j] = a
      BY <2>6, <2>7, <2>9, <3>1
    <3>3. Keeps(after[j][n], up[j])
      BY <2>5, <3>2
    <3>4. QED
      BY <1>1, <2>1, <3>3
  <2>10. QED
    BY <2>8, <2>9
<1>4. 0 .. Len(list) \subseteq P
  <2> HIDE DEF P
  <2>1. QED
    BY <1>1, <1>2, <1>3, UpTo, Zenon
<1>5. QED
  BY <1>1, <1>4

Gathered(v, all) ==
  LET full == {k \in DOMAIN all : all[k].value # NoText}
      kept == IF all = <<>> THEN <<>>
              ELSE SubSeq(all, IF full = {} THEN Len(all) ELSE Min(full), Len(all))
  IN v.values = [k \in DOMAIN kept |-> kept[k].value]

LEMMA KeptValues ==
  ASSUME NEW all \in Seq(Pair), NEW v \in FormValue, Keeps(v, all)
  PROVE  Gathered(v, all)
<1>a. PICK full : full = {k \in DOMAIN all : all[k].value # NoText}
  OBVIOUS
<1>b. PICK kept : kept = (IF all = <<>> THEN <<>>
                          ELSE SubSeq(all, IF full = {} THEN Len(all) ELSE Min(full), Len(all)))
  OBVIOUS
<1> SUFFICES v.values = [k \in DOMAIN kept |-> kept[k].value]
  BY <1>a, <1>b DEF Gathered
<1> USE <1>a, <1>b
<1>1. Len(all) \in Nat /\ DOMAIN all = 1 .. Len(all)
  OBVIOUS
<1>2. v.values \in Seq(Texts)
  BY DEF FormValue
<1>3. CASE Len(all) = 0
  <2>1. all = <<>>
    BY <1>3
  <2>2. kept = <<>> /\ v.values = <<>>
    BY <1>3, <2>1 DEF Keeps, Nothing
  <2>3. [k \in DOMAIN <<>> |-> <<>>[k].value] = <<>>
    OBVIOUS
  <2>4. QED
    BY <2>2, <2>3
<1>4. CASE Len(all) # 0
  <2>1. PICK m \in 1 .. Len(all) : KeepsFrom(v, all, m)
    BY <1>4 DEF Keeps
  <2>2. PICK s \in Seq(Texts) : s = v.values
    BY <1>2
  <2>3. Len(s) = Len(all) - m + 1 /\ \A j \in 1 .. Len(s) : s[j] = all[m + j - 1].value
    BY <2>1, <2>2 DEF KeepsFrom
  <2>4. (IF full = {} THEN Len(all) ELSE Min(full)) = m
    <3>1. /\ \A j \in 1 .. Len(all) : j < m => j \notin full
          /\ m \in full \/ m = Len(all)
      BY <1>1, <2>1 DEF KeepsFrom, StartsAt
    <3>2. CASE full = {}
      BY <3>1, <3>2
    <3>3. CASE full # {}
      <4>1. m \in full
        <5> SUFFICES ASSUME m = Len(all), m \notin full
                     PROVE  FALSE
          BY <3>1
        <5>1. PICK j \in full : j \in 1 .. Len(all)
          BY <1>1, <3>3
        <5>2. j < m \/ j = m
          BY <1>1, <5>1
        <5>3. QED
          BY <3>1, <5>1, <5>2
      <4>2. Min(full) \in full /\ Min(full) <= m
        <5>1. full \in SUBSET (1 .. Len(all))
          BY <1>1
        <5>2. QED
          BY <1>1, <3>3, <4>1, <5>1, FirstPlace
      <4>3. PICK f : f = Min(full)
        OBVIOUS
      <4>4. f \in 1 .. Len(all) /\ ~(f < m) /\ f <= m
        BY <1>1, <3>1, <4>2, <4>3
      <4>5. f = m
        BY <1>1, <4>4, <2>1
      <4>6. QED
        BY <3>3, <4>3, <4>5
    <3>4. QED
      BY <3>2, <3>3
  <2>5. kept = SubSeq(all, m, Len(all))
    <3>1. all # <<>>
      BY <1>4
    <3>2. QED
      BY <2>4, <3>1
  <2>6. DOMAIN kept = 1 .. Len(s) /\ \A j \in 1 .. Len(s) : kept[j] = all[m + j - 1]
    <3>1. m \in Nat /\ m >= 1 /\ m <= Len(all)
      BY <1>1, <2>1
    <3>2. /\ SubSeq(all, m, Len(all)) = [i \in 1 .. (Len(all) - m + 1) |-> all[i + m - 1]]
      BY <1>1, <3>1
    <3>3. \A j \in 1 .. Len(s) : j + m - 1 = m + j - 1
      BY <1>1, <2>3, <3>1
    <3>4. QED
      BY <2>3, <2>5, <3>2, <3>3
  <2>7. s = [k \in 1 .. Len(s) |-> s[k]]
    OBVIOUS
  <2>8. \A k \in 1 .. Len(s) : s[k] = kept[k].value
    BY <2>3, <2>6
  <2>9. QED
    BY <2>2, <2>6, <2>7, <2>8
<1>5. QED
  BY <1>3, <1>4

LEMMA FormKeeps == ASSUME FormFine(form) PROVE SerializedKeeps
<1> SUFFICES ASSUME NEW n \in Names
             PROVE  Gathered(serializeObject(form)[n], Only(serializeArray(form), [name : {n}, value : Texts]))
  BY DEF SerializedKeeps, Names, Gathered
<1>0. PICK list \in Seq(Pair) : \E after \in [0 .. Len(list) -> [Names -> FormValue]] :
         /\ list = serializeArray(form) /\ Gathers(after, list)
         /\ serializeObject(form) = after[Len(list)]
  BY SerializedObject
<1>1. PICK after \in [0 .. Len(list) -> [Names -> FormValue]] :
         /\ list = serializeArray(form) /\ Gathers(after, list)
         /\ serializeObject(form) = after[Len(list)]
  BY <1>0
<1>2. PICK up \in [0 .. Len(list) -> Seq(Pair)] :
         /\ Picks(up, list, [name : {n}, value : Texts])
         /\ Only(list, [name : {n}, value : Texts]) = up[Len(list)]
  BY OnlyIs, Zenon
<1>3. Len(list) \in Nat /\ Len(list) \in 0 .. Len(list)
  OBVIOUS
<1>4. PICK all \in Seq(Pair) : all = up[Len(list)]
  BY <1>3
<1>5. PICK v \in FormValue : v = after[Len(list)][n]
  BY <1>3
<1>6. Keeps(v, all)
  BY <1>1, <1>2, <1>4, <1>5, KeptAlong
<1>7. Gathered(v, all)
  BY <1>6, KeptValues
<1>8. QED
  BY <1>1, <1>2, <1>4, <1>5, <1>7

LEMMA FormStep == ASSUME FormFine(form), FormNext PROVE FormFine(form')
<1>1. PICK i \in Fields :
         \/ \E values \in UNION {[1 .. k -> Texts] : k \in 0 .. 2} : Fill(i, values)
         \/ TickField(i) \/ Disable(i)
  BY DEF FormNext
<1>2. CASE \E values \in UNION {[1 .. k -> Texts] : k \in 0 .. 2} : Fill(i, values)
  <2>1. PICK k \in 0 .. 2 : \E values \in [1 .. k -> Texts] : Fill(i, values)
    BY <1>2
  <2>2. PICK values \in [1 .. k -> Texts] : Fill(i, values)
    BY <2>1
  <2>3. values \in Seq(Texts)
    BY <2>1
  <2>4. QED
    BY <2>2, <2>3 DEF Fill, FormFine
<1>3. CASE TickField(i)
  BY <1>3 DEF TickField, FormFine
<1>4. CASE Disable(i)
  BY <1>4 DEF Disable, FormFine
<1>5. QED
  BY <1>1, <1>2, <1>3, <1>4

LEMMA FormStarts == ASSUME FormInit PROVE FormFine(form)
<1>1. PICK one \in Seq(Texts) : one = <<NoText>>
  <2>1. <<NoText>> \in Seq(Texts)
    BY FormsAssumption
  <2>2. QED
    BY <2>1
<1>2. QED
  BY <1>1 DEF FormInit, FormFine

(* Whatever the form and what was filled in, ticked and disabled: of each   *)
(* name serializeObject keeps the values from the first that is not empty   *)
(* on, in the order of the fields.                                          *)
THEOREM SerializedKeepsThm == Spec => []SerializedKeeps
<1> DEFINE FormInv == form # Off => FormFine(form)
<1>1. Init => FormInv
  BY OwnStart, FormStarts
<1>2. FormInv /\ [Next]_vars => FormInv'
  <2> SUFFICES ASSUME FormInv, [Next]_vars
               PROVE  FormInv'
    OBVIOUS
  <2>1. CASE FormNext
    <3>1. form # Off
      BY <2>1 DEF FormNext, Fill, TickField, Disable
    <3>2. QED
      BY <2>1, <3>1, FormStep
  <2>2. CASE UNCHANGED form
    BY <2>2
  <2>3. QED
    BY <2>1, <2>2, OwnSteps
<1>3. FormInv => SerializedKeeps
  BY FormKeeps DEF SerializedKeeps
<1>4. QED
  BY <1>1, <1>2, <1>3, PTL DEF Spec

-----------------------------------------------------------------------------
(* The "more" menu.                                                         *)

(* A stretch of a list.                                                     *)
PartOf(s, lo, len) == [j \in 1 .. len |-> s[lo + j]]

LEMMA PartGrows ==
  ASSUME NEW X, NEW s \in Seq(X), NEW lo \in Nat, NEW len \in Nat, lo + len < Len(s)
  PROVE  /\ PartOf(s, lo, len) \in Seq(X)
         /\ Append(PartOf(s, lo, len), s[lo + len + 1]) = PartOf(s, lo, len + 1)
<1>1. PICK p : p = PartOf(s, lo, len)
  OBVIOUS
<1>2. \A j \in 1 .. len : lo + j \in 1 .. Len(s)
  BY SMT
<1>3. p = [j \in 1 .. len |-> s[lo + j]] /\ \A j \in 1 .. len : s[lo + j] \in X
  BY <1>1, <1>2 DEF PartOf
<1>4. p \in [1 .. len -> X]
  BY <1>3
<1>5. p \in Seq(X) /\ Len(p) = len
  BY <1>3, <1>4
<1>6. PICK q : q = Append(p, s[lo + len + 1])
  OBVIOUS
<1>7. s[lo + len + 1] \in X
  BY SMT
<1>8. q \in Seq(X) /\ Len(q) = len + 1 /\ q[len + 1] = s[lo + len + 1] /\ \A j \in 1 .. len : q[j] = s[lo + j]
  BY <1>3, <1>5, <1>6, <1>7
<1>9. q = [j \in 1 .. (len + 1) |-> q[j]]
  BY <1>8
<1>10. \A j \in 1 .. (len + 1) : q[j] = s[lo + j]
  <2>1. \A j \in 1 .. (len + 1) : j \in 1 .. len \/ (j = len + 1 /\ lo + j = lo + len + 1)
    BY SMT
  <2>2. QED
    BY <1>8, <2>1
<1>11. q = PartOf(s, lo, len + 1)
  BY <1>9, <1>10 DEF PartOf
<1>12. QED
  BY <1>1, <1>5, <1>6, <1>11

(* Only picks a stretch when just its places are in the set.                *)
OnlyPart(s, S, lo, hi) == Only(s, S) = PartOf(s, lo, hi - lo)

LEMMA OnlyStretch ==
  ASSUME NEW X, NEW s \in Seq(X), NEW S, NEW lo \in Nat, NEW hi \in Nat,
         lo <= hi, hi <= Len(s), \A i \in 1 .. Len(s) : s[i] \in S <=> lo < i /\ i <= hi
  PROVE  OnlyPart(s, S, lo, hi)
<1>1. PICK up \in [0 .. Len(s) -> Seq(X)] : Picks(up, s, S) /\ Only(s, S) = up[Len(s)]
  BY OnlyIs, Zenon
<1>2. PICK n \in Nat : n = Len(s)
  OBVIOUS
<1> DEFINE size(k) == IF k <= lo THEN 0 ELSE IF k <= hi THEN k - lo ELSE hi - lo
           P == {k \in 0 .. n : up[k] = PartOf(s, lo, size(k))}
<1>3. 0 \in P
  <2>1. up[0] = <<>> /\ size(0) = 0 /\ 0 \in 0 .. n
    BY <1>1, SMT DEF Picks
  <2>2. PartOf(s, lo, 0) = <<>>
    BY DEF PartOf
  <2>3. QED
    BY <2>1, <2>2
<1>4. ASSUME NEW k \in 0 .. (n - 1), k \in P
      PROVE  k + 1 \in P
  <2>1. PICK j \in 1 .. n : j = k + 1 /\ j - 1 = k
    BY <1>2, <1>4
  <2>2. up[j] = IF s[j] \in S THEN Append(up[k], s[j]) ELSE up[k]
    BY <1>1, <1>2, <2>1 DEF Picks
  <2>3. up[k] = PartOf(s, lo, size(k))
    BY <1>4
  <2>4. CASE s[j] \in S
    <3>1. lo < j /\ j <= hi
      BY <1>2, <2>1, <2>4
    <3>2. PICK len \in Nat : len = k - lo
      BY <2>1, <3>1
    <3>3. size(k) = len /\ size(j) = len + 1 /\ lo + len + 1 = j /\ lo + len < Len(s)
      BY <1>2, <2>1, <3>1, <3>2, SMT
    <3>4. Append(PartOf(s, lo, len), s[lo + len + 1]) = PartOf(s, lo, len + 1)
      BY <3>3, PartGrows
    <3>5. up[j] = PartOf(s, lo, size(j))
      BY <2>2, <2>3, <2>4, <3>3, <3>4
    <3>6. QED
      BY <2>1, <3>5
  <2>5. CASE s[j] \notin S
    <3>1. ~(lo < j /\ j <= hi)
      BY <1>2, <2>1, <2>5
    <3>2. size(j) = size(k)
      BY <1>2, <2>1, <3>1, SMT
    <3>3. up[j] = PartOf(s, lo, size(j))
      BY <2>2, <2>3, <2>5, <3>2
    <3>4. QED
      BY <2>1, <3>3
  <2>6. QED
    BY <2>4, <2>5
<1>5. 0 .. n \subseteq P
  <2> HIDE DEF P
  <2>1. QED
    BY <1>2, <1>3, <1>4, UpTo, Zenon
<1>6. size(n) = hi - lo
  BY <1>2, SMT
<1>7. up[n] = PartOf(s, lo, hi - lo)
  BY <1>5, <1>6
<1>8. QED
  BY <1>1, <1>2, <1>7 DEF OnlyPart

MenuSet == ToSet(Menus)
MenuCount == Len(Menus)
LeftMenus(n) == {Menus[i] : i \in 1 .. n}
RightMenus(n) == PartOf(Menus, n, MenuCount - n)

(* The widths of the first menus together.                                  *)
Widths(w) ==
  /\ w \in [0 .. MenuCount -> Nat] /\ w[0] = 0
  /\ \A i \in 1 .. MenuCount : w[i] = w[i - 1] + MenuWidth[Menus[i]]

Wide == CHOOSE w : Widths(w)

LEMMA MenusAre ==
  /\ MenuCount \in Nat /\ Menus \in Seq(MenuSet) /\ DOMAIN Menus = 1 .. MenuCount
  /\ \A i \in 1 .. MenuCount : Menus[i] \in MenuSet /\ MenuWidth[Menus[i]] \in Nat
  /\ \A i, j \in 1 .. MenuCount : Menus[i] = Menus[j] => i = j
<1>1. MenuCount \in Nat /\ Menus \in Seq(MenuSet) /\ DOMAIN Menus = 1 .. MenuCount
  BY MoreMenuAssumption DEF MenuCount, MenuSet
<1>2. \A i \in 1 .. MenuCount : Menus[i] \in MenuSet
  BY <1>1 DEF MenuSet, ToSet
<1>3. \A m \in MenuSet : MenuWidth[m] \in Nat
  BY MoreMenuAssumption DEF MenuSet
<1>4. QED
  BY <1>1, <1>2, <1>3, MoreMenuAssumption

LEMMA WideIs == Widths(Wide)
<1>1. PICK n \in Nat : n = MenuCount
  BY MenusAre
<1> DEFINE turn == [p \in (1 .. n) \X Nat |-> p[2] + MenuWidth[Menus[p[1]]]]
<1>2. turn \in [(1 .. n) \X Nat -> Nat]
  <2>1. \A i \in 1 .. n, t \in Nat : t + MenuWidth[Menus[i]] \in Nat
    BY <1>1, MenusAre
  <2>2. QED
    BY <2>1
<1>3. \A i \in 1 .. n, t \in Nat : turn[<<i, t>>] = t + MenuWidth[Menus[i]]
  OBVIOUS
<1> HIDE DEF turn
<1>4. PICK at \in [0 .. n -> Nat] : Loops(at, n, 0, turn)
  BY <1>2, LoopExists
<1>5. ASSUME NEW i \in 1 .. n
      PROVE  at[i] = at[i - 1] + MenuWidth[Menus[i]]
  <2>1. at[i - 1] \in Nat
    BY SMT
  <2>2. QED
    BY <1>3, <1>4, <2>1 DEF Loops
<1>6. Widths(at)
  BY <1>1, <1>4, <1>5 DEF Widths, Loops
<1>7. QED
  BY <1>6, Zenon DEF Wide

(* The bar with the first n menus shown and the others under "more".        *)
BarAt(r, n, b, s) ==
  [room |-> r, shown |-> LeftMenus(n), more |-> RightMenus(n), button |-> b, stale |-> s]

NavIs(B, n) == NavMenuWidth(B) = Wide[n]

LEMMA NavWidth ==
  ASSUME NEW B, NEW n \in 0 .. MenuCount, B.shown = LeftMenus(n)
  PROVE  NavIs(B, n)
<1>1. PICK N \in Nat : N = MenuCount
  BY MenusAre
<1>2. PICK w \in [0 .. N -> Nat] : w = Wide /\ \A i \in 1 .. N : w[i] = w[i - 1] + MenuWidth[Menus[i]]
  BY <1>1, WideIs DEF Widths
<1>3. w[0] = 0 /\ n \in 0 .. N
  BY <1>1, <1>2, WideIs DEF Widths
<1> DEFINE Adds(i) == IF Menus[i] \in B.shown THEN MenuWidth[Menus[i]] ELSE 0
           Rec(g) == [i \in 0 .. N |-> IF i = 0 THEN 0 ELSE g[i - 1] + Adds(i)]
           upTo == CHOOSE g : g = Rec(g)
           at == [i \in 0 .. N |-> IF i <= n THEN w[i] ELSE w[n]]
<1>4. NavMenuWidth(B) = upTo[N]
  BY <1>1, Zenon DEF NavMenuWidth, MenuCount
<1>5. \A i \in 1 .. N : Adds(i) = IF i <= n THEN MenuWidth[Menus[i]] ELSE 0
  <2>1. ASSUME NEW i \in 1 .. N
        PROVE  Menus[i] \in LeftMenus(n) <=> i <= n
    <3>1. i <= n => i \in 1 .. n
      BY <1>3
    <3>2. Menus[i] \in LeftMenus(n) => i \in 1 .. n
      <4>1. \A j \in 1 .. n : j \in 1 .. N
        BY <1>3
      <4>2. QED
        BY <1>1, <4>1, MenusAre DEF LeftMenus
    <3>3. QED
      BY <1>3, <3>1, <3>2 DEF LeftMenus
  <2>2. QED
    BY <2>1
<1> HIDE DEF Adds
<1>6. ASSUME NEW i \in 1 .. N
      PROVE  at[i] = at[i - 1] + Adds(i)
  <2>1. i \in 0 .. N /\ i - 1 \in 0 .. N
    BY <1>1
  <2>2. at[i] = (IF i <= n THEN w[i] ELSE w[n]) /\ at[i - 1] = IF i - 1 <= n THEN w[i - 1] ELSE w[n]
    BY <2>1
  <2>3. CASE i <= n
    <3>1. i - 1 <= n
      BY <1>1, <1>3, <2>3
    <3>2. QED
      BY <1>2, <1>5, <2>2, <2>3, <3>1
  <2>4. CASE ~(i <= n)
    <3>1. w[n] \in Nat /\ Adds(i) = 0
      BY <1>3, <1>5, <2>4
    <3>2. at[i] = w[n] /\ at[i - 1] = w[n]
      <4>1. i - 1 <= n => i - 1 = n
        BY <1>1, <1>3, <2>4
      <4>2. QED
        BY <2>2, <2>4, <4>1
    <3>3. QED
      BY <3>1, <3>2
  <2>5. QED
    BY <2>3, <2>4
<1>7. at[0] = 0
  BY <1>1, <1>3
<1>8. at = Rec(at)
  <2>1. \A i \in 0 .. N : i # 0 => i \in 1 .. N
    BY <1>1, SMT
  <2>2. DOMAIN at = 0 .. N
    OBVIOUS
  <2> HIDE DEF at
  <2>3. \A i \in 0 .. N : at[i] = Rec(at)[i]
    BY <1>6, <1>7, <2>1
  <2>4. at = [i \in 0 .. N |-> at[i]]
    BY <2>2, Zenon DEF at
  <2>5. QED
    BY <2>3, <2>4
<1>9. upTo = Rec(upTo)
  BY <1>8, Zenon
<1> HIDE DEF upTo
<1>10. upTo[0] = 0 /\ \A i \in 1 .. N : upTo[i] = upTo[i - 1] + Adds(i)
  <2>1. 0 \in 0 .. N /\ \A i \in 1 .. N : i \in 0 .. N /\ i # 0
    BY <1>1, SMT
  <2>2. QED
    BY <1>9, <2>1
<1>11. at[N] = w[n]
  <2>1. N <= n => N = n
    BY <1>1, <1>3
  <2>2. QED
    BY <1>1, <2>1
<1> HIDE DEF at
<1> DEFINE P == {k \in 0 .. N : upTo[k] = at[k]}
<1>12. 0 \in P
  BY <1>1, <1>7, <1>10
<1>13. ASSUME NEW k \in 0 .. (N - 1), k \in P
       PROVE  k + 1 \in P
  <2>1. PICK j \in 1 .. N : j = k + 1 /\ j - 1 = k
    BY <1>1, <1>13
  <2>2. upTo[j] = at[j]
    BY <1>6, <1>10, <1>13, <2>1
  <2>3. QED
    BY <1>1, <2>1, <2>2
<1>14. 0 .. N \subseteq P
  <2> HIDE DEF P
  <2>1. QED
    BY <1>1, <1>12, <1>13, UpTo, Zenon
<1>15. QED
  BY <1>1, <1>2, <1>4, <1>11, <1>14 DEF NavIs

Bars == [room : Nat, shown : SUBSET MenuSet, more : Seq(MenuSet), button : BOOLEAN, stale : BOOLEAN]

IsPart(p, s, lo, len) ==
  Len(p) = len /\ DOMAIN p = 1 .. len /\ \A j \in 1 .. len : p[j] = s[lo + j] /\ lo + j \in 1 .. Len(s)

LEMMA PartIs ==
  ASSUME NEW X, NEW s \in Seq(X), NEW lo \in Nat, NEW len \in Nat, lo + len <= Len(s),
         NEW p, p = PartOf(s, lo, len)
  PROVE  p \in Seq(X) /\ IsPart(p, s, lo, len)
<1>1. \A j \in 1 .. len : lo + j \in 1 .. Len(s)
  BY SMT
<1>2. p = [j \in 1 .. len |-> s[lo + j]] /\ \A j \in 1 .. len : s[lo + j] \in X
  BY <1>1 DEF PartOf
<1>3. p \in [1 .. len -> X]
  BY <1>2
<1>4. p \in Seq(X) /\ Len(p) = len
  BY <1>2, <1>3
<1>5. QED
  BY <1>1, <1>2, <1>4 DEF IsPart

LEMMA RightIs ==
  ASSUME NEW n \in 0 .. MenuCount, NEW p, p = RightMenus(n)
  PROVE  p \in Seq(MenuSet) /\ IsPart(p, Menus, n, MenuCount - n)
<1>1. PICK N \in Nat : N = MenuCount
  BY MenusAre
<1>2. n \in Nat /\ N - n \in Nat /\ n + (N - n) <= N
  BY <1>1
<1>3. PICK len \in Nat : len = N - n
  BY <1>2
<1>4. p = PartOf(Menus, n, len) /\ Menus \in Seq(MenuSet) /\ Len(Menus) = N
  BY <1>1, <1>3, MenusAre DEF RightMenus, MenuCount
<1>5. QED
  BY <1>1, <1>2, <1>3, <1>4, PartIs

LEMMA BarType ==
  ASSUME NEW r \in Nat, NEW n \in 0 .. MenuCount, NEW b \in BOOLEAN, NEW s \in BOOLEAN
  PROVE  BarAt(r, n, b, s) \in Bars
<1>1. RightMenus(n) \in Seq(MenuSet)
  BY RightIs
<1>2. LeftMenus(n) \in SUBSET MenuSet
  <2>1. \A i \in 1 .. n : i \in 1 .. MenuCount
    BY MenusAre
  <2>2. QED
    BY <2>1, MenusAre DEF LeftMenus
<1>3. QED
  BY <1>1, <1>2 DEF BarAt, Bars

BarMoves(r, n, k, b, s) ==
  [BarAt(r, n, b, s) EXCEPT !.shown = LeftMenus(k), !.more = RightMenus(k)] = BarAt(r, k, b, s)

LEMMA BarChanged ==
  ASSUME NEW r, NEW n, NEW k, NEW b, NEW s
  PROVE  BarMoves(r, n, k, b, s)
<1>1. PICK L : L = LeftMenus(n)
  OBVIOUS
<1>2. PICK R : R = RightMenus(n)
  OBVIOUS
<1>3. PICK B : B = [room |-> r, shown |-> L, more |-> R, button |-> b, stale |-> s]
  OBVIOUS
<1>4. ASSUME NEW M, NEW Q
      PROVE  [B EXCEPT !.shown = M, !.more = Q] = [room |-> r, shown |-> M, more |-> Q, button |-> b, stale |-> s]
  <2>1. PICK C : C = [B EXCEPT !.shown = M]
    OBVIOUS
  <2>2. C = [room |-> r, shown |-> M, more |-> R, button |-> b, stale |-> s]
    BY <1>3, <2>1
  <2>3. [C EXCEPT !.more = Q] = [room |-> r, shown |-> M, more |-> Q, button |-> b, stale |-> s]
    BY <2>2
  <2>4. QED
    BY <2>1, <2>3
<1>5. QED
  BY <1>1, <1>2, <1>3, <1>4 DEF BarMoves, BarAt

(* Showing the next menu takes the first clone away.                        *)
ShowsOne(r, n, k, b, s) ==
  ShowMenu(BarAt(r, k, b, s), Menus[k + 1], RightMenus(n), k + 1 - n) = BarAt(r, k + 1, b, s)

LEMMA ShowsNext ==
  ASSUME NEW r \in Nat, NEW k \in Nat, k < MenuCount, NEW n \in 0 .. k,
         NEW b \in BOOLEAN, NEW s \in BOOLEAN
  PROVE  ShowsOne(r, n, k, b, s)
<1>1. PICK N \in Nat : N = MenuCount
  BY MenusAre
<1>2. PICK B : B = BarAt(r, k, b, s)
  OBVIOUS
<1>3. /\ k \in 0 .. N /\ k + 1 \in 1 .. N /\ k + 1 \in 0 .. N /\ n \in 0 .. N
      /\ k + 1 - n \in 1 .. (N - n) /\ n + (k + 1 - n) = k + 1
  BY <1>1
<1>4. PICK clones : clones = RightMenus(n)
  OBVIOUS
<1>5. PICK i : i = k + 1 - n
  OBVIOUS
<1>6. i \in DOMAIN clones /\ clones[i] = Menus[k + 1]
  <2>1. IsPart(clones, Menus, n, N - n)
    BY <1>1, <1>3, <1>4, RightIs
  <2>2. QED
    BY <1>3, <1>5, <2>1 DEF IsPart
<1>7. PICK p \in Seq(MenuSet) : p = RightMenus(k) /\ IsPart(p, Menus, k, N - k)
  BY <1>1, <1>3, RightIs
<1> DEFINE S == {c \in ToSet(p) : i \in DOMAIN clones => c # clones[i]}
<1>8. ASSUME NEW j \in 1 .. Len(p)
      PROVE  p[j] \in S <=> 1 < j /\ j <= N - k
  <2>1. j \in 1 .. (N - k) /\ p[j] = Menus[k + j] /\ k + j \in 1 .. N
    BY <1>1, <1>7, <1>8 DEF IsPart, MenuCount
  <2>2. p[j] \in ToSet(p)
    BY <1>7, <2>1 DEF ToSet, IsPart
  <2>3. p[j] \in S <=> Menus[k + j] # Menus[k + 1]
    BY <1>6, <2>1, <2>2
  <2>4. Menus[k + j] = Menus[k + 1] <=> j = 1
    <3>1. Menus[k + j] = Menus[k + 1] => k + j = k + 1
      BY <1>1, <1>3, <2>1, MenusAre
    <3>2. QED
      BY <2>1, <3>1
  <2>5. j = 1 <=> ~(1 < j /\ j <= N - k)
    BY <1>1, <2>1
  <2>6. QED
    BY <2>3, <2>4, <2>5
<1>9. Only(p, S) = RightMenus(k + 1)
  <2>1. PICK m \in Nat : m = N - k /\ 1 <= m /\ Len(p) = m
    BY <1>1, <1>7 DEF IsPart
  <2>2. \A j \in 1 .. Len(p) : p[j] \in S <=> 1 < j /\ j <= m
    BY <1>8, <2>1
  <2>3. OnlyPart(p, S, 1, m)
    <3> HIDE DEF S
    <3>1. QED
      BY <2>1, <2>2, OnlyStretch
  <2>4. Only(p, S) = PartOf(p, 1, m - 1)
    BY <2>3 DEF OnlyPart
  <2>5. m - 1 = N - (k + 1) /\ \A j \in 1 .. (m - 1) : 1 + j \in 1 .. m /\ k + (1 + j) = k + 1 + j
    BY <1>1, <2>1
  <2>6. \A j \in 1 .. (m - 1) : p[1 + j] = Menus[k + 1 + j]
    BY <1>7, <2>1, <2>5 DEF IsPart
  <2>7. PartOf(p, 1, m - 1) = PartOf(Menus, k + 1, m - 1)
    BY <2>6 DEF PartOf
  <2>8. QED
    BY <1>1, <2>4, <2>5, <2>7 DEF RightMenus
<1>10. LeftMenus(k) \cup {Menus[k + 1]} = LeftMenus(k + 1)
  <2>1. 1 .. (k + 1) = (1 .. k) \cup {k + 1}
    BY <1>3
  <2>2. QED
    BY <2>1 DEF LeftMenus
<1>11. ShowMenu(B, Menus[k + 1], clones, i) = [B EXCEPT !.shown = LeftMenus(k + 1), !.more = RightMenus(k + 1)]
  <2>1. B.more = p /\ B.shown = LeftMenus(k)
    BY <1>2, <1>7 DEF BarAt
  <2>2. ShowMenu(B, Menus[k + 1], clones, i) = [B EXCEPT !.shown = B.shown \cup {Menus[k + 1]}, !.more = Only(p, S)]
    BY <2>1 DEF ShowMenu
  <2> HIDE DEF S
  <2>3. QED
    BY <1>9, <1>10, <2>1, <2>2
<1>12. [B EXCEPT !.shown = LeftMenus(k + 1), !.more = RightMenus(k + 1)] = BarAt(r, k + 1, b, s)
  <2>1. BarMoves(r, k, k + 1, b, s)
    BY BarChanged, Zenon
  <2>2. QED
    BY <1>2, <2>1 DEF BarMoves
<1>13. QED
  BY <1>2, <1>4, <1>5, <1>11, <1>12 DEF ShowsOne

(* Hiding the last menu shown puts its clone first.                         *)
HidesOne(r, k, b, s) == HideMenu(BarAt(r, k, b, s), Menus[k]) = BarAt(r, k - 1, b, s)

LEMMA HidesLast ==
  ASSUME NEW r \in Nat, NEW k \in 1 .. MenuCount, NEW b \in BOOLEAN, NEW s \in BOOLEAN
  PROVE  HidesOne(r, k, b, s)
<1>1. PICK N \in Nat : N = MenuCount
  BY MenusAre
<1>2. PICK B : B = BarAt(r, k, b, s)
  OBVIOUS
<1>3. k \in 1 .. N /\ k \in 0 .. N /\ k - 1 \in 0 .. N
  BY <1>1
<1>4. LeftMenus(k) \ {Menus[k]} = LeftMenus(k - 1)
  <2>1. 1 .. k = (1 .. (k - 1)) \cup {k} /\ k \notin 1 .. (k - 1)
    BY <1>3
  <2>2. \A i \in 1 .. (k - 1) : i \in 1 .. N
    BY <1>3
  <2>3. \A i \in 1 .. (k - 1) : Menus[i] # Menus[k]
    BY <1>1, <1>3, <2>1, <2>2, MenusAre
  <2>4. QED
    BY <2>1, <2>3 DEF LeftMenus
<1>5. <<Menus[k]>> \o RightMenus(k) = RightMenus(k - 1)
  <2>1. PICK p \in Seq(MenuSet) : p = RightMenus(k) /\ IsPart(p, Menus, k, N - k)
    BY <1>1, <1>3, RightIs
  <2>2. PICK q \in Seq(MenuSet) : q = RightMenus(k - 1) /\ IsPart(q, Menus, k - 1, N - (k - 1))
    BY <1>1, <1>3, RightIs
  <2>3. PICK m \in MenuSet : m = Menus[k]
    BY <1>1, <1>3, MenusAre
  <2>4. Len(p) = N - k /\ Len(q) = N - k + 1
    BY <1>1, <1>3, <2>1, <2>2 DEF IsPart
  <2>5. q[1] = m
    <3>1. 1 \in 1 .. (N - (k - 1)) /\ k - 1 + 1 = k
      BY <1>1, <1>3
    <3>2. QED
      BY <2>2, <2>3, <3>1 DEF IsPart
  <2>6. \A j \in 1 .. Len(p) : q[j + 1] = p[j]
    <3>1. \A j \in 1 .. (N - k) : j + 1 \in 1 .. (N - (k - 1)) /\ k - 1 + (j + 1) = k + j
      BY <1>1, <1>3
    <3>2. ASSUME NEW j \in 1 .. (N - k)
          PROVE  q[j + 1] = p[j]
      <4>1. q[j + 1] = Menus[k - 1 + (j + 1)]
        BY <2>2, <3>1 DEF IsPart
      <4>2. p[j] = Menus[k + j]
        BY <2>1 DEF IsPart
      <4>3. QED
        BY <3>1, <4>1, <4>2
    <3>3. QED
      BY <2>4, <3>2
  <2>7. <<m>> \o p = q
    <3>1. PICK f : f = <<m>> \o p
      OBVIOUS
    <3>2. f \in Seq(MenuSet) /\ Len(f) = Len(q) /\ f[1] = m /\ \A j \in 1 .. Len(p) : f[j + 1] = p[j]
      <4>1. Len(<<m>>) = 1 /\ <<m>>[1] = m /\ <<m>> \in Seq(MenuSet)
        OBVIOUS
      <4>2. f \in Seq(MenuSet) /\ Len(f) = 1 + Len(p) /\ f[1] = m
        BY <3>1, <4>1
      <4>3. ASSUME NEW j \in 1 .. Len(p)
            PROVE  f[j + 1] = p[j]
        <5>1. j + 1 \in 1 .. (1 + Len(p)) /\ j + 1 - 1 = j /\ j + 1 # 1
          BY <2>1
        <5>2. f[j + 1] = p[j + 1 - 1]
          BY <3>1, <4>1, <5>1
        <5>3. QED
          BY <5>1, <5>2
      <4>4. QED
        BY <1>1, <1>3, <2>4, <4>2, <4>3
    <3>3. ASSUME NEW i \in 1 .. Len(q)
          PROVE  f[i] = q[i]
      <4>1. CASE i = 1
        BY <2>5, <3>2, <4>1
      <4>2. CASE i # 1
        <5>1. i - 1 \in 1 .. Len(p) /\ i - 1 + 1 = i
          BY <1>1, <1>3, <2>4, <4>2
        <5>2. QED
          BY <2>6, <3>2, <5>1
      <4>3. QED
        BY <4>1, <4>2
    <3>4. f = q
      BY <3>2, <3>3
    <3>5. QED
      BY <3>1, <3>4
  <2>8. QED
    BY <2>1, <2>2, <2>3, <2>7
<1>6. HideMenu(B, Menus[k]) = [B EXCEPT !.shown = LeftMenus(k - 1), !.more = RightMenus(k - 1)]
  BY <1>2, <1>4, <1>5 DEF HideMenu, BarAt
<1>7. [B EXCEPT !.shown = LeftMenus(k - 1), !.more = RightMenus(k - 1)] = BarAt(r, k - 1, b, s)
  <2>1. BarMoves(r, k, k - 1, b, s)
    BY BarChanged, Zenon
  <2>2. QED
    BY <1>2, <2>1 DEF BarMoves
<1>8. QED
  BY <1>2, <1>6, <1>7 DEF HidesOne

(* Every loop of the menu: its last value, and that each turn was taken.    *)
HidesOver(at, B, visible) ==
  /\ at[0] = B
  /\ \A i \in 1 .. Len(visible) :
       at[i] = IF isOverflow(at[i - 1])
               THEN HideMenu(at[i - 1], visible[Len(visible) + 1 - i]) ELSE at[i - 1]

LEMMA HideMenuType ==
  ASSUME NEW B \in Bars, NEW m \in MenuSet
  PROVE  HideMenu(B, m) \in Bars
<1>1. B.more \in Seq(MenuSet) /\ <<m>> \in Seq(MenuSet)
  BY DEF Bars
<1>2. PICK more \in Seq(MenuSet) : more = <<m>> \o B.more
  <2>1. <<m>> \o B.more \in Seq(MenuSet)
    BY <1>1
  <2>2. QED
    BY <2>1
<1>3. PICK shown \in SUBSET MenuSet : shown = B.shown \ {m}
  BY DEF Bars
<1>4. HideMenu(B, m) = [B EXCEPT !.shown = shown, !.more = more]
  BY <1>2, <1>3 DEF HideMenu
<1>5. QED
  BY <1>4 DEF Bars

LEMMA HidesIs ==
  ASSUME NEW B \in Bars, NEW visible \in Seq(MenuSet), visible = Only(Menus, B.shown)
  PROVE  \E at \in [0 .. Len(visible) -> Bars] :
            HidesOver(at, B, visible) /\ hideMenus(B) = at[Len(visible)]
<1>1. PICK n \in Nat : n = Len(visible)
  OBVIOUS
<1> DEFINE Turn(C, i) == IF isOverflow(C) THEN HideMenu(C, visible[n + 1 - i]) ELSE C
           turn == [p \in (1 .. n) \X Bars |-> Turn(p[2], p[1])]
           Rec(g) == [i \in 0 .. n |-> IF i = 0 THEN B ELSE Turn(g[i - 1], i)]
           after == CHOOSE g : g = Rec(g)
<1>2. hideMenus(B) = after[n]
  BY <1>1, Zenon DEF hideMenus
<1>3. ASSUME NEW i \in 1 .. n, NEW C \in Bars
      PROVE  Turn(C, i) \in Bars
  <2>1. n + 1 - i \in 1 .. Len(visible)
    BY <1>1
  <2>2. PICK m \in MenuSet : m = visible[n + 1 - i]
    BY <2>1
  <2>3. HideMenu(C, m) \in Bars
    BY HideMenuType
  <2>4. QED
    BY <2>2, <2>3
<1> HIDE DEF Turn
<1>4. turn \in [(1 .. n) \X Bars -> Bars]
  BY <1>3
<1>5. \A i \in 1 .. n, C \in Bars : turn[<<i, C>>] = Turn(C, i)
  OBVIOUS
<1> HIDE DEF turn
<1>6. PICK at \in [0 .. n -> Bars] : Loops(at, n, B, turn)
  BY <1>4, LoopExists, Zenon
<1>7. ASSUME NEW i \in 1 .. n
      PROVE  at[i] = Turn(at[i - 1], i)
  <2>1. at[i - 1] \in Bars
    BY SMT
  <2>2. QED
    BY <1>5, <1>6, <2>1 DEF Loops
<1>8. at = Rec(at)
  <2>1. \A i \in 0 .. n : i # 0 => i \in 1 .. n
    BY SMT
  <2>2. \A i \in 0 .. n : at[i] = Rec(at)[i]
    BY <1>6, <1>7, <2>1 DEF Loops
  <2>3. QED
    BY <2>2
<1>9. after = Rec(after)
  BY <1>8, Zenon
<1> HIDE DEF after
<1>10. after[0] = B /\ \A i \in 1 .. n : after[i] = Turn(after[i - 1], i)
  <2>1. 0 \in 0 .. n /\ \A i \in 1 .. n : i \in 0 .. n /\ i # 0
    BY SMT
  <2>2. QED
    BY <1>9, <2>1
<1> DEFINE P == {k \in 0 .. n : after[k] = at[k]}
<1>11. 0 \in P
  BY <1>6, <1>10 DEF Loops
<1>12. ASSUME NEW k \in 0 .. (n - 1), k \in P
       PROVE  k + 1 \in P
  <2>1. PICK j \in 1 .. n : j = k + 1 /\ j - 1 = k
    BY <1>12
  <2>2. after[j] = at[j]
    BY <1>7, <1>10, <1>12, <2>1
  <2>3. QED
    BY <2>1, <2>2
<1>13. 0 .. n \subseteq P
  <2> HIDE DEF P
  <2>1. QED
    BY <1>11, <1>12, UpTo, Zenon
<1>14. hideMenus(B) = at[n]
  BY <1>2, <1>13
<1>15. HidesOver(at, B, visible)
  BY <1>1, <1>6, <1>7 DEF HidesOver, Loops, Turn
<1>16. QED
  BY <1>1, <1>14, <1>15

LEMMA ShowMenuType ==
  ASSUME NEW B \in Bars, NEW m \in MenuSet, NEW clones, NEW i
  PROVE  ShowMenu(B, m, clones, i) \in Bars
<1>1. PICK p \in Seq(MenuSet) : p = B.more
  BY DEF Bars
<1>2. PICK more \in Seq(MenuSet) :
         more = Only(p, {c \in ToSet(p) : i \in DOMAIN clones => c # clones[i]})
  BY OnlyKeeps
<1>3. PICK shown \in SUBSET MenuSet : shown = B.shown \cup {m}
  BY DEF Bars
<1>4. ShowMenu(B, m, clones, i) = [B EXCEPT !.shown = shown, !.more = more]
  BY <1>1, <1>2, <1>3 DEF ShowMenu
<1>5. QED
  BY <1>4 DEF Bars

(* One turn of showMenus' loop.                                             *)
Turns == [bar : Bars, over : BOOLEAN]
ShowTurn(at, hidden, clones, i) ==
  IF at.over \/ isOverflow(at.bar) THEN at
  ELSE IF canShow(at.bar, hidden[i])
       THEN [at EXCEPT !.bar = ShowMenu(@, hidden[i], clones, i)]
       ELSE [at EXCEPT !.over = TRUE]

ShowsOver(at, B, hidden) ==
  /\ at[0] = [bar |-> B, over |-> FALSE]
  /\ \A i \in 1 .. Len(hidden) : at[i] = ShowTurn(at[i - 1], hidden, B.more, i)

LEMMA ShowTurnType ==
  ASSUME NEW at \in Turns, NEW hidden \in Seq(MenuSet), NEW clones, NEW i \in 1 .. Len(hidden)
  PROVE  ShowTurn(at, hidden, clones, i) \in Turns
<1>1. PICK m \in MenuSet : m = hidden[i]
  OBVIOUS
<1>2. at.bar \in Bars
  BY DEF Turns
<1>3. PICK C \in Bars : C = ShowMenu(at.bar, m, clones, i)
  BY <1>2, ShowMenuType
<1>4. [at EXCEPT !.bar = C] \in Turns /\ [at EXCEPT !.over = TRUE] \in Turns
  BY DEF Turns
<1>5. ShowTurn(at, hidden, clones, i) \in {at, [at EXCEPT !.bar = C], [at EXCEPT !.over = TRUE]}
  BY <1>1, <1>3 DEF ShowTurn
<1>6. QED
  BY <1>4, <1>5

LEMMA ShowsIs ==
  ASSUME NEW B \in Bars, NEW hidden \in Seq(MenuSet), hidden = Only(Menus, MenuSet \ B.shown)
  PROVE  \E at \in [0 .. Len(hidden) -> Turns] :
            ShowsOver(at, B, hidden) /\ showMenus(B) = at[Len(hidden)].bar
<1>1. PICK n \in Nat : n = Len(hidden)
  OBVIOUS
<1>2. PICK base \in Turns : base = [bar |-> B, over |-> FALSE]
  BY DEF Turns
<1> DEFINE Turn(C, i) == IF C.over \/ isOverflow(C.bar) THEN C
                         ELSE IF canShow(C.bar, hidden[i])
                              THEN [C EXCEPT !.bar = ShowMenu(@, hidden[i], B.more, i)]
                              ELSE [C EXCEPT !.over = TRUE]
           turn == [p \in (1 .. n) \X Turns |-> Turn(p[2], p[1])]
           Rec(g) == [i \in 0 .. n |-> IF i = 0 THEN [bar |-> B, over |-> FALSE] ELSE Turn(g[i - 1], i)]
           after == CHOOSE g : g = Rec(g)
<1>3. showMenus(B) = after[n].bar
  BY <1>1, Zenon DEF showMenus, MenuSet
<1>4. \A C, i : Turn(C, i) = ShowTurn(C, hidden, B.more, i)
  BY DEF ShowTurn
<1> HIDE DEF Turn
<1>5. turn \in [(1 .. n) \X Turns -> Turns]
  BY <1>1, <1>4, ShowTurnType
<1>6. \A i \in 1 .. n, C \in Turns : turn[<<i, C>>] = Turn(C, i)
  OBVIOUS
<1> HIDE DEF turn
<1>7. PICK at \in [0 .. n -> Turns] : Loops(at, n, base, turn)
  BY <1>5, LoopExists, Zenon
<1>8. ASSUME NEW i \in 1 .. n
      PROVE  at[i] = Turn(at[i - 1], i)
  <2>1. at[i - 1] \in Turns
    BY SMT
  <2>2. QED
    BY <1>6, <1>7, <2>1 DEF Loops
<1>9. at = Rec(at)
  <2>1. \A i \in 0 .. n : i # 0 => i \in 1 .. n
    BY SMT
  <2>2. \A i \in 0 .. n : at[i] = Rec(at)[i]
    BY <1>2, <1>7, <1>8, <2>1 DEF Loops
  <2>3. QED
    BY <2>2
<1>10. after = Rec(after)
  BY <1>9, Zenon
<1> HIDE DEF after
<1>11. after[0] = base /\ \A i \in 1 .. n : after[i] = Turn(after[i - 1], i)
  <2>1. 0 \in 0 .. n /\ \A i \in 1 .. n : i \in 0 .. n /\ i # 0
    BY SMT
  <2>2. QED
    BY <1>2, <1>10, <2>1
<1> DEFINE P == {k \in 0 .. n : after[k] = at[k]}
<1>12. 0 \in P
  BY <1>7, <1>11 DEF Loops
<1>13. ASSUME NEW k \in 0 .. (n - 1), k \in P
       PROVE  k + 1 \in P
  <2>1. PICK j \in 1 .. n : j = k + 1 /\ j - 1 = k
    BY <1>13
  <2>2. after[j] = at[j]
    BY <1>8, <1>11, <1>13, <2>1
  <2>3. QED
    BY <2>1, <2>2
<1>14. 0 .. n \subseteq P
  <2> HIDE DEF P
  <2>1. QED
    BY <1>12, <1>13, UpTo, Zenon
<1>15. showMenus(B) = at[n].bar
  BY <1>3, <1>14
<1>16. ShowsOver(at, B, hidden)
  BY <1>1, <1>2, <1>4, <1>7, <1>8 DEF ShowsOver, Loops
<1>17. QED
  BY <1>1, <1>15, <1>16

NextWide(k) == Wide[k + 1]

LEMMA WideFacts ==
  /\ \A k \in 0 .. MenuCount : Wide[k] \in Nat
  /\ \A k \in 0 .. (MenuCount - 1) : NextWide(k) \in Nat /\ NextWide(k) = Wide[k] + MenuWidth[Menus[k + 1]]
<1>1. PICK N \in Nat : N = MenuCount
  BY MenusAre
<1>2. Wide \in [0 .. N -> Nat] /\ \A i \in 1 .. N : Wide[i] = Wide[i - 1] + MenuWidth[Menus[i]]
  BY <1>1, WideIs DEF Widths
<1>3. ASSUME NEW k \in 0 .. (N - 1)
      PROVE  NextWide(k) \in Nat /\ NextWide(k) = Wide[k] + MenuWidth[Menus[k + 1]]
  <2>1. PICK i \in 1 .. N : i = k + 1 /\ i - 1 = k
    BY <1>1
  <2>2. i \in 0 .. N
    BY <2>1
  <2>3. Wide[i] = Wide[k] + MenuWidth[Menus[i]] /\ Wide[i] \in Nat
    BY <1>2, <2>1, <2>2
  <2>4. QED
    BY <2>1, <2>3 DEF NextWide
<1>4. QED
  BY <1>1, <1>2, <1>3

(* How much room the bar has left.                                          *)
RoomLeft(B, r, k) ==
  /\ isOverflow(B) <=> Wide[k] > r
  /\ k < MenuCount => (canShow(B, Menus[k + 1]) <=> NextWide(k) < r)

LEMMA RoomIs ==
  ASSUME NEW r \in Nat, NEW k \in 0 .. MenuCount, NEW b, NEW s, NEW B, B = BarAt(r, k, b, s)
  PROVE  RoomLeft(B, r, k)
<1>1. B.shown = LeftMenus(k) /\ B.room = r
  BY DEF BarAt
<1>2. NavMenuWidth(B) = Wide[k]
  BY <1>1, NavWidth DEF NavIs
<1>3. k < MenuCount => k \in 0 .. (MenuCount - 1)
  BY MenusAre
<1>4. QED
  BY <1>1, <1>2, <1>3, WideFacts DEF RoomLeft, isOverflow, canShow

HiddenIs(n) == Only(Menus, MenuSet \ LeftMenus(n)) = RightMenus(n)
VisibleMenus(n) == Only(Menus, LeftMenus(n)) = PartOf(Menus, 0, n)

LEMMA Selected ==
  ASSUME NEW n \in 0 .. MenuCount
  PROVE  HiddenIs(n) /\ VisibleMenus(n)
<1>1. PICK N \in Nat : N = MenuCount /\ N = Len(Menus)
  BY MenusAre DEF MenuCount
<1>2. n \in 0 .. N /\ n \in Nat /\ \A j \in 1 .. n : j \in 1 .. N
  BY <1>1
<1>3. ASSUME NEW i \in 1 .. N
      PROVE  Menus[i] \in LeftMenus(n) <=> i <= n
  <2>1. i <= n => i \in 1 .. n
    BY <1>2
  <2>2. Menus[i] \in LeftMenus(n) => i \in 1 .. n
    BY <1>1, <1>2, MenusAre DEF LeftMenus
  <2>3. QED
    BY <1>2, <2>1, <2>2 DEF LeftMenus
<1>4. \A i \in 1 .. N : Menus[i] \in MenuSet
  BY <1>1, MenusAre
<1>5. HiddenIs(n)
  <2>1. PICK S : S = MenuSet \ LeftMenus(n)
    OBVIOUS
  <2>2. \A i \in 1 .. N : Menus[i] \in S <=> n < i /\ i <= N
    BY <1>2, <1>3, <1>4, <2>1
  <2>3. OnlyPart(Menus, S, n, N)
    BY <1>1, <1>2, <2>2, MenusAre, OnlyStretch
  <2>4. QED
    BY <1>1, <2>1, <2>3 DEF OnlyPart, HiddenIs, RightMenus
<1>6. VisibleMenus(n)
  <2>1. PICK S : S = LeftMenus(n)
    OBVIOUS
  <2>2. \A i \in 1 .. N : Menus[i] \in S <=> 0 < i /\ i <= n
    BY <1>2, <1>3, <2>1
  <2>3. OnlyPart(Menus, S, 0, n)
    BY <1>1, <1>2, <2>2, MenusAre, OnlyStretch
  <2>4. n - 0 = n
    BY <1>2
  <2>5. QED
    BY <2>1, <2>3, <2>4 DEF OnlyPart, VisibleMenus
<1>7. QED
  BY <1>5, <1>6

(* The first hidden menu, if any, would not fit.                            *)
Full(r, k) == k < MenuCount => NextWide(k) >= r

ShownTo(C, r, n, b, s) == \E k \in n .. MenuCount : C = BarAt(r, k, b, s) /\ Full(r, k)

LEMMA Shows1 ==
  ASSUME NEW r \in Nat, NEW n \in 0 .. MenuCount, NEW b \in BOOLEAN, NEW s \in BOOLEAN
  PROVE  ShownTo(showMenus(BarAt(r, n, b, s)), r, n, b, s)
<1>1. PICK N \in Nat : N = MenuCount
  BY MenusAre
<1>2. PICK B \in Bars : B = BarAt(r, n, b, s)
  BY BarType
<1>3. PICK hidden \in Seq(MenuSet) : hidden = RightMenus(n) /\ IsPart(hidden, Menus, n, N - n)
  BY <1>1, RightIs
<1>4. hidden = Only(Menus, MenuSet \ B.shown) /\ B.more = hidden
  BY <1>2, <1>3, Selected DEF HiddenIs, BarAt
<1>5. PICK at \in [0 .. Len(hidden) -> Turns] : ShowsOver(at, B, hidden) /\ showMenus(B) = at[Len(hidden)].bar
  BY <1>4, ShowsIs
<1>6. PICK len \in Nat : len = N - n /\ Len(hidden) = len
  BY <1>1, <1>3 DEF IsPart
<1> DEFINE Stands(T, i) == \E k \in n .. N :
                /\ T.bar = BarAt(r, k, b, s)
                /\ \/ k = n + i /\ T.over = FALSE
                   \/ (T.over = TRUE \/ Wide[k] > r) /\ Full(r, k)
           P == {i \in 0 .. len : Stands(at[i], i)}
<1>7. 0 \in P
  <2>1. at[0].bar = BarAt(r, n, b, s) /\ at[0].over = FALSE
    BY <1>2, <1>5 DEF ShowsOver
  <2>2. n \in n .. N /\ n = n + 0 /\ 0 \in 0 .. len
    BY <1>1
  <2>3. QED
    BY <2>1, <2>2
<1>8. ASSUME NEW q \in 0 .. (len - 1), q \in P
      PROVE  q + 1 \in P
  <2>1. PICK i \in 1 .. len : i = q + 1 /\ i - 1 = q
    BY <1>8
  <2>2. PICK T \in Turns : T = at[q]
    BY <1>6, <1>8
  <2>3. PICK k \in n .. N : /\ T.bar = BarAt(r, k, b, s)
                            /\ \/ k = n + q /\ T.over = FALSE
                               \/ (T.over = TRUE \/ Wide[k] > r) /\ Full(r, k)
    BY <1>8, <2>2
  <2>4. PICK C : C = BarAt(r, k, b, s)
    OBVIOUS
  <2>5. k \in 0 .. MenuCount /\ RoomLeft(C, r, k)
    <3>1. k \in 0 .. MenuCount
      BY <1>1, <2>3
    <3>2. QED
      BY <2>4, <3>1, RoomIs
  <2>6. at[i] = ShowTurn(T, hidden, hidden, i)
    BY <1>4, <1>5, <1>6, <2>1, <2>2 DEF ShowsOver
  <2>7. T.bar = C
    BY <2>3, <2>4
  <2>8. CASE (T.over = TRUE \/ Wide[k] > r) /\ Full(r, k)
    <3>1. at[i] = T
      BY <2>5, <2>6, <2>7, <2>8 DEF ShowTurn, RoomLeft
    <3>2. Stands(at[i], i)
      BY <2>3, <2>8, <3>1
    <3>3. QED
      BY <2>1, <3>2
  <2>9. CASE k = n + q /\ T.over = FALSE
    <3>1. k \in Nat /\ k < MenuCount /\ k \in 0 .. (MenuCount - 1) /\ n \in 0 .. k /\ k + 1 - n = i /\ n + i = k + 1
      BY <1>1, <1>6, <2>1, <2>9, <1>8
    <3>2. hidden[i] = Menus[k + 1]
      BY <1>3, <1>6, <3>1 DEF IsPart
    <3>3. Wide[k] \in Nat /\ NextWide(k) \in Nat /\ NextWide(k) >= Wide[k]
      <4>1. MenuWidth[Menus[k + 1]] \in Nat
        <5>1. PICK j \in 1 .. MenuCount : j = k + 1
          BY <1>1, <3>1
        <5>2. QED
          BY <5>1, MenusAre
      <4>2. PICK mw \in Nat : mw = MenuWidth[Menus[k + 1]]
        BY <4>1
      <4>3. PICK wk \in Nat : wk = Wide[k]
        BY <2>5, WideFacts
      <4>4. NextWide(k) = wk + mw
        BY <3>1, <4>2, <4>3, WideFacts
      <4>5. QED
        BY <4>3, <4>4
    <3>4. CASE isOverflow(C)
      <4>1. Wide[k] > r /\ at[i] = T
        BY <2>5, <2>6, <2>7, <3>4 DEF RoomLeft, ShowTurn
      <4>2. Full(r, k)
        BY <3>3, <4>1 DEF Full
      <4>3. Stands(at[i], i)
        BY <2>3, <4>1, <4>2
      <4>4. QED
        BY <2>1, <4>3
    <3>5. CASE ~isOverflow(C) /\ canShow(C, hidden[i])
      <4>1. at[i] = [T EXCEPT !.bar = ShowMenu(C, hidden[i], hidden, i)]
        BY <2>6, <2>7, <2>9, <3>5 DEF ShowTurn
      <4>2. ShowMenu(C, hidden[i], hidden, i) = BarAt(r, k + 1, b, s)
        <5>1. ShowsOne(r, n, k, b, s)
          BY <3>1, ShowsNext
        <5>2. QED
          BY <1>3, <2>4, <3>1, <3>2, <5>1 DEF ShowsOne
      <4>3. at[i].bar = BarAt(r, k + 1, b, s) /\ at[i].over = FALSE
        BY <2>9, <4>1, <4>2 DEF Turns
      <4>4. k + 1 \in n .. N /\ k + 1 = n + i
        BY <1>1, <3>1
      <4>5. Stands(at[i], i)
        BY <4>3, <4>4
      <4>6. QED
        BY <2>1, <4>5
    <3>6. CASE ~isOverflow(C) /\ ~canShow(C, hidden[i])
      <4>1. at[i] = [T EXCEPT !.over = TRUE]
        BY <2>6, <2>7, <2>9, <3>6 DEF ShowTurn
      <4>2. at[i].bar = C /\ at[i].over = TRUE
        BY <2>7, <4>1 DEF Turns
      <4>3. Full(r, k)
        BY <2>5, <3>1, <3>2, <3>3, <3>6 DEF Full, RoomLeft
      <4>4. Stands(at[i], i)
        BY <2>3, <2>4, <4>2, <4>3
      <4>5. QED
        BY <2>1, <4>4
    <3>7. QED
      BY <3>4, <3>5, <3>6
  <2>10. QED
    BY <2>3, <2>8, <2>9
<1>9. 0 .. len \subseteq P
  <2> HIDE DEF P
  <2>1. QED
    BY <1>7, <1>8, UpTo, Zenon
<1>10. Stands(at[len], len)
  BY <1>9
<1>11. PICK k \in n .. N : /\ at[len].bar = BarAt(r, k, b, s)
                           /\ k = n + len \/ Full(r, k)
  BY <1>10
<1>12. Full(r, k)
  <2>1. k = n + len => ~(k < MenuCount)
    BY <1>1, <1>6
  <2>2. QED
    BY <1>11, <2>1 DEF Full
<1>13. QED
  BY <1>1, <1>2, <1>5, <1>6, <1>11, <1>12 DEF ShownTo

HiddenTo(C, r, b, s) ==
  \E k \in 0 .. MenuCount : C = BarAt(r, k, b, s) /\ Full(r, k) /\ (k = 0 \/ Wide[k] <= r)

LEMMA Hides1 ==
  ASSUME NEW r \in Nat, NEW n \in 0 .. MenuCount, Full(r, n), NEW b \in BOOLEAN, NEW s \in BOOLEAN
  PROVE  HiddenTo(hideMenus(BarAt(r, n, b, s)), r, b, s)
<1>1. PICK N \in Nat : N = MenuCount
  BY MenusAre
<1>2. PICK B \in Bars : B = BarAt(r, n, b, s)
  BY BarType
<1>3. n \in Nat /\ 0 + n <= Len(Menus) /\ n <= N
  BY <1>1 DEF MenuCount
<1>4. PICK visible \in Seq(MenuSet) : visible = PartOf(Menus, 0, n) /\ IsPart(visible, Menus, 0, n)
  BY <1>3, MenusAre, PartIs
<1>5. visible = Only(Menus, B.shown)
  <2>1. VisibleMenus(n)
    BY Selected
  <2>2. B.shown = LeftMenus(n)
    BY <1>2 DEF BarAt
  <2>3. QED
    BY <1>4, <2>1, <2>2 DEF VisibleMenus
<1>6. PICK at \in [0 .. Len(visible) -> Bars] : HidesOver(at, B, visible) /\ hideMenus(B) = at[Len(visible)]
  BY <1>5, HidesIs
<1>7. Len(visible) = n
  BY <1>4 DEF IsPart
<1> DEFINE Stands(C, i) == \E k \in 0 .. n :
                /\ C = BarAt(r, k, b, s) /\ Full(r, k)
                /\ k = n - i \/ Wide[k] <= r
           P == {i \in 0 .. n : Stands(at[i], i)}
<1>8. 0 \in P
  <2>1. at[0] = BarAt(r, n, b, s)
    BY <1>2, <1>6 DEF HidesOver
  <2>2. n \in 0 .. n /\ n = n - 0 /\ 0 \in 0 .. n
    BY <1>3
  <2>3. QED
    BY <2>1, <2>2
<1>9. ASSUME NEW q \in 0 .. (n - 1), q \in P
      PROVE  q + 1 \in P
  <2>1. PICK i \in 1 .. n : i = q + 1 /\ i - 1 = q
    BY <1>3, <1>9
  <2>2. PICK k \in 0 .. n : /\ at[q] = BarAt(r, k, b, s) /\ Full(r, k)
                            /\ k = n - q \/ Wide[k] <= r
    BY <1>9
  <2>3. PICK C : C = at[q]
    OBVIOUS
  <2>4. k \in 0 .. MenuCount /\ RoomLeft(C, r, k) /\ Wide[k] \in Nat
    <3>1. k \in 0 .. MenuCount
      BY <1>1, <1>3, <2>2
    <3>2. QED
      BY <2>2, <2>3, <3>1, RoomIs, WideFacts
  <2>5. at[i] = IF isOverflow(C) THEN HideMenu(C, visible[n + 1 - i]) ELSE C
    BY <1>6, <1>7, <2>1, <2>3 DEF HidesOver
  <2>6. CASE Wide[k] <= r
    <3>1. at[i] = C
      BY <2>4, <2>5, <2>6 DEF RoomLeft
    <3>2. Stands(at[i], i)
      BY <2>2, <2>3, <2>6, <3>1
    <3>3. QED
      BY <2>1, <3>2
  <2>7. CASE ~(Wide[k] <= r)
    <3>1. k = n - q /\ Wide[k] > r
      BY <2>2, <2>4, <2>7
    <3>2. k \in 1 .. n /\ k \in 1 .. MenuCount /\ n + 1 - i = k /\ k - 1 \in 0 .. n /\ k - 1 = n - i
      BY <1>1, <1>3, <1>9, <2>1, <3>1
    <3>3. visible[k] = Menus[k]
      <4>1. visible[k] = Menus[0 + k] /\ 0 + k = k
        BY <1>4, <3>2 DEF IsPart
      <4>2. QED
        BY <4>1
    <3>4. at[i] = HideMenu(C, Menus[k])
      BY <2>4, <2>5, <3>1, <3>2, <3>3 DEF RoomLeft
    <3>5. at[i] = BarAt(r, k - 1, b, s)
      <4>1. HidesOne(r, k, b, s)
        BY <3>2, HidesLast
      <4>2. QED
        BY <2>2, <2>3, <3>4, <4>1 DEF HidesOne
    <3>6. Full(r, k - 1)
      <4>1. NextWide(k - 1) = Wide[k]
        BY <3>2 DEF NextWide
      <4>2. QED
        BY <2>4, <3>1, <4>1 DEF Full
    <3>7. Stands(at[i], i)
      BY <3>2, <3>5, <3>6
    <3>8. QED
      BY <2>1, <3>7
  <2>8. QED
    BY <2>6, <2>7
<1>10. 0 .. n \subseteq P
  <2> HIDE DEF P
  <2>1. QED
    BY <1>3, <1>8, <1>9, UpTo, Zenon
<1>11. Stands(at[n], n)
  BY <1>3, <1>10
<1>12. PICK k \in 0 .. n : /\ at[n] = BarAt(r, k, b, s) /\ Full(r, k)
                           /\ k = n - n \/ Wide[k] <= r
  BY <1>11
<1>13. k \in 0 .. MenuCount /\ (k = n - n => k = 0)
  BY <1>1, <1>3
<1>14. QED
  BY <1>2, <1>6, <1>7, <1>12, <1>13 DEF HiddenTo

(* The bar of a page, and of one whose last resize was handled.             *)
MenuFine(B) ==
  \E r \in Nat, n \in 0 .. MenuCount, b \in BOOLEAN, s \in BOOLEAN :
    /\ B = BarAt(r, n, b, s)
    /\ s = FALSE => Full(r, n) /\ (n = 0 \/ Wide[n] <= r) /\ (b = TRUE <=> n < MenuCount)

LEMMA RightNone ==
  ASSUME NEW n \in 0 .. MenuCount, NEW p, p = RightMenus(n)
  PROVE  /\ p = <<>> <=> ~(n < MenuCount)
         /\ n < MenuCount => Head(p) = Menus[n + 1]
<1>1. PICK N \in Nat : N = MenuCount
  BY MenusAre
<1>2. p \in Seq(MenuSet) /\ IsPart(p, Menus, n, N - n)
  BY <1>1, RightIs
<1>3. Len(p) = N - n /\ \A j \in 1 .. (N - n) : p[j] = Menus[n + j]
  BY <1>2 DEF IsPart
<1>4. p = <<>> <=> ~(n < N)
  BY <1>1, <1>2, <1>3
<1>5. n < N => 1 \in 1 .. (N - n)
  BY <1>1
<1>6. n < N => Head(p) = Menus[n + 1]
  BY <1>1, <1>2, <1>3, <1>4, <1>5
<1>7. QED
  BY <1>1, <1>4, <1>6

LEMMA MenuKeeps == ASSUME MenuFine(bar) PROVE MenusInPlace
<1>1. PICK r \in Nat, n \in 0 .. MenuCount, b \in BOOLEAN, s \in BOOLEAN :
         /\ bar = BarAt(r, n, b, s)
         /\ s = FALSE => Full(r, n) /\ (n = 0 \/ Wide[n] <= r) /\ (b = TRUE <=> n < MenuCount)
  BY DEF MenuFine
<1>2. /\ bar.more = RightMenus(n) /\ bar.shown = LeftMenus(n) /\ bar.button = b
      /\ bar.stale = s /\ bar.room = r
  BY <1>1 DEF BarAt
<1>3. PICK p : p = RightMenus(n)
  OBVIOUS
<1>4. /\ p = <<>> <=> ~(n < MenuCount)
      /\ n < MenuCount => Head(p) = Menus[n + 1]
  BY <1>3, RightNone
<1>5. MoreMirrorsHidden
  <2>1. bar.more = Only(Menus, ToSet(Menus) \ bar.shown)
    BY <1>2, Selected DEF HiddenIs, MenuSet
  <2>2. ~bar.stale => bar.button = (bar.more # <<>>)
    BY <1>1, <1>2, <1>3, <1>4
  <2>3. QED
    BY <2>1, <2>2 DEF MoreMirrorsHidden
<1>6. NavMenuWidth(bar) = Wide[n] /\ Wide[n] \in Nat
  BY <1>2, NavWidth, WideFacts DEF NavIs
<1>7. FitsTheHeader
  <2> SUFFICES ASSUME ~bar.stale
               PROVE  /\ bar.shown # {} => ~isOverflow(bar)
                      /\ bar.more # <<>> => NavMenuWidth(bar) + MenuWidth[Head(bar.more)] >= bar.room
    BY DEF FitsTheHeader
  <2>1. Full(r, n) /\ (n = 0 \/ Wide[n] <= r)
    BY <1>1, <1>2
  <2>2. bar.shown # {} => ~isOverflow(bar)
    <3>1. n = 0 => LeftMenus(n) = {}
      BY DEF LeftMenus
    <3>2. QED
      BY <1>2, <1>6, <2>1, <3>1 DEF isOverflow
  <2>3. ASSUME bar.more # <<>>
        PROVE  NavMenuWidth(bar) + MenuWidth[Head(bar.more)] >= bar.room
    <3>1. n < MenuCount /\ Head(bar.more) = Menus[n + 1]
      BY <1>2, <1>3, <1>4, <2>3
    <3>2. NextWide(n) >= r /\ NextWide(n) = Wide[n] + MenuWidth[Menus[n + 1]]
      <4>1. n \in 0 .. (MenuCount - 1)
        BY <3>1, MenusAre
      <4>2. QED
        BY <2>1, <3>1, <4>1, WideFacts DEF Full
    <3>3. QED
      BY <1>2, <1>6, <3>1, <3>2
  <2>4. QED
    BY <2>2, <2>3
<1>8. QED
  BY <1>5, <1>7 DEF MenusInPlace

LEMMA MenuStarts == ASSUME MenuInit PROVE MenuFine(bar)
<1>1. PICK N \in Nat : N = MenuCount
  BY MenusAre
<1>2. PICK r \in Nat, b \in BOOLEAN :
         bar = [room |-> r, shown |-> ToSet(Menus), more |-> <<>>, button |-> b, stale |-> TRUE]
  <2>1. bar \in [room : Rooms, shown : {ToSet(Menus)}, more : {<<>>}, button : BOOLEAN, stale : {TRUE}]
    BY DEF MenuInit
  <2>2. bar.room \in Nat /\ bar.button \in BOOLEAN
    BY <2>1, MoreMenuAssumption
  <2>3. bar = [room |-> bar.room, shown |-> ToSet(Menus), more |-> <<>>, button |-> bar.button, stale |-> TRUE]
    BY <2>1
  <2>4. QED
    BY <2>2, <2>3
<1>3. ToSet(Menus) = LeftMenus(N)
  BY <1>1, MenusAre DEF ToSet, LeftMenus
<1>4. RightMenus(N) = <<>> /\ N \in 0 .. MenuCount
  BY <1>1, RightNone
<1>5. bar = BarAt(r, N, b, TRUE)
  BY <1>2, <1>3, <1>4 DEF BarAt
<1>6. QED
  BY <1>4, <1>5 DEF MenuFine

LEMMA MenuStep == ASSUME MenuFine(bar), MenuNext PROVE MenuFine(bar')
<1>1. PICK r \in Nat, n \in 0 .. MenuCount, b \in BOOLEAN, s \in BOOLEAN : bar = BarAt(r, n, b, s)
  BY DEF MenuFine
<1>2. CASE \E w \in Rooms : Resize(w)
  <2>1. PICK w \in Nat : Resize(w)
    BY <1>2, MoreMenuAssumption
  <2>2. bar' = BarAt(w, n, b, TRUE)
    <3>1. PICK L : L = LeftMenus(n)
      OBVIOUS
    <3>2. PICK R : R = RightMenus(n)
      OBVIOUS
    <3>3. bar = [room |-> r, shown |-> L, more |-> R, button |-> b, stale |-> s]
      BY <1>1, <3>1, <3>2 DEF BarAt
    <3>4. bar' = [bar EXCEPT !.room = w, !.stale = TRUE]
      BY <2>1 DEF Resize
    <3>5. bar' = [room |-> w, shown |-> L, more |-> R, button |-> b, stale |-> TRUE]
      BY <3>3, <3>4
    <3>6. QED
      BY <3>1, <3>2, <3>5 DEF BarAt
  <2>3. QED
    BY <2>2 DEF MenuFine
<1>3. CASE auto
  <2>1. PICK k \in n .. MenuCount : showMenus(bar) = BarAt(r, k, b, s) /\ Full(r, k)
    BY <1>1, Shows1 DEF ShownTo
  <2>2. k \in 0 .. MenuCount
    BY <2>1, MenusAre
  <2>3. PICK m \in 0 .. MenuCount : /\ hideMenus(showMenus(bar)) = BarAt(r, m, b, s)
                                    /\ Full(r, m) /\ (m = 0 \/ Wide[m] <= r)
    BY <2>1, <2>2, Hides1 DEF HiddenTo
  <2>4. PICK L : L = LeftMenus(m)
    OBVIOUS
  <2>5. PICK R : R = RightMenus(m)
    OBVIOUS
  <2>6. PICK C : C = [room |-> r, shown |-> L, more |-> R, button |-> b, stale |-> s]
    OBVIOUS
  <2>7. hideMenus(showMenus(bar)) = C
    BY <2>3, <2>4, <2>5, <2>6 DEF BarAt
  <2>8. PICK d \in BOOLEAN : d = (R # <<>>)
    OBVIOUS
  <2>9. d = TRUE <=> m < MenuCount
    <3>1. R = <<>> <=> ~(m < MenuCount)
      BY <2>5, RightNone
    <3>2. QED
      BY <2>8, <3>1
  <2>10. bar' = [[C EXCEPT !.button = d] EXCEPT !.stale = FALSE]
    BY <1>3, <2>6, <2>7, <2>8 DEF auto, toggleMoreMenu
  <2>11. [C EXCEPT !.button = d] = [room |-> r, shown |-> L, more |-> R, button |-> d, stale |-> s]
    BY <2>6
  <2>12. bar' = [room |-> r, shown |-> L, more |-> R, button |-> d, stale |-> FALSE]
    BY <2>10, <2>11
  <2>13. bar' = BarAt(r, m, d, FALSE)
    BY <2>4, <2>5, <2>12 DEF BarAt
  <2>14. QED
    BY <2>3, <2>9, <2>13 DEF MenuFine
<1>4. QED
  BY <1>2, <1>3 DEF MenuNext

(* Whatever the menus, their widths and the resizes: the clones under       *)
(* "more" are the hidden menus in their order, and once the last resize is  *)
(* handled the bar fits and no hidden menu would fit beside it.             *)
THEOREM MenusInPlaceThm == Spec => []MenusInPlace
<1> DEFINE MenuInv == bar # Off => MenuFine(bar)
<1>1. Init => MenuInv
  BY OwnStart, MenuStarts
<1>2. MenuInv /\ [Next]_vars => MenuInv'
  <2> SUFFICES ASSUME MenuInv, [Next]_vars
               PROVE  MenuInv'
    OBVIOUS
  <2>1. CASE MenuNext
    <3>1. bar # Off
      BY <2>1 DEF MenuNext, auto, Resize
    <3>2. QED
      BY <2>1, <3>1, MenuStep
  <2>2. CASE UNCHANGED bar
    BY <2>2
  <2>3. QED
    BY <2>1, <2>2, OwnSteps
<1>3. MenuInv => MenusInPlace
  BY MenuKeeps DEF MenusInPlace, MoreMirrorsHidden, FitsTheHeader
<1>4. QED
  BY <1>1, <1>2, <1>3, PTL DEF Spec

-----------------------------------------------------------------------------
(* Number fields.                                                           *)

(* The prefixes of what Without leaves.                                     *)
Drops(up, t, S) ==
  /\ up[0] = <<>>
  /\ \A i \in 1 .. Len(t) : up[i] = IF i \in S THEN up[i - 1] ELSE Append(up[i - 1], t[i])

LEMMA WithoutLoop ==
  ASSUME NEW X, NEW t \in Seq(X), NEW S
  PROVE  \E up \in [0 .. Len(t) -> Seq(X)] : Drops(up, t, S) /\ Without(t, S) = up[Len(t)]
<1>1. PICK n \in Nat : n = Len(t)
  OBVIOUS
<1> DEFINE Turn(i, s) == IF i \in S THEN s ELSE Append(s, t[i])
           turn == [p \in (1 .. n) \X Seq(X) |-> Turn(p[1], p[2])]
           Rec(g) == [i \in 0 .. n |-> IF i = 0 THEN <<>>
                                       ELSE IF i \in S THEN g[i - 1] ELSE Append(g[i - 1], t[i])]
           kept == CHOOSE g : g = Rec(g)
<1>2. Without(t, S) = kept[n]
  BY <1>1, Zenon DEF Without
<1>3. ASSUME NEW i \in 1 .. n, NEW s \in Seq(X)
      PROVE  Turn(i, s) \in Seq(X)
  <2>1. t[i] \in X
    BY <1>1
  <2>2. QED
    BY <2>1
<1>4. turn \in [(1 .. n) \X Seq(X) -> Seq(X)]
  <2> HIDE DEF Turn
  <2>1. QED
    BY <1>3
<1>5. \A i \in 1 .. n, s \in Seq(X) : turn[<<i, s>>] = Turn(i, s)
  OBVIOUS
<1> HIDE DEF turn
<1>6. <<>> \in Seq(X)
  OBVIOUS
<1>7. PICK at \in [0 .. n -> Seq(X)] : Loops(at, n, <<>>, turn)
  BY <1>4, <1>6, LoopExists, Zenon
<1>8. ASSUME NEW i \in 1 .. n
      PROVE  at[i] = IF i \in S THEN at[i - 1] ELSE Append(at[i - 1], t[i])
  <2>1. at[i - 1] \in Seq(X)
    BY SMT
  <2>2. QED
    BY <1>5, <1>7, <2>1 DEF Loops
<1>9. at = Rec(at)
  <2>1. \A i \in 0 .. n : i # 0 => i \in 1 .. n
    BY SMT
  <2>2. \A i \in 0 .. n : at[i] = Rec(at)[i]
    BY <1>7, <1>8, <2>1 DEF Loops
  <2>3. QED
    BY <2>2
<1>10. kept = Rec(kept)
  BY <1>9, Zenon
<1> HIDE DEF kept
<1>11. kept[0] = <<>> /\ \A i \in 1 .. n : kept[i] = IF i \in S THEN kept[i - 1] ELSE Append(kept[i - 1], t[i])
  <2>1. 0 \in 0 .. n /\ \A i \in 1 .. n : i \in 0 .. n /\ i # 0
    BY SMT
  <2>2. QED
    BY <1>10, <2>1
<1> DEFINE P == {k \in 0 .. n : kept[k] = at[k]}
<1>12. 0 \in P
  BY <1>7, <1>11 DEF Loops
<1>13. ASSUME NEW k \in 0 .. (n - 1), k \in P
       PROVE  k + 1 \in P
  <2>1. PICK j \in 1 .. n : j = k + 1 /\ j - 1 = k
    BY <1>13
  <2>2. kept[j] = at[j]
    BY <1>8, <1>11, <1>13, <2>1
  <2>3. QED
    BY <2>1, <2>2
<1>14. 0 .. n \subseteq P
  <2> HIDE DEF P
  <2>1. QED
    BY <1>12, <1>13, UpTo, Zenon
<1>15. Without(t, S) = at[n]
  BY <1>2, <1>14
<1>16. Drops(at, t, S)
  BY <1>1, <1>7, <1>8 DEF Drops, Loops
<1>17. QED
  BY <1>1, <1>15, <1>16

(* r is the first n of t without the places of S; f gives the place in t of *)
(* each of r.                                                               *)
LeavesUpTo(r, t, S, f, n) ==
  /\ f \in [1 .. Len(r) -> 1 .. n]
  /\ \A j \in 1 .. Len(r) : f[j] \notin S /\ r[j] = t[f[j]]
  /\ \A j, k \in 1 .. Len(r) : j < k => f[j] < f[k]
  /\ \A i \in 1 .. n : i \notin S => \E j \in 1 .. Len(r) : f[j] = i

LEMMA LeavesMore ==
  ASSUME NEW X, NEW t \in Seq(X), NEW S, NEW n \in Nat, n < Len(t), NEW r \in Seq(X), NEW f,
         LeavesUpTo(r, t, S, f, n), NEW q,
         q = IF n + 1 \in S THEN r ELSE Append(r, t[n + 1])
  PROVE  \E g : LeavesUpTo(q, t, S, g, n + 1)
<1>1. \A i \in 1 .. (n + 1) : i \in 1 .. n \/ i = n + 1
  BY SMT
<1>2. f \in [1 .. Len(r) -> 1 .. n] /\ Len(r) \in Nat
  BY DEF LeavesUpTo
<1>3. CASE n + 1 \in S
  <2>1. f \in [1 .. Len(r) -> 1 .. (n + 1)]
    <3>1. \A i \in 1 .. n : i \in 1 .. (n + 1)
      OBVIOUS
    <3>2. QED
      BY <1>2, <3>1
  <2>2. LeavesUpTo(r, t, S, f, n + 1)
    BY <1>1, <1>3, <2>1 DEF LeavesUpTo
  <2>3. QED
    BY <1>3, <2>2
<1>4. CASE n + 1 \notin S
  <2>1. PICK len \in Nat : len = Len(r)
    OBVIOUS
  <2>2. t[n + 1] \in X
    BY SMT
  <2>3. /\ Len(q) = len + 1 /\ q[len + 1] = t[n + 1]
        /\ \A j \in 1 .. len : q[j] = r[j]
    BY <1>4, <2>1, <2>2
  <2>4. PICK g : g = [j \in 1 .. (len + 1) |-> IF j = len + 1 THEN n + 1 ELSE f[j]]
    OBVIOUS
  <2>5. \A j \in 1 .. (len + 1) : j \in 1 .. len \/ j = len + 1
    BY SMT
  <2>6. \A j \in 1 .. len : j \in 1 .. (len + 1) /\ j # len + 1 /\ j < len + 1 /\ ~(len + 1 < j)
    BY SMT
  <2>7. len + 1 \in 1 .. (len + 1) /\ g[len + 1] = n + 1 /\ \A j \in 1 .. len : g[j] = f[j]
    BY <2>4, <2>6
  <2>8. \A j \in 1 .. len : f[j] \in 1 .. n /\ f[j] < n + 1 /\ f[j] \in 1 .. (n + 1)
    BY <1>2, <2>1
  <2>9. g \in [1 .. (len + 1) -> 1 .. (n + 1)]
    <3>1. n + 1 \in 1 .. (n + 1)
      OBVIOUS
    <3>2. \A j \in 1 .. (len + 1) : g[j] \in 1 .. (n + 1)
      BY <2>5, <2>7, <2>8, <3>1
    <3>3. QED
      BY <2>4, <3>2
  <2>10. \A j \in 1 .. (len + 1) : g[j] \notin S /\ q[j] = t[g[j]]
    BY <1>4, <2>1, <2>3, <2>5, <2>7 DEF LeavesUpTo
  <2>11. \A j, k \in 1 .. (len + 1) : j < k => g[j] < g[k]
    <3> SUFFICES ASSUME NEW j \in 1 .. (len + 1), NEW k \in 1 .. (len + 1), j < k
                 PROVE  g[j] < g[k]
      OBVIOUS
    <3>1. j \in 1 .. len
      BY <2>1
    <3>2. CASE k \in 1 .. len
      BY <2>1, <2>7, <3>1, <3>2 DEF LeavesUpTo
    <3>3. CASE k = len + 1
      BY <2>7, <2>8, <3>1, <3>3
    <3>4. QED
      BY <2>5, <3>2, <3>3
  <2>12. \A i \in 1 .. (n + 1) : i \notin S => \E j \in 1 .. (len + 1) : g[j] = i
    <3> SUFFICES ASSUME NEW i \in 1 .. (n + 1), i \notin S
                 PROVE  \E j \in 1 .. (len + 1) : g[j] = i
      OBVIOUS
    <3>1. CASE i \in 1 .. n
      <4>1. PICK j \in 1 .. len : f[j] = i
        BY <2>1, <3>1 DEF LeavesUpTo
      <4>2. QED
        BY <2>6, <2>7, <4>1
    <3>2. CASE i = n + 1
      BY <2>7, <3>2
    <3>3. QED
      BY <1>1, <3>1, <3>2
  <2>13. LeavesUpTo(q, t, S, g, n + 1)
    BY <2>3, <2>9, <2>10, <2>11, <2>12 DEF LeavesUpTo
  <2>14. QED
    BY <2>13
<1>5. QED
  BY <1>3, <1>4

LEMMA WithoutIs ==
  ASSUME NEW X, NEW t \in Seq(X), NEW S, NEW r, r = Without(t, S)
  PROVE  r \in Seq(X) /\ \E f : LeavesUpTo(r, t, S, f, Len(t))
<1>1. PICK n \in Nat : n = Len(t)
  OBVIOUS
<1>2. PICK up \in [0 .. n -> Seq(X)] : Drops(up, t, S) /\ r = up[n]
  BY <1>1, WithoutLoop
<1> DEFINE P == {k \in 0 .. n : \E f : LeavesUpTo(up[k], t, S, f, k)}
<1>3. 0 \in P
  <2>1. up[0] = <<>>
    BY <1>2 DEF Drops
  <2>2. Len(<<>>) = 0 /\ \A i \in 1 .. 0 : FALSE
    BY SMT
  <2>3. PICK f : f = [j \in 1 .. 0 |-> 0]
    OBVIOUS
  <2>4. f \in [1 .. 0 -> 1 .. 0]
    BY <2>2, <2>3
  <2>5. LeavesUpTo(<<>>, t, S, f, 0)
    BY <2>2, <2>4 DEF LeavesUpTo
  <2>6. QED
    BY <2>1, <2>5
<1>4. ASSUME NEW k \in 0 .. (n - 1), k \in P
      PROVE  k + 1 \in P
  <2>1. PICK j \in 1 .. n : j = k + 1 /\ j - 1 = k
    BY <1>4
  <2>2. PICK s \in Seq(X) : s = up[k]
    BY <1>2
  <2>3. PICK f : LeavesUpTo(s, t, S, f, k)
    BY <1>4, <2>2
  <2>4. up[j] = IF k + 1 \in S THEN s ELSE Append(s, t[k + 1])
    BY <1>1, <1>2, <2>1, <2>2 DEF Drops
  <2>5. k \in Nat /\ k < Len(t)
    BY <1>1, <1>4
  <2>6. PICK g : LeavesUpTo(up[j], t, S, g, k + 1)
    BY <2>3, <2>4, <2>5, LeavesMore
  <2>7. QED
    BY <2>1, <2>6
<1>5. 0 .. n \subseteq P
  <2> HIDE DEF P
  <2>1. QED
    BY <1>3, <1>4, UpTo, Zenon
<1>6. n \in P
  BY <1>5
<1>7. QED
  BY <1>1, <1>2, <1>6

(* What comes before the first place left out stays where it is.            *)
StaysTo(r, t, f, m) == m <= Len(r) /\ \A j \in 1 .. m : f[j] = j /\ r[j] = t[j]

LEMMA PrefixStays ==
  ASSUME NEW X, NEW t \in Seq(X), NEW S, NEW r \in Seq(X), NEW f, LeavesUpTo(r, t, S, f, Len(t)),
         NEW m \in 0 .. Len(t), \A i \in 1 .. m : i \notin S
  PROVE  StaysTo(r, t, f, m)
<1>1. PICK n \in Nat : n = Len(t)
  OBVIOUS
<1>2. PICK len \in Nat : len = Len(r)
  OBVIOUS
<1>3. f \in [1 .. len -> 1 .. n] /\ \A j \in 1 .. len : r[j] = t[f[j]]
  BY <1>1, <1>2 DEF LeavesUpTo
<1>4. /\ \A j, k \in 1 .. len : j < k => f[j] < f[k]
      /\ \A i \in 1 .. n : i \notin S => \E j \in 1 .. len : f[j] = i
  BY <1>1, <1>2 DEF LeavesUpTo
<1>5. m \in 0 .. n /\ m \in Nat
  BY <1>1
<1> DEFINE P == {k \in 0 .. m : k = 0 \/ (k <= len /\ f[k] = k)}
<1>6. 0 \in P
  BY <1>5
<1>7. ASSUME NEW k \in 0 .. (m - 1), k \in P
      PROVE  k + 1 \in P
  <2>1. k + 1 \in 1 .. m /\ k + 1 \in 1 .. n /\ k \in Nat
    BY <1>5, <1>7
  <2>2. PICK x \in 1 .. len : f[x] = k + 1
    BY <1>4, <2>1
  <2>3. k < x
    <3>1. CASE k = 0
      BY <2>1, <3>1
    <3>2. CASE k # 0
      <4>1. k \in 1 .. len /\ f[k] = k
        BY <1>2, <1>7, <2>1, <3>2
      <4>2. x # k
        BY <2>1, <2>2, <4>1
      <4>3. x < k => FALSE
        <5>1. x < k => f[x] < f[k]
          BY <1>4, <4>1
        <5>2. QED
          BY <2>1, <2>2, <4>1, <5>1
      <4>4. QED
        BY <1>2, <2>1, <4>2, <4>3
    <3>3. QED
      BY <3>1, <3>2
  <2>4. x = k + 1
    <3> SUFFICES ASSUME k + 1 < x
                 PROVE  FALSE
      BY <1>2, <2>1, <2>3
    <3>1. k + 1 \in 1 .. len
      BY <1>2, <2>1
    <3>2. PICK y \in 1 .. n : y = f[k + 1]
      BY <1>3, <3>1
    <3>3. y < k + 1
      BY <1>4, <2>2, <3>1, <3>2
    <3>4. CASE k = 0
      BY <1>1, <3>3, <3>4, <3>2
    <3>5. CASE k # 0
      <4>1. k \in 1 .. len /\ f[k] = k /\ k < k + 1
        BY <1>2, <1>7, <2>1, <3>5
      <4>2. f[k] < f[k + 1]
        BY <1>4, <3>1, <4>1
      <4>3. k < y
        BY <3>2, <4>1, <4>2
      <4>4. QED
        BY <2>1, <3>3, <4>3, <3>2, <1>1
    <3>6. QED
      BY <3>4, <3>5
  <2>5. QED
    BY <1>2, <2>1, <2>2, <2>4
<1>8. 0 .. m \subseteq P
  <2> HIDE DEF P
  <2>1. QED
    BY <1>5, <1>6, <1>7, UpTo, Zenon
<1>9. \A j \in 1 .. m : j <= len /\ f[j] = j
  <2>1. \A j \in 1 .. m : j \in 0 .. m /\ j # 0
    BY <1>5
  <2>2. QED
    BY <1>8, <2>1
<1>10. m <= len
  <2>1. m = 0 \/ m \in 1 .. m
    BY <1>5
  <2>2. QED
    BY <1>2, <1>9, <2>1
<1>11. \A j \in 1 .. m : r[j] = t[j]
  <2>1. \A j \in 1 .. m : j \in 1 .. len
    BY <1>2, <1>5, <1>9
  <2>2. QED
    BY <1>3, <1>9, <2>1
<1>12. QED
  BY <1>2, <1>9, <1>10, <1>11 DEF StaysTo

Unchanged(t, S) == Without(t, S) = t

LEMMA WithoutNone ==
  ASSUME NEW X, NEW t \in Seq(X), NEW S, \A i \in 1 .. Len(t) : i \notin S
  PROVE  Unchanged(t, S)
<1>1. PICK r \in Seq(X) : r = Without(t, S) /\ \E f : LeavesUpTo(r, t, S, f, Len(t))
  BY WithoutIs
<1>2. PICK f : LeavesUpTo(r, t, S, f, Len(t))
  BY <1>1
<1>3. Len(t) \in 0 .. Len(t) /\ Len(t) \in Nat /\ Len(r) \in Nat
  OBVIOUS
<1>4. StaysTo(r, t, f, Len(t))
  BY <1>2, <1>3, PrefixStays
<1>5. Len(t) = Len(r)
  <2> SUFFICES ASSUME Len(t) < Len(r)
               PROVE  FALSE
    BY <1>3, <1>4 DEF StaysTo
  <2>1. PICK n \in Nat : n = Len(t)
    OBVIOUS
  <2>2. n + 1 \in 1 .. Len(r) /\ f[n + 1] \in 1 .. n
    BY <1>2, <1>3, <2>1 DEF LeavesUpTo
  <2>3. PICK y \in 1 .. n : y = f[n + 1]
    BY <2>2
  <2>4. y \in 1 .. Len(r) /\ y < n + 1 /\ f[y] = y
    BY <1>3, <1>4, <2>1, <2>2 DEF StaysTo
  <2>5. f[y] < f[n + 1]
    BY <1>2, <2>2, <2>4 DEF LeavesUpTo
  <2>6. QED
    BY <2>3, <2>4, <2>5
<1>6. r = t
  BY <1>4, <1>5 DEF StaysTo
<1>7. QED
  BY <1>1, <1>6 DEF Unchanged

AtMostOne(t, c) == \A i, j \in 1 .. Len(t) : t[i] = c /\ t[j] = c => i = j

(* What is left is of the same characters, none of which is there more      *)
(* often.                                                                   *)
LEMMA WithoutKeeps ==
  ASSUME NEW X, NEW t \in Seq(X), NEW S, NEW r, r = Without(t, S)
  PROVE  /\ r \in Seq(X) /\ \A i \in 1 .. Len(r) : \E j \in 1 .. Len(t) : j \notin S /\ r[i] = t[j]
         /\ \A c : AtMostOne(t, c) => AtMostOne(r, c)
         /\ 1 \notin S /\ Len(r) > 0 => r[1] = t[1]
<1>1. r \in Seq(X) /\ \E f : LeavesUpTo(r, t, S, f, Len(t))
  BY WithoutIs
<1>2. PICK f : LeavesUpTo(r, t, S, f, Len(t))
  BY <1>1
<1>3. /\ f \in [1 .. Len(r) -> 1 .. Len(t)] /\ Len(r) \in Nat /\ Len(t) \in Nat
      /\ \A j \in 1 .. Len(r) : f[j] \notin S /\ r[j] = t[f[j]]
      /\ \A j, k \in 1 .. Len(r) : j < k => f[j] < f[k]
  BY <1>1, <1>2 DEF LeavesUpTo
<1>4. \A i \in 1 .. Len(r) : \E j \in 1 .. Len(t) : j \notin S /\ r[i] = t[j]
  BY <1>3
<1>5. ASSUME NEW i \in 1 .. Len(r), NEW j \in 1 .. Len(r), f[i] = f[j]
      PROVE  i = j
  <2>1. \A y \in 1 .. Len(t) : ~(y < y)
    BY <1>3
  <2>2. ~(i < j) /\ ~(j < i)
    BY <1>3, <1>5, <2>1
  <2>3. QED
    BY <1>3, <2>2
<1>6. ASSUME NEW c, AtMostOne(t, c)
      PROVE  AtMostOne(r, c)
  <2> SUFFICES ASSUME NEW i \in 1 .. Len(r), NEW j \in 1 .. Len(r), r[i] = c, r[j] = c
               PROVE  i = j
    BY DEF AtMostOne
  <2>1. f[i] \in 1 .. Len(t) /\ f[j] \in 1 .. Len(t) /\ t[f[i]] = c /\ t[f[j]] = c
    BY <1>3
  <2>2. f[i] = f[j]
    BY <1>6, <2>1 DEF AtMostOne
  <2>3. QED
    BY <1>5, <2>2
<1>7. ASSUME 1 \notin S, Len(r) > 0
      PROVE  r[1] = t[1]
  <2>1. f[1] \in 1 .. Len(t) /\ 1 \in 1 .. Len(r)
    BY <1>3, <1>7
  <2>2. 1 \in 0 .. Len(t) /\ \A i \in 1 .. 1 : i \notin S
    BY <1>3, <1>7, <2>1
  <2>3. StaysTo(r, t, f, 1)
    BY <1>1, <1>2, <2>2, PrefixStays
  <2>4. QED
    BY <2>3 DEF StaysTo
<1>8. QED
  BY <1>1, <1>4, <1>6, <1>7

Text == Seq(Characters)
NoDotFirst(t) == Len(t) > 0 => t[1] # "."
TidyNumber(t) == t \in Text /\ AtMostOne(t, ".") /\ AtMostOne(t, "-") /\ NoDotFirst(t)

(* What is left of a text by an expression that spares its first character. *)
Spares(r, t) ==
  /\ r \in Text
  /\ \A i \in 1 .. Len(r) : \E j \in 1 .. Len(t) : r[i] = t[j]
  /\ \A c : AtMostOne(t, c) => AtMostOne(r, c)
  /\ NoDotFirst(t) => NoDotFirst(r)

LEMMA WithoutSpares ==
  ASSUME NEW t \in Text, NEW S, 1 \notin S, NEW r, r = Without(t, S)
  PROVE  Spares(r, t)
<1>1. /\ r \in Text /\ \A i \in 1 .. Len(r) : \E j \in 1 .. Len(t) : j \notin S /\ r[i] = t[j]
      /\ \A c : AtMostOne(t, c) => AtMostOne(r, c)
      /\ 1 \notin S /\ Len(r) > 0 => r[1] = t[1]
  BY WithoutKeeps DEF Text
<1>2. Len(r) > 0 => Len(t) > 0
  <2>1. Len(r) \in Nat /\ Len(t) \in Nat
    BY <1>1 DEF Text
  <2>2. Len(r) > 0 => 1 \in 1 .. Len(r)
    BY <2>1
  <2>3. QED
    BY <1>1, <2>1, <2>2
<1>3. QED
  BY <1>1, <1>2 DEF Spares, NoDotFirst

Collapses(t) == CollapseDots(t) = t
KeepsOne(t, c) == KeepFirst(t, c) = t

LEMMA CollapseOne ==
  ASSUME NEW t \in Text, AtMostOne(t, ".")
  PROVE  Collapses(t)
<1>1. PICK S : S = {i \in Positions(t, ".") : i > 1 /\ t[i - 1] = "."}
  OBVIOUS
<1>2. \A i \in 1 .. Len(t) : i \notin S
  <2> SUFFICES ASSUME NEW i \in 1 .. Len(t), i \in S
               PROVE  FALSE
    OBVIOUS
  <2>1. t[i] = "." /\ i > 1 /\ t[i - 1] = "."
    BY <1>1 DEF Positions
  <2>2. i - 1 \in 1 .. Len(t) /\ i - 1 # i
    BY <2>1 DEF Text
  <2>3. QED
    BY <2>1, <2>2 DEF AtMostOne
<1>3. Unchanged(t, S)
  BY <1>2, WithoutNone DEF Text
<1>4. QED
  BY <1>1, <1>3 DEF Collapses, CollapseDots, Unchanged

LEMMA CollapseSpares == ASSUME NEW t \in Text, NEW r, r = CollapseDots(t) PROVE Spares(r, t)
<1>1. PICK S : S = {i \in Positions(t, ".") : i > 1 /\ t[i - 1] = "."}
  OBVIOUS
<1>2. 1 \notin S /\ r = Without(t, S)
  BY <1>1 DEF CollapseDots
<1>3. QED
  BY <1>2, WithoutSpares

LEMMA KeepFirstOne ==
  ASSUME NEW t \in Text, NEW c, AtMostOne(t, c)
  PROVE  KeepsOne(t, c)
<1>1. PICK S : S = {i \in Positions(t, c) : \E j \in Positions(t, c) : j < i}
  OBVIOUS
<1>2. Len(t) \in Nat /\ DOMAIN t = 1 .. Len(t)
  BY DEF Text
<1>3. \A i \in 1 .. Len(t) : i \notin S
  <2> SUFFICES ASSUME NEW i \in 1 .. Len(t), i \in S
               PROVE  FALSE
    OBVIOUS
  <2>1. PICK j \in 1 .. Len(t) : t[i] = c /\ t[j] = c /\ j < i
    BY <1>1, <1>2 DEF Positions
  <2>2. QED
    BY <1>2, <2>1 DEF AtMostOne
<1>4. Unchanged(t, S)
  BY <1>3, WithoutNone DEF Text
<1>5. QED
  BY <1>1, <1>4 DEF KeepsOne, KeepFirst, Unchanged

LEMMA KeepFirstMakes ==
  ASSUME NEW t \in Text, NEW c, NEW r, r = KeepFirst(t, c)
  PROVE  AtMostOne(r, c) /\ Spares(r, t)
<1>1. PICK S : S = {i \in Positions(t, c) : \E j \in Positions(t, c) : j < i}
  OBVIOUS
<1>2. Len(t) \in Nat /\ DOMAIN t = 1 .. Len(t)
  BY DEF Text
<1>3. r = Without(t, S) /\ 1 \notin S
  <2>1. 1 \notin S
    BY <1>1, <1>2 DEF Positions
  <2>2. QED
    BY <1>1, <2>1 DEF KeepFirst
<1>4. r \in Text /\ \E f : LeavesUpTo(r, t, S, f, Len(t))
  BY <1>3, WithoutIs DEF Text
<1>5. PICK f : LeavesUpTo(r, t, S, f, Len(t))
  BY <1>4
<1>6. AtMostOne(r, c)
  <2> SUFFICES ASSUME NEW i \in 1 .. Len(r), NEW j \in 1 .. Len(r), r[i] = c, r[j] = c, i < j
               PROVE  FALSE
    <3>1. \A i, j \in 1 .. Len(r) : i < j \/ j < i \/ i = j
      BY <1>4 DEF Text
    <3>2. QED
      BY <3>1 DEF AtMostOne
  <2>1. /\ f[i] \in 1 .. Len(t) /\ f[j] \in 1 .. Len(t) /\ t[f[i]] = c /\ t[f[j]] = c
        /\ f[j] \notin S /\ f[i] < f[j]
    BY <1>5 DEF LeavesUpTo
  <2>2. f[j] \in S
    BY <1>1, <1>2, <2>1 DEF Positions
  <2>3. QED
    BY <2>1, <2>2
<1>7. QED
  BY <1>3, <1>6, WithoutSpares

(* The leading point goes.                                                  *)
NotTwoDots(t) == ~(Len(t) > 1 /\ t[1] = "." /\ t[2] = ".")
DropsNone(t) == DropLeadingDot(t) = t

LEMMA DropNone == ASSUME NEW t \in Text, NoDotFirst(t) PROVE DropsNone(t)
<1>1. PICK S : S = Positions(t, ".") \cap {1}
  OBVIOUS
<1>2. \A i \in 1 .. Len(t) : i \notin S
  BY <1>1 DEF Positions, NoDotFirst, Text
<1>3. Unchanged(t, S)
  BY <1>2, WithoutNone DEF Text
<1>4. QED
  BY <1>1, <1>3 DEF DropsNone, DropLeadingDot, Unchanged

LEMMA DropIs ==
  ASSUME NEW t \in Text, NotTwoDots(t), NEW r, r = DropLeadingDot(t)
  PROVE  /\ NoDotFirst(r) /\ r \in Text
         /\ \A i \in 1 .. Len(r) : \E j \in 1 .. Len(t) : r[i] = t[j]
         /\ \A c : AtMostOne(t, c) => AtMostOne(r, c)
<1>1. PICK S : S = Positions(t, ".") \cap {1}
  OBVIOUS
<1>2. r = Without(t, S)
  BY <1>1 DEF DropLeadingDot
<1>3. r \in Text /\ \E f : LeavesUpTo(r, t, S, f, Len(t))
  BY <1>2, WithoutIs DEF Text
<1>4. PICK f : LeavesUpTo(r, t, S, f, Len(t))
  BY <1>3
<1>5. Len(t) \in Nat /\ DOMAIN t = 1 .. Len(t) /\ Len(r) \in Nat
  BY <1>3 DEF Text
<1>6. /\ \A i \in 1 .. Len(r) : \E j \in 1 .. Len(t) : r[i] = t[j]
      /\ \A c : AtMostOne(t, c) => AtMostOne(r, c)
  BY <1>2, WithoutKeeps DEF Text
<1>7. CASE NoDotFirst(t)
  BY <1>7, <1>6, DropNone DEF DropsNone
<1>8. CASE ~NoDotFirst(t)
  <2>1. Len(t) > 0 /\ t[1] = "." /\ 1 \in S /\ \A i \in S : i = 1
    BY <1>1, <1>5, <1>8 DEF NoDotFirst, Positions
  <2>2. ASSUME Len(r) > 0, r[1] = "."
        PROVE  FALSE
    <3>1. 1 \in 1 .. Len(r)
      BY <1>5, <2>2
    <3>2. f[1] \in 1 .. Len(t) /\ f[1] # 1 /\ t[f[1]] = "."
      BY <1>4, <2>1, <2>2, <3>1 DEF LeavesUpTo
    <3>3. PICK y \in 1 .. Len(t) : y = f[1]
      BY <3>2
    <3>4. Len(t) > 1 /\ 2 \in 1 .. Len(t) /\ 2 \notin S
      BY <1>5, <2>1, <3>2, <3>3
    <3>5. PICK x \in 1 .. Len(r) : f[x] = 2
      BY <1>4, <3>4 DEF LeavesUpTo
    <3>6. x = 1 \/ 1 < x
      BY <1>5
    <3>7. 1 < x => y < 2
      BY <1>4, <3>1, <3>3, <3>5 DEF LeavesUpTo
    <3>8. y = 2
      BY <1>5, <3>2, <3>3, <3>5, <3>6, <3>7
    <3>9. QED
      BY <2>1, <3>2, <3>3, <3>4, <3>8 DEF NotTwoDots
  <2>3. QED
    BY <1>3, <1>6, <2>2 DEF NoDotFirst
<1>9. QED
  BY <1>7, <1>8

(* The number that loses decimals: its point, and the digits that go.       *)
CutAt(t, p, S) ==
  /\ p > 1 /\ p + 2 \in 1 .. Len(t) /\ p \in 1 .. Len(t) /\ t[p] = "."
  /\ t[p + 1] = "digit" /\ t[p + 2] = "digit"
  /\ S = RestOfNumber(t, p, 2)

CutWith(t, p, S) == CutAt(t, p, S) /\ CutDecimals(t) = Without(t, S)

LEMMA CutIs ==
  ASSUME NEW t \in Text
  PROVE  \/ CutDecimals(t) = t /\ (AfterPoint(t) <= 2 \/ PointsBefore(t, 2) = {})
         \/ \E p \in 1 .. Len(t) : \E S : CutWith(t, p, S)
<1>1. CASE AfterPoint(t) <= 2 \/ PointsBefore(t, 2) = {}
  BY <1>1 DEF CutDecimals
<1>2. CASE ~(AfterPoint(t) <= 2 \/ PointsBefore(t, 2) = {})
  <2>1. PICK p : p = Min(PointsBefore(t, 2))
    OBVIOUS
  <2>2. PICK S : S = RestOfNumber(t, p, 2)
    OBVIOUS
  <2>3. CutDecimals(t) = Without(t, S)
    BY <1>2, <2>1, <2>2 DEF CutDecimals
  <2>4. p \in PointsBefore(t, 2)
    <3>1. PICK I : I = PointsBefore(t, 2)
      OBVIOUS
    <3>2. I \in SUBSET (1 .. Len(t)) /\ I # {} /\ Len(t) \in Nat
      BY <1>2, <3>1 DEF PointsBefore, Positions, Text
    <3>3. Min(I) \in I
      BY <3>2, FirstPlace
    <3>4. QED
      BY <2>1, <3>1, <3>3
  <2>5. p \in 1 .. Len(t) /\ t[p] = "." /\ p > 1 /\ p + 2 \in 1 .. Len(t)
    BY <2>4 DEF PointsBefore, Positions, Text
  <2>6. t[p + 1] = "digit" /\ t[p + 2] = "digit"
    <3>1. \A j \in p + 1 .. p + 2 : t[j] = "digit"
      BY <2>4 DEF PointsBefore
    <3>2. p + 1 \in p + 1 .. p + 2 /\ p + 2 \in p + 1 .. p + 2
      BY <2>5
    <3>3. QED
      BY <3>1, <3>2
  <2>7. CutWith(t, p, S)
    BY <2>2, <2>3, <2>5, <2>6 DEF CutAt, CutWith
  <2>8. QED
    BY <2>5, <2>7
<1>3. QED
  BY <1>1, <1>2

LEMMA CutSpares == ASSUME NEW t \in Text, NEW r, r = CutDecimals(t) PROVE Spares(r, t)
<1>1. CASE r = t
  BY <1>1 DEF Spares
<1>2. CASE r # t
  <2>1. PICK p \in 1 .. Len(t) : \E S : CutWith(t, p, S)
    BY <1>2, CutIs
  <2>2. PICK S : CutWith(t, p, S)
    BY <2>1
  <2>3. 1 \notin S
    <3>1. \A j \in S : j > p + 2
      BY <2>2 DEF CutWith, CutAt, RestOfNumber
    <3>2. ~(1 > p + 2)
      BY <2>1
    <3>3. QED
      BY <3>1, <3>2
  <2>4. QED
    BY <2>2, <2>3, WithoutSpares DEF CutWith
<1>3. QED
  BY <1>1, <1>2

(* The digits that stay are where they were, and no digit follows them.     *)
CutStays(d, t, p) ==
  /\ d \in Text /\ p + 2 <= Len(d)
  /\ d[p] = "." /\ d[p + 1] = "digit" /\ d[p + 2] = "digit"
  /\ Len(d) > p + 2 => d[p + 3] # "digit" /\ \E i \in 1 .. Len(t) : d[p + 3] = t[i] /\ i > p + 2

LEMMA CutPlaces ==
  ASSUME NEW t \in Text, NEW p \in 1 .. Len(t), NEW S, CutWith(t, p, S), NEW d, d = CutDecimals(t)
  PROVE  CutStays(d, t, p)
<1>1. Len(t) \in Nat /\ DOMAIN t = 1 .. Len(t) /\ p \in Nat
  BY DEF Text
<1>2. CutAt(t, p, S) /\ d = Without(t, S)
  BY DEF CutWith
<1>3. p + 2 \in 1 .. Len(t) /\ t[p] = "." /\ t[p + 1] = "digit" /\ t[p + 2] = "digit"
  BY <1>2 DEF CutAt
<1>4. \A j \in 1 .. Len(t) : j \in S <=> j > p + 2 /\ \A k \in p + 1 .. j : t[k] = "digit"
  BY <1>1, <1>2 DEF CutAt, RestOfNumber
<1>5. d \in Text /\ \E f : LeavesUpTo(d, t, S, f, Len(t))
  BY <1>2, WithoutIs DEF Text
<1>6. PICK f : LeavesUpTo(d, t, S, f, Len(t))
  BY <1>5
<1>7. PICK m \in 0 .. Len(t) : m = p + 2
  BY <1>1, <1>3
<1>8. StaysTo(d, t, f, m)
  <2>1. \A i \in 1 .. m : i \notin S
    <3>1. \A i \in 1 .. m : i \in 1 .. Len(t) /\ ~(i > p + 2)
      BY <1>1, <1>7
    <3>2. QED
      BY <1>4, <3>1
  <2>2. QED
    BY <1>5, <1>6, <2>1, PrefixStays DEF Text
<1>9. m <= Len(d) /\ f[m] = m /\ d[p] = "." /\ d[p + 1] = "digit" /\ d[p + 2] = "digit"
  <2>1. m \in 1 .. m /\ p \in 1 .. m /\ p + 1 \in 1 .. m /\ p + 2 \in 1 .. m
    BY <1>1, <1>7
  <2>2. QED
    BY <1>3, <1>8, <2>1 DEF StaysTo
<1>10. ASSUME Len(d) > m
       PROVE  d[m + 1] # "digit" /\ \E i \in 1 .. Len(t) : d[m + 1] = t[i] /\ i > m
  <2>1. m \in 1 .. Len(d) /\ m + 1 \in 1 .. Len(d) /\ Len(d) \in Nat
    BY <1>1, <1>5, <1>7, <1>10 DEF Text
  <2>2. PICK x \in 1 .. Len(t) : x = f[m + 1] /\ x \notin S /\ d[m + 1] = t[x]
    BY <1>6, <2>1 DEF LeavesUpTo
  <2>3. m < x
    <3>1. f[m] < f[m + 1]
      BY <1>6, <1>7, <2>1 DEF LeavesUpTo
    <3>2. QED
      BY <1>9, <2>2, <3>1
  <2>4. ASSUME t[x] = "digit"
        PROVE  FALSE
    <3>1. x > p + 2
      BY <1>7, <2>3
    <3>2. PICK k \in p + 1 .. x : t[k] # "digit"
      BY <1>4, <2>2, <3>1
    <3>3. k \in 1 .. Len(t) /\ k # p + 1 /\ k # p + 2 /\ k # x
      BY <1>1, <1>3, <2>4, <3>2
    <3>4. k > m /\ k < x
      BY <1>1, <1>7, <3>2, <3>3
    <3>5. k \notin S
      <4>1. k \in p + 1 .. k
        BY <1>1, <3>2
      <4>2. QED
        BY <1>4, <3>2, <3>3, <4>1
    <3>6. PICK y \in 1 .. Len(d) : f[y] = k
      BY <1>6, <3>3, <3>5 DEF LeavesUpTo
    <3>7. y = m \/ y = m + 1 \/ y < m \/ m + 1 < y
      BY <1>7, <2>1, <1>1
    <3>8. y # m /\ y # m + 1
      BY <1>9, <2>2, <3>4, <3>6, <1>1, <1>7
    <3>9. y < m => k < m
      <4>1. y < m => f[y] < f[m]
        BY <1>6, <2>1 DEF LeavesUpTo
      <4>2. QED
        BY <1>9, <3>6, <4>1
    <3>10. m + 1 < y => x < k
      <4>1. m + 1 < y => f[m + 1] < f[y]
        BY <1>6, <2>1 DEF LeavesUpTo
      <4>2. QED
        BY <2>2, <3>6, <4>1
    <3>11. QED
      BY <1>1, <1>7, <3>3, <3>4, <3>7, <3>8, <3>9, <3>10
  <2>5. QED
    BY <2>2, <2>3, <2>4
<1>11. m + 1 = p + 3
  BY <1>1, <1>7
<1>12. QED
  BY <1>5, <1>7, <1>9, <1>10, <1>11 DEF CutStays

CutTwice(t) == CutDecimals(CutDecimals(t)) = CutDecimals(t)

LEMMA CutAgain ==
  ASSUME NEW t \in Text, AtMostOne(t, ".")
  PROVE  CutTwice(t)
<1>1. PICK d : d = CutDecimals(t)
  OBVIOUS
<1>2. d \in Text /\ AtMostOne(d, ".")
  BY <1>1, CutSpares DEF Spares
<1>3. CASE d = t
  BY <1>1, <1>3 DEF CutTwice
<1>4. CASE d # t
  <2>1. PICK p \in 1 .. Len(t) : \E S : CutWith(t, p, S)
    BY <1>1, <1>4, CutIs
  <2>2. CutStays(d, t, p)
    BY <1>1, <2>1, CutPlaces
  <2>3. Len(d) \in Nat /\ DOMAIN d = 1 .. Len(d) /\ p \in Nat
    BY <1>2 DEF Text
  <2>4. p \in 1 .. Len(d)
    BY <2>2, <2>3 DEF CutStays
  <2>5. CASE CutDecimals(d) # d
    <3>1. PICK q \in 1 .. Len(d) : \E S : CutWith(d, q, S)
      BY <1>2, <2>5, CutIs
    <3>2. PICK S : CutWith(d, q, S)
      BY <3>1
    <3>3. q = p
      BY <1>2, <2>2, <2>4, <3>2 DEF CutWith, CutAt, CutStays, AtMostOne
    <3>4. \A i \in 1 .. Len(d) : i \notin S
      <4> SUFFICES ASSUME NEW i \in 1 .. Len(d), i \in S
                   PROVE  FALSE
        OBVIOUS
      <4>1. i > p + 2 /\ \A k \in p + 1 .. i : d[k] = "digit"
        BY <3>2, <3>3 DEF CutWith, CutAt, RestOfNumber
      <4>2. p + 3 \in p + 1 .. i /\ Len(d) > p + 2
        BY <2>3, <4>1
      <4>3. d[p + 3] = "digit"
        BY <4>1, <4>2
      <4>4. QED
        BY <2>2, <4>2, <4>3 DEF CutStays
    <3>5. Unchanged(d, S)
      BY <1>2, <3>4, WithoutNone DEF Text
    <3>6. QED
      BY <2>5, <3>2, <3>5 DEF CutWith, Unchanged
  <2>6. QED
    BY <1>1, <2>5 DEF CutTwice
<1>5. QED
  BY <1>3, <1>4

(* The only point of a text is where its first is found.                    *)
LEMMA PointAt ==
  ASSUME NEW t \in Text, AtMostOne(t, "."), NEW p \in 1 .. Len(t), t[p] = "."
  PROVE  Positions(t, ".") = {p} /\ AfterPoint(t) = Len(t) - p
<1>1. DOMAIN t = 1 .. Len(t) /\ Len(t) \in Nat
  BY DEF Text
<1>2. Positions(t, ".") = {p}
  BY <1>1 DEF Positions, AtMostOne
<1>3. {p} \in SUBSET (1 .. Len(t)) /\ {p} # {}
  OBVIOUS
<1>4. Min({p}) = p
  BY <1>1, <1>3, FirstPlace
<1>5. QED
  BY <1>2, <1>4 DEF AfterPoint

Decimals(d) == Positions(d, ".") = {} \/ AfterPoint(d) <= 2

LEMMA CutClean ==
  ASSUME NEW t \in Text, AtMostOne(t, "."), NoDotFirst(t), \A i \in 1 .. Len(t) : t[i] \in {"digit", "."}
  PROVE  Decimals(CutDecimals(t))
<1>1. PICK d : d = CutDecimals(t)
  OBVIOUS
<1>2. d \in Text /\ AtMostOne(d, ".")
  BY <1>1, CutSpares DEF Spares
<1>3. DOMAIN t = 1 .. Len(t) /\ Len(t) \in Nat
  BY DEF Text
<1>4. CASE d = t /\ (AfterPoint(t) <= 2 \/ PointsBefore(t, 2) = {})
  <2>1. CASE \A i \in 1 .. Len(t) : t[i] # "."
    BY <1>1, <1>3, <1>4, <2>1 DEF Decimals, Positions
  <2>2. CASE ~\A i \in 1 .. Len(t) : t[i] # "."
    <3>1. PICK p \in 1 .. Len(t) : t[p] = "."
      BY <2>2
    <3>2. Positions(t, ".") = {p} /\ AfterPoint(t) = Len(t) - p
      BY <3>1, PointAt
    <3>3. p > 1
      BY <1>3, <3>1 DEF NoDotFirst
    <3>4. ASSUME Len(t) - p > 2
          PROVE  FALSE
      <4>1. p + 2 \in 1 .. Len(t)
        BY <1>3, <3>4
      <4>2. \A j \in {p - 1} \cup (p + 1 .. p + 2) : j \in 1 .. Len(t) /\ j # p
        BY <1>3, <3>3, <4>1
      <4>3. \A j \in {p - 1} \cup (p + 1 .. p + 2) : t[j] = "digit"
        BY <3>1, <4>2 DEF AtMostOne
      <4>4. p \in PointsBefore(t, 2)
        BY <1>3, <3>2, <3>3, <4>1, <4>3 DEF PointsBefore
      <4>5. QED
        BY <1>4, <3>2, <3>4, <4>4, <1>3
    <3>5. QED
      BY <1>1, <1>3, <1>4, <3>2, <3>4 DEF Decimals
  <2>3. QED
    BY <2>1, <2>2
<1>5. CASE \E p \in 1 .. Len(t) : \E S : CutWith(t, p, S)
  <2>1. PICK p \in 1 .. Len(t) : \E S : CutWith(t, p, S)
    BY <1>5
  <2>2. CutStays(d, t, p)
    BY <1>1, <2>1, CutPlaces
  <2>3. t[p] = "."
    BY <2>1 DEF CutWith, CutAt
  <2>4. Len(d) \in Nat /\ p \in 1 .. Len(d) /\ d[p] = "."
    BY <1>2, <1>3, <2>2 DEF CutStays, Text
  <2>5. ASSUME Len(d) > p + 2
        PROVE  FALSE
    <3>1. PICK i \in 1 .. Len(t) : d[p + 3] = t[i] /\ i > p + 2 /\ d[p + 3] # "digit"
      BY <2>2, <2>5 DEF CutStays
    <3>2. t[i] = "." /\ i # p
      BY <1>3, <3>1
    <3>3. QED
      BY <2>3, <3>2 DEF AtMostOne
  <2>6. AfterPoint(d) = Len(d) - p
    BY <1>2, <2>4, PointAt
  <2>7. QED
    BY <1>1, <1>3, <2>4, <2>5, <2>6 DEF Decimals
<1>6. QED
  BY <1>1, <1>4, <1>5, CutIs

(* The first expression: what is left is allowed, and what is allowed stays.*)
Filtered(kind, t) == Without(t, {i \in DOMAIN t : t[i] \notin Allowed[kind]})
AllowedText(kind, t) == \A i \in 1 .. Len(t) : t[i] \in Allowed[kind]
Integer == {"checkToInt", "checkToIntAndEn"}
Number == {"checkNum", "checkDigit"}
SettledText(kind, t) == Checked(kind, t) = t

LEMMA Kinds ==
  /\ DOMAIN Allowed = Integer \cup Number /\ Integer \cap Number = {}
  /\ Allowed["checkNum"] = {"digit", "."}
BY DEF Allowed, Integer, Number

LEMMA FilteredIs ==
  ASSUME NEW t \in Text, NEW kind, NEW r, r = Filtered(kind, t)
  PROVE  /\ r \in Text /\ AllowedText(kind, r)
         /\ \A c : AtMostOne(t, c) => AtMostOne(r, c)
         /\ AllowedText(kind, t) => r = t
<1>1. PICK S : S = {i \in DOMAIN t : t[i] \notin Allowed[kind]}
  OBVIOUS
<1>2. r = Without(t, S)
  BY <1>1 DEF Filtered
<1>3. DOMAIN t = 1 .. Len(t)
  BY DEF Text
<1>4. /\ r \in Text /\ \A i \in 1 .. Len(r) : \E j \in 1 .. Len(t) : j \notin S /\ r[i] = t[j]
      /\ \A c : AtMostOne(t, c) => AtMostOne(r, c)
  BY <1>2, WithoutKeeps DEF Text
<1>5. AllowedText(kind, r)
  BY <1>1, <1>3, <1>4 DEF AllowedText
<1>6. ASSUME AllowedText(kind, t)
      PROVE  r = t
  <2>1. \A i \in 1 .. Len(t) : i \notin S
    BY <1>1, <1>6 DEF AllowedText
  <2>2. Unchanged(t, S)
    BY <2>1, WithoutNone DEF Text
  <2>3. QED
    BY <1>2, <2>2 DEF Unchanged
<1>7. QED
  BY <1>4, <1>5, <1>6

(* A text whose characters are some of another's is allowed when that is.   *)
LEMMA AllowedPart ==
  ASSUME NEW kind, NEW t, NEW r, \A i \in 1 .. Len(r) : \E j \in 1 .. Len(t) : r[i] = t[j],
         AllowedText(kind, t)
  PROVE  AllowedText(kind, r)
BY DEF AllowedText

(* The whole numbers.                                                       *)
LEMMA IntegerIs ==
  ASSUME NEW kind \in Integer, NEW t \in Text, NEW r, r = Checked(kind, t)
  PROVE  r \in Text /\ AllowedText(kind, r) /\ SettledText(kind, r)
<1>1. \A s : Checked(kind, s) = Filtered(kind, s)
  BY DEF Checked, Filtered, Integer
<1>2. r \in Text /\ AllowedText(kind, r)
  BY <1>1, FilteredIs
<1>3. PICK q : q = Filtered(kind, r)
  OBVIOUS
<1>4. q = r
  BY <1>2, <1>3, FilteredIs
<1>5. QED
  BY <1>1, <1>2, <1>3, <1>4 DEF SettledText

(* The five expressions of a number, one after the other.                   *)
Rewrites(kind, t, a, b, c, d, e, r) ==
  /\ a = Filtered(kind, t) /\ b = DropLeadingDot(a) /\ c = CollapseDots(b)
  /\ d = CutDecimals(c) /\ e = KeepFirst(d, ".") /\ r = KeepFirst(e, "-")

LEMMA NumberIs ==
  ASSUME NEW kind \in Number, NEW t, NEW a, NEW b, NEW c, NEW d, NEW e, NEW r,
         Rewrites(kind, t, a, b, c, d, e, r)
  PROVE  r = Checked(kind, t)
BY DEF Checked, Filtered, Number, Rewrites

(* A text with one point and one minus at most comes clean: the handler     *)
(* changes nothing of what it left.                                         *)
LEMMA NumberClean ==
  ASSUME NEW kind \in Number, NEW t \in Text, AtMostOne(t, "."), AtMostOne(t, "-"),
         NEW r, r = Checked(kind, t)
  PROVE  /\ TidyNumber(r) /\ AllowedText(kind, r) /\ SettledText(kind, r)
         /\ kind = "checkNum" => Decimals(r)
<1>1. PICK a : a = Filtered(kind, t)
  OBVIOUS
<1>2. a \in Text /\ AllowedText(kind, a) /\ AtMostOne(a, ".") /\ AtMostOne(a, "-")
  BY <1>1, FilteredIs
<1>3. PICK b : b = DropLeadingDot(a)
  OBVIOUS
<1>4. NotTwoDots(a)
  BY <1>2 DEF NotTwoDots, AtMostOne, Text
<1>5. /\ NoDotFirst(b) /\ b \in Text /\ AtMostOne(b, ".") /\ AtMostOne(b, "-")
      /\ \A i \in 1 .. Len(b) : \E j \in 1 .. Len(a) : b[i] = a[j]
  BY <1>2, <1>3, <1>4, DropIs
<1>6. AllowedText(kind, b)
  BY <1>2, <1>5, AllowedPart
<1>7. Collapses(b)
  BY <1>5, CollapseOne
<1>8. PICK d : d = CutDecimals(b)
  OBVIOUS
<1>9. Spares(d, b)
  BY <1>5, <1>8, CutSpares
<1>10. d \in Text /\ NoDotFirst(d) /\ AtMostOne(d, ".") /\ AtMostOne(d, "-") /\ AllowedText(kind, d)
  BY <1>5, <1>6, <1>9, AllowedPart DEF Spares
<1>11. KeepsOne(d, ".") /\ KeepsOne(d, "-")
  BY <1>10, KeepFirstOne
<1>12. Rewrites(kind, t, a, b, b, d, d, d)
  BY <1>1, <1>3, <1>7, <1>8, <1>11 DEF Rewrites, Collapses, KeepsOne
<1>13. r = d
  BY <1>12, NumberIs
<1>14. SettledText(kind, d)
  <2>1. PICK q : q = Filtered(kind, d)
    OBVIOUS
  <2>2. q = d
    BY <1>10, <2>1, FilteredIs
  <2>3. DropsNone(d) /\ Collapses(d) /\ CutTwice(b)
    BY <1>5, <1>10, DropNone, CollapseOne, CutAgain
  <2>4. CutDecimals(d) = d
    BY <1>8, <2>3 DEF CutTwice
  <2>5. Rewrites(kind, d, d, d, d, d, d, d)
    BY <1>11, <2>1, <2>2, <2>3, <2>4 DEF Rewrites, DropsNone, Collapses, KeepsOne
  <2>6. QED
    BY <2>5, NumberIs DEF SettledText
<1>15. ASSUME kind = "checkNum"
       PROVE  Decimals(d)
  <2>1. \A i \in 1 .. Len(b) : b[i] \in {"digit", "."}
    BY <1>6, <1>15, Kinds DEF AllowedText
  <2>2. QED
    BY <1>5, <1>8, <2>1, CutClean
<1>16. QED
  BY <1>10, <1>13, <1>14, <1>15 DEF TidyNumber

(* A second mark, typed anywhere, goes as well; only the decimals may have  *)
(* to wait.                                                                 *)
LEMMA NumberAgain ==
  ASSUME NEW kind \in Number, NEW t \in Text, AllowedText(kind, t), NotTwoDots(t),
         NEW r, r = Checked(kind, t)
  PROVE  TidyNumber(r) /\ AllowedText(kind, r)
<1>1. PICK a : a = Filtered(kind, t)
  OBVIOUS
<1>2. a = t
  BY <1>1, FilteredIs
<1>3. PICK b : b = DropLeadingDot(a)
  OBVIOUS
<1>4. /\ NoDotFirst(b) /\ b \in Text
      /\ \A i \in 1 .. Len(b) : \E j \in 1 .. Len(t) : b[i] = t[j]
  BY <1>2, <1>3, DropIs
<1>5. AllowedText(kind, b)
  BY <1>4, AllowedPart
<1>6. PICK c : c = CollapseDots(b)
  OBVIOUS
<1>7. Spares(c, b)
  BY <1>4, <1>6, CollapseSpares
<1>8. c \in Text /\ NoDotFirst(c) /\ AllowedText(kind, c)
  BY <1>4, <1>5, <1>7, AllowedPart DEF Spares
<1>9. PICK d : d = CutDecimals(c)
  OBVIOUS
<1>10. Spares(d, c)
  BY <1>8, <1>9, CutSpares
<1>11. d \in Text /\ NoDotFirst(d) /\ AllowedText(kind, d)
  BY <1>8, <1>10, AllowedPart DEF Spares
<1>12. PICK e : e = KeepFirst(d, ".")
  OBVIOUS
<1>13. AtMostOne(e, ".") /\ Spares(e, d)
  BY <1>11, <1>12, KeepFirstMakes
<1>14. e \in Text /\ NoDotFirst(e) /\ AllowedText(kind, e)
  BY <1>11, <1>13, AllowedPart DEF Spares
<1>15. PICK q : q = KeepFirst(e, "-")
  OBVIOUS
<1>16. AtMostOne(q, "-") /\ Spares(q, e)
  BY <1>14, <1>15, KeepFirstMakes
<1>17. q \in Text /\ NoDotFirst(q) /\ AllowedText(kind, q) /\ AtMostOne(q, ".")
  BY <1>13, <1>14, <1>16, AllowedPart DEF Spares
<1>18. Rewrites(kind, t, a, b, c, d, e, q)
  BY <1>1, <1>3, <1>6, <1>9, <1>12, <1>15 DEF Rewrites
<1>19. r = q
  BY <1>18, NumberIs
<1>20. QED
  BY <1>16, <1>17, <1>19 DEF TidyNumber

(* A character typed at a place of the text.                                *)
LEMMA Typed ==
  ASSUME NEW t \in Text, NEW i \in 1 .. (Len(t) + 1), NEW c \in Characters,
         NEW r, r = InsertAt(t, i, c)
  PROVE  /\ r \in Text /\ Len(r) = Len(t) + 1
         /\ \A j \in 1 .. Len(r) : /\ j < i => r[j] = t[j]
                                   /\ j = i => r[j] = c
                                   /\ j > i => r[j] = t[j - 1]
<1>1. Len(t) \in Nat /\ i \in Nat
  BY DEF Text
<1>2. PICK a : a = SubSeq(t, 1, i - 1)
  OBVIOUS
<1>3. a \in Text /\ Len(a) = i - 1 /\ \A j \in 1 .. (i - 1) : a[j] = t[j]
  BY <1>1, <1>2 DEF Text
<1>4. PICK z : z = SubSeq(t, i, Len(t))
  OBVIOUS
<1>5. z \in Text /\ Len(z) = Len(t) - i + 1 /\ \A j \in 1 .. (Len(t) - i + 1) : z[j] = t[i + j - 1]
  BY <1>1, <1>4 DEF Text
<1>6. PICK m : m = a \o <<c>>
  OBVIOUS
<1>7. m \in Text /\ Len(m) = i /\ m[i] = c /\ \A j \in 1 .. (i - 1) : m[j] = t[j]
  BY <1>1, <1>3, <1>6 DEF Text
<1>8. r = m \o z
  BY <1>2, <1>4, <1>6 DEF InsertAt
<1>9. r \in Text /\ Len(r) = Len(t) + 1
  <2>1. r \in Seq(Characters)
    BY <1>5, <1>7, <1>8 DEF Text
  <2>2. Len(r) = Len(m) + Len(z)
    BY <1>5, <1>7, <1>8 DEF Text
  <2>3. QED
    BY <1>1, <1>5, <1>7, <2>1, <2>2 DEF Text
<1>10. \A j \in 1 .. Len(r) : j <= i => r[j] = m[j]
  BY <1>1, <1>5, <1>7, <1>8, <1>9 DEF Text
<1>11. ASSUME NEW j \in 1 .. Len(r), j > i
       PROVE  r[j] = t[j - 1]
  <2>1. PICK k \in 1 .. (Len(t) - i + 1) : k = j - i
    BY <1>1, <1>9, <1>11
  <2>2. r[j] = z[k]
    BY <1>1, <1>5, <1>7, <1>8, <1>9, <1>11, <2>1 DEF Text
  <2>3. z[k] = t[i + k - 1] /\ i + k - 1 = j - 1
    BY <1>1, <1>5, <2>1
  <2>4. QED
    BY <2>2, <2>3
<1>12. QED
  BY <1>1, <1>7, <1>9, <1>10, <1>11

(* What is typed is of the text's characters and the new one; a mark the    *)
(* text has not yet is there once, and another's number is as it was.       *)
LEMMA TypedKeeps ==
  ASSUME NEW t \in Text, NEW i \in 1 .. (Len(t) + 1), NEW c \in Characters,
         NEW r, r = InsertAt(t, i, c)
  PROVE  /\ r \in Text
         /\ \A j \in 1 .. Len(r) : r[j] = c \/ \E k \in 1 .. Len(t) : r[j] = t[k]
         /\ \A m : AtMostOne(t, m) /\ (m # c \/ Positions(t, m) = {}) => AtMostOne(r, m)
         /\ NoDotFirst(t) => NotTwoDots(r)
<1>1. /\ r \in Text /\ Len(r) = Len(t) + 1
      /\ \A j \in 1 .. Len(r) : /\ j < i => r[j] = t[j]
                                /\ j = i => r[j] = c
                                /\ j > i => r[j] = t[j - 1]
  BY Typed
<1>2. Len(t) \in Nat /\ i \in Nat /\ DOMAIN t = 1 .. Len(t)
  BY DEF Text
<1>3. \A j \in 1 .. Len(r) : /\ j < i => j \in 1 .. Len(t)
                             /\ j > i => j - 1 \in 1 .. Len(t)
                             /\ j < i \/ j = i \/ j > i
  BY <1>1, <1>2
<1>4. \A j \in 1 .. Len(r) : r[j] = c \/ \E k \in 1 .. Len(t) : r[j] = t[k]
  BY <1>1, <1>3
<1>5. ASSUME NEW m, AtMostOne(t, m), m # c \/ Positions(t, m) = {}
      PROVE  AtMostOne(r, m)
  <2> SUFFICES ASSUME NEW x \in 1 .. Len(r), NEW y \in 1 .. Len(r), r[x] = m, r[y] = m
               PROVE  x = y
    BY DEF AtMostOne
  <2>1. CASE m # c
    <3>1. x # i /\ y # i
      BY <1>1, <2>1
    <3>2. \A j \in 1 .. Len(r) : j = i \/ (j < i /\ t[j] = r[j] /\ j \in 1 .. Len(t))
                                 \/ (j > i /\ t[j - 1] = r[j] /\ j - 1 \in 1 .. Len(t))
      BY <1>1, <1>3
    <3>3. x < i /\ y < i => x = y
      BY <1>5, <3>2, <1>1, <1>2 DEF AtMostOne
    <3>4. x > i /\ y > i => x - 1 = y - 1
      BY <1>5, <3>2, <1>1, <1>2 DEF AtMostOne
    <3>5. ~(x < i /\ y > i)
      <4>1. x < i /\ y > i => x = y - 1
        BY <1>5, <3>2, <1>1, <1>2 DEF AtMostOne
      <4>2. QED
        BY <4>1, <1>2
    <3>6. ~(y < i /\ x > i)
      <4>1. y < i /\ x > i => y = x - 1
        BY <1>5, <3>2, <1>1, <1>2 DEF AtMostOne
      <4>2. QED
        BY <4>1, <1>2
    <3>7. QED
      BY <1>2, <3>1, <3>3, <3>4, <3>5, <3>6
  <2>2. CASE Positions(t, m) = {}
    <3>1. \A k \in 1 .. Len(t) : t[k] # m
      BY <1>2, <2>2 DEF Positions
    <3>2. x = i /\ y = i
      BY <1>1, <1>3, <3>1
    <3>3. QED
      BY <3>2
  <2>3. QED
    BY <1>5, <2>1, <2>2
<1>6. ASSUME NoDotFirst(t), Len(r) > 1, r[1] = ".", r[2] = "."
      PROVE  FALSE
  <2>1. 1 \in 1 .. Len(r) /\ 2 \in 1 .. Len(r) /\ Len(t) > 0 /\ t[1] # "."
    BY <1>1, <1>2, <1>6 DEF NoDotFirst
  <2>2. 1 < i => r[1] = t[1]
    BY <1>1, <2>1
  <2>3. 2 > i => r[2] = t[1]
    BY <1>1, <2>1
  <2>4. 1 < i \/ 2 > i
    BY <1>2
  <2>5. QED
    BY <1>6, <2>1, <2>2, <2>3, <2>4
<1>7. QED
  BY <1>1, <1>4, <1>5, <1>6 DEF NotTwoDots

FieldStates == [kind : DOMAIN Allowed, text : Text, cursor : Nat, again : BOOLEAN]

(* The cursor is in the text, whose characters the handler allows; a number *)
(* has one point and one minus at most and no point in front; and unless a  *)
(* second mark was typed, the handler has nothing left to do.               *)
FieldFine(F) ==
  /\ F \in FieldStates /\ F.cursor <= Len(F.text)
  /\ AllowedText(F.kind, F.text)
  /\ F.kind \in Number => TidyNumber(F.text)
  /\ F.again = FALSE => /\ SettledText(F.kind, F.text)
                        /\ F.kind = "checkNum" => Decimals(F.text)

(* What a handler may meet: a text with at most one of each mark, or one    *)
(* with a second mark just typed.                                           *)
Meets(kind, t, again) ==
  kind \in Number =>
    IF again = TRUE THEN AllowedText(kind, t) /\ NotTwoDots(t)
    ELSE AtMostOne(t, ".") /\ AtMostOne(t, "-")

LEMMA HandledFine ==
  ASSUME NEW F \in FieldStates, NEW t \in Text, NEW pos \in Nat, NEW again \in BOOLEAN,
         Meets(F.kind, t, again), NEW G, G = Handled(F, t, pos, again)
  PROVE  FieldFine(G)
<1>1. PICK kind \in Integer \cup Number : kind = F.kind
  BY Kinds DEF FieldStates
<1>2. PICK r : r = Checked(kind, t)
  OBVIOUS
<1>3. /\ r \in Text /\ AllowedText(kind, r)
      /\ kind \in Number => TidyNumber(r)
      /\ again = FALSE => SettledText(kind, r) /\ (kind = "checkNum" => Decimals(r))
  <2>1. CASE kind \in Integer
    <3>1. r \in Text /\ AllowedText(kind, r) /\ SettledText(kind, r)
      BY <1>2, <2>1, IntegerIs
    <3>2. kind \notin Number /\ kind # "checkNum"
      BY <2>1 DEF Integer, Number
    <3>3. QED
      BY <3>1, <3>2
  <2>2. CASE kind \in Number /\ again = TRUE
    <3>1. AllowedText(kind, t) /\ NotTwoDots(t)
      BY <1>1, <2>2 DEF Meets
    <3>2. TidyNumber(r) /\ AllowedText(kind, r)
      BY <1>2, <2>2, <3>1, NumberAgain
    <3>3. QED
      BY <2>2, <3>2 DEF TidyNumber
  <2>3. CASE kind \in Number /\ again = FALSE
    <3>1. AtMostOne(t, ".") /\ AtMostOne(t, "-")
      BY <1>1, <2>3 DEF Meets
    <3>2. /\ TidyNumber(r) /\ AllowedText(kind, r) /\ SettledText(kind, r)
          /\ kind = "checkNum" => Decimals(r)
      BY <1>2, <2>3, <3>1, NumberClean
    <3>3. QED
      BY <3>2 DEF TidyNumber
  <2>4. QED
    BY <2>1, <2>2, <2>3
<1>4. PICK n \in Nat : n = Len(r)
  BY <1>3 DEF Text
<1>5. PICK cursor : cursor = Min({pos, n})
  OBVIOUS
<1>6. cursor \in {pos, n} /\ cursor <= n
  <2>1. \E x \in {pos, n} : \A y \in {pos, n} : x <= y
    BY SMT
  <2>2. Min({pos, n}) \in {pos, n} /\ \A i \in {pos, n} : Min({pos, n}) <= i
    BY <2>1 DEF Min
  <2>3. QED
    BY <1>5, <2>2
<1>7. cursor \in Nat
  BY <1>6
<1>8. G = [[[F EXCEPT !.text = r] EXCEPT !.cursor = cursor] EXCEPT !.again = again]
  BY <1>1, <1>2, <1>4, <1>5 DEF Handled
<1>9. PICK A \in FieldStates : A = [F EXCEPT !.text = r] /\ A.kind = kind /\ A.text = r
  <2>1. [F EXCEPT !.text = r] \in FieldStates
    BY <1>3 DEF FieldStates
  <2>2. QED
    BY <1>1, <2>1 DEF FieldStates
<1>10. PICK B \in FieldStates : /\ B = [A EXCEPT !.cursor = cursor]
                                /\ B.kind = kind /\ B.text = r /\ B.cursor = cursor
  <2>1. [A EXCEPT !.cursor = cursor] \in FieldStates
    BY <1>7 DEF FieldStates
  <2>2. QED
    BY <1>9, <2>1 DEF FieldStates
<1>11. G = [B EXCEPT !.again = again]
  BY <1>8, <1>9, <1>10
<1>12. /\ G \in FieldStates /\ G.kind = kind /\ G.text = r /\ G.cursor = cursor
       /\ G.again = again
  BY <1>10, <1>11 DEF FieldStates
<1>13. QED
  BY <1>3, <1>4, <1>6, <1>12 DEF FieldFine

LEMMA AmountStarts == ASSUME AmountInit PROVE FieldFine(field)
<1>1. <<>> \in Text /\ Len(<<>>) = 0
  BY DEF Text
<1>2. PICK t \in Text : t = <<>>
  BY <1>1
<1>3. /\ field \in FieldStates /\ field.text = t /\ field.cursor = 0
  <2>1. field \in [kind : DOMAIN Allowed, text : {t}, cursor : {0}, again : {FALSE}]
    BY <1>2 DEF AmountInit
  <2>2. PICK x \in DOMAIN Allowed : field = [kind |-> x, text |-> t, cursor |-> 0, again |-> FALSE]
    BY <2>1
  <2>3. [kind |-> x, text |-> t, cursor |-> 0, again |-> FALSE] \in FieldStates
    BY DEF FieldStates
  <2>4. QED
    BY <2>2, <2>3
<1>4. Len(t) = 0 /\ \A i \in 1 .. Len(t) : FALSE
  <2>1. Len(t) = 0
    BY <1>1, <1>2
  <2>2. QED
    BY <2>1
<1>5. PICK kind \in Integer \cup Number : kind = field.kind
  BY <1>3, Kinds DEF FieldStates
<1>6. AllowedText(kind, t) /\ TidyNumber(t)
  BY <1>4 DEF AllowedText, TidyNumber, AtMostOne, NoDotFirst
<1>7. SettledText(kind, t)
  <2>1. PICK q : q = Filtered(kind, t)
    OBVIOUS
  <2>2. q = t
    BY <1>6, <2>1, FilteredIs
  <2>3. CASE kind \in Integer
    BY <2>1, <2>2, <2>3 DEF SettledText, Checked, Filtered, Integer
  <2>4. CASE kind \in Number
    <3>1. DropsNone(t) /\ Collapses(t) /\ KeepsOne(t, ".") /\ KeepsOne(t, "-")
      BY <1>6, DropNone, CollapseOne, KeepFirstOne DEF TidyNumber
    <3>2. CutDecimals(t) = t
      BY <1>4, CutIs
    <3>3. Rewrites(kind, t, t, t, t, t, t, t)
      BY <2>1, <2>2, <3>1, <3>2 DEF Rewrites, DropsNone, Collapses, KeepsOne
    <3>4. QED
      BY <2>4, <3>3, NumberIs DEF SettledText
  <2>5. QED
    BY <2>3, <2>4
<1>8. Decimals(t)
  BY <1>4 DEF Decimals, Positions, Text
<1>9. QED
  BY <1>3, <1>4, <1>5, <1>6, <1>7, <1>8 DEF FieldFine

(* A key press runs the handler on the text with the character in it.       *)
LEMMA KeyKeeps ==
  ASSUME FieldFine(field), NEW c \in Characters, Key(c)
  PROVE  FieldFine(field')
<1>1. /\ field \in FieldStates /\ field.cursor <= Len(field.text)
      /\ AllowedText(field.kind, field.text)
      /\ field.kind \in Number => TidyNumber(field.text)
  BY DEF FieldFine
<1>2. PICK t \in Text : t = field.text
  BY <1>1 DEF FieldStates
<1>3. PICK pos \in Nat : pos = field.cursor
  BY <1>1 DEF FieldStates
<1>4. PICK kind : kind = field.kind
  OBVIOUS
<1>5. pos + 1 \in 1 .. (Len(t) + 1) /\ pos + 1 \in Nat
  <2>1. Len(t) \in Nat /\ pos <= Len(t)
    BY <1>1, <1>2, <1>3 DEF Text
  <2>2. QED
    BY <2>1
<1>6. PICK i \in 1 .. (Len(t) + 1) : i = pos + 1
  BY <1>5
<1>7. PICK r : r = InsertAt(t, i, c)
  OBVIOUS
<1>8. /\ r \in Text
      /\ \A j \in 1 .. Len(r) : r[j] = c \/ \E k \in 1 .. Len(t) : r[j] = t[k]
      /\ \A m : AtMostOne(t, m) /\ (m # c \/ Positions(t, m) = {}) => AtMostOne(r, m)
      /\ NoDotFirst(t) => NotTwoDots(r)
  BY <1>7, TypedKeeps
<1>9. PICK again \in BOOLEAN : again = (c \in {".", "-"} /\ Positions(t, c) # {})
  OBVIOUS
<1>10. Meets(kind, r, again)
  <2> SUFFICES ASSUME kind \in Number
               PROVE  IF again = TRUE THEN AllowedText(kind, r) /\ NotTwoDots(r)
                      ELSE AtMostOne(r, ".") /\ AtMostOne(r, "-")
    BY DEF Meets
  <2>1. TidyNumber(t)
    BY <1>1, <1>2, <1>4
  <2>2. CASE again = TRUE
    <3>1. PICK k \in 1 .. Len(t) : t[k] = c
      <4>1. Positions(t, c) # {}
        BY <1>9, <2>2
      <4>2. DOMAIN t = 1 .. Len(t)
        BY DEF Text
      <4>3. QED
        BY <4>1, <4>2 DEF Positions
    <3>2. c \in Allowed[kind]
      BY <1>1, <1>2, <1>4, <3>1 DEF AllowedText
    <3>3. AllowedText(kind, r)
      BY <1>1, <1>2, <1>4, <1>8, <3>2 DEF AllowedText
    <3>4. QED
      BY <1>8, <2>1, <2>2, <3>3 DEF TidyNumber
  <2>3. CASE again = FALSE
    <3>1. \A m \in {".", "-"} : m # c \/ Positions(t, m) = {}
      BY <1>9, <2>3
    <3>2. QED
      BY <1>8, <2>1, <2>3, <3>1 DEF TidyNumber
  <2>4. QED
    BY <2>2, <2>3
<1>11. field' = Handled(field, r, pos + 1, again)
  BY <1>2, <1>3, <1>6, <1>7, <1>9 DEF Key
<1>12. PICK G : G = Handled(field, r, i, again)
  OBVIOUS
<1>13. FieldFine(G)
  <2>1. i \in Nat
    BY <1>5, <1>6
  <2>2. QED
    BY <1>1, <1>4, <1>8, <1>10, <1>12, <2>1, HandledFine
<1>14. QED
  BY <1>6, <1>11, <1>12, <1>13

LEMMA BackspaceKeeps ==
  ASSUME FieldFine(field), Backspace
  PROVE  FieldFine(field')
<1>1. /\ field \in FieldStates
      /\ field.kind \in Number => TidyNumber(field.text)
  BY DEF FieldFine
<1>2. PICK t \in Text : t = field.text
  BY <1>1 DEF FieldStates
<1>3. PICK pos \in Nat : pos = field.cursor /\ pos > 0
  BY <1>1 DEF FieldStates, Backspace
<1>4. PICK r : r = Without(t, {pos})
  OBVIOUS
<1>5. r \in Text /\ \A c : AtMostOne(t, c) => AtMostOne(r, c)
  BY <1>4, WithoutKeeps DEF Text
<1>6. Meets(field.kind, r, FALSE)
  BY <1>1, <1>2, <1>5 DEF Meets, TidyNumber
<1>7. PICK k \in Nat : k = pos - 1
  BY <1>3
<1>8. PICK G : G = Handled(field, r, k, FALSE)
  OBVIOUS
<1>9. FieldFine(G)
  BY <1>1, <1>5, <1>6, <1>8, HandledFine
<1>10. QED
  BY <1>2, <1>3, <1>4, <1>7, <1>8, <1>9 DEF Backspace

LEMMA ArrowKeeps ==
  ASSUME FieldFine(field), NEW pos \in Nat, Arrow(pos)
  PROVE  FieldFine(field')
<1>1. /\ field \in FieldStates
      /\ field.kind \in Number => TidyNumber(field.text)
  BY DEF FieldFine
<1>2. PICK t \in Text : t = field.text
  BY <1>1 DEF FieldStates
<1>3. Meets(field.kind, t, FALSE)
  BY <1>1, <1>2 DEF Meets, TidyNumber
<1>4. PICK G : G = Handled(field, t, pos, FALSE)
  OBVIOUS
<1>5. FieldFine(G)
  BY <1>1, <1>3, <1>4, HandledFine
<1>6. QED
  BY <1>2, <1>4, <1>5 DEF Arrow

LEMMA FieldKept ==
  ASSUME field # Off, FieldFine(field)
  PROVE  AmountIsKept
<1>1. PICK t \in Text : t = field.text
  BY DEF FieldFine, FieldStates
<1>2. HandlerSettles
  BY DEF HandlerSettles, FieldFine, SettledText, FieldStates
<1>3. ASSUME field.kind = "checkNum"
      PROVE  /\ t # <<>> => t[1] # "."
             /\ Cardinality(Positions(t, ".")) <= 1
             /\ Positions(t, ".") = {} \/ AfterPoint(t) <= 2 \/ field.again
  <2>1. TidyNumber(t) /\ (field.again = FALSE => Decimals(t)) /\ field.again \in BOOLEAN
    BY <1>1, <1>3 DEF FieldFine, FieldStates, Number
  <2>2. t # <<>> => t[1] # "."
    BY <2>1 DEF TidyNumber, NoDotFirst, Text
  <2>3. Positions(t, ".") \subseteq 1 .. Len(t)
    BY DEF Positions, Text
  <2>4. Cardinality(Positions(t, ".")) <= 1
    <3>1. CASE Positions(t, ".") = {}
      BY <3>1, FS_EmptySet
    <3>2. CASE Positions(t, ".") # {}
      <4>1. PICK p \in 1 .. Len(t) : t[p] = "."
        BY <2>3, <3>2 DEF Positions
      <4>2. Positions(t, ".") = {p}
        BY <2>1, <4>1, PointAt DEF TidyNumber
      <4>3. Cardinality({p}) = 1
        BY FS_Singleton
      <4>4. Cardinality(Positions(t, ".")) = 1
        BY <4>2, <4>3, Zenon
      <4>5. QED
        BY <4>4
    <3>3. QED
      BY <3>1, <3>2
  <2>5. QED
    BY <2>1, <2>2, <2>4 DEF Decimals
<1>4. AmountIsClean
  BY <1>1, <1>3 DEF AmountIsClean
<1>5. QED
  BY <1>2, <1>4 DEF AmountIsKept

(* Whatever is typed, deleted and moved through, one key after the other:   *)
(* checkNum leaves a number of two decimals at most, and each handler       *)
(* leaves a text in which it finds nothing to do, unless the key was a      *)
(* second mark.                                                             *)
THEOREM AmountIsKeptThm == Spec => []AmountIsKept
<1> DEFINE FieldInv == field # Off => FieldFine(field)
<1>1. Init => FieldInv
  BY OwnStart, AmountStarts
<1>2. FieldInv /\ [Next]_vars => FieldInv'
  <2> SUFFICES ASSUME FieldInv, [Next]_vars
               PROVE  FieldInv'
    OBVIOUS
  <2>1. ASSUME NEW c \in Characters, Key(c)
        PROVE  FieldInv'
    BY <2>1, KeyKeeps DEF Key
  <2>2. CASE Backspace
    BY <2>2, BackspaceKeeps DEF Backspace
  <2>3. ASSUME NEW pos \in 0 .. MaxLength, Arrow(pos)
        PROVE  FieldInv'
    <3>1. pos \in Nat
      OBVIOUS
    <3>2. QED
      BY <2>3, <3>1, ArrowKeeps DEF Arrow
  <2>4. CASE UNCHANGED field
    BY <2>4
  <2>5. QED
    BY <2>1, <2>2, <2>3, <2>4, OwnSteps DEF AmountNext
<1>3. FieldInv => AmountIsKept
  BY FieldKept DEF AmountIsKept, AmountIsClean, HandlerSettles
<1>4. QED
  BY <1>1, <1>2, <1>3, PTL DEF Spec

=============================================================================
