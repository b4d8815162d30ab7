---------------------------- MODULE Ajax_proofs -----------------------------
(* That the counter and the indicator of jQuery.ajax are true in every       *)
(* state, that a request tells nothing but what done() was told, and that    *)
(* done() is final: for any requests, settings, aborts and exceptions, and   *)
(* up to what the requests do that were sent though they were done.          *)
EXTENDS Ajax, TLAPS, FiniteSetTheorems, SequenceTheorems

-----------------------------------------------------------------------------
(* The stack, without its order.                                             *)

On(s) == {s[i] : i \in DOMAIN s}
Distinct(s) == \A i, j \in DOMAIN s : s[i] = s[j] => i = j
Ordered(s) ==
  \A i, j \in DOMAIN s : \A r \in Request : s[i] = Begun(r) /\ s[j] = Ending(r) => j < i

(* Frames.                                                                   *)
LEMMA Frames ==
  /\ \A r \in Request : Begun(r) \in Frame /\ Ending(r) \in Frame
  /\ \A r, q \in Request : Begun(r) # Ending(q)
  /\ \A r, q \in Request : Begun(r) = Begun(q) => r = q
  /\ \A r, q \in Request : Ending(r) = Ending(q) => r = q
BY DEF Begun, Ending, Frame

(* A frame that is not on the stack can be put on it.                        *)
LEMMA Push ==
  ASSUME NEW s \in Seq(Frame), NEW f \in Frame, Distinct(s), f \notin On(s),
         Ordered(s), \A r \in Request : f = Begun(r) => Ending(r) \notin On(s)
  PROVE  /\ <<f>> \o s \in Seq(Frame)
         /\ Distinct(<<f>> \o s) /\ Ordered(<<f>> \o s)
         /\ On(<<f>> \o s) = On(s) \cup {f}
         /\ <<f>> \o s # <<>>
         /\ Head(<<f>> \o s) = f
<1> DEFINE t == <<f>> \o s
<1>1. /\ t \in Seq(Frame) /\ Len(t) = Len(s) + 1 /\ t[1] = f
      /\ \A i \in 2..Len(t) : t[i] = s[i - 1]
  OBVIOUS
<1>2. DOMAIN t = 1..(Len(s) + 1) /\ DOMAIN s = 1..Len(s) /\ Len(s) \in Nat
  BY <1>1
<1>3. \A i \in DOMAIN t : i = 1 \/ (i - 1 \in DOMAIN s /\ t[i] = s[i - 1])
  BY <1>1, <1>2
<1>4. \A i \in DOMAIN s : i + 1 \in DOMAIN t /\ t[i + 1] = s[i]
  BY <1>1, <1>2
<1>5. Distinct(t)
  <2> SUFFICES ASSUME NEW i \in DOMAIN t, NEW j \in DOMAIN t, t[i] = t[j] PROVE i = j
    BY DEF Distinct
  <2>1. CASE i = 1 /\ j = 1
    BY <2>1
  <2>2. CASE i # 1 /\ j # 1
    BY <1>2, <1>3, <2>2 DEF Distinct
  <2>3. CASE i = 1 /\ j # 1
    BY <1>1, <1>3, <2>3 DEF On
  <2>4. CASE i # 1 /\ j = 1
    BY <1>1, <1>3, <2>4 DEF On
  <2> QED BY <2>1, <2>2, <2>3, <2>4
<1>6. On(t) = On(s) \cup {f}
  <2>1. On(t) \subseteq On(s) \cup {f}
    BY <1>1, <1>3 DEF On
  <2>2. On(s) \subseteq On(t)
    BY <1>4 DEF On
  <2>3. f \in On(t)
    BY <1>1, <1>2 DEF On
  <2> QED BY <2>1, <2>2, <2>3
<1>7. Ordered(t)
  <2> SUFFICES ASSUME NEW i \in DOMAIN t, NEW j \in DOMAIN t, NEW r \in Request,
                      t[i] = Begun(r), t[j] = Ending(r)
               PROVE  j < i
    BY DEF Ordered
  <2>1. CASE i = 1
    <3>1. f = Begun(r) /\ Ending(r) \notin On(s) /\ j # 1
      BY <1>1, <2>1, Frames
    <3>2. Ending(r) \in On(s)
      BY <1>3, <3>1 DEF On
    <3> QED BY <3>1, <3>2
  <2>2. CASE i # 1 /\ j = 1
    BY <1>2, <2>2
  <2>3. CASE i # 1 /\ j # 1
    <3>1. i - 1 \in DOMAIN s /\ j - 1 \in DOMAIN s /\ s[i - 1] = Begun(r) /\ s[j - 1] = Ending(r)
      BY <1>3, <2>3
    <3>2. j - 1 < i - 1
      BY <3>1 DEF Ordered
    <3> QED BY <1>2, <3>2
  <2> QED BY <2>1, <2>2, <2>3
<1> QED BY <1>1, <1>5, <1>6, <1>7

(* The innermost frame leaves it.                                            *)
LEMMA Pop ==
  ASSUME NEW s \in Seq(Frame), Distinct(s), Ordered(s), s # <<>>
  PROVE  /\ Tail(s) \in Seq(Frame)
         /\ Distinct(Tail(s)) /\ Ordered(Tail(s))
         /\ On(Tail(s)) = On(s) \ {Head(s)}
         /\ Head(s) \in On(s)
<1>1. /\ Tail(s) \in Seq(Frame) /\ Len(s) \in Nat /\ Len(s) >= 1
      /\ Len(Tail(s)) = Len(s) - 1 /\ Head(s) = s[1]
      /\ \A i \in 1..Len(Tail(s)) : Tail(s)[i] = s[i + 1]
  OBVIOUS
<1>2. DOMAIN s = 1..Len(s) /\ DOMAIN Tail(s) = 1..(Len(s) - 1)
  BY <1>1
<1>3. \A i \in DOMAIN Tail(s) : i + 1 \in DOMAIN s /\ Tail(s)[i] = s[i + 1] /\ i + 1 # 1
  BY <1>1, <1>2
<1>4. \A i \in DOMAIN s : i = 1 \/ (i - 1 \in DOMAIN Tail(s) /\ Tail(s)[i - 1] = s[i])
  BY <1>1, <1>2
<1>5. Distinct(Tail(s))
  <2> SUFFICES ASSUME NEW i \in DOMAIN Tail(s), NEW j \in DOMAIN Tail(s), Tail(s)[i] = Tail(s)[j]
               PROVE  i = j
    BY DEF Distinct
  <2> QED BY <1>2, <1>3 DEF Distinct
<1>6. 1 \in DOMAIN s
  BY <1>1, <1>2
<1>7. On(Tail(s)) = On(s) \ {Head(s)}
  <2>1. ASSUME NEW i \in DOMAIN Tail(s) PROVE Tail(s)[i] \in On(s) \ {Head(s)}
    BY <1>1, <1>3, <1>6, <2>1 DEF On, Distinct
  <2>2. ASSUME NEW i \in DOMAIN s, s[i] # Head(s) PROVE s[i] \in On(Tail(s))
    BY <1>1, <1>4, <2>2 DEF On
  <2> QED BY <2>1, <2>2 DEF On
<1>8. Ordered(Tail(s))
  <2> SUFFICES ASSUME NEW i \in DOMAIN Tail(s), NEW j \in DOMAIN Tail(s), NEW r \in Request,
                      Tail(s)[i] = Begun(r), Tail(s)[j] = Ending(r)
               PROVE  j < i
    BY DEF Ordered
  <2>1. i + 1 \in DOMAIN s /\ j + 1 \in DOMAIN s /\ s[i + 1] = Begun(r) /\ s[j + 1] = Ending(r)
    BY <1>3
  <2>2. j + 1 < i + 1
    BY <2>1 DEF Ordered
  <2> QED BY <1>2, <2>2
<1> QED BY <1>1, <1>5, <1>6, <1>7, <1>8 DEF On

-----------------------------------------------------------------------------
(* The innermost call.                                                       *)

(* Where the page's code runs, and in the callbacks of the library, nobody   *)
(* but the innermost call stands at send().                                  *)
LEMMA NobodySends ==
  ASSUME AjaxInv
  PROVE  /\ PageCode => \A q \in Request : at[q] # "send"
         /\ \A r \in Request : \A p : InDone(r, p) => \A q \in Request : at[q] # "send"
         /\ \A r \in Request : \A p : InBegin(r, p) => \A q \in Request \ {r} : at[q] # "send"
BY Frames DEF AjaxInv, StackMatches, PageCode, InBegin, InDone, Running

(* While jQuery.ajax is the innermost call, done() is not under it.           *)
LEMMA NotEnding ==
  ASSUME AjaxInv, NEW r \in Request, NEW p, InBegin(r, p)
  PROVE  fin[r] \notin DonePlace /\ Ending(r) \notin Stack
<1>1. calls \in Seq(Frame) /\ calls # <<>> /\ Head(calls) = Begun(r)
  BY DEF AjaxInv, AjaxTypeOK, InBegin, Running
<1>2. 1 \in DOMAIN calls /\ calls[1] = Begun(r) /\ DOMAIN calls = 1..Len(calls) /\ Len(calls) \in Nat
  BY <1>1
<1>3. Ending(r) \notin Stack
  BY <1>2 DEF AjaxInv, StackMatches, Stack
<1> QED BY <1>3 DEF AjaxInv, StackMatches

(* Where the request stands at send() it has not been sent: it is new, or was *)
(* aborted and done.                                                         *)
LEMMA AtSend ==
  ASSUME AjaxInv, NEW r \in Request, InBegin(r, "send")
  PROVE  /\ r \notin again /\ ~listening[r]
         /\ \/ state[r] = 0 /\ fin[r] = "no"
            \/ state[r] = 2 /\ fin[r] = "over" /\ told[r] = "error"
<1>1. at[r] = "send" /\ state[r] \in 0..2 /\ fin[r] \in DonePlace \cup {"no", "over", "broken"}
  BY DEF AjaxInv, AjaxTypeOK, InBegin
<1>2. Lawful(r) /\ r \notin again /\ DoneFirst(r)
  BY <1>1 DEF AjaxInv, InOrder, DoneAgain
<1>3. fin[r] \in {"no", "over"}
  BY <1>1, <1>2, NotEnding DEF Lawful, BeginPlace
<1> QED BY <1>1, <1>2, <1>3 DEF Lawful, DoneFirst

(* The stack stays, and its calls move on inside.                            *)
LEMMA StackStays ==
  ASSUME AjaxInv, calls' = calls,
         \A q \in Request : at'[q] \in BeginPlace <=> at[q] \in BeginPlace,
         \A q \in Request : fin'[q] \in DonePlace <=> fin[q] \in DonePlace,
         \A q \in Request : at'[q] = "send" => Running(Begun(q))
  PROVE  StackMatches'
BY DEF AjaxInv, StackMatches, Stack, Running

(* The innermost call returns.                                               *)
LEMMA StackPops ==
  ASSUME AjaxInv, calls # <<>>, calls' = Tail(calls),
         \A q \in Request : at'[q] # "send",
         \A q \in Request : at'[q] \in BeginPlace <=> at[q] \in BeginPlace /\ Head(calls) # Begun(q),
         \A q \in Request : fin'[q] \in DonePlace <=> fin[q] \in DonePlace /\ Head(calls) # Ending(q)
  PROVE  StackMatches' /\ calls' \in Seq(Frame)
<1>1. calls \in Seq(Frame) /\ Distinct(calls) /\ Ordered(calls)
  BY DEF AjaxInv, AjaxTypeOK, StackMatches, Distinct, Ordered
<1>2. /\ calls' \in Seq(Frame) /\ Distinct(calls') /\ Ordered(calls')
      /\ On(calls') = On(calls) \ {Head(calls)}
  BY <1>1, Pop
<1>3. Stack = On(calls) /\ Stack' = On(calls')
  BY DEF Stack, On
<1> QED BY <1>2, <1>3 DEF AjaxInv, StackMatches, Distinct, Ordered

(* A call begins above what is left of the stack.                            *)
LEMMA StackPushes ==
  ASSUME AjaxInv, NEW f \in Frame, NEW rest \in Seq(Frame), Distinct(rest), f \notin On(rest),
         Ordered(rest), \A q \in Request : f = Begun(q) => Ending(q) \notin On(rest),
         calls' = <<f>> \o rest,
         \A q \in Request : at'[q] # "send",
         \A q \in Request : at'[q] \in BeginPlace <=> Begun(q) \in On(rest) \/ f = Begun(q),
         \A q \in Request : fin'[q] \in DonePlace <=> Ending(q) \in On(rest) \/ f = Ending(q)
  PROVE  StackMatches' /\ calls' \in Seq(Frame)
<1>1. calls' \in Seq(Frame) /\ Distinct(calls') /\ Ordered(calls') /\ On(calls') = On(rest) \cup {f}
  BY Push
<1>2. Stack' = On(calls')
  BY DEF Stack, On
<1> QED BY <1>1, <1>2 DEF StackMatches, Distinct, Ordered

-----------------------------------------------------------------------------
(* The counter.                                                              *)

LEMMA CounterStays ==
  ASSUME AjaxInv, UNCHANGED globals,
         \A q \in Request \ again : fireGlobals[q] =>
           (fin'[q] \in {"ajaxStop", "over"} <=> fin[q] \in {"ajaxStop", "over"}),
         \A q \in Request \cap again : fireGlobals[q] =>
           (state'[q] = 2 /\ fin'[q] \in {"ajaxStop", "over"} <=>
            state[q] = 2 /\ fin[q] \in {"ajaxStop", "over"})
  PROVE  ActiveMatchesOpen' /\ IndicatorTruthful'
<1> USE DEF globals
<1>1. Open' = Open
  BY DEF Open
<1>2. CountedTwice' = CountedTwice
  BY DEF CountedTwice, AjaxInv, AjaxTypeOK
<1> QED BY <1>1, <1>2 DEF AjaxInv, ActiveMatchesOpen, IndicatorTruthful

(* A request that was done is sent: it is open no more and not counted twice. *)
LEMMA CounterRevives ==
  ASSUME AjaxInv, NEW r \in Request \ again, fin[r] = "over", again' = again \cup {r},
         state'[r] = 1 \/ fin'[r] \notin {"ajaxStop", "over"},
         UNCHANGED <<fireGlobals, active, busy>>,
         \A q \in Request \ {r} : state'[q] = state[q] /\ fin'[q] = fin[q]
  PROVE  ActiveMatchesOpen' /\ IndicatorTruthful'
<1>1. Open' = Open
  BY DEF Open
<1>2. again \subseteq Request
  BY DEF AjaxInv, AjaxTypeOK
<1>3. CountedTwice' = CountedTwice
  BY <1>2 DEF CountedTwice
<1> QED BY <1>1, <1>3 DEF AjaxInv, ActiveMatchesOpen, IndicatorTruthful

LEMMA OpenIsFinite ==
  ASSUME AjaxInv
  PROVE  /\ IsFiniteSet(Open) /\ IsFiniteSet(CountedTwice)
         /\ Cardinality(Open) \in Nat /\ Cardinality(CountedTwice) \in Nat
         /\ active \in Int /\ (busy <=> active > 0)
<1>1. Open \subseteq Request /\ CountedTwice \subseteq Request /\ IsFiniteSet(Request)
  BY AjaxAssumption DEF Open, CountedTwice, AjaxInv, AjaxTypeOK
<1>2. IsFiniteSet(Open) /\ IsFiniteSet(CountedTwice)
  BY <1>1, FS_Subset
<1>3. Cardinality(Open) \in Nat /\ Cardinality(CountedTwice) \in Nat
  BY <1>2, FS_CardinalityType
<1>4. active > 0 <=> Cardinality(Open) > Cardinality(CountedTwice)
  BY <1>3 DEF AjaxInv, ActiveMatchesOpen
<1> QED BY <1>2, <1>3, <1>4 DEF AjaxInv, AjaxTypeOK, IndicatorTruthful

-----------------------------------------------------------------------------
(* A request that a step does not touch.                                     *)
LEMMA OthersStay ==
  ASSUME AjaxInv, NEW q \in Request, q \in again' <=> q \in again,
         state'[q] = state[q], at'[q] = at[q], fin'[q] = fin[q], transport'[q] = transport[q],
         timer'[q] => timer[q], listening'[q] => listening[q],
         result'[q] = result[q], told'[q] = told[q], fireGlobals'[q] = fireGlobals[q]
  PROVE  InOrder(q)'
<1>1. Lawful(q) /\ Lawful(q)'
  BY DEF AjaxInv, InOrder, Lawful
<1>2. DoneAgain(q) => DoneAgain(q)'
  BY DEF DoneAgain
<1>3. DoneFirst(q) => DoneFirst(q)'
  BY DEF DoneFirst
<1> QED BY <1>1, <1>2, <1>3 DEF AjaxInv, InOrder

(* One that was just sent keeps the counter in any case.                      *)
LEMMA CounterSends ==
  ASSUME AjaxInv, NEW r \in Request, InBegin(r, "send"), Revive(r),
         state[r] = 2 => state'[r] = 1 \/ fin'[r] \notin {"ajaxStop", "over"},
         fin'[r] \notin {"ajaxStop", "over"} \/ fin'[r] = fin[r],
         \A q \in Request \ {r} : state'[q] = state[q] /\ fin'[q] = fin[q]
  PROVE  ActiveMatchesOpen' /\ IndicatorTruthful'
<1> USE DEF Revive
<1>1. CASE state[r] = 2
  BY <1>1, AtSend, CounterRevives
<1>2. CASE state[r] # 2
  <2>1. fin[r] = "no" /\ r \notin again
    BY <1>2, AtSend
  <2> QED BY <1>2, <2>1, CounterStays DEF globals, AjaxInv, AjaxTypeOK
<1> QED BY <1>1, <1>2

-----------------------------------------------------------------------------
(* The steps of jQuery.ajax().                                               *)

LEMMA BeginKeeps ==
  ASSUME AjaxInv, NEW r \in Request, Begin(r)
  PROVE  AjaxInv'
<1> USE DEF Begin, progress, wire, globals, outcome
<1>1. /\ Begun(r) \in Frame /\ calls \in Seq(Frame) /\ Distinct(calls) /\ Ordered(calls)
      /\ Begun(r) \notin On(calls) /\ Ending(r) \notin On(calls)
  <2>1. fin[r] = "no"
    BY DEF AjaxInv, InOrder, Lawful, DoneAgain, DoneFirst
  <2> QED BY <2>1, Frames
          DEF AjaxInv, AjaxTypeOK, StackMatches, Stack, Distinct, Ordered, On, BeginPlace, DonePlace
<1>2. at' = [at EXCEPT ![r] = "prefilter"] /\ at \in [Request -> BeginPlace \cup {"new", "returned", "broken"}]
  BY DEF AjaxInv, AjaxTypeOK
<1>3. StackMatches' /\ calls' \in Seq(Frame)
  <2>1. \A q \in Request : at'[q] # "send"
    BY <1>2, NobodySends
  <2>2. \A q \in Request : at'[q] \in BeginPlace <=> Begun(q) \in On(calls) \/ Begun(r) = Begun(q)
    BY <1>2, Frames DEF AjaxInv, StackMatches, Stack, On, BeginPlace
  <2>3. \A q \in Request : fin'[q] \in DonePlace <=> Ending(q) \in On(calls) \/ Begun(r) = Ending(q)
    BY Frames DEF AjaxInv, StackMatches, Stack, On
  <2> QED BY <1>1, <2>1, <2>2, <2>3, Frames, StackPushes
<1>4. AjaxTypeOK'
  BY <1>2, <1>3, AjaxAssumption DEF AjaxInv, AjaxTypeOK, BeginPlace
<1>5. \A q \in Request : InOrder(q)'
  BY <1>2 DEF AjaxInv, AjaxTypeOK, InOrder, Lawful, DoneAgain, DoneFirst
<1>6. ActiveMatchesOpen' /\ IndicatorTruthful'
  BY CounterStays
<1> QED BY <1>3, <1>4, <1>5, <1>6 DEF AjaxInv

LEMMA AbortedInPrefilterKeeps ==
  ASSUME AjaxInv, NEW r \in Request, AbortedInPrefilter(r)
  PROVE  AjaxInv'
<1> USE DEF AbortedInPrefilter, InBegin, Running, progress, wire, globals, outcome
<1>1. at' = [at EXCEPT ![r] = "returned"] /\ at \in [Request -> BeginPlace \cup {"new", "returned", "broken"}]
  BY DEF AjaxInv, AjaxTypeOK
<1>2. StackMatches' /\ calls' \in Seq(Frame)
  <2>1. \A q \in Request : at'[q] # "send"
    BY <1>1, NobodySends
  <2>2. \A q \in Request : at'[q] \in BeginPlace <=> at[q] \in BeginPlace /\ Head(calls) # Begun(q)
    BY <1>1, Frames DEF BeginPlace
  <2>3. \A q \in Request : fin'[q] \in DonePlace <=> fin[q] \in DonePlace /\ Head(calls) # Ending(q)
    BY Frames
  <2> QED BY <2>1, <2>2, <2>3, StackPops
<1>3. AjaxTypeOK'
  BY <1>1, <1>2 DEF AjaxInv, AjaxTypeOK
<1>4. \A q \in Request : InOrder(q)'
  BY <1>1 DEF AjaxInv, AjaxTypeOK, InOrder, Lawful, DoneAgain, DoneFirst
<1>5. ActiveMatchesOpen' /\ IndicatorTruthful'
  BY CounterStays
<1> QED BY <1>2, <1>3, <1>4, <1>5 DEF AjaxInv

LEMMA EnlistKeeps ==
  ASSUME AjaxInv, NEW r \in Request, Enlist(r)
  PROVE  AjaxInv'
<1> USE DEF Enlist, InBegin, Running, wire, outcome
<1>1. /\ at \in [Request -> BeginPlace \cup {"new", "returned", "broken"}]
      /\ \E p \in {"ajaxStart", "beforeSend"} : at' = [at EXCEPT ![r] = p]
      /\ opt[r].global \in BOOLEAN /\ fireGlobals \in [Request -> BOOLEAN] /\ active \in Int
      /\ busy \in BOOLEAN /\ state[r] # 2 /\ ~fireGlobals[r] /\ fin[r] = "no"
      /\ r \notin again /\ again' = again
  BY DEF AjaxInv, AjaxTypeOK, Option, InOrder, Lawful, DoneAgain, DoneFirst
<1>2. StackMatches'
  <2>1. \A q \in Request : at'[q] \in BeginPlace <=> at[q] \in BeginPlace
    BY <1>1 DEF BeginPlace
  <2>2. \A q \in Request : at'[q] # "send"
    BY <1>1, NobodySends
  <2> QED BY <2>1, <2>2, StackStays
<1>3. AjaxTypeOK'
  BY <1>1 DEF AjaxInv, AjaxTypeOK, BeginPlace
<1>4. \A q \in Request : InOrder(q)'
  BY <1>1 DEF AjaxInv, AjaxTypeOK, InOrder, Lawful, DoneAgain, DoneFirst
<1>5. ActiveMatchesOpen' /\ IndicatorTruthful'
  <2>1. CASE ~opt[r].global
    <3>1. fireGlobals' = fireGlobals
      BY <1>1, <2>1
    <3>2. active' = active /\ busy' = busy
      BY <1>1, <2>1
    <3> QED BY <1>1, <3>1, <3>2, CounterStays DEF globals
  <2>2. CASE opt[r].global
    <3>1. Open' = Open \cup {r} /\ r \notin Open
      BY <1>1, <2>2 DEF Open
    <3>2. CountedTwice' = CountedTwice
      BY <1>1 DEF CountedTwice
    <3>3. Cardinality(Open') = Cardinality(Open) + 1
      BY <3>1, OpenIsFinite, FS_AddElement
    <3>4. active' = active + 1 /\ busy' = (busy \/ active = 0)
      BY <2>2
    <3>5. ActiveMatchesOpen'
      BY <3>2, <3>3, <3>4, OpenIsFinite DEF AjaxInv, ActiveMatchesOpen
    <3>6. active' > 0 <=> active > 0 \/ active = 0
      BY <1>1, <3>4
    <3>7. busy' <=> active' > 0
      BY <3>4, <3>6, OpenIsFinite
    <3>8. active' > 0 <=> Cardinality(Open') > Cardinality(CountedTwice')
      BY <3>2, <3>3, <3>5, OpenIsFinite DEF ActiveMatchesOpen
    <3> QED BY <3>5, <3>7, <3>8 DEF IndicatorTruthful
  <2> QED BY <1>1, <2>1, <2>2
<1> QED BY <1>2, <1>3, <1>4, <1>5 DEF AjaxInv

(* Places of jQuery.ajax between which the stack does not move.              *)
LEMMA AdvanceKeeps ==
  ASSUME AjaxInv, NEW r \in Request, AfterAjaxStart(r) \/ GetTransport(r) \/ AfterAjaxSend(r)
  PROVE  AjaxInv'
<1> USE DEF AfterAjaxStart, GetTransport, GoesOn, AfterAjaxSend, InBegin, Running, wire, globals, outcome
<1>1. \E p \in {"beforeSend", "ajaxSend", "send"} : at' = [at EXCEPT ![r] = p]
  OBVIOUS
<1>2. /\ at \in [Request -> BeginPlace \cup {"new", "returned", "broken"}]
      /\ calls' = calls /\ fin' = fin /\ Running(Begun(r)) /\ at[r] \in BeginPlace
  BY DEF AjaxInv, AjaxTypeOK, BeginPlace
<1>3. StackMatches'
  <2>1. \A q \in Request : at'[q] \in BeginPlace <=> at[q] \in BeginPlace
    BY <1>1, <1>2 DEF BeginPlace
  <2>2. \A q \in Request : at'[q] = "send" => Running(Begun(q))
    BY <1>1, <1>2, NobodySends
  <2> QED BY <1>2, <2>1, <2>2, StackStays
<1>4. AjaxTypeOK'
  BY <1>1 DEF AjaxInv, AjaxTypeOK, BeginPlace
<1>5. \A q \in Request : InOrder(q)'
  <2>1. at[r] \in {"ajaxStart", "beforeSend", "ajaxSend"} /\ fin[r] # "broken"
    BY DEF AjaxInv, InOrder, Lawful, BeginPlace
  <2>2. state[r] # 1 /\ r \notin again
    BY <2>1 DEF AjaxInv, InOrder, Lawful, DoneAgain
  <2>3. InOrder(r)'
    BY <1>1, <1>2, <2>1, <2>2 DEF AjaxInv, AjaxTypeOK, InOrder, Lawful, DoneFirst
  <2>4. \A q \in Request \ {r} : transport'[q] = transport[q] /\ at'[q] = at[q]
    BY <1>1, <1>2 DEF AjaxInv, AjaxTypeOK
  <2>5. \A q \in Request \ {r} : InOrder(q)'
    BY <1>2, <2>4, OthersStay
  <2> QED BY <2>3, <2>5
<1>6. ActiveMatchesOpen' /\ IndicatorTruthful'
  BY <1>2, CounterStays
<1> QED BY <1>3, <1>4, <1>5, <1>6 DEF AjaxInv

(* beforeSend was told of an abort meanwhile: jQuery.ajax returns.            *)
LEMMA ReturnKeeps ==
  ASSUME AjaxInv, NEW r \in Request, InBegin(r, "beforeSend"), calls' = Tail(calls),
         at' = [at EXCEPT ![r] = "returned"],
         UNCHANGED <<opt, state, fin, wire, globals, outcome, aborts, throws>>
  PROVE  AjaxInv'
<1> USE DEF InBegin, Running, wire, globals, outcome
<1>1. at \in [Request -> BeginPlace \cup {"new", "returned", "broken"}]
  BY DEF AjaxInv, AjaxTypeOK
<1>2. StackMatches' /\ calls' \in Seq(Frame)
  <2>1. \A q \in Request : at'[q] # "send"
    BY <1>1, NobodySends
  <2>2. \A q \in Request : at'[q] \in BeginPlace <=> at[q] \in BeginPlace /\ Head(calls) # Begun(q)
    BY <1>1, Frames DEF BeginPlace
  <2>3. \A q \in Request : fin'[q] \in DonePlace <=> fin[q] \in DonePlace /\ Head(calls) # Ending(q)
    BY Frames
  <2> QED BY <2>1, <2>2, <2>3, StackPops
<1>3. AjaxTypeOK'
  BY <1>1, <1>2 DEF AjaxInv, AjaxTypeOK
<1>4. \A q \in Request : InOrder(q)'
  BY <1>1 DEF AjaxInv, AjaxTypeOK, InOrder, Lawful, DoneAgain, DoneFirst
<1>5. ActiveMatchesOpen' /\ IndicatorTruthful'
  BY CounterStays
<1> QED BY <1>2, <1>3, <1>4, <1>5 DEF AjaxInv

(* The request goes out, its answer to come in a later task.                 *)
LEMMA SendAsyncKeeps ==
  ASSUME AjaxInv, NEW r \in Request, SendAsync(r)
  PROVE  AjaxInv'
<1> USE DEF SendAsync, InBegin, Running, outcome
<1>1. /\ at \in [Request -> BeginPlace \cup {"new", "returned", "broken"}]
      /\ at' = [at EXCEPT ![r] = "returned"]
      /\ opt[r].timeout \in BOOLEAN
  BY DEF AjaxInv, AjaxTypeOK, Option
<1>2. StackMatches' /\ calls' \in Seq(Frame)
  <2>1. \A q \in Request : at'[q] # "send"
    BY <1>1, NobodySends
  <2>2. \A q \in Request : at'[q] \in BeginPlace <=> at[q] \in BeginPlace /\ Head(calls) # Begun(q)
    BY <1>1, Frames DEF BeginPlace
  <2>3. \A q \in Request : fin'[q] \in DonePlace <=> fin[q] \in DonePlace /\ Head(calls) # Ending(q)
    BY Frames
  <2> QED BY <2>1, <2>2, <2>3, StackPops
<1>3. AjaxTypeOK'
  <2>1. again' \subseteq Request /\ UNCHANGED <<fireGlobals, active, busy>>
    BY DEF AjaxInv, AjaxTypeOK, Revive
  <2> QED BY <1>1, <1>2, <2>1 DEF AjaxInv, AjaxTypeOK
<1>4. \A q \in Request : InOrder(q)'
  <2>1. /\ state'[r] = 1 /\ at'[r] = "returned" /\ transport'[r] /\ fin'[r] = fin[r]
        /\ result'[r] = result[r] /\ told'[r] = told[r] /\ fireGlobals'[r] = fireGlobals[r]
    BY <1>1 DEF AjaxInv, AjaxTypeOK, Revive
  <2>2. \A q \in Request \ {r} : InOrder(q)'
    <3>1. \A q \in Request \ {r} :
            /\ state'[q] = state[q] /\ at'[q] = at[q] /\ timer'[q] = timer[q]
            /\ listening'[q] = listening[q] /\ (q \in again' <=> q \in again)
      BY <1>1 DEF AjaxInv, AjaxTypeOK, Revive
    <3> QED BY <3>1, OthersStay DEF Revive
  <2>3. CASE state[r] = 2
    <3>1. fin[r] = "over" /\ told[r] = "error" /\ r \in again'
      BY <2>3, AtSend DEF Revive
    <3> QED BY <2>1, <2>2, <2>3, <3>1 DEF InOrder, Lawful, DoneAgain
  <2>4. CASE state[r] # 2
    <3>1. fin[r] = "no" /\ r \notin again'
      BY <2>4, AtSend DEF Revive
    <3>2. result[r] = "none" /\ told[r] = "no"
      BY <3>1 DEF AjaxInv, InOrder, Lawful
    <3> QED BY <2>1, <2>2, <2>4, <3>1, <3>2 DEF InOrder, Lawful, DoneFirst, Good
  <2> QED BY <2>2, <2>3, <2>4
<1>5. ActiveMatchesOpen' /\ IndicatorTruthful'
  <2>1. state'[r] = 1 /\ fin' = fin /\ \A q \in Request \ {r} : state'[q] = state[q]
    BY DEF AjaxInv, AjaxTypeOK
  <2> QED BY <2>1, CounterSends
<1> QED BY <1>2, <1>3, <1>4, <1>5 DEF AjaxInv

-----------------------------------------------------------------------------
(* done().                                                                   *)

(* What it sets of the request itself.                                       *)
LEMMA DoneSets ==
  ASSUME AjaxInv, NEW r \in Request, NEW how \in Result \ {"none"}, NEW rest,
         DoneStarts(r, how, rest)
  PROVE  /\ state' \in [Request -> 0..2] /\ fin' \in [Request -> DonePlace \cup {"no", "over", "broken"}]
         /\ timer' \in [Request -> BOOLEAN] /\ transport' \in [Request -> BOOLEAN]
         /\ result' \in [Request -> Result] /\ told' \in [Request -> {"no", "success", "error"}]
         /\ state'[r] = 2 /\ result'[r] = how /\ ~timer'[r]
         /\ fin'[r] = IF how = "data" THEN "dataFilter" ELSE "settled"
         /\ told'[r] = IF how = "data" \/ told[r] # "no" THEN told[r]
                       ELSE IF how \in Good THEN "success" ELSE "error"
         /\ \A q \in Request \ {r} : /\ state'[q] = state[q] /\ fin'[q] = fin[q]
                                    /\ timer'[q] = timer[q] /\ transport'[q] = transport[q]
                                    /\ result'[q] = result[q] /\ told'[q] = told[q]
<1>1. /\ state \in [Request -> 0..2] /\ fin \in [Request -> DonePlace \cup {"no", "over", "broken"}]
      /\ timer \in [Request -> BOOLEAN] /\ transport \in [Request -> BOOLEAN]
      /\ result \in [Request -> Result] /\ told \in [Request -> {"no", "success", "error"}]
  BY DEF AjaxInv, AjaxTypeOK
<1>2. /\ state' = [state EXCEPT ![r] = 2] /\ result' = [result EXCEPT ![r] = how]
      /\ timer' = [timer EXCEPT ![r] = FALSE] /\ transport' = [transport EXCEPT ![r] = FALSE]
  BY DEF DoneStarts
<1>3. CASE how = "data"
  <2>1. fin' = [fin EXCEPT ![r] = "dataFilter"] /\ told' = told
    BY <1>3 DEF DoneStarts
  <2> QED BY <1>1, <1>2, <1>3, <2>1 DEF DonePlace
<1>4. CASE how # "data"
  <2>1. fin' = [fin EXCEPT ![r] = "settled"]
    BY <1>4 DEF DoneStarts
  <2>2. told' = [told EXCEPT ![r] = IF told[r] # "no" THEN told[r]
                                    ELSE IF how \in Good THEN "success" ELSE "error"]
    BY <1>4 DEF DoneStarts, Settle
  <2> QED BY <1>1, <1>2, <1>4, <2>1, <2>2 DEF DonePlace
<1> QED BY <1>3, <1>4

(* When it may begin: for the first time; or for a request that is sent      *)
(* though it is done, or was.                                                *)
MayStart(r) ==
  \/ r \notin again /\ r \notin again' /\ fin[r] = "no"
  \/ r \in again /\ r \in again' /\ state[r] = 1
  \/ r \notin again /\ r \in again' /\ fin[r] = "over" /\ told[r] = "error" /\ at'[r] = "returned"

(* And so every respect of every request stays in order.                     *)
LEMMA DoneInOrder ==
  ASSUME AjaxInv, NEW r \in Request, MayStart(r), NEW how \in Result \ {"none"}, NEW rest,
         DoneStarts(r, how, rest), fireGlobals' = fireGlobals,
         at'[r] \in {at[r], "returned"}, at'[r] # "new", at'[r] # "send",
         at'[r] \in {"ajaxStart", "beforeSend", "ajaxSend"} => how \notin Good \cup {"data"},
         \A q \in Request \ {r} : at'[q] = at[q] /\ (q \in again' <=> q \in again),
         \A q \in Request : listening'[q] => listening[q] /\ q # r
  PROVE  \A q \in Request : InOrder(q)'
<1>1. /\ state'[r] = 2 /\ result'[r] = how /\ ~timer'[r] /\ ~listening'[r]
      /\ fin'[r] = IF how = "data" THEN "dataFilter" ELSE "settled"
      /\ told'[r] = IF how = "data" \/ told[r] # "no" THEN told[r]
                    ELSE IF how \in Good THEN "success" ELSE "error"
  BY DoneSets
<1>2. Lawful(r)'
  <2>1. at'[r] = "prefilter" => ~fireGlobals'[r]
    BY DEF AjaxInv, InOrder, Lawful
  <2> QED BY <1>1, <2>1 DEF Lawful
<1>3. InOrder(r)'
  <2>1. CASE r \notin again /\ r \notin again' /\ fin[r] = "no"
    <3>1. told[r] = "no"
      BY <2>1 DEF AjaxInv, InOrder, Lawful
    <3> QED BY <1>1, <1>2, <2>1, <3>1 DEF InOrder, DoneFirst, Good
  <2>2. CASE r \in again /\ r \in again' /\ state[r] = 1
    <3>1. told[r] = "error" /\ at[r] = "returned"
      BY <2>2 DEF AjaxInv, InOrder, DoneAgain
    <3> QED BY <1>1, <1>2, <2>2, <3>1 DEF InOrder, DoneAgain
  <2>3. CASE r \notin again /\ r \in again' /\ fin[r] = "over" /\ told[r] = "error" /\ at'[r] = "returned"
    BY <1>1, <1>2, <2>3 DEF InOrder, DoneAgain
  <2> QED BY <2>1, <2>2, <2>3 DEF MayStart
<1>4. \A q \in Request \ {r} : InOrder(q)'
  BY DoneSets, OthersStay
<1> QED BY <1>3, <1>4

(* It is called by jQuery.ajax, which returns with it.                        *)
LEMMA DoneInBegin ==
  ASSUME AjaxInv, NEW r \in Request, NEW p \in BeginPlace, InBegin(r, p),
         NEW how \in Result \ {"none"}, DoneStarts(r, how, Tail(calls)),
         state[r] # 2 \/ p = "send",
         at' = [at EXCEPT ![r] = "returned"],
         net' \in [Request -> {"idle", "open", "complete", "over"}],
         Revive(r), UNCHANGED <<opt, listening, aborts, throws>>
  PROVE  AjaxInv'
<1> USE DEF InBegin, Running
<1>1. /\ at \in [Request -> BeginPlace \cup {"new", "returned", "broken"}]
      /\ calls \in Seq(Frame) /\ Distinct(calls) /\ Ordered(calls) /\ calls # <<>>
      /\ calls' = <<Ending(r)>> \o Tail(calls) /\ Stack = On(calls)
      /\ Ending(r) \notin On(calls) /\ Ending(r) \in Frame
  BY Frames, NotEnding DEF AjaxInv, AjaxTypeOK, StackMatches, Distinct, Ordered, DoneStarts, Stack, On
<1>2. /\ Tail(calls) \in Seq(Frame) /\ Distinct(Tail(calls)) /\ Ordered(Tail(calls))
      /\ On(Tail(calls)) = On(calls) \ {Begun(r)}
  BY <1>1, Pop
<1>3. fin'[r] \in {"dataFilter", "settled"} /\ \A q \in Request \ {r} : fin'[q] = fin[q] /\ state'[q] = state[q]
  BY DoneSets
<1>4. fin \in [Request -> DonePlace \cup {"no", "over", "broken"}]
  BY DEF AjaxInv, AjaxTypeOK
<1>5. StackMatches' /\ calls' \in Seq(Frame)
  <2>1. \A q \in Request : at'[q] # "send"
    BY <1>1, NobodySends
  <2>2. \A q \in Request : at'[q] \in BeginPlace <=> Begun(q) \in On(Tail(calls)) \/ Ending(r) = Begun(q)
    BY <1>1, <1>2, Frames DEF AjaxInv, StackMatches, BeginPlace
  <2>3. \A q \in Request : fin'[q] \in DonePlace <=> Ending(q) \in On(Tail(calls)) \/ Ending(r) = Ending(q)
    BY <1>1, <1>2, <1>3, <1>4, Frames DEF AjaxInv, StackMatches, DonePlace
  <2> QED BY <1>1, <1>2, <2>1, <2>2, <2>3, Frames, StackPushes
<1>6. AjaxTypeOK'
  <2>1. again' \subseteq Request /\ UNCHANGED <<fireGlobals, active, busy>>
    BY DEF AjaxInv, AjaxTypeOK, Revive
  <2> QED BY <1>1, <1>5, <2>1, DoneSets DEF AjaxInv, AjaxTypeOK
<1>7. /\ fin[r] = "no" \/ (state[r] = 2 /\ p = "send" /\ fin[r] = "over" /\ told[r] = "error")
      /\ r \notin again /\ ~listening[r]
  <2>1. CASE p = "send"
    BY <2>1, AtSend
  <2>2. CASE p # "send"
    <3>1. state[r] # 2 /\ r \notin again
      BY <1>1, <2>2 DEF AjaxInv, InOrder, DoneAgain, BeginPlace
    <3>2. state[r] # 1
      BY <1>1 DEF AjaxInv, InOrder, Lawful, BeginPlace
    <3> QED BY <3>1, <3>2 DEF AjaxInv, InOrder, Lawful, DoneFirst
  <2> QED BY <2>1, <2>2
<1>8. \A q \in Request : InOrder(q)'
  <2>1. at'[r] = "returned" /\ \A q \in Request \ {r} : at'[q] = at[q]
    BY <1>1
  <2>2. fireGlobals' = fireGlobals /\ \A q \in Request \ {r} : q \in again' <=> q \in again
    BY DEF Revive
  <2>3. state[r] = 2 => fin[r] # "no"
    BY DEF AjaxInv, InOrder, Lawful
  <2>4. MayStart(r)
    BY <1>7, <2>1, <2>3 DEF MayStart, Revive
  <2> QED BY <1>7, <2>1, <2>2, <2>4, DoneInOrder
<1>9. ActiveMatchesOpen' /\ IndicatorTruthful'
  <2>1. CASE p = "send"
    BY <1>3, <2>1, CounterSends
  <2>2. CASE p # "send"
    <3>1. again' = again /\ fin[r] = "no" /\ UNCHANGED globals
      BY <1>7, <2>2 DEF Revive, globals
    <3> QED BY <1>3, <1>7, <3>1, CounterStays
  <2> QED BY <2>1, <2>2
<1> QED BY <1>5, <1>6, <1>8, <1>9 DEF AjaxInv

(* It is called by the browser or by abort().                                *)
LEMMA DoneFromOutside ==
  ASSUME AjaxInv, NEW r \in Request, PageCode, state[r] # 2, at[r] # "new",
         NEW how \in Result \ {"none"}, DoneStarts(r, how, calls), at' = at,
         at[r] \in {"ajaxStart", "beforeSend", "ajaxSend"} => how \notin Good \cup {"data"},
         net' \in [Request -> {"idle", "open", "complete", "over"}],
         listening' \in [Request -> BOOLEAN], \A q \in Request : listening'[q] => listening[q],
         ~listening'[r],
         aborts' \in 0..MaxAborts, UNCHANGED <<opt, globals, throws>>
  PROVE  AjaxInv'
<1> USE DEF globals
<1>1. /\ r \notin again => fin[r] = "no"
      /\ r \in again => state[r] = 1 /\ fin[r] = "over"
  BY DEF AjaxInv, InOrder, DoneFirst, DoneAgain
<1>2. /\ calls \in Seq(Frame) /\ Distinct(calls) /\ Ordered(calls) /\ Stack = On(calls)
      /\ calls' = <<Ending(r)>> \o calls
      /\ Ending(r) \notin On(calls) /\ Ending(r) \in Frame
  BY <1>1, Frames DEF AjaxInv, AjaxTypeOK, StackMatches, Distinct, Ordered, DoneStarts, Stack, On, DonePlace
<1>3. /\ fin'[r] \in {"dataFilter", "settled"} /\ state'[r] = 2
      /\ \A q \in Request \ {r} : fin'[q] = fin[q] /\ state'[q] = state[q]
  BY DoneSets
<1>4. fin \in [Request -> DonePlace \cup {"no", "over", "broken"}]
  BY DEF AjaxInv, AjaxTypeOK
<1>5. StackMatches' /\ calls' \in Seq(Frame)
  <2>1. \A q \in Request : at'[q] # "send"
    BY NobodySends
  <2>2. \A q \in Request : at'[q] \in BeginPlace <=> Begun(q) \in On(calls) \/ Ending(r) = Begun(q)
    BY <1>2, Frames DEF AjaxInv, StackMatches
  <2>3. \A q \in Request : fin'[q] \in DonePlace <=> Ending(q) \in On(calls) \/ Ending(r) = Ending(q)
    BY <1>2, <1>3, <1>4, Frames DEF AjaxInv, StackMatches, DonePlace
  <2> QED BY <1>2, <2>1, <2>2, <2>3, Frames, StackPushes
<1>6. AjaxTypeOK'
  BY <1>5, DoneSets DEF AjaxInv, AjaxTypeOK
<1>7. \A q \in Request : InOrder(q)'
  <2>1. at[r] # "send"
    BY NobodySends
  <2>2. MayStart(r)
    BY <1>1 DEF MayStart
  <2> QED BY <2>1, <2>2, DoneInOrder
<1>8. ActiveMatchesOpen' /\ IndicatorTruthful'
  BY <1>1, <1>3, CounterStays
<1> QED BY <1>5, <1>6, <1>7, <1>8 DEF AjaxInv

-----------------------------------------------------------------------------
(* The ways into done().                                                     *)

LEMMA CancelledKeeps ==
  ASSUME AjaxInv, NEW r \in Request, Cancelled(r)
  PROVE  AjaxInv'
<1>1. InBegin(r, "beforeSend") /\ net \in [Request -> {"idle", "open", "complete", "over"}]
  BY DEF AjaxInv, AjaxTypeOK, Cancelled
<1>2. CASE state[r] # 2
  <2>1. Revive(r)
    BY <1>2 DEF Cancelled, Revive, globals
  <2> QED BY <1>1, <1>2, <2>1, DoneInBegin DEF Cancelled, Result, BeginPlace
<1>3. CASE state[r] = 2
  BY <1>3, ReturnKeeps DEF Cancelled
<1> QED BY <1>2, <1>3

LEMMA NoTransportKeeps ==
  ASSUME AjaxInv, NEW r \in Request, NoTransport(r)
  PROVE  AjaxInv'
<1>1. InBegin(r, "beforeSend") /\ net \in [Request -> {"idle", "open", "complete", "over"}]
  BY DEF AjaxInv, AjaxTypeOK, NoTransport, GoesOn
<1>2. CASE state[r] # 2
  <2>1. Revive(r)
    BY <1>2 DEF NoTransport, Revive, globals
  <2> QED BY <1>1, <1>2, <2>1, DoneInBegin DEF NoTransport, Result, BeginPlace
<1>3. CASE state[r] = 2
  BY <1>1, <1>3, ReturnKeeps DEF NoTransport
<1> QED BY <1>2, <1>3

LEMMA SendSyncKeeps ==
  ASSUME AjaxInv, NEW r \in Request, SendSync(r) \/ SendThrows(r)
  PROVE  AjaxInv'
<1>1. InBegin(r, "send") /\ at' = [at EXCEPT ![r] = "returned"] /\ net' = [net EXCEPT ![r] = "over"]
  BY DEF SendSync, SendThrows
<1>2. net' \in [Request -> {"idle", "open", "complete", "over"}]
  BY <1>1 DEF AjaxInv, AjaxTypeOK
<1>3. PICK how \in {"data", "notmodified", "error"} : DoneStarts(r, how, Tail(calls))
  BY DEF SendSync, SendThrows
<1>4. Revive(r) /\ UNCHANGED <<opt, listening, aborts, throws>>
  BY DEF SendSync, SendThrows
<1> QED BY <1>1, <1>2, <1>3, <1>4, DoneInBegin DEF Result, BeginPlace

(* abort() of a request that is not done, and its timeout.                    *)
LEMMA DropKeeps ==
  ASSUME AjaxInv, NEW r \in Request, PageCode, state[r] # 2, at[r] # "new",
         NEW how \in Result \ {"none", "data"}, how \notin Good, Drop(r, how), aborts' \in 0..MaxAborts
  PROVE  AjaxInv'
<1>1. /\ net' \in [Request -> {"idle", "open", "complete", "over"}]
      /\ listening' \in [Request -> BOOLEAN] /\ \A q \in Request : listening'[q] => listening[q]
  BY DEF AjaxInv, AjaxTypeOK, Drop
<1>2. ~listening'[r]
  <2>1. listening[r] => transport[r]
    BY DEF AjaxInv, InOrder, Lawful
  <2> QED BY <2>1 DEF AjaxInv, AjaxTypeOK, Drop
<1>3. DoneStarts(r, how, calls) /\ UNCHANGED <<opt, at, globals, throws>>
  BY DEF Drop
<1> QED BY <1>1, <1>2, <1>3, DoneFromOutside

LEMMA AbortKeeps ==
  ASSUME AjaxInv, NEW r \in Request, Abort(r)
  PROVE  AjaxInv'
<1>1. PageCode /\ state[r] # 2 /\ at[r] # "new"
  BY DEF Abort
<1>2. PICK how \in StrAbort(r) : Drop(r, how)
  BY DEF Abort
<1>3. how \in Result \ {"none", "data"} /\ how \notin Good
  BY DEF StrAbort, Result, Good
<1>4. aborts' \in 0..MaxAborts
  BY AjaxAssumption DEF AjaxInv, AjaxTypeOK, Abort
<1> QED BY <1>1, <1>2, <1>3, <1>4, DropKeeps

LEMMA IdleIsPageCode ==
  ASSUME Idle
  PROVE  PageCode /\ \A r \in Request : \A p : ~InBegin(r, p) /\ ~InDone(r, p)
BY DEF Idle, PageCode, InBegin, InDone, Running

LEMMA TimerFiresKeeps ==
  ASSUME AjaxInv, NEW r \in Request, TimerFires(r)
  PROVE  AjaxInv'
<1>1. PageCode /\ Drop(r, "timeout") /\ timer[r] /\ aborts' = aborts
  BY IdleIsPageCode DEF TimerFires
<1>2. state[r] # 2 /\ at[r] # "new" /\ aborts \in 0..MaxAborts
  BY <1>1 DEF AjaxInv, AjaxTypeOK, InOrder, Lawful
<1> QED BY <1>1, <1>2, DropKeeps DEF Result, Good

LEMMA ListenerKeeps ==
  ASSUME AjaxInv, NEW r \in Request, Listener(r)
  PROVE  AjaxInv'
<1>1. /\ net' \in [Request -> {"idle", "open", "complete", "over"}]
      /\ listening' \in [Request -> BOOLEAN] /\ \A q \in Request : listening'[q] => listening[q]
      /\ ~listening'[r] /\ aborts \in 0..MaxAborts
  BY DEF AjaxInv, AjaxTypeOK, Listener
<1>2. CASE listening[r] /\ state[r] # 2
  <2>1. PICK how \in {"data", "notmodified", "error"} : DoneStarts(r, how, <<>>)
    BY <1>2 DEF Listener
  <2>2. calls = <<>> /\ PageCode
    BY IdleIsPageCode DEF Listener, Idle
  <2>3. at[r] = "returned"
    BY <1>2 DEF AjaxInv, InOrder, Lawful
  <2>4. UNCHANGED <<opt, at, globals, aborts, throws>>
    BY <1>2 DEF Listener
  <2> QED BY <1>1, <1>2, <2>1, <2>2, <2>3, <2>4, DoneFromOutside DEF Result
<1>3. CASE ~(listening[r] /\ state[r] # 2)
  <2> USE DEF progress, globals, outcome
  <2>1. UNCHANGED <<opt, progress, transport, timer, globals, outcome, aborts, throws>>
    BY <1>3 DEF Listener
  <2>2. StackMatches'
    BY <2>1 DEF AjaxInv, StackMatches, Stack, Running
  <2>3. AjaxTypeOK'
    BY <1>1, <2>1 DEF AjaxInv, AjaxTypeOK
  <2>4. \A q \in Request : InOrder(q)'
    BY <1>1, <2>1, OthersStay
  <2>5. ActiveMatchesOpen' /\ IndicatorTruthful'
    BY <2>1, CounterStays
  <2> QED BY <2>2, <2>3, <2>4, <2>5 DEF AjaxInv
<1> QED BY <1>2, <1>3

LEMMA ScriptFailsKeeps ==
  ASSUME AjaxInv, NEW r \in Request, ScriptFails(r)
  PROVE  AjaxInv'
<1> USE DEF ScriptFails, progress, globals, outcome
<1>1. StackMatches'
  BY DEF AjaxInv, StackMatches, Stack, Running
<1>2. AjaxTypeOK'
  BY DEF AjaxInv, AjaxTypeOK
<1>3. \A q \in Request : InOrder(q)'
  BY OthersStay
<1>4. ActiveMatchesOpen' /\ IndicatorTruthful'
  BY CounterStays
<1> QED BY <1>1, <1>2, <1>3, <1>4 DEF AjaxInv

-----------------------------------------------------------------------------
(* The steps of done().                                                      *)

LEMMA ConvertKeeps ==
  ASSUME AjaxInv, NEW r \in Request, Convert(r)
  PROVE  AjaxInv'
<1> USE DEF InDone, wire, globals
<1>1. PICK how \in {"success", "parsererror"} : result' = [result EXCEPT ![r] = how] /\ Settle(r, how)
  BY DEF Convert
<1>2. /\ fin' = [fin EXCEPT ![r] = "settled"] /\ fin[r] = "dataFilter"
      /\ fin \in [Request -> DonePlace \cup {"no", "over", "broken"}]
      /\ result \in [Request -> Result] /\ told \in [Request -> {"no", "success", "error"}]
      /\ state[r] = 2 /\ (r \notin again => told[r] = "no")
      /\ UNCHANGED <<opt, state, at, calls, wire, globals, aborts, throws>>
  BY DEF AjaxInv, AjaxTypeOK, InOrder, Lawful, DoneAgain, DoneFirst, Convert
<1>3. told' = [told EXCEPT ![r] = IF told[r] # "no" THEN told[r]
                                  ELSE IF how \in Good THEN "success" ELSE "error"]
  BY <1>1 DEF Settle
<1>4. StackMatches'
  BY <1>2, StackStays DEF DonePlace, AjaxInv, StackMatches
<1>5. AjaxTypeOK'
  BY <1>1, <1>2, <1>3 DEF AjaxInv, AjaxTypeOK, DonePlace, Result
<1>6. \A q \in Request : InOrder(q)'
  <2>1. /\ fin'[r] = "settled" /\ result'[r] = how
        /\ told'[r] = IF told[r] # "no" THEN told[r] ELSE IF how \in Good THEN "success" ELSE "error"
        /\ \A q \in Request \ {r} : fin'[q] = fin[q] /\ result'[q] = result[q] /\ told'[q] = told[q]
    BY <1>1, <1>2, <1>3
  <2>2. InOrder(r)'
    BY <1>2, <2>1 DEF AjaxInv, InOrder, Lawful, DoneAgain, DoneFirst, Good
  <2>3. \A q \in Request \ {r} : InOrder(q)'
    BY <1>2, <2>1, OthersStay
  <2> QED BY <2>2, <2>3
<1>7. ActiveMatchesOpen' /\ IndicatorTruthful'
  BY <1>2, CounterStays
<1> QED BY <1>4, <1>5, <1>6, <1>7 DEF AjaxInv

(* Places of done() between which the stack does not move.                   *)
LEMMA DoneAdvances ==
  ASSUME AjaxInv, NEW r \in Request, fin[r] \in DonePlace \ {"dataFilter", "ajaxStop"},
         NEW p \in DonePlace \ {"dataFilter", "ajaxStop"}, fin' = [fin EXCEPT ![r] = p],
         p \in {"ajaxEvent", "ajaxComplete"} => fireGlobals[r],
         UNCHANGED <<opt, state, at, calls, wire, globals, outcome, aborts, throws>>
  PROVE  AjaxInv'
<1> USE DEF wire, globals, outcome
<1>1. fin \in [Request -> DonePlace \cup {"no", "over", "broken"}]
  BY DEF AjaxInv, AjaxTypeOK
<1>2. StackMatches'
  BY <1>1, StackStays DEF AjaxInv, StackMatches
<1>3. AjaxTypeOK'
  BY <1>1 DEF AjaxInv, AjaxTypeOK
<1>4. \A q \in Request : InOrder(q)'
  BY <1>1 DEF AjaxInv, InOrder, Lawful, DoneAgain, DoneFirst, DonePlace
<1>5. ActiveMatchesOpen' /\ IndicatorTruthful'
  BY <1>1, CounterStays DEF DonePlace
<1> QED BY <1>2, <1>3, <1>4, <1>5 DEF AjaxInv

(* The stack and the types when done() returns.                              *)
LEMMA DoneReturns ==
  ASSUME AjaxInv, NEW r \in Request, NEW p \in DonePlace \ {"dataFilter"}, InDone(r, p),
         fin' = [fin EXCEPT ![r] = "over"], calls' = Tail(calls), active' \in Int, busy' \in BOOLEAN,
         UNCHANGED <<opt, state, at, wire, fireGlobals, again, outcome, aborts, throws>>
  PROVE  StackMatches' /\ AjaxTypeOK' /\ \A q \in Request : InOrder(q)'
<1> USE DEF InDone, Running, wire, outcome
<1>1. fin \in [Request -> DonePlace \cup {"no", "over", "broken"}]
  BY DEF AjaxInv, AjaxTypeOK
<1>2. StackMatches' /\ calls' \in Seq(Frame)
  <2>1. \A q \in Request : at'[q] # "send"
    BY NobodySends
  <2>2. \A q \in Request : at'[q] \in BeginPlace <=> at[q] \in BeginPlace /\ Head(calls) # Begun(q)
    BY Frames
  <2>3. \A q \in Request : fin'[q] \in DonePlace <=> fin[q] \in DonePlace /\ Head(calls) # Ending(q)
    BY <1>1, Frames DEF DonePlace
  <2> QED BY <2>1, <2>2, <2>3, StackPops
<1>3. AjaxTypeOK'
  BY <1>1, <1>2 DEF AjaxInv, AjaxTypeOK
<1>4. \A q \in Request : InOrder(q)'
  BY <1>1 DEF AjaxInv, InOrder, Lawful, DoneAgain, DoneFirst, DonePlace
<1> QED BY <1>2, <1>3, <1>4

LEMMA AfterCompleteKeeps ==
  ASSUME AjaxInv, NEW r \in Request, AfterComplete(r)
  PROVE  AjaxInv'
<1>1. fin[r] = "complete" /\ fin \in [Request -> DonePlace \cup {"no", "over", "broken"}]
  BY DEF AjaxInv, AjaxTypeOK, AfterComplete, InDone
<1>2. CASE fireGlobals[r]
  BY <1>1, <1>2, DoneAdvances DEF AfterComplete, DonePlace
<1>3. CASE ~fireGlobals[r]
  <2>1. StackMatches' /\ AjaxTypeOK' /\ \A q \in Request : InOrder(q)'
    BY <1>3, DoneReturns DEF AfterComplete, DonePlace, globals, AjaxInv, AjaxTypeOK
  <2>2. ActiveMatchesOpen' /\ IndicatorTruthful'
    BY <1>1, <1>3, CounterStays DEF AfterComplete, globals
  <2> QED BY <2>1, <2>2 DEF AjaxInv
<1> QED BY <1>2, <1>3

LEMMA CountDownKeeps ==
  ASSUME AjaxInv, NEW r \in Request, CountDown(r)
  PROVE  AjaxInv'
<1> USE DEF InDone
<1>1. /\ fin[r] = "ajaxComplete" /\ fin \in [Request -> DonePlace \cup {"no", "over", "broken"}]
      /\ state[r] = 2 /\ fireGlobals[r] /\ active \in Int /\ busy \in BOOLEAN
      /\ UNCHANGED <<opt, state, at, wire, fireGlobals, again, outcome, aborts, throws>>
  BY DEF AjaxInv, AjaxTypeOK, InOrder, Lawful, DoneFirst, DoneAgain, CountDown
<1>2. \E p \in {"ajaxStop", "over"} : fin' = [fin EXCEPT ![r] = p]
  BY DEF CountDown
<1>3. active' = active - 1 /\ busy' = (busy /\ active' # 0) /\ active' \in Int
  BY <1>1 DEF CountDown
<1>4. ActiveMatchesOpen'
  <2>1. CASE r \notin again
    <3>1. Open' = Open \ {r} /\ r \in Open /\ CountedTwice' = CountedTwice
      BY <1>1, <1>2, <2>1 DEF Open, CountedTwice
    <3>2. Cardinality(Open') = Cardinality(Open) - 1
      BY <3>1, OpenIsFinite, FS_RemoveElement
    <3> QED BY <1>3, <3>1, <3>2, OpenIsFinite DEF AjaxInv, ActiveMatchesOpen
  <2>2. CASE r \in again
    <3>1. Open' = Open /\ CountedTwice' = CountedTwice \cup {r} /\ r \notin CountedTwice
      BY <1>1, <1>2, <2>2 DEF Open, CountedTwice, AjaxInv, AjaxTypeOK
    <3>2. Cardinality(CountedTwice') = Cardinality(CountedTwice) + 1
      BY <3>1, OpenIsFinite, FS_AddElement
    <3> QED BY <1>3, <3>1, <3>2, OpenIsFinite DEF AjaxInv, ActiveMatchesOpen
  <2> QED BY <2>1, <2>2
<1>5. IndicatorTruthful'
  <2>1. active' > 0 <=> active > 0 /\ active' # 0
    BY <1>1, <1>3
  <2>2. busy' <=> active' > 0
    BY <1>3, <2>1, OpenIsFinite
  <2>3. IsFiniteSet(Open') /\ IsFiniteSet(CountedTwice')
    <3>1. Open' \subseteq Request /\ CountedTwice' \subseteq Request
      BY <1>1 DEF Open, CountedTwice, AjaxInv, AjaxTypeOK
    <3> QED BY <3>1, AjaxAssumption, FS_Subset
  <2>4. Cardinality(Open') \in Nat /\ Cardinality(CountedTwice') \in Nat
    BY <2>3, FS_CardinalityType
  <2>5. active' > 0 <=> Cardinality(Open') > Cardinality(CountedTwice')
    BY <1>4, <2>4 DEF ActiveMatchesOpen
  <2> QED BY <2>2, <2>5 DEF IndicatorTruthful
<1>6. CASE active' = 0
  <2> USE DEF wire, outcome
  <2>1. fin' = [fin EXCEPT ![r] = "ajaxStop"] /\ calls' = calls
    BY <1>6 DEF CountDown
  <2>2. StackMatches'
    BY <1>1, <2>1, StackStays DEF AjaxInv, StackMatches, DonePlace
  <2>3. AjaxTypeOK'
    BY <1>1, <1>3, <2>1 DEF AjaxInv, AjaxTypeOK, DonePlace
  <2>4. \A q \in Request : InOrder(q)'
    BY <1>1, <2>1 DEF AjaxInv, InOrder, Lawful, DoneAgain, DoneFirst
  <2> QED BY <1>4, <1>5, <2>2, <2>3, <2>4 DEF AjaxInv
<1>7. CASE active' # 0
  <2>1. fin' = [fin EXCEPT ![r] = "over"] /\ calls' = Tail(calls) /\ busy' \in BOOLEAN
    BY <1>3, <1>7 DEF CountDown
  <2>2. InDone(r, "ajaxComplete")
    BY DEF CountDown
  <2>3. StackMatches' /\ AjaxTypeOK' /\ \A q \in Request : InOrder(q)'
    BY <1>1, <1>3, <2>1, <2>2, DoneReturns DEF DonePlace
  <2> QED BY <1>4, <1>5, <2>3 DEF AjaxInv
<1> QED BY <1>6, <1>7

LEMMA AfterAjaxStopKeeps ==
  ASSUME AjaxInv, NEW r \in Request, AfterAjaxStop(r)
  PROVE  AjaxInv'
<1>1. StackMatches' /\ AjaxTypeOK' /\ \A q \in Request : InOrder(q)'
  BY DoneReturns DEF AfterAjaxStop, DonePlace, globals, AjaxInv, AjaxTypeOK
<1>2. fin[r] = "ajaxStop" /\ fin \in [Request -> DonePlace \cup {"no", "over", "broken"}]
  BY DEF AjaxInv, AjaxTypeOK, AfterAjaxStop, InDone
<1>3. ActiveMatchesOpen' /\ IndicatorTruthful'
  BY <1>2, CounterStays DEF AfterAjaxStop, globals
<1> QED BY <1>1, <1>3 DEF AjaxInv

(* An exception cuts every call on the stack short.                          *)
LEMMA ThrowKeeps ==
  ASSUME AjaxInv, Throw
  PROVE  AjaxInv'
<1> USE DEF wire, globals, outcome
<1>1. /\ at \in [Request -> BeginPlace \cup {"new", "returned", "broken"}]
      /\ fin \in [Request -> DonePlace \cup {"no", "over", "broken"}]
  BY DEF AjaxInv, AjaxTypeOK
<1>2. \A q \in Request :
        /\ at'[q] = IF at[q] \in BeginPlace THEN "broken" ELSE at[q]
        /\ fin'[q] = IF fin[q] \notin DonePlace THEN fin[q]
                     ELSE IF fin[q] = "ajaxStop" THEN "over" ELSE "broken"
  BY DEF AjaxInv, StackMatches, Stack, Throw
<1>3. calls' = <<>> /\ Stack' = {}
  BY DEF Throw, Stack
<1>4. /\ DOMAIN at' = Request /\ DOMAIN fin' = Request
      /\ at' = [q \in Request |-> at'[q]] /\ fin' = [q \in Request |-> fin'[q]]
  BY DEF Throw
<1>5. StackMatches'
  <2>1. DOMAIN calls' = {}
    BY <1>3
  <2>2. \A q \in Request : at'[q] \notin BeginPlace /\ fin'[q] \notin DonePlace /\ at'[q] # "send"
    BY <1>1, <1>2 DEF BeginPlace, DonePlace
  <2> QED BY <1>3, <2>1, <2>2 DEF StackMatches
<1>6. AjaxTypeOK'
  <2>1. /\ at' \in [Request -> BeginPlace \cup {"new", "returned", "broken"}]
        /\ fin' \in [Request -> DonePlace \cup {"no", "over", "broken"}]
    BY <1>1, <1>2, <1>4
  <2>2. calls' \in Seq(Frame) /\ throws' \in 0..MaxThrows
    BY <1>3, AjaxAssumption DEF Throw, AjaxInv, AjaxTypeOK
  <2> QED BY <2>1, <2>2 DEF AjaxInv, AjaxTypeOK, Throw
<1>7. \A q \in Request : InOrder(q)'
  BY <1>1, <1>2 DEF AjaxInv, InOrder, Lawful, DoneAgain, DoneFirst, Throw, BeginPlace, DonePlace
<1>8. ActiveMatchesOpen' /\ IndicatorTruthful'
  BY <1>1, <1>2, CounterStays DEF Throw, DonePlace
<1> QED BY <1>5, <1>6, <1>7, <1>8 DEF AjaxInv

-----------------------------------------------------------------------------
(* The theorems.                                                             *)

LEMMA AjaxInitHolds == AjaxInit => AjaxInv
<1> SUFFICES ASSUME AjaxInit PROVE AjaxInv
  OBVIOUS
<1> USE DEF AjaxInit
<1>1. AjaxTypeOK
  <2>1. [kind |-> "none", timeout |-> FALSE, global |-> FALSE, before |-> FALSE] \in Option
    BY DEF Option
  <2>2. calls \in Seq(Frame) /\ opt \in [Request -> Option] /\ result \in [Request -> Result]
    BY <2>1 DEF Result
  <2>3. aborts \in 0..MaxAborts /\ throws \in 0..MaxThrows
    BY AjaxAssumption
  <2>4. state \in [Request -> 0..2] /\ active \in Int /\ busy \in BOOLEAN
    <3>1. state \in [Request -> 0..2] /\ active \in Int
      OBVIOUS
    <3>2. busy \in BOOLEAN
      BY Zenon
    <3> QED BY <3>1, <3>2
  <2>5. /\ at \in [Request -> BeginPlace \cup {"new", "returned", "broken"}]
        /\ fin \in [Request -> DonePlace \cup {"no", "over", "broken"}]
        /\ net \in [Request -> {"idle", "open", "complete", "over"}]
        /\ told \in [Request -> {"no", "success", "error"}]
    OBVIOUS
  <2>6. /\ transport \in [Request -> BOOLEAN] /\ listening \in [Request -> BOOLEAN]
        /\ timer \in [Request -> BOOLEAN] /\ fireGlobals \in [Request -> BOOLEAN]
    OBVIOUS
  <2>7. again \subseteq Request
    OBVIOUS
  <2> QED BY ONLY <2>2, <2>3, <2>4, <2>5, <2>6, <2>7 DEF AjaxTypeOK
<1>2. StackMatches
  <2>1. DOMAIN calls = {} /\ Stack = {}
    BY DEF Stack
  <2> QED BY <2>1 DEF StackMatches, BeginPlace, DonePlace
<1>3. \A r \in Request : InOrder(r)
  BY DEF InOrder, Lawful, DoneFirst, Good
<1>4. Open = {} /\ CountedTwice = {} /\ Cardinality({}) = 0
  BY FS_EmptySet DEF Open, CountedTwice
<1> QED BY <1>1, <1>2, <1>3, <1>4 DEF AjaxInv, ActiveMatchesOpen, IndicatorTruthful

LEMMA StutterKeeps == ASSUME AjaxInv, UNCHANGED vars PROVE AjaxInv'
BY DEF vars, progress, wire, globals, outcome, AjaxInv, AjaxTypeOK, StackMatches, Stack, Running,
       InOrder, Lawful, DoneAgain, DoneFirst, ActiveMatchesOpen, IndicatorTruthful, Open, CountedTwice

LEMMA AjaxStepKeeps == ASSUME AjaxInv, [AjaxNext]_vars PROVE AjaxInv'
<1>1. ASSUME NEW r \in Request, Begin(r) PROVE AjaxInv'
  BY <1>1, BeginKeeps
<1>2. ASSUME NEW r \in Request, Continue(r) PROVE AjaxInv'
  <2>1. CASE AbortedInPrefilter(r)
    BY <2>1, AbortedInPrefilterKeeps
  <2>2. CASE Enlist(r)
    BY <2>2, EnlistKeeps
  <2>3. CASE AfterAjaxStart(r) \/ GetTransport(r) \/ AfterAjaxSend(r)
    BY <2>3, AdvanceKeeps
  <2>4. CASE Cancelled(r)
    BY <2>4, CancelledKeeps
  <2>5. CASE NoTransport(r)
    BY <2>5, NoTransportKeeps
  <2>6. CASE SendAsync(r)
    BY <2>6, SendAsyncKeeps
  <2>7. CASE SendSync(r) \/ SendThrows(r)
    BY <2>7, SendSyncKeeps
  <2>8. CASE Convert(r)
    BY <2>8, ConvertKeeps
  <2>9. CASE AfterSettled(r) \/ AfterAjaxEvent(r)
    <3>1. PICK p \in {"ajaxEvent", "complete"} :
            fin' = [fin EXCEPT ![r] = p] /\ (p = "ajaxEvent" => fireGlobals[r])
      BY <2>9 DEF AfterSettled, AfterAjaxEvent
    <3>2. fin[r] \in {"settled", "ajaxEvent"}
          /\ UNCHANGED <<opt, state, at, calls, wire, globals, outcome, aborts, throws>>
      BY <2>9 DEF AfterSettled, AfterAjaxEvent, InDone
    <3> QED BY <3>1, <3>2, DoneAdvances DEF DonePlace
  <2>10. CASE AfterComplete(r)
    BY <2>10, AfterCompleteKeeps
  <2>11. CASE CountDown(r)
    BY <2>11, CountDownKeeps
  <2>12. CASE AfterAjaxStop(r)
    BY <2>12, AfterAjaxStopKeeps
  <2> QED BY <1>2, <2>1, <2>2, <2>3, <2>4, <2>5, <2>6, <2>7, <2>8, <2>9, <2>10, <2>11, <2>12
          DEF Continue
<1>3. ASSUME NEW r \in Request, Abort(r) PROVE AjaxInv'
  BY <1>3, AbortKeeps
<1>4. ASSUME NEW r \in Request, TimerFires(r) PROVE AjaxInv'
  BY <1>4, TimerFiresKeeps
<1>5. ASSUME NEW r \in Request, Listener(r) PROVE AjaxInv'
  BY <1>5, ListenerKeeps
<1>6. ASSUME NEW r \in Request, ScriptFails(r) PROVE AjaxInv'
  BY <1>6, ScriptFailsKeeps
<1>7. CASE Throw
  BY <1>7, ThrowKeeps
<1>8. CASE UNCHANGED vars
  BY <1>8, StutterKeeps
<1> QED BY <1>1, <1>2, <1>3, <1>4, <1>5, <1>6, <1>7, <1>8 DEF AjaxNext

(* The counter of open requests and the indicator that ajaxStart turns on    *)
(* and ajaxStop off agree with the requests in every state, however requests *)
(* nest, are aborted or are cut short (jquery.js:7829, 8041), and are off by *)
(* one for every request that was sent though it was done (7895, 7929).      *)
THEOREM CounterIsTrue == AjaxSpec => []AjaxInv
<1>1. AjaxInv /\ [AjaxNext]_vars => AjaxInv'
  BY AjaxStepKeeps
<1> QED BY <1>1, AjaxInitHolds, PTL DEF AjaxSpec

(* A request tells its callbacks what done() was told and nothing else: an   *)
(* aborted or late one never reports success (jquery.js:7947-8037), not even *)
(* one that is sent though it was aborted.                                   *)
THEOREM OnlyResultIsTold == AjaxSpec => []ToldMatchesResult
<1>1. AjaxInv => ToldMatchesResult
  <2> SUFFICES ASSUME AjaxInv, NEW r \in Request
               PROVE  IF r \in again THEN told[r] = "error"
                      ELSE /\ told[r] = "success" <=> result[r] \in Good
                           /\ told[r] # "no" => state[r] = 2 /\ ~timer[r] /\ ~listening[r]
    BY DEF ToldMatchesResult
  <2>1. CASE r \in again
    BY <2>1 DEF AjaxInv, InOrder, DoneAgain
  <2>2. CASE r \notin again
    BY <2>2 DEF AjaxInv, InOrder, Lawful, DoneFirst
  <2> QED BY <2>1, <2>2
<1> QED BY <1>1, CounterIsTrue, PTL

(* done() is called once: no step changes the result of a request that has   *)
(* one (jquery.js:7947, 7777), unless it is sent though it is done.          *)
THEOREM DoneOnce == AjaxSpec => DoneIsFinal
<1> DEFINE Kept == \A r \in Request :
                     /\ result[r] \notin {"none", "data"}
                     /\ r \in again' => r \in again /\ state[r] = 2
                     => result'[r] = result[r]
<1>1. ASSUME AjaxInv, NEW r \in Request, NEW how, NEW rest, DoneStarts(r, how, rest),
             state[r] # 2 \/ r \in again' \ again, again \subseteq again'
      PROVE  Kept
  <2>1. result \in [Request -> Result]
    BY <1>1 DEF AjaxInv, AjaxTypeOK
  <2>2. \A q \in Request \ {r} : result'[q] = result[q]
    BY <1>1, <2>1 DEF DoneStarts
  <2>3. r \notin again' => result[r] = "none"
    BY <1>1 DEF AjaxInv, InOrder, Lawful, DoneFirst
  <2> QED BY <1>1, <2>2, <2>3
<1>2. AjaxInv /\ [AjaxNext]_vars => [Kept]_vars
  <2> SUFFICES ASSUME AjaxInv, AjaxNext PROVE Kept
    OBVIOUS
  <2> DEFINE Starts(r) == /\ \E how, rest : DoneStarts(r, how, rest)
                          /\ state[r] # 2 \/ r \in again' \ again
                          /\ again \subseteq again'
  <2>1. CASE result' = result
    BY <2>1
  <2>2. CASE \E r \in Request : Convert(r)
    <3>1. PICK r \in Request : Convert(r)
      BY <2>2
    <3>2. result[r] = "data" /\ result \in [Request -> Result]
      BY <3>1 DEF AjaxInv, AjaxTypeOK, InOrder, Lawful, Convert, InDone
    <3>3. \E how : result' = [result EXCEPT ![r] = how]
      BY <3>1 DEF Convert
    <3> QED BY <3>2, <3>3
  <2>3. CASE \E r \in Request : Starts(r)
    BY <1>1, <2>3
  <2>4. \A r \in Request : Continue(r) => result' = result \/ Convert(r) \/ Starts(r)
    <3> SUFFICES ASSUME NEW r \in Request, Continue(r)
                 PROVE  result' = result \/ Convert(r) \/ Starts(r)
      OBVIOUS
    <3>1. CASE Cancelled(r) \/ NoTransport(r)
      BY <3>1 DEF Cancelled, NoTransport, outcome, globals
    <3>2. CASE SendSync(r) \/ SendThrows(r)
      <4>1. \E how, rest : DoneStarts(r, how, rest)
        BY <3>2 DEF SendSync, SendThrows
      <4>2. InBegin(r, "send") /\ Revive(r)
        BY <3>2 DEF SendSync, SendThrows
      <4> QED BY <4>1, <4>2, AtSend DEF Revive
    <3>3. CASE AbortedInPrefilter(r) \/ Enlist(r) \/ AfterAjaxStart(r) \/ GetTransport(r)
               \/ AfterAjaxSend(r) \/ SendAsync(r)
      BY <3>3 DEF AbortedInPrefilter, Enlist, AfterAjaxStart, GetTransport, AfterAjaxSend, SendAsync, outcome
    <3>4. CASE AfterSettled(r) \/ AfterAjaxEvent(r) \/ AfterComplete(r) \/ CountDown(r) \/ AfterAjaxStop(r)
      BY <3>4 DEF AfterSettled, AfterAjaxEvent, AfterComplete, CountDown, AfterAjaxStop, outcome
    <3> QED BY <3>1, <3>2, <3>3, <3>4 DEF Continue
  <2>5. \A r \in Request : Abort(r) \/ TimerFires(r) \/ Listener(r) => result' = result \/ Starts(r)
    <3>1. \A r \in Request : TimerFires(r) => state[r] # 2
      BY DEF AjaxInv, InOrder, Lawful, TimerFires
    <3> QED BY <3>1 DEF Abort, TimerFires, Listener, Drop, outcome, globals
  <2>6. Throw \/ (\E r \in Request : Begin(r) \/ ScriptFails(r)) => result' = result
    BY DEF Throw, Begin, ScriptFails, outcome
  <2> QED BY <2>1, <2>2, <2>3, <2>4, <2>5, <2>6 DEF AjaxNext
<1>3. [Kept]_vars => [\A r \in Request :
                        /\ result[r] \notin {"none", "data"}
                        /\ r \in again' => r \in again /\ state[r] = 2
                        => result'[r] = result[r]]_vars
  OBVIOUS
<1> QED BY <1>2, <1>3, CounterIsTrue, PTL DEF AjaxSpec, DoneIsFinal
=============================================================================
