--------------------------- MODULE Deferred_proofs ---------------------------
(***************************************************************************)
(* jQuery.Deferred, then() and when() implement Promise, for any number of *)
(* deferreds and handlers, any data, any calls the callbacks make from     *)
(* inside each other, and any exceptions; and when nothing runs, every     *)
(* handler of an outcome that has come about has been called.              *)
(*                                                                         *)
(* What is hard is that a list is fired from inside itself and from other  *)
(* lists.  The invariant says how far each deferred has come: not settled, *)
(* being settled (the innermost call is then its firing, which has reached *)
(* its first or second function), or settled; and for each handler, where  *)
(* it stands: to be added, to be called, or called.                        *)
(***************************************************************************)
EXTENDS Deferred, SequenceTheorems, TLAPS

(* The lists, and what they may hold.  A list of a deferred of the page is   *)
(* fired with one argument; the lists of when() and then() with any.         *)
Lists == Made \X Aspect
Outs == Made \X {"done", "fail"}
DataOf(l) == IF l[1] \in Base THEN {<<x>> : x \in Atoms} ELSE Values

(* What is asked by who registers a function with list l of outcomes.        *)
Want(l) == [on |-> l[1], how |-> Outcome(l[2])]

(* The functions that add() brings to list l, and what fire() calls first.   *)
Adds(l) ==
  {User(h) : h \in {g \in Handlers : l \in Outs /\ Want(l) \in wants[g]}}
  \cup [k : {"fires"}, list : {"when", "then"} \X Aspect]
  \cup (IF l[1] \in Base THEN [k : {"resolveValue", "progressValue"}, arg : Nat] ELSE {})
  \cup [k : {"forward"}, aspect : Aspect, returned : {"none", "value"} \cup Base]
Closures ==
  [k : {"state"}, on : Made, to : {"resolved", "rejected"}] \cup [k : {"disable", "lock"}, list : Lists]
Other(l) == <<l[1], Opposite(l[2])>>
Core(l) == <<SetState(l[1], Outcome(l[2])), Disable(Other(l)), Lock(ProgressOf(l[1]))>>

-----------------------------------------------------------------------------
(* The stack.                                                                *)

Functions ==
  [k : {"user"}, name : Handlers] \cup [k : {"fires"}, list : {"when", "then"} \X Aspect]
  \cup [k : {"resolveValue", "progressValue"}, arg : Nat]
  \cup [k : {"forward"}, aspect : Aspect, returned : {"none", "value"} \cup Base]
Works ==
  [op : {"add"}, list : Lists, fn : Functions] \cup [op : {"fireWith"}, list : Lists, data : Values]
  \cup [op : {"argument"}, arg : Nat] \cup [op : {"resolveIfDone"}]
Frames ==
  [k : {"fire"}, list : Lists, data : Values]
  \cup [k : {"user"}, name : Handlers] \cup [k : {"method"}, todo : Seq(Works)]

WorkOK(w) ==
  /\ w.op = "add" => w.fn \in Adds(w.list)
  /\ w.op = "fireWith" => w.data \in DataOf(w.list)
FrameOK(f) ==
  /\ f.k = "fire" => f.data \in DataOf(f.list)
  /\ f.k = "method" => \A j \in DOMAIN f.todo : WorkOK(f.todo[j])

OnStack(l) == \E p \in DOMAIN calls : calls[p].k = "fire" /\ calls[p].list = l
Top(l) == calls # <<>> /\ Head(calls).k = "fire" /\ Head(calls).list = l

FramesOK == calls \in Seq(Frames) /\ \A p \in DOMAIN calls : FrameOK(calls[p])

(* A firing is entered from a method, a callback from a firing, a method     *)
(* from a callback, from a firing or from a task of its own.                 *)
NestedAt(p) ==
  /\ calls[p].k \in {"fire", "user"} => p + 1 \in DOMAIN calls
  /\ p + 1 \in DOMAIN calls =>
       CASE calls[p].k = "fire" -> calls[p + 1].k = "method"
         [] calls[p].k = "user" -> calls[p + 1].k = "fire"
         [] OTHER -> calls[p + 1].k # "method"

(* A list is on the stack once.                                              *)
OneFiring ==
  \A p, q \in DOMAIN calls :
    calls[p].k = "fire" /\ calls[q].k = "fire" /\ calls[p].list = calls[q].list => p = q

(* It is firing then, with its memory.                                       *)
FiringOK(f) ==
  f.k = "fire" => lists[f.list].firing /\ (f.list \in Outs => f.data = lists[f.list].memory)

StackOK ==
  /\ FramesOK
  /\ \A p \in DOMAIN calls : NestedAt(p)
  /\ OneFiring
  /\ \A p \in DOMAIN calls : FiringOK(calls[p])

-----------------------------------------------------------------------------
(* The lists.                                                                *)

ListOK(c, l) ==
  /\ DOMAIN c = {"flags", "items", "gone", "again", "queue", "memory", "fired", "firing",
                 "start", "length", "index", "due", "wiped"}
  /\ c.flags = IF l[2] = "progress" THEN {"memory"} ELSE {"once", "memory"}
  /\ c.items \in Seq(Functions \cup Closures)
  /\ c.queue \in Seq(DataOf(l))
  /\ c.memory \in DataOf(l) \cup {NoData}
  /\ c.firing \in BOOLEAN /\ c.fired \in BOOLEAN /\ c.gone \in BOOLEAN
  /\ c.start \in Nat /\ c.index \in Nat /\ c.length \in Nat

ProgressListOK(c, l) == \A i \in DOMAIN c.items : c.items[i] \in Adds(l)

Added3(c, l) ==
  /\ Len(c.items) >= 3
  /\ \A i \in 1..3 : c.items[i] = Core(l)[i]
  /\ \A i \in DOMAIN c.items : i > 3 => c.items[i] \in Adds(l)

(* A list of outcomes before it is fired, in its first firing, after it, and *)
(* disabled.                                                                 *)
Fresh(c, l) ==
  /\ Added3(c, l)
  /\ ~c.fired /\ ~c.firing /\ ~c.gone /\ ~c.again /\ c.queue = <<>> /\ c.memory = NoData /\ c.start = 0
First(c, l) ==
  /\ Added3(c, l)
  /\ c.fired /\ c.firing /\ ~c.gone /\ ~c.again /\ c.queue = <<>> /\ c.memory # NoData /\ c.start = 0
  /\ c.length = Len(c.items)
Later(c, l) ==
  /\ \A i \in DOMAIN c.items : c.items[i] \in Adds(l)
  /\ c.fired /\ ~c.gone /\ ~c.again /\ c.queue = <<>> /\ c.memory # NoData /\ c.start = 0
  /\ IF c.firing THEN c.length = Len(c.items) ELSE c.items = <<>>
Gone(c) == c.gone /\ ~c.firing /\ ~c.fired /\ ~c.again /\ c.queue = <<>> /\ c.items = <<>> /\ c.memory = NoData

(* A deferred before it is settled, while it is being settled, and after.    *)
Pending(d) ==
  state[d] = "pending" /\ \A l \in {DoneOf(d), FailOf(d)} : Fresh(lists[l], l)
Settling(l, i) ==
  /\ First(lists[l], l) /\ lists[l].index = i /\ Top(l)
  /\ Fresh(lists[Other(l)], Other(l))
  /\ state[l[1]] = IF i = 0 THEN "pending" ELSE Outcome(l[2])
Settled(l) ==
  /\ \/ First(lists[l], l) /\ lists[l].index >= 2
     \/ Later(lists[l], l)
  /\ Gone(lists[Other(l)])
  /\ state[l[1]] = Outcome(l[2])
DeferredOK(d) ==
  \/ Pending(d)
  \/ \E l \in {DoneOf(d), FailOf(d)} : Settling(l, 0) \/ Settling(l, 1) \/ Settled(l)

(* How many functions of l have been called in the firing that is on the     *)
(* stack, the one that is running included.                                  *)
Begun(l) == lists[l].index + IF Top(l) THEN 0 ELSE 1

(* What has been called in a firing under way is in the list.                *)
BegunOK(l) == OnStack(l) => Begun(l) <= Len(lists[l].items)

ListsOK ==
  /\ DOMAIN lists = Lists
  /\ \A l \in Lists : ListOK(lists[l], l) /\ (l \notin Outs => ProgressListOK(lists[l], l))
  /\ state \in [Made -> {"pending", "resolved", "rejected"}]
  /\ \A d \in Made : DeferredOK(d)
  /\ \A l \in Outs : BegunOK(l)
  /\ when \in [args : Values, remaining : Int, values : Values, progress : Values]
  /\ used \in 0..MaxCalls

-----------------------------------------------------------------------------
(* The handlers.                                                             *)

(* Handler h is about to be added to list l, by the j-th part of the method  *)
(* at place p of the stack.                                                  *)
AddsAt(p, j, l, h) ==
  /\ p \in DOMAIN calls /\ calls[p].k = "method"
  /\ j \in DOMAIN calls[p].todo /\ calls[p].todo[j] = Add(l, User(h))
Adding(l, h) ==
  \E p \in DOMAIN calls :
    calls[p].k = "method" /\ \E j \in DOMAIN calls[p].todo : calls[p].todo[j] = Add(l, User(h))
Places(l, h) == {i \in DOMAIN lists[l].items : lists[l].items[i] = User(h)}

Asked(l, h) == Want(l) \in wants[h]

(* It is added to a list at most once.                                       *)
OneAdding(l, h) ==
  \A p, q \in DOMAIN calls : calls[p].k = "method" /\ calls[q].k = "method" =>
    \A i \in DOMAIN calls[p].todo, j \in DOMAIN calls[q].todo :
      AddsAt(p, i, l, h) /\ AddsAt(q, j, l, h) => p = q /\ i = j
OneAt(l, h) ==
  /\ OneAdding(l, h)
  /\ \A i, j \in Places(l, h) : i = j
  /\ Adding(l, h) => Places(l, h) = {}

(* A handler that was called has been called by the list of the outcome that *)
(* came about, with its data, and stands nowhere where it would be again.    *)
CalledAt(l, h) ==
  /\ Asked(l, h) /\ state[l[1]] = Outcome(l[2])
  /\ seen[h] = <<lists[l].memory>>
  /\ ~Adding(l, h)
  /\ OnStack(l) => \A i \in Places(l, h) : i <= Begun(l)

(* An exception has left a list firing.                                      *)
Stuck == \E l \in Lists : lists[l].firing /\ ~OnStack(l)

(* A handler that was not called is still to be added, or has its turn to    *)
(* come.                                                                     *)
WaitsAt(l, h) ==
  Asked(l, h) =>
    \/ Stuck \/ seen[h] # <<>> \/ lists[l].gone \/ Adding(l, h)
    \/ \E i \in Places(l, h) : lists[l].firing => i > Begun(l)

HandlerOK(h) ==
  /\ \E d \in Made : wants[h] \subseteq [on : {d}, how : {"resolved", "rejected"}]
  /\ seen[h] # <<>> => \E l \in Outs : CalledAt(l, h)
  /\ \A l \in Outs : OneAt(l, h) /\ WaitsAt(l, h)

HandlersOK ==
  /\ wants \in [Handlers -> SUBSET [on : Made, how : {"resolved", "rejected"}]]
  /\ DOMAIN seen = Handlers
  /\ \A h \in Handlers : HandlerOK(h)

DeferredInv == Deferreds => StackOK /\ ListsOK /\ HandlersOK
-----------------------------------------------------------------------------
(* Names and kinds.                                                          *)

LEMMA Names ==
  /\ Made = Base \cup {"when", "then"}
  /\ "when" \notin Base /\ "then" \notin Base /\ "none" \notin Base /\ "value" \notin Base
  /\ "when" # "then"
  /\ Base \subseteq Atoms
  /\ NoData \notin Values
  /\ \A n \in 1..MaxCalls : Data[n] \in {<<x>> : x \in Atoms}
  /\ MaxCalls \in Nat /\ WhenArgs \subseteq Values
BY DeferredAssumption DEF Made, Atoms

LEMMA ListNames ==
  /\ \A d \in Made, a \in Aspect : <<d, a>> \in Lists
  /\ \A d \in Made : DoneOf(d) \in Outs /\ FailOf(d) \in Outs /\ ProgressOf(d) \in Lists
  /\ \A l \in Lists : l = <<l[1], l[2]>> /\ l[1] \in Made /\ l[2] \in Aspect
  /\ \A l \in Outs : l \in Lists /\ Other(l) \in Outs /\ Other(Other(l)) = l /\ Other(l) # l
                     /\ Other(l)[1] = l[1] /\ l[2] \in {"done", "fail"}
                     /\ (l = DoneOf(l[1]) \/ l = FailOf(l[1]))
  /\ \A l, m \in Outs : l[1] = m[1] => (m = l \/ m = Other(l))
  /\ \A l \in Outs : Outcome(l[2]) \in {"resolved", "rejected"} /\ Outcome(l[2]) # Outcome(Other(l)[2])
                     /\ Outcome(l[2]) # "pending"
  /\ \A d \in Made : Other(DoneOf(d)) = FailOf(d) /\ Other(FailOf(d)) = DoneOf(d)
  /\ \A d \in Made : ProgressOf(d) \notin Outs
  /\ Plain \notin Lists
<1>1. /\ "done" # "fail" /\ "done" # "progress" /\ "fail" # "progress" /\ "list" \notin Aspect
  BY DEF Aspect
<1>2. \A d \in Made : DoneOf(d) = <<d, "done">> /\ FailOf(d) = <<d, "fail">> /\ ProgressOf(d) = <<d, "progress">>
  BY DEF DoneOf, FailOf, ProgressOf
<1>3. \A l \in Lists : l = <<l[1], l[2]>> /\ l[1] \in Made /\ l[2] \in Aspect
  BY DEF Lists
<1>4. \A l \in Outs : l = <<l[1], l[2]>> /\ l[1] \in Made /\ l[2] \in {"done", "fail"}
  BY DEF Outs
<1>5. ASSUME NEW l \in Outs
      PROVE  /\ l \in Lists /\ Other(l) \in Outs /\ Other(Other(l)) = l /\ Other(l) # l
             /\ Other(l)[1] = l[1] /\ l[2] \in {"done", "fail"}
             /\ (l = DoneOf(l[1]) \/ l = FailOf(l[1]))
  BY <1>1, <1>2, <1>4 DEF Outs, Lists, Aspect, Other, Opposite
<1>6. ASSUME NEW l \in Outs, NEW m \in Outs, l[1] = m[1]
      PROVE  m = l \/ m = Other(l)
  BY <1>1, <1>4, <1>6 DEF Other, Opposite
<1>7. \A l \in Outs : Outcome(l[2]) \in {"resolved", "rejected"} /\ Outcome(l[2]) # Outcome(Other(l)[2])
                      /\ Outcome(l[2]) # "pending"
  BY <1>1, <1>4 DEF Outcome, Other, Opposite
<1>8. \A d \in Made : Other(DoneOf(d)) = FailOf(d) /\ Other(FailOf(d)) = DoneOf(d)
  BY <1>1, <1>2 DEF Other, Opposite
<1>9. \A d \in Made : ProgressOf(d) \notin Outs /\ DoneOf(d) \in Outs /\ FailOf(d) \in Outs /\ ProgressOf(d) \in Lists
  BY <1>1, <1>2 DEF Outs, Lists, Aspect
<1>10. Plain \notin Lists
  BY <1>1, <1>3 DEF Plain
<1>11. \A d \in Made, a \in Aspect : <<d, a>> \in Lists
  BY DEF Lists
<1> QED  BY <1>3, <1>5, <1>6, <1>7, <1>8, <1>9, <1>10, <1>11

(* The kinds of functions are told apart.                                    *)
LEMMA Kinds ==
  /\ \A l : \A f \in Adds(l) : f.k \in {"user", "fires", "resolveValue", "progressValue", "forward"}
                               /\ f \in Functions
  /\ \A l \in Lists : \A f \in Adds(l) : f.k = "user" =>
       f.name \in Handlers /\ f = User(f.name) /\ l \in Outs /\ Asked(l, f.name)
  /\ \A l : \A f \in Adds(l) : f.k = "fires" => f.list \in {"when", "then"} \X Aspect
  /\ \A l : \A f \in Adds(l) : f.k \in {"resolveValue", "progressValue"} => l[1] \in Base /\ f.arg \in Nat
  /\ \A l : \A f \in Adds(l) : f.k = "forward" =>
       f.aspect \in Aspect /\ f.returned \in {"none", "value"} \cup Base
  /\ \A l \in Outs : Core(l)[1] = SetState(l[1], Outcome(l[2])) /\ Core(l)[1].k = "state"
  /\ \A l \in Outs : Core(l)[2] = Disable(Other(l)) /\ Core(l)[2].k = "disable"
  /\ \A l \in Outs : Core(l)[3] = Lock(ProgressOf(l[1])) /\ Core(l)[3].k = "lock"
  /\ \A h : User(h).k = "user" /\ User(h).name = h
<1>1. \A l : \A f \in Adds(l) :
        \/ \E g \in Handlers : f = User(g) /\ l \in Outs /\ Want(l) \in wants[g]
        \/ f \in [k : {"fires"}, list : {"when", "then"} \X Aspect]
        \/ l[1] \in Base /\ f \in [k : {"resolveValue", "progressValue"}, arg : Nat]
        \/ f \in [k : {"forward"}, aspect : Aspect, returned : {"none", "value"} \cup Base]
  BY DEF Adds
<1>2. ASSUME NEW l, NEW f \in Adds(l)
      PROVE /\ f.k \in {"user", "fires", "resolveValue", "progressValue", "forward"}
            /\ f \in Functions
            /\ f.k = "user" => f.name \in Handlers /\ f = User(f.name) /\ l \in Outs /\ Want(l) \in wants[f.name]
            /\ f.k = "fires" => f.list \in {"when", "then"} \X Aspect
            /\ f.k \in {"resolveValue", "progressValue"} => l[1] \in Base /\ f.arg \in Nat
            /\ f.k = "forward" =>  f.aspect \in Aspect /\ f.returned \in {"none", "value"} \cup Base
  <2>1. CASE \E g \in Handlers : f = User(g) /\ l \in Outs /\ Want(l) \in wants[g]
    BY <2>1 DEF User, Functions
  <2>2. CASE f \in [k : {"fires"}, list : {"when", "then"} \X Aspect]
    BY <2>2 DEF Functions
  <2>3. CASE l[1] \in Base /\ f \in [k : {"resolveValue", "progressValue"}, arg : Nat]
    BY <2>3 DEF Functions
  <2>4. CASE f \in [k : {"forward"}, aspect : Aspect, returned : {"none", "value"} \cup Base]
    BY <2>4 DEF Functions
  <2> QED  BY <1>1, <2>1, <2>2, <2>3, <2>4
<1>3. \A l \in Outs : /\ Core(l)[1] = SetState(l[1], Outcome(l[2]))
                      /\ Core(l)[2] = Disable(Other(l)) /\ Core(l)[3] = Lock(ProgressOf(l[1]))
  BY DEF Core
<1>4. \A d, x, l, h : SetState(d, x).k = "state" /\ Disable(l).k = "disable" /\ Lock(l).k = "lock"
                      /\ User(h).k = "user" /\ User(h).name = h
  BY DEF SetState, Disable, Lock, User
<1> QED  BY <1>2, <1>3, <1>4 DEF Asked

-----------------------------------------------------------------------------
(* Stacks.                                                                   *)

LEMMA Pushed ==
  ASSUME NEW S, NEW s \in Seq(S), NEW f \in S
  PROVE  /\ <<f>> \o s \in Seq(S) /\ <<f>> \o s # <<>> /\ Head(<<f>> \o s) = f
         /\ Len(<<f>> \o s) = Len(s) + 1 /\ DOMAIN (<<f>> \o s) = 1..(Len(s) + 1)
         /\ (<<f>> \o s)[1] = f
         /\ \A p \in 2..(Len(s) + 1) : (<<f>> \o s)[p] = s[p - 1]
         /\ Tail(<<f>> \o s) = s
<1> DEFINE t == <<f>> \o s
<1>1. <<f>> \in Seq(S) /\ Len(<<f>>) = 1 /\ <<f>>[1] = f
  OBVIOUS
<1>2. /\ t \in Seq(S) /\ Len(t) = 1 + Len(s)
      /\ \A i \in 1..1 + Len(s) : t[i] = IF i <= 1 THEN <<f>>[i] ELSE s[i - 1]
  BY <1>1, ConcatProperties
<1>3. Len(s) \in Nat
  OBVIOUS
<1> HIDE DEF t
<1>4. t # <<>> /\ DOMAIN t = 1..(Len(s) + 1) /\ t[1] = f /\ \A p \in 2..(Len(s) + 1) : t[p] = s[p - 1]
  BY <1>1, <1>2, <1>3
<1>5. Head(t) = f
  BY <1>2, <1>4
<1>6. Tail(t) \in Seq(S) /\ Len(Tail(t)) = Len(s) /\ \A i \in 1..Len(Tail(t)) : Tail(t)[i] = t[i + 1]
  BY <1>2, <1>3, <1>4, HeadTailProperties
<1>7. \A i \in 1..Len(Tail(t)) : Tail(t)[i] = s[i]
  BY <1>3, <1>4, <1>6
<1>8. Tail(t) = s
  BY <1>6, <1>7, SeqEqual
<1> QED  BY <1>2, <1>3, <1>4, <1>5, <1>8 DEF t

LEMMA Popped ==
  ASSUME NEW S, NEW s \in Seq(S), s # <<>>
  PROVE  /\ Tail(s) \in Seq(S) /\ Head(s) = s[1] /\ 1 \in DOMAIN s
         /\ Len(Tail(s)) = Len(s) - 1 /\ Len(s) \in Nat \ {0} /\ DOMAIN s = 1..Len(s)
         /\ DOMAIN Tail(s) = 1..(Len(s) - 1)
         /\ \A p \in 1..(Len(s) - 1) : Tail(s)[p] = s[p + 1]
BY HeadTailProperties

-----------------------------------------------------------------------------
(* The methods of a list.                                                    *)

Fields == {"flags", "items", "gone", "again", "queue", "memory", "fired", "firing",
           "start", "length", "index", "due", "wiped"}

(* No data of a list is NoData, and what a deferred of the page is fired     *)
(* with may be fired on.                                                     *)
LEMMA DataIsNot == \A l \in Lists : NoData \notin DataOf(l) /\ DataOf(l) \subseteq Values
<1>1. \A x \in Atoms : <<x>> \in Values
  BY DEF Values
<1> QED  BY <1>1, Names DEF DataOf

(* What may be added to a list is a function of the page or of the library.  *)
LEMMA FunctionsOf == \A l : Adds(l) \subseteq Functions \cup Closures
BY Kinds

(* A list whose firing begins.                                               *)
LEMMA EnteredList ==
  ASSUME NEW l \in Lists, NEW c, ListOK(c, l), NEW data \in DataOf(l)
  PROVE  /\ ListOK(Entered(c, data), l)
         /\ Entered(c, data).items = c.items /\ Entered(c, data).gone = c.gone
         /\ Entered(c, data).again = c.again /\ Entered(c, data).queue = c.queue
         /\ Entered(c, data).memory = data /\ Entered(c, data).fired /\ Entered(c, data).firing
         /\ Entered(c, data).start = 0 /\ Entered(c, data).index = c.start
         /\ Entered(c, data).length = Len(c.items)
<1>1. "memory" \in c.flags
  BY DEF ListOK
<1> DEFINE s == SubSeq(c.items, c.start + 1, Len(c.items))
<1> HIDE DEF s
<1>2. Entered(c, data) = [c EXCEPT !.memory = data, !.fired = TRUE, !.index = c.start, !.start = 0,
                                   !.length = Len(c.items), !.firing = TRUE, !.due = s]
  BY <1>1 DEF Entered, s
<1> DEFINE n == [c EXCEPT !.memory = data, !.fired = TRUE, !.index = c.start, !.start = 0,
                          !.length = Len(c.items), !.firing = TRUE, !.due = s]
<1>3. DOMAIN c = Fields
  BY DEF ListOK, Fields
<1>4. /\ DOMAIN n = Fields /\ n.items = c.items /\ n.gone = c.gone /\ n.again = c.again /\ n.queue = c.queue
      /\ n.flags = c.flags
      /\ n.memory = data /\ n.fired = TRUE /\ n.firing = TRUE /\ n.start = 0 /\ n.index = c.start
      /\ n.length = Len(c.items)
  BY <1>3 DEF Fields
<1> HIDE DEF n
<1>5. ListOK(n, l)
  <2>1. n.fired \in BOOLEAN /\ n.firing \in BOOLEAN /\ n.gone \in BOOLEAN
    BY <1>4, Zenon DEF ListOK
  <2>2. /\ n.items \in Seq(Functions \cup Closures) /\ n.queue \in Seq(DataOf(l))
        /\ n.memory \in DataOf(l) \cup {NoData} /\ n.start \in Nat /\ n.index \in Nat
        /\ n.length \in Nat
    BY <1>4 DEF ListOK
  <2> QED  BY <1>4, <2>1, <2>2 DEF ListOK, Fields
<1> QED  BY <1>2, <1>4, <1>5 DEF n

(* A list stays one when its functions change.                               *)
LEMMA ItemsChanged ==
  ASSUME NEW l \in Lists, NEW c, ListOK(c, l), NEW items \in Seq(Functions \cup Closures),
         NEW start \in Nat
  PROVE  /\ ListOK([c EXCEPT !.items = items], l)
         /\ ListOK([c EXCEPT !.items = items, !.start = start], l)
BY DEF ListOK

(* add(): the function is appended, or called now or when the firing gets    *)
(* there, or lost with the list.                                             *)
LEMMA AddedList ==
  ASSUME NEW l \in Lists, NEW c, ListOK(c, l), NEW f \in Adds(l)
  PROVE  LET n == Added(c, f)
         IN /\ ListOK(n, l)
            /\ n.gone = c.gone /\ n.again = c.again /\ n.queue = c.queue /\ n.memory = c.memory
            /\ c.gone => n = c /\ ~AddFires(c)
            /\ ~c.gone => n.items = Append(c.items, f)
            /\ ~c.gone /\ c.firing => /\ n.length = Len(n.items) /\ n.index = c.index /\ n.firing
                                      /\ n.fired = c.fired /\ n.start = c.start /\ ~AddFires(c)
            /\ ~c.gone /\ ~c.firing /\ c.memory # NoData =>
                 /\ n.length = Len(n.items) /\ n.index = Len(c.items) /\ n.firing /\ n.fired /\ n.start = 0
                 /\ AddFires(c)
            /\ ~c.gone /\ ~c.firing /\ c.memory = NoData =>
                 /\ n.fired = c.fired /\ n.firing = c.firing /\ n.start = c.start /\ n.index = c.index
                 /\ ~AddFires(c)
<1> DEFINE more == Append(c.items, f)
           s == Append(c.due, f)
<1>1. more \in Seq(Functions \cup Closures) /\ Len(more) \in Nat /\ Len(c.items) \in Nat
  BY FunctionsOf DEF ListOK
<1> HIDE DEF more, s
<1>2. Accepts(c, f) <=> ~c.gone
  BY DEF Accepts, ListOK
<1>3. DOMAIN c = Fields
  BY DEF ListOK, Fields
<1>4. CASE c.gone
  <2>1. Added(c, f) = c /\ ~AddFires(c)
    BY <1>4 DEF Added, AddFires
  <2> QED  BY <1>4, <2>1
<1>5. CASE ~c.gone /\ c.firing
  <2> DEFINE n == [c EXCEPT !.items = more, !.length = Len(more), !.due = s]
  <2>1. Added(c, f) = n /\ ~AddFires(c)
    BY <1>5, <1>2 DEF Added, AddFires, more, s
  <2>2. /\ DOMAIN n = Fields /\ n.items = more /\ n.gone = c.gone /\ n.again = c.again /\ n.queue = c.queue
        /\ n.flags = c.flags /\ n.memory = c.memory /\ n.fired = c.fired /\ n.firing = c.firing
        /\ n.start = c.start /\ n.index = c.index /\ n.length = Len(more)
    BY <1>3 DEF Fields
  <2> HIDE DEF n
  <2>3. ListOK(n, l)
    BY <1>1, <2>2 DEF ListOK, Fields
  <2> QED  BY <1>5, <2>1, <2>2, <2>3 DEF more
<1>6. CASE ~c.gone /\ ~c.firing /\ c.memory # NoData
  <2> DEFINE m == [c EXCEPT !.items = more, !.start = Len(c.items)]
  <2>1. Added(c, f) = Entered(m, c.memory) /\ AddFires(c)
    BY <1>6, <1>2 DEF Added, AddFires, more
  <2>2. /\ m.items = more /\ m.gone = c.gone /\ m.again = c.again /\ m.queue = c.queue
        /\ m.start = Len(c.items)
    BY <1>3 DEF Fields
  <2>3. ListOK(m, l) /\ c.memory \in DataOf(l)
    BY <1>1, <1>6, ItemsChanged DEF ListOK
  <2> HIDE DEF m
  <2> QED  BY <1>6, <2>1, <2>2, <2>3, EnteredList DEF more
<1>7. CASE ~c.gone /\ ~c.firing /\ c.memory = NoData
  <2> DEFINE n == [c EXCEPT !.items = more]
  <2>1. Added(c, f) = n /\ ~AddFires(c)
    BY <1>7, <1>2 DEF Added, AddFires, more
  <2>2. /\ DOMAIN n = Fields /\ n.items = more /\ n.gone = c.gone /\ n.again = c.again /\ n.queue = c.queue
        /\ n.flags = c.flags /\ n.memory = c.memory /\ n.fired = c.fired /\ n.firing = c.firing
        /\ n.start = c.start /\ n.index = c.index /\ n.length = c.length
    BY <1>3 DEF Fields
  <2>3. ListOK(n, l)
    BY <1>1, ItemsChanged
  <2> HIDE DEF n
  <2> QED  BY <1>7, <2>1, <2>2, <2>3 DEF more
<1> QED  BY <1>4, <1>5, <1>6, <1>7

(* fireWith(): nothing, a queue entry or a firing.                           *)
LEMMA FiredList ==
  ASSUME NEW l \in Lists, NEW c, ListOK(c, l), NEW data \in DataOf(l)
  PROVE  LET n == FiredWith(c, data)
         IN /\ ListOK(n, l)
            /\ ~MayFire(c) => n = c /\ ~FiresNow(c)
            /\ MayFire(c) /\ c.firing =>
                 /\ ~FiresNow(c) /\ n.items = c.items /\ n.firing /\ n.again = c.again
            /\ MayFire(c) /\ ~c.firing =>
                 /\ FiresNow(c) /\ n = Entered(c, data)
<1>1. CASE ~MayFire(c)
  BY <1>1 DEF FiredWith, FiresNow
<1>2. CASE MayFire(c) /\ c.firing
  <2> DEFINE q == Append(c.queue, data)
             n == [c EXCEPT !.queue = q]
  <2>1. q \in Seq(DataOf(l))
    BY DEF ListOK
  <2>2. FiredWith(c, data) = n /\ ~FiresNow(c)
    BY <1>2 DEF FiredWith, FiresNow
  <2> HIDE DEF q
  <2>3. ListOK(n, l) /\ n.items = c.items /\ n.firing = c.firing /\ n.again = c.again
    BY <2>1 DEF ListOK
  <2> QED  BY <1>2, <2>2, <2>3
<1>3. CASE MayFire(c) /\ ~c.firing
  <2>1. FiredWith(c, data) = Entered(c, data) /\ FiresNow(c)
    BY <1>3 DEF FiredWith, FiresNow
  <2> QED  BY <1>3, <2>1, EnteredList
<1> QED  BY <1>1, <1>2, <1>3

(* disable(): nothing is left of the list.                                   *)
LEMMA DisabledList ==
  ASSUME NEW l \in Lists, NEW c, ListOK(c, l)
  PROVE  LET n == Disabled(c)
         IN /\ ListOK(n, l) /\ n.items = <<>> /\ n.gone /\ ~n.again /\ n.queue = <<>> /\ n.memory = NoData
            /\ n.firing = c.firing /\ n.fired = c.fired /\ n.start = c.start /\ n.index = c.index
<1> DEFINE n == [c EXCEPT !.items = <<>>, !.gone = TRUE, !.again = FALSE, !.queue = <<>>, !.memory = NoData]
<1>1. Disabled(c) = n
  BY DEF Disabled
<1>2. DOMAIN c = Fields
  BY DEF ListOK, Fields
<1>3. /\ DOMAIN n = Fields /\ n.items = <<>> /\ n.gone = TRUE /\ n.again = FALSE /\ n.queue = <<>>
      /\ n.flags = c.flags /\ n.memory = NoData /\ n.fired = c.fired /\ n.firing = c.firing
      /\ n.start = c.start /\ n.index = c.index /\ n.length = c.length
  BY <1>2 DEF Fields
<1> HIDE DEF n
<1>4. ListOK(n, l)
  <2>1. n.fired \in BOOLEAN /\ n.firing \in BOOLEAN /\ n.gone \in BOOLEAN
    BY <1>3, Zenon DEF ListOK
  <2>2. /\ n.items \in Seq(Functions \cup Closures) /\ n.queue \in Seq(DataOf(l))
        /\ n.memory \in DataOf(l) \cup {NoData} /\ n.start \in Nat /\ n.index \in Nat
        /\ n.length \in Nat
    BY <1>3 DEF ListOK
  <2> QED  BY <1>3, <2>1, <2>2 DEF ListOK, Fields
<1> QED  BY <1>1, <1>3, <1>4

(* lock(): no function is lost, unless the list has no memory.               *)
LEMMA LockedList ==
  ASSUME NEW l \in Lists, NEW c, ListOK(c, l)
  PROVE  LET n == Locked(c)
         IN /\ ListOK(n, l) /\ (n.items = c.items \/ n.items = <<>>) /\ n.firing = c.firing
<1>1. CASE c.memory = NoData
  BY <1>1, DisabledList DEF Locked
<1>2. CASE c.memory # NoData
  <2> DEFINE n == [c EXCEPT !.again = FALSE, !.queue = <<>>]
  <2>1. Locked(c) = n
    BY <1>2 DEF Locked
  <2>2. ListOK(n, l) /\ n.items = c.items /\ n.firing = c.firing
    BY DEF ListOK
  <2> QED  BY <2>1, <2>2
<1> QED  BY <1>1, <1>2

(* The end of fire().                                                        *)
LEMMA LeftList ==
  ASSUME NEW l \in Lists, NEW c, ListOK(c, l)
  PROVE  LET n == Left(c)
         IN /\ ListOK(n, l)
            /\ n.items = c.items \/ n.items = <<>>
            /\ ~Refires(c) => ~n.firing
            /\ Refires(c) => n.firing /\ n.again = c.again /\ Head(c.queue) \in DataOf(l)
            /\ ~c.gone /\ ~c.again /\ c.memory # NoData =>
                 /\ n.items = <<>> /\ n.gone = c.gone /\ n.again = c.again /\ n.queue = c.queue
                 /\ n.memory = c.memory /\ n.fired = c.fired /\ n.start = c.start
                 /\ ~Refires(c)
<1> DEFINE done == [c EXCEPT !.firing = FALSE, !.due = <<>>]
<1>1. DOMAIN c = Fields
  BY DEF ListOK, Fields
<1>2. /\ DOMAIN done = Fields /\ done.items = c.items /\ done.gone = c.gone /\ done.again = c.again
      /\ done.queue = c.queue
      /\ done.flags = c.flags /\ done.memory = c.memory /\ done.fired = c.fired /\ done.firing = FALSE
      /\ done.start = c.start /\ done.index = c.index /\ done.length = c.length
  BY <1>1 DEF Fields
<1>3. Left(c) = IF c.gone THEN done
                ELSE IF c.again
                     THEN IF c.queue = <<>> THEN done
                          ELSE Entered([done EXCEPT !.queue = Tail(@)], Head(c.queue))
                     ELSE IF c.memory # NoData THEN [done EXCEPT !.items = <<>>]
                          ELSE Disabled(done)
  BY DEF Left
<1> HIDE DEF done
<1>4. ListOK(done, l)
  BY <1>2 DEF ListOK, Fields
<1>5. CASE c.gone \/ (c.again /\ c.queue = <<>>)
  <2>1. Left(c) = done /\ ~Refires(c)
    BY <1>3, <1>5 DEF Refires
  <2> QED  BY <1>2, <1>4, <1>5, <2>1
<1>6. CASE ~c.gone /\ c.again /\ c.queue # <<>>
  <2> DEFINE q == Tail(c.queue)
             m == [done EXCEPT !.queue = q]
  <2>1. q \in Seq(DataOf(l)) /\ Head(c.queue) \in DataOf(l)
    BY <1>6, HeadTailProperties DEF ListOK
  <2>2. Left(c) = Entered(m, Head(c.queue)) /\ Refires(c)
    BY <1>2, <1>3, <1>6 DEF Refires
  <2> HIDE DEF q
  <2>3. ListOK(m, l) /\ m.items = done.items /\ m.again = done.again
    BY <1>4, <2>1 DEF ListOK
  <2>4. m.items = c.items /\ m.again = c.again
    BY <1>2, <2>3
  <2> HIDE DEF m
  <2> DEFINE n == Entered(m, Head(c.queue))
  <2>5. ListOK(n, l) /\ n.items = m.items /\ n.again = m.again /\ n.firing
    BY <2>1, <2>3, EnteredList
  <2> HIDE DEF n
  <2>6. Left(c) = n
    BY <2>2 DEF n
  <2> QED  BY <1>6, <2>1, <2>2, <2>4, <2>5, <2>6
<1>7. CASE ~c.gone /\ ~c.again /\ c.memory # NoData
  <2> DEFINE n == [done EXCEPT !.items = <<>>]
  <2>1. Left(c) = n /\ ~Refires(c)
    BY <1>3, <1>7 DEF Refires
  <2>2. /\ n.items = <<>> /\ n.gone = done.gone /\ n.again = done.again
        /\ n.queue = done.queue
        /\ n.memory = done.memory /\ n.fired = done.fired /\ n.firing = done.firing
        /\ n.start = done.start
    BY <1>2 DEF Fields
  <2>3. ListOK(n, l)
    <3>1. <<>> \in Seq(Functions \cup Closures)
      OBVIOUS
    <3> HIDE DEF done
    <3> QED  BY <1>4, <3>1, ItemsChanged
  <2> HIDE DEF n
  <2> QED  BY <1>2, <1>7, <2>1, <2>2, <2>3
<1>8. CASE ~c.gone /\ ~c.again /\ ~(c.memory # NoData)
  <2>1. Left(c) = Disabled(done) /\ ~Refires(c)
    BY <1>3, <1>8 DEF Refires
  <2> QED  BY <1>2, <1>4, <1>8, <2>1, DisabledList
<1> QED  BY <1>5, <1>6, <1>7, <1>8
-----------------------------------------------------------------------------
(* Steps.                                                                    *)

(* c has become n, but for how far its firing has come.                      *)
Same(c, n) ==
  /\ n.items = c.items /\ n.gone = c.gone /\ n.again = c.again /\ n.queue = c.queue
  /\ n.memory = c.memory /\ n.fired = c.fired /\ n.firing = c.firing
  /\ n.start = c.start /\ n.length = c.length

(* What is due from an earlier return changes a list as Same allows.         *)
LEMMA PaidLists ==
  ASSUME DOMAIN lists = Lists, \A l \in Lists : ListOK(lists[l], l), Here \in Lists
  PROVE  /\ DOMAIN Paid = Lists
         /\ \A l \in Lists : /\ ListOK(Paid[l], l) /\ Same(lists[l], Paid[l])
                             /\ Paid[l].index = lists[l].index
<1> DEFINE due == IF lists[Here].due = <<>> THEN lists[Here].due ELSE Tail(lists[Here].due)
           c == lists[Here]
<1> HIDE DEF due
<1>1. Paid = [lists EXCEPT ![Here] = [c EXCEPT !.due = due]]
  BY DEF Paid, due
<1>2. DOMAIN c = Fields
  BY DEF ListOK, Fields
<1> DEFINE n == [c EXCEPT !.due = due]
<1>3. /\ DOMAIN n = Fields /\ Same(c, n) /\ n.index = c.index /\ n.flags = c.flags
  BY <1>2 DEF Same, Fields
<1> HIDE DEF n
<1>4. ListOK(n, Here)
  BY <1>3 DEF ListOK, Same, Fields
<1>5. DOMAIN Paid = Lists /\ \A l \in Lists : Paid[l] = IF l = Here THEN n ELSE lists[l]
  BY <1>1 DEF n
<1>6. \A l \in Lists : Same(lists[l], lists[l])
  BY DEF Same
<1> QED  BY <1>3, <1>4, <1>5, <1>6

(* The loop goes one function further.                                       *)
LEMMA AdvancedLists ==
  ASSUME NEW ls, DOMAIN ls = Lists, \A l \in Lists : ListOK(ls[l], l), NEW m \in Lists
  PROVE  /\ DOMAIN Advance(m, ls) = Lists
         /\ \A l \in Lists :
              /\ ListOK(Advance(m, ls)[l], l) /\ Same(ls[l], Advance(m, ls)[l])
              /\ Advance(m, ls)[l].index = IF l = m THEN ls[l].index + 1 ELSE ls[l].index
              /\ l # m => Advance(m, ls)[l] = ls[l]
<1> DEFINE c == ls[m]
           i == c.index + 1
<1>1. i \in Nat /\ DOMAIN c = Fields
  BY DEF ListOK, Fields
<1> HIDE DEF i
<1> DEFINE n == [c EXCEPT !.index = i]
<1>2. /\ DOMAIN n = Fields /\ Same(c, n) /\ n.index = i /\ n.flags = c.flags
  BY <1>1 DEF Same, Fields
<1>3. Advance(m, ls) = [ls EXCEPT ![m] = n]
  BY DEF Advance, i
<1> HIDE DEF n
<1>4. ListOK(n, m)
  BY <1>1, <1>2 DEF ListOK, Same, Fields
<1>5. DOMAIN Advance(m, ls) = Lists /\ \A l \in Lists : Advance(m, ls)[l] = IF l = m THEN n ELSE ls[l]
  BY <1>3
<1>6. \A l \in Lists : Same(ls[l], ls[l])
  BY DEF Same
<1> QED  BY <1>2, <1>4, <1>5, <1>6 DEF i

(* One list is changed.                                                      *)
LEMMA ChangedList ==
  ASSUME NEW ls, DOMAIN ls = Lists, \A l \in Lists : ListOK(ls[l], l), NEW m \in Lists,
         NEW c, ListOK(c, m)
  PROVE  /\ DOMAIN [ls EXCEPT ![m] = c] = Lists
         /\ \A l \in Lists : ListOK([ls EXCEPT ![m] = c][l], l)
         /\ [ls EXCEPT ![m] = c][m] = c
         /\ \A l \in Lists : l # m => [ls EXCEPT ![m] = c][l] = ls[l]
OBVIOUS

LEMMA SameItself == \A c : Same(c, c)
BY DEF Same

(* What is asked is never taken back.                                        *)
Grows == \A h \in Handlers : wants[h] \subseteq wants'[h]

(* So what may be added grows.                                               *)
LEMMA AddsGrow ==
  ASSUME Grows
  PROVE  \A l : Adds(l) \subseteq Adds(l)'
BY DEF Adds, Grows

(* And the calls under way stay good.                                        *)
LEMMA FrameStays ==
  ASSUME Grows, NEW f \in Frames, FrameOK(f)
  PROVE  f.k \in {"fire", "method"} =>
           /\ f.k = "fire" => f.data \in DataOf(f.list)
           /\ f.k = "method" => \A j \in DOMAIN f.todo :
                /\ f.todo[j].op = "add" => f.todo[j].fn \in Adds(f.todo[j].list)'
                /\ f.todo[j].op = "fireWith" => f.todo[j].data \in DataOf(f.todo[j].list)
BY AddsGrow DEF FrameOK, WorkOK

(* The stack loses its first old frames and gets new ones.                   *)
Restacked(new, old) ==
  /\ Len(calls') = Len(calls) - old + new /\ old <= Len(calls) /\ calls' \in Seq(Frames)
  /\ \A p \in DOMAIN calls' : p > new => calls'[p] = calls[p - new + old]

(* Frames that are pushed good keep the stack good.                          *)
LEMMA StackStep ==
  ASSUME NEW new \in 0..2, NEW old \in 0..1, StackOK, Grows, Restacked(new, old),
         \A p \in 1..new : FrameOK(calls[p])',
         \A p \in 1..new : NestedAt(p)',
         \A p \in 1..new, q \in DOMAIN calls' :
           calls'[p].k = "fire" /\ calls'[q].k = "fire" /\ calls'[p].list = calls'[q].list => p = q,
         \A p \in 1..new : FiringOK(calls[p])',
         \A p \in DOMAIN calls : p > old /\ calls[p].k = "fire" =>
           /\ lists'[calls[p].list].firing
           /\ calls[p].list \in Outs => lists'[calls[p].list].memory = lists[calls[p].list].memory
  PROVE  StackOK'
<1> USE DEF StackOK, Restacked
<1>1. /\ calls \in Seq(Frames) /\ Len(calls) \in Nat /\ DOMAIN calls = 1..Len(calls)
      /\ calls' \in Seq(Frames) /\ Len(calls') \in Nat /\ DOMAIN calls' = 1..Len(calls')
  BY DEF FramesOK
<1>2. \A p \in DOMAIN calls' : p > new => p - new + old \in DOMAIN calls /\ calls'[p] = calls[p - new + old]
  BY <1>1
<1>3. FramesOK'
  <2> SUFFICES ASSUME NEW p \in DOMAIN calls', p > new
               PROVE  FrameOK(calls[p])'
    BY <1>1 DEF FramesOK
  <2>1. PICK f : f = calls'[p] /\ f \in Frames /\ FrameOK(f)
    BY <1>1, <1>2 DEF FramesOK
  <2> QED  BY <2>1, FrameStays DEF FrameOK, WorkOK
<1>4. ASSUME NEW p \in DOMAIN calls'
      PROVE  NestedAt(p)'
  <2>1. CASE p \in 1..new
    BY <2>1
  <2>2. CASE p > new
    <3> DEFINE q == p - new + old
    <3>1. q \in DOMAIN calls /\ calls'[p] = calls[q] /\ (p + 1 \in DOMAIN calls' <=> q + 1 \in DOMAIN calls)
      BY <1>1, <1>2, <2>2, SMTT(40)
    <3>2. p + 1 \in DOMAIN calls' => calls'[p + 1] = calls[q + 1]
      BY <1>1, <1>2, <2>2, SMTT(40)
    <3>3. NestedAt(q)
      BY <3>1
    <3> HIDE DEF q
    <3> QED  BY <3>1, <3>2, <3>3 DEF NestedAt
  <2> QED  BY <1>1, <2>1, <2>2
<1>5. OneFiring'
  <2> SUFFICES ASSUME NEW p \in DOMAIN calls', NEW q \in DOMAIN calls',
                      calls'[p].k = "fire", calls'[q].k = "fire", calls'[p].list = calls'[q].list
               PROVE  p = q
    BY DEF OneFiring
  <2>1. CASE p \in 1..new \/ q \in 1..new
    BY <2>1
  <2>2. CASE p > new /\ q > new
    <3>1. p - new + old = q - new + old
      BY <1>2, <2>2 DEF OneFiring
    <3> QED  BY <1>1, <3>1
  <2> QED  BY <1>1, <2>1, <2>2
<1>6. ASSUME NEW p \in DOMAIN calls'
      PROVE  FiringOK(calls[p])'
  <2>1. CASE p \in 1..new
    BY <2>1
  <2>2. CASE p > new
    <3> DEFINE q == p - new + old
    <3>1. q \in DOMAIN calls /\ calls'[p] = calls[q] /\ q > old
      BY <1>1, <1>2, <2>2
    <3> HIDE DEF q
    <3> QED  BY <3>1 DEF FiringOK
  <2> QED  BY <1>1, <2>1, <2>2
<1> QED  BY <1>3, <1>4, <1>5, <1>6
-----------------------------------------------------------------------------
(* The innermost call.                                                       *)

LEMMA TopFacts ==
  ASSUME StackOK, calls # <<>>
  PROVE  /\ 1 \in DOMAIN calls /\ calls[1] = Head(calls) /\ Head(calls) \in Frames
         /\ FrameOK(Head(calls)) /\ NestedAt(1) /\ FiringOK(Head(calls))
         /\ Len(calls) \in Nat \ {0} /\ DOMAIN calls = 1..Len(calls)
         /\ \A l : Top(l) <=> Head(calls).k = "fire" /\ Head(calls).list = l
         /\ \A l : Top(l) => OnStack(l)
         /\ Head(calls).k \in {"fire", "user", "method"}
         /\ Head(calls).k = "fire" => Head(calls).list \in Lists /\ Head(calls).data \in DataOf(Head(calls).list)
         /\ Head(calls).k = "user" => Head(calls).name \in Handlers
         /\ Head(calls).k = "method" => Head(calls).todo \in Seq(Works)
<1>1. calls \in Seq(Frames)
  BY DEF StackOK, FramesOK
<1>2. /\ 1 \in DOMAIN calls /\ calls[1] = Head(calls) /\ Head(calls) \in Frames
      /\ Len(calls) \in Nat \ {0} /\ DOMAIN calls = 1..Len(calls)
  BY <1>1
<1>3. FrameOK(Head(calls)) /\ NestedAt(1) /\ FiringOK(Head(calls))
  BY <1>2 DEF StackOK, FramesOK
<1>4. \A l : Top(l) <=> Head(calls).k = "fire" /\ Head(calls).list = l
  BY DEF Top
<1>5. \A l : Top(l) => OnStack(l)
  BY <1>2, <1>4 DEF OnStack
<1>6. /\ Head(calls).k \in {"fire", "user", "method"}
      /\ Head(calls).k = "fire" => Head(calls).list \in Lists
      /\ Head(calls).k = "user" => Head(calls).name \in Handlers
      /\ Head(calls).k = "method" => Head(calls).todo \in Seq(Works)
  BY <1>2 DEF Frames
<1>7. Head(calls).k = "fire" => Head(calls).data \in DataOf(Head(calls).list)
  BY <1>3 DEF FrameOK
<1> QED  BY <1>2, <1>3, <1>4, <1>5, <1>6, <1>7

(* A list that is neither entered nor left stays on the stack, or off it.    *)
LEMMA OnStackStays ==
  ASSUME NEW new \in 0..2, NEW old \in 0..1, StackOK, Restacked(new, old), NEW l,
         \A p \in 1..new : ~(calls'[p].k = "fire" /\ calls'[p].list = l),
         old = 1 => ~Top(l)
  PROVE  OnStack(l)' <=> OnStack(l)
<1>1. /\ calls \in Seq(Frames) /\ Len(calls) \in Nat /\ DOMAIN calls = 1..Len(calls)
      /\ Len(calls') = Len(calls) - old + new /\ DOMAIN calls' = 1..Len(calls')
      /\ \A p \in DOMAIN calls' : p > new => calls'[p] = calls[p - new + old]
  BY DEF StackOK, FramesOK, Restacked
<1>2. ASSUME OnStack(l)
      PROVE  OnStack(l)'
  <2>1. PICK p \in DOMAIN calls : calls[p].k = "fire" /\ calls[p].list = l
    BY <1>2 DEF OnStack
  <2>2. p > old
    BY <1>1, <2>1 DEF Top
  <2>3. p + new - old \in DOMAIN calls' /\ calls'[p + new - old] = calls[p]
    BY <1>1, <2>2, SMTT(40)
  <2> QED  BY <2>1, <2>3 DEF OnStack
<1>3. ASSUME OnStack(l)'
      PROVE  OnStack(l)
  <2>1. PICK p \in DOMAIN calls' : calls'[p].k = "fire" /\ calls'[p].list = l
    BY <1>3 DEF OnStack
  <2>2. p > new
    BY <1>1, <2>1
  <2>3. p - new + old \in DOMAIN calls /\ calls'[p] = calls[p - new + old]
    BY <1>1, <2>2
  <2> QED  BY <2>1, <2>3 DEF OnStack
<1> QED  BY <1>2, <1>3

(* A list that an exception left firing keeps firing.                        *)
LEMMA StuckStays ==
  ASSUME \A l \in Lists : lists[l].firing /\ ~OnStack(l) => lists'[l].firing /\ ~OnStack(l)'
  PROVE  Stuck => Stuck'
BY DEF Stuck

(* While the innermost call is no firing of it, a deferred is at rest.       *)
Rest(d) == Pending(d) \/ \E l \in {DoneOf(d), FailOf(d)} : Settled(l)

LEMMA AtRest ==
  ASSUME ListsOK, NEW d \in Made, \A l \in Outs : l[1] = d => ~Top(l)
  PROVE  Rest(d)
<1>1. DeferredOK(d)
  BY DEF ListsOK
<1>2. DoneOf(d) \in Outs /\ FailOf(d) \in Outs /\ DoneOf(d)[1] = d /\ FailOf(d)[1] = d
  BY ListNames DEF DoneOf, FailOf
<1>3. ~Top(DoneOf(d)) /\ ~Top(FailOf(d))
  BY <1>2
<1> QED  BY <1>1, <1>3 DEF DeferredOK, Settling, Rest

(* A deferred at rest stays so while its lists do not change.                *)
LEMMA RestKept ==
  ASSUME NEW d \in Made, Rest(d), state'[d] = state[d], Grows,
         \A l \in {DoneOf(d), FailOf(d)} :
            Same(lists[l], lists'[l]) /\ lists[l].index \in Nat /\ lists'[l].index \in Nat
            /\ lists'[l].index >= lists[l].index
  PROVE  Rest(d)'
<1>1. \A l : Adds(l) \subseteq Adds(l)'
  BY AddsGrow
<1>2. ASSUME NEW l \in {DoneOf(d), FailOf(d)}
      PROVE  /\ Fresh(lists[l], l) => Fresh(lists[l], l)'
             /\ First(lists[l], l) => First(lists[l], l)'
             /\ Later(lists[l], l) => Later(lists[l], l)'
             /\ Gone(lists[l]) => Gone(lists[l])'
  BY <1>1, <1>2 DEF Fresh, First, Later, Gone, Added3, Same
<1>3. ASSUME NEW l \in {DoneOf(d), FailOf(d)}
      PROVE  Other(l) \in {DoneOf(d), FailOf(d)} /\ l[1] = d
  BY <1>3, ListNames DEF DoneOf, FailOf
<1>4. CASE Pending(d)
  BY <1>2, <1>4 DEF Pending, Rest
<1>5. ASSUME NEW l \in {DoneOf(d), FailOf(d)}, Settled(l)
      PROVE  Settled(l)'
  <2>1. (First(lists[l], l)' /\ lists[l].index >= 2) \/ Later(lists[l], l)'
    BY <1>2, <1>5 DEF Settled
  <2>2. (First(lists[l], l)' /\ lists'[l].index >= 2) \/ Later(lists[l], l)'
    BY <2>1
  <2>3. Gone(lists[Other(l)])'
    BY <1>2, <1>3, <1>5 DEF Settled
  <2>4. state'[l[1]] = Outcome(l[2])
    BY <1>3, <1>5 DEF Settled
  <2> QED  BY <2>2, <2>3, <2>4 DEF Settled
<1> QED  BY <1>4, <1>5 DEF Rest

(* What is being settled is settled by the innermost call.                   *)
LEMMA SettlesOnTop ==
  ASSUME ListsOK, NEW l \in Outs, Top(l), lists[l].firing
  PROVE  \/ Settling(l, 0) \/ Settling(l, 1) \/ Settled(l)
<1> DEFINE d == l[1]
<1>1. d \in Made /\ DeferredOK(d) /\ (l = DoneOf(d) \/ l = FailOf(d)) /\ Other(l) # l
      /\ {DoneOf(d), FailOf(d)} = {l, Other(l)} /\ Other(Other(l)) = l
  <2>1. d \in Made /\ (l = DoneOf(d) \/ l = FailOf(d)) /\ Other(l) # l /\ Other(Other(l)) = l
    BY ListNames
  <2>2. Other(DoneOf(d)) = FailOf(d) /\ Other(FailOf(d)) = DoneOf(d)
    BY <2>1, ListNames
  <2> QED  BY <2>1, <2>2 DEF ListsOK
<1>2. ~Pending(d)
  BY <1>1 DEF Pending, Fresh
<1>3. ~Settling(Other(l), 0) /\ ~Settling(Other(l), 1)
  BY <1>1 DEF Settling, Top
<1>4. ~Settled(Other(l))
  BY <1>1 DEF Settled, Gone
<1> QED  BY <1>1, <1>2, <1>3, <1>4 DEF DeferredOK

-----------------------------------------------------------------------------
(* Registrations under way.                                                  *)

(* The registrations under way are those of before, one frame further down.  *)
LEMMA AddingShift ==
  ASSUME NEW new \in 0..2, NEW old \in 0..1, NEW m \in Int, StackOK, Restacked(new, old), NEW l, NEW h,
         \A p \in 1..new : \A j : AddsAt(p, j, l, h)' => old = 1 /\ p = new /\ AddsAt(1, j + m, l, h),
         old = 1 => \A j : AddsAt(1, j, l, h) => new >= 1 /\ AddsAt(new, j - m, l, h)'
  PROVE  (Adding(l, h)' <=> Adding(l, h)) /\ (OneAdding(l, h) => OneAdding(l, h)')
<1>1. /\ calls \in Seq(Frames) /\ Len(calls) \in Nat /\ DOMAIN calls = 1..Len(calls)
      /\ Len(calls') = Len(calls) - old + new /\ DOMAIN calls' = 1..Len(calls') /\ Len(calls') \in Nat
      /\ \A p \in DOMAIN calls' : p > new => calls'[p] = calls[p - new + old]
      /\ calls' \in Seq(Frames)
  BY DEF StackOK, FramesOK, Restacked
<1>2. /\ Adding(l, h) <=> \E p, j : AddsAt(p, j, l, h)
      /\ Adding(l, h)' <=> \E p, j : AddsAt(p, j, l, h)'
  BY DEF Adding, AddsAt
<1>3. /\ OneAdding(l, h) <=> \A p, q, i, j : AddsAt(p, i, l, h) /\ AddsAt(q, j, l, h) => p = q /\ i = j
      /\ OneAdding(l, h)' <=> \A p, q, i, j : AddsAt(p, i, l, h)' /\ AddsAt(q, j, l, h)' => p = q /\ i = j
  <2>1. OneAdding(l, h) => \A p, q, i, j : AddsAt(p, i, l, h) /\ AddsAt(q, j, l, h) => p = q /\ i = j
    <3> SUFFICES ASSUME OneAdding(l, h), NEW p, NEW q, NEW i, NEW j, AddsAt(p, i, l, h), AddsAt(q, j, l, h)
                 PROVE  p = q /\ i = j
      OBVIOUS
    <3>1. /\ p \in DOMAIN calls /\ q \in DOMAIN calls /\ calls[p].k = "method" /\ calls[q].k = "method"
          /\ i \in DOMAIN calls[p].todo /\ j \in DOMAIN calls[q].todo
      BY DEF AddsAt
    <3> QED  BY <3>1 DEF OneAdding
  <2>2. OneAdding(l, h)' => \A p, q, i, j : AddsAt(p, i, l, h)' /\ AddsAt(q, j, l, h)' => p = q /\ i = j
    <3> SUFFICES ASSUME OneAdding(l, h)', NEW p, NEW q, NEW i, NEW j, AddsAt(p, i, l, h)', AddsAt(q, j, l, h)'
                 PROVE  p = q /\ i = j
      OBVIOUS
    <3>1. /\ p \in DOMAIN calls' /\ q \in DOMAIN calls' /\ calls'[p].k = "method" /\ calls'[q].k = "method"
          /\ i \in DOMAIN calls'[p].todo /\ j \in DOMAIN calls'[q].todo
      BY DEF AddsAt
    <3> QED  BY <3>1 DEF OneAdding
  <2>3. (\A p, q, i, j : AddsAt(p, i, l, h) /\ AddsAt(q, j, l, h) => p = q /\ i = j) => OneAdding(l, h)
    BY DEF OneAdding
  <2>4. (\A p, q, i, j : AddsAt(p, i, l, h)' /\ AddsAt(q, j, l, h)' => p = q /\ i = j) => OneAdding(l, h)'
    BY DEF OneAdding
  <2> QED  BY <2>1, <2>2, <2>3, <2>4
<1>4. /\ \A p, j : AddsAt(p, j, l, h) => p \in 1..Len(calls) /\ j \in Nat
      /\ \A p, j : AddsAt(p, j, l, h)' => p \in 1..Len(calls') /\ j \in Nat
  <2>1. ASSUME NEW s \in Seq(Frames), NEW p \in DOMAIN s, s[p].k = "method", NEW j \in DOMAIN s[p].todo
        PROVE  j \in Nat
    <3>1. s[p] \in Frames
      OBVIOUS
    <3>2. s[p].todo \in Seq(Works)
      BY <2>1, <3>1 DEF Frames
    <3> QED  BY <3>2
  <2> QED  BY <1>1, <2>1 DEF AddsAt
<1>5. ASSUME NEW p \in 1..Len(calls'), p > new, NEW j
      PROVE  AddsAt(p, j, l, h)' <=> AddsAt(p - new + old, j, l, h)
  <2>1. p \in DOMAIN calls' /\ p - new + old \in DOMAIN calls /\ calls'[p] = calls[p - new + old]
    BY <1>1, <1>5
  <2> QED  BY <2>1 DEF AddsAt
<1>6. \A p, j : AddsAt(p, j, l, h) => \/ p > old /\ AddsAt(p - old + new, j, l, h)'
                                      \/ old = 1 /\ p = 1 /\ AddsAt(new, j - m, l, h)'
  <2> SUFFICES ASSUME NEW p, NEW j, AddsAt(p, j, l, h)
               PROVE  \/ p > old /\ AddsAt(p - old + new, j, l, h)'
                      \/ old = 1 /\ p = 1 /\ AddsAt(new, j - m, l, h)'
    OBVIOUS
  <2>1. p \in 1..Len(calls)
    BY <1>4
  <2>2. CASE p > old
    <3>1. p - old + new \in 1..Len(calls') /\ p - old + new > new /\ (p - old + new) - new + old = p
      BY <1>1, <2>1, <2>2
    <3>2. AddsAt(p - old + new, j, l, h)' <=> AddsAt((p - old + new) - new + old, j, l, h)
      BY <1>5, <3>1
    <3> QED  BY <2>2, <3>1, <3>2
  <2>3. CASE ~(p > old)
    <3>1. old = 1 /\ p = 1
      BY <2>1, <2>3
    <3> QED  BY <3>1
  <2> QED  BY <2>2, <2>3
<1>7. \A p, j : AddsAt(p, j, l, h)' => \/ p > new /\ AddsAt(p - new + old, j, l, h)
                                       \/ old = 1 /\ p = new /\ AddsAt(1, j + m, l, h)
  BY <1>1, <1>4, <1>5, SMTT(40)
<1>8. Adding(l, h)' <=> Adding(l, h)
  BY <1>2, <1>6, <1>7
<1>9. ASSUME OneAdding(l, h), NEW p, NEW q, NEW i, NEW j, AddsAt(p, i, l, h)', AddsAt(q, j, l, h)'
      PROVE  p = q /\ i = j
  <2>1. p \in Nat /\ q \in Nat /\ i \in Nat /\ j \in Nat
    BY <1>1, <1>4, <1>9
  <2>2. CASE p > new /\ q > new
    <3>1. AddsAt(p - new + old, i, l, h) /\ AddsAt(q - new + old, j, l, h)
      BY <1>7, <1>9, <2>1, <2>2
    <3>2. p - new + old = q - new + old /\ i = j
      BY <1>3, <1>9, <3>1
    <3> QED  BY <2>1, <3>2
  <2>3. CASE p > new /\ ~(q > new)
    <3>1. AddsAt(p - new + old, i, l, h) /\ old = 1 /\ AddsAt(1, j + m, l, h)
      BY <1>7, <1>9, <2>1, <2>3
    <3>2. p - new + old = 1
      BY <1>3, <1>9, <3>1
    <3> QED  BY <2>1, <2>3, <3>1, <3>2
  <2>4. CASE ~(p > new) /\ q > new
    <3>1. AddsAt(q - new + old, j, l, h) /\ old = 1 /\ AddsAt(1, i + m, l, h)
      BY <1>7, <1>9, <2>1, <2>4
    <3>2. q - new + old = 1
      BY <1>3, <1>9, <3>1
    <3> QED  BY <2>1, <2>4, <3>1, <3>2
  <2>5. CASE ~(p > new) /\ ~(q > new)
    <3>1. p = new /\ q = new /\ AddsAt(1, i + m, l, h) /\ AddsAt(1, j + m, l, h)
      BY <1>7, <1>9, <2>1, <2>5
    <3>2. i + m = j + m
      BY <1>3, <1>9, <3>1
    <3> QED  BY <2>1, <3>1, <3>2
  <2> QED  BY <2>2, <2>3, <2>4, <2>5
<1> QED  BY <1>3, <1>8, <1>9
-----------------------------------------------------------------------------
(* What a step keeps.                                                        *)

(* What holds of handler h at list l after a step that changes neither.      *)
LEMMA KeptAt ==
  ASSUME NEW l \in Outs, NEW h \in Handlers,
         Same(lists[l], lists'[l]), wants'[h] = wants[h], seen'[h] = seen[h],
         state[l[1]] # "pending" => state'[l[1]] = state[l[1]],
         Adding(l, h)' <=> Adding(l, h), OneAdding(l, h) => OneAdding(l, h)',
         Stuck => Stuck', OnStack(l)' => OnStack(l),
         OnStack(l) => \A i \in Places(l, h) : (i <= Begun(l)) <=> (i <= Begun(l)'),
         OnStack(l) => \A i \in Places(l, h) : (i > Begun(l)) => (i > Begun(l)')
  PROVE  /\ OneAt(l, h) => OneAt(l, h)'
         /\ CalledAt(l, h) => CalledAt(l, h)'
         /\ WaitsAt(l, h) => WaitsAt(l, h)'
<1>1. Places(l, h)' = Places(l, h)
  BY DEF Places, Same
<1>2. OneAt(l, h) => OneAt(l, h)'
  BY <1>1 DEF OneAt
<1>3. Asked(l, h)' <=> Asked(l, h)
  BY DEF Asked
<1>4. Outcome(l[2]) # "pending"
  BY ListNames
<1>5. CalledAt(l, h) => CalledAt(l, h)'
  BY <1>1, <1>3, <1>4 DEF CalledAt, Same
<1>6. ASSUME WaitsAt(l, h), Asked(l, h)'
      PROVE  \/ Stuck' \/ seen'[h] # <<>> \/ lists'[l].gone \/ Adding(l, h)'
             \/ \E i \in Places(l, h)' : lists'[l].firing => i > Begun(l)'
  <2>1. CASE Stuck \/ seen[h] # <<>> \/ lists[l].gone \/ Adding(l, h)
    BY <2>1 DEF Same
  <2>2. CASE ~Stuck /\ \E i \in Places(l, h) : lists[l].firing => i > Begun(l)
    <3>1. PICK i \in Places(l, h) : lists[l].firing => i > Begun(l)
      BY <2>2
    <3>2. lists[l].firing => OnStack(l)
      BY <2>2, ListNames DEF Stuck
    <3>3. lists'[l].firing => i > Begun(l)'
      BY <3>1, <3>2 DEF Same
    <3> QED  BY <1>1, <3>3
  <2> QED  BY <1>3, <1>6, <2>1, <2>2 DEF WaitsAt
<1>7. WaitsAt(l, h) => WaitsAt(l, h)'
  BY <1>6 DEF WaitsAt
<1> QED  BY <1>2, <1>5, <1>7

(* A handler keeps its place if it does in every list.                       *)
LEMMA HandlerStep ==
  ASSUME NEW h \in Handlers, HandlerOK(h), wants'[h] = wants[h], seen'[h] = seen[h],
         \A l \in Outs : /\ OneAt(l, h) => OneAt(l, h)'
                         /\ CalledAt(l, h) => CalledAt(l, h)'
                         /\ WaitsAt(l, h) => WaitsAt(l, h)'
  PROVE  HandlerOK(h)'
BY DEF HandlerOK

(* So do all the handlers.                                                   *)
LEMMA HandlersStep ==
  ASSUME HandlersOK, wants' = wants, seen' = seen,
         \A l \in Outs, h \in Handlers : /\ OneAt(l, h) => OneAt(l, h)'
                                         /\ CalledAt(l, h) => CalledAt(l, h)'
                                         /\ WaitsAt(l, h) => WaitsAt(l, h)'
  PROVE  HandlersOK'
<1>1. ASSUME NEW h \in Handlers
      PROVE  HandlerOK(h)'
  BY HandlerStep DEF HandlersOK
<1> QED  BY <1>1 DEF HandlersOK

(* How far the firing of a list has come is a number.                        *)
LEMMA BegunType ==
  ASSUME DOMAIN lists = Lists, NEW l \in Lists, ListOK(lists[l], l)
  PROVE  Begun(l) \in Nat /\ (Top(l) => Begun(l) = lists[l].index)
         /\ (~Top(l) => Begun(l) = lists[l].index + 1)
BY DEF Begun, ListOK

(* The places of a handler are places of the list.                           *)
LEMMA PlacesType ==
  ASSUME NEW l \in Lists, ListOK(lists[l], l), NEW h
  PROVE  Places(l, h) \subseteq 1..Len(lists[l].items) /\ Len(lists[l].items) \in Nat
         /\ DOMAIN lists[l].items = 1..Len(lists[l].items)
BY DEF Places, ListOK

(* The lists stay good if each deferred is good after the step or was at     *)
(* rest and is not touched.                                                  *)
LEMMA ListsStep ==
  ASSUME ListsOK, Grows,
         DOMAIN lists' = Lists, \A l \in Lists : ListOK(lists'[l], l),
         \A l \in Lists \ Outs : ProgressListOK(lists[l], l)',
         state' \in [Made -> {"pending", "resolved", "rejected"}],
         when' \in [args : Values, remaining : Int, values : Values, progress : Values],
         used' \in 0..MaxCalls,
         \A d \in Made :
           \/ DeferredOK(d)'
           \/ /\ Rest(d) /\ state'[d] = state[d]
              /\ \A l \in {DoneOf(d), FailOf(d)} : /\ Same(lists[l], lists'[l])
                                                   /\ lists'[l].index >= lists[l].index,
         \A l \in Outs :
           \/ BegunOK(l)'
           \/ /\ Same(lists[l], lists'[l]) /\ (OnStack(l)' => OnStack(l))
              /\ OnStack(l) => \/ Begun(l)' = Begun(l)
                               \/ Begun(l)' = Begun(l) + 1 /\ Begun(l) + 1 <= Len(lists[l].items)
  PROVE  ListsOK'
<1>1. \A l \in Outs : l \in Lists
  BY ListNames
<1>2. ASSUME NEW d \in Made
      PROVE  DeferredOK(d)'
  <2>1. DoneOf(d) \in Outs /\ FailOf(d) \in Outs
    BY ListNames
  <2>2. \A l \in {DoneOf(d), FailOf(d)} : lists[l].index \in Nat /\ lists'[l].index \in Nat
    BY <1>1, <2>1 DEF ListsOK, ListOK
  <2>3. \/ DeferredOK(d)'
        \/ /\ Rest(d) /\ state'[d] = state[d]
           /\ \A l \in {DoneOf(d), FailOf(d)} : /\ Same(lists[l], lists'[l])
                                                /\ lists'[l].index >= lists[l].index
    OBVIOUS
  <2>4. DeferredOK(d)' \/ Rest(d)'
    BY <2>2, <2>3, RestKept
  <2> QED  BY <2>4 DEF Rest, DeferredOK
<1>4. ASSUME NEW l \in Outs
      PROVE  BegunOK(l)'
  <2>1. Begun(l) \in Nat
    BY <1>1, BegunType DEF ListsOK
  <2>2. Begun(l)' \in Nat
    BY <1>1 DEF Begun, ListOK
  <2>3. CASE BegunOK(l)'
    BY <2>3
  <2>4. CASE /\ Same(lists[l], lists'[l]) /\ (OnStack(l)' => OnStack(l))
             /\ OnStack(l) => \/ Begun(l)' = Begun(l)
                              \/ Begun(l)' = Begun(l) + 1 /\ Begun(l) + 1 <= Len(lists[l].items)
    <3>1. lists'[l].items = lists[l].items /\ Len(lists[l].items) \in Nat
      BY <1>1, <2>4 DEF Same, ListsOK, ListOK
    <3>2. BegunOK(l)
      BY DEF ListsOK
    <3>3. OnStack(l)' => Begun(l)' <= Len(lists'[l].items)
      BY <2>1, <2>4, <3>1, <3>2 DEF BegunOK
    <3> QED  BY <2>1, <2>2, <3>3 DEF BegunOK
  <2> QED  BY <2>3, <2>4
<1> QED  BY <1>2, <1>4 DEF ListsOK

(* The lists of outcomes are as they were, but for how far their firings     *)
(* have come.                                                                *)
LEMMA SameLists ==
  ASSUME ListsOK, Grows,
         DOMAIN lists' = Lists, \A l \in Lists : ListOK(lists'[l], l),
         \A l \in Lists \ Outs : ProgressListOK(lists[l], l)',
         \A l \in Outs : Same(lists[l], lists'[l]) /\ lists'[l].index >= lists[l].index,
         state' \in [Made -> {"pending", "resolved", "rejected"}],
         when' \in [args : Values, remaining : Int, values : Values, progress : Values],
         used' \in 0..MaxCalls,
         \A d \in Made : DeferredOK(d)' \/ (Rest(d) /\ state'[d] = state[d]),
         \A l \in Outs : OnStack(l)' => OnStack(l),
         \A l \in Outs : OnStack(l) =>
           \/ Begun(l)' = Begun(l)
           \/ Begun(l)' = Begun(l) + 1 /\ Begun(l) + 1 <= Len(lists[l].items)
  PROVE  ListsOK'
<1>1. \A d \in Made : DoneOf(d) \in Outs /\ FailOf(d) \in Outs
  BY ListNames
<1>2. \A d \in Made :
           \/ DeferredOK(d)'
           \/ /\ Rest(d) /\ state'[d] = state[d]
              /\ \A l \in {DoneOf(d), FailOf(d)} : /\ Same(lists[l], lists'[l])
                                                   /\ lists'[l].index >= lists[l].index
  BY <1>1
<1>3. \A l \in Outs :
           \/ BegunOK(l)'
           \/ /\ Same(lists[l], lists'[l]) /\ (OnStack(l)' => OnStack(l))
              /\ OnStack(l) => \/ Begun(l)' = Begun(l)
                               \/ Begun(l)' = Begun(l) + 1 /\ Begun(l) + 1 <= Len(lists[l].items)
  OBVIOUS
<1> QED  BY <1>2, <1>3, ListsStep

(* The lists of progress keep what may be added to them.                     *)
LEMMA ProgressKept ==
  ASSUME ListsOK, Grows, \A l \in Lists \ Outs : Same(lists[l], lists'[l])
  PROVE  \A l \in Lists \ Outs : ProgressListOK(lists[l], l)'
BY AddsGrow DEF ListsOK, ProgressListOK, Same

(* So a handler stands where it stood, unless it is the next to be called.   *)
LEMMA SameHandlers ==
  ASSUME ListsOK, DOMAIN lists' = Lists, NEW l \in Outs, NEW h \in Handlers,
         ListOK(lists'[l], l), Same(lists[l], lists'[l]),
         wants'[h] = wants[h], seen'[h] = seen[h], Stuck => Stuck',
         state[l[1]] # "pending" => state'[l[1]] = state[l[1]],
         Adding(l, h)' <=> Adding(l, h), OneAdding(l, h) => OneAdding(l, h)',
         OnStack(l)' => OnStack(l),
         OnStack(l) =>
           \/ Begun(l)' = Begun(l)
           \/ Begun(l)' = Begun(l) + 1 /\ lists[l].items[Begun(l) + 1] # User(h)
  PROVE  /\ OneAt(l, h) => OneAt(l, h)'
         /\ CalledAt(l, h) => CalledAt(l, h)'
         /\ WaitsAt(l, h) => WaitsAt(l, h)'
<1>1. l \in Lists
  BY ListNames
<1>2. Begun(l) \in Nat
  BY <1>1, BegunType DEF ListsOK
<1>3. Begun(l)' \in Nat
  BY <1>1 DEF Begun, ListOK
<1>6. ASSUME OnStack(l), NEW i \in Places(l, h)
      PROVE  /\ (i <= Begun(l)) <=> (i <= Begun(l)')
             /\ (i > Begun(l)) => (i > Begun(l)')
  <2>1. i \in Nat /\ lists[l].items[i] = User(h)
    <3>1. i \in Nat
      BY <1>1, PlacesType DEF ListsOK
    <3> QED  BY <3>1 DEF Places
  <2>2. i # Begun(l) + 1 \/ Begun(l)' = Begun(l)
    BY <1>6, <2>1
  <2> QED  BY <1>2, <1>3, <1>6, <2>1, <2>2
<1>7. /\ OnStack(l) => \A i \in Places(l, h) : (i <= Begun(l)) <=> (i <= Begun(l)')
      /\ OnStack(l) => \A i \in Places(l, h) : (i > Begun(l)) => (i > Begun(l)')
  BY <1>6
<1> QED  BY <1>7, KeptAt
-----------------------------------------------------------------------------
(* Returns, and calls of methods.                                            *)

Inv == StackOK /\ ListsOK /\ HandlersOK

(* What the steps below keep needing.                                        *)
LEMMA InvFacts ==
  ASSUME Inv
  PROVE  /\ StackOK /\ ListsOK /\ HandlersOK
         /\ DOMAIN lists = Lists /\ \A l \in Lists : ListOK(lists[l], l)
         /\ when \in [args : Values, remaining : Int, values : Values, progress : Values]
         /\ used \in 0..MaxCalls
         /\ calls \in Seq(Frames)
BY DEF Inv, ListsOK, StackOK, FramesOK

(* Nothing asked, nothing taken back.                                        *)
LEMMA Unchanged ==
  ASSUME wants' = wants
  PROVE  Grows
BY DEF Grows

(* No firing of a list of outcomes is the innermost call.                    *)
LEMMA AllAtRest ==
  ASSUME ListsOK, \A l \in Outs : ~Top(l)
  PROVE  \A d \in Made : Rest(d)
BY AtRest

(* A callback or a method returns.                                           *)
LEMMA PopStep ==
  ASSUME Inv, calls # <<>>, Head(calls).k \in {"user", "method"},
         Head(calls).k = "method" => Head(calls).todo = <<>>,
         calls' = Tail(calls), lists' = AfterReturn(lists),
         UNCHANGED <<state, when, seen, ghosts, bounds>>
  PROVE  Inv'
<1> USE InvFacts
<1>1. wants' = wants /\ seen' = seen /\ state' = state /\ when' = when /\ used' = used /\ Grows
  BY Unchanged DEF ghosts, bounds
<1>2. /\ Len(calls) \in Nat \ {0} /\ DOMAIN calls = 1..Len(calls) /\ Head(calls) = calls[1]
      /\ calls' \in Seq(Frames) /\ Len(calls') = Len(calls) - 1 /\ DOMAIN calls' = 1..Len(calls')
      /\ \A p \in DOMAIN calls' : calls'[p] = calls[p + 1]
  BY Popped
<1>3. Restacked(0, 1)
  BY <1>2 DEF Restacked
<1>4. \A l : ~Top(l)
  BY TopFacts
<1>5. \A l : Top(l)' <=> Tail(calls) # <<>> /\ Head(Tail(calls)).k = "fire" /\ Head(Tail(calls)).list = l
  BY DEF Top
<1>6. ASSUME Tail(calls) # <<>>, Head(Tail(calls)).k = "fire"
      PROVE  Head(Tail(calls)).list \in Lists
  <2>1. Head(Tail(calls)) \in Frames
    BY <1>2, <1>6
  <2> QED  BY <1>6, <2>1 DEF Frames
<1>7. /\ DOMAIN lists' = Lists
      /\ \A l \in Lists : /\ ListOK(lists'[l], l) /\ Same(lists[l], lists'[l])
                          /\ lists'[l].index = IF Top(l)' THEN lists[l].index + 1 ELSE lists[l].index
  <2>1. CASE Tail(calls) # <<>> /\ Head(Tail(calls)).k = "fire"
    <3>1. lists' = Advance(Head(Tail(calls)).list, lists)
      BY <2>1 DEF AfterReturn
    <3> QED  BY <1>5, <1>6, <2>1, <3>1, AdvancedLists
  <2>2. CASE ~(Tail(calls) # <<>> /\ Head(Tail(calls)).k = "fire")
    <3>1. lists' = lists
      BY <2>2 DEF AfterReturn
    <3> QED  BY <1>5, <2>2, <3>1, SameItself
  <2> QED  BY <2>1, <2>2
<1>8. ASSUME NEW l \in Lists
      PROVE  lists[l].index \in Nat /\ lists'[l].index >= lists[l].index /\ lists'[l].index \in Nat
  <2> DEFINE i == lists[l].index
             n == lists'[l].index
  <2>1. i \in Nat
    BY DEF ListOK
  <2>2. n = i + 1 \/ n = i
    BY <1>7
  <2> HIDE DEF i, n
  <2>3. n \in Nat /\ n >= i
    BY <2>1, <2>2
  <2> QED  BY <2>1, <2>3 DEF i, n
<1>9. StackOK'
  <2>1. \A p \in DOMAIN calls : p > 1 /\ calls[p].k = "fire" =>
           /\ lists'[calls[p].list].firing
           /\ calls[p].list \in Outs => lists'[calls[p].list].memory = lists[calls[p].list].memory
    <3> SUFFICES ASSUME NEW p \in DOMAIN calls, calls[p].k = "fire"
                 PROVE  lists'[calls[p].list].firing /\ lists'[calls[p].list].memory = lists[calls[p].list].memory
      OBVIOUS
    <3>1. calls[p] \in Frames /\ FiringOK(calls[p])
      BY DEF StackOK
    <3>2. calls[p].list \in Lists
      BY <3>1 DEF Frames
    <3> QED  BY <1>7, <3>1, <3>2 DEF FiringOK, Same
  <2> QED  BY <1>1, <1>3, <2>1, StackStep
<1>10. \A l \in Lists : OnStack(l)' <=> OnStack(l)
  BY <1>3, <1>4, OnStackStays
<1>11. ASSUME NEW l \in Lists
       PROVE  Begun(l)' = Begun(l)
  BY <1>4, <1>7, <1>8 DEF Begun
<1>12. Stuck => Stuck'
  BY <1>7, <1>10, StuckStays DEF Same
<1>13. ASSUME NEW l, NEW h
       PROVE  (Adding(l, h)' <=> Adding(l, h)) /\ (OneAdding(l, h) => OneAdding(l, h)')
  <2>1. \A j : ~AddsAt(1, j, l, h)
    BY <1>2 DEF AddsAt
  <2> QED  BY <1>3, <2>1, AddingShift
<1>14. \A d \in Made : Rest(d)
  BY <1>4, AllAtRest
<1>15. \A l \in Outs : l \in Lists
  BY ListNames
<1>16. \A l \in Outs : Same(lists[l], lists'[l]) /\ lists'[l].index >= lists[l].index
  BY <1>7, <1>8, <1>15
<1>17. ListsOK'
  <2>1. \A l \in Lists \ Outs : ProgressListOK(lists[l], l)'
    BY <1>1, <1>7, ProgressKept
  <2>2. /\ \A l \in Outs : OnStack(l)' => OnStack(l)
        /\ \A l \in Outs : OnStack(l) => Begun(l)' = Begun(l)
    BY <1>10, <1>11, <1>15
  <2>3. state' \in [Made -> {"pending", "resolved", "rejected"}]
    BY <1>1 DEF ListsOK
  <2> QED  BY <1>1, <1>7, <1>14, <1>16, <2>1, <2>2, <2>3, SameLists
<1>18. HandlersOK'
  <2>1. ASSUME NEW l \in Outs, NEW h \in Handlers
        PROVE  /\ OneAt(l, h) => OneAt(l, h)'
               /\ CalledAt(l, h) => CalledAt(l, h)'
               /\ WaitsAt(l, h) => WaitsAt(l, h)'
    BY <1>1, <1>7, <1>10, <1>11, <1>12, <1>13, <1>15, <1>16, SameHandlers
  <2> QED  BY <1>1, <2>1, HandlersStep
<1> QED  BY <1>9, <1>17, <1>18 DEF Inv

(* No part of a method registers a handler.                                  *)
NoUsers(todo) == \A j \in DOMAIN todo : todo[j].op = "add" => todo[j].fn.k # "user"

(* The parts of methods are told apart.                                      *)
LEMMA WorkKinds ==
  /\ \A l, f : Add(l, f).op = "add" /\ Add(l, f).list = l /\ Add(l, f).fn = f
  /\ \A l, d : FireWith(l, d).op = "fireWith" /\ FireWith(l, d).list = l /\ FireWith(l, d).data = d
  /\ \A i : Argument(i).op = "argument" /\ Argument(i).arg = i
  /\ ResolveIfDone.op = "resolveIfDone"
  /\ \A todo : Method(todo).k = "method" /\ Method(todo).todo = todo
  /\ \A h : Running(h).k = "user" /\ Running(h).name = h
  /\ \A l, d : Firing(l, d).k = "fire" /\ Firing(l, d).list = l /\ Firing(l, d).data = d
  /\ \A todo \in Seq(Works) : Method(todo) \in Frames
  /\ \A h \in Handlers : Running(h) \in Frames
  /\ \A l \in Lists : \A d \in DataOf(l) : Firing(l, d) \in Frames
  /\ \A l \in Lists : \A f \in Adds(l) : Add(l, f) \in Works /\ WorkOK(Add(l, f))
  /\ \A l \in Lists : \A d \in DataOf(l) : FireWith(l, d) \in Works /\ WorkOK(FireWith(l, d))
  /\ \A i \in Nat : Argument(i) \in Works /\ WorkOK(Argument(i))
  /\ ResolveIfDone \in Works /\ WorkOK(ResolveIfDone)
<1>1. \A l \in Lists : DataOf(l) \subseteq Values /\ Adds(l) \subseteq Functions
  BY DataIsNot, Kinds
<1>2. \A l \in Lists : \A f \in Adds(l) : Add(l, f) \in Works /\ WorkOK(Add(l, f))
  BY <1>1 DEF Add, Works, WorkOK
<1>3. \A l \in Lists : \A d \in DataOf(l) : FireWith(l, d) \in Works /\ WorkOK(FireWith(l, d))
  BY <1>1 DEF FireWith, Works, WorkOK
<1>4. \A l \in Lists : \A d \in DataOf(l) : Firing(l, d) \in Frames
  BY <1>1 DEF Firing, Frames
<1>5. /\ \A i \in Nat : Argument(i) \in Works /\ WorkOK(Argument(i))
      /\ ResolveIfDone \in Works /\ WorkOK(ResolveIfDone)
  BY DEF Argument, ResolveIfDone, Works, WorkOK
<1>6. /\ \A todo \in Seq(Works) : Method(todo) \in Frames
      /\ \A h \in Handlers : Running(h) \in Frames
  BY DEF Method, Running, Frames
<1>7. /\ \A l, f : Add(l, f).op = "add" /\ Add(l, f).list = l /\ Add(l, f).fn = f
      /\ \A l, d : FireWith(l, d).op = "fireWith" /\ FireWith(l, d).list = l /\ FireWith(l, d).data = d
      /\ \A i : Argument(i).op = "argument" /\ Argument(i).arg = i
      /\ ResolveIfDone.op = "resolveIfDone"
      /\ \A todo : Method(todo).k = "method" /\ Method(todo).todo = todo
      /\ \A h : Running(h).k = "user" /\ Running(h).name = h
      /\ \A l, d : Firing(l, d).k = "fire" /\ Firing(l, d).list = l /\ Firing(l, d).data = d
  BY DEF Add, FireWith, Argument, ResolveIfDone, Method, Running, Firing
<1> QED  BY <1>2, <1>3, <1>4, <1>5, <1>6, <1>7

(* A frame that is no firing is pushed.                                      *)
LEMMA PushStep ==
  ASSUME StackOK, ListsOK, Grows, NEW f \in Frames, f.k \in {"user", "method"},
         FrameOK(f)', calls' = <<f>> \o calls,
         f.k = "user" => calls # <<>> /\ Head(calls).k = "fire",
         f.k = "method" => calls = <<>> \/ Head(calls).k # "method",
         \A l \in Lists : Same(lists[l], lists'[l])
  PROVE  /\ StackOK' /\ Restacked(1, 0)
         /\ \A l : ~Top(l)'
         /\ \A l : OnStack(l)' <=> OnStack(l)
         /\ Stuck => Stuck'
         /\ calls'[1] = f
<1>1. calls \in Seq(Frames) /\ Len(calls) \in Nat /\ DOMAIN calls = 1..Len(calls)
  BY DEF StackOK, FramesOK
<1>2. /\ calls' \in Seq(Frames) /\ calls' # <<>> /\ Head(calls') = f
      /\ Len(calls') = Len(calls) + 1 /\ DOMAIN calls' = 1..(Len(calls) + 1)
      /\ calls'[1] = f
      /\ \A p \in 2..(Len(calls) + 1) : calls'[p] = calls[p - 1]
  BY <1>1, Pushed
<1>3. Restacked(1, 0)
  BY <1>1, <1>2 DEF Restacked
<1>4. \A l : ~Top(l)'
  BY <1>2 DEF Top
<1>5. \A l : OnStack(l)' <=> OnStack(l)
  BY <1>2, <1>3, OnStackStays
<1>6. StackOK'
  <2>1. NestedAt(1)'
    <3>1. 2 \in DOMAIN calls' <=> calls # <<>>
      BY <1>1, <1>2
    <3>2. calls # <<>> => calls'[2] = Head(calls)
      BY <1>1, <1>2
    <3> QED  BY <1>2, <3>1, <3>2 DEF NestedAt
  <2>2. \A p \in DOMAIN calls : p > 0 /\ calls[p].k = "fire" =>
           /\ lists'[calls[p].list].firing
           /\ calls[p].list \in Outs => lists'[calls[p].list].memory = lists[calls[p].list].memory
    <3> SUFFICES ASSUME NEW p \in DOMAIN calls, calls[p].k = "fire"
                 PROVE  lists'[calls[p].list].firing /\ lists'[calls[p].list].memory = lists[calls[p].list].memory
      OBVIOUS
    <3>1. calls[p] \in Frames /\ FiringOK(calls[p])
      BY <1>1 DEF StackOK
    <3>2. calls[p].list \in Lists
      BY <3>1 DEF Frames
    <3> QED  BY <3>1, <3>2 DEF FiringOK, Same
  <2>3. \A p \in 1..1 : p = 1
    OBVIOUS
  <2>4. FiringOK(calls[1])'
    BY <1>2 DEF FiringOK
  <2>5. FrameOK(calls[1])'
    BY <1>2
  <2> QED  BY <1>2, <1>3, <2>1, <2>2, <2>3, <2>4, <2>5, StackStep
<1>7. Stuck => Stuck'
  BY <1>5, StuckStays DEF Same
<1> QED  BY <1>2, <1>3, <1>4, <1>5, <1>6, <1>7
-----------------------------------------------------------------------------
(* What fire() calls.                                                        *)

(* The function that is called next, by a list that is firing.               *)
LEMMA CallFacts ==
  ASSUME Inv, Loop, AtCall(lists[Here])
  PROVE  /\ calls # <<>> /\ Here \in Lists /\ Now \in DataOf(Here) /\ Top(Here) /\ OnStack(Here)
         /\ \A l : Top(l) => l = Here
         /\ lists[Here].firing /\ ~lists[Here].gone
         /\ Here \in Outs => Now = lists[Here].memory
         /\ lists[Here].index \in Nat /\ Len(lists[Here].items) \in Nat
         /\ lists[Here].index + 1 \in DOMAIN lists[Here].items
         /\ lists[Here].index + 1 <= Len(lists[Here].items)
         /\ Called = lists[Here].items[lists[Here].index + 1]
         /\ \/ Called \in Adds(Here) /\ (Here \in Outs => Settled(Here))
            \/ Here \in Outs /\ Settling(Here, 0) /\ Called = SetState(Here[1], Outcome(Here[2]))
            \/ Here \in Outs /\ Settling(Here, 1) /\ Called = Disable(Other(Here))
            \/ Here \in Outs /\ Settled(Here) /\ Called = Lock(ProgressOf(Here[1]))
<1> USE InvFacts
<1>1. /\ calls # <<>> /\ Here \in Lists /\ Now \in DataOf(Here) /\ Top(Here) /\ OnStack(Here)
      /\ \A l : Top(l) => l = Here
      /\ FiringOK(Head(calls)) /\ Head(calls).k = "fire"
  BY TopFacts DEF Loop, In, Here, Now
<1>2. lists[Here].firing /\ (Here \in Outs => Now = lists[Here].memory)
  BY <1>1 DEF FiringOK, Here, Now
<1> DEFINE c == lists[Here]
<1>3. c.index \in Nat /\ c.length \in Nat /\ c.items \in Seq(Functions \cup Closures) /\ Len(c.items) \in Nat
      /\ DOMAIN c.items = 1..Len(c.items)
  BY <1>1 DEF ListOK
<1>4. ~c.gone /\ c.index < c.length /\ c.index < Len(c.items)
  BY <1>3 DEF AtCall, AtEnd, AtHole
<1>5. c.index + 1 \in DOMAIN c.items /\ c.index + 1 <= Len(c.items)
  BY <1>3, <1>4
<1>6. Called = c.items[c.index + 1]
  BY DEF Called, Current
<1> HIDE DEF c
<1>7. \/ Called \in Adds(Here) /\ (Here \in Outs => Settled(Here))
      \/ Here \in Outs /\ Settling(Here, 0) /\ Called = SetState(Here[1], Outcome(Here[2]))
      \/ Here \in Outs /\ Settling(Here, 1) /\ Called = Disable(Other(Here))
      \/ Here \in Outs /\ Settled(Here) /\ Called = Lock(ProgressOf(Here[1]))
  <2>1. CASE Here \notin Outs
    BY <1>1, <1>5, <1>6, <2>1 DEF ListsOK, ProgressListOK, c
  <2>2. CASE Here \in Outs
    <3>1. Settling(Here, 0) \/ Settling(Here, 1) \/ Settled(Here)
      BY <1>1, <1>2, <2>2, SettlesOnTop
    <3>2. ASSUME First(c, Here)
          PROVE  /\ c.index = 0 => Called = SetState(Here[1], Outcome(Here[2]))
                 /\ c.index = 1 => Called = Disable(Other(Here))
                 /\ c.index = 2 => Called = Lock(ProgressOf(Here[1]))
                 /\ c.index > 2 => Called \in Adds(Here)
      <4>1. Added3(c, Here)
        BY <3>2 DEF First
      <4>2. c.items[1] = Core(Here)[1] /\ c.items[2] = Core(Here)[2] /\ c.items[3] = Core(Here)[3]
        BY <4>1 DEF Added3
      <4>3. /\ Core(Here)[1] = SetState(Here[1], Outcome(Here[2]))
            /\ Core(Here)[2] = Disable(Other(Here))
            /\ Core(Here)[3] = Lock(ProgressOf(Here[1]))
        BY <2>2, Kinds
      <4>4. c.index > 2 => Called \in Adds(Here)
        BY <1>3, <1>5, <1>6, <4>1 DEF Added3
      <4> QED  BY <1>6, <4>2, <4>3, <4>4
    <3>3. CASE Settling(Here, 0)
      BY <2>2, <3>2, <3>3 DEF Settling, c
    <3>4. CASE Settling(Here, 1)
      BY <2>2, <3>2, <3>4 DEF Settling, c
    <3>5. CASE Settled(Here)
      <4>1. CASE First(c, Here) /\ c.index >= 2
        <5>1. c.index = 2 \/ c.index > 2
          BY <1>3, <4>1
        <5> QED  BY <2>2, <3>2, <3>5, <4>1, <5>1
      <4>2. CASE Later(c, Here)
        BY <1>5, <1>6, <3>5, <4>2 DEF Later
      <4> QED  BY <3>5, <4>1, <4>2 DEF Settled, c
    <3> QED  BY <3>1, <3>3, <3>4, <3>5
  <2> QED  BY <2>1, <2>2
<1> QED  BY <1>1, <1>2, <1>3, <1>4, <1>5, <1>6, <1>7 DEF c

(* Only the deferred of the list that calls it is not at rest.               *)
LEMMA RestAround ==
  ASSUME Inv, Loop, AtCall(lists[Here]), NEW d \in Made, Here \in Outs => d # Here[1]
  PROVE  Rest(d)
<1>1. \A l : Top(l) => l = Here
  BY CallFacts
<1>2. \A l \in Outs : l[1] = d => ~Top(l)
  BY <1>1
<1> QED  BY <1>2, AtRest DEF Inv

(* A closure of the library that was called does not settle a deferred.      *)
LEMMA CalledAtRest ==
  ASSUME Inv, Loop, AtCall(lists[Here]), Here \in Outs => Settled(Here)
  PROVE  \A d \in Made : Rest(d)
<1> SUFFICES ASSUME NEW d \in Made
             PROVE  Rest(d)
  OBVIOUS
<1>1. CASE Here \in Outs /\ d = Here[1]
  <2>1. Here = DoneOf(d) \/ Here = FailOf(d)
    BY <1>1, ListNames
  <2> QED  BY <1>1, <2>1 DEF Rest
<1>2. CASE ~(Here \in Outs /\ d = Here[1])
  BY <1>2, RestAround
<1> QED  BY <1>1, <1>2

(* The kinds of what is called.                                              *)
LEMMA CalledKinds ==
  ASSUME Inv, Loop, AtCall(lists[Here])
  PROVE  /\ Called.k \in {"user", "fires", "resolveValue", "progressValue", "forward"} =>
              /\ Called \in Adds(Here) /\ (Here \in Outs => Settled(Here))
              /\ \A d \in Made : Rest(d)
         /\ Called.k = "state" =>
              Here \in Outs /\ Settling(Here, 0) /\ Called = SetState(Here[1], Outcome(Here[2]))
         /\ Called.k = "disable" => Here \in Outs /\ Settling(Here, 1) /\ Called = Disable(Other(Here))
         /\ Called.k = "lock" => Here \in Outs /\ Settled(Here) /\ Called = Lock(ProgressOf(Here[1]))
<1>1. \A d, x, l : SetState(d, x).k = "state" /\ Disable(l).k = "disable" /\ Lock(l).k = "lock"
  BY DEF SetState, Disable, Lock
<1>2. Called \in Adds(Here) => Called.k \in {"user", "fires", "resolveValue", "progressValue", "forward"}
  BY Kinds
<1>3. \/ Called \in Adds(Here) /\ (Here \in Outs => Settled(Here))
      \/ Here \in Outs /\ Settling(Here, 0) /\ Called = SetState(Here[1], Outcome(Here[2]))
      \/ Here \in Outs /\ Settling(Here, 1) /\ Called = Disable(Other(Here))
      \/ Here \in Outs /\ Settled(Here) /\ Called = Lock(ProgressOf(Here[1]))
  BY CallFacts
<1>4. Called.k \in {"user", "fires", "resolveValue", "progressValue", "forward"} =>
              Called \in Adds(Here) /\ (Here \in Outs => Settled(Here))
  BY <1>1, <1>3
<1>5. (Here \in Outs => Settled(Here)) => \A d \in Made : Rest(d)
  BY CalledAtRest
<1> QED  BY <1>1, <1>2, <1>3, <1>4, <1>5
-----------------------------------------------------------------------------
(* A call of a method of the library, by the page or by fire().              *)

(* A method is called: what holds of the stack, the lists and the handlers.  *)
LEMMA PushMethod ==
  ASSUME Inv, NEW todo \in Seq(Works), \A j \in DOMAIN todo : WorkOK(todo[j])', Grows,
         calls' = <<Method(todo)>> \o calls, calls = <<>> \/ Head(calls).k # "method",
         DOMAIN lists' = Lists,
         \A l \in Lists : /\ ListOK(lists'[l], l) /\ Same(lists[l], lists'[l])
                          /\ lists'[l].index = lists[l].index,
         state' = state,
         when' \in [args : Values, remaining : Int, values : Values, progress : Values],
         used' \in 0..MaxCalls,
         \A d \in Made : Rest(d),
         \A l \in Outs : Top(l) => /\ lists[l].index + 1 <= Len(lists[l].items)
                                   /\ lists[l].items[lists[l].index + 1].k # "user"
  PROVE  /\ StackOK' /\ ListsOK'
         /\ \A l \in Outs, h \in Handlers :
              wants'[h] = wants[h] /\ seen'[h] = seen[h] /\ (\A j \in DOMAIN todo : todo[j] # Add(l, User(h)))
              => /\ OneAt(l, h) => OneAt(l, h)'
                 /\ CalledAt(l, h) => CalledAt(l, h)'
                 /\ WaitsAt(l, h) => WaitsAt(l, h)'
         /\ calls'[1] = Method(todo) /\ Restacked(1, 0)
<1> USE InvFacts
<1> DEFINE f == Method(todo)
<1>1. f \in Frames /\ f.k = "method" /\ f.todo = todo
  BY WorkKinds
<1>2. FrameOK(f)'
  BY <1>1 DEF FrameOK
<1> HIDE DEF f
<1>3. /\ StackOK' /\ Restacked(1, 0)
      /\ \A l : ~Top(l)'
      /\ \A l : OnStack(l)' <=> OnStack(l)
      /\ Stuck => Stuck'
      /\ calls'[1] = f
  <2>1. calls' = <<f>> \o calls
    BY DEF f
  <2> QED  BY <1>1, <1>2, <2>1, PushStep
<1>4. \A l \in Outs : l \in Lists
  BY ListNames
<1>5. ASSUME NEW l \in Outs
      PROVE  \/ Begun(l)' = Begun(l)
             \/ /\ Begun(l)' = Begun(l) + 1 /\ Begun(l) + 1 <= Len(lists[l].items)
                /\ lists[l].items[Begun(l) + 1].k # "user"
  <2>1. Begun(l)' = lists[l].index + 1
    BY <1>3, <1>4 DEF Begun
  <2>2. CASE Top(l)
    <3>1. Begun(l) = lists[l].index
      BY <1>4, <2>2, BegunType
    <3> QED  BY <2>1, <2>2, <3>1
  <2>3. CASE ~Top(l)
    <3>1. Begun(l) = lists[l].index + 1
      BY <1>4, <2>3, BegunType
    <3> QED  BY <2>1, <3>1
  <2> QED  BY <2>2, <2>3
<1>6. \A l \in Outs : Same(lists[l], lists'[l]) /\ lists'[l].index >= lists[l].index
  <2> SUFFICES ASSUME NEW l \in Outs
               PROVE  Same(lists[l], lists'[l]) /\ lists'[l].index >= lists[l].index
    OBVIOUS
  <2>1. lists[l].index \in Nat /\ lists'[l].index = lists[l].index
    BY <1>4 DEF ListOK
  <2> QED  BY <1>4, <2>1
<1>7. ListsOK'
  <2>1. \A l \in Lists \ Outs : ProgressListOK(lists[l], l)'
    BY ProgressKept
  <2>2. state' \in [Made -> {"pending", "resolved", "rejected"}]
    BY DEF ListsOK
  <2>3. /\ \A l \in Outs : OnStack(l)' => OnStack(l)
        /\ \A l \in Outs : OnStack(l) =>
              \/ Begun(l)' = Begun(l)
              \/ Begun(l)' = Begun(l) + 1 /\ Begun(l) + 1 <= Len(lists[l].items)
    BY <1>3, <1>5
  <2> QED  BY <1>6, <2>1, <2>2, <2>3, SameLists
<1>8. ASSUME NEW l \in Outs, NEW h \in Handlers, wants'[h] = wants[h], seen'[h] = seen[h],
             \A j \in DOMAIN todo : todo[j] # Add(l, User(h))
      PROVE  /\ OneAt(l, h) => OneAt(l, h)'
             /\ CalledAt(l, h) => CalledAt(l, h)'
             /\ WaitsAt(l, h) => WaitsAt(l, h)'
  <2>1. \A j : ~AddsAt(1, j, l, h)'
    BY <1>1, <1>3, <1>8 DEF AddsAt
  <2>2. (Adding(l, h)' <=> Adding(l, h)) /\ (OneAdding(l, h) => OneAdding(l, h)')
    <3>1. \A p \in 1..1 : \A j : AddsAt(p, j, l, h)' => 0 = 1 /\ p = 1 /\ AddsAt(1, j + 0, l, h)
      BY <2>1
    <3> QED  BY <1>3, <3>1, AddingShift
  <2>3. User(h).k = "user"
    BY DEF User
  <2>4. \/ Begun(l)' = Begun(l)
        \/ Begun(l)' = Begun(l) + 1 /\ lists[l].items[Begun(l) + 1] # User(h)
    BY <1>5, <2>3
  <2>5. OnStack(l)' => OnStack(l)
    BY <1>3
  <2> QED  BY <1>3, <1>4, <1>6, <1>8, <2>2, <2>4, <2>5, SameHandlers
<1> QED  BY <1>3, <1>7, <1>8 DEF f

(* If it registers no handler the invariant is kept.                         *)
LEMMA PushStays ==
  ASSUME Inv, NEW todo \in Seq(Works), \A j \in DOMAIN todo : WorkOK(todo[j]), NoUsers(todo),
         calls' = <<Method(todo)>> \o calls, calls = <<>> \/ Head(calls).k # "method",
         DOMAIN lists' = Lists,
         \A l \in Lists : /\ ListOK(lists'[l], l) /\ Same(lists[l], lists'[l])
                          /\ lists'[l].index = lists[l].index,
         state' = state, wants' = wants, seen' = seen,
         when' \in [args : Values, remaining : Int, values : Values, progress : Values],
         used' \in 0..MaxCalls,
         \A d \in Made : Rest(d),
         \A l \in Outs : Top(l) => /\ lists[l].index + 1 <= Len(lists[l].items)
                                   /\ lists[l].items[lists[l].index + 1].k # "user"
  PROVE  Inv'
<1>1. Grows
  BY Unchanged
<1>2. \A j \in DOMAIN todo : WorkOK(todo[j])'
  BY <1>1, AddsGrow DEF WorkOK
<1>3. ASSUME NEW l \in Outs, NEW h \in Handlers, NEW j \in DOMAIN todo
      PROVE  todo[j] # Add(l, User(h))
  <2>1. Add(l, User(h)).op = "add" /\ Add(l, User(h)).fn = User(h) /\ User(h).k = "user"
    BY WorkKinds, Kinds
  <2> QED  BY <2>1 DEF NoUsers
<1>4. /\ StackOK' /\ ListsOK'
      /\ \A l \in Outs, h \in Handlers :
              wants'[h] = wants[h] /\ seen'[h] = seen[h] /\ (\A j \in DOMAIN todo : todo[j] # Add(l, User(h)))
              => /\ OneAt(l, h) => OneAt(l, h)'
                 /\ CalledAt(l, h) => CalledAt(l, h)'
                 /\ WaitsAt(l, h) => WaitsAt(l, h)'
  BY <1>1, <1>2, PushMethod
<1>5. HandlersOK'
  <2>1. HandlersOK
    BY DEF Inv
  <2>2. \A l \in Outs, h \in Handlers : /\ OneAt(l, h) => OneAt(l, h)'
                                        /\ CalledAt(l, h) => CalledAt(l, h)'
                                        /\ WaitsAt(l, h) => WaitsAt(l, h)'
    BY <1>3, <1>4
  <2> QED  BY <2>1, <2>2, HandlersStep
<1> QED  BY <1>4, <1>5 DEF Inv

(* fire() calls a closure of the library that works through a method.        *)
LEMMA CallOfMethod ==
  ASSUME Inv, Loop, AtCall(lists[Here]),
         Called.k \in {"fires", "resolveValue", "progressValue", "forward"},
         NEW todo \in Seq(Works), \A j \in DOMAIN todo : WorkOK(todo[j]), NoUsers(todo),
         calls' = <<Method(todo)>> \o calls, lists' = Paid,
         when' \in [args : Values, remaining : Int, values : Values, progress : Values],
         UNCHANGED <<state, seen, ghosts, bounds>>
  PROVE  Inv'
<1>1. state' = state /\ wants' = wants /\ seen' = seen /\ used' = used /\ used \in 0..MaxCalls
  BY InvFacts DEF ghosts, bounds
<1>2. /\ DOMAIN lists' = Lists
      /\ \A l \in Lists : /\ ListOK(lists'[l], l) /\ Same(lists[l], lists'[l])
                          /\ lists'[l].index = lists[l].index
  BY InvFacts, CallFacts, PaidLists
<1>3. \A d \in Made : Rest(d)
  BY CalledKinds
<1>4. calls = <<>> \/ Head(calls).k # "method"
  BY DEF Loop, In
<1>5. ASSUME NEW l \in Outs, Top(l)
      PROVE  /\ lists[l].index + 1 <= Len(lists[l].items)
             /\ lists[l].items[lists[l].index + 1].k # "user"
  <2>1. l = Here
    BY <1>5, CallFacts
  <2>2. Called = lists[Here].items[lists[Here].index + 1] /\ lists[Here].index + 1 <= Len(lists[Here].items)
    BY CallFacts
  <2> QED  BY <2>1, <2>2
<1> QED  BY <1>1, <1>2, <1>3, <1>4, <1>5, PushStays
-----------------------------------------------------------------------------
(* The steps that return, and those that call a method.                      *)

(* A method is through.                                                      *)
LEMMA FinishStep ==
  ASSUME Inv, Finish
  PROVE  Inv'
BY PopStep DEF Finish, In

(* No list of a deferred stops on false.                                     *)
LEMMA ReturnLists ==
  ASSUME Inv, Return
  PROVE  lists' = AfterReturn(lists)
<1> USE InvFacts
<1>1. calls # <<>> /\ Head(calls).k = "user" /\ calls' = Tail(calls)
  BY DEF Return, In
<1>2. "stopOnFalse" \notin lists[Head(Tail(calls)).list].flags
  <2>1. /\ 1 \in DOMAIN calls /\ calls[1] = Head(calls) /\ NestedAt(1)
    BY <1>1, TopFacts
  <2>2. 2 \in DOMAIN calls /\ calls[2].k = "fire"
    BY <1>1, <2>1 DEF NestedAt
  <2>3. Head(Tail(calls)) = calls[2]
    BY <1>1, <2>2, Popped
  <2>4. calls[2].list \in Lists
    BY <2>2 DEF Frames
  <2>5. ListOK(lists[calls[2].list], calls[2].list)
    BY <2>4
  <2> QED  BY <2>3, <2>5 DEF ListOK
<1> QED  BY <1>2 DEF Return

(* A callback returns.                                                       *)
LEMMA ReturnStep ==
  ASSUME Inv, Return
  PROVE  Inv'
<1>1. calls # <<>> /\ Head(calls).k = "user" /\ calls' = Tail(calls)
  BY DEF Return, In
<1>2. UNCHANGED <<state, when, seen, ghosts, bounds>>
  BY DEF Return
<1> QED  BY <1>1, <1>2, ReturnLists, PopStep

(* A list that fires another deferred, in when() and then().                 *)
LEMMA CallFiresStep ==
  ASSUME Inv, CallFires
  PROVE  Inv'
<1>1. /\ Loop /\ AtCall(lists[Here]) /\ Called.k = "fires"
      /\ lists' = Paid /\ calls' = <<Method(<<FireWith(Called.list, Now)>>)>> \o calls
      /\ UNCHANGED <<state, when, seen, ghosts, bounds>>
  BY DEF CallFires, NextIs
<1>2. Called \in Adds(Here) /\ Here \in Lists /\ Now \in DataOf(Here)
  BY <1>1, CallFacts, CalledKinds
<1>3. Called.list \in {"when", "then"} \X Aspect
  BY <1>1, <1>2, Kinds
<1>4. Called.list \in Lists /\ Now \in DataOf(Called.list)
  <2>1. Called.list[1] \notin Base /\ Called.list \in Lists
    BY <1>3, Names DEF Lists
  <2> QED  BY <1>2, <2>1, DataIsNot DEF DataOf
<1> DEFINE w == FireWith(Called.list, Now)
<1>5. w \in Works /\ WorkOK(w) /\ w.op = "fireWith"
  BY <1>4, WorkKinds
<1>6. calls' = <<Method(<<w>>)>> \o calls
  BY <1>1
<1> HIDE DEF w
<1>7. <<w>> \in Seq(Works) /\ (\A j \in DOMAIN <<w>> : WorkOK(<<w>>[j])) /\ NoUsers(<<w>>)
  BY <1>5 DEF NoUsers
<1>8. when' \in [args : Values, remaining : Int, values : Values, progress : Values]
  BY <1>1, InvFacts
<1> QED  BY <1>1, <1>6, <1>7, <1>8, CallOfMethod

(* The values of when() take one more.                                       *)
LEMMA ValuePut ==
  ASSUME NEW s \in Values, NEW i, NEW x \in Atoms
  PROVE  [s EXCEPT ![i] = x] \in Values
<1>1. PICK n \in Nat : s \in [1..n -> Atoms]
  BY DEF Values
<1>2. [s EXCEPT ![i] = x] \in [1..n -> Atoms]
  BY <1>1
<1> QED  BY <1>2 DEF Values

(* updateFunc() of when().                                                   *)
LEMMA CallUpdateStep ==
  ASSUME Inv, CallUpdate
  PROVE  Inv'
<1> USE InvFacts
<1>1. /\ Loop /\ AtCall(lists[Here]) /\ Called.k \in {"resolveValue", "progressValue"}
      /\ lists' = Paid
      /\ UNCHANGED <<state, seen, ghosts, bounds>>
  BY DEF CallUpdate, NextIs
<1>2. Called \in Adds(Here) /\ Here \in Lists /\ Now \in DataOf(Here)
  BY <1>1, CallFacts, CalledKinds
<1>3. Here[1] \in Base
  BY <1>1, <1>2, Kinds
<1>4. Now[1] \in Atoms
  BY <1>2, <1>3 DEF DataOf
<1>5. DoneOf("when") \in Lists /\ ProgressOf("when") \in Lists
      /\ DataOf(DoneOf("when")) = Values /\ DataOf(ProgressOf("when")) = Values
  <2>1. "when" \in Made /\ "when" \notin Base
    BY Names
  <2>2. DoneOf("when")[1] = "when" /\ ProgressOf("when")[1] = "when"
    BY DEF DoneOf, ProgressOf
  <2>3. DoneOf("when") \in Outs /\ ProgressOf("when") \in Lists
    BY <2>1, ListNames
  <2>4. DoneOf("when") \in Lists
    BY <2>3, ListNames
  <2> QED  BY <2>1, <2>2, <2>3, <2>4 DEF DataOf
<1>8. /\ when \in [args : Values, remaining : Int, values : Values, progress : Values]
      /\ when.values \in Values /\ when.progress \in Values /\ when.remaining \in Int
  OBVIOUS
<1>6. CASE Called.k = "resolveValue"
  <2> DEFINE v == [when.values EXCEPT ![Called.arg] = Now[1]]
             r == when.remaining - 1
             todo == IF when.remaining = 1 THEN <<FireWith(DoneOf("when"), when'.values)>> ELSE <<>>
  <2>1. v \in Values /\ r \in Int
    <3>1. v \in Values
      BY <1>4, <1>8, ValuePut
    <3>2. r \in Int
      BY <1>8
    <3> QED  BY <3>1, <3>2
  <2>2. when' = [when EXCEPT !.values = v, !.remaining = r] /\ calls' = <<Method(todo)>> \o calls
    BY <1>6 DEF CallUpdate, NextIs
  <2> HIDE DEF v, r
  <2>3. when' \in [args : Values, remaining : Int, values : Values, progress : Values] /\ when'.values = v
    BY <1>8, <2>1, <2>2
  <2> DEFINE w == FireWith(DoneOf("when"), when'.values)
  <2>4. w \in Works /\ WorkOK(w) /\ w.op = "fireWith"
    BY <1>5, <2>1, <2>3, WorkKinds
  <2> HIDE DEF w
  <2>5. todo \in Seq(Works) /\ (\A j \in DOMAIN todo : WorkOK(todo[j])) /\ NoUsers(todo)
    <3>1. CASE when.remaining = 1
      <4>1. todo = <<w>>
        BY <3>1 DEF w
      <4> HIDE DEF todo
      <4> QED  BY <2>4, <4>1 DEF NoUsers
    <3>2. CASE when.remaining # 1
      <4>1. todo = <<>>
        BY <3>2
      <4> HIDE DEF todo
      <4> QED  BY <4>1 DEF NoUsers
    <3> QED  BY <3>1, <3>2
  <2> HIDE DEF todo
  <2> QED  BY <1>1, <2>2, <2>3, <2>5, CallOfMethod
<1>7. CASE Called.k = "progressValue"
  <2> DEFINE v == [when.progress EXCEPT ![Called.arg] = Now[1]]
             w == FireWith(ProgressOf("when"), when'.progress)
  <2>1. v \in Values
    BY <1>4, <1>8, ValuePut
  <2>2. when' = [when EXCEPT !.progress = v] /\ calls' = <<Method(<<w>>)>> \o calls
    BY <1>7 DEF CallUpdate, NextIs
  <2> HIDE DEF v
  <2>3. when' \in [args : Values, remaining : Int, values : Values, progress : Values] /\ when'.progress = v
    BY <1>8, <2>1, <2>2
  <2>4. w \in Works /\ WorkOK(w) /\ w.op = "fireWith"
    BY <1>5, <2>1, <2>3, WorkKinds
  <2> HIDE DEF w
  <2>5. <<w>> \in Seq(Works) /\ (\A j \in DOMAIN <<w>> : WorkOK(<<w>>[j])) /\ NoUsers(<<w>>)
    BY <2>4 DEF NoUsers
  <2> QED  BY <1>1, <2>2, <2>3, <2>5, CallOfMethod
<1> QED  BY <1>1, <1>6, <1>7

(* What then() or when() chain to a promise.                                 *)
LEMMA Chained ==
  ASSUME NEW d \in Base, NEW to \in {"when", "then"}
  PROVE  /\ Add(DoneOf(d), Fires(DoneOf(to))) \in Works /\ WorkOK(Add(DoneOf(d), Fires(DoneOf(to))))
         /\ Add(FailOf(d), Fires(FailOf(to))) \in Works /\ WorkOK(Add(FailOf(d), Fires(FailOf(to))))
         /\ Add(ProgressOf(d), Fires(ProgressOf(to))) \in Works
         /\ WorkOK(Add(ProgressOf(d), Fires(ProgressOf(to))))
         /\ \A l : Fires(l).k = "fires"
<1>1. d \in Made
  BY Names
<1>2. DoneOf(d) \in Lists /\ FailOf(d) \in Lists /\ ProgressOf(d) \in Lists
  BY <1>1, ListNames
<1>3. DoneOf(to) \in {"when", "then"} \X Aspect /\ FailOf(to) \in {"when", "then"} \X Aspect
      /\ ProgressOf(to) \in {"when", "then"} \X Aspect
  BY DEF DoneOf, FailOf, ProgressOf, Aspect
<1>4. \A l : \A x \in {"when", "then"} \X Aspect : Fires(x) \in Adds(l)
  BY DEF Fires, Adds
<1>5. \A l : Fires(l).k = "fires"
  BY DEF Fires
<1> QED  BY <1>2, <1>3, <1>4, <1>5, WorkKinds

(* The function that then() adds.                                            *)
LEMMA CallForwardStep ==
  ASSUME Inv, CallForward
  PROVE  Inv'
<1> USE InvFacts
<1> DEFINE r == Called.returned
           to == <<"then", Called.aspect>>
           todo == CASE r = "none" -> <<FireWith(to, Now)>>
                     [] r = "value" -> <<FireWith(to, <<"returned">>)>>
                     [] OTHER -> <<Add(DoneOf(r), Fires(DoneOf("then"))),
                                   Add(FailOf(r), Fires(FailOf("then"))),
                                   Add(ProgressOf(r), Fires(ProgressOf("then")))>>
<1>1. /\ Loop /\ AtCall(lists[Here]) /\ Called.k = "forward"
      /\ lists' = Paid /\ calls' = <<Method(todo)>> \o calls
      /\ UNCHANGED <<state, when, seen, ghosts, bounds>>
  BY DEF CallForward, NextIs, ListOf
<1>2. Called \in Adds(Here) /\ Here \in Lists /\ Now \in DataOf(Here)
  BY <1>1, CallFacts, CalledKinds
<1>3. Called.aspect \in Aspect /\ r \in {"none", "value"} \cup Base
  BY <1>1, <1>2, Kinds
<1>4. to \in Lists /\ DataOf(to) = Values
  BY <1>3, Names DEF Lists, DataOf
<1> HIDE DEF to
<1>5. <<"returned">> \in Values /\ Now \in Values
  <2>1. "returned" \in Atoms
    BY DEF Atoms
  <2> QED  BY <1>2, <2>1, DataIsNot DEF Values
<1>6. todo \in Seq(Works) /\ (\A j \in DOMAIN todo : WorkOK(todo[j])) /\ NoUsers(todo)
  <2>1. ASSUME NEW w, w = FireWith(to, Now) \/ w = FireWith(to, <<"returned">>)
        PROVE  <<w>> \in Seq(Works) /\ (\A j \in DOMAIN <<w>> : WorkOK(<<w>>[j])) /\ NoUsers(<<w>>)
    <3>1. w \in Works /\ WorkOK(w) /\ w.op = "fireWith"
      BY <1>4, <1>5, <2>1, WorkKinds
    <3> QED  BY <3>1 DEF NoUsers
  <2>2. CASE r = "none"
    <3>1. todo = <<FireWith(to, Now)>>
      BY <2>2
    <3> HIDE DEF todo
    <3> QED  BY <2>1, <3>1
  <2>3. CASE r = "value"
    <3>1. todo = <<FireWith(to, <<"returned">>)>>
      BY <2>3
    <3> HIDE DEF todo
    <3> QED  BY <2>1, <3>1
  <2>4. CASE r # "none" /\ r # "value"
    <3> DEFINE a == Add(DoneOf(r), Fires(DoneOf("then")))
               b == Add(FailOf(r), Fires(FailOf("then")))
               c == Add(ProgressOf(r), Fires(ProgressOf("then")))
    <3>1. todo = <<a, b, c>>
      BY <2>4
    <3>2. r \in Base
      BY <1>3, <2>4
    <3>3. a \in Works /\ WorkOK(a) /\ b \in Works /\ WorkOK(b) /\ c \in Works /\ WorkOK(c)
      BY <3>2, Chained
    <3>4. a.fn.k = "fires" /\ b.fn.k = "fires" /\ c.fn.k = "fires"
      BY WorkKinds DEF Fires
    <3> HIDE DEF todo, a, b, c
    <3>5. <<a, b, c>> \in Seq(Works) /\ \A j \in DOMAIN <<a, b, c>> : <<a, b, c>>[j] \in {a, b, c}
      BY <3>3
    <3> QED  BY <3>1, <3>3, <3>4, <3>5 DEF NoUsers
  <2> QED  BY <2>2, <2>3, <2>4
<1>7. when' \in [args : Values, remaining : Int, values : Values, progress : Values]
  BY <1>1
<1> HIDE DEF todo
<1> QED  BY <1>1, <1>6, <1>7, CallOfMethod
-----------------------------------------------------------------------------
(* The page calls a method.                                                  *)

(* A method that the page calls and that registers nothing.                  *)
LEMMA PageCall ==
  ASSUME Inv, NEW todo \in Seq(Works), \A j \in DOMAIN todo : WorkOK(todo[j]), NoUsers(todo),
         Call(todo), wants' = wants,
         when' \in [args : Values, remaining : Int, values : Values, progress : Values]
  PROVE  Inv'
<1> USE InvFacts
<1>1. /\ Idle \/ In("user")
      /\ calls' = <<Method(todo)>> \o calls
      /\ lists' = lists /\ state' = state /\ seen' = seen /\ used' \in 0..MaxCalls
  BY Names DEF Call
<1>2. calls = <<>> \/ Head(calls).k = "user"
  BY <1>1 DEF Idle, In
<1>3. \A l : ~Top(l)
  BY <1>2 DEF Top
<1>4. \A d \in Made : Rest(d)
  BY <1>3, AllAtRest
<1>5. \A l \in Lists : /\ ListOK(lists'[l], l) /\ Same(lists[l], lists'[l])
                       /\ lists'[l].index = lists[l].index
  BY <1>1, SameItself
<1>6. calls = <<>> \/ Head(calls).k # "method"
  BY <1>2
<1> QED  BY <1>1, <1>3, <1>4, <1>5, <1>6, PushStays

LEMMA KnownMade == Known \subseteq Made
BY Names DEF Known

(* resolve(), reject() and notify().                                         *)
LEMMA FireByPage ==
  ASSUME Inv, Fire
  PROVE  Inv'
<1> USE InvFacts
<1>1. PICK d \in Base, aspect \in Aspect : Call(<<FireWith(<<d, aspect>>, Data[used + 1])>>)
  BY DEF Fire
<1> DEFINE w == FireWith(<<d, aspect>>, Data[used + 1])
<1>2. w \in Works /\ WorkOK(w) /\ w.op = "fireWith"
  <2>1. <<d, aspect>> \in Lists
    BY Names, ListNames
  <2>2. used \in 0..MaxCalls /\ used < MaxCalls /\ MaxCalls \in Nat
    BY <1>1, Names DEF Call
  <2>3. Data[used + 1] \in DataOf(<<d, aspect>>)
    <3>1. used + 1 \in 1..MaxCalls
      BY <2>2
    <3> QED  BY <3>1, Names DEF DataOf
  <2> QED  BY <2>1, <2>3, WorkKinds
<1> HIDE DEF w
<1>3. <<w>> \in Seq(Works) /\ (\A j \in DOMAIN <<w>> : WorkOK(<<w>>[j])) /\ NoUsers(<<w>>)
  BY <1>2 DEF NoUsers
<1>4. wants' = wants /\ when' = when
  BY DEF Fire, ghosts
<1>5. Call(<<w>>)
  BY <1>1 DEF w
<1> QED  BY <1>3, <1>4, <1>5, PageCall

(* when().                                                                   *)
LEMMA WhenStep ==
  ASSUME Inv, When
  PROVE  Inv'
<1> USE InvFacts
<1>1. PICK args \in WhenArgs :
       /\ when' = [args |-> args, remaining |-> Len(args), values |-> args,
                   progress |-> [i \in DOMAIN args |-> "undefined"]]
       /\ Call([i \in DOMAIN args |-> Argument(i)] \o <<ResolveIfDone>>)
  BY DEF When
<1>2. args \in Seq(Atoms) /\ Len(args) \in Nat /\ DOMAIN args = 1..Len(args)
  BY Names DEF Values
<1> DEFINE p == [i \in DOMAIN args |-> "undefined"]
           s == [i \in DOMAIN args |-> Argument(i)]
           todo == s \o <<ResolveIfDone>>
<1>3. p \in Values
  BY <1>2 DEF Values, Atoms
<1>4. when' \in [args : Values, remaining : Int, values : Values, progress : Values]
  <2> HIDE DEF p
  <2>1. args \in Values
    BY <1>2 DEF Values
  <2> QED  BY <1>1, <1>2, <1>3, <2>1 DEF p
<1>5. s \in Seq(Works) /\ Len(s) = Len(args) /\ \A i \in 1..Len(args) : s[i] = Argument(i)
  <2>1. \A i \in DOMAIN args : Argument(i) \in Works
    BY <1>2, WorkKinds
  <2> QED  BY <1>2, <2>1
<1>6. <<ResolveIfDone>> \in Seq(Works) /\ Len(<<ResolveIfDone>>) = 1 /\ <<ResolveIfDone>>[1] = ResolveIfDone
  BY WorkKinds
<1> HIDE DEF s
<1>7. /\ todo \in Seq(Works) /\ Len(todo) = Len(args) + 1
      /\ \A i \in 1..Len(args) + 1 : todo[i] = IF i <= Len(args) THEN Argument(i) ELSE ResolveIfDone
  <2>1. /\ todo \in Seq(Works) /\ Len(todo) = Len(s) + Len(<<ResolveIfDone>>)
        /\ \A i \in 1..Len(s) + Len(<<ResolveIfDone>>) :
              todo[i] = IF i <= Len(s) THEN s[i] ELSE <<ResolveIfDone>>[i - Len(s)]
    BY <1>5, <1>6, ConcatProperties
  <2> HIDE DEF todo
  <2> QED  BY <1>2, <1>5, <1>6, <2>1
<1>8. Call(todo)
  BY <1>1 DEF s
<1> HIDE DEF todo
<1>9. \A j \in DOMAIN todo : WorkOK(todo[j]) /\ todo[j].op # "add"
  <2> SUFFICES ASSUME NEW j \in DOMAIN todo
               PROVE  WorkOK(todo[j]) /\ todo[j].op # "add"
    OBVIOUS
  <2>1. j \in Nat /\ (todo[j] = Argument(j) \/ todo[j] = ResolveIfDone)
    BY <1>2, <1>7
  <2> QED  BY <2>1, WorkKinds
<1>10. NoUsers(todo) /\ wants' = wants
  BY <1>9 DEF NoUsers, When, ghosts
<1> QED  BY <1>4, <1>7, <1>8, <1>9, <1>10, PageCall

(* then().                                                                   *)
LEMMA ThenStep ==
  ASSUME Inv, Then
  PROVE  Inv'
<1> USE InvFacts
<1>1. PICK d \in Known, r \in {"none", "value"} \cup Base :
       Call(<<Add(DoneOf(d), Forward("done", r)), Add(FailOf(d), Forward("fail", r)),
              Add(ProgressOf(d), Forward("progress", "none"))>>)
  BY DEF Then
<1>2. d \in Made
  BY KnownMade
<1>3. DoneOf(d) \in Lists /\ FailOf(d) \in Lists /\ ProgressOf(d) \in Lists
  BY <1>2, ListNames
<1>4. /\ \A l : Forward("done", r) \in Adds(l) /\ Forward("fail", r) \in Adds(l)
                /\ Forward("progress", "none") \in Adds(l)
      /\ Forward("done", r).k = "forward" /\ Forward("fail", r).k = "forward"
      /\ Forward("progress", "none").k = "forward"
  BY DEF Forward, Adds, Aspect
<1> DEFINE a == Add(DoneOf(d), Forward("done", r))
           b == Add(FailOf(d), Forward("fail", r))
           c == Add(ProgressOf(d), Forward("progress", "none"))
<1>5. a \in Works /\ WorkOK(a) /\ b \in Works /\ WorkOK(b) /\ c \in Works /\ WorkOK(c)
  BY <1>3, <1>4, WorkKinds
<1>6. a.fn.k = "forward" /\ b.fn.k = "forward" /\ c.fn.k = "forward"
  BY <1>4, WorkKinds
<1>7. Call(<<a, b, c>>)
  BY <1>1
<1> HIDE DEF a, b, c
<1>8. <<a, b, c>> \in Seq(Works) /\ \A j \in DOMAIN <<a, b, c>> : <<a, b, c>>[j] \in {a, b, c}
  BY <1>5
<1>9. NoUsers(<<a, b, c>>) /\ \A j \in DOMAIN <<a, b, c>> : WorkOK(<<a, b, c>>[j])
  BY <1>5, <1>6, <1>8 DEF NoUsers
<1>10. wants' = wants /\ when' = when
  BY DEF Then
<1> QED  BY <1>7, <1>8, <1>9, <1>10, PageCall
-----------------------------------------------------------------------------
(* A handler is registered.                                                  *)

(* A handler stands only where it was asked to.                              *)
LEMMA UsersKnown ==
  ASSUME Inv, NEW h \in Handlers
  PROVE  /\ \A l \in Outs : Places(l, h) # {} => Asked(l, h)
         /\ \A l \in Lists : Adding(l, h) => l \in Outs /\ Asked(l, h)
<1> USE InvFacts
<1>1. User(h).k = "user" /\ User(h).name = h
  BY Kinds
<1>2. ASSUME NEW l \in Lists, User(h) \in Adds(l)
      PROVE  l \in Outs /\ Asked(l, h)
  BY <1>1, <1>2, Kinds
<1>3. ASSUME NEW l \in Outs, NEW i \in Places(l, h)
      PROVE  Asked(l, h)
  <2> DEFINE d == l[1]
             c == lists[l]
  <2>1. l \in Lists /\ d \in Made /\ Other(Other(l)) = l /\ {DoneOf(d), FailOf(d)} = {l, Other(l)}
    <3>1. Other(DoneOf(d)) = FailOf(d) /\ Other(FailOf(d)) = DoneOf(d) /\ (l = DoneOf(d) \/ l = FailOf(d))
      BY ListNames
    <3> QED  BY <3>1, ListNames
  <2>2. i \in DOMAIN c.items /\ c.items[i] = User(h) /\ i \in Nat
    BY <2>1, PlacesType DEF Places
  <2> HIDE DEF c
  <2>3. Added3(c, l) \/ (\A j \in DOMAIN c.items : c.items[j] \in Adds(l)) \/ c.items = <<>>
    <3>1. DeferredOK(d)
      BY <2>1 DEF ListsOK
    <3> HIDE DEF d
    <3>2. CASE Pending(d)
      BY <2>1, <3>2 DEF Pending, Fresh, c
    <3>3. CASE \E m \in {l, Other(l)} : Settling(m, 0) \/ Settling(m, 1) \/ Settled(m)
      BY <2>1, <3>3 DEF Settling, Settled, Fresh, First, Later, Gone, c
    <3> QED  BY <2>1, <3>1, <3>2, <3>3 DEF DeferredOK
  <2>4. CASE Added3(c, l)
    <3>1. i \notin 1..3
      <4>1. SetState(l[1], Outcome(l[2])).k # "user" /\ Disable(Other(l)).k # "user" /\ Lock(ProgressOf(l[1])).k # "user"
        BY DEF SetState, Disable, Lock
      <4>2. Core(l)[1].k # "user" /\ Core(l)[2].k # "user" /\ Core(l)[3].k # "user"
        BY <4>1, Kinds
      <4>3. i \in 1..3 => i = 1 \/ i = 2 \/ i = 3
        OBVIOUS
      <4>4. i \in 1..3 => c.items[i] = Core(l)[i]
        BY <2>4 DEF Added3
      <4> QED  BY <1>1, <2>2, <4>2, <4>3, <4>4
    <3>2. i > 3
      BY <2>1, <2>2, <3>1, PlacesType DEF c
    <3> QED  BY <1>2, <2>1, <2>2, <2>4, <3>2 DEF Added3
  <2>5. CASE \A j \in DOMAIN c.items : c.items[j] \in Adds(l)
    BY <1>2, <2>1, <2>2, <2>5
  <2> QED  BY <2>2, <2>3, <2>4, <2>5
<1>4. ASSUME NEW l \in Lists, Adding(l, h)
      PROVE  l \in Outs /\ Asked(l, h)
  <2>1. PICK p \in DOMAIN calls :
          calls[p].k = "method" /\ \E j \in DOMAIN calls[p].todo : calls[p].todo[j] = Add(l, User(h))
    BY <1>4 DEF Adding
  <2>2. PICK j \in DOMAIN calls[p].todo : calls[p].todo[j] = Add(l, User(h))
    BY <2>1
  <2>3. WorkOK(Add(l, User(h)))
    BY <2>1, <2>2 DEF StackOK, FramesOK, FrameOK
  <2>4. User(h) \in Adds(l)
    BY <2>3, WorkKinds DEF WorkOK
  <2> QED  BY <1>2, <2>4
<1> QED  BY <1>3, <1>4

(* A handler is registered with the lists of the outcomes it asks for.       *)
LEMMA RegisterWith ==
  ASSUME Inv, NEW h \in Handlers, NEW d \in Made, NEW hows \in SUBSET {"resolved", "rejected"},
         NEW todo \in Seq(Works), wants[h] = {}, Call(todo), Asks(h, d, hows), UNCHANGED when,
         \A j \in DOMAIN todo : \E l \in Outs : /\ todo[j] = Add(l, User(h))
                                                /\ l[1] = d /\ Outcome(l[2]) \in hows,
         \A l \in Outs : l[1] = d /\ Outcome(l[2]) \in hows => \E j \in DOMAIN todo : todo[j] = Add(l, User(h)),
         \A i, j \in DOMAIN todo : todo[i] = todo[j] => i = j
  PROVE  Inv'
<1> USE InvFacts
<1>1. /\ Idle \/ In("user")
      /\ calls' = <<Method(todo)>> \o calls
      /\ lists' = lists /\ state' = state /\ seen' = seen /\ used' \in 0..MaxCalls
  BY Names DEF Call
<1>2. calls = <<>> \/ Head(calls).k = "user"
  BY <1>1 DEF Idle, In
<1>3. \A l : ~Top(l)
  BY <1>2 DEF Top
<1>4. \A d1 \in Made : Rest(d1)
  BY <1>3, AllAtRest
<1>5. \A l \in Lists : /\ ListOK(lists'[l], l) /\ Same(lists[l], lists'[l])
                       /\ lists'[l].index = lists[l].index
  BY <1>1, SameItself
<1>6. calls = <<>> \/ Head(calls).k # "method"
  BY <1>2
<1>7. /\ wants \in [Handlers -> SUBSET [on : Made, how : {"resolved", "rejected"}]]
      /\ wants' = [wants EXCEPT ![h] = [on : {d}, how : hows]]
  BY DEF HandlersOK, Asks
<1>8. /\ wants' \in [Handlers -> SUBSET [on : Made, how : {"resolved", "rejected"}]]
      /\ wants'[h] = [on : {d}, how : hows]
      /\ \A g \in Handlers : g # h => wants'[g] = wants[g]
  BY <1>7, ZenonT(40)
<1>9. Grows
  BY <1>8 DEF Grows
<1>10. \A l \in Outs : /\ Asked(l, h)' <=> (l[1] = d /\ Outcome(l[2]) \in hows)
                       /\ ~Asked(l, h)
  <2>1. \A l : Want(l).on = l[1] /\ Want(l).how = Outcome(l[2])
    BY DEF Want
  <2>2. \A l : Want(l) = [on |-> l[1], how |-> Outcome(l[2])]
    BY DEF Want
  <2>3. \A l : Want(l) \in [on : {d}, how : hows] <=> l[1] = d /\ Outcome(l[2]) \in hows
    BY <2>2
  <2> QED  BY <1>8, <2>3 DEF Asked
<1>11. \A j \in DOMAIN todo : WorkOK(todo[j])'
  <2> SUFFICES ASSUME NEW j \in DOMAIN todo
               PROVE  WorkOK(todo[j])'
    OBVIOUS
  <2>1. PICK l \in Outs : todo[j] = Add(l, User(h)) /\ l[1] = d /\ Outcome(l[2]) \in hows
    OBVIOUS
  <2>2. Want(l) \in wants'[h]
    BY <1>10, <2>1 DEF Asked
  <2>3. User(h) \in Adds(l)'
    BY <2>2 DEF Adds
  <2> QED  BY <2>1, <2>3, WorkKinds DEF WorkOK
<1>12. /\ StackOK' /\ ListsOK'
       /\ \A l \in Outs, g \in Handlers :
              wants'[g] = wants[g] /\ seen'[g] = seen[g] /\ (\A j \in DOMAIN todo : todo[j] # Add(l, User(g)))
              => /\ OneAt(l, g) => OneAt(l, g)'
                 /\ CalledAt(l, g) => CalledAt(l, g)'
                 /\ WaitsAt(l, g) => WaitsAt(l, g)'
       /\ calls'[1] = Method(todo) /\ Restacked(1, 0)
  BY <1>1, <1>3, <1>4, <1>5, <1>6, <1>9, <1>11, PushMethod
<1>13. ASSUME NEW g \in Handlers, g # h
       PROVE  HandlerOK(g)'
  <2>1. \A l \in Outs, j \in DOMAIN todo : todo[j] # Add(l, User(g))
    <3> SUFFICES ASSUME NEW l \in Outs, NEW j \in DOMAIN todo, todo[j] = Add(l, User(g))
                 PROVE  FALSE
      OBVIOUS
    <3>1. PICK m \in Outs : todo[j] = Add(m, User(h))
      OBVIOUS
    <3>2. User(g) = User(h)
      <4>1. Add(l, User(g)).fn = User(g) /\ Add(m, User(h)).fn = User(h)
        BY WorkKinds
      <4> QED  BY <3>1, <4>1
    <3> QED  BY <1>13, <3>2, Kinds
  <2>2. wants'[g] = wants[g] /\ seen'[g] = seen[g] /\ HandlerOK(g)
    BY <1>1, <1>8, <1>13 DEF HandlersOK
  <2> QED  BY <1>12, <2>1, <2>2, HandlerStep
<1>14. HandlerOK(h)'
  <2>1. \A l \in Lists : ~Adding(l, h)
    BY <1>10, UsersKnown
  <2>2. \A l \in Outs : Places(l, h)' = {}
    <3>1. \A l \in Outs : Places(l, h) = {}
      BY <1>10, UsersKnown
    <3> QED  BY <1>1, <3>1 DEF Places
  <2>3. seen'[h] = <<>>
    BY <1>1, <1>10 DEF HandlersOK, HandlerOK, CalledAt
  <2>4. Method(todo).k = "method" /\ Method(todo).todo = todo
    BY WorkKinds
  <2>5. ASSUME NEW l \in Outs
        PROVE  /\ \A p, j : AddsAt(p, j, l, h)' => p = 1 /\ j \in DOMAIN todo /\ todo[j] = Add(l, User(h))
               /\ \A j \in DOMAIN todo : todo[j] = Add(l, User(h)) => AddsAt(1, j, l, h)'
    <3>1. l \in Lists
      BY ListNames
    <3>2. ASSUME NEW p, NEW j, AddsAt(p, j, l, h)'
          PROVE  p = 1
      <4>1. p \in DOMAIN calls' /\ calls'[p].k = "method" /\ j \in DOMAIN calls'[p].todo
            /\ calls'[p].todo[j] = Add(l, User(h))
        BY <3>2 DEF AddsAt
      <4>2. p > 1 => p - 1 \in DOMAIN calls /\ calls'[p] = calls[p - 1]
        BY <1>12, <4>1 DEF Restacked
      <4>3. p > 1 => Adding(l, h)
        BY <4>1, <4>2 DEF Adding
      <4> QED  BY <1>12, <2>1, <3>1, <4>1, <4>3 DEF Restacked
    <3>3. \A j : AddsAt(1, j, l, h)' => j \in DOMAIN todo /\ todo[j] = Add(l, User(h))
      BY <1>12, <2>4 DEF AddsAt
    <3>4. 1 \in DOMAIN calls'
      BY <1>12 DEF Restacked
    <3>5. \A j \in DOMAIN todo : todo[j] = Add(l, User(h)) => AddsAt(1, j, l, h)'
      BY <1>12, <2>4, <3>4 DEF AddsAt
    <3> QED  BY <3>2, <3>3, <3>5
  <2>6. ASSUME NEW l \in Outs
        PROVE  OneAt(l, h)' /\ WaitsAt(l, h)'
    <3>1. OneAdding(l, h)'
      BY <2>5 DEF OneAdding
    <3>2. Asked(l, h)' => Adding(l, h)'
      <4> SUFFICES ASSUME Asked(l, h)'
                   PROVE  Adding(l, h)'
        OBVIOUS
      <4>1. PICK j \in DOMAIN todo : todo[j] = Add(l, User(h))
        BY <1>10
      <4>2. AddsAt(1, j, l, h)'
        BY <2>5, <4>1
      <4> QED  BY <4>2 DEF AddsAt, Adding
    <3> QED  BY <2>2, <3>1, <3>2 DEF OneAt, WaitsAt
  <2>7. wants'[h] \subseteq [on : {d}, how : {"resolved", "rejected"}]
    <3>1. [on : {d}, how : hows] \subseteq [on : {d}, how : {"resolved", "rejected"}]
      OBVIOUS
    <3> QED  BY <1>8, <3>1
  <2> QED  BY <2>3, <2>6, <2>7 DEF HandlerOK
<1>15. HandlersOK'
  <2>1. DOMAIN seen' = Handlers
    BY <1>1 DEF HandlersOK
  <2> QED  BY <1>8, <1>13, <1>14, <2>1 DEF HandlersOK
<1> QED  BY <1>12, <1>15 DEF Inv

(* done(), fail() and always().                                              *)
LEMMA RegisterStep ==
  ASSUME Inv, Register
  PROVE  Inv'
<1>1. PICK h \in Handlers, d \in Known :
       /\ wants[h] = {}
       /\ \/ \E aspect \in {"done", "fail"} :
               Call(<<Add(<<d, aspect>>, User(h))>>) /\ Asks(h, d, {Outcome(aspect)})
          \/ /\ Call(<<Add(DoneOf(d), User(h)), Add(FailOf(d), User(h))>>)
             /\ Asks(h, d, {"resolved", "rejected"})
  BY DEF Register
<1>2. d \in Made /\ UNCHANGED when
  BY KnownMade DEF Register
<1>2a. wants[h] = {}
  BY <1>1
<1>3. /\ \A l \in Outs : l[1] = d => l = DoneOf(d) \/ l = FailOf(d)
      /\ DoneOf(d) \in Outs /\ FailOf(d) \in Outs /\ DoneOf(d) = <<d, "done">> /\ FailOf(d) = <<d, "fail">>
      /\ Outcome("done") = "resolved" /\ Outcome("fail") = "rejected"
      /\ \A l \in Outs : l \in Lists
  BY <1>2, ListNames DEF DoneOf, FailOf, Outcome
<1>4. \A l \in Outs : Add(l, User(h)) \in Works
  <2>1. User(h) \in Functions
    BY DEF User, Functions
  <2> QED  BY <1>3, <2>1 DEF Add, Works
<1>5. CASE \E aspect \in {"done", "fail"} :
              Call(<<Add(<<d, aspect>>, User(h))>>) /\ Asks(h, d, {Outcome(aspect)})
  <2>1. PICK aspect \in {"done", "fail"} :
              Call(<<Add(<<d, aspect>>, User(h))>>) /\ Asks(h, d, {Outcome(aspect)})
    BY <1>5
  <2> DEFINE l == <<d, aspect>>
             w == Add(l, User(h))
             hows == {Outcome(aspect)}
  <2>2. l \in Outs /\ l[1] = d /\ Outcome(l[2]) \in hows /\ w \in Works
    BY <1>2, <1>4 DEF Outs
  <2>3. \A m \in Outs : m[1] = d /\ Outcome(m[2]) \in hows => m = l
    BY <1>3
  <2>4. hows \in SUBSET {"resolved", "rejected"} /\ Call(<<w>>) /\ Asks(h, d, hows)
    BY <1>3, <2>1
  <2>5. w = Add(l, User(h))
    OBVIOUS
  <2> HIDE DEF w, hows, l
  <2>6. /\ <<w>> \in Seq(Works)
        /\ \A j \in DOMAIN <<w>> : <<w>>[j] = w /\ j = 1
        /\ 1 \in DOMAIN <<w>> /\ <<w>>[1] = w
    BY <2>2
  <2>7. \A j \in DOMAIN <<w>> : \E m \in Outs : /\ <<w>>[j] = Add(m, User(h))
                                                /\ m[1] = d /\ Outcome(m[2]) \in hows
    BY <2>2, <2>5, <2>6
  <2>8. \A m \in Outs : m[1] = d /\ Outcome(m[2]) \in hows => \E j \in DOMAIN <<w>> : <<w>>[j] = Add(m, User(h))
    BY <2>3, <2>5, <2>6
  <2>9. \A i, j \in DOMAIN <<w>> : <<w>>[i] = <<w>>[j] => i = j
    BY <2>6
  <2> QED  BY <1>2, <1>2a, <2>4, <2>6, <2>7, <2>8, <2>9, RegisterWith
<1>6. CASE /\ Call(<<Add(DoneOf(d), User(h)), Add(FailOf(d), User(h))>>)
           /\ Asks(h, d, {"resolved", "rejected"})
  <2> DEFINE a == Add(DoneOf(d), User(h))
             b == Add(FailOf(d), User(h))
             hows == {"resolved", "rejected"}
  <2>1. a \in Works /\ b \in Works /\ a # b
    <3>1. a.list = DoneOf(d) /\ b.list = FailOf(d)
      BY WorkKinds
    <3>2. DoneOf(d) # FailOf(d)
      BY <1>3
    <3> QED  BY <1>3, <1>4, <3>1, <3>2
  <2>2. Call(<<a, b>>) /\ Asks(h, d, hows) /\ hows \in SUBSET {"resolved", "rejected"}
    BY <1>6
  <2>3. a = Add(DoneOf(d), User(h)) /\ b = Add(FailOf(d), User(h))
    OBVIOUS
  <2>4. DoneOf(d)[1] = d /\ FailOf(d)[1] = d /\ Outcome(DoneOf(d)[2]) \in hows /\ Outcome(FailOf(d)[2]) \in hows
    BY <1>3
  <2> HIDE DEF a, b, hows
  <2> DEFINE todo == <<a, b>>
  <2>5. /\ todo \in Seq(Works) /\ DOMAIN todo = {1, 2} /\ todo[1] = a /\ todo[2] = b /\ Call(todo)
    BY <2>1, <2>2
  <2> HIDE DEF todo
  <2>6. \A j \in DOMAIN todo : \E m \in Outs : /\ todo[j] = Add(m, User(h))
                                                   /\ m[1] = d /\ Outcome(m[2]) \in hows
    BY <1>3, <2>3, <2>4, <2>5
  <2>7. \A m \in Outs : m[1] = d /\ Outcome(m[2]) \in hows
                        => \E j \in DOMAIN todo : todo[j] = Add(m, User(h))
    BY <1>3, <2>3, <2>5
  <2>8. \A i, j \in DOMAIN todo : todo[i] = todo[j] => i = j
    BY <2>1, <2>5
  <2> QED  BY <1>2, <1>2a, <2>2, <2>5, <2>6, <2>7, <2>8, RegisterWith
<1> QED  BY <1>1, <1>5, <1>6
-----------------------------------------------------------------------------
(* A handler is called: for the first time, and by the list of the outcome   *)
(* that came about.                                                          *)

LEMMA HandlerCalled ==
  ASSUME Inv, CallHandler
  PROVE  /\ Loop /\ AtCall(lists[Here]) /\ Here \in Outs /\ Settled(Here)
         /\ Called.name \in Handlers /\ Called = User(Called.name)
         /\ Asked(Here, Called.name) /\ seen[Called.name] = <<>>
         /\ lists[Here].index + 1 \in Places(Here, Called.name)
         /\ seen' = [seen EXCEPT ![Called.name] = <<lists[Here].memory>>]
<1> USE InvFacts
<1> DEFINE h == Called.name
<1>1. /\ Loop /\ AtCall(lists[Here]) /\ Called.k = "user"
      /\ seen' = [seen EXCEPT ![h] = Append(@, Now)]
  BY DEF CallHandler, NextIs
<1>2. Called \in Adds(Here) /\ (Here \in Outs => Settled(Here)) /\ Here \in Lists
  BY <1>1, CallFacts, CalledKinds
<1>3. h \in Handlers /\ Called = User(h) /\ Here \in Outs /\ Asked(Here, h)
  BY <1>1, <1>2, Kinds
<1>4. Settled(Here) /\ Now = lists[Here].memory /\ OnStack(Here) /\ Top(Here)
  BY <1>1, <1>2, <1>3, CallFacts
<1>5. lists[Here].index + 1 \in Places(Here, h)
  BY <1>1, <1>3, CallFacts DEF Places
<1>6. seen[h] = <<>>
  <2> SUFFICES ASSUME seen[h] # <<>>
               PROVE  FALSE
    OBVIOUS
  <2>1. HandlerOK(h)
    BY <1>3 DEF HandlersOK
  <2>2. PICK l \in Outs : CalledAt(l, h)
    BY <2>1 DEF HandlerOK
  <2>3. PICK d \in Made : wants[h] \subseteq [on : {d}, how : {"resolved", "rejected"}]
    BY <2>1 DEF HandlerOK
  <2>4. l[1] = d /\ Here[1] = d
    <3>1. Want(l) \in wants[h] /\ Want(Here) \in wants[h]
      BY <1>3, <2>2 DEF CalledAt, Asked
    <3>2. Want(l).on = l[1] /\ Want(Here).on = Here[1]
      BY DEF Want
    <3> QED  BY <2>3, <3>1, <3>2
  <2>5. state[l[1]] = Outcome(l[2]) /\ state[Here[1]] = Outcome(Here[2])
    BY <1>4, <2>2 DEF CalledAt, Settled
  <2>6. l = Here
    <3>1. l = Here \/ l = Other(Here)
      BY <1>3, <2>4, ListNames
    <3>2. Outcome(Here[2]) # Outcome(Other(Here)[2])
      BY <1>3, ListNames
    <3> QED  BY <2>4, <2>5, <3>1, <3>2
  <2>7. lists[Here].index + 1 <= Begun(Here)
    BY <1>4, <1>5, <2>2, <2>6 DEF CalledAt
  <2> QED  BY <1>2, <1>4, <2>7, BegunType DEF ListOK
<1>7. Append(seen[h], Now) = <<lists[Here].memory>>
  BY <1>4, <1>6
<1> QED  BY <1>1, <1>3, <1>4, <1>5, <1>6, <1>7

LEMMA CallHandlerStep ==
  ASSUME Inv, CallHandler
  PROVE  Inv'
<1> USE InvFacts
<1>0. PICK h \in Handlers, m \in Outs : h = Called.name /\ m = Here
  BY HandlerCalled
<1> DEFINE f == Running(h)
<1>1. /\ Loop /\ AtCall(lists[Here]) /\ Here \in Outs /\ Settled(m)
      /\ Called = User(h) /\ Asked(m, h) /\ seen[h] = <<>>
      /\ lists[m].index + 1 \in Places(m, h)
      /\ seen' = [seen EXCEPT ![h] = <<lists[m].memory>>]
  BY <1>0, HandlerCalled
<1>2. /\ lists' = Paid /\ calls' = <<f>> \o calls
      /\ state' = state /\ when' = when /\ wants' = wants /\ used' = used
  BY <1>0 DEF CallHandler, ghosts, bounds
<1>3. /\ DOMAIN lists' = Lists
      /\ \A l \in Lists : /\ ListOK(lists'[l], l) /\ Same(lists[l], lists'[l])
                          /\ lists'[l].index = lists[l].index
  BY <1>1, <1>2, CallFacts, PaidLists
<1>4. f \in Frames /\ f.k = "user" /\ FrameOK(f)'
  <2>1. f \in Frames /\ f.k = "user"
    BY <1>1, WorkKinds
  <2> QED  BY <2>1 DEF FrameOK
<1>5. Grows /\ calls # <<>> /\ Head(calls).k = "fire"
  BY <1>1, <1>2, Unchanged DEF Loop, In
<1> HIDE DEF f
<1>6. /\ StackOK' /\ Restacked(1, 0)
      /\ \A l : ~Top(l)'
      /\ \A l : OnStack(l)' <=> OnStack(l)
      /\ Stuck => Stuck'
      /\ calls'[1] = f
  BY <1>2, <1>3, <1>4, <1>5, PushStep
<1>7. \A l \in Outs : l \in Lists
  BY ListNames
<1>8. ASSUME NEW l \in Outs
      PROVE  \/ Begun(l)' = Begun(l)
             \/ /\ l = m /\ Begun(l)' = Begun(l) + 1 /\ Begun(l) + 1 <= Len(lists[l].items)
                /\ lists[l].items[Begun(l) + 1] = User(h)
  <2>1. Begun(l)' = lists[l].index + 1
    BY <1>3, <1>6, <1>7 DEF Begun
  <2>2. CASE Top(l)
    <3>1. Begun(l) = lists[l].index
      BY <1>7, <2>2, BegunType
    <3>2. l = m
      BY <1>0, <1>1, <2>2, CallFacts
    <3>3. lists[l].index + 1 <= Len(lists[l].items) /\ lists[l].items[lists[l].index + 1] = User(h)
      BY <1>0, <1>1, <3>2, CallFacts
    <3> QED  BY <2>1, <3>1, <3>2, <3>3
  <2>3. CASE ~Top(l)
    <3>1. Begun(l) = lists[l].index + 1
      BY <1>7, <2>3, BegunType
    <3> QED  BY <2>1, <3>1
  <2> QED  BY <2>2, <2>3
<1>9. \A l \in Outs : Same(lists[l], lists'[l]) /\ lists'[l].index >= lists[l].index
  <2> SUFFICES ASSUME NEW l \in Outs
               PROVE  Same(lists[l], lists'[l]) /\ lists'[l].index >= lists[l].index
    OBVIOUS
  <2>1. lists[l].index \in Nat /\ lists'[l].index = lists[l].index
    BY <1>3, <1>7 DEF ListOK
  <2> QED  BY <1>3, <1>7, <2>1
<1>10. \A d \in Made : Rest(d)
  BY <1>0, <1>1, CalledAtRest
<1>11. ListsOK'
  <2>1. \A l \in Lists \ Outs : ProgressListOK(lists[l], l)'
    BY <1>3, <1>5, ProgressKept
  <2>2. /\ state' \in [Made -> {"pending", "resolved", "rejected"}]
        /\ when' \in [args : Values, remaining : Int, values : Values, progress : Values]
        /\ used' \in 0..MaxCalls
    BY <1>2 DEF ListsOK
  <2>3. /\ \A l \in Outs : OnStack(l)' => OnStack(l)
        /\ \A l \in Outs : OnStack(l) =>
              \/ Begun(l)' = Begun(l)
              \/ Begun(l)' = Begun(l) + 1 /\ Begun(l) + 1 <= Len(lists[l].items)
    BY <1>6, <1>8
  <2> QED  BY <1>2, <1>3, <1>5, <1>9, <1>10, <2>1, <2>2, <2>3, SameLists
<1>12. ASSUME NEW l \in Outs, NEW g \in Handlers
       PROVE  (Adding(l, g)' <=> Adding(l, g)) /\ (OneAdding(l, g) => OneAdding(l, g)')
  <2>1. \A p \in 1..1 : \A j : AddsAt(p, j, l, g)' => 0 = 1 /\ p = 1 /\ AddsAt(1, j + 0, l, g)
    BY <1>4, <1>6 DEF AddsAt
  <2> QED  BY <1>6, <2>1, AddingShift
<1>13. ASSUME NEW g \in Handlers, g # h
       PROVE  HandlerOK(g)'
  <2>1. wants'[g] = wants[g] /\ seen'[g] = seen[g] /\ HandlerOK(g)
    BY <1>1, <1>2, <1>13 DEF HandlersOK
  <2>2. User(g) # User(h)
    BY <1>13, Kinds
  <2>3. ASSUME NEW l \in Outs
        PROVE  /\ OneAt(l, g) => OneAt(l, g)'
               /\ CalledAt(l, g) => CalledAt(l, g)'
               /\ WaitsAt(l, g) => WaitsAt(l, g)'
    <3>1. \/ Begun(l)' = Begun(l)
          \/ Begun(l)' = Begun(l) + 1 /\ lists[l].items[Begun(l) + 1] # User(g)
      BY <1>8, <2>2
    <3> QED  BY <1>2, <1>3, <1>6, <1>7, <1>9, <1>12, <2>1, <3>1, SameHandlers
  <2> QED  BY <2>1, <2>3, HandlerStep
<1>14. HandlerOK(h)'
  <2>1. HandlerOK(h) /\ DOMAIN seen = Handlers
    BY <1>1 DEF HandlersOK
  <2>2. seen'[h] = <<lists[m].memory>> /\ seen'[h] # <<>>
    BY <1>1, <2>1
  <2>3. \A l \in Outs : Places(l, h)' = Places(l, h)
    BY <1>9 DEF Places, Same
  <2>4. \A l \in Outs : OneAt(l, h)' /\ WaitsAt(l, h)'
    BY <1>1, <1>12, <2>1, <2>2, <2>3 DEF HandlerOK, OneAt, WaitsAt
  <2>5. CalledAt(m, h)'
    <3>1. OneAt(m, h) /\ m \in Lists
      BY <1>1, <1>7, <2>1 DEF HandlerOK
    <3>2. ~Adding(m, h)'
      BY <1>1, <1>12, <3>1 DEF OneAt
    <3>3. \A i \in Places(m, h) : i = lists[m].index + 1
      BY <1>1, <3>1 DEF OneAt
    <3>4. Begun(m)' = lists[m].index + 1 /\ lists[m].index \in Nat
      BY <1>3, <1>6, <3>1 DEF Begun, ListOK
    <3>5. \A i \in Places(m, h)' : i <= Begun(m)'
      BY <1>1, <2>3, <3>3, <3>4
    <3>6. Asked(m, h)' /\ state'[m[1]] = Outcome(m[2])
      BY <1>1, <1>2 DEF Asked, Settled
    <3>7. lists'[m].memory = lists[m].memory
      BY <1>1, <1>9 DEF Same
    <3>8. seen'[h] = <<lists'[m].memory>>
      BY <2>2, <3>7
    <3> QED  BY <3>2, <3>5, <3>6, <3>8 DEF CalledAt
  <2> QED  BY <1>1, <1>2, <2>1, <2>4, <2>5 DEF HandlerOK
<1>15. HandlersOK'
  <2>1. DOMAIN seen' = Handlers
    BY <1>1 DEF HandlersOK
  <2> QED  BY <1>2, <1>13, <1>14, <2>1 DEF HandlersOK
<1> QED  BY <1>6, <1>11, <1>15 DEF Inv
-----------------------------------------------------------------------------
(* fire() calls a closure that returns at once: the stack stays.             *)

LEMMA StackKept ==
  ASSUME Inv, calls' = calls, wants' = wants,
         \A l \in Lists : OnStack(l) => lists'[l].firing /\ (l \in Outs => lists'[l].memory = lists[l].memory)
  PROVE  /\ StackOK' /\ Grows
         /\ \A l : (Top(l)' <=> Top(l)) /\ (OnStack(l)' <=> OnStack(l))
         /\ \A l, h : (Adding(l, h)' <=> Adding(l, h)) /\ (OneAdding(l, h)' <=> OneAdding(l, h))
<1> USE InvFacts
<1>1. Grows
  BY Unchanged
<1>2. Restacked(0, 0)
  <2>1. Len(calls) \in Nat
    OBVIOUS
  <2> QED  BY <2>1 DEF Restacked
<1>3. StackOK'
  <2>1. \A p \in DOMAIN calls : p > 0 /\ calls[p].k = "fire" =>
           /\ lists'[calls[p].list].firing
           /\ calls[p].list \in Outs => lists'[calls[p].list].memory = lists[calls[p].list].memory
    <3> SUFFICES ASSUME NEW p \in DOMAIN calls, calls[p].k = "fire"
                 PROVE  /\ lists'[calls[p].list].firing
                        /\ calls[p].list \in Outs => lists'[calls[p].list].memory = lists[calls[p].list].memory
      OBVIOUS
    <3>1. calls[p].list \in Lists
      BY DEF Frames
    <3>2. OnStack(calls[p].list)
      BY DEF OnStack
    <3> QED  BY <3>1, <3>2
  <2> QED  BY <1>1, <1>2, <2>1, StackStep
<1>4. \A l : (Top(l)' <=> Top(l)) /\ (OnStack(l)' <=> OnStack(l))
  BY DEF Top, OnStack
<1>5. \A l, h : (Adding(l, h)' <=> Adding(l, h)) /\ (OneAdding(l, h)' <=> OneAdding(l, h))
  BY DEF Adding, OneAdding, AddsAt
<1> QED  BY <1>1, <1>3, <1>4, <1>5

LEMMA FiringHere ==
  ASSUME Inv
  PROVE  \A l \in Lists : OnStack(l) => lists[l].firing
BY DEF Inv, StackOK, OnStack, FiringOK

(* The first function of a list settles the deferred.                        *)
LEMMA CallSetStateStep ==
  ASSUME Inv, CallSetState
  PROVE  Inv'
<1> USE InvFacts
<1>0. PICK m \in Outs : m = Here
  BY CalledKinds DEF CallSetState, NextIs
<1>1. /\ Loop /\ AtCall(lists[Here]) /\ Here \in Outs /\ Settling(m, 0)
      /\ Called = SetState(m[1], Outcome(m[2]))
      /\ lists[m].index + 1 <= Len(lists[m].items) /\ Top(m) /\ OnStack(m)
      /\ Called = lists[m].items[lists[m].index + 1]
  BY <1>0, CallFacts, CalledKinds DEF CallSetState, NextIs
<1>2. /\ lists' = Advance(m, Paid) /\ calls' = calls
      /\ state' = [state EXCEPT ![m[1]] = Outcome(m[2])]
      /\ when' = when /\ wants' = wants /\ used' = used /\ seen' = seen
  BY <1>0, <1>1 DEF CallSetState, ghosts, bounds, SetState
<1>3. m \in Lists /\ m[1] \in Made /\ Other(m) \in Outs /\ Other(m) \in Lists /\ Other(m) # m
      /\ Other(m)[1] = m[1] /\ {DoneOf(m[1]), FailOf(m[1])} = {m, Other(m)}
      /\ Outcome(m[2]) \in {"resolved", "rejected"}
  <2>1. m \in Lists /\ m[1] \in Made /\ Other(m) \in Outs /\ Other(m) \in Lists /\ Other(m) # m
        /\ Other(m)[1] = m[1]
    BY ListNames
  <2>2. {DoneOf(m[1]), FailOf(m[1])} = {m, Other(m)}
    BY <2>1, ListNames
  <2> QED  BY <2>1, <2>2, ListNames
<1>4. /\ DOMAIN Paid = Lists
      /\ \A l \in Lists : ListOK(Paid[l], l) /\ Same(lists[l], Paid[l]) /\ Paid[l].index = lists[l].index
  BY <1>0, <1>3, PaidLists
<1>5. /\ DOMAIN lists' = Lists
      /\ \A l \in Lists : /\ ListOK(lists'[l], l) /\ Same(lists[l], lists'[l])
                          /\ lists'[l].index = IF l = m THEN lists[l].index + 1 ELSE lists[l].index
  BY <1>2, <1>3, <1>4, AdvancedLists DEF Same
<1>6. /\ StackOK' /\ Grows
      /\ \A l : (Top(l)' <=> Top(l)) /\ (OnStack(l)' <=> OnStack(l))
      /\ \A l, h : (Adding(l, h)' <=> Adding(l, h)) /\ (OneAdding(l, h)' <=> OneAdding(l, h))
  BY <1>2, <1>5, FiringHere, StackKept DEF Same
<1>7. /\ state' \in [Made -> {"pending", "resolved", "rejected"}]
      /\ state'[m[1]] = Outcome(m[2]) /\ \A d \in Made : d # m[1] => state'[d] = state[d]
  BY <1>2, <1>3 DEF ListsOK
<1>8. \A l \in Lists : lists[l].index \in Nat /\ lists'[l].index \in Nat
  BY <1>5 DEF ListOK
<1>9. \A l \in Outs : Same(lists[l], lists'[l]) /\ lists'[l].index >= lists[l].index
  <2> SUFFICES ASSUME NEW l \in Outs
               PROVE  lists'[l].index >= lists[l].index
    BY <1>5, ListNames
  <2>1. l \in Lists
    BY ListNames
  <2>2. lists'[l].index = lists[l].index + 1 \/ lists'[l].index = lists[l].index
    BY <1>5, <2>1
  <2> QED  BY <1>8, <2>1, <2>2
<1>10. ASSUME NEW l \in Outs
       PROVE  \/ Begun(l)' = Begun(l)
              \/ /\ l = m /\ Begun(l)' = Begun(l) + 1 /\ Begun(l) + 1 <= Len(lists[l].items)
                 /\ lists[l].items[Begun(l) + 1].k # "user"
  <2>1. l \in Lists
    BY ListNames
  <2>2. CASE l = m
    <3>1. Begun(l) = lists[l].index /\ Begun(l)' = lists[l].index + 1
      BY <1>1, <1>5, <1>6, <1>8, <2>1, <2>2 DEF Begun
    <3>2. Called.k # "user"
      BY <1>1 DEF SetState
    <3> QED  BY <1>1, <2>2, <3>1, <3>2
  <2>3. CASE l # m
    BY <1>5, <1>6, <2>1, <2>3 DEF Begun
  <2> QED  BY <2>2, <2>3
<1>11. ASSUME NEW d \in Made
       PROVE  DeferredOK(d)' \/ (Rest(d) /\ state'[d] = state[d])
  <2>1. CASE d = m[1]
    <3>1. Settling(m, 1)'
      <4>1. First(lists[m], m)' /\ Fresh(lists[Other(m)], Other(m))'
        <5>1. First(lists[m], m) /\ Fresh(lists[Other(m)], Other(m))
          BY <1>1 DEF Settling
        <5>2. Same(lists[m], lists'[m]) /\ Same(lists[Other(m)], lists'[Other(m)])
          BY <1>3, <1>9
        <5>3. \A l : Adds(l) \subseteq Adds(l)'
          BY <1>6, AddsGrow
        <5> QED  BY <5>1, <5>2, <5>3 DEF First, Fresh, Added3, Same
      <4>2. lists'[m].index = 1
        BY <1>1, <1>3, <1>5 DEF Settling
      <4>3. Top(m)'
        BY <1>1, <1>6
      <4> QED  BY <1>7, <4>1, <4>2, <4>3 DEF Settling
    <3>2. m \in {DoneOf(d), FailOf(d)}
      BY <1>3, <2>1
    <3> QED  BY <3>1, <3>2 DEF DeferredOK
  <2>2. CASE d # m[1]
    BY <1>0, <1>1, <1>7, <2>2, RestAround
  <2> QED  BY <2>1, <2>2
<1>12. ListsOK'
  <2>1. \A l \in Lists \ Outs : ProgressListOK(lists[l], l)'
    BY <1>5, <1>6, ProgressKept
  <2>2. /\ when' \in [args : Values, remaining : Int, values : Values, progress : Values]
        /\ used' \in 0..MaxCalls
    BY <1>2
  <2>3. /\ \A l \in Outs : OnStack(l)' => OnStack(l)
        /\ \A l \in Outs : OnStack(l) =>
              \/ Begun(l)' = Begun(l)
              \/ Begun(l)' = Begun(l) + 1 /\ Begun(l) + 1 <= Len(lists[l].items)
    BY <1>6, <1>10
  <2> QED  BY <1>5, <1>6, <1>7, <1>9, <1>11, <2>1, <2>2, <2>3, SameLists
<1>13. HandlersOK'
  <2>1. ASSUME NEW l \in Outs, NEW h \in Handlers
        PROVE  /\ OneAt(l, h) => OneAt(l, h)'
               /\ CalledAt(l, h) => CalledAt(l, h)'
               /\ WaitsAt(l, h) => WaitsAt(l, h)'
    <3>1. state[l[1]] # "pending" => state'[l[1]] = state[l[1]]
      <4>1. state[m[1]] = "pending" /\ l[1] \in Made
        BY <1>1, ListNames DEF Settling
      <4> QED  BY <1>7, <4>1
    <3>2. Stuck => Stuck'
      BY <1>5, <1>6, StuckStays DEF Same
    <3>3. \/ Begun(l)' = Begun(l)
          \/ Begun(l)' = Begun(l) + 1 /\ lists[l].items[Begun(l) + 1] # User(h)
      BY <1>10, Kinds
    <3>4. l \in Lists /\ (OnStack(l)' => OnStack(l))
      BY <1>6, ListNames
    <3> QED  BY <1>2, <1>5, <1>6, <1>9, <3>1, <3>2, <3>3, <3>4, SameHandlers
  <2> QED  BY <1>2, <2>1, HandlersStep
<1> QED  BY <1>6, <1>12, <1>13 DEF Inv
(* The second disables the list of the other outcome.                        *)
LEMMA CallDisableStep ==
  ASSUME Inv, CallDisableOrLock, Called.k = "disable"
  PROVE  Inv'
<1> USE InvFacts
<1>0. Loop /\ AtCall(lists[Here])
  BY DEF CallDisableOrLock, NextIs
<1>1. PICK m \in Outs : m = Here
  BY <1>0, CalledKinds
<1>2. /\ Settling(m, 1) /\ Called = Disable(Other(m))
      /\ lists[m].index + 1 <= Len(lists[m].items) /\ Top(m) /\ OnStack(m)
      /\ Called = lists[m].items[lists[m].index + 1]
  BY <1>0, <1>1, CallFacts, CalledKinds
<1> DEFINE o == Other(m)
<1>3. m \in Lists /\ m[1] \in Made /\ o \in Outs /\ o \in Lists /\ o # m
      /\ o[1] = m[1] /\ {DoneOf(m[1]), FailOf(m[1])} = {m, o}
      /\ \A l \in Outs : l[1] = m[1] => l = m \/ l = o
  <2>1. m \in Lists /\ m[1] \in Made /\ o \in Outs /\ o \in Lists /\ o # m /\ o[1] = m[1]
    BY ListNames
  <2>2. {DoneOf(m[1]), FailOf(m[1])} = {m, o}
    BY <2>1, ListNames
  <2> QED  BY <2>1, <2>2, ListNames
<1> DEFINE adv == Advance(m, Paid)
           c == Disabled(lists[o])
<1>4. /\ lists' = [adv EXCEPT ![o] = c] /\ calls' = calls
      /\ state' = state /\ when' = when /\ wants' = wants /\ used' = used /\ seen' = seen
  <2>1. Called.list = o /\ Called.k # "lock"
    BY <1>2 DEF Disable
  <2> QED  BY <1>1, <2>1 DEF CallDisableOrLock, ghosts, bounds
<1>5. /\ DOMAIN Paid = Lists
      /\ \A l \in Lists : ListOK(Paid[l], l) /\ Same(lists[l], Paid[l]) /\ Paid[l].index = lists[l].index
  BY <1>1, <1>3, PaidLists
<1>6. /\ DOMAIN adv = Lists
      /\ \A l \in Lists : /\ ListOK(adv[l], l) /\ Same(lists[l], adv[l])
                          /\ adv[l].index = IF l = m THEN lists[l].index + 1 ELSE lists[l].index
  BY <1>3, <1>5, AdvancedLists DEF Same
<1> HIDE DEF adv
<1>7. Fresh(lists[o], o) /\ First(lists[m], m) /\ lists[m].index = 1 /\ state[m[1]] = Outcome(m[2])
  BY <1>2 DEF Settling
<1>8. ListOK(c, o) /\ Gone(c)
  BY <1>3, <1>7, DisabledList DEF Gone, Fresh
<1> HIDE DEF c
<1>9. /\ DOMAIN lists' = Lists
      /\ \A l \in Lists : ListOK(lists'[l], l)
      /\ lists'[o] = c
      /\ \A l \in Lists : l # o => /\ Same(lists[l], lists'[l])
                                   /\ lists'[l].index = IF l = m THEN lists[l].index + 1 ELSE lists[l].index
  BY <1>3, <1>4, <1>6, <1>8
<1> HIDE DEF o
<1>10. ~lists[o].firing /\ ~OnStack(o)
  BY <1>3, <1>7, FiringHere DEF Fresh
<1>11. /\ StackOK' /\ Grows
       /\ \A l : (Top(l)' <=> Top(l)) /\ (OnStack(l)' <=> OnStack(l))
       /\ \A l, h : (Adding(l, h)' <=> Adding(l, h)) /\ (OneAdding(l, h)' <=> OneAdding(l, h))
  <2>1. \A l \in Lists : OnStack(l) => lists'[l].firing /\ (l \in Outs => lists'[l].memory = lists[l].memory)
    BY <1>9, <1>10, FiringHere DEF Same
  <2> QED  BY <1>4, <2>1, StackKept
<1>12. \A l \in Lists : lists[l].index \in Nat /\ lists'[l].index \in Nat
  BY <1>9 DEF ListOK
<1>13. \A l \in Outs : l # o => Same(lists[l], lists'[l]) /\ lists'[l].index >= lists[l].index
  <2> SUFFICES ASSUME NEW l \in Outs, l # o
               PROVE  Same(lists[l], lists'[l]) /\ lists'[l].index >= lists[l].index
    OBVIOUS
  <2>1. l \in Lists
    BY ListNames
  <2>2. lists'[l].index = lists[l].index + 1 \/ lists'[l].index = lists[l].index
    BY <1>9, <2>1
  <2> QED  BY <1>9, <1>12, <2>1, <2>2
<1>14. ASSUME NEW l \in Outs, l # o
       PROVE  \/ Begun(l)' = Begun(l)
              \/ /\ l = m /\ Begun(l)' = Begun(l) + 1 /\ Begun(l) + 1 <= Len(lists[l].items)
                 /\ lists[l].items[Begun(l) + 1].k # "user"
  <2>1. l \in Lists
    BY ListNames
  <2>2. CASE l = m
    <3>1. Begun(l) = lists[l].index /\ Begun(l)' = lists[l].index + 1
      BY <1>2, <1>9, <1>11, <1>12, <1>14, <2>1, <2>2 DEF Begun
    <3>2. Called.k # "user"
      BY <1>2 DEF Disable
    <3> QED  BY <1>2, <2>2, <3>1, <3>2
  <2>3. CASE l # m
    BY <1>9, <1>11, <1>14, <2>1, <2>3 DEF Begun
  <2> QED  BY <2>2, <2>3
<1>15. Settled(m)'
  <2>1. First(lists[m], m)'
    <3>1. Same(lists[m], lists'[m])
      BY <1>3, <1>9
    <3>2. Adds(m) \subseteq Adds(m)'
      BY <1>11, AddsGrow
    <3> QED  BY <1>7, <3>1, <3>2 DEF First, Added3, Same
  <2>2. lists'[m].index = 2
    BY <1>3, <1>7, <1>9
  <2>3. Gone(lists[Other(m)])'
    BY <1>8, <1>9 DEF o
  <2>4. state'[m[1]] = Outcome(m[2])
    BY <1>4, <1>7
  <2> QED  BY <2>1, <2>2, <2>3, <2>4 DEF Settled
<1>16. ASSUME NEW d \in Made
       PROVE  \/ DeferredOK(d)'
              \/ /\ Rest(d) /\ state'[d] = state[d]
                 /\ \A l \in {DoneOf(d), FailOf(d)} : /\ Same(lists[l], lists'[l])
                                                      /\ lists'[l].index >= lists[l].index
  <2>1. CASE d = m[1]
    <3>1. m \in {DoneOf(d), FailOf(d)}
      BY <1>3, <2>1
    <3> QED  BY <1>15, <3>1 DEF DeferredOK
  <2>2. CASE d # m[1]
    <3>1. Rest(d)
      BY <1>0, <1>1, <2>2, RestAround
    <3>2. DoneOf(d) # o /\ FailOf(d) # o /\ DoneOf(d) \in Outs /\ FailOf(d) \in Outs
      <4>1. DoneOf(d)[1] = d /\ FailOf(d)[1] = d
        BY DEF DoneOf, FailOf
      <4> QED  BY <1>3, <2>2, <4>1, ListNames
    <3> QED  BY <1>4, <1>13, <3>1, <3>2
  <2> QED  BY <2>1, <2>2
<1>17. ListsOK'
  <2>1. \A l \in Lists \ Outs : ProgressListOK(lists[l], l)'
    BY <1>3, <1>9, <1>11, ProgressKept
  <2>2. /\ when' \in [args : Values, remaining : Int, values : Values, progress : Values]
        /\ used' \in 0..MaxCalls
        /\ state' \in [Made -> {"pending", "resolved", "rejected"}]
    BY <1>4 DEF ListsOK
  <2>3. \A l \in Outs :
           \/ BegunOK(l)'
           \/ /\ Same(lists[l], lists'[l]) /\ (OnStack(l)' => OnStack(l))
              /\ OnStack(l) => \/ Begun(l)' = Begun(l)
                               \/ Begun(l)' = Begun(l) + 1 /\ Begun(l) + 1 <= Len(lists[l].items)
    <3> SUFFICES ASSUME NEW l \in Outs
                 PROVE  \/ BegunOK(l)'
                        \/ /\ Same(lists[l], lists'[l]) /\ (OnStack(l)' => OnStack(l))
                           /\ OnStack(l) => \/ Begun(l)' = Begun(l)
                                            \/ Begun(l)' = Begun(l) + 1 /\ Begun(l) + 1 <= Len(lists[l].items)
      OBVIOUS
    <3>1. CASE l = o
      BY <1>10, <1>11, <3>1 DEF BegunOK
    <3>2. CASE l # o
      BY <1>11, <1>13, <1>14, <3>2
    <3> QED  BY <3>1, <3>2
  <2> QED  BY <1>9, <1>11, <1>16, <2>1, <2>2, <2>3, ListsStep
<1>18. HandlersOK'
  <2>1. ASSUME NEW l \in Outs, NEW h \in Handlers
        PROVE  /\ OneAt(l, h) => OneAt(l, h)'
               /\ CalledAt(l, h) => CalledAt(l, h)'
               /\ WaitsAt(l, h) => WaitsAt(l, h)'
    <3>1. Stuck => Stuck'
      BY <1>9, <1>10, <1>11, StuckStays DEF Same
    <3>2. CASE l # o
      <4>1. \/ Begun(l)' = Begun(l)
            \/ Begun(l)' = Begun(l) + 1 /\ lists[l].items[Begun(l) + 1] # User(h)
        BY <1>14, <3>2, Kinds
      <4>2. l \in Lists /\ (OnStack(l)' => OnStack(l))
        BY <1>11, ListNames
      <4> QED  BY <1>4, <1>9, <1>11, <1>13, <3>1, <3>2, <4>1, <4>2, SameHandlers
    <3>3. CASE l = o
      <4>1. lists'[o].gone /\ lists'[o].items = <<>>
        BY <1>8, <1>9 DEF Gone
      <4>2. Places(l, h)' = {}
        BY <3>3, <4>1 DEF Places
      <4>3. ~CalledAt(l, h)
        <5>1. Outcome(m[2]) # Outcome(o[2])
          BY ListNames DEF o
        <5> QED  BY <1>3, <1>7, <3>3, <5>1 DEF CalledAt
      <4> QED  BY <1>11, <3>3, <4>1, <4>2, <4>3 DEF OneAt, WaitsAt
    <3> QED  BY <3>2, <3>3
  <2> QED  BY <1>4, <2>1, HandlersStep
<1> QED  BY <1>11, <1>17, <1>18 DEF Inv

(* The third locks the list of progress.                                     *)
LEMMA CallLockStep ==
  ASSUME Inv, CallDisableOrLock, Called.k # "disable"
  PROVE  Inv'
<1> USE InvFacts
<1>0. Loop /\ AtCall(lists[Here]) /\ Called.k = "lock"
  BY DEF CallDisableOrLock, NextIs
<1>1. PICK m \in Outs : m = Here
  BY <1>0, CalledKinds
<1>2. /\ Settled(m) /\ Called = Lock(ProgressOf(m[1]))
      /\ lists[m].index + 1 <= Len(lists[m].items) /\ Top(m) /\ OnStack(m)
      /\ Called = lists[m].items[lists[m].index + 1]
  BY <1>0, <1>1, CallFacts, CalledKinds
<1> DEFINE o == ProgressOf(m[1])
<1>3. m \in Lists /\ o \in Lists /\ o \notin Outs
  BY ListNames
<1> DEFINE adv == Advance(m, Paid)
           c == Locked(lists[o])
<1>4. /\ lists' = [adv EXCEPT ![o] = c] /\ calls' = calls
      /\ state' = state /\ when' = when /\ wants' = wants /\ used' = used /\ seen' = seen
  <2>1. Called.list = o
    BY <1>2 DEF Lock
  <2> QED  BY <1>0, <1>1, <2>1 DEF CallDisableOrLock, ghosts, bounds
<1>5. /\ DOMAIN Paid = Lists
      /\ \A l \in Lists : ListOK(Paid[l], l) /\ Same(lists[l], Paid[l]) /\ Paid[l].index = lists[l].index
  BY <1>1, <1>3, PaidLists
<1>6. /\ DOMAIN adv = Lists
      /\ \A l \in Lists : /\ ListOK(adv[l], l) /\ Same(lists[l], adv[l])
                          /\ adv[l].index = IF l = m THEN lists[l].index + 1 ELSE lists[l].index
  BY <1>3, <1>5, AdvancedLists DEF Same
<1> HIDE DEF adv
<1>7. ListOK(c, o) /\ (c.items = lists[o].items \/ c.items = <<>>) /\ c.firing = lists[o].firing
  BY <1>3, LockedList
<1> HIDE DEF c, o
<1>8. /\ DOMAIN lists' = Lists
      /\ \A l \in Lists : ListOK(lists'[l], l)
      /\ lists'[o] = c
      /\ \A l \in Lists : l # o => /\ Same(lists[l], lists'[l])
                                   /\ lists'[l].index = IF l = m THEN lists[l].index + 1 ELSE lists[l].index
  BY <1>3, <1>4, <1>6, <1>7
<1>9. /\ StackOK' /\ Grows
      /\ \A l : (Top(l)' <=> Top(l)) /\ (OnStack(l)' <=> OnStack(l))
      /\ \A l, h : (Adding(l, h)' <=> Adding(l, h)) /\ (OneAdding(l, h)' <=> OneAdding(l, h))
  <2>1. \A l \in Lists : OnStack(l) => lists'[l].firing /\ (l \in Outs => lists'[l].memory = lists[l].memory)
    BY <1>3, <1>7, <1>8, FiringHere DEF Same
  <2> QED  BY <1>4, <2>1, StackKept
<1>10. \A l \in Lists : lists[l].index \in Nat /\ lists'[l].index \in Nat
  BY <1>8 DEF ListOK
<1>11. \A l \in Outs : Same(lists[l], lists'[l]) /\ lists'[l].index >= lists[l].index
  <2> SUFFICES ASSUME NEW l \in Outs
               PROVE  Same(lists[l], lists'[l]) /\ lists'[l].index >= lists[l].index
    OBVIOUS
  <2>1. l \in Lists /\ l # o
    BY <1>3, ListNames
  <2>2. lists'[l].index = lists[l].index + 1 \/ lists'[l].index = lists[l].index
    BY <1>8, <2>1
  <2> QED  BY <1>8, <1>10, <2>1, <2>2
<1>12. ASSUME NEW l \in Outs
       PROVE  \/ Begun(l)' = Begun(l)
              \/ /\ Begun(l)' = Begun(l) + 1 /\ Begun(l) + 1 <= Len(lists[l].items)
                 /\ lists[l].items[Begun(l) + 1].k # "user"
  <2>1. l \in Lists /\ l # o
    BY <1>3, ListNames
  <2>2. CASE l = m
    <3>1. Begun(l) = lists[l].index /\ Begun(l)' = lists[l].index + 1
      BY <1>2, <1>8, <1>9, <1>10, <2>1, <2>2 DEF Begun
    <3>2. Called.k # "user"
      BY <1>2 DEF Lock
    <3> QED  BY <1>2, <2>2, <3>1, <3>2
  <2>3. CASE l # m
    BY <1>8, <1>9, <2>1, <2>3 DEF Begun
  <2> QED  BY <2>2, <2>3
<1>13. \A d \in Made : Rest(d)
  BY <1>0, <1>1, <1>2, CalledAtRest
<1>14. ListsOK'
  <2>1. \A l \in Lists \ Outs : ProgressListOK(lists[l], l)'
    <3> SUFFICES ASSUME NEW l \in Lists \ Outs
                 PROVE  ProgressListOK(lists[l], l)'
      OBVIOUS
    <3>1. lists'[l].items = lists[l].items \/ lists'[l].items = <<>>
      BY <1>7, <1>8 DEF Same
    <3>2. ProgressListOK(lists[l], l) /\ Adds(l) \subseteq Adds(l)'
      BY <1>9, AddsGrow DEF ListsOK
    <3> QED  BY <3>1, <3>2 DEF ProgressListOK
  <2>2. /\ when' \in [args : Values, remaining : Int, values : Values, progress : Values]
        /\ used' \in 0..MaxCalls
        /\ state' \in [Made -> {"pending", "resolved", "rejected"}]
    BY <1>4 DEF ListsOK
  <2>3. /\ \A l \in Outs : OnStack(l)' => OnStack(l)
        /\ \A l \in Outs : OnStack(l) =>
              \/ Begun(l)' = Begun(l)
              \/ Begun(l)' = Begun(l) + 1 /\ Begun(l) + 1 <= Len(lists[l].items)
    BY <1>9, <1>12
  <2> QED  BY <1>4, <1>8, <1>9, <1>11, <1>13, <2>1, <2>2, <2>3, SameLists
<1>15. HandlersOK'
  <2>1. ASSUME NEW l \in Outs, NEW h \in Handlers
        PROVE  /\ OneAt(l, h) => OneAt(l, h)'
               /\ CalledAt(l, h) => CalledAt(l, h)'
               /\ WaitsAt(l, h) => WaitsAt(l, h)'
    <3>1. Stuck => Stuck'
      BY <1>7, <1>8, <1>9, StuckStays DEF Same
    <3>2. \/ Begun(l)' = Begun(l)
          \/ Begun(l)' = Begun(l) + 1 /\ lists[l].items[Begun(l) + 1] # User(h)
      BY <1>12, Kinds
    <3>3. l \in Lists /\ (OnStack(l)' => OnStack(l))
      BY <1>9, ListNames
    <3> QED  BY <1>4, <1>8, <1>9, <1>11, <3>1, <3>2, <3>3, SameHandlers
  <2> QED  BY <1>4, <2>1, HandlersStep
<1> QED  BY <1>9, <1>14, <1>15 DEF Inv
-----------------------------------------------------------------------------
(* The loop of fire() is over, or an exception leaves it.                    *)

(* A firing whose loop runs.                                                 *)
LEMMA LoopFacts ==
  ASSUME Inv, Loop
  PROVE  /\ calls # <<>> /\ Head(calls).k = "fire" /\ Here \in Lists /\ Top(Here) /\ OnStack(Here)
         /\ \A l : Top(l) => l = Here
         /\ lists[Here].firing /\ Now \in DataOf(Here)
         /\ Len(calls) \in Nat \ {0} /\ DOMAIN calls = 1..Len(calls) /\ calls[1] = Head(calls)
         /\ 2 \in DOMAIN calls /\ calls[2].k = "method"
         /\ Tail(calls) # <<>> /\ Head(Tail(calls)) = calls[2]
         /\ Here \in Outs => Settling(Here, 0) \/ Settling(Here, 1) \/ Settled(Here)
<1> USE InvFacts
<1>1. calls # <<>> /\ Head(calls).k = "fire"
  BY DEF Loop, In
<1>2. /\ Here \in Lists /\ Top(Here) /\ OnStack(Here) /\ \A l : Top(l) => l = Here
      /\ Now \in DataOf(Here) /\ FiringOK(Head(calls)) /\ NestedAt(1)
      /\ Len(calls) \in Nat \ {0} /\ DOMAIN calls = 1..Len(calls) /\ calls[1] = Head(calls)
  BY <1>1, TopFacts DEF Here, Now
<1>3. lists[Here].firing
  BY <1>1, <1>2 DEF FiringOK, Here
<1>4. 2 \in DOMAIN calls /\ calls[2].k = "method"
  BY <1>1, <1>2 DEF NestedAt
<1>5. Tail(calls) # <<>> /\ Head(Tail(calls)) = calls[2]
  <2>1. /\ Len(Tail(calls)) = Len(calls) - 1 /\ Tail(calls) \in Seq(Frames)
        /\ \A p \in 1..(Len(calls) - 1) : Tail(calls)[p] = calls[p + 1]
    BY <1>1, Popped
  <2>2. 1 \in 1..(Len(calls) - 1)
    BY <1>2, <1>4
  <2> DEFINE t == Tail(calls)
  <2> HIDE DEF t
  <2>3. t \in Seq(Frames) /\ Len(t) >= 1 /\ t[1] = calls[1 + 1]
    BY <1>2, <2>1, <2>2 DEF t
  <2>4. t # <<>> /\ Head(t) = t[1]
    BY <2>3
  <2> QED  BY <2>3, <2>4 DEF t
<1>6. Here \in Outs => Settling(Here, 0) \/ Settling(Here, 1) \/ Settled(Here)
  BY <1>2, <1>3, SettlesOnTop
<1> QED  BY <1>1, <1>2, <1>3, <1>4, <1>5, <1>6

(* fire() returns, with its list as c.                                       *)
LEMMA LeaveStack ==
  ASSUME Inv, Loop, NEW m \in Lists, m = Here, NEW c, ListOK(c, m), ~c.firing,
         lists' = [lists EXCEPT ![m] = c], calls' = Tail(calls), wants' = wants
  PROVE  /\ StackOK' /\ Grows
         /\ DOMAIN lists' = Lists /\ \A l \in Lists : ListOK(lists'[l], l)
         /\ lists'[m] = c /\ \A l \in Lists : l # m => lists'[l] = lists[l]
         /\ \A l : ~Top(l)'
         /\ ~OnStack(m)' /\ \A l : l # m => (OnStack(l)' <=> OnStack(l))
         /\ \A l, h : (Adding(l, h)' <=> Adding(l, h)) /\ (OneAdding(l, h) => OneAdding(l, h)')
         /\ Stuck => Stuck'
<1> USE InvFacts
<1>1. /\ calls # <<>> /\ Head(calls).k = "fire" /\ Head(calls).list = m /\ Top(m) /\ OnStack(m)
      /\ \A l : Top(l) => l = m
      /\ Len(calls) \in Nat \ {0} /\ DOMAIN calls = 1..Len(calls) /\ calls[1] = Head(calls)
      /\ 2 \in DOMAIN calls /\ calls[2].k = "method"
      /\ Tail(calls) # <<>> /\ Head(Tail(calls)) = calls[2]
  BY LoopFacts DEF Here
<1>2. /\ calls' \in Seq(Frames) /\ Len(calls') = Len(calls) - 1 /\ DOMAIN calls' = 1..Len(calls')
      /\ \A p \in DOMAIN calls' : calls'[p] = calls[p + 1]
  BY <1>1, Popped
<1>3. Restacked(0, 1) /\ Grows
  BY <1>1, <1>2, Unchanged DEF Restacked
<1>4. /\ DOMAIN lists' = Lists /\ \A l \in Lists : ListOK(lists'[l], l)
      /\ lists'[m] = c /\ \A l \in Lists : l # m => lists'[l] = lists[l]
  BY ChangedList
<1>5. \A l : ~Top(l)'
  BY <1>1 DEF Top
<1>6. \A p \in DOMAIN calls : p > 1 /\ calls[p].k = "fire" => calls[p].list # m
  BY <1>1 DEF StackOK, OneFiring
<1>7. ~OnStack(m)'
  <2> SUFFICES ASSUME NEW p \in DOMAIN calls', calls'[p].k = "fire", calls'[p].list = m
               PROVE  FALSE
    BY DEF OnStack
  <2>1. p + 1 \in DOMAIN calls /\ p + 1 > 1 /\ calls'[p] = calls[p + 1]
    BY <1>1, <1>2
  <2> QED  BY <1>6, <2>1
<1>8. \A l : l # m => (OnStack(l)' <=> OnStack(l))
  BY <1>1, <1>3, OnStackStays
<1>9. StackOK'
  <2>1. \A p \in DOMAIN calls : p > 1 /\ calls[p].k = "fire" =>
           /\ lists'[calls[p].list].firing
           /\ calls[p].list \in Outs => lists'[calls[p].list].memory = lists[calls[p].list].memory
    <3> SUFFICES ASSUME NEW p \in DOMAIN calls, p > 1, calls[p].k = "fire"
                 PROVE  lists'[calls[p].list].firing /\ lists'[calls[p].list].memory = lists[calls[p].list].memory
      OBVIOUS
    <3>1. calls[p] \in Frames /\ FiringOK(calls[p])
      BY DEF StackOK
    <3>2. calls[p].list \in Lists
      BY <3>1 DEF Frames
    <3> QED  BY <1>4, <1>6, <3>1, <3>2 DEF FiringOK
  <2> QED  BY <1>3, <2>1, StackStep
<1>10. \A l, h : (Adding(l, h)' <=> Adding(l, h)) /\ (OneAdding(l, h) => OneAdding(l, h)')
  <2> SUFFICES ASSUME NEW l, NEW h
               PROVE  (Adding(l, h)' <=> Adding(l, h)) /\ (OneAdding(l, h) => OneAdding(l, h)')
    OBVIOUS
  <2>1. \A j : ~AddsAt(1, j, l, h)
    BY <1>1 DEF AddsAt
  <2> QED  BY <1>3, <2>1, AddingShift
<1>11. Stuck => Stuck'
  <2>1. \A l \in Lists : lists[l].firing /\ ~OnStack(l) => lists'[l].firing /\ ~OnStack(l)'
    BY <1>1, <1>4, <1>8
  <2> QED  BY <2>1, StuckStays
<1> QED  BY <1>3, <1>4, <1>5, <1>7, <1>8, <1>9, <1>10, <1>11

(* The lists that are not m stay, and the deferreds at rest.                 *)
LEMMA OthersStay ==
  ASSUME Inv, NEW m \in Lists, DOMAIN lists' = Lists,
         \A l \in Lists : l # m => lists'[l] = lists[l],
         \A l \in Outs : l # m => Top(l)' = Top(l) /\ (OnStack(l)' <=> OnStack(l)),
         \A l \in Lists : ListOK(lists'[l], l), Grows,
         state' = state, when' = when, used' = used,
         m \in Outs => DeferredOK(m[1])' /\ BegunOK(m)',
         m \notin Outs => ProgressListOK(lists[m], m)',
         \A d \in Made : Rest(d) \/ (m \in Outs /\ d = m[1])
  PROVE  ListsOK'
<1> USE InvFacts
<1>1. \A l \in Outs : l # m => Begun(l)' = Begun(l) /\ lists'[l] = lists[l]
  BY ListNames DEF Begun
<1>2. \A l \in Lists \ Outs : ProgressListOK(lists[l], l)'
  <2> SUFFICES ASSUME NEW l \in Lists \ Outs, l # m
               PROVE  ProgressListOK(lists[l], l)'
    OBVIOUS
  <2>1. ProgressListOK(lists[l], l) /\ Adds(l) \subseteq Adds(l)'
    BY AddsGrow DEF ListsOK
  <2> QED  BY <2>1 DEF ProgressListOK
<1>3. ASSUME NEW d \in Made
      PROVE  \/ DeferredOK(d)'
             \/ /\ Rest(d) /\ state'[d] = state[d]
                /\ \A l \in {DoneOf(d), FailOf(d)} : /\ Same(lists[l], lists'[l])
                                                     /\ lists'[l].index >= lists[l].index
  <2>1. CASE m \in Outs /\ d = m[1]
    BY <2>1
  <2>2. CASE ~(m \in Outs /\ d = m[1])
    <3>1. \A l \in {DoneOf(d), FailOf(d)} : l \in Outs /\ l \in Lists /\ l[1] = d
      <4>1. DoneOf(d) \in Outs /\ FailOf(d) \in Outs
        BY ListNames
      <4>2. DoneOf(d)[1] = d /\ FailOf(d)[1] = d
        BY DEF DoneOf, FailOf
      <4> QED  BY <4>1, <4>2, ListNames
    <3>2. \A l \in {DoneOf(d), FailOf(d)} : lists'[l] = lists[l]
      BY <2>2, <3>1
    <3>3. \A l \in {DoneOf(d), FailOf(d)} : lists[l].index \in Nat
      BY <3>1 DEF ListOK
    <3>4. \A l \in {DoneOf(d), FailOf(d)} : Same(lists[l], lists'[l]) /\ lists'[l].index >= lists[l].index
      BY <3>2, <3>3, SameItself
    <3>5. Rest(d)
      BY <2>2
    <3> QED  BY <3>4, <3>5
  <2> QED  BY <2>1, <2>2
<1>4. ASSUME NEW l \in Outs
      PROVE  \/ BegunOK(l)'
             \/ /\ Same(lists[l], lists'[l]) /\ (OnStack(l)' => OnStack(l))
                /\ OnStack(l) => \/ Begun(l)' = Begun(l)
                                 \/ Begun(l)' = Begun(l) + 1 /\ Begun(l) + 1 <= Len(lists[l].items)
  BY <1>1, SameItself
<1>5. /\ when' \in [args : Values, remaining : Int, values : Values, progress : Values]
      /\ used' \in 0..MaxCalls
      /\ state' \in [Made -> {"pending", "resolved", "rejected"}]
  BY DEF ListsOK
<1> QED  BY <1>2, <1>3, <1>4, <1>5, ListsStep
(* The loop of a list of outcomes ends: its handlers have all been called.   *)
LEMMA EndOfOutcome ==
  ASSUME Inv, EndOfLoop, NEW m \in Outs, m = Here
  PROVE  Inv'
<1> USE InvFacts
<1>1. /\ Loop /\ AtEnd(lists[m])
      /\ state' = state /\ when' = when /\ wants' = wants /\ used' = used /\ seen' = seen
  BY DEF EndOfLoop, ghosts, bounds
<1>2. /\ calls # <<>> /\ Top(m) /\ OnStack(m) /\ lists[m].firing
      /\ \A l : Top(l) => l = m
      /\ 2 \in DOMAIN calls /\ calls[2].k = "method" /\ Tail(calls) # <<>> /\ Head(Tail(calls)) = calls[2]
      /\ Settling(m, 0) \/ Settling(m, 1) \/ Settled(m)
  BY <1>1, LoopFacts
<1>3. /\ m \in Lists /\ m[1] \in Made /\ (m = DoneOf(m[1]) \/ m = FailOf(m[1]))
      /\ Other(m) \in Lists /\ Other(m) # m
  <2>1. Other(m) \in Outs /\ m \in Lists
    BY ListNames
  <2> QED  BY <2>1, ListNames
<1> DEFINE c == lists[m]
           n == Left(c)
<1>4. /\ ListOK(c, m) /\ c.index \in Nat /\ c.length \in Nat /\ c.items \in Seq(Functions \cup Closures)
      /\ Len(c.items) \in Nat /\ DOMAIN c.items = 1..Len(c.items)
  BY <1>3, SMTT(40) DEF ListOK
<1>5. Settled(m) /\ c.index >= Len(c.items) /\ ~c.gone /\ ~c.again /\ c.queue = <<>> /\ c.fired
      /\ c.memory # NoData /\ c.start = 0
  <2>1. ASSUME First(c, m)
        PROVE  /\ c.length = Len(c.items) /\ Len(c.items) >= 3 /\ ~c.gone /\ ~c.again /\ c.memory # NoData
               /\ c.queue = <<>> /\ c.fired /\ c.start = 0
    BY <2>1 DEF First, Added3
  <2>2. ASSUME Later(c, m)
        PROVE  /\ c.length = Len(c.items) /\ ~c.gone /\ ~c.again /\ c.memory # NoData
               /\ c.queue = <<>> /\ c.fired /\ c.start = 0
    BY <1>2, <2>2 DEF Later
  <2>3. First(c, m) \/ Later(c, m)
    BY <1>2 DEF Settling, Settled
  <2>4. c.index >= c.length /\ c.length = Len(c.items)
    BY <1>1, <1>4, <2>1, <2>2, <2>3 DEF AtEnd
  <2>5. ~Settling(m, 0) /\ ~Settling(m, 1)
    BY <2>1, <2>4 DEF Settling
  <2> QED  BY <1>2, <2>1, <2>2, <2>3, <2>4, <2>5
<1> HIDE DEF c
<1>6. /\ ListOK(n, m) /\ ~Refires(c) /\ ~n.firing
      /\ n.items = <<>> /\ n.gone = c.gone /\ n.again = c.again /\ n.queue = c.queue
      /\ n.memory = c.memory /\ n.fired = c.fired /\ n.start = c.start
  BY <1>3, <1>4, <1>5, LeftList
<1>7. lists' = [lists EXCEPT ![m] = n] /\ calls' = Tail(calls)
  <2>1. ~Refires(lists[Here])
    BY <1>6 DEF c
  <2>2. lists' = AfterReturn([lists EXCEPT ![m] = n]) /\ calls' = Tail(calls)
    BY <2>1 DEF EndOfLoop, c
  <2>3. Head(Tail(calls)).k # "fire"
    BY <1>2
  <2> QED  BY <2>2, <2>3 DEF AfterReturn
<1> HIDE DEF n
<1>8. /\ StackOK' /\ Grows
      /\ DOMAIN lists' = Lists /\ \A l \in Lists : ListOK(lists'[l], l)
      /\ lists'[m] = n /\ \A l \in Lists : l # m => lists'[l] = lists[l]
      /\ \A l : ~Top(l)'
      /\ ~OnStack(m)' /\ \A l : l # m => (OnStack(l)' <=> OnStack(l))
      /\ \A l, h : (Adding(l, h)' <=> Adding(l, h)) /\ (OneAdding(l, h) => OneAdding(l, h)')
      /\ Stuck => Stuck'
  BY <1>1, <1>3, <1>6, <1>7, LeaveStack
<1>9. Settled(m)'
  <2>1. Later(lists[m], m)'
    <3>1. /\ n.fired /\ ~n.gone /\ ~n.again /\ ~n.firing
      BY <1>5, <1>6, Zenon
    <3>2. n.queue = <<>> /\ n.memory # NoData /\ n.start = 0 /\ n.items = <<>>
      BY <1>5, <1>6
    <3>3. \A i \in DOMAIN n.items : FALSE
      BY <3>2
    <3> QED  BY <1>8, <3>1, <3>2, <3>3 DEF Later
  <2>2. Gone(lists[Other(m)])'
    BY <1>3, <1>5, <1>8 DEF Settled, Gone
  <2>3. state'[m[1]] = Outcome(m[2])
    BY <1>1, <1>5 DEF Settled
  <2> QED  BY <2>1, <2>2, <2>3 DEF Settled
<1>10. ListsOK'
  <2>1. DeferredOK(m[1])' /\ BegunOK(m)'
    BY <1>3, <1>8, <1>9 DEF DeferredOK, BegunOK
  <2>2. \A d \in Made : Rest(d) \/ (m \in Outs /\ d = m[1])
    <3> SUFFICES ASSUME NEW d \in Made, d # m[1]
                 PROVE  Rest(d)
      OBVIOUS
    <3>1. \A l \in Outs : l[1] = d => ~Top(l)
      BY <1>2
    <3> QED  BY <3>1, AtRest
  <2>3. \A l \in Outs : l # m => Top(l)' = Top(l) /\ (OnStack(l)' <=> OnStack(l))
    BY <1>2, <1>8 DEF Top
  <2> QED  BY <1>1, <1>3, <1>8, <2>1, <2>2, <2>3, OthersStay
<1>11. HandlersOK'
  <2>1. ASSUME NEW l \in Outs, NEW h \in Handlers
        PROVE  /\ OneAt(l, h) => OneAt(l, h)'
               /\ CalledAt(l, h) => CalledAt(l, h)'
               /\ WaitsAt(l, h) => WaitsAt(l, h)'
    <3>1. l \in Lists
      BY ListNames
    <3>2. CASE l # m
      <4>1. Same(lists[l], lists'[l]) /\ Begun(l)' = Begun(l)
        BY <1>2, <1>8, <3>1, <3>2, SameItself DEF Begun
      <4> QED  BY <1>1, <1>8, <3>1, <3>2, <4>1, SameHandlers
    <3>3. CASE l = m
      <4>1. Places(l, h)' = {}
        BY <1>6, <1>8, <3>3 DEF Places
      <4>2. lists'[l].memory = lists[l].memory /\ lists'[l].gone = lists[l].gone
        BY <1>6, <1>8, <3>3 DEF c
      <4>3. OneAt(l, h) => OneAt(l, h)'
        BY <1>8, <4>1 DEF OneAt
      <4>4. CalledAt(l, h) => CalledAt(l, h)'
        BY <1>1, <1>8, <3>3, <4>2 DEF CalledAt, Asked
      <4>5. ASSUME NEW i \in Places(l, h)
            PROVE  ~(lists[l].firing => i > Begun(l))
        <5>1. Begun(l) = c.index
          BY <1>2, <3>1, <3>3, BegunType DEF c
        <5>2. i \in 1..Len(c.items)
          BY <3>1, <3>3, PlacesType DEF c
        <5> QED  BY <1>2, <1>4, <1>5, <3>3, <5>1, <5>2
      <4>6. WaitsAt(l, h) => WaitsAt(l, h)'
        BY <1>1, <1>8, <4>2, <4>5 DEF WaitsAt, Asked
      <4> QED  BY <4>3, <4>4, <4>6
    <3> QED  BY <3>2, <3>3
  <2> QED  BY <1>1, <2>1, HandlersStep
<1> QED  BY <1>8, <1>10, <1>11 DEF Inv
(* Nothing happens to the lists of outcomes.                                 *)
LEMMA OutsStay ==
  ASSUME Inv, state' = state, wants' = wants, seen' = seen,
         DOMAIN lists' = Lists, \A l \in Lists : ListOK(lists'[l], l),
         \A l \in Outs : /\ lists'[l] = lists[l]
                         /\ (Top(l)' <=> Top(l)) /\ (OnStack(l)' <=> OnStack(l)),
         Stuck => Stuck',
         \A l \in Outs, h \in Handlers : /\ Adding(l, h)' <=> Adding(l, h)
                                         /\ OneAdding(l, h) => OneAdding(l, h)'
  PROVE  HandlersOK'
<1> USE InvFacts
<1>1. ASSUME NEW l \in Outs, NEW h \in Handlers
      PROVE  /\ OneAt(l, h) => OneAt(l, h)'
             /\ CalledAt(l, h) => CalledAt(l, h)'
             /\ WaitsAt(l, h) => WaitsAt(l, h)'
  <2>1. Same(lists[l], lists'[l]) /\ Begun(l)' = Begun(l) /\ l \in Lists
    BY SameItself, ListNames DEF Begun
  <2> QED  BY <2>1, SameHandlers
<1> QED  BY <1>1, HandlersStep

LEMMA EndOfProgress ==
  ASSUME Inv, EndOfLoop, NEW m \in Lists \ Outs, m = Here
  PROVE  Inv'
<1> USE InvFacts
<1>1. /\ Loop
      /\ state' = state /\ when' = when /\ wants' = wants /\ used' = used /\ seen' = seen
  BY DEF EndOfLoop, ghosts, bounds
<1>2. /\ calls # <<>> /\ Top(m) /\ OnStack(m) /\ lists[m].firing
      /\ \A l : Top(l) => l = m
      /\ Len(calls) \in Nat \ {0} /\ DOMAIN calls = 1..Len(calls) /\ calls[1] = Head(calls)
      /\ Head(calls).k = "fire" /\ Head(calls).list = m
      /\ 2 \in DOMAIN calls /\ calls[2].k = "method" /\ Tail(calls) # <<>> /\ Head(Tail(calls)) = calls[2]
  BY <1>1, LoopFacts DEF Here
<1> DEFINE c == lists[m]
           n == Left(c)
<1>3. /\ ListOK(n, m) /\ (n.items = c.items \/ n.items = <<>>)
      /\ ~Refires(c) => ~n.firing
      /\ Refires(c) => n.firing /\ Head(c.queue) \in DataOf(m)
  BY LeftList
<1>4. Grows
  BY <1>1, Unchanged
<1>5. \A i \in DOMAIN n.items : n.items[i] \in Adds(m)'
  <2>1. ProgressListOK(c, m) /\ Adds(m) \subseteq Adds(m)'
    BY <1>4, AddsGrow DEF ListsOK
  <2> HIDE DEF n, c
  <2> QED  BY <1>3, <2>1 DEF ProgressListOK
<1>6. \A d \in Made : Rest(d)
  <2>1. \A l \in Outs : ~Top(l)
    BY <1>2
  <2> QED  BY <2>1, AllAtRest
<1>7. CASE ~Refires(c)
  <2>1. lists' = [lists EXCEPT ![m] = n] /\ calls' = Tail(calls)
    <3>1. lists' = AfterReturn([lists EXCEPT ![m] = n]) /\ calls' = Tail(calls)
      BY <1>7 DEF EndOfLoop
    <3>2. Head(Tail(calls)).k # "fire"
      BY <1>2
    <3> QED  BY <3>1, <3>2 DEF AfterReturn
  <2> HIDE DEF n, c
  <2>2. /\ StackOK' /\ Grows
        /\ DOMAIN lists' = Lists /\ \A l \in Lists : ListOK(lists'[l], l)
        /\ lists'[m] = n /\ \A l \in Lists : l # m => lists'[l] = lists[l]
        /\ \A l : ~Top(l)'
        /\ ~OnStack(m)' /\ \A l : l # m => (OnStack(l)' <=> OnStack(l))
        /\ \A l, h : (Adding(l, h)' <=> Adding(l, h)) /\ (OneAdding(l, h) => OneAdding(l, h)')
        /\ Stuck => Stuck'
    BY <1>1, <1>3, <1>7, <2>1, LeaveStack
  <2>3. \A l \in Outs : /\ lists'[l] = lists[l]
                        /\ (Top(l)' <=> Top(l)) /\ (OnStack(l)' <=> OnStack(l))
    <3> SUFFICES ASSUME NEW l \in Outs
                 PROVE  /\ lists'[l] = lists[l]
                        /\ (Top(l)' <=> Top(l)) /\ (OnStack(l)' <=> OnStack(l))
      OBVIOUS
    <3>1. l \in Lists /\ l # m
      BY ListNames
    <3> QED  BY <1>2, <2>2, <3>1
  <2>4. \A l \in Outs : l # m => Top(l)' = Top(l) /\ (OnStack(l)' <=> OnStack(l))
    BY <2>3 DEF Top
  <2>5. ListsOK'
    <3>1. ProgressListOK(lists[m], m)'
      BY <1>5, <2>2 DEF ProgressListOK
    <3> QED  BY <1>1, <1>6, <2>2, <2>4, <3>1, OthersStay
  <2>6. HandlersOK'
    BY <1>1, <2>2, <2>3, OutsStay
  <2> QED  BY <2>2, <2>5, <2>6 DEF Inv
<1>8. CASE Refires(c)
  <2> DEFINE f == Firing(m, Head(c.queue))
             rest == Tail(calls)
  <2>1. lists' = [lists EXCEPT ![m] = n] /\ calls' = <<f>> \o rest
    BY <1>8 DEF EndOfLoop
  <2>2. f \in Frames /\ f.k = "fire" /\ f.list = m /\ f.data \in DataOf(m)
    BY <1>3, <1>8, WorkKinds
  <2> HIDE DEF n, c, f
  <2>3. /\ rest \in Seq(Frames) /\ Len(rest) = Len(calls) - 1
        /\ \A p \in 1..(Len(calls) - 1) : rest[p] = calls[p + 1]
    BY <1>2, Popped
  <2> HIDE DEF rest
  <2>4. /\ calls' \in Seq(Frames) /\ calls' # <<>> /\ Head(calls') = f
        /\ Len(calls') = Len(calls) /\ DOMAIN calls' = 1..Len(calls) /\ calls'[1] = f
        /\ \A p \in 2..Len(calls) : calls'[p] = calls[p]
    <3>1. /\ calls' \in Seq(Frames) /\ calls' # <<>> /\ Head(calls') = f
          /\ Len(calls') = Len(rest) + 1 /\ DOMAIN calls' = 1..(Len(rest) + 1) /\ calls'[1] = f
          /\ \A p \in 2..(Len(rest) + 1) : calls'[p] = rest[p - 1]
      BY <2>1, <2>2, <2>3, Pushed
    <3>2. Len(rest) + 1 = Len(calls)
      BY <1>2, <2>3
    <3>3. \A p \in 2..Len(calls) : calls'[p] = calls[p]
      BY <1>2, <2>3, <3>1, <3>2
    <3> QED  BY <3>1, <3>2, <3>3
  <2>5. Restacked(1, 1)
    BY <1>2, <2>4 DEF Restacked
  <2>6. \A l : (Top(l)' <=> Top(l))
    BY <1>2, <2>2, <2>4 DEF Top
  <2>7. \A l : (OnStack(l)' <=> OnStack(l))
    <3> SUFFICES ASSUME NEW l
                 PROVE  OnStack(l)' <=> OnStack(l)
      OBVIOUS
    <3>1. CASE l = m
      <4>1. OnStack(m)'
        BY <1>2, <2>2, <2>4 DEF OnStack
      <4> QED  BY <1>2, <3>1, <4>1
    <3>2. CASE l # m
      <4>1. \A p \in 1..1 : ~(calls'[p].k = "fire" /\ calls'[p].list = l)
        BY <2>2, <2>4, <3>2
      <4>2. ~Top(l)
        BY <1>2, <3>2
      <4> QED  BY <2>5, <4>1, <4>2, OnStackStays
    <3> QED  BY <3>1, <3>2
  <2>8. /\ DOMAIN lists' = Lists /\ \A l \in Lists : ListOK(lists'[l], l)
        /\ lists'[m] = n /\ \A l \in Lists : l # m => lists'[l] = lists[l]
    BY <1>3, <2>1, ChangedList
  <2>9. StackOK'
    <3>1. FrameOK(calls[1])'
      BY <2>2, <2>4 DEF FrameOK
    <3>2. NestedAt(1)'
      <4>1. 1 + 1 \in DOMAIN calls' /\ calls'[1 + 1] = calls[2]
        BY <1>2, <2>4
      <4> QED  BY <1>2, <2>2, <2>4, <4>1 DEF NestedAt
    <3>3. \A p \in 1..1, q \in DOMAIN calls' :
             calls'[p].k = "fire" /\ calls'[q].k = "fire" /\ calls'[p].list = calls'[q].list => p = q
      <4> SUFFICES ASSUME NEW q \in DOMAIN calls', calls'[q].k = "fire", calls'[q].list = m, q # 1
                   PROVE  FALSE
        BY <2>2, <2>4
      <4>1. q \in DOMAIN calls /\ calls'[q] = calls[q]
        BY <1>2, <2>4
      <4> QED  BY <1>2, <4>1 DEF StackOK, OneFiring
    <3>4. FiringOK(calls[1])'
      BY <1>3, <1>8, <2>2, <2>4, <2>8 DEF FiringOK
    <3>5. \A p \in DOMAIN calls : p > 1 /\ calls[p].k = "fire" =>
           /\ lists'[calls[p].list].firing
           /\ calls[p].list \in Outs => lists'[calls[p].list].memory = lists[calls[p].list].memory
      <4> SUFFICES ASSUME NEW p \in DOMAIN calls, calls[p].k = "fire"
                   PROVE  /\ lists'[calls[p].list].firing
                          /\ calls[p].list \in Outs => lists'[calls[p].list].memory = lists[calls[p].list].memory
        OBVIOUS
      <4>1. calls[p] \in Frames /\ FiringOK(calls[p])
        BY DEF StackOK
      <4>2. calls[p].list \in Lists
        BY <4>1 DEF Frames
      <4>3. CASE calls[p].list = m
        BY <1>3, <1>8, <2>8, <4>3
      <4>4. CASE calls[p].list # m
        BY <2>8, <4>1, <4>2, <4>4 DEF FiringOK
      <4> QED  BY <4>3, <4>4
    <3>6. \A p \in 1..1 : p = 1
      OBVIOUS
    <3> QED  BY <1>4, <2>5, <3>1, <3>2, <3>3, <3>4, <3>5, <3>6, StackStep
  <2>10. \A l, h : (Adding(l, h)' <=> Adding(l, h)) /\ (OneAdding(l, h) => OneAdding(l, h)')
    <3> SUFFICES ASSUME NEW l, NEW h
                 PROVE  (Adding(l, h)' <=> Adding(l, h)) /\ (OneAdding(l, h) => OneAdding(l, h)')
      OBVIOUS
    <3>1. \A j : ~AddsAt(1, j, l, h) /\ ~AddsAt(1, j, l, h)'
      BY <1>2, <2>2, <2>4 DEF AddsAt
    <3>2. \A p \in 1..1 : \A j : AddsAt(p, j, l, h)' => 1 = 1 /\ p = 1 /\ AddsAt(1, j + 0, l, h)
      BY <3>1
    <3> QED  BY <2>5, <3>1, <3>2, AddingShift
  <2>11. Stuck => Stuck'
    <3>1. \A l \in Lists : lists[l].firing /\ ~OnStack(l) => lists'[l].firing /\ ~OnStack(l)'
      BY <1>2, <2>7, <2>8
    <3> QED  BY <3>1, StuckStays
  <2>12. ListsOK'
    <3>1. ProgressListOK(lists[m], m)'
      BY <1>5, <2>8 DEF ProgressListOK
    <3>2. \A l \in Outs : l # m => Top(l)' = Top(l) /\ (OnStack(l)' <=> OnStack(l))
      BY <2>6, <2>7 DEF Top
    <3> QED  BY <1>1, <1>4, <1>6, <2>8, <3>1, <3>2, OthersStay
  <2>13. HandlersOK'
    <3>1. \A l \in Outs : lists'[l] = lists[l]
      BY <2>8, ListNames
    <3> QED  BY <1>1, <2>6, <2>7, <2>8, <2>10, <2>11, <3>1, OutsStay
  <2> QED  BY <2>9, <2>12, <2>13 DEF Inv
<1> QED  BY <1>7, <1>8

(* The end of a firing.                                                      *)
LEMMA EndOfLoopStep ==
  ASSUME Inv, EndOfLoop
  PROVE  Inv'
<1>1. PICK m \in Lists : m = Here
  BY LoopFacts DEF EndOfLoop
<1> QED  BY <1>1, EndOfOutcome, EndOfProgress

(* An exception unwinds the stack.                                           *)
LEMMA Unwound ==
  ASSUME Inv, calls' = <<>>, lists' = lists, UNCHANGED <<state, when, seen, ghosts, used>>, Stuck',
         \A l \in Outs : ~Top(l)
  PROVE  Inv'
<1> USE InvFacts
<1>1. state' = state /\ when' = when /\ wants' = wants /\ used' = used /\ seen' = seen
  BY DEF ghosts
<1>2. Grows
  BY <1>1, Unchanged
<1>3. /\ \A l : ~OnStack(l)' /\ ~Top(l)'
      /\ \A l, h : ~Adding(l, h)' /\ OneAdding(l, h)'
  BY DEF OnStack, Top, Adding, OneAdding
<1>4. StackOK'
  BY DEF StackOK, FramesOK, OneFiring
<1>5. \A d \in Made : Rest(d)
  BY AllAtRest
<1>6. ListsOK'
  <2>1. \A l \in Lists : Same(lists[l], lists'[l])
    BY SameItself
  <2>2. \A l \in Lists \ Outs : ProgressListOK(lists[l], l)'
    BY <1>2, <2>1, ProgressKept
  <2>3. \A l \in Outs : Same(lists[l], lists'[l]) /\ lists'[l].index >= lists[l].index
    <3> SUFFICES ASSUME NEW l \in Outs
                 PROVE  lists[l].index >= lists[l].index
      BY <2>1, ListNames
    <3>1. lists[l].index \in Nat
      BY ListNames DEF ListOK
    <3> QED  BY <3>1
  <2>4. /\ when' \in [args : Values, remaining : Int, values : Values, progress : Values]
        /\ used' \in 0..MaxCalls
        /\ state' \in [Made -> {"pending", "resolved", "rejected"}]
    BY <1>1 DEF ListsOK
  <2>5. \A l \in Outs : BegunOK(l)'
    BY <1>3 DEF BegunOK
  <2>6. \A d \in Made :
           \/ DeferredOK(d)'
           \/ /\ Rest(d) /\ state'[d] = state[d]
              /\ \A l \in {DoneOf(d), FailOf(d)} : /\ Same(lists[l], lists'[l])
                                                   /\ lists'[l].index >= lists[l].index
    BY <1>1, <1>5, <2>3, ListNames
  <2> QED  BY <1>2, <2>2, <2>4, <2>5, <2>6, ListsStep
<1>7. HandlersOK'
  <2>1. ASSUME NEW l \in Outs, NEW h \in Handlers
        PROVE  /\ OneAt(l, h) => OneAt(l, h)'
               /\ CalledAt(l, h) => CalledAt(l, h)'
               /\ WaitsAt(l, h) => WaitsAt(l, h)'
    <3>1. Places(l, h)' = Places(l, h)
      BY DEF Places
    <3> QED  BY <1>1, <1>3, <3>1 DEF OneAt, CalledAt, WaitsAt, Asked
  <2> QED  BY <1>1, <2>1, HandlersStep
<1> QED  BY <1>4, <1>6, <1>7 DEF Inv

(* fire() reads a function of a list that is gone.                           *)
LEMMA CrashStep ==
  ASSUME Inv, Crash
  PROVE  Inv'
<1> USE InvFacts
<1>1. PICK m \in Lists : m = Here
  BY LoopFacts DEF Crash
<1>2. /\ Loop /\ AtHole(lists[m]) /\ calls' = <<>> /\ lists' = lists
      /\ UNCHANGED <<state, when, seen, ghosts, bounds>>
  BY <1>1 DEF Crash
<1>3. /\ lists[m].firing /\ \A l : Top(l) => l = m
      /\ m \in Outs => Settling(m, 0) \/ Settling(m, 1) \/ Settled(m)
  BY <1>1, <1>2, LoopFacts
<1>4. m \notin Outs
  <2> SUFFICES ASSUME m \in Outs
               PROVE  FALSE
    OBVIOUS
  <2>1. First(lists[m], m) \/ Later(lists[m], m)
    BY <1>3 DEF Settling, Settled
  <2>2. lists[m].length = Len(lists[m].items)
    BY <1>3, <2>1 DEF First, Later
  <2>3. lists[m].index \in Nat /\ lists[m].length \in Nat
    BY DEF ListOK
  <2> QED  BY <1>2, <2>2, <2>3 DEF AtHole, AtEnd
<1>5. Stuck'
  <2>1. ~OnStack(m)'
    BY <1>2 DEF OnStack
  <2> QED  BY <1>2, <1>3, <2>1 DEF Stuck
<1>6. \A l \in Outs : ~Top(l)
  BY <1>3, <1>4
<1>7. UNCHANGED <<state, when, seen, ghosts, used>>
  BY <1>2 DEF bounds
<1> QED  BY <1>2, <1>5, <1>6, <1>7, Unwound

(* A callback throws: every call under way is left.                          *)
LEMMA ThrowStep ==
  ASSUME Inv, Throw
  PROVE  Inv'
<1> USE InvFacts
<1>1. /\ calls # <<>> /\ Head(calls).k = "user" /\ calls' = <<>> /\ lists' = lists
      /\ UNCHANGED <<state, when, seen, ghosts, used>>
  BY DEF Throw, In
<1>2. /\ calls[1] = Head(calls) /\ NestedAt(1) /\ 1 \in DOMAIN calls
  BY <1>1, TopFacts
<1>3. 2 \in DOMAIN calls /\ calls[2].k = "fire"
  BY <1>1, <1>2 DEF NestedAt
<1>4. calls[2].list \in Lists /\ FiringOK(calls[2])
  BY <1>3 DEF Frames, StackOK
<1>5. Stuck'
  <2>1. lists'[calls[2].list].firing
    BY <1>1, <1>3, <1>4 DEF FiringOK
  <2>2. \A l : ~OnStack(l)'
    BY <1>1 DEF OnStack
  <2> QED  BY <1>4, <2>1, <2>2 DEF Stuck
<1>6. \A l \in Outs : ~Top(l)
  BY <1>1 DEF Top
<1> QED  BY <1>1, <1>5, <1>6, Unwound
-----------------------------------------------------------------------------
(* A method does its next part.                                              *)

(* The j-th part of a method registers h with list l.                        *)
Part(todo, j, l, h) == j \in DOMAIN todo /\ todo[j] = Add(l, User(h))

(* The method that runs.                                                     *)
LEMMA MethodFacts ==
  ASSUME Inv, In("method"), Head(calls).todo # <<>>
  PROVE  /\ calls # <<>> /\ Len(calls) \in Nat \ {0} /\ DOMAIN calls = 1..Len(calls) /\ calls[1] = Head(calls)
         /\ Head(calls).k = "method" /\ Head(calls).todo \in Seq(Works)
         /\ \A j \in DOMAIN Head(calls).todo : WorkOK(Head(calls).todo[j])
         /\ Head(Head(calls).todo) \in Works /\ WorkOK(Head(Head(calls).todo))
         /\ Head(Head(calls).todo) = Head(calls).todo[1]
         /\ Tail(Head(calls).todo) \in Seq(Works)
         /\ \A j \in DOMAIN Tail(Head(calls).todo) : WorkOK(Tail(Head(calls).todo)[j])
         /\ \A l, h, j : /\ Part(Tail(Head(calls).todo), j, l, h) => Part(Head(calls).todo, j + 1, l, h)
                         /\ (Part(Head(calls).todo, j, l, h) /\ Head(Head(calls).todo) # Add(l, User(h)))
                            => Part(Tail(Head(calls).todo), j - 1, l, h)
         /\ \A l : ~Top(l)
         /\ \A d \in Made : Rest(d)
         /\ 2 \in DOMAIN calls => calls[2].k # "method"
<1> USE InvFacts
<1>1. calls # <<>> /\ Head(calls).k = "method"
  BY DEF In
<1>2. /\ Len(calls) \in Nat \ {0} /\ DOMAIN calls = 1..Len(calls) /\ calls[1] = Head(calls)
      /\ Head(calls).todo \in Seq(Works) /\ FrameOK(Head(calls)) /\ NestedAt(1)
      /\ \A l : ~Top(l)
  BY <1>1, TopFacts
<1> DEFINE t == Head(calls).todo
<1>3. t \in Seq(Works) /\ t # <<>> /\ \A j \in DOMAIN t : WorkOK(t[j])
  BY <1>1, <1>2 DEF FrameOK
<1> HIDE DEF t
<1>4. /\ Tail(t) \in Seq(Works) /\ Head(t) = t[1] /\ 1 \in DOMAIN t
      /\ Len(Tail(t)) = Len(t) - 1 /\ Len(t) \in Nat \ {0} /\ DOMAIN t = 1..Len(t)
      /\ DOMAIN Tail(t) = 1..(Len(t) - 1)
      /\ \A p \in 1..(Len(t) - 1) : Tail(t)[p] = t[p + 1]
  BY <1>3, Popped
<1>5. Head(t) \in Works /\ WorkOK(Head(t))
  BY <1>3, <1>4
<1>6. \A j \in DOMAIN Tail(t) : j \in Nat /\ j + 1 \in DOMAIN t /\ Tail(t)[j] = t[j + 1]
  BY <1>4
<1>7. \A j \in DOMAIN Tail(t) : WorkOK(Tail(t)[j])
  BY <1>3, <1>6
<1>8. \A l, h, j : Part(Tail(t), j, l, h) => Part(t, j + 1, l, h)
  BY <1>6 DEF Part
<1>9. ASSUME NEW l, NEW h, NEW j, Part(t, j, l, h), Head(t) # Add(l, User(h))
      PROVE  Part(Tail(t), j - 1, l, h)
  <2>1. j \in 1..Len(t) /\ j # 1 /\ t[j] = Add(l, User(h))
    BY <1>4, <1>9 DEF Part
  <2>2. j - 1 \in 1..(Len(t) - 1) /\ Tail(t)[j - 1] = t[(j - 1) + 1]
    BY <1>4, <2>1
  <2>3. (j - 1) + 1 = j
    BY <2>1
  <2> QED  BY <1>4, <2>1, <2>2, <2>3 DEF Part
<1>10. \A d \in Made : Rest(d)
  BY <1>2, AllAtRest
<1>11. 2 \in DOMAIN calls => calls[2].k # "method"
  BY <1>1, <1>2 DEF NestedAt
<1> QED  BY <1>1, <1>2, <1>3, <1>4, <1>5, <1>7, <1>8, <1>9, <1>10, <1>11 DEF t

(* A place below the frames on top was a place of the stack before.          *)
LEMMA FurtherDown ==
  ASSUME NEW n \in Nat \ {0}, NEW new \in 1..2, NEW q \in 1..(n - 1 + new), q > new
  PROVE  q - new + 1 \in 1..n
OBVIOUS

(* The method that runs has done a part, and perhaps begins a firing.        *)
LEMMA MethodStep ==
  ASSUME Inv, In("method"), Head(calls).todo # <<>>, wants' = wants,
         NEW todo \in Seq(Works), \A j \in DOMAIN todo : WorkOK(todo[j]),
         NEW fires \in BOOLEAN, NEW m \in Lists, NEW data, fires => data \in DataOf(m),
         calls' = IF fires THEN <<Firing(m, data)>> \o (<<Method(todo)>> \o Tail(calls))
                  ELSE <<Method(todo)>> \o Tail(calls),
         \A l \in Lists : OnStack(l) => lists'[l].firing /\ (l \in Outs => lists'[l].memory = lists[l].memory),
         fires => ~OnStack(m) /\ lists'[m].firing /\ (m \in Outs => data = lists'[m].memory)
  PROVE  /\ StackOK' /\ Grows
         /\ \A l : Top(l)' <=> fires /\ l = m
         /\ \A l : OnStack(l)' <=> OnStack(l) \/ (fires /\ l = m)
         /\ \A l, h, k :
              /\ k \in Int
              /\ \A j : Part(todo, j, l, h) => Part(Head(calls).todo, j + k, l, h)
              /\ \A j : Part(Head(calls).todo, j, l, h) => Part(todo, j - k, l, h)
              => (Adding(l, h)' <=> Adding(l, h)) /\ (OneAdding(l, h) => OneAdding(l, h)')
         /\ \A l, h :
              /\ OneAdding(l, h) /\ Part(Head(calls).todo, 1, l, h)
              /\ \A j : Part(todo, j, l, h) => Part(Head(calls).todo, j + 1, l, h)
              => ~Adding(l, h)'
<1> USE InvFacts
<1> DEFINE old == Head(calls).todo
           f == Firing(m, data)
           g == Method(todo)
           s == Tail(calls)
           base == <<g>> \o s
           new == IF fires THEN 2 ELSE 1
<1>1. /\ calls # <<>> /\ Len(calls) \in Nat \ {0} /\ DOMAIN calls = 1..Len(calls) /\ calls[1] = Head(calls)
      /\ calls[1].k = "method" /\ calls[1].todo = old /\ old \in Seq(Works)
      /\ \A l : ~Top(l)
      /\ 2 \in DOMAIN calls => calls[2].k # "method"
  BY MethodFacts
<1>0. Len(calls) \in Nat \ {0} /\ DOMAIN calls = 1..Len(calls)
  BY <1>1
<1>2. /\ s \in Seq(Frames) /\ Len(s) = Len(calls) - 1
      /\ \A p \in 1..(Len(calls) - 1) : s[p] = calls[p + 1]
  BY <1>1, Popped
<1>3. /\ g \in Frames /\ g.k = "method" /\ g.todo = todo
      /\ fires => f \in Frames /\ f.k = "fire" /\ f.list = m /\ f.data = data
  BY WorkKinds
<1>4. calls' = IF fires THEN <<f>> \o base ELSE base
  OBVIOUS
<1> HIDE DEF f, g, s
<1>5. /\ base \in Seq(Frames) /\ Len(base) = Len(calls) /\ DOMAIN base = 1..Len(calls) /\ base[1] = g
      /\ \A p \in 2..Len(calls) : base[p] = calls[p]
  <2>1. /\ base \in Seq(Frames) /\ Len(base) = Len(s) + 1 /\ DOMAIN base = 1..(Len(s) + 1) /\ base[1] = g
        /\ \A p \in 2..(Len(s) + 1) : base[p] = s[p - 1]
    BY <1>2, <1>3, Pushed
  <2>2. Len(s) + 1 = Len(calls)
    BY <1>1, <1>2
  <2>3. ASSUME NEW p \in 2..Len(calls)
        PROVE  base[p] = calls[p]
    <3>1. base[p] = s[p - 1]
      BY <2>1, <2>2
    <3>2. p - 1 \in 1..(Len(calls) - 1) /\ (p - 1) + 1 = p
      BY <1>0
    <3>3. s[p - 1] = calls[(p - 1) + 1]
      BY <1>2, <3>2
    <3> QED  BY <3>1, <3>2, <3>3
  <2> QED  BY <2>1, <2>2, <2>3
<1> HIDE DEF base
<1>6. /\ calls' \in Seq(Frames) /\ Len(calls') = Len(calls) - 1 + new /\ DOMAIN calls' = 1..(Len(calls) - 1 + new)
      /\ calls'[new] = g /\ (fires => calls'[1] = f)
      /\ \A p \in 1..(Len(calls) - 1 + new) : p > new => calls'[p] = calls[p - new + 1]
  <2>1. CASE fires
    <3>1. /\ calls' \in Seq(Frames) /\ Len(calls') = Len(base) + 1 /\ DOMAIN calls' = 1..(Len(base) + 1)
          /\ calls'[1] = f /\ \A p \in 2..(Len(base) + 1) : calls'[p] = base[p - 1]
      BY <1>3, <1>4, <1>5, <2>1, Pushed
    <3>2. Len(calls) - 1 + new = Len(base) + 1 /\ new = 2
      BY <1>1, <1>5, <2>1
    <3>3. calls'[2] = base[2 - 1]
      BY <1>1, <1>5, <3>1
    <3>4. \A p \in 1..(Len(base) + 1) : p > 2 => calls'[p] = calls[p - 2 + 1]
      BY <1>1, <1>5, <3>1
    <3> QED  BY <1>5, <3>1, <3>2, <3>3, <3>4
  <2>2. CASE ~fires
    <3>1. calls' = base /\ new = 1
      BY <1>4, <2>2
    <3>2. Len(calls) - 1 + 1 = Len(calls)
      BY <1>1
    <3>3. \A p \in 1..Len(calls) : p > 1 => base[p] = calls[p - 1 + 1]
      BY <1>1, <1>5
    <3> QED  BY <1>5, <2>2, <3>1, <3>2, <3>3
  <2> QED  BY <2>1, <2>2
<1>7. /\ new \in 1..2 /\ new \in 0..2 /\ (fires <=> new = 2) /\ (~fires <=> new = 1)
  OBVIOUS
<1> HIDE DEF new
<1>8. Restacked(new, 1)
  <2>1. 1 <= Len(calls)
    BY <1>0
  <2>2. \A p \in DOMAIN calls' : p > new => calls'[p] = calls[p - new + 1]
    BY <1>6
  <2> QED  BY <1>6, <2>1, <2>2 DEF Restacked
<1>9. \A p \in 1..new : p = new \/ (p = 1 /\ fires)
  BY <1>7
<1>10. Head(calls') = calls'[1] /\ calls' # <<>>
  BY <1>1, <1>6, <1>7
<1>11. \A l : Top(l)' <=> fires /\ l = m
  <2>1. fires => Head(calls') = f
    BY <1>6, <1>10
  <2>2. ~fires => Head(calls').k = "method"
    BY <1>3, <1>6, <1>7, <1>10
  <2> QED  BY <1>3, <1>10, <2>1, <2>2 DEF Top
<1>12. \A l : OnStack(l)' <=> OnStack(l) \/ (fires /\ l = m)
  <2> SUFFICES ASSUME NEW l
               PROVE  OnStack(l)' <=> OnStack(l) \/ (fires /\ l = m)
    OBVIOUS
  <2>1. CASE fires /\ l = m
    BY <1>1, <1>3, <1>6, <1>7, <2>1 DEF OnStack
  <2>2. CASE ~(fires /\ l = m)
    <3>1. \A p \in 1..new : ~(calls'[p].k = "fire" /\ calls'[p].list = l)
      BY <1>3, <1>6, <1>7, <1>9, <2>2
    <3> QED  BY <1>1, <1>7, <1>8, <2>2, <3>1, OnStackStays, SMTT(40)
  <2> QED  BY <2>1, <2>2
<1>13. Grows
  BY Unchanged
<1>14. StackOK'
  <2>1. FrameOK(g)' /\ (fires => FrameOK(f)')
    <3>1. \A j \in DOMAIN todo : WorkOK(todo[j])'
      BY <1>13, AddsGrow DEF WorkOK
    <3> QED  BY <1>3, <3>1 DEF FrameOK
  <2>2. \A p \in 1..new : calls'[p] = g \/ (fires /\ calls'[p] = f)
    BY <1>6, <1>9
  <2>3. ASSUME NEW p \in 1..new
        PROVE  FrameOK(calls[p])'
    <3>1. PICK x : x = calls'[p] /\ (x = g \/ (fires /\ x = f))
      BY <2>2
    <3>2. FrameOK(x)'
      <4>1. CASE x = g
        BY <2>1, <4>1 DEF FrameOK
      <4>2. CASE fires /\ x = f
        BY <2>1, <4>2 DEF FrameOK
      <4> QED  BY <3>1, <4>1, <4>2
    <3> QED  BY <3>1, <3>2 DEF FrameOK
  <2>4. \A p \in 1..new : NestedAt(p)'
    <3>1. NestedAt(new)'
      <4>1. new + 1 \in DOMAIN calls' => 2 \in DOMAIN calls /\ calls'[new + 1] = calls[2]
        <5>1. new + 1 \in DOMAIN calls' => Len(calls) >= 2 /\ calls'[new + 1] = calls[new + 1 - new + 1]
          BY <1>0, <1>6, <1>7
        <5>2. new + 1 - new + 1 = 2
          BY <1>7
        <5>3. Len(calls) >= 2 => 2 \in DOMAIN calls
          BY <1>0
        <5>4. new + 1 \in DOMAIN calls' => Len(calls) >= 2
          BY <5>1
        <5>5. new + 1 \in DOMAIN calls' => calls'[new + 1] = calls[2]
          BY <5>1, <5>2, Zenon
        <5> QED  BY <5>3, <5>4, <5>5, Zenon
      <4> QED  BY <1>1, <1>3, <1>6, <4>1 DEF NestedAt
    <3>2. fires => NestedAt(1)'
      <4>1. fires => 1 + 1 \in DOMAIN calls' /\ calls'[1 + 1] = g
        BY <1>1, <1>6, <1>7
      <4> QED  BY <1>3, <1>6, <4>1 DEF NestedAt
    <3> QED  BY <1>9, <3>1, <3>2
  <2>5. \A p \in 1..new, q \in DOMAIN calls' :
           calls'[p].k = "fire" /\ calls'[q].k = "fire" /\ calls'[p].list = calls'[q].list => p = q
    <3> SUFFICES ASSUME NEW p \in 1..new, NEW q \in DOMAIN calls', p # q,
                        calls'[p].k = "fire", calls'[q].k = "fire", calls'[p].list = calls'[q].list
                 PROVE  FALSE
      OBVIOUS
    <3>1. p = 1 /\ fires /\ calls'[p] = f /\ new = 2
      BY <1>3, <1>6, <1>7, <1>9
    <3>2. q > 2 /\ q \in Nat
      <4>1. q # 2
        BY <1>3, <1>6, <3>1
      <4> QED  BY <1>1, <1>6, <3>1, <4>1
    <3>3. q - new + 1 \in DOMAIN calls /\ calls'[q] = calls[q - new + 1]
      <4>1. q \in 1..(Len(calls) - 1 + new) /\ q > new
        BY <1>6, <3>1, <3>2
      <4>2. calls'[q] = calls[q - new + 1]
        BY <1>6, <4>1
      <4>3. q - new + 1 \in 1..Len(calls)
        BY <1>0, <1>7, <4>1, FurtherDown
      <4> QED  BY <1>0, <4>2, <4>3
    <3>4. OnStack(m)
      BY <1>3, <3>1, <3>3 DEF OnStack
    <3> QED  BY <3>1, <3>4
  <2>6. \A p \in 1..new : FiringOK(calls[p])'
    BY <1>3, <2>2, ZenonT(40) DEF FiringOK
  <2>7. \A p \in DOMAIN calls : p > 1 /\ calls[p].k = "fire" =>
           /\ lists'[calls[p].list].firing
           /\ calls[p].list \in Outs => lists'[calls[p].list].memory = lists[calls[p].list].memory
    <3> SUFFICES ASSUME NEW p \in DOMAIN calls, calls[p].k = "fire"
                 PROVE  /\ lists'[calls[p].list].firing
                        /\ calls[p].list \in Outs => lists'[calls[p].list].memory = lists[calls[p].list].memory
      OBVIOUS
    <3>1. calls[p].list \in Lists /\ OnStack(calls[p].list)
      BY DEF Frames, OnStack
    <3> QED  BY <3>1
  <2>8. /\ new \in 0..2 /\ 1 \in 0..1 /\ StackOK
    BY <1>7
  <2>9. \A p \in 1..new : FrameOK(calls[p])'
    BY <2>3
  <2> QED  BY <1>8, <1>13, <2>4, <2>5, <2>6, <2>7, <2>8, <2>9, StackStep
<1>15. \A l, h, j : /\ AddsAt(1, j, l, h) <=> Part(old, j, l, h)
                    /\ AddsAt(new, j, l, h)' <=> Part(todo, j, l, h)
                    /\ fires => ~AddsAt(1, j, l, h)'
  <2>1. 1 \in DOMAIN calls /\ new \in DOMAIN calls'
    BY <1>1, <1>6, <1>7
  <2> QED  BY <1>1, <1>3, <1>6, <2>1 DEF AddsAt, Part
<1>16. ASSUME NEW l, NEW h, NEW k \in Int,
              \A j : Part(todo, j, l, h) => Part(old, j + k, l, h),
              \A j : Part(old, j, l, h) => Part(todo, j - k, l, h)
       PROVE  (Adding(l, h)' <=> Adding(l, h)) /\ (OneAdding(l, h) => OneAdding(l, h)')
  <2>1. ASSUME NEW p \in 1..new, NEW j, AddsAt(p, j, l, h)'
        PROVE  1 = 1 /\ p = new /\ AddsAt(1, j + k, l, h)
    <3>1. p = new
      <4>1. CASE p = 1 /\ fires
        BY <1>15, <2>1, <4>1
      <4> QED  BY <1>9, <4>1
    <3>2. AddsAt(new, j, l, h)'
      BY <2>1, <3>1 DEF AddsAt
    <3> QED  BY <1>15, <1>16, <3>1, <3>2
  <2>2. 1 = 1 => \A j : AddsAt(1, j, l, h) => new >= 1 /\ AddsAt(new, j - k, l, h)'
    BY <1>7, <1>15, <1>16
  <2>3. /\ new \in 0..2 /\ 1 \in 0..1 /\ StackOK
    BY <1>7
  <2>4. \A p \in 1..new : \A j : AddsAt(p, j, l, h)' => 1 = 1 /\ p = new /\ AddsAt(1, j + k, l, h)
    BY <2>1
  <2> HIDE DEF Restacked
  <2> QED  BY <1>8, <1>16, <2>2, <2>3, <2>4, AddingShift
<1>17. ASSUME NEW l, NEW h, OneAdding(l, h), Part(old, 1, l, h),
              \A j : Part(todo, j, l, h) => Part(old, j + 1, l, h)
       PROVE  ~Adding(l, h)'
  <2> SUFFICES ASSUME Adding(l, h)'
               PROVE  FALSE
    OBVIOUS
  <2>1. PICK p \in DOMAIN calls' :
          calls'[p].k = "method" /\ \E j \in DOMAIN calls'[p].todo : calls'[p].todo[j] = Add(l, User(h))
    BY DEF Adding
  <2>2. PICK j \in DOMAIN calls'[p].todo : calls'[p].todo[j] = Add(l, User(h))
    BY <2>1
  <2>3. AddsAt(p, j, l, h)'
    BY <2>1, <2>2 DEF AddsAt
  <2>4. AddsAt(1, 1, l, h)
    BY <1>15, <1>17
  <2>5. \A q, i : AddsAt(q, i, l, h) => q = 1 /\ i = 1
    <3> SUFFICES ASSUME NEW q, NEW i, AddsAt(q, i, l, h)
                 PROVE  q = 1 /\ i = 1
      OBVIOUS
    <3>1. q \in DOMAIN calls /\ calls[q].k = "method" /\ i \in DOMAIN calls[q].todo
      BY DEF AddsAt
    <3>2. 1 \in DOMAIN calls[1].todo
      BY <2>4 DEF AddsAt
    <3> QED  BY <1>1, <1>17, <2>4, <3>1, <3>2, SMTT(40) DEF OneAdding
  <2>6. CASE p > new
    <3>1. p - new + 1 \in DOMAIN calls /\ calls'[p] = calls[p - new + 1]
      <4>1. p \in 1..(Len(calls) - 1 + new)
        BY <1>6
      <4>2. calls'[p] = calls[p - new + 1]
        BY <1>6, <2>6, <4>1
      <4>3. p - new + 1 \in 1..Len(calls)
        BY <1>0, <1>7, <2>6, <4>1, FurtherDown
      <4> QED  BY <1>0, <4>2, <4>3
    <3>2. AddsAt(p - new + 1, j, l, h)
      BY <2>1, <2>2, <3>1 DEF AddsAt
    <3>3. p - new + 1 = 1
      BY <2>5, <3>2
    <3> QED  BY <1>0, <1>6, <1>7, <2>6, <3>3
  <2>7. CASE ~(p > new)
    <3>1. p \in 1..new
      BY <1>1, <1>6, <1>7, <2>7
    <3>2. p = new
      BY <1>9, <1>15, <2>3, <3>1
    <3>3. Part(todo, j, l, h) /\ AddsAt(1, j + 1, l, h)
      BY <1>15, <1>17, <2>3, <3>2
    <3>4. j + 1 = 1 /\ j \in DOMAIN todo /\ DOMAIN todo = 1..Len(todo)
      BY <2>5, <3>3 DEF Part
    <3> QED  BY <3>4
  <2> QED  BY <2>6, <2>7
<1> QED  BY <1>11, <1>12, <1>13, <1>14, <1>16, <1>17

(* The next part of a method works on list m, and may have to fire it.       *)
LEMMA PartOnList ==
  ASSUME Inv, In("method"), Head(calls).todo # <<>>, NEW m \in Lists, NEW n, ListOK(n, m),
         NEW fires \in BOOLEAN, NEW data, fires => data \in DataOf(m),
         lists' = [lists EXCEPT ![m] = n], wants' = wants,
         calls' = IF fires
                  THEN <<Firing(m, data)>> \o (<<Method(Tail(Head(calls).todo))>> \o Tail(calls))
                  ELSE <<Method(Tail(Head(calls).todo))>> \o Tail(calls),
         lists[m].firing => n.firing /\ ~fires /\ (m \in Outs => n.memory = lists[m].memory),
         fires => n.firing /\ (m \in Outs => data = n.memory)
  PROVE  /\ StackOK' /\ Grows
         /\ DOMAIN lists' = Lists /\ \A l \in Lists : ListOK(lists'[l], l)
         /\ lists'[m] = n /\ \A l \in Lists : l # m => lists'[l] = lists[l]
         /\ \A l : ~Top(l)
         /\ \A l : Top(l)' <=> fires /\ l = m
         /\ \A l : OnStack(l)' <=> OnStack(l) \/ (fires /\ l = m)
         /\ Stuck => Stuck'
         /\ \A d \in Made : Rest(d)
         /\ \A l, h : Head(Head(calls).todo) # Add(l, User(h)) =>
              (Adding(l, h)' <=> Adding(l, h)) /\ (OneAdding(l, h) => OneAdding(l, h)')
         /\ \A l, h : Head(Head(calls).todo) = Add(l, User(h)) =>
              Adding(l, h) /\ (OneAdding(l, h) => ~Adding(l, h)')
<1> USE InvFacts
<1> DEFINE old == Head(calls).todo
           todo == Tail(Head(calls).todo)
<1>1. /\ todo \in Seq(Works) /\ \A j \in DOMAIN todo : WorkOK(todo[j])
      /\ \A l, h, j : Part(todo, j, l, h) => Part(old, j + 1, l, h)
      /\ \A l, h, j : Part(old, j, l, h) /\ Head(old) # Add(l, User(h)) => Part(todo, j - 1, l, h)
      /\ Head(old) = old[1] /\ old # <<>> /\ old \in Seq(Works)
      /\ \A l : ~Top(l)
      /\ \A d \in Made : Rest(d)
      /\ 1 \in DOMAIN calls /\ calls[1] = Head(calls) /\ Head(calls).k = "method"
  BY MethodFacts
<1> HIDE DEF todo
<1>2. /\ DOMAIN lists' = Lists /\ \A l \in Lists : ListOK(lists'[l], l)
      /\ lists'[m] = n /\ \A l \in Lists : l # m => lists'[l] = lists[l]
  BY ChangedList
<1>3. \A l \in Lists : OnStack(l) => lists[l].firing
  BY FiringHere
<1>4. ASSUME NEW l \in Lists, OnStack(l)
      PROVE  lists'[l].firing /\ (l \in Outs => lists'[l].memory = lists[l].memory)
  <2>1. CASE l # m
    BY <1>2, <1>3, <1>4, <2>1
  <2>2. CASE l = m
    BY <1>2, <1>3, <1>4, <2>2
  <2> QED  BY <2>1, <2>2
<1>5. fires => ~OnStack(m) /\ lists'[m].firing /\ (m \in Outs => data = lists'[m].memory)
  BY <1>2, <1>3
<1>6. calls' = IF fires THEN <<Firing(m, data)>> \o (<<Method(todo)>> \o Tail(calls))
               ELSE <<Method(todo)>> \o Tail(calls)
  BY DEF todo
<1>7. /\ StackOK' /\ Grows
      /\ \A l : Top(l)' <=> fires /\ l = m
      /\ \A l : OnStack(l)' <=> OnStack(l) \/ (fires /\ l = m)
      /\ \A l, h, k :
           /\ k \in Int
           /\ \A j : Part(todo, j, l, h) => Part(old, j + k, l, h)
           /\ \A j : Part(old, j, l, h) => Part(todo, j - k, l, h)
           => (Adding(l, h)' <=> Adding(l, h)) /\ (OneAdding(l, h) => OneAdding(l, h)')
      /\ \A l, h :
           /\ OneAdding(l, h) /\ Part(old, 1, l, h)
           /\ \A j : Part(todo, j, l, h) => Part(old, j + 1, l, h)
           => ~Adding(l, h)'
  BY <1>1, <1>4, <1>5, <1>6, MethodStep, ZenonT(40)
<1>8. Stuck => Stuck'
  <2>1. ASSUME NEW l \in Lists, lists[l].firing, ~OnStack(l)
        PROVE  lists'[l].firing /\ ~OnStack(l)'
    BY <1>2, <1>7, <2>1
  <2> QED  BY <2>1, StuckStays
<1>9. ASSUME NEW l, NEW h, Head(old) # Add(l, User(h))
      PROVE  (Adding(l, h)' <=> Adding(l, h)) /\ (OneAdding(l, h) => OneAdding(l, h)')
  <2>1. /\ 1 \in Int
        /\ \A j : Part(todo, j, l, h) => Part(old, j + 1, l, h)
        /\ \A j : Part(old, j, l, h) => Part(todo, j - 1, l, h)
    BY <1>1, <1>9
  <2> QED  BY <1>7, <2>1
<1>10. ASSUME NEW l, NEW h, Head(old) = Add(l, User(h))
       PROVE  Adding(l, h) /\ (OneAdding(l, h) => ~Adding(l, h)')
  <2>1. 1 \in DOMAIN old
    BY <1>1
  <2>2. Part(old, 1, l, h)
    BY <1>1, <1>10, <2>1 DEF Part
  <2>3. Adding(l, h)
    BY <1>1, <1>10, <2>1 DEF Adding
  <2>4. \A j : Part(todo, j, l, h) => Part(old, j + 1, l, h)
    BY <1>1
  <2> QED  BY <1>7, <2>2, <2>3, <2>4
<1> QED  BY <1>1, <1>2, <1>7, <1>8, <1>9, <1>10

(* A list of outcomes, while no deferred is being settled.                   *)
LEMMA OwnList ==
  ASSUME NEW m \in Outs, Rest(m[1])
  PROVE  \/ Pending(m[1]) /\ Fresh(lists[m], m) /\ Fresh(lists[Other(m)], Other(m))
         \/ Settled(m)
         \/ Settled(Other(m)) /\ Gone(lists[m])
<1> DEFINE d == m[1]
<1>1. /\ m \in {DoneOf(d), FailOf(d)} /\ Other(m) \in {DoneOf(d), FailOf(d)}
      /\ Other(Other(m)) = m /\ \A l \in {DoneOf(d), FailOf(d)} : l = m \/ l = Other(m)
  <2>1. (m = DoneOf(d) \/ m = FailOf(d)) /\ d \in Made /\ Other(Other(m)) = m
    BY ListNames
  <2>2. Other(DoneOf(d)) = FailOf(d) /\ Other(FailOf(d)) = DoneOf(d)
    BY <2>1, ListNames
  <2> QED  BY <2>1, <2>2
<1>2. CASE Pending(d)
  BY <1>1, <1>2 DEF Pending
<1>3. ASSUME NEW l \in {DoneOf(d), FailOf(d)}, Settled(l)
      PROVE  Settled(m) \/ (Settled(Other(m)) /\ Gone(lists[m]))
  BY <1>1, <1>3 DEF Settled
<1> QED  BY <1>2, <1>3 DEF Rest

LEMMA SettledFacts ==
  ASSUME NEW m \in Outs, Settled(m), ListOK(lists[m], m)
  PROVE  /\ lists[m].fired /\ ~lists[m].again /\ ~lists[m].gone /\ lists[m].memory # NoData
         /\ ~MayFire(lists[m])
         /\ ~lists[m].firing => lists[m].items = <<>>
<1>1. First(lists[m], m) \/ Later(lists[m], m)
  BY DEF Settled
<1> QED  BY <1>1 DEF First, Later, MayFire

(* fireWith() as a part of a method.                                         *)
LEMMA FireStep ==
  ASSUME Inv, In("method"), Head(calls).todo # <<>>, NEW m \in Lists, NEW data \in DataOf(m),
         Head(Head(calls).todo).op # "add",
         lists' = [lists EXCEPT ![m] = FiredWith(lists[m], data)],
         calls' = IF FiresNow(lists[m])
                  THEN <<Firing(m, data)>> \o (<<Method(Tail(Head(calls).todo))>> \o Tail(calls))
                  ELSE <<Method(Tail(Head(calls).todo))>> \o Tail(calls),
         UNCHANGED <<state, when, seen, ghosts, bounds>>
  PROVE  Inv'
<1> USE InvFacts
<1> DEFINE c == lists[m]
           n == FiredWith(c, data)
           fires == FiresNow(c)
<1>1. /\ ListOK(c, m) /\ ListOK(n, m)
      /\ ~MayFire(c) => n = c /\ ~fires
      /\ MayFire(c) /\ c.firing => ~fires /\ n.items = c.items /\ n.firing /\ n.again = c.again
      /\ MayFire(c) /\ ~c.firing => fires /\ n = Entered(c, data)
  BY FiredList
<1>2. /\ ListOK(Entered(c, data), m)
      /\ Entered(c, data).items = c.items /\ Entered(c, data).gone = c.gone
      /\ Entered(c, data).again = c.again /\ Entered(c, data).queue = c.queue
      /\ Entered(c, data).memory = data /\ Entered(c, data).fired /\ Entered(c, data).firing
      /\ Entered(c, data).start = 0 /\ Entered(c, data).index = c.start
      /\ Entered(c, data).length = Len(c.items)
  BY <1>1, EnteredList
<1>3. /\ state' = state /\ when' = when /\ seen' = seen /\ wants' = wants /\ used' = used
  BY DEF ghosts, bounds
<1>4. fires \in BOOLEAN
  BY DEF FiresNow, MayFire
<1>5. \A d \in Made : Rest(d)
  BY MethodFacts
<1>6. m \in Outs => \/ Pending(m[1]) /\ Fresh(c, m) /\ Fresh(lists[Other(m)], Other(m))
                    \/ Settled(m)
                    \/ Settled(Other(m)) /\ Gone(c)
  <2> SUFFICES ASSUME m \in Outs
               PROVE  \/ Pending(m[1]) /\ Fresh(c, m) /\ Fresh(lists[Other(m)], Other(m))
                      \/ Settled(m)
                      \/ Settled(Other(m)) /\ Gone(c)
    OBVIOUS
  <2>1. Rest(m[1])
    BY <1>5, ListNames
  <2> QED  BY <2>1, OwnList
<1>7. m \in Outs /\ ~Fresh(c, m) => n = c /\ ~fires
  <2>1. Gone(c) => ~MayFire(c)
    BY DEF Gone, MayFire
  <2>2. m \in Outs /\ Settled(m) => ~MayFire(c)
    BY <1>1, SettledFacts
  <2> QED  BY <1>1, <1>6, <2>1, <2>2
<1>8. Fresh(c, m) => /\ fires /\ n = Entered(c, data) /\ ~c.firing /\ ~c.gone /\ ~c.again /\ c.queue = <<>>
                     /\ c.start = 0 /\ Len(c.items) >= 3
  BY <1>1 DEF Fresh, MayFire, Added3
<1>9. c.firing => n.firing /\ ~fires /\ (m \in Outs => n.memory = lists[m].memory)
  <2>1. CASE m \in Outs
    BY <1>7, <1>8, <2>1
  <2>2. CASE m \notin Outs
    BY <1>1, <2>2
  <2> QED  BY <2>1, <2>2
<1>10. fires => n.firing /\ data = n.memory
  BY <1>1, <1>2 DEF FiresNow
<1>11. /\ lists' = [lists EXCEPT ![m] = n]
       /\ calls' = IF fires
                   THEN <<Firing(m, data)>> \o (<<Method(Tail(Head(calls).todo))>> \o Tail(calls))
                   ELSE <<Method(Tail(Head(calls).todo))>> \o Tail(calls)
  OBVIOUS
<1> HIDE DEF n, fires
<1>12. /\ StackOK' /\ Grows
       /\ DOMAIN lists' = Lists /\ \A l \in Lists : ListOK(lists'[l], l)
       /\ lists'[m] = n /\ \A l \in Lists : l # m => lists'[l] = lists[l]
       /\ \A l : ~Top(l)
       /\ \A l : Top(l)' <=> fires /\ l = m
       /\ \A l : OnStack(l)' <=> OnStack(l) \/ (fires /\ l = m)
       /\ Stuck => Stuck'
       /\ \A l, h : Head(Head(calls).todo) # Add(l, User(h)) =>
            (Adding(l, h)' <=> Adding(l, h)) /\ (OneAdding(l, h) => OneAdding(l, h)')
  BY <1>1, <1>3, <1>4, <1>9, <1>10, <1>11, PartOnList, ZenonT(40)
<1>13. \A l, h : (Adding(l, h)' <=> Adding(l, h)) /\ (OneAdding(l, h) => OneAdding(l, h)')
  <2>1. \A l, h : Head(Head(calls).todo) # Add(l, User(h))
    BY WorkKinds
  <2> QED  BY <1>12, <2>1
<1>14. Adds(m) \subseteq Adds(m)' /\ Adds(Other(m)) \subseteq Adds(Other(m))'
  BY <1>12, AddsGrow
<1>15. \A l \in Outs : l # m => Top(l)' = Top(l) /\ (OnStack(l)' <=> OnStack(l))
  <2>1. \A l \in Outs : l # m => (Top(l)' <=> Top(l))
    BY <1>12
  <2> QED  BY <1>12, <2>1 DEF Top
<1>16. CASE m \in Outs /\ Fresh(c, m)
  <2>1. /\ Pending(m[1]) /\ Fresh(lists[Other(m)], Other(m)) /\ fires
    <3>1. ~Settled(m)
      BY <1>1, <1>16, SettledFacts DEF Fresh
    <3>2. ~Gone(c)
      BY <1>16 DEF Fresh, Gone
    <3> QED  BY <1>6, <1>8, <1>16, <3>1, <3>2
  <2>2. /\ Other(m) \in Outs /\ Other(m) \in Lists /\ Other(m) # m /\ Other(m)[1] = m[1] /\ m[1] \in Made
        /\ m \in {DoneOf(m[1]), FailOf(m[1])}
    <3>1. Other(m) \in Outs /\ Other(m) # m /\ Other(m)[1] = m[1] /\ (m = DoneOf(m[1]) \/ m = FailOf(m[1]))
      BY <1>16, ListNames
    <3> QED  BY <3>1, ListNames
  <2>3. /\ n.items = c.items /\ n.fired /\ n.firing /\ ~n.gone /\ ~n.again /\ n.queue = <<>>
        /\ n.memory = data /\ n.start = 0 /\ n.index = 0 /\ n.length = Len(c.items)
    BY <1>2, <1>8, <1>16
  <2>4. data # NoData
    BY DataIsNot
  <2> HIDE DEF c
  <2>5. First(lists[m], m)'
    <3>1. Added3(c, m)
      BY <1>16 DEF Fresh
    <3>2. /\ Len(n.items) >= 3
          /\ \A i \in 1..3 : n.items[i] = Core(m)[i]
          /\ \A i \in DOMAIN n.items : i > 3 => n.items[i] \in Adds(m)'
      BY <1>14, <2>3, <3>1 DEF Added3
    <3>3. Added3(lists[m], m)'
      BY <1>12, <3>2 DEF Added3
    <3>4. n.firing /\ n.fired /\ ~n.gone /\ ~n.again
      BY <2>3
    <3>5. n.queue = <<>> /\ n.memory # NoData /\ n.start = 0 /\ n.length = Len(n.items)
      BY <2>3, <2>4
    <3> QED  BY <1>12, <3>3, <3>4, <3>5 DEF First
  <2>6. Fresh(lists[Other(m)], Other(m))'
    BY <1>12, <1>14, <2>1, <2>2 DEF Fresh, Added3
  <2>7. Top(m)'
    BY <1>12, <2>1
  <2>8. Settling(m, 0)'
    <3>1. state'[m[1]] = "pending"
      BY <1>3, <2>1 DEF Pending
    <3>2. lists'[m].index = 0
      BY <1>12, <2>3
    <3> QED  BY <2>5, <2>6, <2>7, <3>1, <3>2 DEF Settling
  <2>9. DeferredOK(m[1])'
    BY <2>2, <2>8 DEF DeferredOK
  <2>10. Begun(m)' = 0
    BY <1>12, <2>3, <2>7 DEF Begun
  <2>11. BegunOK(m)'
    <3>1. Len(n.items) \in Nat
      BY <1>1 DEF ListOK
    <3> QED  BY <1>12, <2>10, <3>1 DEF BegunOK
  <2>12. ListsOK'
    BY <1>3, <1>5, <1>12, <1>15, <1>16, <2>9, <2>11, OthersStay
  <2>13. ASSUME NEW l \in Outs, NEW h \in Handlers
         PROVE  /\ OneAt(l, h) => OneAt(l, h)'
                /\ CalledAt(l, h) => CalledAt(l, h)'
                /\ WaitsAt(l, h) => WaitsAt(l, h)'
    <3>1. l \in Lists
      BY ListNames
    <3>2. CASE l # m
      <4>1. Same(lists[l], lists'[l]) /\ Begun(l)' = Begun(l)
        BY <1>12, <3>1, <3>2, SameItself DEF Begun
      <4> QED  BY <1>3, <1>12, <1>13, <3>1, <3>2, <4>1, SameHandlers
    <3>3. CASE l = m
      <4>1. Places(l, h)' = Places(l, h)
        BY <1>12, <2>3, <3>3 DEF Places, c
      <4>2. OneAt(l, h) => OneAt(l, h)'
        BY <1>13, <4>1 DEF OneAt
      <4>3. ~CalledAt(l, h)
        <5>1. state[l[1]] = "pending" /\ Outcome(l[2]) # "pending"
          BY <2>1, <3>3, ListNames DEF Pending
        <5> QED  BY <5>1 DEF CalledAt
      <4>4. \A i \in Places(l, h)' : i > Begun(l)'
        <5>1. Places(l, h) \subseteq 1..Len(lists[l].items) /\ Len(lists[l].items) \in Nat
          BY <3>1, PlacesType
        <5> QED  BY <2>10, <3>3, <4>1, <5>1
      <4>5. lists'[l].gone = lists[l].gone
        <5>1. ~c.gone
          BY <1>16 DEF Fresh
        <5>2. ~lists[l].gone /\ lists[l].gone \in BOOLEAN
          BY <3>1, <3>3, <5>1 DEF c, ListOK
        <5>3. ~lists'[l].gone /\ lists'[l].gone \in BOOLEAN
          BY <1>12, <2>3, <3>1, <3>3 DEF ListOK
        <5> QED  BY <5>2, <5>3
      <4>6. WaitsAt(l, h) => WaitsAt(l, h)'
        BY <1>3, <1>12, <1>13, <4>1, <4>4, <4>5 DEF WaitsAt, Asked
      <4> QED  BY <4>2, <4>3, <4>6
    <3> QED  BY <3>2, <3>3
  <2>14. HandlersOK'
    BY <1>3, <2>13, HandlersStep
  <2> QED  BY <1>12, <2>12, <2>14 DEF Inv
<1>17. CASE ~(m \in Outs /\ Fresh(c, m))
  <2>1. \A l \in Outs : /\ lists'[l] = lists[l] /\ l \in Lists
                        /\ (Top(l)' <=> Top(l)) /\ (OnStack(l)' <=> OnStack(l))
    <3> SUFFICES ASSUME NEW l \in Outs
                 PROVE  /\ lists'[l] = lists[l] /\ l \in Lists
                        /\ (Top(l)' <=> Top(l)) /\ (OnStack(l)' <=> OnStack(l))
      OBVIOUS
    <3>1. l \in Lists
      BY ListNames
    <3>2. l = m => n = c /\ ~fires
      BY <1>7, <1>17
    <3> QED  BY <1>12, <3>1, <3>2
  <2>2. HandlersOK'
    BY <1>3, <1>12, <1>13, <2>1, OutsStay
  <2>3. m \notin Outs => ProgressListOK(lists[m], m)'
    <3> SUFFICES ASSUME m \notin Outs
                 PROVE  ProgressListOK(lists[m], m)'
      OBVIOUS
    <3>1. ProgressListOK(c, m)
      BY DEF ListsOK
    <3>2. n.items = c.items
      BY <1>1, <1>2
    <3> QED  BY <1>12, <1>14, <3>1, <3>2 DEF ProgressListOK
  <2>4. m \in Outs => DeferredOK(m[1])' /\ BegunOK(m)'
    <3> SUFFICES ASSUME m \in Outs
                 PROVE  DeferredOK(m[1])' /\ BegunOK(m)'
      OBVIOUS
    <3>1. m[1] \in Made /\ DoneOf(m[1]) \in Outs /\ FailOf(m[1]) \in Outs
      <4>1. m[1] \in Made
        BY ListNames
      <4> QED  BY <4>1, ListNames
    <3>2. \A l \in {DoneOf(m[1]), FailOf(m[1])} :
             Same(lists[l], lists'[l]) /\ lists[l].index \in Nat /\ lists'[l].index \in Nat
             /\ lists'[l].index >= lists[l].index
      <4>1. \A l \in {DoneOf(m[1]), FailOf(m[1])} : lists'[l] = lists[l] /\ lists[l].index \in Nat
        BY <2>1, <3>1 DEF ListOK
      <4> QED  BY <4>1, SameItself
    <3>3. Rest(m[1])'
      BY <1>3, <1>5, <1>12, <3>1, <3>2, RestKept
    <3>4. DeferredOK(m[1])'
      BY <3>3 DEF Rest, DeferredOK
    <3>5. BegunOK(m)
      BY DEF ListsOK
    <3>6. Begun(m)' = Begun(m)
      BY <2>1 DEF Begun
    <3> QED  BY <2>1, <3>4, <3>5, <3>6 DEF BegunOK
  <2>5. ListsOK'
    BY <1>3, <1>5, <1>12, <1>15, <2>3, <2>4, OthersStay
  <2> QED  BY <1>12, <2>2, <2>5 DEF Inv
<1> QED  BY <1>16, <1>17

(* Where a handler stands does not change when a function that is not it is  *)
(* added to a list.                                                          *)
LEMMA AddedPlaces ==
  ASSUME NEW m \in Lists, ListOK(lists[m], m), NEW f, NEW h,
         lists'[m].items = Append(lists[m].items, f)
  PROVE  /\ f # User(h) => Places(m, h)' = Places(m, h)
         /\ f = User(h) /\ Places(m, h) = {} => Places(m, h)' = {Len(lists[m].items) + 1}
<1> DEFINE s == lists[m].items
<1>1. s \in Seq(Functions \cup Closures) /\ Len(s) \in Nat /\ DOMAIN s = 1..Len(s)
  BY DEF ListOK
<1> HIDE DEF s
<1>2. /\ DOMAIN Append(s, f) = 1..(Len(s) + 1) /\ Append(s, f)[Len(s) + 1] = f
      /\ \A i \in 1..Len(s) : Append(s, f)[i] = s[i]
  BY <1>1
<1>3. Places(m, h) = {i \in 1..Len(s) : s[i] = User(h)}
  BY <1>1 DEF Places, s
<1>4. Places(m, h)' = {i \in 1..(Len(s) + 1) : Append(s, f)[i] = User(h)}
  BY <1>2 DEF Places, s
<1>5. 1..(Len(s) + 1) = (1..Len(s)) \cup {Len(s) + 1}
  BY <1>1
<1>6. CASE f # User(h)
  BY <1>2, <1>3, <1>4, <1>5, <1>6
<1>7. CASE f = User(h)
  <2>1. Places(m, h)' = Places(m, h) \cup {Len(s) + 1}
    BY <1>2, <1>3, <1>4, <1>5, <1>7
  <2> QED  BY <1>7, <2>1 DEF s
<1> QED  BY <1>6, <1>7

(* A function is added.                                                      *)
LEMMA AddedInv ==
  ASSUME Inv, NEW m \in Lists, ListOK(lists[m], m), NEW f \in Adds(m), Grows
  PROVE  /\ Append(lists[m].items, f) \in Seq(Functions \cup Closures)
         /\ Len(Append(lists[m].items, f)) = Len(lists[m].items) + 1 /\ Len(lists[m].items) \in Nat
         /\ Added3(lists[m], m) =>
              /\ Len(Append(lists[m].items, f)) >= 3
              /\ \A i \in 1..3 : Append(lists[m].items, f)[i] = Core(m)[i]
              /\ \A i \in DOMAIN Append(lists[m].items, f) : i > 3 => Append(lists[m].items, f)[i] \in Adds(m)'
         /\ (\A i \in DOMAIN lists[m].items : lists[m].items[i] \in Adds(m)) =>
              \A i \in DOMAIN Append(lists[m].items, f) : Append(lists[m].items, f)[i] \in Adds(m)'
<1> DEFINE s == lists[m].items
<1>1. s \in Seq(Functions \cup Closures) /\ Len(s) \in Nat /\ DOMAIN s = 1..Len(s)
  BY DEF ListOK
<1>2. f \in Functions \cup Closures
  BY FunctionsOf
<1>3. Adds(m) \subseteq Adds(m)'
  BY AddsGrow
<1>4. Added3(lists[m], m) => /\ Len(s) >= 3 /\ \A i \in 1..3 : s[i] = Core(m)[i]
                             /\ \A i \in DOMAIN s : i > 3 => s[i] \in Adds(m)
  BY DEF Added3
<1> HIDE DEF s
<1>5. /\ Append(s, f) \in Seq(Functions \cup Closures) /\ Len(Append(s, f)) = Len(s) + 1
      /\ DOMAIN Append(s, f) = 1..(Len(s) + 1) /\ Append(s, f)[Len(s) + 1] = f
      /\ \A i \in 1..Len(s) : Append(s, f)[i] = s[i]
  BY <1>1, <1>2
<1>6. \A i \in 1..(Len(s) + 1) : i \in 1..Len(s) \/ i = Len(s) + 1
  BY <1>1
<1>7. (\A i \in DOMAIN s : s[i] \in Adds(m)) => \A i \in DOMAIN Append(s, f) : Append(s, f)[i] \in Adds(m)'
  BY <1>1, <1>3, <1>5, <1>6
<1>8. ASSUME Added3(lists[m], m)
      PROVE  /\ Len(Append(s, f)) >= 3
             /\ \A i \in 1..3 : Append(s, f)[i] = Core(m)[i]
             /\ \A i \in DOMAIN Append(s, f) : i > 3 => Append(s, f)[i] \in Adds(m)'
  <2>1. Len(s) + 1 >= 3 /\ \A i \in 1..3 : i \in 1..Len(s)
    BY <1>1, <1>4, <1>8
  <2>2. \A i \in 1..3 : Append(s, f)[i] = Core(m)[i]
    BY <1>4, <1>5, <1>8, <2>1
  <2>3. \A i \in DOMAIN Append(s, f) : i > 3 => Append(s, f)[i] \in Adds(m)'
    BY <1>1, <1>3, <1>4, <1>5, <1>6, <1>8
  <2> QED  BY <1>5, <2>1, <2>2, <2>3
<1> QED  BY <1>1, <1>5, <1>7, <1>8 DEF s

(* add() as a part of a method: what becomes of a list of outcomes.          *)
LEMMA AddedOutcome ==
  ASSUME Inv, NEW m \in Outs, NEW f \in Adds(m), Rest(m[1]), Grows, state' = state, ~Top(m),
         lists'[m] = Added(lists[m], f), lists'[Other(m)] = lists[Other(m)],
         Top(m)' <=> AddFires(lists[m]),
         OnStack(m)' <=> OnStack(m) \/ AddFires(lists[m])
  PROVE  DeferredOK(m[1])' /\ BegunOK(m)'
<1> USE InvFacts
<1> DEFINE c == lists[m]
           n == Added(c, f)
           s == Append(c.items, f)
<1>1. /\ Other(m) \in Outs /\ Other(m) \in Lists /\ Other(m) # m /\ Other(m)[1] = m[1] /\ m[1] \in Made
      /\ m \in Lists /\ m \in {DoneOf(m[1]), FailOf(m[1])} /\ Other(m) \in {DoneOf(m[1]), FailOf(m[1])}
      /\ \A l \in {DoneOf(m[1]), FailOf(m[1])} : l = m \/ l = Other(m)
      /\ Other(Other(m)) = m
  <2>1. Other(m) \in Outs /\ Other(m) # m /\ Other(m)[1] = m[1] /\ (m = DoneOf(m[1]) \/ m = FailOf(m[1]))
        /\ m \in Lists /\ Other(Other(m)) = m
    BY ListNames
  <2>2. m[1] \in Made /\ Other(m) \in Lists
    BY <2>1, ListNames
  <2>3. Other(DoneOf(m[1])) = FailOf(m[1]) /\ Other(FailOf(m[1])) = DoneOf(m[1])
    BY <2>2, ListNames
  <2> QED  BY <2>1, <2>2, <2>3
<1>2. ListOK(c, m)
  BY <1>1
<1>3. /\ ListOK(n, m)
      /\ n.gone = c.gone /\ n.again = c.again /\ n.queue = c.queue /\ n.memory = c.memory
      /\ c.gone => n = c /\ ~AddFires(c)
      /\ ~c.gone => n.items = s
      /\ ~c.gone /\ c.firing => /\ n.length = Len(n.items) /\ n.index = c.index /\ n.firing
                                /\ n.fired = c.fired /\ n.start = c.start /\ ~AddFires(c)
      /\ ~c.gone /\ ~c.firing /\ c.memory # NoData =>
           /\ n.length = Len(n.items) /\ n.index = Len(c.items) /\ n.firing /\ n.fired /\ n.start = 0
           /\ AddFires(c)
      /\ ~c.gone /\ ~c.firing /\ c.memory = NoData =>
           /\ n.fired = c.fired /\ n.firing = c.firing /\ n.start = c.start /\ n.index = c.index
           /\ ~AddFires(c)
  BY <1>1, <1>2, AddedList
<1>4. /\ Len(s) = Len(c.items) + 1 /\ Len(c.items) \in Nat
      /\ Added3(c, m) => /\ Len(s) >= 3 /\ \A i \in 1..3 : s[i] = Core(m)[i]
                         /\ \A i \in DOMAIN s : i > 3 => s[i] \in Adds(m)'
      /\ (\A i \in DOMAIN c.items : c.items[i] \in Adds(m)) => \A i \in DOMAIN s : s[i] \in Adds(m)'
  BY <1>1, <1>2, AddedInv
<1>5. \/ Pending(m[1]) /\ Fresh(c, m) /\ Fresh(lists[Other(m)], Other(m))
      \/ Settled(m)
      \/ Settled(Other(m)) /\ Gone(c)
  BY OwnList
<1>6. lists'[m] = n /\ c.index \in Nat /\ BegunOK(m)
  BY <1>1, <1>2 DEF ListOK, ListsOK
<1>7. Adds(Other(m)) \subseteq Adds(Other(m))' /\ Adds(m) \subseteq Adds(m)'
  BY AddsGrow
<1> HIDE DEF n, s, c
<1>8. CASE Pending(m[1]) /\ Fresh(c, m) /\ Fresh(lists[Other(m)], Other(m))
  <2>1. ~c.gone /\ ~c.firing /\ c.memory = NoData /\ ~c.fired /\ ~c.again /\ c.queue = <<>> /\ c.start = 0
        /\ Added3(c, m)
    BY <1>8 DEF Fresh
  <2>2. ~AddFires(c) /\ n.items = s
    BY <1>3, <2>1
  <2>3. ~n.fired /\ ~n.firing /\ ~n.gone /\ ~n.again
    BY <1>3, <2>1, Zenon
  <2>4. n.queue = <<>> /\ n.memory = NoData /\ n.start = 0
    BY <1>3, <2>1
  <2>5. Added3(lists[m], m)'
    BY <1>4, <1>6, <2>1, <2>2 DEF Added3
  <2>6. Fresh(lists[m], m)'
    BY <1>6, <2>3, <2>4, <2>5 DEF Fresh
  <2>7. Fresh(lists[Other(m)], Other(m))'
    BY <1>7, <1>8 DEF Fresh, Added3
  <2>8. state'[m[1]] = "pending"
    BY <1>8 DEF Pending
  <2>9. Pending(m[1])'
    BY <1>1, <2>6, <2>7, <2>8 DEF Pending
  <2>10. BegunOK(m)'
    <3>1. ~OnStack(m)
      BY <1>1, <2>1, FiringHere DEF c
    <3> QED  BY <2>2, <3>1 DEF BegunOK, c
  <2> QED  BY <2>9, <2>10 DEF DeferredOK
<1>9. CASE Settled(m)
  <2>1. c.fired /\ ~c.again /\ ~c.gone /\ c.memory # NoData /\ c.queue = <<>> /\ c.start = 0
    BY <1>9 DEF Settled, First, Later, c
  <2>2. n.items = s /\ ~n.gone /\ ~n.again /\ n.queue = <<>> /\ n.memory # NoData
    <3>1. n.items = s /\ n.queue = <<>> /\ n.memory # NoData
      BY <1>3, <2>1
    <3> QED  BY <1>3, <2>1, <3>1, Zenon
  <2>3. n.length = Len(n.items) /\ n.firing /\ n.fired /\ n.start = 0
    <3>1. CASE c.firing
      <4>1. n.fired
        BY <1>3, <2>1, <3>1, Zenon
      <4> QED  BY <1>3, <2>1, <3>1, <4>1
    <3>2. CASE ~c.firing
      BY <1>3, <2>1, <3>2
    <3> QED  BY <3>1, <3>2
  <2>4. \/ First(lists[m], m)' /\ lists'[m].index >= 2
        \/ Later(lists[m], m)'
    <3>1. CASE First(c, m) /\ c.index >= 2
      <4>1. Added3(c, m) /\ c.firing
        BY <3>1 DEF First
      <4>2. Added3(lists[m], m)'
        BY <1>4, <1>6, <2>2, <4>1 DEF Added3
      <4>3. First(lists[m], m)'
        BY <1>6, <2>2, <2>3, <4>2 DEF First
      <4>4. n.index = c.index
        BY <1>3, <2>1, <4>1
      <4> QED  BY <1>6, <3>1, <4>3, <4>4
    <3>2. CASE Later(c, m)
      <4>1. \A i \in DOMAIN n.items : n.items[i] \in Adds(m)'
        BY <1>4, <2>2, <3>2 DEF Later
      <4> QED  BY <1>6, <2>2, <2>3, <4>1 DEF Later
    <3> QED  BY <1>9, <3>1, <3>2 DEF Settled, c
  <2>5. Settled(m)'
    <3>1. Gone(lists[Other(m)])'
      BY <1>9 DEF Settled, Gone
    <3>2. state'[m[1]] = Outcome(m[2])
      BY <1>9 DEF Settled
    <3> QED  BY <2>4, <3>1, <3>2 DEF Settled
  <2>6. BegunOK(m)'
    <3>1. Len(n.items) = Len(c.items) + 1
      BY <1>4, <2>2
    <3>2. CASE c.firing
      <4>1. n.index = c.index /\ ~AddFires(c)
        BY <1>3, <2>1, <3>2
      <4>2. Begun(m) = c.index + 1 /\ Begun(m)' = c.index + 1
        BY <1>6, <4>1 DEF Begun, c
      <4>3. OnStack(m)' => OnStack(m)
        BY <4>1 DEF c
      <4>4. OnStack(m) => Begun(m) <= Len(c.items)
        BY <1>6 DEF BegunOK, c
      <4> QED  BY <1>4, <1>6, <3>1, <4>2, <4>3, <4>4 DEF BegunOK
    <3>3. CASE ~c.firing
      <4>1. AddFires(c) /\ n.index = Len(c.items)
        BY <1>3, <2>1, <3>3
      <4>2. Begun(m)' = Len(c.items)
        BY <1>4, <1>6, <4>1 DEF Begun, c
      <4> QED  BY <1>4, <1>6, <3>1, <4>2 DEF BegunOK
    <3> QED  BY <3>2, <3>3
  <2> QED  BY <1>1, <2>5, <2>6 DEF DeferredOK
<1>10. CASE Settled(Other(m)) /\ Gone(c)
  <2>1. n = c /\ ~AddFires(c)
    BY <1>3, <1>10 DEF Gone
  <2>2. Settled(Other(m))'
    <3>1. \/ First(lists[Other(m)], Other(m))' /\ lists'[Other(m)].index >= 2
          \/ Later(lists[Other(m)], Other(m))'
      <4>1. CASE First(lists[Other(m)], Other(m)) /\ lists[Other(m)].index >= 2
        BY <1>7, <4>1 DEF First, Added3
      <4>2. CASE Later(lists[Other(m)], Other(m))
        BY <1>7, <4>2 DEF Later
      <4> QED  BY <1>10, <4>1, <4>2 DEF Settled
    <3>2. Gone(lists[Other(Other(m))])'
      BY <1>1, <1>6, <1>10, <2>1 DEF Gone
    <3>3. state'[Other(m)[1]] = Outcome(Other(m)[2])
      BY <1>10 DEF Settled
    <3> QED  BY <3>1, <3>2, <3>3 DEF Settled
  <2>3. BegunOK(m)'
    <3>1. ~OnStack(m)
      BY <1>1, <1>10, FiringHere DEF Gone, c
    <3> QED  BY <2>1, <3>1 DEF BegunOK, c
  <2> QED  BY <1>1, <2>2, <2>3 DEF DeferredOK
<1> QED  BY <1>5, <1>8, <1>9, <1>10

(* What becomes of the handlers of that list.                                *)
LEMMA AddedHandler ==
  ASSUME Inv, NEW m \in Outs, NEW f \in Adds(m), Rest(m[1]), Grows, NEW h \in Handlers,
         UNCHANGED <<state, wants, seen>>, ~Top(m), Stuck => Stuck',
         lists'[m] = Added(lists[m], f),
         Top(m)' <=> AddFires(lists[m]),
         OnStack(m)' <=> OnStack(m) \/ AddFires(lists[m]),
         f # User(h) => (Adding(m, h)' <=> Adding(m, h)) /\ (OneAdding(m, h) => OneAdding(m, h)'),
         f = User(h) => Adding(m, h) /\ (OneAdding(m, h) => ~Adding(m, h)')
  PROVE  /\ OneAt(m, h) => OneAt(m, h)'
         /\ CalledAt(m, h) => CalledAt(m, h)'
         /\ OneAt(m, h) /\ WaitsAt(m, h) => WaitsAt(m, h)'
<1> USE InvFacts
<1> DEFINE c == lists[m]
           n == Added(c, f)
<1>1. m \in Lists /\ ListOK(c, m)
  BY ListNames
<1>2. /\ n.gone = c.gone /\ n.memory = c.memory
      /\ c.gone => n = c /\ ~AddFires(c)
      /\ ~c.gone => n.items = Append(c.items, f)
      /\ ~c.gone /\ c.firing => n.index = c.index /\ n.firing /\ ~AddFires(c)
      /\ ~c.gone /\ ~c.firing /\ c.memory # NoData =>
           n.index = Len(c.items) /\ n.firing /\ AddFires(c)
      /\ ~c.gone /\ ~c.firing /\ c.memory = NoData =>
           n.firing = c.firing /\ n.index = c.index /\ ~AddFires(c)
  BY <1>1, AddedList
<1>3. /\ lists'[m] = n /\ c.index \in Nat /\ Len(c.items) \in Nat /\ c.firing \in BOOLEAN
      /\ Begun(m) = c.index + 1 /\ BegunOK(m)
  BY <1>1 DEF ListOK, ListsOK, Begun
<1>4. Places(m, h) \subseteq 1..Len(c.items)
  BY <1>1, PlacesType
<1>5. AddFires(c) => ~c.gone /\ ~c.firing /\ c.memory # NoData /\ Places(m, h) = {} /\ Len(c.items) = 0
  <2> SUFFICES ASSUME AddFires(c)
               PROVE  ~c.gone /\ ~c.firing /\ c.memory # NoData /\ c.items = <<>>
    BY <1>4
  <2>1. ~c.gone /\ ~c.firing /\ c.memory # NoData
    BY DEF AddFires
  <2>2. ~Fresh(c, m) /\ ~Gone(c)
    BY <2>1 DEF Fresh, Gone
  <2>3. Settled(m)
    BY <2>2, OwnList
  <2> QED  BY <1>1, <2>1, <2>3, SettledFacts
<1>6. Stuck \/ (c.firing => OnStack(m))
  BY <1>1 DEF Stuck
<1>7. ~c.gone => /\ f # User(h) => Places(m, h)' = Places(m, h)
                 /\ f = User(h) /\ Places(m, h) = {} => Places(m, h)' = {Len(c.items) + 1}
  BY <1>1, <1>2, <1>3, AddedPlaces
<1>8. c.gone => Places(m, h)' = Places(m, h)
  BY <1>2, <1>3 DEF Places
<1>9. Begun(m)' = IF AddFires(c) THEN 0 ELSE c.index + 1
  <2>1. CASE AddFires(c)
    <3>1. n.index = 0 /\ Top(m)'
      BY <1>2, <1>5, <2>1
    <3> QED  BY <1>3, <2>1, <3>1 DEF Begun
  <2>2. CASE ~AddFires(c)
    <3>1. n.index = c.index /\ ~Top(m)'
      BY <1>2, <1>3, <2>2
    <3> QED  BY <1>3, <2>2, <3>1 DEF Begun
  <2> QED  BY <2>1, <2>2
<1> HIDE DEF n, c
<1>10. CASE f # User(h)
  <2>1. Places(m, h)' = Places(m, h)
    BY <1>7, <1>8, <1>10
  <2>2. OneAt(m, h) => OneAt(m, h)'
    BY <1>10, <2>1 DEF OneAt
  <2>3. CalledAt(m, h) => CalledAt(m, h)'
    <3> SUFFICES ASSUME CalledAt(m, h)
                 PROVE  CalledAt(m, h)'
      OBVIOUS
    <3>1. /\ Asked(m, h)' /\ state'[m[1]] = Outcome(m[2])
      BY DEF CalledAt, Asked
    <3>2. seen'[h] = <<lists'[m].memory>>
      BY <1>2, <1>3 DEF CalledAt, c
    <3>3. ~Adding(m, h)'
      BY <1>10 DEF CalledAt
    <3>4. OnStack(m)' => \A i \in Places(m, h)' : i <= Begun(m)'
      BY <1>3, <1>5, <1>9, <2>1 DEF CalledAt, c
    <3> QED  BY <3>1, <3>2, <3>3, <3>4 DEF CalledAt
  <2>4. WaitsAt(m, h) => WaitsAt(m, h)'
    <3> SUFFICES ASSUME WaitsAt(m, h), Asked(m, h)
                 PROVE  \/ Stuck' \/ seen'[h] # <<>> \/ lists'[m].gone \/ Adding(m, h)'
                        \/ \E i \in Places(m, h)' : lists'[m].firing => i > Begun(m)'
      BY DEF WaitsAt, Asked
    <3>1. CASE Stuck \/ seen[h] # <<>> \/ lists[m].gone \/ Adding(m, h)
      BY <1>2, <1>3, <1>10, <3>1 DEF c
    <3>2. ASSUME NEW i \in Places(m, h), lists[m].firing => i > Begun(m), ~c.gone
          PROVE  lists'[m].firing => i > Begun(m)'
      <4>1. ~AddFires(c)
        BY <1>5, <3>2
      <4>2. CASE c.firing
        BY <1>3, <1>9, <3>2, <4>1, <4>2 DEF c
      <4>3. CASE ~c.firing
        <5>1. ~n.firing
          <6>1. c.memory = NoData
            BY <1>2, <3>2, <4>1, <4>3
          <6>2. n.firing = c.firing
            BY <1>2, <3>2, <4>3, <6>1
          <6> QED  BY <1>3, <4>3, <6>2
        <5> QED  BY <1>3, <5>1
      <4> QED  BY <4>2, <4>3
    <3>3. c.gone => lists[m].gone
      BY DEF c
    <3> QED  BY <2>1, <3>1, <3>2, <3>3 DEF WaitsAt
  <2> QED  BY <2>2, <2>3, <2>4
<1>11. CASE f = User(h)
  <2>1. Adding(m, h)
    BY <1>11
  <2>2. ~CalledAt(m, h)
    BY <2>1 DEF CalledAt
  <2>3. ASSUME OneAt(m, h)
        PROVE  Places(m, h) = {} /\ ~Adding(m, h)'
    BY <1>11, <2>1, <2>3 DEF OneAt
  <2>4. OneAt(m, h) => OneAt(m, h)'
    <3> SUFFICES ASSUME OneAt(m, h)
                 PROVE  OneAt(m, h)'
      OBVIOUS
    <3>1. \A i, j \in Places(m, h)' : i = j
      BY <1>7, <1>8, <1>11, <2>3
    <3>2. \A p, j : ~AddsAt(p, j, m, h)'
      BY <2>3 DEF Adding, AddsAt
    <3>3. OneAdding(m, h)'
      BY <3>2 DEF OneAdding
    <3> QED  BY <2>3, <3>1, <3>3 DEF OneAt
  <2>5. OneAt(m, h) /\ WaitsAt(m, h) => WaitsAt(m, h)'
    <3> SUFFICES ASSUME OneAt(m, h), ~c.gone, ~Stuck
                 PROVE  \E i \in Places(m, h)' : lists'[m].firing => i > Begun(m)'
      BY <1>2, <1>3 DEF WaitsAt, c
    <3>1. Places(m, h)' = {Len(c.items) + 1}
      BY <1>7, <1>11, <2>3
    <3>2. lists'[m].firing => Len(c.items) + 1 > Begun(m)'
      <4>1. CASE AddFires(c)
        BY <1>3, <1>9, <4>1
      <4>2. CASE ~AddFires(c) /\ c.firing
        <5>1. OnStack(m)
          BY <1>6, <4>2
        <5>2. Begun(m) <= Len(c.items)
          BY <1>3, <5>1 DEF BegunOK, c
        <5> QED  BY <1>3, <1>9, <4>2, <5>2
      <4>3. CASE ~AddFires(c) /\ ~c.firing
        <5>1. c.memory = NoData
          BY <1>2, <4>3
        <5>2. n.firing = c.firing
          BY <1>2, <4>3, <5>1
        <5>3. ~n.firing
          BY <1>3, <4>3, <5>2
        <5> QED  BY <1>3, <5>3
      <4> QED  BY <4>1, <4>2, <4>3
    <3> QED  BY <3>1, <3>2
  <2> QED  BY <2>2, <2>4, <2>5
<1> QED  BY <1>10, <1>11

LEMMA AddStep ==
  ASSUME Inv, In("method"), Head(calls).todo # <<>>, NEW m \in Lists, NEW f \in Adds(m),
         Head(Head(calls).todo) = Add(m, f),
         lists' = [lists EXCEPT ![m] = Added(lists[m], f)],
         calls' = IF AddFires(lists[m])
                  THEN <<Firing(m, lists[m].memory)>>
                       \o (<<Method(Tail(Head(calls).todo))>> \o Tail(calls))
                  ELSE <<Method(Tail(Head(calls).todo))>> \o Tail(calls),
         UNCHANGED <<state, when, seen, ghosts, bounds>>
  PROVE  Inv'
<1> USE InvFacts
<1> DEFINE c == lists[m]
           n == Added(c, f)
           fires == AddFires(c)
           data == c.memory
<1>1. /\ ListOK(c, m) /\ ListOK(n, m)
      /\ n.memory = c.memory
      /\ c.gone => n = c /\ ~fires
      /\ ~c.gone => n.items = Append(c.items, f)
      /\ ~c.gone /\ c.firing => n.firing /\ ~fires
      /\ ~c.gone /\ ~c.firing /\ c.memory # NoData => n.firing
  BY AddedList
<1>2. /\ state' = state /\ when' = when /\ seen' = seen /\ wants' = wants /\ used' = used
  BY DEF ghosts, bounds
<1>3. /\ fires \in BOOLEAN
      /\ fires => ~c.gone /\ ~c.firing /\ c.memory # NoData
  BY DEF AddFires
<1>4. fires => data \in DataOf(m)
  BY <1>1, <1>3 DEF ListOK
<1>5. c.firing => n.firing /\ ~fires /\ (m \in Outs => n.memory = lists[m].memory)
  <2>1. CASE c.gone
    BY <1>1, <2>1, Zenon
  <2>2. CASE ~c.gone
    BY <1>1, <2>2, Zenon
  <2> QED  BY <2>1, <2>2
<1>6. fires => n.firing /\ (m \in Outs => data = n.memory)
  BY <1>1, <1>3
<1>7. /\ lists' = [lists EXCEPT ![m] = n]
      /\ calls' = IF fires
                  THEN <<Firing(m, data)>> \o (<<Method(Tail(Head(calls).todo))>> \o Tail(calls))
                  ELSE <<Method(Tail(Head(calls).todo))>> \o Tail(calls)
  OBVIOUS
<1> HIDE DEF n, fires, data
<1>8. /\ StackOK' /\ Grows
      /\ DOMAIN lists' = Lists /\ \A l \in Lists : ListOK(lists'[l], l)
      /\ lists'[m] = n /\ \A l \in Lists : l # m => lists'[l] = lists[l]
      /\ \A l : ~Top(l)
      /\ \A l : Top(l)' <=> fires /\ l = m
      /\ \A l : OnStack(l)' <=> OnStack(l) \/ (fires /\ l = m)
      /\ Stuck => Stuck'
      /\ \A d \in Made : Rest(d)
      /\ \A l, h : Head(Head(calls).todo) # Add(l, User(h)) =>
           (Adding(l, h)' <=> Adding(l, h)) /\ (OneAdding(l, h) => OneAdding(l, h)')
      /\ \A l, h : Head(Head(calls).todo) = Add(l, User(h)) =>
           Adding(l, h) /\ (OneAdding(l, h) => ~Adding(l, h)')
  <2>1. ListOK(n, m) /\ fires \in BOOLEAN /\ wants' = wants
    BY <1>1, <1>2, <1>3
  <2>2. lists[m].firing => n.firing /\ ~fires /\ (m \in Outs => n.memory = lists[m].memory)
    BY <1>5
  <2>3. PICK x : x = data
    OBVIOUS
  <2>4. /\ fires => x \in DataOf(m)
        /\ fires => n.firing /\ (m \in Outs => x = n.memory)
        /\ calls' = IF fires
                    THEN <<Firing(m, x)>> \o (<<Method(Tail(Head(calls).todo))>> \o Tail(calls))
                    ELSE <<Method(Tail(Head(calls).todo))>> \o Tail(calls)
        /\ lists' = [lists EXCEPT ![m] = n]
    BY <1>4, <1>6, <1>7, <2>3
  <2> HIDE DEF c
  <2> QED  BY <2>1, <2>2, <2>4, PartOnList
<1>9. ASSUME NEW l, NEW h, l # m \/ f # User(h)
      PROVE  (Adding(l, h)' <=> Adding(l, h)) /\ (OneAdding(l, h) => OneAdding(l, h)')
  <2>1. Add(m, f) # Add(l, User(h))
    BY <1>9, WorkKinds
  <2> QED  BY <1>8, <2>1
<1>10. ASSUME NEW h, f = User(h)
       PROVE  Adding(m, h) /\ (OneAdding(m, h) => ~Adding(m, h)')
  BY <1>8, <1>10
<1>11. \A l \in Outs : l # m => Top(l)' = Top(l) /\ (OnStack(l)' <=> OnStack(l))
  <2>1. \A l \in Outs : l # m => (Top(l)' <=> Top(l))
    BY <1>8
  <2> QED  BY <1>8, <2>1 DEF Top
<1>12. CASE m \in Outs
  <2>1. /\ Other(m) \in Lists /\ Other(m) # m /\ Rest(m[1])
    <3>1. Other(m) \in Outs /\ Other(m) # m /\ m[1] \in Made
      BY <1>12, ListNames
    <3> QED  BY <1>8, <3>1, ListNames
  <2>2. /\ lists'[m] = Added(lists[m], f) /\ lists'[Other(m)] = lists[Other(m)]
        /\ Top(m)' <=> AddFires(lists[m])
        /\ OnStack(m)' <=> OnStack(m) \/ AddFires(lists[m])
        /\ ~Top(m)
    BY <1>8, <2>1 DEF n, fires, c
  <2>3. DeferredOK(m[1])' /\ BegunOK(m)'
    BY <1>2, <1>8, <1>12, <2>1, <2>2, AddedOutcome
  <2>4. ListsOK'
    BY <1>2, <1>8, <1>11, <1>12, <2>3, OthersStay
  <2>5. ASSUME NEW l \in Outs, NEW h \in Handlers
        PROVE  /\ OneAt(l, h) => OneAt(l, h)'
               /\ CalledAt(l, h) => CalledAt(l, h)'
               /\ OneAt(l, h) /\ WaitsAt(l, h) => WaitsAt(l, h)'
    <3>1. l \in Lists
      BY ListNames
    <3>2. CASE l # m
      <4>1. Same(lists[l], lists'[l]) /\ Begun(l)' = Begun(l)
        BY <1>8, <3>1, <3>2, SameItself DEF Begun
      <4>2. OnStack(l)' => OnStack(l)
        BY <1>8, <3>2
      <4> QED  BY <1>2, <1>8, <1>9, <3>1, <3>2, <4>1, <4>2, SameHandlers
    <3>3. CASE l = m
      <4>1. f # User(h) => (Adding(m, h)' <=> Adding(m, h)) /\ (OneAdding(m, h) => OneAdding(m, h)')
        BY <1>9
      <4>2. f = User(h) => Adding(m, h) /\ (OneAdding(m, h) => ~Adding(m, h)')
        BY <1>10
      <4>3. UNCHANGED <<state, wants, seen>> /\ (Stuck => Stuck')
        BY <1>2, <1>8
      <4>4. /\ OneAt(m, h) => OneAt(m, h)'
            /\ CalledAt(m, h) => CalledAt(m, h)'
            /\ OneAt(m, h) /\ WaitsAt(m, h) => WaitsAt(m, h)'
        BY <1>8, <1>12, <2>1, <2>2, <4>1, <4>2, <4>3, AddedHandler
      <4> QED  BY <3>3, <4>4
    <3> QED  BY <3>2, <3>3
  <2>6. HandlersOK'
    <3>1. \A l \in Outs, h \in Handlers : OneAt(l, h)
      BY DEF HandlersOK, HandlerOK
    <3>2. \A l \in Outs, h \in Handlers : /\ OneAt(l, h) => OneAt(l, h)'
                                          /\ CalledAt(l, h) => CalledAt(l, h)'
                                          /\ WaitsAt(l, h) => WaitsAt(l, h)'
      BY <2>5, <3>1
    <3> QED  BY <1>2, <3>2, HandlersStep
  <2> QED  BY <1>8, <2>4, <2>6 DEF Inv
<1>13. CASE m \notin Outs
  <2>1. \A l \in Outs : l \in Lists /\ l # m
    BY <1>13, ListNames
  <2>2. \A l \in Outs : lists'[l] = lists[l] /\ (Top(l)' <=> Top(l)) /\ (OnStack(l)' <=> OnStack(l))
    BY <1>8, <2>1
  <2>3. \A l \in Outs, h \in Handlers : /\ Adding(l, h)' <=> Adding(l, h)
                                        /\ OneAdding(l, h) => OneAdding(l, h)'
    BY <1>9, <2>1
  <2>4. HandlersOK'
    BY <1>2, <1>8, <2>2, <2>3, OutsStay
  <2>5. ProgressListOK(lists[m], m)'
    <3>1. ProgressListOK(c, m) /\ Adds(m) \subseteq Adds(m)'
      BY <1>8, <1>13, AddsGrow DEF ListsOK
    <3>2. CASE c.gone
      BY <1>1, <1>8, <3>1, <3>2 DEF ProgressListOK
    <3>3. CASE ~c.gone
      <4>1. \A i \in DOMAIN n.items : n.items[i] \in Adds(m)'
        BY <1>1, <1>8, <3>1, <3>3, AddedInv, ZenonT(40) DEF ProgressListOK
      <4> QED  BY <1>8, <4>1 DEF ProgressListOK
    <3> QED  BY <3>2, <3>3
  <2>6. ListsOK'
    BY <1>2, <1>8, <1>11, <1>13, <2>5, OthersStay
  <2> QED  BY <1>8, <2>4, <2>6 DEF Inv
<1> QED  BY <1>12, <1>13

(* jQuery.when looks at its next argument: it listens to a deferred.         *)
LEMMA Listened ==
  ASSUME NEW i \in Nat, NEW d \in Base
  PROVE  /\ Listen(i, d) \in Seq(Works) /\ Len(Listen(i, d)) = 3
         /\ \A j \in 1..3 : WorkOK(Listen(i, d)[j]) /\ \A l, h : Listen(i, d)[j] # Add(l, User(h))
<1> DEFINE a == Add(DoneOf(d), UpdateResolve(i))
           b == Add(FailOf(d), Fires(FailOf("when")))
           c == Add(ProgressOf(d), UpdateProgress(i))
<1>1. d \in Made /\ "when" \in Made
  BY Names
<1>2. DoneOf(d) \in Lists /\ FailOf(d) \in Lists /\ ProgressOf(d) \in Lists
      /\ DoneOf(d)[1] = d /\ FailOf(d)[1] = d /\ ProgressOf(d)[1] = d
  BY <1>1, ListNames DEF DoneOf, FailOf, ProgressOf, Aspect
<1>3. UpdateResolve(i) \in Adds(DoneOf(d))
  BY <1>2 DEF Adds, UpdateResolve
<1>4. UpdateProgress(i) \in Adds(ProgressOf(d))
  BY <1>2 DEF Adds, UpdateProgress
<1>5. Fires(FailOf("when")) \in Adds(FailOf(d))
  <2>1. FailOf("when") \in {"when", "then"} \X Aspect
    BY DEF FailOf, Aspect
  <2> QED  BY <2>1 DEF Adds, Fires
<1>6. /\ a \in Works /\ WorkOK(a) /\ b \in Works /\ WorkOK(b) /\ c \in Works /\ WorkOK(c)
  BY <1>2, <1>3, <1>4, <1>5, WorkKinds
<1>7. ASSUME NEW l, NEW h
      PROVE  a # Add(l, User(h)) /\ b # Add(l, User(h)) /\ c # Add(l, User(h))
  <2>1. a.fn.k = "resolveValue" /\ b.fn.k = "fires" /\ c.fn.k = "progressValue"
    BY DEF Add, UpdateResolve, UpdateProgress, Fires
  <2>2. Add(l, User(h)).fn.k = "user"
    BY DEF Add, User
  <2> QED  BY <2>1, <2>2
<1>8. Listen(i, d) = <<a, b, c>>
  BY DEF Listen
<1> HIDE DEF a, b, c
<1> QED  BY <1>6, <1>7, <1>8

(* A part of a method that touches no list.                                  *)
LEMMA RestOfMethod ==
  ASSUME Inv, In("method"), Head(calls).todo # <<>>, Head(Head(calls).todo).op # "add",
         NEW todo \in Seq(Works), \A j \in DOMAIN todo : WorkOK(todo[j]), NEW k \in Nat,
         \A l, h, j : Part(todo, j, l, h) => Part(Tail(Head(calls).todo), j - k, l, h),
         \A l, h, j : Part(Tail(Head(calls).todo), j, l, h) => Part(todo, j + k, l, h),
         calls' = <<Method(todo)>> \o Tail(calls), lists' = lists,
         when' \in [args : Values, remaining : Int, values : Values, progress : Values],
         UNCHANGED <<state, seen, ghosts, bounds>>
  PROVE  Inv'
<1> USE InvFacts
<1> DEFINE old == Head(calls).todo
<1>1. /\ state' = state /\ seen' = seen /\ wants' = wants /\ used' = used
  BY DEF ghosts, bounds
<1>2. /\ \A l, h, j : Part(Tail(old), j, l, h) => Part(old, j + 1, l, h)
      /\ \A l, h, j : Part(old, j, l, h) /\ Head(old) # Add(l, User(h)) => Part(Tail(old), j - 1, l, h)
      /\ \A l : ~Top(l)
      /\ \A d \in Made : Rest(d)
  BY MethodFacts
<1>3. \A l, h : Head(old) # Add(l, User(h))
  BY WorkKinds
<1>4. \A l \in Lists : OnStack(l) => lists'[l].firing /\ (l \in Outs => lists'[l].memory = lists[l].memory)
  BY FiringHere
<1>5. PICK m \in Lists : TRUE
  BY Names, ListNames
<1>6. PICK fires \in BOOLEAN : ~fires
  OBVIOUS
<1>7. calls' = IF fires THEN <<Firing(m, NoData)>> \o (<<Method(todo)>> \o Tail(calls))
               ELSE <<Method(todo)>> \o Tail(calls)
  BY <1>6
<1>8. /\ StackOK' /\ Grows
      /\ \A l : Top(l)' <=> fires /\ l = m
      /\ \A l : OnStack(l)' <=> OnStack(l) \/ (fires /\ l = m)
      /\ \A l, h, p :
           /\ p \in Int
           /\ \A j : Part(todo, j, l, h) => Part(old, j + p, l, h)
           /\ \A j : Part(old, j, l, h) => Part(todo, j - p, l, h)
           => (Adding(l, h)' <=> Adding(l, h)) /\ (OneAdding(l, h) => OneAdding(l, h)')
  <2>1. fires => NoData \in DataOf(m)
    BY <1>6
  <2>2. fires => ~OnStack(m) /\ lists'[m].firing /\ (m \in Outs => NoData = lists'[m].memory)
    BY <1>6
  <2> HIDE DEF old
  <2>3. \A x : x = old => x = Head(calls).todo
    BY DEF old
  <2> QED  BY <1>1, <1>4, <1>7, <2>1, <2>2, MethodStep DEF old
<1>9. ASSUME NEW l, NEW h
      PROVE  (Adding(l, h)' <=> Adding(l, h)) /\ (OneAdding(l, h) => OneAdding(l, h)')
  <2>1. \A j : Part(todo, j, l, h) => j \in Int
    BY DEF Part
  <2>2. \A j : Part(old, j, l, h) => j \in Int
    <3>1. old \in Seq(Works)
      BY MethodFacts
    <3> QED  BY <3>1 DEF Part
  <2>3. ASSUME NEW j, Part(todo, j, l, h)
        PROVE  Part(old, j + (1 - k), l, h)
    <3>1. Part(old, (j - k) + 1, l, h)
      BY <1>2, <2>3
    <3>2. (j - k) + 1 = j + (1 - k)
      BY <2>1, <2>3
    <3> QED  BY <3>1, <3>2
  <2>4. ASSUME NEW j, Part(old, j, l, h)
        PROVE  Part(todo, j - (1 - k), l, h)
    <3>1. Part(todo, (j - 1) + k, l, h)
      BY <1>2, <1>3, <2>4
    <3>2. (j - 1) + k = j - (1 - k)
      BY <2>2, <2>4
    <3> QED  BY <3>1, <3>2
  <2>5. 1 - k \in Int
    OBVIOUS
  <2> QED  BY <1>8, <2>3, <2>4, <2>5
<1>10. \A l \in Lists : ~Top(l)' /\ (OnStack(l)' <=> OnStack(l))
  BY <1>6, <1>8
<1>11. Stuck => Stuck'
  <2>1. \A l \in Lists : lists[l].firing /\ ~OnStack(l) => lists'[l].firing /\ ~OnStack(l)'
    BY <1>10
  <2> QED  BY <2>1, StuckStays
<1>12. \A l \in Outs : l \in Lists
  BY ListNames
<1>13. HandlersOK'
  <2>1. \A l \in Outs : lists'[l] = lists[l] /\ (Top(l)' <=> Top(l)) /\ (OnStack(l)' <=> OnStack(l))
    BY <1>2, <1>10, <1>12
  <2> QED  BY <1>1, <1>9, <1>11, <2>1, OutsStay
<1>14. ListsOK'
  <2>1. \A l \in Outs : Begun(l)' = Begun(l)
    BY <1>2, <1>10, <1>12 DEF Begun
  <2>2. \A l \in Lists : Same(lists[l], lists'[l])
    BY SameItself
  <2>3. \A l \in Outs : Same(lists[l], lists'[l]) /\ lists'[l].index >= lists[l].index
    BY <1>12, <2>2, SMTT(40) DEF ListOK
  <2>4. \A l \in Lists \ Outs : ProgressListOK(lists[l], l)'
    BY <1>8, <2>2, ProgressKept
  <2>5. \A d \in Made : DeferredOK(d)' \/ (Rest(d) /\ state'[d] = state[d])
    BY <1>1, <1>2
  <2>6. \A l \in Outs : OnStack(l)' => OnStack(l)
    BY <1>10, <1>12
  <2>7. state' \in [Made -> {"pending", "resolved", "rejected"}] /\ used' \in 0..MaxCalls
    BY <1>1 DEF ListsOK
  <2> QED  BY <1>8, <2>1, <2>3, <2>4, <2>5, <2>6, <2>7, SameLists
<1> QED  BY <1>8, <1>13, <1>14 DEF Inv

LEMMA Joined ==
  ASSUME NEW S, NEW m \in Seq(S), NEW t \in Seq(S), Len(m) = 3
  PROVE  /\ m \o t \in Seq(S) /\ DOMAIN (m \o t) = 1..(Len(t) + 3) /\ DOMAIN t = 1..Len(t) /\ Len(t) \in Nat
         /\ \A j \in 1..(Len(t) + 3) : (m \o t)[j] = IF j <= 3 THEN m[j] ELSE t[j - 3]
<1>1. /\ m \o t \in Seq(S)
      /\ Len(m \o t) = Len(m) + Len(t)
      /\ \A i \in 1..Len(m) + Len(t) : (m \o t)[i] = IF i <= Len(m) THEN m[i] ELSE t[i - Len(m)]
  BY ConcatProperties, Zenon
<1>2. Len(t) \in Nat /\ DOMAIN t = 1..Len(t)
  OBVIOUS
<1> DEFINE u == m \o t
<1> HIDE DEF u
<1>3. u \in Seq(S) /\ Len(u) = Len(t) + 3
  BY <1>1, <1>2 DEF u
<1>4. DOMAIN u = 1..(Len(t) + 3)
  BY <1>3
<1>5. \A j \in 1..(Len(t) + 3) : u[j] = IF j <= 3 THEN m[j] ELSE t[j - 3]
  BY <1>1, <1>2 DEF u
<1> QED  BY <1>2, <1>3, <1>4, <1>5 DEF u

LEMMA ArgumentStep ==
  ASSUME Inv, Proceed, NEW i \in Nat, Head(Head(calls).todo) = Argument(i)
  PROVE  Inv'
<1> USE InvFacts
<1> DEFINE t == Tail(Head(calls).todo)
           s == Tail(calls)
           d == when.args[i]
<1>1. /\ In("method") /\ Head(calls).todo # <<>>
      /\ IF d \in Base
         THEN calls' = <<Method(Listen(i, d) \o Head(<<Method(t)>> \o s).todo)>> \o Tail(<<Method(t)>> \o s)
              /\ when' = when
         ELSE calls' = <<Method(t)>> \o s /\ when' = [when EXCEPT !.remaining = @ - 1]
      /\ lists' = lists /\ UNCHANGED <<state, seen, ghosts, bounds>>
  <2>1. Argument(i).op = "argument" /\ Argument(i).arg = i
    BY WorkKinds
  <2>2. Head(Head(calls).todo).op = "argument" /\ Head(Head(calls).todo).arg = i
    BY <2>1
  <2> QED  BY <2>2 DEF Proceed
<1>2. /\ t \in Seq(Works) /\ \A j \in DOMAIN t : WorkOK(t[j])
      /\ calls # <<>>
  BY <1>1, MethodFacts
<1>3. Head(Head(calls).todo).op # "add"
  BY WorkKinds
<1>4. s \in Seq(Frames)
  BY <1>2
<1>5. Method(t) \in Frames /\ Method(t).todo = t
  BY <1>2, WorkKinds
<1>6. Head(<<Method(t)>> \o s) = Method(t) /\ Tail(<<Method(t)>> \o s) = s
  <2> DEFINE g == Method(t)
  <2> HIDE DEF g, s
  <2>1. g \in Frames
    BY <1>5 DEF g
  <2>2. Head(<<g>> \o s) = g /\ Tail(<<g>> \o s) = s
    BY <1>4, <2>1, Pushed
  <2> QED  BY <2>2 DEF g
<1>7. CASE d \in Base
  <2> DEFINE m == Listen(i, d)
             u == m \o t
  <2>1. /\ m \in Seq(Works) /\ Len(m) = 3
        /\ \A j \in 1..3 : WorkOK(m[j]) /\ \A l, h : m[j] # Add(l, User(h))
    BY <1>7, Listened
  <2>2. calls' = <<Method(u)>> \o s /\ when' = when
    BY <1>1, <1>5, <1>6, <1>7
  <2>9. /\ t \in Seq(Works) /\ \A j \in DOMAIN t : WorkOK(t[j])
    BY <1>2
  <2> HIDE DEF m, t, s
  <2>3. /\ u \in Seq(Works) /\ DOMAIN u = 1..(Len(t) + 3) /\ DOMAIN t = 1..Len(t) /\ Len(t) \in Nat
        /\ \A j \in 1..(Len(t) + 3) : u[j] = IF j <= 3 THEN m[j] ELSE t[j - 3]
    BY <2>1, <2>9, Joined, SMTT(40)
  <2> HIDE DEF u
  <2>4. \A j \in 1..(Len(t) + 3) : j \in 1..3 \/ (j > 3 /\ j - 3 \in 1..Len(t))
    BY <2>3
  <2>5. \A j \in DOMAIN u : WorkOK(u[j])
    <3> SUFFICES ASSUME NEW j \in 1..(Len(t) + 3)
                 PROVE  WorkOK(u[j])
      BY <2>3
    <3>1. CASE j \in 1..3
      <4>1. u[j] = m[j]
        BY <2>3, <3>1
      <4> QED  BY <2>1, <3>1, <4>1
    <3>2. CASE j > 3 /\ j - 3 \in 1..Len(t)
      <4>1. u[j] = t[j - 3]
        BY <2>3, <3>2
      <4> QED  BY <2>3, <2>9, <3>2, <4>1
    <3> QED  BY <2>4, <3>1, <3>2
  <2>6. ASSUME NEW l, NEW h, NEW j, Part(u, j, l, h)
        PROVE  Part(t, j - 3, l, h)
    <3>1. j \in 1..(Len(t) + 3) /\ u[j] = Add(l, User(h))
      BY <2>3, <2>6 DEF Part
    <3>2. ~(j \in 1..3)
      <4> SUFFICES ASSUME j \in 1..3
                   PROVE  FALSE
        OBVIOUS
      <4>1. u[j] = m[j]
        BY <2>3, <3>1
      <4> QED  BY <2>1, <3>1, <4>1
    <3>3. j > 3 /\ j - 3 \in 1..Len(t)
      BY <2>4, <3>1, <3>2
    <3>4. u[j] = t[j - 3]
      BY <2>3, <3>1, <3>3
    <3> QED  BY <2>3, <3>1, <3>3, <3>4 DEF Part
  <2>7. ASSUME NEW l, NEW h, NEW j, Part(t, j, l, h)
        PROVE  Part(u, j + 3, l, h)
    <3>1. j \in 1..Len(t) /\ t[j] = Add(l, User(h))
      BY <2>3, <2>7 DEF Part
    <3>2. j + 3 \in 1..(Len(t) + 3) /\ ~(j + 3 <= 3) /\ (j + 3) - 3 = j
      BY <2>3, <3>1
    <3>3. u[j + 3] = t[j]
      BY <2>3, <3>2
    <3> QED  BY <2>3, <3>1, <3>2, <3>3 DEF Part
  <2>8. 3 \in Nat /\ when' \in [args : Values, remaining : Int, values : Values, progress : Values]
    BY <2>2
  <2> QED  BY <1>1, <1>3, <2>2, <2>3, <2>5, <2>6, <2>7, <2>8, RestOfMethod DEF t, s
<1>8. CASE d \notin Base
  <2>1. /\ calls' = <<Method(t)>> \o s /\ when' = [when EXCEPT !.remaining = @ - 1]
    BY <1>1, <1>8
  <2>2. when' \in [args : Values, remaining : Int, values : Values, progress : Values]
    BY <2>1
  <2>3. \A l, h, j : Part(t, j, l, h) => Part(t, j - 0, l, h) /\ Part(t, j + 0, l, h)
    BY <1>2 DEF Part
  <2> QED  BY <1>1, <1>2, <1>3, <2>1, <2>2, <2>3, RestOfMethod
<1> QED  BY <1>7, <1>8

(* The next part of a method.                                                *)
LEMMA ProceedStep ==
  ASSUME Inv, Proceed
  PROVE  Inv'
<1> USE InvFacts
<1> DEFINE do == Head(Head(calls).todo)
           rest == <<Method(Tail(Head(calls).todo))>> \o Tail(calls)
<1>1. /\ In("method") /\ Head(calls).todo # <<>>
      /\ UNCHANGED <<state, seen, ghosts, bounds>>
  BY DEF Proceed
<1>2. do \in Works /\ WorkOK(do)
  BY <1>1, MethodFacts
<1>3. CASE do \in [op : {"add"}, list : Lists, fn : Functions]
  <2>1. do.op = "add" /\ do.list \in Lists /\ do.fn \in Adds(do.list) /\ do = Add(do.list, do.fn)
    BY <1>2, <1>3 DEF WorkOK, Add
  <2>2. PICK m, f : m = do.list /\ f = do.fn
    OBVIOUS
  <2>3. /\ m \in Lists /\ f \in Adds(m) /\ do = Add(m, f)
    BY <2>1, <2>2
  <2>4. /\ lists' = [lists EXCEPT ![m] = Added(lists[m], f)]
        /\ calls' = IF AddFires(lists[m]) THEN <<Firing(m, lists[m].memory)>> \o rest ELSE rest
        /\ when' = when
    BY <2>1, <2>2 DEF Proceed, Entering
  <2> QED  BY <1>1, <2>3, <2>4, AddStep
<1>4. CASE do \in [op : {"fireWith"}, list : Lists, data : Values]
  <2>1. do.op = "fireWith" /\ do.list \in Lists /\ do.data \in DataOf(do.list)
    BY <1>2, <1>4 DEF WorkOK
  <2>2. PICK m, data : m = do.list /\ data = do.data
    OBVIOUS
  <2>3. /\ lists' = [lists EXCEPT ![m] = FiredWith(lists[m], data)]
        /\ calls' = IF FiresNow(lists[m]) THEN <<Firing(m, data)>> \o rest ELSE rest
        /\ when' = when
    BY <2>1, <2>2 DEF Proceed, Entering
  <2> QED  BY <1>1, <2>1, <2>2, <2>3, FireStep
<1>5. CASE do \in [op : {"argument"}, arg : Nat]
  <2>1. do.arg \in Nat /\ do = Argument(do.arg)
    BY <1>5 DEF Argument
  <2>2. PICK i \in Nat : i = do.arg
    BY <2>1
  <2> QED  BY <2>1, <2>2, ArgumentStep
<1>6. CASE do \in [op : {"resolveIfDone"}]
  <2>1. do.op = "resolveIfDone"
    BY <1>6
  <2>2. when' = when
    BY <2>1 DEF Proceed
  <2>3. CASE when.remaining = 0
    <3>1. DoneOf("when") \in Lists /\ DoneOf("when")[1] = "when" /\ "when" \notin Base
      BY Names, ListNames DEF DoneOf, Aspect
    <3>2. when.values \in DataOf(DoneOf("when"))
      BY <3>1 DEF DataOf
    <3>3. PICK m, data : m = DoneOf("when") /\ data = when.values
      OBVIOUS
    <3>4. /\ lists' = [lists EXCEPT ![m] = FiredWith(lists[m], data)]
          /\ calls' = IF FiresNow(lists[m]) THEN <<Firing(m, data)>> \o rest ELSE rest
      BY <2>1, <2>3, <3>3 DEF Proceed, Entering
    <3> QED  BY <1>1, <2>1, <2>2, <3>1, <3>2, <3>3, <3>4, FireStep
  <2>4. CASE when.remaining # 0
    <3> DEFINE t == Tail(Head(calls).todo)
    <3>1. calls' = rest /\ lists' = lists
      BY <2>1, <2>4 DEF Proceed
    <3>2. t \in Seq(Works) /\ \A j \in DOMAIN t : WorkOK(t[j])
      BY <1>1, MethodFacts
    <3>3. \A l, h, j : Part(t, j, l, h) => Part(t, j - 0, l, h) /\ Part(t, j + 0, l, h)
      BY <3>2 DEF Part
    <3>4. Head(Head(calls).todo).op # "add"
      BY <2>1
    <3>5. when' \in [args : Values, remaining : Int, values : Values, progress : Values]
      BY <2>2
    <3> QED  BY <1>1, <3>1, <3>2, <3>3, <3>4, <3>5, RestOfMethod
  <2> QED  BY <2>3, <2>4
<1> QED  BY <1>2, <1>3, <1>4, <1>5, <1>6 DEF Works
-----------------------------------------------------------------------------
(* The invariant.                                                            *)

(* The invariant is about deferreds.                                         *)
LEMMA InvDeferreds ==
  ASSUME Inv
  PROVE  Deferreds
BY InvFacts, ListNames DEF Deferreds

LEMMA Stutter ==
  ASSUME Inv, UNCHANGED vars
  PROVE  Inv'
<1> USE InvFacts
<1>1. /\ lists' = lists /\ state' = state /\ calls' = calls /\ when' = when /\ seen' = seen
      /\ wants' = wants /\ used' = used
  BY DEF vars, ghosts, bounds
<1>2. \A l \in Lists : OnStack(l) => lists'[l].firing /\ (l \in Outs => lists'[l].memory = lists[l].memory)
  BY <1>1, FiringHere
<1>3. /\ StackOK' /\ Grows
      /\ \A l : (Top(l)' <=> Top(l)) /\ (OnStack(l)' <=> OnStack(l))
      /\ \A l, h : (Adding(l, h)' <=> Adding(l, h)) /\ (OneAdding(l, h)' <=> OneAdding(l, h))
  BY <1>1, <1>2, StackKept
<1>4. Stuck => Stuck'
  <2>1. \A l \in Lists : lists[l].firing /\ ~OnStack(l) => lists'[l].firing /\ ~OnStack(l)'
    BY <1>1, <1>3
  <2> QED  BY <2>1, StuckStays
<1>5. HandlersOK'
  BY <1>1, <1>3, <1>4, OutsStay
<1>6. ListsOK'
  <2>1. \A l \in Outs : Begun(l)' = Begun(l) /\ BegunOK(l)
    BY <1>1, <1>3 DEF Begun, ListsOK
  <2>2. \A l \in Outs : BegunOK(l)'
    BY <1>1, <1>3, <2>1 DEF BegunOK
  <2>3. \A l \in Lists \ Outs : ProgressListOK(lists[l], l)'
    BY <1>1, <1>3, SameItself, ProgressKept
  <2>4. ASSUME NEW d \in Made
        PROVE  DeferredOK(d)'
    <3>1. \A l : Adds(l)' = Adds(l)
      BY <1>1 DEF Adds
    <3>2. \A l : /\ Fresh(lists[l], l)' <=> Fresh(lists[l], l)
                 /\ First(lists[l], l)' <=> First(lists[l], l)
                 /\ Later(lists[l], l)' <=> Later(lists[l], l)
                 /\ Gone(lists[l])' <=> Gone(lists[l])
      BY <1>1, <3>1 DEF Fresh, First, Later, Gone, Added3
    <3>3. \A l, i : /\ Settling(l, i) => Settling(l, i)'
                    /\ Settled(l) => Settled(l)'
      BY <1>1, <1>3, <3>2 DEF Settling, Settled
    <3>4. Pending(d) => Pending(d)'
      BY <1>1, <3>2 DEF Pending
    <3>5. DeferredOK(d)
      BY DEF ListsOK
    <3> QED  BY <3>3, <3>4, <3>5 DEF DeferredOK
  <2>5. /\ \A l \in Lists : ListOK(lists'[l], l)
        /\ state' \in [Made -> {"pending", "resolved", "rejected"}]
        /\ when' \in [args : Values, remaining : Int, values : Values, progress : Values]
        /\ used' \in 0..MaxCalls /\ DOMAIN lists' = Lists
    BY <1>1 DEF ListsOK
  <2> QED  BY <1>3, <2>2, <2>3, <2>4, <2>5, ListsStep
<1> QED  BY <1>3, <1>5, <1>6 DEF Inv

(* A page has deferreds or a plain list from first to last.                  *)
LEMMA DomainStays ==
  ASSUME [Next]_vars
  PROVE  DOMAIN lists' = DOMAIN lists
<1>1. \A ls : DOMAIN AfterReturn(ls) = DOMAIN ls
  BY DEF AfterReturn, Advance
<1>2. \A l, ls : DOMAIN Advance(l, ls) = DOMAIN ls
  BY DEF Advance
<1>3. DOMAIN Paid = DOMAIN lists
  BY DEF Paid
<1>4. CASE Proceed
  <2>1. PICK do : do = Head(Head(calls).todo)
    OBVIOUS
  <2>2. CASE do.op \in {"add", "fireWith", "remove", "empty", "disable", "lock"}
    BY <1>4, <2>1, <2>2 DEF Proceed, Entering
  <2>3. CASE do.op = "argument"
    BY <1>4, <2>1, <2>3 DEF Proceed
  <2>4. CASE do.op \notin {"add", "fireWith", "remove", "empty", "disable", "lock", "argument"}
    BY <1>4, <2>1, <2>4 DEF Proceed, Entering
  <2> QED  BY <2>2, <2>3, <2>4
<1>5. CASE Finish
  BY <1>1, <1>5 DEF Finish
<1>6. CASE CallHandler \/ CallSetState \/ CallFires \/ CallUpdate \/ CallForward
  BY <1>2, <1>3, <1>6 DEF CallHandler, CallSetState, CallFires, CallUpdate, CallForward
<1>7. CASE CallDisableOrLock
  BY <1>2, <1>3, <1>7 DEF CallDisableOrLock
<1>8. CASE EndOfLoop
  BY <1>1, <1>8 DEF EndOfLoop
<1>9. CASE Return
  <2>1. PICK l : \/ lists' = AfterReturn(lists)
                 \/ lists' = [lists EXCEPT ![l].memory = NoData, ![l].due = <<>>, ![l].index = lists[l].length]
    BY <1>9 DEF Return
  <2> QED  BY <1>1, <2>1
<1>10. CASE Crash \/ Throw
  BY <1>10 DEF Crash, Throw
<1>11. CASE UseList \/ Fire \/ Register \/ When \/ Then
  BY <1>11 DEF UseList, Fire, Register, When, Then, Call
<1>12. CASE UNCHANGED vars
  BY <1>12 DEF vars
<1> QED  BY <1>4, <1>5, <1>6, <1>7, <1>8, <1>9, <1>10, <1>11, <1>12 DEF Next

(* Every step keeps the invariant.                                           *)
LEMMA InvStep ==
  ASSUME Inv, [Next]_vars
  PROVE  Inv'
<1>1. Deferreds
  BY InvDeferreds
<1>2. CASE UNCHANGED vars
  BY <1>2, Stutter
<1>3. CASE Proceed
  BY <1>3, ProceedStep
<1>4. CASE Finish
  BY <1>4, FinishStep
<1>5. CASE CallHandler
  BY <1>5, CallHandlerStep
<1>6. CASE CallSetState
  BY <1>6, CallSetStateStep
<1>7. CASE CallDisableOrLock
  BY <1>7, CallDisableStep, CallLockStep
<1>8. CASE CallFires
  BY <1>8, CallFiresStep
<1>9. CASE CallUpdate
  BY <1>9, CallUpdateStep
<1>10. CASE CallForward
  BY <1>10, CallForwardStep
<1>11. CASE EndOfLoop
  BY <1>11, EndOfLoopStep
<1>12. CASE Crash
  BY <1>12, CrashStep
<1>13. CASE Return
  BY <1>13, ReturnStep
<1>14. CASE Throw
  BY <1>14, ThrowStep
<1>15. CASE UseList
  BY <1>1, <1>15 DEF UseList, Deferreds
<1>16. CASE Fire
  BY <1>16, FireByPage
<1>17. CASE Register
  BY <1>17, RegisterStep
<1>18. CASE When
  BY <1>18, WhenStep
<1>19. CASE Then
  BY <1>19, ThenStep
<1> QED  BY <1>2, <1>3, <1>4, <1>5, <1>6, <1>7, <1>8, <1>9, <1>10, <1>11, <1>12, <1>13, <1>14, <1>15,
            <1>16, <1>17, <1>18, <1>19 DEF Next

(* The lists a page begins with.                                             *)
LEMMA InitLists ==
  ASSUME Init, Deferreds
  PROVE  /\ lists = DeferredLists /\ DOMAIN lists = Lists
         /\ \A l \in Lists : ListOK(lists[l], l)
         /\ \A l \in Outs : Fresh(lists[l], l) /\ lists[l].items = Core(l)
         /\ \A l \in Lists \ Outs : lists[l].items = <<>>
<1>1. lists = DeferredLists
  <2>1. \A flags : lists # [l \in {Plain} |-> NewList(flags)]
    BY DEF Deferreds
  <2> QED  BY <2>1 DEF Init
<1>2. DOMAIN lists = Lists
  BY <1>1 DEF DeferredLists, Lists
<1>3. ASSUME NEW l \in Lists \ Outs
      PROVE  ListOK(lists[l], l) /\ lists[l].items = <<>>
  <2>1. l[2] = "progress"
    BY <1>3 DEF Lists, Outs, Aspect
  <2>2. lists[l] = NewList({"memory"})
    BY <1>1, <1>3, <2>1 DEF DeferredLists, Lists
  <2> QED  BY <2>1, <2>2 DEF NewList, ListOK
<1>4. ASSUME NEW l \in Outs
      PROVE  /\ ListOK(lists[l], l) /\ Fresh(lists[l], l) /\ lists[l].items = Core(l)
  <2>1. l \in Lists /\ l[2] # "progress" /\ l[1] \in Made
    BY <1>4 DEF Lists, Outs, Aspect
  <2>2. lists[l] = [NewList({"once", "memory"}) EXCEPT !.items = Core(l)]
    BY <1>1, <1>4, <2>1 DEF DeferredLists, Lists, Core, Other
  <2>3. Core(l) \in Seq(Functions \cup Closures) /\ Len(Core(l)) = 3
    <3>1. SetState(l[1], Outcome(l[2])) \in Closures
      BY <2>1, <1>4, ListNames DEF Closures, SetState
    <3>2. Disable(Other(l)) \in Closures
      <4>1. Other(l) \in Lists
        BY <1>4, ListNames
      <4> QED  BY <4>1 DEF Closures, Disable
    <3>3. Lock(ProgressOf(l[1])) \in Closures
      BY <2>1, ListNames DEF Closures, Lock
    <3> QED  BY <3>1, <3>2, <3>3 DEF Core
  <2> DEFINE k == Core(l)
  <2> HIDE DEF k
  <2>4. lists[l] = [NewList({"once", "memory"}) EXCEPT !.items = k] /\ k \in Seq(Functions \cup Closures)
        /\ Len(k) = 3
    BY <2>2, <2>3 DEF k
  <2>5. ListOK(lists[l], l)
    BY <2>1, <2>4 DEF NewList, ListOK
  <2>6. lists[l].items = k
    BY <2>4 DEF NewList
  <2>7. Added3(lists[l], l)
    <3>0. Len(k) = 3 /\ k \in Seq(Functions \cup Closures)
      BY <2>4, Zenon
    <3>1. DOMAIN k = 1..3
      BY <3>0
    <3>2. k = Core(l)
      BY DEF k
    <3>3. Len(lists[l].items) >= 3
      BY <2>6, <3>0
    <3>4. \A i \in 1..3 : lists[l].items[i] = Core(l)[i]
      BY <2>6, <3>2
    <3>5. \A i \in DOMAIN lists[l].items : ~(i > 3)
      BY <2>6, <3>1
    <3> QED  BY <3>3, <3>4, <3>5 DEF Added3
  <2>8. Fresh(lists[l], l)
    BY <2>4, <2>7 DEF Fresh, NewList
  <2> QED  BY <2>5, <2>6, <2>8 DEF k
<1> QED  BY <1>1, <1>2, <1>3, <1>4, ListNames

(* It holds at first.                                                        *)
LEMMA InitInv ==
  ASSUME Init, Deferreds
  PROVE  Inv
<1>1. /\ calls = <<>> /\ state = [d \in Made |-> "pending"] /\ when = NoWhen
      /\ seen = [h \in Handlers |-> <<>>] /\ wants = [h \in Handlers |-> {}] /\ used = 0
  BY DEF Init
<1>2. /\ DOMAIN lists = Lists
      /\ \A l \in Lists : ListOK(lists[l], l)
      /\ \A l \in Outs : Fresh(lists[l], l) /\ lists[l].items = Core(l)
      /\ \A l \in Lists \ Outs : lists[l].items = <<>>
  BY InitLists
<1>3. DOMAIN calls = {} /\ calls \in Seq(Frames)
  BY <1>1
<1>4. StackOK
  BY <1>3 DEF StackOK, FramesOK, OneFiring
<1>5. ListsOK
  <2>1. \A l \in Lists : l \notin Outs => ProgressListOK(lists[l], l)
    BY <1>2 DEF ProgressListOK
  <2>2. state \in [Made -> {"pending", "resolved", "rejected"}]
    BY <1>1
  <2>3. \A d \in Made : DeferredOK(d)
    BY <1>1, <1>2, ListNames DEF DeferredOK, Pending
  <2>4. \A l \in Outs : BegunOK(l)
    BY <1>3 DEF BegunOK, OnStack
  <2>5. when \in [args : Values, remaining : Int, values : Values, progress : Values]
    BY <1>1 DEF NoWhen, Values
  <2>6. used \in 0..MaxCalls
    BY <1>1, Names
  <2> QED  BY <1>2, <2>1, <2>2, <2>3, <2>4, <2>5, <2>6 DEF ListsOK
<1>6. HandlersOK
  <2>1. wants \in [Handlers -> SUBSET [on : Made, how : {"resolved", "rejected"}]] /\ DOMAIN seen = Handlers
    BY <1>1
  <2>2. ASSUME NEW h \in Handlers
        PROVE  HandlerOK(h)
    <3>1. wants[h] = {} /\ seen[h] = <<>>
      BY <1>1
    <3>2. ASSUME NEW l \in Outs
          PROVE  OneAt(l, h) /\ WaitsAt(l, h)
      <4>1. ~Asked(l, h)
        BY <3>1 DEF Asked
      <4>2. OneAdding(l, h) /\ ~Adding(l, h)
        BY <1>3 DEF OneAdding, Adding
      <4>3. Places(l, h) = {}
        <5>1. \A i \in 1..3 : Core(l)[i].k # "user"
          BY Kinds
        <5>2. DOMAIN Core(l) = 1..3 /\ lists[l].items = Core(l)
          BY <1>2 DEF Core
        <5>3. User(h).k = "user"
          BY Kinds
        <5> QED  BY <5>1, <5>2, <5>3 DEF Places
      <4> QED  BY <4>1, <4>2, <4>3 DEF OneAt, WaitsAt
    <3>3. \E d \in Made : wants[h] \subseteq [on : {d}, how : {"resolved", "rejected"}]
      BY <3>1 DEF Made
    <3> QED  BY <3>1, <3>2, <3>3 DEF HandlerOK
  <2> QED  BY <2>1, <2>2 DEF HandlersOK
<1> QED  BY <1>4, <1>5, <1>6 DEF Inv

(* However the callbacks call each other: every list, every deferred and     *)
(* every handler is where the calls under way say it must be.                *)
THEOREM DeferredInvThm == Spec => []DeferredInv
<1>1. DeferredInv <=> (Deferreds => Inv)
  BY DEF DeferredInv, Inv
<1>2. Init => DeferredInv
  BY <1>1, InitInv
<1>3. DeferredInv /\ [Next]_vars => DeferredInv'
  <2> SUFFICES ASSUME DeferredInv, [Next]_vars, Deferreds'
               PROVE  Inv'
    BY DEF DeferredInv, Inv
  <2>1. Deferreds
    BY DomainStays DEF Deferreds
  <2>2. Inv
    BY <1>1, <2>1
  <2> QED  BY <2>2, InvStep
<1> QED  BY <1>2, <1>3, PTL DEF Spec
-----------------------------------------------------------------------------
(* When nothing runs.                                                        *)

(* Whatever the page did, and its callbacks in the middle of it: when        *)
(* nothing runs any more and no exception has cut a firing short, every      *)
(* handler of an outcome that has come about has been called.                *)
THEOREM QuietServedThm == Spec => []QuietServed
<1>1. DeferredInv => QuietServed
  <2> SUFFICES ASSUME Inv, Quiet, NEW h \in Handlers, NEW w \in wants[h], state[w.on] = w.how
               PROVE  seen[h] # <<>>
    BY DEF QuietServed, DeferredInv, Inv
  <2> USE InvFacts
  <2>1. w \in [on : Made, how : {"resolved", "rejected"}]
    BY DEF HandlersOK
  <2>2. PICK l \in Outs : w = Want(l) /\ l[1] = w.on /\ Outcome(l[2]) = w.how
    <3>1. DoneOf(w.on) \in Outs /\ FailOf(w.on) \in Outs
      BY <2>1, ListNames
    <3>2. CASE w.how = "resolved"
      BY <2>1, <3>1, <3>2 DEF Want, DoneOf, Outcome
    <3>3. CASE w.how = "rejected"
      BY <2>1, <3>1, <3>3 DEF Want, FailOf, Outcome
    <3> QED  BY <2>1, <3>2, <3>3
  <2>3. Asked(l, h) /\ l \in Lists /\ w.how # "pending"
    BY <2>1, <2>2, ListNames DEF Asked
  <2>4. calls = <<>> /\ \A m \in Lists : ~lists[m].firing
    BY DEF Quiet, Idle
  <2>5. Rest(l[1])
    <3>1. \A m \in Outs : ~Top(m)
      BY <2>4 DEF Top
    <3> QED  BY <2>1, <2>2, <3>1, AllAtRest
  <2>6. Settled(l)
    <3>1. ~Pending(l[1])
      BY <2>2, <2>3 DEF Pending
    <3>2. ~Settled(Other(l))
      <4>1. Outcome(l[2]) # Outcome(Other(l)[2]) /\ Other(l)[1] = l[1]
        BY ListNames
      <4> QED  BY <2>2, <4>1 DEF Settled
    <3> QED  BY <2>5, <3>1, <3>2, OwnList
  <2>7. ~lists[l].gone /\ lists[l].items = <<>>
    BY <2>3, <2>4, <2>6, SettledFacts
  <2>8. Places(l, h) = {} /\ ~Adding(l, h) /\ ~Stuck
    BY <2>4, <2>7 DEF Places, Adding, Stuck
  <2>9. WaitsAt(l, h)
    BY DEF HandlersOK, HandlerOK
  <2> QED  BY <2>3, <2>7, <2>8, <2>9 DEF WaitsAt
<1> QED  BY <1>1, DeferredInvThm, PTL
-----------------------------------------------------------------------------
(* The refinement: an outcome keeps its data.                                *)

(* What a deferred is settled with is the memory of the list of its outcome. *)
LEMMA SettledMemory ==
  ASSUME Inv, NEW l \in Outs, state[l[1]] = Outcome(l[2])
  PROVE  /\ l \in Lists /\ ListOK(lists[l], l)
         /\ Settling(l, 1) \/ Settled(l)
         /\ SettledWith(l[1]) = lists[l].memory
         /\ lists[l].memory # NoData /\ lists[l].memory \in DataOf(l) /\ ~lists[l].gone /\ ~lists[l].again
         /\ ~MayFire(lists[l])
<1> USE InvFacts
<1>1. /\ l \in Lists /\ ListOK(lists[l], l) /\ l[1] \in Made
      /\ Outcome(l[2]) # "pending" /\ Outcome(l[2]) # Outcome(Other(l)[2]) /\ Other(l)[1] = l[1]
      /\ (l = DoneOf(l[1]) \/ l = FailOf(l[1]))
      /\ Other(DoneOf(l[1])) = FailOf(l[1]) /\ Other(FailOf(l[1])) = DoneOf(l[1])
  <2>1. l \in Lists /\ (l = DoneOf(l[1]) \/ l = FailOf(l[1]))
    BY ListNames
  <2>2. l[1] \in Made
    BY ListNames
  <2> QED  BY <2>1, <2>2, ListNames
<1>2. \A m \in {DoneOf(l[1]), FailOf(l[1])} : m = l \/ m = Other(l)
  BY <1>1
<1>3. DeferredOK(l[1])
  BY <1>1 DEF ListsOK
<1>4. Settling(l, 1) \/ Settled(l)
  BY <1>1, <1>2, <1>3 DEF DeferredOK, Pending, Settling, Settled
<1>5. First(lists[l], l) \/ Later(lists[l], l)
  BY <1>4 DEF Settling, Settled
<1>6. lists[l].memory # NoData /\ ~lists[l].gone /\ ~lists[l].again /\ lists[l].fired
  BY <1>5 DEF First, Later
<1>7. SettledWith(l[1]) = lists[l].memory
  <2>1. CASE l = DoneOf(l[1])
    <3>1. l[2] = "done"
      BY <2>1 DEF DoneOf
    <3> QED  BY <2>1, <3>1 DEF SettledWith, Outcome
  <2>2. CASE l = FailOf(l[1])
    <3>1. l[2] = "fail"
      BY <2>2 DEF FailOf
    <3> QED  BY <2>2, <3>1 DEF SettledWith, Outcome
  <2> QED  BY <1>1, <2>1, <2>2
<1> QED  BY <1>1, <1>4, <1>6, <1>7 DEF ListOK, MayFire

(* That memory is never changed.                                             *)
LEMMA MemoryKept ==
  ASSUME Inv, Next, NEW l \in Outs, state[l[1]] = Outcome(l[2])
  PROVE  lists'[l].memory = lists[l].memory
<1> USE InvFacts
<1>1. /\ l \in Lists /\ ListOK(lists[l], l)
      /\ Settling(l, 1) \/ Settled(l)
      /\ lists[l].memory # NoData /\ lists[l].memory \in DataOf(l) /\ ~lists[l].gone /\ ~lists[l].again
      /\ ~MayFire(lists[l])
  BY SettledMemory
<1>2. CASE lists' = lists
  BY <1>2
<1>3. ASSUME NEW m \in Lists, NEW c, lists' = [lists EXCEPT ![m] = c], m = l => c.memory = lists[l].memory
      PROVE  lists'[l].memory = lists[l].memory
  BY <1>1, <1>3
<1>4. Loop => Here \in Lists
  BY LoopFacts
<1>5. ASSUME NEW ls, DOMAIN ls = Lists, \A m \in Lists : ListOK(ls[m], m), ls[l].memory = lists[l].memory
      PROVE  AfterReturn(ls)[l].memory = lists[l].memory
  <2>1. CASE AfterReturn(ls) = ls
    BY <1>5, <2>1
  <2>2. CASE AfterReturn(ls) # ls
    <3>1. /\ Tail(calls) # <<>> /\ Head(Tail(calls)).k = "fire"
          /\ AfterReturn(ls) = Advance(Head(Tail(calls)).list, ls)
      BY <2>2 DEF AfterReturn
    <3> QED  BY <1>5, <3>1 DEF Advance
  <2> QED  BY <2>1, <2>2
<1>6. AtCall(lists[Here]) /\ Loop => /\ Paid[l].memory = lists[l].memory
                                     /\ Advance(Here, Paid)[l].memory = lists[l].memory
                                     /\ DOMAIN Advance(Here, Paid) = Lists
  <2> SUFFICES ASSUME Loop
               PROVE  /\ Paid[l].memory = lists[l].memory
                      /\ Advance(Here, Paid)[l].memory = lists[l].memory
                      /\ DOMAIN Advance(Here, Paid) = Lists
    OBVIOUS
  <2>1. DOMAIN Paid = Lists /\ (\A m \in Lists : ListOK(Paid[m], m)) /\ Same(lists[l], Paid[l])
    BY <1>1, <1>4, PaidLists
  <2>2. DOMAIN Advance(Here, Paid) = Lists /\ Same(Paid[l], Advance(Here, Paid)[l])
    BY <1>1, <1>4, <2>1, AdvancedLists
  <2> QED  BY <2>1, <2>2 DEF Same
<1>7. CASE Proceed
  <2>1. PICK do : do = Head(Head(calls).todo)
    OBVIOUS
  <2>2. In("method") /\ Head(calls).todo # <<>>
    BY <1>7 DEF Proceed
  <2>3. do \in Works /\ WorkOK(do)
    BY <2>1, <2>2, MethodFacts
  <2>4. CASE do \in [op : {"add"}, list : Lists, fn : Functions]
    <3>1. do.op = "add" /\ do.list \in Lists /\ do.fn \in Adds(do.list)
      BY <2>3, <2>4 DEF WorkOK
    <3>2. lists' = [lists EXCEPT ![do.list] = Added(lists[do.list], do.fn)]
      BY <1>7, <2>1, <3>1 DEF Proceed, Entering
    <3>3. Added(lists[do.list], do.fn).memory = lists[do.list].memory
      BY <3>1, AddedList
    <3> QED  BY <1>3, <3>1, <3>2, <3>3
  <2>5. CASE do \in [op : {"fireWith"}, list : Lists, data : Values]
    <3>1. do.op = "fireWith" /\ do.list \in Lists
      BY <2>5
    <3>2. lists' = [lists EXCEPT ![do.list] = FiredWith(lists[do.list], do.data)]
      BY <1>7, <2>1, <3>1 DEF Proceed, Entering
    <3>3. do.list = l => FiredWith(lists[do.list], do.data).memory = lists[l].memory
      BY <1>1 DEF FiredWith
    <3> QED  BY <1>3, <3>1, <3>2, <3>3
  <2>6. CASE do \in [op : {"argument"}, arg : Nat]
    <3>1. do.op = "argument"
      BY <2>6
    <3> QED  BY <1>2, <1>7, <2>1, <3>1 DEF Proceed
  <2>7. CASE do \in [op : {"resolveIfDone"}]
    <3>1. do.op = "resolveIfDone"
      BY <2>7
    <3>2. PICK m : m = DoneOf("when")
      OBVIOUS
    <3>3. m \in Lists
      BY <3>2, Names, ListNames DEF DoneOf, Aspect
    <3>4. lists' = lists \/ lists' = [lists EXCEPT ![m] = FiredWith(lists[m], when.values)]
      BY <1>7, <2>1, <3>1, <3>2 DEF Proceed, Entering
    <3>5. m = l => FiredWith(lists[m], when.values).memory = lists[l].memory
      BY <1>1 DEF FiredWith
    <3> QED  BY <1>3, <3>3, <3>4, <3>5
  <2> QED  BY <2>3, <2>4, <2>5, <2>6, <2>7 DEF Works
<1>8. CASE Finish
  BY <1>5, <1>8 DEF Finish
<1>9. CASE CallHandler \/ CallFires \/ CallUpdate \/ CallForward
  <2>1. lists' = Paid /\ Loop /\ AtCall(lists[Here])
    BY <1>9 DEF CallHandler, CallFires, CallUpdate, CallForward, NextIs
  <2> QED  BY <1>6, <2>1
<1>10. CASE CallSetState
  <2>1. lists' = Advance(Here, Paid) /\ Loop /\ AtCall(lists[Here])
    BY <1>10 DEF CallSetState, NextIs
  <2> QED  BY <1>6, <2>1
<1>11. CASE CallDisableOrLock
  <2>1. Loop /\ AtCall(lists[Here]) /\ (Called.k = "disable" \/ Called.k = "lock")
    BY <1>11 DEF CallDisableOrLock, NextIs
  <2>2. PICK m : m = Called.list
    OBVIOUS
  <2>3. \E c : lists' = [Advance(Here, Paid) EXCEPT ![m] = c]
    BY <1>11, <2>2 DEF CallDisableOrLock
  <2>4. m # l
    <3>1. CASE Called.k = "disable"
      <4>1. Here \in Outs /\ Settling(Here, 1) /\ m = Other(Here)
        <5>1. Here \in Outs /\ Settling(Here, 1) /\ Called = Disable(Other(Here))
          BY <2>1, <3>1, CalledKinds
        <5> QED  BY <2>2, <5>1 DEF Disable
      <4>2. state[Here[1]] = Outcome(Here[2])
        BY <4>1 DEF Settling
      <4>3. Outcome(Here[2]) # Outcome(Other(Here)[2]) /\ Other(Here)[1] = Here[1]
        BY <4>1, ListNames
      <4> QED  BY <4>1, <4>2, <4>3
    <3>2. CASE Called.k = "lock"
      <4>1. Here \in Outs /\ m = ProgressOf(Here[1])
        <5>1. Here \in Outs /\ Called = Lock(ProgressOf(Here[1]))
          BY <2>1, <3>2, CalledKinds
        <5> QED  BY <2>2, <5>1 DEF Lock
      <4>2. Here[1] \in Made
        BY <4>1, ListNames
      <4>3. m \notin Outs
        BY <4>1, <4>2, ListNames
      <4> QED  BY <4>3
    <3> QED  BY <2>1, <3>1, <3>2
  <2>5. lists'[l] = Advance(Here, Paid)[l]
    BY <1>1, <1>6, <2>1, <2>3, <2>4
  <2> QED  BY <1>6, <2>1, <2>5
<1>12. CASE EndOfLoop
  <2>1. PICK m : m = Here
    OBVIOUS
  <2>2. Loop /\ m \in Lists
    BY <1>4, <1>12, <2>1 DEF EndOfLoop
  <2> DEFINE n == Left(lists[m])
             ls == [lists EXCEPT ![m] = n]
  <2>3. lists' = ls \/ lists' = AfterReturn(ls)
    BY <1>12, <2>1 DEF EndOfLoop
  <2>4. ListOK(n, m) /\ (m = l => n.memory = lists[l].memory)
    BY <1>1, <2>2, LeftList
  <2> HIDE DEF n
  <2>5. DOMAIN ls = Lists /\ (\A p \in Lists : ListOK(ls[p], p)) /\ ls[l].memory = lists[l].memory
    BY <1>1, <2>2, <2>4, ChangedList
  <2> HIDE DEF ls
  <2> QED  BY <1>5, <2>3, <2>5
<1>13. CASE Return
  BY <1>5, <1>13, ReturnLists
<1>14. CASE Crash \/ Throw
  BY <1>2, <1>14 DEF Crash, Throw
<1>15. CASE UseList \/ Fire \/ Register \/ When \/ Then
  BY <1>2, <1>15 DEF UseList, Fire, Register, When, Then, Call
<1> QED  BY <1>7, <1>8, <1>9, <1>10, <1>11, <1>12, <1>13, <1>14, <1>15 DEF Next

(* What a step may change of what has been settled, wanted and told.         *)
LEMMA StepKinds ==
  ASSUME Next
  PROVE  \/ CallHandler /\ UNCHANGED <<state, wants>>
         \/ CallSetState /\ UNCHANGED <<wants, seen>>
         \/ Register /\ UNCHANGED <<state, seen>>
         \/ UNCHANGED <<state, wants, seen>>
<1>1. CASE CallHandler
  BY <1>1 DEF CallHandler, ghosts
<1>2. CASE CallSetState
  BY <1>2 DEF CallSetState, ghosts
<1>3. CASE Register
  BY <1>3 DEF Register, Call
<1>4. CASE Proceed
  BY <1>4 DEF Proceed, ghosts
<1>5. CASE Finish
  BY <1>5 DEF Finish, ghosts
<1>6. CASE CallDisableOrLock
  BY <1>6 DEF CallDisableOrLock, ghosts
<1>7. CASE CallFires
  BY <1>7 DEF CallFires, ghosts
<1>8. CASE CallUpdate
  BY <1>8 DEF CallUpdate, ghosts
<1>9. CASE CallForward
  BY <1>9 DEF CallForward, ghosts
<1>10. CASE EndOfLoop
  BY <1>10 DEF EndOfLoop, ghosts
<1>11. CASE Crash
  BY <1>11 DEF Crash, ghosts
<1>12. CASE Return
  BY <1>12 DEF Return, ghosts
<1>13. CASE Throw
  BY <1>13 DEF Throw, ghosts
<1>14. CASE UseList
  BY <1>14 DEF UseList, ghosts, Call
<1>15. CASE Fire
  BY <1>15 DEF Fire, ghosts, Call
<1>16. CASE When
  BY <1>16 DEF When, ghosts, Call
<1>17. CASE Then
  BY <1>17 DEF Then, ghosts, Call
<1> QED  BY <1>1, <1>2, <1>3, <1>4, <1>5, <1>6, <1>7, <1>8, <1>9,
            <1>10, <1>11, <1>12, <1>13, <1>14, <1>15, <1>16, <1>17 DEF Next

(* A list that is not of a deferred is never followed by a registration: in *)
(* plain mode no handler is wanted, and the mode never changes.              *)
LEMMA PlainStep ==
  ASSUME ~Deferreds, [Next]_vars
  PROVE  wants' = wants /\ ~Deferreds'
<1>1. ~Deferreds'
  BY DomainStays DEF Deferreds
<1>2. ASSUME UNCHANGED vars PROVE wants' = wants
  BY <1>2 DEF vars, ghosts
<1>3. ASSUME Next PROVE wants' = wants
  <2>1. ~Register
    BY DEF Register
  <2>2. CASE CallHandler
    BY <2>2, <1>3, StepKinds DEF CallHandler, ghosts
  <2>3. CASE CallSetState
    BY <2>3 DEF CallSetState, ghosts
  <2> QED  BY <1>3, <2>1, <2>2, <2>3, StepKinds
<1> QED  BY <1>1, <1>2, <1>3

(* What has been settled is settled with the same data after a step.         *)
LEMMA OutcomeKept ==
  ASSUME Inv, Inv', Next, NEW d \in Made, state'[d] = state[d]
  PROVE  OutcomeOf'[d] = OutcomeOf[d]
<1>1. Deferreds /\ Deferreds'
  BY DomainStays, InvDeferreds DEF Deferreds
<1>2. CASE state[d] = "pending"
  BY <1>1, <1>2 DEF OutcomeOf
<1>3. CASE state[d] # "pending"
  <2>1. PICK l \in Outs : l[1] = d /\ state[d] = Outcome(l[2])
    <3>1. DoneOf(d) \in Outs /\ FailOf(d) \in Outs
      BY ListNames
    <3>2. state[d] \in {"resolved", "rejected"}
      BY <1>3, InvFacts DEF ListsOK
    <3>3. CASE state[d] = "resolved"
      BY <3>1, <3>3 DEF DoneOf, Outcome
    <3>4. CASE state[d] = "rejected"
      BY <3>1, <3>4 DEF FailOf, Outcome
    <3> QED  BY <3>2, <3>3, <3>4
  <2>2. SettledWith(d) = lists[l].memory
    BY <2>1, SettledMemory
  <2>3. lists'[l].memory = lists[l].memory
    BY <2>1, MemoryKept
  <2>4. SettledWith(d)' = lists'[l].memory
    <3>1. /\ DoneOf(d)[2] = "done" /\ FailOf(d)[2] = "fail" /\ (l = DoneOf(d) \/ l = FailOf(d))
      BY <2>1, ListNames DEF DoneOf, FailOf
    <3>2. CASE l = DoneOf(d)
      BY <2>1, <3>1, <3>2 DEF SettledWith, Outcome
    <3>3. CASE l = FailOf(d)
      BY <2>1, <3>1, <3>3 DEF SettledWith, Outcome
    <3> QED  BY <3>1, <3>2, <3>3
  <2> QED  BY <1>1, <1>3, <2>2, <2>3, <2>4 DEF OutcomeOf
<1> QED  BY <1>2, <1>3

(* And so the outcomes are kept.                                             *)
LEMMA OutcomesKept ==
  ASSUME Inv, Inv', Next, state' = state
  PROVE  OutcomeOf' = OutcomeOf
<1>1. \A d \in Made : OutcomeOf'[d] = OutcomeOf[d]
  BY OutcomeKept
<1> DEFINE a == OutcomeOf
           b == OutcomeOf'
<1>2. a = [d \in Made |-> a[d]] /\ b = [d \in Made |-> b[d]]
  BY DEF OutcomeOf
<1> HIDE DEF a, b
<1>3. \A d \in Made : b[d] = a[d]
  BY <1>1 DEF a, b
<1>4. b = a
  BY <1>2, <1>3
<1> QED  BY <1>4 DEF a, b

(* And what the handlers were told.                                          *)
LEMMA ToldKept ==
  ASSUME Deferreds, Deferreds', seen' = seen
  PROVE  ToldOf' = ToldOf
BY DEF ToldOf

(* setting the state settles the deferred, with the data its list is fired   *)
(* with.                                                                     *)
LEMMA SettleStep ==
  ASSUME Inv, Inv', CallSetState
  PROVE  \E p \in Made : Promised!Settle(p)
<1> USE InvFacts
<1>1. /\ Loop /\ AtCall(lists[Here]) /\ Called.k = "state"
      /\ state' = [state EXCEPT ![Called.on] = Called.to]
      /\ wants' = wants /\ seen' = seen
  BY DEF CallSetState, NextIs, ghosts
<1>2. Here \in Outs /\ Settling(Here, 0) /\ Called = SetState(Here[1], Outcome(Here[2]))
  BY <1>1, CalledKinds
<1>3. PICK l \in Outs, p \in Made : l = Here /\ p = l[1] /\ Settling(l, 0)
  BY <1>2, ListNames
<1>4. /\ state' = [state EXCEPT ![p] = Outcome(l[2])] /\ state[p] = "pending"
      /\ state \in [Made -> {"pending", "resolved", "rejected"}]
  BY <1>1, <1>2, <1>3 DEF SetState, Settling, ListsOK
<1>5. state'[p] = Outcome(l[2]) /\ \A d \in Made : d # p => state'[d] = state[d]
  BY <1>4
<1>6. Deferreds /\ Deferreds' /\ Next
  <2>1. Next
    BY DEF Next
  <2> QED  BY <2>1, DomainStays, InvDeferreds DEF Deferreds
<1>7. OutcomeOf[p] = NoData
  BY <1>4 DEF OutcomeOf
<1>8. OutcomeOf'[p] \in [how : {"resolved", "rejected"}, data : Values]
  <2>1. Outcome(l[2]) \in {"resolved", "rejected"} /\ Outcome(l[2]) # "pending"
    BY ListNames
  <2>2. SettledWith(p)' \in Values
    <3>1. /\ Inv' /\ state'[l[1]] = Outcome(l[2])
      BY <1>3, <1>5
    <3>2. (l = DoneOf(p) \/ l = FailOf(p)) /\ DoneOf(p)[2] = "done" /\ FailOf(p)[2] = "fail" /\ l \in Lists
      BY <1>3, ListNames DEF DoneOf, FailOf
    <3>3. SettledWith(p)' = lists'[l].memory
      <4>1. CASE l = DoneOf(p)
        BY <1>5, <3>2, <4>1 DEF SettledWith, Outcome
      <4>2. CASE l = FailOf(p)
        BY <1>5, <3>2, <4>2 DEF SettledWith, Outcome
      <4> QED  BY <3>2, <4>1, <4>2
    <3>4. lists'[l].memory = lists[l].memory
      <4>1. DOMAIN Paid = Lists /\ (\A m \in Lists : ListOK(Paid[m], m)) /\ Same(lists[l], Paid[l])
        BY <1>3, <3>2, PaidLists
      <4>2. Same(Paid[l], Advance(l, Paid)[l])
        BY <3>2, <4>1, AdvancedLists
      <4>3. lists' = Advance(l, Paid)
        BY <1>3 DEF CallSetState
      <4> QED  BY <4>1, <4>2, <4>3 DEF Same
    <3>5. lists[l].memory \in DataOf(l) /\ DataOf(l) \subseteq Values
      <4>1. lists[l].memory # NoData
        BY <1>3 DEF Settling, First
      <4> QED  BY <3>2, <4>1, DataIsNot DEF ListOK
    <3> QED  BY <3>3, <3>4, <3>5
  <2>3. OutcomeOf'[p] = [how |-> Outcome(l[2]), data |-> SettledWith(p)']
    BY <1>5, <1>6, <2>1 DEF OutcomeOf
  <2> QED  BY <2>1, <2>2, <2>3
<1>9. OutcomeOf' = [OutcomeOf EXCEPT ![p] = OutcomeOf'[p]]
  <2> DEFINE a == OutcomeOf
             b == OutcomeOf'
  <2>1. a = [d \in Made |-> a[d]] /\ b = [d \in Made |-> b[d]]
    BY DEF OutcomeOf
  <2>2. \A d \in Made : d # p => b[d] = a[d]
    BY <1>5, <1>6, OutcomeKept
  <2> HIDE DEF a, b
  <2>3. b = [a EXCEPT ![p] = b[p]]
    BY <2>1, <2>2
  <2> QED  BY <2>3 DEF a, b
<1>10. ToldOf' = ToldOf
  BY <1>1, <1>6, ToldKept
<1> QED  BY <1>1, <1>3, <1>7, <1>8, <1>9, <1>10 DEF Promised!Settle, Promised!How

(* A registration is one of the promise.                                     *)
LEMMA RegisterSimulated ==
  ASSUME Inv, Inv', Register
  PROVE  \E h \in Handlers, p \in Made : Promised!Register(h, p)
<1> USE InvFacts
<1>1. PICK h \in Handlers, p \in Known :
        wants[h] = {} /\ \E hows \in SUBSET {"resolved", "rejected"} : Asks(h, p, hows)
  <2>1. PICK h \in Handlers, p \in Known :
          /\ wants[h] = {}
          /\ \/ \E aspect \in {"done", "fail"} : Asks(h, p, {Outcome(aspect)})
             \/ Asks(h, p, {"resolved", "rejected"})
    BY DEF Register
  <2>2. \A aspect : {Outcome(aspect)} \in SUBSET {"resolved", "rejected"}
    BY DEF Outcome
  <2> QED  BY <2>1, <2>2
<1>2. PICK hows \in SUBSET {"resolved", "rejected"} : wants' = [wants EXCEPT ![h] = [on : {p}, how : hows]]
  BY <1>1 DEF Asks
<1>3. p \in Made
  BY KnownMade
<1>4. wants'[h] = [on : {p}, how : hows]
  BY <1>2 DEF HandlersOK
<1>5. [on : {p}, how : hows] \in SUBSET [on : {p}, how : {"resolved", "rejected"}]
  BY <1>2
<1>6. state' = state /\ seen' = seen /\ Next
  BY DEF Register, Call, Next
<1>7. Deferreds /\ Deferreds'
  BY <1>6, DomainStays, InvDeferreds DEF Deferreds
<1>8. OutcomeOf' = OutcomeOf /\ ToldOf' = ToldOf
  BY <1>6, <1>7, OutcomesKept, ToldKept
<1>9. wants' = [wants EXCEPT ![h] = wants'[h]]
  BY <1>2, <1>4
<1> QED  BY <1>1, <1>3, <1>4, <1>5, <1>8, <1>9 DEF Promised!Register, Promised!How

(* A handler is told the data of the outcome it asked for.                   *)
LEMMA TellSimulated ==
  ASSUME Inv, Inv', CallHandler
  PROVE  \E h \in Handlers : Promised!Tell(h)
<1> USE InvFacts
<1>1. /\ Here \in Outs /\ Settled(Here) /\ Called.name \in Handlers
      /\ Asked(Here, Called.name) /\ seen[Called.name] = <<>>
      /\ seen' = [seen EXCEPT ![Called.name] = <<lists[Here].memory>>]
  BY HandlerCalled
<1>2. PICK l \in Outs, h \in Handlers :
        /\ l = Here /\ h = Called.name /\ Settled(l) /\ Asked(l, h) /\ seen[h] = <<>>
        /\ seen' = [seen EXCEPT ![h] = <<lists[l].memory>>]
  BY <1>1
<1>3. state' = state /\ wants' = wants /\ Next
  BY DEF CallHandler, ghosts, Next
<1>4. Deferreds /\ Deferreds'
  BY <1>3, DomainStays, InvDeferreds DEF Deferreds
<1>5. OutcomeOf' = OutcomeOf
  BY <1>3, OutcomesKept
<1> DEFINE w == Want(l)
<1>6. w \in wants[h] /\ w.on = l[1] /\ w.how = Outcome(l[2]) /\ w.on \in Made
  BY <1>2, ListNames DEF Asked, Want
<1>7. state[l[1]] = Outcome(l[2]) /\ Outcome(l[2]) \in {"resolved", "rejected"} /\ Outcome(l[2]) # "pending"
  BY <1>2, ListNames DEF Settled
<1>8. SettledWith(l[1]) = lists[l].memory /\ lists[l].memory \in Values
  <2>1. l \in Lists
    BY ListNames
  <2> QED  BY <1>7, <2>1, SettledMemory, DataIsNot
<1>9. OutcomeOf[w.on] = [how |-> Outcome(l[2]), data |-> lists[l].memory]
  BY <1>4, <1>6, <1>7, <1>8 DEF OutcomeOf
<1>10. OutcomeOf[w.on] # NoData
  <2>1. OutcomeOf[w.on] \in [how : {"resolved", "rejected"}, data : Values]
    BY <1>7, <1>8, <1>9
  <2> QED  BY <2>1, DeferredAssumption
<1>11. ToldOf[h] = NoData
  BY <1>2 DEF ToldOf
<1>12. ToldOf' = [ToldOf EXCEPT ![h] = lists[l].memory]
  <2> DEFINE m == lists[l].memory
             a == ToldOf
             b == ToldOf'
  <2>1. seen'[h] = <<m>> /\ \A g \in Handlers : g # h => seen'[g] = seen[g]
    BY <1>2 DEF HandlersOK
  <2>2. <<m>> # <<>> /\ Len(<<m>>) = 1 /\ <<m>>[1] = m
    OBVIOUS
  <2>3. a = [g \in Handlers |-> a[g]] /\ b = [g \in Handlers |-> b[g]]
    BY DEF ToldOf
  <2>4. b[h] = m
    BY <1>4, <2>1, <2>2 DEF ToldOf
  <2>5. \A g \in Handlers : g # h => b[g] = a[g]
    BY <1>4, <2>1 DEF ToldOf
  <2> HIDE DEF a, b
  <2>6. b = [a EXCEPT ![h] = m]
    BY <2>3, <2>4, <2>5
  <2> QED  BY <2>6 DEF a, b
<1> HIDE DEF w
<1>13. OutcomeOf[w.on].how = w.how /\ OutcomeOf[w.on].data = lists[l].memory
  BY <1>6, <1>9
<1>14. ToldOf' = [ToldOf EXCEPT ![h] = OutcomeOf[w.on].data]
  BY <1>12, <1>13
<1> QED  BY <1>3, <1>5, <1>6, <1>10, <1>11, <1>13, <1>14 DEF Promised!Tell

(* Every step is one of the promise, or changes nothing of it.               *)
LEMMA StepSimulated ==
  ASSUME DeferredInv, DeferredInv', [Next]_vars
  PROVE  [Promised!Next]_(Promised!vars)
<1>1. CASE ~Deferreds
  <2>1. wants' = wants /\ ~Deferreds'
    BY <1>1, PlainStep
  <2>2. OutcomeOf' = OutcomeOf /\ ToldOf' = ToldOf
    BY <1>1, <2>1 DEF OutcomeOf, ToldOf
  <2> QED  BY <2>1, <2>2 DEF Promised!vars
<1>2. CASE Deferreds
  <2>1. Inv /\ Inv' /\ Deferreds'
    <3>1. Deferreds'
      BY <1>2, DomainStays DEF Deferreds
    <3> QED  BY <1>2, <3>1 DEF DeferredInv, Inv
  <2>2. CASE UNCHANGED vars
    <3>1. lists' = lists /\ state' = state /\ wants' = wants /\ seen' = seen
      BY <2>2 DEF vars, ghosts
    <3>2. ToldOf' = ToldOf
      BY <1>2, <2>1, <3>1, ToldKept
    <3>3. OutcomeOf' = OutcomeOf
      BY <1>2, <2>1, <3>1 DEF OutcomeOf, SettledWith
    <3> QED  BY <3>1, <3>2, <3>3 DEF Promised!vars
  <2>3. CASE Next
    <3>1. CASE CallHandler
      BY <2>1, <3>1, TellSimulated DEF Promised!Next
    <3>2. CASE CallSetState
      BY <2>1, <3>2, SettleStep DEF Promised!Next
    <3>3. CASE Register
      BY <2>1, <3>3, RegisterSimulated DEF Promised!Next
    <3>4. CASE UNCHANGED <<state, wants, seen>>
      <4>1. OutcomeOf' = OutcomeOf /\ ToldOf' = ToldOf
        BY <1>2, <2>1, <2>3, <3>4, OutcomesKept, ToldKept
      <4> QED  BY <3>4, <4>1 DEF Promised!vars
    <3> QED  BY <2>3, <3>1, <3>2, <3>3, <3>4, StepKinds
  <2> QED  BY <2>2, <2>3
<1> QED  BY <1>1, <1>2

(* The deferreds keep the promise: whatever calls the callbacks make from    *)
(* inside each other, and whatever they throw, a deferred is settled at most *)
(* once and keeps its data, and a handler is called at most once, after the  *)
(* outcome it asked for and with its data.                                   *)
THEOREM ImplementsPromiseThm == Spec => ImplementsPromise
<1>1. Init => Promised!Init
  <2> SUFFICES ASSUME Init
               PROVE  Promised!Init
    OBVIOUS
  <2>1. /\ state = [d \in Made |-> "pending"] /\ seen = [h \in Handlers |-> <<>>]
        /\ wants = [h \in Handlers |-> {}]
    BY DEF Init
  <2>2. OutcomeOf = [d \in Made |-> NoData] /\ ToldOf = [h \in Handlers |-> NoData]
    BY <2>1 DEF OutcomeOf, ToldOf
  <2> QED  BY <2>1, <2>2 DEF Promised!Init
<1>2. DeferredInv /\ DeferredInv' /\ [Next]_vars => [Promised!Next]_(Promised!vars)
  BY StepSimulated
<1> QED  BY <1>1, <1>2, DeferredInvThm, PTL DEF Spec, ImplementsPromise, Promised!Spec
=============================================================================
