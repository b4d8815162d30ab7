------------------------------ MODULE Deferred ------------------------------
(* jQuery.Callbacks, jQuery.Deferred, then() and jQuery.when() as the browser *)
(* runs them: one thread, and a stack of the calls under way.  A callback is  *)
(* code of the page and may call any of these methods again, on this object   *)
(* or on another one, or throw.  Each step runs up to the next call of a      *)
(* callback or the next return.                                               *)
EXTENDS Callbacks, FiniteSets, TLC

CONSTANTS
  Base,        \* the deferreds the page makes itself
  Handlers,    \* the functions it registers
  Data,        \* the arguments it fires with: those of its n-th call
  FlagSets,    \* the options a plain callback list is made with
  WhenArgs,    \* the argument lists of jQuery.when
  MaxCalls,    \* bound on the calls the page makes
  MaxThrows    \* bound on the exceptions its callbacks throw

(* What data consists of, and the arguments of a call.                       *)
Atoms == Base \cup {"returned", "undefined"} \cup (UNION {ToSet(args) : args \in WhenArgs})
              \cup (UNION {ToSet(Data[n]) : n \in 1..MaxCalls})
Values == Seq(Atoms)

(* The page fires its deferreds with one argument, and when() gets several.  *)
ASSUME DeferredAssumption ==
  /\ Base \cap {"when", "then", "none", "value", "nothing"} = {}
  /\ MaxCalls \in Nat /\ MaxThrows \in Nat
  /\ \A n \in 1..MaxCalls : \E x \in Atoms : Data[n] = <<x>>
  /\ WhenArgs \subseteq Values
  /\ NoData \notin Values /\ NoData \notin [how : {"resolved", "rejected"}, data : Values]

VARIABLES
  lists,   \* list -> the record of its closure (Callbacks)
  state,   \* deferred -> the variable state of its closure
  calls,   \* the calls under way, the innermost first
  when,    \* the closure of jQuery.when
  seen,    \* handler -> the data it was called with, in turn (auxiliary)
  wants,   \* handler -> the outcomes it was registered for (auxiliary)
  piped,   \* what then() was called on and what its function returns (auxiliary)
  used,    \* the calls the page has made (bounded by MaxCalls)
  throws   \* the exceptions thrown (bounded by MaxThrows)

ghosts == <<wants, piped>>
bounds == <<used, throws>>
vars == <<lists, state, calls, when, seen, ghosts, bounds>>

(* The deferreds: those of the page, that of when() and that of then().      *)
Made == Base \cup {"when", "then"}
Plain == <<"page", "list">>
DoneOf(d) == <<d, "done">>
FailOf(d) == <<d, "fail">>
ProgressOf(d) == <<d, "progress">>
Aspect == {"done", "fail", "progress"}

(* Functions a list can hold: a handler of the page, and the closures that   *)
(* Deferred, then() and when() register.                                     *)
User(h) == [k |-> "user", name |-> h]
SetState(d, to) == [k |-> "state", on |-> d, to |-> to]
Disable(l) == [k |-> "disable", list |-> l]
Lock(l) == [k |-> "lock", list |-> l]
Fires(l) == [k |-> "fires", list |-> l]
UpdateResolve(i) == [k |-> "resolveValue", arg |-> i]
UpdateProgress(i) == [k |-> "progressValue", arg |-> i]
Forward(aspect, returned) == [k |-> "forward", aspect |-> aspect, returned |-> returned]

(* Work of a method still to be done, in order.                              *)
Add(l, f) == [op |-> "add", list |-> l, fn |-> f]
RemoveNow(l, f) == [op |-> "remove", list |-> l, fn |-> f]
FireWith(l, data) == [op |-> "fireWith", list |-> l, data |-> data]
EmptyNow(l) == [op |-> "empty", list |-> l]
DisableNow(l) == [op |-> "disable", list |-> l]
LockNow(l) == [op |-> "lock", list |-> l]
Argument(i) == [op |-> "argument", arg |-> i]
ResolveIfDone == [op |-> "resolveIfDone"]

(* What jQuery.when registers with its i-th argument, a deferred.            *)
Listen(i, d) ==
  <<Add(DoneOf(d), UpdateResolve(i)), Add(FailOf(d), Fires(FailOf("when"))),
    Add(ProgressOf(d), UpdateProgress(i))>>

Idle == calls = <<>>
In(k) == calls # <<>> /\ Head(calls).k = k
Firing(l, data) == [k |-> "fire", list |-> l, data |-> data]
Running(h) == [k |-> "user", name |-> h]
Method(todo) == [k |-> "method", todo |-> todo]

-----------------------------------------------------------------------------
(* Construction.                                                             *)

Outcome(aspect) == IF aspect = "done" THEN "resolved" ELSE "rejected"
Opposite(aspect) == IF aspect = "done" THEN "fail" ELSE "done"

(* Mutant: settling does not disable the opposite list.                      *)
DeferredListsBothWays ==
  [l \in Made \X Aspect |->
     IF l[2] = "progress" THEN NewList({"memory"})
     ELSE [NewList({"once", "memory"})
             EXCEPT !.items = <<SetState(l[1], Outcome(l[2])), Lock(ProgressOf(l[1]))>>]]

(* The three lists of every deferred; the outcomes get the function that     *)
(* sets the state, the disable() of the opposite list and the lock() of      *)
(* progress.                                                                 *)
DeferredLists ==
  [l \in Made \X Aspect |->
     IF l[2] = "progress" THEN NewList({"memory"})
     ELSE [NewList({"once", "memory"})
             EXCEPT !.items = <<SetState(l[1], Outcome(l[2])),
                                Disable(<<l[1], Opposite(l[2])>>),
                                Lock(ProgressOf(l[1]))>>]]

NoWhen == [args |-> <<>>, remaining |-> 0, values |-> <<>>, progress |-> <<>>]
NoThen == [on |-> "nothing", returned |-> "none"]

Init ==
  /\ \/ \E flags \in FlagSets : lists = [l \in {Plain} |-> NewList(flags)]
     \/ lists = DeferredLists
  /\ state = [d \in Made |-> "pending"]
  /\ calls = <<>>
  /\ when = NoWhen
  /\ seen = [h \in Handlers |-> <<>>]
  /\ wants = [h \in Handlers |-> {}]
  /\ piped = NoThen
  /\ used = 0
  /\ throws = 0

-----------------------------------------------------------------------------
(* The stack.                                                                *)

(* The lists once the innermost call has returned: when it was a function    *)
(* fire() had called, the loop goes to the next index.                       *)
Advance(l, ls) == [ls EXCEPT ![l].index = @ + 1]
AfterReturn(ls) ==
  LET rest == Tail(calls)
  IN IF rest # <<>> /\ Head(rest).k = "fire" THEN Advance(Head(rest).list, ls) ELSE ls

(* A call of Callbacks that may enter fire(): c is the list as it leaves it. *)
Entering(l, c, fires, data, rest) ==
  /\ lists' = [lists EXCEPT ![l] = c]
  /\ calls' = IF fires THEN <<Firing(l, data)>> \o rest ELSE rest

(* A method of the library with several parts does the next one.             *)
Proceed ==
  /\ In("method")
  /\ Head(calls).todo # <<>>
  /\ LET do == Head(Head(calls).todo)
         rest == <<Method(Tail(Head(calls).todo))>> \o Tail(calls)
         Set(c) == lists' = [lists EXCEPT ![do.list] = c] /\ calls' = rest
     IN CASE do.op = "add" ->
               LET c == lists[do.list]
               IN Entering(do.list, Added(c, do.fn), AddFires(c), c.memory, rest) /\ when' = when
          [] do.op = "fireWith" ->
               LET c == lists[do.list]
               IN Entering(do.list, FiredWith(c, do.data), FiresNow(c), do.data, rest)
                  /\ when' = when
          [] do.op = "remove" -> Set(Removed(lists[do.list], do.fn)) /\ when' = when
          [] do.op = "empty" -> Set(Emptied(lists[do.list])) /\ when' = when
          [] do.op = "disable" -> Set(Disabled(lists[do.list])) /\ when' = when
          [] do.op = "lock" -> Set(Locked(lists[do.list])) /\ when' = when
          [] do.op = "argument" ->
               /\ LET d == when.args[do.arg]
                  IN IF d \in Base
                     THEN calls' = <<Method(Listen(do.arg, d) \o Head(rest).todo)>> \o Tail(rest)
                          /\ when' = when
                     ELSE calls' = rest /\ when' = [when EXCEPT !.remaining = @ - 1]
               /\ lists' = lists
          [] OTHER ->                             \* "resolveIfDone"
               /\ IF when.remaining = 0
                  THEN LET l == DoneOf("when") IN
                       Entering(l, FiredWith(lists[l], when.values), FiresNow(lists[l]),
                                when.values, rest)
                  ELSE calls' = rest /\ lists' = lists
               /\ when' = when
  /\ UNCHANGED <<state, seen, ghosts, bounds>>

(* A method returns.                                                         *)
Finish ==
  /\ In("method")
  /\ Head(calls).todo = <<>>
  /\ calls' = Tail(calls)
  /\ lists' = AfterReturn(lists)
  /\ UNCHANGED <<state, when, seen, ghosts, bounds>>

(* fire() calls the next function of its list.                               *)
Loop == In("fire")
Here == Head(calls).list
Now == Head(calls).data
Called == Current(lists[Here])
Paid == [lists EXCEPT ![Here].due = IF @ = <<>> THEN @ ELSE Tail(@)]
NextIs(k) == Loop /\ AtCall(lists[Here]) /\ Called.k = k

CallHandler ==
  /\ NextIs("user")
  /\ lists' = Paid
  /\ calls' = <<Running(Called.name)>> \o calls
  /\ seen' = [seen EXCEPT ![Called.name] = Append(@, Now)]
  /\ UNCHANGED <<state, when, ghosts, bounds>>

CallSetState ==
  /\ NextIs("state")
  /\ state' = [state EXCEPT ![Called.on] = Called.to]
  /\ lists' = Advance(Here, Paid)
  /\ UNCHANGED <<calls, when, seen, ghosts, bounds>>

CallDisableOrLock ==
  /\ \/ NextIs("disable")
     \/ NextIs("lock")
  /\ LET l == Called.list
         c == lists[l]
     IN lists' = [Advance(Here, Paid)
                    EXCEPT ![l] = IF Called.k = "lock" THEN Locked(c) ELSE Disabled(c)]
  /\ UNCHANGED <<state, calls, when, seen, ghosts, bounds>>

(* resolve, reject or notify of a deferred, registered as a callback.        *)
CallFires ==
  /\ NextIs("fires")
  /\ lists' = Paid
  /\ calls' = <<Method(<<FireWith(Called.list, Now)>>)>> \o calls
  /\ UNCHANGED <<state, when, seen, ghosts, bounds>>

(* updateFunc of jQuery.when.                                                *)
CallUpdate ==
  /\ \/ /\ NextIs("resolveValue")
        /\ when' = [when EXCEPT !.values[Called.arg] = Now[1], !.remaining = @ - 1]
        /\ calls' = <<Method(IF when.remaining = 1
                             THEN <<FireWith(DoneOf("when"), when'.values)>>
                             ELSE <<>>)>> \o calls
     \/ /\ NextIs("progressValue")
        /\ when' = [when EXCEPT !.progress[Called.arg] = Now[1]]
        /\ calls' = <<Method(<<FireWith(ProgressOf("when"), when'.progress)>>)>> \o calls
  /\ lists' = Paid
  /\ UNCHANGED <<state, seen, ghosts, bounds>>

(* The function then() registers: it calls the page's function, if there is  *)
(* one, and chains to the promise that returns or fires with what it returns.*)
ListOf(d, aspect) == <<d, aspect>>
CallForward ==
  /\ NextIs("forward")
  /\ LET to(data) == <<FireWith(ListOf("then", Called.aspect), data)>>
         r == Called.returned
     IN calls' = <<Method(CASE r = "none" -> to(Now)
                            [] r = "value" -> to(<<"returned">>)
                            [] OTHER -> <<Add(DoneOf(r), Fires(DoneOf("then"))),
                                          Add(FailOf(r), Fires(FailOf("then"))),
                                          Add(ProgressOf(r), Fires(ProgressOf("then")))>>)>>
                 \o calls
  /\ lists' = Paid
  /\ UNCHANGED <<state, when, seen, ghosts, bounds>>

(* The loop is over: the list is fired again, kept or disabled.              *)
EndOfLoop ==
  /\ Loop
  /\ AtEnd(lists[Here])
  /\ LET c == lists[Here]
         left == [lists EXCEPT ![Here] = Left(c)]
     IN IF Refires(c)
        THEN lists' = left /\ calls' = <<Firing(Here, Head(c.queue))>> \o Tail(calls)
        ELSE lists' = AfterReturn(left) /\ calls' = Tail(calls)
  /\ UNCHANGED <<state, when, seen, ghosts, bounds>>

(* list[firingIndex] is undefined after an empty(): TypeError, which unwinds *)
(* every call under way.                                                     *)
Crash ==
  /\ Loop
  /\ AtHole(lists[Here])
  /\ calls' = <<>>
  /\ UNCHANGED <<lists, state, when, seen, ghosts, bounds>>

(* A handler returns; false ends the loop of a stopOnFalse list.             *)
Return ==
  /\ In("user")
  /\ calls' = Tail(calls)
  /\ LET l == Head(Tail(calls)).list
         stopped == [lists EXCEPT ![l].memory = NoData, ![l].due = <<>>,
                                  ![l].index = lists[l].length]
     IN \/ lists' = AfterReturn(lists)
        \/ "stopOnFalse" \in lists[l].flags /\ lists' = stopped
  /\ UNCHANGED <<state, when, seen, ghosts, bounds>>

(* A handler throws: no fire() on the stack reaches its firing = false.      *)
Throw ==
  /\ In("user")
  /\ throws < MaxThrows
  /\ throws' = throws + 1
  /\ calls' = <<>>
  /\ UNCHANGED <<lists, state, when, seen, ghosts, used>>

-----------------------------------------------------------------------------
(* The page: a task of its own or a callback calls a method.                 *)

Call(todo) ==
  /\ Idle \/ In("user")
  /\ used < MaxCalls
  /\ used' = used + 1
  /\ calls' = <<Method(todo)>> \o calls
  /\ UNCHANGED <<lists, state, seen, throws>>

UseList ==
  /\ Plain \in DOMAIN lists
  /\ \/ \E h \in Handlers : Call(<<Add(Plain, User(h))>>)
     \/ \E h \in Handlers : Call(<<RemoveNow(Plain, User(h))>>)
     \/ Call(<<FireWith(Plain, Data[used + 1])>>)
     \/ Call(<<EmptyNow(Plain)>>)
     \/ Call(<<DisableNow(Plain)>>)
     \/ Call(<<LockNow(Plain)>>)
  /\ UNCHANGED <<when, ghosts>>

Deferreds == Plain \notin DOMAIN lists
Known == Base \cup (IF when = NoWhen THEN {} ELSE {"when"})
              \cup (IF piped = NoThen THEN {} ELSE {"then"})

Fire ==
  /\ Deferreds
  /\ \E d \in Base, aspect \in Aspect : Call(<<FireWith(<<d, aspect>>, Data[used + 1])>>)
  /\ UNCHANGED <<when, ghosts>>

(* done, fail, progress and always, with a new handler.                      *)
Asks(h, d, hows) == wants' = [wants EXCEPT ![h] = [on : {d}, how : hows]]

Register ==
  /\ Deferreds
  /\ \E h \in Handlers, d \in Known :
       /\ wants[h] = {}
       /\ \/ \E aspect \in {"done", "fail"} :
               Call(<<Add(<<d, aspect>>, User(h))>>) /\ Asks(h, d, {Outcome(aspect)})
          \/ /\ Call(<<Add(DoneOf(d), User(h)), Add(FailOf(d), User(h))>>)
             /\ Asks(h, d, {"resolved", "rejected"})
  /\ UNCHANGED <<when, piped>>

(* jQuery.when, with several arguments; a name in Base is its promise.       *)
(* Mutant: jQuery.when does not look whether it waits for nothing.           *)
WhenNeverResolvesItself ==
  /\ Deferreds
  /\ when = NoWhen
  /\ \E args \in WhenArgs :
       /\ when' = [args |-> args, remaining |-> Len(args), values |-> args,
                   progress |-> [i \in DOMAIN args |-> "undefined"]]
       /\ Call([i \in DOMAIN args |-> Argument(i)])
  /\ UNCHANGED ghosts

When ==
  /\ Deferreds
  /\ when = NoWhen
  /\ \E args \in WhenArgs :
       /\ when' = [args |-> args, remaining |-> Len(args), values |-> args,
                   progress |-> [i \in DOMAIN args |-> "undefined"]]
       /\ Call([i \in DOMAIN args |-> Argument(i)] \o <<ResolveIfDone>>)
  /\ UNCHANGED ghosts

(* then(), given one function for done and fail, or none.                    *)
Then ==
  /\ Deferreds
  /\ piped = NoThen
  /\ \E d \in Known, r \in {"none", "value"} \cup Base :
       /\ piped' = [on |-> d, returned |-> r]
       /\ Call(<<Add(DoneOf(d), Forward("done", r)), Add(FailOf(d), Forward("fail", r)),
                 Add(ProgressOf(d), Forward("progress", "none"))>>)
  /\ UNCHANGED <<when, wants>>

Next ==
  \/ Proceed \/ Finish \/ CallHandler \/ CallSetState \/ CallDisableOrLock \/ CallFires
  \/ CallUpdate \/ CallForward \/ EndOfLoop \/ Crash \/ Return \/ Throw
  \/ UseList \/ Fire \/ Register \/ When \/ Then

Spec == Init /\ [][Next]_vars

-----------------------------------------------------------------------------
(* Properties.                                                               *)

TypeOK ==
  /\ \A l \in DOMAIN lists :
       /\ lists[l].start \in Nat /\ lists[l].length \in Nat
       /\ lists[l].index \in Nat \cup {-1}
  /\ state \in [Made -> {"pending", "resolved", "rejected"}]
  /\ piped.on \in Made \cup {"nothing"}
  /\ used \in 0..MaxCalls
  /\ throws \in 0..MaxThrows

(* While a list fires, the functions its indexes still lead to are those it  *)
(* owes a call, whatever the functions called add or remove.                 *)
CallsUnderWay(l) == \E i \in DOMAIN calls : calls[i].k = "fire" /\ calls[i].list = l
InCallback(l) ==
  \E i \in DOMAIN calls : i > 1 /\ calls[i].k = "fire" /\ calls[i].list = l

FiresInTurn ==
  \A l \in DOMAIN lists :
    LET c == lists[l]
        next == c.index + (IF InCallback(l) THEN 2 ELSE 1)
    IN (c.firing /\ CallsUnderWay(l) /\ ~c.gone /\ ~c.wiped)
       => c.due = SubSeq(c.items, next, c.length)

(* A list with the flag once passes one data only, the first it was fired    *)
(* with, to all its functions.                                               *)
OnceKeepsItsData ==
  (Plain \in DOMAIN lists /\ "once" \in lists[Plain].flags)
    => Cardinality(UNION {ToSet(seen[h]) : h \in Handlers}) <= 1

(* The lists of callbacks: their indexes, and what once promises.            *)
ListsInv == TypeOK /\ FiresInTurn /\ OnceKeepsItsData

(* The page is quiet: nothing runs, and no exception has left a list firing. *)
Quiet == Idle /\ \A l \in DOMAIN lists : ~lists[l].firing

(* Every handler of an outcome that has come about has been called.          *)
QuietServed ==
  (Quiet /\ Deferreds)
    => \A h \in Handlers : \A w \in wants[h] :
         state[w.on] = w.how => seen[h] # <<>>

SettledWith(d) ==
  IF state[d] = "resolved" THEN lists[DoneOf(d)].memory ELSE lists[FailOf(d)].memory

(* The promise of when() agrees with its arguments.                          *)
WhenAgrees ==
  (Quiet /\ Deferreds /\ when # NoWhen)
    => LET subs == {i \in DOMAIN when.args : when.args[i] \in Base}
           how(i) == state[when.args[i]]
       IN /\ (\E i \in subs : how(i) = "rejected") =>
               /\ state["when"] = "rejected"
               /\ \E i \in subs : how(i) = "rejected"
                                  /\ SettledWith("when") = SettledWith(when.args[i])
          /\ (\A i \in subs : how(i) = "resolved") =>
               /\ state["when"] = "resolved"
               /\ SettledWith("when") = [i \in DOMAIN when.args |->
                     IF i \in subs THEN SettledWith(when.args[i])[1] ELSE when.args[i]]
          /\ (\E i \in subs : how(i) = "pending") /\ (\A i \in subs : how(i) # "rejected")
               => state["when"] = "pending"

(* The promise of then() agrees with the one it was called on and with the   *)
(* one its function returned.                                                *)
ThenAgrees ==
  (Quiet /\ Deferreds /\ piped # NoThen)
    => LET d == piped.on
           r == piped.returned
           like == IF r \in Base THEN r ELSE d
       IN IF state[d] = "pending" THEN state["then"] = "pending"
          ELSE /\ state["then"] = state[like]
               /\ state["then"] # "pending" =>
                    SettledWith("then") = IF r = "value" THEN <<"returned">> ELSE SettledWith(like)

(* What is built from other promises agrees with them, in whatever order     *)
(* they were settled and listened to; when() never counts below zero.        *)
ChainsAgree == WhenAgrees /\ ThenAgrees /\ when.remaining \in 0..Len(when.args)

-----------------------------------------------------------------------------
(* The deferreds implement Promise.                                          *)

OutcomeOf ==
  [d \in Made |-> IF ~Deferreds \/ state[d] = "pending" THEN NoData
                 ELSE [how |-> state[d], data |-> SettledWith(d)]]
ToldOf ==
  [h \in Handlers |-> IF ~Deferreds \/ seen[h] = <<>> THEN NoData
                     ELSE IF Len(seen[h]) = 1 THEN seen[h][1] ELSE seen[h]]

Promised == INSTANCE Promise WITH
  Promises <- Made,
  Data <- Values,
  Pending <- NoData,
  outcome <- OutcomeOf,
  wants <- wants,
  told <- ToldOf

(* Every deferred is settled at most once, and a handler is called at most   *)
(* once, after the outcome it asked for and with its data.                   *)
ImplementsPromise == Promised!Spec
=============================================================================
