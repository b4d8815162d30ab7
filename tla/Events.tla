------------------------------- MODULE Events -------------------------------
(* jQuery.event, the data cache it lives in, and the operations on the       *)
(* document that clean or copy it.  Handlers are code of the page: while an  *)
(* event is under way they may bind, unbind, fire again, and take out of the *)
(* document the elements the event is still to reach.                        *)
EXTENDS Integers, Sequences, FiniteSets, SequencesExt

CONSTANTS
  None,
  Node,       \* the elements; Root is the document
  Root,
  Parent,     \* the document at first: element -> its parent, or None
  Handler,    \* the functions of the page
  Selector,   \* selectors
  Matched,    \* selector -> the elements it matches
  Offered,    \* the bindings the page may ask for: [type, fn, sel, one]
  MaxCalls    \* bound on the calls of the page and the events of the user

(* The document is a forest, told by a number for every element that grows   *)
(* from parents to children.                                                 *)
ASSUME EventsAssumption ==
  /\ IsFiniteSet(Node) /\ Root \in Node /\ None \notin Node \cup Selector \cup Nat
  /\ Parent \in [Node -> Node \cup {None}] /\ Parent[Root] = None
  /\ \E level \in [Node -> 0..Cardinality(Node)] :
       \A n \in Node : Parent[n] # None => level[Parent[n]] < level[n]
  /\ Matched \in [Selector -> SUBSET Node]
  /\ Offered \subseteq [type : {"click", "focusin"}, fn : Handler, sel : Selector \cup {None}, one : BOOLEAN]
  /\ MaxCalls \in Nat

VARIABLES
  parent,     \* element -> its parent in the document, or None
  expando,    \* element -> its key in the cache, or None
  cache,      \* key -> [events, handle, data]
  deleted,    \* core_deletedIds, a stack of keys to use again
  guid,       \* jQuery.guid
  listeners,  \* element -> type -> the element its listener dispatches to, or None
  attaches,   \* elements that want focusin: one capturing listener serves them
  calls,      \* the calls under way, the innermost first
  meant,      \* the bindings the calls of the page ask for (auxiliary)
  counts,     \* how often a binding made with one() was called (auxiliary)
  again,      \* an event was fired within one of its type (auxiliary)
  used        \* calls and events (bounded by MaxCalls)

data == <<expando, cache, deleted, guid>>
ghosts == <<meant, counts, again>>
vars == <<parent, data, listeners, attaches, calls, ghosts, used>>

(* click has a listener per element; focusin is simulated from focus.        *)
Type == {"click", "focusin"}

(* A handler object, without the namespaces; serial tells bindings apart.    *)
HandleObj ==
  [type : Type, fn : Handler, sel : Selector \cup {None}, one : BOOLEAN, serial : 0..(MaxCalls - 1)]

(* events[type]: the handlers, those with a selector in front.               *)
NoHandlers == [list |-> <<>>, delegateCount |-> 0]

Init ==
  /\ parent = Parent
  /\ expando = [n \in Node |-> None]
  /\ cache = <<>>
  /\ deleted = <<>>
  /\ guid = 1
  /\ listeners = [n \in Node |-> [t \in Type |-> None]]
  /\ attaches = 0
  /\ calls = <<>>
  /\ meant = {}
  /\ counts = <<>>
  /\ again = FALSE
  /\ used = 0

-----------------------------------------------------------------------------
(* The document.                                                             *)

Ancestors(n) ==
  LET up[m \in Node \cup {None}] == IF m = None THEN <<>> ELSE <<m>> \o up[parent[m]]
  IN up[n]
Inside(n) == {m \in Node : n \in ToSet(Ancestors(m))}

-----------------------------------------------------------------------------
(* The cache.                                                                *)

Put(f, k, v) == [x \in DOMAIN f \cup {k} |-> IF x = k THEN v ELSE f[x]]
Without(f, S) == [x \in DOMAIN f \ S |-> f[x]]

Empty == [events |-> <<>>, handle |-> None, data |-> FALSE]
Data(n) == IF expando[n] = None THEN Empty ELSE cache[expando[n]]
EventsOf(n) == Data(n).events
Bound(n, t) == IF t \in DOMAIN EventsOf(n) THEN EventsOf(n)[t] ELSE NoHandlers
HandlersOf(n) == UNION {ToSet(Bound(n, t).list) : t \in Type}

(* internalData: the key an element gets, and the entry with it.             *)
NewKey == IF deleted = <<>> THEN guid ELSE Last(deleted)
KeyOf(n) == IF expando[n] = None THEN NewKey ELSE expando[n]
Write(n, entry) ==
  /\ cache' = Put(cache, KeyOf(n), entry)
  /\ expando' = [expando EXCEPT ![n] = KeyOf(n)]
  /\ deleted' = IF expando[n] = None /\ deleted # <<>> THEN Front(deleted) ELSE deleted
  /\ guid' = IF expando[n] = None /\ deleted = <<>> THEN guid + 1 ELSE guid

(* The elements of s that are in S, in their order.                          *)
Only(s, S) ==
  LET upTo[i \in 0..Len(s)] ==
        IF i = 0 THEN <<>>
        ELSE IF s[i] \in S THEN Append(upTo[i - 1], s[i]) ELSE upTo[i - 1]
  IN upTo[Len(s)]

(* cleanData of some elements, in document order: what their handlers are    *)
(* bound to, their entries and their keys.                                   *)
Keyed(order) == Only(order, {n \in Node : expando[n] # None})
KeysGone(order) ==
  LET kept == Keyed(order) IN [i \in DOMAIN kept |-> expando[kept[i]]]
CleanData(order) ==
  LET gone == ToSet(Keyed(order))
  IN /\ cache' = Without(cache, {expando[n] : n \in gone})
     /\ expando' = [n \in Node |-> IF n \in gone THEN None ELSE expando[n]]
     /\ deleted' = deleted \o KeysGone(order)
     /\ guid' = guid
     /\ listeners' = [n \in Node |-> IF n \in gone THEN [t \in Type |-> None] ELSE listeners[n]]
     /\ attaches' = attaches - Cardinality({n \in gone : "focusin" \in DOMAIN EventsOf(n)})

-----------------------------------------------------------------------------
(* Binding.                                                                  *)

WithHandler(bound, obj) ==
  IF obj.sel = None THEN [bound EXCEPT !.list = Append(@, obj)]
  ELSE [list |-> InsertAt(bound.list, bound.delegateCount + 1, obj),
        delegateCount |-> bound.delegateCount + 1]

(* Mutant: the listener is added with the first handler of any type.        *)
AddHandlerListensOnce(n, obj) ==
  LET t == obj.type
      old == Data(n)
      handle == IF old.handle = None THEN n ELSE old.handle
      isFirst == old.handle = None
  IN /\ Write(n, [old EXCEPT !.events = Put(@, t, WithHandler(Bound(n, t), obj)), !.handle = handle])
     /\ listeners' = IF isFirst /\ t = "click" THEN [listeners EXCEPT ![n][t] = handle] ELSE listeners
     /\ attaches' = IF isFirst /\ t = "focusin" THEN attaches + 1 ELSE attaches

(* jQuery.event.add                                                          *)
AddHandler(n, obj) ==
  LET t == obj.type
      old == Data(n)
      handle == IF old.handle = None THEN n ELSE old.handle
      isFirst == t \notin DOMAIN old.events
  IN /\ Write(n, [old EXCEPT !.events = Put(@, t, WithHandler(Bound(n, t), obj)), !.handle = handle])
     /\ listeners' = IF isFirst /\ t = "click" THEN [listeners EXCEPT ![n][t] = handle] ELSE listeners
     /\ attaches' = IF isFirst /\ t = "focusin" THEN attaches + 1 ELSE attaches

(* jQuery.event.remove, of those in hit.                                  *)
Kept(bound, hit) ==
  LET left == ToSet(bound.list) \ hit
  IN [list |-> Only(bound.list, left),
      delegateCount |-> Len(Only(bound.list, {o \in left : o.sel # None}))]

RemoveHandlers(n, hit) ==
  LET old == Data(n)
      left == {t \in DOMAIN old.events : Kept(old.events[t], hit).list # <<>>}
      gone == DOMAIN old.events \ left
      events == [t \in left |-> Kept(old.events[t], hit)]
  IN IF old.events = <<>>
     THEN UNCHANGED <<data, listeners, attaches>>
     ELSE IF left = {} /\ ~old.data
     THEN CleanData(<<n>>)
     ELSE /\ Write(n, [old EXCEPT !.events = events, !.handle = IF left = {} THEN None ELSE @])
          /\ listeners' = [listeners EXCEPT ![n] = [t \in Type |-> IF t \in gone THEN None ELSE @[t]]]
          /\ attaches' = IF "focusin" \in gone THEN attaches - 1 ELSE attaches

-----------------------------------------------------------------------------
(* An event under way.                                                       *)

Idle == calls = <<>>
In(k) == ~Idle /\ Head(calls).k = k
PageCode == Idle \/ In("handler")

(* handlers(): those with a selector that matches an element from the target *)
(* up to the one they are bound to, then the others.                         *)
Entry(elem, obj) == [elem |-> elem, obj |-> obj]
At(cur, front) ==
  LET at == Only(front, {o \in ToSet(front) : cur \in Matched[o.sel]})
  IN [i \in DOMAIN at |-> Entry(cur, at[i])]
Delegated(target, n, front) ==
  LET from[cur \in Node \cup {None}] ==
        IF cur = n \/ cur = None THEN <<>> ELSE At(cur, front) \o from[parent[cur]]
  IN from[target]

HandlerQueue(n, t, target) ==
  LET bound == Bound(n, t)
      front == SubSeq(bound.list, 1, bound.delegateCount)
      direct == SubSeq(bound.list, bound.delegateCount + 1, Len(bound.list))
  IN (IF bound.delegateCount = 0 THEN <<>> ELSE Delegated(target, n, front))
     \o [i \in DOMAIN direct |-> Entry(n, direct[i])]

(* An event at the next element of its path.                                 *)
Event(t, target, native, path) == [k |-> "event", type |-> t, target |-> target, native |-> native, path |-> path]
Dispatch(n, t, queue) == [k |-> "dispatch", node |-> n, type |-> t, queue |-> queue]
Running(n, obj) == [k |-> "handler", node |-> n, obj |-> obj]

Propagate ==
  /\ In("event")
  /\ LET ev == Head(calls)
         n == Head(ev.path)
         rest == <<[ev EXCEPT !.path = Tail(@)]>> \o Tail(calls)
         to == IF ev.native THEN listeners[n][ev.type]
               ELSE IF ev.type \in DOMAIN EventsOf(n) THEN Data(n).handle ELSE None
     IN calls' = IF ev.path = <<>> THEN Tail(calls)
                 ELSE IF to = None THEN rest
                 ELSE <<Dispatch(to, ev.type, HandlerQueue(to, ev.type, ev.target))>> \o rest
  /\ UNCHANGED <<parent, data, listeners, attaches, ghosts, used>>

(* dispatch() calls the next handler; that of one() unbinds itself first,    *)
(* with every handler of its function, and then calls it.                    *)
Count(key) == IF key \in DOMAIN counts THEN counts[key] ELSE 0

(* Mutant: a binding made with one() stays.                                 *)
CallHandlerKeepsBound ==
  /\ In("dispatch")
  /\ LET d == Head(calls)
         obj == Head(d.queue).obj
         key == <<d.node, obj.serial, Head(d.queue).elem>>
     IN IF d.queue = <<>>
        THEN calls' = Tail(calls) /\ UNCHANGED <<counts, meant>>
        ELSE /\ calls' = <<Running(d.node, obj), d>> \o Tail(calls)
             /\ counts' = IF obj.one THEN Put(counts, key, Count(key) + 1) ELSE counts
             /\ meant' = meant
  /\ UNCHANGED <<parent, data, listeners, attaches, again, used>>

CallHandler ==
  /\ In("dispatch")
  /\ LET d == Head(calls)
         obj == Head(d.queue).obj
         key == <<d.node, obj.serial, Head(d.queue).elem>>
     IN IF d.queue = <<>>
        THEN calls' = Tail(calls) /\ UNCHANGED <<data, listeners, attaches, ghosts>>
        ELSE /\ calls' = <<Running(d.node, obj), d>> \o Tail(calls)
             /\ IF obj.one
                THEN /\ RemoveHandlers(d.node, {o \in HandlersOf(d.node) :
                        o.type = obj.type /\ o.fn = obj.fn /\ obj.sel \in {None, o.sel}})
                     /\ meant' = meant \ {<<d.node, obj.serial>>}
                     /\ counts' = Put(counts, key, Count(key) + 1)
                     /\ again' = again
                ELSE UNCHANGED <<data, listeners, attaches, ghosts>>
  /\ UNCHANGED <<parent, used>>

(* A handler returns; it may have stopped the event, at once or after the    *)
(* other handlers of its element.                                            *)
Return ==
  /\ In("handler")
  /\ LET d == calls[2]
         on(queue) == [d EXCEPT !.queue = queue]
         stopped == [calls[3] EXCEPT !.path = <<>>]
         same == Only(Tail(d.queue), {e \in ToSet(d.queue) : e.elem = Head(d.queue).elem})
     IN \/ calls' = <<on(Tail(d.queue))>> \o SubSeq(calls, 3, Len(calls))
        \/ calls' = <<on(same), stopped>> \o SubSeq(calls, 4, Len(calls))
        \/ calls' = <<on(<<>>), stopped>> \o SubSeq(calls, 4, Len(calls))
  /\ UNCHANGED <<parent, data, listeners, attaches, ghosts, used>>

-----------------------------------------------------------------------------
(* The page and its user.                                                    *)

Called == PageCode /\ used < MaxCalls /\ used' = used + 1

On(n) ==
  /\ Called
  /\ \E o \in Offered :
       /\ AddHandler(n, [type |-> o.type, fn |-> o.fn, sel |-> o.sel, one |-> o.one, serial |-> used])
       /\ meant' = meant \cup {<<n, used>>}
  /\ UNCHANGED <<parent, calls, counts, again>>

Off(n) ==
  /\ Called
  /\ EventsOf(n) # <<>>
  /\ \E types \in {{"click"}, {"focusin"}, Type}, fns \in {Handler} \cup {{f} : f \in Handler} :
       /\ RemoveHandlers(n, {o \in HandlersOf(n) : o.type \in types /\ o.fn \in fns})
       /\ meant' = {b \in meant : ~(b[1] = n /\ \E t \in types \cap DOMAIN EventsOf(n) :
                      \E o \in ToSet(Bound(n, t).list) : o.serial = b[2] /\ o.fn \in fns)}
  /\ UNCHANGED <<parent, calls, counts, again>>

(* data(name, value)                                                         *)
SetData(n) ==
  /\ Called
  /\ Write(n, [Data(n) EXCEPT !.data = TRUE])
  /\ UNCHANGED <<parent, listeners, attaches, calls, ghosts>>

(* removeData()                                                              *)
RemoveData(n) ==
  /\ Called
  /\ Data(n).data
  /\ IF EventsOf(n) = <<>> THEN CleanData(<<n>>)
     ELSE Write(n, [Data(n) EXCEPT !.data = FALSE]) /\ UNCHANGED <<listeners, attaches>>
  /\ UNCHANGED <<parent, calls, ghosts>>

(* remove(), which cleans the element and all inside it; detach(). Elements  *)
(* inside another come after it.                                             *)
Orders(S) ==
  {order \in Bijection(1..Cardinality(S), S) :
     \A i, j \in DOMAIN order : order[i] \in ToSet(Ancestors(order[j])) => i <= j}

(* Mutant: the data of the elements inside are not cleaned.                 *)
RemoveElementAlone(n) ==
  /\ Called
  /\ n # Root
  /\ CleanData(<<n>>)
  /\ parent' = [parent EXCEPT ![n] = None]
  /\ meant' = {b \in meant : b[1] \notin Inside(n)}
  /\ UNCHANGED <<calls, counts, again>>

RemoveElement(n) ==
  /\ Called
  /\ n # Root
  /\ \E order \in Orders(Inside(n)) : CleanData(order)
  /\ parent' = [parent EXCEPT ![n] = None]
  /\ meant' = {b \in meant : b[1] \notin Inside(n)}
  /\ UNCHANGED <<calls, counts, again>>

Detach(n) ==
  /\ Called
  /\ n # Root
  /\ parent' = [parent EXCEPT ![n] = None]
  /\ UNCHANGED <<data, listeners, attaches, calls, ghosts>>

(* append() of an element that is not in the document.                       *)
AppendTo(n, p) ==
  /\ Called
  /\ n # Root /\ parent[n] = None /\ p \notin Inside(n)
  /\ parent' = [parent EXCEPT ![n] = p]
  /\ UNCHANGED <<data, listeners, attaches, calls, ghosts>>

(* clone(true) of an element without children, into one not yet in use:      *)
(* cloneCopyEvent copies the data and binds every handler again, so that     *)
(* what was bound to m before, and called, is none of these bindings.        *)
Clone(n, m) ==
  /\ Called
  /\ Inside(n) = {n} /\ Inside(m) = {m} /\ parent[m] = None /\ expando[m] = None /\ m # n
  /\ LET types == DOMAIN EventsOf(n)
     IN IF expando[n] = None THEN UNCHANGED <<data, listeners, attaches, meant, counts>>
        ELSE /\ Write(m, [Data(n) EXCEPT !.handle = IF types = {} THEN None ELSE m])
             /\ listeners' = [listeners EXCEPT ![m]["click"] = IF "click" \in types THEN m ELSE None]
             /\ attaches' = IF "focusin" \in types THEN attaches + 1 ELSE attaches
             /\ meant' = {b \in meant : b[1] # m} \cup {<<m, o.serial>> : o \in HandlersOf(n)}
             /\ counts' = Without(counts, {key \in DOMAIN counts : key[1] = m})
  /\ UNCHANGED <<parent, calls, again>>

(* The user clicks or puts the focus on an element of the document, or the   *)
(* page triggers an event; the path is fixed when the event begins.          *)
Begins(t, n, native, path) ==
  /\ calls' = <<Event(t, n, native, path)>> \o calls
  /\ again' = (again \/ \E i \in DOMAIN calls : calls[i].k = "dispatch" /\ calls[i].type = t)
  /\ UNCHANGED <<parent, data, listeners, attaches, meant, counts>>

UserEvent(n) ==
  /\ Called
  /\ Idle
  /\ Root \in ToSet(Ancestors(n))
  /\ \/ Begins("click", n, TRUE, Ancestors(n))
     \/ attaches > 0 /\ Begins("focusin", n, FALSE, Ancestors(n))

Trigger(n) ==
  /\ Called
  /\ \E t \in Type : Begins(t, n, FALSE, Ancestors(n)) \/ Begins(t, n, FALSE, <<n>>)

Next ==
  \/ Propagate \/ CallHandler \/ Return
  \/ \E n \in Node :
       \/ On(n) \/ Off(n) \/ SetData(n) \/ RemoveData(n) \/ RemoveElement(n) \/ Detach(n)
       \/ \E p \in Node : AppendTo(n, p) \/ Clone(n, p)
       \/ UserEvent(n) \/ Trigger(n)

Spec == Init /\ [][Next]_vars

-----------------------------------------------------------------------------
(* Properties.                                                               *)

TypeOK ==
  /\ parent \in [Node -> Node \cup {None}] /\ parent[Root] = None
  /\ expando \in [Node -> Nat \cup {None}]
  /\ guid \in 1..(MaxCalls + 1)
  /\ attaches \in 0..Cardinality(Node)
  /\ \A n \in Node, t \in Type :
       /\ listeners[n][t] \in Node \cup {None}
       /\ ToSet(Bound(n, t).list) \subseteq HandleObj
  /\ used \in 0..MaxCalls

(* No two elements share an entry of the cache, every entry is some          *)
(* element's, and a key to be used again is nobody's and is kept once.       *)
DataIsOwn ==
  LET keys == {expando[n] : n \in {m \in Node : expando[m] # None}}
  IN /\ \A n, m \in Node : expando[n] # None /\ expando[n] = expando[m] => n = m
     /\ DOMAIN cache = keys
     /\ Cardinality(ToSet(deleted)) = Len(deleted)
     /\ ToSet(deleted) \cap keys = {}
     /\ \A k \in keys : cache[k].events # <<>> \/ cache[k].data

(* The browser calls jQuery exactly for the elements and the types that have *)
(* handlers, on the element itself, and handlers with a selector are in      *)
(* front.                                                                    *)
ListenersMatch ==
  /\ \A n \in Node :
       /\ listeners[n]["click"] = IF "click" \in DOMAIN EventsOf(n) THEN n ELSE None
       /\ \A t \in DOMAIN EventsOf(n) :
            LET b == Bound(n, t) IN
            /\ b.list # <<>>
            /\ \A i \in DOMAIN b.list : (b.list[i].sel # None) <=> i <= b.delegateCount
  /\ attaches = Cardinality({n \in Node : "focusin" \in DOMAIN EventsOf(n)})

(* The cache and what the browser knows of it agree in every state.          *)
DataInv == TypeOK /\ DataIsOwn /\ ListenersMatch

(* What is bound is what the page has asked for; only one() takes more away, *)
(* the other bindings of its function.                                       *)
AllBound == UNION {{<<n, o.serial>> : o \in HandlersOf(n)} : n \in Node}

BoundAsMeant ==
  /\ AllBound \subseteq meant
  /\ \A b \in meant \ AllBound : \E key \in DOMAIN counts : key[1] = b[1] /\ key[2] # b[2]

(* A binding made with one() is called once for an element, unless its event *)
(* is fired again while it is being dispatched.                              *)
OneIsCalledOnce == ~again => \A key \in DOMAIN counts : counts[key] = 1

(* The handlers an event at target finds at n: every one without a selector  *)
(* once, every other once for each element it matches below n, the elements  *)
(* from the target up, and those of one element in the order of the list.    *)
Before(s, x, y) == \E a, b \in DOMAIN s : a < b /\ s[a] = x /\ s[b] = y
Below(n, target) == {e \in ToSet(Ancestors(target)) : e # n /\ n \in ToSet(Ancestors(e))}
QueueIsComplete ==
  \A n \in Node, t \in Type : \A target \in Inside(n) :
    LET q == HandlerQueue(n, t, target)
        list == Bound(n, t).list
        all == ToSet(list)
        depth(e) == Len(Ancestors(e))
    IN /\ ToSet(q) = (UNION {{Entry(e, o) : o \in {x \in all : x.sel # None /\ e \in Matched[x.sel]}} : e \in Below(n, target)})
                     \cup {Entry(n, o) : o \in {x \in all : x.sel = None}}
       /\ Cardinality(ToSet(q)) = Len(q)
       /\ \A i, j \in DOMAIN q : i < j => depth(q[i].elem) >= depth(q[j].elem)
       /\ \A i, j \in DOMAIN q : i < j /\ q[i].elem = q[j].elem => Before(list, q[i].obj, q[j].obj)

(* An event calls what it should, and a binding made with one() once.        *)
HandlersCalled == OneIsCalledOnce /\ QueueIsComplete
=============================================================================
