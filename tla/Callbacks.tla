----------------------------- MODULE Callbacks ------------------------------
(* jQuery.Callbacks: a list of functions that is fired, with the flags once, *)
(* memory, unique and stopOnFalse.  A list is a record of the variables of   *)
(* its closure; the operators are the methods, each giving the list after    *)
(* the call.  A method that has to call the functions of the list gives the  *)
(* list as fire() has set it up; the loop of fire() is for the stack machine *)
(* that uses this module (Deferred), since the functions called may come     *)
(* back to this list or to another one.                                      *)
EXTENDS Integers, Sequences, SequencesExt

CONSTANT NoData

(* items      list, as long as it is not undefined (gone)                    *)
(* again      stack is an array: the list may be fired again; queue is stack *)
(* start, length, index   firingStart, firingLength, firingIndex             *)
(* due        an auxiliary: the functions this firing owes a call, kept      *)
(*            without any index                                              *)
(* wiped      an auxiliary: empty() has been called during a firing          *)
NewList(flags) ==
  [flags |-> flags, items |-> <<>>, gone |-> FALSE, again |-> "once" \notin flags, queue |-> <<>>,
   memory |-> NoData, fired |-> FALSE, firing |-> FALSE,
   start |-> 0, length |-> 0, index |-> 0, due |-> <<>>, wiped |-> FALSE]

Has(c, f) == f \in ToSet(c.items)

(* disable(): list = stack = memory = undefined.                             *)
Disabled(c) ==
  [c EXCEPT !.items = <<>>, !.gone = TRUE, !.again = FALSE, !.queue = <<>>, !.memory = NoData]

(* lock()                                                                    *)
Locked(c) ==
  IF c.memory = NoData THEN Disabled(c) ELSE [c EXCEPT !.again = FALSE, !.queue = <<>>]

(* fire(), up to its loop.                                                   *)
Entered(c, data) ==
  [c EXCEPT !.memory = IF "memory" \in c.flags THEN data ELSE NoData,
            !.fired = TRUE,
            !.index = c.start,
            !.start = 0,
            !.length = Len(c.items),
            !.firing = TRUE,
            !.due = SubSeq(c.items, c.start + 1, Len(c.items))]

(* Where the loop of fire() stands between two calls: at a function to call, *)
(* at its end, or at an index the list does not reach, where .apply throws.  *)
AtEnd(c) == c.gone \/ c.index >= c.length
AtHole(c) == ~AtEnd(c) /\ c.index >= Len(c.items)
AtCall(c) == ~AtEnd(c) /\ ~AtHole(c)
Current(c) == c.items[c.index + 1]

(* After the loop: the next firing that was asked for meanwhile, or rest.    *)
Refires(c) == ~c.gone /\ c.again /\ c.queue # <<>>
Left(c) ==
  LET done == [c EXCEPT !.firing = FALSE, !.due = <<>>]
  IN IF c.gone THEN done
     ELSE IF c.again
          THEN IF c.queue = <<>> THEN done
               ELSE Entered([done EXCEPT !.queue = Tail(@)], Head(c.queue))
          ELSE IF c.memory # NoData THEN [done EXCEPT !.items = <<>>]
               ELSE Disabled(done)

(* fireWith(), and whether it enters fire() at once.                         *)
MayFire(c) == ~c.gone /\ (~c.fired \/ c.again)
FiresNow(c) == MayFire(c) /\ ~c.firing
FiredWith(c, data) ==
  IF ~MayFire(c) THEN c
  ELSE IF c.firing THEN [c EXCEPT !.queue = Append(@, data)]
       ELSE Entered(c, data)

(* add() of one function, and whether it enters fire() at once.              *)
Accepts(c, f) == ~c.gone /\ ~("unique" \in c.flags /\ Has(c, f))
AddFires(c) == ~c.gone /\ ~c.firing /\ c.memory # NoData
(* Mutant: what a callback adds is not part of the firing under way.         *)
AddedNextTime(c, f) ==
  LET more == IF Accepts(c, f) THEN Append(c.items, f) ELSE c.items
  IN IF c.gone THEN c
     ELSE IF c.firing THEN [c EXCEPT !.items = more]
     ELSE IF c.memory # NoData
          THEN Entered([c EXCEPT !.items = more, !.start = Len(c.items)], c.memory)
          ELSE [c EXCEPT !.items = more]

Added(c, f) ==
  LET more == IF Accepts(c, f) THEN Append(c.items, f) ELSE c.items
  IN IF c.gone THEN c
     ELSE IF c.firing
          THEN [c EXCEPT !.items = more, !.length = Len(more),
                         !.due = IF Accepts(c, f) THEN Append(@, f) ELSE @]
          ELSE IF c.memory # NoData
               THEN Entered([c EXCEPT !.items = more, !.start = Len(c.items)], c.memory)
               ELSE [c EXCEPT !.items = more]

(* Mutant: off by one, the function being called itself is not counted.      *)
RemoveStepOffByOne(f, c, x) ==
  IF x # f THEN [c EXCEPT !.items = Append(@, x)]
  ELSE IF ~c.firing THEN c
  ELSE LET i == Len(c.items)
       IN [c EXCEPT !.length = IF i <= @ THEN @ - 1 ELSE @,
                    !.index = IF i < @ THEN @ - 1 ELSE @]

(* remove(): every occurrence, while the indexes of a running loop are kept  *)
(* where they belong.  The list is rebuilt up to the place reached.          *)
RemoveStep(f, c, x) ==
  IF x # f THEN [c EXCEPT !.items = Append(@, x)]
  ELSE IF ~c.firing THEN c
  ELSE LET i == Len(c.items)
       IN [c EXCEPT !.length = IF i <= @ THEN @ - 1 ELSE @,
                    !.index = IF i <= @ THEN @ - 1 ELSE @]

(* s without f.                                                              *)
Without(s, f) ==
  LET upTo[i \in 0..Len(s)] ==
        IF i = 0 THEN <<>> ELSE IF s[i] = f THEN upTo[i - 1] ELSE Append(upTo[i - 1], s[i])
  IN upTo[Len(s)]

Removed(c, f) ==
  LET after[i \in 0..Len(c.items)] ==
        IF i = 0 THEN [c EXCEPT !.items = <<>>] ELSE RemoveStep(f, after[i - 1], c.items[i])
  IN IF c.gone THEN c ELSE [after[Len(c.items)] EXCEPT !.due = Without(c.due, f)]

(* empty()                                                                   *)
Emptied(c) ==
  [c EXCEPT !.items = <<>>, !.gone = FALSE, !.due = <<>>, !.wiped = @ \/ c.firing]
=============================================================================
