----------------------- MODULE ApprovalService_proofs -----------------------
(***************************************************************************)
(* Proofs about the approval service, in two parts.                        *)
(*                                                                         *)
(* The engine.  IInv is an inductive invariant of the approval engine, and *)
(* what follows from it, for every chain of activities, staff and number   *)
(* of instances.                                                           *)
(*                                                                         *)
(* The request handlers.  Under every interleaving of any number of        *)
(* threads they change the tables by engine commands only, so that what is *)
(* proved of the engine holds of the service; a submit is acknowledged     *)
(* only when its task is over; starts that overlap create no more          *)
(* instances of a business key than there are threads; and without runTo,  *)
(* rollback and withdraw, which jump on the word of the history a handler  *)
(* read in an earlier step, never take an approval past an activity that   *)
(* was not signed off; and nobody is told of an instance that runs with    *)
(* nothing to do, except in the middle of a stop.  A jump may name any     *)
(* flow element, the end event too.                                        *)
(***************************************************************************)
EXTENDS WorkflowExecute, FiniteSetTheorems, FunctionTheorems, TLAPS

-----------------------------------------------------------------------------
(* Lemmas about task ids and about the operators that write the history.   *)

(* The parts of a task id.                                                  *)
LEMMA TaskIdParts ==
  ASSUME NEW t \in TaskId
  PROVE  /\ t = <<t[1], t[2], t[3]>>
         /\ t[1] \in Instance /\ t[2] \in Nat /\ t[3] \in Person
BY DEF TaskId

(* A batch holds one id for each owner.                                     *)
LEMMA BatchFacts ==
  ASSUME NEW i \in Instance, NEW n \in Nat, NEW O \in SUBSET Person
  PROVE  /\ Batch(i, n, O) \subseteq TaskId
         /\ \A t \in Batch(i, n, O) : t[1] = i /\ t[2] = n /\ t[3] \in O
         /\ \A p \in O : <<i, n, p>> \in Batch(i, n, O)
         /\ IsFiniteSet(Batch(i, n, O))
         /\ Cardinality(Batch(i, n, O)) = Cardinality(O)
         /\ Cardinality(O) \in Nat
<1> DEFINE f == [p \in O |-> <<i, n, p>>]
<1>1. IsFiniteSet(O)
  BY FS_Subset, EngineAssumption
<1>2. f \in Bijection(O, Batch(i, n, O))
  <2>1. f \in [O -> Batch(i, n, O)]
    BY DEF Batch
  <2>2. \A p, q \in O : f[p] = f[q] => p = q
    OBVIOUS
  <2>3. \A t \in Batch(i, n, O) : \E p \in O : f[p] = t
    BY DEF Batch
  <2> QED
    BY <2>1, <2>2, <2>3, Fun_IsBij
<1>3. IsFiniteSet(Batch(i, n, O)) /\ Cardinality(Batch(i, n, O)) = Cardinality(O)
  BY <1>1, <1>2, FS_Bijection DEF ExistsBijection
<1>4. Cardinality(O) \in Nat
  BY <1>1, FS_CardinalityType
<1>5. /\ Batch(i, n, O) \subseteq TaskId
      /\ \A t \in Batch(i, n, O) : t[1] = i /\ t[2] = n /\ t[3] \in O
      /\ \A p \in O : <<i, n, p>> \in Batch(i, n, O)
  BY DEF Batch, TaskId
<1> QED
  BY <1>3, <1>4, <1>5

(* Ending tasks changes nothing but how they ended.                         *)
LEMMA EndedFacts ==
  ASSUME NEW X, NEW f \in [X -> Row], NEW T, NEW r \in EndReason
  PROVE  /\ Ended(f, T, r) \in [X -> Row]
         /\ \A t \in X :
              /\ Ended(f, T, r)[t].at = f[t].at
              /\ Ended(f, T, r)[t].assignee = f[t].assignee
              /\ Ended(f, T, r)[t].end = IF t \in T THEN r ELSE f[t].end
              /\ t \notin T => Ended(f, T, r)[t] = f[t]
BY DEF Ended, Row

(* Ending some tasks for one reason and then some for another.              *)
LEMMA EndedTwice ==
  ASSUME NEW X, NEW f \in [X -> Row], NEW S, NEW q \in EndReason, NEW T, NEW r \in EndReason,
         NEW g, g = Ended(Ended(f, S, q), T, r)
  PROVE  /\ g \in [X -> Row]
         /\ \A t \in X :
              /\ g[t].at = f[t].at
              /\ g[t].end = IF t \in T THEN r ELSE IF t \in S THEN q ELSE f[t].end
              /\ t \notin S /\ t \notin T => g[t] = f[t]
<1>1. PICK h : h = Ended(f, S, q)
  OBVIOUS
<1>2. /\ h \in [X -> Row]
      /\ \A t \in X :
           /\ h[t].at = f[t].at
           /\ h[t].end = IF t \in S THEN q ELSE f[t].end
           /\ t \notin S => h[t] = f[t]
  BY <1>1, EndedFacts
<1>3. g = Ended(h, T, r)
  BY <1>1
<1>4. /\ g \in [X -> Row]
      /\ \A t \in X :
           /\ g[t].at = h[t].at
           /\ g[t].end = IF t \in T THEN r ELSE h[t].end
           /\ t \notin T => g[t] = h[t]
  BY <1>2, <1>3, EndedFacts
<1> QED
  BY <1>2, <1>4

(* The flow elements: the user tasks are among them, and where one leads.   *)
LEMMA TasksAreElements == Activity \subseteq Element
BY EngineAssumption DEF Activity, Element, EndEvent

LEMMA TargetsAre == Targets \subseteq Element \cup {NoElement}
BY EngineAssumption DEF Element, NoElement, EndEvent

LEMMA ElementFacts ==
  /\ EndEvent \in Element /\ NoElement \notin Element
  /\ \A e \in Element : Destination(e) \in Activity \cup {EndEvent}
  /\ \A a \in Activity \cup {EndEvent} : Destination(a) = a
  /\ EndEvent \notin Activity
BY EngineAssumption DEF Activity, Element, NoElement, Destination, EndEvent

(* An instance has finitely many open tasks, all of one batch.              *)
LEMMA TasksFacts ==
  ASSUME IInv, NEW i \in Instance
  PROVE  /\ IsFiniteSet(Tasks(i))
         /\ Cardinality(Tasks(i)) \in Nat
         /\ Tasks(i) \subseteq DOMAIN hist
         /\ \A t \in Tasks(i) : /\ t[1] = i /\ t[2] = token[i].round
                                /\ hist[t].at = token[i].at
                                /\ hist[t].end = "open"
<1>1. \A t \in Tasks(i) : /\ t \in DOMAIN hist /\ t \in TaskId
                          /\ t[1] = i /\ t[2] = token[i].round
                          /\ hist[t].at = token[i].at
                          /\ hist[t].end = "open"
  BY DEF IInv, TypeOK, OneRoundOpen, RuntimeMatchesHistory, Tasks
<1>2. token[i].round \in Nat
  BY DEF IInv, TypeOK, Token
<1>3. Tasks(i) \subseteq Batch(i, token[i].round, Person)
  BY <1>1, TaskIdParts DEF Batch
<1>4. IsFiniteSet(Tasks(i))
  BY <1>2, <1>3, BatchFacts, FS_Subset
<1> QED
  BY <1>1, <1>4, FS_CardinalityType

-----------------------------------------------------------------------------
(* What the rows of a history must satisfy for the signature rules.         *)
RowsSigned(rows) ==
  /\ \A t, u \in DOMAIN rows :
       /\ rows[t].end = "done" /\ rows[u].end = "done"
       /\ t[1] = u[1] /\ t[2] = u[2]
       /\ SignRule[rows[t].at] = "one"
       => t = u
  /\ \A t \in DOMAIN rows : rows[t].end = "closed" => SignRule[rows[t].at] # "all"

LEMMA SignedIsRowsSigned == OrSignOnce /\ AllSignComplete <=> RowsSigned(hist)
BY DEF RowsSigned, OrSignOnce, AllSignComplete

LEMMA SignedIsRowsSignedNext == RowsSigned(hist') => (OrSignOnce /\ AllSignComplete)'
BY DEF RowsSigned, OrSignOnce, AllSignComplete

(* The execution of an instance arrives at a task: whatever the command has *)
(* done to the rows of this instance before, the invariant is established.  *)
LEMMA Arrival ==
  ASSUME IInv, NEW i \in Instance, NEW a, NEW O \in SUBSET Person, NEW n \in Nat,
         NEW D, NEW rows \in [D -> Row], NEW open,
         ArriveAtTask(i, a, O, n, rows, open),
         status' = [status EXCEPT ![i] = "active"],
         seq[i] < n,
         D \subseteq TaskId,
         open = {t \in D : rows[t].end = "open"},
         \A t \in D : t[1] = i => rows[t].end # "open" /\ t[2] < n,
         \A t \in D : t[1] # i => t \in DOMAIN hist /\ rows[t] = hist[t],
         \A t \in DOMAIN hist : t[1] # i => t \in D,
         RowsSigned(rows),
         bkey' \in [Instance -> BusinessKey \cup {NoKey}],
         owners' \in [Instance -> [Activity -> SUBSET Person]],
         approved' \subseteq D
  PROVE  IInv'
<1> DEFINE fresh == Batch(i, n, O)
           new == [t \in fresh |-> [at |-> a, assignee |-> t[3], end |-> "open"]]
<1> USE DEF IInv
<1>1. /\ a \in Activity /\ O # {}
      /\ hist' = Insert(rows, new)
      /\ todo' = open \cup fresh
      /\ token' = [token EXCEPT ![i] =
                     [at |-> a, round |-> n, total |-> Cardinality(O), done |-> 0]]
      /\ seq' = [seq EXCEPT ![i] = n]
  BY DEF ArriveAtTask
<1>2. /\ fresh \subseteq TaskId
      /\ \A t \in fresh : t[1] = i /\ t[2] = n /\ t[3] \in O
      /\ Cardinality(fresh) = Cardinality(O)
      /\ Cardinality(O) \in Nat
      /\ fresh # {}
  <2>1. /\ fresh \subseteq TaskId
        /\ \A t \in fresh : t[1] = i /\ t[2] = n /\ t[3] \in O
        /\ \A p \in O : <<i, n, p>> \in fresh
        /\ Cardinality(fresh) = Cardinality(O)
        /\ Cardinality(O) \in Nat
    BY BatchFacts
  <2> QED
    BY <1>1, <2>1
<1>3. new \in [fresh -> Row]
  BY <1>1, <1>2, TasksAreElements DEF Row, EndReason
<1>4. fresh \cap D = {}
  BY <1>2
<1> HIDE DEF fresh, new
<1>5. /\ hist' \in [D \cup fresh -> Row]
      /\ DOMAIN hist' = D \cup fresh
      /\ \A t \in D : hist'[t] = rows[t]
      /\ \A t \in fresh : hist'[t] = new[t]
  <2>1. /\ Insert(rows, new) \in [D \cup fresh -> Row]
        /\ \A t \in D : Insert(rows, new)[t] = rows[t]
        /\ \A t \in fresh : Insert(rows, new)[t] = new[t]
    BY <1>3, <1>4 DEF Insert
  <2> QED
    BY <1>1, <2>1
<1>6. \A t \in fresh : hist'[t].at = a /\ hist'[t].end = "open"
  BY <1>5 DEF new
<1>7. TypeOK'
  <2>1. [at |-> a, round |-> n, total |-> Cardinality(O), done |-> 0] \in Token
    BY <1>1, <1>2, EngineAssumption DEF Token, Activity, EndEvent
  <2>2. token' \in [Instance -> Token]
    BY <1>1, <2>1 DEF TypeOK
  <2> QED
    BY <1>1, <1>2, <1>5, <2>2 DEF TypeOK
<1>8. RuntimeMatchesHistory'
  BY <1>1, <1>5, <1>6 DEF RuntimeMatchesHistory
<1>9. /\ token'[i] = [at |-> a, round |-> n, total |-> Cardinality(O), done |-> 0]
      /\ \A j \in Instance : j # i => token'[j] = token[j] /\ seq'[j] = seq[j]
                                      /\ status'[j] = status[j]
      /\ seq'[i] = n
      /\ status'[i] = "active"
  BY <1>1 DEF TypeOK
<1>10. \A t \in open : t[1] # i /\ t \in todo /\ t[1] \in Instance
  BY DEF RuntimeMatchesHistory, TypeOK, TaskId
<1>11. OneRoundOpen'
  <2> SUFFICES ASSUME NEW t \in todo'
               PROVE  t[2] = token'[t[1]].round /\ hist'[t].at = token'[t[1]].at
    BY DEF OneRoundOpen
  <2>1. CASE t \in fresh
    BY <2>1, <1>2, <1>6, <1>9
  <2>2. CASE t \in open
    BY <2>2, <1>5, <1>9, <1>10 DEF OneRoundOpen
  <2> QED
    BY <1>1, <2>1, <2>2
<1>12. CountersMatchRows'
  <2>1. Tasks(i)' = fresh
    BY <1>1, <1>2, <1>10 DEF Tasks
  <2>2. \A j \in Instance : j # i => Tasks(j)' = Tasks(j)
    <3>1. \A t \in todo : t[1] # i => t \in open
      BY DEF RuntimeMatchesHistory
    <3> QED
      BY <1>1, <1>2, <1>10, <3>1 DEF Tasks
  <2>3. \A j \in Instance : j # i => Running(j)' = Running(j)
    BY <1>9 DEF Running
  <2>4. Running(i)'
    BY <1>9 DEF Running
  <2> SUFFICES ASSUME NEW j \in Instance
               PROVE (IF Running(j)
                      THEN /\ token[j].at \in Activity
                           /\ token[j].round <= seq[j]
                           /\ Cardinality(Tasks(j)) + token[j].done = token[j].total
                           /\ Tasks(j) # {}
                           /\ SignRule[token[j].at] = "one" => token[j].done = 0
                      ELSE Tasks(j) = {})'
    BY DEF CountersMatchRows
  <2>5. CASE j = i
    BY <2>1, <2>4, <2>5, <1>1, <1>2, <1>9
  <2>6. CASE j # i
    BY <2>2, <2>3, <2>6, <1>9 DEF CountersMatchRows
  <2> QED
    BY <2>5, <2>6
<1>13. CurrentRound'
  <2> SUFFICES ASSUME NEW t \in DOMAIN hist', Running(t[1])', t[2] = token'[t[1]].round
               PROVE  /\ hist'[t].at = token'[t[1]].at
                      /\ hist'[t].end \in {"open", "done"}
                      /\ SignRule[hist'[t].at] = "one" => hist'[t].end = "open"
    BY DEF CurrentRound
  <2>1. CASE t \in fresh
    BY <2>1, <1>2, <1>6, <1>9
  <2>2. CASE t \in D
    <3>1. t[1] # i
      BY <2>2, <1>9 DEF TaskId
    <3>2. t \in DOMAIN hist /\ hist'[t] = hist[t] /\ t[1] \in Instance
      BY <2>2, <3>1, <1>5 DEF TaskId
    <3> QED
      BY <3>1, <3>2, <1>9 DEF CurrentRound, Running
  <2> QED
    BY <1>5, <2>1, <2>2
<1>14. IdsAreUsed'
  <2> SUFFICES ASSUME NEW t \in DOMAIN hist'
               PROVE  t[2] <= seq'[t[1]]
    BY DEF IdsAreUsed
  <2>1. CASE t \in fresh
    BY <2>1, <1>2, <1>9
  <2>2. CASE t \in D
    BY <2>2, <1>9, TaskIdParts DEF IdsAreUsed
  <2> QED
    BY <1>5, <2>1, <2>2
<1>15. RowsSigned(hist')
  BY <1>2, <1>4, <1>5, <1>6, TaskIdParts DEF RowsSigned
<1> QED
  BY <1>7, <1>8, <1>11, <1>12, <1>13, <1>14, <1>15, SignedIsRowsSignedNext

-----------------------------------------------------------------------------
(* One lemma per command: it preserves the invariant.                       *)

(* The owners of a request, over those known before.                        *)
LEMMA OwnersType ==
  ASSUME NEW own \in Owners
  PROVE  own \in [Activity -> SUBSET Person]
BY EngineAssumption DEF Owners, Activity

LEMMA OverlayType ==
  ASSUME NEW old \in [Activity -> SUBSET Person], NEW own \in Owners
  PROVE  Overlay(old, own) \in [Activity -> SUBSET Person]
BY OwnersType DEF Overlay

LEMMA StartInv ==
  ASSUME IInv, NEW i \in Instance, NEW k \in BusinessKey, NEW own \in Owners,
         StartProcess(i, k, own)
  PROVE  IInv'
<1> DEFINE O == own[1]
           n == seq[i] + 1
<1>1. /\ O \in SUBSET Person /\ own \in [Activity -> SUBSET Person]
      /\ n \in Nat /\ seq[i] < n
  <2>1. own \in [Activity -> SUBSET Person]
    BY OwnersType
  <2>2. 1 \in Activity
    BY EngineAssumption DEF Activity
  <2> QED
    BY <2>1, <2>2 DEF IInv, TypeOK
<1>2. /\ status' = [status EXCEPT ![i] = "active"]
      /\ bkey' \in [Instance -> BusinessKey \cup {NoKey}]
      /\ owners' \in [Instance -> [Activity -> SUBSET Person]]
      /\ approved' \subseteq DOMAIN hist
      /\ ArriveAtTask(i, 1, O, n, hist, todo)
  BY <1>1 DEF StartProcess, IInv, TypeOK
<1>3. /\ hist \in [DOMAIN hist -> Row] /\ DOMAIN hist \subseteq TaskId
      /\ todo = {t \in DOMAIN hist : hist[t].end = "open"}
      /\ RowsSigned(hist)
  BY SignedIsRowsSigned DEF IInv, TypeOK, RuntimeMatchesHistory
<1>4. \A t \in DOMAIN hist : t[1] = i => hist[t].end # "open" /\ t[2] < n
  <2>1. Tasks(i) = {}
    BY DEF StartProcess, IInv, CountersMatchRows, Running
  <2>2. \A t \in DOMAIN hist : t[1] = i => t \notin todo
    BY <2>1 DEF Tasks
  <2>3. \A t \in DOMAIN hist : t[1] = i => t[2] < n
    BY <1>1, <1>3, TaskIdParts DEF IInv, IdsAreUsed, TypeOK
  <2> QED
    BY <2>2, <2>3, <1>3
<1> HIDE DEF O, n
<1> QED
  BY <1>1, <1>2, <1>3, <1>4, Arrival

LEMMA CompleteTaskInv ==
  ASSUME IInv, NEW t \in DOMAIN hist, NEW own \in Owners, CompleteTask(t, own)
  PROVE  IInv'
<1> DEFINE i == t[1]
<1> USE DEF IInv
<1>1. /\ i \in Instance /\ t \in TaskId
      /\ t \in todo /\ t \in Tasks(i) /\ status[i] = "active" /\ Running(i)
      /\ hist[t].end = "open" /\ hist[t].at = token[i].at /\ t[2] = token[i].round
  BY TaskIdParts
     DEF TypeOK, CompleteTask, Live, Tasks, Running, RuntimeMatchesHistory, OneRoundOpen
<1>2. /\ token[i].at \in Activity
      /\ token[i].done \in Nat /\ token[i].total \in Nat /\ token[i].round \in Nat
      /\ Cardinality(Tasks(i)) + token[i].done = token[i].total
      /\ IsFiniteSet(Tasks(i)) /\ Cardinality(Tasks(i)) \in Nat
      /\ SignRule[token[i].at] = "one" => token[i].done = 0
  BY <1>1, TasksFacts DEF CountersMatchRows, TypeOK, Token
<1>3. /\ token[i].done + 1 < token[i].total
      /\ SignRule[token[i].at] # "one"
  BY <1>1, <1>2 DEF CompleteTask, RoundOver
<1>4. /\ hist' = Ended(hist, {t}, "done")
      /\ todo' = todo \ {t}
      /\ token' = [token EXCEPT ![i].done = @ + 1]
      /\ owners' = [owners EXCEPT ![i] = Overlay(@, own)]
      /\ UNCHANGED <<status, bkey, seq, approved>>
  BY DEF CompleteTask
<1>5. /\ hist' \in [DOMAIN hist -> Row]
      /\ DOMAIN hist' = DOMAIN hist
      /\ \A u \in DOMAIN hist : /\ hist'[u].at = hist[u].at
                                /\ u # t => hist'[u] = hist[u]
      /\ hist'[t].end = "done"
  <2>1. /\ Ended(hist, {t}, "done") \in [DOMAIN hist -> Row]
        /\ \A u \in DOMAIN hist :
              /\ Ended(hist, {t}, "done")[u].at = hist[u].at
              /\ Ended(hist, {t}, "done")[u].end = IF u \in {t} THEN "done" ELSE hist[u].end
              /\ u \notin {t} => Ended(hist, {t}, "done")[u] = hist[u]
    BY EndedFacts DEF TypeOK, EndReason
  <2> QED
    BY <1>4, <2>1
<1>6. /\ \A j \in Instance : token'[j].at = token[j].at /\ token'[j].round = token[j].round
                             /\ token'[j].total = token[j].total
      /\ \A j \in Instance : j # i => token'[j] = token[j]
      /\ token'[i].done = token[i].done + 1
      /\ token' \in [Instance -> Token]
  <2>1. token[i] \in Token /\ token \in [Instance -> Token]
    BY <1>1 DEF TypeOK
  <2>2. /\ [token[i] EXCEPT !.done = @ + 1] \in Token
        /\ [token[i] EXCEPT !.done = @ + 1].at = token[i].at
        /\ [token[i] EXCEPT !.done = @ + 1].round = token[i].round
        /\ [token[i] EXCEPT !.done = @ + 1].total = token[i].total
        /\ [token[i] EXCEPT !.done = @ + 1].done = token[i].done + 1
    BY <2>1 DEF Token
  <2>3. /\ token'[i] = [token[i] EXCEPT !.done = @ + 1]
        /\ \A j \in Instance : j # i => token'[j] = token[j]
    BY <1>1, <1>4, <2>1
  <2>4. token' \in [Instance -> Token]
    BY <1>1, <1>4, <2>1, <2>2
  <2>5. \A j \in Instance : token'[j].at = token[j].at /\ token'[j].round = token[j].round
                             /\ token'[j].total = token[j].total
    BY <2>2, <2>3
  <2> QED
    BY <2>2, <2>3, <2>4, <2>5
<1> HIDE DEF i
<1>7. TypeOK'
  <2>1. owners' \in [Instance -> [Activity -> SUBSET Person]]
    BY <1>1, <1>4, OverlayType DEF TypeOK
  <2> QED
    BY <1>4, <1>5, <1>6, <2>1 DEF TypeOK
<1>8. RuntimeMatchesHistory'
  BY <1>4, <1>5 DEF RuntimeMatchesHistory
<1>9. OneRoundOpen'
  <2> SUFFICES ASSUME NEW u \in todo'
               PROVE  u[2] = token'[u[1]].round /\ hist'[u].at = token'[u[1]].at
    BY DEF OneRoundOpen
  <2>1. u \in todo /\ u \in DOMAIN hist /\ u[1] \in Instance
    BY <1>4 DEF TypeOK, TaskId
  <2> QED
    BY <2>1, <1>5, <1>6 DEF OneRoundOpen
<1>10. CountersMatchRows'
  <2>1. /\ Tasks(i)' = Tasks(i) \ {t}
        /\ \A j \in Instance : j # i => Tasks(j)' = Tasks(j)
    BY <1>4 DEF Tasks, i
  <2>2. Cardinality(Tasks(i) \ {t}) = Cardinality(Tasks(i)) - 1
    BY <1>1, <1>2, FS_RemoveElement
  <2>3. Cardinality(Tasks(i) \ {t}) # 0
    BY <1>2, <1>3, <2>2
  <2>4. Tasks(i) \ {t} # {}
    BY <2>3, FS_EmptySet
  <2>5. \A j \in Instance : Running(j)' = Running(j)
    BY <1>4 DEF Running
  <2>6. \A j \in Instance : seq'[j] = seq[j]
    BY <1>4
  <2> SUFFICES ASSUME NEW j \in Instance
               PROVE (IF Running(j)
                      THEN /\ token[j].at \in Activity
                           /\ token[j].round <= seq[j]
                           /\ Cardinality(Tasks(j)) + token[j].done = token[j].total
                           /\ Tasks(j) # {}
                           /\ SignRule[token[j].at] = "one" => token[j].done = 0
                      ELSE Tasks(j) = {})'
    BY DEF CountersMatchRows
  <2>7. CASE j = i
    <3>1. token[i].round <= seq[i]
      BY <1>1 DEF CountersMatchRows
    <3>2. /\ token'[i].at \in Activity
          /\ token'[i].round <= seq'[i]
          /\ SignRule[token'[i].at] # "one"
      BY <3>1, <2>6, <1>1, <1>2, <1>3, <1>6
    <3>3. Cardinality(Tasks(i) \ {t}) + token'[i].done = token'[i].total
      BY <2>2, <1>1, <1>2, <1>6
    <3> QED
      BY <3>2, <3>3, <2>1, <2>4, <2>5, <2>7, <1>1
  <2>8. CASE j # i
    BY <2>1, <2>5, <2>6, <2>8, <1>6 DEF CountersMatchRows
  <2> QED
    BY <2>7, <2>8
<1>11. CurrentRound'
  <2> SUFFICES ASSUME NEW u \in DOMAIN hist', Running(u[1])', u[2] = token'[u[1]].round
               PROVE  /\ hist'[u].at = token'[u[1]].at
                      /\ hist'[u].end \in {"open", "done"}
                      /\ SignRule[hist'[u].at] = "one" => hist'[u].end = "open"
    BY DEF CurrentRound
  <2>1. u \in DOMAIN hist /\ u[1] \in Instance /\ Running(u[1]) /\ u[2] = token[u[1]].round
    BY <1>4, <1>5, <1>6 DEF Running, TypeOK, TaskId
  <2>2. /\ hist[u].at = token[u[1]].at
        /\ hist[u].end \in {"open", "done"}
        /\ SignRule[hist[u].at] = "one" => hist[u].end = "open"
    BY <2>1 DEF CurrentRound
  <2> QED
    BY <2>1, <2>2, <1>1, <1>3, <1>5, <1>6
<1>12. IdsAreUsed'
  BY <1>4, <1>5 DEF IdsAreUsed
<1>13. OrSignOnce'
  <2> SUFFICES ASSUME NEW u \in DOMAIN hist, NEW v \in DOMAIN hist, u # v,
                      hist'[u].end = "done", hist'[v].end = "done",
                      u[1] = v[1], u[2] = v[2],
                      SignRule[hist[u].at] = "one"
               PROVE  FALSE
    BY <1>5 DEF OrSignOnce
  <2>1. CASE u # t /\ v # t
    BY <2>1, <1>5 DEF OrSignOnce
  <2>2. CASE u = t
    BY <2>2, <1>1, <1>3
  <2>3. CASE v = t
    <3>1. u[1] = i /\ u[2] = token[i].round
      BY <2>3, <1>1 DEF i
    <3>2. hist[u].at = token[i].at
      BY <3>1, <1>1 DEF CurrentRound
    <3> QED
      BY <3>2, <1>3
  <2> QED
    BY <2>1, <2>2, <2>3
<1>14. AllSignComplete'
  BY <1>5 DEF AllSignComplete
<1> QED
  BY <1>7, <1>8, <1>9, <1>10, <1>11, <1>12, <1>13, <1>14

(* An instance ends: its rows are finished, by whatever command.            *)
LEMMA Departure ==
  ASSUME IInv, NEW i \in Instance, NEW n \in Nat, NEW D,
         seq[i] <= n,
         D \subseteq TaskId, DOMAIN hist \subseteq D,
         status' = [status EXCEPT ![i] = "ended"],
         hist' \in [D -> Row],
         \A t \in D : t[1] # i => t \in DOMAIN hist /\ hist'[t] = hist[t],
         \A t \in D : t[1] = i => hist'[t].end # "open" /\ t[2] <= n,
         todo' = {t \in D : hist'[t].end = "open"},
         RowsSigned(hist'),
         token' \in [Instance -> Token],
         \A j \in Instance : j # i => token'[j] = token[j],
         seq' = [seq EXCEPT ![i] = n],
         bkey' \in [Instance -> BusinessKey \cup {NoKey}],
         owners' \in [Instance -> [Activity -> SUBSET Person]],
         approved' \subseteq D
  PROVE  IInv'
<1> USE DEF IInv
<1>1. /\ DOMAIN hist' = D
      /\ \A t \in D : t[1] \in Instance /\ t[2] \in Nat
      /\ \A j \in Instance : j # i => status'[j] = status[j]
      /\ status'[i] = "ended"
      /\ seq' \in [Instance -> Nat]
      /\ \A j \in Instance : j # i => seq'[j] = seq[j]
      /\ seq'[i] = n
  BY TaskIdParts DEF TypeOK
<1>2. TypeOK'
  BY <1>1 DEF TypeOK
<1>3. RuntimeMatchesHistory'
  BY <1>1 DEF RuntimeMatchesHistory
<1>4. \A t \in todo' : t[1] # i /\ t \in todo /\ t \in DOMAIN hist
  BY DEF RuntimeMatchesHistory
<1>5. OneRoundOpen'
  <2> SUFFICES ASSUME NEW t \in todo'
               PROVE  t[2] = token'[t[1]].round /\ hist'[t].at = token'[t[1]].at
    BY DEF OneRoundOpen
  <2>1. t[1] # i /\ t \in todo /\ t \in D /\ t[1] \in Instance
    BY <1>1, <1>4
  <2> QED
    BY <2>1 DEF OneRoundOpen
<1>6. CountersMatchRows'
  <2>1. /\ Tasks(i)' = {}
        /\ \A j \in Instance : j # i => Tasks(j)' = Tasks(j)
    BY <1>4 DEF Tasks, RuntimeMatchesHistory
  <2>2. /\ ~Running(i)'
        /\ \A j \in Instance : j # i => Running(j)' = Running(j)
    BY <1>1 DEF Running
  <2> QED
    BY <2>1, <2>2, <1>1 DEF CountersMatchRows
<1>7. CurrentRound'
  <2> SUFFICES ASSUME NEW u \in DOMAIN hist', Running(u[1])', u[2] = token'[u[1]].round
               PROVE  /\ hist'[u].at = token'[u[1]].at
                      /\ hist'[u].end \in {"open", "done"}
                      /\ SignRule[hist'[u].at] = "one" => hist'[u].end = "open"
    BY DEF CurrentRound
  <2>1. u[1] # i /\ u[1] \in Instance /\ u \in DOMAIN hist
    BY <1>1 DEF Running
  <2> QED
    BY <2>1, <1>1 DEF CurrentRound, Running
<1>8. IdsAreUsed'
  <2> SUFFICES ASSUME NEW u \in D PROVE u[2] <= seq'[u[1]]
    BY <1>1 DEF IdsAreUsed
  <2>1. CASE u[1] = i
    BY <2>1, <1>1
  <2>2. CASE u[1] # i
    BY <2>2, <1>1 DEF IdsAreUsed
  <2> QED
    BY <2>1, <2>2
<1> QED
  BY <1>2, <1>3, <1>5, <1>6, <1>7, <1>8, SignedIsRowsSignedNext

(* ... without a new row.                                                   *)
LEMMA DepartureSame ==
  ASSUME IInv, NEW i \in Instance,
         status' = [status EXCEPT ![i] = "ended"],
         hist' \in [DOMAIN hist -> Row],
         \A t \in DOMAIN hist : t[1] # i => hist'[t] = hist[t],
         \A t \in DOMAIN hist : t[1] = i => hist'[t].end # "open",
         todo' = {t \in DOMAIN hist : hist'[t].end = "open"},
         RowsSigned(hist'),
         token' \in [Instance -> Token],
         \A j \in Instance : j # i => token'[j] = token[j],
         seq' = [seq EXCEPT ![i] = seq[i]],
         bkey' \in [Instance -> BusinessKey \cup {NoKey}],
         owners' \in [Instance -> [Activity -> SUBSET Person]],
         approved' \subseteq DOMAIN hist
  PROVE  IInv'
<1>1. PICK n \in Nat : n = seq[i]
  BY DEF IInv, TypeOK
<1>2. PICK D : D = DOMAIN hist
  OBVIOUS
<1>3. seq[i] <= n /\ D \subseteq TaskId /\ DOMAIN hist \subseteq D
  BY <1>1, <1>2 DEF IInv, TypeOK
<1>4. /\ status' = [status EXCEPT ![i] = "ended"]
      /\ hist' \in [D -> Row]
      /\ \A t \in D : t[1] # i => t \in DOMAIN hist /\ hist'[t] = hist[t]
      /\ \A t \in D : t[1] = i => hist'[t].end # "open" /\ t[2] <= n
      /\ todo' = {t \in D : hist'[t].end = "open"}
      /\ seq' = [seq EXCEPT ![i] = n]
      /\ approved' \subseteq D
  BY <1>1, <1>2 DEF IInv, TypeOK, IdsAreUsed
<1>5. /\ RowsSigned(hist')
      /\ token' \in [Instance -> Token]
      /\ \A j \in Instance : j # i => token'[j] = token[j]
      /\ bkey' \in [Instance -> BusinessKey \cup {NoKey}]
      /\ owners' \in [Instance -> [Activity -> SUBSET Person]]
  OBVIOUS
<1> QED
  BY <1>3, <1>4, <1>5, Departure

(* What the completion that ends a round leaves of it: an all-sign round    *)
(* has no sibling to close, in an or-sign round nobody has approved before. *)
LEMMA RoundRows ==
  ASSUME IInv, NEW t \in DOMAIN hist, Live(t), RoundOver(t[1], token[t[1]].done + 1),
         NEW rows,
         rows = Ended(Ended(hist, Tasks(t[1]) \ {t}, "closed"), {t}, "done")
  PROVE  /\ t[1] \in Instance /\ token[t[1]].at \in Activity
         /\ rows \in [DOMAIN hist -> Row]
         /\ \A u \in DOMAIN hist : u \notin Tasks(t[1]) => rows[u] = hist[u]
         /\ \A u \in Tasks(t[1]) : rows[u].end # "open"
         /\ RowsSigned(rows)
<1> DEFINE i == t[1]
<1> USE DEF IInv
<1>1. /\ i \in Instance /\ t \in TaskId
      /\ t \in Tasks(i) /\ Running(i)
      /\ hist[t].end = "open" /\ hist[t].at = token[i].at /\ t[2] = token[i].round
  BY TaskIdParts
     DEF TypeOK, Live, Tasks, Running, RuntimeMatchesHistory, OneRoundOpen
<1>2. /\ token[i].at \in Activity
      /\ token[i].done \in Nat /\ token[i].total \in Nat
      /\ Cardinality(Tasks(i)) + token[i].done = token[i].total
      /\ IsFiniteSet(Tasks(i)) /\ Cardinality(Tasks(i)) \in Nat
      /\ \A u \in Tasks(i) : u \in DOMAIN hist /\ hist[u].at = token[i].at
  BY <1>1, TasksFacts DEF CountersMatchRows, TypeOK, Token
<1>3. hist \in [DOMAIN hist -> Row]
  BY DEF TypeOK
<1>4. /\ rows \in [DOMAIN hist -> Row]
      /\ \A u \in DOMAIN hist :
           /\ rows[u].at = hist[u].at
           /\ rows[u].end = IF u \in {t} THEN "done"
                            ELSE IF u \in Tasks(i) \ {t} THEN "closed" ELSE hist[u].end
           /\ u \notin Tasks(i) \ {t} /\ u \notin {t} => rows[u] = hist[u]
  <2> HIDE DEF IInv
  <2> QED
    BY <1>3, EndedTwice DEF EndReason
<1> HIDE DEF i
<1>5. \A u \in DOMAIN hist :
        /\ rows[u].at = hist[u].at
        /\ u \notin Tasks(i) => rows[u] = hist[u]
        /\ u \in Tasks(i) => rows[u].end \in {"done", "closed"}
        /\ rows[u].end = "closed" => hist[u].end = "closed" \/ u \in Tasks(i) \ {t}
        /\ rows[u].end = "done" => hist[u].end = "done" \/ u = t
  BY <1>1, <1>4
<1>6. SignRule[token[i].at] = "all" => Tasks(i) = {t}
  <2> SUFFICES ASSUME SignRule[token[i].at] = "all"
               PROVE  Tasks(i) = {t}
    OBVIOUS
  <2>1. token[i].done + 1 >= token[i].total
    BY DEF RoundOver, i
  <2>2. Cardinality(Tasks(i) \ {t}) = Cardinality(Tasks(i)) - 1
    BY <1>1, <1>2, FS_RemoveElement
  <2>3. Cardinality(Tasks(i) \ {t}) \in Nat
    BY <1>2, FS_RemoveElement, FS_CardinalityType
  <2>4. Cardinality(Tasks(i) \ {t}) = 0
    BY <1>2, <2>1, <2>2, <2>3
  <2>5. Tasks(i) \ {t} = {}
    BY <1>2, <2>4, FS_EmptySet, FS_RemoveElement
  <2> QED
    BY <1>1, <2>5
<1>7. \A u \in DOMAIN hist : rows[u].end = "closed" => SignRule[rows[u].at] # "all"
  BY <1>2, <1>5, <1>6, ZenonT(40) DEF AllSignComplete
<1>8. \A u, v \in DOMAIN hist :
        /\ rows[u].end = "done" /\ rows[v].end = "done"
        /\ u[1] = v[1] /\ u[2] = v[2]
        /\ SignRule[rows[u].at] = "one"
        => u = v
  <2> SUFFICES ASSUME NEW u \in DOMAIN hist, NEW v \in DOMAIN hist, u # v,
                      rows[u].end = "done", rows[v].end = "done",
                      u[1] = v[1], u[2] = v[2],
                      SignRule[rows[u].at] = "one"
               PROVE  FALSE
    OBVIOUS
  <2>1. CASE u # t /\ v # t
    <3>1. hist[u].end = "done" /\ hist[v].end = "done" /\ rows[u].at = hist[u].at
      BY <2>1, <1>5
    <3> QED
      BY <3>1 DEF OrSignOnce
  <2>2. CASE u = t
    <3>1. v[1] = i /\ v[2] = token[i].round
      BY <2>2, <1>1 DEF i
    <3>2. hist[v].end = "done"
      BY <2>2, <1>5
    <3>3. hist[v].at = hist[u].at /\ rows[u].at = hist[u].at
      BY <2>2, <3>1, <1>1, <1>5 DEF CurrentRound
    <3> QED
      BY <3>1, <3>2, <3>3, <1>1 DEF CurrentRound
  <2>3. CASE v = t
    <3>1. u[1] = i /\ u[2] = token[i].round
      BY <2>3, <1>1 DEF i
    <3>2. hist[u].end = "done" /\ rows[u].at = hist[u].at
      BY <2>3, <1>5
    <3> QED
      BY <3>1, <3>2, <1>1 DEF CurrentRound
  <2> QED
    BY <2>1, <2>2, <2>3
<1>9. RowsSigned(rows)
  BY <1>4, <1>7, <1>8, ZenonT(40) DEF RowsSigned
<1> QED
  BY <1>1, <1>2, <1>4, <1>5, <1>9 DEF i

LEMMA CompleteRoundInv ==
  ASSUME IInv, NEW t \in DOMAIN hist, NEW own \in Owners, CompleteRound(t, own)
  PROVE  IInv'
<1> DEFINE i == t[1]
           next == token[i].at + 1
           rows == Ended(Ended(hist, Tasks(i) \ {t}, "closed"), {t}, "done")
           known == Overlay(owners[i], own)
           n == seq[i] + 1
<1>1. /\ i \in Instance /\ token[i].at \in Activity
      /\ rows \in [DOMAIN hist -> Row]
      /\ \A u \in DOMAIN hist : u \notin Tasks(i) => rows[u] = hist[u]
      /\ \A u \in Tasks(i) : rows[u].end # "open"
      /\ RowsSigned(rows)
  BY RoundRows DEF CompleteRound
<1>2. /\ Live(t)
      /\ \/ /\ next \in Activity
            /\ ArriveAtTask(i, next, known[next], n, rows, todo \ Tasks(i))
            /\ UNCHANGED status
         \/ ArriveAtEnd(i, next, seq[i], rows, todo \ Tasks(i))
      /\ owners' = [owners EXCEPT ![i] = known]
      /\ UNCHANGED <<bkey, approved>>
  BY DEF CompleteRound
<1> HIDE DEF rows
<1>3. /\ known \in [Activity -> SUBSET Person]
      /\ owners' \in [Instance -> [Activity -> SUBSET Person]]
  BY <1>1, <1>2, OverlayType DEF IInv, TypeOK
<1>4. \A u \in DOMAIN hist : u[1] = i /\ hist[u].end = "open" <=> u \in Tasks(i)
  BY DEF IInv, RuntimeMatchesHistory, Tasks
<1>5. /\ todo \ Tasks(i) = {u \in DOMAIN hist : rows[u].end = "open"}
      /\ \A u \in DOMAIN hist : u[1] = i => rows[u].end # "open"
      /\ \A u \in DOMAIN hist : u[1] # i => u \in DOMAIN hist /\ rows[u] = hist[u]
      /\ \A u \in DOMAIN hist : u[1] # i => u \in DOMAIN hist
  BY <1>1, <1>4 DEF IInv, RuntimeMatchesHistory
<1>6. /\ n \in Nat /\ seq[i] < n
      /\ DOMAIN hist \subseteq TaskId
  BY <1>1 DEF IInv, TypeOK
<1>10. \A u \in DOMAIN hist : u[1] = i => rows[u].end # "open" /\ u[2] < n
  BY <1>1, <1>5, TaskIdParts DEF IInv, TypeOK, IdsAreUsed
<1>7. /\ bkey' \in [Instance -> BusinessKey \cup {NoKey}]
      /\ approved' \subseteq DOMAIN hist
  BY <1>2 DEF IInv, TypeOK
<1>8. CASE /\ next \in Activity
           /\ ArriveAtTask(i, next, known[next], n, rows, todo \ Tasks(i))
           /\ UNCHANGED status
  <2>1. status' = [status EXCEPT ![i] = "active"]
    BY <1>1, <1>2, <1>8 DEF Live, IInv, TypeOK
  <2>2. known[next] \in SUBSET Person
    BY <1>3, <1>8
  <2> HIDE DEF i, n, known, next
  <2> QED
    BY <1>1, <1>3, <1>5, <1>6, <1>7, <1>8, <1>10, <2>1, <2>2, Arrival
<1>9. CASE ArriveAtEnd(i, next, seq[i], rows, todo \ Tasks(i))
  <2>1. /\ hist' = rows /\ todo' = todo \ Tasks(i)
        /\ token' = [token EXCEPT ![i] = [NoToken EXCEPT !.at = EndEvent]]
        /\ status' = [status EXCEPT ![i] = "ended"]
        /\ seq' = [seq EXCEPT ![i] = seq[i]]
    BY <1>9 DEF ArriveAtEnd
  <2>2. [NoToken EXCEPT !.at = EndEvent] \in Token
    BY EngineAssumption DEF NoToken, Token, EndEvent
  <2>3. /\ token' \in [Instance -> Token]
        /\ \A j \in Instance : j # i => token'[j] = token[j]
    BY <1>1, <2>1, <2>2 DEF IInv, TypeOK
  <2> HIDE DEF i
  <2> QED
    BY <1>1, <1>3, <1>5, <1>7, <2>1, <2>3, DepartureSame, ZenonT(40)
<1> QED
  BY <1>2, <1>8, <1>9

(* The rows a jump leaves behind.                                           *)
LEMMA JumpRowsFacts ==
  ASSUME IInv, NEW i \in Instance, NEW t, NEW p \in Person, NEW target \in Element,
         NEW R, R = JumpRecord(i, t, p),
         NEW rows, rows = JumpRows(i, t, p, target)
  PROVE  /\ R \subseteq TaskId
         /\ \A u \in R : u[1] = i /\ u[2] = seq[i] + 1 /\ t \notin Tasks(i)
         /\ R \cap DOMAIN hist = {}
         /\ rows \in [DOMAIN hist \cup R -> Row]
         /\ \A u \in DOMAIN hist : /\ u \notin Tasks(i) => rows[u] = hist[u]
                                   /\ u \in Tasks(i) => rows[u].end \in {"deleted", "completed"}
                                   /\ rows[u].at = hist[u].at
         /\ \A u \in R : rows[u].end = "completed"
<1> PICK new : new = [u \in R |-> [at |-> target, assignee |-> p, end |-> "completed"]]
  OBVIOUS
<1>1. /\ R \subseteq TaskId
      /\ \A u \in R : u[1] = i /\ u[2] = seq[i] + 1 /\ t \notin Tasks(i)
  BY DEF JumpRecord, TaskId, IInv, TypeOK
<1>2. R \cap DOMAIN hist = {}
  BY <1>1 DEF IInv, IdsAreUsed, TypeOK
<1>3. new \in [R -> Row] /\ \A u \in R : new[u].end = "completed"
  BY DEF Row, EndReason
<1>4. PICK left :
        left = Ended(Ended(hist, Tasks(i) \ {t}, "deleted"), Tasks(i) \cap {t}, "completed")
  OBVIOUS
<1>5. hist \in [DOMAIN hist -> Row]
  BY DEF IInv, TypeOK
<1>6. /\ left \in [DOMAIN hist -> Row]
      /\ \A u \in DOMAIN hist :
           /\ left[u].at = hist[u].at
           /\ left[u].end = IF u \in Tasks(i) \cap {t} THEN "completed"
                            ELSE IF u \in Tasks(i) \ {t} THEN "deleted" ELSE hist[u].end
           /\ u \notin Tasks(i) \ {t} /\ u \notin Tasks(i) \cap {t} => left[u] = hist[u]
  BY <1>4, <1>5, EndedTwice DEF EndReason
<1>7. rows = Insert(left, new)
  BY <1>4 DEF JumpRows
<1>8. /\ rows \in [DOMAIN hist \cup R -> Row]
      /\ \A u \in DOMAIN hist : rows[u] = left[u]
      /\ \A u \in R : rows[u] = new[u]
  BY <1>2, <1>3, <1>6, <1>7 DEF Insert
<1>9. \A u \in R : rows[u].end = "completed"
  BY <1>3, <1>8
<1> QED
  BY <1>1, <1>2, <1>6, <1>8, <1>9

LEMMA JumpInv ==
  ASSUME IInv, NEW i \in Instance, NEW t, NEW p \in Person, NEW target \in Element,
         Jump(i, t, p, target)
  PROVE  IInv'
<1> DEFINE next == Destination(target)
           O == owners[i][next]
           n == JumpBatch(i, t)
<1>1. PICK R, rows : R = JumpRecord(i, t, p) /\ rows = JumpRows(i, t, p, target)
  OBVIOUS
<1>2. /\ R \subseteq TaskId
      /\ \A u \in R : u[1] = i /\ u[2] = seq[i] + 1 /\ t \notin Tasks(i)
      /\ R \cap DOMAIN hist = {}
      /\ rows \in [DOMAIN hist \cup R -> Row]
      /\ \A u \in DOMAIN hist : /\ u \notin Tasks(i) => rows[u] = hist[u]
                                /\ u \in Tasks(i) => rows[u].end \in {"deleted", "completed"}
                                /\ rows[u].at = hist[u].at
      /\ \A u \in R : rows[u].end = "completed"
  BY <1>1, JumpRowsFacts
<1>3. PICK D : D = DOMAIN hist \cup R
  OBVIOUS
<1>4. /\ \/ /\ next \in Activity
            /\ ArriveAtTask(i, next, O, n, rows, todo \ Tasks(i))
            /\ UNCHANGED status
         \/ ArriveAtEnd(i, next, n - 1, rows, todo \ Tasks(i))
      /\ status[i] = "active" /\ UNCHANGED <<bkey, owners>>
      /\ approved' = (approved \ Tasks(i)) \cup (Tasks(i) \cap {t}) \cup R
  BY <1>1 DEF Jump
<1>5. /\ n \in Nat /\ seq[i] < n /\ seq[i] \in Nat
      /\ n - 1 \in Nat /\ seq[i] <= n - 1
      /\ Tasks(i) \subseteq DOMAIN hist
      /\ DOMAIN hist \subseteq TaskId
      /\ todo = {u \in DOMAIN hist : hist[u].end = "open"}
  BY TasksFacts DEF IInv, TypeOK, RuntimeMatchesHistory, JumpBatch
<1>6. /\ D \subseteq TaskId /\ DOMAIN hist \subseteq D /\ rows \in [D -> Row]
      /\ bkey' \in [Instance -> BusinessKey \cup {NoKey}]
      /\ owners' \in [Instance -> [Activity -> SUBSET Person]]
      /\ approved' \subseteq D
  BY <1>2, <1>3, <1>4, <1>5 DEF IInv, TypeOK
<1>7. todo \ Tasks(i) = {u \in D : rows[u].end = "open"}
  BY <1>2, <1>3, <1>5
<1>8. \A u \in D : u[1] = i => rows[u].end # "open" /\ u[2] < n /\ u[2] <= n - 1
  <2> SUFFICES ASSUME NEW u \in D, u[1] = i
               PROVE  rows[u].end # "open" /\ u[2] < n /\ u[2] <= n - 1
    OBVIOUS
  <2>1. CASE u \in R
    BY <2>1, <1>2, <1>5 DEF JumpBatch
  <2>2. CASE u \in DOMAIN hist
    <3>1. u[2] <= seq[i] /\ u[2] \in Nat
      BY <2>2, <1>5, TaskIdParts DEF IInv, IdsAreUsed
    <3>2. u \in Tasks(i) \/ hist[u].end # "open"
      BY <2>2, <1>5 DEF Tasks
    <3> QED
      BY <2>2, <3>1, <3>2, <1>2, <1>5
  <2> QED
    BY <2>1, <2>2, <1>3
<1>9. /\ \A u \in D : u[1] # i => u \in DOMAIN hist /\ rows[u] = hist[u]
      /\ \A u \in DOMAIN hist : u[1] # i => u \in D
  BY <1>2, <1>3 DEF Tasks
<1>10. RowsSigned(rows)
  <2>1. \A u \in D : rows[u].end \in {"done", "closed"} =>
          u \in DOMAIN hist /\ rows[u] = hist[u]
    BY <1>2, <1>3
  <2>2. RowsSigned(hist)
    BY SignedIsRowsSigned DEF IInv
  <2> QED
    BY <1>6, <2>1, <2>2 DEF RowsSigned
<1>11. CASE /\ next \in Activity
            /\ ArriveAtTask(i, next, O, n, rows, todo \ Tasks(i))
            /\ UNCHANGED status
  <2>1. O \in SUBSET Person /\ status' = [status EXCEPT ![i] = "active"]
    BY <1>4, <1>11 DEF IInv, TypeOK
  <2>2. /\ ArriveAtTask(i, next, O, n, rows, todo \ Tasks(i))
        /\ \A u \in D : u[1] = i => rows[u].end # "open" /\ u[2] < n
        /\ n \in Nat /\ seq[i] < n
    BY <1>5, <1>8, <1>11
  <2> HIDE DEF O, n, next
  <2> QED
    BY <1>6, <1>7, <1>9, <1>10, <2>1, <2>2, Arrival
<1>12. CASE ArriveAtEnd(i, next, n - 1, rows, todo \ Tasks(i))
  <2>1. /\ hist' = rows /\ todo' = todo \ Tasks(i)
        /\ token' = [token EXCEPT ![i] = [NoToken EXCEPT !.at = EndEvent]]
        /\ status' = [status EXCEPT ![i] = "ended"]
        /\ seq' = [seq EXCEPT ![i] = n - 1]
    BY <1>12 DEF ArriveAtEnd
  <2>2. [NoToken EXCEPT !.at = EndEvent] \in Token
    BY EngineAssumption DEF NoToken, Token, EndEvent
  <2>3. /\ token' \in [Instance -> Token]
        /\ \A j \in Instance : j # i => token'[j] = token[j]
    BY <2>1, <2>2 DEF IInv, TypeOK
  <2>4. \A u \in D : u[1] = i => hist'[u].end # "open" /\ u[2] <= n - 1
    BY <1>8, <2>1
  <2>5. PICK m \in Nat : m = n - 1
    BY <1>5
  <2>6. /\ seq[i] <= m
        /\ hist' \in [D -> Row]
        /\ \A u \in D : u[1] # i => u \in DOMAIN hist /\ hist'[u] = hist[u]
        /\ \A u \in D : u[1] = i => hist'[u].end # "open" /\ u[2] <= m
        /\ todo' = {u \in D : hist'[u].end = "open"}
        /\ RowsSigned(hist')
        /\ seq' = [seq EXCEPT ![i] = m]
    BY <1>5, <1>6, <1>7, <1>9, <1>10, <2>1, <2>4, <2>5
  <2> HIDE DEF O, n, next
  <2> QED
    BY <1>6, <2>1, <2>3, <2>6, Departure
<1> QED
  BY <1>4, <1>11, <1>12

(* The commands that leave the round alone: comments, assignees, transfer   *)
(* records, suspension.                                                     *)
LEMMA Bookkeeping ==
  ASSUME IInv,
         UNCHANGED <<bkey, owners, token, todo>>,
         status' \in [Instance -> {"absent", "active", "suspended", "ended"}],
         \A i \in Instance : Running(i)' <=> Running(i),
         seq' \in [Instance -> Nat],
         \A i \in Instance : seq[i] <= seq'[i],
         DOMAIN hist' \subseteq TaskId, DOMAIN hist \subseteq DOMAIN hist',
         hist' \in [DOMAIN hist' -> Row],
         \A t \in DOMAIN hist : hist'[t].at = hist[t].at /\ hist'[t].end = hist[t].end,
         \A t \in DOMAIN hist' \ DOMAIN hist :
           hist'[t].end = "transfer" /\ seq[t[1]] < t[2] /\ t[2] <= seq'[t[1]],
         approved' \subseteq DOMAIN hist'
  PROVE  IInv'
<1> USE DEF IInv
<1>1. /\ DOMAIN hist \subseteq TaskId /\ todo \subseteq DOMAIN hist
      /\ \A t \in DOMAIN hist' : t[1] \in Instance /\ t[2] \in Nat
      /\ seq \in [Instance -> Nat] /\ token \in [Instance -> Token]
  BY TaskIdParts DEF TypeOK
<1>2. TypeOK'
  BY <1>1 DEF TypeOK
<1>3. RuntimeMatchesHistory'
  BY <1>1 DEF RuntimeMatchesHistory
<1>4. OneRoundOpen'
  BY <1>1 DEF OneRoundOpen
<1>5. CountersMatchRows'
  <2>1. \A j \in Instance : Tasks(j)' = Tasks(j)
    BY DEF Tasks
  <2>2. \A j \in Instance : token[j].round \in Nat
    BY <1>1 DEF Token
  <2> SUFFICES ASSUME NEW j \in Instance
               PROVE (IF Running(j)
                      THEN /\ token[j].at \in Activity
                           /\ token[j].round <= seq[j]
                           /\ Cardinality(Tasks(j)) + token[j].done = token[j].total
                           /\ Tasks(j) # {}
                           /\ SignRule[token[j].at] = "one" => token[j].done = 0
                      ELSE Tasks(j) = {})'
    BY DEF CountersMatchRows
  <2>3. CASE Running(j)
    <3>1. /\ token[j].at \in Activity
          /\ token[j].round <= seq[j]
          /\ Cardinality(Tasks(j)) + token[j].done = token[j].total
          /\ Tasks(j) # {}
          /\ SignRule[token[j].at] = "one" => token[j].done = 0
      BY <2>3 DEF CountersMatchRows
    <3>2. token[j].round <= seq'[j]
      BY <3>1, <2>2, <1>1
    <3> QED
      BY <2>1, <2>3, <3>1, <3>2
  <2>4. CASE ~Running(j)
    BY <2>1, <2>4 DEF CountersMatchRows
  <2> QED
    BY <2>3, <2>4
<1>6. CurrentRound'
  <2> SUFFICES ASSUME NEW u \in DOMAIN hist', Running(u[1])', u[2] = token'[u[1]].round
               PROVE  /\ hist'[u].at = token'[u[1]].at
                      /\ hist'[u].end \in {"open", "done"}
                      /\ SignRule[hist'[u].at] = "one" => hist'[u].end = "open"
    BY DEF CurrentRound
  <2>1. u[1] \in Instance /\ Running(u[1]) /\ u[2] = token[u[1]].round
    BY <1>1
  <2>2. u \in DOMAIN hist
    BY <2>1, <1>1 DEF CountersMatchRows
  <2> QED
    BY <2>1, <2>2 DEF CurrentRound
<1>7. IdsAreUsed'
  <2> SUFFICES ASSUME NEW u \in DOMAIN hist'
               PROVE  u[2] <= seq'[u[1]]
    BY DEF IdsAreUsed
  <2>1. CASE u \notin DOMAIN hist
    BY <2>1
  <2>2. CASE u \in DOMAIN hist
    BY <2>2, <1>1 DEF IdsAreUsed
  <2> QED
    BY <1>1, <2>1, <2>2
<1>8. OrSignOnce'
  BY <1>1 DEF OrSignOnce
<1>9. AllSignComplete'
  BY <1>1 DEF AllSignComplete
<1> QED
  BY <1>2, <1>3, <1>4, <1>5, <1>6, <1>7, <1>8, <1>9

LEMMA CommentInv ==
  ASSUME IInv, NEW t \in DOMAIN hist, Comment(t)
  PROVE  IInv'
<1>1. /\ UNCHANGED <<status, bkey, owners, token, seq, todo, hist>>
      /\ approved' \subseteq DOMAIN hist \cup {}
  BY DEF Comment, IInv, TypeOK
<1> QED
  BY <1>1 DEF IInv, TypeOK, RuntimeMatchesHistory, OneRoundOpen, CountersMatchRows,
              CurrentRound, IdsAreUsed, OrSignOnce, AllSignComplete, Tasks, Running

(* A task's assignee changes, nothing else.                                 *)
LEMMA AssigneeInv ==
  ASSUME IInv, NEW t \in DOMAIN hist, NEW p \in Person \cup {Nobody},
         hist' = [hist EXCEPT ![t].assignee = p],
         UNCHANGED <<status, bkey, owners, token, seq, todo, approved>>
  PROVE  IInv'
<1>1. hist \in [DOMAIN hist -> Row] /\ hist[t] \in Row
  BY DEF IInv, TypeOK
<1>2. /\ [hist[t] EXCEPT !.assignee = p] \in Row
      /\ [hist[t] EXCEPT !.assignee = p].at = hist[t].at
      /\ [hist[t] EXCEPT !.assignee = p].end = hist[t].end
  BY <1>1 DEF Row
<1>3. /\ hist'[t] = [hist[t] EXCEPT !.assignee = p]
      /\ \A u \in DOMAIN hist : u # t => hist'[u] = hist[u]
      /\ hist' \in [DOMAIN hist -> Row]
      /\ DOMAIN hist' = DOMAIN hist
  BY <1>1, <1>2
<1>4. \A u \in DOMAIN hist : hist'[u].at = hist[u].at /\ hist'[u].end = hist[u].end
  BY <1>2, <1>3
<1>5. /\ status' \in [Instance -> {"absent", "active", "suspended", "ended"}]
      /\ \A i \in Instance : Running(i)' <=> Running(i)
      /\ seq' \in [Instance -> Nat]
      /\ \A i \in Instance : seq[i] <= seq'[i]
      /\ approved' \subseteq DOMAIN hist
      /\ DOMAIN hist \subseteq TaskId
  BY DEF IInv, TypeOK, Running
<1> QED
  BY <1>3, <1>4, <1>5, Bookkeeping

LEMMA TransferRecordInv ==
  ASSUME IInv, NEW t \in DOMAIN hist, NEW p \in Person, TransferRecord(t, p)
  PROVE  IInv'
<1> DEFINE i == t[1]
           id == <<i, seq[i] + 1, p>>
<1>1. /\ hist \in [DOMAIN hist -> Row] /\ t \in TaskId /\ i \in Instance
      /\ seq \in [Instance -> Nat]
  BY TaskIdParts DEF IInv, TypeOK
<1>2. PICK N : N = {id}
  OBVIOUS
<1>3. N \subseteq TaskId /\ N \cap DOMAIN hist = {}
  BY <1>1, <1>2 DEF TaskId, IInv, IdsAreUsed
<1>4. PICK row : row = [at |-> hist[t].at, assignee |-> p, end |-> "transfer"]
  OBVIOUS
<1>5. row \in Row /\ row.end = "transfer"
  BY <1>1, <1>4 DEF Row, EndReason
<1>6. /\ hist' = Insert(hist, [u \in N |-> row])
      /\ seq' = [seq EXCEPT ![i] = @ + 1]
      /\ approved' = approved \cup N
      /\ UNCHANGED <<status, bkey, owners, token, todo>>
  BY <1>2, <1>4 DEF TransferRecord
<1>7. /\ hist' \in [DOMAIN hist \cup N -> Row]
      /\ \A u \in DOMAIN hist : hist'[u] = hist[u]
      /\ \A u \in N : hist'[u] = row
      /\ DOMAIN hist' = DOMAIN hist \cup N
  BY <1>1, <1>3, <1>5, <1>6 DEF Insert
<1>8. /\ seq' \in [Instance -> Nat]
      /\ \A j \in Instance : seq[j] <= seq'[j]
      /\ \A u \in N : seq[u[1]] < u[2] /\ u[2] <= seq'[u[1]]
  BY <1>1, <1>2, <1>6
<1>9. /\ status' \in [Instance -> {"absent", "active", "suspended", "ended"}]
      /\ \A j \in Instance : Running(j)' <=> Running(j)
      /\ approved' \subseteq DOMAIN hist \cup N
  BY <1>6 DEF IInv, TypeOK, Running
<1>10. \A u \in DOMAIN hist' \ DOMAIN hist :
         hist'[u].end = "transfer" /\ seq[u[1]] < u[2] /\ u[2] <= seq'[u[1]]
  BY <1>5, <1>7, <1>8
<1>11. \A u \in DOMAIN hist : hist'[u].at = hist[u].at /\ hist'[u].end = hist[u].end
  BY <1>7
<1>12. /\ DOMAIN hist' \subseteq TaskId /\ DOMAIN hist \subseteq DOMAIN hist'
       /\ hist' \in [DOMAIN hist' -> Row]
       /\ approved' \subseteq DOMAIN hist'
  BY <1>3, <1>7, <1>9 DEF IInv, TypeOK
<1> QED
  BY <1>6, <1>8, <1>9, <1>10, <1>11, <1>12, Bookkeeping

LEMMA SuspendInv ==
  ASSUME IInv, NEW i \in Instance, Suspend(i)
  PROVE  IInv'
<1>1. /\ hist' \in [DOMAIN hist -> Row]
      /\ DOMAIN hist' = DOMAIN hist /\ DOMAIN hist \subseteq TaskId
      /\ \A u \in DOMAIN hist : hist'[u].at = hist[u].at /\ hist'[u].end = hist[u].end
      /\ status' \in [Instance -> {"absent", "active", "suspended", "ended"}]
      /\ \A j \in Instance : Running(j)' <=> Running(j)
      /\ seq' \in [Instance -> Nat]
      /\ \A j \in Instance : seq[j] <= seq'[j]
      /\ approved' \subseteq DOMAIN hist
      /\ UNCHANGED <<bkey, owners, token, todo>>
  BY DEF Suspend, IInv, TypeOK, Running
<1> QED
  BY <1>1, Bookkeeping

LEMMA DeleteInv ==
  ASSUME IInv, NEW i \in Instance, Delete(i)
  PROVE  IInv'
<1>1. /\ hist' = Ended(hist, Tasks(i), "stopped")
      /\ status' = [status EXCEPT ![i] = "ended"]
      /\ todo' = todo \ Tasks(i)
      /\ UNCHANGED <<bkey, owners, token, seq, approved>>
  BY DEF Delete
<1>2. hist \in [DOMAIN hist -> Row] /\ "stopped" \in EndReason
  BY DEF IInv, TypeOK, EndReason
<1>3. /\ hist' \in [DOMAIN hist -> Row]
      /\ \A u \in DOMAIN hist :
           /\ hist'[u].at = hist[u].at
           /\ hist'[u].end = IF u \in Tasks(i) THEN "stopped" ELSE hist[u].end
           /\ u \notin Tasks(i) => hist'[u] = hist[u]
  BY <1>1, <1>2, EndedFacts
<1>4. /\ todo = {u \in DOMAIN hist : hist[u].end = "open"}
      /\ \A u \in Tasks(i) : u \in todo /\ u[1] = i
      /\ \A u \in todo : u[1] = i => u \in Tasks(i)
  BY DEF IInv, RuntimeMatchesHistory, Tasks
<1>5. /\ \A u \in DOMAIN hist : u[1] # i => hist'[u] = hist[u]
      /\ \A u \in DOMAIN hist : u[1] = i => hist'[u].end # "open"
      /\ todo' = {u \in DOMAIN hist : hist'[u].end = "open"}
  BY <1>1, <1>3, <1>4
<1>6. RowsSigned(hist')
  <2>1. \A u \in DOMAIN hist : hist'[u].end \in {"done", "closed"} => hist'[u] = hist[u]
    BY <1>3
  <2>2. RowsSigned(hist)
    BY SignedIsRowsSigned DEF IInv
  <2>3. DOMAIN hist' = DOMAIN hist
    BY <1>3
  <2> QED
    BY <2>1, <2>2, <2>3 DEF RowsSigned
<1>7. /\ token' \in [Instance -> Token]
      /\ \A j \in Instance : j # i => token'[j] = token[j]
      /\ seq' = [seq EXCEPT ![i] = seq[i]]
      /\ bkey' \in [Instance -> BusinessKey \cup {NoKey}]
      /\ owners' \in [Instance -> [Activity -> SUBSET Person]]
      /\ approved' \subseteq DOMAIN hist
  BY <1>1 DEF IInv, TypeOK
<1>8. status' = [status EXCEPT ![i] = "ended"] /\ hist' \in [DOMAIN hist -> Row]
  BY <1>1, <1>3
<1> QED
  BY <1>5, <1>6, <1>7, <1>8, DepartureSame

-----------------------------------------------------------------------------
(* Theorems.                                                                *)

LEMMA InitInv == EngineInit => IInv
<1> SUFFICES ASSUME EngineInit PROVE IInv
  OBVIOUS
<1>1. /\ todo = {} /\ approved = {} /\ DOMAIN hist = {}
      /\ hist \in [DOMAIN hist -> Row]
      /\ \A i \in Instance : ~Running(i) /\ Tasks(i) = {}
  BY DEF EngineInit, Running, Tasks
<1>2. NoOwners \in [Activity -> SUBSET Person] /\ NoToken \in Token
  BY EngineAssumption DEF NoOwners, NoToken, Token, EndEvent
<1>3. TypeOK
  BY <1>1, <1>2 DEF EngineInit, TypeOK
<1> QED
  BY <1>1, <1>3 DEF IInv, RuntimeMatchesHistory, OneRoundOpen, CountersMatchRows,
                    CurrentRound, IdsAreUsed, OrSignOnce, AllSignComplete

LEMMA NextInv == IInv /\ [EngineNext]_engineVars => IInv'
<1> SUFFICES ASSUME IInv, [EngineNext]_engineVars PROVE IInv'
  OBVIOUS
<1>1. ASSUME NEW t \in DOMAIN hist, TaskCommand(t) PROVE IInv'
  <2>1. ASSUME NEW own \in Owners, CompleteTask(t, own) PROVE IInv'
    BY <2>1, CompleteTaskInv
  <2>2. ASSUME NEW own \in Owners, CompleteRound(t, own) PROVE IInv'
    BY <2>2, CompleteRoundInv
  <2>3. CASE Comment(t)
    BY <2>3, CommentInv
  <2>4. CASE Unclaim(t)
    BY <2>4, AssigneeInv DEF Unclaim
  <2>5. ASSUME NEW p \in Person, Claim(t, p) PROVE IInv'
    BY <2>5, AssigneeInv DEF Claim
  <2>6. ASSUME NEW p \in Person, TransferRecord(t, p) PROVE IInv'
    BY <2>6, TransferRecordInv
  <2> QED
    BY <1>1, <2>1, <2>2, <2>3, <2>4, <2>5, <2>6 DEF TaskCommand
<1>2. ASSUME NEW i \in Instance, InstanceCommand(i) PROVE IInv'
  <2>1. ASSUME NEW k \in BusinessKey, NEW own \in Owners, StartProcess(i, k, own)
        PROVE  IInv'
    BY <2>1, StartInv
  <2>2. ASSUME NEW t, NEW p \in Person, NEW a \in Element, Jump(i, t, p, a)
        PROVE  IInv'
    BY <2>2, JumpInv
  <2>3. CASE Suspend(i)
    BY <2>3, SuspendInv
  <2>4. CASE Delete(i)
    BY <2>4, DeleteInv
  <2> QED
    BY <1>2, <2>1, <2>2, <2>3, <2>4 DEF InstanceCommand
<1>3. CASE UNCHANGED engineVars
  BY <1>3 DEF engineVars, IInv, TypeOK, RuntimeMatchesHistory, OneRoundOpen,
              CountersMatchRows, CurrentRound, IdsAreUsed, OrSignOnce, AllSignComplete,
              Tasks, Running
<1> QED
  BY <1>1, <1>2, <1>3 DEF EngineNext

(* The strengthened invariant: every reachable state of the tables is       *)
(* consistent, whatever commands the services issue in whatever order.      *)
THEOREM Invariance == EngineSpec => []IInv
BY InitInv, NextInv, PTL DEF EngineSpec

(* Every table always holds values of its column types.                     *)
THEOREM TypeCorrect == EngineSpec => []TypeOK
<1>1. IInv => TypeOK
  BY DEF IInv
<1> QED
  BY <1>1, Invariance, PTL

(* Runtime and historic task rows agree, under the hand-written jump too.   *)
THEOREM RuntimeAgrees == EngineSpec => []RuntimeMatchesHistory
<1>1. IInv => RuntimeMatchesHistory
  BY DEF IInv
<1> QED
  BY <1>1, Invariance, PTL

(* No running instance is ever without a task, no other one has any.        *)
THEOREM NeverStranded == EngineSpec => []NoStrandedInstance
<1>1. IInv => NoStrandedInstance
  BY DEF IInv, CountersMatchRows, NoStrandedInstance
<1> QED
  BY <1>1, Invariance, PTL

(* The open tasks of an instance belong to its current round.               *)
THEOREM OneRound == EngineSpec => []OneRoundOpen
<1>1. IInv => OneRoundOpen
  BY DEF IInv
<1> QED
  BY <1>1, Invariance, PTL

(* An or-sign round counts at most one approval.                            *)
THEOREM OrSign == EngineSpec => []OrSignOnce
<1>1. IInv => OrSignOnce
  BY DEF IInv
<1> QED
  BY <1>1, Invariance, PTL

(* No owner of an all-sign round is passed over.                            *)
THEOREM AllSign == EngineSpec => []AllSignComplete
<1>1. IInv => AllSignComplete
  BY DEF IInv
<1> QED
  BY <1>1, Invariance, PTL

(* What a step does to the rows that are finished already: nothing.         *)
FinishedKept ==
  \A t \in DOMAIN hist : hist[t].end # "open" => t \in DOMAIN hist' /\ hist'[t] = hist[t]

(* An arrival inserts rows under fresh ids only.                            *)
LEMMA ArrivalKeeps ==
  ASSUME IInv, NEW i \in Instance, NEW a, NEW O, NEW n \in Nat, seq[i] < n,
         NEW rows, NEW open, ArriveAtTask(i, a, O, n, rows, open),
         NEW f \in DOMAIN hist, f \in DOMAIN rows, rows[f] = hist[f]
  PROVE  f \in DOMAIN hist' /\ hist'[f] = hist[f]
<1>1. f \notin Batch(i, n, O)
  <2>1. f[2] <= seq[f[1]] /\ f[2] \in Nat /\ seq[i] \in Nat
    BY TaskIdParts DEF IInv, TypeOK, IdsAreUsed
  <2> QED
    BY <2>1 DEF Batch
<1> QED
  BY <1>1 DEF ArriveAtTask, Insert

LEMMA NextFinished == IInv /\ [EngineNext]_engineVars => FinishedKept
<1> SUFFICES ASSUME IInv, [EngineNext]_engineVars,
                    NEW f \in DOMAIN hist, hist[f].end # "open"
             PROVE  f \in DOMAIN hist' /\ hist'[f] = hist[f]
  BY DEF FinishedKept
<1>1. /\ hist \in [DOMAIN hist -> Row]
      /\ f \notin todo /\ \A i : f \notin Tasks(i)
      /\ \A i \in Instance : seq[i] \in Nat /\ seq[i] + 1 \in Nat /\ seq[i] + 2 \in Nat
                             /\ seq[i] < seq[i] + 1 /\ seq[i] < seq[i] + 2
  BY DEF IInv, TypeOK, RuntimeMatchesHistory, Tasks
<1>2. ASSUME NEW t \in DOMAIN hist, TaskCommand(t)
      PROVE  f \in DOMAIN hist' /\ hist'[f] = hist[f]
  <2>1. ASSUME NEW own \in Owners, CompleteTask(t, own)
        PROVE  f \in DOMAIN hist' /\ hist'[f] = hist[f]
    BY <1>1, <2>1 DEF CompleteTask, Live, Ended
  <2>2. ASSUME NEW own \in Owners, CompleteRound(t, own)
        PROVE  f \in DOMAIN hist' /\ hist'[f] = hist[f]
    <3>1. PICK rows : rows = Ended(Ended(hist, Tasks(t[1]) \ {t}, "closed"), {t}, "done")
      OBVIOUS
    <3>2. t[1] \in Instance /\ f \in DOMAIN rows /\ rows[f] = hist[f]
      BY <1>1, <2>2, <3>1, TaskIdParts DEF CompleteRound, Live, Ended, IInv, TypeOK
    <3>3. \/ hist' = rows
          \/ \E a, O, open : ArriveAtTask(t[1], a, O, seq[t[1]] + 1, rows, open)
      BY <2>2, <3>1 DEF CompleteRound, ArriveAtEnd
    <3> QED
      BY <1>1, <3>2, <3>3, ArrivalKeeps
  <2>3. CASE Comment(t)
    BY <2>3 DEF Comment
  <2>4. CASE Unclaim(t)
    BY <1>1, <2>4 DEF Unclaim, Live
  <2>5. ASSUME NEW p \in Person, Claim(t, p)
        PROVE  f \in DOMAIN hist' /\ hist'[f] = hist[f]
    BY <1>1, <2>5 DEF Claim, Live
  <2>6. ASSUME NEW p \in Person, TransferRecord(t, p)
        PROVE  f \in DOMAIN hist' /\ hist'[f] = hist[f]
    <3>1. f # <<t[1], seq[t[1]] + 1, p>>
      BY <1>1, TaskIdParts DEF IInv, TypeOK, IdsAreUsed
    <3> QED
      BY <2>6, <3>1 DEF TransferRecord, Insert
  <2> QED
    BY <1>2, <2>1, <2>2, <2>3, <2>4, <2>5, <2>6 DEF TaskCommand
<1>3. ASSUME NEW i \in Instance, InstanceCommand(i)
      PROVE  f \in DOMAIN hist' /\ hist'[f] = hist[f]
  <2>1. ASSUME NEW k \in BusinessKey, NEW own \in Owners, StartProcess(i, k, own)
        PROVE  f \in DOMAIN hist' /\ hist'[f] = hist[f]
    BY <1>1, <2>1, ArrivalKeeps DEF StartProcess
  <2>2. ASSUME NEW t, NEW p \in Person, NEW target \in Element, Jump(i, t, p, target)
        PROVE  f \in DOMAIN hist' /\ hist'[f] = hist[f]
    <3>1. PICK R, rows : R = JumpRecord(i, t, p) /\ rows = JumpRows(i, t, p, target)
      OBVIOUS
    <3>2. f \in DOMAIN rows /\ rows[f] = hist[f]
      <4>1. /\ rows \in [DOMAIN hist \cup R -> Row]
            /\ \A u \in DOMAIN hist : u \notin Tasks(i) => rows[u] = hist[u]
        BY <3>1, JumpRowsFacts
      <4> QED
        BY <1>1, <4>1
    <3>3. \/ hist' = rows
          \/ \E a, O, open : \/ ArriveAtTask(i, a, O, seq[i] + 1, rows, open)
                             \/ ArriveAtTask(i, a, O, seq[i] + 2, rows, open)
      BY <2>2, <3>1 DEF Jump, JumpBatch, ArriveAtEnd
    <3> QED
      BY <1>1, <3>2, <3>3, ArrivalKeeps
  <2>3. CASE Suspend(i)
    BY <2>3 DEF Suspend
  <2>4. CASE Delete(i)
    BY <1>1, <2>4 DEF Delete, Ended
  <2> QED
    BY <1>3, <2>1, <2>2, <2>3, <2>4 DEF InstanceCommand
<1>4. CASE UNCHANGED engineVars
  BY <1>4 DEF engineVars
<1> QED
  BY <1>2, <1>3, <1>4 DEF EngineNext

(* A finished history row is never written again, by no command.            *)
THEOREM FinalHistory == EngineSpec => FinishedIsFinal
<1>1. FinishedKept =>
        \A t \in DOMAIN hist :
          hist[t].end # "open" => t \in DOMAIN hist' /\ hist'[t] = hist[t]
  BY DEF FinishedKept
<1>2. IInv /\ [EngineNext]_engineVars =>
        [\A t \in DOMAIN hist :
           hist[t].end # "open" => t \in DOMAIN hist' /\ hist'[t] = hist[t]]_engineVars
  BY <1>1, NextFinished
<1> QED
  BY <1>2, Invariance, PTL DEF EngineSpec, FinishedIsFinal

LEMMA NextEnded ==
  ASSUME IInv, [EngineNext]_engineVars, NEW i \in Instance, status[i] = "ended"
  PROVE  status'[i] = "ended" /\ Tasks(i)' = {}
<1>1. /\ status \in [Instance -> {"absent", "active", "suspended", "ended"}]
      /\ DOMAIN hist \subseteq TaskId
  BY DEF IInv, TypeOK
<1>2. status'[i] = "ended"
  <2>1. ASSUME NEW t \in DOMAIN hist, TaskCommand(t) PROVE status'[i] = "ended"
    BY <1>1, <2>1, TaskIdParts
       DEF TaskCommand, CompleteTask, CompleteRound, ArriveAtEnd, Comment, Unclaim,
           Claim, TransferRecord
  <2>2. ASSUME NEW j \in Instance, InstanceCommand(j) PROVE status'[i] = "ended"
    BY <1>1, <2>2
       DEF InstanceCommand, StartProcess, Jump, ArriveAtEnd, Suspend, Delete, Running
  <2>3. CASE UNCHANGED engineVars
    BY <2>3 DEF engineVars
  <2> QED
    BY <2>1, <2>2, <2>3 DEF EngineNext
<1>3. IInv'
  BY NextInv
<1>4. Tasks(i)' = {}
  BY <1>2, <1>3 DEF IInv, CountersMatchRows, Running
<1> QED
  BY <1>2, <1>4

(* An ended instance stays ended and gets no new task.                      *)
THEOREM FinalEnd == EngineSpec => EndedIsFinal
<1>1. IInv /\ [EngineNext]_engineVars =>
        [\A i \in Instance : status[i] = "ended" =>
           status'[i] = "ended" /\ {t \in todo' : t[1] = i} = {}]_engineVars
  BY NextEnded DEF Tasks
<1> QED
  BY <1>1, Invariance, PTL DEF EngineSpec, EndedIsFinal

-----------------------------------------------------------------------------
(***************************************************************************)
(* The tables implement the approval they stand for: every step of the     *)
(* engine is a step of ApprovalFlow or leaves it as it is, for every chain *)
(* of activities, staff and number of instances.                           *)
(***************************************************************************)
-----------------------------------------------------------------------------
(* What the mapping needs besides IInv: a row belongs to an instance that   *)
(* has been started, and its batch is none that an execution without a      *)
(* round could name.                                                        *)
RowsInUse == \A t \in DOMAIN hist : t[2] # 0 /\ status[t[1]] # "absent"

FlowInv == IInv /\ RowsInUse

(* The rows behind Passed: those of rounds left by approval.                *)
Passing(i) ==
  {u \in DOMAIN hist :
     /\ u[1] = i /\ u[2] # token[i].round
     /\ \A v \in DOMAIN hist : v[1] = i /\ v[2] = u[2] => hist[v].end \in {"done", "closed"}}

LEMMA PassedIs ==
  ASSUME NEW i
  PROVE  /\ Passed(i) = {hist[t].at : t \in Passing(i)}
         /\ Passed(i)' = {hist'[t].at : t \in Passing(i)'}
BY DEF Passed, Passing, RoundTasks

LEMMA PassedFrom ==
  ASSUME NEW i, Passing(i)' = Passing(i),
         \A t \in Passing(i) : hist'[t].at = hist[t].at
  PROVE  Passed(i)' = Passed(i)
BY PassedIs

(* An instance whose round, row ids, activities and ends stay the same      *)
(* looks the same.                                                          *)
FlowKept(j) ==
  Stage(j)' = Stage(j) /\ Asked(j)' = Asked(j) /\ Signed(j)' = Signed(j) /\ Passed(j)' = Passed(j)

LEMMA Untouched ==
  ASSUME NEW j \in Instance,
         Running(j)' <=> Running(j),
         Stage(j)' = Stage(j),
         token'[j].round = token[j].round,
         \A t : t[1] = j => (t \in DOMAIN hist' <=> t \in DOMAIN hist),
         \A t \in DOMAIN hist : t[1] = j => hist'[t].at = hist[t].at /\ hist'[t].end = hist[t].end
  PROVE  FlowKept(j)
<1>1. RoundTasks(j)' = RoundTasks(j)
  BY DEF RoundTasks
<1>2. Asked(j)' = Asked(j)
  BY <1>1 DEF Asked, Seats
<1>3. {t \in RoundTasks(j) : hist[t].end = "done"}' = {t \in RoundTasks(j) : hist[t].end = "done"}
  BY <1>1 DEF RoundTasks
<1>4. Signed(j)' = Signed(j)
  BY <1>3 DEF Signed, Seats
<1>5. Passing(j)' = Passing(j)
  BY DEF Passing
<1>6. Passed(j)' = Passed(j)
  BY <1>5, PassedFrom DEF Passing
<1> QED
  BY <1>2, <1>4, <1>6 DEF FlowKept

LEMMA AllKept ==
  ASSUME \A j \in Instance : FlowKept(j)
  PROVE  UNCHANGED Flow!flowVars
BY DEF FlowKept, Flow!flowVars

LEMMA MoveToIs ==
  ASSUME NEW i \in Instance, NEW s, NEW O \in SUBSET Person,
         s \in Activity <=> O # {},
         Stage(i)' = s, Asked(i)' = O, Signed(i)' = {},
         \A j \in Instance \ {i} : FlowKept(j)
  PROVE  Flow!MoveTo(i, s)
BY DEF FlowKept, Flow!MoveTo, Flow!Activity, Activity

-----------------------------------------------------------------------------
(* The execution of i arrives at a task: a fresh round, asked of O.         *)
LEMMA ArriveFlow ==
  ASSUME IInv, NEW i \in Instance, NEW a, NEW O \in SUBSET Person, NEW n \in Nat,
         NEW rows, NEW open,
         ArriveAtTask(i, a, O, n, rows, open),
         status' = [status EXCEPT ![i] = "active"],
         DOMAIN rows \subseteq TaskId,
         \A t \in DOMAIN rows : t[1] = i => t[2] < n,
         \A t \in DOMAIN rows : t[1] # i => t \in DOMAIN hist /\ rows[t] = hist[t],
         \A t \in DOMAIN hist : t[1] # i => t \in DOMAIN rows
  PROVE  /\ Flow!MoveTo(i, a)
         /\ \A j \in Instance \ {i} : FlowKept(j)
         /\ DOMAIN hist' = DOMAIN rows \cup Batch(i, n, O)
<1> DEFINE fresh == Batch(i, n, O)
           new == [t \in fresh |-> [at |-> a, assignee |-> t[3], end |-> "open"]]
<1>1. /\ a \in Activity /\ O # {}
      /\ hist' = Insert(rows, new)
      /\ token' = [token EXCEPT ![i] =
                     [at |-> a, round |-> n, total |-> Cardinality(O), done |-> 0]]
  BY DEF ArriveAtTask
<1>2. /\ fresh \subseteq TaskId
      /\ \A t \in fresh : t[1] = i /\ t[2] = n /\ t[3] \in O
      /\ \A p \in O : <<i, n, p>> \in fresh
  BY BatchFacts
<1>3. fresh \cap DOMAIN rows = {}
  BY <1>2
<1>4. \A t \in fresh : new[t].end = "open"
  OBVIOUS
<1> HIDE DEF fresh, new
<1>5. /\ DOMAIN hist' = DOMAIN rows \cup fresh
      /\ \A t \in DOMAIN rows : hist'[t] = rows[t]
      /\ \A t \in fresh : hist'[t].end = "open"
  <2>1. DOMAIN new = fresh
    BY DEF new
  <2> QED
    BY <1>1, <1>3, <1>4, <2>1 DEF Insert
<1>6. /\ token'[i].at = a /\ token'[i].round = n /\ status'[i] = "active"
      /\ \A j \in Instance \ {i} : token'[j] = token[j] /\ status'[j] = status[j]
  BY <1>1 DEF IInv, TypeOK
<1>7. \A j \in Instance \ {i} : FlowKept(j)
  <2> SUFFICES ASSUME NEW j \in Instance \ {i}
               PROVE  FlowKept(j)
    OBVIOUS
  <2>1. (Running(j)' <=> Running(j)) /\ Stage(j)' = Stage(j)
    BY <1>6 DEF Running, Stage
  <2>2. \A t : t[1] = j => (t \in DOMAIN hist' <=> t \in DOMAIN hist)
    BY <1>2, <1>5
  <2>3. \A t \in DOMAIN hist : t[1] = j => hist'[t] = hist[t]
    BY <1>5
  <2> QED
    BY <1>6, <2>1, <2>2, <2>3, Untouched
<1>8. Stage(i)' = a /\ Running(i)'
  BY <1>6 DEF Stage, Running
<1>9. RoundTasks(i)' = fresh
  BY <1>2, <1>5, <1>6 DEF RoundTasks, TaskId
<1>10. Asked(i)' = O
  <2>1. Asked(i)' = Seats(fresh)
    BY <1>8, <1>9 DEF Asked, Seats
  <2>2. \A q : q \in Seats(fresh) <=> q \in O
    <3>1. ASSUME NEW q \in O PROVE q \in Seats(fresh)
      <4>1. <<i, n, q>> \in fresh /\ <<i, n, q>>[3] = q
        BY <1>2
      <4> QED BY <4>1 DEF Seats
    <3>2. ASSUME NEW q \in Seats(fresh) PROVE q \in O
      BY <1>2, <3>2 DEF Seats
    <3> QED BY <3>1, <3>2
  <2> QED
    BY <2>1, <2>2
<1>11. Signed(i)' = {}
  <2>1. {t \in RoundTasks(i) : hist[t].end = "done"}' = {}
    BY <1>5, <1>9
  <2> QED
    BY <1>8, <2>1 DEF Signed, Seats
<1>12. Flow!MoveTo(i, a)
  BY <1>1, <1>7, <1>8, <1>10, <1>11, MoveToIs
<1> QED
  BY <1>5, <1>6, <1>7, <1>12 DEF fresh

(* and leaves the rows of earlier rounds as they are.                       *)
LEMMA ArriveRows ==
  ASSUME NEW i \in Instance, NEW a, NEW O \in SUBSET Person, NEW n \in Nat,
         NEW rows, NEW open, ArriveAtTask(i, a, O, n, rows, open),
         NEW u \in DOMAIN rows, u[1] = i => u[2] < n
  PROVE  hist'[u] = rows[u]
<1>1. u \notin Batch(i, n, O)
  BY BatchFacts
<1> QED
  BY <1>1 DEF ArriveAtTask, Insert

(* A start asks the owners of the first activity.                           *)
LEMMA StartFlow ==
  ASSUME FlowInv, NEW i \in Instance, NEW k \in BusinessKey, NEW own \in Owners,
         StartProcess(i, k, own)
  PROVE  Flow!Start(i)
<1> DEFINE O == own[1]
           n == seq[i] + 1
<1>1. /\ O \in SUBSET Person /\ n \in Nat
      /\ hist \in [DOMAIN hist -> Row] /\ DOMAIN hist \subseteq TaskId
      /\ status' = [status EXCEPT ![i] = "active"]
      /\ ArriveAtTask(i, 1, O, n, hist, todo)
  <2>1. own \in [Activity -> SUBSET Person] /\ 1 \in Activity
    BY OwnersType, EngineAssumption DEF Activity
  <2> QED
    BY <2>1 DEF StartProcess, FlowInv, IInv, TypeOK
<1>2. \A t \in DOMAIN hist : t[1] # i
  BY DEF StartProcess, FlowInv, RowsInUse
<1> HIDE DEF O, n
<1>3. /\ Flow!MoveTo(i, 1)
      /\ \A j \in Instance \ {i} : FlowKept(j)
      /\ DOMAIN hist' = DOMAIN hist \cup Batch(i, n, O)
  <2>1. IInv
    BY DEF FlowInv
  <2>2. /\ \A t \in DOMAIN hist : t[1] = i => t[2] < n
        /\ \A t \in DOMAIN hist : t[1] # i => t \in DOMAIN hist /\ hist[t] = hist[t]
        /\ \A t \in DOMAIN hist : t[1] # i => t \in DOMAIN hist
    BY <1>2
  <2> QED
    BY <1>1, <2>1, <2>2, ArriveFlow
<1>4. Stage(i) = 0 /\ token'[i].round = n
  BY <1>1 DEF StartProcess, Stage, ArriveAtTask, FlowInv, IInv, TypeOK
<1>5. Passing(i) = {} /\ Passing(i)' = {}
  BY <1>1, <1>2, <1>3, <1>4, BatchFacts DEF Passing
<1>6. Passed(i)' = Passed(i)
  BY <1>5, PassedFrom
<1> QED
  BY <1>3, <1>4, <1>6 DEF Flow!Start, FlowKept

(* The execution of i arrives at the end: nobody is asked any more.         *)
LEMMA EndFlow ==
  ASSUME IInv, NEW i \in Instance, NEW a, NEW n, NEW rows, NEW open,
         ArriveAtEnd(i, a, n, rows, open),
         \A t \in DOMAIN rows : t[1] # i => t \in DOMAIN hist /\ rows[t] = hist[t],
         \A t \in DOMAIN hist : t[1] # i => t \in DOMAIN rows
  PROVE  /\ Flow!MoveTo(i, EndEvent)
         /\ \A j \in Instance \ {i} : FlowKept(j)
         /\ hist' = rows /\ token'[i].round = 0
<1>1. /\ hist' = rows
      /\ status'[i] = "ended" /\ token'[i].at = EndEvent /\ token'[i].round = 0
      /\ \A j \in Instance \ {i} : token'[j] = token[j] /\ status'[j] = status[j]
  BY DEF ArriveAtEnd, NoToken, IInv, TypeOK
<1>2. \A j \in Instance \ {i} : FlowKept(j)
  <2> SUFFICES ASSUME NEW j \in Instance \ {i}
               PROVE  FlowKept(j)
    OBVIOUS
  <2>1. (Running(j)' <=> Running(j)) /\ Stage(j)' = Stage(j)
    BY <1>1 DEF Running, Stage
  <2>2. \A t : t[1] = j => (t \in DOMAIN hist' <=> t \in DOMAIN hist)
    BY <1>1
  <2>3. \A t \in DOMAIN hist : t[1] = j => hist'[t] = hist[t]
    BY <1>1
  <2> QED
    BY <1>1, <2>1, <2>2, <2>3, Untouched
<1>3. Stage(i)' = EndEvent /\ ~Running(i)'
  BY <1>1 DEF Stage, Running
<1>4. Asked(i)' = {} /\ Signed(i)' = {}
  BY <1>3 DEF Asked, Signed
<1>5. EndEvent \in Activity <=> {} # {}
  BY ElementFacts
<1>6. Flow!MoveTo(i, EndEvent)
  BY <1>2, <1>3, <1>4, <1>5, MoveToIs
<1> QED
  BY <1>1, <1>2, <1>6

(* A jump asks the owners of an activity, or ends the instance, and passes  *)
(* nothing.                                                                 *)
LEMMA JumpFlow ==
  ASSUME FlowInv, NEW i \in Instance, NEW t, NEW p \in Person, NEW target \in Element,
         Jump(i, t, p, target)
  PROVE  Flow!JumpTo(i, Destination(target))
<1> DEFINE next == Destination(target)
           O == owners[i][next]
           n == JumpBatch(i, t)
<1>1. PICK R, rows : R = JumpRecord(i, t, p) /\ rows = JumpRows(i, t, p, target)
  OBVIOUS
<1>2. /\ R \subseteq TaskId
      /\ \A u \in R : u[1] = i /\ u[2] = seq[i] + 1 /\ t \notin Tasks(i)
      /\ R \cap DOMAIN hist = {}
      /\ rows \in [DOMAIN hist \cup R -> Row]
      /\ \A u \in DOMAIN hist : /\ u \notin Tasks(i) => rows[u] = hist[u]
                                /\ u \in Tasks(i) => rows[u].end \in {"deleted", "completed"}
                                /\ rows[u].at = hist[u].at
      /\ \A u \in R : rows[u].end = "completed"
  BY <1>1, JumpRowsFacts DEF FlowInv
<1>3. PICK D : D = DOMAIN hist \cup R
  OBVIOUS
<1>4. /\ \/ /\ next \in Activity
            /\ ArriveAtTask(i, next, O, n, rows, todo \ Tasks(i))
            /\ status' = status
         \/ ArriveAtEnd(i, next, n - 1, rows, todo \ Tasks(i))
      /\ status[i] = "active"
      /\ Tasks(i) # {}
  BY <1>1 DEF Jump
<1>5. /\ n \in Nat /\ seq[i] < n /\ seq[i] \in Nat
      /\ DOMAIN hist \subseteq TaskId /\ D \subseteq TaskId
      /\ Tasks(i) \subseteq DOMAIN hist
      /\ \A u \in Tasks(i) : u[1] = i /\ u[2] = token[i].round /\ hist[u].at = token[i].at
  BY <1>2, <1>3, <1>4, TasksFacts DEF FlowInv, IInv, TypeOK, JumpBatch
<1>6. \A u \in DOMAIN hist : u[1] = i => u[2] <= seq[i] /\ u[2] \in Nat /\ u[2] # 0
  BY <1>5, TaskIdParts DEF FlowInv, IInv, IdsAreUsed, RowsInUse
<1>7. \A u \in D : u[1] = i => u[2] < n /\ u[2] # 0
  <2>1. \A u \in R : u[2] < n /\ u[2] # 0
    BY <1>2, <1>5 DEF JumpBatch
  <2> QED
    BY <1>3, <1>5, <1>6, <2>1
<1>8. /\ \A u \in D : u[1] # i => u \in DOMAIN hist /\ rows[u] = hist[u]
      /\ \A u \in DOMAIN hist : u[1] # i => u \in D
      /\ DOMAIN rows = D
  BY <1>2, <1>3 DEF Tasks
<1> HIDE DEF O, n
<1>9. /\ Flow!MoveTo(i, next)
      /\ \A j \in Instance \ {i} : FlowKept(j)
      /\ \A u \in D : hist'[u] = rows[u]
      /\ D \subseteq DOMAIN hist'
      /\ \A u \in DOMAIN hist' : u[1] = i /\ u[2] # token'[i].round => u \in D
      /\ \A u \in D : u[1] = i => u[2] # token'[i].round
  <2>1. IInv
    BY DEF FlowInv
  <2>2. /\ DOMAIN rows \subseteq TaskId
        /\ \A u \in DOMAIN rows : u[1] = i => u[2] < n
        /\ \A u \in DOMAIN rows : u[1] # i => u \in DOMAIN hist /\ rows[u] = hist[u]
        /\ \A u \in DOMAIN hist : u[1] # i => u \in DOMAIN rows
    BY <1>5, <1>7, <1>8
  <2>3. CASE /\ next \in Activity
             /\ ArriveAtTask(i, next, O, n, rows, todo \ Tasks(i))
             /\ status' = status
    <3>1. O \in SUBSET Person /\ status' = [status EXCEPT ![i] = "active"]
      BY <1>4, <2>3 DEF O, FlowInv, IInv, TypeOK
    <3>2. ArriveAtTask(i, next, O, n, rows, todo \ Tasks(i))
      BY <2>3
    <3> HIDE DEF next
    <3>3. Flow!MoveTo(i, next)
      BY <1>5, <2>1, <2>2, <3>1, <3>2, ArriveFlow
    <3>4. DOMAIN hist' = DOMAIN rows \cup Batch(i, n, O)
      BY <1>5, <2>1, <2>2, <3>1, <3>2, ArriveFlow
    <3>5. \A u \in DOMAIN rows : hist'[u] = rows[u]
      <4> SUFFICES ASSUME NEW u \in DOMAIN rows PROVE hist'[u] = rows[u]
        OBVIOUS
      <4> QED
        BY <1>5, <2>2, <3>1, <3>2, ArriveRows
    <3>6. token'[i].round = n
      BY <3>2 DEF ArriveAtTask, FlowInv, IInv, TypeOK
    <3>7. \A u \in Batch(i, n, O) : u[2] = n
      BY <1>5, <3>1, BatchFacts
    <3>8. \A u \in D : u[1] = i => u[2] # n
      BY <1>5, <1>7, TaskIdParts
    <3>9. \A j \in Instance \ {i} : FlowKept(j)
      BY <1>5, <2>1, <2>2, <3>1, <3>2, ArriveFlow
    <3> QED
      BY <1>8, <3>3, <3>4, <3>5, <3>6, <3>7, <3>8, <3>9
  <2>4. CASE ArriveAtEnd(i, next, n - 1, rows, todo \ Tasks(i))
    <3>1. /\ Flow!MoveTo(i, EndEvent)
          /\ \A j \in Instance \ {i} : FlowKept(j)
          /\ hist' = rows /\ token'[i].round = 0
      BY <2>1, <2>2, <2>4, EndFlow
    <3>2. next = EndEvent
      BY <2>4 DEF ArriveAtEnd
    <3> QED
      BY <1>7, <1>8, <3>1, <3>2
  <2> QED
    BY <1>4, <2>3, <2>4
<1>11. Stage(i) = token[i].at /\ token[i].at \in Activity
  BY <1>4, <1>5 DEF Stage, FlowInv, IInv, CountersMatchRows, Running
<1>13. Passing(i)' = Passing(i)
  <2>1. PICK w : w \in Tasks(i)
    BY <1>4
  <2>2. w \in D /\ w[1] = i /\ w[2] = token[i].round /\ hist'[w].end \in {"deleted", "completed"}
    BY <1>2, <1>3, <1>5, <1>9, <2>1
  <2>3. \A u \in R : hist'[u].end = "completed"
    BY <1>2, <1>3, <1>9
  <2>4. \A v \in DOMAIN hist : v[1] = i /\ v[2] # token[i].round => hist'[v] = hist[v]
    BY <1>2, <1>3, <1>5, <1>9
  <2>5. ASSUME NEW u, u \in Passing(i)' PROVE u \in Passing(i)
    <3>1. u \in DOMAIN hist' /\ u[1] = i /\ u[2] # token'[i].round /\ u \in D
      BY <1>9, <2>5 DEF Passing
    <3>2. \A v \in DOMAIN hist' : v[1] = i /\ v[2] = u[2] => hist'[v].end \in {"done", "closed"}
      BY <2>5 DEF Passing
    <3>3. u[2] # token[i].round
      BY <1>9, <2>2, <3>2
    <3>4. u \in DOMAIN hist
      BY <1>3, <2>3, <3>1, <3>2
    <3>5. \A v \in DOMAIN hist : v[1] = i /\ v[2] = u[2] => hist[v].end \in {"done", "closed"}
      BY <1>3, <1>9, <2>4, <3>2, <3>3
    <3> QED
      BY <3>1, <3>3, <3>4, <3>5 DEF Passing
  <2>6. ASSUME NEW u \in Passing(i) PROVE u \in Passing(i)'
    <3>1. /\ u \in DOMAIN hist /\ u[1] = i /\ u[2] # token[i].round
          /\ \A v \in DOMAIN hist : v[1] = i /\ v[2] = u[2] => hist[v].end \in {"done", "closed"}
      BY DEF Passing
    <3>2. u \in DOMAIN hist' /\ u[2] # token'[i].round /\ u[2] # seq[i] + 1
      BY <1>3, <1>5, <1>6, <1>9, <3>1
    <3>3. \A v \in DOMAIN hist' : v[1] = i /\ v[2] = u[2] => v \in DOMAIN hist
      BY <1>2, <1>3, <1>9, <3>2
    <3> QED
      BY <2>4, <3>1, <3>2, <3>3 DEF Passing
  <2> QED
    BY <2>5, <2>6
<1>14. \A u \in Passing(i) : hist'[u].at = hist[u].at
  BY <1>2, <1>3, <1>9 DEF Passing
<1>15. Passed(i)' = Passed(i)
  BY <1>13, <1>14, PassedFrom
<1>16. next \in Activity \cup {Activities + 1}
  BY ElementFacts DEF EndEvent
<1> QED
  BY <1>9, <1>11, <1>15, <1>16
     DEF Flow!JumpTo, Flow!Activity, Flow!Finished, Activity, FlowKept

-----------------------------------------------------------------------------
(* A live task is the open seat of one owner in the current round.          *)
LEMMA LiveTask ==
  ASSUME FlowInv, NEW t \in DOMAIN hist, Live(t), NEW i, i = t[1]
  PROVE  /\ i \in Instance /\ t \in TaskId /\ t[3] \in Person /\ t \in Tasks(i)
         /\ status[i] = "active" /\ Running(i)
         /\ token[i].at \in Activity /\ Stage(i) = token[i].at
         /\ \A u : u \in Tasks(i) <=> u \in RoundTasks(i) /\ hist[u].end = "open"
         /\ \A u \in RoundTasks(i) : /\ hist[u].end \in {"open", "done"}
                                     /\ hist[u].at = token[i].at
<1> USE DEF FlowInv, IInv
<1>1. /\ t \in TaskId /\ DOMAIN hist \subseteq TaskId
      /\ i \in Instance /\ t[3] \in Person
      /\ status[i] = "active"
      /\ t \in Tasks(i)
  BY TaskIdParts DEF TypeOK, Live, Tasks
<1>2. Running(i)
  BY <1>1 DEF Running
<1>3. token[i].at \in Activity
  BY <1>1, <1>2 DEF CountersMatchRows
<1>4. Stage(i) = token[i].at
  BY <1>1 DEF Stage
<1>5. \A u : u \in Tasks(i) <=> u \in RoundTasks(i) /\ hist[u].end = "open"
  BY DEF Tasks, RoundTasks, RuntimeMatchesHistory, OneRoundOpen
<1>6. \A u \in RoundTasks(i) : hist[u].end \in {"open", "done"} /\ hist[u].at = token[i].at
  BY <1>2 DEF RoundTasks, CurrentRound
<1> QED
  BY <1>1, <1>2, <1>3, <1>4, <1>5, <1>6

(* Each owner has one seat in a round.                                      *)
LEMMA OneSeat ==
  ASSUME FlowInv, NEW i, NEW t \in RoundTasks(i), NEW u \in RoundTasks(i), t[3] = u[3]
  PROVE  t = u
BY TaskIdParts DEF RoundTasks, FlowInv, IInv, TypeOK

LEMMA SeatsAre ==
  ASSUME NEW i, Running(i)
  PROVE  /\ \A p : p \in Asked(i) <=> \E u \in RoundTasks(i) : u[3] = p
         /\ \A p : p \in Signed(i) <=> \E u \in RoundTasks(i) : u[3] = p /\ hist[u].end = "done"
BY DEF Asked, Signed, Seats

(* The completion condition of the engine counts; that of the approval      *)
(* compares owners.                                                         *)
LEMMA EnoughIsOver ==
  ASSUME FlowInv, NEW t \in DOMAIN hist, Live(t), NEW i, i = t[1]
  PROVE  /\ t[3] \in Asked(i) \ Signed(i)
         /\ Flow!Enough(i, Signed(i) \cup {t[3]}) <=> RoundOver(i, token[i].done + 1)
<1>1. /\ i \in Instance /\ t \in Tasks(i) /\ Running(i) /\ Stage(i) = token[i].at
      /\ \A u : u \in Tasks(i) <=> u \in RoundTasks(i) /\ hist[u].end = "open"
      /\ \A u \in RoundTasks(i) : hist[u].end \in {"open", "done"}
  BY LiveTask
<1>2. t[3] \in Asked(i) \ Signed(i)
  BY <1>1, OneSeat, SeatsAre
<1>3. Signed(i) \cup {t[3]} = Asked(i) <=> Tasks(i) = {t}
  <2>1. ASSUME Tasks(i) = {t} PROVE Signed(i) \cup {t[3]} = Asked(i)
    <3>1. \A p : p \in Asked(i) => p \in Signed(i) \cup {t[3]}
      BY <1>1, <2>1, SeatsAre
    <3>2. \A p : p \in Signed(i) \cup {t[3]} => p \in Asked(i)
      BY <1>1, <1>2, SeatsAre
    <3> QED
      BY <3>1, <3>2
  <2>2. ASSUME Signed(i) \cup {t[3]} = Asked(i), NEW u \in Tasks(i), u # t PROVE FALSE
    <3>1. u \in RoundTasks(i) /\ t \in RoundTasks(i) /\ hist[u].end = "open"
      BY <1>1
    <3>2. u[3] \in Asked(i)
      BY <1>1, <3>1, SeatsAre
    <3>3. u[3] # t[3]
      BY <2>2, <3>1, OneSeat
    <3>4. u[3] \in Signed(i)
      BY <2>2, <3>2, <3>3
    <3>5. PICK v \in RoundTasks(i) : v[3] = u[3] /\ hist[v].end = "done"
      BY <1>1, <3>4, SeatsAre
    <3> QED
      BY <3>1, <3>5, OneSeat
  <2> QED
    BY <1>1, <2>1, <2>2
<1>4. token[i].done + 1 >= token[i].total <=> Tasks(i) = {t}
  <2>1. /\ IsFiniteSet(Tasks(i)) /\ Cardinality(Tasks(i)) \in Nat
        /\ token[i].done \in Nat /\ token[i].total \in Nat
        /\ Cardinality(Tasks(i)) + token[i].done = token[i].total
    BY <1>1, TasksFacts DEF FlowInv, IInv, CountersMatchRows, TypeOK, Token
  <2>2. /\ Cardinality(Tasks(i) \ {t}) = Cardinality(Tasks(i)) - 1
        /\ IsFiniteSet(Tasks(i) \ {t}) /\ Cardinality(Tasks(i) \ {t}) \in Nat
    BY <1>1, <2>1, FS_RemoveElement, FS_CardinalityType
  <2>3. Cardinality(Tasks(i) \ {t}) = 0 <=> Tasks(i) \ {t} = {}
    BY <2>2, FS_EmptySet
  <2>4. Tasks(i) \ {t} = {} <=> Tasks(i) = {t}
    BY <1>1
  <2>5. token[i].done + 1 >= token[i].total <=> Cardinality(Tasks(i) \ {t}) = 0
    BY <2>1, <2>2
  <2> QED
    BY <2>3, <2>4, <2>5
<1>5. SignRule[token[i].at] = "one" => token[i].done + 1 = 1
  BY <1>1 DEF FlowInv, IInv, CountersMatchRows
<1> QED
  BY <1>1, <1>2, <1>3, <1>4, <1>5 DEF Flow!Enough, RoundOver

(* A completion that leaves the round open adds a signature.                *)
LEMMA CompleteTaskFlow ==
  ASSUME FlowInv, NEW t \in DOMAIN hist, NEW own \in Owners, CompleteTask(t, own)
  PROVE  Flow!Approve(t[1], t[3])
<1>1. PICK i : i = t[1]
  OBVIOUS
<1>2. /\ Live(t) /\ ~RoundOver(i, token[i].done + 1)
      /\ hist' = Ended(hist, {t}, "done")
      /\ token' = [token EXCEPT ![i].done = @ + 1]
      /\ UNCHANGED <<status, seq>>
  BY <1>1 DEF CompleteTask
<1>3. /\ i \in Instance /\ t \in Tasks(i) /\ Running(i) /\ t[3] \in Person
      /\ Stage(i) = token[i].at /\ token[i].at \in Activity
      /\ \A u : u \in Tasks(i) <=> u \in RoundTasks(i) /\ hist[u].end = "open"
  BY <1>1, <1>2, LiveTask
<1>4. hist \in [DOMAIN hist -> Row] /\ token \in [Instance -> Token]
  BY DEF FlowInv, IInv, TypeOK
<1>5. /\ DOMAIN hist' = DOMAIN hist
      /\ \A u \in DOMAIN hist : /\ hist'[u].at = hist[u].at
                                /\ hist'[u].end = IF u = t THEN "done" ELSE hist[u].end
  <2>1. /\ hist' \in [DOMAIN hist -> Row]
        /\ \A u \in DOMAIN hist : /\ hist'[u].at = hist[u].at
                                  /\ hist'[u].end = IF u \in {t} THEN "done" ELSE hist[u].end
    BY <1>2, <1>4, EndedFacts DEF EndReason
  <2> QED
    BY <2>1
<1>6. /\ \A j \in Instance : token'[j].at = token[j].at /\ token'[j].round = token[j].round
      /\ \A j \in Instance : (Running(j)' <=> Running(j)) /\ Stage(j)' = Stage(j)
  <2>1. \A j \in Instance : token'[j].at = token[j].at /\ token'[j].round = token[j].round
    BY <1>2, <1>3, <1>4 DEF Token
  <2> QED
    BY <1>2, <2>1 DEF Running, Stage
<1>7. \A j \in Instance \ {i} : FlowKept(j)
  <2> SUFFICES ASSUME NEW j \in Instance \ {i} PROVE FlowKept(j)
    OBVIOUS
  <2>1. \A u \in DOMAIN hist : u[1] = j => u # t
    BY <1>1
  <2> QED
    BY <1>5, <1>6, <2>1, Untouched
<1>8. RoundTasks(i)' = RoundTasks(i)
  BY <1>3, <1>5, <1>6 DEF RoundTasks
<1>9. Asked(i)' = Asked(i)
  BY <1>3, <1>6, <1>8 DEF Asked, Seats
<1>10. Signed(i)' = Signed(i) \cup {t[3]}
  <2>1. {u \in RoundTasks(i) : hist[u].end = "done"}' =
          {u \in RoundTasks(i) : hist[u].end = "done"} \cup {t}
    BY <1>3, <1>5, <1>8 DEF RoundTasks
  <2> DEFINE S == {u \in RoundTasks(i) : hist[u].end = "done"}
  <2>2. Signed(i) = Seats(S) /\ Signed(i)' = Seats(S \cup {t})
    BY <1>3, <1>6, <2>1 DEF Signed, Seats
  <2> HIDE DEF S
  <2>3. Seats(S \cup {t}) = Seats(S) \cup {t[3]}
    BY DEF Seats
  <2> QED
    BY <2>2, <2>3
<1>11. Passed(i)' = Passed(i)
  <2>1. t[2] = token[i].round /\ t[1] = i
    BY <1>3 DEF RoundTasks
  <2>2. Passing(i)' = Passing(i)
    BY <1>3, <1>5, <1>6, <2>1 DEF Passing
  <2> QED
    BY <1>5, <2>2, PassedFrom DEF Passing
<1>12. /\ t[3] \in Asked(i) \ Signed(i)
       /\ ~Flow!Enough(i, Signed(i) \cup {t[3]})
  BY <1>1, <1>2, EnoughIsOver
<1> QED
  BY <1>1, <1>3, <1>6, <1>7, <1>9, <1>10, <1>11, <1>12
     DEF Flow!Approve, Flow!Activity, Activity, FlowKept

(* The rows of a round that is over become the rows of a passed one.        *)
LEMMA RoundPasses ==
  ASSUME FlowInv, NEW t \in DOMAIN hist, Live(t), NEW i, i = t[1],
         DOMAIN hist \subseteq DOMAIN hist',
         \A u \in DOMAIN hist : hist'[u].at = hist[u].at,
         \A u \in DOMAIN hist \ Tasks(i) : hist'[u].end = hist[u].end,
         \A u \in Tasks(i) : hist'[u].end \in {"done", "closed"},
         \A u \in DOMAIN hist' : u[1] = i => (u \in DOMAIN hist <=> u[2] # token'[i].round)
  PROVE  Passed(i)' = Passed(i) \cup {token[i].at}
<1>1. /\ i \in Instance /\ t \in Tasks(i)
      /\ \A u : u \in Tasks(i) <=> u \in RoundTasks(i) /\ hist[u].end = "open"
      /\ \A u \in RoundTasks(i) : hist[u].end \in {"open", "done"} /\ hist[u].at = token[i].at
  BY LiveTask
<1>2. RoundTasks(i) \subseteq DOMAIN hist
  BY DEF RoundTasks
<1>3. \A u \in RoundTasks(i) : hist'[u].end \in {"done", "closed"}
  BY <1>1, <1>2
<1>4. \A u \in DOMAIN hist \ RoundTasks(i) : hist'[u].end = hist[u].end
  BY <1>1
<1>5. Passing(i)' = Passing(i) \cup RoundTasks(i)
  <2>1. \A u : u \in RoundTasks(i) <=>
               u \in DOMAIN hist /\ u[1] = i /\ u[2] = token[i].round
    BY DEF RoundTasks
  <2>2. \A u : u \in Passing(i)' <=>
               /\ u \in DOMAIN hist /\ u[1] = i
               /\ \A v \in DOMAIN hist : v[1] = i /\ v[2] = u[2] => hist'[v].end \in {"done", "closed"}
    <3>1. \A u : u \in Passing(i)' <=>
                 /\ u \in DOMAIN hist' /\ u[1] = i /\ u[2] # token'[i].round
                 /\ \A v \in DOMAIN hist' : v[1] = i /\ v[2] = u[2] => hist'[v].end \in {"done", "closed"}
      BY DEF Passing
    <3>2. \A u : u[1] = i => (u \in DOMAIN hist <=> u \in DOMAIN hist' /\ u[2] # token'[i].round)
      OBVIOUS
    <3> QED
      BY <3>1, <3>2
  <2>3. \A u : u \in Passing(i) <=>
               /\ u \in DOMAIN hist /\ u[1] = i /\ u[2] # token[i].round
               /\ \A v \in DOMAIN hist : v[1] = i /\ v[2] = u[2] => hist[v].end \in {"done", "closed"}
    BY DEF Passing
  <2>4. \A u \in DOMAIN hist : u[1] = i /\ u[2] # token[i].round =>
          \A v \in DOMAIN hist : v[1] = i /\ v[2] = u[2] => hist'[v].end = hist[v].end
    <3> SUFFICES ASSUME NEW u \in DOMAIN hist, u[1] = i /\ u[2] # token[i].round,
                        NEW v \in DOMAIN hist, v[1] = i /\ v[2] = u[2]
                 PROVE  hist'[v].end = hist[v].end
      OBVIOUS
    <3>1. v \notin RoundTasks(i)
      BY <2>1
    <3> QED
      BY <1>4, <3>1
  <2>5. \A u \in RoundTasks(i) : u \in Passing(i)'
    <3> SUFFICES ASSUME NEW u \in RoundTasks(i) PROVE u \in Passing(i)'
      OBVIOUS
    <3>1. u \in DOMAIN hist /\ u[1] = i /\ u[2] = token[i].round
      BY <2>1
    <3>2. ASSUME NEW v \in DOMAIN hist, v[1] = i, v[2] = u[2]
          PROVE  hist'[v].end \in {"done", "closed"}
      <4>1. v \in RoundTasks(i)
        BY <2>1, <3>1, <3>2
      <4> QED
        BY <1>3, <4>1
    <3> QED
      BY <2>2, <3>1, <3>2
  <2>6. \A u \in DOMAIN hist : u[1] = i /\ u[2] # token[i].round =>
          (u \in Passing(i)' <=> u \in Passing(i))
    BY <2>2, <2>3, <2>4
  <2> QED
    BY <2>1, <2>2, <2>3, <2>5, <2>6
<1>6. {hist'[u].at : u \in Passing(i)'} = {hist[u].at : u \in Passing(i) \cup RoundTasks(i)}
  <2>1. \A u \in Passing(i) \cup RoundTasks(i) : hist'[u].at = hist[u].at
    <3>1. Passing(i) \cup RoundTasks(i) \subseteq DOMAIN hist
      BY DEF Passing, RoundTasks
    <3> QED
      BY <3>1
  <2> QED
    BY <1>5, <2>1
<1>7. {hist[u].at : u \in RoundTasks(i)} = {token[i].at}
  BY <1>1
<1> QED
  BY <1>6, <1>7, PassedIs

(* A completion that ends the round passes the activity.                    *)
LEMMA CompleteRoundFlow ==
  ASSUME FlowInv, NEW t \in DOMAIN hist, NEW own \in Owners, CompleteRound(t, own)
  PROVE  Flow!Approve(t[1], t[3])
<1>1. PICK i, next, rows, n, O :
        /\ i = t[1] /\ next = token[i].at + 1 /\ n = seq[i] + 1
        /\ rows = Ended(Ended(hist, Tasks(i) \ {t}, "closed"), {t}, "done")
        /\ O = Overlay(owners[i], own)[next]
  OBVIOUS
<1>2. /\ Live(t) /\ RoundOver(i, token[i].done + 1)
      /\ \/ /\ next \in Activity
            /\ ArriveAtTask(i, next, O, n, rows, todo \ Tasks(i))
            /\ UNCHANGED status
         \/ ArriveAtEnd(i, next, seq[i], rows, todo \ Tasks(i))
  BY <1>1 DEF CompleteRound
<1>3. /\ i \in Instance /\ t \in Tasks(i) /\ Running(i) /\ t[3] \in Person
      /\ Stage(i) = token[i].at /\ token[i].at \in Activity /\ status[i] = "active"
      /\ \A u : u \in Tasks(i) <=> u \in RoundTasks(i) /\ hist[u].end = "open"
  BY <1>1, <1>2, LiveTask
<1>4. /\ hist \in [DOMAIN hist -> Row] /\ DOMAIN hist \subseteq TaskId
      /\ status' \in [Instance -> {"absent", "active", "suspended", "ended"}]
      /\ seq[i] \in Nat /\ n \in Nat
  BY <1>1, <1>3, CompleteRoundInv DEF FlowInv, IInv, TypeOK
<1>5. /\ DOMAIN rows = DOMAIN hist
      /\ \A u \in DOMAIN hist : rows[u].at = hist[u].at
      /\ \A u \in DOMAIN hist \ Tasks(i) : rows[u] = hist[u]
      /\ \A u \in Tasks(i) : rows[u].end \in {"done", "closed"}
  <2>1. /\ rows \in [DOMAIN hist -> Row]
        /\ \A u \in DOMAIN hist :
             /\ rows[u].at = hist[u].at
             /\ rows[u].end = IF u \in {t} THEN "done"
                              ELSE IF u \in Tasks(i) \ {t} THEN "closed" ELSE hist[u].end
             /\ u \notin Tasks(i) \ {t} /\ u \notin {t} => rows[u] = hist[u]
    BY <1>1, <1>4, EndedTwice DEF EndReason
  <2>2. Tasks(i) \subseteq DOMAIN hist
    BY <1>3, TasksFacts DEF FlowInv
  <2> QED
    BY <2>1, <2>2, <1>3
<1>6. \A u \in DOMAIN hist : u[1] = i => u[2] <= seq[i] /\ u[2] \in Nat /\ u[2] # 0 /\ u[2] < n
  BY <1>1, <1>4, TaskIdParts DEF FlowInv, RowsInUse, IInv, IdsAreUsed
<1>7. /\ t[3] \in Asked(i) \ Signed(i)
      /\ Flow!Enough(i, Signed(i) \cup {t[3]})
  BY <1>1, <1>2, EnoughIsOver
<1>8. ASSUME next \in Activity, ArriveAtTask(i, next, O, n, rows, todo \ Tasks(i)), status' = status
      PROVE  /\ Flow!MoveTo(i, next)
             /\ \A j \in Instance \ {i} : FlowKept(j)
             /\ Passed(i)' = Passed(i) \cup {token[i].at}
  <2>1. O \in SUBSET Person
    BY <1>1, <1>3, <1>8, OverlayType DEF FlowInv, IInv, TypeOK
  <2>2. status' = [status EXCEPT ![i] = "active"]
    BY <1>3, <1>8 DEF FlowInv, IInv, TypeOK
  <2>3. /\ \A u \in DOMAIN rows : u[1] = i => u[2] < n
        /\ \A u \in DOMAIN rows : u[1] # i => u \in DOMAIN hist /\ rows[u] = hist[u]
        /\ \A u \in DOMAIN hist : u[1] # i => u \in DOMAIN rows
        /\ DOMAIN rows \subseteq TaskId
    BY <1>4, <1>5, <1>6 DEF Tasks
  <2>4. IInv
    BY DEF FlowInv
  <2>5. Flow!MoveTo(i, next)
    BY <1>3, <1>4, <1>8, <2>1, <2>2, <2>3, <2>4, ArriveFlow
  <2>6. \A j \in Instance \ {i} : FlowKept(j)
    BY <1>3, <1>4, <1>8, <2>1, <2>2, <2>3, <2>4, ArriveFlow
  <2>7. DOMAIN hist' = DOMAIN rows \cup Batch(i, n, O)
    BY <1>3, <1>4, <1>8, <2>1, <2>2, <2>3, <2>4, ArriveFlow
  <2>8. \A u \in DOMAIN hist : hist'[u] = rows[u]
    <3> SUFFICES ASSUME NEW u \in DOMAIN hist PROVE hist'[u] = rows[u]
      OBVIOUS
    <3>1. u \in DOMAIN rows /\ (u[1] = i => u[2] < n)
      BY <1>5, <1>6
    <3> QED
      BY <1>3, <1>4, <1>8, <2>1, <3>1, ArriveRows
  <2>9. token'[i].round = n
    BY <1>3, <1>8 DEF ArriveAtTask, FlowInv, IInv, TypeOK
  <2>10. Passed(i)' = Passed(i) \cup {token[i].at}
    <3>1. \A u \in DOMAIN hist' : u[1] = i => (u \in DOMAIN hist <=> u[2] # token'[i].round)
      BY <1>3, <1>4, <1>5, <1>6, <2>1, <2>7, <2>9, BatchFacts
    <3>2. \A u \in DOMAIN hist : hist'[u].at = hist[u].at
      BY <1>5, <2>8
    <3>3. \A u \in DOMAIN hist \ Tasks(i) : hist'[u].end = hist[u].end
      BY <1>5, <2>8
    <3>4. \A u \in Tasks(i) : hist'[u].end \in {"done", "closed"}
      <4>1. Tasks(i) \subseteq DOMAIN hist
        BY <1>3, <2>4, TasksFacts
      <4> QED
        BY <1>5, <2>8, <4>1
    <3>5. DOMAIN hist \subseteq DOMAIN hist'
      BY <1>5, <2>7
    <3> QED
      BY <1>1, <1>2, <3>1, <3>2, <3>3, <3>4, <3>5, RoundPasses
  <2> QED
    BY <2>5, <2>6, <2>10
<1>9. ASSUME ArriveAtEnd(i, next, seq[i], rows, todo \ Tasks(i))
      PROVE  /\ Flow!MoveTo(i, next)
             /\ \A j \in Instance \ {i} : FlowKept(j)
             /\ Passed(i)' = Passed(i) \cup {token[i].at}
  <2>1. /\ \A u \in DOMAIN rows : u[1] # i => u \in DOMAIN hist /\ rows[u] = hist[u]
        /\ \A u \in DOMAIN hist : u[1] # i => u \in DOMAIN rows
        /\ IInv
    BY <1>5 DEF Tasks, FlowInv
  <2>2. /\ Flow!MoveTo(i, EndEvent)
        /\ \A j \in Instance \ {i} : FlowKept(j)
        /\ hist' = rows /\ token'[i].round = 0
    BY <1>3, <1>9, <2>1, EndFlow
  <2>6. Flow!MoveTo(i, next)
    BY <1>9, <2>2 DEF ArriveAtEnd
  <2>7. Passed(i)' = Passed(i) \cup {token[i].at}
    <3>1. \A u \in DOMAIN hist' : u[1] = i => (u \in DOMAIN hist <=> u[2] # token'[i].round)
      BY <1>5, <1>6, <2>2
    <3>2. \A u \in DOMAIN hist : hist'[u].at = hist[u].at
      BY <1>5, <2>2
    <3>3. \A u \in DOMAIN hist \ Tasks(i) : hist'[u].end = hist[u].end
      BY <1>5, <2>2
    <3>4. \A u \in Tasks(i) : hist'[u].end \in {"done", "closed"}
      BY <1>5, <2>2
    <3>5. DOMAIN hist \subseteq DOMAIN hist'
      BY <1>5, <2>2
    <3> QED
      BY <1>1, <1>2, <3>1, <3>2, <3>3, <3>4, <3>5, RoundPasses
  <2> QED
    BY <2>2, <2>6, <2>7
<1> QED
  BY <1>1, <1>2, <1>3, <1>7, <1>8, <1>9 DEF Flow!Approve, Flow!Activity, Activity, FlowKept

(* A deletion is the end of an approval that was under way.                 *)
LEMMA DeleteFlow ==
  ASSUME FlowInv, NEW i \in Instance, Delete(i)
  PROVE  Flow!Stop(i)
<1>1. /\ Running(i)
      /\ status' = [status EXCEPT ![i] = "ended"]
      /\ hist' = Ended(hist, Tasks(i), "stopped")
      /\ UNCHANGED token
  BY DEF Delete
<1>2. /\ status'[i] = "ended" /\ \A j \in Instance \ {i} : status'[j] = status[j]
      /\ hist \in [DOMAIN hist -> Row]
      /\ token[i].at \in Activity /\ Stage(i) = token[i].at
  BY <1>1 DEF FlowInv, IInv, TypeOK, CountersMatchRows, Running, Stage
<1>3. /\ DOMAIN hist' = DOMAIN hist
      /\ \A u \in DOMAIN hist : hist'[u].at = hist[u].at
      /\ \A u \in DOMAIN hist \ Tasks(i) : hist'[u].end = hist[u].end
  <2>1. /\ hist' \in [DOMAIN hist -> Row]
        /\ \A u \in DOMAIN hist : /\ hist'[u].at = hist[u].at
                                  /\ u \notin Tasks(i) => hist'[u] = hist[u]
    BY <1>1, <1>2, EndedFacts DEF EndReason
  <2> QED
    BY <2>1
<1>4. /\ token[i].at # EndEvent /\ Activities + 2 \notin Activity /\ EndEvent + 1 = Activities + 2
  BY <1>2, EngineAssumption DEF EndEvent, Activity
<1>5. Stage(i)' = Activities + 2 /\ ~Running(i)'
  BY <1>1, <1>2, <1>4 DEF Stage, Running
<1>6. Asked(i)' = {} /\ Signed(i)' = {} /\ {} \in SUBSET Person
  BY <1>5 DEF Asked, Signed
<1>7. \A j \in Instance \ {i} : FlowKept(j)
  <2> SUFFICES ASSUME NEW j \in Instance \ {i} PROVE FlowKept(j)
    OBVIOUS
  <2>1. (Running(j)' <=> Running(j)) /\ Stage(j)' = Stage(j)
    BY <1>1, <1>2 DEF Running, Stage
  <2>2. \A u \in DOMAIN hist : u[1] = j => hist'[u].at = hist[u].at /\ hist'[u].end = hist[u].end
    BY <1>3 DEF Tasks
  <2> QED
    BY <1>1, <1>3, <2>1, <2>2, Untouched
<1>8. Flow!MoveTo(i, Activities + 2)
  BY <1>4, <1>5, <1>6, <1>7, MoveToIs
<1>9. Passed(i)' = Passed(i)
  <2>1. \A u \in Tasks(i) : u[2] = token[i].round
    BY TasksFacts DEF FlowInv
  <2>2. \A u \in DOMAIN hist : u[2] # token[i].round => hist'[u].end = hist[u].end
    BY <1>3, <2>1
  <2>3. Passing(i)' = Passing(i)
    BY <1>1, <1>3, <2>2 DEF Passing
  <2> QED
    BY <1>3, <2>3, PassedFrom DEF Passing
<1> QED
  BY <1>2, <1>7, <1>8, <1>9 DEF Flow!Stop, Flow!Stopped, Flow!Activity, Activity, FlowKept

(* What the approval does not see: comments, assignees, suspension,         *)
(* transfer records.                                                        *)
LEMMA NotSeen ==
  ASSUME FlowInv,
         \/ \E t \in DOMAIN hist : \/ Comment(t)
                                  \/ Unclaim(t)
                                  \/ \E p \in Person : Claim(t, p)
         \/ \E i \in Instance : Suspend(i)
  PROVE  \A j \in Instance : FlowKept(j)
<1>1. token' = token
  BY DEF Comment, Unclaim, Claim, Suspend
<1>2. /\ hist \in [DOMAIN hist -> Row]
      /\ status \in [Instance -> {"absent", "active", "suspended", "ended"}]
  BY DEF FlowInv, IInv, TypeOK
<1>3. \A j \in Instance : (Running(j)' <=> Running(j)) /\ Stage(j)' = Stage(j)
  BY <1>1, <1>2 DEF Comment, Unclaim, Claim, Suspend, Running, Stage
<1>4. /\ DOMAIN hist' = DOMAIN hist
      /\ \A u \in DOMAIN hist : hist'[u].at = hist[u].at /\ hist'[u].end = hist[u].end
  <2>1. CASE hist' = hist
    BY <2>1
  <2>2. ASSUME NEW t \in DOMAIN hist, NEW p, hist' = [hist EXCEPT ![t].assignee = p]
        PROVE  /\ DOMAIN hist' = DOMAIN hist
               /\ \A u \in DOMAIN hist : hist'[u].at = hist[u].at /\ hist'[u].end = hist[u].end
    BY <1>2, <2>2 DEF Row
  <2>3. hist' = hist \/ \E t \in DOMAIN hist : \E p : hist' = [hist EXCEPT ![t].assignee = p]
    BY DEF Comment, Unclaim, Claim, Suspend
  <2> QED
    BY <2>1, <2>2, <2>3
<1> QED
  BY <1>1, <1>3, <1>4, Untouched

LEMMA TransferNotSeen ==
  ASSUME FlowInv, NEW t \in DOMAIN hist, NEW p \in Person, TransferRecord(t, p)
  PROVE  \A j \in Instance : FlowKept(j)
<1>1. PICK i, id : i = t[1] /\ id = <<i, seq[i] + 1, p>>
  OBVIOUS
<1>2. /\ i \in Instance /\ seq[i] \in Nat /\ DOMAIN hist \subseteq TaskId
      /\ id[1] = i /\ id[2] = seq[i] + 1
  BY <1>1, TaskIdParts DEF FlowInv, IInv, TypeOK
<1>3. \A u \in DOMAIN hist : u[1] = i => u[2] # id[2]
  BY <1>2, TaskIdParts DEF FlowInv, IInv, IdsAreUsed
<1>4. id \notin DOMAIN hist
  BY <1>2, <1>3
<1>5. /\ UNCHANGED <<token, status>>
      /\ DOMAIN hist' = DOMAIN hist \cup {id}
      /\ hist'[id].end = "transfer"
      /\ \A u \in DOMAIN hist : hist'[u] = hist[u]
  BY <1>1, <1>4 DEF TransferRecord, Insert
<1>6. \A j \in Instance : (Running(j)' <=> Running(j)) /\ Stage(j)' = Stage(j)
  BY <1>5 DEF Running, Stage
<1>7. \A j \in Instance \ {i} : FlowKept(j)
  <2> SUFFICES ASSUME NEW j \in Instance \ {i} PROVE FlowKept(j)
    OBVIOUS
  <2>1. \A u : u[1] = j => (u \in DOMAIN hist' <=> u \in DOMAIN hist)
    BY <1>2, <1>5
  <2> QED
    BY <1>5, <1>6, <2>1, Untouched
<1>8. Asked(i)' = Asked(i) /\ Signed(i)' = Signed(i)
  <2>1. CASE Running(i)
    <3>1. id[2] # token[i].round
      BY <1>2, <2>1 DEF FlowInv, IInv, CountersMatchRows, TypeOK, Token
    <3>2. RoundTasks(i)' = RoundTasks(i)
      BY <1>5, <3>1 DEF RoundTasks
    <3>3. {u \in RoundTasks(i) : hist[u].end = "done"}' = {u \in RoundTasks(i) : hist[u].end = "done"}
      BY <1>5, <3>2 DEF RoundTasks
    <3> QED
      BY <1>2, <1>6, <3>2, <3>3 DEF Asked, Signed, Seats
  <2>2. CASE ~Running(i)
    BY <1>2, <1>6, <2>2 DEF Asked, Signed
  <2> QED
    BY <2>1, <2>2
<1>9. Passing(i)' = Passing(i)
  <2>1. ASSUME NEW u, u \in Passing(i)' PROVE u \in Passing(i)
    <3>1. u # id /\ u \in DOMAIN hist
      BY <1>2, <1>5, <2>1 DEF Passing
    <3> QED
      BY <1>5, <2>1, <3>1 DEF Passing
  <2>2. ASSUME NEW u \in Passing(i) PROVE u \in Passing(i)'
    <3>1. u \in DOMAIN hist /\ u[1] = i /\ u[2] # id[2]
      BY <1>3 DEF Passing
    <3> QED
      BY <1>5, <3>1 DEF Passing
  <2> QED
    BY <2>1, <2>2
<1>10. Passed(i)' = Passed(i)
  BY <1>5, <1>9, PassedFrom DEF Passing
<1> QED
  BY <1>2, <1>6, <1>7, <1>8, <1>10 DEF FlowKept

-----------------------------------------------------------------------------
(* A new row belongs to a started instance, and no instance is unstarted.   *)
LEMMA InUse ==
  ASSUME FlowInv,
         \A j \in Instance : status[j] # "absent" => status'[j] # "absent",
         \A u \in DOMAIN hist' \ DOMAIN hist : u[2] # 0 /\ status'[u[1]] # "absent"
  PROVE  RowsInUse'
BY TaskIdParts DEF FlowInv, IInv, TypeOK, RowsInUse

LEMMA ArriveInUse ==
  ASSUME FlowInv, NEW i \in Instance, NEW a, NEW O \in SUBSET Person, NEW n \in Nat \ {0},
         NEW rows, NEW open, ArriveAtTask(i, a, O, n, rows, open),
         \A j \in Instance : status[j] # "absent" => status'[j] # "absent",
         status'[i] # "absent",
         \A u \in DOMAIN rows \ DOMAIN hist : u[2] # 0 /\ u[1] = i
  PROVE  RowsInUse'
<1>1. DOMAIN hist' \subseteq DOMAIN rows \cup Batch(i, n, O)
  BY DEF ArriveAtTask, Insert
<1>2. \A u \in Batch(i, n, O) : u[1] = i /\ u[2] = n
  BY BatchFacts
<1> QED
  BY <1>1, <1>2, InUse

LEMMA InUseNext == FlowInv /\ [EngineNext]_engineVars => RowsInUse'
<1> SUFFICES ASSUME FlowInv, [EngineNext]_engineVars PROVE RowsInUse'
  OBVIOUS
<1>1. /\ status \in [Instance -> {"absent", "active", "suspended", "ended"}]
      /\ hist \in [DOMAIN hist -> Row] /\ DOMAIN hist \subseteq TaskId
      /\ owners \in [Instance -> [Activity -> SUBSET Person]]
      /\ \A i \in Instance : /\ seq[i] \in Nat
                             /\ seq[i] + 1 \in Nat \ {0} /\ seq[i] + 2 \in Nat \ {0}
  BY DEF FlowInv, IInv, TypeOK
<1>2. ASSUME NEW t \in DOMAIN hist, TaskCommand(t) PROVE RowsInUse'
  <2>1. t[1] \in Instance /\ status[t[1]] # "absent"
    BY <1>1, TaskIdParts DEF FlowInv, RowsInUse
  <2>2. ASSUME NEW own \in Owners, CompleteTask(t, own) PROVE RowsInUse'
    BY <2>2, InUse DEF CompleteTask, Ended
  <2>3. ASSUME NEW own \in Owners, CompleteRound(t, own) PROVE RowsInUse'
    <3>1. PICK rows, next, O :
            /\ rows = Ended(Ended(hist, Tasks(t[1]) \ {t}, "closed"), {t}, "done")
            /\ next = token[t[1]].at + 1 /\ O = Overlay(owners[t[1]], own)[next]
      OBVIOUS
    <3>2. DOMAIN rows = DOMAIN hist
      BY <3>1 DEF Ended
    <3>3. \A j \in Instance : status[j] # "absent" => status'[j] # "absent"
      BY <1>1, <2>1, <2>3 DEF CompleteRound, ArriveAtEnd
    <3>4. CASE /\ next \in Activity /\ UNCHANGED status
               /\ ArriveAtTask(t[1], next, O, seq[t[1]] + 1, rows, todo \ Tasks(t[1]))
      <4>1. O \in SUBSET Person
        BY <1>1, <2>1, <3>1, <3>4, OverlayType
      <4> QED
        BY <1>1, <2>1, <3>2, <3>3, <3>4, <4>1, ArriveInUse
    <3>5. CASE hist' = rows
      BY <3>2, <3>3, <3>5, InUse
    <3> QED
      BY <2>3, <3>1, <3>4, <3>5 DEF CompleteRound, ArriveAtEnd
  <2>4. CASE Comment(t)
    BY <2>4, InUse DEF Comment
  <2>5. CASE Unclaim(t)
    BY <2>5, InUse DEF Unclaim
  <2>6. ASSUME NEW p \in Person, Claim(t, p) PROVE RowsInUse'
    BY <2>6, InUse DEF Claim
  <2>7. ASSUME NEW p \in Person, TransferRecord(t, p) PROVE RowsInUse'
    <3>1. /\ DOMAIN hist' = DOMAIN hist \cup {<<t[1], seq[t[1]] + 1, p>>}
          /\ status' = status
      BY <2>7 DEF TransferRecord, Insert
    <3> QED
      BY <1>1, <2>1, <3>1, InUse
  <2> QED
    BY <1>2, <2>2, <2>3, <2>4, <2>5, <2>6, <2>7 DEF TaskCommand
<1>3. ASSUME NEW i \in Instance, InstanceCommand(i) PROVE RowsInUse'
  <2>1. ASSUME NEW k \in BusinessKey, NEW own \in Owners, StartProcess(i, k, own)
        PROVE  RowsInUse'
    <3>1. own[1] \in SUBSET Person
      <4>1. own \in [Activity -> SUBSET Person] /\ 1 \in Activity
        BY OwnersType, EngineAssumption DEF Activity
      <4> QED
        BY <4>1
    <3>2. status' = [status EXCEPT ![i] = "active"]
      BY <2>1 DEF StartProcess
    <3>3. ArriveAtTask(i, 1, own[1], seq[i] + 1, hist, todo)
      BY <2>1 DEF StartProcess
    <3>4. status'[i] # "absent" /\ \A j \in Instance : status[j] # "absent" => status'[j] # "absent"
      BY <1>1, <3>2
    <3> QED
      BY <1>1, <3>1, <3>3, <3>4, ArriveInUse
  <2>2. ASSUME NEW t, NEW p \in Person, NEW e \in Element, Jump(i, t, p, e)
        PROVE  RowsInUse'
    <3>1. PICK R, rows, n, a :
            /\ R = JumpRecord(i, t, p) /\ rows = JumpRows(i, t, p, e)
            /\ n = JumpBatch(i, t) /\ a = Destination(e)
      OBVIOUS
    <3>2. DOMAIN rows = DOMAIN hist \cup R /\ \A u \in R : u[1] = i /\ u[2] = seq[i] + 1
      <4>1. /\ rows \in [DOMAIN hist \cup R -> Row]
            /\ \A u \in R : u[1] = i /\ u[2] = seq[i] + 1
        BY <3>1, JumpRowsFacts DEF FlowInv
      <4> QED
        BY <4>1
    <3>3. /\ \/ /\ a \in Activity
                /\ ArriveAtTask(i, a, owners[i][a], n, rows, todo \ Tasks(i))
                /\ status' = status
             \/ hist' = rows /\ status' = [status EXCEPT ![i] = "ended"]
          /\ status[i] = "active"
      <4>1. /\ status[i] = "active"
            /\ \/ /\ a \in Activity
                  /\ ArriveAtTask(i, a, owners[i][a], n, rows, todo \ Tasks(i))
                  /\ status' = status
               \/ ArriveAtEnd(i, a, n - 1, rows, todo \ Tasks(i))
        BY <2>2, <3>1 DEF Jump
      <4> QED
        BY <4>1 DEF ArriveAtEnd
    <3>4. n \in Nat \ {0} /\ (a \in Activity => owners[i][a] \in SUBSET Person)
      BY <1>1, <3>1 DEF JumpBatch
    <3>5. \A u \in DOMAIN rows \ DOMAIN hist : u[2] # 0 /\ u[1] = i
      BY <1>1, <3>2
    <3>6. CASE /\ a \in Activity
               /\ ArriveAtTask(i, a, owners[i][a], n, rows, todo \ Tasks(i))
               /\ status' = status
      BY <3>3, <3>4, <3>5, <3>6, ArriveInUse
    <3>7. CASE hist' = rows /\ status' = [status EXCEPT ![i] = "ended"]
      <4>1. /\ status'[i] # "absent"
            /\ \A j \in Instance : status[j] # "absent" => status'[j] # "absent"
        BY <1>1, <3>7
      <4> QED
        BY <3>5, <3>7, <4>1, InUse
    <3> QED
      BY <3>3, <3>6, <3>7
  <2>3. CASE Suspend(i)
    <3>1. \A j \in Instance : status[j] # "absent" => status'[j] # "absent"
      BY <1>1, <2>3 DEF Suspend
    <3> QED
      BY <2>3, <3>1, InUse DEF Suspend
  <2>4. CASE Delete(i)
    <3>1. \A j \in Instance : status[j] # "absent" => status'[j] # "absent"
      BY <1>1, <2>4 DEF Delete
    <3> QED
      BY <2>4, <3>1, InUse DEF Delete, Ended
  <2> QED
    BY <1>3, <2>1, <2>2, <2>3, <2>4 DEF InstanceCommand
<1>4. CASE UNCHANGED engineVars
  BY <1>4, InUse DEF engineVars
<1> QED
  BY <1>2, <1>3, <1>4 DEF EngineNext

-----------------------------------------------------------------------------
(* Initial states map to initial states,                                    *)
LEMMA FlowInitially == EngineInit => FlowInv /\ Flow!FlowInit
<1> SUFFICES ASSUME EngineInit PROVE FlowInv /\ Flow!FlowInit
  OBVIOUS
<1>1. /\ DOMAIN hist = {}
      /\ \A i \in Instance : status[i] = "absent"
  BY DEF EngineInit
<1>2. FlowInv
  BY <1>1, InitInv DEF FlowInv, RowsInUse
<1>3. \A i \in Instance : Stage(i) = 0 /\ Asked(i) = {} /\ Signed(i) = {}
  BY <1>1 DEF Stage, Asked, Signed, Running
<1>4. \A i \in Instance : Passed(i) = {}
  BY <1>1 DEF Passed
<1> QED
  BY <1>2, <1>3, <1>4 DEF Flow!FlowInit

(* and every step to a step or to none.                                     *)
LEMMA FlowStep == FlowInv /\ [EngineNext]_engineVars => [Flow!FlowNext]_(Flow!flowVars)
<1> SUFFICES ASSUME FlowInv, [EngineNext]_engineVars
             PROVE  Flow!FlowNext \/ UNCHANGED Flow!flowVars
  OBVIOUS
<1>1. ASSUME NEW t \in DOMAIN hist, TaskCommand(t)
      PROVE  Flow!FlowNext \/ UNCHANGED Flow!flowVars
  <2>1. t[1] \in Instance /\ t[3] \in Person
    BY TaskIdParts DEF FlowInv, IInv, TypeOK
  <2>2. ASSUME NEW own \in Owners, CompleteTask(t, own) \/ CompleteRound(t, own)
        PROVE  Flow!FlowNext
    <3>1. Flow!Approve(t[1], t[3])
      BY <2>2, CompleteTaskFlow, CompleteRoundFlow
    <3> QED
      BY <2>1, <3>1 DEF Flow!FlowNext
  <2>3. CASE Comment(t) \/ Unclaim(t) \/ \E p \in Person : Claim(t, p)
    BY <2>3, NotSeen, AllKept
  <2>4. ASSUME NEW p \in Person, TransferRecord(t, p)
        PROVE  UNCHANGED Flow!flowVars
    BY <2>4, TransferNotSeen, AllKept
  <2> QED
    BY <1>1, <2>2, <2>3, <2>4 DEF TaskCommand
<1>2. ASSUME NEW i \in Instance, InstanceCommand(i)
      PROVE  Flow!FlowNext \/ UNCHANGED Flow!flowVars
  <2>1. ASSUME NEW k \in BusinessKey, NEW own \in Owners, StartProcess(i, k, own)
        PROVE  Flow!FlowNext
    <3>1. Flow!Start(i)
      BY <2>1, StartFlow
    <3> QED
      BY <3>1 DEF Flow!FlowNext
  <2>2. ASSUME NEW t, NEW p \in Person, NEW e \in Element, Jump(i, t, p, e)
        PROVE  Flow!FlowNext
    <3>1. Flow!JumpTo(i, Destination(e))
      BY <2>2, JumpFlow
    <3> QED
      BY <3>1 DEF Flow!FlowNext, Flow!JumpTo
  <2>3. CASE Suspend(i)
    BY <2>3, NotSeen, AllKept
  <2>4. CASE Delete(i)
    <3>1. Flow!Stop(i)
      BY <2>4, DeleteFlow
    <3> QED
      BY <3>1 DEF Flow!FlowNext
  <2> QED
    BY <1>2, <2>1, <2>2, <2>3, <2>4 DEF InstanceCommand
<1>3. CASE UNCHANGED engineVars
  <2>1. \A j \in Instance : FlowKept(j)
    BY <1>3 DEF engineVars, FlowKept, Stage, Asked, Signed, Passed, RoundTasks, Seats, Running
  <2> QED
    BY <2>1, AllKept
<1> QED
  BY <1>1, <1>2, <1>3 DEF EngineNext

(* The engine implements the approval: nobody's signature is lost, counted  *)
(* twice or counted in a round it was not given in, and no activity is left *)
(* by approval before its rule is met, whatever jumps, transfers and stops  *)
(* come in between (CommonJumpTaskCmd, TaskService.complete).               *)
THEOREM EngineImplementsFlow == EngineSpec => ImplementsFlow
<1>1. FlowInv /\ [EngineNext]_engineVars => FlowInv'
  BY NextInv, InUseNext DEF FlowInv
<1> QED
  BY <1>1, FlowInitially, FlowStep, PTL DEF EngineSpec, ImplementsFlow, Flow!FlowSpec

-----------------------------------------------------------------------------
(* The request handlers.                                                    *)

(* No command takes a row out of the history.                               *)
LEMMA HistoryGrows ==
  ASSUME IInv, [EngineNext]_engineVars
  PROVE  DOMAIN hist \subseteq DOMAIN hist'
<1> SUFFICES ASSUME NEW f \in DOMAIN hist
             PROVE  f \in DOMAIN hist'
  OBVIOUS
<1>1. ASSUME NEW t \in DOMAIN hist, TaskCommand(t)
      PROVE  f \in DOMAIN hist'
  BY <1>1, ZenonT(40) DEF TaskCommand, CompleteTask, CompleteRound, ArriveAtTask, ArriveAtEnd,
              Comment, Unclaim, Claim, TransferRecord, Ended, Insert
<1>2. ASSUME NEW i \in Instance, InstanceCommand(i)
      PROVE  f \in DOMAIN hist'
  <2>1. ASSUME NEW t, NEW p \in Person, NEW e \in Element, Jump(i, t, p, e)
        PROVE  f \in DOMAIN hist'
    <3>1. PICK R, rows : R = JumpRecord(i, t, p) /\ rows = JumpRows(i, t, p, e)
      OBVIOUS
    <3>2. rows \in [DOMAIN hist \cup R -> Row]
      BY <3>1, JumpRowsFacts
    <3>3. hist' = rows \/ \E a, O, n, open : ArriveAtTask(i, a, O, n, rows, open)
      BY <2>1, <3>1 DEF Jump, ArriveAtEnd
    <3> QED
      BY <3>2, <3>3 DEF ArriveAtTask, Insert
  <2>2. ASSUME NEW k \in BusinessKey, NEW own \in Owners, StartProcess(i, k, own)
        PROVE  f \in DOMAIN hist'
    BY <2>2 DEF StartProcess, ArriveAtTask, Insert
  <2>3. CASE Suspend(i) \/ Delete(i)
    BY <2>3 DEF Suspend, Delete, Ended
  <2> QED
    BY <1>2, <2>1, <2>2, <2>3 DEF InstanceCommand
<1> QED
  BY <1>1, <1>2 DEF EngineNext, engineVars

-----------------------------------------------------------------------------
(* What a thread at step s knows of its request r, the history's ids being  *)
(* D.                                                                       *)
Fits(r, s, D) ==
  /\ r.op = "none" <=> s = "idle"
  /\ r.task \in D \cup {NoTask}
  /\ s = "create" => r.key \in BusinessKey /\ r.own \in Owners
  /\ s \in {"comment", "lookup", "complete"} => r.op = "submit" /\ r.own \in Owners
  /\ r.op = "submit" => r.task \in D /\ r.inst \in Instance
  /\ s = "jump" =>
       /\ r.op \in {"rollback", "withdraw", "runTo"}
       /\ r.inst \in Instance /\ r.person \in Person /\ r.target \in Targets
  /\ s \in {"reply", "terminated"} => r.inst \in Instance
  /\ s \in {"owner", "unclaim", "claim", "record"} =>
       r.task \in D /\ r.person \in Person /\ r.heir \in Person
  /\ s \in {"suspend", "delete"} => r.inst \in Instance

LEMMA FitsGrows ==
  ASSUME NEW r, NEW s, NEW D, NEW E, D \subseteq E, Fits(r, s, D)
  PROVE  Fits(r, s, E)
BY DEF Fits

ClientsOK ==
  /\ pc \in [Client -> Steps]
  /\ req \in [Client -> Request]
  /\ \A c \in Client : Fits(req[c], pc[c], DOMAIN hist)
  /\ served \in 0..MaxRequests
  /\ aborts \in 0..MaxAborts

HandlerInv == IInv /\ ClientsOK

(* Thread c is at step s with request r after a step of its own.            *)
Moves(c, r, s) ==
  /\ pc' = [pc EXCEPT ![c] = s]
  /\ req' = [req EXCEPT ![c] = r]
  /\ s \in Steps
  /\ r \in Request
  /\ Fits(r, s, DOMAIN hist)
  /\ served' \in 0..MaxRequests
  /\ aborts' \in 0..MaxAborts

LEMMA MovesInv ==
  ASSUME HandlerInv, [EngineNext]_engineVars, NEW c \in Client, NEW r, NEW s, Moves(c, r, s)
  PROVE  HandlerInv'
<1>1. IInv'
  BY NextInv DEF HandlerInv
<1>2. DOMAIN hist \subseteq DOMAIN hist'
  BY HistoryGrows DEF HandlerInv
<1>3. /\ pc' \in [Client -> Steps] /\ req' \in [Client -> Request]
      /\ \A d \in Client : /\ pc'[d] = IF d = c THEN s ELSE pc[d]
                           /\ req'[d] = IF d = c THEN r ELSE req[d]
  BY DEF HandlerInv, ClientsOK, Moves
<1>4. \A d \in Client : Fits(req'[d], pc'[d], DOMAIN hist)
  BY <1>3 DEF HandlerInv, ClientsOK, Moves
<1>5. \A d \in Client : Fits(req'[d], pc'[d], DOMAIN hist')
  BY <1>2, <1>4, FitsGrows
<1> QED
  BY <1>1, <1>3, <1>5 DEF HandlerInv, ClientsOK, Moves

LEMMA NoRequestFits ==
  /\ NoRequest \in Request
  /\ \A D : Fits(NoRequest, "idle", D)
<1>1. NoRequest \in Request
  BY EngineAssumption DEF NoRequest, Request, NoOwners, Element, EndEvent
<1>2. ASSUME NEW D PROVE Fits(NoRequest, "idle", D)
  BY DEF NoRequest, Fits
<1> QED
  BY <1>1, <1>2

-----------------------------------------------------------------------------
(* The five ways in which a step leaves the thread.                         *)
LEMMA AcceptMoves ==
  ASSUME HandlerInv, NEW c \in Client, NEW r \in Request, NEW s \in Steps,
         Fits(r, s, DOMAIN hist), Accept(c, r, s)
  PROVE  Moves(c, r, s)
BY ExecuteAssumption DEF HandlerInv, ClientsOK, Accept, Moves

LEMMA RefuseInv ==
  ASSUME HandlerInv, NEW c \in Client, NEW r, NEW result, Refuse(c, r, result)
  PROVE  HandlerInv' /\ [EngineNext]_engineVars /\ UNCHANGED <<pc, req, engineVars>>
<1>1. UNCHANGED <<pc, req, aborts, engineVars>> /\ served' \in 0..MaxRequests
  BY ExecuteAssumption DEF HandlerInv, ClientsOK, Refuse
<1>2. IInv'
  BY <1>1, NextInv DEF HandlerInv
<1>3. DOMAIN hist' = DOMAIN hist
  BY <1>1 DEF engineVars
<1> QED
  BY <1>1, <1>2, <1>3 DEF HandlerInv, ClientsOK

LEMMA GotoMoves ==
  ASSUME HandlerInv, NEW c \in Client, NEW s \in Steps,
         Fits(req[c], s, DOMAIN hist), Goto(c, s)
  PROVE  Moves(c, req[c], s)
BY DEF HandlerInv, ClientsOK, Goto, Moves

LEMMA AnswerMoves ==
  ASSUME HandlerInv, NEW c \in Client, NEW result, Answer(c, result)
  PROVE  Moves(c, NoRequest, "idle")
BY NoRequestFits DEF HandlerInv, ClientsOK, Answer, Moves, Steps

-----------------------------------------------------------------------------
(* What each step does: an engine command or none, and where it leaves the  *)
(* thread.                                                                  *)
StepOK(c) ==
  /\ [EngineNext]_engineVars
  /\ HandlerInv'

LEMMA StepByMoves ==
  ASSUME HandlerInv, NEW c \in Client, [EngineNext]_engineVars,
         NEW r, NEW s, Moves(c, r, s)
  PROVE  StepOK(c)
BY MovesInv DEF StepOK

LEMMA AnswerOK ==
  ASSUME HandlerInv, NEW c \in Client, [EngineNext]_engineVars,
         NEW result, Answer(c, result)
  PROVE  StepOK(c)
<1>1. Moves(c, NoRequest, "idle")
  BY AnswerMoves
<1> QED
  BY <1>1, StepByMoves

LEMMA ThrowOK ==
  ASSUME HandlerInv, NEW c \in Client, Throw(c)
  PROVE  StepOK(c)
<1>1. Answer(c, "failed") /\ [EngineNext]_engineVars
  BY DEF Throw
<1> QED
  BY <1>1, AnswerOK

LEMMA GotoOK ==
  ASSUME HandlerInv, NEW c \in Client, [EngineNext]_engineVars,
         NEW s \in Steps, Fits(req[c], s, DOMAIN hist), Goto(c, s)
  PROVE  StepOK(c)
<1>1. Moves(c, req[c], s)
  BY GotoMoves
<1> QED
  BY <1>1, StepByMoves

LEMMA AcceptOK ==
  ASSUME HandlerInv, NEW c \in Client, UNCHANGED engineVars,
         NEW r \in Request, NEW s \in Steps, Fits(r, s, DOMAIN hist), Accept(c, r, s)
  PROVE  StepOK(c)
<1>1. Moves(c, r, s)
  BY AcceptMoves
<1> QED
  BY <1>1, StepByMoves

LEMMA RefuseOK ==
  ASSUME HandlerInv, NEW c \in Client, NEW r, NEW result, Refuse(c, r, result)
  PROVE  StepOK(c)
BY RefuseInv DEF StepOK

(* What the tables and the requests hold, for the steps below.              *)
LEMMA Known ==
  ASSUME HandlerInv
  PROVE  /\ DOMAIN hist \subseteq TaskId
         /\ \A t \in DOMAIN hist : t \in TaskId /\ t[1] \in Instance
         /\ \A c \in Client : req[c] \in Request /\ Fits(req[c], pc[c], DOMAIN hist)
         /\ todo \subseteq DOMAIN hist
         /\ Owners \subseteq [Activity -> SUBSET Person]
         /\ OwnerChoices \subseteq [Activity -> SUBSET Person]
BY TaskIdParts, EngineAssumption DEF HandlerInv, ClientsOK, IInv, TypeOK, Owners, Activity

-----------------------------------------------------------------------------
(* Arrivals.                                                                *)
LEMMA StartQueryOK ==
  ASSUME HandlerInv, NEW c \in Client, NEW k \in BusinessKey, NEW own \in OwnerChoices,
         StartQuery(c, k, own)
  PROVE  StepOK(c)
<1>1. PICK r, s : /\ r = StartRequest(k, own)
                  /\ s = IF InstancesOf(k) = {} THEN "create" ELSE "choose"
  OBVIOUS
<1>2. CASE own \in Owners /\ Accept(c, r, s) /\ UNCHANGED engineVars
  <2>1. r.op \in Operations
    BY <1>2 DEF Accept
  <2>2. r \in Request
    BY <1>1, <2>1, NoRequestFits, Known DEF StartRequest, Request
  <2>3. s \in Steps /\ Fits(r, s, DOMAIN hist)
    BY <1>1, <1>2 DEF StartRequest, NoRequest, Fits, Steps
  <2> QED
    BY <1>2, <2>2, <2>3, AcceptOK
<1>3. CASE Refuse(c, r, "ownersOnlyOne")
  BY <1>3, RefuseOK
<1> QED
  BY <1>1, <1>2, <1>3 DEF StartQuery

LEMMA SubmitQueryOK ==
  ASSUME HandlerInv, NEW c \in Client, NEW t \in DOMAIN hist, NEW p \in Person,
         NEW a \in Activity, NEW own \in OwnerChoices, SubmitQuery(c, t, p, a, own)
  PROVE  StepOK(c)
<1>1. PICK r, s : /\ r = SubmitRequest(t, p, a, own)
                  /\ s = IF Live(t) THEN "comment" ELSE "lookup"
  OBVIOUS
<1>2. CASE own \in Owners /\ Accept(c, r, s) /\ UNCHANGED engineVars
  <2>1. r.op \in Operations
    BY <1>2 DEF Accept
  <2>2. r \in Request
    BY <1>1, <2>1, TasksAreElements, NoRequestFits, Known DEF SubmitRequest, Request
  <2>3. s \in Steps /\ Fits(r, s, DOMAIN hist)
    BY <1>1, <1>2, Known DEF SubmitRequest, NoRequest, Fits, Steps
  <2> QED
    BY <1>2, <2>2, <2>3, AcceptOK
<1>3. ASSUME NEW result, Refuse(c, r, result) PROVE StepOK(c)
  BY <1>3, RefuseOK
<1> QED
  BY <1>1, <1>2, <1>3 DEF SubmitQuery

LEMMA JumpCheckOK ==
  ASSUME HandlerInv, NEW c \in Client, NEW op \in {"rollback", "withdraw", "runTo"},
         NEW i \in Instance, NEW t \in DOMAIN hist \cup {NoTask}, NEW p \in Person,
         NEW a \in Targets, NEW own, JumpCheck(c, op, i, t, p, a, own)
  PROVE  StepOK(c)
<1>1. PICK r : r = JumpRequest(op, i, t, p, a)
  OBVIOUS
<1>2. CASE Accept(c, r, "jump") /\ UNCHANGED engineVars
  <2>1. r.op \in Operations
    BY <1>2 DEF Accept
  <2>2. r \in Request
    BY <1>1, <2>1, TargetsAre, NoRequestFits, Known DEF JumpRequest, Request
  <2>3. "jump" \in Steps /\ Fits(r, "jump", DOMAIN hist)
    BY <1>1 DEF JumpRequest, NoRequest, Fits, Steps
  <2> QED
    BY <1>2, <2>2, <2>3, AcceptOK
<1>3. ASSUME NEW result, Refuse(c, r, result) PROVE StepOK(c)
  BY <1>3, RefuseOK
<1> QED
  BY <1>1, <1>2, <1>3 DEF JumpCheck

LEMMA TransferQueryOK ==
  ASSUME HandlerInv, NEW c \in Client, NEW t \in DOMAIN hist, NEW p \in Person,
         NEW heir \in Person, TransferQuery(c, t, p, heir)
  PROVE  StepOK(c)
<1>1. PICK r : r = TransferRequest(t, p, heir)
  OBVIOUS
<1>2. ASSUME NEW s \in {"owner", "unclaim"}, Accept(c, r, s), UNCHANGED engineVars
      PROVE  StepOK(c)
  <2>1. r.op \in Operations
    BY <1>2 DEF Accept
  <2>2. r \in Request
    BY <1>1, <2>1, NoRequestFits, Known DEF TransferRequest, Request
  <2>3. s \in Steps /\ Fits(r, s, DOMAIN hist)
    BY <1>1 DEF TransferRequest, NoRequest, Fits, Steps
  <2> QED
    BY <1>2, <2>2, <2>3, AcceptOK
<1>3. ASSUME NEW result, Refuse(c, r, result) PROVE StepOK(c)
  BY <1>3, RefuseOK
<1> QED
  BY <1>1, <1>2, <1>3 DEF TransferQuery

LEMMA StopQueryOK ==
  ASSUME HandlerInv, NEW c \in Client, NEW i \in Instance, StopQuery(c, i)
  PROVE  StepOK(c)
<1>1. PICK r : r = StopRequest(i)
  OBVIOUS
<1>2. CASE Accept(c, r, "suspend") /\ UNCHANGED engineVars
  <2>1. r.op \in Operations
    BY <1>2 DEF Accept
  <2>2. r \in Request
    BY <1>1, <2>1, NoRequestFits DEF StopRequest, Request
  <2>3. "suspend" \in Steps /\ Fits(r, "suspend", DOMAIN hist)
    BY <1>1 DEF StopRequest, NoRequest, Fits, Steps
  <2> QED
    BY <1>2, <2>2, <2>3, AcceptOK
<1>3. CASE Refuse(c, r, "stopped")
  BY <1>3, RefuseOK
<1> QED
  BY <1>1, <1>2, <1>3 DEF StopQuery

LEMMA ArriveOK ==
  ASSUME HandlerInv, NEW c \in Client, Arrive(c)
  PROVE  StepOK(c)
BY StartQueryOK, SubmitQueryOK, JumpCheckOK, TransferQueryOK, StopQueryOK DEF Arrive

-----------------------------------------------------------------------------
(* Commands.  A command issued for a request of the history, of a known     *)
(* instance, is a command of the engine.                                    *)
LEMMA TaskCommandOK ==
  ASSUME NEW t \in DOMAIN hist, TaskCommand(t)
  PROVE  [EngineNext]_engineVars
BY DEF EngineNext

LEMMA InstanceCommandOK ==
  ASSUME NEW i \in Instance, InstanceCommand(i)
  PROVE  [EngineNext]_engineVars
BY DEF EngineNext

LEMMA StartCreateOK ==
  ASSUME HandlerInv, NEW c \in Client, StartCreate(c)
  PROVE  StepOK(c)
<1>1. req[c].key \in BusinessKey /\ req[c].own \in Owners
  BY Known DEF StartCreate, Fits
<1>2. ASSUME NEW i \in Instance, StartProcess(i, req[c].key, req[c].own), Answer(c, "running")
      PROVE  StepOK(c)
  <2>1. [EngineNext]_engineVars
    BY <1>1, <1>2, InstanceCommandOK DEF InstanceCommand
  <2> QED
    BY <1>2, <2>1, AnswerOK
<1> QED
  BY <1>2, ThrowOK DEF StartCreate

LEMMA StartChooseOK ==
  ASSUME HandlerInv, NEW c \in Client, StartChoose(c)
  PROVE  StepOK(c)
BY AnswerOK DEF StartChoose

LEMMA SubmitLookupOK ==
  ASSUME HandlerInv, NEW c \in Client, SubmitLookup(c)
  PROVE  StepOK(c)
<1>1. Fits(req[c], "reply", DOMAIN hist) /\ "reply" \in Steps
  BY Known DEF SubmitLookup, Fits, Steps
<1>2. [EngineNext]_engineVars
  BY DEF SubmitLookup
<1> QED
  BY <1>1, <1>2, GotoOK, AnswerOK DEF SubmitLookup

LEMMA SubmitCommentOK ==
  ASSUME HandlerInv, NEW c \in Client, SubmitComment(c)
  PROVE  StepOK(c)
<1>1. /\ Fits(req[c], "complete", DOMAIN hist) /\ "complete" \in Steps
      /\ req[c].task \in DOMAIN hist
  BY Known DEF SubmitComment, Fits, Steps
<1>2. [EngineNext]_engineVars
  BY <1>1, TaskCommandOK DEF SubmitComment, TaskCommand
<1> QED
  BY <1>1, <1>2, GotoOK DEF SubmitComment

LEMMA SubmitCompleteOK ==
  ASSUME HandlerInv, NEW c \in Client, SubmitComplete(c)
  PROVE  StepOK(c)
<1>1. /\ Fits(req[c], "reply", DOMAIN hist) /\ "reply" \in Steps
      /\ req[c].task \in DOMAIN hist /\ req[c].own \in Owners
  BY Known DEF SubmitComplete, Fits, Steps
<1>2. ASSUME CompleteTask(req[c].task, req[c].own) \/ CompleteRound(req[c].task, req[c].own),
             Goto(c, "reply")
      PROVE  StepOK(c)
  <2>1. [EngineNext]_engineVars
    BY <1>1, <1>2, TaskCommandOK DEF TaskCommand
  <2> QED
    BY <1>1, <1>2, <2>1, GotoOK
<1> QED
  BY <1>2, ThrowOK DEF SubmitComplete

LEMMA JumpExecuteOK ==
  ASSUME HandlerInv, NEW c \in Client, JumpExecute(c)
  PROVE  StepOK(c)
<1>1. PICK i, t, p, a : i = req[c].inst /\ t = req[c].task /\ p = req[c].person
                        /\ a = req[c].target
  OBVIOUS
<1>2. /\ Fits(req[c], "reply", DOMAIN hist) /\ "reply" \in Steps
      /\ i \in Instance /\ t \in DOMAIN hist \cup {NoTask} /\ p \in Person /\ a \in Targets
  BY <1>1, Known DEF JumpExecute, Fits, Steps
<1>3. ASSUME a \in Element, Jump(i, t, p, a), Goto(c, "reply") PROVE StepOK(c)
  <2>1. [EngineNext]_engineVars
    BY <1>2, <1>3, InstanceCommandOK DEF InstanceCommand
  <2> QED
    BY <1>2, <1>3, <2>1, GotoOK
<1>4. ASSUME Goto(c, "reply"), UNCHANGED engineVars PROVE StepOK(c)
  BY <1>2, <1>4, GotoOK
<1> QED
  BY <1>1, <1>3, <1>4, ThrowOK DEF JumpExecute

LEMMA TransferOK ==
  ASSUME HandlerInv, NEW c \in Client,
         \/ TransferSetOwner(c) \/ TransferUnclaim(c)
         \/ TransferClaim(c) \/ TransferFinish(c)
  PROVE  StepOK(c)
<1>1. PICK t, p, heir : t = req[c].task /\ p = req[c].person /\ heir = req[c].heir
  OBVIOUS
<1>2. /\ pc[c] \in {"owner", "unclaim", "claim", "record"}
      /\ t \in DOMAIN hist /\ p \in Person /\ heir \in Person
  BY <1>1, Known DEF TransferSetOwner, TransferUnclaim, TransferClaim, TransferFinish, Fits
<1>3. \A s \in {"unclaim", "claim", "record"} : s \in Steps /\ Fits(req[c], s, DOMAIN hist)
  BY <1>2, Known DEF Fits, Steps
<1>4. CASE TransferUnclaim(c)
  <2>1. ASSUME Unclaim(t), Goto(c, "claim") PROVE StepOK(c)
    <3>1. [EngineNext]_engineVars
      BY <1>2, <2>1, TaskCommandOK DEF TaskCommand
    <3> QED
      BY <1>3, <2>1, <3>1, GotoOK
  <2> QED
    BY <1>1, <1>4, <2>1, ThrowOK DEF TransferUnclaim
<1>5. CASE TransferClaim(c)
  <2>1. ASSUME Claim(t, heir), Goto(c, "record") PROVE StepOK(c)
    <3>1. [EngineNext]_engineVars
      BY <1>2, <2>1, TaskCommandOK DEF TaskCommand
    <3> QED
      BY <1>3, <2>1, <3>1, GotoOK
  <2> QED
    BY <1>1, <1>5, <2>1, ThrowOK DEF TransferClaim
<1>6. CASE TransferFinish(c)
  <2>1. TransferRecord(t, p) /\ Answer(c, "running")
    BY <1>1, <1>6 DEF TransferFinish
  <2>2. [EngineNext]_engineVars
    BY <1>2, <2>1, TaskCommandOK DEF TaskCommand
  <2> QED
    BY <2>1, <2>2, AnswerOK
<1>7. CASE TransferSetOwner(c)
  <2>1. ASSUME Goto(c, "unclaim"), UNCHANGED engineVars PROVE StepOK(c)
    BY <1>3, <2>1, GotoOK
  <2> QED
    BY <1>7, <2>1, ThrowOK DEF TransferSetOwner
<1> QED
  BY <1>4, <1>5, <1>6, <1>7

LEMMA StopOK ==
  ASSUME HandlerInv, NEW c \in Client, StopSuspend(c) \/ StopDelete(c)
  PROVE  StepOK(c)
<1>1. PICK i : i = req[c].inst
  OBVIOUS
<1>2. /\ i \in Instance /\ "delete" \in Steps
      /\ pc[c] = "suspend" => Fits(req[c], "delete", DOMAIN hist)
  BY <1>1, Known DEF StopSuspend, StopDelete, Fits, Steps
<1>3. CASE StopSuspend(c)
  <2>1. ASSUME Suspend(i), Goto(c, "delete") PROVE StepOK(c)
    <3>1. [EngineNext]_engineVars
      BY <1>2, <2>1, InstanceCommandOK DEF InstanceCommand
    <3> QED
      BY <1>2, <1>3, <2>1, <3>1, GotoOK DEF StopSuspend
  <2> QED
    BY <1>1, <1>3, <2>1, ThrowOK DEF StopSuspend
<1>4. CASE StopDelete(c)
  <2>1. ASSUME Delete(i), Answer(c, "stopped") PROVE StepOK(c)
    <3>1. [EngineNext]_engineVars
      BY <1>2, <2>1, InstanceCommandOK DEF InstanceCommand
    <3> QED
      BY <2>1, <3>1, AnswerOK
  <2> QED
    BY <1>1, <1>4, <2>1, ThrowOK DEF StopDelete
<1> QED
  BY <1>3, <1>4

LEMMA ReplyOK ==
  ASSUME HandlerInv, NEW c \in Client, Reply(c) \/ TerminatedResult(c)
  PROVE  StepOK(c)
<1>1. pc[c] = "reply" => "terminated" \in Steps /\ Fits(req[c], "terminated", DOMAIN hist)
  BY Known DEF Fits, Steps
<1>2. pc[c] \in {"reply", "terminated"} /\ [EngineNext]_engineVars
  BY DEF Reply, TerminatedResult
<1> QED
  BY <1>1, <1>2, GotoOK, AnswerOK DEF Reply, TerminatedResult

LEMMA ProceedOK ==
  ASSUME HandlerInv, NEW c \in Client, Proceed(c)
  PROVE  StepOK(c)
BY StartCreateOK, StartChooseOK, SubmitLookupOK, SubmitCommentOK, SubmitCompleteOK,
   JumpExecuteOK, TransferOK, StopOK, ReplyOK DEF Proceed

LEMMA AbortOK ==
  ASSUME HandlerInv, NEW c \in Client, Abort(c)
  PROVE  StepOK(c)
<1>1. Moves(c, NoRequest, "idle")
  BY NoRequestFits, ExecuteAssumption DEF HandlerInv, ClientsOK, Abort, Moves, Steps
<1> QED
  BY <1>1, StepByMoves DEF Abort

-----------------------------------------------------------------------------
LEMMA HandlerInit == ExecuteInit => HandlerInv
<1> SUFFICES ASSUME ExecuteInit PROVE HandlerInv
  OBVIOUS
<1>1. IInv
  BY InitInv DEF ExecuteInit
<1>2. ClientsOK
  BY NoRequestFits, ExecuteAssumption DEF ExecuteInit, ClientsOK, Steps
<1> QED
  BY <1>1, <1>2 DEF HandlerInv

LEMMA HandlerNext ==
  ASSUME HandlerInv, [ExecuteNext]_vars
  PROVE  HandlerInv' /\ [EngineNext]_engineVars
<1>1. ASSUME NEW c \in Client, Arrive(c) \/ Proceed(c) \/ Abort(c)
      PROVE  HandlerInv' /\ [EngineNext]_engineVars
  <2>1. StepOK(c)
    BY <1>1, ArriveOK, ProceedOK, AbortOK
  <2> QED
    BY <2>1 DEF StepOK
<1>2. CASE UNCHANGED vars
  <2>1. UNCHANGED engineVars /\ UNCHANGED <<pc, req, served, aborts>>
    BY <1>2 DEF vars, clientVars
  <2>2. IInv'
    BY <2>1, NextInv DEF HandlerInv
  <2>3. DOMAIN hist' = DOMAIN hist
    BY <2>1 DEF engineVars
  <2> QED
    BY <2>1, <2>2, <2>3 DEF HandlerInv, ClientsOK
<1> QED
  BY <1>1, <1>2 DEF ExecuteNext

THEOREM HandlerInvariance == ExecuteSpec => []HandlerInv
BY HandlerInit, HandlerNext, PTL DEF ExecuteSpec

(* The handlers of WorkflowExecuteServiceImpl, however many threads run     *)
(* them and wherever they die, change the engine's tables by engine         *)
(* commands only.                                                           *)
THEOREM HandlersImplementEngine == ExecuteSpec => ImplementsEngine
<1>1. ExecuteInit => EngineInit
  BY DEF ExecuteInit
<1>2. HandlerInv /\ [ExecuteNext]_vars => [EngineNext]_engineVars
  BY HandlerNext
<1> QED
  BY <1>1, <1>2, HandlerInvariance, PTL DEF ExecuteSpec, EngineSpec, ImplementsEngine

(* Threads are at known steps and carry requests for known tasks.           *)
THEOREM ExecuteTypeCorrect == ExecuteSpec => []ExecuteTypeOK
<1>1. HandlerInv => ExecuteTypeOK
  BY DEF HandlerInv, ClientsOK, IInv, Fits, ExecuteTypeOK
<1> QED
  BY <1>1, HandlerInvariance, PTL

-----------------------------------------------------------------------------
(* How a thread comes to the step from which it answers a submit.           *)
LEMMA ReplyReached ==
  ASSUME HandlerInv, [ExecuteNext]_vars, NEW d \in Client,
         pc'[d] = "reply", req'[d].op = "submit"
  PROVE  \/ pc[d] = "reply" /\ req'[d] = req[d]
         \/ /\ req'[d] = req[d] /\ req[d].task \in DOMAIN hist
            /\ hist[req[d].task].end # "open" /\ UNCHANGED engineVars
         \/ /\ req'[d] = req[d] /\ req[d].task \in DOMAIN hist
            /\ \E own \in Owners : \/ CompleteTask(req[d].task, own)
                                   \/ CompleteRound(req[d].task, own)
<1>1. CASE UNCHANGED vars
  BY <1>1 DEF vars, clientVars
<1>2. ASSUME NEW c \in Client, c # d, Arrive(c) \/ Proceed(c) \/ Abort(c)
      PROVE  pc'[d] = pc[d] /\ req'[d] = req[d]
  <2>1. pc \in [Client -> Steps] /\ req \in [Client -> Request]
    BY DEF HandlerInv, ClientsOK
  <2>2. CASE Arrive(c)
    BY <1>2, <2>1, <2>2 DEF Arrive, StartQuery, SubmitQuery, JumpCheck, TransferQuery,
                            StopQuery, Accept, Refuse
  <2>3. CASE Proceed(c)
    BY <1>2, <2>1, <2>3 DEF Proceed, StartCreate, StartChoose, SubmitLookup, SubmitComment,
         SubmitComplete, JumpExecute, TransferSetOwner, TransferUnclaim, TransferClaim,
         TransferFinish, StopSuspend, StopDelete, Reply, TerminatedResult,
         Goto, Answer, Throw
  <2>4. CASE Abort(c)
    BY <1>2, <2>1, <2>4 DEF Abort
  <2> QED
    BY <1>2, <2>2, <2>3, <2>4
<1>3. CASE Arrive(d)
  <2>1. pc[d] = "idle" /\ pc'[d] # "reply"
    BY <1>3 DEF Arrive, StartQuery, SubmitQuery, JumpCheck, TransferQuery,
                StopQuery, Accept, Refuse, HandlerInv, ClientsOK
  <2> QED
    BY <2>1
<1>4. CASE Abort(d)
  BY <1>4 DEF Abort, HandlerInv, ClientsOK
<1>5. CASE SubmitLookup(d)
  <2>1. req[d].task \in DOMAIN hist
    BY <1>5, Known DEF SubmitLookup, Fits
  <2> QED
    BY <1>5, <2>1 DEF SubmitLookup, Goto, Answer, HandlerInv, ClientsOK
<1>6. CASE SubmitComplete(d)
  <2>1. req[d].task \in DOMAIN hist /\ req[d].own \in Owners
    BY <1>6, Known DEF SubmitComplete, Fits
  <2> QED
    BY <1>6, <2>1 DEF SubmitComplete, Goto, Throw, Answer, HandlerInv, ClientsOK
<1>7. CASE JumpExecute(d)
  <2>1. req[d].op \in {"rollback", "withdraw", "runTo"}
    BY <1>7, Known DEF JumpExecute, Fits
  <2> QED
    BY <1>7, <2>1 DEF JumpExecute, Goto, Throw, Answer, HandlerInv, ClientsOK
<1>8. CASE \/ StartCreate(d) \/ StartChoose(d) \/ SubmitComment(d)
           \/ TransferSetOwner(d) \/ TransferUnclaim(d)
           \/ TransferClaim(d) \/ TransferFinish(d) \/ StopSuspend(d) \/ StopDelete(d)
           \/ Reply(d) \/ TerminatedResult(d)
  BY <1>8 DEF StartCreate, StartChoose, SubmitComment, TransferSetOwner, TransferUnclaim,
              TransferClaim, TransferFinish, StopSuspend, StopDelete, Reply,
              TerminatedResult, Goto, Answer, Throw,
              HandlerInv, ClientsOK
<1> QED
  BY <1>1, <1>2, <1>3, <1>4, <1>5, <1>6, <1>7, <1>8 DEF ExecuteNext, Proceed

(* A completion ends its own task.                                          *)
LEMMA CompletionEnds ==
  ASSUME IInv, NEW t \in DOMAIN hist, NEW own \in Owners,
         CompleteTask(t, own) \/ CompleteRound(t, own)
  PROVE  hist'[t].end = "done"
<1>1. hist \in [DOMAIN hist -> Row] /\ t \in TaskId /\ t[1] \in Instance
  BY TaskIdParts DEF IInv, TypeOK
<1>2. CASE CompleteTask(t, own)
  BY <1>1, <1>2, EndedFacts DEF CompleteTask, EndReason
<1>3. CASE CompleteRound(t, own)
  <2>1. PICK rows : rows = Ended(Ended(hist, Tasks(t[1]) \ {t}, "closed"), {t}, "done")
    OBVIOUS
  <2>2. t \in DOMAIN rows /\ rows[t].end = "done"
    BY <1>1, <2>1, EndedTwice DEF EndReason
  <2>3. CASE hist' = rows
    BY <2>2, <2>3
  <2>4. ASSUME NEW a, NEW O, NEW open, ArriveAtTask(t[1], a, O, seq[t[1]] + 1, rows, open)
        PROVE  hist'[t].end = "done"
    <3>1. t \notin Batch(t[1], seq[t[1]] + 1, O)
      BY <1>1, TaskIdParts DEF IInv, TypeOK, IdsAreUsed, Batch
    <3> QED
      BY <2>2, <2>4, <3>1 DEF ArriveAtTask, Insert
  <2> QED
    BY <1>3, <2>1, <2>3, <2>4 DEF CompleteRound, ArriveAtEnd
<1> QED
  BY <1>2, <1>3

(* A submit is acknowledged only when its task is over (completeTask).      *)
THEOREM SubmitAnswered == ExecuteSpec => []SubmitAnsweredWhenOver
<1>1. ExecuteInit => SubmitAnsweredWhenOver
  BY DEF ExecuteInit, SubmitAnsweredWhenOver
<1>2. ASSUME HandlerInv, SubmitAnsweredWhenOver, [ExecuteNext]_vars
      PROVE  SubmitAnsweredWhenOver'
  <2>1. SUFFICES ASSUME NEW d \in Client, pc'[d] = "reply", req'[d].op = "submit"
                 PROVE  hist'[req'[d].task].end # "open"
    BY DEF SubmitAnsweredWhenOver
  <2>2. IInv /\ FinishedKept
    BY <1>2, HandlerNext, NextFinished DEF HandlerInv
  <2>3. CASE pc[d] = "reply" /\ req'[d] = req[d]
    <3>1. req[d].task \in DOMAIN hist /\ hist[req[d].task].end # "open"
      BY <1>2, <2>1, <2>3, Known DEF Fits, SubmitAnsweredWhenOver
    <3> QED
      BY <2>2, <2>3, <3>1 DEF FinishedKept
  <2>4. CASE /\ req'[d] = req[d] /\ req[d].task \in DOMAIN hist
             /\ hist[req[d].task].end # "open" /\ UNCHANGED engineVars
    BY <2>4 DEF engineVars
  <2>5. CASE /\ req'[d] = req[d] /\ req[d].task \in DOMAIN hist
             /\ \E own \in Owners : \/ CompleteTask(req[d].task, own)
                                    \/ CompleteRound(req[d].task, own)
    BY <2>2, <2>5, CompletionEnds
  <2> QED
    BY <1>2, <2>1, <2>3, <2>4, <2>5, ReplyReached
<1> QED
  BY <1>1, <1>2, HandlerInvariance, PTL DEF ExecuteSpec

-----------------------------------------------------------------------------
(* Overlapping starts: running instances of a key, and threads that have    *)
(* found none and are about to start one.                                   *)
Creators(k) == {c \in Client : pc[c] = "create" /\ req[c].key = k}

Bounded(k) ==
  /\ IsFiniteSet(InstancesOf(k))
  /\ Cardinality(InstancesOf(k)) + Cardinality(Creators(k)) <= Cardinality(Client)

LEMMA CreatorsFinite ==
  ASSUME NEW k
  PROVE  /\ IsFiniteSet(Creators(k)) /\ IsFiniteSet(Creators(k)')
         /\ Cardinality(Creators(k)) \in Nat /\ Cardinality(Creators(k)') \in Nat
         /\ Cardinality(Client) \in Nat
         /\ Cardinality(Creators(k)') <= Cardinality(Client)
<1>1. Creators(k) \subseteq Client /\ Creators(k)' \subseteq Client
  BY DEF Creators
<1> QED
  BY <1>1, ExecuteAssumption, FS_Subset, FS_CardinalityType

(* Fewer instances and fewer creators.                                      *)
LEMMA BoundedShrinks ==
  ASSUME NEW k, Bounded(k),
         InstancesOf(k)' \subseteq InstancesOf(k), Creators(k)' \subseteq Creators(k)
  PROVE  Bounded(k)'
<1>1. PICK I, J, C, D : I = InstancesOf(k) /\ J = InstancesOf(k)'
                        /\ C = Creators(k) /\ D = Creators(k)'
  OBVIOUS
<1>2. /\ IsFiniteSet(J) /\ Cardinality(J) <= Cardinality(I)
      /\ Cardinality(D) <= Cardinality(C)
      /\ Cardinality(I) \in Nat /\ Cardinality(J) \in Nat
      /\ Cardinality(C) \in Nat /\ Cardinality(D) \in Nat
  BY <1>1, CreatorsFinite, FS_Subset, FS_CardinalityType DEF Bounded
<1>3. Cardinality(I) + Cardinality(C) <= Cardinality(Client) /\ Cardinality(Client) \in Nat
  BY <1>1, CreatorsFinite DEF Bounded
<1>4. Cardinality(J) + Cardinality(D) <= Cardinality(Client)
  BY <1>2, <1>3
<1> QED
  BY <1>1, <1>2, <1>4 DEF Bounded

(* Every step but a start leaves no more instances running.                 *)
LEMMA OnlyStartsRun ==
  ASSUME HandlerInv, NEW c \in Client,
         Arrive(c) \/ (Proceed(c) /\ ~StartCreate(c)) \/ Abort(c),
         NEW j \in Instance, Running(j)'
  PROVE  Running(j) /\ bkey'[j] = bkey[j]
<1>1. status \in [Instance -> {"absent", "active", "suspended", "ended"}]
  BY DEF HandlerInv, IInv, TypeOK
<1>2. CASE UNCHANGED engineVars
  BY <1>2 DEF engineVars, Running
<1>3. CASE Arrive(c)
  BY <1>2, <1>3 DEF Arrive, StartQuery, SubmitQuery, JumpCheck, TransferQuery,
                    StopQuery, Refuse
<1>4. CASE SubmitComment(c) \/ SubmitComplete(c)
  BY <1>1, <1>2, <1>4 DEF SubmitComment, SubmitComplete, Comment, CompleteTask,
                          CompleteRound, ArriveAtEnd, Throw, Running
<1>5. CASE JumpExecute(c)
  BY <1>1, <1>2, <1>5 DEF JumpExecute, Jump, ArriveAtEnd, Throw, Running
<1>6. CASE \/ TransferSetOwner(c) \/ TransferUnclaim(c)
           \/ TransferClaim(c) \/ TransferFinish(c)
  BY <1>2, <1>6 DEF TransferSetOwner, TransferUnclaim, TransferClaim, TransferFinish,
                    Unclaim, Claim, TransferRecord, Throw, Running
<1>7. CASE StopSuspend(c) \/ StopDelete(c)
  BY <1>1, <1>2, <1>7 DEF StopSuspend, StopDelete, Suspend, Delete, Throw, Running
<1>8. CASE \/ StartChoose(c) \/ SubmitLookup(c)
           \/ Reply(c) \/ TerminatedResult(c) \/ Abort(c)
  BY <1>2, <1>8 DEF StartChoose, SubmitLookup, Reply, TerminatedResult, Abort
<1> QED
  BY <1>3, <1>4, <1>5, <1>6, <1>7, <1>8 DEF Proceed

(* A thread becomes a creator only when it sees no instance of its key.     *)
LEMMA CreatorsAppear ==
  ASSUME HandlerInv, NEW c \in Client, Arrive(c) \/ Proceed(c) \/ Abort(c),
         NEW d \in Client, pc'[d] = "create"
  PROVE  \/ pc[d] = "create" /\ req'[d] = req[d] /\ ~(d = c /\ StartCreate(c))
         \/ InstancesOf(req'[d].key) = {} /\ UNCHANGED engineVars
<1>1. pc \in [Client -> Steps] /\ req \in [Client -> Request]
  BY DEF HandlerInv, ClientsOK
<1>2. ASSUME NEW k \in BusinessKey, NEW own \in OwnerChoices, StartQuery(c, k, own)
      PROVE  \/ pc[d] = "create" /\ req'[d] = req[d] /\ d # c
             \/ InstancesOf(req'[d].key) = {} /\ UNCHANGED engineVars
  <2>1. CASE \E r : Refuse(c, StartRequest(k, own), r)
    BY <1>1, <2>1 DEF Refuse
  <2>2. CASE /\ Accept(c, StartRequest(k, own),
                       IF InstancesOf(k) = {} THEN "create" ELSE "choose")
             /\ UNCHANGED engineVars
    <3>1. StartRequest(k, own).key = k
      BY DEF StartRequest, NoRequest
    <3> QED
      BY <1>1, <2>2, <3>1 DEF Accept
  <2> QED
    BY <1>2, <2>1, <2>2 DEF StartQuery
<1>3. CASE \/ \E t \in DOMAIN hist, p \in Person, a \in Activity, own \in OwnerChoices :
                SubmitQuery(c, t, p, a, own)
           \/ \E op \in {"rollback", "withdraw", "runTo"} \cap Operations, i \in Instance,
                t \in DOMAIN hist \cup {NoTask}, p \in Person, a \in Targets,
                own \in OwnerChoices : JumpCheck(c, op, i, t, p, a, own)
           \/ \E t \in DOMAIN hist, p \in Person, heir \in Person : TransferQuery(c, t, p, heir)
           \/ \E i \in Instance : StopQuery(c, i)
  <2>1. pc[d] = "create" /\ req'[d] = req[d] /\ d # c
    BY <1>1, <1>3 DEF SubmitQuery, JumpCheck, TransferQuery, StopQuery, Accept, Refuse
  <2> QED
    BY <2>1
<1>4. CASE Arrive(c)
  <2>1. ASSUME pc[d] = "create", d = c PROVE FALSE
    BY <1>4, <2>1 DEF Arrive, StartQuery, SubmitQuery, JumpCheck, TransferQuery, StopQuery,
                      Accept, Refuse
  <2> QED
    BY <1>2, <1>3, <1>4, <2>1 DEF Arrive
<1>5. CASE Proceed(c) \/ Abort(c)
  <2>1. pc[d] = "create" /\ req'[d] = req[d] /\ d # c
    BY <1>1, <1>5 DEF Proceed, Abort, StartCreate, StartChoose, SubmitLookup, SubmitComment,
         SubmitComplete, JumpExecute, TransferSetOwner, TransferUnclaim, TransferClaim,
         TransferFinish, StopSuspend, StopDelete, Reply, TerminatedResult,
         Goto, Answer, Throw
  <2> QED
    BY <2>1
<1> QED
  BY <1>4, <1>5

(* The start itself: one creator less, one instance more.                   *)
LEMMA CreationBounded ==
  ASSUME HandlerInv, NEW c \in Client, NEW k \in BusinessKey, Bounded(k), StartCreate(c)
  PROVE  Bounded(k)'
<1>1. /\ pc[c] = "create"
      /\ pc' = [pc EXCEPT ![c] = "idle"] /\ req' = [req EXCEPT ![c] = NoRequest]
      /\ pc \in [Client -> Steps] /\ req \in [Client -> Request]
  BY DEF HandlerInv, ClientsOK, StartCreate, Throw, Answer
<1>2. Creators(k)' = Creators(k) \ {c}
  BY <1>1 DEF Creators
<1>3. CASE UNCHANGED engineVars
  <2>1. InstancesOf(k)' = InstancesOf(k)
    BY <1>3 DEF engineVars, InstancesOf, Running
  <2> QED
    BY <1>2, <2>1, BoundedShrinks
<1>4. ASSUME NEW i \in Instance, StartProcess(i, req[c].key, req[c].own)
      PROVE  Bounded(k)'
  <2>1. /\ status[i] = "absent"
        /\ status' = [status EXCEPT ![i] = "active"]
        /\ bkey' = [bkey EXCEPT ![i] = req[c].key]
        /\ status \in [Instance -> {"absent", "active", "suspended", "ended"}]
        /\ bkey \in [Instance -> BusinessKey \cup {NoKey}]
    BY <1>4 DEF StartProcess, HandlerInv, IInv, TypeOK
  <2>2. CASE req[c].key # k
    <3>1. InstancesOf(k)' = InstancesOf(k)
      BY <2>1, <2>2 DEF InstancesOf, Running
    <3> QED
      BY <1>2, <3>1, BoundedShrinks
  <2>3. CASE req[c].key = k
    <3>1. PICK I, J, C, D : I = InstancesOf(k) /\ J = InstancesOf(k)'
                            /\ C = Creators(k) /\ D = Creators(k)'
      OBVIOUS
    <3>2. J = I \cup {i} /\ i \notin I
      BY <2>1, <2>3, <3>1 DEF InstancesOf, Running
    <3>3. D = C \ {c} /\ c \in C
      BY <1>1, <1>2, <2>3, <3>1 DEF Creators
    <3>4. IsFiniteSet(I) /\ IsFiniteSet(C)
      BY <3>1, CreatorsFinite DEF Bounded
    <3>5. IsFiniteSet(J) /\ Cardinality(J) = Cardinality(I) + 1
      BY <3>2, <3>4, FS_AddElement
    <3>6. Cardinality(D) = Cardinality(C) - 1
      BY <3>3, <3>4, FS_RemoveElement
    <3>7. Cardinality(I) \in Nat /\ Cardinality(C) \in Nat /\ Cardinality(Client) \in Nat
      BY <3>4, FS_CardinalityType, CreatorsFinite
    <3>8. Cardinality(I) + Cardinality(C) <= Cardinality(Client)
      BY <3>1 DEF Bounded
    <3>9. Cardinality(J) + Cardinality(D) <= Cardinality(Client)
      BY <3>5, <3>6, <3>7, <3>8
    <3> QED
      BY <3>1, <3>5, <3>9 DEF Bounded
  <2> QED
    BY <2>2, <2>3
<1> QED
  BY <1>3, <1>4 DEF StartCreate, Throw

LEMMA BoundedNext ==
  ASSUME HandlerInv, [ExecuteNext]_vars, NEW k \in BusinessKey, Bounded(k)
  PROVE  Bounded(k)'
<1>1. ASSUME NEW c \in Client, Arrive(c) \/ Proceed(c) \/ Abort(c), ~StartCreate(c)
      PROVE  Bounded(k)'
  <2>1. InstancesOf(k)' \subseteq InstancesOf(k)
    BY <1>1, OnlyStartsRun DEF InstancesOf
  <2>2. CASE InstancesOf(k) = {}
    <3>1. InstancesOf(k)' = {}
      BY <2>1, <2>2
    <3>2. IsFiniteSet(InstancesOf(k)') /\ Cardinality(InstancesOf(k)') = 0
      BY <3>1, FS_EmptySet
    <3> QED
      BY <3>2, CreatorsFinite DEF Bounded
  <2>3. CASE InstancesOf(k) # {}
    <3>1. Creators(k)' \subseteq Creators(k)
      BY <1>1, <2>3, CreatorsAppear DEF Creators
    <3> QED
      BY <2>1, <3>1, BoundedShrinks
  <2> QED
    BY <2>2, <2>3
<1>2. ASSUME NEW c \in Client, StartCreate(c) PROVE Bounded(k)'
  BY <1>2, CreationBounded
<1>3. CASE UNCHANGED vars
  <2>1. InstancesOf(k)' = InstancesOf(k) /\ Creators(k)' = Creators(k)
    BY <1>3 DEF vars, clientVars, engineVars, InstancesOf, Running, Creators
  <2> QED
    BY <2>1, BoundedShrinks
<1> QED
  BY <1>1, <1>2, <1>3 DEF ExecuteNext

(* Overlapping starts leave no more running instances of a business key     *)
(* than there are threads (createOrGetInstance).                            *)
THEOREM DuplicatesBounded == ExecuteSpec => []DuplicatesBoundedByThreads
<1> DEFINE AllBounded == \A k \in BusinessKey : Bounded(k)
<1>1. ExecuteInit => AllBounded
  <2> SUFFICES ASSUME ExecuteInit, NEW k \in BusinessKey PROVE Bounded(k)
    OBVIOUS
  <2>1. InstancesOf(k) = {} /\ Creators(k) = {}
    BY DEF ExecuteInit, EngineInit, InstancesOf, Running, Creators
  <2>2. Cardinality(Client) \in Nat
    BY ExecuteAssumption, FS_CardinalityType
  <2> QED
    BY <2>1, <2>2, FS_EmptySet DEF Bounded
<1>2. HandlerInv /\ AllBounded /\ [ExecuteNext]_vars => AllBounded'
  BY BoundedNext
<1>3. AllBounded => DuplicatesBoundedByThreads
  BY DEF Bounded, Creators, InstancesOf, DuplicatesBoundedByThreads
<1> QED
  BY <1>1, <1>2, <1>3, HandlerInvariance, PTL DEF ExecuteSpec

-----------------------------------------------------------------------------
(* A task that its assignee can neither submit nor transfer.                *)
Free(t) == Live(t) /\ hist[t].assignee = Nobody

LEMMA ArrivalAssigns ==
  ASSUME IInv, NEW i \in Instance, NEW a, NEW O \in SUBSET Person, NEW n \in Nat,
         NEW rows, NEW open, ArriveAtTask(i, a, O, n, rows, open),
         open \subseteq DOMAIN rows,
         \A v \in open : v \in todo /\ rows[v] = hist[v],
         \A v \in open : status'[v[1]] = "active" => status[v[1]] = "active",
         NEW u, Free(u)'
  PROVE  Free(u)
<1>1. u \in todo' /\ status'[u[1]] = "active" /\ hist'[u].assignee = Nobody
  BY DEF Free, Live
<1>2. todo' = open \cup Batch(i, n, O)
  BY DEF ArriveAtTask
<1>3. u \notin Batch(i, n, O)
  <2>1. ASSUME u \in Batch(i, n, O) PROVE hist'[u].assignee \in Person
    <3>1. u[3] \in Person
      BY <2>1, BatchFacts
    <3>2. hist'[u].assignee = u[3]
      BY <2>1 DEF ArriveAtTask, Insert
    <3> QED
      BY <3>1, <3>2
  <2> QED
    BY <1>1, <2>1, EngineAssumption
<1>4. u \in open /\ hist'[u] = rows[u]
  BY <1>1, <1>2, <1>3 DEF ArriveAtTask, Insert
<1>5. hist'[u] = hist[u]
  BY <1>4
<1> QED
  BY <1>1, <1>4, <1>5 DEF Free, Live

LEMMA EndAssigns ==
  ASSUME IInv, NEW i \in Instance, NEW a, NEW n, NEW rows, NEW open,
         ArriveAtEnd(i, a, n, rows, open),
         \A v \in open : v \in todo /\ v[1] # i /\ rows[v] = hist[v],
         NEW u, Free(u)'
  PROVE  Free(u)
<1>1. /\ todo' = open /\ hist' = rows
      /\ status' = [status EXCEPT ![i] = "ended"]
  BY DEF ArriveAtEnd
<1>2. u \in open /\ status'[u[1]] = "active" /\ hist'[u].assignee = Nobody
  BY <1>1 DEF Free, Live
<1>3. u \in todo /\ u[1] # i /\ u[1] \in Instance /\ hist'[u] = hist[u]
  BY <1>1, <1>2, TaskIdParts DEF IInv, TypeOK
<1>4. status[u[1]] = "active"
  BY <1>1, <1>2, <1>3 DEF IInv, TypeOK
<1> QED
  BY <1>2, <1>3, <1>4 DEF Free, Live

(* No command but unclaim takes the assignee from an open task.             *)
LEMMA TaskCommandAssigns ==
  ASSUME IInv, NEW t \in DOMAIN hist,
         \/ \E own \in Owners : CompleteTask(t, own) \/ CompleteRound(t, own)
         \/ Comment(t)
         \/ \E p \in Person : Claim(t, p) \/ TransferRecord(t, p),
         NEW u, Free(u)'
  PROVE  Free(u)
<1>1. /\ hist \in [DOMAIN hist -> Row] /\ todo \subseteq DOMAIN hist /\ t[1] \in Instance
      /\ status \in [Instance -> {"absent", "active", "suspended", "ended"}]
      /\ seq[t[1]] \in Nat /\ seq[t[1]] + 1 \in Nat
      /\ owners \in [Instance -> [Activity -> SUBSET Person]]
  BY TaskIdParts DEF IInv, TypeOK
<1>2. ASSUME NEW own \in Owners, CompleteTask(t, own) PROVE Free(u)
  <2>1. /\ hist' = Ended(hist, {t}, "done") /\ todo' = todo \ {t} /\ status' = status
    BY <1>2 DEF CompleteTask
  <2>2. u \in todo /\ u # t /\ u \in DOMAIN hist
    BY <1>1, <2>1 DEF Free, Live
  <2>3. hist'[u] = hist[u]
    BY <2>1, <2>2 DEF Ended
  <2> QED
    BY <2>1, <2>2, <2>3 DEF Free, Live
<1>3. ASSUME NEW own \in Owners, CompleteRound(t, own) PROVE Free(u)
  <2>1. PICK i, rows, next, O, open :
          /\ i = t[1] /\ next = token[i].at + 1 /\ O = Overlay(owners[i], own)[next]
          /\ rows = Ended(Ended(hist, Tasks(i) \ {t}, "closed"), {t}, "done")
          /\ open = todo \ Tasks(i)
    OBVIOUS
  <2>2. t \in Tasks(i) /\ \A v \in todo : v[1] \in Instance
    BY <1>1, <1>3, <2>1, TaskIdParts DEF CompleteRound, Live, Tasks, IInv, TypeOK
  <2>3. /\ DOMAIN rows = DOMAIN hist
        /\ \A v \in DOMAIN hist : v \notin Tasks(i) => rows[v] = hist[v]
    BY <2>1, <2>2 DEF Ended
  <2>4. CASE /\ next \in Activity /\ ArriveAtTask(i, next, O, seq[i] + 1, rows, open)
             /\ UNCHANGED status
    <3>1. O \in SUBSET Person
      BY <1>1, <2>1, <2>4, OverlayType
    <3>2. /\ open \subseteq DOMAIN rows
          /\ \A v \in open : v \in todo /\ rows[v] = hist[v]
      BY <1>1, <2>1, <2>3
    <3>3. \A v \in open : status'[v[1]] = "active" => status[v[1]] = "active"
      BY <2>4
    <3>4. i \in Instance /\ seq[i] + 1 \in Nat
      BY <1>1, <2>1
    <3> QED
      BY <2>4, <3>1, <3>2, <3>3, <3>4, ArrivalAssigns
  <2>5. CASE ArriveAtEnd(i, next, seq[i], rows, open)
    <3>1. \A v \in open : v \in todo /\ v[1] # i /\ rows[v] = hist[v]
      BY <1>1, <2>1, <2>3 DEF Tasks
    <3>2. i \in Instance
      BY <1>1, <2>1
    <3> QED
      BY <2>5, <3>1, <3>2, EndAssigns
  <2> QED
    BY <1>3, <2>1, <2>4, <2>5 DEF CompleteRound
<1>4. CASE Comment(t)
  BY <1>4 DEF Comment, Free, Live
<1>5. ASSUME NEW p \in Person, Claim(t, p) PROVE Free(u)
  BY <1>1, <1>5, EngineAssumption DEF Claim, Free, Live, Row
<1>6. ASSUME NEW p \in Person, TransferRecord(t, p) PROVE Free(u)
  <2>1. <<t[1], seq[t[1]] + 1, p>> \notin DOMAIN hist
    BY <1>1, TaskIdParts DEF IInv, TypeOK, IdsAreUsed
  <2> QED
    BY <1>1, <1>6, <2>1 DEF TransferRecord, Insert, Free, Live
<1> QED
  BY <1>2, <1>3, <1>4, <1>5, <1>6

(* A jump leaves the open tasks of other instances as they are.             *)
LEMMA JumpKeepsRows ==
  ASSUME IInv, NEW i \in Instance, NEW t, NEW p \in Person, NEW a \in Element,
         NEW rows, rows = JumpRows(i, t, p, a)
  PROVE  /\ DOMAIN hist \subseteq DOMAIN rows
         /\ \A u \in DOMAIN hist : u \notin Tasks(i) => rows[u] = hist[u]
<1>1. PICK R : R = JumpRecord(i, t, p)
  OBVIOUS
<1>2. /\ rows \in [DOMAIN hist \cup R -> Row]
      /\ \A u \in DOMAIN hist : u \notin Tasks(i) => rows[u] = hist[u]
      /\ \A u \in R : rows[u].end = "completed"
  BY <1>1, JumpRowsFacts
<1> QED
  BY <1>2

LEMMA JumpKeepsOthers ==
  ASSUME IInv, NEW i \in Instance, NEW t, NEW p \in Person, NEW a \in Element,
         NEW rows, rows = JumpRows(i, t, p, a), NEW open, open = todo \ Tasks(i)
  PROVE  open \subseteq DOMAIN rows /\ \A v \in open : v \in todo /\ rows[v] = hist[v]
<1>1. todo \subseteq DOMAIN hist
  BY DEF IInv, TypeOK
<1> QED
  BY <1>1, JumpKeepsRows

LEMMA InstanceCommandAssigns ==
  ASSUME IInv, NEW i \in Instance, InstanceCommand(i), NEW u, Free(u)'
  PROVE  Free(u)
<1>1. /\ hist \in [DOMAIN hist -> Row] /\ todo \subseteq DOMAIN hist
      /\ status \in [Instance -> {"absent", "active", "suspended", "ended"}]
      /\ seq[i] \in Nat /\ seq[i] + 1 \in Nat /\ seq[i] + 2 \in Nat
      /\ owners \in [Instance -> [Activity -> SUBSET Person]]
      /\ \A v \in todo : v[1] \in Instance
  BY TaskIdParts DEF IInv, TypeOK
<1>2. ASSUME NEW k \in BusinessKey, NEW own \in Owners, StartProcess(i, k, own) PROVE Free(u)
  <2>1. own[1] \in SUBSET Person
    <3>1. own \in [Activity -> SUBSET Person] /\ 1 \in Activity
      BY OwnersType, EngineAssumption DEF Activity
    <3> QED
      BY <3>1
  <2>2. /\ ArriveAtTask(i, 1, own[1], seq[i] + 1, hist, todo)
        /\ status[i] = "absent" /\ status' = [status EXCEPT ![i] = "active"]
    BY <1>2 DEF StartProcess
  <2>3. \A v \in todo : v[1] # i
    BY <2>2 DEF IInv, CountersMatchRows, Running, Tasks
  <2> QED
    BY <1>1, <2>1, <2>2, <2>3, ArrivalAssigns
<1>3. ASSUME NEW t, NEW p \in Person, NEW e \in Element, Jump(i, t, p, e) PROVE Free(u)
  <2>1. PICK rows, n, open, a :
          /\ rows = JumpRows(i, t, p, e) /\ n = JumpBatch(i, t) /\ open = todo \ Tasks(i)
          /\ a = Destination(e)
    OBVIOUS
  <2>2. open \subseteq DOMAIN rows /\ \A v \in open : v \in todo /\ rows[v] = hist[v]
    BY <2>1, JumpKeepsOthers
  <2>3. /\ \/ /\ a \in Activity /\ UNCHANGED status
              /\ ArriveAtTask(i, a, owners[i][a], n, rows, open)
           \/ ArriveAtEnd(i, a, n - 1, rows, open)
        /\ n \in Nat
    BY <1>1, <1>3, <2>1 DEF Jump, JumpBatch
  <2>4. CASE a \in Activity /\ ArriveAtTask(i, a, owners[i][a], n, rows, open) /\ UNCHANGED status
    <3>1. owners[i][a] \in SUBSET Person
      BY <1>1, <2>4
    <3> QED
      BY <2>2, <2>3, <2>4, <3>1, ArrivalAssigns
  <2>5. CASE ArriveAtEnd(i, a, n - 1, rows, open)
    <3>1. \A v \in open : v[1] # i
      BY <2>1 DEF Tasks
    <3> QED
      BY <2>2, <2>5, <3>1, EndAssigns
  <2> QED
    BY <2>3, <2>4, <2>5
<1>4. CASE Suspend(i)
  BY <1>1, <1>4 DEF Suspend, Free, Live
<1>5. CASE Delete(i)
  BY <1>1, <1>5 DEF Delete, Free, Live, Ended
<1> QED
  BY <1>2, <1>3, <1>4, <1>5 DEF InstanceCommand

(* While requests do not die, a task of an active instance is unassigned    *)
(* only between unclaim and claim of a transfer (claim of TransferTask),    *)
(* whatever overlapping transfers, completions, jumps and stops do.         *)
THEOREM UnassignedMidTransfer ==
  ASSUME MaxAborts = 0
  PROVE  ExecuteSpec => []UnassignedOnlyMidTransfer
<1>1. ExecuteInit => UnassignedOnlyMidTransfer
  BY DEF ExecuteInit, EngineInit, UnassignedOnlyMidTransfer
<1>2. ASSUME HandlerInv, UnassignedOnlyMidTransfer, [ExecuteNext]_vars
      PROVE  UnassignedOnlyMidTransfer'
  <2> SUFFICES ASSUME NEW u, Free(u)'
               PROVE  \E d \in Client : pc'[d] = "claim" /\ req'[d].task = u
    BY DEF UnassignedOnlyMidTransfer, Free
  <2>1. /\ IInv /\ pc \in [Client -> Steps] /\ req \in [Client -> Request]
    BY <1>2 DEF HandlerInv, ClientsOK
  <2>2. Free(u) => \E d \in Client : pc[d] = "claim" /\ req[d].task = u
    BY <1>2 DEF UnassignedOnlyMidTransfer, Free, Live
  <2>3. CASE UNCHANGED vars
    BY <2>2, <2>3 DEF vars, clientVars, engineVars, Free, Live
  <2>4. ASSUME NEW c \in Client, Arrive(c) \/ Proceed(c)
        PROVE  \E d \in Client : pc'[d] = "claim" /\ req'[d].task = u
    <3>1. \A d \in Client : d # c => pc'[d] = pc[d] /\ req'[d] = req[d]
      <4>1. CASE Arrive(c)
        BY <2>1, <4>1 DEF Arrive, StartQuery, SubmitQuery, JumpCheck, TransferQuery,
                          StopQuery, Accept, Refuse
      <4>2. CASE Proceed(c)
        BY <2>1, <4>2 DEF Proceed, StartCreate, StartChoose, SubmitLookup, SubmitComment,
             SubmitComplete, JumpExecute, TransferSetOwner, TransferUnclaim, TransferClaim,
             TransferFinish, StopSuspend, StopDelete, Reply, TerminatedResult,
             Goto, Answer, Throw
      <4> QED
        BY <2>4, <4>1, <4>2
    <3>2. ASSUME Free(u), pc[c] # "claim"
          PROVE  \E d \in Client : pc'[d] = "claim" /\ req'[d].task = u
      BY <2>2, <3>1, <3>2
    <3>3. UNCHANGED engineVars => Free(u)
      BY DEF engineVars, Free, Live
    <3>4. CASE Arrive(c)
      <4>1. pc[c] = "idle" /\ UNCHANGED engineVars
        BY <3>4 DEF Arrive, StartQuery, SubmitQuery, JumpCheck, TransferQuery,
                    StopQuery, Refuse
      <4> QED
        BY <3>2, <3>3, <4>1
    <3>5. CASE TransferUnclaim(c)
      <4>1. pc[c] = "unclaim" /\ req[c].task \in DOMAIN hist
        BY <1>2, <3>5, Known DEF TransferUnclaim, Fits
      <4>2. CASE Throw(c)
        BY <3>2, <3>3, <4>1, <4>2 DEF Throw
      <4>3. CASE Unclaim(req[c].task) /\ Goto(c, "claim")
        <5>1. u # req[c].task => Free(u)
          BY <2>1, <4>3 DEF Unclaim, Free, Live, IInv, TypeOK
        <5>2. pc'[c] = "claim" /\ req'[c] = req[c]
          BY <2>1, <4>3 DEF Goto
        <5> QED
          BY <3>2, <4>1, <5>1, <5>2
      <4> QED
        BY <3>5, <4>2, <4>3 DEF TransferUnclaim
    <3>6. CASE TransferClaim(c)
      <4>1. /\ pc[c] = "claim" /\ req[c].task \in DOMAIN hist /\ req[c].heir \in Person
        BY <1>2, <3>6, Known DEF TransferClaim, Fits
      <4>2. Free(u) /\ u # req[c].task
        <5>1. CASE Throw(c) /\ ~(Live(req[c].task) /\ hist[req[c].task].assignee \in {Nobody, req[c].heir})
          BY <3>3, <5>1 DEF Throw, Free
        <5>2. CASE Claim(req[c].task, req[c].heir)
          <6>1. Free(u)
            BY <2>1, <4>1, <5>2, TaskCommandAssigns
          <6>2. hist'[req[c].task].assignee = req[c].heir
            BY <2>1, <4>1, <5>2 DEF Claim, IInv, TypeOK, Row
          <6> QED
            BY <4>1, <6>1, <6>2, EngineAssumption DEF Free
        <5> QED
          BY <3>6, <5>1, <5>2 DEF TransferClaim
      <4> QED
        BY <2>2, <3>1, <4>2
    <3>7. CASE SubmitComment(c) \/ SubmitComplete(c) \/ TransferFinish(c)
      <4>1. /\ pc[c] # "claim" /\ req[c].task \in DOMAIN hist
            /\ pc[c] = "complete" => req[c].own \in Owners
            /\ pc[c] = "record" => req[c].person \in Person
        BY <1>2, <3>7, Known DEF SubmitComment, SubmitComplete, TransferFinish, Fits
      <4>2. \/ UNCHANGED engineVars
            \/ \E own \in Owners : CompleteTask(req[c].task, own) \/ CompleteRound(req[c].task, own)
            \/ Comment(req[c].task)
            \/ \E p \in Person : TransferRecord(req[c].task, p)
        BY <3>7, <4>1 DEF SubmitComment, SubmitComplete, TransferFinish, Throw
      <4>3. Free(u)
        BY <2>1, <3>3, <4>1, <4>2, TaskCommandAssigns
      <4> QED
        BY <3>2, <4>1, <4>3
    <3>8. CASE StartCreate(c) \/ JumpExecute(c) \/ StopSuspend(c) \/ StopDelete(c)
      <4>1. /\ pc[c] \in {"create", "jump", "suspend", "delete"}
            /\ pc[c] = "create" => req[c].key \in BusinessKey /\ req[c].own \in Owners
            /\ pc[c] # "create" => req[c].inst \in Instance
            /\ pc[c] = "jump" => /\ req[c].task \in DOMAIN hist \cup {NoTask}
                                 /\ req[c].person \in Person /\ req[c].target \in Targets
        BY <1>2, <3>8, Known DEF StartCreate, JumpExecute, StopSuspend, StopDelete, Fits
      <4>2. UNCHANGED engineVars \/ \E i \in Instance : InstanceCommand(i)
        BY <3>8, <4>1 DEF StartCreate, JumpExecute, StopSuspend, StopDelete, Throw, InstanceCommand
      <4>3. Free(u)
        BY <2>1, <3>3, <4>2, InstanceCommandAssigns
      <4> QED
        BY <3>2, <4>1, <4>3
    <3>9. CASE \/ StartChoose(c) \/ SubmitLookup(c) \/ TransferSetOwner(c)
               \/ Reply(c) \/ TerminatedResult(c)
      BY <3>2, <3>3, <3>9 DEF StartChoose, SubmitLookup, TransferSetOwner, Reply,
                              TerminatedResult, Throw
    <3> QED
      BY <2>4, <3>4, <3>5, <3>6, <3>7, <3>8, <3>9 DEF Proceed
  <2>5. ASSUME NEW c \in Client, Abort(c) PROVE FALSE
    BY <1>2, <2>5 DEF Abort, HandlerInv, ClientsOK
  <2> QED
    BY <1>2, <2>3, <2>4, <2>5 DEF ExecuteNext
<1> QED
  BY <1>1, <1>2, HandlerInvariance, PTL DEF ExecuteSpec

-----------------------------------------------------------------------------
(* The service implements the approval: what ApprovalFlow promises holds    *)
(* for the handlers of WorkflowExecuteServiceImpl under every interleaving, *)
(* and wherever they die.                                                   *)
THEOREM ServiceImplementsFlow == ExecuteSpec => ImplementsFlow
BY HandlersImplementEngine, EngineImplementsFlow, PTL DEF ImplementsEngine

-----------------------------------------------------------------------------
(* The execution of i stands at a, or a task of i has stood there.          *)
Reached(i, a) ==
  \/ a = token[i].at
  \/ \E t \in DOMAIN hist : t[1] = i /\ hist[t].at = a

(* a may be reached next: it was reached before, or is the first activity,  *)
(* or what comes before it is signed off now.                               *)
Follows(i, a) ==
  \/ Reached(i, a)
  \/ a = 1
  \/ Reached(i, a - 1) /\ SignedOff(i, a - 1)'

(* Rows stay at their activity, and new ones have batches of their own.     *)
Grown ==
  /\ \A t \in DOMAIN hist : t \in DOMAIN hist' /\ hist'[t].at = hist[t].at
  /\ \A t \in DOMAIN hist' : t \notin DOMAIN hist => t[2] > seq[t[1]]

Advances == Grown /\ \A i \in Instance : \A a : Reached(i, a)' => Follows(i, a)

(* A signed-off activity stays signed off.                                  *)
LEMMA SignedOffKept ==
  ASSUME IInv, FinishedKept, Grown, NEW i \in Instance, NEW b, SignedOff(i, b)
  PROVE  SignedOff(i, b)'
<1>1. PICK t \in DOMAIN hist :
        /\ t[1] = i /\ hist[t].at = b /\ hist[t].end = "done"
        /\ \/ SignRule[b] = "one"
           \/ \A u \in DOMAIN hist : u[1] = i /\ u[2] = t[2] => hist[u].end = "done"
  BY DEF SignedOff
<1>2. t \in DOMAIN hist' /\ hist'[t] = hist[t]
  BY <1>1 DEF FinishedKept
<1>3. ASSUME NEW u \in DOMAIN hist', u[1] = i, u[2] = t[2],
             \A v \in DOMAIN hist : v[1] = i /\ v[2] = t[2] => hist[v].end = "done"
      PROVE  hist'[u].end = "done"
  <2>1. t[2] <= seq[i] /\ t[2] \in Nat /\ seq[i] \in Nat
    BY <1>1, TaskIdParts DEF IInv, TypeOK, IdsAreUsed
  <2>2. u \in DOMAIN hist
    BY <1>3, <2>1 DEF Grown
  <2>3. hist[u].end = "done"
    BY <1>3, <2>2
  <2> QED
    BY <2>2, <2>3 DEF FinishedKept
<1> QED
  BY <1>1, <1>2, <1>3 DEF SignedOff

LEMMA SkippedIs ==
  /\ NoActivitySkipped <=>
       \A i \in Instance, b \in Activity : \A a : Reached(i, a) /\ b < a => SignedOff(i, b)
  /\ NoActivitySkipped' <=>
       \A i \in Instance, b \in Activity : \A a : Reached(i, a)' /\ b < a => SignedOff(i, b)'
BY DEF NoActivitySkipped, Reached

(* Steps that advance skip nothing.                                         *)
LEMMA NothingSkipped ==
  ASSUME IInv, IInv', FinishedKept, Advances, NoActivitySkipped
  PROVE  NoActivitySkipped'
<1> SUFFICES ASSUME NEW i \in Instance, NEW b \in Activity, NEW a, Reached(i, a)', b < a
             PROVE  SignedOff(i, b)'
  BY SkippedIs
<1>1. a \in Nat /\ b \in Nat /\ b >= 1
  <2>1. b \in Nat /\ b >= 1
    BY DEF Activity
  <2>2. token' \in [Instance -> Token] /\ hist' \in [DOMAIN hist' -> Row]
    BY DEF IInv, TypeOK
  <2>3. token'[i].at \in Nat
    <3>1. token'[i] \in Token
      BY <2>2
    <3>2. token'[i].at \in 0..EndEvent
      BY <3>1 DEF Token
    <3>3. 0..EndEvent \subseteq Nat
      OBVIOUS
    <3> QED
      BY <3>2, <3>3
  <2>4. ASSUME NEW t \in DOMAIN hist' PROVE hist'[t].at \in Nat
    <3>1. hist'[t] \in Row
      BY <2>2
    <3> QED
      BY <3>1, EngineAssumption DEF Row, Element, EndEvent
  <2>5. a = token'[i].at \/ \E t \in DOMAIN hist' : a = hist'[t].at
    BY DEF Reached
  <2>6. a \in Nat
    BY <2>3, <2>4, <2>5
  <2> QED
    BY <2>1, <2>6
<1>2. Follows(i, a)
  BY DEF Advances
<1>3. SignedOff(i, b) => SignedOff(i, b)'
  BY SignedOffKept DEF Advances
<1>4. CASE Reached(i, a)
  BY <1>3, <1>4, SkippedIs
<1>5. CASE Reached(i, a - 1) /\ SignedOff(i, a - 1)'
  <2>1. CASE b = a - 1
    BY <1>5, <2>1
  <2>2. CASE b < a - 1
    BY <1>3, <1>5, <2>2, SkippedIs
  <2> QED
    BY <1>1, <2>1, <2>2
<1> QED
  BY <1>1, <1>2, <1>4, <1>5 DEF Follows

-----------------------------------------------------------------------------
(* Commands that leave every execution where it is.                         *)
LEMMA StandingAdvances ==
  ASSUME Grown, \A j \in Instance : token'[j].at = token[j].at,
         \A u \in DOMAIN hist' : u \notin DOMAIN hist => Reached(u[1], hist'[u].at)
  PROVE  Advances
<1> SUFFICES ASSUME NEW i \in Instance, NEW a, Reached(i, a)'
             PROVE  Reached(i, a)
  BY DEF Advances, Follows
<1>1. CASE a = token'[i].at
  BY <1>1 DEF Reached
<1>2. ASSUME NEW u \in DOMAIN hist', u[1] = i, hist'[u].at = a
      PROVE  Reached(i, a)
  <2>1. CASE u \notin DOMAIN hist
    BY <1>2, <2>1
  <2>2. CASE u \in DOMAIN hist
    <3>1. hist'[u].at = hist[u].at
      BY <2>2 DEF Grown
    <3>2. hist[u].at = a
      BY <1>2, <3>1
    <3> QED
      BY <1>2, <2>2, <3>2 DEF Reached
  <2> QED
    BY <2>1, <2>2
<1> QED
  BY <1>1, <1>2 DEF Reached

(* Commands that take the execution of i to a task it may reach.            *)
LEMMA ArrivalAdvances ==
  ASSUME IInv, NEW i \in Instance, NEW a, NEW O \in SUBSET Person, NEW n \in Nat,
         seq[i] < n, NEW rows, NEW open, ArriveAtTask(i, a, O, n, rows, open),
         \A u \in DOMAIN hist : u \in DOMAIN rows /\ rows[u].at = hist[u].at,
         \A u \in DOMAIN rows : u \notin DOMAIN hist =>
           u[1] = i /\ u[2] > seq[i] /\ rows[u].at = a,
         Follows(i, a)
  PROVE  Advances
<1> DEFINE fresh == Batch(i, n, O)
<1>1. \A u \in fresh : u[1] = i /\ u[2] = n
  BY BatchFacts
<1>2. /\ DOMAIN hist' = DOMAIN rows \cup fresh
      /\ \A u \in DOMAIN rows : u \notin fresh => hist'[u] = rows[u]
      /\ \A u \in fresh : hist'[u].at = a
  BY DEF ArriveAtTask, Insert
<1>3. /\ token'[i].at = a
      /\ \A j \in Instance \ {i} : token'[j] = token[j]
  BY DEF ArriveAtTask, IInv, TypeOK
<1>4. fresh \cap DOMAIN hist = {}
  <2>1. \A u \in DOMAIN hist : u[1] = i => u[2] <= seq[i] /\ u[2] \in Nat
    BY TaskIdParts DEF IInv, TypeOK, IdsAreUsed
  <2>2. seq[i] \in Nat
    BY DEF IInv, TypeOK
  <2> QED
    BY <1>1, <2>1, <2>2
<1> HIDE DEF fresh
<1>5. ASSUME NEW u \in DOMAIN hist PROVE u \in DOMAIN hist' /\ hist'[u].at = hist[u].at
  <2>1. u \in DOMAIN hist' /\ hist'[u] = rows[u]
    BY <1>2, <1>4
  <2>2. rows[u].at = hist[u].at
    OBVIOUS
  <2> QED
    BY <2>1, <2>2
<1>6. ASSUME NEW u \in DOMAIN hist', u \notin DOMAIN hist
      PROVE  u[1] = i /\ u[2] > seq[i] /\ hist'[u].at = a
  <2>1. CASE u \in fresh
    BY <1>1, <1>2, <2>1
  <2>2. CASE u \notin fresh
    <3>1. u \in DOMAIN rows /\ hist'[u] = rows[u]
      BY <1>2, <2>2
    <3>2. u[1] = i /\ u[2] > seq[i] /\ rows[u].at = a
      BY <1>6, <3>1
    <3> QED
      BY <3>1, <3>2
  <2> QED
    BY <2>1, <2>2
<1>7. Grown
  BY <1>5, <1>6 DEF Grown
<1>8. ASSUME NEW j \in Instance, NEW b, Reached(j, b)' PROVE Follows(j, b)
  <2>1. CASE b = token'[j].at
    <3>1. CASE j = i
      BY <1>3, <2>1, <3>1
    <3>2. CASE j # i
      BY <1>3, <2>1, <3>2 DEF Follows, Reached
    <3> QED
      BY <3>1, <3>2
  <2>2. ASSUME NEW u \in DOMAIN hist', u[1] = j, hist'[u].at = b PROVE Follows(j, b)
    <3>1. CASE u \in DOMAIN hist
      <4>1. hist[u].at = b
        BY <1>5, <2>2, <3>1
      <4> QED
        BY <2>2, <3>1, <4>1 DEF Follows, Reached
    <3>2. CASE u \notin DOMAIN hist
      BY <1>6, <2>2, <3>2
    <3> QED
      BY <3>1, <3>2
  <2> QED
    BY <1>8, <2>1, <2>2 DEF Reached
<1> QED
  BY <1>7, <1>8 DEF Advances

-----------------------------------------------------------------------------
(* The commands.                                                            *)
LEMMA StartAdvances ==
  ASSUME IInv, NEW i \in Instance, NEW k \in BusinessKey, NEW own \in Owners,
         StartProcess(i, k, own)
  PROVE  Advances
<1>1. own[1] \in SUBSET Person
  <2>1. own \in [Activity -> SUBSET Person] /\ 1 \in Activity
    BY OwnersType, EngineAssumption DEF Activity
  <2> QED
    BY <2>1
<1>2. seq[i] + 1 \in Nat /\ seq[i] < seq[i] + 1
  BY DEF IInv, TypeOK
<1>3. ArriveAtTask(i, 1, own[1], seq[i] + 1, hist, todo)
  BY DEF StartProcess
<1>4. Follows(i, 1)
  BY DEF Follows
<1> QED
  BY <1>1, <1>2, <1>3, <1>4, ArrivalAdvances

(* A jump to an activity reached before.                                    *)
LEMMA JumpAdvances ==
  ASSUME IInv, NEW i \in Instance, NEW t, NEW p \in Person, NEW a \in Activity,
         Jump(i, t, p, a), Reached(i, a)
  PROVE  Advances
<1>1. PICK R, rows, n : R = JumpRecord(i, t, p) /\ rows = JumpRows(i, t, p, a) /\ n = JumpBatch(i, t)
  OBVIOUS
<1>2. /\ ArriveAtTask(i, a, owners[i][a], n, rows, todo \ Tasks(i))
      /\ owners[i][a] \in SUBSET Person
  <2>1. Destination(a) = a /\ a # EndEvent
    BY ElementFacts
  <2>2. ArriveAtTask(i, a, owners[i][a], n, rows, todo \ Tasks(i))
    BY <1>1, <2>1 DEF Jump, ArriveAtEnd
  <2> QED
    BY <2>2 DEF IInv, TypeOK
<1>3. seq[i] \in Nat /\ n \in Nat /\ seq[i] < n
  BY <1>1 DEF JumpBatch, IInv, TypeOK
<1>4. /\ rows \in [DOMAIN hist \cup R -> Row]
      /\ \A u \in R : u[1] = i /\ u[2] = seq[i] + 1
      /\ \A u \in DOMAIN hist : rows[u].at = hist[u].at
  <2>1. a \in Element
    BY TasksAreElements
  <2> QED
    BY <1>1, <2>1, JumpRowsFacts
<1>5. \A u \in R : rows[u].at = a
  BY <1>1 DEF JumpRows, Insert
<1>6. \A u \in DOMAIN rows : u \notin DOMAIN hist => u \in R
  BY <1>4
<1>7. \A u \in DOMAIN rows : u \notin DOMAIN hist =>
        u[1] = i /\ u[2] > seq[i] /\ rows[u].at = a
  BY <1>3, <1>4, <1>5, <1>6
<1>8. \A u \in DOMAIN hist : u \in DOMAIN rows /\ rows[u].at = hist[u].at
  BY <1>4
<1>9. Follows(i, a)
  BY DEF Follows
<1> QED
  BY <1>2, <1>3, <1>7, <1>8, <1>9, ArrivalAdvances

(* A round that is not an or-sign is over only with its last task.          *)
LEMMA LastTask ==
  ASSUME FlowInv, NEW t \in DOMAIN hist, Live(t), NEW i, i = t[1],
         RoundOver(i, token[i].done + 1), SignRule[token[i].at] # "one"
  PROVE  Tasks(i) = {t}
<1>1. i \in Instance /\ t \in Tasks(i) /\ Running(i)
  BY LiveTask
<1>2. /\ IsFiniteSet(Tasks(i)) /\ Cardinality(Tasks(i)) \in Nat
      /\ token[i].done \in Nat /\ token[i].total \in Nat
      /\ Cardinality(Tasks(i)) + token[i].done = token[i].total
  BY <1>1, TasksFacts DEF FlowInv, IInv, CountersMatchRows, TypeOK, Token
<1>3. /\ Cardinality(Tasks(i) \ {t}) = Cardinality(Tasks(i)) - 1
      /\ IsFiniteSet(Tasks(i) \ {t}) /\ Cardinality(Tasks(i) \ {t}) \in Nat
  BY <1>1, <1>2, FS_RemoveElement, FS_CardinalityType
<1>4. token[i].done + 1 >= token[i].total
  BY DEF RoundOver
<1>5. Cardinality(Tasks(i) \ {t}) = 0
  BY <1>2, <1>3, <1>4
<1>6. Tasks(i) \ {t} = {}
  BY <1>3, <1>5, FS_EmptySet
<1> QED
  BY <1>1, <1>6

(* The completion that ends a round leaves its activity signed off.         *)
LEMMA RoundSignsOff ==
  ASSUME FlowInv, NEW t \in DOMAIN hist, Live(t), NEW i, i = t[1],
         RoundOver(i, token[i].done + 1), Grown, FinishedKept,
         hist'[t].end = "done", NEW a, a = token[i].at
  PROVE  SignedOff(i, a)'
<1>1. /\ i \in Instance /\ t \in Tasks(i)
      /\ \A u : u \in Tasks(i) <=> u \in RoundTasks(i) /\ hist[u].end = "open"
      /\ \A u \in RoundTasks(i) : hist[u].end \in {"open", "done"} /\ hist[u].at = token[i].at
  BY LiveTask
<1>2. t \in DOMAIN hist' /\ t[1] = i /\ t[2] = token[i].round
  BY <1>1 DEF Grown, RoundTasks
<1>3. hist'[t].at = a
  <2>1. hist[t].at = a
    BY <1>1
  <2>2. hist'[t].at = hist[t].at
    BY DEF Grown
  <2> QED
    BY <2>1, <2>2
<1>4. ASSUME SignRule[a] # "one", NEW u \in DOMAIN hist', u[1] = i, u[2] = t[2]
      PROVE  hist'[u].end = "done"
  <2>1. u \in RoundTasks(i)
    <3>1. t[2] <= seq[i] /\ t[2] \in Nat /\ seq[i] \in Nat
      BY <1>1, <1>2, TaskIdParts DEF FlowInv, IInv, TypeOK, IdsAreUsed
    <3>2. u \in DOMAIN hist
      BY <1>4, <3>1 DEF Grown
    <3> QED
      BY <1>2, <1>4, <3>2 DEF RoundTasks
  <2>2. CASE u = t
    BY <2>2
  <2>3. CASE u # t
    <3>1. u \notin Tasks(i)
      BY <1>4, <2>3, LastTask
    <3>2. u \in DOMAIN hist /\ hist[u].end = "done"
      BY <1>1, <2>1, <3>1 DEF RoundTasks
    <3>3. hist'[u] = hist[u]
      BY <3>2 DEF FinishedKept
    <3> QED
      BY <3>2, <3>3
  <2> QED
    BY <2>2, <2>3
<1> QED
  BY <1>2, <1>3, <1>4 DEF SignedOff

LEMMA CompleteRoundAdvances ==
  ASSUME FlowInv, NEW t \in DOMAIN hist, NEW own \in Owners, CompleteRound(t, own),
         FinishedKept
  PROVE  Advances
<1>1. PICK i, a, next, rows, n, O :
        /\ i = t[1] /\ a = token[i].at /\ next = a + 1 /\ n = seq[i] + 1
        /\ rows = Ended(Ended(hist, Tasks(i) \ {t}, "closed"), {t}, "done")
        /\ O = Overlay(owners[i], own)[next]
  OBVIOUS
<1>2. /\ Live(t) /\ RoundOver(i, token[i].done + 1)
      /\ \/ /\ next \in Activity
            /\ ArriveAtTask(i, next, O, n, rows, todo \ Tasks(i))
            /\ UNCHANGED status
         \/ ArriveAtEnd(i, next, seq[i], rows, todo \ Tasks(i))
  BY <1>1 DEF CompleteRound
<1>3. /\ i \in Instance /\ seq[i] \in Nat /\ n \in Nat /\ seq[i] < n
      /\ hist \in [DOMAIN hist -> Row]
      /\ a \in Activity
  BY <1>1, <1>2, LiveTask DEF FlowInv, IInv, TypeOK
<1>4. /\ rows \in [DOMAIN hist -> Row]
      /\ \A u \in DOMAIN hist : rows[u].at = hist[u].at
  BY <1>1, <1>3, EndedTwice DEF EndReason
<1>5. hist'[t].end = "done"
  BY CompletionEnds DEF FlowInv
<1>6. Grown => SignedOff(i, a)'
  BY <1>1, <1>2, <1>5, RoundSignsOff
<1>7. Reached(i, a) /\ next - 1 = a
  BY <1>1, <1>3 DEF Reached, Activity
<1>8. CASE next \in Activity /\ ArriveAtTask(i, next, O, n, rows, todo \ Tasks(i))
  <2>1. O \in SUBSET Person
    BY <1>1, <1>3, <1>8, OverlayType DEF FlowInv, IInv, TypeOK
  <2>2. PICK fresh : fresh = Batch(i, n, O)
    OBVIOUS
  <2>3. \A u \in fresh : u[1] = i /\ u[2] = n
    BY <1>3, <2>1, <2>2, BatchFacts
  <2>4. /\ DOMAIN hist' = DOMAIN hist \cup fresh
        /\ \A u \in DOMAIN hist : u \notin fresh => hist'[u] = rows[u]
    BY <1>4, <1>8, <2>2 DEF ArriveAtTask, Insert
  <2>5. fresh \cap DOMAIN hist = {}
    <3>1. \A u \in DOMAIN hist : u[1] = i => u[2] <= seq[i] /\ u[2] \in Nat
      BY TaskIdParts DEF FlowInv, IInv, TypeOK, IdsAreUsed
    <3> QED
      BY <1>3, <2>3, <3>1
  <2>6. ASSUME NEW u \in DOMAIN hist PROVE u \in DOMAIN hist' /\ hist'[u].at = hist[u].at
    <3>1. u \in DOMAIN hist' /\ hist'[u] = rows[u]
      BY <2>4, <2>5
    <3>2. rows[u].at = hist[u].at
      BY <1>4
    <3> QED
      BY <3>1, <3>2
  <2>7. Grown
    BY <1>3, <2>3, <2>4, <2>6 DEF Grown
  <2>8. Follows(i, next)
    BY <1>6, <1>7, <2>7 DEF Follows
  <2>9. \A u \in DOMAIN hist : u \in DOMAIN rows /\ rows[u].at = hist[u].at
    BY <1>4
  <2>10. DOMAIN rows = DOMAIN hist
    BY <1>4
  <2> QED
    BY <1>3, <1>8, <2>1, <2>8, <2>9, <2>10, ArrivalAdvances DEF FlowInv
<1>9. CASE ArriveAtEnd(i, next, seq[i], rows, todo \ Tasks(i))
  <2>1. hist' = rows /\ token' = [token EXCEPT ![i] = [NoToken EXCEPT !.at = EndEvent]]
        /\ next = EndEvent
    BY <1>9 DEF ArriveAtEnd
  <2>2. \A u \in DOMAIN hist : hist'[u].at = hist[u].at
    BY <1>4, <2>1
  <2>3. DOMAIN hist' = DOMAIN hist
    BY <1>4, <2>1
  <2>4. Grown
    BY <2>2, <2>3 DEF Grown
  <2>5. token'[i].at = next /\ \A j \in Instance \ {i} : token'[j] = token[j]
    BY <1>3, <2>1 DEF FlowInv, IInv, TypeOK, NoToken
  <2>6. Follows(i, next)
    BY <1>6, <1>7, <2>4 DEF Follows
  <2>7. ASSUME NEW j \in Instance, NEW b, Reached(j, b)' PROVE Follows(j, b)
    <3>1. CASE b = token'[j].at
      <4>1. CASE j = i
        BY <2>5, <2>6, <3>1, <4>1
      <4>2. CASE j # i
        BY <2>5, <3>1, <4>2 DEF Follows, Reached
      <4> QED
        BY <4>1, <4>2
    <3>2. ASSUME NEW u \in DOMAIN hist', u[1] = j, hist'[u].at = b PROVE Follows(j, b)
      <4>1. u \in DOMAIN hist /\ hist[u].at = b
        BY <2>2, <2>3, <3>2
      <4> QED
        BY <3>2, <4>1 DEF Follows, Reached
    <3> QED
      BY <2>7, <3>1, <3>2 DEF Reached
  <2> QED
    BY <2>4, <2>7 DEF Advances
<1> QED
  BY <1>2, <1>8, <1>9

(* The other commands on a task write to rows where they stand; a transfer  *)
(* record repeats the activity of its task.                                 *)
LEMMA TaskCommandAdvances ==
  ASSUME FlowInv, FinishedKept, NEW t \in DOMAIN hist, TaskCommand(t)
  PROVE  Advances
<1>1. /\ hist \in [DOMAIN hist -> Row] /\ t[1] \in Instance
      /\ token \in [Instance -> Token] /\ seq[t[1]] \in Nat
  BY TaskIdParts DEF FlowInv, IInv, TypeOK
<1>2. ASSUME NEW own \in Owners, CompleteTask(t, own) PROVE Advances
  <2>1. PICK rows : rows = Ended(hist, {t}, "done")
    OBVIOUS
  <2>2. rows \in [DOMAIN hist -> Row] /\ \A u \in DOMAIN hist : rows[u].at = hist[u].at
    BY <1>1, <2>1, EndedFacts DEF EndReason
  <2>3. hist' = rows
    BY <1>2, <2>1 DEF CompleteTask
  <2>4. DOMAIN hist' = DOMAIN hist /\ \A u \in DOMAIN hist : hist'[u].at = hist[u].at
    BY <2>2, <2>3
  <2>5. \A j \in Instance : token'[j].at = token[j].at
    BY <1>1, <1>2 DEF CompleteTask, Token
  <2> QED
    BY <2>4, <2>5, StandingAdvances DEF Grown
<1>3. ASSUME NEW own \in Owners, CompleteRound(t, own) PROVE Advances
  BY <1>3, CompleteRoundAdvances
<1>4. CASE Comment(t)
  BY <1>4, StandingAdvances DEF Comment, Grown
<1>5. ASSUME NEW p, hist' = [hist EXCEPT ![t].assignee = p], UNCHANGED token PROVE Advances
  <2>1. DOMAIN hist' = DOMAIN hist /\ \A u \in DOMAIN hist : hist'[u].at = hist[u].at
    BY <1>1, <1>5 DEF Row
  <2> QED
    BY <1>5, <2>1, StandingAdvances DEF Grown
<1>6. ASSUME NEW p \in Person, TransferRecord(t, p) PROVE Advances
  <2>1. PICK id : id = <<t[1], seq[t[1]] + 1, p>>
    OBVIOUS
  <2>2. /\ DOMAIN hist' = DOMAIN hist \cup {id}
        /\ \A u \in DOMAIN hist : u # id => hist'[u] = hist[u]
        /\ hist'[id].at = hist[t].at
        /\ token' = token
    BY <1>6, <2>1 DEF TransferRecord, Insert
  <2>3. id \notin DOMAIN hist /\ id[1] = t[1] /\ id[2] > seq[t[1]]
    BY <1>1, <2>1, TaskIdParts DEF FlowInv, IInv, TypeOK, IdsAreUsed
  <2>4. Grown
    BY <2>2, <2>3 DEF Grown
  <2>5. Reached(t[1], hist[t].at)
    BY DEF Reached
  <2> QED
    BY <2>2, <2>3, <2>4, <2>5, StandingAdvances
<1> QED
  BY <1>2, <1>3, <1>4, <1>5, <1>6 DEF TaskCommand, Unclaim, Claim

LEMMA EndAdvances ==
  ASSUME FlowInv, NEW i \in Instance, Suspend(i) \/ Delete(i) \/ UNCHANGED engineVars
  PROVE  Advances
<1>1. hist \in [DOMAIN hist -> Row]
  BY DEF FlowInv, IInv, TypeOK
<1>2. CASE Suspend(i) \/ UNCHANGED engineVars
  BY <1>2, StandingAdvances DEF Suspend, engineVars, Grown
<1>3. CASE Delete(i)
  <2>1. PICK rows : rows = Ended(hist, Tasks(i), "stopped")
    OBVIOUS
  <2>2. rows \in [DOMAIN hist -> Row] /\ \A u \in DOMAIN hist : rows[u].at = hist[u].at
    BY <1>1, <2>1, EndedFacts DEF EndReason
  <2>3. hist' = rows /\ token' = token
    BY <1>3, <2>1 DEF Delete
  <2>4. DOMAIN hist' = DOMAIN hist /\ \A u \in DOMAIN hist : hist'[u].at = hist[u].at
    BY <2>2, <2>3
  <2> QED
    BY <2>3, <2>4, StandingAdvances DEF Grown
<1> QED
  BY <1>2, <1>3

-----------------------------------------------------------------------------
(* What a thread about to jump has read stays true: its target is in the    *)
(* history, which without runTo knows of user tasks only.                   *)
AtActivities == \A t \in DOMAIN hist : hist[t].at \in Activity

Backwards(r) == r.op \in {"rollback", "withdraw"} => IsHistoryNode(r.inst, r.target)
JumpsBack == \A c \in Client : pc[c] = "jump" => Backwards(req[c])

SignOffInv == HandlerInv /\ RowsInUse /\ NoActivitySkipped /\ JumpsBack /\ AtActivities

LEMMA HistoryNodeKept ==
  ASSUME FinishedKept, NEW i, NEW a, IsHistoryNode(i, a)
  PROVE  IsHistoryNode(i, a)'
BY DEF FinishedKept, IsHistoryNode

(* No step of another thread moves this one.                                *)
LEMMA OthersWait ==
  ASSUME HandlerInv, NEW c \in Client, NEW d \in Client, c # d,
         Arrive(c) \/ Proceed(c) \/ Abort(c)
  PROVE  pc'[d] = pc[d] /\ req'[d] = req[d]
<1>1. pc \in [Client -> Steps] /\ req \in [Client -> Request]
  BY DEF HandlerInv, ClientsOK
<1>2. CASE Arrive(c)
  BY <1>1, <1>2 DEF Arrive, StartQuery, SubmitQuery, JumpCheck, TransferQuery,
                    StopQuery, Accept, Refuse
<1>3. CASE Proceed(c)
  BY <1>1, <1>3 DEF Proceed, StartCreate, StartChoose, SubmitLookup, SubmitComment,
       SubmitComplete, JumpExecute, TransferSetOwner, TransferUnclaim, TransferClaim,
       TransferFinish, StopSuspend, StopDelete, Reply, TerminatedResult,
       Goto, Answer, Throw
<1>4. CASE Abort(c)
  BY <1>1, <1>4 DEF Abort
<1> QED
  BY <1>2, <1>3, <1>4

(* A thread gets to a jump by a check only.                                 *)
LEMMA JumpChecked ==
  ASSUME HandlerInv, NEW c \in Client, Arrive(c) \/ Proceed(c) \/ Abort(c), pc'[c] = "jump"
  PROVE  Backwards(req'[c]) /\ UNCHANGED hist
<1>1. pc \in [Client -> Steps] /\ req \in [Client -> Request]
  BY DEF HandlerInv, ClientsOK
<1>2. CASE Proceed(c) \/ Abort(c)
  BY <1>1, <1>2 DEF Proceed, StartCreate, StartChoose, SubmitLookup, SubmitComment,
       SubmitComplete, JumpExecute, TransferSetOwner, TransferUnclaim, TransferClaim,
       TransferFinish, StopSuspend, StopDelete, Reply, TerminatedResult,
       Goto, Answer, Throw, Abort
<1>3. CASE Arrive(c)
  <2>1. PICK op \in {"rollback", "withdraw", "runTo"} \cap Operations, i \in Instance,
             t \in DOMAIN hist \cup {NoTask}, p \in Person, a \in Targets,
             own \in OwnerChoices : JumpCheck(c, op, i, t, p, a, own)
    BY <1>1, <1>3 DEF Arrive, StartQuery, SubmitQuery, TransferQuery, StopQuery,
                      Accept, Refuse
  <2>2. PICK r : r = JumpRequest(op, i, t, p, a)
    OBVIOUS
  <2>3. /\ op \in {"rollback", "withdraw"} => IsHistoryNode(i, a)
        /\ Accept(c, r, "jump") /\ UNCHANGED engineVars
    BY <1>1, <1>3, <2>1, <2>2 DEF JumpCheck, Refuse, Arrive
  <2>4. r.op = op /\ r.inst = i /\ r.target = a
    BY <2>2 DEF JumpRequest, NoRequest
  <2>5. req'[c] = r /\ hist' = hist
    BY <1>1, <2>3 DEF Accept, engineVars
  <2> QED
    BY <2>3, <2>4, <2>5 DEF Backwards
<1> QED
  BY <1>2, <1>3

(* What a step of a thread does to the tables.                              *)
LEMMA CommandIssued ==
  ASSUME HandlerInv, NEW c \in Client, Proceed(c), ~JumpExecute(c)
  PROVE  \/ UNCHANGED engineVars
         \/ \E t \in DOMAIN hist : TaskCommand(t)
         \/ \E i \in Instance : \/ Suspend(i) \/ Delete(i)
                                \/ \E k \in BusinessKey, own \in Owners : StartProcess(i, k, own)
<1>1. CASE StartCreate(c)
  <2>1. req[c].key \in BusinessKey /\ req[c].own \in Owners
    BY <1>1, Known DEF StartCreate, Fits
  <2> QED
    BY <1>1, <2>1 DEF StartCreate, Throw
<1>2. CASE SubmitComment(c) \/ SubmitComplete(c)
  <2>1. req[c].task \in DOMAIN hist /\ req[c].own \in Owners
    BY <1>2, Known DEF SubmitComment, SubmitComplete, Fits
  <2> QED
    BY <1>2, <2>1 DEF SubmitComment, SubmitComplete, Throw, TaskCommand
<1>3. CASE \/ TransferSetOwner(c) \/ TransferUnclaim(c)
           \/ TransferClaim(c) \/ TransferFinish(c)
  <2>1. req[c].task \in DOMAIN hist /\ req[c].person \in Person /\ req[c].heir \in Person
    BY <1>3, Known DEF TransferSetOwner, TransferUnclaim, TransferClaim, TransferFinish, Fits
  <2> QED
    BY <1>3, <2>1 DEF TransferSetOwner, TransferUnclaim, TransferClaim, TransferFinish,
                      Throw, TaskCommand
<1>4. CASE StopSuspend(c) \/ StopDelete(c)
  <2>1. req[c].inst \in Instance
    BY <1>4, Known DEF StopSuspend, StopDelete, Fits
  <2> QED
    BY <1>4, <2>1 DEF StopSuspend, StopDelete, Throw
<1>5. CASE StartChoose(c) \/ SubmitLookup(c) \/ Reply(c) \/ TerminatedResult(c)
  BY <1>5 DEF StartChoose, SubmitLookup, Reply, TerminatedResult
<1> QED
  BY <1>1, <1>2, <1>3, <1>4, <1>5 DEF Proceed

(* A jump goes where a task of the instance has stood.                      *)
LEMMA HonestJump ==
  ASSUME "runTo" \notin Operations, SignOffInv, NEW c \in Client, JumpExecute(c)
  PROVE  \/ UNCHANGED engineVars
         \/ \E i \in Instance : \E t : \E p \in Person, a \in Activity :
              Jump(i, t, p, a) /\ Reached(i, a)
<1>1. PICK i, t, p, a : i = req[c].inst /\ t = req[c].task /\ p = req[c].person
                        /\ a = req[c].target
  OBVIOUS
<1>2. /\ pc[c] = "jump" /\ req[c] \in Request
      /\ req[c].op \in {"rollback", "withdraw", "runTo"}
      /\ i \in Instance /\ p \in Person
  BY <1>1, Known DEF JumpExecute, Fits, SignOffInv
<1>3. req[c].op \in {"rollback", "withdraw"}
  BY <1>2 DEF Request
<1>4. Reached(i, a) /\ a \in Activity
  <2>1. IsHistoryNode(i, a)
    BY <1>1, <1>2, <1>3 DEF SignOffInv, JumpsBack, Backwards
  <2> QED
    BY <2>1 DEF IsHistoryNode, Reached, SignOffInv, AtActivities
<1> QED
  BY <1>1, <1>2, <1>4 DEF JumpExecute, Throw

(* What one step does to the tables, without runTo.                         *)
LEMMA HonestCommand ==
  ASSUME "runTo" \notin Operations, SignOffInv, [ExecuteNext]_vars
  PROVE  \/ UNCHANGED engineVars
         \/ \E t \in DOMAIN hist : TaskCommand(t)
         \/ \E i \in Instance :
              \/ Suspend(i) \/ Delete(i)
              \/ \E k \in BusinessKey, own \in Owners : StartProcess(i, k, own)
              \/ \E t : \E p \in Person, a \in Activity : Jump(i, t, p, a) /\ Reached(i, a)
<1>1. ASSUME NEW c \in Client, Arrive(c) \/ Abort(c) PROVE UNCHANGED engineVars
  BY <1>1 DEF Arrive, StartQuery, SubmitQuery, JumpCheck, TransferQuery, StopQuery,
              Refuse, Abort
<1>2. CASE UNCHANGED vars
  BY <1>2 DEF vars
<1>3. ASSUME NEW c \in Client, Proceed(c), ~JumpExecute(c)
      PROVE  \/ UNCHANGED engineVars
             \/ \E t \in DOMAIN hist : TaskCommand(t)
             \/ \E i \in Instance :
                  \/ Suspend(i) \/ Delete(i)
                  \/ \E k \in BusinessKey, own \in Owners : StartProcess(i, k, own)
  BY <1>3, CommandIssued DEF SignOffInv
<1> QED
  BY <1>1, <1>2, <1>3, HonestJump DEF ExecuteNext

LEMMA StepAdvances ==
  ASSUME "runTo" \notin Operations, SignOffInv, FinishedKept, [ExecuteNext]_vars
  PROVE  Advances
<1>1. FlowInv /\ IInv
  BY DEF FlowInv, SignOffInv, HandlerInv
<1>2. CASE UNCHANGED engineVars
  BY <1>2, StandingAdvances DEF engineVars, Grown
<1>3. ASSUME NEW t \in DOMAIN hist, TaskCommand(t) PROVE Advances
  BY <1>1, <1>3, TaskCommandAdvances
<1>4. ASSUME NEW i \in Instance, Suspend(i) \/ Delete(i) PROVE Advances
  BY <1>1, <1>4, EndAdvances
<1>5. ASSUME NEW i \in Instance, NEW k \in BusinessKey, NEW own \in Owners,
             StartProcess(i, k, own)
      PROVE  Advances
  BY <1>1, <1>5, StartAdvances
<1>6. ASSUME NEW i \in Instance, NEW t, NEW p \in Person, NEW a \in Activity,
             Jump(i, t, p, a), Reached(i, a)
      PROVE  Advances
  BY <1>1, <1>6, JumpAdvances
<1> QED
  BY <1>2, <1>3, <1>4, <1>5, <1>6, HonestCommand

(* The rows a step adds stand at user tasks.                                *)
NewAtActivities == \A u \in DOMAIN hist' : u \notin DOMAIN hist => hist'[u].at \in Activity

LEMMA ArrivalStands ==
  ASSUME NEW i, NEW a, NEW O, NEW n, NEW rows, NEW open, ArriveAtTask(i, a, O, n, rows, open),
         \A u \in DOMAIN rows : u \notin DOMAIN hist => rows[u].at \in Activity
  PROVE  NewAtActivities
BY DEF ArriveAtTask, Insert, NewAtActivities

LEMMA TaskCommandStands ==
  ASSUME AtActivities, NEW t \in DOMAIN hist, TaskCommand(t)
  PROVE  NewAtActivities
<1>1. ASSUME NEW own \in Owners, CompleteTask(t, own) PROVE NewAtActivities
  BY <1>1 DEF CompleteTask, Ended, NewAtActivities
<1>2. ASSUME NEW own \in Owners, CompleteRound(t, own) PROVE NewAtActivities
  <2>1. PICK rows : rows = Ended(Ended(hist, Tasks(t[1]) \ {t}, "closed"), {t}, "done")
    OBVIOUS
  <2>2. DOMAIN rows = DOMAIN hist
    BY <2>1 DEF Ended
  <2>3. hist' = rows \/ \E a, O, open : ArriveAtTask(t[1], a, O, seq[t[1]] + 1, rows, open)
    BY <1>2, <2>1 DEF CompleteRound, ArriveAtEnd
  <2>4. CASE hist' = rows
    BY <2>2, <2>4 DEF NewAtActivities
  <2> QED
    BY <2>2, <2>3, <2>4, ArrivalStands
<1>3. CASE Comment(t) \/ Unclaim(t) \/ \E p \in Person : Claim(t, p)
  BY <1>3 DEF Comment, Unclaim, Claim, NewAtActivities
<1>4. ASSUME NEW p \in Person, TransferRecord(t, p) PROVE NewAtActivities
  BY <1>4 DEF TransferRecord, Insert, AtActivities, NewAtActivities
<1> QED
  BY <1>1, <1>2, <1>3, <1>4 DEF TaskCommand

LEMMA JumpStands ==
  ASSUME IInv, NEW i \in Instance, NEW t, NEW p \in Person, NEW a \in Activity, Jump(i, t, p, a)
  PROVE  NewAtActivities
<1>1. PICK R, rows : R = JumpRecord(i, t, p) /\ rows = JumpRows(i, t, p, a)
  OBVIOUS
<1>2. /\ DOMAIN rows = DOMAIN hist \cup R
      /\ \A u \in R : rows[u].at = a
  BY <1>1 DEF JumpRows, Insert, Ended
<1>3. hist' = rows \/ \E b, O, n, open : ArriveAtTask(i, b, O, n, rows, open)
  BY <1>1 DEF Jump, ArriveAtEnd
<1>4. \A u \in DOMAIN rows : u \notin DOMAIN hist => rows[u].at \in Activity
  BY <1>2
<1>5. CASE hist' = rows
  BY <1>4, <1>5 DEF NewAtActivities
<1> QED
  BY <1>3, <1>4, <1>5, ArrivalStands

LEMMA StepStands ==
  ASSUME "runTo" \notin Operations, SignOffInv, FinishedKept, [ExecuteNext]_vars
  PROVE  AtActivities'
<1>1. ASSUME UNCHANGED engineVars PROVE NewAtActivities
  BY <1>1 DEF engineVars, NewAtActivities
<1>2. ASSUME NEW t \in DOMAIN hist, TaskCommand(t) PROVE NewAtActivities
  BY <1>2, TaskCommandStands DEF SignOffInv
<1>3. ASSUME NEW i \in Instance, Suspend(i) \/ Delete(i) PROVE NewAtActivities
  BY <1>3 DEF Suspend, Delete, Ended, NewAtActivities
<1>4. ASSUME NEW i \in Instance, NEW k \in BusinessKey, NEW own \in Owners,
             StartProcess(i, k, own)
      PROVE  NewAtActivities
  BY <1>4, ArrivalStands DEF StartProcess
<1>5. ASSUME NEW i \in Instance, NEW t, NEW p \in Person, NEW a \in Activity, Jump(i, t, p, a)
      PROVE  NewAtActivities
  BY <1>5, JumpStands DEF SignOffInv, HandlerInv
<1>6. NewAtActivities
  BY <1>1, <1>2, <1>3, <1>4, <1>5, HonestCommand
<1>7. \A u \in DOMAIN hist : hist'[u].at = hist[u].at
  BY StepAdvances DEF Advances, Grown
<1> QED
  BY <1>6, <1>7 DEF NewAtActivities, AtActivities, SignOffInv

LEMMA JumpsBackNext ==
  ASSUME HandlerInv, JumpsBack, FinishedKept, [ExecuteNext]_vars
  PROVE  JumpsBack'
<1> SUFFICES ASSUME NEW d \in Client, pc'[d] = "jump", NEW r, r = req'[d]
             PROVE  Backwards(r)'
  BY DEF JumpsBack, Backwards
<1>1. CASE pc'[d] = pc[d] /\ req'[d] = req[d]
  <2>1. Backwards(r)
    BY <1>1 DEF JumpsBack
  <2> QED
    BY <2>1, HistoryNodeKept DEF Backwards
<1>2. CASE Backwards(req'[d]) /\ UNCHANGED hist
  <2>1. Backwards(r)
    BY <1>2
  <2> QED
    BY <1>2, <2>1 DEF Backwards, IsHistoryNode
<1>3. CASE UNCHANGED vars
  BY <1>1, <1>3 DEF vars, clientVars
<1>4. ASSUME NEW c \in Client, Arrive(c) \/ Proceed(c) \/ Abort(c)
      PROVE  \/ pc'[d] = pc[d] /\ req'[d] = req[d]
             \/ Backwards(req'[d]) /\ UNCHANGED hist
  BY <1>4, OthersWait, JumpChecked
<1> QED
  BY <1>1, <1>2, <1>3, <1>4 DEF ExecuteNext

-----------------------------------------------------------------------------
(* Without runTo no activity is reached, and no approval ends, past an      *)
(* activity that was not signed off at least once: what the history also    *)
(* holds (tasks closed by jumps, jump records, transfer records) lets no    *)
(* rollback or withdraw skip a signature (checkHistoryNode,                 *)
(* CommonJumpTaskCmd).                                                      *)
THEOREM SignaturesNotSkipped ==
  ASSUME "runTo" \notin Operations
  PROVE  ExecuteSpec => []NoActivitySkipped
<1>1. ExecuteInit => SignOffInv
  <2> SUFFICES ASSUME ExecuteInit PROVE SignOffInv
    OBVIOUS
  <2>1. HandlerInv
    BY HandlerInit
  <2>2. RowsInUse /\ NoActivitySkipped
    BY DEF ExecuteInit, EngineInit, RowsInUse, NoActivitySkipped, NoToken, Activity
  <2>3. JumpsBack /\ AtActivities
    BY DEF ExecuteInit, EngineInit, JumpsBack, AtActivities
  <2> QED
    BY <2>1, <2>2, <2>3 DEF SignOffInv
<1>2. SignOffInv /\ [ExecuteNext]_vars => SignOffInv'
  <2> SUFFICES ASSUME SignOffInv, [ExecuteNext]_vars PROVE SignOffInv'
    OBVIOUS
  <2>1. HandlerInv' /\ [EngineNext]_engineVars
    BY HandlerNext DEF SignOffInv
  <2>2. IInv /\ IInv' /\ FinishedKept
    BY <2>1, NextFinished DEF SignOffInv, HandlerInv
  <2>3. RowsInUse'
    BY <2>1, <2>2, InUseNext DEF SignOffInv, FlowInv
  <2>4. NoActivitySkipped'
    BY <2>2, StepAdvances, NothingSkipped DEF SignOffInv
  <2>5. JumpsBack'
    BY <2>2, JumpsBackNext DEF SignOffInv
  <2>6. AtActivities'
    BY <2>2, StepStands
  <2> QED
    BY <2>1, <2>3, <2>4, <2>5, <2>6 DEF SignOffInv
<1>3. SignOffInv => NoActivitySkipped
  BY DEF SignOffInv
<1> QED
  BY <1>1, <1>2, <1>3, PTL DEF ExecuteSpec

-----------------------------------------------------------------------------
(* The answer taskMiss.  A request about to be answered names an instance   *)
(* in use; once a thread has found nothing to do there the instance is not  *)
(* active, now or later; and a suspended instance has a thread about to     *)
(* delete it.                                                               *)
MissInv ==
  /\ \A c \in Client :
       /\ pc[c] \in {"comment", "lookup", "complete", "jump", "reply"} =>
            status[req[c].inst] # "absent"
       /\ pc[c] = "terminated" => status[req[c].inst] \in {"suspended", "ended"}
  /\ \A i \in Instance : status[i] = "suspended" =>
       \E d \in Client : pc[d] = "delete" /\ req[d].inst = i

(* What becomes of an instance.                                             *)
LEMMA StatusMoves ==
  ASSUME IInv, [EngineNext]_engineVars, NEW i \in Instance
  PROVE  \/ status'[i] = status[i]
         \/ status[i] = "absent" /\ status'[i] = "active"
         \/ status[i] = "active" /\ status'[i] = "suspended"
         \/ status[i] # "absent" /\ status'[i] = "ended"
<1>1. status \in [Instance -> {"absent", "active", "suspended", "ended"}]
  BY DEF IInv, TypeOK
<1>2. ASSUME NEW t \in DOMAIN hist, TaskCommand(t)
      PROVE  \/ status' = status
             \/ status[t[1]] = "active" /\ status' = [status EXCEPT ![t[1]] = "ended"]
  BY <1>2 DEF TaskCommand, CompleteTask, CompleteRound, ArriveAtEnd, Comment, Unclaim, Claim,
              TransferRecord, Live
<1>3. ASSUME NEW j \in Instance, InstanceCommand(j)
      PROVE  \/ status' = status
             \/ status[j] = "absent" /\ status' = [status EXCEPT ![j] = "active"]
             \/ status[j] = "active" /\ status' = [status EXCEPT ![j] = "suspended"]
             \/ status[j] # "absent" /\ status' = [status EXCEPT ![j] = "ended"]
  BY <1>3 DEF InstanceCommand, StartProcess, Jump, ArriveAtEnd, Suspend, Delete, Running
<1>4. CASE UNCHANGED engineVars
  BY <1>4 DEF engineVars
<1>5. ASSUME NEW t \in DOMAIN hist, TaskCommand(t)
      PROVE  \/ status'[i] = status[i]
             \/ status[i] # "absent" /\ status'[i] = "ended"
  BY <1>1, <1>2, <1>5
<1>6. ASSUME NEW j \in Instance, InstanceCommand(j)
      PROVE  \/ status'[i] = status[i]
             \/ status[i] = "absent" /\ status'[i] = "active"
             \/ status[i] = "active" /\ status'[i] = "suspended"
             \/ status[i] # "absent" /\ status'[i] = "ended"
  BY <1>1, <1>3, <1>6
<1> QED
  BY <1>4, <1>5, <1>6 DEF EngineNext

(* Only the first command of a stop suspends.                               *)
LEMMA OnlyStopSuspends ==
  ASSUME HandlerInv, NEW c \in Client, Arrive(c) \/ Proceed(c),
         NEW i \in Instance, status'[i] = "suspended", status[i] # "suspended"
  PROVE  pc[c] = "suspend" /\ Suspend(req[c].inst) /\ Goto(c, "delete") /\ req[c].inst = i
<1>1. status \in [Instance -> {"absent", "active", "suspended", "ended"}]
  BY DEF HandlerInv, IInv, TypeOK
<1>2. ~ UNCHANGED engineVars
  BY DEF engineVars
<1>3. ~ Arrive(c)
  BY <1>2 DEF Arrive, StartQuery, SubmitQuery, JumpCheck, TransferQuery, StopQuery, Refuse
<1>4. ~ (SubmitComment(c) \/ SubmitComplete(c))
  BY <1>1, <1>2 DEF SubmitComment, SubmitComplete, Comment, CompleteTask, CompleteRound,
                    ArriveAtEnd, Throw
<1>5. ~ (JumpExecute(c) \/ StartCreate(c))
  BY <1>1, <1>2 DEF JumpExecute, Jump, ArriveAtEnd, StartCreate, StartProcess, Throw
<1>6. ~ (\/ TransferSetOwner(c) \/ TransferUnclaim(c) \/ TransferClaim(c) \/ TransferFinish(c))
  BY <1>2 DEF TransferSetOwner, TransferUnclaim, TransferClaim, TransferFinish, Unclaim, Claim,
              TransferRecord, Throw
<1>7. ~ (\/ StartChoose(c) \/ SubmitLookup(c) \/ Reply(c) \/ TerminatedResult(c))
  BY <1>2 DEF StartChoose, SubmitLookup, Reply, TerminatedResult
<1>8. ~ StopDelete(c)
  BY <1>1, <1>2 DEF StopDelete, Delete, Throw
<1>9. StopSuspend(c)
  BY <1>3, <1>4, <1>5, <1>6, <1>7, <1>8 DEF Proceed
<1>10. pc[c] = "suspend" /\ Suspend(req[c].inst) /\ Goto(c, "delete")
  BY <1>2, <1>9 DEF StopSuspend, Throw
<1> QED
  BY <1>1, <1>10 DEF Suspend

(* How a thread comes to answer.                                            *)
LEMMA NearAnswer ==
  ASSUME HandlerInv, RowsInUse, NEW c \in Client, Arrive(c) \/ Proceed(c),
         pc'[c] \in {"comment", "lookup", "complete", "jump", "reply"}
  PROVE  \/ status[req'[c].inst] # "absent" /\ UNCHANGED engineVars
         \/ pc[c] \in {"comment", "lookup", "complete", "jump"} /\ req'[c] = req[c]
<1>1. pc \in [Client -> Steps] /\ req \in [Client -> Request]
  BY DEF HandlerInv, ClientsOK
<1>2. ASSUME Proceed(c)
      PROVE  pc[c] \in {"comment", "lookup", "complete", "jump"} /\ req'[c] = req[c]
  BY <1>1, <1>2 DEF Proceed, StartCreate, StartChoose, SubmitLookup, SubmitComment,
       SubmitComplete, JumpExecute, TransferSetOwner, TransferUnclaim, TransferClaim,
       TransferFinish, StopSuspend, StopDelete, Reply, TerminatedResult,
       Goto, Answer, Throw
<1>3. CASE Arrive(c)
  <2>1. pc[c] = "idle" /\ UNCHANGED engineVars
    BY <1>3 DEF Arrive, StartQuery, SubmitQuery, JumpCheck, TransferQuery, StopQuery,
                Accept, Refuse
  <2>2. ASSUME NEW k, NEW own, StartQuery(c, k, own) PROVE FALSE
    BY <1>1, <2>1, <2>2 DEF StartQuery, Accept, Refuse
  <2>3. ASSUME NEW t \in DOMAIN hist, NEW p, NEW heir, TransferQuery(c, t, p, heir) PROVE FALSE
    BY <1>1, <2>1, <2>3 DEF TransferQuery, Accept, Refuse
  <2>4. ASSUME NEW i, StopQuery(c, i) PROVE FALSE
    BY <1>1, <2>1, <2>4 DEF StopQuery, Accept, Refuse
  <2>5. ASSUME NEW t \in DOMAIN hist, NEW p, NEW a, NEW own, SubmitQuery(c, t, p, a, own)
        PROVE  status[req'[c].inst] # "absent"
    <3>1. PICK r : r = SubmitRequest(t, p, a, own)
      OBVIOUS
    <3>2. r.inst = t[1] /\ status[t[1]] # "absent"
      BY <3>1 DEF SubmitRequest, NoRequest, RowsInUse
    <3>3. req'[c] = r
      BY <1>1, <2>1, <2>5, <3>1 DEF SubmitQuery, Accept, Refuse
    <3> QED
      BY <3>2, <3>3
  <2>6. ASSUME NEW op, NEW i, NEW t, NEW p, NEW a, NEW own, JumpCheck(c, op, i, t, p, a, own)
        PROVE  status[req'[c].inst] # "absent"
    <3>1. PICK r : r = JumpRequest(op, i, t, p, a)
      OBVIOUS
    <3>2. r.inst = i /\ status[i] # "absent"
      BY <2>6, <3>1 DEF JumpRequest, NoRequest, JumpCheck
    <3>3. req'[c] = r
      BY <1>1, <2>1, <2>6, <3>1 DEF JumpCheck, Accept, Refuse
    <3> QED
      BY <3>2, <3>3
  <2> QED
    BY <1>3, <2>1, <2>2, <2>3, <2>4, <2>5, <2>6 DEF Arrive
<1> QED
  BY <1>2, <1>3

(* An instance in which nothing is live is not active.                      *)
LEMMA NothingLive ==
  ASSUME IInv, NEW i \in Instance, {t \in Tasks(i) : Live(t)} = {}
  PROVE  status[i] # "active"
BY DEF IInv, CountersMatchRows, Running, Live, Tasks

LEMMA MissNext ==
  ASSUME MaxAborts = 0, "runTo" \notin Operations, HandlerInv, RowsInUse, MissInv,
         [ExecuteNext]_vars
  PROVE  MissInv'
<1>1. /\ IInv /\ [EngineNext]_engineVars
      /\ pc \in [Client -> Steps] /\ req \in [Client -> Request]
      /\ status \in [Instance -> {"absent", "active", "suspended", "ended"}]
      /\ status' \in [Instance -> {"absent", "active", "suspended", "ended"}]
  BY HandlerNext DEF HandlerInv, ClientsOK, IInv, TypeOK
<1>2. \A c \in Client :
        pc[c] \in {"comment", "lookup", "complete", "jump", "reply", "terminated"} =>
          req[c].inst \in Instance
  BY Known DEF Fits
<1>3. ASSUME NEW i \in Instance
      PROVE  /\ status[i] # "absent" => status'[i] # "absent"
             /\ status[i] \in {"suspended", "ended"} => status'[i] \in {"suspended", "ended"}
  BY <1>1, StatusMoves
<1>4. CASE UNCHANGED vars
  BY <1>4 DEF vars, clientVars, engineVars, MissInv
<1>5. ASSUME NEW c \in Client, Arrive(c) \/ Proceed(c) PROVE MissInv'
  <2>1. \A d \in Client : d # c => pc'[d] = pc[d] /\ req'[d] = req[d]
    BY <1>5, OthersWait
  <2>2. ASSUME NEW d \in Client, pc'[d] \in {"comment", "lookup", "complete", "jump", "reply"}
        PROVE  status'[req'[d].inst] # "absent"
    <3>1. CASE d # c
      BY <1>2, <1>3, <2>1, <2>2, <3>1 DEF MissInv
    <3>2. CASE d = c
      <4>1. CASE status[req'[c].inst] # "absent" /\ UNCHANGED engineVars
        BY <3>2, <4>1 DEF engineVars
      <4>2. CASE pc[c] \in {"comment", "lookup", "complete", "jump"} /\ req'[c] = req[c]
        BY <1>2, <1>3, <3>2, <4>2 DEF MissInv
      <4> QED
        BY <1>5, <2>2, <3>2, <4>1, <4>2, NearAnswer
    <3> QED
      BY <3>1, <3>2
  <2>3. ASSUME NEW d \in Client, pc'[d] = "terminated"
        PROVE  status'[req'[d].inst] \in {"suspended", "ended"}
    <3>1. CASE d # c
      BY <1>2, <1>3, <2>1, <2>3, <3>1 DEF MissInv
    <3>2. CASE d = c
      <4>1. Reply(c)
        BY <1>1, <1>5, <2>3, <3>2 DEF Arrive, StartQuery, SubmitQuery, JumpCheck,
           TransferQuery, StopQuery, Accept, Refuse, Proceed, StartCreate, StartChoose,
           SubmitLookup, SubmitComment, SubmitComplete, JumpExecute, TransferSetOwner,
           TransferUnclaim, TransferClaim, TransferFinish, StopSuspend, StopDelete,
           TerminatedResult, Goto, Answer, Throw
      <4>2. TodoOf(c) = {} /\ req'[c] = req[c] /\ status' = status /\ pc[c] = "reply"
        BY <1>1, <2>3, <3>2, <4>1 DEF Reply, Answer, Goto, engineVars
      <4>3. req[c].op # "runTo" /\ req[c].inst \in Instance
        BY <1>1, <1>2, <4>2 DEF Request
      <4>4. status[req[c].inst] # "active"
        BY <1>1, <4>2, <4>3, NothingLive DEF TodoOf
      <4> QED
        BY <1>1, <3>2, <4>2, <4>3, <4>4 DEF MissInv
    <3> QED
      BY <3>1, <3>2
  <2>4. ASSUME NEW i \in Instance, status'[i] = "suspended"
        PROVE  \E d \in Client : pc'[d] = "delete" /\ req'[d].inst = i
    <3>1. CASE status[i] = "suspended"
      <4>1. PICK d \in Client : pc[d] = "delete" /\ req[d].inst = i
        BY <3>1 DEF MissInv
      <4>2. d # c
        <5>1. ASSUME pc[c] = "delete", req[c].inst = i PROVE FALSE
          <6>1. StopDelete(c)
            BY <1>5, <5>1 DEF Arrive, Proceed, StartCreate, StartChoose, SubmitLookup,
               SubmitComment, SubmitComplete, JumpExecute, TransferSetOwner,
               TransferUnclaim, TransferClaim, TransferFinish, StopSuspend, Reply,
               TerminatedResult
          <6> QED
            BY <1>1, <2>4, <3>1, <5>1, <6>1 DEF StopDelete, Delete, Running
        <5> QED
          BY <4>1, <5>1
      <4> QED
        BY <2>1, <4>1, <4>2
    <3>2. CASE status[i] # "suspended"
      <4>1. Goto(c, "delete") /\ req[c].inst = i
        BY <1>5, <2>4, <3>2, OnlyStopSuspends
      <4>2. pc'[c] = "delete" /\ req'[c].inst = i
        BY <1>1, <4>1 DEF Goto
      <4> QED
        BY <4>2
    <3> QED
      BY <3>1, <3>2
  <2> QED
    BY <2>2, <2>3, <2>4 DEF MissInv
<1>6. ASSUME NEW c \in Client, Abort(c) PROVE FALSE
  BY <1>6 DEF Abort, HandlerInv, ClientsOK
<1> QED
  BY <1>4, <1>5, <1>6 DEF ExecuteNext

(* While requests do not die, and without runTo, whose reply asks for no    *)
(* tasks at all, "taskMiss" is told only in the middle of a stop: the       *)
(* instance has tasks, and some thread has suspended it and is about to     *)
(* delete it (toResult, terminatedResult, stop).                            *)
THEOREM TaskMissMidStop ==
  ASSUME MaxAborts = 0, "runTo" \notin Operations
  PROVE  ExecuteSpec => TaskMissOnlyMidStop
<1> DEFINE Inv == HandlerInv /\ RowsInUse /\ MissInv
<1>1. ExecuteInit => Inv
  <2> SUFFICES ASSUME ExecuteInit PROVE Inv
    OBVIOUS
  <2>1. RowsInUse /\ MissInv
    BY DEF ExecuteInit, EngineInit, RowsInUse, MissInv
  <2> QED
    BY <2>1, HandlerInit
<1>2. Inv /\ [ExecuteNext]_vars => Inv'
  <2> SUFFICES ASSUME Inv, [ExecuteNext]_vars PROVE Inv'
    OBVIOUS
  <2>1. HandlerInv' /\ [EngineNext]_engineVars
    BY HandlerNext
  <2>2. RowsInUse'
    BY <2>1, InUseNext DEF FlowInv, HandlerInv
  <2> QED
    BY <2>1, <2>2, MissNext
<1>3. ASSUME Inv, [ExecuteNext]_vars, NEW c \in Client, ToldTaskMiss(c)
      PROVE  \E d \in Client : pc[d] = "delete" /\ req[d].inst = req[c].inst
  <2>1. /\ pc[c] = "terminated" /\ pc'[c] = "idle" /\ answer' = "taskMiss"
        /\ pc \in [Client -> Steps] /\ req[c].inst \in Instance
    BY <1>3, Known DEF ToldTaskMiss, HandlerInv, ClientsOK, Fits
  <2>2. ~ UNCHANGED vars
    BY <2>1 DEF vars, clientVars
  <2>3. PICK d \in Client : Arrive(d) \/ Proceed(d) \/ Abort(d)
    BY <1>3, <2>2 DEF ExecuteNext
  <2>4. d = c
    BY <1>3, <2>1, <2>3, OthersWait
  <2>5. TerminatedResult(c)
    BY <2>1, <2>3, <2>4 DEF Arrive, StartQuery, SubmitQuery, JumpCheck, TransferQuery, StopQuery,
       Accept, Refuse, Abort, Proceed, StartCreate, StartChoose, SubmitLookup, SubmitComment,
       SubmitComplete, JumpExecute, TransferSetOwner, TransferUnclaim, TransferClaim,
       TransferFinish, StopSuspend, StopDelete, Reply
  <2>6. status[req[c].inst] # "ended"
    BY <2>1, <2>5 DEF TerminatedResult, Answer
  <2>7. status[req[c].inst] = "suspended"
    BY <1>3, <2>1, <2>6 DEF MissInv
  <2> QED
    BY <1>3, <2>1, <2>7 DEF MissInv
<1> HIDE DEF Inv
<1>4. Inv /\ [ExecuteNext]_vars =>
        [\A c \in Client : ToldTaskMiss(c) =>
           \E d \in Client : pc[d] = "delete" /\ req[d].inst = req[c].inst]_vars
  BY <1>3
<1> QED
  BY <1>1, <1>2, <1>4, PTL DEF ExecuteSpec, TaskMissOnlyMidStop
=============================================================================
