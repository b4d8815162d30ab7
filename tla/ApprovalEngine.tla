--------------------------- MODULE ApprovalEngine ---------------------------
(***************************************************************************)
(* The tables of the approval engine and the commands that change them.   *)
(*                                                                         *)
(* springboot-workflow keeps no state of its own: an approval lives in the *)
(* tables of the Activiti 6 engine (a process instance, its variables, its *)
(* execution, the runtime tasks ACT_RU_TASK and the historic tasks         *)
(* ACT_HI_TASKINST), and every service method is a sequence of engine      *)
(* commands.  A command is one database transaction, hence one action.     *)
(* The commands the engine ships (start, complete, claim, suspend, delete) *)
(* are modelled from the way the services use them; the two the repository *)
(* adds (the jump and the transfer record) are translated line by line.    *)
(*                                                                         *)
(* A process definition is a chain of user tasks, each with an assignee    *)
(* expression, as in expenseAccount.bpmn20.xml:                            *)
(* start -> 1 -> 2 -> ... -> Activities -> end.                            *)
(***************************************************************************)
EXTENDS Naturals, FiniteSets

CONSTANTS
  Instance,     \* process instance ids
  Person,       \* operators, by id
  BusinessKey,  \* business keys of start requests
  Activities,   \* the number of user tasks in the chain
  SignRule,     \* how each user task is signed: "single", "all" or "one"
  OwnerChoices, \* the taskOwners a request may carry: activity -> operators
  Targets,      \* the ids that jump requests may name, of flow elements or of nothing
  MaxBatch,     \* bound: rounds and records an instance may go through
  Nobody,       \* the assignee column is null
  NoKey,        \* an instance id that is not in use yet
  NoTask        \* a request that names no live task

ASSUME EngineAssumption ==
  /\ Activities \in Nat \ {0}
  /\ MaxBatch \in Nat
  /\ SignRule \in [1..Activities -> {"single", "all", "one"}]
  /\ IsFiniteSet(Person)
  /\ OwnerChoices \subseteq [1..Activities -> SUBSET Person]
  /\ Targets \subseteq 0..2 * Activities + 3
  /\ Nobody \notin Person
  /\ NoKey \notin BusinessKey

Activity == 1..Activities
EndEvent == Activities + 1

(***************************************************************************)
(* The flow elements of the process: 0 is the start event, then come the   *)
(* user tasks and the end event; EndEvent + 1 + n is the sequence flow     *)
(* that leaves node n.  An execution that is continued at an element gets  *)
(* to its destination: through the start event to the first task, through  *)
(* a sequence flow to its target.  NoElement is an id of no element.       *)
(***************************************************************************)
Element == 0..2 * EndEvent
NoElement == 2 * EndEvent + 1
Destination(e) == IF e = 0 THEN 1 ELSE IF e > EndEvent THEN e - EndEvent ELSE e

(***************************************************************************)
(* A task id is the instance, the batch (the generator's counter for this  *)
(* instance: one batch per round of tasks and per synthetic record) and    *)
(* the seat, the owner for whom the task was created.                      *)
(***************************************************************************)
TaskId == Instance \X Nat \X Person
Batch(i, n, O) == {<<i, n, p>> : p \in O}

(***************************************************************************)
(* Process variables name the owners of each activity; {} is "not set".    *)
(* A single-instance node's variable holds exactly one operator.           *)
(***************************************************************************)
Owners == {o \in OwnerChoices :
             \A a \in Activity : SignRule[a] = "single" => Cardinality(o[a]) <= 1}
NoOwners == [a \in Activity |-> {}]
Overlay(old, new) == [a \in Activity |-> IF new[a] = {} THEN old[a] ELSE new[a]]

VARIABLES
  status,   \* the instance row: absent, active, suspended or ended
  bkey,     \* its business key
  owners,   \* its process variables
  token,    \* its execution: activity, batch of the round, nrOfInstances, nrOfCompletedInstances
  seq,      \* batches used so far
  todo,     \* ACT_RU_TASK: ids of the runtime tasks
  hist,     \* ACT_HI_TASKINST: id -> activity, assignee, how it ended
  approved  \* tasks whose _@taskVariables carry _@approval

engineVars == <<status, bkey, owners, token, seq, todo, hist, approved>>

EndReason == {"open", "done", "closed", "completed", "deleted", "transfer", "stopped"}
Row == [at : Element, assignee : Person \cup {Nobody}, end : EndReason]
Token == [at : 0..EndEvent, round : Nat, total : Nat, done : Nat]
NoToken == [at |-> 0, round |-> 0, total |-> 0, done |-> 0]

Running(i) == status[i] \in {"active", "suspended"}
Tasks(i) == {t \in todo : t[1] = i}
Live(t) == t \in todo /\ status[t[1]] = "active"

EngineInit ==
  /\ status = [i \in Instance |-> "absent"]
  /\ bkey = [i \in Instance |-> NoKey]
  /\ owners = [i \in Instance |-> NoOwners]
  /\ token = [i \in Instance |-> NoToken]
  /\ seq = [i \in Instance |-> 0]
  /\ todo = {}
  /\ hist = [t \in {} |-> NoTask]
  /\ approved = {}

-----------------------------------------------------------------------------
(* rows with the tasks of T ended for reason r                              *)
Ended(rows, T, r) ==
  [t \in DOMAIN rows |-> IF t \in T THEN [rows[t] EXCEPT !.end = r] ELSE rows[t]]

(* rows with the new ones                                                   *)
Insert(rows, new) ==
  [t \in DOMAIN rows \cup DOMAIN new |-> IF t \in DOMAIN new THEN new[t] ELSE rows[t]]

(* the execution of i arrives at a user task with owners O: one task each,  *)
(* and a fresh round.  Without owners the assignee expression does not      *)
(* resolve, the command throws and its transaction rolls back.              *)
ArriveAtTask(i, a, O, n, rows, open) ==
  LET fresh == Batch(i, n, O) IN
  /\ a \in Activity
  /\ O # {}
  /\ n <= MaxBatch
  /\ hist' = Insert(rows, [t \in fresh |-> [at |-> a, assignee |-> t[3], end |-> "open"]])
  /\ todo' = open \cup fresh
  /\ token' = [token EXCEPT ![i] =
                 [at |-> a, round |-> n, total |-> Cardinality(O), done |-> 0]]
  /\ seq' = [seq EXCEPT ![i] = n]

ArriveAtEnd(i, a, n, rows, open) ==
  /\ a = EndEvent
  /\ hist' = rows
  /\ todo' = open
  /\ token' = [token EXCEPT ![i] = [NoToken EXCEPT !.at = EndEvent]]
  /\ status' = [status EXCEPT ![i] = "ended"]
  /\ seq' = [seq EXCEPT ![i] = n]

(* RuntimeService.startProcessInstanceByKey                                 *)
StartProcess(i, k, own) ==
  /\ status[i] = "absent"
  /\ ArriveAtTask(i, 1, own[1], seq[i] + 1, hist, todo)
  /\ status' = [status EXCEPT ![i] = "active"]
  /\ bkey' = [bkey EXCEPT ![i] = k]
  /\ owners' = [owners EXCEPT ![i] = own]
  /\ UNCHANGED approved

(* Mutants: the completion condition is off by one; knows no or-sign; takes *)
(* every round for an or-sign.                                              *)
RoundOverLate(i, m) ==
  m > token[i].total \/ (SignRule[token[i].at] = "one" /\ m = 1)
RoundOverByAllOnly(i, m) == m >= token[i].total
RoundOverByAnyone(i, m) == m >= token[i].total \/ m = 1

(* the multi-instance completion condition, with m completed instances      *)
RoundOver(i, m) ==
  \/ m >= token[i].total
  \/ SignRule[token[i].at] = "one" /\ m = 1

(* TaskService.complete, when the round goes on                             *)
CompleteTask(t, own) ==
  LET i == t[1] IN
  /\ Live(t)
  /\ ~RoundOver(i, token[i].done + 1)
  /\ hist' = Ended(hist, {t}, "done")
  /\ todo' = todo \ {t}
  /\ token' = [token EXCEPT ![i].done = @ + 1]
  /\ owners' = [owners EXCEPT ![i] = Overlay(@, own)]
  /\ UNCHANGED <<status, bkey, seq, approved>>

(* TaskService.complete, when the round is over: the engine closes the      *)
(* siblings and the execution takes the outgoing flow.                      *)
CompleteRound(t, own) ==
  LET i == t[1]
      next == token[i].at + 1
      rows == Ended(Ended(hist, Tasks(i) \ {t}, "closed"), {t}, "done")
      vars == Overlay(owners[i], own)
  IN /\ Live(t)
     /\ RoundOver(i, token[i].done + 1)
     /\ \/ /\ next \in Activity
           /\ ArriveAtTask(i, next, vars[next], seq[i] + 1, rows, todo \ Tasks(i))
           /\ UNCHANGED status
        \/ ArriveAtEnd(i, next, seq[i], rows, todo \ Tasks(i))
     /\ owners' = [owners EXCEPT ![i] = vars]
     /\ UNCHANGED <<bkey, approved>>

(***************************************************************************)
(* CommonJumpTaskCmd, case c: the open tasks do not contain the target.    *)
(* The request's own task (if it is one of them) is closed as completed    *)
(* and marked approved, the others as deleted with the mark overwritten;   *)
(* without such a task a finished record is inserted for the target.  Then *)
(* the execution tree is rebuilt at the target, which may be any flow      *)
(* element, with the process variables as they are: at the end event the   *)
(* instance ends there and then.  Writing the comments fails on a          *)
(* suspended task.                                                         *)
(***************************************************************************)
JumpRecord(i, t, p) == IF t \in Tasks(i) THEN {} ELSE {<<i, seq[i] + 1, p>>}

(* Mutant: the synthetic record's id is handed out again.                   *)
JumpBatchReused(i, t) == seq[i] + 1

JumpBatch(i, t) == IF t \in Tasks(i) THEN seq[i] + 1 ELSE seq[i] + 2

JumpRows(i, t, p, target) ==
  Insert(Ended(Ended(hist, Tasks(i) \ {t}, "deleted"), Tasks(i) \cap {t}, "completed"),
         [u \in JumpRecord(i, t, p) |->
            [at |-> target, assignee |-> p, end |-> "completed"]])

Jump(i, t, p, target) ==
  LET next == Destination(target)
      rows == JumpRows(i, t, p, target)
  IN /\ status[i] = "active"
     /\ Tasks(i) # {}
     /\ target \notin {hist[u].at : u \in Tasks(i)}
     /\ \/ /\ next \in Activity
           /\ ArriveAtTask(i, next, owners[i][next], JumpBatch(i, t), rows, todo \ Tasks(i))
           /\ UNCHANGED status
        \/ ArriveAtEnd(i, next, JumpBatch(i, t) - 1, rows, todo \ Tasks(i))
     /\ approved' = (approved \ Tasks(i)) \cup (Tasks(i) \cap {t}) \cup JumpRecord(i, t, p)
     /\ UNCHANGED <<bkey, owners>>

-----------------------------------------------------------------------------
(* TaskService.setVariableLocal of the approval comment                     *)
Comment(t) ==
  /\ Live(t)
  /\ approved' = approved \cup {t}
  /\ UNCHANGED <<status, bkey, owners, token, seq, todo, hist>>

(* TaskService.unclaim and claim; the history row follows the assignee      *)
Unclaim(t) ==
  /\ Live(t)
  /\ hist' = [hist EXCEPT ![t].assignee = Nobody]
  /\ UNCHANGED <<status, bkey, owners, token, seq, todo, approved>>

Claim(t, p) ==
  /\ Live(t)
  /\ hist[t].assignee \in {Nobody, p}
  /\ hist' = [hist EXCEPT ![t].assignee = p]
  /\ UNCHANGED <<status, bkey, owners, token, seq, todo, approved>>

(* CommonTransferTaskCmd: a finished record of the hand-over, whatever has  *)
(* become of the task since                                                 *)
TransferRecord(t, p) ==
  LET i == t[1]
      id == <<i, seq[i] + 1, p>>
  IN /\ t \in DOMAIN hist
     /\ seq[i] < MaxBatch
     /\ hist' = Insert(hist, [u \in {id} |->
                  [at |-> hist[t].at, assignee |-> p, end |-> "transfer"]])
     /\ seq' = [seq EXCEPT ![i] = @ + 1]
     /\ approved' = approved \cup {id}
     /\ UNCHANGED <<status, bkey, owners, token, todo>>

(* RuntimeService.suspendProcessInstanceById, deleteProcessInstance         *)
Suspend(i) ==
  /\ status[i] = "active"
  /\ status' = [status EXCEPT ![i] = "suspended"]
  /\ UNCHANGED <<bkey, owners, token, seq, todo, hist, approved>>

(* Mutant: the delete reason goes to all rows of the instance.              *)
DeleteRewritingHistory(i) ==
  /\ Running(i)
  /\ status' = [status EXCEPT ![i] = "ended"]
  /\ hist' = Ended(hist, {t \in DOMAIN hist : t[1] = i}, "stopped")
  /\ todo' = todo \ Tasks(i)
  /\ UNCHANGED <<bkey, owners, token, seq, approved>>

Delete(i) ==
  /\ Running(i)
  /\ status' = [status EXCEPT ![i] = "ended"]
  /\ hist' = Ended(hist, Tasks(i), "stopped")
  /\ todo' = todo \ Tasks(i)
  /\ UNCHANGED <<bkey, owners, token, seq, approved>>

-----------------------------------------------------------------------------
TaskCommand(t) ==
  \/ \E own \in Owners : CompleteTask(t, own) \/ CompleteRound(t, own)
  \/ Comment(t)
  \/ Unclaim(t)
  \/ \E p \in Person : Claim(t, p) \/ TransferRecord(t, p)

InstanceCommand(i) ==
  \/ \E k \in BusinessKey, own \in Owners : StartProcess(i, k, own)
  \/ \E t \in DOMAIN hist \cup {NoTask}, p \in Person, e \in Targets \cap Element :
       Jump(i, t, p, e)
  \/ Suspend(i)
  \/ Delete(i)

EngineNext ==
  \/ \E t \in DOMAIN hist : TaskCommand(t)
  \/ \E i \in Instance : InstanceCommand(i)

EngineSpec == EngineInit /\ [][EngineNext]_engineVars

-----------------------------------------------------------------------------
(* Every table holds values of its column types.                            *)
TypeOK ==
  /\ status \in [Instance -> {"absent", "active", "suspended", "ended"}]
  /\ bkey \in [Instance -> BusinessKey \cup {NoKey}]
  /\ owners \in [Instance -> [Activity -> SUBSET Person]]
  /\ token \in [Instance -> Token]
  /\ seq \in [Instance -> Nat]
  /\ DOMAIN hist \subseteq TaskId
  /\ hist \in [DOMAIN hist -> Row]
  /\ todo \subseteq DOMAIN hist
  /\ approved \subseteq DOMAIN hist

(* The jump command edits ACT_RU_TASK and ACT_HI_TASKINST by hand, the      *)
(* engine's own commands do it for themselves: a task has a runtime row     *)
(* exactly while its historic row has no end.                               *)
RuntimeMatchesHistory == todo = {t \in DOMAIN hist : hist[t].end = "open"}

(* An instance never strands its execution: while it runs somebody can act  *)
(* on it, so "no task, not ended" (terminatedResult) is never its state;    *)
(* and once it has ended nothing of it is left to do.                       *)
NoStrandedInstance == \A i \in Instance : Running(i) <=> Tasks(i) # {}

(* All open tasks of an instance belong to the round its execution is in,   *)
(* however completions, jumps and stops interleave.                         *)
OneRoundOpen ==
  \A t \in todo : /\ t[2] = token[t[1]].round
                  /\ hist[t].at = token[t[1]].at

(* The execution's counters agree with the rows they count.                 *)
CountersMatchRows ==
  \A i \in Instance :
    IF Running(i)
    THEN /\ token[i].at \in Activity
         /\ token[i].round <= seq[i]
         /\ Cardinality(Tasks(i)) + token[i].done = token[i].total
         /\ Tasks(i) # {}
         /\ SignRule[token[i].at] = "one" => token[i].done = 0
    ELSE Tasks(i) = {}

(* In the round an execution is in, a task is either open or approved, and  *)
(* no approval of an or-sign round leaves the round open.                   *)
CurrentRound ==
  \A t \in DOMAIN hist :
    Running(t[1]) /\ t[2] = token[t[1]].round =>
      /\ hist[t].at = token[t[1]].at
      /\ hist[t].end \in {"open", "done"}
      /\ SignRule[hist[t].at] = "one" => hist[t].end = "open"

(* No id is handed out before its batch.                                    *)
IdsAreUsed == \A t \in DOMAIN hist : t[2] <= seq[t[1]]

(* Or-sign: of the owners asked in one round, at most one is ever counted   *)
(* as having approved.                                                      *)
OrSignOnce ==
  \A t, u \in DOMAIN hist :
    /\ hist[t].end = "done" /\ hist[u].end = "done"
    /\ t[1] = u[1] /\ t[2] = u[2]
    /\ SignRule[hist[t].at] = "one"
    => t = u

(* All-sign: a round is left by approval only when every owner has          *)
(* approved: in a finished round of an all-sign task nobody was closed by   *)
(* the engine on somebody else's approval.                                  *)
AllSignComplete ==
  \A t \in DOMAIN hist : hist[t].end = "closed" => SignRule[hist[t].at] # "all"

(* The inductive invariant behind all of these.                             *)
IInv ==
  /\ TypeOK
  /\ RuntimeMatchesHistory
  /\ OneRoundOpen
  /\ CountersMatchRows
  /\ CurrentRound
  /\ IdsAreUsed
  /\ OrSignOnce
  /\ AllSignComplete

(* A finished history row is never written again: neither a repeated        *)
(* submit, nor a jump over it, nor a stop can change who finished it or how.*)
FinishedIsFinal ==
  [][\A t \in DOMAIN hist :
       hist[t].end # "open" => t \in DOMAIN hist' /\ hist'[t] = hist[t]]_engineVars

(* An ended instance stays ended and gets no new task.                      *)
EndedIsFinal ==
  [][\A i \in Instance : status[i] = "ended" =>
       status'[i] = "ended" /\ {t \in todo' : t[1] = i} = {}]_engineVars

-----------------------------------------------------------------------------
(* The approval the tables stand for: the owners of the current round and   *)
(* those of them whose task was completed, read from the history.           *)
RoundTasks(i) == {t \in DOMAIN hist : t[1] = i /\ t[2] = token[i].round}
Seats(T) == {t[3] : t \in T}

(* activities with an earlier round that neither a jump nor a stop has cut  *)
(* short: one whose tasks are all approved or closed by an approval         *)
Passed(i) ==
  {hist[t].at : t \in {u \in DOMAIN hist \ RoundTasks(i) :
     /\ u[1] = i
     /\ \A v \in DOMAIN hist : v[1] = i /\ v[2] = u[2] => hist[v].end \in {"done", "closed"}}}

Stage(i) ==
  IF status[i] = "absent" THEN 0
  ELSE IF status[i] = "ended" /\ token[i].at # EndEvent THEN EndEvent + 1
  ELSE token[i].at

Asked(i) == IF Running(i) THEN Seats(RoundTasks(i)) ELSE {}
Signed(i) ==
  IF Running(i) THEN Seats({t \in RoundTasks(i) : hist[t].end = "done"}) ELSE {}

Flow == INSTANCE ApprovalFlow WITH
  stage <- [i \in Instance |-> Stage(i)],
  asked <- [i \in Instance |-> Asked(i)],
  signed <- [i \in Instance |-> Signed(i)],
  passed <- [i \in Instance |-> Passed(i)]

(* The engine's counters (nrOfInstances, nrOfCompletedInstances) and the    *)
(* hand-written jump implement the approval: nobody's signature is lost,    *)
(* counted twice or counted in a round it was not given in, and no activity *)
(* is left by approval before its rule is met.                              *)
ImplementsFlow == Flow!FlowSpec
=============================================================================
