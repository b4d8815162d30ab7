--------------------------- MODULE WorkflowExecute ---------------------------
(***************************************************************************)
(* WorkflowExecuteServiceImpl: the request handlers of the approval        *)
(* service.  A handler is not a transaction.  It reads the engine's        *)
(* tables, decides, and then issues engine commands, each of which commits *)
(* on its own; other server threads run between any two of these steps.    *)
(* A handler is modelled as one action per read it acts upon and one per   *)
(* command it issues.  Arguments are validated, and the first read made,   *)
(* in the step in which the request arrives.                               *)
(***************************************************************************)
EXTENDS ApprovalEngine

CONSTANTS
  Client,      \* server threads, each serving one request at a time
  Operations,  \* the operations that requests may call for
  MaxRequests, \* bound: requests accepted in a behaviour
  MaxAborts    \* bound: requests that die between two commands

ASSUME ExecuteAssumption ==
  /\ IsFiniteSet(Client)
  /\ Operations \subseteq {"start", "submit", "rollback", "withdraw", "runTo",
                           "transfer", "stop"}
  /\ MaxRequests \in Nat
  /\ MaxAborts \in Nat

VARIABLES
  pc,      \* what each thread does next
  req,     \* the request it serves
  answer,  \* the last answer given: the status returned or the exception thrown
  served,  \* requests accepted so far
  aborts   \* requests that died so far

clientVars == <<pc, req, answer, served, aborts>>
vars == <<engineVars, clientVars>>

Request ==
  [op : Operations \cup {"none"}, inst : Instance \cup {NoTask},
   task : TaskId \cup {NoTask}, key : BusinessKey \cup {NoKey},
   person : Person \cup {Nobody}, heir : Person \cup {Nobody},
   target : Element \cup {NoElement}, own : [Activity -> SUBSET Person]]

NoRequest == [op |-> "none", inst |-> NoTask, task |-> NoTask, key |-> NoKey,
              person |-> Nobody, heir |-> Nobody, target |-> 0, own |-> NoOwners]

ExecuteInit ==
  /\ EngineInit
  /\ pc = [c \in Client |-> "idle"]
  /\ req = [c \in Client |-> NoRequest]
  /\ answer = "none"
  /\ served = 0
  /\ aborts = 0

-----------------------------------------------------------------------------
(* a request r arrives and the handler goes on at step s                    *)
Accept(c, r, s) ==
  /\ pc[c] = "idle"
  /\ r.op \in Operations
  /\ served < MaxRequests
  /\ served' = served + 1
  /\ pc' = [pc EXCEPT ![c] = s]
  /\ req' = [req EXCEPT ![c] = r]
  /\ UNCHANGED <<answer, aborts>>

(* a request r arrives and is answered at once, without a command           *)
Refuse(c, r, result) ==
  /\ pc[c] = "idle"
  /\ r.op \in Operations
  /\ served < MaxRequests
  /\ served' = served + 1
  /\ answer' = result
  /\ UNCHANGED <<pc, req, aborts, engineVars>>

Goto(c, s) ==
  /\ pc' = [pc EXCEPT ![c] = s]
  /\ UNCHANGED <<req, answer, served, aborts>>

Answer(c, result) ==
  /\ pc' = [pc EXCEPT ![c] = "idle"]
  /\ req' = [req EXCEPT ![c] = NoRequest]
  /\ answer' = result
  /\ UNCHANGED <<served, aborts>>

(* the command throws: its transaction rolls back, the handler is left      *)
Throw(c) == Answer(c, "failed") /\ UNCHANGED engineVars

-----------------------------------------------------------------------------
(* start: createOrGetInstance counts the instances of the business key ...  *)
(* Mutant: suspended instances are not counted.                             *)
InstancesOfActive(k) == {i \in Instance : bkey[i] = k /\ status[i] = "active"}

InstancesOf(k) == {i \in Instance : bkey[i] = k /\ Running(i)}
ActiveOf(k) == {i \in InstancesOf(k) : status[i] = "active"}

StartRequest(k, own) == [NoRequest EXCEPT !.op = "start", !.key = k, !.own = own]

StartQuery(c, k, own) ==
  LET r == StartRequest(k, own) IN
  \/ /\ own \in Owners
     /\ Accept(c, r, IF InstancesOf(k) = {} THEN "create" ELSE "choose")
     /\ UNCHANGED engineVars
  \/ own \notin Owners /\ Refuse(c, r, "ownersOnlyOne")

(* ... none: start one; the draft's owner must be among the variables       *)
StartCreate(c) ==
  /\ pc[c] = "create"
  /\ \/ /\ \E i \in Instance : StartProcess(i, req[c].key, req[c].own)
        /\ Answer(c, "running")
     \/ req[c].own[1] = {} /\ Throw(c)

(* ... some: reuse the only active one                                      *)
StartChoose(c) ==
  LET n == Cardinality(ActiveOf(req[c].key)) IN
  /\ pc[c] = "choose"
  /\ Answer(c, IF n = 1 THEN "running"
               ELSE IF n > 1 THEN "moreThanOne" ELSE "notActivated")
  /\ UNCHANGED engineVars

-----------------------------------------------------------------------------
(* submit: completeTask looks the task up among the active ones; a task     *)
(* that is not there may have been finished by this operator before.        *)
SubmitRequest(t, p, a, own) ==
  [NoRequest EXCEPT !.op = "submit", !.inst = t[1], !.task = t, !.person = p,
                    !.target = a, !.own = own]

SubmitQuery(c, t, p, a, own) ==
  LET r == SubmitRequest(t, p, a, own)
      mine == a = hist[t].at /\ p = hist[t].assignee
  IN \/ /\ own \in Owners
        /\ Live(t) => mine
        /\ Accept(c, r, IF Live(t) THEN "comment" ELSE "lookup")
        /\ UNCHANGED engineVars
     \/ own \notin Owners /\ Refuse(c, r, "ownersOnlyOne")
     \/ own \in Owners /\ Live(t) /\ ~mine /\ Refuse(c, r, "taskError")

(* Mutant: any task of the operator passes for a repeated submit.           *)
SubmitLookupUnfinished(c) ==
  LET t == req[c].task
      repeated == hist[t].assignee = req[c].person /\ hist[t].at = req[c].target
  IN /\ pc[c] = "lookup"
     /\ IF repeated THEN Goto(c, "reply") ELSE Answer(c, "taskNotFound")
     /\ UNCHANGED engineVars

SubmitLookup(c) ==
  LET t == req[c].task
      repeated == /\ hist[t].end # "open"
                  /\ hist[t].assignee = req[c].person
                  /\ hist[t].at = req[c].target
  IN /\ pc[c] = "lookup"
     /\ IF repeated THEN Goto(c, "reply") ELSE Answer(c, "taskNotFound")
     /\ UNCHANGED engineVars

(* Mutant: the comment is written whatever has become of the task.          *)
SubmitCommentUnchecked(c) ==
  /\ pc[c] = "comment"
  /\ approved' = approved \cup {req[c].task}
  /\ UNCHANGED <<status, bkey, owners, token, seq, todo, hist>>
  /\ Goto(c, "complete")

(* addComments: an exception is caught and logged                           *)
SubmitComment(c) ==
  LET t == req[c].task IN
  /\ pc[c] = "comment"
  /\ IF Live(t) THEN Comment(t) ELSE UNCHANGED engineVars
  /\ Goto(c, "complete")

(* complete() throws when the task is gone or suspended, or when the next   *)
(* activity's owners are not known                                          *)
NextOwnersKnown(t, own) ==
  LET next == token[t[1]].at + 1 IN
  next \in Activity => Overlay(owners[t[1]], own)[next] # {}

CompleteFails(t, own) ==
  \/ ~Live(t)
  \/ Live(t) /\ RoundOver(t[1], token[t[1]].done + 1) /\ ~NextOwnersKnown(t, own)

SubmitComplete(c) ==
  LET t == req[c].task
      own == req[c].own
  IN /\ pc[c] = "complete"
     /\ \/ CompleteTask(t, own) /\ Goto(c, "reply")
        \/ CompleteRound(t, own) /\ Goto(c, "reply")
        \/ CompleteFails(t, own) /\ Throw(c)

-----------------------------------------------------------------------------
(* rollback, withdraw, runTo.  The first two demand a finished task of the  *)
(* target in the history; of the target of a runTo only the spelling is     *)
(* checked.  A withdraw carries no task id.  The owners of the request are  *)
(* checked and not used.  None of the three asks who the operator is.       *)
JumpRequest(op, i, t, p, target) ==
  [NoRequest EXCEPT !.op = op, !.inst = i, !.task = t, !.person = p, !.target = target]

(* Mutant: any finished task makes every activity a history node.           *)
IsHistoryNodeAny(i, a) == \E t \in DOMAIN hist : t[1] = i /\ hist[t].end # "open"

IsHistoryNode(i, a) ==
  \E t \in DOMAIN hist : t[1] = i /\ hist[t].at = a /\ hist[t].end # "open"

JumpCheck(c, op, i, t, p, target, own) ==
  LET r == JumpRequest(op, i, t, p, target)
      allowed == op \in {"rollback", "withdraw"} => IsHistoryNode(i, target)
  IN /\ status[i] # "absent"
     /\ op = "withdraw" => t = NoTask
     /\ \/ allowed /\ own \in Owners /\ Accept(c, r, "jump") /\ UNCHANGED engineVars
        \/ allowed /\ own \notin Owners /\ Refuse(c, r, "ownersOnlyOne")
        \/ ~allowed /\ Refuse(c, r, "notHistoryNode")

(* the command does nothing without open tasks (the instance has ended) or  *)
(* when they all stand at the target already (case a)                       *)
OpenActivities(i) == {hist[u].at : u \in Tasks(i)}
NothingToJump(i, a) == OpenActivities(i) \subseteq {a}

(* it throws when the target is one of several open activities (case b) or  *)
(* no element (activityNotFound), when a task is suspended, or when nobody  *)
(* is known to own the task it leads to                                     *)
JumpFails(i, a) ==
  /\ ~NothingToJump(i, a)
  /\ \/ a \in OpenActivities(i) \cup {NoElement}
     \/ status[i] # "active"
     \/ Destination(a) \in Activity /\ owners[i][Destination(a)] = {}

JumpExecute(c) ==
  LET i == req[c].inst
      a == req[c].target
  IN /\ pc[c] = "jump"
     /\ \/ NothingToJump(i, a) /\ Goto(c, "reply") /\ UNCHANGED engineVars
        \/ a \in Element /\ Jump(i, req[c].task, req[c].person, a) /\ Goto(c, "reply")
        \/ JumpFails(i, a) /\ Throw(c)

-----------------------------------------------------------------------------
(* transfer: the task must be an active one of the operator.  The activity  *)
(* of the request is not compared (the filter is applied only to a blank    *)
(* one).  claim() gives the task away in two commands, the record is a      *)
(* third; before them, for an heir who stands in for somebody (an Approver  *)
(* with a bailor), it writes the owner column, which nothing reads.         *)
TransferRequest(t, p, heir) ==
  [NoRequest EXCEPT !.op = "transfer", !.inst = t[1], !.task = t, !.person = p, !.heir = heir]

TransferQuery(c, t, p, heir) ==
  LET r == TransferRequest(t, p, heir)
      mine == Live(t) /\ hist[t].assignee = p
  IN \/ mine /\ heir # p /\ UNCHANGED engineVars
        /\ \E s \in {"owner", "unclaim"} : Accept(c, r, s)
     \/ status[t[1]] = "ended" /\ Refuse(c, r, "stopped")
     \/ status[t[1]] # "ended" /\ heir = p /\ Refuse(c, r, "notToYourself")
     \/ status[t[1]] # "ended" /\ heir # p /\ ~mine /\ Refuse(c, r, "taskNotFound")

(* setOwner throws on a task that is gone or suspended                      *)
TransferSetOwner(c) ==
  /\ pc[c] = "owner"
  /\ \/ Live(req[c].task) /\ Goto(c, "unclaim") /\ UNCHANGED engineVars
     \/ ~Live(req[c].task) /\ Throw(c)

(* Mutant: the claim after the unclaim is forgotten.                        *)
TransferUnclaimOnly(c) ==
  LET t == req[c].task IN
  /\ pc[c] = "unclaim"
  /\ \/ Unclaim(t) /\ Goto(c, "record")
     \/ ~Live(t) /\ Throw(c)

TransferUnclaim(c) ==
  LET t == req[c].task IN
  /\ pc[c] = "unclaim"
  /\ \/ Unclaim(t) /\ Goto(c, "claim")
     \/ ~Live(t) /\ Throw(c)

(* Mutant: the claim may throw although the task is free.                   *)
TransferClaimGivingUp(c) ==
  /\ pc[c] = "claim"
  /\ \/ Claim(req[c].task, req[c].heir) /\ Goto(c, "record")
     \/ Throw(c)

(* claiming a task that somebody else holds by now throws                   *)
TransferClaim(c) ==
  LET t == req[c].task
      heir == req[c].heir
  IN /\ pc[c] = "claim"
     /\ \/ Claim(t, heir) /\ Goto(c, "record")
        \/ ~(Live(t) /\ hist[t].assignee \in {Nobody, heir}) /\ Throw(c)

TransferFinish(c) ==
  /\ pc[c] = "record"
  /\ TransferRecord(req[c].task, req[c].person)
  /\ Answer(c, "running")

-----------------------------------------------------------------------------
(* stop: suspend, then delete; suspending twice throws                      *)
StopRequest(i) == [NoRequest EXCEPT !.op = "stop", !.inst = i]

StopQuery(c, i) ==
  \/ Running(i) /\ Accept(c, StopRequest(i), "suspend") /\ UNCHANGED engineVars
  \/ ~Running(i) /\ Refuse(c, StopRequest(i), "stopped")

(* Mutant: the instance is suspended and never deleted.                     *)
StopSuspendOnly(c) ==
  LET i == req[c].inst IN
  /\ pc[c] = "suspend"
  /\ \/ Suspend(i) /\ Answer(c, "stopped")
     \/ status[i] # "active" /\ Throw(c)

StopSuspend(c) ==
  LET i == req[c].inst IN
  /\ pc[c] = "suspend"
  /\ \/ Suspend(i) /\ Goto(c, "delete")
     \/ status[i] # "active" /\ Throw(c)

StopDelete(c) ==
  LET i == req[c].inst IN
  /\ pc[c] = "delete"
  /\ \/ Delete(i) /\ Answer(c, "stopped")
     \/ ~Running(i) /\ Throw(c)

-----------------------------------------------------------------------------
(* toResult: the active tasks are read first; when there are none,          *)
(* terminatedResult reads the instance.  runTo asks claimTasks for the      *)
(* tasks, which returns null.                                               *)
(* Mutant: only the tasks of the operator are looked for.                   *)
TodoOfOperator(c) ==
  {t \in Tasks(req[c].inst) : Live(t) /\ hist[t].assignee = req[c].person}

TodoOf(c) ==
  IF req[c].op = "runTo" THEN {} ELSE {t \in Tasks(req[c].inst) : Live(t)}

Reply(c) ==
  /\ pc[c] = "reply"
  /\ IF TodoOf(c) # {} THEN Answer(c, "running") ELSE Goto(c, "terminated")
  /\ UNCHANGED engineVars

TerminatedResult(c) ==
  /\ pc[c] = "terminated"
  /\ Answer(c, IF status[req[c].inst] = "ended" THEN "terminated" ELSE "taskMiss")
  /\ UNCHANGED engineVars

(* The request dies between two of its commands: the server goes down, or   *)
(* the next command loses the engine's optimistic lock and throws.          *)
Abort(c) ==
  /\ pc[c] # "idle"
  /\ aborts < MaxAborts
  /\ aborts' = aborts + 1
  /\ pc' = [pc EXCEPT ![c] = "idle"]
  /\ req' = [req EXCEPT ![c] = NoRequest]
  /\ answer' = "failed"
  /\ UNCHANGED <<served, engineVars>>

-----------------------------------------------------------------------------
Arrive(c) ==
  /\ pc[c] = "idle" /\ served < MaxRequests
  /\ \/ \E k \in BusinessKey, own \in OwnerChoices : StartQuery(c, k, own)
     \/ \E t \in DOMAIN hist, p \in Person, a \in Activity, own \in OwnerChoices :
          SubmitQuery(c, t, p, a, own)
     \/ \E op \in {"rollback", "withdraw", "runTo"} \cap Operations, i \in Instance,
          t \in DOMAIN hist \cup {NoTask}, p \in Person, a \in Targets, own \in OwnerChoices :
          JumpCheck(c, op, i, t, p, a, own)
     \/ \E t \in DOMAIN hist, p \in Person, heir \in Person : TransferQuery(c, t, p, heir)
     \/ \E i \in Instance : StopQuery(c, i)

Proceed(c) ==
  \/ StartCreate(c) \/ StartChoose(c)
  \/ SubmitLookup(c) \/ SubmitComment(c) \/ SubmitComplete(c)
  \/ JumpExecute(c)
  \/ TransferSetOwner(c) \/ TransferUnclaim(c) \/ TransferClaim(c) \/ TransferFinish(c)
  \/ StopSuspend(c) \/ StopDelete(c)
  \/ Reply(c) \/ TerminatedResult(c)

ExecuteNext == \E c \in Client : Arrive(c) \/ Proceed(c) \/ Abort(c)

ExecuteSpec == ExecuteInit /\ [][ExecuteNext]_vars

(* A server thread that has taken a request runs on; users owe nothing.     *)
FairExecuteSpec == ExecuteSpec /\ \A c \in Client : WF_vars(Proceed(c))

-----------------------------------------------------------------------------
Steps == {"idle", "create", "choose", "comment", "lookup", "complete", "jump",
          "owner", "unclaim", "claim", "record", "suspend", "delete", "reply", "terminated"}

(* Threads are at known steps and carry requests for known tasks.           *)
ExecuteTypeOK ==
  /\ TypeOK
  /\ pc \in [Client -> Steps]
  /\ req \in [Client -> Request]
  /\ \A c \in Client :
       /\ req[c].op = "none" <=> pc[c] = "idle"
       /\ req[c].task \in DOMAIN hist \cup {NoTask}
  /\ served \in 0..MaxRequests
  /\ aborts \in 0..MaxAborts

(* The handlers touch the tables by engine commands only, one at a time:    *)
(* whatever holds of the engine holds under every interleaving of handlers. *)
ImplementsEngine == EngineSpec

(* A submit is acknowledged only when its task is over: neither the         *)
(* idempotent path (a repeated submit) nor a completion that lost a race is *)
(* ever acknowledged while the task is still open.                          *)
SubmitAnsweredWhenOver ==
  \A c \in Client : pc[c] = "reply" /\ req[c].op = "submit" =>
    hist[req[c].task].end # "open"

(* A task without an assignee can be submitted and transferred by nobody.   *)
(* While requests do not die, claim() leaves a task of an active instance   *)
(* unassigned only between its two commands, with a thread on its way to    *)
(* assign it, whatever overlapping transfers and stops do meanwhile.        *)
UnassignedOnlyMidTransfer ==
  \A t \in todo : Live(t) /\ hist[t].assignee = Nobody =>
    \E c \in Client : pc[c] = "claim" /\ req[c].task = t

(* activity b of i has been signed off as its rule demands, in some round   *)
SignedOff(i, b) ==
  \E t \in DOMAIN hist :
    /\ t[1] = i /\ hist[t].at = b /\ hist[t].end = "done"
    /\ \/ SignRule[b] = "one"
       \/ \A u \in DOMAIN hist : u[1] = i /\ u[2] = t[2] => hist[u].end = "done"

(* Rollback and withdraw trust the history, which also holds tasks closed   *)
(* by jumps, synthetic jump records and transfer records.  Even so, without *)
(* runTo no activity is ever reached, and no approval ever ends, past an    *)
(* activity that was not signed off at least once.                          *)
NoActivitySkipped ==
  \A i \in Instance, b \in Activity :
    (\/ b < token[i].at
     \/ \E t \in DOMAIN hist : t[1] = i /\ b < hist[t].at) => SignedOff(i, b)

(* Starts that overlap can create several instances of one business key,    *)
(* but never more than there are threads to overlap: once one is visible no *)
(* later start adds to them.                                                *)
DuplicatesBoundedByThreads ==
  \A k \in BusinessKey :
    Cardinality({i \in Instance : bkey[i] = k /\ Running(i)})
      + Cardinality({c \in Client : pc[c] = "create" /\ req[c].key = k})
        <= Cardinality(Client)

(* "taskMiss" says that the instance runs and has nothing to do             *)
(* (AbstractProcessCommonService:327).                                      *)
ToldTaskMiss(c) == pc[c] = "terminated" /\ pc'[c] = "idle" /\ answer' = "taskMiss"

TaskMissMeansNothingToDo ==
  [][\A c \in Client :
       ToldTaskMiss(c) => {t \in Tasks(req[c].inst) : Live(t)} = {}]_vars

(* A running instance always has something to do, and the answer is put     *)
(* together from two reads between which others run.  While requests do not *)
(* die, nobody is told taskMiss except in the middle of a stop: between the *)
(* two reads and the stop's two commands, some thread has suspended the     *)
(* instance and is about to delete it.                                      *)
TaskMissOnlyMidStop ==
  [][\A c \in Client : ToldTaskMiss(c) =>
       \E d \in Client : pc[d] = "delete" /\ req[d].inst = req[c].inst]_vars

(* A business key never has two active instances                            *)
(* (WorkflowExecuteServiceImpl:247).                                        *)
OneActivePerKey == \A k \in BusinessKey : Cardinality(ActiveOf(k)) <= 1

(* A finished task that carries _@approval was finished by a person: it was *)
(* completed, jumped from or transferred (AbstractProcessCommonService:141).*)
ApprovedByHand ==
  \A t \in approved : hist[t].end \notin {"closed", "deleted", "stopped"}

(* A stop that has suspended its instance goes on to end it: an instance    *)
(* does not stay suspended, where nothing can be submitted, jumped or       *)
(* started again under its key.                                             *)
SuspendedIsStopped ==
  \A i \in Instance : status[i] = "suspended" ~> status[i] = "ended"

(* When a transfer has taken a task from its assignee a time comes at which *)
(* every open task of the instance is somebody's again: each task found a   *)
(* new assignee, or was closed together with its round.                     *)
OrphanIsRescued ==
  \A i \in Instance :
    (\E t \in todo : t[1] = i /\ hist[t].assignee = Nobody)
      ~> (\A t \in todo : t[1] = i => hist[t].assignee # Nobody)
=============================================================================
