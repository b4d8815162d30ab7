-------------------------- MODULE MCWorkflowExecute --------------------------
(* Two server threads and a staff of two on expenseAccount.bpmn20.xml.      *)
EXTENDS WorkflowExecute, TLC

CONSTANTS ann, bob

MCPerson == {ann, bob}

(* draft, bizCheck and finCheck                                             *)
FullRule == <<"single", "all", "one">>
FullChoices == {<<{ann}, {ann, bob}, {bob}>>}

(* the tail of the chain                                                    *)
ShortRule == <<"all", "one">>
ShortChoices == {<<{ann, bob}, {ann, bob}>>}

(* starts only: the draft has one owner, none, or one too many              *)
DraftRule == <<"single">>
DraftChoices == {<<{ann}>>, <<{}>>, <<{ann, bob}>>}

(* Behaviours that begin when the only instance has just been started.      *)
StartedInit ==
  LET i == CHOOSE j \in Instance : TRUE
      own == CHOOSE o \in Owners : o[1] # {}
      fresh == Batch(i, 1, own[1])
  IN /\ status = [j \in Instance |-> "active"]
     /\ bkey = [j \in Instance |-> CHOOSE k \in BusinessKey : TRUE]
     /\ owners = [j \in Instance |-> own]
     /\ token = [j \in Instance |->
                   [at |-> 1, round |-> 1, total |-> Cardinality(own[1]), done |-> 0]]
     /\ seq = [j \in Instance |-> 1]
     /\ todo = fresh
     /\ hist = [t \in fresh |-> [at |-> 1, assignee |-> t[3], end |-> "open"]]
     /\ approved = {}
     /\ pc = [c \in Client |-> "idle"]
     /\ req = [c \in Client |-> NoRequest]
     /\ answer = "running"
     /\ served = 0
     /\ aborts = 0

StartedSpec == StartedInit /\ [][ExecuteNext]_vars
FairStartedSpec == StartedSpec /\ \A c \in Client : WF_vars(Proceed(c))

Staff == Permutations(Client)
=============================================================================
