---------------------------- MODULE ApprovalFlow ----------------------------
(***************************************************************************)
(* What an approval promises, without tables, counters or tasks: a process *)
(* instance stands at one activity, a set of owners is asked there, and    *)
(* the instance moves on by approval exactly when the activity's signature *)
(* rule is met.  The only other moves are a stop and a jump (rollback,     *)
(* withdraw, runTo), which asks afresh at some activity or finishes the    *)
(* instance; a jump never counts as an approval.                           *)
(***************************************************************************)
EXTENDS Naturals

CONSTANTS
  Instance,     \* process instances
  Person,       \* the owners who can be asked
  Activities,   \* the number of user tasks in the chain
  SignRule      \* "single", "all" or "one" for each

Activity == 1..Activities
Finished == Activities + 1
Stopped == Activities + 2

VARIABLES
  stage,   \* 0 before the start, then the activity, then Finished or Stopped
  asked,   \* the owners asked in the current round
  signed,  \* those of them who have approved in it
  passed   \* the activities left by approval so far

flowVars == <<stage, asked, signed, passed>>

(* the signature rule of the activity of i is met by the approvals S        *)
Enough(i, S) == IF SignRule[stage[i]] = "one" THEN S # {} ELSE S = asked[i]

FlowInit ==
  /\ stage = [i \in Instance |-> 0]
  /\ asked = [i \in Instance |-> {}]
  /\ signed = [i \in Instance |-> {}]
  /\ passed = [i \in Instance |-> {}]

(* i goes to s; owners are asked there when it is an activity               *)
MoveTo(i, s) ==
  /\ stage' = [stage EXCEPT ![i] = s]
  /\ \E O \in SUBSET Person :
       /\ s \in Activity <=> O # {}
       /\ asked' = [asked EXCEPT ![i] = O]
  /\ signed' = [signed EXCEPT ![i] = {}]

Start(i) == stage[i] = 0 /\ MoveTo(i, 1) /\ UNCHANGED passed

Approve(i, p) ==
  /\ stage[i] \in Activity
  /\ p \in asked[i] \ signed[i]
  /\ \/ /\ Enough(i, signed[i] \cup {p})
        /\ MoveTo(i, stage[i] + 1)
        /\ passed' = [passed EXCEPT ![i] = @ \cup {stage[i]}]
     \/ /\ ~Enough(i, signed[i] \cup {p})
        /\ signed' = [signed EXCEPT ![i] = @ \cup {p}]
        /\ UNCHANGED <<stage, asked, passed>>

JumpTo(i, s) ==
  /\ stage[i] \in Activity
  /\ s \in Activity \cup {Finished}
  /\ MoveTo(i, s)
  /\ UNCHANGED passed

Stop(i) == stage[i] \in Activity /\ MoveTo(i, Stopped) /\ UNCHANGED passed

FlowNext ==
  \E i \in Instance :
    \/ Start(i)
    \/ Stop(i)
    \/ \E p \in Person : Approve(i, p)
    \/ \E s \in Activity \cup {Finished} : JumpTo(i, s)

FlowSpec == FlowInit /\ [][FlowNext]_flowVars
=============================================================================
