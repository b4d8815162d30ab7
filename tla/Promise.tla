------------------------------ MODULE Promise -------------------------------
(* What a Deferred promises to the code that holds it: it is settled at most *)
(* once, one way and with one data, and a handler that asked for an outcome  *)
(* of it is called at most once, after it and with its data.                 *)
EXTENDS FiniteSets

CONSTANTS Promises, Handlers, Data, Pending

VARIABLES
  outcome,   \* promise -> Pending, or [how, data]
  wants,     \* handler -> the [on, how] it was registered for
  told       \* handler -> Pending, or the data it was called with

vars == <<outcome, wants, told>>

How == {"resolved", "rejected"}

Init ==
  /\ outcome = [p \in Promises |-> Pending]
  /\ wants = [h \in Handlers |-> {}]
  /\ told = [h \in Handlers |-> Pending]

Settle(p) ==
  /\ outcome[p] = Pending
  /\ outcome'[p] \in [how : How, data : Data]
  /\ outcome' = [outcome EXCEPT ![p] = outcome'[p]]
  /\ UNCHANGED <<wants, told>>

(* done, fail and always, with a handler that is on no promise yet.          *)
Register(h, p) ==
  /\ wants[h] = {}
  /\ wants'[h] \in SUBSET [on : {p}, how : How]
  /\ wants' = [wants EXCEPT ![h] = wants'[h]]
  /\ UNCHANGED <<outcome, told>>

Tell(h) ==
  /\ told[h] = Pending
  /\ \E w \in wants[h] :
       /\ outcome[w.on] # Pending
       /\ outcome[w.on].how = w.how
       /\ told' = [told EXCEPT ![h] = outcome[w.on].data]
  /\ UNCHANGED <<outcome, wants>>

Next ==
  \/ \E p \in Promises : Settle(p)
  \/ \E h \in Handlers, p \in Promises : Register(h, p)
  \/ \E h \in Handlers : Tell(h)

Spec == Init /\ [][Next]_vars
=============================================================================
