-------------------------------- MODULE Ajax --------------------------------
(* jQuery.ajax: what the browser client does between the call and the       *)
(* last of its callbacks.  The code is single-threaded, but it calls out to *)
(* the page at a dozen places, and there the page may abort a request,      *)
(* begin another one, or throw.  `calls` is the JavaScript stack, innermost *)
(* frame first; a frame stands where the page's code may be running, except *)
(* where PageCode says otherwise.                                           *)
EXTENDS Integers, Sequences, FiniteSets

CONSTANTS
  Request,          \* the jqXHRs that may be created
  Options,          \* the settings they may be created with
  MaxAborts,        \* calls of abort by the page
  MaxThrows         \* exceptions that leave the page's code

(* kind: how it is transported; "cached" is an asynchronous request that is *)
(* complete as soon as it is sent, "none" one that no transport takes.      *)
(* before: it has a beforeSend.                                             *)
Option ==
  [kind : {"async", "sync", "cached", "script", "none"},
   timeout : BOOLEAN, global : BOOLEAN, before : BOOLEAN]

ASSUME AjaxAssumption ==
  /\ IsFiniteSet(Request)
  /\ Options \subseteq Option
  /\ \A o \in Options : o.kind = "script" => ~o.global
  /\ MaxAborts \in Nat
  /\ MaxThrows \in Nat

VARIABLES
  opt,         \* the settings s of a request
  state,       \* 0 before send, 1 sent, 2 done
  at,          \* where jQuery.ajax() stands for the request
  fin,         \* where done() stands for it
  calls,       \* the stack
  transport,   \* the variable `transport` is set
  listening,   \* the transport's own `callback` is set
  net,         \* what the browser has made of it
  timer,       \* timeoutTimer is running
  fireGlobals, \* the request takes part in the global events
  active,      \* jQuery.active
  busy,        \* an indicator: on at ajaxStart, off at ajaxStop
  result,      \* how done() was called
  told,        \* which list of the deferred was fired
  again,       \* history: the requests that were sent though they were done
  aborts, throws

progress == <<state, at, fin, calls>>
wire == <<transport, listening, net, timer>>
globals == <<fireGlobals, active, busy, again>>
outcome == <<result, told>>
vars == <<opt, progress, wire, globals, outcome, aborts, throws>>

BeginPlace == {"prefilter", "ajaxStart", "beforeSend", "ajaxSend", "send"}
DonePlace == {"dataFilter", "settled", "ajaxEvent", "complete", "ajaxComplete", "ajaxStop"}
Result == {"none", "data", "success", "notmodified", "parsererror", "error",
           "abort", "timeout", "canceled"}
Good == {"success", "notmodified"}
Frame == [in : {"begin", "done"}, req : Request]

Begun(r) == [in |-> "begin", req |-> r]
Ending(r) == [in |-> "done", req |-> r]

AjaxTypeOK ==
  /\ opt \in [Request -> Option]
  /\ state \in [Request -> 0..2]
  /\ at \in [Request -> BeginPlace \cup {"new", "returned", "broken"}]
  /\ fin \in [Request -> DonePlace \cup {"no", "over", "broken"}]
  /\ calls \in Seq(Frame)
  /\ transport \in [Request -> BOOLEAN]
  /\ listening \in [Request -> BOOLEAN]
  /\ net \in [Request -> {"idle", "open", "complete", "over"}]
  /\ timer \in [Request -> BOOLEAN]
  /\ fireGlobals \in [Request -> BOOLEAN]
  /\ active \in Int
  /\ busy \in BOOLEAN
  /\ result \in [Request -> Result]
  /\ told \in [Request -> {"no", "success", "error"}]
  /\ again \subseteq Request
  /\ aborts \in 0..MaxAborts
  /\ throws \in 0..MaxThrows

AjaxInit ==
  /\ opt = [r \in Request |->
            [kind |-> "none", timeout |-> FALSE, global |-> FALSE, before |-> FALSE]]
  /\ state = [r \in Request |-> 0]
  /\ at = [r \in Request |-> "new"]
  /\ fin = [r \in Request |-> "no"]
  /\ calls = <<>>
  /\ transport = [r \in Request |-> FALSE]
  /\ listening = [r \in Request |-> FALSE]
  /\ net = [r \in Request |-> "idle"]
  /\ timer = [r \in Request |-> FALSE]
  /\ fireGlobals = [r \in Request |-> FALSE]
  /\ active = 0
  /\ busy = FALSE
  /\ result = [r \in Request |-> "none"]
  /\ told = [r \in Request |-> "no"]
  /\ again = {}
  /\ aborts = 0
  /\ throws = 0

-----------------------------------------------------------------------------
(* The stack.                                                               *)

Idle == calls = <<>>
Running(f) == calls # <<>> /\ Head(calls) = f
InBegin(r, p) == Running(Begun(r)) /\ at[r] = p
InDone(r, p) == Running(Ending(r)) /\ fin[r] = p

(* The page's code runs: a task of its own, or a callback.  There is none at *)
(* send(), nor where a beforeSend would stand, unless the request is done   *)
(* and its callbacks, which are added here, are called at once; and a        *)
(* deferred that has settled before has nobody left to tell.                *)
PageCode ==
  \A r \in Request :
    /\ ~InBegin(r, "send")
    /\ InBegin(r, "beforeSend") => opt[r].before \/ state[r] = 2
    /\ InDone(r, "settled") \/ InDone(r, "complete") => r \notin again

(* The lists of the deferred fire once: it settles at the first call.       *)
Settle(r, how) ==
  told' = [told EXCEPT ![r] = IF @ # "no" THEN @
                              ELSE IF how \in Good THEN "success" ELSE "error"]

(* Mutant: done() does not clear the timer.                                *)
DoneStartsKeepsTimer(r, how, rest) ==
  /\ state' = [state EXCEPT ![r] = 2]
  /\ timer' = timer
  /\ transport' = [transport EXCEPT ![r] = FALSE]
  /\ result' = [result EXCEPT ![r] = how]
  /\ calls' = <<Ending(r)>> \o rest
  /\ IF how = "data"
     THEN fin' = [fin EXCEPT ![r] = "dataFilter"] /\ told' = told
     ELSE fin' = [fin EXCEPT ![r] = "settled"] /\ Settle(r, how)

(* done(), up to the first code of the page.                                *)
DoneStarts(r, how, rest) ==
  /\ state' = [state EXCEPT ![r] = 2]
  /\ timer' = [timer EXCEPT ![r] = FALSE]
  /\ transport' = [transport EXCEPT ![r] = FALSE]
  /\ result' = [result EXCEPT ![r] = how]
  /\ calls' = <<Ending(r)>> \o rest
  /\ IF how = "data"
     THEN fin' = [fin EXCEPT ![r] = "dataFilter"] /\ told' = told
     ELSE fin' = [fin EXCEPT ![r] = "settled"] /\ Settle(r, how)

-----------------------------------------------------------------------------
(* jQuery.ajax().                                                           *)

(* The call, up to the prefilters; that of "script" takes a cross-domain    *)
(* request out of the global events.                                        *)
Begin(r) ==
  /\ at[r] = "new"
  /\ PageCode
  /\ \E o \in Options : opt' = [opt EXCEPT ![r] = o]
  /\ at' = [at EXCEPT ![r] = "prefilter"]
  /\ calls' = <<Begun(r)>> \o calls
  /\ UNCHANGED <<state, fin, wire, globals, outcome, aborts, throws>>

(* A prefilter has aborted the request: jQuery.ajax returns.                *)
AbortedInPrefilter(r) ==
  /\ InBegin(r, "prefilter")
  /\ state[r] = 2
  /\ at' = [at EXCEPT ![r] = "returned"]
  /\ calls' = Tail(calls)
  /\ UNCHANGED <<opt, state, fin, wire, globals, outcome, aborts, throws>>

(* "Watch for a new set of requests".                                       *)
Enlist(r) ==
  /\ InBegin(r, "prefilter")
  /\ state[r] # 2
  /\ fireGlobals' = [fireGlobals EXCEPT ![r] = opt[r].global]
  /\ active' = IF opt[r].global THEN active + 1 ELSE active
  /\ LET first == opt[r].global /\ active = 0
     IN /\ busy' = (busy \/ first)
        /\ at' = [at EXCEPT ![r] = IF first THEN "ajaxStart" ELSE "beforeSend"]
  /\ UNCHANGED <<opt, state, fin, calls, wire, again, outcome, aborts, throws>>

AfterAjaxStart(r) ==
  /\ InBegin(r, "ajaxStart")
  /\ at' = [at EXCEPT ![r] = "beforeSend"]
  /\ UNCHANGED <<opt, state, fin, calls, wire, globals, outcome, aborts, throws>>

(* beforeSend returned false, or aborted: return jqXHR.abort().             *)
Cancelled(r) ==
  /\ InBegin(r, "beforeSend")
  /\ opt[r].before
  /\ at' = [at EXCEPT ![r] = "returned"]
  /\ \/ /\ state[r] # 2
        /\ DoneStarts(r, "canceled", Tail(calls))
        /\ UNCHANGED <<opt, listening, net, globals, aborts, throws>>
     \/ /\ state[r] = 2
        /\ calls' = Tail(calls)
        /\ UNCHANGED <<opt, state, fin, wire, globals, outcome, aborts, throws>>

(* Only a request with a beforeSend is looked at again: one without goes on, *)
(* even if a handler of ajaxStart has aborted it.                           *)
GoesOn(r) ==
  /\ InBegin(r, "beforeSend")
  /\ opt[r].before => state[r] # 2

(* No transport wants the request: done(-1, "No Transport").                *)
NoTransport(r) ==
  /\ GoesOn(r)
  /\ opt[r].kind = "none"
  /\ at' = [at EXCEPT ![r] = "returned"]
  /\ \/ /\ state[r] # 2
        /\ DoneStarts(r, "error", Tail(calls))
        /\ UNCHANGED <<opt, listening, net, globals, aborts, throws>>
     \/ /\ state[r] = 2
        /\ calls' = Tail(calls)
        /\ UNCHANGED <<opt, state, fin, wire, globals, outcome, aborts, throws>>

GetTransport(r) ==
  /\ GoesOn(r)
  /\ opt[r].kind # "none"
  /\ transport' = [transport EXCEPT ![r] = TRUE]
  /\ at' = [at EXCEPT ![r] = IF fireGlobals[r] THEN "ajaxSend" ELSE "send"]
  /\ UNCHANGED <<opt, state, fin, calls, listening, net, timer, globals, outcome, aborts, throws>>

AfterAjaxSend(r) ==
  /\ InBegin(r, "ajaxSend")
  /\ at' = [at EXCEPT ![r] = "send"]
  /\ UNCHANGED <<opt, state, fin, calls, wire, globals, outcome, aborts, throws>>

(* Before send() the state is set to 1, whatever it is: a request that was  *)
(* aborted before is alive again, and its done() will run a second time.    *)
Revive(r) ==
  /\ again' = IF state[r] = 2 THEN again \cup {r} ELSE again
  /\ UNCHANGED <<fireGlobals, active, busy>>

(* Mutant: the transport does not listen.                                  *)
SendAsyncDeaf(r) ==
  /\ InBegin(r, "send")
  /\ transport[r]
  /\ opt[r].kind \in {"async", "cached", "script"}
  /\ timer' = [timer EXCEPT ![r] = opt[r].timeout]
  /\ state' = [state EXCEPT ![r] = 1]
  /\ listening' = listening
  /\ net' = [net EXCEPT ![r] = IF opt[r].kind = "cached" THEN "complete" ELSE "open"]
  /\ at' = [at EXCEPT ![r] = "returned"]
  /\ calls' = Tail(calls)
  /\ Revive(r)
  /\ UNCHANGED <<opt, fin, transport, outcome, aborts, throws>>

(* transport.send() of a request that will answer in a later task; "cached" *)
(* is complete already and has its callback in a setTimeout.                *)
SendAsync(r) ==
  /\ InBegin(r, "send")
  /\ transport[r]
  /\ opt[r].kind \in {"async", "cached", "script"}
  /\ timer' = [timer EXCEPT ![r] = opt[r].timeout]
  /\ state' = [state EXCEPT ![r] = 1]
  /\ listening' = [listening EXCEPT ![r] = TRUE]
  /\ net' = [net EXCEPT ![r] = IF opt[r].kind = "cached" THEN "complete" ELSE "open"]
  /\ at' = [at EXCEPT ![r] = "returned"]
  /\ calls' = Tail(calls)
  /\ Revive(r)
  /\ UNCHANGED <<opt, fin, transport, outcome, aborts, throws>>

(* A synchronous request: send() calls done() before it returns.            *)
SendSync(r) ==
  /\ InBegin(r, "send")
  /\ transport[r]
  /\ opt[r].kind = "sync"
  /\ at' = [at EXCEPT ![r] = "returned"]
  /\ net' = [net EXCEPT ![r] = "over"]
  /\ \E how \in {"data", "notmodified", "error"} : DoneStarts(r, how, Tail(calls))
  /\ Revive(r)
  /\ UNCHANGED <<opt, listening, aborts, throws>>

(* send() throws: the browser refuses the request, or a handler of ajaxSend *)
(* has aborted it and `transport` is undefined.  The state has just been    *)
(* set to 1, so the exception becomes done(-1, e).                          *)
SendThrows(r) ==
  /\ InBegin(r, "send")
  /\ \/ ~transport[r]
     \/ opt[r].kind \in {"async", "sync"}
  /\ at' = [at EXCEPT ![r] = "returned"]
  /\ net' = [net EXCEPT ![r] = "over"]
  /\ DoneStarts(r, "error", Tail(calls))
  /\ Revive(r)
  /\ UNCHANGED <<opt, listening, aborts, throws>>

-----------------------------------------------------------------------------
(* done(), from one place where the page's code runs to the next.           *)

(* dataFilter and the converters: data, or a parsererror; a script has only  *)
(* the one data type and nothing to convert.                                *)
Convert(r) ==
  /\ InDone(r, "dataFilter")
  /\ \E how \in IF opt[r].kind = "script" THEN {"success"} ELSE {"success", "parsererror"} :
       /\ result' = [result EXCEPT ![r] = how]
       /\ Settle(r, how)
  /\ fin' = [fin EXCEPT ![r] = "settled"]
  /\ UNCHANGED <<opt, state, at, calls, wire, globals, aborts, throws>>

AfterSettled(r) ==
  /\ InDone(r, "settled")
  /\ fin' = [fin EXCEPT ![r] = IF fireGlobals[r] THEN "ajaxEvent" ELSE "complete"]
  /\ UNCHANGED <<opt, state, at, calls, wire, globals, outcome, aborts, throws>>

AfterAjaxEvent(r) ==
  /\ InDone(r, "ajaxEvent")
  /\ fin' = [fin EXCEPT ![r] = "complete"]
  /\ UNCHANGED <<opt, state, at, calls, wire, globals, outcome, aborts, throws>>

AfterComplete(r) ==
  /\ InDone(r, "complete")
  /\ fin' = [fin EXCEPT ![r] = IF fireGlobals[r] THEN "ajaxComplete" ELSE "over"]
  /\ calls' = IF fireGlobals[r] THEN calls ELSE Tail(calls)
  /\ UNCHANGED <<opt, state, at, wire, globals, outcome, aborts, throws>>

(* Mutant: active-- in place of --active.                                  *)
CountDownPostfix(r) ==
  /\ InDone(r, "ajaxComplete")
  /\ active' = active - 1
  /\ LET last == active = 0
     IN /\ busy' = (busy /\ ~last)
        /\ fin' = [fin EXCEPT ![r] = IF last THEN "ajaxStop" ELSE "over"]
        /\ calls' = IF last THEN calls ELSE Tail(calls)
  /\ UNCHANGED <<opt, state, at, wire, fireGlobals, again, outcome, aborts, throws>>

(* "Handle the global AJAX counter".                                        *)
CountDown(r) ==
  /\ InDone(r, "ajaxComplete")
  /\ active' = active - 1
  /\ LET last == active' = 0
     IN /\ busy' = (busy /\ ~last)
        /\ fin' = [fin EXCEPT ![r] = IF last THEN "ajaxStop" ELSE "over"]
        /\ calls' = IF last THEN calls ELSE Tail(calls)
  /\ UNCHANGED <<opt, state, at, wire, fireGlobals, again, outcome, aborts, throws>>

AfterAjaxStop(r) ==
  /\ InDone(r, "ajaxStop")
  /\ fin' = [fin EXCEPT ![r] = "over"]
  /\ calls' = Tail(calls)
  /\ UNCHANGED <<opt, state, at, wire, globals, outcome, aborts, throws>>

-----------------------------------------------------------------------------
(* What comes from outside.                                                 *)

(* transport.abort(): the transport's callback is dropped, the request is   *)
(* cancelled unless it is complete; then done(0, how).                      *)
Drop(r, how) ==
  /\ listening' = [listening EXCEPT ![r] = @ /\ ~transport[r]]
  /\ net' = [net EXCEPT ![r] = IF transport[r] /\ @ = "open" THEN "over" ELSE @]
  /\ DoneStarts(r, how, calls)
  /\ UNCHANGED <<opt, at, globals, throws>>

(* strAbort: until the transport is asked for, an abort is a cancellation.   *)
StrAbort(r) ==
  IF at[r] \in {"prefilter", "ajaxStart", "beforeSend"} THEN {"canceled"}
  ELSE IF at[r] = "broken" THEN {"canceled", "abort"} ELSE {"abort"}

(* Mutant: abort() of a request that is done.                              *)
AbortAgain(r) ==
  /\ at[r] # "new"
  /\ PageCode
  /\ aborts < MaxAborts
  /\ aborts' = aborts + 1
  /\ \E how \in StrAbort(r) : Drop(r, how)

(* jqXHR.abort() by the page, in a callback or in a task of its own; on a   *)
(* request that is done it does nothing.                                    *)
Abort(r) ==
  /\ at[r] # "new"
  /\ state[r] # 2
  /\ PageCode
  /\ aborts < MaxAborts
  /\ aborts' = aborts + 1
  /\ \E how \in StrAbort(r) : Drop(r, how)

TimerFires(r) ==
  /\ Idle
  /\ timer[r]
  /\ Drop(r, "timeout")
  /\ UNCHANGED aborts

(* The callback of the transport, as a task: readyState 4, the setTimeout   *)
(* of a cached answer, or a script's onload (which has no onerror).         *)
Listener(r) ==
  /\ Idle
  /\ net[r] \in {"open", "complete"}
  /\ net' = [net EXCEPT ![r] = "over"]
  /\ listening' = [listening EXCEPT ![r] = FALSE]
  /\ \/ /\ listening[r] /\ state[r] # 2
        /\ \E how \in IF opt[r].kind = "script" THEN {"data"} ELSE {"data", "notmodified", "error"} :
             DoneStarts(r, how, <<>>)
        /\ UNCHANGED <<opt, at, globals, aborts, throws>>
     \/ /\ ~(listening[r] /\ state[r] # 2)
        /\ UNCHANGED <<opt, progress, transport, timer, globals, outcome, aborts, throws>>

(* A script that cannot be loaded tells nobody.                             *)
ScriptFails(r) ==
  /\ Idle
  /\ opt[r].kind = "script"
  /\ net[r] = "open"
  /\ net' = [net EXCEPT ![r] = "over"]
  /\ UNCHANGED <<opt, progress, transport, listening, timer, globals, outcome, aborts, throws>>

(* The page's code throws: nothing on the stack catches it (the try around  *)
(* send() rethrows once the request is done).                               *)
Throw ==
  /\ ~Idle
  /\ PageCode
  /\ throws < MaxThrows
  /\ throws' = throws + 1
  /\ calls' = <<>>
  /\ LET cut == {calls[i] : i \in DOMAIN calls}
     IN /\ at' = [r \in Request |-> IF Begun(r) \in cut THEN "broken" ELSE at[r]]
        /\ fin' = [r \in Request |-> IF Ending(r) \notin cut THEN fin[r]
                                     ELSE IF fin[r] = "ajaxStop" THEN "over" ELSE "broken"]
  /\ UNCHANGED <<opt, state, wire, globals, outcome, aborts>>

-----------------------------------------------------------------------------
(* The rest of a call in progress.                                          *)
Continue(r) ==
  \/ AbortedInPrefilter(r) \/ Enlist(r) \/ AfterAjaxStart(r) \/ Cancelled(r)
  \/ NoTransport(r) \/ GetTransport(r) \/ AfterAjaxSend(r)
  \/ SendAsync(r) \/ SendSync(r) \/ SendThrows(r)
  \/ Convert(r) \/ AfterSettled(r) \/ AfterAjaxEvent(r) \/ AfterComplete(r)
  \/ CountDown(r) \/ AfterAjaxStop(r)

AjaxNext ==
  \/ \E r \in Request : Begin(r)
  \/ \E r \in Request : Continue(r)
  \/ \E r \in Request : Abort(r)
  \/ \E r \in Request : TimerFires(r)
  \/ \E r \in Request : Listener(r)
  \/ \E r \in Request : ScriptFails(r)
  \/ Throw

AjaxSpec == AjaxInit /\ [][AjaxNext]_vars

(* Code that has begun runs on; the browser runs timers, and reports every  *)
(* request as answered or failed.  The page owes nothing.                   *)
FairAjaxSpec ==
  /\ AjaxSpec
  /\ \A r \in Request : WF_vars(Continue(r)) /\ WF_vars(TimerFires(r)) /\ WF_vars(Listener(r))

-----------------------------------------------------------------------------
(* The counter is the number of requests that take part in the global       *)
(* events and have not been counted down, which are those whose callbacks   *)
(* are still to come and those whose callbacks an exception has cut short   *)
(* (jquery.js:7829, 8040), less one for every request that was sent though  *)
(* it was done and has been counted down twice (jquery.js:7895, 7929).      *)
Open == {r \in Request \ again : fireGlobals[r] /\ fin[r] \notin {"ajaxStop", "over"}}
CountedTwice == {r \in again : fireGlobals[r] /\ state[r] = 2 /\ fin[r] \in {"ajaxStop", "over"}}
ActiveMatchesOpen == active = Cardinality(Open) - Cardinality(CountedTwice)

(* The indicator of the page is on exactly while more requests it should    *)
(* show are open than were counted twice, that is, as long as none was,     *)
(* exactly while one is open; whatever is begun, aborted or thrown inside   *)
(* the handlers.                                                            *)
IndicatorTruthful == busy <=> Cardinality(Open) > Cardinality(CountedTwice)

(* The callbacks of a request are told nothing but what done() was told: one *)
(* that was aborted or has timed out never reports success, however late    *)
(* its answer comes; and what has reported is over, its timer cleared and   *)
(* nobody listening to the browser.  A request that was sent though it was  *)
(* done had reported an error, and its callbacks hear no more of it.        *)
ToldMatchesResult ==
  \A r \in Request :
    IF r \in again THEN told[r] = "error"
    ELSE /\ told[r] = "success" <=> result[r] \in Good
         /\ told[r] # "no" => state[r] = 2 /\ ~timer[r] /\ ~listening[r]

(* "Called once" (jquery.js:7947): what is done stays done, unless it is    *)
(* sent all the same; and then what is done a second time stays done.       *)
DoneIsFinal ==
  [][\A r \in Request :
       /\ result[r] \notin {"none", "data"}
       /\ r \in again' => r \in again /\ state[r] = 2
       => result'[r] = result[r]]_vars

(* A request that was sent is done some day; a script needs a timeout for   *)
(* that, since its transport does not hear of errors.                       *)
EverySentIsDone ==
  \A r \in Request :
    (state[r] = 1 /\ (opt[r].kind # "script" \/ opt[r].timeout)) ~> (state[r] = 2)

(* The indicator goes out, unless the page's code throws.                   *)
IndicatorGoesOut == busy ~> (~busy \/ throws > 0)

(* The stack holds a call of jQuery.ajax or of done() once, while the        *)
(* request stands inside it; done() is above jQuery.ajax, which may have     *)
(* called it and never waits for it; and send() is the innermost call.       *)
Stack == {calls[i] : i \in DOMAIN calls}
StackMatches ==
  /\ \A i, j \in DOMAIN calls : calls[i] = calls[j] => i = j
  /\ \A i, j \in DOMAIN calls : \A r \in Request :
       calls[i] = Begun(r) /\ calls[j] = Ending(r) => j < i
  /\ \A r \in Request :
       /\ Begun(r) \in Stack <=> at[r] \in BeginPlace
       /\ Ending(r) \in Stack <=> fin[r] \in DonePlace
       /\ at[r] = "send" => Running(Begun(r))

(* How far a request may have come in one respect when it stands somewhere   *)
(* in another.                                                               *)
Lawful(r) ==
  /\ state[r] = 2 => fin[r] # "no" /\ ~timer[r]
  /\ fin[r] = "no" => result[r] = "none" /\ told[r] = "no"
  /\ fin[r] = "dataFilter" => result[r] = "data"
  /\ timer[r] => state[r] = 1
  /\ listening[r] => state[r] = 1
  /\ state[r] = 1 => at[r] = "returned" /\ transport[r]
  /\ at[r] = "new" => state[r] = 0
  /\ at[r] \in {"new", "prefilter"} => ~fireGlobals[r]
  /\ at[r] \in BeginPlace => fin[r] # "broken"
  /\ fin[r] \in {"ajaxEvent", "ajaxComplete", "ajaxStop"} => fireGlobals[r]

(* What its first done() said is told; and while jQuery.ajax has not come to *)
(* the end, one that is done was aborted.                                    *)
DoneFirst(r) ==
  /\ fin[r] # "no" => state[r] = 2
  /\ fin[r] = "dataFilter" => told[r] = "no"
  /\ told[r] = "success" <=> result[r] \in Good
  /\ at[r] \in {"ajaxStart", "beforeSend", "ajaxSend", "send"} /\ fin[r] # "no" => told[r] = "error"

(* One that was sent though it was done is done again by the same done(),    *)
(* which has nobody to tell.                                                 *)
DoneAgain(r) ==
  /\ told[r] = "error" /\ at[r] = "returned"
  /\ IF state[r] = 1 THEN fin[r] = "over" ELSE state[r] = 2

InOrder(r) == Lawful(r) /\ IF r \in again THEN DoneAgain(r) ELSE DoneFirst(r)

(* The counter and the indicator agree with the requests in every state; the *)
(* other parts are what that rests on, and make it inductive.                *)
AjaxInv ==
  /\ AjaxTypeOK
  /\ StackMatches
  /\ \A r \in Request : InOrder(r)
  /\ ActiveMatchesOpen
  /\ IndicatorTruthful

(* Every request that can be heard of is done, and the indicator goes out.  *)
RequestsEnd == EverySentIsDone /\ IndicatorGoesOut
=============================================================================
