------------------------------ MODULE Effects -------------------------------
(* The queues of elements, the animations that run in them, the one timer    *)
(* that drives every animation of the page, and the dropdown menus of        *)
(* layout.js that use them.  A task of the browser is a call of the page, a  *)
(* tick, a timeout or a move of the mouse; its calls and the callbacks they  *)
(* lead to are done one per step, while no other task begins.                *)
EXTENDS Integers, Sequences, FiniteSets, SequencesExt

CONSTANTS
  Nothing,    \* undefined, or no data of a name
  Elements,
  Styles,     \* the display the elements of a script may have: element -> [style, sheet]
  MaxCalls,   \* bounds on the calls of a script that uses one element, or two
  MaxMoves    \* bound on the moves of the mouse

VARIABLES
  page,       \* everything jQuery keeps, see Init
  calls,      \* what the calls under way have still to do
  mode,       \* whether a script calls the library, or layout.js only
  scope,      \* the elements the script uses
  over,       \* the elements whose menu the mouse is on
  first,      \* the display each element had at first (auxiliary)
  stray,      \* elements whose queue was reset under a pending step (auxiliary)
  nested,     \* a complete callback has called stop() (auxiliary)
  used        \* calls or moves made (bounded by MaxCalls or MaxMoves)

vars == <<page, calls, mode, scope, over, first, stray, nested, used>>

InProgress == [k |-> "inprogress"]

(* Steps a queue can hold; n tells apart those of one page.                  *)
Anim(n, e, to, complete) == [k |-> "anim", n |-> n, elem |-> e, to |-> to, complete |-> complete]
DelayStep(n, e) == [k |-> "delay", n |-> n, elem |-> e]
Steps ==
  {InProgress}
    \cup [k : {"anim"}, n : Nat, elem : Elements, to : {"show", "hide", "toggle"}, complete : Elements \cup {Nothing}]
    \cup [k : {"delay"}, n : Nat, elem : Elements]

(* No data of a name is none of the data the library keeps.                  *)
ASSUME EffectsAssumption ==
  /\ Nothing \notin Seq(Steps)
  /\ Nothing \notin {"hidden", "shown", "kept"}

(* queue, hooks      the data fxqueue and fxqueueHooks, or Nothing           *)
(* timers            jQuery.timers: the animation, what it does, and whether *)
(*                   it has ended (its tick has lost elem)                   *)
(* interval          timerId is set                                          *)
(* delays            the timeouts of delay()                                 *)
(* css               display: inline style, style sheet, data olddisplay     *)
(* fxshow            the data of that name: Nothing, "kept", or what its     *)
(*                   field hidden says, "hidden" or "shown"                  *)
(* dim               an animation has left the element part way              *)
(* finishing         the data finish is set                                  *)
(* promise           a promise on the queue: Nothing, "waiting", "resolved"  *)
Init ==
  /\ mode \in {"script", "menu"}
  /\ scope \in IF mode = "menu" THEN {Elements} ELSE {S \in SUBSET Elements : Cardinality(S) \in DOMAIN MaxCalls}
  /\ \E css \in IF mode = "menu" THEN {[e \in Elements |-> [style |-> "", sheet |-> "none"]]} ELSE Styles :
       /\ page = [queue |-> [e \in Elements |-> Nothing],
                  hooks |-> [e \in Elements |-> Nothing],
                  timers |-> <<>>, interval |-> FALSE, delays |-> {},
                  css |-> [e \in Elements |-> [style |-> css[e].style, sheet |-> css[e].sheet, old |-> ""]],
                  fxshow |-> [e \in Elements |-> Nothing],
                  dim |-> [e \in Elements |-> FALSE],
                  finishing |-> {},
                  promise |-> [e \in Elements |-> Nothing]]
       /\ first = [e \in Elements |->
                     IF css[e].style \notin {"", "none"} THEN css[e].style
                     ELSE IF css[e].sheet # "none" THEN css[e].sheet ELSE "block"]
  /\ calls = <<>>
  /\ over = {}
  /\ stray = {}
  /\ nested = FALSE
  /\ used = 0

-----------------------------------------------------------------------------
(* Display.                                                                  *)

Computed(c) == IF c.style = "" THEN c.sheet ELSE c.style
IsHidden(s, e) == Computed(s.css[e]) = "none"

(* showHide(); css_defaultDisplay is block for the elements of this page.    *)
Show(s, e) ==
  LET c == s.css[e]
      bare == IF c.old = "" /\ c.style = "none" THEN [c EXCEPT !.style = ""] ELSE c
      kept == IF bare.style = "" /\ Computed(bare) = "none" THEN [bare EXCEPT !.old = "block"] ELSE bare
  IN [s EXCEPT !.css[e] = IF kept.style \in {"", "none"} THEN [kept EXCEPT !.style = kept.old] ELSE kept]

(* Mutant: hide() keeps no display to come back to.                          *)
HideForgets(s, e) == [s EXCEPT !.css[e].style = "none"]

Hide(s, e) ==
  LET c == s.css[e]
  IN [s EXCEPT !.css[e].old = IF c.old = "" /\ Computed(c) # "none" THEN Computed(c) ELSE c.old,
               !.css[e].style = "none"]

-----------------------------------------------------------------------------
(* Queues and animations.                                                    *)

NewHooks == [cur |-> Nothing, stop |-> Nothing]
Queue(s, e) == IF s.queue[e] = Nothing THEN <<>> ELSE s.queue[e]
WithHooks(s, e) == IF s.hooks[e] = Nothing THEN [s EXCEPT !.hooks[e] = NewHooks] ELSE s

(* Mutant: the queue goes, and its promise is not told.                      *)
EmptyFiresSilently(s, e) == [s EXCEPT !.queue[e] = Nothing, !.hooks[e] = Nothing]

(* hooks.empty.fire().                                                       *)
EmptyFires(s, e) ==
  [s EXCEPT !.queue[e] = Nothing, !.hooks[e] = Nothing,
            !.promise[e] = IF @ = "waiting" THEN "resolved" ELSE @]

(* The animation has ended: the element of its tick is deleted.              *)
Ended(s, n) ==
  LET at == {i \in DOMAIN s.timers : s.timers[i].step.n = n}
  IN IF at = {} THEN s ELSE [s EXCEPT !.timers[CHOOSE i \in at : TRUE].ended = TRUE]

Live(s) == SelectSeq(s.timers, LAMBDA t : ~t.ended)

(* What the first pass of defaultPrefilter makes of show, hide and toggle:   *)
(* nothing to do, or the element is to be shown or hidden.                   *)
Does(s, e, to) ==
  IF to = (IF IsHidden(s, e) THEN "hide" ELSE "show") THEN "none"
  ELSE IF s.fxshow[e] = "hidden" \/ (s.fxshow[e] \in {Nothing, "kept"} /\ IsHidden(s, e))
       THEN "show" ELSE "hide"

Prefiltered(s, e, to, does) ==
  LET kept == [s EXCEPT !.fxshow[e] = IF to = "toggle" THEN (IF does = "show" THEN "shown" ELSE "hidden")
                                      ELSE IF @ = Nothing THEN "kept" ELSE @,
                        !.dim[e] = TRUE]
  IN IF does = "none" THEN s ELSE IF does = "show" THEN Show(kept, e) ELSE kept

-----------------------------------------------------------------------------
(* What a call still has to do, the innermost first; each step does one.     *)

Dequeue(e) == [do |-> "dequeue", elem |-> e]
Start(a) == [do |-> "start", step |-> a]
Complete(a, does) == [do |-> "complete", step |-> a, does |-> does]
Clear(e) == [do |-> "clear", elem |-> e]
Halt(e, gotoEnd) == [do |-> "halt", elem |-> e, gotoEnd |-> gotoEnd]
StopTimers(e, i, gotoEnd, dequeue) ==
  [do |-> "stopTimers", elem |-> e, i |-> i, gotoEnd |-> gotoEnd, dequeue |-> dequeue]
Splice(i) == [do |-> "splice", i |-> i]
FinishAll(e) == [do |-> "finishAll", elem |-> e]
FinishTimers(e, i) == [do |-> "finishTimers", elem |-> e, i |-> i]
Finished(e) == [do |-> "finished", elem |-> e]
TickFrom(i, fin) == [do |-> "tick", i |-> i, fin |-> fin]
Ticked(i, n, fin) == [do |-> "ticked", i |-> i, n |-> n, fin |-> fin]

(* Mutant: the parameter gotoEnd is not passed on.                           *)
StopPartWay(e, clear, gotoEnd) ==
  (IF clear THEN <<Clear(e)>> ELSE <<>>) \o <<Halt(e, FALSE)>>

(* stop(clearQueue, gotoEnd) of one element.                                 *)
Stop(e, clear, gotoEnd) ==
  (IF clear THEN <<Clear(e)>> ELSE <<>>) \o <<Halt(e, gotoEnd)>>

Idle == calls = <<>>
At(do) == ~Idle /\ Head(calls).do = do
Now == Head(calls)
Then(next, work) ==
  /\ page' = next
  /\ calls' = work \o Tail(calls)
  /\ UNCHANGED <<mode, scope, over, first, stray, nested, used>>

(* jQuery.dequeue                                                            *)
DequeueStep ==
  /\ At("dequeue")
  /\ LET e == Now.elem
         q == Queue(page, e)
         rest == IF q # <<>> /\ Head(q) = InProgress THEN Tail(q) ELSE q
         step == Head(rest)
         ready == [WithHooks(page, e) EXCEPT !.queue[e] = <<InProgress>> \o Tail(rest),
                                             !.hooks[e] = [cur |-> step, stop |-> Nothing]]
     IN IF rest = <<>> THEN Then(EmptyFires(page, e), <<>>)
        ELSE IF step.k = "anim" THEN Then(ready, <<Start(step)>>)
        ELSE Then([ready EXCEPT !.delays = @ \cup {step}, !.hooks[e].stop = step], <<>>)

(* doAnimation: Animation(), which ends at once when nothing is to be done   *)
(* or the element is being finished.                                         *)
StartStep ==
  /\ At("start")
  /\ LET a == Now.step
         does == Does(page, a.elem, a.to)
         begun == Prefiltered(page, a.elem, a.to, does)
         timed == [begun EXCEPT !.timers = Append(@, [step |-> a, does |-> does, ended |-> FALSE]),
                                !.interval = TRUE]
     IN IF does = "none" THEN Then(begun, <<Complete(a, does)>>)
        ELSE Then(timed, IF a.elem \in page.finishing THEN <<Complete(a, does)>> ELSE <<>>)

(* The deferred of the animation is resolved: the done callbacks of the      *)
(* prefilter, then opt.complete, which calls that of the page and dequeues.  *)
CompleteStep ==
  /\ At("complete")
  /\ LET a == Now.step
         e == a.elem
         hid == IF Now.does = "hide" THEN Hide(Ended(page, a.n), e) ELSE Ended(page, a.n)
     IN Then(IF Now.does = "none" THEN hid
             ELSE [hid EXCEPT !.fxshow[e] = Nothing, !.dim[e] = FALSE],
             (IF a.complete = Nothing THEN <<>> ELSE Stop(a.complete, FALSE, FALSE)) \o <<Dequeue(e)>>)

(* queue("fx", []): no step is in progress any more, so it dequeues.         *)
ClearStep ==
  /\ At("clear")
  /\ LET e == Now.elem
     IN Then(WithHooks([page EXCEPT !.queue[e] = <<>>], e), <<Dequeue(e)>>)

(* stop(), past the queue: the stop function of the hooks, then the timers.  *)
HaltStep ==
  /\ At("halt")
  /\ LET e == Now.elem
         held == page.hooks[e] # Nothing /\ page.hooks[e].stop # Nothing
     IN Then(IF held THEN [page EXCEPT !.delays = @ \ {page.hooks[e].stop}, !.hooks[e].stop = Nothing]
             ELSE page,
             <<StopTimers(e, Len(page.timers), Now.gotoEnd, TRUE)>>)

(* Its loop over the timers, from the last.  An index the array no longer    *)
(* reaches is a TypeError, which ends every call under way.                  *)
StopTimersStep ==
  /\ At("stopTimers")
  /\ LET e == Now.elem
         i == Now.i
         t == page.timers[i]
         onward(dequeue) == StopTimers(e, i - 1, Now.gotoEnd, dequeue)
     IN IF i = 0 THEN Then(page, IF Now.dequeue \/ ~Now.gotoEnd THEN <<Dequeue(e)>> ELSE <<>>)
        ELSE IF i > Len(page.timers)
        THEN page' = page /\ calls' = <<>> /\ UNCHANGED <<mode, scope, over, first, stray, nested, used>>
        ELSE IF t.ended \/ t.step.elem # e THEN Then(page, <<onward(Now.dequeue)>>)
        ELSE IF Now.gotoEnd
        THEN Then(page, <<Complete(t.step, t.does), Splice(i), onward(FALSE)>>)
        ELSE Then(Ended(page, t.step.n), <<Splice(i), onward(FALSE)>>)

SpliceStep ==
  /\ At("splice")
  /\ Then([page EXCEPT !.timers = IF Now.i \in DOMAIN @ THEN RemoveAt(@, Now.i) ELSE @], <<>>)

(* finish(), past its current step: its loop over the timers, and its end.   *)
FinishAllStep ==
  /\ At("finishAll")
  /\ Then(page, <<FinishTimers(Now.elem, Len(page.timers))>>)

FinishTimersStep ==
  /\ At("finishTimers")
  /\ LET i == Now.i
         t == page.timers[i]
     IN IF i = 0 THEN Then(page, <<>>)
        ELSE IF i > Len(page.timers)
        THEN page' = page /\ calls' = <<>> /\ UNCHANGED <<mode, scope, over, first, stray, nested, used>>
        ELSE Then(page, (IF t.ended \/ t.step.elem # Now.elem THEN <<>>
                         ELSE <<Complete(t.step, t.does), Splice(i)>>)
                        \o <<FinishTimers(Now.elem, i - 1)>>)

FinishedStep ==
  /\ At("finished")
  /\ Then([page EXCEPT !.finishing = @ \ {Now.elem}], <<>>)

(* jQuery.fx.tick: fin are the animations whose time is over; a timer that   *)
(* returned false is removed, when it is still where the loop is.            *)
TickStep ==
  /\ At("tick")
  /\ LET i == Now.i
         t == page.timers[i]
     IN IF i > Len(page.timers)
        THEN Then([page EXCEPT !.interval = page.timers # <<>>], <<>>)
        ELSE IF ~t.ended /\ t.step.n \notin Now.fin THEN Then(page, <<TickFrom(i + 1, Now.fin)>>)
        ELSE Then(page, (IF t.ended THEN <<>> ELSE <<Complete(t.step, t.does)>>)
                        \o <<Ticked(i, t.step.n, Now.fin)>>)

TickedStep ==
  /\ At("ticked")
  /\ LET i == Now.i
         same == i \in DOMAIN page.timers /\ page.timers[i].step.n = Now.n
     IN IF same THEN Then([page EXCEPT !.timers = RemoveAt(@, i)], <<TickFrom(i, Now.fin)>>)
        ELSE Then(page, <<TickFrom(i + 1, Now.fin)>>)

LibraryStep ==
  \/ DequeueStep \/ StartStep \/ CompleteStep \/ ClearStep \/ HaltStep \/ StopTimersStep
  \/ SpliceStep \/ FinishAllStep \/ FinishTimersStep \/ FinishedStep \/ TickStep \/ TickedStep

-----------------------------------------------------------------------------
(* Tasks of the browser: each begins when the one before has run to its end. *)

Task(next, work) == Idle /\ page' = next /\ calls' = work

(* queue(): a step is appended, and started when none is in progress.        *)
Queued(s, step) ==
  WithHooks([s EXCEPT !.queue[step.elem] = Append(Queue(s, step.elem), step)], step.elem)
(* Mutant: the sentinel of a step in progress is not looked for.             *)
StartsAlways(s, step) == <<Dequeue(step.elem)>>

Starts(s, step) ==
  LET q == Append(Queue(s, step.elem), step)
  IN IF Head(q) = InProgress THEN <<>> ELSE <<Dequeue(step.elem)>>

Running == {t.step.n : t \in ToSet(Live(page))}
CallbackStops == \E t \in ToSet(page.timers) : t.step.complete # Nothing

(* The interval: the time of the animations fin is over.                     *)
Tick(fin) ==
  /\ page.interval
  /\ Task(page, <<TickFrom(1, fin)>>)
  /\ nested' = (nested \/ \E t \in ToSet(page.timers) : t.step.n \in fin /\ t.step.complete # Nothing)
  /\ UNCHANGED <<mode, scope, over, first, stray, used>>

(* The timeout of a delay() calls next.                                      *)
DelayFires(d) ==
  /\ d \in page.delays
  /\ Task([page EXCEPT !.delays = @ \ {d}], <<Dequeue(d.elem)>>)
  /\ UNCHANGED <<mode, scope, over, first, stray, nested, used>>

(* Calls of a script.                                                        *)
Called == mode = "script" /\ used < MaxCalls[Cardinality(scope)] /\ used' = used + 1 /\ UNCHANGED <<mode, scope, over, first>>
Delayed(e) == \E d \in page.delays : d.elem = e
Pending(e) == Delayed(e) \/ \E t \in ToSet(Live(page)) : t.step.elem = e

Animate(e) ==
  /\ Called
  /\ \E to \in {"show", "hide", "toggle"}, c \in {Nothing} \cup (scope \ {e}) :
       LET a == Anim(used, e, to, c) IN Task(Queued(page, a), Starts(page, a))
  /\ UNCHANGED <<stray, nested>>

Delay(e) ==
  /\ Called
  /\ LET d == DelayStep(used, e) IN Task(Queued(page, d), Starts(page, d))
  /\ UNCHANGED <<stray, nested>>

ToggleNow(e) ==
  /\ Called
  /\ Task(IF IsHidden(page, e) THEN Show(page, e) ELSE Hide(page, e), <<>>)
  /\ UNCHANGED <<stray, nested>>

StopCall(e) ==
  /\ Called
  /\ \E clear, gotoEnd \in BOOLEAN :
       /\ Task(page, Stop(e, clear, gotoEnd))
       /\ stray' = IF clear /\ Delayed(e) THEN stray \cup {e} ELSE stray
       /\ nested' = (nested \/ (gotoEnd /\ CallbackStops))

(* finish(): the current step first, then what else runs on the element, and *)
(* then the steps that were still to come.                                   *)
FinishCall(e) ==
  /\ Called
  /\ LET q == Queue(page, e)
         steps == SelectSeq(q, LAMBDA x : x.k = "anim")
         current == SelectSeq(Live(page), LAMBDA t : page.hooks[e] # Nothing /\ t.step = page.hooks[e].cur)
     IN /\ Task([page EXCEPT !.finishing = @ \cup {e}, !.queue[e] = <<>>],
                [i \in DOMAIN current |-> Complete(current[i].step, current[i].does)]
                \o <<FinishAll(e)>> \o [i \in DOMAIN steps |-> Start(steps[i])]
                \o <<Finished(e)>>)
        /\ nested' = (nested \/ CallbackStops \/ \E x \in ToSet(steps) : x.complete # Nothing)
  /\ stray' = IF Delayed(e) THEN stray \cup {e} ELSE stray

ClearQueue(e) ==
  /\ Called
  /\ Task(page, <<Clear(e)>>)
  /\ stray' = IF Pending(e) THEN stray \cup {e} ELSE stray
  /\ UNCHANGED nested

Promise(e) ==
  /\ Called
  /\ page.promise[e] = Nothing
  /\ Task([page EXCEPT !.promise[e] = IF page.hooks[e] = Nothing THEN "resolved" ELSE "waiting"], <<>>)
  /\ UNCHANGED <<stray, nested>>

-----------------------------------------------------------------------------
(* layout.js: the mouse comes to an entry of the menu, or leaves it; both    *)
(* handlers stop(true, true) the dropdown and then fade it in or out.        *)

Moves == mode = "menu" /\ used < MaxMoves /\ used' = used + 1 /\ UNCHANGED <<mode, scope, first, stray, nested>>
Fade(a) == [do |-> "queue", step |-> a]

FadeStep ==
  /\ At("queue")
  /\ Then(Queued(page, Now.step), Starts(page, Now.step))

MouseEnter(e) ==
  /\ Moves
  /\ e \notin over
  /\ over' = over \cup {e}
  /\ Task(page, Stop(e, TRUE, TRUE) \o <<Fade(Anim(used, e, "show", Nothing))>>)

MouseLeave(e) ==
  /\ Moves
  /\ e \in over
  /\ over' = over \ {e}
  /\ Task(page, Stop(e, TRUE, TRUE) \o <<Fade(Anim(used, e, "hide", Nothing))>>)

Next ==
  \/ LibraryStep
  \/ FadeStep
  \/ \E fin \in SUBSET Running : Tick(fin)
  \/ \E d \in page.delays : DelayFires(d)
  \/ \E e \in scope :
       \/ Animate(e) \/ Delay(e) \/ ToggleNow(e) \/ StopCall(e) \/ FinishCall(e)
       \/ ClearQueue(e) \/ Promise(e) \/ MouseEnter(e) \/ MouseLeave(e)

Spec == Init /\ [][Next]_vars

(* A task runs to its end; the browser keeps calling the interval and the    *)
(* timeouts, and every animation comes to the end of its duration.           *)
FairSpec ==
  /\ Spec
  /\ WF_vars(LibraryStep \/ FadeStep)
  /\ SF_vars(Tick(Running))
  /\ SF_vars(\E d \in page.delays : DelayFires(d))

-----------------------------------------------------------------------------
(* Properties.                                                               *)

TypeOK ==
  /\ page.delays \subseteq [k : {"delay"}, n : Nat, elem : Elements]
  /\ \A i \in DOMAIN page.timers : page.timers[i].ended \in BOOLEAN /\ page.timers[i].does \in {"show", "hide"}
  /\ (Idle /\ ~nested) => page.finishing = {}
  /\ page.promise \in [Elements -> {Nothing, "waiting", "resolved"}]
  /\ over \subseteq Elements /\ stray \subseteq Elements /\ nested \in BOOLEAN

(* As long as there is a timer, the interval that ticks it is set.           *)
TimersTick == page.timers # <<>> => page.interval

(* A queue in progress has exactly one step under way, an animation or a     *)
(* delay, and no other queue has one, unless it was reset under a pending    *)
(* step; a complete callback that calls stop() may lose one.                 *)
UnderWay(e) ==
  Cardinality({d \in page.delays : d.elem = e})
    + Len(SelectSeq(Live(page), LAMBDA t : t.step.elem = e))

OneStepAtATime ==
  (Idle /\ ~nested) => \A e \in Elements \ stray :
    UnderWay(e) = IF Queue(page, e) # <<>> /\ Head(Queue(page, e)) = InProgress THEN 1 ELSE 0

(* The queues, the timers and the interval agree in every state.             *)
QueuesInv == TypeOK /\ TimersTick /\ OneStepAtATime

(* An element that is shown has the display it had at first.                 *)
RestoresDisplay ==
  \A e \in Elements : Computed(page.css[e]) \in {"none", first[e]}

(* Nothing moves: every menu shows whether the mouse is on it, fully.        *)
MenuFollowsMouse ==
  (Idle /\ mode = "menu" /\ page.timers = <<>>)
    => \A e \in Elements : (IsHidden(page, e) <=> e \notin over) /\ ~page.dim[e]

(* The interval is not left running, and a promise on a queue is kept.       *)
IntervalStops == <>[](~page.interval)
PromiseIsKept ==
  \A e \in Elements : (page.promise[e] = "waiting" /\ ~nested) ~> (page.promise[e] = "resolved" \/ nested)

(* Everything that was begun comes to its end: see the two parts.            *)
EffectsEnd == IntervalStops /\ PromiseIsKept
=============================================================================
