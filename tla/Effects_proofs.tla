--------------------------- MODULE Effects_proofs ---------------------------
(* Proofs about the queues, the animations and the dropdown menus.           *)
EXTENDS Effects, SequenceTheorems, TLAPS

-----------------------------------------------------------------------------
(* The display of an element: what its style, its style sheet and the data   *)
(* olddisplay say while it is f that it was shown with at first.             *)

Kept(c, f) ==
  /\ {"style", "sheet", "old"} \subseteq DOMAIN c
  /\ f # "none"
  /\ c.style \in {"", "none", f}
  /\ c.old \in {"", f}
  /\ (c.style = "" \/ (c.old = "" /\ c.style = "none"))
       => (c.sheet = f \/ (c.sheet = "none" /\ f = "block"))

AllKept(s, fs) ==
  /\ {"css", "timers", "interval"} \subseteq DOMAIN s
  /\ DOMAIN s.css = Elements
  /\ \A e \in Elements : Kept(s.css[e], fs[e])

(* An element that is kept is hidden, or has the display it had at first.    *)
LEMMA KeptShows ==
  ASSUME NEW c, NEW f, Kept(c, f)
  PROVE  Computed(c) \in {"none", f}
BY DEF Kept, Computed

(* showHide() to show, and to hide, of one element's display.                *)
LEMMA ShowKeeps ==
  ASSUME NEW s, NEW fs, NEW e, AllKept(s, fs)
  PROVE  /\ AllKept(Show(s, e), fs)
         /\ Show(s, e).timers = s.timers
         /\ Show(s, e).interval = s.interval
<1> DEFINE c == s.css[e]
           bare == IF c.old = "" /\ c.style = "none" THEN [c EXCEPT !.style = ""] ELSE c
           kept == IF bare.style = "" /\ Computed(bare) = "none" THEN [bare EXCEPT !.old = "block"] ELSE bare
           done == IF kept.style \in {"", "none"} THEN [kept EXCEPT !.style = kept.old] ELSE kept
<1>1. Show(s, e) = [s EXCEPT !.css[e] = done]
  BY DEF Show
<1>2. ASSUME e \in Elements PROVE Kept(done, fs[e])
  <2>1. Kept(c, fs[e])
    BY <1>2 DEF AllKept
  <2>2. Kept(bare, fs[e]) /\ (bare.style = "none" => bare.old # "")
    BY <2>1 DEF Kept
  <2> HIDE DEF bare, c
  <2>3. Kept(kept, fs[e]) /\ (kept.style = "none" => kept.old # "")
        /\ (kept.style = "" /\ kept.old = "" => kept.sheet = fs[e])
    BY <2>2 DEF Kept, Computed
  <2> HIDE DEF kept
  <2> QED  BY <2>3 DEF Kept
<1> HIDE DEF done
<1>3. DOMAIN Show(s, e) = DOMAIN s
      /\ Show(s, e).timers = s.timers /\ Show(s, e).interval = s.interval
  BY <1>1 DEF AllKept
<1>4. Show(s, e).css = [s.css EXCEPT ![e] = done]
  BY <1>1 DEF AllKept
<1>5. \A x \in Elements : Kept(Show(s, e).css[x], fs[x])
  BY <1>2, <1>4 DEF AllKept
<1> QED  BY <1>3, <1>4, <1>5 DEF AllKept

LEMMA HideKeeps ==
  ASSUME NEW s, NEW fs, NEW e, AllKept(s, fs)
  PROVE  /\ AllKept(Hide(s, e), fs)
         /\ Hide(s, e).timers = s.timers
         /\ Hide(s, e).interval = s.interval
<1> DEFINE c == s.css[e]
           old == IF c.old = "" /\ Computed(c) # "none" THEN Computed(c) ELSE c.old
           done == [[c EXCEPT !.old = old] EXCEPT !.style = "none"]
<1>1. Hide(s, e) = [[s EXCEPT !.css[e].old = old] EXCEPT !.css[e].style = "none"]
  BY DEF Hide
<1>2. ASSUME e \in Elements PROVE Kept(done, fs[e])
  <2>1. Kept(c, fs[e])
    BY <1>2 DEF AllKept
  <2> HIDE DEF c
  <2> QED  BY <2>1 DEF Kept, Computed
<1>3. DOMAIN Hide(s, e) = DOMAIN s
      /\ Hide(s, e).timers = s.timers /\ Hide(s, e).interval = s.interval
  BY <1>1 DEF AllKept
<1>4. /\ DOMAIN Hide(s, e).css = Elements
      /\ e \in Elements => Hide(s, e).css[e] = done
      /\ \A x \in Elements \ {e} : Hide(s, e).css[x] = s.css[x]
  <2> HIDE DEF old
  <2> QED  BY <1>1, ZenonT(40) DEF AllKept
<1> HIDE DEF done
<1>5. \A x \in Elements : Kept(Hide(s, e).css[x], fs[x])
  BY <1>2, <1>4 DEF AllKept
<1> QED  BY <1>3, <1>4, <1>5 DEF AllKept

-----------------------------------------------------------------------------
(* What every step keeps: the display of every element, and that a page with *)
(* a timer has the interval that ticks it.                                   *)

Ticks(s) == s.timers # <<>> => s.interval
Good(s, fs) == AllKept(s, fs) /\ Ticks(s)
EffectsInv == Good(page, first)

(* A step that leaves the displays, the timers and the interval alone.       *)
Alike(s, n) ==
  /\ DOMAIN n = DOMAIN s
  /\ n.css = s.css
  /\ n.timers = s.timers
  /\ n.interval = s.interval

LEMMA AlikeIsGood ==
  ASSUME NEW s, NEW n, NEW fs, Good(s, fs), Alike(s, n)
  PROVE  Good(n, fs)
BY DEF Good, Alike, AllKept, Ticks

LEMMA AlikeAgain ==
  ASSUME NEW s, NEW n, NEW m, Alike(s, n), Alike(n, m)
  PROVE  Alike(s, m)
BY DEF Alike

LEMMA WithHooksAlike ==
  ASSUME NEW s, NEW e
  PROVE  Alike(s, WithHooks(s, e))
BY DEF Alike, WithHooks

LEMMA EmptyFiresAlike ==
  ASSUME NEW s, NEW e
  PROVE  Alike(s, EmptyFires(s, e))
BY DEF Alike, EmptyFires

LEMMA QueuedAlike ==
  ASSUME NEW s, NEW step
  PROVE  Alike(s, Queued(s, step))
<1> DEFINE n == [s EXCEPT !.queue[step.elem] = Append(Queue(s, step.elem), step)]
<1>1. Alike(s, n)
  BY DEF Alike
<1>2. Queued(s, step) = WithHooks(n, step.elem)
  BY DEF Queued
<1> HIDE DEF n
<1> QED  BY <1>1, <1>2, WithHooksAlike, AlikeAgain

(* An animation that ends leaves its timer where it is.                      *)
LEMMA EndedIsGood ==
  ASSUME NEW s, NEW fs, NEW n, Good(s, fs)
  PROVE  Good(Ended(s, n), fs)
<1> DEFINE at == {i \in DOMAIN s.timers : s.timers[i].step.n = n}
<1>1. CASE at = {}
  BY <1>1 DEF Ended
<1>2. CASE at # {}
  <2> DEFINE i == CHOOSE i \in at : TRUE
             m == [s EXCEPT !.timers[i].ended = TRUE]
  <2>1. Ended(s, n) = m
    BY <1>2 DEF Ended
  <2>2. s.timers # <<>>
    BY <1>2
  <2> HIDE DEF i, at
  <2>3. DOMAIN m = DOMAIN s /\ m.css = s.css /\ m.interval = s.interval
    BY DEF Good, AllKept
  <2> QED  BY <2>1, <2>2, <2>3 DEF Good, AllKept, Ticks
<1> QED  BY <1>1, <1>2

LEMMA HideIsGood ==
  ASSUME NEW s, NEW fs, NEW e, Good(s, fs)
  PROVE  Good(Hide(s, e), fs)
BY HideKeeps DEF Good, Ticks

LEMMA ShowIsGood ==
  ASSUME NEW s, NEW fs, NEW e, Good(s, fs)
  PROVE  Good(Show(s, e), fs)
BY ShowKeeps DEF Good, Ticks

LEMMA PrefilteredIsGood ==
  ASSUME NEW s, NEW fs, NEW e, NEW to, NEW does, Good(s, fs)
  PROVE  Good(Prefiltered(s, e, to, does), fs)
<1> DEFINE shown == [s.fxshow EXCEPT ![e] = IF to = "toggle" THEN (IF does = "show" THEN "shown" ELSE "hidden")
                                      ELSE IF @ = Nothing THEN "kept" ELSE @]
           kept == [s EXCEPT !.fxshow[e] = IF to = "toggle" THEN (IF does = "show" THEN "shown" ELSE "hidden")
                                      ELSE IF @ = Nothing THEN "kept" ELSE @,
                             !.dim[e] = TRUE]
<1>1. Alike(s, kept)
  BY DEF Alike
<1>2. Prefiltered(s, e, to, does) = IF does = "none" THEN s ELSE IF does = "show" THEN Show(kept, e) ELSE kept
  BY DEF Prefiltered
<1> HIDE DEF kept
<1>3. Good(kept, fs)
  BY <1>1, AlikeIsGood
<1> QED  BY <1>2, <1>3, ShowIsGood

-----------------------------------------------------------------------------
(* The steps of the calls under way.                                         *)

LEMMA StartStepKeeps == EffectsInv /\ StartStep => EffectsInv'
<1> SUFFICES ASSUME EffectsInv, StartStep PROVE EffectsInv'
  OBVIOUS
<1> DEFINE a == Now.step
           does == Does(page, a.elem, a.to)
           begun == Prefiltered(page, a.elem, a.to, does)
           timed == [begun EXCEPT !.timers = Append(@, [step |-> a, does |-> does, ended |-> FALSE]),
                                  !.interval = TRUE]
<1>1. first' = first /\ page' \in {begun, timed}
  BY DEF StartStep, Then
<1>2. Good(begun, first)
  BY PrefilteredIsGood DEF EffectsInv
<1> HIDE DEF begun, does
<1>3. Good(timed, first)
  <2>1. /\ DOMAIN timed = DOMAIN begun
        /\ timed.css = begun.css
        /\ timed.interval = TRUE
    BY <1>2 DEF Good, AllKept
  <2> HIDE DEF timed
  <2> QED  BY <1>2, <2>1 DEF Good, AllKept, Ticks
<1> HIDE DEF timed
<1> QED  BY <1>1, <1>2, <1>3 DEF EffectsInv

LEMMA CompleteStepKeeps == EffectsInv /\ CompleteStep => EffectsInv'
<1> SUFFICES ASSUME EffectsInv, CompleteStep PROVE EffectsInv'
  OBVIOUS
<1> DEFINE a == Now.step
           e == a.elem
           hid == IF Now.does = "hide" THEN Hide(Ended(page, a.n), e) ELSE Ended(page, a.n)
           done == [hid EXCEPT !.fxshow[e] = Nothing, !.dim[e] = FALSE]
<1>1. first' = first /\ page' \in {hid, done}
  BY DEF CompleteStep, Then
<1>2. Good(hid, first)
  BY EndedIsGood, HideIsGood DEF EffectsInv
<1> HIDE DEF hid
<1>3. Alike(hid, done)
  BY DEF Alike
<1> HIDE DEF done
<1> QED  BY <1>1, <1>2, <1>3, AlikeIsGood DEF EffectsInv

LEMMA DequeueStepKeeps == EffectsInv /\ DequeueStep => EffectsInv'
<1> SUFFICES ASSUME EffectsInv, DequeueStep PROVE EffectsInv'
  OBVIOUS
<1> DEFINE e == Now.elem
           q == Queue(page, e)
           rest == IF q # <<>> /\ Head(q) = InProgress THEN Tail(q) ELSE q
           step == Head(rest)
           hooked == WithHooks(page, e)
           ready == [hooked EXCEPT !.queue[e] = <<InProgress>> \o Tail(rest),
                                   !.hooks[e] = [cur |-> step, stop |-> Nothing]]
           later == [ready EXCEPT !.delays = @ \cup {step}, !.hooks[e].stop = step]
<1>1. first' = first /\ page' \in {EmptyFires(page, e), ready, later}
  BY DEF DequeueStep, Then
<1> HIDE DEF rest, step, q, e, hooked
<1>2. Alike(page, EmptyFires(page, e))
  BY EmptyFiresAlike
<1>3. Alike(page, hooked)
  BY WithHooksAlike DEF hooked
<1>4. Alike(hooked, ready)
  BY DEF Alike
<1> HIDE DEF ready
<1>5. Alike(ready, later)
  BY DEF Alike
<1> HIDE DEF later
<1>6. Alike(page, page')
  BY <1>1, <1>2, <1>3, <1>4, <1>5, AlikeAgain
<1> QED  BY <1>1, <1>6, AlikeIsGood DEF EffectsInv

LEMMA ClearStepKeeps == EffectsInv /\ ClearStep => EffectsInv'
<1> SUFFICES ASSUME EffectsInv, ClearStep PROVE EffectsInv'
  OBVIOUS
<1> DEFINE e == Now.elem
           n == [page EXCEPT !.queue[e] = <<>>]
<1>1. first' = first /\ page' = WithHooks(n, e)
  BY DEF ClearStep, Then
<1>2. Alike(page, n)
  BY DEF Alike
<1> HIDE DEF n
<1>3. Alike(page, page')
  BY <1>1, <1>2, WithHooksAlike, AlikeAgain
<1> QED  BY <1>1, <1>3, AlikeIsGood DEF EffectsInv

LEMMA HaltStepKeeps == EffectsInv /\ HaltStep => EffectsInv'
<1> SUFFICES ASSUME EffectsInv, HaltStep PROVE EffectsInv'
  OBVIOUS
<1> DEFINE e == Now.elem
           n == [page EXCEPT !.delays = @ \ {page.hooks[e].stop}, !.hooks[e].stop = Nothing]
<1>1. first' = first /\ page' \in {page, n}
  BY DEF HaltStep, Then
<1>2. Alike(page, n)
  BY DEF Alike
<1> HIDE DEF n
<1> QED  BY <1>1, <1>2, AlikeIsGood DEF EffectsInv

LEMMA StopTimersStepKeeps == EffectsInv /\ StopTimersStep => EffectsInv'
<1> SUFFICES ASSUME EffectsInv, StopTimersStep PROVE EffectsInv'
  OBVIOUS
<1> DEFINE n == page.timers[Now.i].step.n
<1>1. first' = first /\ page' \in {page, Ended(page, n)}
  BY DEF StopTimersStep, Then
<1> QED  BY <1>1, EndedIsGood DEF EffectsInv

(* The timers become some of those there are.                                *)
LEMMA FewerTimersAreGood ==
  ASSUME NEW s, NEW fs, NEW ts, Good(s, fs), s.timers # <<>>
  PROVE  Good([s EXCEPT !.timers = ts], fs)
<1> DEFINE n == [s EXCEPT !.timers = ts]
<1>1. DOMAIN n = DOMAIN s /\ n.css = s.css /\ n.interval = s.interval
  BY DEF Good, AllKept
<1> HIDE DEF n
<1>2. Good(n, fs)
  BY <1>1 DEF Good, AllKept, Ticks
<1> QED  BY <1>2 DEF n

LEMMA SpliceStepKeeps == EffectsInv /\ SpliceStep => EffectsInv'
<1> SUFFICES ASSUME EffectsInv, SpliceStep PROVE EffectsInv'
  OBVIOUS
<1> DEFINE ts == IF Now.i \in DOMAIN page.timers THEN RemoveAt(page.timers, Now.i) ELSE page.timers
           n == [page EXCEPT !.timers = ts]
<1>1. first' = first /\ page' = n
  BY DEF SpliceStep, Then
<1>2. CASE Now.i \in DOMAIN page.timers
  BY <1>1, <1>2, FewerTimersAreGood DEF EffectsInv
<1>3. CASE Now.i \notin DOMAIN page.timers
  <2>1. Alike(page, n)
    BY <1>3 DEF Alike, EffectsInv, Good, AllKept
  <2> HIDE DEF n
  <2> QED  BY <1>1, <2>1, AlikeIsGood DEF EffectsInv
<1> QED  BY <1>2, <1>3

LEMMA FinishStepsKeep ==
  EffectsInv /\ (FinishAllStep \/ FinishTimersStep \/ FinishedStep) => EffectsInv'
<1> SUFFICES ASSUME EffectsInv, FinishAllStep \/ FinishTimersStep \/ FinishedStep PROVE EffectsInv'
  OBVIOUS
<1> DEFINE n == [page EXCEPT !.finishing = @ \ {Now.elem}]
<1>1. first' = first /\ page' \in {page, n}
  BY DEF FinishAllStep, FinishTimersStep, FinishedStep, Then
<1>2. Alike(page, n)
  BY DEF Alike
<1> HIDE DEF n
<1> QED  BY <1>1, <1>2, AlikeIsGood DEF EffectsInv

LEMMA TickStepKeeps == EffectsInv /\ TickStep => EffectsInv'
<1> SUFFICES ASSUME EffectsInv, TickStep PROVE EffectsInv'
  OBVIOUS
<1> DEFINE n == [page EXCEPT !.interval = (page.timers # <<>>)]
<1>1. first' = first /\ page' \in {page, n}
  BY DEF TickStep, Then
<1>2. DOMAIN n = DOMAIN page /\ n.css = page.css /\ n.timers = page.timers
      /\ n.interval = (page.timers # <<>>)
  BY DEF EffectsInv, Good, AllKept
<1> HIDE DEF n
<1>3. Good(n, first)
  BY <1>2 DEF EffectsInv, Good, AllKept, Ticks
<1> QED  BY <1>1, <1>3 DEF EffectsInv

LEMMA TickedStepKeeps == EffectsInv /\ TickedStep => EffectsInv'
<1> SUFFICES ASSUME EffectsInv, TickedStep PROVE EffectsInv'
  OBVIOUS
<1> DEFINE same == Now.i \in DOMAIN page.timers /\ page.timers[Now.i].step.n = Now.n
           ts == RemoveAt(page.timers, Now.i)
<1>1. first' = first /\ page' = IF same THEN [page EXCEPT !.timers = ts] ELSE page
  BY DEF TickedStep, Then
<1>2. same => page.timers # <<>>
  OBVIOUS
<1> HIDE DEF same, ts
<1> QED  BY <1>1, <1>2, FewerTimersAreGood DEF EffectsInv

LEMMA LibraryStepKeeps == EffectsInv /\ LibraryStep => EffectsInv'
BY DequeueStepKeeps, StartStepKeeps, CompleteStepKeeps, ClearStepKeeps, HaltStepKeeps, StopTimersStepKeeps,
   SpliceStepKeeps, FinishStepsKeep, TickStepKeeps, TickedStepKeeps DEF LibraryStep

LEMMA FadeStepKeeps == EffectsInv /\ FadeStep => EffectsInv'
<1> SUFFICES ASSUME EffectsInv, FadeStep PROVE EffectsInv'
  OBVIOUS
<1>1. first' = first /\ page' = Queued(page, Now.step)
  BY DEF FadeStep, Then
<1> QED  BY <1>1, QueuedAlike, AlikeIsGood DEF EffectsInv

-----------------------------------------------------------------------------
(* The tasks of the browser.                                                 *)

LEMMA TickKeeps ==
  ASSUME NEW fin, EffectsInv, Tick(fin)
  PROVE  EffectsInv'
BY DEF Tick, Task, EffectsInv

LEMMA DelayFiresKeeps ==
  ASSUME NEW d, EffectsInv, DelayFires(d)
  PROVE  EffectsInv'
<1> DEFINE n == [page EXCEPT !.delays = @ \ {d}]
<1>1. first' = first /\ page' = n
  BY DEF DelayFires, Task
<1>2. Alike(page, n)
  BY DEF Alike
<1> HIDE DEF n
<1> QED  BY <1>1, <1>2, AlikeIsGood DEF EffectsInv

LEMMA QueuedTaskKeeps ==
  ASSUME NEW e, EffectsInv, Animate(e) \/ Delay(e)
  PROVE  EffectsInv'
<1>1. first' = first /\ \E step : page' = Queued(page, step)
  BY DEF Animate, Delay, Task, Called
<1> QED  BY <1>1, QueuedAlike, AlikeIsGood DEF EffectsInv

LEMMA ToggleNowKeeps ==
  ASSUME NEW e, EffectsInv, ToggleNow(e)
  PROVE  EffectsInv'
<1>1. first' = first /\ page' \in {Show(page, e), Hide(page, e)}
  BY DEF ToggleNow, Task, Called
<1> QED  BY <1>1, ShowIsGood, HideIsGood DEF EffectsInv

LEMMA FinishCallKeeps ==
  ASSUME NEW e, EffectsInv, FinishCall(e)
  PROVE  EffectsInv'
<1> DEFINE n == [page EXCEPT !.finishing = @ \cup {e}, !.queue[e] = <<>>]
<1>1. first' = first /\ page' = n
  BY DEF FinishCall, Task, Called
<1>2. Alike(page, n)
  BY DEF Alike
<1> HIDE DEF n
<1> QED  BY <1>1, <1>2, AlikeIsGood DEF EffectsInv

LEMMA PromiseKeeps ==
  ASSUME NEW e, EffectsInv, Promise(e)
  PROVE  EffectsInv'
<1> DEFINE n == [page EXCEPT !.promise[e] = IF page.hooks[e] = Nothing THEN "resolved" ELSE "waiting"]
<1>1. first' = first /\ page' = n
  BY DEF Promise, Task, Called
<1>2. Alike(page, n)
  BY DEF Alike
<1> HIDE DEF n
<1> QED  BY <1>1, <1>2, AlikeIsGood DEF EffectsInv

(* stop() and a queue that is cleared do their work in the steps to come.    *)
LEMMA OtherTasksKeep ==
  ASSUME NEW e, EffectsInv, StopCall(e) \/ ClearQueue(e) \/ MouseEnter(e) \/ MouseLeave(e)
  PROVE  EffectsInv'
<1>1. first' = first /\ page' = page
  BY DEF StopCall, ClearQueue, MouseEnter, MouseLeave, Task, Called, Moves
<1> QED  BY <1>1 DEF EffectsInv

LEMMA NextKeeps == EffectsInv /\ [Next]_vars => EffectsInv'
<1> SUFFICES ASSUME EffectsInv, [Next]_vars PROVE EffectsInv'
  OBVIOUS
<1>1. CASE LibraryStep
  BY <1>1, LibraryStepKeeps
<1>2. CASE FadeStep
  BY <1>2, FadeStepKeeps
<1>3. CASE \E fin \in SUBSET Running : Tick(fin)
  BY <1>3, TickKeeps
<1>4. CASE \E d \in page.delays : DelayFires(d)
  BY <1>4, DelayFiresKeeps
<1>5. ASSUME NEW e \in scope,
             \/ Animate(e) \/ Delay(e) \/ ToggleNow(e) \/ StopCall(e) \/ FinishCall(e)
             \/ ClearQueue(e) \/ Promise(e) \/ MouseEnter(e) \/ MouseLeave(e)
      PROVE  EffectsInv'
  BY <1>5, QueuedTaskKeeps, ToggleNowKeeps, FinishCallKeeps, PromiseKeeps, OtherTasksKeep
<1>6. CASE UNCHANGED vars
  BY <1>6 DEF vars, EffectsInv
<1> QED  BY <1>1, <1>2, <1>3, <1>4, <1>5, <1>6 DEF Next

LEMMA InitIsGood == Init => EffectsInv
<1> SUFFICES ASSUME Init PROVE EffectsInv
  OBVIOUS
<1>1. PICK css \in IF mode = "menu" THEN {[e \in Elements |-> [style |-> "", sheet |-> "none"]]} ELSE Styles :
       /\ page = [queue |-> [e \in Elements |-> Nothing],
                  hooks |-> [e \in Elements |-> Nothing],
                  timers |-> <<>>, interval |-> FALSE, delays |-> {},
                  css |-> [e \in Elements |-> [style |-> css[e].style, sheet |-> css[e].sheet, old |-> ""]],
                  fxshow |-> [e \in Elements |-> Nothing],
                  dim |-> [e \in Elements |-> FALSE],
                  finishing |-> {},
                  promise |-> [e \in Elements |-> Nothing]]
       /\ first = [e \in Elements |->
                     IF css[e].style \notin {"", "none"} THEN css[e].style
                     ELSE IF css[e].sheet # "none" THEN css[e].sheet ELSE "block"]
  BY DEF Init
<1>2. ASSUME NEW e \in Elements PROVE Kept(page.css[e], first[e])
  <2> DEFINE style == css[e].style
             sheet == css[e].sheet
  <2>1. page.css[e] = [style |-> style, sheet |-> sheet, old |-> ""]
    BY <1>1
  <2>2. first[e] = IF style \notin {"", "none"} THEN style ELSE IF sheet # "none" THEN sheet ELSE "block"
    BY <1>1
  <2> HIDE DEF style, sheet
  <2> DEFINE c == [style |-> style, sheet |-> sheet, old |-> ""]
  <2>3. {"style", "sheet", "old"} \subseteq DOMAIN c /\ c.style = style /\ c.sheet = sheet /\ c.old = ""
    OBVIOUS
  <2>4. page.css[e] = c
    BY <2>1
  <2> HIDE DEF c
  <2> QED  BY <2>2, <2>3, <2>4 DEF Kept
<1>3. {"css", "timers", "interval"} \subseteq DOMAIN page /\ DOMAIN page.css = Elements /\ page.timers = <<>>
  BY <1>1
<1> QED  BY <1>2, <1>3 DEF EffectsInv, Good, AllKept, Ticks

LEMMA EffectsInvariant == Spec => []EffectsInv
<1> QED  BY InitIsGood, NextKeeps, PTL DEF Spec

(* Whatever is animated, stopped, finished or toggled, and in whatever order *)
(* the callbacks come, an element that is shown has the display it had at    *)
(* first.                                                                    *)
THEOREM RestoresDisplayThm == Spec => []RestoresDisplay
<1>1. EffectsInv => RestoresDisplay
  BY KeptShows DEF EffectsInv, Good, AllKept, RestoresDisplay
<1> QED  BY <1>1, EffectsInvariant, PTL

(* No animation waits for a tick that does not come: as long as there is a   *)
(* timer, the interval is set.                                               *)
THEOREM TimersTickThm == Spec => []TimersTick
<1>1. EffectsInv => TimersTick
  BY DEF EffectsInv, Good, Ticks, TimersTick
<1> QED  BY <1>1, EffectsInvariant, PTL
-----------------------------------------------------------------------------
(* The menus of layout.js.  What the handlers of the mouse leave to do has   *)
(* one of a few shapes, and each shape says what is true of the page then.   *)

Anims == [k : {"anim"}, n : Nat, elem : Elements, to : {"show", "hide"}, complete : {Nothing}]
Timers == [step : Anims, does : {"show", "hide"}, ended : BOOLEAN]

(* The timers are of animations with numbers below u, and no two of one      *)
(* number or of one element; a menu sets no delay and does not finish().     *)
Apart(ts) ==
  \A i, j \in DOMAIN ts :
    (ts[i].step.elem = ts[j].step.elem \/ ts[i].step.n = ts[j].step.n) => i = j
Below(ts, u) == \A i \in DOMAIN ts : ts[i].step.n < u
AsAsked(ts) == \A i \in DOMAIN ts : ts[i].does = ts[i].step.to

TimersOk(ts, u) == ts \in Seq(Timers) /\ Apart(ts) /\ Below(ts, u) /\ AsAsked(ts)

MenuPage(s, u) ==
  /\ {"queue", "hooks", "timers", "interval", "delays", "css", "fxshow", "dim", "finishing"} \subseteq DOMAIN s
  /\ DOMAIN s.queue = Elements /\ DOMAIN s.fxshow = Elements /\ DOMAIN s.dim = Elements
  /\ \A x \in Elements : s.fxshow[x] \in {Nothing, "kept"}
  /\ s.delays = {} /\ s.finishing = {}
  /\ TimersOk(s.timers, u)

HasTimer(ts, x) == \E i \in DOMAIN ts : ts[i].step.elem = x
RunsFor(ts, x, d) == \E i \in DOMAIN ts : ts[i].step.elem = x /\ ~ts[i].ended /\ ts[i].does = d

Asked(o, x) == IF x \in o THEN "show" ELSE "hide"
Shows(s, o, x) == IsHidden(s, x) <=> x \notin o

(* The menu of x is as the mouse asks, or fades to it.                       *)
Settled(s, o, x) == ~HasTimer(s.timers, x) /\ ~s.dim[x] /\ Shows(s, o, x) /\ Queue(s, x) = <<>>
Fading(s, o, x) == RunsFor(s.timers, x, Asked(o, x)) /\ ~IsHidden(s, x) /\ Queue(s, x) = <<InProgress>>
Calm(s, o, x) == Settled(s, o, x) \/ Fading(s, o, x)
OthersCalm(s, o, e) == \A x \in Elements \ {e} : Calm(s, o, x)

(* The menu of e is stopped: what it does is not ended yet, or nothing is    *)
(* left of it.                                                               *)
Loose(s, e) ==
  \/ RunsFor(s.timers, e, "show") \/ RunsFor(s.timers, e, "hide")
  \/ ~HasTimer(s.timers, e) /\ ~s.dim[e]
Bare(s, e) == ~HasTimer(s.timers, e) /\ ~s.dim[e]

(* The fade that the last move of the mouse asks for.                        *)
Asks(o, u, e) == Anim(u - 1, e, Asked(o, e), Nothing)

Resting(s, c, o) == c = <<>> /\ \A x \in Elements : Calm(s, o, x)

Stops1(s, c, o, u, e) ==
  c = <<Clear(e), Halt(e, TRUE), Fade(Asks(o, u, e))>> /\ Loose(s, e)
Stops2(s, c, o, u, e) ==
  c = <<Dequeue(e), Halt(e, TRUE), Fade(Asks(o, u, e))>> /\ Loose(s, e) /\ Queue(s, e) = <<>>
Stops3(s, c, o, u, e) ==
  c = <<Halt(e, TRUE), Fade(Asks(o, u, e))>> /\ Loose(s, e) /\ Queue(s, e) = <<>>
Stops4(s, c, o, u, e) ==
  /\ \E i \in Nat, dq \in BOOLEAN :
       /\ c = <<StopTimers(e, i, TRUE, dq), Fade(Asks(o, u, e))>>
       /\ i <= Len(s.timers)
       /\ \A j \in DOMAIN s.timers : s.timers[j].step.elem = e => j <= i
  /\ Loose(s, e) /\ Queue(s, e) = <<>>
Stops5(s, c, o, u, e) ==
  /\ \E i \in DOMAIN s.timers :
       /\ c = <<Complete(s.timers[i].step, s.timers[i].does), Splice(i), StopTimers(e, i - 1, TRUE, FALSE),
                Fade(Asks(o, u, e))>>
       /\ s.timers[i].step.elem = e
  /\ Queue(s, e) = <<>>
Stops6(s, c, o, u, e) ==
  /\ \E i \in DOMAIN s.timers :
       /\ c = <<Dequeue(e), Splice(i), StopTimers(e, i - 1, TRUE, FALSE), Fade(Asks(o, u, e))>>
       /\ s.timers[i].step.elem = e
  /\ ~s.dim[e] /\ Queue(s, e) = <<>>
Stops7(s, c, o, u, e) ==
  /\ \E i \in DOMAIN s.timers :
       /\ c = <<Splice(i), StopTimers(e, i - 1, TRUE, FALSE), Fade(Asks(o, u, e))>>
       /\ s.timers[i].step.elem = e
  /\ ~s.dim[e] /\ Queue(s, e) = <<>>
Stops8(s, c, o, u, e) ==
  c = <<Dequeue(e), Fade(Asks(o, u, e))>> /\ Bare(s, e) /\ Queue(s, e) = <<>>
Fades1(s, c, o, u, e) ==
  c = <<Fade(Asks(o, u, e))>> /\ Bare(s, e) /\ Queue(s, e) = <<>>
Fades2(s, c, o, u, e) ==
  c = <<Dequeue(e)>> /\ Bare(s, e) /\ Queue(s, e) = <<Asks(o, u, e)>>
Fades3(s, c, o, u, e) ==
  c = <<Start(Asks(o, u, e))>> /\ Bare(s, e) /\ Queue(s, e) = <<InProgress>>
Fades4(s, c, o, u, e) ==
  c = <<Complete(Asks(o, u, e), "none")>> /\ Bare(s, e) /\ Queue(s, e) = <<InProgress>> /\ Shows(s, o, e)
Fades5(s, c, o, u, e) ==
  c = <<Dequeue(e)>> /\ Bare(s, e) /\ Queue(s, e) = <<InProgress>> /\ Shows(s, o, e)

Moving(s, c, o, u, e) ==
  /\ u \in Nat \ {0}
  /\ Below(s.timers, u - 1)
  /\ OthersCalm(s, o, e)
  /\ \/ Stops1(s, c, o, u, e) \/ Stops2(s, c, o, u, e) \/ Stops3(s, c, o, u, e) \/ Stops4(s, c, o, u, e)
     \/ Stops5(s, c, o, u, e) \/ Stops6(s, c, o, u, e) \/ Stops7(s, c, o, u, e) \/ Stops8(s, c, o, u, e)
     \/ Fades1(s, c, o, u, e) \/ Fades2(s, c, o, u, e) \/ Fades3(s, c, o, u, e) \/ Fades4(s, c, o, u, e)
     \/ Fades5(s, c, o, u, e)

(* A tick of the interval: it looks at a timer, or ends its animation.       *)
Ticks1(s, c, o) ==
  (\E i \in Nat \ {0} : \E fin : c = <<TickFrom(i, fin)>>) /\ \A x \in Elements : Calm(s, o, x)
Ticks2(s, c, o, i, fin) ==
  /\ c = <<Complete(s.timers[i].step, s.timers[i].does), Ticked(i, s.timers[i].step.n, fin)>>
  /\ \A x \in Elements : Calm(s, o, x)
TickEnds(s, o, i) ==
  LET e == s.timers[i].step.elem
  IN OthersCalm(s, o, e) /\ ~s.dim[e] /\ Shows(s, o, e)
Ticks3(s, c, o, i, fin) ==
  /\ c = <<Dequeue(s.timers[i].step.elem), Ticked(i, s.timers[i].step.n, fin)>>
  /\ TickEnds(s, o, i) /\ Queue(s, s.timers[i].step.elem) = <<InProgress>>
Ticks4(s, c, o, i, fin) ==
  /\ c = <<Ticked(i, s.timers[i].step.n, fin)>>
  /\ TickEnds(s, o, i) /\ Queue(s, s.timers[i].step.elem) = <<>>
Ticking(s, c, o) ==
  \/ Ticks1(s, c, o)
  \/ \E i \in DOMAIN s.timers : \E fin :
       Ticks2(s, c, o, i, fin) \/ Ticks3(s, c, o, i, fin) \/ Ticks4(s, c, o, i, fin)

MenuInv ==
  mode = "menu" =>
    /\ used \in Nat
    /\ scope = Elements
    /\ over \subseteq Elements
    /\ MenuPage(page, used)
    /\ Resting(page, calls, over) \/ Ticking(page, calls, over) \/ \E e \in Elements : Moving(page, calls, over, used, e)

-----------------------------------------------------------------------------
(* The list of timers: one is added, ends, or is taken out.                  *)

LEMMA TimersAppended ==
  ASSUME NEW ts, NEW u \in Nat \ {0}, NEW t \in Timers, TimersOk(ts, u), Below(ts, u - 1),
         t.step.n = u - 1, t.does = t.step.to, ~HasTimer(ts, t.step.elem)
  PROVE  LET n == Append(ts, t)
         IN /\ TimersOk(n, u)
            /\ \A x, d : x # t.step.elem => (RunsFor(n, x, d) <=> RunsFor(ts, x, d))
            /\ \A x : x # t.step.elem => (HasTimer(n, x) <=> HasTimer(ts, x))
            /\ ~t.ended => RunsFor(n, t.step.elem, t.does)
<1> DEFINE n == Append(ts, t)
<1>1. /\ n \in Seq(Timers)
      /\ DOMAIN ts = 1..Len(ts) /\ Len(ts) \in Nat
      /\ DOMAIN n = 1..(Len(ts) + 1)
      /\ \A i \in DOMAIN ts : n[i] = ts[i]
      /\ n[Len(ts) + 1] = t
  BY DEF TimersOk
<1>2. \A i \in DOMAIN n : i \in DOMAIN ts \/ i = Len(ts) + 1
  BY <1>1
<1>2a. DOMAIN ts \subseteq DOMAIN n /\ Len(ts) + 1 \in DOMAIN n /\ Len(ts) + 1 \notin DOMAIN ts
  BY <1>1
<1>2b. \A i \in DOMAIN ts : ts[i].step.n < u - 1 /\ ts[i].step.elem # t.step.elem
  BY DEF Below, HasTimer
<1>2c. \A i \in DOMAIN ts : ts[i].step.n \in Nat
  <2> SUFFICES ASSUME NEW i \in DOMAIN ts PROVE ts[i].step.n \in Nat
    OBVIOUS
  <2>1. ts[i] \in Timers
    BY <1>1 DEF TimersOk
  <2>2. ts[i].step \in Anims
    BY <2>1 DEF Timers
  <2> QED  BY <2>2 DEF Anims
<1> HIDE DEF n
<1>3. Apart(n)
  <2> SUFFICES ASSUME NEW i \in DOMAIN n, NEW j \in DOMAIN n,
                      n[i].step.elem = n[j].step.elem \/ n[i].step.n = n[j].step.n
               PROVE  i = j
    BY DEF Apart
  <2>1. CASE i \in DOMAIN ts /\ j \in DOMAIN ts
    BY <1>1, <2>1 DEF TimersOk, Apart
  <2>2. CASE i \in DOMAIN ts /\ j = Len(ts) + 1
    BY <1>1, <1>2b, <1>2c, <2>2
  <2>3. CASE j \in DOMAIN ts /\ i = Len(ts) + 1
    BY <1>1, <1>2b, <1>2c, <2>3
  <2> QED  BY <1>2, <2>1, <2>2, <2>3
<1>4. Below(n, u)
  BY <1>1, <1>2, <1>2b, <1>2c DEF Below
<1>5. AsAsked(n)
  BY <1>1, <1>2 DEF TimersOk, AsAsked
<1>6. \A x, d : x # t.step.elem => (RunsFor(n, x, d) <=> RunsFor(ts, x, d))
  BY <1>1, <1>2, <1>2a DEF RunsFor
<1>7. \A x : x # t.step.elem => (HasTimer(n, x) <=> HasTimer(ts, x))
  BY <1>1, <1>2, <1>2a DEF HasTimer
<1>8. ~t.ended => RunsFor(n, t.step.elem, t.does)
  BY <1>1, <1>2a DEF RunsFor
<1> QED  BY <1>1, <1>3, <1>4, <1>5, <1>6, <1>7, <1>8 DEF TimersOk, n

LEMMA TimerEnded ==
  ASSUME NEW ts, NEW u, NEW i \in DOMAIN ts, TimersOk(ts, u)
  PROVE  LET n == [ts EXCEPT ![i].ended = TRUE]
         IN /\ TimersOk(n, u)
            /\ DOMAIN n = DOMAIN ts
            /\ \A j \in DOMAIN ts : n[j].step = ts[j].step /\ n[j].does = ts[j].does
            /\ n[i].ended
            /\ \A x, d : x # ts[i].step.elem => (RunsFor(n, x, d) <=> RunsFor(ts, x, d))
            /\ \A x : HasTimer(n, x) <=> HasTimer(ts, x)
<1> DEFINE n == [ts EXCEPT ![i].ended = TRUE]
           t == [ts[i] EXCEPT !.ended = TRUE]
<1>1. ts \in Seq(Timers) /\ DOMAIN ts = 1..Len(ts) /\ Len(ts) \in Nat /\ ts[i] \in Timers
  BY DEF TimersOk
<1>2. t \in Timers /\ t.step = ts[i].step /\ t.does = ts[i].does /\ t.ended
  BY <1>1 DEF Timers
<1>3. n = [ts EXCEPT ![i] = t]
  OBVIOUS
<1> HIDE DEF t
<1>4. n \in Seq(Timers) /\ DOMAIN n = DOMAIN ts /\ n[i] = t /\ \A j \in DOMAIN ts : j # i => n[j] = ts[j]
  <2>1. DOMAIN n = DOMAIN ts /\ n[i] = t /\ \A j \in DOMAIN ts : j # i => n[j] = ts[j]
    BY <1>1, <1>3
  <2>2. n \in Seq(Timers)
    BY <1>1, <1>2, <1>3, ExceptSeq
  <2> HIDE DEF n
  <2> QED  BY <1>1, <2>1, <2>2
<1> HIDE DEF n
<1>5. \A j \in DOMAIN ts : n[j].step = ts[j].step /\ n[j].does = ts[j].does
  BY <1>2, <1>4
<1>6. Apart(n) /\ Below(n, u) /\ AsAsked(n)
  BY <1>4, <1>5 DEF TimersOk, Apart, Below, AsAsked
<1>7. \A x, d : x # ts[i].step.elem => (RunsFor(n, x, d) <=> RunsFor(ts, x, d))
  BY <1>2, <1>4 DEF RunsFor
<1>8. \A x : HasTimer(n, x) <=> HasTimer(ts, x)
  BY <1>4, <1>5 DEF HasTimer
<1> QED  BY <1>2, <1>4, <1>5, <1>6, <1>7, <1>8 DEF TimersOk, n

LEMMA RemovedAt ==
  ASSUME NEW S, NEW ts \in Seq(S), NEW i \in DOMAIN ts
  PROVE  LET n == RemoveAt(ts, i)
         IN /\ n \in Seq(S)
            /\ Len(ts) \in Nat \ {0} /\ Len(n) = Len(ts) - 1
            /\ DOMAIN ts = 1..Len(ts) /\ DOMAIN n = 1..(Len(ts) - 1)
            /\ \A j \in DOMAIN n : n[j] = IF j < i THEN ts[j] ELSE ts[j + 1]
<1> DEFINE p == SubSeq(ts, 1, i - 1)
           q == SubSeq(ts, i + 1, Len(ts))
<1>1. i \in 1..Len(ts) /\ Len(ts) \in Nat \ {0} /\ DOMAIN ts = 1..Len(ts)
  OBVIOUS
<1>2. p \in Seq(S) /\ Len(p) = i - 1 /\ \A j \in 1..(i - 1) : p[j] = ts[j]
  BY <1>1
<1>3. q \in Seq(S) /\ Len(q) = Len(ts) - i /\ \A j \in 1..(Len(ts) - i) : q[j] = ts[i + j]
  BY <1>1
<1>4. RemoveAt(ts, i) = p \o q
  BY DEF RemoveAt
<1> HIDE DEF p, q
<1>5. /\ p \o q \in Seq(S) /\ Len(p \o q) = Len(ts) - 1
      /\ \A j \in 1..(Len(ts) - 1) : (p \o q)[j] = IF j <= i - 1 THEN p[j] ELSE q[j - (i - 1)]
  <2>1. /\ p \o q \in Seq(S) /\ Len(p \o q) = Len(p) + Len(q)
        /\ \A j \in 1..(Len(p) + Len(q)) : (p \o q)[j] = IF j <= Len(p) THEN p[j] ELSE q[j - Len(p)]
    BY <1>2, <1>3, ConcatProperties
  <2>2. Len(p) + Len(q) = Len(ts) - 1
    BY <1>1, <1>2, <1>3
  <2> QED  BY <1>2, <2>1, <2>2
<1>6. ASSUME NEW j \in 1..(Len(ts) - 1)
      PROVE  (p \o q)[j] = IF j < i THEN ts[j] ELSE ts[j + 1]
  <2>1. i \in Nat /\ j \in Nat /\ Len(ts) \in Nat
    BY <1>1
  <2>2. CASE j <= i - 1
    <3>1. j \in 1..(i - 1) /\ j < i
      BY <2>1, <2>2
    <3> QED  BY <1>2, <1>5, <2>2, <3>1
  <2>3. CASE j > i - 1
    <3>1. /\ j - (i - 1) \in 1..(Len(ts) - i) /\ i + (j - (i - 1)) = j + 1
          /\ ~(j <= i - 1) /\ ~(j < i)
      BY <2>1, <2>3
    <3>2. (p \o q)[j] = q[j - (i - 1)]
      BY <1>5, <3>1
    <3>3. q[j - (i - 1)] = ts[i + (j - (i - 1))]
      BY <1>3, <3>1
    <3> QED  BY <3>1, <3>2, <3>3
  <2>4. j <= i - 1 \/ j > i - 1
    BY <2>1
  <2> QED  BY <2>2, <2>3, <2>4, ZenonT(40)
<1>7. DOMAIN (p \o q) = 1..(Len(ts) - 1)
  BY <1>5
<1> QED  BY <1>1, <1>4, <1>5, <1>6, <1>7

LEMMA TimerRemoved ==
  ASSUME NEW ts, NEW u, NEW i \in DOMAIN ts, TimersOk(ts, u)
  PROVE  LET n == RemoveAt(ts, i)
         IN /\ TimersOk(n, u)
            /\ Len(n) = Len(ts) - 1
            /\ \A x, d : x # ts[i].step.elem => (RunsFor(n, x, d) <=> RunsFor(ts, x, d))
            /\ \A x : x # ts[i].step.elem => (HasTimer(n, x) <=> HasTimer(ts, x))
            /\ ~HasTimer(n, ts[i].step.elem)
            /\ \A v : Below(ts, v) => Below(n, v)
<1> DEFINE n == RemoveAt(ts, i)
           was(j) == IF j < i THEN j ELSE j + 1
           is(j) == IF j < i THEN j ELSE j - 1
<1>1. ts \in Seq(Timers) /\ i \in 1..Len(ts)
  BY DEF TimersOk
<1>2. /\ n \in Seq(Timers)
      /\ Len(ts) \in Nat \ {0} /\ Len(n) = Len(ts) - 1
      /\ DOMAIN ts = 1..Len(ts) /\ DOMAIN n = 1..(Len(ts) - 1)
      /\ \A j \in DOMAIN n : n[j] = IF j < i THEN ts[j] ELSE ts[j + 1]
  BY <1>1, RemovedAt
<1> HIDE DEF n
<1>3. \A j \in DOMAIN n : was(j) \in DOMAIN ts /\ was(j) # i /\ n[j] = ts[was(j)]
  BY <1>1, <1>2
<1>4. \A j, k \in DOMAIN n : was(j) = was(k) => j = k
  BY <1>1, <1>2
<1>5. \A j \in DOMAIN ts : j # i => is(j) \in DOMAIN n /\ was(is(j)) = j
  BY <1>1, <1>2
<1> HIDE DEF was, is
<1>6. \A j \in DOMAIN ts : j # i => is(j) \in DOMAIN n /\ n[is(j)] = ts[j]
  BY <1>3, <1>5
<1>7. Apart(n)
  <2> SUFFICES ASSUME NEW j \in DOMAIN n, NEW k \in DOMAIN n,
                      n[j].step.elem = n[k].step.elem \/ n[j].step.n = n[k].step.n
               PROVE  j = k
    BY DEF Apart
  <2>1. was(j) = was(k)
    BY <1>3 DEF TimersOk, Apart
  <2> QED  BY <1>4, <2>1
<1>8. AsAsked(n) /\ \A v : Below(ts, v) => Below(n, v)
  BY <1>3 DEF TimersOk, AsAsked, Below
<1>9. \A x, d : x # ts[i].step.elem => (RunsFor(n, x, d) <=> RunsFor(ts, x, d))
  BY <1>3, <1>6 DEF RunsFor
<1>10. \A x : x # ts[i].step.elem => (HasTimer(n, x) <=> HasTimer(ts, x))
  BY <1>3, <1>6 DEF HasTimer
<1>11. ~HasTimer(n, ts[i].step.elem)
  BY <1>3 DEF TimersOk, Apart, HasTimer
<1> QED  BY <1>2, <1>7, <1>8, <1>9, <1>10, <1>11 DEF TimersOk, n

-----------------------------------------------------------------------------
(* What the steps make of the calls under way.                               *)

LEMMA Tails ==
  ASSUME NEW a, NEW b, NEW c, NEW d
  PROVE  /\ Tail(<<a>>) = <<>> /\ Tail(<<a, b>>) = <<b>> /\ Tail(<<a, b, c>>) = <<b, c>>
         /\ Tail(<<a, b, c, d>>) = <<b, c, d>>
OBVIOUS

LEMMA NoMore ==
  ASSUME NEW a, NEW b, NEW c
  PROVE  /\ <<>> \o <<>> = <<>> /\ <<>> \o <<a>> = <<a>> /\ <<>> \o <<a, b>> = <<a, b>>
         /\ <<>> \o <<a, b, c>> = <<a, b, c>>
<1>1. <<>> \o <<>> = <<>>
  OBVIOUS
<1>2. <<>> \o <<a>> = <<a>>
  OBVIOUS
<1>3. <<>> \o <<a, b>> = <<a, b>>
  OBVIOUS
<1>4. <<>> \o <<a, b, c>> = <<a, b, c>>
  OBVIOUS
<1> QED  BY <1>1, <1>2, <1>3, <1>4

LEMMA OneMore ==
  ASSUME NEW x, NEW a, NEW b
  PROVE  /\ <<x>> \o <<>> = <<x>> /\ <<x>> \o <<a>> = <<x, a>> /\ <<x>> \o <<a, b>> = <<x, a, b>>
<1>1. <<x>> \o <<>> = <<x>>
  OBVIOUS
<1>2. <<x>> \o <<a>> = <<x, a>>
  <2> DEFINE p == <<x>>
             q == <<a>>
             r == <<x, a>>
             S == {x, a}
  <2>1. p \in Seq(S) /\ q \in Seq(S) /\ r \in Seq(S) /\ Len(p) = 1 /\ Len(q) = 1 /\ Len(r) = 2
    OBVIOUS
  <2>2. /\ r[1] = p[1]
        /\ r[2] = q[1]
    OBVIOUS
  <2> HIDE DEF p, q, r, S
  <2>3. /\ p \o q \in Seq(S) /\ Len(p \o q) = Len(p) + Len(q)
        /\ \A i \in 1..(Len(p) + Len(q)) : (p \o q)[i] = IF i <= Len(p) THEN p[i] ELSE q[i - Len(p)]
    BY <2>1, ConcatProperties
  <2>4. Len(p) + Len(q) = 2
    BY <2>1
  <2>5. \A i \in 1..2 : (p \o q)[i] = r[i]
    BY <2>1, <2>2, <2>3, <2>4
  <2>6. p \o q = r
    BY <2>1, <2>3, <2>4, <2>5, SeqEqual
  <2> QED  BY <2>6 DEF p, q, r
<1>3. <<x>> \o <<a, b>> = <<x, a, b>>
  <2> DEFINE p == <<x>>
             q == <<a, b>>
             r == <<x, a, b>>
             S == {x, a, b}
  <2>1. p \in Seq(S) /\ q \in Seq(S) /\ r \in Seq(S) /\ Len(p) = 1 /\ Len(q) = 2 /\ Len(r) = 3
    OBVIOUS
  <2>2. /\ r[1] = p[1]
        /\ r[2] = q[1] /\ r[3] = q[2]
    OBVIOUS
  <2> HIDE DEF p, q, r, S
  <2>3. /\ p \o q \in Seq(S) /\ Len(p \o q) = Len(p) + Len(q)
        /\ \A i \in 1..(Len(p) + Len(q)) : (p \o q)[i] = IF i <= Len(p) THEN p[i] ELSE q[i - Len(p)]
    BY <2>1, ConcatProperties
  <2>4. Len(p) + Len(q) = 3
    BY <2>1
  <2>5. \A i \in 1..3 : (p \o q)[i] = r[i]
    BY <2>1, <2>2, <2>3, <2>4
  <2>6. p \o q = r
    BY <2>1, <2>3, <2>4, <2>5, SeqEqual
  <2> QED  BY <2>6 DEF p, q, r
<1> QED  BY <1>1, <1>2, <1>3

LEMMA FourCalls ==
  ASSUME NEW x, NEW a, NEW b, NEW c
  PROVE  <<x>> \o <<a, b, c>> = <<x, a, b, c>>
<1> DEFINE p == <<x>>
           q == <<a, b, c>>
           r == <<x, a, b, c>>
           S == {x, a, b, c}
<1>1. p \in Seq(S) /\ q \in Seq(S) /\ r \in Seq(S) /\ Len(p) = 1 /\ Len(q) = 3 /\ Len(r) = 4
  OBVIOUS
<1>2. /\ r[1] = p[1]
      /\ r[2] = q[1] /\ r[3] = q[2] /\ r[4] = q[3]
  OBVIOUS
<1> HIDE DEF p, q, r, S
<1>3. /\ p \o q \in Seq(S) /\ Len(p \o q) = Len(p) + Len(q)
      /\ \A i \in 1..(Len(p) + Len(q)) : (p \o q)[i] = IF i <= Len(p) THEN p[i] ELSE q[i - Len(p)]
  BY <1>1, ConcatProperties
<1>4. Len(p) + Len(q) = 4
  BY <1>1
<1>5. \A i \in 1..4 : (p \o q)[i] = r[i]
  BY <1>1, <1>2, <1>3, <1>4
<1>6. p \o q = r
  BY <1>1, <1>3, <1>4, <1>5, SeqEqual
<1> QED  BY <1>6 DEF p, q, r

LEMMA MoreWork ==
  ASSUME NEW x, NEW y, NEW z, NEW a
  PROVE  /\ <<x, y>> \o <<>> = <<x, y>> /\ <<x, y>> \o <<a>> = <<x, y, a>>
         /\ <<x, y, z>> \o <<a>> = <<x, y, z, a>>
<1>1. <<x, y>> \o <<>> = <<x, y>>
  OBVIOUS
<1>2. <<x, y>> \o <<a>> = <<x, y, a>>
  <2> DEFINE p == <<x, y>>
             q == <<a>>
             r == <<x, y, a>>
             S == {x, y, a}
  <2>1. p \in Seq(S) /\ q \in Seq(S) /\ r \in Seq(S) /\ Len(p) = 2 /\ Len(q) = 1 /\ Len(r) = 3
    OBVIOUS
  <2>2. /\ r[1] = p[1] /\ r[2] = p[2]
        /\ r[3] = q[1]
    OBVIOUS
  <2> HIDE DEF p, q, r, S
  <2>3. /\ p \o q \in Seq(S) /\ Len(p \o q) = Len(p) + Len(q)
        /\ \A i \in 1..(Len(p) + Len(q)) : (p \o q)[i] = IF i <= Len(p) THEN p[i] ELSE q[i - Len(p)]
    BY <2>1, ConcatProperties
  <2>4. Len(p) + Len(q) = 3
    BY <2>1
  <2>5. \A i \in 1..3 : (p \o q)[i] = r[i]
    BY <2>1, <2>2, <2>3, <2>4
  <2>6. p \o q = r
    BY <2>1, <2>3, <2>4, <2>5, SeqEqual
  <2> QED  BY <2>6 DEF p, q, r
<1>3. <<x, y, z>> \o <<a>> = <<x, y, z, a>>
  <2> DEFINE p == <<x, y, z>>
             q == <<a>>
             r == <<x, y, z, a>>
             S == {x, y, z, a}
  <2>1. p \in Seq(S) /\ q \in Seq(S) /\ r \in Seq(S) /\ Len(p) = 3 /\ Len(q) = 1 /\ Len(r) = 4
    OBVIOUS
  <2>2. /\ r[1] = p[1] /\ r[2] = p[2] /\ r[3] = p[3]
        /\ r[4] = q[1]
    OBVIOUS
  <2> HIDE DEF p, q, r, S
  <2>3. /\ p \o q \in Seq(S) /\ Len(p \o q) = Len(p) + Len(q)
        /\ \A i \in 1..(Len(p) + Len(q)) : (p \o q)[i] = IF i <= Len(p) THEN p[i] ELSE q[i - Len(p)]
    BY <2>1, ConcatProperties
  <2>4. Len(p) + Len(q) = 4
    BY <2>1
  <2>5. \A i \in 1..4 : (p \o q)[i] = r[i]
    BY <2>1, <2>2, <2>3, <2>4
  <2>6. p \o q = r
    BY <2>1, <2>3, <2>4, <2>5, SeqEqual
  <2> QED  BY <2>6 DEF p, q, r
<1> QED  BY <1>1, <1>2, <1>3

-----------------------------------------------------------------------------
(* A step that only changes the queue of e, which becomes q.                 *)

Like(s, n) ==
  /\ DOMAIN n = DOMAIN s
  /\ n.timers = s.timers /\ n.css = s.css /\ n.fxshow = s.fxshow /\ n.dim = s.dim
  /\ n.delays = s.delays /\ n.finishing = s.finishing

Requeued(s, n, e, q) ==
  /\ Like(s, n)
  /\ DOMAIN n.queue = DOMAIN s.queue
  /\ Queue(n, e) = q
  /\ \A x \in Elements \ {e} : Queue(n, x) = Queue(s, x)

(* A step that leaves every element but e as it is.                          *)
Beside(s, n, e) ==
  \A x \in Elements \ {e} :
    /\ IsHidden(n, x) <=> IsHidden(s, x)
    /\ Queue(n, x) = Queue(s, x)
    /\ n.dim[x] = s.dim[x]
    /\ HasTimer(n.timers, x) <=> HasTimer(s.timers, x)
    /\ \A d : RunsFor(n.timers, x, d) <=> RunsFor(s.timers, x, d)

LEMMA BesideCalm ==
  ASSUME NEW s, NEW n, NEW o, NEW e, Beside(s, n, e), OthersCalm(s, o, e)
  PROVE  OthersCalm(n, o, e)
<1> SUFFICES ASSUME NEW x \in Elements \ {e} PROVE Calm(n, o, x)
  BY DEF OthersCalm
<1>1. Calm(s, o, x)
  BY DEF OthersCalm
<1>2. /\ IsHidden(n, x) <=> IsHidden(s, x)
      /\ Queue(n, x) = Queue(s, x)
      /\ n.dim[x] = s.dim[x]
      /\ HasTimer(n.timers, x) <=> HasTimer(s.timers, x)
      /\ RunsFor(n.timers, x, Asked(o, x)) <=> RunsFor(s.timers, x, Asked(o, x))
  BY DEF Beside
<1> QED  BY <1>1, <1>2 DEF Calm, Settled, Fading, Shows

LEMMA RequeuedKeeps ==
  ASSUME NEW s, NEW n, NEW u, NEW e \in Elements, NEW q, MenuPage(s, u), Requeued(s, n, e, q)
  PROVE  /\ MenuPage(n, u)
         /\ Queue(n, e) = q
         /\ n.timers = s.timers
         /\ n.dim[e] = s.dim[e]
         /\ IsHidden(n, e) <=> IsHidden(s, e)
         /\ Loose(s, e) => Loose(n, e)
         /\ Bare(s, e) => Bare(n, e)
         /\ Beside(s, n, e)
<1>1. MenuPage(n, u)
  BY DEF Requeued, Like, MenuPage
<1>2. Queue(n, e) = q /\ n.timers = s.timers /\ n.dim = s.dim /\ n.css = s.css
  BY DEF Requeued, Like
<1>3. Loose(s, e) => Loose(n, e)
  BY <1>2 DEF Loose
<1>4. Bare(s, e) => Bare(n, e)
  BY <1>2 DEF Bare
<1>5. \A x : IsHidden(n, x) <=> IsHidden(s, x)
  BY <1>2 DEF IsHidden
<1>6. Beside(s, n, e)
  BY <1>2, <1>5 DEF Requeued, Beside
<1> QED  BY <1>1, <1>2, <1>3, <1>4, <1>5, <1>6

LEMMA HooksRequeue ==
  ASSUME NEW s, NEW n, NEW e, NEW q, NEW x, Requeued(s, n, e, q)
  PROVE  Requeued(s, WithHooks(n, x), e, q)
<1> DEFINE m == WithHooks(n, x)
<1>1. DOMAIN m = DOMAIN n /\ m.queue = n.queue /\ Like(n, m)
  BY DEF WithHooks, Like
<1> HIDE DEF m
<1>2. \A y : Queue(m, y) = Queue(n, y)
  BY <1>1 DEF Queue
<1>3. Requeued(s, m, e, q)
  BY <1>1, <1>2 DEF Requeued, Like
<1> QED  BY <1>3 DEF m

LEMMA EmptyRequeues ==
  ASSUME NEW s, NEW u, NEW e \in Elements, MenuPage(s, u)
  PROVE  Requeued(s, EmptyFires(s, e), e, <<>>)
<1> DEFINE n == EmptyFires(s, e)
<1>1. /\ Like(s, n) /\ DOMAIN n = DOMAIN s
      /\ n.queue = [s.queue EXCEPT ![e] = Nothing]
  BY DEF EmptyFires, Like, MenuPage
<1> HIDE DEF n
<1>2. /\ DOMAIN n.queue = DOMAIN s.queue /\ n.queue[e] = Nothing
      /\ \A x \in Elements \ {e} : n.queue[x] = s.queue[x]
  BY <1>1 DEF MenuPage
<1>3. Requeued(s, n, e, <<>>)
  BY <1>1, <1>2 DEF Requeued, Queue
<1> QED  BY <1>3 DEF n

LEMMA SetRequeues ==
  ASSUME NEW s, NEW u, NEW e \in Elements, NEW q \in Seq(Steps), MenuPage(s, u)
  PROVE  Requeued(s, [s EXCEPT !.queue[e] = q], e, q)
<1> DEFINE n == [s EXCEPT !.queue[e] = q]
<1>1. /\ Like(s, n) /\ DOMAIN n = DOMAIN s
      /\ n.queue = [s.queue EXCEPT ![e] = q]
  BY DEF Like, MenuPage
<1> HIDE DEF n
<1>2. /\ DOMAIN n.queue = DOMAIN s.queue /\ n.queue[e] = q
      /\ \A x \in Elements \ {e} : n.queue[x] = s.queue[x]
  BY <1>1 DEF MenuPage
<1>3. q # Nothing
  BY EffectsAssumption
<1>4. Requeued(s, n, e, q)
  BY <1>1, <1>2, <1>3 DEF Requeued, Queue
<1> QED  BY <1>4 DEF n

(* The steps of a queue, as the library tells them apart.                    *)
LEMMA StepsDiffer ==
  ASSUME NEW a \in Anims
  PROVE  a # InProgress /\ a.k = "anim" /\ a \in Steps /\ InProgress \in Steps
<1>1. a.k = "anim" /\ InProgress.k = "inprogress"
  BY DEF Anims, InProgress
<1>2. a \in [k : {"anim"}, n : Nat, elem : Elements, to : {"show", "hide", "toggle"}, complete : Elements \cup {Nothing}]
  BY DEF Anims
<1>3. a \in Steps /\ InProgress \in Steps
  BY <1>2 DEF Steps
<1> QED  BY <1>1, <1>3

Rest == <<mode, scope, over, first, used>>

LEMMA DequeueEmpty ==
  ASSUME NEW u, NEW e \in Elements, MenuPage(page, u), ~Idle, Now = Dequeue(e), DequeueStep,
         Queue(page, e) \in {<<>>, <<InProgress>>}
  PROVE  /\ Requeued(page, page', e, <<>>)
         /\ calls' = <<>> \o Tail(calls)
         /\ UNCHANGED Rest
<1> DEFINE q == Queue(page, e)
           rest == IF q # <<>> /\ Head(q) = InProgress THEN Tail(q) ELSE q
<1>1. Now.elem = e
  BY DEF Dequeue
<1>2. rest = <<>>
  <2>1. CASE q = <<>>
    BY <2>1
  <2>2. CASE q = <<InProgress>>
    <3>1. Tail(<<InProgress>>) = <<>> /\ <<InProgress>> # <<>> /\ Head(<<InProgress>>) = InProgress
      OBVIOUS
    <3> HIDE DEF q
    <3> QED  BY <2>2, <3>1
  <2> HIDE DEF rest
  <2> QED  BY <2>1, <2>2 DEF q
<1>3. Then(EmptyFires(page, e), <<>>)
  BY <1>1, <1>2 DEF DequeueStep
<1> QED  BY <1>3, EmptyRequeues DEF Then, Rest

LEMMA DequeueStarts ==
  ASSUME NEW u, NEW e \in Elements, NEW a \in Anims, MenuPage(page, u), ~Idle, Now = Dequeue(e), DequeueStep,
         Queue(page, e) = <<a>>
  PROVE  /\ Requeued(page, page', e, <<InProgress>>)
         /\ calls' = <<Start(a)>> \o Tail(calls)
         /\ UNCHANGED Rest
<1> DEFINE hooked == WithHooks(page, e)
           hooks == [cur |-> a, stop |-> Nothing]
           ready == [hooked EXCEPT !.queue[e] = <<InProgress>>, !.hooks[e] = hooks]
<1>1. Now.elem = e
  BY DEF Dequeue
<1>2. a # InProgress /\ a.k = "anim" /\ InProgress \in Steps
  BY StepsDiffer
<1>3. Then(ready, <<Start(a)>>)
  <2> DEFINE q == Queue(page, e)
             rest == IF q # <<>> /\ Head(q) = InProgress THEN Tail(q) ELSE q
  <2>1. rest = <<a>> /\ rest # <<>> /\ Head(rest) = a /\ Tail(rest) = <<>>
    BY <1>2
  <2>2. <<InProgress>> \o Tail(rest) = <<InProgress>>
    BY <2>1, OneMore
  <2> HIDE DEF rest
  <2>3. Then([WithHooks(page, e) EXCEPT !.queue[e] = <<InProgress>> \o Tail(rest),
                                        !.hooks[e] = [cur |-> Head(rest), stop |-> Nothing]],
             <<Start(Head(rest))>>)
    BY <1>1, <1>2, <2>1 DEF DequeueStep, rest
  <2> QED  BY <2>1, <2>2, <2>3
<1>4. Requeued(page, ready, e, <<InProgress>>)
  <2>1. Requeued(page, page, e, Queue(page, e))
    BY DEF Requeued, Like
  <2>2. Requeued(page, hooked, e, Queue(page, e))
    BY <2>1, HooksRequeue
  <2>3. MenuPage(hooked, u)
    BY <2>2, RequeuedKeeps
  <2> DEFINE n == [hooked EXCEPT !.queue[e] = <<InProgress>>]
  <2>4. <<InProgress>> \in Seq(Steps)
    BY <1>2
  <2>5. Requeued(hooked, n, e, <<InProgress>>)
    BY <2>3, <2>4, SetRequeues
  <2>6. ready = [n EXCEPT !.hooks[e] = hooks]
    BY DEF n
  <2> HIDE DEF n, hooked, ready, hooks
  <2>7. DOMAIN ready = DOMAIN n /\ Like(n, ready) /\ ready.queue = n.queue
    BY <2>6 DEF Like
  <2>8. \A y : Queue(ready, y) = Queue(n, y)
    BY <2>7 DEF Queue
  <2> QED  BY <2>2, <2>5, <2>7, <2>8 DEF Requeued, Like
<1> QED  BY <1>3, <1>4 DEF Then, Rest

LEMMA ShowShows ==
  ASSUME NEW s, NEW fs, NEW e \in Elements, AllKept(s, fs)
  PROVE  /\ ~IsHidden(Show(s, e), e)
         /\ \A x \in Elements \ {e} : IsHidden(Show(s, e), x) <=> IsHidden(s, x)
         /\ DOMAIN Show(s, e) = DOMAIN s
         /\ \A f \in DOMAIN s \ {"css"} : Show(s, e)[f] = s[f]
<1> DEFINE c == s.css[e]
           bare == IF c.old = "" /\ c.style = "none" THEN [c EXCEPT !.style = ""] ELSE c
           kept == IF bare.style = "" /\ Computed(bare) = "none" THEN [bare EXCEPT !.old = "block"] ELSE bare
           done == IF kept.style \in {"", "none"} THEN [kept EXCEPT !.style = kept.old] ELSE kept
<1>1. Show(s, e) = [s EXCEPT !.css[e] = done]
  BY DEF Show
<1>2. Computed(done) # "none"
  <2>1. Kept(c, fs[e])
    BY DEF AllKept
  <2> HIDE DEF c
  <2>2. Kept(bare, fs[e]) /\ (bare.style = "none" => bare.old # "")
    BY <2>1 DEF Kept
  <2> HIDE DEF bare
  <2>3. Kept(kept, fs[e]) /\ (kept.style = "none" => kept.old # "")
        /\ (kept.style = "" /\ kept.old = "" => kept.sheet = fs[e])
    BY <2>2 DEF Kept, Computed
  <2> HIDE DEF kept
  <2> QED  BY <2>3 DEF Kept, Computed
<1> HIDE DEF done
<1>3. DOMAIN Show(s, e) = DOMAIN s /\ \A f \in DOMAIN s \ {"css"} : Show(s, e)[f] = s[f]
  BY <1>1
<1>4. Show(s, e).css = [s.css EXCEPT ![e] = done]
  BY <1>1 DEF AllKept
<1>5. Show(s, e).css[e] = done /\ \A x \in Elements \ {e} : Show(s, e).css[x] = s.css[x]
  BY <1>4 DEF AllKept
<1> QED  BY <1>2, <1>3, <1>5 DEF IsHidden

LEMMA HideHides ==
  ASSUME NEW s, NEW fs, NEW e \in Elements, AllKept(s, fs)
  PROVE  /\ IsHidden(Hide(s, e), e)
         /\ \A x \in Elements \ {e} : IsHidden(Hide(s, e), x) <=> IsHidden(s, x)
         /\ DOMAIN Hide(s, e) = DOMAIN s
         /\ \A f \in DOMAIN s \ {"css"} : Hide(s, e)[f] = s[f]
<1> DEFINE c == s.css[e]
           old == IF c.old = "" /\ Computed(c) # "none" THEN Computed(c) ELSE c.old
           done == [[c EXCEPT !.old = old] EXCEPT !.style = "none"]
<1>1. Hide(s, e) = [[s EXCEPT !.css[e].old = old] EXCEPT !.css[e].style = "none"]
  BY DEF Hide
<1>2. Computed(done) = "none"
  <2>1. Kept(c, fs[e])
    BY DEF AllKept
  <2> HIDE DEF c, old
  <2> QED  BY <2>1 DEF Kept, Computed
<1>3. DOMAIN Hide(s, e) = DOMAIN s /\ \A f \in DOMAIN s \ {"css"} : Hide(s, e)[f] = s[f]
  BY <1>1
<1>4. /\ Hide(s, e).css[e] = done
      /\ \A x \in Elements \ {e} : Hide(s, e).css[x] = s.css[x]
  <2> HIDE DEF old
  <2> QED  BY <1>1, ZenonT(40) DEF AllKept
<1> HIDE DEF done
<1> QED  BY <1>2, <1>3, <1>4 DEF IsHidden

(* An animation that has nothing to do is complete; one that has begins, and *)
(* its element is shown.                                                     *)
LEMMA StartBegins ==
  ASSUME NEW u \in Nat \ {0}, NEW e \in Elements, NEW a \in Anims,
         MenuPage(page, u), AllKept(page, first), Below(page.timers, u - 1), Bare(page, e),
         a.elem = e, a.n = u - 1, ~Idle, Now = Start(a), StartStep
  PROVE  /\ \/ /\ page' = page
               /\ calls' = <<Complete(a, "none")>> \o Tail(calls)
               /\ IsHidden(page, e) <=> a.to = "hide"
            \/ /\ MenuPage(page', u)
               /\ Beside(page, page', e)
               /\ Queue(page', e) = Queue(page, e)
               /\ RunsFor(page'.timers, e, a.to)
               /\ ~IsHidden(page', e)
               /\ calls' = <<>> \o Tail(calls)
         /\ UNCHANGED Rest
<1> DEFINE does == Does(page, e, a.to)
           begun == Prefiltered(page, e, a.to, does)
           t == [step |-> a, does |-> does, ended |-> FALSE]
           timed == [begun EXCEPT !.timers = Append(begun.timers, t), !.interval = TRUE]
<1>1. Now.step = a /\ a.to \in {"show", "hide"} /\ e \notin page.finishing
  BY DEF Start, Anims, MenuPage
<1>2. /\ IF does = "none" THEN Then(begun, <<Complete(a, does)>>)
         ELSE Then(timed, <<>>)
  <2> HIDE DEF does, begun
  <2>1. IF does = "none" THEN Then(begun, <<Complete(a, does)>>)
        ELSE Then(timed, IF a.elem \in page.finishing THEN <<Complete(a, does)>> ELSE <<>>)
    BY <1>1 DEF StartStep, does, begun
  <2> QED  BY <1>1, <2>1
<1>3. page.fxshow[e] \in {Nothing, "kept"} /\ Nothing \notin {"hidden", "shown", "kept"}
  BY EffectsAssumption DEF MenuPage
<1>4. does = IF IsHidden(page, e) <=> a.to = "hide" THEN "none" ELSE a.to
  BY <1>1, <1>3 DEF Does
<1> HIDE DEF does
<1>5. CASE does = "none"
  <2>1. begun = page
    BY <1>5 DEF Prefiltered
  <2>2. IsHidden(page, e) <=> a.to = "hide"
    BY <1>1, <1>4, <1>5
  <2> QED  BY <1>2, <1>5, <2>1, <2>2 DEF Then, Rest
<1>6. CASE does # "none"
  <2> DEFINE shown == IF page.fxshow[e] = Nothing THEN "kept" ELSE page.fxshow[e]
             kept == [[page EXCEPT !.fxshow[e] = shown] EXCEPT !.dim[e] = TRUE]
  <2>1. does = a.to /\ does \in {"show", "hide"} /\ (does = "hide" => ~IsHidden(page, e))
    BY <1>1, <1>4, <1>6
  <2>2. begun = IF does = "show" THEN Show(kept, e) ELSE kept
    BY <1>1, <2>1 DEF Prefiltered, MenuPage
  <2>3. /\ DOMAIN kept = DOMAIN page
        /\ kept.queue = page.queue /\ kept.timers = page.timers /\ kept.css = page.css
        /\ kept.delays = page.delays /\ kept.finishing = page.finishing
        /\ kept.fxshow = [page.fxshow EXCEPT ![e] = shown]
        /\ kept.dim = [page.dim EXCEPT ![e] = TRUE]
    <3> HIDE DEF shown
    <3> QED  BY DEF MenuPage
  <2>4. shown \in {Nothing, "kept"}
    BY <1>3
  <2> HIDE DEF kept, shown
  <2>5. /\ DOMAIN kept.fxshow = Elements /\ DOMAIN kept.dim = Elements
        /\ \A x \in Elements : kept.fxshow[x] \in {Nothing, "kept"}
        /\ \A x \in Elements \ {e} : kept.dim[x] = page.dim[x]
    BY <2>3, <2>4 DEF MenuPage
  <2>6. AllKept(kept, first)
    BY <2>3 DEF AllKept
  <2>7. \A x : IsHidden(kept, x) <=> IsHidden(page, x)
    BY <2>3 DEF IsHidden
  <2>8. /\ DOMAIN begun = DOMAIN page
        /\ \A f \in DOMAIN page \ {"css"} : begun[f] = kept[f]
        /\ ~IsHidden(begun, e)
        /\ \A x \in Elements \ {e} : IsHidden(begun, x) <=> IsHidden(page, x)
    <3>1. CASE does = "show"
      BY <2>2, <2>3, <2>6, <2>7, <3>1, ShowShows
    <3>2. CASE does = "hide"
      BY <2>1, <2>2, <2>3, <2>7, <3>2
    <3> QED  BY <2>1, <3>1, <3>2
  <2>9. /\ {"queue", "hooks", "timers", "interval", "delays", "css", "fxshow", "dim", "finishing"} \subseteq DOMAIN begun
        /\ begun.queue = page.queue /\ begun.timers = page.timers /\ begun.fxshow = kept.fxshow
        /\ begun.dim = kept.dim /\ begun.delays = page.delays /\ begun.finishing = page.finishing
    BY <2>3, <2>8 DEF MenuPage
  <2> HIDE DEF begun
  <2>10. t \in Timers /\ t.step = a /\ t.does = a.to /\ ~t.ended
    BY <2>1 DEF Timers
  <2> HIDE DEF t
  <2> DEFINE ts == Append(page.timers, t)
  <2>11. /\ TimersOk(ts, u)
         /\ \A x, d : x # e => (RunsFor(ts, x, d) <=> RunsFor(page.timers, x, d))
         /\ \A x : x # e => (HasTimer(ts, x) <=> HasTimer(page.timers, x))
         /\ RunsFor(ts, e, a.to)
    <3>1. TimersOk(page.timers, u) /\ t.step.n = u - 1 /\ t.does = t.step.to /\ t.step.elem = e
      BY <2>10 DEF MenuPage
    <3>2. ~HasTimer(page.timers, t.step.elem)
      BY <3>1 DEF Bare
    <3> QED  BY <2>10, <3>1, <3>2, TimersAppended
  <2> HIDE DEF ts
  <2>12. page' = timed /\ calls' = <<>> \o Tail(calls) /\ UNCHANGED Rest
    BY <1>2, <1>6 DEF Then, Rest
  <2>13. /\ DOMAIN timed = DOMAIN begun
         /\ timed.timers = ts /\ timed.css = begun.css /\ timed.queue = begun.queue
         /\ timed.fxshow = begun.fxshow /\ timed.dim = begun.dim
         /\ timed.delays = begun.delays /\ timed.finishing = begun.finishing
    BY <2>9 DEF ts
  <2> HIDE DEF timed
  <2>14. MenuPage(timed, u)
    BY <2>5, <2>9, <2>11, <2>13 DEF MenuPage
  <2>15. \A x : Queue(timed, x) = Queue(page, x)
    BY <2>9, <2>13 DEF Queue
  <2>16. \A x : IsHidden(timed, x) <=> IsHidden(begun, x)
    BY <2>13 DEF IsHidden
  <2>17. Beside(page, timed, e)
    BY <2>5, <2>8, <2>9, <2>11, <2>13, <2>15, <2>16 DEF Beside
  <2> QED  BY <2>8, <2>11, <2>12, <2>13, <2>14, <2>15, <2>16, <2>17
<1> QED  BY <1>5, <1>6

(* An animation of the list of timers ends: its element is what it was asked *)
(* to be.                                                                    *)
LEMMA CompleteEnds ==
  ASSUME NEW u, NEW i \in DOMAIN page.timers, MenuPage(page, u), AllKept(page, first), ~Idle,
         Now = Complete(page.timers[i].step, page.timers[i].does), CompleteStep
  PROVE  LET e == page.timers[i].step.elem
         IN /\ MenuPage(page', u)
            /\ Beside(page, page', e)
            /\ Queue(page', e) = Queue(page, e)
            /\ page'.timers = [page.timers EXCEPT ![i].ended = TRUE]
            /\ ~page'.dim[e]
            /\ IsHidden(page', e) <=> (IsHidden(page, e) \/ page.timers[i].does = "hide")
            /\ calls' = <<Dequeue(e)>> \o Tail(calls)
            /\ UNCHANGED Rest
<1> DEFINE t == page.timers[i]
           a == t.step
           e == a.elem
           ended == Ended(page, a.n)
           hid == IF t.does = "hide" THEN Hide(ended, e) ELSE ended
           done == [[hid EXCEPT !.fxshow[e] = Nothing] EXCEPT !.dim[e] = FALSE]
           ts == [page.timers EXCEPT ![i].ended = TRUE]
<1>1. t \in Timers
  BY DEF MenuPage, TimersOk
<1>2. a \in Anims /\ t.does \in {"show", "hide"}
  BY <1>1 DEF Timers
<1>3. e \in Elements /\ a.complete = Nothing
  BY <1>2 DEF Anims
<1>4. Now.step = a /\ Now.does = t.does
  BY DEF Complete
<1>5. page' = done /\ calls' = <<Dequeue(e)>> \o Tail(calls) /\ UNCHANGED Rest
  <2>1. Now.does # "none"
    BY <1>2, <1>4
  <2>2. Then(done, <<>> \o <<Dequeue(e)>>)
    <3> HIDE DEF t
    <3> QED  BY <1>3, <1>4, <2>1 DEF CompleteStep
  <2> HIDE DEF done, e
  <2> QED  BY <2>2, NoMore DEF Then, Rest
<1>6. TimersOk(page.timers, u)
  BY DEF MenuPage
<1>7. ended = [page EXCEPT !.timers = ts]
  <2> DEFINE at == {j \in DOMAIN page.timers : page.timers[j].step.n = a.n}
  <2>1. at = {i}
    BY <1>6 DEF TimersOk, Apart
  <2>2. (CHOOSE j \in at : TRUE) = i
    BY <2>1
  <2>3. ended = [page EXCEPT !.timers[i].ended = TRUE]
    BY <2>1, <2>2 DEF Ended
  <2> QED  BY <2>3 DEF MenuPage
<1>8. /\ TimersOk(ts, u)
      /\ \A x, d : x # e => (RunsFor(ts, x, d) <=> RunsFor(page.timers, x, d))
      /\ \A x : HasTimer(ts, x) <=> HasTimer(page.timers, x)
  BY <1>6, TimerEnded
<1> HIDE DEF ts
<1>9. /\ DOMAIN ended = DOMAIN page
      /\ ended.timers = ts /\ ended.css = page.css /\ ended.queue = page.queue /\ ended.fxshow = page.fxshow
      /\ ended.dim = page.dim /\ ended.delays = page.delays /\ ended.finishing = page.finishing
  BY <1>7 DEF MenuPage
<1> HIDE DEF ended, t
<1>10. AllKept(ended, first) /\ \A x : IsHidden(ended, x) <=> IsHidden(page, x)
  BY <1>9 DEF AllKept, IsHidden
<1>11. /\ DOMAIN hid = DOMAIN page
       /\ \A f \in DOMAIN page \ {"css"} : hid[f] = ended[f]
       /\ IsHidden(hid, e) <=> (IsHidden(page, e) \/ t.does = "hide")
       /\ \A x \in Elements \ {e} : IsHidden(hid, x) <=> IsHidden(page, x)
  <2>1. CASE t.does = "hide"
    BY <1>3, <1>9, <1>10, <2>1, HideHides
  <2>2. CASE t.does # "hide"
    BY <1>9, <1>10, <2>2
  <2> QED  BY <2>1, <2>2
<1>12. /\ {"queue", "hooks", "timers", "interval", "delays", "css", "fxshow", "dim", "finishing"} \subseteq DOMAIN hid
       /\ hid.queue = page.queue /\ hid.timers = ts /\ hid.fxshow = page.fxshow
       /\ hid.dim = page.dim /\ hid.delays = page.delays /\ hid.finishing = page.finishing
  BY <1>9, <1>11 DEF MenuPage
<1> HIDE DEF hid
<1>13. /\ DOMAIN done = DOMAIN hid
       /\ done.queue = page.queue /\ done.timers = ts /\ done.css = hid.css
       /\ done.delays = page.delays /\ done.finishing = page.finishing
       /\ done.fxshow = [page.fxshow EXCEPT ![e] = Nothing]
       /\ done.dim = [page.dim EXCEPT ![e] = FALSE]
  BY <1>12
<1> HIDE DEF done
<1>14. /\ DOMAIN done.fxshow = Elements /\ DOMAIN done.dim = Elements
       /\ \A x \in Elements : done.fxshow[x] \in {Nothing, "kept"}
       /\ \A x \in Elements \ {e} : done.dim[x] = page.dim[x]
       /\ ~done.dim[e]
  BY <1>3, <1>13 DEF MenuPage
<1>15. MenuPage(done, u)
  BY <1>8, <1>12, <1>13, <1>14 DEF MenuPage
<1>16. \A x : Queue(done, x) = Queue(page, x)
  BY <1>13 DEF Queue
<1>17. \A x : IsHidden(done, x) <=> IsHidden(hid, x)
  BY <1>13 DEF IsHidden
<1>18. Beside(page, done, e)
  BY <1>8, <1>11, <1>13, <1>14, <1>16, <1>17 DEF Beside
<1> QED  BY <1>5, <1>11, <1>13, <1>14, <1>15, <1>16, <1>17, <1>18 DEF t, ts

(* One that had nothing to do leaves the page as it is.                      *)
LEMMA CompleteNothing ==
  ASSUME NEW u \in Nat \ {0}, NEW a \in Anims, MenuPage(page, u), Below(page.timers, u - 1), a.n = u - 1,
         ~Idle, Now = Complete(a, "none"), CompleteStep
  PROVE  page' = page /\ calls' = <<Dequeue(a.elem)>> \o Tail(calls) /\ UNCHANGED Rest
<1>1. Now.step = a /\ Now.does = "none" /\ a.complete = Nothing
  BY DEF Complete, Anims
<1>2. Ended(page, a.n) = page
  <2>1. \A j \in DOMAIN page.timers : page.timers[j].step.n # a.n
    <3> SUFFICES ASSUME NEW j \in DOMAIN page.timers, page.timers[j].step.n = a.n PROVE FALSE
      OBVIOUS
    <3>1. page.timers[j].step.n < u - 1
      BY DEF Below
    <3> QED  BY <3>1
  <2> QED  BY <2>1 DEF Ended
<1>3. Then(page, <<>> \o <<Dequeue(a.elem)>>)
  BY <1>1, <1>2 DEF CompleteStep
<1> QED  BY <1>3, NoMore DEF Then, Rest

-----------------------------------------------------------------------------
(* While calls are under way the step is that of the innermost one.          *)

LEMMA BusyStep ==
  ASSUME ~Idle, Next
  PROVE  /\ Now.do = "dequeue" => DequeueStep
         /\ Now.do = "start" => StartStep
         /\ Now.do = "complete" => CompleteStep
         /\ Now.do = "clear" => ClearStep
         /\ Now.do = "halt" => HaltStep
         /\ Now.do = "stopTimers" => StopTimersStep
         /\ Now.do = "splice" => SpliceStep
         /\ Now.do = "tick" => TickStep
         /\ Now.do = "ticked" => TickedStep
         /\ Now.do = "queue" => FadeStep
<1>1. LibraryStep \/ FadeStep
  <2>1. \A fin : ~Tick(fin)
    BY DEF Tick, Task
  <2>2. \A d : ~DelayFires(d)
    BY DEF DelayFires, Task
  <2>3. ASSUME NEW e,
               \/ Animate(e) \/ Delay(e) \/ ToggleNow(e) \/ StopCall(e) \/ FinishCall(e)
               \/ ClearQueue(e) \/ Promise(e) \/ MouseEnter(e) \/ MouseLeave(e)
        PROVE  FALSE
    BY <2>3 DEF Animate, Delay, ToggleNow, StopCall, FinishCall, ClearQueue, Promise, MouseEnter, MouseLeave, Task
  <2> QED  BY <2>1, <2>2, <2>3 DEF Next
<1>2. DequeueStep => Now.do = "dequeue"
  BY DEF DequeueStep, At, Now
<1>3. StartStep => Now.do = "start"
  BY DEF StartStep, At, Now
<1>4. CompleteStep => Now.do = "complete"
  BY DEF CompleteStep, At, Now
<1>5. ClearStep => Now.do = "clear"
  BY DEF ClearStep, At, Now
<1>6. HaltStep => Now.do = "halt"
  BY DEF HaltStep, At, Now
<1>7. StopTimersStep => Now.do = "stopTimers"
  BY DEF StopTimersStep, At, Now
<1>8. SpliceStep => Now.do = "splice"
  BY DEF SpliceStep, At, Now
<1>9. FinishAllStep => Now.do = "finishAll"
  BY DEF FinishAllStep, At, Now
<1>10. FinishTimersStep => Now.do = "finishTimers"
  BY DEF FinishTimersStep, At, Now
<1>11. FinishedStep => Now.do = "finished"
  BY DEF FinishedStep, At, Now
<1>12. TickStep => Now.do = "tick"
  BY DEF TickStep, At, Now
<1>13. TickedStep => Now.do = "ticked"
  BY DEF TickedStep, At, Now
<1>14. FadeStep => Now.do = "queue"
  BY DEF FadeStep, At, Now
<1> QED  BY <1>1, <1>2, <1>3, <1>4, <1>5, <1>6, <1>7, <1>8, <1>9, <1>10, <1>11, <1>12, <1>13, <1>14 DEF LibraryStep

(* The first of the calls under way, and the others.                         *)
LEMMA FirstCall ==
  ASSUME NEW a, NEW b, NEW c, NEW d
  PROVE  /\ calls = <<a>> => ~Idle /\ Now = a /\ Tail(calls) = <<>>
         /\ calls = <<a, b>> => ~Idle /\ Now = a /\ Tail(calls) = <<b>>
         /\ calls = <<a, b, c>> => ~Idle /\ Now = a /\ Tail(calls) = <<b, c>>
         /\ calls = <<a, b, c, d>> => ~Idle /\ Now = a /\ Tail(calls) = <<b, c, d>>
<1>1. calls = <<a>> => ~Idle /\ Now = a /\ Tail(calls) = <<>>
  BY Tails DEF Idle, Now
<1>2. calls = <<a, b>> => ~Idle /\ Now = a /\ Tail(calls) = <<b>>
  BY Tails DEF Idle, Now
<1>3. calls = <<a, b, c>> => ~Idle /\ Now = a /\ Tail(calls) = <<b, c>>
  BY Tails DEF Idle, Now
<1>4. calls = <<a, b, c, d>> => ~Idle /\ Now = a /\ Tail(calls) = <<b, c, d>>
  BY Tails DEF Idle, Now
<1> QED  BY <1>1, <1>2, <1>3, <1>4

LEMMA CallNames ==
  ASSUME NEW e, NEW a, NEW d, NEW i, NEW n, NEW fin, NEW b, NEW g
  PROVE  /\ Dequeue(e).do = "dequeue" /\ Start(a).do = "start" /\ Complete(a, d).do = "complete"
         /\ Clear(e).do = "clear" /\ Halt(e, g).do = "halt" /\ StopTimers(e, i, g, b).do = "stopTimers"
         /\ Splice(i).do = "splice" /\ TickFrom(i, fin).do = "tick" /\ Ticked(i, n, fin).do = "ticked"
         /\ Fade(a).do = "queue"
BY DEF Dequeue, Start, Complete, Clear, Halt, StopTimers, Splice, TickFrom, Ticked, Fade

-----------------------------------------------------------------------------
(* A move of the mouse, step by step.                                        *)

Midway(e) ==
  /\ e \in Elements
  /\ used \in Nat \ {0}
  /\ MenuPage(page, used)
  /\ AllKept(page, first)
  /\ Below(page.timers, used - 1)
  /\ OthersCalm(page, over, e)

Goes(e) ==
  /\ UNCHANGED Rest
  /\ MenuPage(page', used)
  /\ Below(page'.timers, used - 1)
  /\ OthersCalm(page', over, e)

LEMMA GoesRequeued ==
  ASSUME NEW e, NEW q, Midway(e), UNCHANGED Rest, Requeued(page, page', e, q)
  PROVE  /\ Goes(e)
         /\ Queue(page', e) = q
         /\ page'.timers = page.timers
         /\ page'.dim[e] = page.dim[e]
         /\ IsHidden(page', e) <=> IsHidden(page, e)
         /\ Loose(page, e) => Loose(page', e)
         /\ Bare(page, e) => Bare(page', e)
<1>1. e \in Elements /\ MenuPage(page, used) /\ OthersCalm(page, over, e) /\ Below(page.timers, used - 1)
  BY DEF Midway
<1>2. /\ MenuPage(page', used)
      /\ Queue(page', e) = q
      /\ page'.timers = page.timers
      /\ page'.dim[e] = page.dim[e]
      /\ IsHidden(page', e) <=> IsHidden(page, e)
      /\ Loose(page, e) => Loose(page', e)
      /\ Bare(page, e) => Bare(page', e)
      /\ Beside(page, page', e)
  BY <1>1, RequeuedKeeps
<1>3. OthersCalm(page', over, e)
  BY <1>1, <1>2, BesideCalm
<1> QED  BY <1>1, <1>2, <1>3 DEF Goes

LEMMA GoesStill ==
  ASSUME NEW e, Midway(e), UNCHANGED Rest, page' = page
  PROVE  Goes(e)
BY DEF Midway, Goes

LEMMA AsksIsAnim ==
  ASSUME NEW o, NEW u \in Nat \ {0}, NEW e \in Elements
  PROVE  LET a == Asks(o, u, e)
         IN a \in Anims /\ a.elem = e /\ a.n = u - 1 /\ a.to = Asked(o, e)
<1>1. Asked(o, e) \in {"show", "hide"} /\ u - 1 \in Nat
  BY DEF Asked
<1> HIDE DEF Asked
<1> QED  BY <1>1 DEF Asks, Anim, Anims

LEMMA Stops1Step ==
  ASSUME NEW e, Midway(e), Next, Stops1(page, calls, over, used, e)
  PROVE  Goes(e) /\ Stops2(page', calls', over, used, e)
<1> DEFINE F == Fade(Asks(over, used, e))
           H == Halt(e, TRUE)
<1>1. calls = <<Clear(e), H, F>> /\ Loose(page, e)
  BY DEF Stops1
<1> HIDE DEF F, H
<1>2. ~Idle /\ Now = Clear(e) /\ Tail(calls) = <<H, F>>
  BY <1>1, FirstCall
<1>3. ClearStep
  BY <1>2, CallNames, BusyStep
<1> DEFINE n == [page EXCEPT !.queue[e] = <<>>]
<1>4. page' = WithHooks(n, e) /\ calls' = <<Dequeue(e)>> \o Tail(calls) /\ UNCHANGED Rest
  <2>1. Now.elem = e
    BY <1>2 DEF Clear
  <2> QED  BY <1>3, <2>1 DEF ClearStep, Then, Rest
<1>5. Requeued(page, n, e, <<>>)
  <2>1. <<>> \in Seq(Steps)
    OBVIOUS
  <2> QED  BY <2>1, SetRequeues DEF Midway
<1> HIDE DEF n
<1>6. Requeued(page, page', e, <<>>)
  BY <1>4, <1>5, HooksRequeue
<1>7. calls' = <<Dequeue(e), H, F>>
  BY <1>2, <1>4, OneMore
<1>8. Goes(e) /\ Queue(page', e) = <<>> /\ Loose(page', e)
  BY <1>1, <1>4, <1>6, GoesRequeued
<1> QED  BY <1>7, <1>8 DEF Stops2, F, H

LEMMA Stops2Step ==
  ASSUME NEW e, Midway(e), Next, Stops2(page, calls, over, used, e)
  PROVE  Goes(e) /\ Stops3(page', calls', over, used, e)
<1> DEFINE F == Fade(Asks(over, used, e))
<1>1. calls = <<Dequeue(e), Halt(e, TRUE), F>> /\ Loose(page, e) /\ Queue(page, e) = <<>>
  BY DEF Stops2
<1> HIDE DEF F
<1>2. ~Idle /\ Now = Dequeue(e) /\ Tail(calls) = <<Halt(e, TRUE), F>>
  BY <1>1, FirstCall
<1>3. DequeueStep
  BY <1>2, CallNames, BusyStep
<1>4. Requeued(page, page', e, <<>>) /\ calls' = <<>> \o Tail(calls) /\ UNCHANGED Rest
  BY <1>1, <1>2, <1>3, DequeueEmpty DEF Midway
<1>5. calls' = <<Halt(e, TRUE), F>>
  BY <1>2, <1>4, NoMore
<1>6. Goes(e) /\ Queue(page', e) = <<>> /\ Loose(page', e)
  BY <1>1, <1>4, GoesRequeued
<1> QED  BY <1>5, <1>6 DEF Stops3, F

LEMMA Stops3Step ==
  ASSUME NEW e, Midway(e), Next, Stops3(page, calls, over, used, e)
  PROVE  Goes(e) /\ Stops4(page', calls', over, used, e)
<1> DEFINE F == Fade(Asks(over, used, e))
<1>1. calls = <<Halt(e, TRUE), F>> /\ Loose(page, e) /\ Queue(page, e) = <<>>
  BY DEF Stops3
<1> HIDE DEF F
<1>2. ~Idle /\ Now = Halt(e, TRUE) /\ Tail(calls) = <<F>>
  BY <1>1, FirstCall
<1>3. HaltStep
  BY <1>2, CallNames, BusyStep
<1> DEFINE n == [page EXCEPT !.delays = @ \ {page.hooks[e].stop}, !.hooks[e].stop = Nothing]
           L == Len(page.timers)
<1>4. page' \in {page, n} /\ calls' = <<StopTimers(e, L, TRUE, TRUE)>> \o Tail(calls) /\ UNCHANGED Rest
  <2>1. Now.elem = e /\ Now.gotoEnd = TRUE
    BY <1>2, Zenon DEF Halt
  <2> QED  BY <1>3, <2>1 DEF HaltStep, Then, Rest
<1>5. Requeued(page, n, e, <<>>)
  <2>1. DOMAIN n = DOMAIN page /\ n.queue = page.queue /\ Like(page, n)
    BY DEF Like, Midway, MenuPage
  <2> HIDE DEF n
  <2>2. \A y : Queue(n, y) = Queue(page, y)
    BY <2>1 DEF Queue
  <2> QED  BY <1>1, <2>1, <2>2 DEF Requeued
<1>6. Requeued(page, page, e, <<>>)
  BY <1>1 DEF Requeued, Like
<1> HIDE DEF n
<1>7. Requeued(page, page', e, <<>>)
  BY <1>4, <1>5, <1>6
<1>8. Goes(e) /\ Queue(page', e) = <<>> /\ Loose(page', e) /\ page'.timers = page.timers
  BY <1>1, <1>4, <1>7, GoesRequeued
<1>9. calls' = <<StopTimers(e, L, TRUE, TRUE), F>>
  BY <1>2, <1>4, OneMore
<1>10. /\ L \in Nat /\ L <= Len(page'.timers)
       /\ \A j \in DOMAIN page'.timers : page'.timers[j].step.elem = e => j <= L
  <2>1. page.timers \in Seq(Timers)
    BY DEF Midway, MenuPage, TimersOk
  <2>2. DOMAIN page.timers = 1..L /\ L \in Nat
    BY <2>1
  <2> HIDE DEF L
  <2>3. Len(page'.timers) = L
    BY <1>8 DEF L
  <2> QED  BY <1>8, <2>2, <2>3
<1> HIDE DEF L
<1>11. TRUE \in BOOLEAN
  OBVIOUS
<1>12. \E i \in Nat, dq \in BOOLEAN :
         /\ calls' = <<StopTimers(e, i, TRUE, dq), F>>
         /\ i <= Len(page'.timers)
         /\ \A j \in DOMAIN page'.timers : page'.timers[j].step.elem = e => j <= i
  BY <1>9, <1>10, <1>11, Zenon
<1> QED  BY <1>8, <1>12 DEF Stops4, F

(* The loop of stop() over the timers, when it goes to their ends.           *)
LEMMA StopTimersDoes ==
  ASSUME NEW e, NEW i \in Nat, NEW dq \in BOOLEAN,
         Now = StopTimers(e, i, TRUE, dq), StopTimersStep, Len(page.timers) \in Nat, i <= Len(page.timers)
  PROVE  LET t == page.timers[i]
         IN /\ page' = page
            /\ UNCHANGED Rest
            /\ (i = 0 /\ dq) => calls' = <<Dequeue(e)>> \o Tail(calls)
            /\ (i = 0 /\ ~dq) => calls' = <<>> \o Tail(calls)
            /\ (i # 0 /\ (t.ended \/ t.step.elem # e))
                 => calls' = <<StopTimers(e, i - 1, TRUE, dq)>> \o Tail(calls)
            /\ (i # 0 /\ ~t.ended /\ t.step.elem = e)
                 => calls' = <<Complete(t.step, t.does), Splice(i), StopTimers(e, i - 1, TRUE, FALSE)>> \o Tail(calls)
<1> DEFINE t == page.timers[i]
<1>1. Now.elem = e /\ Now.i = i
  BY Zenon DEF StopTimers
<1>2. Now.gotoEnd = TRUE /\ Now.dequeue = dq
  BY Zenon DEF StopTimers
<1>3. ~(i > Len(page.timers))
  OBVIOUS
<1>4. CASE i = 0
  <2>1. Then(page, IF dq \/ ~TRUE THEN <<Dequeue(e)>> ELSE <<>>)
    BY <1>1, <1>2, <1>4, Zenon DEF StopTimersStep
  <2>2. dq => Then(page, <<Dequeue(e)>>)
    BY <2>1, Zenon
  <2>3. ~dq => Then(page, <<>>)
    BY <2>1, Zenon
  <2> QED  BY <1>4, <2>2, <2>3 DEF Then, Rest
<1>5. CASE i # 0 /\ (t.ended \/ t.step.elem # e)
  <2>1. Then(page, <<StopTimers(e, i - 1, TRUE, dq)>>)
    BY <1>1, <1>2, <1>3, <1>5, Zenon DEF StopTimersStep
  <2> HIDE DEF t
  <2> QED  BY <1>5, <2>1, Zenon DEF Then, Rest, t
<1>6. CASE i # 0 /\ ~t.ended /\ t.step.elem = e
  <2>1. Then(page, <<Complete(t.step, t.does), Splice(i), StopTimers(e, i - 1, TRUE, FALSE)>>)
    BY <1>1, <1>2, <1>3, <1>6, Zenon DEF StopTimersStep
  <2> HIDE DEF t
  <2> QED  BY <1>6, <2>1, Zenon DEF Then, Rest, t
<1> QED  BY <1>4, <1>5, <1>6, Zenon

LEMMA Stops4Step ==
  ASSUME NEW e, Midway(e), Next, Stops4(page, calls, over, used, e)
  PROVE  /\ Goes(e)
         /\ \/ Stops4(page', calls', over, used, e) \/ Stops5(page', calls', over, used, e)
            \/ Stops8(page', calls', over, used, e) \/ Fades1(page', calls', over, used, e)
<1> DEFINE F == Fade(Asks(over, used, e))
<1>1. PICK i \in Nat, dq \in BOOLEAN :
        /\ calls = <<StopTimers(e, i, TRUE, dq), F>>
        /\ i <= Len(page.timers)
        /\ \A j \in DOMAIN page.timers : page.timers[j].step.elem = e => j <= i
  BY Zenon DEF Stops4
<1>2. Loose(page, e) /\ Queue(page, e) = <<>>
  BY DEF Stops4
<1> DEFINE t == page.timers[i]
           N == StopTimers(e, i, TRUE, dq)
<1> HIDE DEF F
<1>3. ~Idle /\ Now = N /\ Tail(calls) = <<F>>
  <2> HIDE DEF N
  <2>1. calls = <<N, F>>
    BY <1>1, Zenon DEF N
  <2> QED  BY <2>1, FirstCall
<1>4. StopTimersStep
  <2>1. Now.do = "stopTimers"
    BY <1>3, Zenon DEF StopTimers
  <2> QED  BY <1>3, <2>1, BusyStep
<1>5. page.timers \in Seq(Timers) /\ Apart(page.timers)
  BY DEF Midway, MenuPage, TimersOk
<1>6. Len(page.timers) \in Nat /\ DOMAIN page.timers = 1..Len(page.timers)
  BY <1>5
<1>7. /\ page' = page
      /\ UNCHANGED Rest
      /\ (i = 0 /\ dq) => calls' = <<Dequeue(e)>> \o Tail(calls)
      /\ (i = 0 /\ ~dq) => calls' = <<>> \o Tail(calls)
      /\ (i # 0 /\ (t.ended \/ t.step.elem # e))
           => calls' = <<StopTimers(e, i - 1, TRUE, dq)>> \o Tail(calls)
      /\ (i # 0 /\ ~t.ended /\ t.step.elem = e)
           => calls' = <<Complete(t.step, t.does), Splice(i), StopTimers(e, i - 1, TRUE, FALSE)>> \o Tail(calls)
  BY <1>1, <1>3, <1>4, <1>6, StopTimersDoes
<1>8. Goes(e) /\ Loose(page', e) /\ Queue(page', e) = <<>>
  BY <1>2, <1>7, GoesStill
<1>9. CASE i = 0
  <2>1. ~HasTimer(page.timers, e)
    BY <1>1, <1>6, <1>9 DEF HasTimer
  <2>2. Bare(page', e)
    BY <1>2, <1>7, <2>1 DEF Loose, Bare, HasTimer, RunsFor
  <2>3. CASE dq
    <3>1. calls' = <<Dequeue(e), F>>
      BY <1>3, <1>7, <1>9, <2>3, OneMore, Zenon
    <3> QED  BY <1>8, <2>2, <3>1 DEF Stops8, F
  <2>4. CASE ~dq
    <3>1. calls' = <<F>>
      BY <1>3, <1>7, <1>9, <2>4, NoMore, Zenon
    <3> QED  BY <1>8, <2>2, <3>1 DEF Fades1, F
  <2> QED  BY <2>3, <2>4
<1>10. CASE i # 0 /\ (t.ended \/ t.step.elem # e)
  <2>1. calls' = <<StopTimers(e, i - 1, TRUE, dq), F>>
    BY <1>3, <1>7, <1>10, OneMore, Zenon
  <2>2. i - 1 \in Nat /\ i - 1 <= Len(page.timers) /\ i \in DOMAIN page.timers
    BY <1>1, <1>6, <1>10
  <2>3. t.step.elem # e
    <3>1. CASE t.ended /\ t.step.elem = e
      <4>1. PICK j \in DOMAIN page.timers : page.timers[j].step.elem = e /\ ~page.timers[j].ended
        BY <1>2, <2>2, <3>1 DEF Loose, HasTimer, RunsFor
      <4>2. j = i
        BY <1>5, <2>2, <3>1, <4>1 DEF Apart
      <4> QED  BY <3>1, <4>1, <4>2
    <3> QED  BY <1>10, <3>1
  <2>4. ASSUME NEW j \in DOMAIN page.timers, page.timers[j].step.elem = e PROVE j <= i - 1
    <3>1. j <= i /\ j # i /\ j \in Int
      BY <1>1, <1>6, <2>3, <2>4
    <3> QED  BY <3>1
  <2>5. \E k \in Nat, b \in BOOLEAN :
          /\ calls' = <<StopTimers(e, k, TRUE, b), F>>
          /\ k <= Len(page'.timers)
          /\ \A j \in DOMAIN page'.timers : page'.timers[j].step.elem = e => j <= k
    BY <1>7, <2>1, <2>2, <2>4, Zenon
  <2>6. Stops4(page', calls', over, used, e)
    BY <1>8, <2>5, Zenon DEF Stops4, F
  <2> QED  BY <1>8, <2>6
<1>11. CASE i # 0 /\ ~t.ended /\ t.step.elem = e
  <2>1. calls' = <<Complete(t.step, t.does), Splice(i), StopTimers(e, i - 1, TRUE, FALSE), F>>
    <3> DEFINE C == Complete(t.step, t.does)
               P == Splice(i)
               S == StopTimers(e, i - 1, TRUE, FALSE)
    <3>1. calls' = <<C, P, S>> \o Tail(calls)
      BY <1>7, <1>11, Zenon
    <3> HIDE DEF C, P, S
    <3>2. calls' = <<C, P, S>> \o <<F>>
      BY <1>3, <3>1, Zenon
    <3>3. <<C, P, S>> \o <<F>> = <<C, P, S, F>>
      BY MoreWork
    <3>4. calls' = <<C, P, S, F>>
      BY <3>2, <3>3, Zenon
    <3> QED  BY <3>4, Zenon DEF C, P, S
  <2>2. i \in DOMAIN page.timers
    BY <1>1, <1>6, <1>11
  <2>3. Stops5(page', calls', over, used, e)
    BY <1>7, <1>8, <1>11, <2>1, <2>2, Zenon DEF Stops5, F
  <2> QED  BY <1>8, <2>3
<1> QED  BY <1>9, <1>10, <1>11

LEMMA Stops5Step ==
  ASSUME NEW e, Midway(e), Next, Stops5(page, calls, over, used, e)
  PROVE  Goes(e) /\ Stops6(page', calls', over, used, e)
<1> DEFINE F == Fade(Asks(over, used, e))
           after(i) == StopTimers(e, i - 1, TRUE, FALSE)
<1>1. PICK i \in DOMAIN page.timers :
        /\ calls = <<Complete(page.timers[i].step, page.timers[i].does), Splice(i), after(i), F>>
        /\ page.timers[i].step.elem = e
  BY Zenon DEF Stops5
<1> DEFINE S == after(i)
           C == Complete(page.timers[i].step, page.timers[i].does)
<1> HIDE DEF F, S
<1>2. ~Idle /\ Now = C /\ Tail(calls) = <<Splice(i), S, F>>
  BY <1>1, FirstCall DEF S
<1>3. CompleteStep
  BY <1>2, CallNames, BusyStep
<1>4. MenuPage(page, used) /\ AllKept(page, first) /\ OthersCalm(page, over, e) /\ Below(page.timers, used - 1)
  BY DEF Midway
<1>5. /\ MenuPage(page', used)
      /\ Beside(page, page', e)
      /\ Queue(page', e) = Queue(page, e)
      /\ page'.timers = [page.timers EXCEPT ![i].ended = TRUE]
      /\ ~page'.dim[e]
      /\ calls' = <<Dequeue(e)>> \o Tail(calls)
      /\ UNCHANGED Rest
  BY <1>1, <1>2, <1>3, <1>4, CompleteEnds
<1>6. TimersOk(page.timers, used)
  BY <1>4 DEF MenuPage
<1>7. DOMAIN page'.timers = DOMAIN page.timers /\ \A j \in DOMAIN page.timers : page'.timers[j].step = page.timers[j].step
  BY <1>5, <1>6, TimerEnded
<1>8. Below(page'.timers, used - 1)
  BY <1>4, <1>7 DEF Below
<1>9. Goes(e)
  BY <1>4, <1>5, <1>8, BesideCalm DEF Goes
<1>10. calls' = <<Dequeue(e), Splice(i), S, F>>
  <2> DEFINE D == Dequeue(e)
             P == Splice(i)
  <2>1. calls' = <<D>> \o <<P, S, F>>
    BY <1>2, <1>5, Zenon
  <2> HIDE DEF D, P
  <2>2. <<D>> \o <<P, S, F>> = <<D, P, S, F>>
    BY FourCalls
  <2>3. calls' = <<D, P, S, F>>
    BY <2>1, <2>2, Zenon
  <2> QED  BY <2>3, Zenon DEF D, P
<1>11. page'.timers[i].step.elem = e /\ i \in DOMAIN page'.timers /\ Queue(page', e) = <<>> /\ ~page'.dim[e]
  BY <1>1, <1>5, <1>7 DEF Stops5
<1>12. Stops6(page', calls', over, used, e)
  BY <1>10, <1>11, Zenon DEF Stops6, S, F
<1> QED  BY <1>9, <1>12

LEMMA Stops6Step ==
  ASSUME NEW e, Midway(e), Next, Stops6(page, calls, over, used, e)
  PROVE  Goes(e) /\ Stops7(page', calls', over, used, e)
<1> DEFINE F == Fade(Asks(over, used, e))
           after(i) == StopTimers(e, i - 1, TRUE, FALSE)
<1>1. PICK i \in DOMAIN page.timers :
        /\ calls = <<Dequeue(e), Splice(i), after(i), F>>
        /\ page.timers[i].step.elem = e
  BY Zenon DEF Stops6
<1> DEFINE S == after(i)
<1> HIDE DEF F, S
<1>2. ~Idle /\ Now = Dequeue(e) /\ Tail(calls) = <<Splice(i), S, F>>
  BY <1>1, FirstCall DEF S
<1>3. DequeueStep
  BY <1>2, CallNames, BusyStep
<1>4. ~page.dim[e] /\ Queue(page, e) = <<>>
  BY DEF Stops6
<1>5. Requeued(page, page', e, <<>>) /\ calls' = <<>> \o Tail(calls) /\ UNCHANGED Rest
  BY <1>2, <1>3, <1>4, DequeueEmpty DEF Midway
<1>6. calls' = <<Splice(i), S, F>>
  BY <1>2, <1>5, NoMore
<1>7. Goes(e) /\ Queue(page', e) = <<>> /\ page'.timers = page.timers /\ page'.dim[e] = page.dim[e]
  BY <1>5, GoesRequeued
<1>8. i \in DOMAIN page'.timers /\ page'.timers[i].step.elem = e /\ ~page'.dim[e]
  BY <1>1, <1>4, <1>7
<1>9. Stops7(page', calls', over, used, e)
  BY <1>6, <1>7, <1>8, Zenon DEF Stops7, S, F
<1> QED  BY <1>7, <1>9

(* A timer that is taken out was of an element that nothing moves then.      *)
LEMMA TakenOut ==
  ASSUME NEW u, NEW i \in DOMAIN page.timers, MenuPage(page, u),
         page' = [page EXCEPT !.timers = RemoveAt(page.timers, i)]
  PROVE  LET e == page.timers[i].step.elem
         IN /\ MenuPage(page', u)
            /\ Beside(page, page', e)
            /\ page'.timers = RemoveAt(page.timers, i)
            /\ Queue(page', e) = Queue(page, e)
            /\ page'.dim[e] = page.dim[e]
            /\ IsHidden(page', e) <=> IsHidden(page, e)
            /\ ~HasTimer(page'.timers, e)
            /\ Len(page.timers) \in Nat /\ DOMAIN page.timers = 1..Len(page.timers)
            /\ Len(page'.timers) = Len(page.timers) - 1
            /\ \A v : Below(page.timers, v) => Below(page'.timers, v)
<1> DEFINE e == page.timers[i].step.elem
           ts == RemoveAt(page.timers, i)
<1>1. TimersOk(page.timers, u)
  BY DEF MenuPage
<1>2. /\ TimersOk(ts, u)
      /\ Len(ts) = Len(page.timers) - 1
      /\ \A x, d : x # e => (RunsFor(ts, x, d) <=> RunsFor(page.timers, x, d))
      /\ \A x : x # e => (HasTimer(ts, x) <=> HasTimer(page.timers, x))
      /\ ~HasTimer(ts, e)
      /\ \A v : Below(page.timers, v) => Below(ts, v)
  BY <1>1, TimerRemoved
<1>3. Len(page.timers) \in Nat /\ DOMAIN page.timers = 1..Len(page.timers)
  BY <1>1 DEF TimersOk
<1> HIDE DEF ts
<1>4. /\ DOMAIN page' = DOMAIN page
      /\ page'.timers = ts /\ page'.css = page.css /\ page'.queue = page.queue /\ page'.fxshow = page.fxshow
      /\ page'.dim = page.dim /\ page'.delays = page.delays /\ page'.finishing = page.finishing
  BY DEF MenuPage, ts
<1> HIDE DEF e
<1>5. MenuPage(page', u)
  BY <1>2, <1>4 DEF MenuPage
<1>6. \A x : Queue(page', x) = Queue(page, x) /\ (IsHidden(page', x) <=> IsHidden(page, x))
  BY <1>4 DEF Queue, IsHidden
<1>7. Beside(page, page', e)
  BY <1>2, <1>4, <1>6 DEF Beside
<1> QED  BY <1>2, <1>3, <1>4, <1>5, <1>6, <1>7 DEF e, ts

LEMMA Stops7Step ==
  ASSUME NEW e, Midway(e), Next, Stops7(page, calls, over, used, e)
  PROVE  Goes(e) /\ Stops4(page', calls', over, used, e)
<1> DEFINE F == Fade(Asks(over, used, e))
           after(i) == StopTimers(e, i - 1, TRUE, FALSE)
<1>1. PICK i \in DOMAIN page.timers :
        /\ calls = <<Splice(i), after(i), F>>
        /\ page.timers[i].step.elem = e
  BY Zenon DEF Stops7
<1> DEFINE S == after(i)
<1> HIDE DEF F, S
<1>2. ~Idle /\ Now = Splice(i) /\ Tail(calls) = <<S, F>>
  BY <1>1, FirstCall DEF S
<1>3. SpliceStep
  BY <1>2, CallNames, BusyStep
<1>4. /\ page' = [page EXCEPT !.timers = RemoveAt(page.timers, i)]
      /\ calls' = <<>> \o Tail(calls) /\ UNCHANGED Rest
  <2>1. Now.i = i
    BY <1>2 DEF Splice
  <2> QED  BY <1>3, <2>1 DEF SpliceStep, Then, Rest
<1>5. MenuPage(page, used) /\ OthersCalm(page, over, e) /\ Below(page.timers, used - 1)
  BY DEF Midway
<1>6. /\ MenuPage(page', used)
      /\ Beside(page, page', e)
      /\ Queue(page', e) = Queue(page, e)
      /\ page'.dim[e] = page.dim[e]
      /\ ~HasTimer(page'.timers, e)
      /\ Len(page.timers) \in Nat /\ DOMAIN page.timers = 1..Len(page.timers)
      /\ Len(page'.timers) = Len(page.timers) - 1
      /\ \A v : Below(page.timers, v) => Below(page'.timers, v)
  BY <1>1, <1>4, <1>5, TakenOut
<1>7. Goes(e)
  BY <1>4, <1>5, <1>6, BesideCalm DEF Goes
<1>8. calls' = <<S, F>>
  BY <1>2, <1>4, NoMore
<1>9. Loose(page', e) /\ Queue(page', e) = <<>>
  BY <1>6 DEF Stops7, Loose
<1>10. /\ i - 1 \in Nat /\ i - 1 <= Len(page'.timers)
       /\ \A j \in DOMAIN page'.timers : page'.timers[j].step.elem = e => j <= i - 1
  BY <1>6 DEF HasTimer
<1>11. FALSE \in BOOLEAN
  OBVIOUS
<1>12. \E k \in Nat, dq \in BOOLEAN :
         /\ calls' = <<StopTimers(e, k, TRUE, dq), F>>
         /\ k <= Len(page'.timers)
         /\ \A j \in DOMAIN page'.timers : page'.timers[j].step.elem = e => j <= k
  BY <1>8, <1>10, <1>11, Zenon DEF S
<1>13. Stops4(page', calls', over, used, e)
  BY <1>9, <1>12, Zenon DEF Stops4, F
<1> QED  BY <1>7, <1>13

LEMMA Stops8Step ==
  ASSUME NEW e, Midway(e), Next, Stops8(page, calls, over, used, e)
  PROVE  Goes(e) /\ Fades1(page', calls', over, used, e)
<1> DEFINE F == Fade(Asks(over, used, e))
<1>1. calls = <<Dequeue(e), F>> /\ Bare(page, e) /\ Queue(page, e) = <<>>
  BY DEF Stops8
<1> HIDE DEF F
<1>2. ~Idle /\ Now = Dequeue(e) /\ Tail(calls) = <<F>>
  BY <1>1, FirstCall
<1>3. DequeueStep
  BY <1>2, CallNames, BusyStep
<1>4. Requeued(page, page', e, <<>>) /\ calls' = <<>> \o Tail(calls) /\ UNCHANGED Rest
  BY <1>1, <1>2, <1>3, DequeueEmpty DEF Midway
<1>5. calls' = <<F>>
  BY <1>2, <1>4, NoMore
<1>6. Goes(e) /\ Queue(page', e) = <<>> /\ Bare(page', e)
  BY <1>1, <1>4, GoesRequeued
<1> QED  BY <1>5, <1>6 DEF Fades1, F

LEMMA Fades1Step ==
  ASSUME NEW e, Midway(e), Next, Fades1(page, calls, over, used, e)
  PROVE  Goes(e) /\ Fades2(page', calls', over, used, e)
<1> DEFINE a == Asks(over, used, e)
<1>1. calls = <<Fade(a)>> /\ Bare(page, e) /\ Queue(page, e) = <<>>
  BY DEF Fades1
<1>2. a \in Anims /\ a.elem = e
  BY AsksIsAnim DEF Midway
<1> HIDE DEF a
<1>3. ~Idle /\ Now = Fade(a) /\ Tail(calls) = <<>>
  BY <1>1, FirstCall
<1>4. FadeStep
  BY <1>3, CallNames, BusyStep
<1>5. Now.step = a
  BY <1>3 DEF Fade
<1>6. a # InProgress /\ a \in Steps
  BY <1>2, StepsDiffer
<1>7. Append(Queue(page, e), a) = <<a>>
  BY <1>1
<1> DEFINE n == [page EXCEPT !.queue[e] = <<a>>]
<1>8. Queued(page, a) = WithHooks(n, e)
  BY <1>2, <1>7 DEF Queued
<1>9. Starts(page, a) = <<Dequeue(e)>>
  <2>1. Head(<<a>>) # InProgress
    BY <1>6
  <2> QED  BY <1>2, <1>7, <2>1 DEF Starts
<1>10. page' = WithHooks(n, e) /\ calls' = <<Dequeue(e)>> \o Tail(calls) /\ UNCHANGED Rest
  BY <1>4, <1>5, <1>8, <1>9 DEF FadeStep, Then, Rest
<1>11. Requeued(page, n, e, <<a>>)
  <2>1. <<a>> \in Seq(Steps)
    BY <1>6
  <2> QED  BY <2>1, SetRequeues DEF Midway
<1> HIDE DEF n
<1>12. Requeued(page, page', e, <<a>>)
  BY <1>10, <1>11, HooksRequeue
<1>13. Goes(e) /\ Queue(page', e) = <<a>> /\ Bare(page', e)
  BY <1>1, <1>10, <1>12, GoesRequeued
<1>14. calls' = <<Dequeue(e)>>
  BY <1>3, <1>10, OneMore
<1> QED  BY <1>13, <1>14 DEF Fades2, a

LEMMA Fades2Step ==
  ASSUME NEW e, Midway(e), Next, Fades2(page, calls, over, used, e)
  PROVE  Goes(e) /\ Fades3(page', calls', over, used, e)
<1> DEFINE a == Asks(over, used, e)
<1>1. calls = <<Dequeue(e)>> /\ Bare(page, e) /\ Queue(page, e) = <<a>>
  BY DEF Fades2
<1>2. a \in Anims
  BY AsksIsAnim DEF Midway
<1> HIDE DEF a
<1>3. ~Idle /\ Now = Dequeue(e) /\ Tail(calls) = <<>>
  BY <1>1, FirstCall
<1>4. DequeueStep
  BY <1>3, CallNames, BusyStep
<1>5. Requeued(page, page', e, <<InProgress>>) /\ calls' = <<Start(a)>> \o Tail(calls) /\ UNCHANGED Rest
  BY <1>1, <1>2, <1>3, <1>4, DequeueStarts DEF Midway
<1>6. Goes(e) /\ Queue(page', e) = <<InProgress>> /\ Bare(page', e)
  BY <1>1, <1>5, GoesRequeued
<1>7. calls' = <<Start(a)>>
  BY <1>3, <1>5, OneMore
<1> QED  BY <1>6, <1>7 DEF Fades3, a

(* Everything but e is calm, and so is e: nothing is under way.              *)
LEMMA RestsAgain ==
  ASSUME NEW s, NEW o, NEW e, OthersCalm(s, o, e), Calm(s, o, e)
  PROVE  Resting(s, <<>>, o)
BY DEF Resting, OthersCalm

LEMMA Fades3Step ==
  ASSUME NEW e, Midway(e), Next, Fades3(page, calls, over, used, e)
  PROVE  \/ Goes(e) /\ Fades4(page', calls', over, used, e)
         \/ UNCHANGED Rest /\ MenuPage(page', used) /\ Resting(page', calls', over)
<1> DEFINE a == Asks(over, used, e)
<1>1. calls = <<Start(a)>> /\ Bare(page, e) /\ Queue(page, e) = <<InProgress>>
  BY DEF Fades3
<1>2. a \in Anims /\ a.elem = e /\ a.n = used - 1 /\ a.to = Asked(over, e)
  BY AsksIsAnim DEF Midway
<1> HIDE DEF a
<1>3. ~Idle /\ Now = Start(a) /\ Tail(calls) = <<>>
  BY <1>1, FirstCall
<1>4. StartStep
  BY <1>3, CallNames, BusyStep
<1>5. /\ MenuPage(page, used) /\ AllKept(page, first) /\ OthersCalm(page, over, e)
      /\ Below(page.timers, used - 1) /\ used \in Nat \ {0} /\ e \in Elements
  BY DEF Midway
<1>6. /\ \/ /\ page' = page
            /\ calls' = <<Complete(a, "none")>> \o Tail(calls)
            /\ IsHidden(page, e) <=> a.to = "hide"
         \/ /\ MenuPage(page', used)
            /\ Beside(page, page', e)
            /\ Queue(page', e) = Queue(page, e)
            /\ RunsFor(page'.timers, e, a.to)
            /\ ~IsHidden(page', e)
            /\ calls' = <<>> \o Tail(calls)
      /\ UNCHANGED Rest
  BY <1>1, <1>2, <1>3, <1>4, <1>5, StartBegins
<1>7. CASE /\ page' = page
           /\ calls' = <<Complete(a, "none")>> \o Tail(calls)
           /\ IsHidden(page, e) <=> a.to = "hide"
  <2>1. calls' = <<Complete(a, "none")>>
    BY <1>3, <1>7, OneMore
  <2>2. Goes(e)
    BY <1>6, <1>7, GoesStill
  <2>3. Shows(page, over, e)
    BY <1>2, <1>7 DEF Shows, Asked
  <2> QED  BY <1>1, <1>7, <2>1, <2>2, <2>3 DEF Fades4, a
<1>8. CASE /\ MenuPage(page', used)
           /\ Beside(page, page', e)
           /\ Queue(page', e) = Queue(page, e)
           /\ RunsFor(page'.timers, e, a.to)
           /\ ~IsHidden(page', e)
           /\ calls' = <<>> \o Tail(calls)
  <2>1. calls' = <<>>
    BY <1>3, <1>8, NoMore
  <2>2. Calm(page', over, e)
    BY <1>1, <1>2, <1>8 DEF Calm, Fading
  <2>3. OthersCalm(page', over, e)
    BY <1>5, <1>8, BesideCalm
  <2> QED  BY <1>6, <1>8, <2>1, <2>2, <2>3, RestsAgain
<1> QED  BY <1>6, <1>7, <1>8

LEMMA Fades4Step ==
  ASSUME NEW e, Midway(e), Next, Fades4(page, calls, over, used, e)
  PROVE  Goes(e) /\ Fades5(page', calls', over, used, e)
<1> DEFINE a == Asks(over, used, e)
<1>1. calls = <<Complete(a, "none")>> /\ Bare(page, e) /\ Queue(page, e) = <<InProgress>> /\ Shows(page, over, e)
  BY DEF Fades4
<1>2. a \in Anims /\ a.elem = e /\ a.n = used - 1
  BY AsksIsAnim DEF Midway
<1> HIDE DEF a
<1>3. ~Idle /\ Now = Complete(a, "none") /\ Tail(calls) = <<>>
  BY <1>1, FirstCall
<1>4. CompleteStep
  BY <1>3, CallNames, BusyStep
<1>5. page' = page /\ calls' = <<Dequeue(e)>> \o Tail(calls) /\ UNCHANGED Rest
  BY <1>2, <1>3, <1>4, CompleteNothing DEF Midway
<1>6. calls' = <<Dequeue(e)>>
  BY <1>3, <1>5, OneMore
<1>7. Goes(e)
  BY <1>5, GoesStill
<1> QED  BY <1>1, <1>5, <1>6, <1>7 DEF Fades5

LEMMA Fades5Step ==
  ASSUME NEW e, Midway(e), Next, Fades5(page, calls, over, used, e)
  PROVE  UNCHANGED Rest /\ MenuPage(page', used) /\ Resting(page', calls', over)
<1>1. calls = <<Dequeue(e)>> /\ Bare(page, e) /\ Queue(page, e) = <<InProgress>> /\ Shows(page, over, e)
  BY DEF Fades5
<1>2. ~Idle /\ Now = Dequeue(e) /\ Tail(calls) = <<>>
  BY <1>1, FirstCall
<1>3. DequeueStep
  BY <1>2, CallNames, BusyStep
<1>4. Requeued(page, page', e, <<>>) /\ calls' = <<>> \o Tail(calls) /\ UNCHANGED Rest
  BY <1>1, <1>2, <1>3, DequeueEmpty DEF Midway
<1>5. calls' = <<>>
  BY <1>2, <1>4, NoMore
<1>6. Goes(e) /\ Queue(page', e) = <<>> /\ Bare(page', e) /\ (IsHidden(page', e) <=> IsHidden(page, e))
  BY <1>1, <1>4, GoesRequeued
<1>7. Calm(page', over, e)
  BY <1>1, <1>6 DEF Calm, Settled, Bare, Shows
<1> QED  BY <1>5, <1>6, <1>7, RestsAgain DEF Goes

-----------------------------------------------------------------------------
(* A tick of the interval, step by step.                                     *)

Looks ==
  /\ used \in Nat
  /\ MenuPage(page, used)
  /\ AllKept(page, first)

LEMMA Ticks1Step ==
  ASSUME Looks, Next, Ticks1(page, calls, over)
  PROVE  /\ UNCHANGED Rest /\ MenuPage(page', used)
         /\ \/ Resting(page', calls', over)
            \/ Ticks1(page', calls', over)
            \/ \E i \in DOMAIN page'.timers : \E fin : Ticks2(page', calls', over, i, fin)
<1>0. PICK i \in Nat \ {0} : \E fin : calls = <<TickFrom(i, fin)>>
  BY DEF Ticks1
<1>1. PICK fin : calls = <<TickFrom(i, fin)>>
  BY <1>0
<1>2. \A x \in Elements : Calm(page, over, x)
  BY DEF Ticks1
<1>3. ~Idle /\ Now = TickFrom(i, fin) /\ Tail(calls) = <<>>
  BY <1>1, FirstCall
<1>4. TickStep
  BY <1>3, CallNames, BusyStep
<1>5. Now.i = i /\ Now.fin = fin
  BY <1>3 DEF TickFrom
<1> DEFINE t == page.timers[i]
<1>6. page.timers \in Seq(Timers) /\ Apart(page.timers)
  BY DEF Looks, MenuPage, TimersOk
<1>7. Len(page.timers) \in Nat /\ DOMAIN page.timers = 1..Len(page.timers)
  BY <1>6
<1>8. CASE i > Len(page.timers)
  <2> DEFINE n == [page EXCEPT !.interval = page.timers # <<>>]
  <2>1. page' = n /\ calls' = <<>> \o Tail(calls) /\ UNCHANGED Rest
    BY <1>4, <1>5, <1>8 DEF TickStep, Then, Rest
  <2>2. DOMAIN n = DOMAIN page /\ Like(page, n) /\ n.queue = page.queue
    BY DEF Like, Looks, MenuPage
  <2> HIDE DEF n
  <2>3. MenuPage(page', used)
    BY <2>1, <2>2 DEF Looks, MenuPage, Like
  <2>4. /\ page'.timers = page.timers /\ page'.dim = page.dim
        /\ \A x : Queue(page', x) = Queue(page, x) /\ (IsHidden(page', x) <=> IsHidden(page, x))
    BY <2>1, <2>2 DEF Like, Queue, IsHidden
  <2>5. ASSUME NEW x \in Elements PROVE Calm(page', over, x)
    BY <1>2, <2>4 DEF Calm, Settled, Fading, Shows
  <2>6. calls' = <<>>
    BY <1>3, <2>1, NoMore
  <2>7. Resting(page', calls', over)
    BY <2>5, <2>6 DEF Resting
  <2> QED  BY <2>1, <2>3, <2>7
<1>9. CASE ~(i > Len(page.timers))
  <2>1. i \in DOMAIN page.timers
    BY <1>7, <1>9
  <2>2. t \in Timers
    BY <1>6, <2>1
  <2>3. ~t.ended
    <3>1. t.step.elem \in Elements
      BY <2>2 DEF Timers, Anims
    <3>2. Calm(page, over, t.step.elem)
      BY <1>2, <3>1
    <3>3. HasTimer(page.timers, t.step.elem)
      BY <2>1 DEF HasTimer
    <3>4. RunsFor(page.timers, t.step.elem, Asked(over, t.step.elem))
      BY <3>2, <3>3 DEF Calm, Settled, Fading
    <3>5. PICK j \in DOMAIN page.timers : page.timers[j].step.elem = t.step.elem /\ ~page.timers[j].ended
      BY <3>4 DEF RunsFor
    <3>6. j = i
      BY <1>6, <2>1, <3>5 DEF Apart
    <3> QED  BY <3>5, <3>6
  <2>4. CASE t.step.n \notin fin
    <3>1. Then(page, <<TickFrom(i + 1, fin)>>)
      BY <1>4, <1>5, <1>9, <2>3, <2>4 DEF TickStep
    <3>2. page' = page /\ calls' = <<TickFrom(i + 1, fin)>> /\ UNCHANGED Rest
      BY <1>3, <3>1, OneMore DEF Then, Rest
    <3>3. i + 1 \in Nat \ {0}
      OBVIOUS
    <3>4. Ticks1(page', calls', over)
      BY <1>2, <3>2, <3>3 DEF Ticks1
    <3> QED  BY <3>2, <3>4 DEF Looks
  <2>5. CASE t.step.n \in fin
    <3> DEFINE C == Complete(t.step, t.does)
               K == Ticked(i, t.step.n, fin)
    <3>1. Then(page, <<C>> \o <<K>>)
      <4> HIDE DEF t
      <4> QED  BY <1>4, <1>5, <1>9, <2>3, <2>5 DEF TickStep, t
    <3> HIDE DEF C, K
    <3>2. page' = page /\ calls' = <<C, K>> /\ UNCHANGED Rest
      <4>1. <<C>> \o <<K>> = <<C, K>>
        BY OneMore
      <4>2. <<C, K>> \o <<>> = <<C, K>>
        BY MoreWork
      <4> QED  BY <1>3, <3>1, <4>1, <4>2 DEF Then, Rest
    <3>3. Ticks2(page', calls', over, i, fin)
      BY <1>2, <3>2 DEF Ticks2, C, K
    <3> QED  BY <2>1, <3>2, <3>3 DEF Looks
  <2> QED  BY <2>4, <2>5
<1> QED  BY <1>8, <1>9

LEMMA Ticks2Step ==
  ASSUME NEW i \in DOMAIN page.timers, NEW fin, Looks, Next, Ticks2(page, calls, over, i, fin)
  PROVE  /\ UNCHANGED Rest /\ MenuPage(page', used)
         /\ i \in DOMAIN page'.timers /\ Ticks3(page', calls', over, i, fin)
<1> DEFINE t == page.timers[i]
           e == t.step.elem
           C == Complete(t.step, t.does)
           K == Ticked(i, t.step.n, fin)
<1>1. calls = <<C, K>> /\ \A x \in Elements : Calm(page, over, x)
  BY DEF Ticks2
<1> HIDE DEF K
<1>2. ~Idle /\ Now = C /\ Tail(calls) = <<K>>
  BY <1>1, FirstCall
<1>3. CompleteStep
  BY <1>2, CallNames, BusyStep
<1>4. MenuPage(page, used) /\ AllKept(page, first) /\ TimersOk(page.timers, used)
  BY DEF Looks, MenuPage
<1>5. /\ MenuPage(page', used)
      /\ Beside(page, page', e)
      /\ Queue(page', e) = Queue(page, e)
      /\ page'.timers = [page.timers EXCEPT ![i].ended = TRUE]
      /\ ~page'.dim[e]
      /\ IsHidden(page', e) <=> (IsHidden(page, e) \/ t.does = "hide")
      /\ calls' = <<Dequeue(e)>> \o Tail(calls)
      /\ UNCHANGED Rest
  BY <1>2, <1>3, <1>4, CompleteEnds
<1>6. DOMAIN page'.timers = DOMAIN page.timers /\ \A j \in DOMAIN page.timers : page'.timers[j].step = page.timers[j].step
  BY <1>4, <1>5, TimerEnded
<1>7. e \in Elements
  <2>1. t \in Timers
    BY <1>4 DEF TimersOk
  <2> QED  BY <2>1 DEF Timers, Anims
<1>8. Fading(page, over, e)
  <2>1. HasTimer(page.timers, e)
    BY DEF HasTimer
  <2> QED  BY <1>1, <1>7, <2>1 DEF Calm, Settled
<1>9. t.does = Asked(over, e)
  <2>1. PICK j \in DOMAIN page.timers : page.timers[j].step.elem = e /\ page.timers[j].does = Asked(over, e)
    BY <1>8 DEF Fading, RunsFor
  <2>2. j = i
    BY <1>4, <2>1 DEF TimersOk, Apart
  <2> QED  BY <2>1, <2>2
<1>10. page'.timers[i].step = t.step
  BY <1>6
<1> HIDE DEF t
<1>11. Shows(page', over, e)
  BY <1>5, <1>8, <1>9 DEF Shows, Asked, Fading
<1>12. OthersCalm(page', over, e)
  <2>1. OthersCalm(page, over, e)
    BY <1>1 DEF OthersCalm
  <2> QED  BY <1>5, <2>1, BesideCalm
<1>13. Queue(page', e) = <<InProgress>>
  BY <1>5, <1>8 DEF Fading
<1>14. calls' = <<Dequeue(e), K>>
  <2> HIDE DEF e
  <2> QED  BY <1>2, <1>5, OneMore
<1>15. TickEnds(page', over, i)
  BY <1>5, <1>10, <1>11, <1>12 DEF TickEnds
<1> QED  BY <1>5, <1>6, <1>10, <1>13, <1>14, <1>15 DEF Ticks3, K, t

LEMMA Ticks3Step ==
  ASSUME NEW i \in DOMAIN page.timers, NEW fin, Looks, Next, Ticks3(page, calls, over, i, fin)
  PROVE  /\ UNCHANGED Rest /\ MenuPage(page', used)
         /\ i \in DOMAIN page'.timers /\ Ticks4(page', calls', over, i, fin)
<1> DEFINE t == page.timers[i]
           e == t.step.elem
           K == Ticked(i, t.step.n, fin)
<1>1. calls = <<Dequeue(e), K>> /\ Queue(page, e) = <<InProgress>>
  BY DEF Ticks3
<1>2. OthersCalm(page, over, e) /\ ~page.dim[e] /\ Shows(page, over, e)
  BY DEF Ticks3, TickEnds
<1>3. e \in Elements
  <2>1. t \in Timers
    BY DEF Looks, MenuPage, TimersOk
  <2> QED  BY <2>1 DEF Timers, Anims
<1> HIDE DEF K, e
<1>4. ~Idle /\ Now = Dequeue(e) /\ Tail(calls) = <<K>>
  BY <1>1, FirstCall
<1>5. DequeueStep
  BY <1>4, CallNames, BusyStep
<1>6. Requeued(page, page', e, <<>>) /\ calls' = <<>> \o Tail(calls) /\ UNCHANGED Rest
  BY <1>1, <1>3, <1>4, <1>5, DequeueEmpty DEF Looks
<1>7. /\ MenuPage(page', used)
      /\ Queue(page', e) = <<>>
      /\ page'.timers = page.timers
      /\ page'.dim[e] = page.dim[e]
      /\ IsHidden(page', e) <=> IsHidden(page, e)
      /\ Beside(page, page', e)
  BY <1>3, <1>6, RequeuedKeeps DEF Looks
<1>8. OthersCalm(page', over, e)
  BY <1>2, <1>7, BesideCalm
<1>9. calls' = <<K>>
  BY <1>4, <1>6, NoMore
<1>10. Shows(page', over, e)
  BY <1>2, <1>7 DEF Shows
<1>11. TickEnds(page', over, i)
  BY <1>2, <1>7, <1>8, <1>10 DEF TickEnds, e
<1> QED  BY <1>6, <1>7, <1>9, <1>11 DEF Ticks4, K, e

LEMMA Ticks4Step ==
  ASSUME NEW i \in DOMAIN page.timers, NEW fin, Looks, Next, Ticks4(page, calls, over, i, fin)
  PROVE  UNCHANGED Rest /\ MenuPage(page', used) /\ Ticks1(page', calls', over)
<1> DEFINE t == page.timers[i]
           e == t.step.elem
<1>1. calls = <<Ticked(i, t.step.n, fin)>> /\ Queue(page, e) = <<>>
  BY DEF Ticks4
<1>2. OthersCalm(page, over, e) /\ ~page.dim[e] /\ Shows(page, over, e)
  BY DEF Ticks4, TickEnds
<1>3. ~Idle /\ Now = Ticked(i, t.step.n, fin) /\ Tail(calls) = <<>>
  BY <1>1, FirstCall
<1>4. TickedStep
  BY <1>3, CallNames, BusyStep
<1>5. Now.i = i /\ Now.n = t.step.n /\ Now.fin = fin
  BY <1>3 DEF Ticked
<1>6. /\ page' = [page EXCEPT !.timers = RemoveAt(page.timers, i)]
      /\ calls' = <<TickFrom(i, fin)>> \o Tail(calls) /\ UNCHANGED Rest
  BY <1>4, <1>5 DEF TickedStep, Then, Rest
<1>7. /\ MenuPage(page', used)
      /\ Beside(page, page', e)
      /\ Queue(page', e) = Queue(page, e)
      /\ page'.dim[e] = page.dim[e]
      /\ IsHidden(page', e) <=> IsHidden(page, e)
      /\ ~HasTimer(page'.timers, e)
      /\ DOMAIN page.timers = 1..Len(page.timers) /\ Len(page.timers) \in Nat
  BY <1>6, TakenOut DEF Looks
<1> HIDE DEF e
<1>8. OthersCalm(page', over, e)
  BY <1>2, <1>7, BesideCalm
<1>9. Calm(page', over, e)
  BY <1>1, <1>2, <1>7 DEF Calm, Settled, Shows
<1>10. calls' = <<TickFrom(i, fin)>>
  BY <1>3, <1>6, OneMore
<1>11. i \in Nat \ {0}
  BY <1>7
<1>12. \A x \in Elements : Calm(page', over, x)
  BY <1>8, <1>9 DEF OthersCalm
<1> QED  BY <1>6, <1>7, <1>10, <1>11, <1>12 DEF Ticks1

-----------------------------------------------------------------------------
(* The shapes follow each other, until nothing is under way again.           *)

MenuCalls(s, c, o, u) ==
  Resting(s, c, o) \/ Ticking(s, c, o) \/ \E e \in Elements : Moving(s, c, o, u, e)

LEMMA MovingStep ==
  ASSUME NEW e \in Elements, MenuPage(page, used), AllKept(page, first), Moving(page, calls, over, used, e), Next
  PROVE  UNCHANGED Rest /\ MenuPage(page', used) /\ MenuCalls(page', calls', over, used)
<1>1. Midway(e)
  BY DEF Moving, Midway
<1>2. used \in Nat \ {0}
  BY DEF Moving
<1> DEFINE Shape ==
             \/ Stops1(page', calls', over, used, e) \/ Stops2(page', calls', over, used, e)
             \/ Stops3(page', calls', over, used, e) \/ Stops4(page', calls', over, used, e)
             \/ Stops5(page', calls', over, used, e) \/ Stops6(page', calls', over, used, e)
             \/ Stops7(page', calls', over, used, e) \/ Stops8(page', calls', over, used, e)
             \/ Fades1(page', calls', over, used, e) \/ Fades2(page', calls', over, used, e)
             \/ Fades3(page', calls', over, used, e) \/ Fades4(page', calls', over, used, e)
             \/ Fades5(page', calls', over, used, e)
           Stopped == UNCHANGED Rest /\ MenuPage(page', used) /\ Resting(page', calls', over)
<1>3. Goes(e) /\ Shape => UNCHANGED Rest /\ MenuPage(page', used) /\ MenuCalls(page', calls', over, used)
  BY <1>2 DEF Goes, MenuCalls, Moving
<1>4. Stopped => UNCHANGED Rest /\ MenuPage(page', used) /\ MenuCalls(page', calls', over, used)
  BY DEF MenuCalls
<1>5. (Goes(e) /\ Shape) \/ Stopped
  <2>1. \/ Stops1(page, calls, over, used, e) \/ Stops2(page, calls, over, used, e)
        \/ Stops3(page, calls, over, used, e) \/ Stops4(page, calls, over, used, e)
        \/ Stops5(page, calls, over, used, e) \/ Stops6(page, calls, over, used, e)
        \/ Stops7(page, calls, over, used, e) \/ Stops8(page, calls, over, used, e)
        \/ Fades1(page, calls, over, used, e) \/ Fades2(page, calls, over, used, e)
        \/ Fades3(page, calls, over, used, e) \/ Fades4(page, calls, over, used, e)
        \/ Fades5(page, calls, over, used, e)
    BY DEF Moving
  <2> QED  BY <1>1, <2>1, Stops1Step, Stops2Step, Stops3Step, Stops4Step, Stops5Step, Stops6Step, Stops7Step,
              Stops8Step, Fades1Step, Fades2Step, Fades3Step, Fades4Step, Fades5Step
<1> QED  BY <1>3, <1>4, <1>5

LEMMA TickingStep ==
  ASSUME used \in Nat, MenuPage(page, used), AllKept(page, first), Ticking(page, calls, over), Next
  PROVE  UNCHANGED Rest /\ MenuPage(page', used) /\ MenuCalls(page', calls', over, used)
<1>1. Looks
  BY DEF Looks
<1>2. CASE Ticks1(page, calls, over)
  BY <1>1, <1>2, Ticks1Step DEF MenuCalls, Ticking
<1>3. ASSUME NEW i \in DOMAIN page.timers, NEW fin,
             Ticks2(page, calls, over, i, fin) \/ Ticks3(page, calls, over, i, fin) \/ Ticks4(page, calls, over, i, fin)
      PROVE  UNCHANGED Rest /\ MenuPage(page', used) /\ MenuCalls(page', calls', over, used)
  <2>1. CASE Ticks2(page, calls, over, i, fin)
    BY <1>1, <2>1, Ticks2Step DEF MenuCalls, Ticking
  <2>2. CASE Ticks3(page, calls, over, i, fin)
    BY <1>1, <2>2, Ticks3Step DEF MenuCalls, Ticking
  <2>3. CASE Ticks4(page, calls, over, i, fin)
    BY <1>1, <2>3, Ticks4Step DEF MenuCalls, Ticking
  <2> QED  BY <1>3, <2>1, <2>2, <2>3
<1> QED  BY <1>2, <1>3 DEF Ticking

(* The mouse comes to a menu, or leaves it.                                  *)
LEMMA MoveBegins ==
  ASSUME NEW e \in Elements, NEW o, used \in Nat, MenuPage(page, used), Resting(page, calls, over),
         page' = page, used' = used + 1,
         o \in {over \cup {e}, over \ {e}},
         calls' = Stop(e, TRUE, TRUE) \o <<Fade(Anim(used, e, Asked(o, e), Nothing))>>
  PROVE  MenuPage(page', used') /\ Moving(page', calls', o, used', e)
<1>1. used' \in Nat \ {0} /\ used' - 1 = used
  OBVIOUS
<1>2. TimersOk(page.timers, used)
  BY DEF MenuPage
<1>3. Below(page.timers, used' - 1)
  BY <1>1, <1>2 DEF TimersOk
<1>4. TimersOk(page.timers, used')
  <2>1. \A i \in DOMAIN page.timers : page.timers[i].step.n \in Nat
    <3> SUFFICES ASSUME NEW i \in DOMAIN page.timers PROVE page.timers[i].step.n \in Nat
      OBVIOUS
    <3>1. page.timers[i] \in Timers
      BY <1>2 DEF TimersOk
    <3>2. page.timers[i].step \in Anims
      BY <3>1 DEF Timers
    <3> QED  BY <3>2 DEF Anims
  <2>2. Below(page.timers, used')
    BY <1>2, <2>1 DEF TimersOk, Below
  <2> QED  BY <1>2, <2>2 DEF TimersOk
<1>5. MenuPage(page', used')
  BY <1>4 DEF MenuPage
<1>6. \A x \in Elements : Calm(page, over, x)
  BY DEF Resting
<1>7. OthersCalm(page', o, e)
  <2> SUFFICES ASSUME NEW x \in Elements \ {e} PROVE Calm(page, o, x)
    BY DEF OthersCalm
  <2>1. x \in o <=> x \in over
    OBVIOUS
  <2>2. Calm(page, over, x)
    BY <1>6
  <2> QED  BY <2>1, <2>2 DEF Calm, Settled, Fading, Asked, Shows
<1>8. Loose(page', e)
  <2>1. Calm(page, over, e)
    BY <1>6
  <2> QED  BY <2>1 DEF Calm, Settled, Fading, Asked, Loose
<1>9. calls' = <<Clear(e), Halt(e, TRUE), Fade(Asks(o, used', e))>>
  <2> DEFINE C == Clear(e)
             H == Halt(e, TRUE)
             F == Fade(Anim(used, e, Asked(o, e), Nothing))
  <2>1. Stop(e, TRUE, TRUE) = <<C>> \o <<H>>
    BY Zenon DEF Stop
  <2>2. F = Fade(Asks(o, used', e))
    BY <1>1, Zenon DEF Asks
  <2> HIDE DEF C, H, F
  <2>3. <<C>> \o <<H>> = <<C, H>>
    BY OneMore
  <2>4. <<C, H>> \o <<F>> = <<C, H, F>>
    BY MoreWork
  <2>5. calls' = <<C, H, F>>
    BY <2>1, <2>3, <2>4, Zenon DEF F
  <2> QED  BY <2>2, <2>5, Zenon DEF C, H
<1>10. Stops1(page', calls', o, used', e)
  BY <1>8, <1>9, Zenon DEF Stops1
<1> QED  BY <1>1, <1>3, <1>5, <1>7, <1>10 DEF Moving

LEMMA RestingStep ==
  ASSUME mode = "menu", scope = Elements, used \in Nat, over \subseteq Elements,
         MenuPage(page, used), Resting(page, calls, over), Next
  PROVE  /\ mode' = mode /\ scope' = scope /\ used' \in Nat /\ over' \subseteq Elements
         /\ MenuPage(page', used') /\ MenuCalls(page', calls', over', used')
<1>1. calls = <<>> /\ \A x \in Elements : Calm(page, over, x)
  BY DEF Resting
<1>2. ~LibraryStep /\ ~FadeStep
  BY <1>1 DEF LibraryStep, FadeStep, DequeueStep, StartStep, CompleteStep, ClearStep, HaltStep, StopTimersStep,
     SpliceStep, FinishAllStep, FinishTimersStep, FinishedStep, TickStep, TickedStep, At, Idle
<1>3. \A e : ~Called
  BY DEF Called
<1>4. ASSUME NEW fin \in SUBSET Running, Tick(fin)
      PROVE  /\ mode' = mode /\ scope' = scope /\ used' \in Nat /\ over' \subseteq Elements
             /\ MenuPage(page', used') /\ MenuCalls(page', calls', over', used')
  <2>1. page' = page /\ calls' = <<TickFrom(1, fin)>> /\ UNCHANGED <<mode, scope, over, used>>
    BY <1>4 DEF Tick, Task
  <2>2. 1 \in Nat \ {0}
    OBVIOUS
  <2>3. Ticks1(page', calls', over')
    BY <1>1, <2>1, <2>2 DEF Ticks1
  <2> QED  BY <2>1, <2>3 DEF MenuCalls, Ticking
<1>5. \A d \in page.delays : ~DelayFires(d)
  BY DEF MenuPage
<1>6. ASSUME NEW e \in scope, MouseEnter(e) \/ MouseLeave(e)
      PROVE  /\ mode' = mode /\ scope' = scope /\ used' \in Nat /\ over' \subseteq Elements
             /\ MenuPage(page', used') /\ MenuCalls(page', calls', over', used')
  <2>1. page' = page /\ used' = used + 1 /\ mode' = mode /\ scope' = scope
    BY <1>6 DEF MouseEnter, MouseLeave, Moves, Task
  <2>2. CASE MouseEnter(e)
    <3>1. over' = over \cup {e} /\ Asked(over', e) = "show"
      BY <2>2 DEF MouseEnter, Asked
    <3>2. calls' = Stop(e, TRUE, TRUE) \o <<Fade(Anim(used, e, Asked(over', e), Nothing))>>
      BY <2>2, <3>1, Zenon DEF MouseEnter, Task
    <3>3. MenuPage(page', used') /\ Moving(page', calls', over', used', e)
      BY <2>1, <3>1, <3>2, MoveBegins
    <3> QED  BY <2>1, <3>1, <3>3 DEF MenuCalls
  <2>3. CASE MouseLeave(e)
    <3>1. over' = over \ {e} /\ Asked(over', e) = "hide"
      BY <2>3 DEF MouseLeave, Asked
    <3>2. calls' = Stop(e, TRUE, TRUE) \o <<Fade(Anim(used, e, Asked(over', e), Nothing))>>
      BY <2>3, <3>1, Zenon DEF MouseLeave, Task
    <3>3. MenuPage(page', used') /\ Moving(page', calls', over', used', e)
      BY <2>1, <3>1, <3>2, MoveBegins
    <3> QED  BY <2>1, <3>1, <3>3 DEF MenuCalls
  <2> QED  BY <1>6, <2>2, <2>3
<1>7. \A e : ~(Animate(e) \/ Delay(e) \/ ToggleNow(e) \/ StopCall(e) \/ FinishCall(e) \/ ClearQueue(e) \/ Promise(e))
  BY <1>3 DEF Animate, Delay, ToggleNow, StopCall, FinishCall, ClearQueue, Promise
<1> QED  BY <1>2, <1>4, <1>5, <1>6, <1>7 DEF Next

LEMMA MenuNext == EffectsInv /\ MenuInv /\ [Next]_vars => MenuInv'
<1> SUFFICES ASSUME EffectsInv, MenuInv, [Next]_vars, mode' = "menu"
             PROVE  /\ used' \in Nat /\ scope' = Elements /\ over' \subseteq Elements
                    /\ MenuPage(page', used') /\ MenuCalls(page', calls', over', used')
  BY DEF MenuInv, MenuCalls
<1>1. mode = "menu"
  BY DEF Next, LibraryStep, FadeStep, DequeueStep, StartStep, CompleteStep, ClearStep, HaltStep, StopTimersStep,
     SpliceStep, FinishAllStep, FinishTimersStep, FinishedStep, TickStep, TickedStep, Then, Tick, DelayFires,
     Animate, Delay, ToggleNow, StopCall, FinishCall, ClearQueue, Promise, Called, MouseEnter, MouseLeave, Moves, vars
<1>2. /\ used \in Nat /\ scope = Elements /\ over \subseteq Elements
      /\ MenuPage(page, used) /\ MenuCalls(page, calls, over, used)
  BY <1>1 DEF MenuInv, MenuCalls
<1>3. AllKept(page, first)
  BY DEF EffectsInv, Good
<1>4. CASE UNCHANGED vars
  BY <1>2, <1>4 DEF vars
<1>5. CASE Next /\ Resting(page, calls, over)
  BY <1>1, <1>2, <1>5, RestingStep
<1>6. CASE Next /\ Ticking(page, calls, over)
  BY <1>2, <1>3, <1>6, TickingStep DEF Rest
<1>7. ASSUME Next, NEW e \in Elements, Moving(page, calls, over, used, e)
      PROVE  /\ used' \in Nat /\ scope' = Elements /\ over' \subseteq Elements
             /\ MenuPage(page', used') /\ MenuCalls(page', calls', over', used')
  BY <1>2, <1>3, <1>7, MovingStep DEF Rest
<1> QED  BY <1>2, <1>4, <1>5, <1>6, <1>7 DEF MenuCalls

LEMMA NoTimersOk ==
  ASSUME NEW ts, ts = <<>>
  PROVE  DOMAIN ts = {} /\ TimersOk(ts, 0)
<1>1. <<>> \in Seq(Timers) /\ Len(<<>>) = 0
  BY EmptySeq
<1>2. ts \in Seq(Timers) /\ Len(ts) = 0
  BY <1>1
<1>3. DOMAIN ts = {}
  <2> HIDE DEF Timers
  <2>1. DOMAIN ts = 1..Len(ts)
    BY <1>2, LenProperties
  <2> QED  BY <1>2, <2>1
<1> QED  BY <1>2, <1>3 DEF TimersOk, Apart, Below, AsAsked

LEMMA MenuInit == Init => MenuInv
<1> SUFFICES ASSUME Init, mode = "menu" PROVE MenuInv
  BY DEF MenuInv
<1>1. PICK css \in {[e \in Elements |-> [style |-> "", sheet |-> "none"]]} :
        page = [queue |-> [e \in Elements |-> Nothing],
                hooks |-> [e \in Elements |-> Nothing],
                timers |-> <<>>, interval |-> FALSE, delays |-> {},
                css |-> [e \in Elements |-> [style |-> css[e].style, sheet |-> css[e].sheet, old |-> ""]],
                fxshow |-> [e \in Elements |-> Nothing],
                dim |-> [e \in Elements |-> FALSE],
                finishing |-> {},
                promise |-> [e \in Elements |-> Nothing]]
  BY DEF Init
<1>2. scope = Elements /\ calls = <<>> /\ over = {} /\ used = 0
  BY DEF Init
<1>3. /\ {"queue", "hooks", "timers", "interval", "delays", "css", "fxshow", "dim", "finishing"} \subseteq DOMAIN page
      /\ page.timers = <<>> /\ page.delays = {} /\ page.finishing = {}
      /\ page.queue = [e \in Elements |-> Nothing]
      /\ page.fxshow = [e \in Elements |-> Nothing]
      /\ page.dim = [e \in Elements |-> FALSE]
      /\ page.css = [e \in Elements |-> [style |-> css[e].style, sheet |-> css[e].sheet, old |-> ""]]
  BY <1>1
<1>4. DOMAIN page.timers = {} /\ TimersOk(page.timers, 0)
  BY <1>3, NoTimersOk
<1>5. MenuPage(page, used)
  BY <1>2, <1>3, <1>4 DEF MenuPage
<1>6. ASSUME NEW x \in Elements PROVE Calm(page, over, x)
  <2>1. IsHidden(page, x)
    <3> DEFINE plain == [style |-> "", sheet |-> "none"]
               c == [style |-> css[x].style, sheet |-> css[x].sheet, old |-> ""]
    <3>1. plain.style = "" /\ plain.sheet = "none"
      OBVIOUS
    <3>2. css[x] = plain
      BY <1>1
    <3>3. c.style = css[x].style /\ c.sheet = css[x].sheet
      OBVIOUS
    <3>4. page.css[x] = c
      BY <1>3
    <3> HIDE DEF plain, c
    <3> QED  BY <3>1, <3>2, <3>3, <3>4 DEF IsHidden, Computed
  <2>2. ~HasTimer(page.timers, x)
    BY <1>4 DEF HasTimer
  <2>3. Queue(page, x) = <<>> /\ ~page.dim[x]
    BY <1>3 DEF Queue
  <2> QED  BY <1>2, <2>1, <2>2, <2>3 DEF Calm, Settled, Shows
<1>7. Resting(page, calls, over)
  BY <1>2, <1>6 DEF Resting
<1> QED  BY <1>2, <1>5, <1>7 DEF MenuInv

(* Nothing moves: every dropdown of layout.js shows whether the mouse is on  *)
(* its entry, and fully, however fast the mouse came and went.               *)
THEOREM MenuFollowsMouseThm == Spec => []MenuFollowsMouse
<1>1. Init => EffectsInv /\ MenuInv
  BY InitIsGood, MenuInit
<1>2. EffectsInv /\ MenuInv /\ [Next]_vars => EffectsInv' /\ MenuInv'
  BY NextKeeps, MenuNext
<1>3. MenuInv => MenuFollowsMouse
  <2> SUFFICES ASSUME MenuInv, Idle, mode = "menu", page.timers = <<>>, NEW e \in Elements
               PROVE  (IsHidden(page, e) <=> e \notin over) /\ ~page.dim[e]
    BY DEF MenuFollowsMouse
  <2>1. ~Ticking(page, calls, over)
    BY DEF Idle, Ticking, Ticks1, Ticks2, Ticks3, Ticks4
  <2>2. \A x \in Elements : ~Moving(page, calls, over, used, x)
    BY Zenon DEF Idle, Moving, Stops1, Stops2, Stops3, Stops4, Stops5, Stops6, Stops7, Stops8,
       Fades1, Fades2, Fades3, Fades4, Fades5
  <2>3. Calm(page, over, e)
    BY <2>1, <2>2 DEF MenuInv, Resting
  <2>4. ~RunsFor(page.timers, e, Asked(over, e))
    BY DEF RunsFor
  <2> QED  BY <2>3, <2>4 DEF Calm, Settled, Fading, Shows
<1> QED  BY <1>1, <1>2, <1>3, PTL DEF Spec
=============================================================================
