------------------------------- MODULE Ready -------------------------------
(***************************************************************************)
(* $(document).ready: the functions a page registers run when the document  *)
(* is parsed and no script holds the event any more.  DOMContentLoaded,     *)
(* load, a timeout after a late registration and the release of a hold all  *)
(* end in jQuery.ready(), which counts them in readyWait and isReady.       *)
(* Browsers with addEventListener only, and a document that has a body.     *)
(***************************************************************************)
EXTENDS Integers, PageScript

CONSTANTS Fn,          \* functions a page registers
          MaxHolds    \* bound: holds ever taken

ASSUME ReadyAssumption == MaxHolds \in Nat

VARIABLE document

ReadyInit ==
    document \in [readyState : {"loading"},
                  isReady    : {FALSE},
                  readyWait  : {1},
                  readyList  : {"none"},    \* "none", "made", "resolved"
                  listening  : {{}},        \* events that call jQuery.ready
                  timers     : {0},         \* setTimeout( jQuery.ready )
                  registered : {{}}, ran : {{}},
                  holds : {0}, taken : {0}]

\* readyList.resolveWith( document, [ jQuery ] )
Resolve(D) == [D EXCEPT !.readyList = "resolved", !.ran = D.registered]

\* jQuery.ready( wait ): wait is true only for the release of a hold.
ready(D, wait) ==
    LET counted == [D EXCEPT !.readyWait = @ - 1]
    IN IF wait THEN IF counted.readyWait # 0 THEN counted
                    ELSE Resolve([counted EXCEPT !.isReady = TRUE])
       ELSE IF D.isReady THEN D
       ELSE IF counted.readyWait > 0 THEN [counted EXCEPT !.isReady = TRUE]
       ELSE Resolve([counted EXCEPT !.isReady = TRUE])

\* Mutant: a list made late only listens, for events that are over.
promiseListens(D) ==
    IF D.readyList # "none" THEN D
    ELSE [D EXCEPT !.readyList = "made",
                   !.listening = {"DOMContentLoaded", "load"}]

\* jQuery.ready.promise: the first call makes the list and listens, or asks
\* for a timeout when the document is complete already.
promise(D) ==
    IF D.readyList # "none" THEN D
    ELSE IF D.readyState = "complete"
    THEN [D EXCEPT !.readyList = "made", !.timers = @ + 1]
    ELSE [D EXCEPT !.readyList = "made",
                   !.listening = {"DOMContentLoaded", "load"}]

\* $(fn): run at once when the list is resolved.
register(f) ==
    /\ document # Off /\ f \notin document.registered
    /\ LET D == [promise(document) EXCEPT !.registered = @ \cup {f}]
       IN document' = IF D.readyList = "resolved" THEN [D EXCEPT !.ran = @ \cup {f}]
                      ELSE D

\* jQuery.holdReady( true )
hold ==
    /\ document # Off /\ document.taken < MaxHolds
    /\ document' = [document EXCEPT !.readyWait = @ + 1, !.holds = @ + 1,
                                    !.taken = @ + 1]

\* jQuery.holdReady( false ), by a script that holds the event.
release ==
    /\ document # Off /\ document.holds > 0
    /\ document' = ready([document EXCEPT !.holds = @ - 1], TRUE)

\* The document is parsed; the listener removes itself and calls ready.
DOMContentLoaded ==
    /\ document # Off /\ document.readyState = "loading"
    /\ LET D == [document EXCEPT !.readyState = "interactive",
                                 !.listening = @ \ {"DOMContentLoaded"}]
       IN document' = IF "DOMContentLoaded" \in document.listening
                      THEN ready(D, FALSE) ELSE D

\* Everything is loaded; the listener stays, but load comes only once.
load ==
    /\ document # Off /\ document.readyState = "interactive"
    /\ LET D == [document EXCEPT !.readyState = "complete"]
       IN document' = IF "load" \in document.listening THEN ready(D, FALSE) ELSE D

timeout ==
    /\ document # Off /\ document.timers > 0
    /\ document' = ready([document EXCEPT !.timers = @ - 1], FALSE)

ReadyNext ==
    \/ \E f \in Fn : register(f)
    \/ hold \/ release \/ DOMContentLoaded \/ load \/ timeout

\* The browser goes on parsing and runs its timers, and a script that holds
\* the event releases it.
ReadyFairness ==
    /\ WF_document(DOMContentLoaded) /\ WF_document(load)
    /\ WF_document(timeout) /\ WF_document(release)

-----------------------------------------------------------------------------

(* Functions begin to run only for a parsed document that nobody holds, and *)
(* from a list that was made: hold and release in any order with the        *)
(* events, and with a registration after them, never let the counter reach  *)
(* zero too early.                                                          *)
NotTooEarly ==
    [][(document # Off /\ document.readyList # "resolved"
                       /\ document'.readyList = "resolved") =>
           /\ document.readyList = "made"
           /\ document'.readyState # "loading"
           /\ document'.holds = 0]_document

(* Every function that is registered, before or after any of the events,    *)
(* runs in the end: the counter is not left above zero by a release that    *)
(* came before the events, or by a list that was made when they were over.  *)
EveryoneRuns ==
    \A f \in Fn : (document # Off /\ f \in document.registered)
                      ~> (document # Off /\ f \in document.ran)

(* Every function runs, and none too early.                                 *)
ReadyInTime == NotTooEarly /\ EveryoneRuns

=============================================================================
