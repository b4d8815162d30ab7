------------------------------- MODULE Jsonp -------------------------------
(***************************************************************************)
(* JSONP requests of jQuery: a prefilter installs a function under a name   *)
(* of window, a <script> of the server calls it, and a clean-up puts the    *)
(* old value back and keeps an automatic name for the next request.  The    *)
(* name may also be given by the caller.  A script that was aborted or      *)
(* timed out is taken out of the page, but it may still come and run.       *)
(***************************************************************************)
EXTENDS Naturals, Sequences, SequencesExt, FiniteSets, PageScript

CONSTANTS Request,     \* the JSONP requests of a page's life
          Given,       \* a callback name the caller gives
          PageValue,   \* what the page had under that name: a function
          Empty,       \* no function, no answer, no name
          Failed      \* how a request ends that has no data

ASSUME JsonpAssumption ==
    /\ IsFiniteSet(Request)
    /\ Request \cap {PageValue, Empty, Failed} = {}
    /\ Empty \notin {PageValue, Failed, Given}
    /\ {Given, Empty} \cap Nat = {}

VARIABLE jsonp

Generated == 1 .. Cardinality(Request)     \* expando + "_" + ajax_nonce

JsonpInit ==
    jsonp \in [window : {[n \in Generated \cup {Given} |->
                             IF n = Given THEN PageValue ELSE Empty]},
               oldCallbacks : {<<>>},
               nonce : {0},
               name : {[r \in Request |-> Empty]},
               overwritten : {[r \in Request |-> Empty]},
               container : {[r \in Request |-> Empty]},
               script : {[r \in Request |-> "none"]},
               result : {[r \in Request |-> Empty]},
               late : BOOLEAN,          \* may removed scripts still run
               silent : BOOLEAN,        \* may a script call nothing
               overlap : {FALSE}]       \* given names were pending together

Pending(J, r) == J.name[r] # Empty /\ J.result[r] = Empty

\* The function under name n is called with the answer to request r: a
\* request's function keeps it in the request's container.
Called(J, n, r) ==
    IF J.window[n] \in Request
    THEN [J EXCEPT !.container[J.window[n]] = r]
    ELSE J

\* jsonpCallback(): the last name given back, or a new one.
JsonpCallback(J) ==
    IF J.oldCallbacks # <<>> THEN Last(J.oldCallbacks) ELSE J.nonce + 1

\* Mutant: the name is looked at and left on the stack.
TakeNameLeaves(J, n) ==
    IF n = Given \/ J.oldCallbacks # <<>> THEN J ELSE [J EXCEPT !.nonce = @ + 1]

\* oldCallbacks.pop() || ajax_nonce++
TakeName(J, n) ==
    IF n = Given THEN J
    ELSE IF J.oldCallbacks # <<>> THEN [J EXCEPT !.oldCallbacks = Front(@)]
    ELSE [J EXCEPT !.nonce = @ + 1]

\* if ( s[ callbackName ] ): only an automatic name is free again.
SaveName(J, n) ==
    IF n = Given THEN J ELSE [J EXCEPT !.oldCallbacks = Append(@, n)]

\* window[ callbackName ] = overwritten
Restore(J, r) == [J EXCEPT !.window[J.name[r]] = J.overwritten[r]]

\* overwritten( responseContainer[0] ): a function that was there before is
\* called with the answer as well.
CallOverwritten(J, r) ==
    IF J.container[r] # Empty /\ J.overwritten[r] \in Request
    THEN [J EXCEPT !.container[J.overwritten[r]] = J.container[r]]
    ELSE J

\* jqXHR.always(): fires after the conversion, however the request ended.
CleanUp(J, r) == CallOverwritten(SaveName(Restore(J, r), J.name[r]), r)

\* The converter "script json": no container, no answer.
Converted(J, r) == IF J.container[r] = Empty THEN Failed ELSE J.container[r]

\* $.ajax with dataType "jsonp": the prefilter and the script transport.
Send(r, given) ==
    /\ jsonp # Off /\ jsonp.name[r] = Empty
    /\ LET n == IF given THEN Given ELSE JsonpCallback(jsonp)
       IN jsonp' = [TakeName(jsonp, n) EXCEPT
                       !.name[r]        = n,
                       !.overwritten[r] = jsonp.window[n],
                       !.window[n]      = r,
                       !.script[r]      = "loading",
                       !.overlap        = @ \/ (given /\ \E q \in Request :
                                            Pending(jsonp, q) /\ jsonp.name[q] = Given)]

\* The script comes, runs - it calls the name it was asked for, or nothing -
\* and its onload ends the request.
Onload(r, calls) ==
    /\ jsonp # Off /\ Pending(jsonp, r) /\ jsonp.script[r] = "loading"
    /\ calls \/ jsonp.silent
    /\ LET ran == IF calls THEN Called(jsonp, jsonp.name[r], r) ELSE jsonp
       IN jsonp' = [CleanUp(ran, r) EXCEPT !.result[r] = Converted(ran, r),
                                           !.script[r] = "ran"]

\* abort() or a timeout: the script is taken out of the page.
Abort(r) ==
    /\ jsonp # Off /\ Pending(jsonp, r)
    /\ jsonp' = [CleanUp(jsonp, r) EXCEPT !.result[r] = Failed,
                                          !.script[r] = "removed"]

\* A removed script runs all the same (external).
LateScript(r) ==
    /\ jsonp # Off /\ jsonp.late /\ jsonp.script[r] = "removed"
    /\ jsonp' = [Called(jsonp, jsonp.name[r], r) EXCEPT !.script[r] = "ran"]

JsonpNext ==
    \E r \in Request :
        \/ \E given \in BOOLEAN : Send(r, given)
        \/ \E calls \in BOOLEAN : Onload(r, calls)
        \/ Abort(r)
        \/ LateScript(r)

-----------------------------------------------------------------------------

Automatic(r) == jsonp.name[r] \in Generated

(* A request with an automatic name never gets the answer to another one:   *)
(* names are recycled only when their last user is done with them.  For a   *)
(* removed script that runs late and calls the name's next user this needs  *)
(* every script to call its function, which it then does last.              *)
AnswerIsOwn ==
    jsonp # Off => \A r \in Request :
        (Automatic(r) /\ ~(jsonp.late /\ jsonp.silent)) =>
            jsonp.result[r] \in {Empty, Failed, r}

(* Requests that are pending together never share an automatic name, and no *)
(* name is free while it is in use, or twice.                               *)
NamesNotShared ==
    jsonp # Off =>
        /\ \A r, q \in Request :
               (r # q /\ Pending(jsonp, r) /\ Pending(jsonp, q) /\ Automatic(r))
                   => jsonp.name[r] # jsonp.name[q]
        /\ \A i \in DOMAIN jsonp.oldCallbacks :
               /\ \A r \in Request : Pending(jsonp, r) => jsonp.name[r] # jsonp.oldCallbacks[i]
               /\ \A j \in DOMAIN jsonp.oldCallbacks :
                      i # j => jsonp.oldCallbacks[i] # jsonp.oldCallbacks[j]

(* When no request is pending window is as the page left it, unless two     *)
(* requests used the given name at a time: then the first to end restores   *)
(* the page's function and the other puts the first one's back.             *)
WindowRestored ==
    (jsonp # Off /\ \A r \in Request : ~Pending(jsonp, r)) =>
        \A n \in DOMAIN jsonp.window :
            \/ jsonp.window[n] = (IF n = Given THEN PageValue ELSE Empty)
            \/ n = Given /\ jsonp.overlap

(* Requests get their own answers and leave nothing behind.                 *)
AnswersKeptApart == AnswerIsOwn /\ NamesNotShared /\ WindowRestored

=============================================================================
