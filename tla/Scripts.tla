------------------------------ MODULE Scripts ------------------------------
(***************************************************************************)
(* Scripts in content that a page inserts with jQuery.  The browser does    *)
(* not run them: domManip evaluates the script of the content "on first     *)
(* document insertion", and a mark on the script ("globalEval") remembers   *)
(* that.  Contents, each with one script, go into holders, which are in the *)
(* document or not; inserting into several places inserts clones into all   *)
(* but the last.                                                            *)
(***************************************************************************)
EXTENDS Naturals, Sequences, SequencesExt, FiniteSets, PageScript

CONSTANTS Holder,       \* elements contents are inserted into
          Body,         \* the place of holders in the document
          Nowhere,      \* outside any element
          MaxContents  \* bound: contents and their clones

ASSUME ScriptsAssumption ==
    /\ MaxContents \in Nat \ {0}
    /\ (Holder \cup {Body, Nowhere}) \cap Nat = {}
    /\ Body # Nowhere /\ {Body, Nowhere} \cap Holder = {}

VARIABLE dom

Content == 1 .. MaxContents

ScriptsInit ==
    dom \in [at      : {[x \in Holder \cup Content |-> Nowhere]},
             made    : {1},                          \* contents there are
             marked  : {[c \in Content |-> FALSE]},  \* "globalEval"
             ran     : {[c \in Content |-> 0]},
             heard   : {[c \in Content |-> FALSE]},  \* ran, or its original did
             copy    : {[c \in Content |-> FALSE]},  \* made for a further target
             removed : {[c \in Content |-> FALSE]}]  \* its data was cleaned

Made == 1 .. dom.made

\* jQuery.contains( ownerDocument, elem )
InDocument(D, x) ==
    IF x \in Holder THEN D.at[x] = Body
    ELSE D.at[x] \in Holder /\ D.at[D.at[x]] = Body

\* The contents whose scripts are in x.
ScriptsOf(D, x) ==
    IF x \in Holder THEN {c \in 1 .. D.made : D.at[c] = x} ELSE {x}

\* "Preserve script evaluation history": what is taken out of the document is
\* marked.
PreserveHistory(D, x) ==
    IF InDocument(D, x)
    THEN [D EXCEPT !.marked = [c \in Content |-> @[c] \/ c \in ScriptsOf(D, x)]]
    ELSE D

\* "Evaluate executable scripts on first document insertion"; ran counts to 2.
Evaluate(D, x) ==
    LET due == {c \in ScriptsOf(D, x) : ~D.marked[c] /\ InDocument(D, c)}
    IN [D EXCEPT !.ran   = [c \in Content |-> IF c \in due /\ @[c] < 2 THEN @[c] + 1
                                            ELSE @[c]],
                 !.heard = [c \in Content |-> @[c] \/ c \in due]]

\* jQuery.clone: a clone of what is in the document is marked, another has
\* the mark of its source.
CloneOf(D, c, place, isCopy) ==
    LET new == D.made + 1
    IN [D EXCEPT !.made = new, !.at[new] = place,
                 !.marked[new] = InDocument(D, c) \/ D.marked[c],
                 !.heard[new]  = D.heard[c],
                 !.copy[new]   = D.copy[c] \/ isCopy]

\* The fragment goes to the last target, its clones to those before.
ToTargets(D, c, targets) ==
    LET cloned == IF Len(targets) = 1 THEN D ELSE CloneOf(D, c, targets[1], TRUE)
    IN [cloned EXCEPT !.at[c] = Last(targets)]

\* domManip for content c: buildFragment takes it out of its place first.
DomManip(D, c, targets) ==
    LET fragment == [PreserveHistory(D, c) EXCEPT !.at[c] = Nowhere]
    IN Evaluate(ToTargets(fragment, c, targets), c)

\* Targets that leave room for the clones.
\* (bound: one place or two)
Targets == {s \in {<<h>> : h \in Holder} \cup {<<h, k>> : h \in Holder, k \in Holder} :
                /\ dom.made + Len(s) - 1 <= MaxContents
                /\ Len(s) = 2 => s[1] # s[2]}

\* $(targets).append(content), with content new or from anywhere.
append(c, targets) ==
    /\ c \in Made /\ targets \in Targets
    /\ dom' = DomManip(dom, c, targets)

\* $(content).appendTo(targets): a clone for each target but the last is
\* inserted on its own.
appendTo(c, targets) ==
    /\ c \in Made /\ targets \in Targets
    /\ LET cloned == IF Len(targets) = 1 THEN dom
                     ELSE DomManip(CloneOf(dom, c, Nowhere, FALSE), dom.made + 1,
                                   <<targets[1]>>)
       IN dom' = DomManip(cloned, c, <<Last(targets)>>)

\* $("body").append(holder)
appendHolder(h) ==
    dom' = Evaluate([PreserveHistory(dom, h) EXCEPT !.at[h] = Body], h)

\* Mutant: detach() does not look for scripts.
DetachedUnmarked(D, x) == [D EXCEPT !.at[x] = Nowhere]

\* remove( selector, true )
Detached(D, x) == [PreserveHistory(D, x) EXCEPT !.at[x] = Nowhere]

detach(x) ==
    /\ x \in Holder \cup Made
    /\ dom' = Detached(dom, x)

\* cleanData on contents: their marks are gone.
Cleaned(D, S) ==
    [D EXCEPT !.marked  = [c \in Content |-> @[c] /\ c \notin S],
              !.removed = [c \in Content |-> @[c] \/ c \in S]]

remove(x) ==
    /\ x \in Holder \cup Made
    /\ dom' = [Cleaned(dom, ScriptsOf(dom, x)) EXCEPT !.at[x] = Nowhere]

\* holder.empty()
empty(h) ==
    LET D == Cleaned(dom, ScriptsOf(dom, h))
    IN dom' = [D EXCEPT !.at = [x \in DOMAIN D.at |->
                                   IF D.at[x] = h THEN Nowhere ELSE D.at[x]]]

\* content.clone( true )
clone(c) ==
    /\ c \in Made /\ dom.made < MaxContents
    /\ dom' = CloneOf(dom, c, Nowhere, FALSE)

ScriptsNext ==
    /\ dom # Off
    /\ \/ \E c \in Content :
             \/ \E targets \in Targets : append(c, targets) \/ appendTo(c, targets)
             \/ clone(c)
       \/ \E h \in Holder : appendHolder(h) \/ empty(h)
       \/ \E x \in Holder \cup Content : detach(x) \/ remove(x)

-----------------------------------------------------------------------------

(* A script is evaluated once, however its content and its holder are moved *)
(* about, detached and inserted again; only remove() and empty(), which     *)
(* clean the content's data, let it run again.                              *)
RunsOnce ==
    dom # Off => \A c \in Content : dom.removed[c] \/ dom.ran[c] <= 1

(* Content that is in the document has been heard: its script ran, or that  *)
(* of the content it was cloned from - but for the clones append() makes    *)
(* for all targets but the last, whose scripts it never evaluates.          *)
InsertedHasRun ==
    dom # Off => \A c \in Content :
        (c \in Made /\ InDocument(dom, c) /\ ~dom.copy[c]) => dom.heard[c]

(* A script that was inserted runs, once.                                   *)
ScriptsRunOnce == RunsOnce /\ InsertedHasRun

=============================================================================
