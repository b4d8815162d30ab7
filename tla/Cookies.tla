------------------------------ MODULE Cookies ------------------------------
(***************************************************************************)
(* jquery.cookie.js and the ClearCookie of Common.js over the browser's     *)
(* jar.  Paths are the prefixes of one path, numbered by their depth; a     *)
(* page sees the cookies no deeper than itself, the deeper first and among  *)
(* equals the older first.  The server may set cookies whose name or value  *)
(* cannot be decoded: a name throws, a value reads as undefined.            *)
(***************************************************************************)
EXTENDS Naturals, Sequences, SequencesExt, PageScript

CONSTANTS CookieName,   \* names that decode
          QueryParams,  \* the name ClearCookie removes
          BadName,      \* a name that does not decode
          CookieValue,  \* values the page writes
          BadValue,     \* a value that does not decode
          Undefined,    \* what reading gives for no cookie
          Depth,        \* the depths of paths
          MaxCookies   \* bound: cookies in the jar

ASSUME CookiesAssumption ==
    /\ QueryParams \in CookieName /\ BadName \notin CookieName
    /\ {BadValue, Undefined} \cap CookieValue = {}
    /\ Depth \subseteq Nat /\ 0 \in Depth

VARIABLE page   \* its depth, the jar, and its last write at its own path

\* document.cookie: what a page at depth d sees of the jar.
Visible(jar, d) ==
    LET at(k) == Only(jar, {c \in ToSet(jar) : c.path = k})
        from[k \in 0 .. d] == IF k = 0 THEN at(0) ELSE at(k) \o from[k - 1]
    IN from[d]

Replace(jar, c) ==
    [i \in DOMAIN jar |->
        IF jar[i].name = c.name /\ jar[i].path = c.path THEN c ELSE jar[i]]

\* document.cookie = ...: a cookie of the same name and path is replaced.
Put(jar, c) ==
    IF \E i \in DOMAIN jar : jar[i].name = c.name /\ jar[i].path = c.path
    THEN Replace(jar, c) ELSE Append(jar, c)

\* The same with expires in the past.
Expire(jar, name, path) ==
    Only(jar, {c \in ToSet(jar) : c.name # name \/ c.path # path})

\* parseCookieValue, where decodeURIComponent may throw and is caught.
Parsed(value) == IF value = BadValue THEN Undefined ELSE value

\* Mutant: the loop goes on after a match.
ReadLast(seen, key) ==
    IF \E i \in DOMAIN seen : seen[i].name = BadName THEN BadName
    ELSE IF \E i \in DOMAIN seen : seen[i].name = key
    THEN Parsed(seen[SelectLastInSeq(seen, LAMBDA c : c.name = key)].value)
    ELSE Undefined

\* $.cookie(key): the first cookie of that name, unless a name before it
\* throws (BadName).
Read(seen, key) ==
    LET stop == SelectInSeq(seen, LAMBDA c : c.name \in {key, BadName})
    IN IF stop = 0 THEN Undefined
       ELSE IF seen[stop].name = BadName THEN BadName
       ELSE Parsed(seen[stop].value)

\* $.cookie() when every name decodes: the readable cookies, the later of a
\* name over the earlier.
ReadAll(seen) ==
    LET good == Only(seen, {c \in ToSet(seen) : Parsed(c.value) # Undefined})
    IN [n \in {good[i].name : i \in DOMAIN good} |->
           good[SelectLastInSeq(good, LAMBDA c : c.name = n)].value]

CookiesInit ==
    page \in [depth : Depth, jar : {<<>>}, last : {<<>>}]

\* $.cookie(key, value, options) with a path or without one, for the session
\* or for days.
Write(key, value, path, lasting) ==
    /\ page # Off
    /\ path <= page.depth
    /\ LET jar == Put(page.jar, [name |-> key, path |-> path, value |-> value,
                                 lasting |-> lasting])
       IN /\ Len(jar) <= MaxCookies
          /\ page' = [page EXCEPT
                        !.jar  = jar,
                        !.last = IF path = page.depth THEN <<key, value>> ELSE <<>>]

\* $.removeCookie(key, options)
removeCookie(key, path) ==
    /\ page # Off
    /\ path <= page.depth
    /\ page' = [page EXCEPT !.jar = Expire(@, key, path), !.last = <<>>]

\* ClearCookie(): the cookie of the page's own path.
ClearCookie ==
    /\ page # Off
    /\ page' = [page EXCEPT !.jar = Expire(@, QueryParams, page.depth), !.last = <<>>]

\* An answer of the server sets a cookie (external).
ServerSets(name, value, path) ==
    /\ page # Off
    /\ LET jar == Put(page.jar, [name |-> name, path |-> path, value |-> value,
                                 lasting |-> TRUE])
       IN /\ Len(jar) <= MaxCookies
          /\ page' = [page EXCEPT !.jar  = jar,
                                  !.last = IF name = BadName THEN @ ELSE <<>>]

\* The user goes to a page at another depth (external).
Navigate(d) ==
    /\ page # Off /\ d # page.depth
    /\ page' = [page EXCEPT !.depth = d, !.last = <<>>]

\* The browser is closed and opened again: session cookies are gone
\* (external).
Reopen ==
    /\ page # Off
    /\ page' = [page EXCEPT !.jar = Only(@, {c \in ToSet(@) : c.lasting}),
                            !.last = <<>>]

CookiesNext ==
    \/ \E key \in CookieName, value \in CookieValue, path \in Depth, l \in BOOLEAN :
           Write(key, value, path, l)
    \/ \E key \in CookieName, path \in Depth : removeCookie(key, path)
    \/ ClearCookie
    \/ \E name \in CookieName \cup {BadName}, path \in Depth,
          value \in CookieValue \cup {BadValue} : ServerSets(name, value, path)
    \/ \E d \in Depth : Navigate(d)
    \/ Reopen

-----------------------------------------------------------------------------

Seen == Visible(page.jar, page.depth)

HasBadName == \E i \in DOMAIN Seen : Seen[i].name = BadName

(* A value written without a path is what the page reads back, whatever     *)
(* cookies of that name lie above it - unless a cookie whose name does not  *)
(* decode comes before it, which makes every such read throw.               *)
WriteIsRead ==
    (page # Off /\ page.last # <<>>) =>
        \/ Read(Seen, page.last[1]) = page.last[2]
        \/ HasBadName /\ Read(Seen, page.last[1]) = BadName

(* Reading one cookie and reading all of them agree, but for a name set on  *)
(* two paths: the one read takes the nearest and the other the farthest.    *)
AllAgreesWithOne ==
    (page # Off /\ ~HasBadName) =>
        LET all == ReadAll(Seen)
        IN \A key \in CookieName :
               \/ Read(Seen, key) = (IF key \in DOMAIN all THEN all[key] ELSE Undefined)
               \/ \E i, j \in DOMAIN Seen : i # j /\ Seen[i].name = key /\ Seen[j].name = key

(* What the page reads is what was written.                                 *)
CookiesAreRead == WriteIsRead /\ AllAgreesWithOne

=============================================================================
