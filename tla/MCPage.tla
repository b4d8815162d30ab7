------------------------------- MODULE MCPage -------------------------------
(* The instances of the page's scripts.                                      *)
EXTENDS Page, TLC

CONSTANTS b1, b2, b3, b4, b5, b6, m1, m2, m3, m4, n1, n2

\* A tree three levels deep beside a single box.
MCRow == {b1, b2, b3, b4, b5, b6}
MCAbove == b1 :> Top @@ b2 :> b1 @@ b3 :> b1 @@ b4 :> b3 @@ b5 :> b3 @@ b6 :> Top

\* Menus of unequal widths, and room for none of them up to more than all.
MCMenus == <<m1, m2, m3, m4>>
MCMenuWidth == m1 :> 2 @@ m2 :> 3 @@ m3 :> 1 @@ m4 :> 2
MCRooms == 0 .. 9

\* Two fields of one name with another between them.
MCFieldNames == <<n1, n2, n1>>

\* jQuery's converters, and a page's own for rows and for html, of which one
\* lets html stand for a page.
MCEquivalences == {<<"text", "html">>, <<"html", "page">>}
MCConverters ==
    {<<"*", "text">>, <<"text", "html">>, <<"text", "json">>, <<"text", "xml">>,
     <<"text", "script">>, <<"json", "rows">>, <<"html", "page">>,
     <<"html", "lines">>}
MCAsked ==
    {<<t>> : t \in {"*", "text", "html", "json", "xml", "script", "rows", "page", "lines"}}
    \cup {<<"*", t>> : t \in {"json", "rows"}}
    \cup {<<"text", t>> : t \in {"xml", "rows", "page", "lines"}}
    \cup {<<"json", t>> : t \in {"xml", "html"}}
    \cup {<<"json", "*">>, <<"text", "*", "rows">>, <<"*", "*", "page">>}
MCContentTypes == {None, "html", "json", "xml", "script"}
MCResponses == {<<"text">>, <<"xml", "text">>}

=============================================================================
