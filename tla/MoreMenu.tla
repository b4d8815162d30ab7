------------------------------ MODULE MoreMenu ------------------------------
(***************************************************************************)
(* AutoResizeMenu of layout.js: the navigation bar hides the menus that do  *)
(* not fit beside the logo and offers clones of them under a "more" button. *)
(* load and every resize run auto(), which captures the hidden menus and    *)
(* the clones once and pairs them by their index while it changes both.     *)
(* The width of the clones' container and the hover handlers of dropdown()  *)
(* are left out.                                                            *)
(***************************************************************************)
EXTENDS Naturals, Sequences, SequencesExt, PageScript

CONSTANTS Menus,      \* the menus of #navMenu, left to right
          MenuWidth,  \* their widths
          Rooms       \* the widths the header can leave for them

\* The menus are elements of the document, each in one place.
ASSUME MoreMenuAssumption ==
    /\ Menus \in Seq(ToSet(Menus))
    /\ \A i, j \in DOMAIN Menus : Menus[i] = Menus[j] => i = j
    /\ MenuWidth \in [ToSet(Menus) -> Nat \ {0}]
    /\ Rooms \subseteq Nat

VARIABLE bar

\* navMenu.width(): the visible menus side by side.
NavMenuWidth(B) ==
    LET upTo[i \in 0 .. Len(Menus)] ==
            IF i = 0 THEN 0
            ELSE upTo[i - 1] + (IF Menus[i] \in B.shown THEN MenuWidth[Menus[i]] ELSE 0)
    IN upTo[Len(Menus)]

isOverflow(B) == NavMenuWidth(B) > B.room

canShow(B, m) == NavMenuWidth(B) + MenuWidth[m] < B.room

\* $(menu).show() and the removal of the clone at the same index, if any.
ShowMenu(B, m, clones, i) ==
    [B EXCEPT !.shown = @ \cup {m},
              !.more  = Only(@, {c \in ToSet(@) : i \in DOMAIN clones => c # clones[i]})]

\* showMenus(): the captured hidden menus from the left, until one does not
\* fit; a bar that overflows already shows none.
showMenus(B) ==
    LET hidden == Only(Menus, ToSet(Menus) \ B.shown)
        turn(at, i) ==
            IF at.over \/ isOverflow(at.bar) THEN at
            ELSE IF canShow(at.bar, hidden[i])
                 THEN [at EXCEPT !.bar = ShowMenu(@, hidden[i], B.more, i)]
                 ELSE [at EXCEPT !.over = TRUE]
        after[i \in 0 .. Len(hidden)] ==
            IF i = 0 THEN [bar |-> B, over |-> FALSE] ELSE turn(after[i - 1], i)
    IN after[Len(hidden)].bar

\* Mutant: the clone is appended.
HideMenuLast(B, m) ==
    [B EXCEPT !.shown = @ \ {m}, !.more = Append(@, m)]

\* moreMenus.prepend(menu.clone()) and menu.hide().
HideMenu(B, m) ==
    [B EXCEPT !.shown = @ \ {m}, !.more = <<m>> \o @]

\* The captured visible menus from the right, while the bar overflows.
hideMenus(B) ==
    LET visible == Only(Menus, B.shown)
        turn(at, m) == IF isOverflow(at) THEN HideMenu(at, m) ELSE at
        after[i \in 0 .. Len(visible)] ==
            IF i = 0 THEN B ELSE turn(after[i - 1], visible[Len(visible) + 1 - i])
    IN after[Len(visible)]

toggleMoreMenu(B) == [B EXCEPT !.button = B.more # <<>>]

\* The bar as the page brings it, before load.
MenuInit ==
    bar \in [room : Rooms, shown : {ToSet(Menus)}, more : {<<>>},
             button : BOOLEAN, stale : {TRUE}]

\* The window changes its width; the event is on its way.
Resize(w) ==
    /\ bar # Off
    /\ bar' = [bar EXCEPT !.room = w, !.stale = TRUE]

\* window.onload and window.onresize.
auto ==
    /\ bar # Off
    /\ bar' = [toggleMoreMenu(hideMenus(showMenus(bar))) EXCEPT !.stale = FALSE]

MenuNext == auto \/ \E w \in Rooms : Resize(w)

-----------------------------------------------------------------------------

(* The clones under "more" are the hidden menus, each once and in the order *)
(* of the bar, after any history of resizes: pairing menus and clones by    *)
(* index never removes the wrong clone, and the button is there for them.   *)
MoreMirrorsHidden ==
    bar # Off =>
        /\ bar.more = Only(Menus, ToSet(Menus) \ bar.shown)
        /\ ~bar.stale => bar.button = (bar.more # <<>>)

(* Once the last resize is handled the bar fits its room, if anything is    *)
(* left on it, and the first hidden menu would not fit beside the others.   *)
FitsTheHeader ==
    (bar # Off /\ ~bar.stale) =>
        /\ bar.shown # {} => ~isOverflow(bar)
        /\ bar.more # <<>> =>
               NavMenuWidth(bar) + MenuWidth[Head(bar.more)] >= bar.room

(* The bar and the "more" menu agree with each other and with the room.     *)
MenusInPlace == MoreMirrorsHidden /\ FitsTheHeader
=============================================================================
