------------------------------ MODULE FlipBook ------------------------------
(***************************************************************************)
(* An album that is read: the client's AlbumViewer and the back office's   *)
(* AlbumPreview, kept apart in the code but for small differences.  Sheet  *)
(* 0 is the cover, the last one the back cover; of the others only those   *)
(* near the current sheet are rendered.                                    *)
(*                                                                         *)
(* The page-flip library turns the sheets: two at a time, after a single   *)
(* cover, in a wide window, and one at a time in a narrow one.  It says    *)
(* where it is when a turn is over, not when it begins.                    *)
(***************************************************************************)
EXTENDS Integers

CONSTANTS MaxPages    \* bound on the pages of an album

ASSUME PagesAreBounded == MaxPages \in Nat

VARIABLES
    opened,   \* the viewer, the preview or none; the sheets the library has,
              \* none if it failed; whether there is a list instead
    leaves,   \* pages of the album by now, and whether they changed (history)
    wide,     \* the window shows two sheets
    current,  \* currentPage
    turn,     \* the sheet that is being turned to, NoTurn if none
    tint      \* the colours of useThemeColor, and those the element has

bookVars == <<opened, leaves, wide, current, turn, tint>>

NoTurn == -1
Shut == [by |-> "none", sheets |-> 0, list |-> FALSE]
Plain == [kept |-> "default", applied |-> "default"]

BookInit ==
    /\ opened = Shut
    /\ leaves = [count |-> 0, changed |-> FALSE]
    /\ wide \in BOOLEAN
    /\ current = 0 /\ turn = NoTurn
    /\ tint = Plain

-----------------------------------------------------------------------------
(* The library: the first sheet of a spread stands for it.                 *)

Sheets == 0..(opened.sheets - 1)
FirstIn(double, s) == IF double /\ s > 0 THEN s - (1 - (s % 2)) ELSE s
Spread(s) == {t \in Sheets : FirstIn(wide, t) = FirstIn(wide, s)}
SpreadAfter(s) == {t \in Sheets \ {0} : FirstIn(wide, t) = t /\ FirstIn(wide, t - 1) = FirstIn(wide, s)}
SpreadBefore(s) == {FirstIn(wide, t) : t \in {u \in Sheets : u + 1 = FirstIn(wide, s)}}

-----------------------------------------------------------------------------
(* Opening and closing.                                                    *)

\* The element gets the colours there are; nobody gives it those that come.
ApplyToElement(colours) == tint' = [colours EXCEPT !.applied = colours.kept]

Opens(by, count, sheets, list) ==
    /\ opened = Shut
    /\ opened' = [by |-> by, sheets |-> sheets, list |-> list]
    /\ leaves' = [count |-> count, changed |-> FALSE]
    /\ ApplyToElement(Plain)
    /\ UNCHANGED <<wide, current, turn>>

\* A library that fails makes way for a list of all the pages.
OpenViewer ==
    \E count \in 0..MaxPages :
        Opens("viewer", count, count + 2, FALSE) \/ Opens("viewer", count, 0, TRUE)

\* Nobody catches it here: the sheets stay as they are.
OpenPreview ==
    \E count \in 0..MaxPages :
        Opens("preview", count, count + 2, FALSE) \/ Opens("preview", count, 0, FALSE)

\* The image of the cover has come; canvas and pixels may refuse it.
ExtractFromImage ==
    /\ opened # Shut
    /\ tint' = [tint EXCEPT !.kept = "cover"]
    /\ UNCHANGED <<opened, leaves, wide, current, turn>>

\* Escape, the button, or a click beside the book: in the middle of a turn too.
Closes ==
    /\ opened' = Shut
    /\ leaves' = [count |-> 0, changed |-> FALSE]
    /\ current' = 0 /\ turn' = NoTurn
    /\ tint' = Plain
    /\ UNCHANGED wide

CloseViewer == opened.by = "viewer" /\ Closes
ClosePreview == opened.by = "preview" /\ Closes

\* A fetch that was in flight brings another list of pages; the library goes on
\* with the sheets it was given.
PagesChange ==
    /\ opened # Shut
    /\ \E count \in 0..MaxPages : leaves' = [count |-> count, changed |-> TRUE]
    /\ UNCHANGED <<opened, wide, current, turn, tint>>

-----------------------------------------------------------------------------
(* Turning.                                                                *)

\* A turn under way is brought to its end before the next begins.
Here == IF turn = NoTurn THEN current ELSE turn

TurnTo(spreads) ==
    /\ turn' \in spreads
    /\ current' = Here
    /\ UNCHANGED <<opened, leaves, wide, tint>>

PrevDisabled == current = 0
NextDisabled == current >= leaves.count + 1

PressPrev == ~PrevDisabled /\ TurnTo(SpreadBefore(Here))
PressNext == ~NextDisabled /\ TurnTo(SpreadAfter(Here))
PressKey == TurnTo(SpreadBefore(Here) \cup SpreadAfter(Here))

\* A corner is pulled by hand; it may be let go where it was.
PullCorner == turn = NoTurn /\ TurnTo(SpreadBefore(current) \cup SpreadAfter(current))
CornerFallsBack ==
    /\ turn # NoTurn /\ turn' = NoTurn
    /\ UNCHANGED <<opened, leaves, wide, current, tint>>

\* The library tells its listener which spread it has turned to.
Flipped ==
    /\ turn # NoTurn
    /\ current' = turn /\ turn' = NoTurn
    /\ UNCHANGED <<opened, leaves, wide, tint>>

\* The window changes its width: the sheet that was first is still shown.
WindowChanges ==
    /\ wide' = ~wide
    /\ turn' = NoTurn
    /\ current' = FirstIn(wide', current)
    /\ UNCHANGED <<opened, leaves, tint>>

BookNext ==
    \/ OpenViewer \/ OpenPreview \/ CloseViewer \/ ClosePreview
    \/ ExtractFromImage \/ PagesChange
    \/ PressPrev \/ PressNext \/ PressKey
    \/ PullCorner \/ CornerFallsBack \/ Flipped \/ WindowChanges

BookSpec == BookInit /\ [][BookNext]_bookVars

-----------------------------------------------------------------------------
(* What is rendered.                                                       *)

MutIsPageVisible(s) == s \in (current - 2)..(current + 2)
IsPageVisible(s) == s \in (current - 3)..(current + 3)

\* The covers always are.
Rendered(s) == s \in {0, leaves.count + 1} \/ IsPageVisible(s)

InSight == Spread(current) \cup IF turn = NoTurn THEN {} ELSE Spread(turn)

-----------------------------------------------------------------------------
(* Properties.                                                             *)

\* As long as the album keeps its pages: every sheet in sight is rendered, the
\* one that is just turning up included, and a button is disabled only where
\* there is nothing left to turn to.
SheetsAreRendered ==
    (opened.sheets > 0 /\ ~leaves.changed) =>
        /\ \A s \in InSight : Rendered(s)
        /\ PrevDisabled => SpreadBefore(current) = {}
        /\ NextDisabled => SpreadAfter(current) = {}
=============================================================================
