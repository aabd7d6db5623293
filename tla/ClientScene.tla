---------------------------- MODULE ClientScene -----------------------------
(***************************************************************************)
(* The room of the client: the map and the bookshelf the camera moves to,  *)
(* the overlays over it, the lists they show, the pages of an album that   *)
(* are fetched before its book opens, and the book itself.                 *)
(*                                                                         *)
(* Nothing cancels a fetch or an animation, and no operation waits for the *)
(* ones before it.                                                         *)
(***************************************************************************)
EXTENDS Naturals, Sequences, Functions

CONSTANTS
    Album,
    NoAlbum,
    PagesOf,        \* number of pages of each album
    MaxFetches,     \* bound on page fetches in flight for one album
    MaxMoves        \* bound on camera animations running at once

ASSUME AlbumsHavePages == NoAlbum \notin Album /\ PagesOf \in [Album -> Nat]

VARIABLES
    ready,     \* the room: starting, ready, or failed for want of WebGL
    overlay,   \* ScenePage: map and shelf visible, panel open, viewer asked
               \* for, and the current album
    lists,     \* the albums and the provinces: asked, loaded or failed
    fetches,   \* page fetches in flight, by album
    pages,     \* the album whose pages are in the store
    camera,    \* CameraController's zone, what the world shows, the
               \* animations running, and whether the window was resized since
               \* the last of them ended
    book,      \* the open book: album it was made of, page, fallback, hint
    trail      \* history: the albums whose pages may come into the book (book),
               \* whether pages have come last for a closed album (stray),
               \* whether pages were under way when the map was opened (map)
               \* and when the camera was last sent back to the room (out), the
               \* zone it was last sent to (last) and those it was still on its
               \* way to when it was last sent back (behind)

sceneVars == <<ready, overlay, lists, fetches, pages, camera, book, trail>>

NoBook == [of |-> NoAlbum, at |-> 0, fallback |-> FALSE, hint |-> FALSE]

\* Both overlays are mounted, hidden, with the page and ask for their lists,
\* once: what they do not get then is not asked for again.
SceneInit ==
    /\ ready = "starting"
    /\ overlay = [map |-> FALSE, shelf |-> FALSE, panel |-> FALSE, viewer |-> FALSE,
                  album |-> NoAlbum]
    /\ lists = [albums |-> "asked", provinces |-> "asked"]
    /\ fetches = [a \in Album |-> 0]
    /\ pages = NoAlbum
    /\ camera = [zone |-> "room", world |-> "room", moves |-> <<>>, resized |-> FALSE]
    /\ book = NoBook
    /\ trail = [book |-> {}, stray |-> FALSE, map |-> FALSE, out |-> FALSE,
                last |-> "room", behind |-> {}]

\* Without WebGL there is a line of text instead of the room.
Ready ==
    /\ ready = "starting"
    /\ ready' \in {"ready", "failed"}
    /\ UNCHANGED <<overlay, lists, fetches, pages, camera, book, trail>>

AlbumsAnswered ==
    /\ lists.albums = "asked"
    /\ \E answer \in {"loaded", "failed"} : lists' = [lists EXCEPT !.albums = answer]
    /\ UNCHANGED <<ready, overlay, fetches, pages, camera, book, trail>>

ProvincesAnswered ==
    /\ lists.provinces = "asked"
    /\ \E answer \in {"loaded", "failed"} : lists' = [lists EXCEPT !.provinces = answer]
    /\ UNCHANGED <<ready, overlay, fetches, pages, camera, book, trail>>

-----------------------------------------------------------------------------
(* What covers what.  The viewer covers the window, the panel the room and *)
(* the overlays, the bookshelf the map, and both the entries to them.      *)

Viewing(o) == o.viewer /\ o.album # NoAlbum

EntriesShown == ready = "ready" /\ ~overlay.map /\ ~overlay.shelf
CloseShown == (overlay.map \/ overlay.shelf) /\ ~overlay.panel /\ ~overlay.viewer

Fetching == \E a \in Album : fetches[a] > 0

Moves(zone) ==
    /\ Len(camera.moves) < MaxMoves
    /\ camera' = [camera EXCEPT !.moves = Append(@, zone)]

ZoomInWall ==
    /\ EntriesShown /\ ~Viewing(overlay)
    /\ Moves("wall")
    /\ overlay' = [overlay EXCEPT !.map = TRUE]
    /\ trail' = [trail EXCEPT !.last = "wall", !.behind = {}, !.map = Fetching]
    /\ UNCHANGED <<ready, lists, fetches, pages, book>>

ZoomInShelf ==
    /\ EntriesShown /\ ~Viewing(overlay)
    /\ Moves("shelf")
    /\ overlay' = [overlay EXCEPT !.shelf = TRUE]
    /\ trail' = [trail EXCEPT !.last = "shelf", !.behind = {}]
    /\ UNCHANGED <<ready, lists, fetches, pages, book>>

ZoomOut ==
    /\ CloseShown
    /\ Moves("room")
    /\ overlay' = [overlay EXCEPT !.map = FALSE, !.shelf = FALSE, !.panel = FALSE]
    /\ trail' = [trail EXCEPT !.last = "room", !.out = Fetching,
                              !.behind = Range(camera.moves) \ {"room"}]
    /\ UNCHANGED <<ready, lists, fetches, pages, book>>

\* Only a province marked as visited, once the list is there, can be clicked.
Marked == lists.provinces = "loaded"

MapInReach == overlay.map /\ ~overlay.shelf /\ ~overlay.panel /\ ~Viewing(overlay)

ProvinceClick ==
    /\ MapInReach /\ Marked
    /\ overlay' = [overlay EXCEPT !.panel = TRUE]
    /\ UNCHANGED <<ready, lists, fetches, pages, camera, book, trail>>

PanelClose ==
    /\ overlay.panel /\ ~Viewing(overlay)
    /\ overlay' = [overlay EXCEPT !.panel = FALSE]
    /\ UNCHANGED <<ready, lists, fetches, pages, camera, book, trail>>
-----------------------------------------------------------------------------
(* Albums.                                                                 *)

\* A mounted viewer loads the pages it was given into a new page flip, or falls
\* back to a list; one that is mounted already keeps the flip it has.
Opened(of, next) ==
    CASE Viewing(next) /\ book = NoBook ->
            {[of |-> of, at |-> 0, fallback |-> f, hint |-> TRUE] : f \in BOOLEAN}
      [] ~Viewing(next) -> {NoBook}
      [] OTHER -> {book}

\* Without a list, the shelf says that there are no albums yet.
SpinesShown == overlay.shelf /\ lists.albums = "loaded"

\* A viewer that is still asked for, with no album since one was closed, is
\* mounted as soon as there is a current album, with the pages left over.
OpenAlbum(a) ==
    LET next == [overlay EXCEPT !.album = a]
    IN  /\ SpinesShown /\ ~overlay.panel /\ ~Viewing(overlay)
        /\ fetches[a] < MaxFetches
        /\ overlay' = next
        /\ fetches' = [fetches EXCEPT ![a] = @ + 1]
        /\ book' \in Opened(pages, next)
        /\ trail' = [trail EXCEPT !.book = {a} \cup {b \in Album : fetches[b] > 0}
                                              \cup (IF trail.stray THEN {pages} ELSE {})]
        /\ UNCHANGED <<ready, lists, pages, camera>>

\* handleOpenAlbum goes on: whichever album is current by now is shown, with
\* the pages that have just come.
MutPagesAnswered(a) ==
    LET next == [overlay EXCEPT !.viewer = TRUE]
    IN  /\ fetches[a] > 0
        /\ fetches' = [fetches EXCEPT ![a] = @ - 1]
        /\ pages' = a
        /\ overlay' = next
        /\ book' \in Opened(a, next)
        /\ trail' = [trail EXCEPT !.stray = ~Viewing(next)]
        /\ UNCHANGED <<ready, lists, camera>>
PagesAnswered(a) ==
    LET next == [overlay EXCEPT !.viewer = TRUE, !.shelf = FALSE]
    IN  /\ fetches[a] > 0
        /\ fetches' = [fetches EXCEPT ![a] = @ - 1]
        /\ pages' = a
        /\ overlay' = next
        /\ book' \in Opened(a, next)
        /\ trail' = [trail EXCEPT !.stray = ~Viewing(next)]
        /\ UNCHANGED <<ready, lists, camera>>

\* The rejection of handleOpenAlbum is nobody's: nothing opens.
PagesFail(a) ==
    /\ fetches[a] > 0
    /\ fetches' = [fetches EXCEPT ![a] = @ - 1]
    /\ UNCHANGED <<ready, overlay, lists, pages, camera, book, trail>>

\* By the button, the Escape key or a click beside the book.
MutCloseAlbum ==
    /\ Viewing(overlay)
    /\ overlay' = [overlay EXCEPT !.viewer = FALSE, !.album = NoAlbum]
    /\ book' = NoBook
    /\ trail' = [trail EXCEPT !.stray = FALSE]
    /\ UNCHANGED <<ready, lists, fetches, pages, camera>>
CloseAlbum ==
    /\ Viewing(overlay)
    /\ overlay' = [overlay EXCEPT !.viewer = FALSE, !.shelf = TRUE, !.album = NoAlbum]
    /\ book' = NoBook
    /\ trail' = [trail EXCEPT !.stray = FALSE]
    /\ UNCHANGED <<ready, lists, fetches, pages, camera>>

\* The page-flip library turns one page or two and says where it is: the cover
\* is 0, the back cover comes after the pages it was loaded with.
Flip ==
    /\ Viewing(overlay) /\ ~book.fallback
    /\ \E to \in 0..(PagesOf[book.of] + 1) :
          /\ to # book.at /\ to <= book.at + 2 /\ book.at <= to + 2
          /\ book' = [book EXCEPT !.at = to]
    /\ UNCHANGED <<ready, overlay, lists, fetches, pages, camera, trail>>

HintEnds ==
    /\ Viewing(overlay) /\ book.hint
    /\ book' = [book EXCEPT !.hint = FALSE]
    /\ UNCHANGED <<ready, overlay, lists, fetches, pages, camera, trail>>

-----------------------------------------------------------------------------
(* The camera.                                                             *)

\* Zooming out takes less time than zooming in: it may end before a zooming
\* in that began earlier, and then the one that ends later has the last word.
EndsNext(i) == \A j \in 1..(i - 1) : camera.moves[i] = "room" /\ camera.moves[j] # "room"

Without(s, i) == SubSeq(s, 1, i - 1) \o SubSeq(s, i + 1, Len(s))

MoveEnds ==
    /\ \E i \in DOMAIN camera.moves :
          /\ EndsNext(i)
          /\ camera' = [zone |-> camera.moves[i], world |-> camera.moves[i],
                         moves |-> Without(camera.moves, i), resized |-> FALSE]
    /\ UNCHANGED <<ready, overlay, lists, fetches, pages, book, trail>>

\* SceneManager fits the room to the new window, wherever the camera is; an
\* animation goes on to where it was going.
Resize ==
    /\ ready = "ready"
    /\ camera' = [camera EXCEPT !.resized = TRUE,
                                !.world = IF camera.moves = <<>> THEN "room" ELSE @]
    /\ UNCHANGED <<ready, overlay, lists, fetches, pages, book, trail>>

SceneNext ==
    \/ Ready \/ AlbumsAnswered \/ ProvincesAnswered
    \/ ZoomInWall \/ ZoomInShelf \/ ZoomOut \/ ProvinceClick \/ PanelClose
    \/ \E a \in Album : OpenAlbum(a) \/ PagesAnswered(a) \/ PagesFail(a)
    \/ CloseAlbum \/ Flip \/ HintEnds
    \/ MoveEnds \/ Resize

SceneSpec == SceneInit /\ [][SceneNext]_sceneVars

-----------------------------------------------------------------------------
(* Properties.                                                             *)

\* Whatever the user does while pages are fetched: the open book, and the pages
\* its number is counted in, are of the album it was opened for or of one whose
\* pages were still under way then, or had come after it was closed; the viewer
\* and the shelf it leaves come over the map only if pages were under way when the
\* map was opened; a viewer that is asked for is shown, and the shelf is not under
\* it, unless the last pages came for a closed album; the panel is over the map.
OpenedAsAsked ==
    /\ Viewing(overlay) => {book.of, pages} \subseteq trail.book
    /\ overlay.map /\ (Viewing(overlay) \/ overlay.shelf) => trail.map
    /\ overlay.viewer /\ (overlay.album = NoAlbum \/ overlay.shelf) => trail.stray
    /\ overlay.panel => overlay.map

\* Whichever animations overlap: the overlay that is open is the one the camera
\* was last sent to, but for an album whose pages were under way when it was sent
\* back, and nothing is open when it was sent back, but for pages that came for a
\* closed album; and it comes to rest there, or at a zone it was still on its way
\* to when it was sent back, and shows it until the window is resized.
CameraFollows ==
    /\ overlay.map => trail.last = "wall"
    /\ overlay.shelf \/ Viewing(overlay) => trail.last = "shelf" \/ trail.out
    /\ overlay.map \/ overlay.shelf \/ Viewing(overlay) \/ trail.last = "room" \/ trail.stray
    /\ camera.moves = <<>> =>
          /\ camera.zone \in {trail.last} \cup trail.behind
          /\ camera.world = IF camera.resized THEN "room" ELSE camera.zone
=============================================================================
