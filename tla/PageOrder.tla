----------------------------- MODULE PageOrder -----------------------------
(***************************************************************************)
(* The order of the pages of one album: createPage, deletePage and         *)
(* reorderPages with its two phases inside an interactive transaction,     *)
(* its three attempts and commits whose answer is lost.  SQLite has one    *)
(* writer at a time and checks UNIQUE (albumId, order) at every update.    *)
(***************************************************************************)
EXTENDS Integers, Sequences, FiniteSets, SequencesExt

CONSTANTS
    Page,         \* page identifiers, never given out twice
    Writer,       \* requests in flight at the same time
    Chosen,       \* orders a client may ask for when it creates a page
    MaxAttempts   \* attempts of the reorder transaction

ASSUME ChosenArePositive == Chosen \subseteq Nat \ {0}
ASSUME AttemptsArePositive == MaxAttempts \in Nat \ {0}

VARIABLES
    album,    \* the album's row exists
    born,     \* history: pages created so far
    order,    \* committed order of a page, 0 without a row
    edit,     \* each request: its next step and what it carries
    chosen,   \* history: pages created at an order a client has chosen
    listed,   \* history: pages in the lists committed so far
    latest    \* history: the list committed last

pagesVars == <<album, born, order, edit, chosen, listed, latest>>

\* place: the order asked for, 0 for the default; draft: the transaction's
\* own view of the orders; at: the updates it has done; tries: attempts used.
NoEdit == [op |-> "idle", place |-> 0, page |-> <<>>, list |-> <<>>,
           draft |-> [p \in Page |-> 0], at |-> 0, tries |-> 0]

Rows == {p \in Page : order[p] # 0}
Busy == \E w \in Writer : edit[w].op \in {"move", "commit"}

PagesInit ==
    /\ album = TRUE
    /\ born = {}
    /\ order = [p \in Page |-> 0]
    /\ edit = [w \in Writer |-> NoEdit]
    /\ chosen = {}
    /\ listed = {}
    /\ latest = <<>>

\* The request is answered: created, gone, done, or an error nobody tells apart.
Over(w) == edit' = [edit EXCEPT ![w] = NoEdit]

\* An answer that a property looks at; what the request carried is forgotten.
Answered(w, answer) ==
    edit' = [edit EXCEPT ![w] = [NoEdit EXCEPT !.op = answer, !.place = edit[w].place]]

-----------------------------------------------------------------------------
(* createPage.                                                             *)

\* The album is read and the receipts are looked at.
CreatePageCheck(w) ==
    /\ edit[w] = NoEdit /\ album
    /\ \E place \in Chosen \cup {0} :
          edit' = [edit EXCEPT ![w] = [NoEdit EXCEPT !.op = "create", !.place = place]]
    /\ UNCHANGED <<album, born, order, chosen, listed, latest>>

Highest == {p \in Rows : \A q \in Rows : order[q] <= order[p]}
MutDefaultOrder == {Cardinality(Rows) + 1}
DefaultOrder == IF Rows = {} THEN {1} ELSE {order[p] + 1 : p \in Highest}

\* The transaction: the order is the one asked for or the highest plus one.
CreatePageInsert(w) ==
    /\ edit[w].op = "create" /\ ~Busy
    /\ \/ ~album /\ Over(w) /\ UNCHANGED <<born, order, chosen>>
       \/ \E place \in IF edit[w].place = 0 THEN DefaultOrder ELSE {edit[w].place} :
             /\ album
             /\ \/ /\ \E p \in Rows : order[p] = place
                   /\ Answered(w, "conflict")
                   /\ UNCHANGED <<born, order, chosen>>
                \/ /\ \A p \in Rows : order[p] # place
                   /\ \E p \in Page \ born :
                         /\ born' = born \cup {p}
                         /\ order' = [order EXCEPT ![p] = place]
                         /\ chosen' = chosen \cup IF edit[w].place = 0 THEN {} ELSE {p}
                   /\ Over(w)
    /\ UNCHANGED <<album, listed, latest>>

-----------------------------------------------------------------------------
(* deletePage, and the cascade of an album delete.                         *)

DeletePageRead(w) ==
    /\ edit[w] = NoEdit
    /\ \E p \in Rows :
          edit' = [edit EXCEPT ![w] = [NoEdit EXCEPT !.op = "delete", !.page = <<p>>]]
    /\ UNCHANGED <<album, born, order, chosen, listed, latest>>

\* A row that is gone makes the delete throw: an error instead of a 204.
DeletePageTx(w) ==
    LET p == Head(edit[w].page)
    IN  /\ edit[w].op = "delete" /\ ~Busy
        /\ order' = [order EXCEPT ![p] = 0]
        /\ Over(w)
        /\ UNCHANGED <<album, born, chosen, listed, latest>>

DeleteAlbumTx ==
    /\ album /\ ~Busy
    /\ album' = FALSE
    /\ order' = [p \in Page |-> 0]
    /\ UNCHANGED <<born, edit, chosen, listed, latest>>

-----------------------------------------------------------------------------
(* reorderPages.                                                           *)

\* The list of the request, checked against the pages read: as many, no
\* repetition, no stranger.
MutAccepted(list) ==
    /\ Len(list) = Cardinality(Rows)
    /\ ToSet(list) \subseteq Rows
Accepted(list) ==
    /\ Len(list) = Cardinality(Rows)
    /\ Cardinality(ToSet(list)) = Len(list)
    /\ ToSet(list) \subseteq Rows

ReorderRead(w) ==
    /\ edit[w] = NoEdit /\ album
    /\ \E list \in SeqOf(born, Cardinality(born)) :
          /\ Accepted(list)
          /\ edit' = [edit EXCEPT ![w] = [NoEdit EXCEPT !.op = "begin", !.list = list]]
    /\ UNCHANGED <<album, born, order, chosen, listed, latest>>

ReorderBegin(w) ==
    /\ edit[w].op = "begin" /\ ~Busy
    /\ edit' = [edit EXCEPT ![w].op = "move", ![w].draft = order, ![w].at = 0]
    /\ UNCHANGED <<album, born, order, chosen, listed, latest>>

\* Update number i of the two loops: its page and its new order.
MutTargetBack(list, i) == IF i <= Len(list) THEN -i ELSE 2 * Len(list) + 1 - i
Target(list, i) == IF i <= Len(list) THEN -i ELSE i - Len(list)
Mover(list, i) == list[IF i <= Len(list) THEN i ELSE i - Len(list)]

\* An update of a row that is gone or into an order that is taken ends the
\* transaction: P2025 and P2002 are not timeouts, so they are not retried.
ReorderMove(w) ==
    LET e == edit[w]
        i == e.at + 1
        p == Mover(e.list, i)
        n == Target(e.list, i)
        taken == \E q \in Page \ {p} : e.draft[q] = n
    IN  /\ e.op = "move" /\ i <= 2 * Len(e.list)
        /\ \/ e.draft[p] = 0 /\ Over(w)
           \/ e.draft[p] # 0 /\ taken /\ Answered(w, "collided")
           \/ /\ e.draft[p] # 0 /\ ~taken
              /\ edit' = [edit EXCEPT ![w].draft[p] = n, ![w].at = i]
        /\ UNCHANGED <<album, born, order, chosen, listed, latest>>

\* The attempt is over, with a timeout for its answer.
Late(w) == edit' = [edit EXCEPT ![w].op = "late", ![w].draft = NoEdit.draft, ![w].at = 0]

MutReorderDone(w) == edit[w].op = "move" /\ edit[w].at >= Len(edit[w].list)
ReorderDone(w) == edit[w].op = "move" /\ edit[w].at = 2 * Len(edit[w].list)

\* The commit may succeed although its answer is a timeout.
ReorderCommit(w) ==
    /\ ReorderDone(w)
    /\ order' = edit[w].draft
    /\ listed' = listed \cup ToSet(edit[w].list)
    /\ latest' = edit[w].list
    /\ Over(w) \/ Late(w)
    /\ UNCHANGED <<album, born, chosen>>

\* The transaction waits too long for the writer or runs too long.
ReorderTimeout(w) ==
    /\ edit[w].op \in {"begin", "move"}
    /\ Late(w)
    /\ UNCHANGED <<album, born, order, chosen, listed, latest>>

ReorderRetry(w) ==
    /\ edit[w].op = "late"
    /\ \/ /\ edit[w].tries + 1 < MaxAttempts
          /\ edit' = [edit EXCEPT ![w].op = "begin", ![w].tries = @ + 1]
       \/ edit[w].tries + 1 = MaxAttempts /\ Over(w)
    /\ UNCHANGED <<album, born, order, chosen, listed, latest>>

-----------------------------------------------------------------------------
\* The answer goes out, or a query fails before it.
Close(w) ==
    /\ edit[w].op \notin {"idle", "move"}
    /\ Over(w)
    /\ UNCHANGED <<album, born, order, chosen, listed, latest>>

\* The process dies: an open transaction rolls back.
PagesRestart ==
    /\ edit' = [w \in Writer |-> NoEdit]
    /\ UNCHANGED <<album, born, order, chosen, listed, latest>>

Step(w) ==
    \/ CreatePageInsert(w) \/ DeletePageTx(w)
    \/ ReorderBegin(w) \/ ReorderMove(w) \/ ReorderCommit(w)
    \/ ReorderTimeout(w) \/ ReorderRetry(w)

PagesNext ==
    \/ \E w \in Writer :
          \/ CreatePageCheck(w) \/ DeletePageRead(w) \/ ReorderRead(w)
          \/ Step(w) \/ Close(w)
    \/ DeleteAlbumTx
    \/ PagesRestart

PagesSpec == PagesInit /\ [][PagesNext]_pagesVars

-----------------------------------------------------------------------------
(* Properties.                                                             *)

\* Whatever a reorder has in hand when it times out, collides or dies, readers
\* see each page at a position of its own, never at one of the negative
\* positions of the first phase.
PositionsHold ==
    \A p \in Rows : order[p] > 0 /\ \A q \in Rows : order[q] = order[p] => p = q

\* A page created without an order is never refused because its order is
\* taken, whatever was deleted, reordered or created since it was checked.
DefaultIsFree ==
    \A w \in Writer : edit[w].op = "conflict" => edit[w].place # 0

\* A reorder that passed its checks runs into the unique order only if a page
\* that did not exist yet when they were made is there, at an order a client has
\* chosen or another list has given it.
ReorderFits ==
    [][\A w \in Writer : edit[w].op = "move" /\ edit'[w].op = "collided" =>
          (Rows \ ToSet(edit[w].list)) \cap (chosen \cup listed) # {}]_pagesVars

\* The list committed last decides: its pages stay in its order, and the others
\* come after them unless they are where a client wanted them.
LatestListRules ==
    /\ \A i, j \in DOMAIN latest :
          i < j /\ {latest[i], latest[j]} \subseteq Rows => order[latest[i]] < order[latest[j]]
    /\ \A p \in Rows \ ToSet(latest), q \in Rows \cap ToSet(latest) :
          p \in chosen \/ order[q] < order[p]
=============================================================================
