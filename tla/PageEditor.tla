----------------------------- MODULE PageEditor -----------------------------
(***************************************************************************)
(* The editor of an album's pages: the list that is dragged, the page that *)
(* is selected, and the calls each operation makes.                        *)
(*                                                                         *)
(* An upload writes its receipt to the page selected when it ends and then *)
(* saves that page; the answer to a save is written to the page selected   *)
(* when it comes.  Reading the list makes new objects: the selected page   *)
(* goes on being the old one until another is selected.                    *)
(*                                                                         *)
(* A page is looked at through one of its image slots: what is there is    *)
(* named after the page whose upload or save it came from, and after the   *)
(* page itself if there is nothing.  Templates are not kept: whether two   *)
(* pages have the same one, and whether one has the slot, is left open.    *)
(***************************************************************************)
EXTENDS Naturals, Sequences, FiniteSets, SequencesExt

CONSTANTS
    Leaf,        \* page identifiers, never given out twice
    NoLeaf,
    Job          \* as many operations as may be under way at once

ASSUME NoLeafIsNoLeaf == NoLeaf \notin Leaf

VARIABLES
    stored,     \* server: order of the pages, and the image of each
    leaves,     \* history: pages created so far
    list,       \* editor: the pages in the order shown
    local,      \* the object of each page in the list
    selected,   \* selected page; its object when it is no longer in the list
    jobs,       \* operations under way
    past        \* history: the pages whose upload or save was under way when
                \* a page was selected; operations overlapped or failed

editorVars == <<stored, leaves, list, local, selected, jobs, past>>

Own == [l \in Leaf |-> l]
Fresh(image) == [image |-> image, receipt |-> NoLeaf]
NoJob == [kind |-> "none", step |-> "none", page |-> NoLeaf, receipt |-> NoLeaf,
          list |-> <<>>, answer |-> Own]
NewJob(kind, page) == [NoJob EXCEPT !.kind = kind, !.step = "sent", !.page = page]
SaveOf(l, o) == [NewJob("save", l) EXCEPT !.receipt = o.receipt]
Nothing == [page |-> NoLeaf, attached |-> FALSE, object |-> Fresh(NoLeaf)]
Attached(l) == [page |-> l, attached |-> TRUE, object |-> Fresh(NoLeaf)]

EditorInit ==
    /\ leaves \in SUBSET Leaf /\ IsFiniteSet(leaves)
    /\ \E order \in SetToSeqs(leaves) :
          stored = [order |-> order, image |-> Own]
    /\ list = <<>>
    /\ local = [l \in Leaf |-> Fresh(l)]
    /\ selected = Nothing
    /\ \E j \in Job : jobs = [i \in Job |-> IF i = j THEN NewJob("fetch", NoLeaf) ELSE NoJob]
    /\ past = [met |-> {}, alone |-> TRUE]

Quiet == \A j \in Job : jobs[j] = NoJob

Start(job) == \E j \in Job : jobs[j] = NoJob /\ jobs' = [jobs EXCEPT ![j] = job]
Done(j) == [jobs EXCEPT ![j] = NoJob]
Continues(j, job) == jobs' = [jobs EXCEPT ![j] = job]

Writing(m) == \E j \in Job : jobs[j].kind \in {"upload", "save"} /\ jobs[j].page = m

\* The page that is selected now meets the uploads and saves of others.
Meets(l) == past.met \cup {<<m, l>> : m \in {n \in Leaf \ {l} : Writing(n)}}
Began == past' = [past EXCEPT !.alone = @ /\ Quiet]
Failed == past' = [past EXCEPT !.alone = FALSE]

-----------------------------------------------------------------------------
(* The selected page.                                                      *)

Object == IF selected.attached THEN local[selected.page] ELSE selected.object

\* The object of the selected page becomes o.
Write(o) ==
    IF selected.attached
    THEN local' = [local EXCEPT ![selected.page] = o] /\ UNCHANGED selected
    ELSE selected' = [selected EXCEPT !.object = o] /\ UNCHANGED local

\* The watcher of the selected page's template also runs when another page is
\* selected: if it has images and another template than the last, it is saved.
Select(l, objects, rest) ==
    /\ selected' = Attached(l)
    /\ \/ jobs' = rest
       \/ /\ selected.page \notin {l, NoLeaf}
          /\ \E j \in Job : /\ rest[j] = NoJob
                            /\ jobs' = [rest EXCEPT ![j] = SaveOf(l, objects[l])]

SelectPage ==
    /\ \E l \in ToSet(list) :
          /\ Select(l, local, jobs)
          /\ past' = [met |-> Meets(l), alone |-> past.alone /\ Quiet]
    /\ UNCHANGED <<stored, leaves, list, local>>

\* The images are cut to the slots of the new template, and the page is saved if
\* any is left.
ChangeTemplate ==
    /\ selected.page # NoLeaf
    /\ \E o \in {Object, Fresh(selected.page)} :
          /\ Write(o)
          /\ UNCHANGED jobs \/ Start(SaveOf(selected.page, o))
    /\ Began
    /\ UNCHANGED <<stored, leaves, list>>

SavePage ==
    /\ selected.page # NoLeaf
    /\ Start(SaveOf(selected.page, Object))
    /\ Began
    /\ UNCHANGED <<stored, leaves, list, local, selected>>

UploadImage ==
    /\ selected.page # NoLeaf
    /\ Start(NewJob("upload", selected.page))
    /\ Began
    /\ UNCHANGED <<stored, leaves, list, local, selected>>

\* Compressed, presigned, put and confirmed: the receipt goes to the page that
\* is selected now, and that page is saved.
MutUploadEnds(j) ==
    LET o == [Object EXCEPT !.receipt = jobs[j].page]
        l == CHOOSE m \in ToSet(list) : TRUE
    IN  /\ jobs[j].kind = "upload" /\ list # <<>> /\ selected.page # NoLeaf
        /\ Write(o)
        /\ Continues(j, SaveOf(l, o))
        /\ UNCHANGED <<stored, leaves, list, past>>
UploadEnds(j) ==
    LET o == [Object EXCEPT !.receipt = jobs[j].page]
    IN  /\ jobs[j].kind = "upload" /\ selected.page # NoLeaf
        /\ Write(o)
        /\ Continues(j, SaveOf(selected.page, o))
        /\ UNCHANGED <<stored, leaves, list, past>>

\* The service keeps an image whose slot has no receipt, unless the template has
\* no such slot.
UpdatePage(j) ==
    LET l == jobs[j].page
        new == IF jobs[j].receipt = NoLeaf THEN stored.image[l] ELSE jobs[j].receipt
    IN  /\ jobs[j].kind = "save" /\ jobs[j].step = "sent"
        /\ l \in ToSet(stored.order)
        /\ \E image \in {new, l} :
              /\ stored' = [stored EXCEPT !.image[l] = image]
              /\ Continues(j, [jobs[j] EXCEPT !.step = "answered", !.receipt = NoLeaf,
                                              !.answer[l] = image])
        /\ UNCHANGED <<leaves, list, local, selected, past>>

\* The images of the answer go to the page that is selected now, and its
\* receipts are dropped.
SaveAnswered(j) ==
    /\ jobs[j].kind = "save" /\ jobs[j].step = "answered"
    /\ IF selected.page = NoLeaf THEN UNCHANGED <<local, selected>>
       ELSE Write(Fresh(IF selected.page = jobs[j].page THEN jobs[j].answer[jobs[j].page]
                                                        ELSE jobs[j].page))
    /\ jobs' = Done(j)
    /\ UNCHANGED <<stored, leaves, list, past>>

\* Refused, lost, or no page is selected any more.
WriteFails(j) ==
    /\ jobs[j].kind \in {"upload", "save"}
    /\ jobs' = Done(j)
    /\ UNCHANGED <<stored, leaves, list, local, selected, past>>

-----------------------------------------------------------------------------
(* The list.                                                               *)

FindPages(j) ==
    /\ jobs[j].kind \in {"fetch", "fetchLast"} /\ jobs[j].step = "sent"
    /\ jobs' = [jobs EXCEPT ![j].step = "answered", ![j].list = stored.order,
                            ![j].answer = stored.image]
    /\ UNCHANGED <<stored, leaves, list, local, selected, past>>

\* A list of new objects.
Objects(image) == [l \in Leaf |-> Fresh(image[l])]

\* A page that was selected stays, with its old object.
PagesArrive(j) ==
    LET first == selected.page = NoLeaf /\ jobs[j].list # <<>>
    IN  /\ jobs[j].kind = "fetch" /\ jobs[j].step = "answered"
        /\ list' = jobs[j].list
        /\ local' = Objects(jobs[j].answer)
        /\ selected' = IF first THEN Attached(Head(jobs[j].list))
                       ELSE [selected EXCEPT !.attached = FALSE, !.object = Object]
        /\ past' = [past EXCEPT !.met = IF first THEN Meets(Head(jobs[j].list)) ELSE @]
        /\ jobs' = Done(j)
        /\ UNCHANGED <<stored, leaves>>

\* After a page was added, the last page is selected.
PagesArriveAdded(j) ==
    /\ jobs[j].kind = "fetchLast" /\ jobs[j].step = "answered"
    /\ list' = jobs[j].list
    /\ local' = Objects(jobs[j].answer)
    /\ IF jobs[j].list = <<>> THEN selected' = Nothing /\ jobs' = Done(j)
       ELSE Select(Last(jobs[j].list), Objects(jobs[j].answer), Done(j))
    /\ past' = [past EXCEPT !.met = IF jobs[j].list = <<>> THEN @ ELSE Meets(Last(jobs[j].list))]
    /\ UNCHANGED <<stored, leaves>>

ListFailsToCome(j) ==
    /\ jobs[j].kind \in {"fetch", "fetchLast"}
    /\ jobs' = Done(j) /\ Failed
    /\ UNCHANGED <<stored, leaves, list, local, selected>>

DragEnds ==
    /\ \E order \in SetToSeqs(ToSet(list)) :
          /\ list' = order
          /\ Start([NewJob("drag", NoLeaf) EXCEPT !.list = order])
    /\ Began
    /\ UNCHANGED <<stored, leaves, local, selected>>

\* The list is accepted when it names every page; the answer may be lost.
ReorderPages(j) ==
    /\ jobs[j].kind = "drag"
    /\ ToSet(jobs[j].list) = ToSet(stored.order)
    /\ stored' = [stored EXCEPT !.order = jobs[j].list]
    /\ jobs' = Done(j) \/ Continues(j, NewJob("fetch", NoLeaf))
    /\ UNCHANGED <<leaves, list, local, selected, past>>

\* Refused or not answered: the list is read again.
MutDragRefused(j) ==
    /\ jobs[j].kind = "drag"
    /\ jobs' = Done(j)
    /\ UNCHANGED <<stored, leaves, list, local, selected, past>>
DragRefused(j) ==
    /\ jobs[j].kind = "drag"
    /\ Continues(j, NewJob("fetch", NoLeaf))
    /\ UNCHANGED <<stored, leaves, list, local, selected, past>>

DeletePage ==
    /\ \E l \in ToSet(list) : Start(NewJob("delete", l))
    /\ Began
    /\ UNCHANGED <<stored, leaves, list, local, selected>>

\* A page that is gone already makes it fail.
PageDeleted(j) ==
    LET l == jobs[j].page
    IN  /\ jobs[j].kind = "delete" /\ jobs[j].step = "sent"
        /\ \E i \in DOMAIN stored.order :
              /\ stored.order[i] = l
              /\ stored' = [order |-> RemoveAt(stored.order, i),
                            image |-> [stored.image EXCEPT ![l] = l]]
        /\ jobs' = [jobs EXCEPT ![j].step = "answered"]
        /\ UNCHANGED <<leaves, list, local, selected, past>>

DeleteAnswered(j) ==
    /\ jobs[j].kind = "delete" /\ jobs[j].step = "answered"
    /\ selected' = IF selected.page = jobs[j].page THEN Nothing ELSE selected
    /\ Continues(j, NewJob("fetch", NoLeaf))
    /\ UNCHANGED <<stored, leaves, list, local, past>>

AddOrDeleteFails(j) ==
    /\ jobs[j].kind \in {"add", "delete"}
    /\ jobs' = Done(j) /\ Failed
    /\ UNCHANGED <<stored, leaves, list, local, selected>>

\* The receipts of the dialog (PageDraft) become a page.
AddPage ==
    /\ Start(NewJob("add", NoLeaf))
    /\ Began
    /\ UNCHANGED <<stored, leaves, list, local, selected>>

CreatePage(j) ==
    /\ jobs[j].kind = "add" /\ jobs[j].step = "sent"
    /\ \E l \in Leaf \ leaves :
          /\ leaves' = leaves \cup {l}
          /\ stored' = [order |-> Append(stored.order, l),
                        image |-> stored.image]
    /\ jobs' = [jobs EXCEPT ![j].step = "answered"]
    /\ UNCHANGED <<list, local, selected, past>>

AddAnswered(j) ==
    /\ jobs[j].kind = "add" /\ jobs[j].step = "answered"
    /\ Continues(j, NewJob("fetchLast", NoLeaf))
    /\ UNCHANGED <<stored, leaves, list, local, selected, past>>

\* The editor is left and opened again once nothing is under way.
OpenEditor ==
    /\ Quiet
    /\ list' = <<>> /\ local' = [l \in Leaf |-> Fresh(l)] /\ selected' = Nothing
    /\ Start(NewJob("fetch", NoLeaf))
    /\ past' = [past EXCEPT !.alone = TRUE]
    /\ UNCHANGED <<stored, leaves>>

EditorNext ==
    \/ SelectPage \/ ChangeTemplate \/ SavePage \/ UploadImage
    \/ DragEnds \/ DeletePage
    \/ AddPage \/ OpenEditor
    \/ \E j \in Job :
          \/ UploadEnds(j) \/ UpdatePage(j) \/ SaveAnswered(j) \/ WriteFails(j)
          \/ FindPages(j) \/ PagesArrive(j) \/ PagesArriveAdded(j) \/ ListFailsToCome(j)
          \/ ReorderPages(j) \/ DragRefused(j)
          \/ PageDeleted(j) \/ DeleteAnswered(j) \/ AddOrDeleteFails(j)
          \/ CreatePage(j) \/ AddAnswered(j)

EditorSpec == EditorInit /\ [][EditorNext]_editorVars

-----------------------------------------------------------------------------
(* Properties.                                                             *)

\* Whatever is selected, dragged, added, deleted, refused or lost during uploads
\* and saves: every image of a page, on the server and in the list, came from an
\* upload or a save of that page, or of one that was still being uploaded to or
\* saved when that page was selected.
EditsStayOnTheirPage ==
    /\ \A l \in ToSet(stored.order) : stored.image[l] = l \/ <<stored.image[l], l>> \in past.met
    /\ \A l \in ToSet(list) : local[l].image = l \/ <<local[l].image, l>> \in past.met

\* When nothing is under way, and since the editor was opened no operations
\* overlapped and none but a drag failed, the list is the server's.
PagesAsStored ==
    Quiet /\ past.alone => list = stored.order
=============================================================================
