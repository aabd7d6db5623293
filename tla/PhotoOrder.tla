----------------------------- MODULE PhotoOrder -----------------------------
(***************************************************************************)
(* The photos of one province: the page that uploads, deletes and drags    *)
(* them, and the photo service whose orders start from 0, may be equal and *)
(* are only compared with each other.                                      *)
(*                                                                         *)
(* The page counts the photos it shows to number a new one.  It reads the  *)
(* list again after an upload and after a delete, not after a drag.        *)
(***************************************************************************)
EXTENDS Integers, Sequences, FiniteSets, SequencesExt

CONSTANTS
    Photo,        \* photo identifiers, never given out twice
    MaxTasks      \* bound on the operations under way at once

ASSUME TasksAreBounded == MaxTasks \in Nat \ {0}

VARIABLES
    place,     \* committed order of a photo, NoPlace without a row
    taken,     \* history: photos created so far
    shown,     \* PhotoManage: the photos in the order shown
    tasks,     \* operations under way: step, and what they carry
    alone      \* history: no operations overlapped or failed since the page was
               \* opened

photosVars == <<place, taken, shown, tasks, alone>>

NoPlace == -1
Task == 1..MaxTasks
NoTask == [step |-> "none", order |-> 0, list |-> <<>>]

Stored == {p \in Photo : place[p] # NoPlace}

\* Equal orders come in any order.
Listings == {s \in SetToSeqs(Stored) : \A i, j \in DOMAIN s : i < j => place[s[i]] <= place[s[j]]}

PhotosInit ==
    /\ place = [p \in Photo |-> NoPlace]
    /\ taken = {}
    /\ shown = <<>>
    /\ tasks = [t \in Task |-> IF t = 1 THEN [NoTask EXCEPT !.step = "fetch"] ELSE NoTask]
    /\ alone = TRUE

PhotosQuiet == \A t \in Task : tasks[t] = NoTask

StartTask(task) ==
    /\ \E t \in Task : tasks[t] = NoTask /\ tasks' = [tasks EXCEPT ![t] = task]
    /\ alone' = (alone /\ PhotosQuiet)

Goes(t, step) == tasks' = [tasks EXCEPT ![t].step = step]
End(t) == tasks' = [tasks EXCEPT ![t] = NoTask]

-----------------------------------------------------------------------------
(* The page.                                                               *)

\* The input is disabled while a photo is being uploaded.
UploadBegins ==
    /\ \A t \in Task : tasks[t].step \notin {"files", "create", "fetchUpload", "readUpload"}
    /\ StartTask([NoTask EXCEPT !.step = "files"])
    /\ UNCHANGED <<place, taken, shown>>

\* Presigned, put and confirmed; the new photo goes after those shown by now.
UploadSaves(t) ==
    /\ tasks[t].step = "files"
    /\ tasks' = [tasks EXCEPT ![t].step = "create", ![t].order = Len(shown)]
    /\ UNCHANGED <<place, taken, shown, alone>>

DeletePhoto ==
    /\ \E p \in ToSet(shown) : StartTask([NoTask EXCEPT !.step = "delete", !.list = <<p>>])
    /\ UNCHANGED <<place, taken, shown>>

\* A card is dropped: the list changes at once and is sent as it is now.
SaveOrder ==
    /\ \E s \in SetToSeqs(ToSet(shown)) :
          /\ shown' = s
          /\ StartTask([NoTask EXCEPT !.step = "reorder", !.list = s])
    /\ UNCHANGED <<place, taken>>

OpenPhotos ==
    /\ PhotosQuiet
    /\ tasks' = [tasks EXCEPT ![1] = [NoTask EXCEPT !.step = "fetch"]]
    /\ shown' = <<>>
    /\ alone' = TRUE
    /\ UNCHANGED <<place, taken>>

ListShown(t) ==
    /\ tasks[t].step \in {"read", "readUpload"}
    /\ shown' = tasks[t].list
    /\ End(t)
    /\ UNCHANGED <<place, taken, alone>>

\* A refusal or no answer, at any step.  Nothing is read again, so that a drag
\* that is not saved stays on the screen.
TaskFails(t) ==
    /\ tasks[t].step # "none"
    /\ End(t)
    /\ alone' = FALSE
    /\ UNCHANGED <<place, taken, shown>>

-----------------------------------------------------------------------------
(* PhotoService.                                                           *)

\* Identifiers are alike: any one that was never given out.
CreatePhoto(t) ==
    LET p == CHOOSE q \in Photo \ taken : TRUE
    IN  /\ tasks[t].step = "create" /\ taken # Photo
        /\ taken' = taken \cup {p}
        /\ place' = [place EXCEPT ![p] = tasks[t].order]
        /\ Goes(t, "fetchUpload")
        /\ UNCHANGED <<shown, alone>>

\* A row that is gone makes the delete fail: TaskFails.
MutDeleteRow(t) ==
    LET p == tasks[t].list[1]
    IN  /\ tasks[t].step = "delete" /\ p \in Stored
        /\ place' = [place EXCEPT ![p] = NoPlace]
        /\ End(t)
        /\ UNCHANGED <<taken, shown, alone>>
DeleteRow(t) ==
    LET p == tasks[t].list[1]
    IN  /\ tasks[t].step = "delete" /\ p \in Stored
        /\ place' = [place EXCEPT ![p] = NoPlace]
        /\ Goes(t, "fetch")
        /\ UNCHANGED <<taken, shown, alone>>

\* As many as there are, and no stranger: a repetition would pass.
ReorderAccepted(t) ==
    /\ tasks[t].step = "reorder"
    /\ Len(tasks[t].list) = Cardinality(Stored)
    /\ ToSet(tasks[t].list) \subseteq Stored
    /\ Goes(t, "write")
    /\ UNCHANGED <<place, taken, shown, alone>>

\* One transaction, which fails on a row deleted since the check.
ReorderPhotos(t) ==
    LET list == tasks[t].list
    IN  /\ tasks[t].step = "write" /\ ToSet(list) \subseteq Stored
        /\ place' = [p \in Photo |-> IF p \in ToSet(list)
                                     THEN (CHOOSE i \in DOMAIN list : list[i] = p) - 1
                                     ELSE place[p]]
        /\ End(t)
        /\ UNCHANGED <<taken, shown, alone>>

FindPhotos(t) ==
    /\ tasks[t].step \in {"fetch", "fetchUpload"}
    /\ \E s \in Listings :
          tasks' = [tasks EXCEPT ![t].list = s,
                                 ![t].step = IF @ = "fetch" THEN "read" ELSE "readUpload"]
    /\ UNCHANGED <<place, taken, shown, alone>>

PhotosNext ==
    \/ UploadBegins \/ DeletePhoto \/ SaveOrder \/ OpenPhotos
    \/ \E t \in Task :
          \/ UploadSaves(t) \/ ListShown(t) \/ TaskFails(t)
          \/ CreatePhoto(t) \/ DeleteRow(t) \/ ReorderAccepted(t) \/ ReorderPhotos(t)
          \/ FindPhotos(t)

PhotosSpec == PhotosInit /\ [][PhotosNext]_photosVars

-----------------------------------------------------------------------------
(* Properties.                                                             *)

\* When nothing is under way, and nothing overlapped or failed since the page
\* was opened, the page shows the photos in the order readers get them.
PhotosAsStored ==
    PhotosQuiet /\ alone => shown \in Listings
=============================================================================
