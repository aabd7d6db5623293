---------------------------- MODULE MCBackOffice ----------------------------
(***************************************************************************)
(* The pages of the back office, in one instance for TLC.  They share no   *)
(* state with each other: what one does is the same whatever the others    *)
(* do, so each is explored in full while the others are where they start.  *)
(***************************************************************************)
EXTENDS AdminAuth, ProvinceVisits, PhotoOrder, AlbumForm, PageEditor, PageDraft, TLC

VARIABLE part    \* the one that moves

Interchangeable == Permutations(Leaf) \cup Permutations(Job)

\* A store that was crossed stays so: its property is silent from then on.
Telling == ~crossed

officeVars == <<authVars, visitsVars, photosVars, formVars, editorVars, draftVars, part>>

\* That part starts from any of its initial states.
OfficeInit ==
    /\ part \in {"auth", "visits", "photos", "form", "editor", "draft"}
    /\ AuthInit /\ (part = "auth" \/ session = "none")
    /\ VisitsInit /\ (part = "visits" \/ \A p \in Place : ~visited[p])
    /\ PhotosInit
    /\ FormInit /\ (part = "form" \/ books = {})
    /\ EditorInit /\ (part = "editor" \/ leaves = {})
    /\ DraftInit

OfficeNext ==
    /\ \/ /\ part = "auth" /\ AuthNext
          /\ UNCHANGED <<visitsVars, photosVars, formVars, editorVars, draftVars>>
       \/ /\ part = "visits" /\ VisitsNext
          /\ UNCHANGED <<authVars, photosVars, formVars, editorVars, draftVars>>
       \/ /\ part = "photos" /\ PhotosNext
          /\ UNCHANGED <<authVars, visitsVars, formVars, editorVars, draftVars>>
       \/ /\ part = "form" /\ FormNext
          /\ UNCHANGED <<authVars, visitsVars, photosVars, editorVars, draftVars>>
       \/ /\ part = "editor" /\ EditorNext
          /\ UNCHANGED <<authVars, visitsVars, photosVars, formVars, draftVars>>
       \/ /\ part = "draft" /\ DraftNext
          /\ UNCHANGED <<authVars, visitsVars, photosVars, formVars, editorVars>>
    /\ UNCHANGED part

OfficeSpec == OfficeInit /\ [][OfficeNext]_officeVars
=============================================================================
