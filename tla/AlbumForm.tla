----------------------------- MODULE AlbumForm ------------------------------
(***************************************************************************)
(* AlbumList's dialog: one form for creating and editing albums, the cover *)
(* that is uploaded while it is open, and its submission.  Uploads and     *)
(* submissions go on when the dialog is closed or opened for another album *)
(* and write to whatever form there is when they end.                      *)
(***************************************************************************)
EXTENDS Naturals, FiniteSets

CONSTANTS
    Book,          \* albums, existing and to be created
    New,           \* the target of a form that creates one
    MaxCovers      \* bound on the other forms whose cover uploads are in flight
                   \* when one is opened

ASSUME NewIsNoBook == New \notin Book
ASSUME NoneIsNoBook == {"none", "earlier"} \cap (Book \cup {New}) = {}

VARIABLES
    books,      \* albums on the server
    cover,      \* for whose form the cover of an album was uploaded: an
                \* album's, the one creating it, or an earlier one
    listed,     \* albums in the table
    form,       \* dialog open, album edited, cover receipt
    covers,     \* the forms in which the cover uploads in flight were begun
    saving,     \* the submission in flight: step, and its payload
    others      \* history: the other forms whose uploads were under way when the
                \* form was opened (form), and which of them the covers of the
                \* submission (saving) and of an album (row) are from

formVars == <<books, cover, listed, form, covers, saving, others>>

NoCover == "none"
Earlier == "earlier"
NotSaving == [step |-> "idle", of |-> New, cover |-> NoCover]
FormFor(b) == [open |-> TRUE, of |-> b, cover |-> NoCover]

FormInit ==
    /\ books \in SUBSET Book
    /\ cover = [b \in Book |-> NoCover]
    /\ listed = {}
    /\ form = [FormFor(New) EXCEPT !.open = FALSE]
    /\ covers = {}
    /\ saving = NotSaving
    /\ others = [form |-> {}, saving |-> {}, row |-> [b \in Book |-> {}]]

-----------------------------------------------------------------------------
(* The dialog.                                                             *)

\* An upload begun in the form of one new album is none of the next one's.
Aging(b) == IF b = New /\ New \in covers THEN (covers \ {New}) \cup {Earlier} ELSE covers

\* Opening it replaces the form.
MutOpenForm ==
    /\ ~form.open
    /\ \E b \in listed \cup {New} :
          /\ Cardinality(Aging(b) \ {b}) <= MaxCovers
          /\ form' = [form EXCEPT !.open = TRUE, !.of = b]
          /\ covers' = Aging(b)
          /\ others' = [others EXCEPT !.form = Aging(b) \ {b}]
    /\ UNCHANGED <<books, cover, listed, saving>>
OpenForm ==
    /\ ~form.open
    /\ \E b \in listed \cup {New} :
          /\ Cardinality(Aging(b) \ {b}) <= MaxCovers
          /\ form' = FormFor(b)
          /\ covers' = Aging(b)
          /\ others' = [others EXCEPT !.form = Aging(b) \ {b}]
    /\ UNCHANGED <<books, cover, listed, saving>>

CancelForm ==
    /\ form.open
    /\ form' = [form EXCEPT !.open = FALSE]
    /\ UNCHANGED <<books, cover, listed, covers, saving, others>>

\* Compressed, presigned, put and confirmed in one go: several may be under way,
\* also of one form.
CoverUpload ==
    /\ form.open
    /\ covers' = covers \cup {form.of}
    /\ UNCHANGED <<books, cover, listed, form, saving, others>>

\* The receipt goes into the form there is now, also when it is closed.
CoverUploaded ==
    /\ \E c \in covers :
          /\ form' = [form EXCEPT !.cover = c]
          /\ covers' \in {covers, covers \ {c}}
    /\ UNCHANGED <<books, cover, listed, saving, others>>

CoverFails ==
    /\ \E c \in covers : covers' = covers \ {c}
    /\ UNCHANGED <<books, cover, listed, form, saving, others>>

-----------------------------------------------------------------------------
(* Saving and deleting.                                                    *)

SubmitForm ==
    /\ form.open /\ saving = NotSaving
    /\ saving' = [step |-> "sent", of |-> form.of, cover |-> form.cover]
    /\ others' = [others EXCEPT !.saving = others.form \cap {form.cover}]
    /\ UNCHANGED <<books, cover, listed, form, covers>>

\* The transaction of create or update: the row and, with a receipt, its cover.
\* Receipts that were spent by a lost answer are left to MediaLifecycle.
AlbumSaved ==
    /\ saving.step = "sent"
    /\ \E b \in IF saving.of = New THEN Book \ books ELSE books \cap {saving.of} :
          /\ books' = books \cup {b}
          /\ IF saving.cover = NoCover /\ b \in books THEN UNCHANGED <<cover, others>>
             ELSE /\ cover' = [cover EXCEPT ![b] = IF saving.cover = saving.of THEN b
                                                  ELSE saving.cover]
                  /\ others' = [others EXCEPT !.row[b] = others.saving, !.saving = {}]
    /\ saving' = [NotSaving EXCEPT !.step = "answered"]
    /\ UNCHANGED <<listed, form, covers>>

\* The dialog closes, whatever it is open for by now, and the list is read.
SubmitAnswered ==
    /\ saving.step = "answered"
    /\ form' = [form EXCEPT !.open = FALSE]
    /\ saving' = [saving EXCEPT !.step = "listing"]
    /\ UNCHANGED <<books, cover, listed, covers, others>>

SubmitListed ==
    /\ saving.step = "listing"
    /\ listed' = books
    /\ saving' = NotSaving
    /\ UNCHANGED <<books, cover, form, covers, others>>

\* A year that is taken, an album that is gone, a receipt that is not accepted,
\* or no answer: the dialog stays as it is, with its receipt.
SubmitFails ==
    /\ saving.step # "idle"
    /\ saving' = NotSaving
    /\ others' = [others EXCEPT !.saving = {}]
    /\ UNCHANGED <<books, cover, listed, form, covers>>

DeleteBook ==
    /\ ~form.open
    /\ \E b \in listed \cap books :
          /\ books' = books \ {b}
          /\ cover' = [cover EXCEPT ![b] = NoCover]
          /\ others' = [others EXCEPT !.row[b] = {}]
    /\ UNCHANGED <<listed, form, covers, saving>>

ListBooks ==
    /\ listed' = books
    /\ UNCHANGED <<books, cover, form, covers, saving, others>>

FormNext ==
    \/ OpenForm \/ CancelForm \/ CoverUpload \/ CoverUploaded \/ CoverFails
    \/ SubmitForm \/ AlbumSaved \/ SubmitAnswered \/ SubmitListed \/ SubmitFails
    \/ DeleteBook \/ ListBooks

FormSpec == FormInit /\ [][FormNext]_formVars

-----------------------------------------------------------------------------
(* Properties.                                                             *)

\* Whatever is cancelled, refused or deleted while covers are uploaded: the cover
\* of an album was uploaded in a form that was open for it, or in one whose upload
\* was still under way when the form it was saved from was opened.
CoversBelong ==
    \A b \in books : cover[b] \in {NoCover, b} \cup others.row[b]
=============================================================================
