----------------------------- MODULE PageDraft ------------------------------
(***************************************************************************)
(* The dialog that adds a page: its template, one receipt for each slot,   *)
(* the text, the uploads that write their receipt at an index when they    *)
(* end, and the request that creates the page.  A JavaScript array grows   *)
(* when an index past its end is assigned, and the slots between are holes *)
(* that `some` does not look at.                                           *)
(***************************************************************************)
EXTENDS Naturals, Sequences

Slots == [single |-> 1, doubleH |-> 2, doubleV |-> 2, triple |-> 3, photoText |-> 1]
Template == DOMAIN Slots
Index == 1..3

VARIABLES
    open,         \* addDialogVisible
    template,     \* newTemplateId
    receipts,     \* newPageReceipts: "empty", "hole" or "receipt" at each index
    text,         \* newPageText is not blank
    uploading,    \* indices of the uploads in flight
    posts,        \* slots of the templates in the requests in flight
    emptied       \* history: when the receipts were emptied last, the slots they
                  \* were emptied for and the uploads in flight

draftVars == <<open, template, receipts, text, uploading, posts, emptied>>

Empty(n) == [i \in 1..n |-> "empty"]

DraftInit ==
    /\ open = FALSE
    /\ template = "single" /\ receipts = Empty(Slots.single) /\ text = FALSE
    /\ uploading = {} /\ posts = {}
    /\ emptied = [slots |-> Slots.single, uploads |-> {}]

OpenOrCancel ==
    /\ open' = ~open
    /\ UNCHANGED <<template, receipts, text, uploading, posts, emptied>>

\* The watcher of newTemplateId starts the page over.
MutChooseTemplate ==
    /\ open
    /\ \E t \in Template \ {template} : template' = t
    /\ text' = FALSE
    /\ emptied' = [slots |-> Slots[template'], uploads |-> uploading]
    /\ UNCHANGED <<open, receipts, uploading, posts>>
ChooseTemplate ==
    /\ open
    /\ \E t \in Template \ {template} :
          /\ template' = t
          /\ receipts' = Empty(Slots[t])
    /\ text' = FALSE
    /\ emptied' = [slots |-> Slots[template'], uploads |-> uploading]
    /\ UNCHANGED <<open, uploading, posts>>

WriteText ==
    /\ open /\ template = "photoText"
    /\ \E b \in BOOLEAN : text' = b
    /\ UNCHANGED <<open, template, receipts, uploading, posts, emptied>>

UploadNewPageImage ==
    /\ open
    /\ \E i \in 1..Slots[template] : uploading' = uploading \cup {i}
    /\ UNCHANGED <<open, template, receipts, text, posts, emptied>>

\* The assignment newPageReceipts.value[index] = receipt.  A second upload for
\* the same index may still be under way.
NewPageImageUploaded ==
    /\ \E i \in uploading :
          /\ receipts' = [k \in 1..(IF i > Len(receipts) THEN i ELSE Len(receipts)) |->
                             IF k = i THEN "receipt"
                             ELSE IF k \in DOMAIN receipts THEN receipts[k] ELSE "hole"]
          /\ uploading' \in {uploading, uploading \ {i}}
    /\ UNCHANGED <<open, template, text, posts, emptied>>

NewPageImageFails ==
    /\ \E i \in uploading : uploading' = uploading \ {i}
    /\ UNCHANGED <<open, template, receipts, text, posts, emptied>>

\* What addPage asks of the receipts before it sends them.
ReceiptsComplete ==
    /\ Len(receipts) = Slots[template]
    /\ \A i \in DOMAIN receipts : receipts[i] # "empty"

PostPage ==
    /\ open /\ ReceiptsComplete /\ (template = "photoText" => text)
    /\ posts' = posts \cup {Slots[template]}
    /\ UNCHANGED <<open, template, receipts, text, uploading, emptied>>

\* The dialog closes and starts over with the slots of the template that was
\* sent, whatever template it shows by now.  Another request with as many slots
\* may still be under way.
PageCreated ==
    /\ \E n \in posts :
          /\ receipts' = Empty(n)
          /\ emptied' = [slots |-> n, uploads |-> uploading]
          /\ posts' \in {posts, posts \ {n}}
    /\ open' = FALSE /\ text' = FALSE
    /\ UNCHANGED <<template, uploading>>

\* A receipt that is not accepted, or no answer.
PageRefused ==
    /\ \E n \in posts : posts' = posts \ {n}
    /\ UNCHANGED <<open, template, receipts, text, uploading, emptied>>

DraftNext ==
    \/ OpenOrCancel \/ ChooseTemplate \/ WriteText
    \/ UploadNewPageImage \/ NewPageImageUploaded \/ NewPageImageFails
    \/ PostPage \/ PageCreated \/ PageRefused

DraftSpec == DraftInit /\ [][DraftNext]_draftVars

-----------------------------------------------------------------------------
(* Properties.                                                             *)

\* Whatever is chosen and sent while images are uploaded: a page whose every slot
\* shows an uploaded image can be added, unless an upload for a slot that it does
\* not have was under way when the template was chosen, or a page of a template
\* with more slots was answered since; and one that can be added has an image in
\* every slot, unless one of a template with fewer slots was.
DraftCanBeAdded ==
    LET complete == \A i \in 1..Slots[template] : i \in DOMAIN receipts /\ receipts[i] = "receipt"
    IN  /\ complete => \/ ReceiptsComplete
                       \/ emptied.slots > Slots[template]
                       \/ \E i \in emptied.uploads : i > Slots[template]
        /\ ReceiptsComplete => complete \/ emptied.slots < Slots[template]
=============================================================================
