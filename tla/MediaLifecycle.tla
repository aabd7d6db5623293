--------------------------- MODULE MediaLifecycle ---------------------------
(***************************************************************************)
(* The life of an uploaded image on the server: presigned upload to a      *)
(* staging key, confirmation (promotion to the final key and an upload     *)
(* receipt), attachment to a photo, an album cover or a page, and, when    *)
(* that record is deleted, removal through a persisted deletion task.      *)
(*                                                                         *)
(* The object store (R2) and the database (SQLite) are shared; every HTTP  *)
(* request is a process that advances one await at a time and carries what *)
(* it read earlier.  A database transaction is one step: SQLite serialises *)
(* writers, and what a handler read before opening it is in `req`.         *)
(*                                                                         *)
(* Left out: order numbers, years, texts and templates (no effect on which *)
(* object is referenced), validation of the image bytes (a refused upload  *)
(* changes nothing), due times and batch limits of the deletion sweep (a   *)
(* sweep may take any pending task, a superset of the due ones).           *)
(***************************************************************************)
EXTENDS Naturals, Sequences, FiniteSets

CONSTANTS
    PhotoKey,   \* keys presigned for photos, photos/<province>/<uuid>
    AlbumKey,   \* keys presigned for covers and pages, photos/album/<uuid>
    Photo, Album, Page,   \* identifiers of rows; never reused
    AlbumOf,    \* the album each page identifier is created in
    Request,    \* requests in flight at the same time
    NoOwner

Key   == PhotoKey \cup AlbumKey
Owner == Photo \cup Album \cup Page

ASSUME IdentifiersAreDistinct ==
    /\ PhotoKey \cap AlbumKey = {}
    /\ Photo \cap Album = {}
    /\ Photo \cap Page = {}
    /\ Album \cap Page = {}
    /\ NoOwner \notin Owner
ASSUME PagesHaveAlbums == AlbumOf \in [Page -> Album]

VARIABLES
    url,      \* the presigned PUT url of the staging key: none, open or expired
    staged,   \* keys whose staging object tmp/<key> exists
    stored,   \* keys whose final object exists
    receipt,  \* MediaUploadReceipt of the key
    tasks,    \* MediaDeletionTask rows of the key, oldest first
    rows,     \* the Photo, Album or Page row: absent, live or gone
    media,    \* the keys a row references
    req,      \* what each request does next and what it has read
    boundTo   \* history: the row whose transaction consumed the receipt

vars == <<url, staged, stored, receipt, tasks, rows, media, req, boundTo>>
store == <<staged, stored>>
database == <<receipt, tasks, rows, media, boundTo>>

\* A request is named after the step it takes next.
Op == {"idle", "copy", "unstage", "recover", "issue",
       "createPhoto", "deletePhoto",
       "createAlbum", "updateAlbum", "deleteAlbum", "recheckAlbum",
       "createPage", "updatePage", "deletePage",
       "sweep", "remove", "settle"}

\* owner: the row named in the path; keys: keys to confirm, consume or
\* delete; kept: images a page update keeps; row: index of a deletion task.
RequestState == [op : Op, owner : Owner \cup {NoOwner},
                 keys : SUBSET Key, kept : SUBSET Key, row : Nat]

Work(op, owner, keys) ==
    [op |-> op, owner |-> owner, keys |-> keys, kept |-> {}, row |-> 0]

Idle == Work("idle", NoOwner, {})

\* The type of every variable.
TypeOK ==
    /\ url \in [Key -> {"none", "open", "expired"}]
    /\ staged \subseteq Key
    /\ stored \subseteq Key
    /\ receipt \in [Key -> {"none", "open", "consumed", "expired"}]
    /\ tasks \in [Key -> Seq({"pending", "done"})]
    /\ rows \in [Owner -> {"absent", "live", "gone"}]
    /\ media \in [Owner -> SUBSET Key]
    /\ req \in [Request -> RequestState]
    /\ boundTo \in [Key -> Owner \cup {NoOwner}]

Init ==
    /\ url = [k \in Key |-> "none"]
    /\ staged = {}
    /\ stored = {}
    /\ receipt = [k \in Key |-> "none"]
    /\ tasks = [k \in Key |-> <<>>]
    /\ rows = [o \in Owner |-> "absent"]
    /\ media = [o \in Owner |-> {}]
    /\ req = [p \in Request |-> Idle]
    /\ boundTo = [k \in Key |-> NoOwner]

Begin(p, work) == req[p] = Idle /\ req' = [req EXCEPT ![p] = work]
At(p, op) == req[p].op = op
Proceed(p, op) == req' = [req EXCEPT ![p].op = op]
Finish(p) == req' = [req EXCEPT ![p] = Idle]

-----------------------------------------------------------------------------
(* Upload: the browser and the object store.                               *)

\* The key is a fresh uuid; issuing the url stores nothing.
Presign(k) ==
    /\ url[k] = "none"
    /\ url' = [url EXCEPT ![k] = "open"]
    /\ UNCHANGED <<store, database, req>>

UrlExpires(k) ==
    /\ url[k] = "open"
    /\ url' = [url EXCEPT ![k] = "expired"]
    /\ UNCHANGED <<store, database, req>>

\* The browser may PUT as often as it likes while the url is valid.
Put(k) ==
    /\ url[k] = "open"
    /\ k \notin staged
    /\ staged' = staged \cup {k}
    /\ UNCHANGED <<url, stored, database, req>>

\* The bucket rule that clears tmp/.
StagingLifecycle(k) ==
    /\ url[k] = "expired"
    /\ k \in staged
    /\ staged' = staged \ {k}
    /\ UNCHANGED <<url, stored, database, req>>

-----------------------------------------------------------------------------
(* Confirmation: validate, copy to the final key, delete the staging       *)
(* object, issue the receipt.                                              *)

\* The staging object is there and valid, or looking it up fails (it is
\* absent or the store does not answer): then the final object is tried.
ConfirmValidate(p, k) ==
    /\ url[k] # "none"
    /\ \/ k \in staged /\ Begin(p, Work("copy", NoOwner, {k}))
       \/ Begin(p, Work("recover", NoOwner, {k}))
    /\ UNCHANGED <<url, store, database>>

ConfirmCopy(p) ==
    /\ At(p, "copy")
    /\ req[p].keys \subseteq staged
    /\ stored' = stored \cup req[p].keys
    /\ Proceed(p, "unstage")
    /\ UNCHANGED <<url, staged, database>>

ConfirmUnstage(p) ==
    /\ At(p, "unstage")
    /\ staged' = staged \ req[p].keys
    /\ Proceed(p, "issue")
    /\ UNCHANGED <<url, stored, database>>

MutConfirmRecoverBlind(p) ==
    /\ At(p, "recover")
    /\ Proceed(p, "issue")
    /\ UNCHANGED <<url, store, database>>

\* An earlier confirmation promoted the object and then failed.
MutConfirmRecover(p) ==
    /\ At(p, "recover")
    /\ req[p].keys \subseteq staged
    /\ Proceed(p, "issue")
    /\ UNCHANGED <<url, store, database>>

ConfirmRecover(p) ==
    /\ At(p, "recover")
    /\ req[p].keys \subseteq stored
    /\ Proceed(p, "issue")
    /\ UNCHANGED <<url, store, database>>

\* The receipt of a key is created once; an open one is shared, a consumed
\* or expired one is refused.
MutIssuable(k) == receipt[k] # "open"
Issuable(k) == receipt[k] = "none"

ConfirmIssue(p) ==
    /\ At(p, "issue")
    /\ receipt' = [k \in Key |->
            IF k \in req[p].keys /\ Issuable(k) THEN "open" ELSE receipt[k]]
    /\ Finish(p)
    /\ UNCHANGED <<url, store, tasks, rows, media, boundTo>>

\* expiresAt passes.
ReceiptExpires(k) ==
    /\ receipt[k] = "open"
    /\ receipt' = [receipt EXCEPT ![k] = "expired"]
    /\ UNCHANGED <<url, store, tasks, rows, media, req, boundTo>>

-----------------------------------------------------------------------------
(* What the transactions of the photo and album services do.               *)

\* The look before the transaction (peek) and the test inside it (consume).
Peekable(K) == \A k \in K : receipt[k] = "open"

MutConsumable(K) == \A k \in K : receipt[k] # "none"
Consumable(K) == \A k \in K : receipt[k] = "open"

\* Consume the receipts of K and let row o reference K and `kept`.
Attach(o, K, kept) ==
    /\ Consumable(K)
    /\ receipt' = [k \in Key |-> IF k \in K THEN "consumed" ELSE receipt[k]]
    /\ boundTo' = [k \in Key |-> IF k \in K THEN o ELSE boundTo[k]]
    /\ media' = [media EXCEPT ![o] = K \cup kept]

Insert(o, K) ==
    /\ rows[o] = "absent"
    /\ rows' = [rows EXCEPT ![o] = "live"]
    /\ Attach(o, K, {})

\* One pending task for each key.
MutEnqueueMany(K) ==
    tasks' = [k \in Key |-> IF K # {} /\ k = (CHOOSE x \in K : TRUE)
                            THEN Append(tasks[k], "pending") ELSE tasks[k]]
EnqueueMany(K) ==
    tasks' = [k \in Key |->
                IF k \in K THEN Append(tasks[k], "pending") ELSE tasks[k]]

\* The rows O go, and the tasks for K are created in the same transaction.
DeleteRows(O, K) ==
    /\ EnqueueMany(K)
    /\ rows' = [o \in Owner |-> IF o \in O THEN "gone" ELSE rows[o]]
    /\ media' = [o \in Owner |-> IF o \in O THEN {} ELSE media[o]]

PagesOf(a) == {g \in Page : AlbumOf[g] = a /\ rows[g] = "live"}
AlbumRows(a) == {a} \cup PagesOf(a)

-----------------------------------------------------------------------------
(* Photos.                                                                 *)

PhotoCreateRead(p, k) ==
    /\ k \in PhotoKey
    /\ Peekable({k})
    /\ Begin(p, Work("createPhoto", NoOwner, {k}))
    /\ UNCHANGED <<url, store, database>>

PhotoCreateTx(p) ==
    /\ At(p, "createPhoto")
    /\ \E o \in Photo : Insert(o, req[p].keys)
    /\ Finish(p)
    /\ UNCHANGED <<url, store, tasks>>

PhotoDeleteRead(p, o) ==
    /\ rows[o] = "live"
    /\ Begin(p, Work("deletePhoto", o, media[o]))
    /\ UNCHANGED <<url, store, database>>

MutPhotoDeleteTx(p) ==
    /\ At(p, "deletePhoto")
    /\ rows[req[p].owner] = "live"
    /\ DeleteRows({req[p].owner}, {})
    /\ Proceed(p, "sweep")
    /\ UNCHANGED <<url, store, receipt, boundTo>>

PhotoDeleteTx(p) ==
    /\ At(p, "deletePhoto")
    /\ rows[req[p].owner] = "live"
    /\ DeleteRows({req[p].owner}, req[p].keys)
    /\ Proceed(p, "sweep")
    /\ UNCHANGED <<url, store, receipt, boundTo>>

-----------------------------------------------------------------------------
(* Albums.                                                                 *)

\* The cover is optional.
AlbumCreateRead(p, K) ==
    /\ K \subseteq AlbumKey
    /\ Cardinality(K) <= 1
    /\ Peekable(K)
    /\ Begin(p, Work("createAlbum", NoOwner, K))
    /\ UNCHANGED <<url, store, database>>

AlbumCreateTx(p) ==
    /\ At(p, "createAlbum")
    /\ \E a \in Album : Insert(a, req[p].keys)
    /\ Finish(p)
    /\ UNCHANGED <<url, store, tasks>>

\* An update without a cover receipt touches no media and is left out.
AlbumUpdateRead(p, a, k) ==
    /\ rows[a] = "live"
    /\ k \in AlbumKey
    /\ Peekable({k})
    /\ Begin(p, Work("updateAlbum", a, {k}))
    /\ UNCHANGED <<url, store, database>>

AlbumUpdateTx(p) ==
    /\ At(p, "updateAlbum")
    /\ rows[req[p].owner] = "live"
    /\ Attach(req[p].owner, req[p].keys, {})
    /\ Finish(p)
    /\ UNCHANGED <<url, store, tasks, rows>>

\* The keys of an album: its cover and the images of all its pages.
MutAlbumKeys(a) == media[a]
AlbumKeys(a) == UNION {media[o] : o \in AlbumRows(a)}

\* The keys are collected from the rows read here, outside the transaction.
AlbumDeleteRead(p, a) ==
    /\ rows[a] = "live"
    /\ Begin(p, Work("deleteAlbum", a, AlbumKeys(a)))
    /\ UNCHANGED <<url, store, database>>

\* The cascade takes whatever pages the album has now.  The commit may be
\* reported as a timeout.
AlbumDeleteTx(p) ==
    /\ At(p, "deleteAlbum")
    /\ rows[req[p].owner] = "live"
    /\ DeleteRows(AlbumRows(req[p].owner), req[p].keys)
    /\ Proceed(p, "sweep") \/ Proceed(p, "recheckAlbum")
    /\ UNCHANGED <<url, store, receipt, boundTo>>

AlbumDeleteTimeout(p) ==
    /\ At(p, "deleteAlbum")
    /\ Proceed(p, "recheckAlbum")
    /\ UNCHANGED <<url, store, database>>

\* After a timeout: 503 when the album is still there, otherwise sweep.
AlbumDeleteRecheck(p) ==
    /\ At(p, "recheckAlbum")
    /\ IF rows[req[p].owner] = "live" THEN Finish(p) ELSE Proceed(p, "sweep")
    /\ UNCHANGED <<url, store, database>>

-----------------------------------------------------------------------------
(* Pages.                                                                  *)

\* validatePageContent: only images the page has can be kept, and every
\* template has at least one image.
ValidPageContent(existing, K, kept) == kept \subseteq existing /\ K \cup kept # {}

PageCreateRead(p, a, K) ==
    /\ rows[a] = "live"
    /\ K \subseteq AlbumKey
    /\ ValidPageContent({}, K, {})
    /\ Peekable(K)
    /\ Begin(p, Work("createPage", a, K))
    /\ UNCHANGED <<url, store, database>>

\* The foreign key refuses a page whose album has gone meanwhile.
PageCreateTx(p) ==
    /\ At(p, "createPage")
    /\ rows[req[p].owner] = "live"
    /\ \E g \in Page : AlbumOf[g] = req[p].owner /\ Insert(g, req[p].keys)
    /\ Finish(p)
    /\ UNCHANGED <<url, store, tasks>>

\* Some of the images read here are kept, others replaced by uploads K.
PageUpdateRead(p, g, K, kept) ==
    /\ rows[g] = "live"
    /\ K \subseteq AlbumKey
    /\ ValidPageContent(media[g], K, kept)
    /\ Peekable(K)
    /\ Begin(p, [Work("updatePage", g, K) EXCEPT !.kept = kept])
    /\ UNCHANGED <<url, store, database>>

MutPageUpdateTx(p) ==
    /\ At(p, "updatePage")
    /\ rows[req[p].owner] = "live"
    /\ Attach(req[p].owner, req[p].keys, req[p].kept)
    /\ EnqueueMany(media[req[p].owner] \ req[p].kept)
    /\ Finish(p)
    /\ UNCHANGED <<url, store, rows>>

PageUpdateTx(p) ==
    /\ At(p, "updatePage")
    /\ rows[req[p].owner] = "live"
    /\ Attach(req[p].owner, req[p].keys, req[p].kept)
    /\ Finish(p)
    /\ UNCHANGED <<url, store, tasks, rows>>

PageDeleteRead(p, g) ==
    /\ rows[g] = "live"
    /\ Begin(p, Work("deletePage", g, media[g]))
    /\ UNCHANGED <<url, store, database>>

PageDeleteTx(p) ==
    /\ At(p, "deletePage")
    /\ rows[req[p].owner] = "live"
    /\ DeleteRows({req[p].owner}, req[p].keys)
    /\ Proceed(p, "sweep")
    /\ UNCHANGED <<url, store, receipt, boundTo>>

-----------------------------------------------------------------------------
(* The deletion sweep: at start-up, on the retry endpoint, and as the last *)
(* part of every delete request.                                           *)

SweepStart(p) ==
    /\ Begin(p, Work("sweep", NoOwner, {}))
    /\ UNCHANGED <<url, store, database>>

\* processOne reads the task again and skips one that is done.
SweepPick(p) ==
    /\ At(p, "sweep")
    /\ \E k \in Key : \E i \in DOMAIN tasks[k] :
          /\ tasks[k][i] = "pending"
          /\ req' = [req EXCEPT ![p] = [Work("remove", NoOwner, {k}) EXCEPT !.row = i]]
    /\ UNCHANGED <<url, store, database>>

SweepRemove(p) ==
    /\ At(p, "remove")
    /\ stored' = stored \ req[p].keys
    /\ Proceed(p, "settle")
    /\ UNCHANGED <<url, staged, database>>

Settled(task) == "done"

SweepSettle(p) ==
    /\ At(p, "settle")
    /\ tasks' = [k \in Key |->
            IF k \in req[p].keys
            THEN [tasks[k] EXCEPT ![req[p].row] = Settled(tasks[k][req[p].row])]
            ELSE tasks[k]]
    /\ Proceed(p, "sweep")
    /\ UNCHANGED <<url, store, receipt, rows, media, boundTo>>

\* The delete call or the update fails: the task stays pending (its attempt
\* count and due time are the subject of DeletionTasks).
SweepFails(p) ==
    /\ req[p].op \in {"remove", "settle"}
    /\ Proceed(p, "sweep")
    /\ UNCHANGED <<url, store, database>>

-----------------------------------------------------------------------------
\* A request ends: normally after a sweep, with an error or a refusal (its
\* transaction rolled back) anywhere else.
End(p) ==
    /\ req[p] # Idle
    /\ Finish(p)
    /\ UNCHANGED <<url, store, database>>

\* The process restarts: every request is lost and one sweep begins.
Restart ==
    /\ \E p \in Request : req' = [q \in Request |->
            IF q = p THEN Work("sweep", NoOwner, {}) ELSE Idle]
    /\ UNCHANGED <<url, store, database>>

Upload(k) == Presign(k) \/ UrlExpires(k) \/ Put(k) \/ StagingLifecycle(k)

Confirm(p) ==
    \/ \E k \in Key : ConfirmValidate(p, k)
    \/ ConfirmCopy(p) \/ ConfirmUnstage(p)
    \/ ConfirmRecover(p) \/ ConfirmIssue(p)

PhotoService(p) ==
    \/ \E k \in PhotoKey : PhotoCreateRead(p, k)
    \/ \E o \in Photo : PhotoDeleteRead(p, o)
    \/ PhotoCreateTx(p) \/ PhotoDeleteTx(p)

AlbumService(p) ==
    \/ \E K \in SUBSET AlbumKey : AlbumCreateRead(p, K)
    \/ \E a \in Album, k \in AlbumKey : AlbumUpdateRead(p, a, k)
    \/ \E a \in Album : AlbumDeleteRead(p, a)
    \/ AlbumCreateTx(p) \/ AlbumUpdateTx(p)
    \/ AlbumDeleteTx(p) \/ AlbumDeleteTimeout(p) \/ AlbumDeleteRecheck(p)

PageService(p) ==
    \/ \E a \in Album, K \in SUBSET AlbumKey : PageCreateRead(p, a, K)
    \/ \E g \in Page, K, kept \in SUBSET AlbumKey : PageUpdateRead(p, g, K, kept)
    \/ \E g \in Page : PageDeleteRead(p, g)
    \/ PageCreateTx(p) \/ PageUpdateTx(p) \/ PageDeleteTx(p)

Sweep(p) ==
    \/ SweepStart(p) \/ SweepPick(p) \/ SweepRemove(p)
    \/ SweepSettle(p) \/ SweepFails(p)

Next ==
    \/ \E k \in Key : Upload(k) \/ ReceiptExpires(k)
    \/ \E p \in Request :
          \/ Confirm(p) \/ PhotoService(p) \/ AlbumService(p)
          \/ PageService(p) \/ Sweep(p) \/ End(p)
    \/ Restart

Spec == Init /\ [][Next]_vars

\* Every request ends, the browser repeats the confirmation of a key until it
\* is answered, and the object store does not fail for ever.
ConfirmFairness ==
    \A p \in Request :
        /\ WF_vars(End(p))
        /\ \A k \in Key :
            /\ SF_vars(ConfirmValidate(p, k) /\ req'[p].op = "copy")
            /\ SF_vars(ConfirmValidate(p, k) /\ req'[p].op = "recover")
        /\ SF_vars(ConfirmCopy(p))
        /\ SF_vars(ConfirmUnstage(p))
        /\ SF_vars(ConfirmRecover(p))
        /\ SF_vars(ConfirmIssue(p))

ConfirmSpec == Spec /\ ConfirmFairness

-----------------------------------------------------------------------------
(* Properties.                                                             *)

Referenced(k) == \E o \in Owner : k \in media[o]

\* An image that a photo, a cover or a page shows is in the object store and
\* no deletion task, pending or done, names it: whatever overlaps, a sweep
\* never takes an object from under a live record.
LiveMediaNeverDeleted ==
    \A k \in Key : Referenced(k) => k \in stored /\ tasks[k] = <<>>

\* A key is shown by one row, the row that consumed its receipt, even when
\* page updates write back images they read before another update.
MediaHasOneOwner ==
    \A o \in Owner : \A k \in media[o] : boundTo[k] = o /\ rows[o] = "live"

\* Photos: at no moment has the record gone without a task for its object
\* (the two writes of PhotoService.delete are one transaction).
PhotoRemovalRegistered ==
    \A k \in PhotoKey :
        receipt[k] = "consumed" => Referenced(k) \/ tasks[k] # <<>>

\* Repeated and concurrent confirmations never reopen a receipt that was
\* consumed or has expired, so no upload can be attached twice.
ReceiptNeverReopened ==
    [][\A k \in Key : receipt'[k] = "open" => receipt[k] \in {"none", "open"}]_vars

\* An album and its pages take all the images they show with them: in the
\* step that deletes the album each of those images has a deletion task.
AlbumRemovalRegistered ==
    [][\A a \in Album : rows[a] = "live" /\ rows'[a] = "gone" =>
          \A o \in AlbumRows(a) : \A k \in media[o] : tasks'[k] # <<>>]_vars

\* A confirmation that promoted the object but lost its connection, its
\* process or its receipt is recovered by repeating it.
ConfirmationRecovers ==
    \A k \in Key : k \in stored /\ receipt[k] = "none" ~> receipt[k] # "none"

-----------------------------------------------------------------------------
(* The inductive invariant behind the safety properties.                   *)

\* A receipt is consumed exactly when some row took the key, and a row that
\* took a key has existed.
BoundWhenConsumed ==
    \A k \in Key : /\ receipt[k] = "consumed" <=> boundTo[k] # NoOwner
                   /\ boundTo[k] \in Owner => rows[boundTo[k]] # "absent"

\* Only rows that are gone have their keys in deletion tasks.
TasksOfGoneRows ==
    \A k \in Key : tasks[k] # <<>> =>
        boundTo[k] \in Owner /\ rows[boundTo[k]] = "gone"

\* The object of a key is in the store, or a task for it exists.
Kept(k) == k \in stored \/ tasks[k] # <<>>

StoredUntilTask == \A k \in Key : receipt[k] # "none" => Kept(k)

\* What a request carries stays true enough to act on: a key about to get a
\* receipt is in the store, the keys to register and the images to keep are
\* those of the row the request names, the task being processed exists.
CarriedDelete(r) ==
    /\ r.op \in {"deletePhoto", "deletePage"} =>
          r.owner \in Photo \cup Page /\ \A k \in r.keys : boundTo[k] = r.owner
    /\ r.op \in {"deleteAlbum", "recheckAlbum"} =>
          /\ r.owner \in Album
          /\ \A k \in r.keys :
                \/ boundTo[k] = r.owner
                \/ boundTo[k] \in Page /\ AlbumOf[boundTo[k]] = r.owner

CarriedWrite(r) ==
    /\ r.op \in {"updateAlbum", "createPage"} => r.owner \in Album
    /\ r.op = "updatePage" =>
          r.owner \in Page /\ \A k \in r.kept : boundTo[k] = r.owner

Carried(r) ==
    /\ r.op \in {"unstage", "issue"} => \A k \in r.keys : Kept(k)
    /\ CarriedDelete(r)
    /\ CarriedWrite(r)
    /\ r.op \in {"remove", "settle"} => \A k \in r.keys : r.row \in DOMAIN tasks[k]

ReadsStillBound == \A p \in Request : Carried(req[p])

MediaInv ==
    /\ TypeOK
    /\ MediaHasOneOwner
    /\ BoundWhenConsumed
    /\ TasksOfGoneRows
    /\ StoredUntilTask
    /\ ReadsStillBound

-----------------------------------------------------------------------------
Gone == {o \in Owner : rows[o] = "gone"}
Released == {k \in Key : tasks[k] # <<>>}

Promise == INSTANCE MediaPromise WITH
    object <- stored, holder <- boundTo, retired <- Gone, released <- Released

\* The promise of MediaPromise, kept by every step of every handler.
KeepsPromise == Promise!Spec
=============================================================================
