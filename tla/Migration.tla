----------------------------- MODULE Migration -----------------------------
(***************************************************************************)
(* The script that rewrites legacy URLs as media:// references, next to a  *)
(* server that goes on updating and deleting rows.  It reads photos,       *)
(* albums and pages one query after the other, gives up if one image       *)
(* cannot be converted, and writes everything it planned in a transaction. *)
(* Rows created meanwhile hold media:// references and are in no plan.     *)
(***************************************************************************)
EXTENDS Naturals

CONSTANTS
    PhotoRow, CoverRow, PageRow   \* rows that exist when the script starts

ASSUME KindsAreDisjoint ==
    PhotoRow \cap CoverRow = {} /\ CoverRow \cap PageRow = {} /\ PhotoRow \cap PageRow = {}

VARIABLES
    row,       \* what a row shows in each of its slots, and a page's text
    marker,    \* media_reference_migration_v1 is set
    script,    \* the run of the script: its next step and what it has read
    editing    \* an update in the server: what it read, and what it replaces

migrateVars == <<row, marker, script, editing>>

Row == PhotoRow \cup CoverRow \cup PageRow
Slots(r) == IF r \in PageRow THEN 1 .. 2 ELSE {1}

\* legacy: a URL under R2_LEGACY_PUBLIC_URL; foreign: any other string;
\* media: the reference to the same object; fresh: one to another object.
Image(r) == {"legacy", "media", "foreign"} \cup IF r \in PhotoRow THEN {} ELSE {"empty"}
Gone == [images |-> <<>>, text |-> "none"]
Alive == {r \in Row : row[r] # Gone}
Unread == [op |-> "idle", dry |-> TRUE, read |-> [r \in Row |-> Gone]]
NotEditing == [of |-> {}, was |-> Gone, new |-> {}]

MigrateInit ==
    /\ row \in [Row -> {[images |-> f, text |-> "old"] :
                          f \in UNION {[Slots(r) -> Image(r)] : r \in Row}}]
    /\ \A r \in Row : row[r].images \in [Slots(r) -> Image(r)]
    /\ marker = FALSE
    /\ script = Unread
    /\ editing = NotEditing

-----------------------------------------------------------------------------
(* migrateLegacyMediaRefs.                                                 *)

\* An apply stops at once when the marker is set; a dry run does not look.
MigrateStart(dry) ==
    /\ script.op = "idle"
    /\ dry \/ ~marker
    /\ script' = [Unread EXCEPT !.op = "photos", !.dry = dry]
    /\ UNCHANGED <<row, marker, editing>>

Reading(op, rows, next) ==
    /\ script.op = op
    /\ script' = [script EXCEPT !.op = next,
                      !.read = [r \in Row |-> IF r \in rows THEN row[r] ELSE script.read[r]]]
    /\ UNCHANGED <<row, marker, editing>>

ReadPhotos == Reading("photos", PhotoRow, "albums")
ReadAlbums == Reading("albums", CoverRow, "pages")
ReadPages == Reading("pages", PageRow, "decide")

InMedia(img) == img \in {"media", "fresh"}

\* A cover that is not set is left alone; an empty image of a page is not.
ToMigrate(r) ==
    LET images == script.read[r].images
    IN  \E i \in DOMAIN images :
            ~InMedia(images[i]) /\ ~(r \in CoverRow /\ images[i] = "empty")

\* fromLegacyUrl throws for every image but a legacy one.
Convertible(r) ==
    LET images == script.read[r].images
    IN  \A i \in DOMAIN images : images[i] = "legacy" \/ InMedia(images[i])

MutPlan == {r \in Row : script.read[r] # Gone}
Plan == {r \in Row : ToMigrate(r)}

\* One failure aborts, and a dry run only reports.
Decide ==
    /\ script.op = "decide"
    /\ script' = IF script.dry \/ \E r \in Plan : ~Convertible(r)
                 THEN Unread ELSE [script EXCEPT !.op = "apply"]
    /\ UNCHANGED <<row, marker, editing>>

Migrated(r) ==
    [script.read[r] EXCEPT !.images =
        [i \in DOMAIN @ |-> IF @[i] = "legacy" THEN "media" ELSE @[i]]]

\* The rows are written from what was read.  A row that is gone makes its
\* update throw, and nothing is written.
MigrateApply ==
    /\ script.op = "apply"
    /\ \/ Plan \subseteq Alive
          /\ row' = [r \in Row |-> IF r \in Plan THEN Migrated(r) ELSE row[r]]
          /\ marker' = TRUE
       \/ ~(Plan \subseteq Alive) /\ UNCHANGED <<row, marker>>
    /\ script' = Unread
    /\ UNCHANGED editing

MigrateDies ==
    /\ script.op # "idle"
    /\ script' = Unread
    /\ UNCHANGED <<row, marker, editing>>

-----------------------------------------------------------------------------
(* The server meanwhile: updatePage and album update read a row and write  *)
(* it in a transaction, deletes take rows away.  Photos keep their image.  *)

\* The images an update keeps are signed for its answer before it writes: one
\* that is no reference ends it with a 503.  A page keeps each of its images or
\* replaces it; a cover is written only when it is replaced.
MutEditRead(r, new) ==
    /\ editing = NotEditing
    /\ r \in Alive \ PhotoRow
    /\ r \in CoverRow => new # {}
    /\ editing' = [of |-> {r}, was |-> row[r], new |-> new]
    /\ UNCHANGED <<row, marker, script>>
EditRead(r, new) ==
    /\ editing = NotEditing
    /\ r \in Alive \ PhotoRow
    /\ r \in CoverRow => new # {}
    /\ \A i \in Slots(r) \ new : InMedia(row[r].images[i])
    /\ editing' = [of |-> {r}, was |-> row[r], new |-> new]
    /\ UNCHANGED <<row, marker, script>>

\* What was kept is written back as it was read; a page's text may change too.
EditWrite(r) ==
    /\ editing.of = {r} /\ r \in Alive
    /\ \E text \in {editing.was.text} \cup IF r \in PageRow THEN {"edited"} ELSE {} :
          row' = [row EXCEPT ![r] = [editing.was EXCEPT !.text = text,
                     !.images = [i \in Slots(r) |-> IF i \in editing.new THEN "fresh" ELSE @[i]]]]
    /\ editing' = NotEditing
    /\ UNCHANGED <<marker, script>>

EditFails ==
    /\ editing # NotEditing
    /\ editing' = NotEditing
    /\ UNCHANGED <<row, marker, script>>

DeleteRow(r) ==
    /\ r \in Alive
    /\ row' = [row EXCEPT ![r] = Gone]
    /\ UNCHANGED <<marker, script, editing>>

MigrateNext ==
    \/ \E dry \in BOOLEAN : MigrateStart(dry)
    \/ ReadPhotos \/ ReadAlbums \/ ReadPages \/ Decide \/ MigrateApply \/ MigrateDies
    \/ \E r \in Row :
          \/ EditWrite(r) \/ DeleteRow(r)
          \/ \E new \in SUBSET Slots(r) : EditRead(r, new)
    \/ EditFails

MigrateSpec == MigrateInit /\ [][MigrateNext]_migrateVars

-----------------------------------------------------------------------------
(* Properties.                                                             *)

\* Once the marker is set, which is never unset, every image that is shown is
\* a media:// reference: also if updates of pages and covers cross the script,
\* whatever they and the script write back of what they read before.
MarkedMeansMigrated ==
    marker =>
        \A r \in Alive : \A i \in Slots(r) :
            InMedia(row[r].images[i]) \/ (r \in CoverRow /\ row[r].images[i] = "empty")

\* When the migration commits, a row goes on showing the same objects and text
\* as before, whatever updates cross the script: only a row that showed a legacy
\* image when it was read is written, and one that an update has written since
\* goes back to what was read.
SameObject(before, after) == after = IF before = "legacy" THEN "media" ELSE before
WasLegacy(r) == \E i \in DOMAIN script.read[r].images : script.read[r].images[i] = "legacy"
MigrationKeepsContent ==
    [][~marker /\ marker' =>
          \A r \in Alive :
              LET shown == IF WasLegacy(r) THEN script.read[r] ELSE row[r]
              IN  /\ row'[r].text = shown.text
                  /\ \A i \in Slots(r) : SameObject(shown.images[i], row'[r].images[i])]_migrateVars
=============================================================================
