# Verification of secret-space

TLA+ models of the server's protocols, of the client and of the back office, TLC
configurations that check them on small instances, and TLAPS proofs for every
size. Paths are relative to
`src/packages/` unless they start with `src/`.

## 1. The system

secret-space is a pnpm monorepo: a NestJS server on SQLite (Prisma) and an
object store (R2), a Vue client that shows a scene with a map and albums, and a
Vue back office for the administrator.

| Part | State it keeps | Operations | Talks to |
|---|---|---|---|
| Uploads and receipts (`server/src/media/r2-media-storage.ts`, `media-upload-receipt.service.ts`, `media.controller.ts`) | staging and final objects, `MediaUploadReceipt` rows | presign, PUT by the browser, confirm (validate, copy, unstage, issue), peek, consume | photo and album services, R2 |
| Photos (`server/src/photo`) | `Photo` rows | presign, create, update, reorder, delete | receipts, deletion tasks |
| Albums and pages (`server/src/album`) | `Album` and `Page` rows, images as `media://` references in a JSON column | create, update, delete, createPage, updatePage, deletePage, reorderPages | receipts, deletion tasks |
| Deletion tasks (`server/src/media/media-deletion.service.ts`) | `MediaDeletionTask` rows | enqueueMany (in the caller's transaction), runDueDeletions (after a delete, at start-up, on the administrator's retry) | R2 |
| Sessions (`server/src/auth/session.service.ts`, `session.guard.ts`) | `Session` rows, the cookie | create with a cap for administrators, validate, revoke, cleanupExpired | every guarded request |
| Rate limit, token cutoff (`server/src/auth/rate-limit.guard.ts`, `roles.guard.ts`) | in-memory counters and a cache | canActivate, recordFailure, getInvalidationCutoff | login, guarded requests |
| Provinces, tips, health | `Province` rows | reads, one update | - |
| Migration (`server/scripts/migrate-legacy-media-refs.ts`) | rows with legacy URLs, a marker | plan, apply, report | the same database |
| Client session (`client/src/stores/auth.ts`, `App.vue`, `PasswordPage.vue`, `LoadingPage.vue`, `audio/AudioManager.ts`) | role, version of the last operation, loading bar, sounds, and the cookie every guarded call may clear | initSession, verify, logout, fetching the tip and the content of the scene, unlocking the sound | `/auth`, the cookie jar |
| Client scene (`views/ScenePage.vue`, `components/*Overlay.vue`, `PhotoPanel.vue`, `AlbumViewer.vue`, `pixi/CameraController.ts`) | overlays, lists, the pages in the store, camera zone, open book | open and close map, shelf, panel and album; turn sheets; Escape; resize | `/provinces`, `/albums`, `/photos` |
| Back office session (`admin/src/stores/auth.ts`, `router/index.ts`, `main.ts`) | role, route | login, logout, guard of every navigation, 401 interceptor | `/auth` |
| Back office pages (`admin/src/views`, `AlbumPreview.vue`) | the list shown, the form, the selected page, receipts of uploads | toggle, upload, drag, save, delete, add | province, photo, album services |

What is hard: Node interleaves requests at every `await`, so what a handler read
before a transaction may be stale inside it; R2 and SQLite share no transaction;
the process may die between any two awaits; sweeps overlap because every delete
request starts one; answers come late, in two parts (headers, which set cookies,
and body), or never, and the pages they were meant for have been left meanwhile;
neither front end cancels a call or an animation. `PROJECT.json` lists each hazard at its
line.

What makes each part correct: an object that a record shows exists and nobody is
about to remove it; an upload is attached once; a record never goes without a
task for its object; a task is retried, never lost, and done only when the
object is gone; ended sessions stay out and the administrator cap holds; pages keep distinct positions whatever a
reorder overlaps with; the front ends show and send what belongs to the page,
form, province or album they are on.

## 2. Modules

| Module | Models | Checked by | Proved in |
|---|---|---|---|
| `MediaPromise` | abstract: objects are published, taken by a record, released when the record retires, and only then removed | `KeepsPromise` in `media_album` | `MediaPromiseProofs` |
| `MediaLifecycle` | every handler that attaches or removes media, one action per await | `media_*` through `MCMediaLifecycle` | `MediaLifecycleProofs` |
| `MediaRemoval` | the same with a history of what rows were given while a delete was under way | `media_removal` through `MCMediaRemoval` | `MediaLifecycleProofs` |
| `DeletionTasks` | the task queue: due times, backoff, batches, overlapping sweeps, restarts | `deletion_*` | `DeletionTasksProofs` |
| `DeletionOverlap` | the same with a history of the rows other sweeps put off | `deletion_two_sweeps` | `DeletionTasksProofs` |
| `AdminSession` | the session table under overlapping requests | `session_*` through `MCAdminSession` | `AccessProofs` |
| `PageOrder` | createPage, deletePage, reorderPages with two phases, three attempts, lost answers | `server_parts` through `MCServer` | `AlbumProofs` |
| `AlbumYears` | the unique year of albums | `server_parts` | `AlbumProofs` |
| `RateLimit` | the window of wrong passwords of one address | `server_parts` | `AccessProofs` |
| `TokenCutoff` | the cached cutoff for Bearer tokens | `server_parts` | `AccessProofs` |
| `Migration` | the rewriting of legacy URLs beside a running server | `server_parts` | `AlbumProofs` |
| `ClientSession` | session store, cookie jar, password and loading pages, sound | `client_app` through `MCClient` | `ClientProofs` |
| `PhotoPanel` | the photos of a province, with answers in any order | `client_app` | `ClientProofs` |
| `ClientScene` | overlays, page fetches, camera, the book that opens | `client_app` | `ClientProofs` |
| `FlipBook` | the sheets of the book, in the viewer and in the preview | `client_app` | `ClientProofs` |
| `AdminAuth` | auth store, router guard, 401 interceptor, login, logout | `admin_app` through `MCBackOffice` | `OfficeProofs` |
| `ProvinceVisits` | the visited switches and the rows behind them | `admin_app` | `OfficeProofs` |
| `PhotoOrder` | the photos of a province: page and service | `admin_app` | `OfficeProofs` |
| `AlbumForm` | the dialog for albums and its cover upload | `admin_app` | `OfficeProofs` |
| `PageEditor` | the editor of an album's pages | `admin_app` | `EditorProofs` |
| `PageDraft` | the dialog for a new page | `admin_app` | `EditorProofs` |

A proof module that covers several components has one section for each; the
sections share nothing.

### MediaLifecycle

`staged` and `stored` are the objects under `tmp/<key>` and `<key>`; `receipt`,
`tasks`, `rows` and `media` are the database, one value per key or row; `url` is
the presigned URL. `req[p]` is a request: `op` names the step it takes next and
the other fields hold what it read before. A handler is a *Read* action (its
queries and checks before the transaction) and a *Tx* action (the transaction):
`AlbumDeleteRead` stands for lines 101-104 of `album.service.ts`, `AlbumDeleteTx`
for the transaction, with the cascade over the pages the album has *then*.
`AlbumDeleteTimeout` and `AlbumDeleteRecheck` are the branch that reads the
album again. `ConfirmValidate`, `ConfirmCopy`, `ConfirmUnstage`, `ConfirmRecover`
and `ConfirmIssue` follow `confirmUpload` and `issue`. The sweep re-reads a task,
deletes the object and settles the task, or fails at either call. `End` is a
request that ends here, by an error or because its client is gone. `Restart`
drops every request and starts the boot sweep. A transaction is one step since
SQLite has one writer and a failing transaction rolls back. `boundTo` is a
history variable: the row whose transaction consumed the key's receipt.

`MediaRemoval` adds another: `added[p]` has the images that rows were given since
the deleting request `p` read its keys. With it the property of deletes can be
stated for overlapping requests: what an album or a page shows when it goes has a
task, or was added meanwhile.

Left out: orders, years, texts, templates and photo annotations; image validation
that refuses an upload (it changes nothing); rows without `media://` references,
which only the migration leaves behind; due times (the sweep may take any pending
task, a superset).

### DeletionTasks

`nextAttemptAt` is split into `wait` (the time until due, in units of 60 s) and
`queue` (pending rows by due time), which decide every comparison the code makes
and keep the state finite. `StartSweep` reads the batch; `ReadRow`,
`DeleteObject`/`DeleteFails`, `Settle`/`SettleFails`, `Record`/`RecordFails` are
`processOne` one await at a time. `owed` is a history variable: rows pending at
the last restart and not tried since. `DeletionOverlap` adds `putOff[s]`, the rows
of sweep `s`'s batch that another sweep has put off since it read them. Rows enter and leave the queue by position
(`NumDue`, `Without`), so that the provers can follow them.

### AdminSession

`table` holds the rows; `created` and `minted` are the orders of `createdAt` and
`expiresAt`, which differ when logins overlap, because the expiry is computed
before the insert is awaited. `call` is a request: `count`, `prune`, `insert` are
the three queries of `create`; `find`, `drop` those of `validate`; `revoke` is
logout. Sessions of one role live equally long, so `Expire` follows `minted`.

### The rest of the server

`PageOrder`: `order` is the committed column, `edit[w]` a request with the list,
draft and step it carries. The transaction of a reorder holds SQLite's writer from
its first phase (orders -1 to -n) to its second (1 to n); `UNIQUE` is tested at
every update. A commit may be answered with a timeout before or after it took
effect: `reorderPages` tries again either way, up to `MaxAttempts` times (3 in the
code). `chosen` (pages created at an order the client named) and `listed` (pages in
the lists committed so far) are histories: `ReorderFits` needs them to say which
pages may stand in the way of a list. `AlbumYears`: the year is looked up, the
receipt awaited, the row written; the unique index refuses the second writer.
`RateLimit`: `canActivate` tests the counter, `verify` awaits the hashes and
`recordFailure` raises it; time is the age of the window. `TokenCutoff`: ages of
the cache, of the raise and of each read stand for the times the code compares.
`Migration`: three reads, the plan (all or nothing), the marker and one
transaction that writes whole columns back; it may die at any step and be run
again. An update of the server signs the images it keeps before its transaction
(`album.service.ts:216-221`, `signUrl`) and ends with a 503 when one of them is no
`media://` reference: `EditRead` has that guard.

### The client

A call goes through the network in three steps: the server handles it, its
headers arrive (the browser applies `Set-Cookie`), its body is read. In
`ClientSession` `current` says whether a call is still the latest operation's;
`past` is history. The tip of the loading page and the content of the scene
(provinces, albums, pages, photos) are behind `SessionGuard` as well: those calls
(`HandleContent`, `TipEnds`, `ContentEnds`) go through the same steps, and their
refusal clears the cookie. One call of the scene at a time is in flight, any of
them; `CookieExpires` is the end of the cookie's `maxAge`, which begins after its
session's life. `PhotoPanel` compares the version of each answer after headers
and after body, like `PhotoPanel.vue`. `ClientScene` has one record for what
`ScenePage.vue` shows (`overlay`), one for the camera with the animations that run
(none is ever cancelled), and the fetches by album. `trail` is history: the albums
whose pages were under way when one was opened, whether pages came last for a
closed album, and where the camera was sent and was on its way to. `FlipBook` merges the two books,
which differ in the cover and in what a resize does; the page-flip library is
external and is used through its `flip` event.

### The back office

Each page's operations are jobs that overlap; a job carries what the code's
closure carries, and writes where the code writes when it ends, which is often the
page, form or row selected *then*. A call of a visited switch (`ProvinceVisits`)
has a number in the order the calls were made; the row may be written and the
answers may come in any order. The histories say what a job met, and the
properties hold of every behaviour: `turns` notes that switch and row have
parted, `others` the forms whose uploads were under way when a form was opened,
`past.met` the pages that were being uploaded to or saved when a page was
selected, `emptied` what was in flight when the receipts of a new page were
emptied. `crossed` of `AdminAuth` (an administrator was let in with another /me
in flight) silences its property, and `alone` of the photo page and the page
editor restricts the comparison of lists to operations that did not overlap
(section 4, Assumptions).

## 3. Runs

| Run | Instance | Shows |
|---|---|---|
| `media_photos` | 1 key, 2 photos, 2 requests | live media never deleted; photo removal registered; receipts never reopened; repeated confirmation recovers (liveness) |
| `media_album` | 2 keys, 1 album, 1 page, 2 requests | the inductive invariant, one owner per key, refinement of `MediaPromise` |
| `media_removal` | 2 keys, 1 album, 1 page, 2 requests | albums and pages take with them every image that was not attached while they were being deleted |
| `media_album_race` | 1 key, 2 requests | counterexample: the keys are collected outside the transaction |
| `deletion_two_sweeps` | 2 tasks, 2 sweeps | types with the capped backoff; done is final and means the object is gone; a row that is not due is tried only by a sweep that read it before it was put off |
| `deletion_settles` | 2 tasks, 1 sweep, batch 1 | no starvation by a row that always fails (liveness) |
| `deletion_restart` | 1 task | counterexample: a row in backoff is not retried by the restart |
| `session_overlap` | 3 sessions, 2 calls, cap 2 | ended sessions refused, the oldest go first |
| `session_cap_race` | 3 sessions, 2 calls, cap 2 | counterexample: count-prune-insert is not atomic |
| `server_parts` | 3 pages and 2 writers; 3 albums, 2 years, 2 requests; 2 logins; 2 Bearer requests; a photo, an album and a page to migrate | positions hold, default orders are free, reorders fit, the latest list rules; a taken year is answered; failures bounded, blocks end; old tokens refused; the migration |
| `client_app` | 2 sessions, with calls for the tip and for content; 2 provinces; albums of 1 and 3 pages; books of up to 7 pages | only the latest operation decides, only late answers clear a cookie, loading ends (liveness); the panel follows; albums open as asked, the camera follows; the sheets in sight are rendered |
| `admin_app` | 3 calls; a province with 3 calls of its switch in flight; 3 photos; 2 albums; 2 pages and 2 jobs; a draft | guarded pages need the role; switches, photos and pages as the server has them, covers and images where they belong, drafts that can be added |

Sums. The parts of `MCServer`, `MCClient` and `MCBackOffice` share no state, so
their interleavings say nothing new: each part is explored in full, from each of
its initial states, while the others wait at one of theirs. The instance is the
sum of the parts' state spaces, not their product, and every property is about
one part.

Bounds. Two overlapping requests are enough for every hazard listed, each of
which needs one stale reader and one writer; the proofs lift the safety results
they cover to any number. Two keys let an image be replaced, and two photos
compete for one upload. Three pages let a stale list miss one and name one that
is gone; the explicit order is 2, which a default can meet. The cap is 2 instead of 5 and the batch limit 1 or 2 instead of 50, so that both
are reached; the delay cap is 2 units instead of 60; `MaxFailures`, `Window` and
`CacheLife` are 2 and the attempts of a reorder 2 instead of 3, so that the limit
is reached by overlapping requests and passed by the clock. `MaxAttempts` and
`MaxRestarts` of `DeletionTasks` bound the counters: attempts are not told apart
above 3, and one restart is enough to lose what a sweep had in hand. In the
client, 3 requests of the panel let two be outdated, 3 camera moves let the first
end last, one fetch per album at a time still overlaps the other album's, and 7
pages are needed for a sheet to be outside the rendered distance. In the back
office `MaxCalls`, `MaxToggles`, `MaxTasks` and `MaxCovers` bound what is in
flight together. Provinces do not interact, so one is enough; three calls of its
switch are needed for a chain whose middle one is refused, and one form besides
the open one for a receipt that goes to the wrong album.

Keys, photos, requests, sessions, calls, pages and jobs are interchangeable and
symmetric where a configuration says so; the liveness runs use no symmetry.
`admin_app` has a constraint, `Telling`: `crossed` is never reset and the property
that looks at it holds trivially once it is set, so the states behind it are not
explored further; no other part has such a flag. Two kinds of runs switch
the deadlock check off: in the `DeletionTasks` runs nothing is left to happen with
every task done and the restarts used up, and in `client_app` a browser without
WebGL never gets past the page that says so.

Fairness. `ConfirmSpec`: every request ends, the browser repeats the confirmation
until it is answered, and R2 neither fails nor refuses for ever (strong fairness
on the steps it may refuse). `ServiceSpec`: time passes and a sweep in progress
goes on; nothing else, because nothing in the service triggers another sweep.
`BusySpec` adds an administrator who keeps retrying, a database that does not fail
for ever and, for the `Healthy` rows only, a store that does not either.
`SessionSpec`: the tip is answered or fails, the interval of the loading bar goes
on, the router enters the scene: all three are the browser's event loop. No
other liveness property is stated for the front ends: what else they wait for is
a network that may never answer.

## 4. Proofs

Every theorem holds for all values of the constants that satisfy the assumptions
listed below. Each component has one inductive invariant from which its theorems
follow; the comments in the proof modules give the arguments step by step. TLC
checks the properties they imply, and `MediaInv` itself in `media_album`.

### Media (`MediaLifecycleProofs`, `MediaPromiseProofs`)

* `MediaInvHolds`: `MediaInv` is an invariant of `MediaLifecycle` for every
  choice of the constants. `LiveMediaNeverDeleted` is not inductive: a sweep could
  remove the object of a live row if a task named it, so `TasksOfGoneRows` is
  needed; that in turn needs the keys a delete request carries to belong to the
  row it deletes (`ReadsStillBound`), although they were read earlier; and a row
  shows only stored objects because an open receipt implies the object is there
  or a task exists (`StoredUntilTask`). What makes stale reads harmless is that
  `boundTo` never changes once set and tasks are never deleted (`Advance`): the
  lemma `UnmovedStillBound` says so once, and every action needs only its own
  request. `AttachKeeps` and `DeleteRowsKeeps` are the two kinds of transaction.
  `AlbumDeleteCarries` is where it matters that pages never change albums.
* `LiveMediaSafe`, `OneOwner`, `TypesHold` follow from it.
* `PhotosLeaveTasks`: a photo never goes without a task for its object. The key to
  register is read before the transaction; `PhotoInv` says why it is still the
  right one: the key of a photo is taken when its row is inserted, and a row that
  has existed is never inserted again (`PhotoAdvance`), so whatever happens between
  the two steps the photo can take no other key.
* `AlbumsLeaveTasks`, `PagesLeaveTasks`: for any number of overlapping requests. The
  keys a delete carries, with what rows were given since it read them, are all that
  its rows show (`RemovalInv`): an image that a row did not show then is a gift
  (`Given`), and a page that has come into the album since came with its images.
  `RemovalIsSpec` carries `MediaInv` over to the specification with the history.
  Without the gifts both fail (`media_album_race`).
* `ReceiptsStayUsed`: by cases on the steps, since only an issue opens a receipt.
* `ImplementsPromise`: every step maps to a step of `MediaPromise` or a stutter
  under `object <- stored`, `holder <- boundTo`, retired and released read off
  `rows` and `tasks`. `PromiseSafe`: the promise implies `HeldIsPresent`.

### Deletion tasks (`DeletionTasksProofs`)

* `DoneObjectsAreGone`, `DoneStaysDone`: a sweep settles a row only after it has
  removed the object (`SettlingObjectGone`), nothing puts an object back, and no
  step but `Settle` writes the status of a row that exists.
* `TasksHaveTypes`: the types alone are not inductive, because a row that is put
  off is taken from the queue and put back by position. `TaskInv` adds that the
  queue has the pending rows, each once and in the order of their due times
  (`QueueRight`), and that a batch has rows that exist (`Batches`).
* `OnlyDueTried`: for any number of overlapping sweeps. A row that a batch has left
  is due still, or another sweep has put it off since (`DueInv`):
  time only passes, and a row is put off only when its failure is recorded, which
  takes it out of the batch of the sweep that records it. `processOne` looks at the
  status of the row, not at its time, so the exception is the code's.

### Getting in (`AccessProofs`)

* `EndedSessionsRefused`: a new row always has a session never seen before and each
  pending login its own (`PendingAreNew`), so nothing brings an ended session back
  (`LateHasEnded`).
* `OldestSignedOut`: a session has one row, ever, so "created before" is an order,
  and what the prune query read stays the oldest part of the table until it is
  deleted: rows only go in between, or come as the youngest (`EvictInv`).
* `FailuresAreBounded`: the count alone is not inductive. Once the address is
  refused, only logins that were let in before can raise it, each once, so count
  and logins that still compare are bounded together (`LimitInv`). `BlockEnds`: the
  time an address has been refused is never longer than its window is old, and an
  old window lets it in (`BlockInv`).
* `OldTokensAreRefused`: slow reads may overwrite a new value in the cache by an old
  one; but the stamp stored with it is the time the request asked at, so a stored
  value without the raise is older than the raise and expires before a cache life
  is over (`CutoffInv`).

### Albums (`AlbumProofs`)

* `PositionsAreKept`, `DefaultsAreFree`, `LatestLists` and `ReordersFit` rest on
  `PagesInv`: unique orders, at most one open transaction, and what its draft holds
  after each of its updates (`RequestOK`). A list that is accepted is a permutation of
  the rows, by counting (`AcceptedIsRows`); as many rows at orders of their own
  reach at least that far, which is why the default order is free of collisions
  and why a list collides only with a page that somebody placed. An earlier form
  of `ReorderFits` blamed client-chosen orders alone. The proof attempt failed where
  another list had moved the page in the way; TLC confirms it with three
  overlapping requests and could not see it with the two of `server_parts`. The
  property now names both (`chosen`, `listed`).
* `YearConflictsAreAnswered`: an update that no other commit came after still
  finds what it looked for (`YearsInv`).
* `MarkedAreMigrated`, `MigrationKeepsTheContent`: with updates and deletes that cross
  the script at every step. What the script has read is what is there, or the row
  has been updated since and shows references only; an update carries no image
  but references (`MigrateInv`). So an apply finds nothing legacy that it has not
  read, an update writes nothing legacy back, and the only rows the script writes
  are those that showed a legacy image when they were read.

### Client (`ClientProofs`)

* `LatestOperationDecides`: an answer acts on the store only while its call is
  current; `StoreInv` says that no call is current but that of the operation begun
  last, and none once it has let the user in. `CookiesAreKept`: the browser applies
  the cookie of every answer, current or not; `CookieInv` says that an answer that
  clears the cookie was given to a session that has ended, which a session that
  lives is not; so only one sent with another, older cookie can take it away. The
  calls for content are part of that, and so is the end of the cookie's life.
* `PanelShowsWhatWasChosen`: of all requests only the one with the panel's version
  touches it, and it is for the province shown (`PanelInv`).
* `AlbumsOpenAsAsked`, `CameraFollowsTheOverlay`: nothing is assumed about what the
  user does during a fetch or an animation. `BookFollows` says which pages can come
  into the book: those under way when its album was opened, for a later fetch begins
  only with the opening of another album; `MapFollows` and `ZoneFollows` say which overlays late pages
  can open, and `LastRunning` that the animation begun last is running or has
  ended before those it was begun behind.
* `SheetsInSightAreRendered`: a turn goes to a neighbouring spread (`BookInv`), at
  most two sheets away, and the rendered window has three on each side.

### Back office (`OfficeProofs`, `EditorProofs`)

* `GuardedPagesHaveARole`: a store that is sure of having no role has just been
  told so, and then a navigation away is under way (`AuthInv`).
* `SwitchesShowTheServer`: any number of calls of one switch. As long as switch and
  row have not parted, the calls that have not reached the row or whose refusal
  has not come form a chain from what the row has to what the switch shows, each
  carrying the opposite of the one before (`Chained`): a call that reaches the row,
  or the last one's refusal, shortens it at one end, and with none left both are
  the same. The four ways to part are the steps that break it: a write
  out of order or from an earlier page, an answer lost after the write, a
  refusal of a call that is not the last.
* `PhotosShowTheServer`: an operation that is alone carries the list the server has
  or is about to have (`PhotosInv`); the positions a permutation writes sort it
  again, and with equal orders the list is one of the `Listings`.
* `CoversAreTheirAlbums`: a cover in the form, in the submission or in a row is its
  own, or of a form whose upload was under way when the form was opened (`FormInv`);
  uploads can go into no other form than those that were opened while they ran.
* `EditsStay`, `PagesAreAsStored`: `EditorInv` has a part for each. `Mine`: every image
  that is stored, shown, held by the selected page or carried by a call is of the
  page it is with or of one that page has met, and the selected page has met every
  page that is written to; pairs are never forgotten (`MetStays`). `OneAlone` as long
  as operations do not overlap. Each kind of step (begin, go on, end) is one lemma.
* `DraftsCanBeAdded`: since the receipts were emptied they have grown only by what
  uploads have assigned, so there is no hole among the slots they were emptied for
  and no gap past them, and their number is one of those slots' or of an upload's
  (`DraftInv`); counting them and looking at each agree but for those.

### Assumptions

Sets of identifiers that the code tells apart are disjoint, and a name that means
"none" is not in the set it is the absence from (`IdentifiersAreDistinct`,
`ProvincesAreNoSights`, `NoneIsNoBook` and their like); every page has an album and
every album a number of pages; caps, limits, lives and numbers of attempts are
positive; the bounds of the models are naturals, with no upper limit; the overlapping
logins are finitely many. No theorem adds a hypothesis to the property it states,
and the properties of the overlapping operations hold of every behaviour. Two
have a condition of their own: `GuardedNeedsRole` says nothing once an
administrator was let in with another /me in flight (`crossed`: a late refusal
then takes the role from a store that is on a guarded page, which is what the
code does), and `PagesAsStored` and `PhotosAsStored` compare the lists when the
operations since the page was opened did not overlap, since a list is read again
only after some of them.

### Only model-checked

The liveness properties (`ConfirmationRecovers`, `HealthyRowsSettle`,
`LoadingEnds`), since fairness and `ENABLED` are out of the prover's reach; that
the three violated properties fail. Every invariant and action property of the
passing runs has a theorem. What the provers cannot open is kept out of the
definitions they need: recursive library operators (`SelectSeq`, sums over
sequences) and powers of two: `Backoff` asks whether its power is within the cap
instead of taking a minimum, and queues and lists lose their elements by position.

## 5. Where code and documents differ

Each violation run is a counterexample to a sentence of a document or comment,
quoted in `PROJECT.json` under `findings`: images missed by an album delete, rows
not retried at a restart, the administrator cap. The models and the reading
behind them show more that has no run of its own.

Server:

* A page delete, like an album delete, misses an image that a concurrent update
  attached: the exception in `PageLeavesTasks`.
* Of two overlapping sweeps the slower one tries a row the faster one has just put
  off (the exception in `OnlyDueAttempted`), and may write back a lower count.
* An expired session removed by somebody else between validate's read and its
  delete ends the request with an error (`Drop`).
* A reorder that runs into the order of a page created meanwhile is answered with
  500: only timeouts are retried. So is an album update that loses the race for a
  year (create answers 409).
* updatePage and the migration write whole contents back: of two that overlap the
  later one wins. An update that is committed between the script's read and its
  commit is lost if it replaced a legacy image (`MigrationKeepsContent`); none
  brings a legacy image back (`MarkedMeansMigrated`).
* After deletes a photo may be given an order another one has: photo orders are
  only compared.

None of them breaks `MediaPromise`: they leave orphans, extra attempts and extra
sessions, and never remove what is shown.

Front ends:

* A page fetch that is answered after its album was closed leaves the viewer asked
  for without an album; the map or the shelf that is opened then has no close
  button, because it is shown only without a viewer (`trail.stray` in
  `OpenedAsAsked`). Pages that come after another album was opened go into that
  one's book.
* A zoom out is shorter than a zoom in: begun soon after it, it ends first, and the
  camera comes to rest at the zone that was left (`trail.behind` in
  `CameraFollows`). A resize shows the room whatever is open.
* Every guarded call clears the cookie when it is refused, also the cookie of a
  login that was answered meanwhile (`past.late` in `CookieKept`).
* An upload or a save that ends after another page was selected writes to that
  page; the receipt of a cover goes to the form that is open then; a receipt that
  comes late lengthens the receipts of a new page, and an answer that comes late
  gives them the number of another template. The exceptions in
  `EditsStayOnTheirPage`, `CoversBelong` and `DraftCanBeAdded` name these cases, and
  the properties exclude every other.
* A visited switch that fails flips the value shown now, not the one it had, and
  calls of one switch may reach the row out of order (`turns` in
  `SwitchesAreRight`).
* The documents (`src/docs/active/0.1.0/p2-album/spec.md:81-86`, `design.md:279`)
  have the viewer render sheets at a distance of two; the code has three, and in a
  wide window the far sheet of a turn needs them (`SheetsAreRendered` fails with two).
* The next button stays enabled on the last spread when the number of pages is odd.
* The colours extracted from a cover do not reach the element they are meant for:
  they are applied before the image has loaded.

## 6. What is left

Not modelled:

* Photo annotations (`photo.service.ts`, update; the dialog of `PhotoManage.vue`):
  one column, last write wins; with the orders in the same module the instance
  grows beyond use, and no property relates the two.
* Functions nothing calls: `swipeTo` and `updateViewport` of the camera,
  `playAmbient` and `stopAll` of the audio manager.
* Rendering, styling and layout (no state), the `spike` directory (an experiment
  the packages do not import), the seed, DTO validation (refuses before any
  handler), configuration and bootstrap (read once).

Worth adding: the bound on the administrator cap under overlap (the cap and one
session more for each other login in flight); a refinement of the session store to
one that answers at once; the late /me of `crossed` as a bound on how long the
wrong role can last.
