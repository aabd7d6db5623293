------------------------ MODULE MediaLifecycleProofs ------------------------
(***************************************************************************)
(* MediaInv is inductive, so for any number of keys, rows and overlapping  *)
(* requests no live record loses its object; a receipt is used once, a     *)
(* photo leaves a deletion task behind when it goes, and albums and pages  *)
(* leave one for every image but those that were attached between the read *)
(* and the transaction of the request that deleted them.                   *)
(***************************************************************************)
EXTENDS MediaRemoval, SequenceTheorems, TLAPS

\* The facts about keys, rows and tasks, without those about requests.
DataInv ==
    /\ MediaHasOneOwner
    /\ BoundWhenConsumed
    /\ TasksOfGoneRows
    /\ StoredUntilTask

\* What no step takes back: a row that took a key keeps it in the history,
\* deletion tasks stay, and an object goes only when a task names its key.
Advance ==
    /\ \A k \in Key : boundTo[k] # NoOwner => boundTo'[k] = boundTo[k]
    /\ \A k \in Key : DOMAIN tasks[k] \subseteq DOMAIN tasks'[k]
    /\ \A k \in Key : Kept(k) => Kept(k)'

Others(p) == \A q \in Request \ {p} : req'[q] = req[q]

LEMMA InitMediaInv == Init => MediaInv
<1> SUFFICES ASSUME Init PROVE MediaInv
  OBVIOUS
<1> USE DEF Init
<1>1. TypeOK
  BY DEF TypeOK, Idle, Work, RequestState, Op
<1>2. MediaHasOneOwner /\ BoundWhenConsumed /\ TasksOfGoneRows /\ StoredUntilTask
  BY IdentifiersAreDistinct DEF MediaHasOneOwner, BoundWhenConsumed, TasksOfGoneRows, StoredUntilTask
<1>3. ReadsStillBound
  BY DEF ReadsStillBound, Carried, CarriedDelete, CarriedWrite, Idle, Work
<1>4. QED
  BY <1>1, <1>2, <1>3 DEF MediaInv

LEMMA WorkType ==
  ASSUME NEW op \in Op, NEW o \in Owner \cup {NoOwner}, NEW K \in SUBSET Key
  PROVE  Work(op, o, K) \in RequestState
BY DEF Work, RequestState

LEMMA IdleType == Idle \in RequestState
BY WorkType DEF Idle, Op

\* A request that does not move can still act on what it has read.
LEMMA UnmovedStillBound ==
  ASSUME TypeOK, ReadsStillBound, Advance, NEW q \in Request, req'[q] = req[q]
  PROVE  Carried(req[q])'
<1> DEFINE r == req[q]
<1>1. Carried(r) /\ r.keys \subseteq Key /\ r.kept \subseteq Key
  BY DEF ReadsStillBound, TypeOK, RequestState
<1>2. r.op \in {"unstage", "issue"} => \A k \in r.keys : Kept(k)'
  BY <1>1 DEF Carried, Advance
<1>3. \A k \in r.keys : boundTo[k] \in Owner => boundTo'[k] = boundTo[k]
  BY <1>1, IdentifiersAreDistinct DEF Advance
<1>4. CarriedDelete(req[q])'
  BY <1>1, <1>3 DEF Carried, CarriedDelete, Owner
<1>5. CarriedWrite(req[q])'
  BY <1>1, IdentifiersAreDistinct DEF Carried, CarriedWrite, Owner, Advance
<1>6. r.op \in {"remove", "settle"} => \A k \in r.keys : r.row \in DOMAIN tasks'[k]
  BY <1>1 DEF Carried, Advance
<1>7. QED
  BY <1>2, <1>4, <1>5, <1>6 DEF Carried

LEMMA OneMoves ==
  ASSUME TypeOK, ReadsStillBound, Advance,
         NEW p \in Request, Others(p), Carried(req[p])'
  PROVE  ReadsStillBound'
<1> SUFFICES ASSUME NEW q \in Request PROVE Carried(req[q])'
  BY DEF ReadsStillBound
<1>1. CASE q = p
  BY <1>1
<1>2. CASE q # p
  BY <1>2, UnmovedStillBound DEF Others
<1>3. QED
  BY <1>1, <1>2

LEMMA NobodyMoves ==
  ASSUME TypeOK, ReadsStillBound, Advance, UNCHANGED req
  PROVE  ReadsStillBound'
BY UnmovedStillBound DEF ReadsStillBound

LEMMA SameDatabase ==
  ASSUME DataInv, UNCHANGED <<store, database>>
  PROVE  DataInv' /\ Advance
BY DEF DataInv, Advance, Kept, MediaHasOneOwner, BoundWhenConsumed,
       TasksOfGoneRows, StoredUntilTask, store, database

\* An idle request carries nothing.
LEMMA IdleCarried ==
  ASSUME NEW p \in Request, req'[p] = Idle
  PROVE  Carried(req[p])'
BY DEF Carried, CarriedDelete, CarriedWrite, Idle, Work

-----------------------------------------------------------------------------
(* What the two kinds of transaction do to DataInv.                        *)

\* Keys with an open receipt are held by nobody and named by no task.
LEMMA ConsumableIsFree ==
  ASSUME TypeOK, DataInv, NEW K \in SUBSET Key, Consumable(K)
  PROVE  \A k \in K : /\ boundTo[k] = NoOwner
                      /\ tasks[k] = <<>>
                      /\ \A o \in Owner : k \notin media[o]
BY IdentifiersAreDistinct
   DEF TypeOK, DataInv, MediaHasOneOwner, BoundWhenConsumed, TasksOfGoneRows, Consumable

LEMMA AttachKeeps ==
  ASSUME TypeOK, DataInv,
         NEW o \in Owner, NEW K \in SUBSET Key, NEW kept \in SUBSET Key,
         \A k \in kept : boundTo[k] = o,
         Attach(o, K, kept),
         rows' \in [Owner -> {"absent", "live", "gone"}],
         rows'[o] = "live",
         \A x \in Owner \ {o} : rows'[x] = rows[x],
         rows[o] # "gone",
         UNCHANGED <<stored, tasks>>
  PROVE  /\ DataInv' /\ Advance
         /\ receipt' \in [Key -> {"none", "open", "consumed", "expired"}]
         /\ boundTo' \in [Key -> Owner \cup {NoOwner}]
         /\ media' \in [Owner -> SUBSET Key]
<1>1. \A k \in K : /\ boundTo[k] = NoOwner
                   /\ tasks[k] = <<>>
                   /\ \A x \in Owner : k \notin media[x]
  BY ConsumableIsFree DEF Attach
<1>2. /\ receipt' \in [Key -> {"none", "open", "consumed", "expired"}]
      /\ boundTo' \in [Key -> Owner \cup {NoOwner}]
      /\ media' \in [Owner -> SUBSET Key]
  BY DEF Attach, TypeOK
<1>3. \A k \in K : boundTo'[k] = o /\ receipt'[k] = "consumed" /\ receipt[k] = "open"
  BY DEF Attach, Consumable
<1>4. \A k \in Key \ K : boundTo'[k] = boundTo[k] /\ receipt'[k] = receipt[k]
  BY DEF Attach
<1>5. media'[o] = K \cup kept /\ \A x \in Owner \ {o} : media'[x] = media[x]
  BY DEF Attach, TypeOK
<1>6. MediaHasOneOwner'
  <2> SUFFICES ASSUME NEW x \in Owner, NEW k \in media'[x]
               PROVE  boundTo'[k] = x /\ rows'[x] = "live"
    BY DEF MediaHasOneOwner
  <2>1. CASE x = o /\ k \in K
    BY <1>3, <2>1
  <2>2. CASE x = o /\ k \notin K
    BY <1>4, <1>5, <2>2
  <2>3. CASE x # o
    <3>1. k \in media[x] /\ k \in Key
      BY <1>2, <1>5, <2>3
    <3>2. k \notin K
      BY <1>1, <3>1
    <3>3. QED
      BY <1>4, <2>3, <3>1, <3>2 DEF DataInv, MediaHasOneOwner
  <2>4. QED
    BY <2>1, <2>2, <2>3
<1>7. BoundWhenConsumed'
  <2> SUFFICES ASSUME NEW k \in Key
               PROVE  /\ receipt'[k] = "consumed" <=> boundTo'[k] # NoOwner
                      /\ boundTo'[k] \in Owner => rows'[boundTo'[k]] # "absent"
    BY DEF BoundWhenConsumed
  <2>1. CASE k \in K
    BY <1>3, <2>1, IdentifiersAreDistinct
  <2>2. CASE k \notin K
    BY <1>4, <2>2 DEF DataInv, BoundWhenConsumed
  <2>3. QED
    BY <2>1, <2>2
<1>8. TasksOfGoneRows'
  BY <1>1, <1>4 DEF DataInv, TasksOfGoneRows, TypeOK
<1>9. StoredUntilTask'
  BY <1>3, <1>4 DEF DataInv, StoredUntilTask, Kept
<1>10. Advance
  BY <1>1, <1>4 DEF Advance, Kept
<1>11. QED
  BY <1>2, <1>6, <1>7, <1>8, <1>9, <1>10 DEF DataInv

LEMMA EnqueueGrows ==
  ASSUME TypeOK, NEW K \in SUBSET Key, EnqueueMany(K)
  PROVE  /\ tasks' \in [Key -> Seq({"pending", "done"})]
         /\ \A k \in Key : DOMAIN tasks[k] \subseteq DOMAIN tasks'[k]
         /\ \A k \in Key : tasks[k] # <<>> => tasks'[k] # <<>>
         /\ \A k \in K : tasks'[k] # <<>>
         /\ \A k \in Key \ K : tasks'[k] = tasks[k]
<1> DEFINE S == {"pending", "done"}
<1>1. \A k \in Key : tasks'[k] = IF k \in K THEN Append(tasks[k], "pending") ELSE tasks[k]
  BY DEF EnqueueMany
<1>2. ASSUME NEW k \in Key
      PROVE  /\ Append(tasks[k], "pending") \in Seq(S)
             /\ Append(tasks[k], "pending") # <<>>
             /\ DOMAIN tasks[k] \subseteq DOMAIN Append(tasks[k], "pending")
  <2>1. tasks[k] \in Seq(S) /\ "pending" \in S
    BY DEF TypeOK
  <2>2. /\ Append(tasks[k], "pending") \in Seq(S)
        /\ Append(tasks[k], "pending") # <<>>
        /\ Len(Append(tasks[k], "pending")) = Len(tasks[k]) + 1
    BY <2>1, AppendProperties
  <2>3. /\ Len(tasks[k]) \in Nat
        /\ DOMAIN tasks[k] = 1 .. Len(tasks[k])
    BY <2>1, LenProperties
  <2>4. DOMAIN Append(tasks[k], "pending") = 1 .. Len(Append(tasks[k], "pending"))
    BY <2>2, LenProperties
  <2>5. QED
    BY <2>2, <2>3, <2>4
<1>3. tasks' \in [Key -> Seq(S)]
  BY <1>2 DEF EnqueueMany, TypeOK
<1>4. QED
  BY <1>1, <1>2, <1>3

LEMMA DeleteRowsKeeps ==
  ASSUME TypeOK, DataInv,
         NEW O \in SUBSET Owner, NEW K \in SUBSET Key,
         \A o \in O : rows[o] = "live",
         \A k \in K : boundTo[k] \in Owner
                        /\ (boundTo[k] \in O \/ rows[boundTo[k]] = "gone"),
         DeleteRows(O, K),
         UNCHANGED <<stored, receipt, boundTo>>
  PROVE  /\ DataInv' /\ Advance
         /\ tasks' \in [Key -> Seq({"pending", "done"})]
         /\ rows' \in [Owner -> {"absent", "live", "gone"}]
         /\ media' \in [Owner -> SUBSET Key]
<1>1. /\ tasks' \in [Key -> Seq({"pending", "done"})]
      /\ \A k \in Key : DOMAIN tasks[k] \subseteq DOMAIN tasks'[k]
      /\ \A k \in Key : tasks[k] # <<>> => tasks'[k] # <<>>
      /\ \A k \in Key \ K : tasks'[k] = tasks[k]
  BY EnqueueGrows DEF DeleteRows
<1>2. /\ rows' \in [Owner -> {"absent", "live", "gone"}]
      /\ media' \in [Owner -> SUBSET Key]
  BY DEF DeleteRows, TypeOK
<1>3. \A o \in Owner : /\ rows'[o] = IF o \in O THEN "gone" ELSE rows[o]
                       /\ media'[o] = IF o \in O THEN {} ELSE media[o]
  BY DEF DeleteRows
<1>4. MediaHasOneOwner'
  BY <1>3 DEF DataInv, MediaHasOneOwner
<1>5. BoundWhenConsumed'
  BY <1>3 DEF DataInv, BoundWhenConsumed
<1>6. TasksOfGoneRows'
  BY <1>1, <1>3 DEF DataInv, TasksOfGoneRows
<1>7. StoredUntilTask'
  BY <1>1 DEF DataInv, StoredUntilTask, Kept
<1>8. Advance
  BY <1>1 DEF Advance, Kept
<1>9. QED
  BY <1>1, <1>2, <1>4, <1>5, <1>6, <1>7, <1>8 DEF DataInv

-----------------------------------------------------------------------------
(* How a request moves.                                                    *)

LEMMA BeginMoves ==
  ASSUME TypeOK, NEW p \in Request, NEW r \in RequestState, Begin(p, r)
  PROVE  req' \in [Request -> RequestState] /\ Others(p) /\ req'[p] = r
BY DEF TypeOK, Begin, Others

LEMMA ProceedMoves ==
  ASSUME TypeOK, NEW p \in Request, NEW op \in Op, Proceed(p, op)
  PROVE  /\ req' \in [Request -> RequestState]
         /\ Others(p)
         /\ req'[p] = [req[p] EXCEPT !.op = op]
BY DEF TypeOK, Proceed, Others, RequestState

LEMMA FinishMoves ==
  ASSUME TypeOK, NEW p \in Request, Finish(p)
  PROVE  /\ req' \in [Request -> RequestState]
         /\ Others(p)
         /\ Carried(req[p])'
<1>1. req' \in [Request -> RequestState] /\ Others(p) /\ req'[p] = Idle
  BY IdleType DEF TypeOK, Finish, Others
<1>2. QED
  BY <1>1, IdleCarried

\* A step that only moves one request, and leaves with it nothing false.
LEMMA ReadStep ==
  ASSUME MediaInv, NEW p \in Request,
         UNCHANGED <<url, store, database>>,
         req' \in [Request -> RequestState], Others(p), Carried(req[p])'
  PROVE  MediaInv'
<1>1. TypeOK /\ DataInv /\ ReadsStillBound
  BY DEF MediaInv, DataInv
<1>2. TypeOK'
  BY <1>1 DEF TypeOK, store, database
<1>3. DataInv' /\ Advance
  BY <1>1, SameDatabase
<1>4. ReadsStillBound'
  BY <1>1, <1>3, OneMoves
<1>5. QED
  BY <1>2, <1>3, <1>4 DEF MediaInv, DataInv

\* A step of a request that also changes the store or the database.
LEMMA WriteStep ==
  ASSUME MediaInv, NEW p \in Request, TypeOK', DataInv', Advance,
         Others(p), Carried(req[p])'
  PROVE  MediaInv'
BY OneMoves DEF MediaInv, DataInv

\* A step of the browser or of the passing of time.
LEMMA OutsideStep ==
  ASSUME MediaInv, TypeOK', DataInv', Advance, UNCHANGED req
  PROVE  MediaInv'
BY NobodyMoves DEF MediaInv, DataInv

-----------------------------------------------------------------------------
(* One lemma per group of actions.                                         *)

LEMMA UploadStep ==
  ASSUME MediaInv, NEW k \in Key, Upload(k) \/ ReceiptExpires(k)
  PROVE  MediaInv'
<1>0. TypeOK /\ DataInv
  BY DEF MediaInv, DataInv
<1>1. CASE Presign(k) \/ UrlExpires(k)
  <2>1. TypeOK' /\ UNCHANGED <<store, database, req>>
    BY <1>0, <1>1 DEF Presign, UrlExpires, TypeOK, store, database
  <2>2. QED
    BY <1>0, <2>1, SameDatabase, OutsideStep
<1>2. CASE Put(k) \/ StagingLifecycle(k)
  <2>1. TypeOK' /\ UNCHANGED <<stored, database, req>>
    BY <1>0, <1>2 DEF Put, StagingLifecycle, TypeOK, database
  <2>2. DataInv' /\ Advance
    BY <1>0, <2>1 DEF DataInv, Advance, Kept, MediaHasOneOwner, BoundWhenConsumed,
                      TasksOfGoneRows, StoredUntilTask, database
  <2>3. QED
    BY <2>1, <2>2, OutsideStep
<1>3. CASE ReceiptExpires(k)
  <2>1. TypeOK' /\ UNCHANGED <<stored, tasks, rows, media, boundTo, req>>
    BY <1>0, <1>3 DEF ReceiptExpires, TypeOK, store
  <2>2. \A x \in Key : /\ receipt'[x] = "consumed" <=> receipt[x] = "consumed"
                       /\ receipt'[x] # "none" <=> receipt[x] # "none"
    BY <1>0, <1>3 DEF ReceiptExpires, TypeOK
  <2>3. DataInv' /\ Advance
    BY <1>0, <2>1, <2>2 DEF DataInv, Advance, Kept, MediaHasOneOwner, BoundWhenConsumed,
                            TasksOfGoneRows, StoredUntilTask
  <2>4. QED
    BY <2>1, <2>3, OutsideStep
<1>4. QED
  BY <1>1, <1>2, <1>3 DEF Upload

LEMMA ConfirmStep ==
  ASSUME MediaInv, NEW p \in Request, Confirm(p)
  PROVE  MediaInv'
<1>0. TypeOK /\ DataInv /\ Carried(req[p]) /\ req[p] \in RequestState
  BY DEF MediaInv, DataInv, ReadsStillBound, TypeOK
<1>1. ASSUME NEW k \in Key, ConfirmValidate(p, k)
      PROVE  MediaInv'
  <2>1. PICK op \in {"copy", "recover"} : Begin(p, Work(op, NoOwner, {k}))
    BY <1>1 DEF ConfirmValidate
  <2>2. Work(op, NoOwner, {k}) \in RequestState
    BY WorkType DEF Op
  <2>3. req' \in [Request -> RequestState] /\ Others(p) /\ req'[p] = Work(op, NoOwner, {k})
    BY <1>0, <2>1, <2>2, BeginMoves
  <2>4. Carried(req[p])'
    BY <2>3 DEF Carried, CarriedDelete, CarriedWrite, Work
  <2>5. QED
    BY <1>1, <2>3, <2>4, ReadStep DEF ConfirmValidate
<1>2. CASE ConfirmCopy(p)
  <2>1. /\ req' \in [Request -> RequestState]
        /\ Others(p)
        /\ req'[p] = [req[p] EXCEPT !.op = "unstage"]
    BY <1>0, <1>2, ProceedMoves DEF ConfirmCopy, Op
  <2>2. TypeOK'
    BY <1>0, <1>2, <2>1 DEF ConfirmCopy, TypeOK, database, RequestState
  <2>3. DataInv' /\ Advance
    BY <1>0, <1>2 DEF ConfirmCopy, DataInv, Advance, Kept, MediaHasOneOwner,
                      BoundWhenConsumed, TasksOfGoneRows, StoredUntilTask, database
  <2>4. Carried(req[p])'
    BY <1>0, <1>2, <2>1 DEF ConfirmCopy, Carried, CarriedDelete, CarriedWrite, Kept, RequestState
  <2>5. QED
    BY <2>1, <2>2, <2>3, <2>4, WriteStep
<1>3. CASE ConfirmUnstage(p)
  <2>1. /\ req' \in [Request -> RequestState]
        /\ Others(p)
        /\ req'[p] = [req[p] EXCEPT !.op = "issue"]
    BY <1>0, <1>3, ProceedMoves DEF ConfirmUnstage, Op
  <2>2. TypeOK'
    BY <1>0, <1>3, <2>1 DEF ConfirmUnstage, TypeOK, database
  <2>3. DataInv' /\ Advance
    BY <1>0, <1>3 DEF ConfirmUnstage, DataInv, Advance, Kept, MediaHasOneOwner,
                      BoundWhenConsumed, TasksOfGoneRows, StoredUntilTask, database
  <2>4. Carried(req[p])'
    BY <1>0, <1>3, <2>1 DEF ConfirmUnstage, At, Carried, CarriedDelete, CarriedWrite,
                            Kept, RequestState, database
  <2>5. QED
    BY <2>1, <2>2, <2>3, <2>4, WriteStep
<1>4. CASE ConfirmRecover(p)
  <2>1. /\ req' \in [Request -> RequestState]
        /\ Others(p)
        /\ req'[p] = [req[p] EXCEPT !.op = "issue"]
    BY <1>0, <1>4, ProceedMoves DEF ConfirmRecover, Op
  <2>2. Carried(req[p])'
    BY <1>0, <1>4, <2>1 DEF ConfirmRecover, Carried, CarriedDelete, CarriedWrite,
                            Kept, RequestState, store
  <2>3. QED
    BY <1>4, <2>1, <2>2, ReadStep DEF ConfirmRecover
<1>5. CASE ConfirmIssue(p)
  <2>1. req' \in [Request -> RequestState] /\ Others(p) /\ Carried(req[p])'
    BY <1>0, <1>5, FinishMoves DEF ConfirmIssue
  <2>2. TypeOK'
    BY <1>0, <1>5, <2>1 DEF ConfirmIssue, TypeOK, store
  <2>3. \A k \in req[p].keys : Kept(k)
    BY <1>0, <1>5 DEF ConfirmIssue, At, Carried
  <2>4. \A k \in Key : /\ receipt'[k] = "consumed" <=> receipt[k] = "consumed"
                       /\ receipt'[k] # "none" => receipt[k] # "none" \/ Kept(k)
    BY <1>5, <2>3 DEF ConfirmIssue, Issuable
  <2>5. UNCHANGED <<stored, tasks, rows, media, boundTo>>
    BY <1>5 DEF ConfirmIssue, store
  <2>6. DataInv' /\ Advance
    BY <1>0, <2>4, <2>5 DEF DataInv, Advance, Kept, MediaHasOneOwner,
                            BoundWhenConsumed, TasksOfGoneRows, StoredUntilTask
  <2>7. QED
    BY <2>1, <2>2, <2>6, WriteStep
<1>6. QED
  BY <1>1, <1>2, <1>3, <1>4, <1>5 DEF Confirm

LEMMA InsertKeeps ==
  ASSUME TypeOK, DataInv, NEW o \in Owner, NEW K \in SUBSET Key,
         Insert(o, K), UNCHANGED <<stored, tasks>>
  PROVE  /\ DataInv' /\ Advance
         /\ receipt' \in [Key -> {"none", "open", "consumed", "expired"}]
         /\ boundTo' \in [Key -> Owner \cup {NoOwner}]
         /\ media' \in [Owner -> SUBSET Key]
         /\ rows' \in [Owner -> {"absent", "live", "gone"}]
<1>1. /\ rows' \in [Owner -> {"absent", "live", "gone"}]
      /\ rows[o] = "absent"
      /\ rows'[o] = "live"
      /\ \A x \in Owner \ {o} : rows'[x] = rows[x]
      /\ Attach(o, K, {})
  BY DEF Insert, TypeOK
<1>2. QED
  BY <1>1, AttachKeeps

\* The end of a create transaction: the row is inserted, the request ends.
LEMMA CreateStep ==
  ASSUME MediaInv, NEW p \in Request, NEW o \in Owner,
         Insert(o, req[p].keys), Finish(p), UNCHANGED <<url, store, tasks>>
  PROVE  MediaInv'
<1>0. TypeOK /\ DataInv /\ req[p].keys \in SUBSET Key
  BY DEF MediaInv, DataInv, TypeOK, RequestState
<1>1. req' \in [Request -> RequestState] /\ Others(p) /\ Carried(req[p])'
  BY <1>0, FinishMoves
<1>2. /\ DataInv' /\ Advance
      /\ receipt' \in [Key -> {"none", "open", "consumed", "expired"}]
      /\ boundTo' \in [Key -> Owner \cup {NoOwner}]
      /\ media' \in [Owner -> SUBSET Key]
      /\ rows' \in [Owner -> {"absent", "live", "gone"}]
  BY <1>0, InsertKeeps DEF store
<1>3. TypeOK'
  BY <1>0, <1>1, <1>2 DEF TypeOK, store
<1>4. QED
  BY <1>1, <1>2, <1>3, WriteStep

\* The end of an update transaction of a row that is still there.
LEMMA UpdateStep ==
  ASSUME MediaInv, NEW p \in Request, NEW kept \in SUBSET Key,
         req[p].owner \in Owner, rows[req[p].owner] = "live",
         \A k \in kept : boundTo[k] = req[p].owner,
         Attach(req[p].owner, req[p].keys, kept), Finish(p),
         UNCHANGED <<url, store, tasks, rows>>
  PROVE  MediaInv'
<1>0. TypeOK /\ DataInv /\ req[p].keys \in SUBSET Key
  BY DEF MediaInv, DataInv, TypeOK, RequestState
<1>1. req' \in [Request -> RequestState] /\ Others(p) /\ Carried(req[p])'
  BY <1>0, FinishMoves
<1>2. /\ rows' \in [Owner -> {"absent", "live", "gone"}]
      /\ \A x \in Owner : rows'[x] = rows[x]
      /\ UNCHANGED <<stored, tasks>>
  BY <1>0 DEF TypeOK, store
<1>3. /\ DataInv' /\ Advance
      /\ receipt' \in [Key -> {"none", "open", "consumed", "expired"}]
      /\ boundTo' \in [Key -> Owner \cup {NoOwner}]
      /\ media' \in [Owner -> SUBSET Key]
  BY <1>0, <1>2, AttachKeeps
<1>4. TypeOK'
  BY <1>0, <1>1, <1>3 DEF TypeOK, store
<1>5. QED
  BY <1>1, <1>3, <1>4, WriteStep

\* The end of a delete transaction: the keys to register belong to the rows
\* that go with it or went before it, and the request goes on to `next`.
LEMMA DeleteStep ==
  ASSUME MediaInv, NEW p \in Request, NEW O \in SUBSET Owner,
         NEW next \in {"sweep", "recheckAlbum"},
         \A o \in O : rows[o] = "live",
         \A k \in req[p].keys : boundTo[k] \in Owner
                 /\ (boundTo[k] \in O \/ rows[boundTo[k]] = "gone"),
         DeleteRows(O, req[p].keys), Proceed(p, next),
         next = "recheckAlbum" => req[p].op = "deleteAlbum",
         UNCHANGED <<url, store, receipt, boundTo>>
  PROVE  MediaInv'
<1>0. TypeOK /\ DataInv /\ req[p].keys \in SUBSET Key /\ Carried(req[p]) /\ req[p] \in RequestState
  BY DEF MediaInv, DataInv, TypeOK, RequestState, ReadsStillBound
<1>1. /\ req' \in [Request -> RequestState]
      /\ Others(p)
      /\ req'[p] = [req[p] EXCEPT !.op = next]
  <2>1. next \in Op
    BY DEF Op
  <2>2. QED
    BY <1>0, <2>1, ProceedMoves
<1>2. /\ DataInv' /\ Advance
      /\ tasks' \in [Key -> Seq({"pending", "done"})]
      /\ rows' \in [Owner -> {"absent", "live", "gone"}]
      /\ media' \in [Owner -> SUBSET Key]
  BY <1>0, DeleteRowsKeeps DEF store
<1>3. TypeOK'
  BY <1>0, <1>1, <1>2 DEF TypeOK, store
<1>4. Carried(req[p])'
  BY <1>0, <1>1 DEF Carried, CarriedDelete, CarriedWrite, RequestState
<1>5. QED
  BY <1>1, <1>2, <1>3, <1>4, WriteStep

\* The start of a request: it carries what it has just read.
LEMMA ReadBegins ==
  ASSUME MediaInv, NEW p \in Request, NEW r \in RequestState, Begin(p, r),
         UNCHANGED <<url, store, database>>,
         r.op \notin {"unstage", "issue", "remove", "settle"},
         CarriedDelete(r), CarriedWrite(r)
  PROVE  MediaInv'
<1>1. req' \in [Request -> RequestState] /\ Others(p) /\ req'[p] = r
  BY BeginMoves DEF MediaInv
<1>2. Carried(req[p])'
  BY <1>1 DEF Carried, CarriedDelete, CarriedWrite, database
<1>3. QED
  BY <1>1, <1>2, ReadStep

LEMMA PhotoStep ==
  ASSUME MediaInv, NEW p \in Request, PhotoService(p)
  PROVE  MediaInv'
<1>0. TypeOK /\ MediaHasOneOwner /\ Carried(req[p]) /\ req[p] \in RequestState
  BY DEF MediaInv, ReadsStillBound, TypeOK
<1>1. ASSUME NEW k \in PhotoKey, PhotoCreateRead(p, k)
      PROVE  MediaInv'
  <2>1. Work("createPhoto", NoOwner, {k}) \in RequestState
    BY WorkType DEF Op, Key
  <2>2. QED
    BY <1>1, <2>1, ReadBegins DEF PhotoCreateRead, CarriedDelete, CarriedWrite, Work
<1>2. ASSUME NEW o \in Photo, PhotoDeleteRead(p, o)
      PROVE  MediaInv'
  <2>1. PICK r : r = Work("deletePhoto", o, media[o])
    OBVIOUS
  <2>2. r \in RequestState
    BY <1>0, <2>1, WorkType DEF Op, Owner, TypeOK
  <2>3. CarriedDelete(r) /\ CarriedWrite(r)
    BY <1>0, <2>1 DEF CarriedDelete, CarriedWrite, Work, MediaHasOneOwner, Owner
  <2>4. r.op = "deletePhoto" /\ Begin(p, r)
    BY <1>2, <2>1 DEF PhotoDeleteRead, Work
  <2>5. QED
    BY <1>2, <2>2, <2>3, <2>4, ReadBegins DEF PhotoDeleteRead
<1>3. CASE PhotoCreateTx(p)
  BY <1>3, CreateStep DEF PhotoCreateTx, Owner
<1>4. CASE PhotoDeleteTx(p)
  <2>1. /\ req[p].owner \in Owner
        /\ rows[req[p].owner] = "live"
        /\ \A k \in req[p].keys : boundTo[k] = req[p].owner
    BY <1>0, <1>4 DEF PhotoDeleteTx, At, Carried, CarriedDelete, Owner
  <2>2. QED
    BY <1>4, <2>1, DeleteStep DEF PhotoDeleteTx
<1>5. QED
  BY <1>1, <1>2, <1>3, <1>4 DEF PhotoService

\* The keys an album deletion has collected belong to rows that go with the
\* album or that went before it: pages are never moved to another album.
LEMMA AlbumDeleteCarries ==
  ASSUME MediaInv, NEW p \in Request,
         req[p].op = "deleteAlbum", rows[req[p].owner] = "live"
  PROVE  /\ AlbumRows(req[p].owner) \subseteq Owner
         /\ \A o \in AlbumRows(req[p].owner) : rows[o] = "live"
         /\ \A k \in req[p].keys : boundTo[k] \in Owner
               /\ (boundTo[k] \in AlbumRows(req[p].owner) \/ rows[boundTo[k]] = "gone")
<1> DEFINE a == req[p].owner
<1>1. TypeOK /\ DataInv /\ Carried(req[p]) /\ req[p] \in RequestState
  BY DEF MediaInv, DataInv, ReadsStillBound, TypeOK
<1>2. /\ a \in Album
      /\ \A k \in req[p].keys :
            boundTo[k] = a \/ (boundTo[k] \in Page /\ AlbumOf[boundTo[k]] = a)
  BY <1>1 DEF Carried, CarriedDelete
<1>3. AlbumRows(a) \subseteq Owner /\ \A o \in AlbumRows(a) : rows[o] = "live"
  BY <1>2 DEF AlbumRows, PagesOf, Owner
<1>4. ASSUME NEW k \in req[p].keys
      PROVE  boundTo[k] \in Owner
               /\ (boundTo[k] \in AlbumRows(a) \/ rows[boundTo[k]] = "gone")
  <2>1. CASE boundTo[k] = a
    BY <1>2, <2>1 DEF AlbumRows, Owner
  <2>2. CASE boundTo[k] \in Page /\ AlbumOf[boundTo[k]] = a
    <3>1. boundTo[k] \in Owner /\ k \in Key
      BY <1>1, <2>2 DEF Owner, RequestState
    <3>2. rows[boundTo[k]] \in {"live", "gone"}
      BY <1>1, <3>1 DEF TypeOK, DataInv, BoundWhenConsumed
    <3>3. QED
      BY <2>2, <3>1, <3>2 DEF AlbumRows, PagesOf
  <2>3. QED
    BY <1>2, <2>1, <2>2
<1>5. QED
  BY <1>3, <1>4

LEMMA AlbumStep ==
  ASSUME MediaInv, NEW p \in Request, AlbumService(p)
  PROVE  MediaInv'
<1>0. TypeOK /\ DataInv /\ Carried(req[p]) /\ req[p] \in RequestState
  BY DEF MediaInv, DataInv, ReadsStillBound, TypeOK
<1>1. ASSUME NEW K \in SUBSET AlbumKey, AlbumCreateRead(p, K)
      PROVE  MediaInv'
  <2>1. Work("createAlbum", NoOwner, K) \in RequestState
    BY WorkType DEF Op, Key
  <2>2. QED
    BY <1>1, <2>1, ReadBegins DEF AlbumCreateRead, CarriedDelete, CarriedWrite, Work
<1>2. ASSUME NEW a \in Album, NEW k \in AlbumKey, AlbumUpdateRead(p, a, k)
      PROVE  MediaInv'
  <2>1. Work("updateAlbum", a, {k}) \in RequestState
    BY WorkType DEF Op, Key, Owner
  <2>2. QED
    BY <1>2, <2>1, ReadBegins DEF AlbumUpdateRead, CarriedDelete, CarriedWrite, Work
<1>3. ASSUME NEW a \in Album, AlbumDeleteRead(p, a)
      PROVE  MediaInv'
  <2>1. PICK K : K = UNION {media[o] : o \in AlbumRows(a)}
    OBVIOUS
  <2>2. AlbumRows(a) \subseteq Owner
    BY DEF AlbumRows, PagesOf, Owner
  <2>3. K \subseteq Key
    BY <1>0, <2>1, <2>2 DEF TypeOK
  <2>4. \A k \in K : \/ boundTo[k] = a
                     \/ boundTo[k] \in Page /\ AlbumOf[boundTo[k]] = a
    BY <1>0, <2>1, <2>2 DEF DataInv, MediaHasOneOwner, AlbumRows, PagesOf
  <2>5. PICK r : r = Work("deleteAlbum", a, K)
    OBVIOUS
  <2>6. r \in RequestState
    BY <2>3, <2>5, WorkType DEF Op, Owner
  <2>7. CarriedDelete(r) /\ CarriedWrite(r)
    BY <2>4, <2>5 DEF CarriedDelete, CarriedWrite, Work
  <2>8. r.op = "deleteAlbum" /\ Begin(p, r)
    BY <1>3, <2>1, <2>5 DEF AlbumDeleteRead, AlbumKeys, Work
  <2>9. QED
    BY <1>3, <2>6, <2>7, <2>8, ReadBegins DEF AlbumDeleteRead
<1>4. CASE AlbumCreateTx(p)
  BY <1>4, CreateStep DEF AlbumCreateTx, Owner
<1>5. CASE AlbumUpdateTx(p)
  <2>1. req[p].owner \in Owner
    BY <1>0, <1>5 DEF AlbumUpdateTx, At, Carried, CarriedWrite, Owner
  <2>2. QED
    BY <1>5, <2>1, UpdateStep DEF AlbumUpdateTx
<1>6. CASE AlbumDeleteTx(p)
  <2>1. PICK O : O = AlbumRows(req[p].owner)
    OBVIOUS
  <2>2. req[p].op = "deleteAlbum" /\ rows[req[p].owner] = "live"
    BY <1>6 DEF AlbumDeleteTx, At
  <2>3. /\ O \subseteq Owner /\ \A o \in O : rows[o] = "live"
        /\ \A k \in req[p].keys : boundTo[k] \in Owner
               /\ (boundTo[k] \in O \/ rows[boundTo[k]] = "gone")
    BY <2>1, <2>2, AlbumDeleteCarries
  <2>5. PICK next \in {"sweep", "recheckAlbum"} : Proceed(p, next)
    BY <1>6 DEF AlbumDeleteTx
  <2>6. QED
    BY <1>6, <2>1, <2>2, <2>3, <2>5, DeleteStep DEF AlbumDeleteTx
<1>7. CASE AlbumDeleteTimeout(p)
  <2>1. /\ req' \in [Request -> RequestState]
        /\ Others(p)
        /\ req'[p] = [req[p] EXCEPT !.op = "recheckAlbum"]
    BY <1>0, <1>7, ProceedMoves DEF AlbumDeleteTimeout, Op
  <2>2. Carried(req[p])'
    BY <1>0, <1>7, <2>1 DEF AlbumDeleteTimeout, At, Carried, CarriedDelete, CarriedWrite,
                            RequestState, database
  <2>3. QED
    BY <1>7, <2>1, <2>2, ReadStep DEF AlbumDeleteTimeout
<1>8. CASE AlbumDeleteRecheck(p)
  <2>1. CASE Finish(p)
    BY <1>0, <1>8, <2>1, FinishMoves, ReadStep DEF AlbumDeleteRecheck
  <2>2. CASE Proceed(p, "sweep")
    <3>1. /\ req' \in [Request -> RequestState]
          /\ Others(p)
          /\ req'[p] = [req[p] EXCEPT !.op = "sweep"]
      BY <1>0, <2>2, ProceedMoves DEF Op
    <3>2. Carried(req[p])'
      BY <1>0, <3>1 DEF Carried, CarriedDelete, CarriedWrite, RequestState
    <3>3. QED
      BY <1>8, <3>1, <3>2, ReadStep DEF AlbumDeleteRecheck
  <2>3. QED
    BY <1>8, <2>1, <2>2 DEF AlbumDeleteRecheck
<1>9. QED
  BY <1>1, <1>2, <1>3, <1>4, <1>5, <1>6, <1>7, <1>8 DEF AlbumService

LEMMA PageStep ==
  ASSUME MediaInv, NEW p \in Request, PageService(p)
  PROVE  MediaInv'
<1>0. TypeOK /\ DataInv /\ Carried(req[p]) /\ req[p] \in RequestState
  BY DEF MediaInv, DataInv, ReadsStillBound, TypeOK
<1>1. ASSUME NEW a \in Album, NEW K \in SUBSET AlbumKey, PageCreateRead(p, a, K)
      PROVE  MediaInv'
  <2>1. Work("createPage", a, K) \in RequestState
    BY WorkType DEF Op, Key, Owner
  <2>2. QED
    BY <1>1, <2>1, ReadBegins DEF PageCreateRead, CarriedDelete, CarriedWrite, Work
<1>2. ASSUME NEW g \in Page, NEW K \in SUBSET AlbumKey, NEW kept \in SUBSET AlbumKey,
             PageUpdateRead(p, g, K, kept)
      PROVE  MediaInv'
  <2>1. PICK r : r = [Work("updatePage", g, K) EXCEPT !.kept = kept]
    OBVIOUS
  <2>2. r \in RequestState
    BY <2>1 DEF Work, RequestState, Op, Key, Owner
  <2>3. CarriedDelete(r) /\ CarriedWrite(r)
    BY <1>0, <1>2, <2>1 DEF CarriedDelete, CarriedWrite, Work, PageUpdateRead, ValidPageContent,
                            DataInv, MediaHasOneOwner, Owner
  <2>4. r.op = "updatePage" /\ Begin(p, r)
    BY <1>2, <2>1 DEF PageUpdateRead, Work
  <2>5. QED
    BY <1>2, <2>2, <2>3, <2>4, ReadBegins DEF PageUpdateRead
<1>3. ASSUME NEW g \in Page, PageDeleteRead(p, g)
      PROVE  MediaInv'
  <2>1. PICK r : r = Work("deletePage", g, media[g])
    OBVIOUS
  <2>2. r \in RequestState
    BY <1>0, <2>1, WorkType DEF Op, Owner, TypeOK
  <2>3. CarriedDelete(r) /\ CarriedWrite(r)
    BY <1>0, <2>1 DEF CarriedDelete, CarriedWrite, Work, DataInv, MediaHasOneOwner, Owner
  <2>4. r.op = "deletePage" /\ Begin(p, r)
    BY <1>3, <2>1 DEF PageDeleteRead, Work
  <2>5. QED
    BY <1>3, <2>2, <2>3, <2>4, ReadBegins DEF PageDeleteRead
<1>4. CASE PageCreateTx(p)
  BY <1>4, CreateStep DEF PageCreateTx, Owner
<1>5. CASE PageUpdateTx(p)
  <2>1. /\ req[p].owner \in Owner
        /\ rows[req[p].owner] = "live"
        /\ req[p].kept \in SUBSET Key
        /\ \A k \in req[p].kept : boundTo[k] = req[p].owner
    BY <1>0, <1>5 DEF PageUpdateTx, At, Carried, CarriedWrite, Owner, RequestState
  <2>2. QED
    BY <1>5, <2>1, UpdateStep DEF PageUpdateTx
<1>6. CASE PageDeleteTx(p)
  <2>1. /\ req[p].owner \in Owner
        /\ rows[req[p].owner] = "live"
        /\ \A k \in req[p].keys : boundTo[k] = req[p].owner
    BY <1>0, <1>6 DEF PageDeleteTx, At, Carried, CarriedDelete, Owner
  <2>2. QED
    BY <1>6, <2>1, DeleteStep DEF PageDeleteTx
<1>7. QED
  BY <1>1, <1>2, <1>3, <1>4, <1>5, <1>6 DEF PageService

LEMMA SettleKeeps ==
  ASSUME TypeOK, DataInv, NEW K \in SUBSET Key, NEW i,
         \A k \in K : i \in DOMAIN tasks[k],
         tasks' = [k \in Key |->
            IF k \in K THEN [tasks[k] EXCEPT ![i] = Settled(tasks[k][i])] ELSE tasks[k]],
         UNCHANGED <<stored, receipt, rows, media, boundTo>>
  PROVE  /\ DataInv' /\ Advance
         /\ tasks' \in [Key -> Seq({"pending", "done"})]
<1> DEFINE S == {"pending", "done"}
<1>1. ASSUME NEW k \in K
      PROVE  /\ tasks'[k] \in Seq(S)
             /\ DOMAIN tasks'[k] = DOMAIN tasks[k]
             /\ tasks[k] # <<>>
  <2>1. tasks[k] \in Seq(S) /\ "done" \in S
    BY DEF TypeOK
  <2>2. i \in 1 .. Len(tasks[k]) /\ DOMAIN tasks[k] = 1 .. Len(tasks[k])
    BY <2>1, LenProperties
  <2>3. tasks'[k] = [tasks[k] EXCEPT ![i] = "done"]
    BY DEF Settled
  <2>4. tasks'[k] \in Seq(S)
    BY <2>1, <2>2, <2>3, ExceptSeq
  <2>5. DOMAIN tasks'[k] = DOMAIN tasks[k]
    BY <2>3
  <2>6. tasks[k] # <<>>
    BY <2>2
  <2>7. QED
    BY <2>4, <2>5, <2>6
<1>2. \A k \in Key \ K : tasks'[k] = tasks[k]
  OBVIOUS
<1>3. \A k \in Key : /\ DOMAIN tasks'[k] = DOMAIN tasks[k]
                     /\ tasks'[k] # <<>> => tasks[k] # <<>>
                     /\ tasks[k] # <<>> => tasks'[k] # <<>>
  <2> SUFFICES ASSUME NEW k \in K
               PROVE  tasks'[k] # <<>>
    BY <1>1, <1>2
  <2>1. Len(tasks'[k]) \in Nat /\ DOMAIN tasks'[k] = 1 .. Len(tasks'[k])
    BY <1>1, LenProperties
  <2>2. i \in DOMAIN tasks'[k]
    BY <1>1
  <2>3. QED
    BY <2>1, <2>2
<1>4. tasks' \in [Key -> Seq(S)]
  BY <1>1, <1>2 DEF TypeOK
<1>5. DataInv'
  BY <1>3 DEF DataInv, MediaHasOneOwner, BoundWhenConsumed, TasksOfGoneRows,
              StoredUntilTask, Kept
<1>6. Advance
  BY <1>3 DEF Advance, Kept
<1>7. QED
  BY <1>4, <1>5, <1>6

LEMMA SweepStep ==
  ASSUME MediaInv, NEW p \in Request, Sweep(p)
  PROVE  MediaInv'
<1>0. TypeOK /\ DataInv /\ Carried(req[p]) /\ req[p] \in RequestState
  BY DEF MediaInv, DataInv, ReadsStillBound, TypeOK
<1>1. CASE SweepStart(p)
  <2>1. Work("sweep", NoOwner, {}) \in RequestState
    BY WorkType DEF Op
  <2>2. QED
    BY <1>1, <2>1, ReadBegins DEF SweepStart, CarriedDelete, CarriedWrite, Work
<1>2. CASE SweepPick(p)
  <2>1. PICK k \in Key : \E i \in DOMAIN tasks[k] :
          /\ tasks[k][i] = "pending"
          /\ req' = [req EXCEPT ![p] = [Work("remove", NoOwner, {k}) EXCEPT !.row = i]]
    BY <1>2 DEF SweepPick
  <2>2. PICK i \in DOMAIN tasks[k] :
          req' = [req EXCEPT ![p] = [Work("remove", NoOwner, {k}) EXCEPT !.row = i]]
    BY <2>1
  <2>3. tasks[k] \in Seq({"pending", "done"})
    BY <1>0 DEF TypeOK
  <2>4. i \in Nat
    BY <2>2, <2>3, LenProperties
  <2>5. [Work("remove", NoOwner, {k}) EXCEPT !.row = i] \in RequestState
    BY <2>4 DEF Work, RequestState, Op
  <2>6. /\ req' \in [Request -> RequestState]
        /\ Others(p)
        /\ req'[p] = [Work("remove", NoOwner, {k}) EXCEPT !.row = i]
    BY <1>0, <2>2, <2>5 DEF TypeOK, Others
  <2>7. Carried(req[p])'
    BY <1>2, <2>2, <2>6 DEF SweepPick, Carried, CarriedDelete, CarriedWrite, Work, database
  <2>8. QED
    BY <1>2, <2>6, <2>7, ReadStep DEF SweepPick
<1>3. CASE SweepRemove(p)
  <2>1. /\ req' \in [Request -> RequestState]
        /\ Others(p)
        /\ req'[p] = [req[p] EXCEPT !.op = "settle"]
    BY <1>0, <1>3, ProceedMoves DEF SweepRemove, Op
  <2>2. \A k \in req[p].keys : k \in Key /\ req[p].row \in DOMAIN tasks[k]
    BY <1>0, <1>3 DEF SweepRemove, At, Carried, RequestState
  <2>3. \A k \in req[p].keys : tasks[k] # <<>>
    BY <1>0, <2>2, LenProperties DEF TypeOK
  <2>4. /\ \A k \in Key : Kept(k) => Kept(k)'
        /\ UNCHANGED <<tasks, receipt, rows, media, boundTo>>
    BY <1>3, <2>3 DEF SweepRemove, Kept, database
  <2>5. TypeOK'
    BY <1>0, <1>3, <2>1 DEF SweepRemove, TypeOK, database
  <2>6. DataInv' /\ Advance
    BY <1>0, <2>4 DEF DataInv, Advance, MediaHasOneOwner, BoundWhenConsumed,
                      TasksOfGoneRows, StoredUntilTask
  <2>7. Carried(req[p])'
    BY <1>0, <2>1, <2>2, <2>4 DEF Carried, CarriedDelete, CarriedWrite, RequestState
  <2>8. QED
    BY <2>1, <2>5, <2>6, <2>7, WriteStep
<1>4. CASE SweepSettle(p)
  <2>1. /\ req' \in [Request -> RequestState]
        /\ Others(p)
        /\ req'[p] = [req[p] EXCEPT !.op = "sweep"]
    BY <1>0, <1>4, ProceedMoves DEF SweepSettle, Op
  <2>2. req[p].keys \in SUBSET Key /\ \A k \in req[p].keys : req[p].row \in DOMAIN tasks[k]
    BY <1>0, <1>4 DEF SweepSettle, At, Carried, RequestState
  <2>3. PICK i : i = req[p].row
    OBVIOUS
  <2>4. PICK K \in SUBSET Key : K = req[p].keys
    BY <2>2
  <2>5. tasks' = [k \in Key |->
            IF k \in K THEN [tasks[k] EXCEPT ![i] = Settled(tasks[k][i])] ELSE tasks[k]]
    BY <1>4, <2>3, <2>4 DEF SweepSettle
  <2>6. UNCHANGED <<url, staged, stored, receipt, rows, media, boundTo>>
    BY <1>4 DEF SweepSettle, store
  <2>7. DataInv' /\ Advance /\ tasks' \in [Key -> Seq({"pending", "done"})]
    BY <1>0, <2>2, <2>3, <2>4, <2>5, <2>6, SettleKeeps
  <2>8. TypeOK'
    BY <1>0, <2>1, <2>6, <2>7 DEF TypeOK
  <2>9. Carried(req[p])'
    BY <1>0, <2>1 DEF Carried, CarriedDelete, CarriedWrite, RequestState
  <2>10. QED
    BY <2>1, <2>7, <2>8, <2>9, WriteStep
<1>5. CASE SweepFails(p)
  <2>1. /\ req' \in [Request -> RequestState]
        /\ Others(p)
        /\ req'[p] = [req[p] EXCEPT !.op = "sweep"]
    BY <1>0, <1>5, ProceedMoves DEF SweepFails, Op
  <2>2. Carried(req[p])'
    BY <1>0, <2>1 DEF Carried, CarriedDelete, CarriedWrite, RequestState
  <2>3. QED
    BY <1>5, <2>1, <2>2, ReadStep DEF SweepFails
<1>6. QED
  BY <1>1, <1>2, <1>3, <1>4, <1>5 DEF Sweep

LEMMA EndStep ==
  ASSUME MediaInv, NEW p \in Request, End(p)
  PROVE  MediaInv'
<1>1. TypeOK
  BY DEF MediaInv
<1>2. QED
  BY <1>1, FinishMoves, ReadStep DEF End

\* After a restart nobody carries anything.
LEMMA RestartStep ==
  ASSUME MediaInv, Restart
  PROVE  MediaInv'
<1>0. TypeOK /\ DataInv
  BY DEF MediaInv, DataInv
<1>1. PICK p \in Request :
        req' = [q \in Request |-> IF q = p THEN Work("sweep", NoOwner, {}) ELSE Idle]
  BY DEF Restart
<1>2. Work("sweep", NoOwner, {}) \in RequestState
  BY WorkType DEF Op
<1>3. req' \in [Request -> RequestState]
  BY <1>1, <1>2, IdleType
<1>4. TypeOK'
  BY <1>0, <1>3 DEF Restart, TypeOK, store, database
<1>5. DataInv'
  BY <1>0, SameDatabase DEF Restart
<1>6. ASSUME NEW q \in Request PROVE Carried(req[q])'
  BY <1>1 DEF Carried, CarriedDelete, CarriedWrite, Idle, Work
<1>7. QED
  BY <1>4, <1>5, <1>6 DEF MediaInv, DataInv, ReadsStillBound

\* Every step of every handler preserves the invariant.
LEMMA NextKeepsInv == MediaInv /\ [Next]_vars => MediaInv'
<1> SUFFICES ASSUME MediaInv, [Next]_vars PROVE MediaInv'
  OBVIOUS
<1>1. ASSUME NEW k \in Key, Upload(k) \/ ReceiptExpires(k) PROVE MediaInv'
  BY <1>1, UploadStep
<1>2. ASSUME NEW p \in Request,
             Confirm(p) \/ PhotoService(p) \/ AlbumService(p)
               \/ PageService(p) \/ Sweep(p) \/ End(p)
      PROVE  MediaInv'
  BY <1>2, ConfirmStep, PhotoStep, AlbumStep, PageStep, SweepStep, EndStep
<1>3. CASE Restart
  BY <1>3, RestartStep
<1>4. CASE UNCHANGED vars
  <2>1. UNCHANGED <<url, store, database, req>>
    BY <1>4 DEF vars, store, database
  <2>2. TypeOK /\ DataInv
    BY DEF MediaInv, DataInv
  <2>3. DataInv' /\ Advance
    BY <2>1, <2>2, SameDatabase
  <2>4. TypeOK'
    BY <2>1, <2>2 DEF TypeOK, store, database
  <2>5. QED
    BY <2>1, <2>3, <2>4, OutsideStep
<1>5. QED
  BY <1>1, <1>2, <1>3, <1>4 DEF Next

-----------------------------------------------------------------------------
(* The safety theorems.                                                    *)

\* The invariant of every handler interleaving: types, one owner for each
\* key, receipts and tasks in step with the rows, and reads that stay true.
THEOREM MediaInvHolds == Spec => []MediaInv
<1>1. Init => MediaInv
  BY InitMediaInv
<1>2. MediaInv /\ [Next]_vars => MediaInv'
  BY NextKeepsInv
<1>3. QED
  BY <1>1, <1>2, PTL DEF Spec

\* Every variable keeps its type.
THEOREM TypesHold == Spec => []TypeOK
<1>1. MediaInv => TypeOK
  BY DEF MediaInv
<1>2. QED
  BY <1>1, MediaInvHolds, PTL

\* A key is shown by one row only, whatever stale reads are written back.
THEOREM OneOwner == Spec => []MediaHasOneOwner
<1>1. MediaInv => MediaHasOneOwner
  BY DEF MediaInv
<1>2. QED
  BY <1>1, MediaInvHolds, PTL

\* The main result: no sweep, restart or overlapping request takes the
\* object from under a photo, a cover or a page that still shows it.
THEOREM LiveMediaSafe == Spec => []LiveMediaNeverDeleted
<1>1. MediaInv => LiveMediaNeverDeleted
  <2> SUFFICES ASSUME MediaInv, NEW k \in Key, NEW o \in Owner, k \in media[o]
               PROVE  k \in stored /\ tasks[k] = <<>>
    BY DEF LiveMediaNeverDeleted, Referenced
  <2>1. boundTo[k] = o /\ rows[o] = "live"
    BY DEF MediaInv, MediaHasOneOwner
  <2>2. tasks[k] = <<>>
    BY <2>1 DEF MediaInv, TasksOfGoneRows
  <2>3. receipt[k] = "consumed"
    BY <2>1, IdentifiersAreDistinct DEF MediaInv, BoundWhenConsumed
  <2>4. k \in stored
    BY <2>2, <2>3 DEF MediaInv, StoredUntilTask, Kept
  <2>5. QED
    BY <2>2, <2>4
<1>2. QED
  BY <1>1, MediaInvHolds, PTL

-----------------------------------------------------------------------------
(* Receipts.                                                               *)

\* No step opens a receipt that has been issued before: a transaction consumes
\* open ones, time closes them, and a confirmation issues one once.
LEMMA ReceiptMoves ==
  ASSUME TypeOK, [Next]_vars, NEW k \in Key, receipt'[k] = "open"
  PROVE  receipt[k] \in {"none", "open"}
<1>1. ASSUME NEW x \in Key, Upload(x) \/ ReceiptExpires(x) PROVE receipt[k] \in {"none", "open"}
  BY <1>1 DEF Upload, Presign, UrlExpires, Put, StagingLifecycle, ReceiptExpires, database, TypeOK
<1>2. ASSUME NEW p \in Request, Confirm(p) PROVE receipt[k] \in {"none", "open"}
  BY <1>2 DEF Confirm, ConfirmValidate, ConfirmCopy, ConfirmUnstage, ConfirmRecover, ConfirmIssue,
              Issuable, database
<1>3. ASSUME NEW o, NEW K, NEW kept, Attach(o, K, kept) PROVE receipt[k] \in {"none", "open"}
  BY <1>3 DEF Attach
<1>4. ASSUME NEW p \in Request, PhotoService(p) PROVE receipt[k] \in {"none", "open"}
  BY <1>3, <1>4 DEF PhotoService, PhotoCreateRead, PhotoDeleteRead, PhotoCreateTx, PhotoDeleteTx,
                    Insert, database
<1>5. ASSUME NEW p \in Request, AlbumService(p) PROVE receipt[k] \in {"none", "open"}
  BY <1>3, <1>5 DEF AlbumService, AlbumCreateRead, AlbumUpdateRead, AlbumDeleteRead, AlbumCreateTx,
                    AlbumUpdateTx, AlbumDeleteTx, AlbumDeleteTimeout, AlbumDeleteRecheck,
                    Insert, database
<1>6. ASSUME NEW p \in Request, PageService(p) PROVE receipt[k] \in {"none", "open"}
  BY <1>3, <1>6 DEF PageService, PageCreateRead, PageUpdateRead, PageDeleteRead, PageCreateTx,
                    PageUpdateTx, PageDeleteTx, Insert, database
<1>7. ASSUME NEW p \in Request, Sweep(p) \/ End(p) PROVE receipt[k] \in {"none", "open"}
  BY <1>7 DEF Sweep, SweepStart, SweepPick, SweepRemove, SweepSettle, SweepFails, End, database
<1>8. CASE Restart \/ UNCHANGED vars
  BY <1>8 DEF Restart, vars, database
<1>9. QED
  BY <1>1, <1>2, <1>4, <1>5, <1>6, <1>7, <1>8 DEF Next

\* Confirmations repeated or overlapping never reopen a receipt that was
\* consumed or has expired (media-upload-receipt.service.ts, issue), so that no
\* upload can be attached twice.
THEOREM ReceiptsStayUsed == Spec => ReceiptNeverReopened
<1>1. TypeOK /\ [Next]_vars =>
        [\A k \in Key : receipt'[k] = "open" => receipt[k] \in {"none", "open"}]_vars
  BY ReceiptMoves
<1>2. QED
  BY <1>1, TypesHold, PTL DEF Spec, ReceiptNeverReopened

-----------------------------------------------------------------------------
(* Photos are removed with their object.                                   *)

\* A photo key was taken by a photo; it is shown while the photo lives and has
\* a deletion task once the photo is gone.
PhotoHolds ==
    \A k \in PhotoKey : boundTo[k] # NoOwner =>
        /\ boundTo[k] \in Photo
        /\ rows[boundTo[k]] = "live" => k \in media[boundTo[k]]
        /\ rows[boundTo[k]] = "gone" => tasks[k] # <<>>

\* What a request carries: a photo delete the key of its photo, which can take
\* no other any more, and a write to an album or a page album keys only.
PhotoCarried(r) ==
    /\ r.op = "deletePhoto" =>
          /\ r.owner \in Photo /\ rows[r.owner] # "absent"
          /\ \A k \in PhotoKey : boundTo[k] = r.owner => k \in r.keys
    /\ r.op = "deletePage" => r.owner \in Page
    /\ r.op \in {"createAlbum", "updateAlbum", "createPage", "updatePage"} =>
          r.keys \subseteq AlbumKey

PhotoInv == PhotoHolds /\ \A p \in Request : PhotoCarried(req[p])

\* No photo key is taken by a photo that has existed before.
PhotoAdvance ==
    \A o \in Photo : rows[o] # "absent" =>
        /\ rows'[o] # "absent"
        /\ \A k \in PhotoKey : boundTo'[k] = o => boundTo[k] = o

\* One request moves, and what the others have read stays true.
LEMMA OnePhotoMoves ==
  ASSUME PhotoInv, PhotoHolds', PhotoAdvance,
         NEW p \in Request, Others(p), PhotoCarried(req[p])'
  PROVE  PhotoInv'
<1>1. ASSUME NEW q \in Request, req'[q] = req[q] PROVE PhotoCarried(req[q])'
  BY <1>1 DEF PhotoInv, PhotoCarried, PhotoAdvance
<1>2. QED
  BY <1>1 DEF PhotoInv, Others

\* A request that is not about to write carries nothing of importance here.
LEMMA HarmlessCarried ==
  ASSUME NEW p \in Request,
         req'[p].op \notin {"deletePhoto", "deletePage", "createAlbum", "updateAlbum",
                            "createPage", "updatePage"}
  PROVE  PhotoCarried(req[p])'
BY DEF PhotoCarried

\* The rows and what they show stay as they are, and no task goes.
LEMMA PhotoSame ==
  ASSUME PhotoInv, UNCHANGED <<rows, media, boundTo>>,
         \A k \in Key : tasks[k] # <<>> => tasks'[k] # <<>>
  PROVE  PhotoHolds' /\ PhotoAdvance
BY DEF PhotoInv, PhotoHolds, PhotoAdvance, Key

\* An album or a page takes uploads, which are no photo's.
LEMMA AlbumAttach ==
  ASSUME TypeOK, PhotoInv, NEW o \in Album \cup Page, NEW K \in SUBSET AlbumKey,
         NEW kept \in SUBSET Key, Attach(o, K, kept),
         \A x \in Owner \ {o} : rows'[x] = rows[x], UNCHANGED tasks
  PROVE  PhotoHolds' /\ PhotoAdvance
<1>1. o \in Owner /\ o \notin Photo
  BY IdentifiersAreDistinct DEF Owner
<1>2. \A k \in PhotoKey : boundTo'[k] = boundTo[k]
  BY IdentifiersAreDistinct DEF Attach, Key
<1>3. \A x \in Photo : media'[x] = media[x] /\ rows'[x] = rows[x]
  BY <1>1 DEF Attach, TypeOK, Owner
<1>4. QED
  BY <1>2, <1>3 DEF PhotoInv, PhotoHolds, PhotoAdvance

\* A new photo takes its upload.
LEMMA PhotoInsert ==
  ASSUME TypeOK, DataInv, PhotoInv, NEW o \in Photo, NEW K \in SUBSET Key,
         Insert(o, K), UNCHANGED tasks
  PROVE  PhotoHolds' /\ PhotoAdvance
<1>1. o \in Owner /\ rows[o] = "absent" /\ rows'[o] = "live"
  BY DEF Insert, Owner, TypeOK
<1>2. \A x \in Owner \ {o} : rows'[x] = rows[x] /\ media'[x] = media[x]
  BY <1>1 DEF Insert, Attach, TypeOK
<1>3. media'[o] = K
  BY <1>1 DEF Insert, Attach, TypeOK
<1>4. \A k \in Key : boundTo'[k] = IF k \in K THEN o ELSE boundTo[k]
  BY DEF Insert, Attach
<1>5. \A k \in PhotoKey : boundTo[k] # o
  BY <1>1 DEF DataInv, BoundWhenConsumed, Key
<1>6. PhotoHolds'
  <2> SUFFICES ASSUME NEW k \in PhotoKey, boundTo'[k] # NoOwner
               PROVE  /\ boundTo'[k] \in Photo
                      /\ rows'[boundTo'[k]] = "live" => k \in media'[boundTo'[k]]
                      /\ rows'[boundTo'[k]] = "gone" => tasks'[k] # <<>>
    BY DEF PhotoHolds
  <2>1. CASE k \in K
    BY <2>1, <1>1, <1>3, <1>4 DEF Key
  <2>2. CASE k \notin K
    <3>1. boundTo'[k] = boundTo[k] /\ boundTo[k] \in Photo /\ boundTo[k] # o
      BY <2>2, <1>4, <1>5 DEF Key, PhotoInv, PhotoHolds
    <3>2. boundTo[k] \in Owner \ {o}
      BY <3>1 DEF Owner
    <3>3. QED
      BY <3>1, <3>2, <1>2 DEF PhotoInv, PhotoHolds
  <2>3. QED
    BY <2>1, <2>2
<1>7. PhotoAdvance
  BY <1>1, <1>2, <1>4 DEF PhotoAdvance, Key, Owner
<1>8. QED
  BY <1>6, <1>7

\* The rows that go take the keys of the photos among them along.
LEMMA PhotoRows ==
  ASSUME TypeOK, DataInv, PhotoInv, NEW O \in SUBSET Owner, NEW K \in SUBSET Key,
         \A k \in PhotoKey : boundTo[k] \in O => k \in K,
         DeleteRows(O, K), UNCHANGED boundTo
  PROVE  PhotoHolds' /\ PhotoAdvance
<1>1. \A o \in Owner : /\ rows'[o] = IF o \in O THEN "gone" ELSE rows[o]
                       /\ o \notin O => media'[o] = media[o]
  BY DEF DeleteRows
<1>2. \A k \in Key : /\ k \in K => tasks'[k] # <<>>
                     /\ tasks[k] # <<>> => tasks'[k] # <<>>
  BY EnqueueGrows DEF DeleteRows
<1>3. Photo \subseteq Owner /\ PhotoKey \subseteq Key
  BY DEF Owner, Key
<1>4. PhotoHolds'
  <2> SUFFICES ASSUME NEW k \in PhotoKey, boundTo'[k] # NoOwner
               PROVE  /\ boundTo'[k] \in Photo
                      /\ rows'[boundTo'[k]] = "live" => k \in media'[boundTo'[k]]
                      /\ rows'[boundTo'[k]] = "gone" => tasks'[k] # <<>>
    BY DEF PhotoHolds
  <2>1. boundTo'[k] = boundTo[k] /\ boundTo[k] \in Photo
    BY DEF PhotoInv, PhotoHolds
  <2>2. CASE boundTo[k] \in O
    BY <2>1, <2>2, <1>1, <1>2, <1>3
  <2>3. CASE boundTo[k] \notin O
    BY <2>1, <2>3, <1>1, <1>2, <1>3 DEF PhotoInv, PhotoHolds
  <2>4. QED
    BY <2>2, <2>3
<1>5. PhotoAdvance
  BY <1>1, <1>3 DEF PhotoAdvance
<1>6. QED
  BY <1>4, <1>5

\* A request that writes neither rows nor what they show, and is not then about
\* to write.
LEMMA PhotoQuiet ==
  ASSUME PhotoInv, NEW p \in Request, UNCHANGED <<rows, media, boundTo>>,
         \A k \in Key : tasks[k] # <<>> => tasks'[k] # <<>>,
         Others(p), PhotoCarried(req[p])'
  PROVE  PhotoInv'
BY PhotoSame, OnePhotoMoves

\* How a request begins and ends.
LEMMA ReadMoves ==
  ASSUME TypeOK, PhotoInv, NEW p \in Request, NEW r, Begin(p, r),
         UNCHANGED <<url, store, database>>, PhotoCarried(r)'
  PROVE  PhotoInv'
<1>1. Others(p) /\ req'[p] = r
  BY DEF TypeOK, Begin, Others
<1>2. PhotoCarried(req[p])'
  BY <1>1 DEF PhotoCarried
<1>3. QED
  BY <1>1, <1>2, PhotoQuiet DEF database

LEMMA EndMoves ==
  ASSUME TypeOK, NEW p \in Request, Finish(p)
  PROVE  Others(p) /\ PhotoCarried(req[p])'
<1>1. Others(p) /\ req'[p] = Idle
  BY DEF TypeOK, Finish, Others
<1>2. QED
  BY <1>1, HarmlessCarried DEF Idle, Work

LEMMA OnwardMoves ==
  ASSUME TypeOK, NEW p \in Request, Proceed(p, "sweep") \/ Proceed(p, "recheckAlbum")
                   \/ Proceed(p, "unstage") \/ Proceed(p, "issue") \/ Proceed(p, "settle")
  PROVE  Others(p) /\ PhotoCarried(req[p])'
<1>1. PICK op \in {"sweep", "recheckAlbum", "unstage", "issue", "settle"} : Proceed(p, op)
  OBVIOUS
<1>2. Others(p) /\ req'[p] = [req[p] EXCEPT !.op = op]
  BY <1>1, ProceedMoves DEF Op
<1>3. req'[p].op = op
  BY <1>2 DEF TypeOK, RequestState
<1>4. QED
  BY <1>2, <1>3, HarmlessCarried

-----------------------------------------------------------------------------
\* Uploads and confirmations write nothing that a photo delete relies on.
LEMMA ConfirmPhotos ==
  ASSUME TypeOK, PhotoInv, NEW p \in Request, Confirm(p)
  PROVE  PhotoInv'
<1>1. ASSUME NEW k \in Key, ConfirmValidate(p, k) PROVE PhotoInv'
  <2>1. PICK op \in {"copy", "recover"} : Begin(p, Work(op, NoOwner, {k}))
    BY <1>1 DEF ConfirmValidate
  <2>2. PhotoCarried(Work(op, NoOwner, {k}))'
    BY DEF PhotoCarried, Work
  <2>3. QED
    BY <1>1, <2>1, <2>2, ReadMoves DEF ConfirmValidate
<1>2. CASE ConfirmCopy(p) \/ ConfirmUnstage(p) \/ ConfirmRecover(p)
  BY <1>2, OnwardMoves, PhotoQuiet DEF ConfirmCopy, ConfirmUnstage, ConfirmRecover, database
<1>3. CASE ConfirmIssue(p)
  BY <1>3, EndMoves, PhotoQuiet DEF ConfirmIssue
<1>4. QED
  BY <1>1, <1>2, <1>3 DEF Confirm

\* Between the read and the transaction of a photo delete its photo may go but
\* can take no other key.
LEMMA PhotoPhotos ==
  ASSUME TypeOK, DataInv, PhotoInv, NEW p \in Request, PhotoService(p)
  PROVE  PhotoInv'
<1>0. req[p] \in RequestState /\ PhotoCarried(req[p])
  BY DEF TypeOK, PhotoInv
<1>1. ASSUME NEW k \in PhotoKey, PhotoCreateRead(p, k) PROVE PhotoInv'
  <2>1. PhotoCarried(Work("createPhoto", NoOwner, {k}))'
    BY DEF PhotoCarried, Work
  <2>2. QED
    BY <1>1, <2>1, ReadMoves DEF PhotoCreateRead
<1>2. ASSUME NEW o \in Photo, PhotoDeleteRead(p, o) PROVE PhotoInv'
  <2>1. UNCHANGED <<rows, boundTo>> /\ rows[o] = "live"
    BY <1>2 DEF PhotoDeleteRead, database
  <2>2. \A k \in PhotoKey : boundTo[k] = o => k \in media[o]
    BY <2>1, IdentifiersAreDistinct DEF PhotoInv, PhotoHolds, Owner
  <2>3. PICK r : r = Work("deletePhoto", o, media[o])
    OBVIOUS
  <2>4. PhotoCarried(r)'
    BY <2>1, <2>2, <2>3 DEF PhotoCarried, Work
  <2>5. Begin(p, r) /\ UNCHANGED <<url, store, database>>
    BY <1>2, <2>3 DEF PhotoDeleteRead
  <2>6. QED
    BY <2>4, <2>5, ReadMoves
<1>3. CASE PhotoCreateTx(p)
  <2>1. PICK o \in Photo : Insert(o, req[p].keys)
    BY <1>3 DEF PhotoCreateTx
  <2>2. req[p].keys \in SUBSET Key
    BY <1>0 DEF RequestState
  <2>3. PhotoHolds' /\ PhotoAdvance
    BY <1>3, <2>1, <2>2, PhotoInsert DEF PhotoCreateTx
  <2>4. QED
    BY <1>3, <2>3, EndMoves, OnePhotoMoves DEF PhotoCreateTx
<1>4. CASE PhotoDeleteTx(p)
  <2>1. /\ req[p].owner \in Owner
        /\ req[p].keys \in SUBSET Key
        /\ \A k \in PhotoKey : boundTo[k] = req[p].owner => k \in req[p].keys
    BY <1>0, <1>4 DEF PhotoDeleteTx, At, PhotoCarried, RequestState, Owner
  <2>2. PhotoHolds' /\ PhotoAdvance
    BY <1>4, <2>1, PhotoRows DEF PhotoDeleteTx
  <2>3. QED
    BY <1>4, <2>2, OnwardMoves, OnePhotoMoves DEF PhotoDeleteTx
<1>5. QED
  BY <1>1, <1>2, <1>3, <1>4 DEF PhotoService

\* Albums take no photo keys, and the rows that go with them are no photos.
LEMMA AlbumPhotos ==
  ASSUME MediaInv, PhotoInv, NEW p \in Request, AlbumService(p)
  PROVE  PhotoInv'
<1>0. /\ TypeOK /\ DataInv /\ Carried(req[p])
      /\ req[p] \in RequestState /\ PhotoCarried(req[p])
  BY DEF MediaInv, DataInv, ReadsStillBound, TypeOK, PhotoInv
<1>1. ASSUME NEW K \in SUBSET AlbumKey, AlbumCreateRead(p, K) PROVE PhotoInv'
  <2>1. PhotoCarried(Work("createAlbum", NoOwner, K))'
    BY DEF PhotoCarried, Work
  <2>2. QED
    BY <1>0, <1>1, <2>1, ReadMoves DEF AlbumCreateRead
<1>2. ASSUME NEW a \in Album, NEW k \in AlbumKey, AlbumUpdateRead(p, a, k) PROVE PhotoInv'
  <2>1. PhotoCarried(Work("updateAlbum", a, {k}))'
    BY DEF PhotoCarried, Work
  <2>2. QED
    BY <1>0, <1>2, <2>1, ReadMoves DEF AlbumUpdateRead
<1>3. ASSUME NEW a \in Album, AlbumDeleteRead(p, a) PROVE PhotoInv'
  <2>1. PICK r : r = Work("deleteAlbum", a, AlbumKeys(a))
    OBVIOUS
  <2>2. PhotoCarried(r)'
    BY <2>1 DEF PhotoCarried, Work
  <2>3. QED
    BY <1>0, <1>3, <2>1, <2>2, ReadMoves DEF AlbumDeleteRead
<1>4. CASE AlbumCreateTx(p)
  <2>1. PICK a \in Album : Insert(a, req[p].keys)
    BY <1>4 DEF AlbumCreateTx
  <2>2. req[p].keys \in SUBSET AlbumKey
    BY <1>0, <1>4 DEF AlbumCreateTx, At, PhotoCarried
  <2>3. /\ Attach(a, req[p].keys, {})
        /\ \A x \in Owner \ {a} : rows'[x] = rows[x]
    BY <1>0, <2>1 DEF Insert, TypeOK
  <2>4. PhotoHolds' /\ PhotoAdvance
    BY <1>0, <1>4, <2>2, <2>3, AlbumAttach DEF AlbumCreateTx
  <2>5. QED
    BY <1>0, <1>4, <2>4, EndMoves, OnePhotoMoves DEF AlbumCreateTx
<1>5. CASE AlbumUpdateTx(p)
  <2>1. req[p].keys \in SUBSET AlbumKey /\ req[p].owner \in Album
    BY <1>0, <1>5 DEF AlbumUpdateTx, At, PhotoCarried, Carried, CarriedWrite
  <2>2. PhotoHolds' /\ PhotoAdvance
    BY <1>0, <1>5, <2>1, AlbumAttach DEF AlbumUpdateTx
  <2>3. QED
    BY <1>0, <1>5, <2>2, EndMoves, OnePhotoMoves DEF AlbumUpdateTx
<1>6. CASE AlbumDeleteTx(p)
  <2>1. req[p].op = "deleteAlbum" /\ req[p].owner \in Album /\ req[p].keys \in SUBSET Key
    BY <1>0, <1>6 DEF AlbumDeleteTx, At, Carried, CarriedDelete, RequestState
  <2>2. PICK O : O = AlbumRows(req[p].owner)
    OBVIOUS
  <2>3. O \in SUBSET Owner /\ O \cap Photo = {}
    BY <2>1, <2>2, IdentifiersAreDistinct DEF AlbumRows, PagesOf, Owner
  <2>4. \A k \in PhotoKey : boundTo[k] \notin O
    BY <2>3, IdentifiersAreDistinct DEF PhotoInv, PhotoHolds
  <2>5. PhotoHolds' /\ PhotoAdvance
    BY <1>0, <1>6, <2>1, <2>2, <2>3, <2>4, PhotoRows DEF AlbumDeleteTx
  <2>6. QED
    BY <1>0, <1>6, <2>5, OnwardMoves, OnePhotoMoves DEF AlbumDeleteTx
<1>7. CASE AlbumDeleteTimeout(p) \/ AlbumDeleteRecheck(p)
  BY <1>0, <1>7, OnwardMoves, EndMoves, PhotoQuiet DEF AlbumDeleteTimeout, AlbumDeleteRecheck, database
<1>8. QED
  BY <1>1, <1>2, <1>3, <1>4, <1>5, <1>6, <1>7 DEF AlbumService

\* The same for pages.
LEMMA PagePhotos ==
  ASSUME MediaInv, PhotoInv, NEW p \in Request, PageService(p)
  PROVE  PhotoInv'
<1>0. /\ TypeOK /\ DataInv /\ Carried(req[p])
      /\ req[p] \in RequestState /\ PhotoCarried(req[p])
  BY DEF MediaInv, DataInv, ReadsStillBound, TypeOK, PhotoInv
<1>1. ASSUME NEW a \in Album, NEW K \in SUBSET AlbumKey, PageCreateRead(p, a, K) PROVE PhotoInv'
  <2>1. PhotoCarried(Work("createPage", a, K))'
    BY DEF PhotoCarried, Work
  <2>2. QED
    BY <1>0, <1>1, <2>1, ReadMoves DEF PageCreateRead
<1>2. ASSUME NEW g \in Page, NEW K \in SUBSET AlbumKey, NEW kept, PageUpdateRead(p, g, K, kept)
      PROVE  PhotoInv'
  <2>1. PhotoCarried([Work("updatePage", g, K) EXCEPT !.kept = kept])'
    BY DEF PhotoCarried, Work
  <2>2. QED
    BY <1>0, <1>2, <2>1, ReadMoves DEF PageUpdateRead
<1>3. ASSUME NEW g \in Page, PageDeleteRead(p, g) PROVE PhotoInv'
  <2>1. PICK r : r = Work("deletePage", g, media[g])
    OBVIOUS
  <2>2. PhotoCarried(r)'
    BY <2>1 DEF PhotoCarried, Work
  <2>3. QED
    BY <1>0, <1>3, <2>1, <2>2, ReadMoves DEF PageDeleteRead
<1>4. CASE PageCreateTx(p)
  <2>1. PICK g \in Page : Insert(g, req[p].keys)
    BY <1>4 DEF PageCreateTx
  <2>2. req[p].keys \in SUBSET AlbumKey
    BY <1>0, <1>4 DEF PageCreateTx, At, PhotoCarried
  <2>3. /\ Attach(g, req[p].keys, {})
        /\ \A x \in Owner \ {g} : rows'[x] = rows[x]
    BY <1>0, <2>1 DEF Insert, TypeOK
  <2>4. PhotoHolds' /\ PhotoAdvance
    BY <1>0, <1>4, <2>2, <2>3, AlbumAttach DEF PageCreateTx
  <2>5. QED
    BY <1>0, <1>4, <2>4, EndMoves, OnePhotoMoves DEF PageCreateTx
<1>5. CASE PageUpdateTx(p)
  <2>1. /\ req[p].keys \in SUBSET AlbumKey /\ req[p].owner \in Page
        /\ req[p].kept \in SUBSET Key
    BY <1>0, <1>5 DEF PageUpdateTx, At, PhotoCarried, Carried, CarriedWrite, RequestState
  <2>2. PhotoHolds' /\ PhotoAdvance
    BY <1>0, <1>5, <2>1, AlbumAttach DEF PageUpdateTx
  <2>3. QED
    BY <1>0, <1>5, <2>2, EndMoves, OnePhotoMoves DEF PageUpdateTx
<1>6. CASE PageDeleteTx(p)
  <2>1. /\ req[p].owner \in Page /\ req[p].owner \in Owner
        /\ req[p].keys \in SUBSET Key
    BY <1>0, <1>6 DEF PageDeleteTx, At, PhotoCarried, RequestState, Owner
  <2>2. \A k \in PhotoKey : boundTo[k] # req[p].owner
    BY <2>1, IdentifiersAreDistinct DEF PhotoInv, PhotoHolds, Owner
  <2>3. PhotoHolds' /\ PhotoAdvance
    BY <1>0, <1>6, <2>1, <2>2, PhotoRows DEF PageDeleteTx
  <2>4. QED
    BY <1>0, <1>6, <2>3, OnwardMoves, OnePhotoMoves DEF PageDeleteTx
<1>7. QED
  BY <1>1, <1>2, <1>3, <1>4, <1>5, <1>6 DEF PageService

\* A sweep settles tasks and takes none away.
LEMMA SweepPhotos ==
  ASSUME MediaInv, PhotoInv, NEW p \in Request, Sweep(p)
  PROVE  PhotoInv'
<1>0. /\ TypeOK /\ DataInv /\ Carried(req[p]) /\ req[p] \in RequestState
  BY DEF MediaInv, DataInv, ReadsStillBound, TypeOK
<1>1. CASE SweepStart(p)
  <2>1. PhotoCarried(Work("sweep", NoOwner, {}))'
    BY DEF PhotoCarried, Work
  <2>2. QED
    BY <1>0, <1>1, <2>1, ReadMoves DEF SweepStart
<1>2. CASE SweepPick(p)
  <2>1. \E k \in Key : \E i \in DOMAIN tasks[k] :
          req' = [req EXCEPT ![p] = [Work("remove", NoOwner, {k}) EXCEPT !.row = i]]
    BY <1>2 DEF SweepPick
  <2>2. Others(p) /\ req'[p].op = "remove"
    BY <1>0, <2>1 DEF TypeOK, Others, Work
  <2>3. QED
    BY <1>2, <2>2, HarmlessCarried, PhotoQuiet DEF SweepPick, database
<1>3. CASE SweepRemove(p) \/ SweepFails(p)
  BY <1>0, <1>3, OnwardMoves, PhotoQuiet DEF SweepRemove, SweepFails, database
<1>4. CASE SweepSettle(p)
  <2>1. PICK K \in SUBSET Key : \E i : K = req[p].keys /\ i = req[p].row
    BY <1>0 DEF RequestState
  <2> DEFINE i == req[p].row
  <2>2. \A k \in K : i \in DOMAIN tasks[k]
    BY <1>0, <1>4, <2>1 DEF SweepSettle, At, Carried
  <2>3. /\ tasks' = [k \in Key |->
               IF k \in K THEN [tasks[k] EXCEPT ![i] = Settled(tasks[k][i])] ELSE tasks[k]]
        /\ UNCHANGED <<stored, receipt, rows, media, boundTo>>
    BY <1>4, <2>1 DEF SweepSettle, store
  <2>4. Advance /\ tasks' \in [Key -> Seq({"pending", "done"})]
    BY <1>0, <2>2, <2>3, SettleKeeps
  <2>5. ASSUME NEW k \in Key, tasks[k] # <<>> PROVE tasks'[k] # <<>>
    <3>1. /\ tasks[k] \in Seq({"pending", "done"}) /\ tasks'[k] \in Seq({"pending", "done"})
          /\ DOMAIN tasks[k] \subseteq DOMAIN tasks'[k]
      BY <1>0, <2>4 DEF TypeOK, Advance
    <3>2. QED
      BY <2>5, <3>1, LenProperties, EmptySeq
  <2>6. QED
    BY <1>0, <1>4, <2>3, <2>5, OnwardMoves, PhotoQuiet DEF SweepSettle
<1>5. QED
  BY <1>1, <1>2, <1>3, <1>4 DEF Sweep

\* Every step of every handler keeps the removal of photos complete.
LEMMA NextKeepsPhotos == MediaInv /\ PhotoInv /\ [Next]_vars => PhotoInv'
<1> SUFFICES ASSUME MediaInv, PhotoInv, [Next]_vars PROVE PhotoInv'
  OBVIOUS
<1>0. TypeOK /\ DataInv
  BY DEF MediaInv, DataInv
<1>1. ASSUME UNCHANGED <<tasks, rows, media, boundTo, req>> PROVE PhotoInv'
  BY <1>1 DEF PhotoInv, PhotoHolds, PhotoCarried
<1>2. ASSUME NEW k \in Key, Upload(k) \/ ReceiptExpires(k) PROVE PhotoInv'
  BY <1>1, <1>2 DEF Upload, Presign, UrlExpires, Put, StagingLifecycle, ReceiptExpires, database
<1>3. ASSUME NEW p \in Request, Confirm(p) \/ PhotoService(p) \/ AlbumService(p) \/ PageService(p)
                                \/ Sweep(p)
      PROVE  PhotoInv'
  BY <1>0, <1>3, ConfirmPhotos, PhotoPhotos, AlbumPhotos, PagePhotos, SweepPhotos
<1>4. ASSUME NEW p \in Request, End(p) PROVE PhotoInv'
  BY <1>0, <1>4, EndMoves, PhotoQuiet DEF End, database
<1>5. CASE Restart
  <2>1. \A q \in Request : PhotoCarried(req[q])'
    BY <1>5 DEF Restart, PhotoCarried, Idle, Work
  <2>2. PhotoHolds'
    BY <1>5, PhotoSame DEF Restart, database
  <2>3. QED
    BY <2>1, <2>2 DEF PhotoInv
<1>6. CASE UNCHANGED vars
  BY <1>1, <1>6 DEF vars
<1>7. QED
  BY <1>2, <1>3, <1>4, <1>5, <1>6 DEF Next

\* A photo never goes without a deletion task for its object
\* (photo.service.ts, the transaction of delete): at every moment an upload that
\* was attached to a photo is shown by it or named by a task.
THEOREM PhotosLeaveTasks == Spec => []PhotoRemovalRegistered
<1>1. Init => PhotoInv
  BY DEF Init, PhotoInv, PhotoHolds, PhotoCarried, Idle, Work, Key
<1>2. MediaInv /\ PhotoInv => PhotoRemovalRegistered
  <2> SUFFICES ASSUME MediaInv, PhotoInv, NEW k \in PhotoKey, receipt[k] = "consumed"
               PROVE  Referenced(k) \/ tasks[k] # <<>>
    BY DEF PhotoRemovalRegistered
  <2>1. boundTo[k] # NoOwner /\ boundTo[k] \in Photo /\ boundTo[k] \in Owner
    BY DEF MediaInv, BoundWhenConsumed, PhotoInv, PhotoHolds, Key, Owner
  <2>2. rows[boundTo[k]] \in {"live", "gone"}
    BY <2>1 DEF MediaInv, TypeOK, BoundWhenConsumed, Key
  <2>3. QED
    BY <2>1, <2>2 DEF PhotoInv, PhotoHolds, Referenced
<1>3. QED
  BY <1>1, <1>2, NextKeepsPhotos, MediaInvHolds, PTL DEF Spec

-----------------------------------------------------------------------------
(* Albums and pages are removed with their objects.  A request about to    *)
(* delete carries every image its rows show, but for those the rows were   *)
(* given since it read them: the images of a row that was not touched are  *)
(* the ones it read, and a page that has been added is one of the gifts.   *)

RemovalCarried(p) ==
    /\ req[p].op = "deleteAlbum" => AlbumKeys(req[p].owner) \subseteq req[p].keys \cup added[p]
    /\ req[p].op = "deletePage" => media[req[p].owner] \subseteq req[p].keys \cup added[p]

RemovalInv == \A p \in Request : RemovalCarried(p)

\* A request that moves is not one that comes to delete an album or a page.
NoneDeletes == \A q \in Request : req'[q] = req[q] \/ req'[q].op \notin Deleting

LEMMA OneMovesElsewhere ==
  ASSUME NEW p \in Request, Others(p), req'[p].op \notin Deleting
  PROVE  NoneDeletes
BY DEF Others, NoneDeletes

LEMMA BeginsElsewhere ==
  ASSUME TypeOK, NEW p \in Request, NEW r, Begin(p, r), r.op \notin Deleting
  PROVE  NoneDeletes
BY DEF TypeOK, Begin, NoneDeletes

LEMMA ProceedsElsewhere ==
  ASSUME TypeOK, NEW p \in Request, NEW op \in Op \ Deleting, Proceed(p, op)
  PROVE  NoneDeletes
<1>1. req[p] \in RequestState /\ op \in Op
  BY DEF TypeOK
<1>2. Others(p) /\ req'[p] = [req[p] EXCEPT !.op = op]
  BY <1>1, ProceedMoves
<1>3. req'[p].op = op
  BY <1>1, <1>2 DEF RequestState
<1>4. QED
  BY <1>2, <1>3, OneMovesElsewhere

LEMMA FinishesElsewhere ==
  ASSUME TypeOK, NEW p \in Request, Finish(p)
  PROVE  NoneDeletes
BY DEF TypeOK, Finish, Idle, Work, NoneDeletes, Deleting

LEMMA ConfirmElsewhere ==
  ASSUME TypeOK, NEW p \in Request, Confirm(p)
  PROVE  NoneDeletes
<1>1. ASSUME NEW k \in Key, ConfirmValidate(p, k) PROVE NoneDeletes
  <2>1. PICK op \in {"copy", "recover"} : Begin(p, Work(op, NoOwner, {k}))
    BY <1>1 DEF ConfirmValidate
  <2>2. QED
    BY <2>1, BeginsElsewhere DEF Work, Deleting
<1>2. CASE ConfirmCopy(p) \/ ConfirmUnstage(p) \/ ConfirmRecover(p)
  BY <1>2, ProceedsElsewhere DEF ConfirmCopy, ConfirmUnstage, ConfirmRecover, Op, Deleting
<1>3. CASE ConfirmIssue(p)
  BY <1>3, FinishesElsewhere DEF ConfirmIssue
<1>4. QED
  BY <1>1, <1>2, <1>3 DEF Confirm

LEMMA PhotoElsewhere ==
  ASSUME TypeOK, NEW p \in Request, PhotoService(p)
  PROVE  NoneDeletes
<1>1. ASSUME NEW k \in PhotoKey, PhotoCreateRead(p, k) PROVE NoneDeletes
  BY <1>1, BeginsElsewhere DEF PhotoCreateRead, Work, Deleting
<1>2. ASSUME NEW o \in Photo, PhotoDeleteRead(p, o) PROVE NoneDeletes
  BY <1>2, BeginsElsewhere DEF PhotoDeleteRead, Work, Deleting
<1>3. CASE PhotoCreateTx(p)
  BY <1>3, FinishesElsewhere DEF PhotoCreateTx
<1>4. CASE PhotoDeleteTx(p)
  BY <1>4, ProceedsElsewhere DEF PhotoDeleteTx, Op, Deleting
<1>5. QED
  BY <1>1, <1>2, <1>3, <1>4 DEF PhotoService

LEMMA AlbumElsewhere ==
  ASSUME TypeOK, NEW p \in Request, AlbumService(p), \A a \in Album : ~AlbumDeleteRead(p, a)
  PROVE  NoneDeletes
<1>1. ASSUME NEW K \in SUBSET AlbumKey, AlbumCreateRead(p, K) PROVE NoneDeletes
  BY <1>1, BeginsElsewhere DEF AlbumCreateRead, Work, Deleting
<1>2. ASSUME NEW a \in Album, NEW k \in AlbumKey, AlbumUpdateRead(p, a, k) PROVE NoneDeletes
  BY <1>2, BeginsElsewhere DEF AlbumUpdateRead, Work, Deleting
<1>3. CASE AlbumCreateTx(p) \/ AlbumUpdateTx(p)
  BY <1>3, FinishesElsewhere DEF AlbumCreateTx, AlbumUpdateTx
<1>4. CASE AlbumDeleteTx(p) \/ AlbumDeleteTimeout(p)
  BY <1>4, ProceedsElsewhere DEF AlbumDeleteTx, AlbumDeleteTimeout, Op, Deleting
<1>5. CASE AlbumDeleteRecheck(p)
  BY <1>5, FinishesElsewhere, ProceedsElsewhere DEF AlbumDeleteRecheck, Op, Deleting
<1>6. QED
  BY <1>1, <1>2, <1>3, <1>4, <1>5 DEF AlbumService

LEMMA PageElsewhere ==
  ASSUME TypeOK, NEW p \in Request, PageService(p), \A g \in Page : ~PageDeleteRead(p, g)
  PROVE  NoneDeletes
<1>1. ASSUME NEW a \in Album, NEW K \in SUBSET AlbumKey, PageCreateRead(p, a, K)
      PROVE  NoneDeletes
  BY <1>1, BeginsElsewhere DEF PageCreateRead, Work, Deleting
<1>2. ASSUME NEW g \in Page, NEW K \in SUBSET AlbumKey, NEW kept \in SUBSET AlbumKey,
             PageUpdateRead(p, g, K, kept)
      PROVE  NoneDeletes
  <2>1. [Work("updatePage", g, K) EXCEPT !.kept = kept].op = "updatePage"
    BY DEF Work
  <2>2. QED
    BY <1>2, <2>1, BeginsElsewhere DEF PageUpdateRead, Deleting
<1>3. CASE PageCreateTx(p) \/ PageUpdateTx(p)
  BY <1>3, FinishesElsewhere DEF PageCreateTx, PageUpdateTx
<1>4. CASE PageDeleteTx(p)
  BY <1>4, ProceedsElsewhere DEF PageDeleteTx, Op, Deleting
<1>5. QED
  BY <1>1, <1>2, <1>3, <1>4 DEF PageService

LEMMA SweepElsewhere ==
  ASSUME TypeOK, NEW p \in Request, Sweep(p)
  PROVE  NoneDeletes
<1>1. CASE SweepStart(p)
  BY <1>1, BeginsElsewhere DEF SweepStart, Work, Deleting
<1>2. CASE SweepPick(p)
  <2>1. req'[p].op = "remove" /\ Others(p)
    BY <1>2 DEF SweepPick, Work, TypeOK, Others
  <2>2. QED
    BY <2>1, OneMovesElsewhere DEF Deleting
<1>3. CASE SweepRemove(p) \/ SweepSettle(p) \/ SweepFails(p)
  BY <1>3, ProceedsElsewhere DEF SweepRemove, SweepSettle, SweepFails, Op, Deleting
<1>4. QED
  BY <1>1, <1>2, <1>3 DEF Sweep

\* A request comes to a delete by the read of that delete alone, which carries
\* the images of the rows and changes none of them.
ComesToDelete(p) ==
    /\ UNCHANGED <<rows, media>>
    /\ \/ \E a \in Album : req'[p] = Work("deleteAlbum", a, AlbumKeys(a))
       \/ \E g \in Page : req'[p] = Work("deletePage", g, media[g])

LEMMA OnlyReadsComeToDelete ==
  ASSUME TypeOK, Next, NEW p \in Request, req'[p] # req[p], req'[p].op \in Deleting
  PROVE  ComesToDelete(p)
<1>1. ~NoneDeletes
  BY DEF NoneDeletes
<1>2. ASSUME NEW q \in Request, NEW r, Begin(q, r) PROVE q = p /\ req'[p] = r
  BY <1>2 DEF Begin, TypeOK
<1>3. ASSUME NEW q \in Request, NEW a \in Album, AlbumDeleteRead(q, a) PROVE ComesToDelete(p)
  BY <1>2, <1>3 DEF AlbumDeleteRead, database, ComesToDelete
<1>4. ASSUME NEW q \in Request, NEW g \in Page, PageDeleteRead(q, g) PROVE ComesToDelete(p)
  BY <1>2, <1>4 DEF PageDeleteRead, database, ComesToDelete
<1>5. ASSUME NEW k \in Key, Upload(k) \/ ReceiptExpires(k) PROVE FALSE
  BY <1>5 DEF Upload, Presign, UrlExpires, Put, StagingLifecycle, ReceiptExpires
<1>6. ASSUME NEW q \in Request, End(q) PROVE FALSE
  BY <1>1, <1>6, FinishesElsewhere DEF End
<1>7. ~Restart
  BY DEF Restart, Idle, Work, Deleting
<1>8. ASSUME NEW q \in Request, Confirm(q) \/ PhotoService(q) \/ Sweep(q) PROVE FALSE
  BY <1>1, <1>8, ConfirmElsewhere, PhotoElsewhere, SweepElsewhere
<1>9. ASSUME NEW q \in Request, AlbumService(q) PROVE ComesToDelete(p)
  BY <1>1, <1>3, <1>9, AlbumElsewhere
<1>10. ASSUME NEW q \in Request, PageService(q) PROVE ComesToDelete(p)
  BY <1>1, <1>4, <1>10, PageElsewhere
<1>11. QED
  BY <1>5, <1>6, <1>7, <1>8, <1>9, <1>10 DEF Next

\* A request that waits with its delete: an image that its rows show after the
\* step was shown by them before, or is one of the gifts of the step.
LEMMA WaitingStaysRight ==
  ASSUME MediaInv, NEW p \in Request, RemovalCarried(p), req'[p] = req[p],
         req[p].op \in Deleting => added'[p] = added[p] \cup Given
  PROVE  RemovalCarried(p)'
<1> DEFINE r == req[p]
           a == r.owner
<1>1. \A o \in Owner : \A k \in media'[o] : k \in media[o] \/ k \in Given
  BY DEF Given
<1>2. \A o \in Owner : \A k \in media[o] : rows[o] = "live"
  BY DEF MediaInv, MediaHasOneOwner
<1>3. r.op \in Deleting => a \in Owner
  BY DEF MediaInv, ReadsStillBound, Carried, CarriedDelete, Deleting, Owner
<1>4. ASSUME r.op = "deleteAlbum" PROVE AlbumKeys(a)' \subseteq r.keys \cup added'[p]
  <2> SUFFICES ASSUME NEW k \in AlbumKeys(a)' PROVE k \in r.keys \cup added'[p]
    OBVIOUS
  <2>1. PICK o \in AlbumRows(a)' : k \in media'[o]
    BY DEF AlbumKeys
  <2>2. o \in Owner /\ (o = a \/ (o \in Page /\ AlbumOf[o] = a))
    BY <1>3, <1>4, <2>1 DEF AlbumRows, PagesOf, Owner, Deleting
  <2>3. CASE k \in media[o]
    <3>1. o \in AlbumRows(a)
      BY <1>2, <2>2, <2>3 DEF AlbumRows, PagesOf
    <3>2. k \in AlbumKeys(a)
      BY <2>3, <3>1 DEF AlbumKeys
    <3>3. QED
      BY <1>4, <3>2 DEF RemovalCarried, Deleting
  <2>4. CASE k \notin media[o]
    BY <1>1, <1>4, <2>1, <2>2, <2>4 DEF Deleting
  <2>5. QED
    BY <2>3, <2>4
<1>5. ASSUME r.op = "deletePage" PROVE media'[a] \subseteq r.keys \cup added'[p]
  BY <1>1, <1>3, <1>5 DEF RemovalCarried, Deleting
<1>6. QED
  BY <1>4, <1>5 DEF RemovalCarried

\* A request that has just read what it will delete carries all of it.
LEMMA ReadingIsRight ==
  ASSUME NEW p \in Request, ComesToDelete(p)
  PROVE  RemovalCarried(p)'
<1>1. ASSUME NEW a \in Album, req'[p] = Work("deleteAlbum", a, AlbumKeys(a))
      PROVE  RemovalCarried(p)'
  <2>1. AlbumKeys(a)' = AlbumKeys(a)
    BY DEF ComesToDelete, AlbumKeys, AlbumRows, PagesOf
  <2>2. req'[p].op = "deleteAlbum" /\ req'[p].owner = a /\ req'[p].keys = AlbumKeys(a)
    BY <1>1 DEF Work
  <2>3. QED
    BY <2>1, <2>2 DEF RemovalCarried
<1>2. ASSUME NEW g \in Page, req'[p] = Work("deletePage", g, media[g])
      PROVE  RemovalCarried(p)'
  BY <1>2 DEF Work, RemovalCarried, ComesToDelete
<1>3. QED
  BY <1>1, <1>2 DEF ComesToDelete

LEMMA RemovalStep == MediaInv /\ RemovalInv /\ RemovalNext => RemovalInv'
<1> SUFFICES ASSUME MediaInv, RemovalInv, RemovalNext, NEW p \in Request
             PROVE  RemovalCarried(p)'
  BY DEF RemovalInv
<1>0. TypeOK /\ Next /\ RemovalCarried(p)
  BY DEF MediaInv, RemovalNext, RemovalInv
<1>1. CASE req'[p].op \notin Deleting
  BY <1>1 DEF RemovalCarried, Deleting
<1>2. CASE req'[p] = req[p]
  <2>1. req[p].op \in Deleting => added'[p] = added[p] \cup Given
    BY <1>2 DEF RemovalNext
  <2>2. QED
    BY <1>0, <1>2, <2>1, WaitingStaysRight
<1>3. CASE req'[p] # req[p] /\ req'[p].op \in Deleting
  BY <1>0, <1>3, OnlyReadsComeToDelete, ReadingIsRight
<1>4. QED
  BY <1>1, <1>2, <1>3

LEMMA RemovalStutter == RemovalInv /\ UNCHANGED removalVars => RemovalInv'
BY DEF RemovalInv, RemovalCarried, AlbumKeys, AlbumRows, PagesOf, removalVars, vars

-----------------------------------------------------------------------------
(* How a row goes.                                                         *)

\* Rows are taken by the three delete transactions only.
LEMMA RowsGo ==
  ASSUME TypeOK, [Next]_vars, NEW o \in Owner, rows[o] = "live", rows'[o] = "gone"
  PROVE  \E p \in Request :
           \/ PhotoDeleteTx(p) /\ o = req[p].owner
           \/ PageDeleteTx(p) /\ o = req[p].owner
           \/ AlbumDeleteTx(p) /\ o \in AlbumRows(req[p].owner)
<1>1. ASSUME NEW O, NEW K, DeleteRows(O, K) PROVE o \in O
  BY <1>1 DEF DeleteRows
<1>2. ASSUME NEW x \in Owner, NEW K, Insert(x, K) PROVE FALSE
  BY <1>2 DEF Insert, TypeOK
<1>3. rows' # rows
  OBVIOUS
<1>4. ASSUME NEW k \in Key, Upload(k) \/ ReceiptExpires(k) PROVE FALSE
  BY <1>3, <1>4 DEF Upload, Presign, UrlExpires, Put, StagingLifecycle, ReceiptExpires, database
<1>5. ASSUME NEW p \in Request, Confirm(p) \/ Sweep(p) \/ End(p) PROVE FALSE
  BY <1>3, <1>5 DEF Confirm, ConfirmValidate, ConfirmCopy, ConfirmUnstage, ConfirmRecover,
                    ConfirmIssue, Sweep, SweepStart, SweepPick, SweepRemove, SweepSettle,
                    SweepFails, End, database
<1>6. ASSUME NEW p \in Request, PhotoService(p) PROVE PhotoDeleteTx(p) /\ o = req[p].owner
  BY <1>1, <1>2, <1>3, <1>6 DEF PhotoService, PhotoCreateRead, PhotoDeleteRead, PhotoCreateTx,
                                PhotoDeleteTx, database, Owner
<1>7. ASSUME NEW p \in Request, AlbumService(p)
      PROVE  AlbumDeleteTx(p) /\ o \in AlbumRows(req[p].owner)
  BY <1>1, <1>2, <1>3, <1>7 DEF AlbumService, AlbumCreateRead, AlbumUpdateRead, AlbumDeleteRead,
        AlbumCreateTx, AlbumUpdateTx, AlbumDeleteTx, AlbumDeleteTimeout, AlbumDeleteRecheck,
        database, Owner
<1>8. ASSUME NEW p \in Request, PageService(p) PROVE PageDeleteTx(p) /\ o = req[p].owner
  BY <1>1, <1>2, <1>3, <1>8 DEF PageService, PageCreateRead, PageUpdateRead, PageDeleteRead,
        PageCreateTx, PageUpdateTx, PageDeleteTx, database, Owner
<1>9. ~Restart /\ ~UNCHANGED vars
  BY <1>3 DEF Restart, database, vars
<1>10. QED
  BY <1>4, <1>5, <1>6, <1>7, <1>8, <1>9 DEF Next

\* A delete transaction moves its request on to the sweep.
LEMMA DeleteTxMoves ==
  ASSUME TypeOK, NEW p \in Request, AlbumDeleteTx(p) \/ PageDeleteTx(p)
  PROVE  req'[p] # req[p]
<1>1. \/ req[p].op \in Deleting /\ Proceed(p, "sweep")
      \/ req[p].op \in Deleting /\ Proceed(p, "recheckAlbum")
  BY DEF AlbumDeleteTx, PageDeleteTx, At, Deleting
<1>2. req'[p].op \in {"sweep", "recheckAlbum"}
  BY <1>1 DEF TypeOK, RequestState, Proceed
<1>3. QED
  BY <1>1, <1>2 DEF Deleting

\* The rows an album delete takes are those of the album it names, and it
\* registers the images they show.
LEMMA AlbumGoes ==
  ASSUME MediaInv, RemovalInv, NEW p \in Request, AlbumDeleteTx(p)
  PROVE  /\ req[p].owner \in Album
         /\ rows'[req[p].owner] = "gone"
         /\ LeavesTasks(p, AlbumRows(req[p].owner))
<1> DEFINE a == req[p].owner
           K == req[p].keys
<1>1. TypeOK /\ K \in SUBSET Key /\ a \in Album
  BY DEF MediaInv, TypeOK, RequestState, ReadsStillBound, Carried, CarriedDelete,
         AlbumDeleteTx, At
<1>2. AlbumKeys(a) \subseteq K \cup added[p]
  BY DEF RemovalInv, RemovalCarried, AlbumDeleteTx, At
<1>3. DeleteRows(AlbumRows(a), K)
  BY DEF AlbumDeleteTx
<1> HIDE DEF a, K
<1>4. \A k \in K : tasks'[k] # <<>>
  BY <1>1, <1>3, EnqueueGrows DEF DeleteRows
<1>5. \A o \in AlbumRows(a) : \A k \in media[o] : k \in K \cup added[p]
  BY <1>2 DEF AlbumKeys
<1>6. rows'[a] = "gone"
  BY <1>1, <1>3 DEF DeleteRows, AlbumRows, Owner
<1>7. LeavesTasks(p, AlbumRows(a))
  BY <1>4, <1>5 DEF LeavesTasks
<1>8. QED
  BY <1>1, <1>6, <1>7 DEF a

LEMMA PageGoes ==
  ASSUME MediaInv, RemovalInv, NEW p \in Request, PageDeleteTx(p)
  PROVE  LeavesTasks(p, {req[p].owner})
<1> DEFINE g == req[p].owner
           K == req[p].keys
<1>1. TypeOK /\ K \in SUBSET Key
  BY DEF MediaInv, TypeOK, RequestState
<1>2. media[g] \subseteq K \cup added[p]
  BY DEF RemovalInv, RemovalCarried, PageDeleteTx, At
<1>3. DeleteRows({g}, K)
  BY DEF PageDeleteTx
<1> HIDE DEF g, K
<1>4. \A k \in K : tasks'[k] # <<>>
  BY <1>1, <1>3, EnqueueGrows DEF DeleteRows
<1>5. LeavesTasks(p, {g})
  BY <1>2, <1>4 DEF LeavesTasks
<1>6. QED
  BY <1>5 DEF g

\* A photo or page delete names no album: what CarriedDelete says of its owner.
LEMMA OwnersOfDeletes ==
  ASSUME MediaInv, NEW p \in Request, PhotoDeleteTx(p) \/ PageDeleteTx(p)
  PROVE  req[p].owner \notin Album
BY IdentifiersAreDistinct
   DEF MediaInv, ReadsStillBound, Carried, CarriedDelete, PhotoDeleteTx, PageDeleteTx, At

\* RemovalSpec only adds the history: what Spec keeps it keeps too.
LEMMA RemovalIsSpec == RemovalSpec => Spec
<1>1. RemovalInit => Init
  BY DEF RemovalInit
<1>2. [RemovalNext]_removalVars => [Next]_vars
  BY DEF RemovalNext, removalVars
<1>3. QED
  BY <1>1, <1>2, PTL DEF RemovalSpec, Spec

LEMMA RemovalInvHolds == RemovalSpec => []RemovalInv
<1>1. RemovalInit => RemovalInv
  BY DEF RemovalInit, Init, RemovalInv, RemovalCarried, Idle, Work
<1>2. MediaInv /\ RemovalInv /\ [RemovalNext]_removalVars => RemovalInv'
  BY RemovalStep, RemovalStutter
<1>3. QED
  BY <1>1, <1>2, RemovalIsSpec, MediaInvHolds, PTL DEF RemovalSpec

\* However many requests create, change and delete the cover and the pages of an
\* album meanwhile, the album goes with a task for every image it and its pages
\* show, but for those attached after its delete had collected the keys
\* (album.service.ts, delete).
THEOREM AlbumsLeaveTasks == RemovalSpec => AlbumLeavesTasks
<1>1. MediaInv /\ RemovalInv /\ [RemovalNext]_removalVars =>
        \A a \in Album : rows[a] = "live" /\ rows'[a] = "gone" =>
          \E p \in Request : req'[p] # req[p] /\ LeavesTasks(p, AlbumRows(a))
  <2> SUFFICES ASSUME MediaInv, RemovalInv, [RemovalNext]_removalVars,
                      NEW a \in Album, rows[a] = "live", rows'[a] = "gone"
               PROVE  \E p \in Request : req'[p] # req[p] /\ LeavesTasks(p, AlbumRows(a))
    OBVIOUS
  <2>1. TypeOK /\ a \in Owner /\ [Next]_vars
    BY DEF MediaInv, Owner, RemovalNext, removalVars
  <2>2. PICK p \in Request : \/ PhotoDeleteTx(p) /\ a = req[p].owner
                             \/ PageDeleteTx(p) /\ a = req[p].owner
                             \/ AlbumDeleteTx(p) /\ a \in AlbumRows(req[p].owner)
    BY <2>1, RowsGo
  <2>3. AlbumDeleteTx(p) /\ a \in AlbumRows(req[p].owner)
    BY <2>2, OwnersOfDeletes
  <2>4. a = req[p].owner
    BY <2>3, IdentifiersAreDistinct DEF AlbumRows, PagesOf
  <2>5. QED
    BY <2>1, <2>3, <2>4, AlbumGoes, DeleteTxMoves
<1>2. QED
  BY <1>1, RemovalInvHolds, RemovalIsSpec, MediaInvHolds, PTL DEF RemovalSpec, AlbumLeavesTasks

\* Likewise a page deleted on its own, while its album stays and updates may give
\* it other images, goes with a task for every image it shows, but for those it
\* was given after its delete had read them (album.service.ts, deletePage).
THEOREM PagesLeaveTasks == RemovalSpec => PageLeavesTasks
<1>1. MediaInv /\ PhotoInv /\ RemovalInv /\ [RemovalNext]_removalVars =>
        \A g \in Page : rows[g] = "live" /\ rows'[g] = "gone" /\ rows'[AlbumOf[g]] = "live" =>
          \E p \in Request : req'[p] # req[p] /\ LeavesTasks(p, {g})
  <2> SUFFICES ASSUME MediaInv, PhotoInv, RemovalInv, [RemovalNext]_removalVars,
                      NEW g \in Page, rows[g] = "live", rows'[g] = "gone",
                      rows'[AlbumOf[g]] = "live"
               PROVE  \E p \in Request : req'[p] # req[p] /\ LeavesTasks(p, {g})
    OBVIOUS
  <2>1. TypeOK /\ g \in Owner /\ [Next]_vars
    BY DEF MediaInv, Owner, RemovalNext, removalVars
  <2>2. PICK p \in Request : \/ PhotoDeleteTx(p) /\ g = req[p].owner
                             \/ PageDeleteTx(p) /\ g = req[p].owner
                             \/ AlbumDeleteTx(p) /\ g \in AlbumRows(req[p].owner)
    BY <2>1, RowsGo
  <2>3. CASE PhotoDeleteTx(p) /\ g = req[p].owner
    BY <2>3, IdentifiersAreDistinct DEF PhotoInv, PhotoCarried, PhotoDeleteTx, At
  <2>4. CASE PageDeleteTx(p) /\ g = req[p].owner
    BY <2>1, <2>4, PageGoes, DeleteTxMoves
  <2>5. CASE AlbumDeleteTx(p) /\ g \in AlbumRows(req[p].owner)
    <3>1. req[p].owner \in Album /\ rows'[req[p].owner] = "gone"
      BY <2>5, AlbumGoes
    <3>2. AlbumOf[g] = req[p].owner
      BY <2>5, <3>1, IdentifiersAreDistinct DEF AlbumRows, PagesOf
    <3>3. QED
      BY <3>1, <3>2
  <2>6. QED
    BY <2>2, <2>3, <2>4, <2>5
<1>2. Init => PhotoInv
  BY DEF Init, PhotoInv, PhotoHolds, PhotoCarried, Idle, Work, Key
<1>3. Spec => []PhotoInv
  BY <1>2, NextKeepsPhotos, MediaInvHolds, PTL DEF Spec
<1>4. QED
  BY <1>1, <1>3, RemovalInvHolds, RemovalIsSpec, MediaInvHolds, PTL
     DEF RemovalSpec, PageLeavesTasks

-----------------------------------------------------------------------------
(***************************************************************************)
(* MediaLifecycle implements MediaPromise: a confirmation publishes, a     *)
(* create or update transaction takes, a delete transaction retires, the   *)
(* sweep removes; every other step changes nothing the promise speaks of.  *)
(***************************************************************************)

PromiseVars == <<stored, boundTo, Gone, Released>>

\* A step that changes neither objects, holders, rows nor tasks.
LEMMA QuietIsStutter ==
  ASSUME UNCHANGED <<stored, boundTo, rows, tasks>>
  PROVE  UNCHANGED PromiseVars
BY DEF PromiseVars, Gone, Released

LEMMA AttachTakes ==
  ASSUME MediaInv, NEW o \in Owner, NEW K \in SUBSET Key, NEW kept,
         Attach(o, K, kept), rows[o] # "gone", Gone' = Gone,
         UNCHANGED <<stored, tasks>>
  PROVE  Promise!Next
<1>1. TypeOK /\ DataInv
  BY DEF MediaInv, DataInv
<1>2. \A k \in K : boundTo[k] = NoOwner /\ tasks[k] = <<>> /\ receipt[k] = "open"
  BY <1>1, ConsumableIsFree DEF Attach, Consumable
<1>3. K \subseteq stored
  BY <1>1, <1>2 DEF DataInv, StoredUntilTask, Kept
<1>4. Promise!Take(o, K)
  BY <1>2, <1>3 DEF Promise!Take, Attach, Gone, Released
<1>5. QED
  BY <1>4 DEF Promise!Next

LEMMA InsertTakes ==
  ASSUME MediaInv, NEW o \in Owner, NEW K \in SUBSET Key,
         Insert(o, K), UNCHANGED <<stored, tasks>>
  PROVE  Promise!Next
<1>1. Attach(o, K, {}) /\ rows[o] # "gone"
  BY DEF Insert
<1>2. Gone' = Gone
  BY DEF Insert, Gone, MediaInv, TypeOK
<1>3. QED
  BY <1>1, <1>2, AttachTakes

LEMMA DeleteRetires ==
  ASSUME MediaInv, NEW O \in SUBSET Owner, NEW K \in SUBSET Key,
         \A k \in K : boundTo[k] \in Owner
                        /\ (boundTo[k] \in O \/ rows[boundTo[k]] = "gone"),
         DeleteRows(O, K), UNCHANGED <<stored, boundTo>>
  PROVE  Promise!Next
<1>1. TypeOK
  BY DEF MediaInv
<1>2. /\ \A k \in Key : tasks[k] # <<>> => tasks'[k] # <<>>
      /\ \A k \in K : tasks'[k] # <<>>
      /\ \A k \in Key \ K : tasks'[k] = tasks[k]
  BY <1>1, EnqueueGrows DEF DeleteRows
<1>3. Released' = Released \cup K
  BY <1>2 DEF Released
<1>4. Gone' = Gone \cup O
  BY <1>1 DEF DeleteRows, Gone, TypeOK
<1>5. \A k \in K : boundTo[k] \in Gone \cup O
  BY DEF Gone
<1>6. Promise!Retire(O, K)
  BY <1>3, <1>4, <1>5 DEF Promise!Retire
<1>7. QED
  BY <1>6 DEF Promise!Next

LEMMA SweepRemoves ==
  ASSUME MediaInv, NEW p \in Request, SweepRemove(p)
  PROVE  Promise!Next
<1>1. TypeOK /\ Carried(req[p]) /\ req[p] \in RequestState
  BY DEF MediaInv, ReadsStillBound, TypeOK
<1>2. \A k \in req[p].keys : k \in Key /\ req[p].row \in DOMAIN tasks[k]
  BY <1>1 DEF SweepRemove, At, Carried, RequestState
<1>3. req[p].keys \in SUBSET Key /\ req[p].keys \subseteq Released
  BY <1>1, <1>2, LenProperties DEF TypeOK, Released
<1>4. /\ stored' = stored \ req[p].keys
      /\ UNCHANGED <<boundTo, Gone, Released>>
  BY DEF SweepRemove, database, Gone, Released
<1>5. Promise!Remove(req[p].keys)
  BY <1>3, <1>4 DEF Promise!Remove
<1>6. QED
  BY <1>3, <1>5 DEF Promise!Next

LEMMA SettleStutters ==
  ASSUME MediaInv, NEW p \in Request, SweepSettle(p)
  PROVE  UNCHANGED PromiseVars
<1>1. TypeOK /\ DataInv /\ Carried(req[p]) /\ req[p] \in RequestState
  BY DEF MediaInv, DataInv, ReadsStillBound, TypeOK
<1>2. PICK i : i = req[p].row
  OBVIOUS
<1>3. PICK K \in SUBSET Key : K = req[p].keys
  BY <1>1 DEF RequestState
<1>4. \A k \in K : i \in DOMAIN tasks[k] /\ tasks[k] # <<>>
  <2>1. \A k \in K : k \in Key /\ i \in DOMAIN tasks[k]
    BY <1>1, <1>2, <1>3 DEF SweepSettle, At, Carried
  <2>2. QED
    BY <1>1, <2>1, LenProperties DEF TypeOK
<1>5. tasks' = [k \in Key |->
          IF k \in K THEN [tasks[k] EXCEPT ![i] = Settled(tasks[k][i])] ELSE tasks[k]]
  BY <1>2, <1>3 DEF SweepSettle
<1>6. UNCHANGED <<stored, receipt, rows, media, boundTo>>
  BY DEF SweepSettle, store
<1>7. Advance /\ tasks' \in [Key -> Seq({"pending", "done"})]
  BY <1>1, <1>4, <1>5, <1>6, SettleKeeps
<1>8. \A k \in Key : tasks'[k] # <<>> <=> tasks[k] # <<>>
  <2>1. \A k \in K : i \in DOMAIN tasks'[k]
    BY <1>4, <1>7 DEF Advance
  <2>2. \A k \in K : tasks'[k] # <<>>
    BY <1>7, <2>1, LenProperties
  <2>3. QED
    BY <1>4, <1>5, <2>2
<1>9. QED
  BY <1>6, <1>8 DEF PromiseVars, Gone, Released

LEMMA PhotoKeepsPromise ==
  ASSUME MediaInv, NEW p \in Request, PhotoService(p)
  PROVE  Promise!Next \/ UNCHANGED PromiseVars
<1>0. TypeOK /\ Carried(req[p]) /\ req[p].keys \in SUBSET Key
  BY DEF MediaInv, ReadsStillBound, TypeOK, RequestState
<1>1. CASE \/ \E k \in PhotoKey : PhotoCreateRead(p, k)
           \/ \E o \in Photo : PhotoDeleteRead(p, o)
  BY <1>1, QuietIsStutter DEF PhotoCreateRead, PhotoDeleteRead, store, database
<1>2. CASE PhotoCreateTx(p)
  BY <1>0, <1>2, InsertTakes DEF PhotoCreateTx, store, Owner
<1>3. CASE PhotoDeleteTx(p)
  <2>1. req[p].owner \in Owner /\ \A k \in req[p].keys : boundTo[k] = req[p].owner
    BY <1>0, <1>3 DEF PhotoDeleteTx, At, Carried, CarriedDelete, Owner
  <2>2. QED
    BY <1>0, <1>3, <2>1, DeleteRetires DEF PhotoDeleteTx, store
<1>4. QED
  BY <1>1, <1>2, <1>3 DEF PhotoService

LEMMA AlbumKeepsPromise ==
  ASSUME MediaInv, NEW p \in Request, AlbumService(p)
  PROVE  Promise!Next \/ UNCHANGED PromiseVars
<1>0. TypeOK /\ Carried(req[p]) /\ req[p].keys \in SUBSET Key
  BY DEF MediaInv, ReadsStillBound, TypeOK, RequestState
<1>1. CASE \/ \E K \in SUBSET AlbumKey : AlbumCreateRead(p, K)
           \/ \E a \in Album, k \in AlbumKey : AlbumUpdateRead(p, a, k)
           \/ \E a \in Album : AlbumDeleteRead(p, a)
           \/ AlbumDeleteTimeout(p) \/ AlbumDeleteRecheck(p)
  BY <1>1, QuietIsStutter DEF AlbumCreateRead, AlbumUpdateRead, AlbumDeleteRead,
                              AlbumDeleteTimeout, AlbumDeleteRecheck, store, database
<1>2. CASE AlbumCreateTx(p)
  BY <1>0, <1>2, InsertTakes DEF AlbumCreateTx, store, Owner
<1>3. CASE AlbumUpdateTx(p)
  <2>1. req[p].owner \in Owner
    BY <1>0, <1>3 DEF AlbumUpdateTx, At, Carried, CarriedWrite, Owner
  <2>2. UNCHANGED <<stored, tasks>> /\ Gone' = Gone
    BY <1>3 DEF AlbumUpdateTx, store, Gone
  <2>3. QED
    BY <1>0, <1>3, <2>1, <2>2, AttachTakes DEF AlbumUpdateTx
<1>4. CASE AlbumDeleteTx(p)
  <2>1. PICK O : O = AlbumRows(req[p].owner)
    OBVIOUS
  <2>2. req[p].op = "deleteAlbum" /\ rows[req[p].owner] = "live"
    BY <1>4 DEF AlbumDeleteTx, At
  <2>3. /\ O \subseteq Owner
        /\ \A k \in req[p].keys : boundTo[k] \in Owner
               /\ (boundTo[k] \in O \/ rows[boundTo[k]] = "gone")
    BY <2>1, <2>2, AlbumDeleteCarries
  <2>4. QED
    BY <1>0, <1>4, <2>1, <2>3, DeleteRetires DEF AlbumDeleteTx, store
<1>5. QED
  BY <1>1, <1>2, <1>3, <1>4 DEF AlbumService

LEMMA PageKeepsPromise ==
  ASSUME MediaInv, NEW p \in Request, PageService(p)
  PROVE  Promise!Next \/ UNCHANGED PromiseVars
<1>0. TypeOK /\ Carried(req[p]) /\ req[p].keys \in SUBSET Key
  BY DEF MediaInv, ReadsStillBound, TypeOK, RequestState
<1>1. CASE \/ \E a \in Album, K \in SUBSET AlbumKey : PageCreateRead(p, a, K)
           \/ \E g \in Page, K, kept \in SUBSET AlbumKey : PageUpdateRead(p, g, K, kept)
           \/ \E g \in Page : PageDeleteRead(p, g)
  BY <1>1, QuietIsStutter DEF PageCreateRead, PageUpdateRead, PageDeleteRead, store, database
<1>2. CASE PageCreateTx(p)
  BY <1>0, <1>2, InsertTakes DEF PageCreateTx, store, Owner
<1>3. CASE PageUpdateTx(p)
  <2>1. req[p].owner \in Owner
    BY <1>0, <1>3 DEF PageUpdateTx, At, Carried, CarriedWrite, Owner
  <2>2. UNCHANGED <<stored, tasks>> /\ Gone' = Gone
    BY <1>3 DEF PageUpdateTx, store, Gone
  <2>3. QED
    BY <1>0, <1>3, <2>1, <2>2, AttachTakes DEF PageUpdateTx
<1>4. CASE PageDeleteTx(p)
  <2>1. req[p].owner \in Owner /\ \A k \in req[p].keys : boundTo[k] = req[p].owner
    BY <1>0, <1>4 DEF PageDeleteTx, At, Carried, CarriedDelete, Owner
  <2>2. QED
    BY <1>0, <1>4, <2>1, DeleteRetires DEF PageDeleteTx, store
<1>5. QED
  BY <1>1, <1>2, <1>3, <1>4 DEF PageService

\* Every step of the detailed specification is a step of the promise, or
\* changes nothing the promise speaks of.
LEMMA StepKeepsPromise == MediaInv /\ [Next]_vars => [Promise!Next]_PromiseVars
<1> SUFFICES ASSUME MediaInv, [Next]_vars
             PROVE  Promise!Next \/ UNCHANGED PromiseVars
  OBVIOUS
<1>1. ASSUME NEW k \in Key, Upload(k) \/ ReceiptExpires(k)
      PROVE  UNCHANGED PromiseVars
  BY <1>1, QuietIsStutter DEF Upload, Presign, UrlExpires, Put, StagingLifecycle,
                              ReceiptExpires, store, database
<1>2. ASSUME NEW p \in Request, Confirm(p)
      PROVE  Promise!Next \/ UNCHANGED PromiseVars
  <2>1. CASE ConfirmCopy(p)
    <3>1. Promise!Publish(req[p].keys)
      BY <2>1 DEF ConfirmCopy, Promise!Publish, database, Gone, Released
    <3>2. req[p].keys \in SUBSET Key
      BY DEF MediaInv, TypeOK, RequestState
    <3>3. QED
      BY <3>1, <3>2 DEF Promise!Next
  <2>2. CASE ~ConfirmCopy(p)
    BY <1>2, <2>2, QuietIsStutter DEF Confirm, ConfirmValidate, ConfirmUnstage,
                                      ConfirmRecover, ConfirmIssue, store, database
  <2>3. QED
    BY <2>1, <2>2
<1>3. ASSUME NEW p \in Request, Sweep(p)
      PROVE  Promise!Next \/ UNCHANGED PromiseVars
  <2>1. CASE SweepRemove(p)
    BY <2>1, SweepRemoves
  <2>2. CASE SweepSettle(p)
    BY <2>2, SettleStutters
  <2>3. CASE SweepStart(p) \/ SweepPick(p) \/ SweepFails(p)
    BY <2>3, QuietIsStutter DEF SweepStart, SweepPick, SweepFails, store, database
  <2>4. QED
    BY <1>3, <2>1, <2>2, <2>3 DEF Sweep
<1>4. ASSUME NEW p \in Request, PhotoService(p) \/ AlbumService(p) \/ PageService(p)
      PROVE  Promise!Next \/ UNCHANGED PromiseVars
  BY <1>4, PhotoKeepsPromise, AlbumKeepsPromise, PageKeepsPromise
<1>5. ASSUME NEW p \in Request, End(p)
      PROVE  UNCHANGED PromiseVars
  BY <1>5, QuietIsStutter DEF End, store, database
<1>6. CASE Restart \/ UNCHANGED vars
  BY <1>6, QuietIsStutter DEF Restart, store, database, vars
<1>7. QED
  BY <1>1, <1>2, <1>3, <1>4, <1>5, <1>6 DEF Next

\* The server, with all its overlapping requests, crashes and stale reads,
\* implements the promise of MediaPromise.
THEOREM ImplementsPromise == Spec => KeepsPromise
<1>1. Init => Promise!Init
  BY DEF Init, Promise!Init, Gone, Released
<1>2. MediaInv /\ [Next]_vars => [Promise!Next]_(Promise!promiseVars)
  BY StepKeepsPromise DEF PromiseVars, Promise!promiseVars
<1>3. QED
  BY <1>1, <1>2, MediaInvHolds, PTL DEF Spec, KeepsPromise, Promise!Spec
=============================================================================
