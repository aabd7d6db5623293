---------------------------- MODULE EditorProofs ----------------------------
(***************************************************************************)
(* The editor of an album's pages and the dialog that adds one, for any    *)
(* number of pages and overlapping calls.  The sections are independent of *)
(* each other.                                                             *)
(***************************************************************************)
EXTENDS PageEditor, PageDraft, FiniteSetTheorems, TLAPS

(*****************************************************************************)
(* EditorInv has a part for each property.  Mine: whatever is stored, shown, *)
(* held by the selected page or carried by a call is of the page it is for,  *)
(* or of one that page has met; so is the page of every upload and save for  *)
(* the page that is selected.  OneAlone: as long as operations do not        *)
(* overlap, the one under way agrees with the list that is shown and the one *)
(* that is stored.  Each kind of step (begin, go on, end) is one lemma,      *)
(* which its actions instantiate.                                            *)
(*****************************************************************************)

\* Pages, the objects of the list, and the selected one.
Source == Leaf \cup {NoLeaf}
PageObjects == [image : Source, receipt : Source]
Selections == [page : Source, attached : BOOLEAN, object : PageObjects]
\* What the server stores, and the history.
Storage == [order : Seq(Leaf), image : [Leaf -> Leaf]]
Pasts == [met : SUBSET (Leaf \X Leaf), alone : BOOLEAN]

\* The fields of a call.
CallFields ==
    [kind : {"none", "upload", "save", "fetch", "fetchLast", "drag", "delete", "add"},
     step : {"none", "sent", "answered"}, page : Source,
     receipt : Source, list : Seq(Leaf), answer : [Leaf -> Leaf]]

\* What the calls of an operation carry.
Calls ==
    {c \in CallFields : /\ c.kind \in {"upload", "save", "delete"} => c.page \in Leaf
                        /\ c.kind = "none" => c = NoJob}

\* Types.
EditorTypes ==
    /\ stored \in Storage
    /\ list \in Seq(Leaf)
    /\ local \in [Leaf -> PageObjects]
    /\ selected \in Selections
    /\ selected.attached => selected.page \in Leaf
    /\ jobs \in [Job -> Calls]
    /\ past \in Pasts

\* Page l, or one that it has met.
From(met, m, l) == m = l \/ <<m, l>> \in met

\* Nothing in an object, or in a call, is of a page that l has not met.
Clean(met, o, l) ==
    From(met, o.image, l) /\ (o.receipt = NoLeaf \/ From(met, o.receipt, l))
CleanCall(met, c, page) ==
    /\ c.receipt = NoLeaf \/ From(met, c.receipt, c.page)
    /\ \A l \in Leaf : From(met, c.answer[l], l)
    /\ c.kind \in {"upload", "save"} /\ page \in Leaf => From(met, c.page, page)

\* Every image that is shown, and the images of the server.
Shown(met, objects, one) ==
    /\ \A l \in Leaf : Clean(met, objects[l], l)
    /\ one.page \in Leaf /\ ~one.attached => Clean(met, one.object, one.page)
Kept(met, image) == \A l \in Leaf : From(met, image[l], l)

Mine ==
    /\ Kept(past.met, stored.image)
    /\ Shown(past.met, local, selected)
    /\ \A j \in Job : CleanCall(past.met, jobs[j], selected.page)

\* The page that is selected has met whoever is written to.
Follows(met, page) ==
    \A j \in Job : jobs[j].kind \in {"upload", "save"} /\ page \in Leaf
                      => From(met, jobs[j].page, page)

\* What the only operation under way knows of the two lists.
Agrees(c, shown, order) ==
    /\ c.kind \in {"none", "upload", "save"} => shown = order
    /\ c.kind \in {"fetch", "fetchLast"} /\ c.step = "answered" => c.list = order
    /\ c.kind = "drag" => c.list = shown

\* At most one operation is under way, and agrees with the lists.
OneAlone ==
    \E j \in Job : /\ \A i \in Job \ {j} : jobs[i] = NoJob
                   /\ Agrees(jobs[j], list, stored.order)

\* The inductive invariant.
EditorInv == EditorTypes /\ Mine /\ (past.alone => OneAlone)

\* A page that has met another goes on having met it.
LEMMA MetStays ==
  ASSUME NEW met, NEW after, met \subseteq after
  PROVE  /\ \A m, l : From(met, m, l) => From(after, m, l)
         /\ \A o, l : Clean(met, o, l) => Clean(after, o, l)
         /\ \A c, page : CleanCall(met, c, page) => CleanCall(after, c, page)
         /\ \A image : Kept(met, image) => Kept(after, image)
         /\ \A objects, one : Shown(met, objects, one) => Shown(after, objects, one)
  <1>1. \A m, l : From(met, m, l) => From(after, m, l)
    BY DEF From
  <1>2. \A o, l : Clean(met, o, l) => Clean(after, o, l)
    BY <1>1 DEF Clean
  <1> QED
    BY <1>1, <1>2 DEF CleanCall, Kept, Shown

\* What a step starts from.
LEMMA TypesFacts ==
  ASSUME EditorInv
  PROVE  /\ EditorTypes /\ stored \in Storage /\ list \in Seq(Leaf) /\ local \in [Leaf -> PageObjects]
         /\ selected \in Selections /\ (selected.attached => selected.page \in Leaf)
         /\ jobs \in [Job -> Calls] /\ past \in Pasts
         /\ Kept(past.met, stored.image) /\ Shown(past.met, local, selected)
         /\ Follows(past.met, selected.page)
         /\ \A j \in Job : /\ jobs[j] \in Calls /\ jobs[j] \in CallFields
                           /\ CleanCall(past.met, jobs[j], selected.page)
  BY DEF EditorInv, EditorTypes, Mine, Calls, Follows, CleanCall

\* A slot without a call.
LEMMA NoJobFacts ==
  /\ NoJob \in Calls /\ NoJob.kind = "none"
  /\ NoJob.receipt = NoLeaf /\ NoJob.answer = Own
  /\ Own \in [Leaf -> Leaf] /\ \A met : Kept(met, Own)
  /\ \A met, page : CleanCall(met, NoJob, page)
  <1>1. Own \in [Leaf -> Leaf] /\ \A l \in Leaf : Own[l] = l
    BY DEF Own
  <1>2. NoJob.answer = Own /\ NoJob.kind = "none" /\ NoJob.receipt = NoLeaf
    BY DEF NoJob
  <1>3. NoJob \in CallFields
    BY <1>1 DEF NoJob, CallFields, Source
  <1>4. NoJob \in Calls
    BY <1>2, <1>3 DEF Calls
  <1>5. \A met : Kept(met, Own)
    BY <1>1 DEF Kept, From
  <1>6. \A met, page : CleanCall(met, NoJob, page)
    BY <1>1, <1>2 DEF CleanCall, From
  <1> QED
    BY <1>1, <1>2, <1>4, <1>5, <1>6

\* A call as it is sent.
LEMMA NewJobFacts ==
  ASSUME NEW kind \in {"upload", "save", "fetch", "fetchLast", "drag", "delete", "add"},
         NEW page \in Source, kind \in {"upload", "save", "delete"} => page \in Leaf
  PROVE  /\ NewJob(kind, page) \in Calls /\ NewJob(kind, page) \in CallFields
         /\ NewJob(kind, page).kind = kind /\ NewJob(kind, page).step = "sent"
         /\ NewJob(kind, page).page = page /\ NewJob(kind, page) # NoJob
         /\ NewJob(kind, page).receipt = NoLeaf /\ NewJob(kind, page).answer = Own
         /\ \A met : CleanCall(met, NewJob(kind, page), page)
         /\ kind \notin {"upload", "save"} =>
               \A met, other : CleanCall(met, NewJob(kind, page), other)
  <1> DEFINE c == NewJob(kind, page)
  <1>1. /\ c \in CallFields /\ c.kind = kind /\ c.step = "sent" /\ c.page = page
        /\ c.receipt = NoLeaf /\ c.answer = Own
    BY NoJobFacts DEF NewJob, Calls, CallFields
  <1> HIDE DEF c
  <1>2. c \in Calls /\ c # NoJob
    BY <1>1, NoJobFacts DEF Calls
  <1>3. \A l \in Leaf : Own[l] = l
    BY DEF Own
  <1>4. /\ \A met : CleanCall(met, c, page)
        /\ kind \notin {"upload", "save"} => \A met, other : CleanCall(met, c, other)
    BY <1>1, <1>3 DEF CleanCall, From
  <1> QED
    BY <1>1, <1>2, <1>4 DEF c

\* A call that saves a page sends the receipt of its object.
LEMMA SaveFacts ==
  ASSUME NEW l \in Leaf, NEW o \in PageObjects
  PROVE  /\ SaveOf(l, o) \in Calls
         /\ SaveOf(l, o).kind = "save" /\ SaveOf(l, o) # NoJob
         /\ \A met : Clean(met, o, l) => CleanCall(met, SaveOf(l, o), l)
  <1> DEFINE n == NewJob("save", l)
             c == SaveOf(l, o)
  <1>1. /\ n \in CallFields /\ n.kind = "save" /\ n.page = l
        /\ n.answer = Own /\ o.receipt \in Source
    BY NewJobFacts DEF PageObjects, Source
  <1>2. c = [n EXCEPT !.receipt = o.receipt]
    BY DEF SaveOf
  <1> HIDE DEF n, c
  <1>3. /\ c \in CallFields /\ c.kind = "save" /\ c.page = l
        /\ c.receipt = o.receipt /\ c.answer = Own
    BY <1>1, <1>2 DEF CallFields
  <1>4. c \in Calls /\ c # NoJob
    BY <1>3, NoJobFacts DEF Calls
  <1>5. \A met : Clean(met, o, l) => CleanCall(met, c, l)
    BY <1>3, NoJobFacts DEF CleanCall, Clean, Kept, From
  <1> QED
    BY <1>3, <1>4, <1>5 DEF c

\* One call is made, goes on or ends; the others stay or end.
LEMMA CallSteps ==
  ASSUME EditorInv, EditorTypes', NEW i \in Job,
         \A k \in Job \ {i} : jobs'[k] = jobs[k] \/ jobs'[k] = NoJob,
         past.met \subseteq past'.met, Follows(past'.met, selected'.page),
         Kept(past'.met, stored'.image), Shown(past'.met, local', selected'),
         CleanCall(past'.met, jobs'[i], selected'.page),
         past'.alone =>
            /\ \A k \in Job \ {i} : jobs'[k] = NoJob
            /\ Agrees(jobs'[i], list', stored'.order)
  PROVE  EditorInv'
  <1>1. ASSUME NEW k \in Job PROVE CleanCall(past'.met, jobs'[k], selected'.page)
    <2>1. CASE k = i
      BY <2>1
    <2>2. CASE jobs'[k] = NoJob
      BY <2>2, NoJobFacts
    <2>3. CASE k # i /\ jobs'[k] = jobs[k]
      <3>1. CleanCall(past'.met, jobs[k], selected.page)
        BY <1>1, TypesFacts, MetStays
      <3> QED
        BY <1>1, <2>3, <3>1 DEF CleanCall, Follows
    <2> QED
      BY <1>1, <2>1, <2>2, <2>3
  <1>2. Mine'
    BY <1>1 DEF Mine
  <1>3. past'.alone => OneAlone'
    BY DEF OneAlone
  <1> QED
    BY <1>2, <1>3 DEF EditorInv

\* The page that is selected now meets whoever is written to.
LEMMA MeetsFacts ==
  ASSUME EditorInv, NEW l \in Leaf
  PROVE  /\ Meets(l) \in SUBSET (Leaf \X Leaf) /\ past.met \subseteq Meets(l)
         /\ Follows(Meets(l), l)
  <1>1. past.met \subseteq Leaf \X Leaf
    BY TypesFacts DEF Pasts
  <1>2. ASSUME NEW j \in Job, jobs[j].kind \in {"upload", "save"} PROVE From(Meets(l), jobs[j].page, l)
    <2>1. jobs[j].page \in Leaf /\ Writing(jobs[j].page)
      BY <1>2, TypesFacts DEF Calls, Writing
    <2> QED
      BY <2>1 DEF From, Meets
  <1> QED
    BY <1>1, <1>2 DEF Meets, Follows

\* The others are none, when the one that goes on is alone.
LEMMA OthersAreNone ==
  ASSUME EditorInv, NEW j \in Job, jobs[j].kind # "none", past.alone
  PROVE  /\ \A k \in Job \ {j} : jobs[k] = NoJob
         /\ Agrees(jobs[j], list, stored.order)
  BY NoJobFacts DEF EditorInv, OneAlone

\* With nothing under way the two lists are the same.
LEMMA QuietAgrees ==
  ASSUME EditorInv, Quiet, past.alone
  PROVE  list = stored.order
  BY NoJobFacts DEF EditorInv, OneAlone, Quiet, Agrees

\* A call becomes another and the others stay.
LEMMA OneCallMoves ==
  ASSUME EditorTypes, NEW j \in Job, NEW c \in Calls, jobs' = [jobs EXCEPT ![j] = c]
  PROVE  /\ jobs' \in [Job -> Calls] /\ jobs'[j] = c
         /\ \A k \in Job \ {j} : jobs'[k] = jobs[k]
  BY DEF EditorTypes

\* What the history notes when an operation begins, with what has been met.
LEMMA BeganFacts ==
  ASSUME NEW met \in SUBSET (Leaf \X Leaf), past' = [met |-> met, alone |-> past.alone /\ Quiet]
  PROVE  /\ past' \in Pasts /\ past'.met = met
         /\ past'.alone => past.alone /\ Quiet
  <1> DEFINE b == past.alone /\ Quiet
  <1>1. b \in BOOLEAN /\ (b <=> past.alone /\ Quiet) /\ past' = [met |-> met, alone |-> b]
    OBVIOUS
  <1> HIDE DEF b
  <1>2. past' \in Pasts /\ past'.met = met /\ past'.alone = b
    BY <1>1 DEF Pasts
  <1> QED
    BY <1>1, <1>2, Zenon

\* What it notes when nothing else is met.
LEMMA BeganIsSame ==
  ASSUME EditorTypes, Began
  PROVE  past' = [met |-> past.met, alone |-> past.alone /\ Quiet] /\ past.met \in SUBSET (Leaf \X Leaf)
  <1> DEFINE b == past.alone /\ Quiet
  <1>1. past \in Pasts /\ past' = [past EXCEPT !.alone = b]
    BY DEF EditorTypes, Began
  <1> HIDE DEF b
  <1>2. past' = [met |-> past.met, alone |-> b] /\ past.met \in SUBSET (Leaf \X Leaf)
    BY <1>1 DEF Pasts
  <1> QED
    BY <1>2 DEF b

\* An order of some pages is a list of pages.
LEMMA OrdersAreSeqs ==
  ASSUME NEW S \in SUBSET Leaf, IsFiniteSet(S), NEW s \in SetToSeqs(S)
  PROVE  s \in Seq(Leaf)
  <1>1. Cardinality(S) \in Nat
    BY FS_CardinalityType
  <1>2. s \in [1..Cardinality(S) -> Leaf]
    BY DEF SetToSeqs
  <1> QED
    BY <1>1, <1>2

\* An object as it is made from an answer, and the selections with none.
LEMMA FreshFacts ==
  /\ \A image \in Source : Fresh(image) \in PageObjects
  /\ \A met, l : \A image : From(met, image, l) => Clean(met, Fresh(image), l)
  /\ Nothing \in Selections /\ Nothing.page = NoLeaf /\ ~Nothing.attached
  /\ \A l \in Leaf : Attached(l) \in Selections /\ Attached(l).page = l /\ Attached(l).attached
  <1>1. \A image \in Source : Fresh(image) \in PageObjects
    BY DEF Fresh, PageObjects, Source
  <1>2. \A image : Fresh(image).image = image /\ Fresh(image).receipt = NoLeaf
    BY DEF Fresh
  <1>3. \A met, l : \A image : From(met, image, l) => Clean(met, Fresh(image), l)
    BY <1>2 DEF Clean
  <1> QED
    BY <1>1, <1>3 DEF Nothing, Attached, Selections, Source

\* Objects made from an answer are of their own pages, or of those these have met.
LEMMA ObjectsFacts ==
  ASSUME NEW image \in [Leaf -> Leaf]
  PROVE  /\ Objects(image) \in [Leaf -> PageObjects]
         /\ \A l \in Leaf : Objects(image)[l].receipt = NoLeaf
         /\ \A met : Kept(met, image) => \A l \in Leaf : Clean(met, Objects(image)[l], l)
  <1>1. \A l \in Leaf : Objects(image)[l] = Fresh(image[l]) /\ image[l] \in Source
    BY DEF Objects, Source
  <1>2. Objects(image) \in [Leaf -> PageObjects]
    BY <1>1, FreshFacts DEF Objects
  <1> QED
    BY <1>1, <1>2, FreshFacts DEF Kept, Fresh

\* The editor is opened on the pages of the album.
LEMMA EditorStarts == EditorInit => EditorInv
  <1> SUFFICES ASSUME EditorInit PROVE EditorInv
    OBVIOUS
  <1>1. PICK order \in SetToSeqs(leaves) : stored = [order |-> order, image |-> Own]
    BY DEF EditorInit
  <1>2. order \in Seq(Leaf)
    BY <1>1, OrdersAreSeqs DEF EditorInit
  <1>3. PICK j \in Job : jobs = [i \in Job |-> IF i = j THEN NewJob("fetch", NoLeaf) ELSE NoJob]
    BY DEF EditorInit
  <1>4. /\ NewJob("fetch", NoLeaf) \in Calls /\ NewJob("fetch", NoLeaf).kind = "fetch"
        /\ NewJob("fetch", NoLeaf).step = "sent"
        /\ \A met, page : CleanCall(met, NewJob("fetch", NoLeaf), page)
    BY NewJobFacts DEF Source
  <1>5. jobs \in [Job -> Calls] /\ \A met, page : \A i \in Job : CleanCall(met, jobs[i], page)
    BY <1>3, <1>4, NoJobFacts
  <1>6. /\ selected = Nothing /\ local = [l \in Leaf |-> Fresh(l)] /\ list = <<>>
        /\ past = [met |-> {}, alone |-> TRUE]
    BY DEF EditorInit
  <1>7. /\ local \in [Leaf -> PageObjects] /\ selected \in Selections /\ past \in Pasts
        /\ stored \in Storage /\ selected.page \notin Leaf /\ ~selected.attached
    BY <1>1, <1>2, <1>6, FreshFacts, NoJobFacts, NoLeafIsNoLeaf DEF Pasts, Storage, Source
  <1>8. EditorTypes
    BY <1>5, <1>6, <1>7 DEF EditorTypes
  <1>9. Shown(past.met, local, selected)
    BY <1>6, <1>7, FreshFacts DEF Shown, From
  <1>10. Mine
    BY <1>1, <1>5, <1>9, NoJobFacts DEF Mine
  <1>11. OneAlone
    BY <1>3, <1>4 DEF OneAlone, Agrees
  <1> QED
    BY <1>8, <1>10, <1>11 DEF EditorInv

\* The object that is edited.
LEMMA ObjectFacts ==
  ASSUME EditorInv
  PROVE  /\ Object \in PageObjects
         /\ selected.page \in Leaf => Clean(past.met, Object, selected.page)
  BY TypesFacts DEF Object, Shown, Selections

\* Writing to the object that is edited touches no other page.
LEMMA WriteFacts ==
  ASSUME EditorInv, selected.page \in Leaf, NEW o \in PageObjects, Write(o),
         Clean(past.met, o, selected.page)
  PROVE  /\ local' \in [Leaf -> PageObjects] /\ selected' \in Selections
         /\ selected'.page = selected.page
         /\ selected'.attached => selected'.page \in Leaf
         /\ Shown(past.met, local', selected')
  <1>t. /\ local \in [Leaf -> PageObjects] /\ selected \in Selections
        /\ Shown(past.met, local, selected)
    BY TypesFacts
  <1>1. CASE selected.attached
    <2>1. local' = [local EXCEPT ![selected.page] = o] /\ UNCHANGED selected
      BY <1>1 DEF Write
    <2> QED
      BY <1>t, <1>1, <2>1 DEF Shown
  <1>2. CASE ~selected.attached
    <2>1. selected' = [selected EXCEPT !.object = o] /\ UNCHANGED local
      BY <1>2 DEF Write
    <2>2. /\ selected' \in Selections /\ selected'.page = selected.page
          /\ ~selected'.attached /\ selected'.object = o
      BY <1>t, <1>2, <2>1 DEF Selections
    <2> QED
      BY <1>t, <2>1, <2>2 DEF Shown
  <1> QED
    BY <1>1, <1>2

\* A page that is selected in the list.
LEMMA AttachedFacts ==
  ASSUME NEW l \in Leaf, NEW met, NEW objects, \A m \in Leaf : Clean(met, objects[m], m)
  PROVE  Shown(met, objects, Attached(l))
  BY FreshFacts DEF Shown

\* A call is begun: alone if nothing was under way.
LEMMA StartedCall ==
  ASSUME EditorInv, NEW c \in Calls, Start(c), UNCHANGED stored,
         NEW met \in SUBSET (Leaf \X Leaf), past.met \subseteq met,
         past' = [met |-> met, alone |-> past.alone /\ Quiet],
         list' \in Seq(Leaf), local' \in [Leaf -> PageObjects], selected' \in Selections,
         selected'.attached => selected'.page \in Leaf,
         Shown(met, local', selected'), Follows(met, selected'.page),
         CleanCall(met, c, selected'.page),
         list = stored.order => Agrees(c, list', stored.order)
  PROVE  EditorInv'
  <1>t. EditorTypes /\ Kept(past.met, stored.image)
    BY TypesFacts
  <1>1. PICK j \in Job : jobs[j] = NoJob /\ jobs' = [jobs EXCEPT ![j] = c]
    BY DEF Start
  <1>2. /\ jobs' \in [Job -> Calls] /\ jobs'[j] = c
        /\ \A k \in Job \ {j} : jobs'[k] = jobs[k]
    BY <1>t, <1>1, OneCallMoves
  <1>3. /\ past' \in Pasts /\ past'.met = met
        /\ past'.alone => past.alone /\ Quiet
    BY BeganFacts
  <1>4. EditorTypes'
    BY <1>t, <1>2, <1>3 DEF EditorTypes
  <1>5. Kept(met, stored'.image)
    BY <1>t, MetStays
  <1>6. past'.alone => /\ \A k \in Job \ {j} : jobs'[k] = NoJob
                       /\ Agrees(jobs'[j], list', stored'.order)
    BY <1>2, <1>3, QuietAgrees DEF Quiet
  <1> QED
    BY <1>2, <1>3, <1>4, <1>5, <1>6, CallSteps

\* No call, and nothing changes but what is shown.
LEMMA WithoutCall ==
  ASSUME EditorInv, UNCHANGED <<stored, jobs, list>>,
         NEW met \in SUBSET (Leaf \X Leaf), past.met \subseteq met,
         past' = [met |-> met, alone |-> past.alone /\ Quiet],
         local' \in [Leaf -> PageObjects], selected' \in Selections,
         selected'.attached => selected'.page \in Leaf,
         Shown(met, local', selected'), Follows(met, selected'.page)
  PROVE  EditorInv'
  <1>t. EditorTypes /\ Kept(past.met, stored.image)
    BY TypesFacts
  <1>1. /\ past' \in Pasts /\ past'.met = met
        /\ past'.alone => past.alone /\ Quiet
    BY BeganFacts
  <1>2. EditorTypes'
    BY <1>t, <1>1 DEF EditorTypes
  <1>3. Kept(met, stored.image)
    BY <1>t, MetStays
  <1>4. ASSUME NEW k \in Job PROVE CleanCall(met, jobs[k], selected'.page)
    <2>1. CleanCall(met, jobs[k], selected.page)
      BY <1>4, TypesFacts, MetStays
    <2> QED
      BY <1>4, <2>1 DEF CleanCall, Follows
  <1>5. Mine'
    BY <1>1, <1>3, <1>4 DEF Mine
  <1>6. past'.alone => OneAlone'
    BY <1>1 DEF EditorInv, OneAlone
  <1> QED
    BY <1>2, <1>5, <1>6 DEF EditorInv

\* Another page is selected.
LEMMA SelectSteps ==
  ASSUME EditorInv, SelectPage
  PROVE  EditorInv'
  <1>t. /\ local \in [Leaf -> PageObjects] /\ list \in Seq(Leaf)
        /\ Shown(past.met, local, selected)
    BY TypesFacts
  <1>1. PICK l \in ToSet(list) : /\ Select(l, local, jobs)
                                 /\ past' = [met |-> Meets(l), alone |-> past.alone /\ Quiet]
    BY DEF SelectPage
  <1>2. l \in Leaf
    BY <1>t, <1>1 DEF ToSet
  <1>3. selected' = Attached(l) /\ UNCHANGED <<stored, list, local>> /\ local[l] \in PageObjects
    BY <1>t, <1>1, <1>2 DEF Select, SelectPage
  <1>4. /\ Meets(l) \in SUBSET (Leaf \X Leaf) /\ past.met \subseteq Meets(l)
        /\ Follows(Meets(l), l)
    BY <1>2, MeetsFacts
  <1>5. \A m \in Leaf : Clean(Meets(l), local[m], m)
    BY <1>t, <1>4, MetStays DEF Shown
  <1>6. /\ selected' \in Selections /\ selected'.page = l
        /\ Shown(Meets(l), local', selected')
    BY <1>2, <1>3, <1>5, AttachedFacts, FreshFacts
  <1> DEFINE met == Meets(l)
  <1>7. /\ met \in SUBSET (Leaf \X Leaf) /\ past.met \subseteq met /\ Follows(met, selected'.page)
        /\ Shown(met, local', selected') /\ Clean(met, local[l], l)
        /\ past' = [met |-> met, alone |-> past.alone /\ Quiet]
    BY <1>1, <1>2, <1>4, <1>5, <1>6
  <1> HIDE DEF met
  <1>8. CASE jobs' = jobs
    BY <1>t, <1>2, <1>3, <1>6, <1>7, <1>8, WithoutCall
  <1>9. CASE Start(SaveOf(l, local[l]))
    <2> DEFINE c == SaveOf(l, local[l])
    <2>1. /\ c \in Calls /\ c.kind = "save" /\ CleanCall(met, c, l)
      BY <1>2, <1>3, <1>7, SaveFacts
    <2> HIDE DEF c
    <2>2. Start(c)
      BY <1>9 DEF c
    <2>3. list = stored.order => Agrees(c, list', stored.order)
      BY <1>3, <2>1 DEF Agrees
    <2> QED
      BY <1>t, <1>2, <1>3, <1>6, <1>7, <2>1, <2>2, <2>3, StartedCall
  <1> QED
    BY <1>1, <1>8, <1>9 DEF Select, Start

\* The template of the selected page is changed.
LEMMA TemplateSteps ==
  ASSUME EditorInv, ChangeTemplate
  PROVE  EditorInv'
  <1>t. /\ EditorTypes /\ list \in Seq(Leaf) /\ UNCHANGED <<stored, list>>
        /\ Follows(past.met, selected.page)
    BY TypesFacts DEF ChangeTemplate
  <1>0. selected.page \in Leaf /\ selected.page \in Source
    BY TypesFacts DEF Selections, Source, ChangeTemplate
  <1>1. PICK o \in {Object, Fresh(selected.page)} :
           /\ Write(o)
           /\ UNCHANGED jobs \/ Start(SaveOf(selected.page, o))
    BY DEF ChangeTemplate
  <1>2. o \in PageObjects /\ Clean(past.met, o, selected.page)
    BY <1>0, <1>1, ObjectFacts, FreshFacts DEF From
  <1>3. /\ local' \in [Leaf -> PageObjects] /\ selected' \in Selections
        /\ selected'.page = selected.page
        /\ selected'.attached => selected'.page \in Leaf
        /\ Shown(past.met, local', selected')
    BY <1>0, <1>1, <1>2, WriteFacts
  <1>4. past' = [met |-> past.met, alone |-> past.alone /\ Quiet] /\ past.met \in SUBSET (Leaf \X Leaf)
    BY <1>t, BeganIsSame DEF ChangeTemplate
  <1>5. CASE UNCHANGED jobs
    BY <1>t, <1>3, <1>4, <1>5, WithoutCall
  <1>6. CASE Start(SaveOf(selected.page, o))
    <2> DEFINE c == SaveOf(selected.page, o)
    <2>1. c \in Calls /\ c.kind = "save" /\ CleanCall(past.met, c, selected.page)
      BY <1>0, <1>2, SaveFacts
    <2> HIDE DEF c
    <2>2. Start(c)
      BY <1>6 DEF c
    <2>3. list = stored.order => Agrees(c, list', stored.order)
      BY <1>t, <2>1 DEF Agrees
    <2> QED
      BY <1>t, <1>3, <1>4, <2>1, <2>2, <2>3, StartedCall
  <1> QED
    BY <1>1, <1>5, <1>6

\* A call is begun and the page stays as it is.
LEMMA OnlyStarted ==
  ASSUME EditorInv, NEW c \in Calls, Start(c), Began, UNCHANGED <<stored, local, selected>>,
         list' \in Seq(Leaf), CleanCall(past.met, c, selected.page),
         list = stored.order => Agrees(c, list', stored.order)
  PROVE  EditorInv'
  <1>1. past' = [met |-> past.met, alone |-> past.alone /\ Quiet] /\ past.met \in SUBSET (Leaf \X Leaf)
    BY TypesFacts, BeganIsSame
  <1> QED
    BY <1>1, TypesFacts, StartedCall

\* An upload, a save, a drag, a deletion or an addition begins.
LEMMA StartingSteps ==
  ASSUME EditorInv, SavePage \/ UploadImage \/ DeletePage \/ AddPage \/ DragEnds
  PROVE  EditorInv'
  <1>t. list \in Seq(Leaf) /\ selected.page \in Source
    BY TypesFacts DEF Selections
  <1>1. CASE SavePage
    <2> DEFINE c == SaveOf(selected.page, Object)
    <2>1. selected.page \in Leaf
      BY <1>t, <1>1 DEF Source, SavePage
    <2>2. c \in Calls /\ c.kind = "save" /\ CleanCall(past.met, c, selected.page)
      BY <2>1, ObjectFacts, SaveFacts
    <2> HIDE DEF c
    <2>3. Start(c) /\ Began /\ UNCHANGED <<stored, local, selected, list>>
      BY <1>1 DEF SavePage, c
    <2>4. list = stored.order => Agrees(c, list', stored.order)
      BY <2>2, <2>3 DEF Agrees
    <2> QED
      BY <1>t, <2>2, <2>3, <2>4, OnlyStarted
  <1>2. CASE UploadImage
    <2> DEFINE c == NewJob("upload", selected.page)
    <2>1. selected.page \in Leaf
      BY <1>t, <1>2 DEF Source, UploadImage
    <2>2. c \in Calls /\ c.kind = "upload" /\ CleanCall(past.met, c, selected.page)
      BY <1>t, <2>1, NewJobFacts
    <2> HIDE DEF c
    <2>3. Start(c) /\ Began /\ UNCHANGED <<stored, local, selected, list>>
      BY <1>2 DEF UploadImage, c
    <2>4. list = stored.order => Agrees(c, list', stored.order)
      BY <2>2, <2>3 DEF Agrees
    <2> QED
      BY <1>t, <2>2, <2>3, <2>4, OnlyStarted
  <1>3. CASE DeletePage
    <2>1. PICK l \in ToSet(list) : Start(NewJob("delete", l))
      BY <1>3 DEF DeletePage
    <2> DEFINE c == NewJob("delete", l)
    <2>2. l \in Leaf /\ l \in Source
      BY <1>t, <2>1 DEF ToSet, Source
    <2>3. c \in Calls /\ c.kind = "delete" /\ CleanCall(past.met, c, selected.page)
      BY <2>2, NewJobFacts
    <2> HIDE DEF c
    <2>4. Start(c) /\ Began /\ UNCHANGED <<stored, local, selected, list>>
      BY <1>3, <2>1 DEF DeletePage, c
    <2>5. Agrees(c, list', stored.order)
      BY <2>3 DEF Agrees
    <2> QED
      BY <1>t, <2>3, <2>4, <2>5, OnlyStarted
  <1>4. CASE AddPage
    <2> DEFINE c == NewJob("add", NoLeaf)
    <2>1. c \in Calls /\ c.kind = "add" /\ CleanCall(past.met, c, selected.page)
      BY NewJobFacts DEF Source
    <2> HIDE DEF c
    <2>2. Start(c) /\ Began /\ UNCHANGED <<stored, local, selected, list>>
      BY <1>4 DEF AddPage, c
    <2>3. Agrees(c, list', stored.order)
      BY <2>1 DEF Agrees
    <2> QED
      BY <1>t, <2>1, <2>2, <2>3, OnlyStarted
  <1>5. CASE DragEnds
    <2>1. PICK s \in SetToSeqs(ToSet(list)) :
             list' = s /\ Start([NewJob("drag", NoLeaf) EXCEPT !.list = s])
      BY <1>5 DEF DragEnds
    <2>2. s \in Seq(Leaf)
      <3>1. /\ Len(list) \in Nat /\ list \in [1..Len(list) -> Leaf]
            /\ ToSet(list) = {list[i] : i \in 1..Len(list)}
        BY <1>t DEF ToSet
      <3>2. IsFiniteSet(1..Len(list))
        BY <3>1, FS_Interval
      <3>3. list \in Surjection(1..Len(list), ToSet(list)) /\ ToSet(list) \in SUBSET Leaf
        BY <3>1 DEF Surjection
      <3>4. IsFiniteSet(ToSet(list))
        BY <3>2, <3>3, FS_Surjection
      <3> QED
        BY <2>1, <3>3, <3>4, OrdersAreSeqs
    <2> DEFINE n == NewJob("drag", NoLeaf)
               c == [n EXCEPT !.list = s]
    <2>3. /\ n \in CallFields /\ n.kind = "drag" /\ n.receipt = NoLeaf /\ n.answer = Own
      BY NewJobFacts DEF Source
    <2> HIDE DEF n
    <2>4. /\ c \in CallFields /\ c.kind = "drag" /\ c.list = s
          /\ c.receipt = NoLeaf /\ c.answer = Own
      BY <2>2, <2>3 DEF CallFields
    <2>5. Start(c)
      BY <2>1 DEF n
    <2> HIDE DEF c
    <2>6. c \in Calls /\ CleanCall(past.met, c, selected.page)
      BY <2>4, NoJobFacts DEF Calls, CleanCall, Kept
    <2>7. Began /\ UNCHANGED <<stored, local, selected>>
      BY <1>5 DEF DragEnds
    <2>8. Agrees(c, list', stored.order)
      BY <2>1, <2>4 DEF Agrees
    <2> QED
      BY <2>1, <2>2, <2>5, <2>6, <2>7, <2>8, OnlyStarted
  <1> QED
    BY <1>1, <1>2, <1>3, <1>4, <1>5

\* The editor is opened, whatever was met in an earlier one.
LEMMA OpenEditorSteps ==
  ASSUME EditorInv, OpenEditor
  PROVE  EditorInv'
  <1>t. EditorTypes /\ past \in Pasts /\ Kept(past.met, stored.image)
    BY TypesFacts
  <1>1. PICK j \in Job : jobs[j] = NoJob /\ jobs' = [jobs EXCEPT ![j] = NewJob("fetch", NoLeaf)]
    BY DEF OpenEditor, Start
  <1> DEFINE c == NewJob("fetch", NoLeaf)
  <1>2. c \in Calls /\ c.kind = "fetch" /\ c.step = "sent" /\ CleanCall(past.met, c, NoLeaf)
    BY NewJobFacts DEF Source
  <1> HIDE DEF c
  <1>3. /\ jobs' \in [Job -> Calls] /\ jobs'[j] = c
        /\ \A k \in Job \ {j} : jobs'[k] = jobs[k]
    BY <1>t, <1>1, <1>2, OneCallMoves DEF c
  <1>4. /\ Quiet /\ list' = <<>> /\ local' = [l \in Leaf |-> Fresh(l)] /\ selected' = Nothing
        /\ past' = [past EXCEPT !.alone = TRUE] /\ UNCHANGED stored
    BY DEF OpenEditor
  <1>5. past' \in Pasts /\ past'.met = past.met
    BY <1>t, <1>4 DEF Pasts
  <1>6. /\ local' \in [Leaf -> PageObjects] /\ list' \in Seq(Leaf) /\ selected' \in Selections
        /\ ~selected'.attached /\ selected'.page = NoLeaf
    BY <1>4, FreshFacts DEF Source
  <1>7. \A l \in Leaf : Clean(past.met, local'[l], l)
    BY <1>4, FreshFacts DEF From
  <1>8. Shown(past'.met, local', selected') /\ Follows(past'.met, selected'.page)
    BY <1>5, <1>6, <1>7, NoLeafIsNoLeaf DEF Shown, Follows
  <1>9. EditorTypes'
    BY <1>t, <1>3, <1>4, <1>5, <1>6 DEF EditorTypes
  <1>10. (\A k \in Job \ {j} : jobs'[k] = NoJob) /\ Agrees(jobs'[j], list', stored'.order)
    BY <1>2, <1>3, <1>4 DEF Quiet, Agrees
  <1>11. Kept(past'.met, stored'.image) /\ CleanCall(past'.met, jobs'[j], selected'.page)
    BY <1>t, <1>2, <1>3, <1>4, <1>5, <1>6
  <1> QED
    BY <1>3, <1>5, <1>8, <1>9, <1>10, <1>11, CallSteps

\* A call goes on or ends.
LEMMA GoesOn ==
  ASSUME EditorInv, NEW j \in Job, jobs[j].kind # "none",
         NEW c \in Calls, jobs' = [jobs EXCEPT ![j] = c],
         past' \in Pasts, past.met \subseteq past'.met, past'.alone => past.alone,
         stored' \in Storage, list' \in Seq(Leaf), local' \in [Leaf -> PageObjects],
         selected' \in Selections, selected'.attached => selected'.page \in Leaf,
         Kept(past'.met, stored'.image), Shown(past'.met, local', selected'),
         Follows(past'.met, selected'.page), CleanCall(past'.met, c, selected'.page),
         past'.alone /\ Agrees(jobs[j], list, stored.order) => Agrees(c, list', stored'.order)
  PROVE  EditorInv'
  <1>1. /\ jobs' \in [Job -> Calls] /\ jobs'[j] = c
        /\ \A k \in Job \ {j} : jobs'[k] = jobs[k]
    BY TypesFacts, OneCallMoves
  <1>2. EditorTypes'
    BY <1>1 DEF EditorTypes
  <1>3. past'.alone => /\ \A k \in Job \ {j} : jobs'[k] = NoJob
                       /\ Agrees(jobs'[j], list', stored'.order)
    BY <1>1, OthersAreNone
  <1> QED
    BY <1>1, <1>2, <1>3, CallSteps

\* Nothing is shown of it.
LEMMA GoesOnUnseen ==
  ASSUME EditorInv, NEW j \in Job, jobs[j].kind # "none",
         NEW c \in Calls, jobs' = [jobs EXCEPT ![j] = c],
         UNCHANGED <<list, local, selected, past>>,
         stored' \in Storage, Kept(past.met, stored'.image),
         CleanCall(past.met, c, selected.page),
         Agrees(jobs[j], list, stored.order) => Agrees(c, list, stored'.order)
  PROVE  EditorInv'
  BY TypesFacts, GoesOn

\* The server answers a call with the fields of c.
LEMMA CallGoesOn ==
  ASSUME NEW d \in Calls, d.kind # "none",
         NEW c \in CallFields, c.kind = d.kind, c.page = d.page, c.receipt \in {d.receipt, NoLeaf}
  PROVE  /\ c \in Calls
         /\ \A met, page : Kept(met, c.answer) /\ CleanCall(met, d, page) => CleanCall(met, c, page)
  BY DEF Calls, CleanCall, Kept

\* The server saves a page.
LEMMA SavedSteps ==
  ASSUME EditorInv, NEW j \in Job, UpdatePage(j)
  PROVE  EditorInv'
  <1>t. /\ jobs \in [Job -> Calls] /\ jobs[j] \in Calls /\ jobs[j] \in CallFields
        /\ stored \in Storage /\ Kept(past.met, stored.image)
        /\ CleanCall(past.met, jobs[j], selected.page)
    BY TypesFacts
  <1> DEFINE l == jobs[j].page
             new == IF jobs[j].receipt = NoLeaf THEN stored.image[l] ELSE jobs[j].receipt
  <1>0. jobs[j].kind = "save" /\ l \in Leaf
    BY <1>t DEF UpdatePage, Calls
  <1>1. PICK image \in {new, l} :
           /\ stored' = [stored EXCEPT !.image[l] = image]
           /\ jobs' = [jobs EXCEPT ![j] = [jobs[j] EXCEPT !.step = "answered", !.receipt = NoLeaf,
                                                          !.answer[l] = image]]
    BY DEF UpdatePage, Continues
  <1>2. image \in Leaf /\ From(past.met, image, l)
    <2>1. stored.image[l] \in Leaf /\ From(past.met, stored.image[l], l)
      BY <1>t, <1>0 DEF Storage, Kept
    <2>2. jobs[j].receipt # NoLeaf => jobs[j].receipt \in Leaf /\ From(past.met, jobs[j].receipt, l)
      BY <1>t DEF CallFields, Source, CleanCall
    <2>3. From(past.met, l, l)
      BY DEF From
    <2> QED
      BY <1>0, <1>1, <2>1, <2>2, <2>3
  <1> HIDE DEF new
  <1>3. /\ stored' \in Storage /\ stored'.order = stored.order
        /\ Kept(past.met, stored'.image)
    <2>1. /\ stored' \in Storage /\ stored'.order = stored.order
          /\ stored'.image = [stored.image EXCEPT ![l] = image]
      BY <1>t, <1>0, <1>1, <1>2 DEF Storage
    <2> QED
      BY <1>t, <1>0, <1>2, <2>1 DEF Kept, Storage
  <1> DEFINE answer == [jobs[j].answer EXCEPT ![l] = image]
             c == [jobs[j] EXCEPT !.step = "answered", !.receipt = NoLeaf, !.answer[l] = image]
  <1>4. answer \in [Leaf -> Leaf] /\ Kept(past.met, answer)
    BY <1>t, <1>0, <1>2 DEF CallFields, CleanCall, Kept
  <1>c. /\ c \in CallFields /\ c.kind = "save" /\ c.page = jobs[j].page
        /\ c.receipt = NoLeaf /\ c.step = "answered" /\ c.answer = answer
    BY <1>t, <1>0, <1>4 DEF CallFields, Source
  <1>5. jobs' = [jobs EXCEPT ![j] = c]
    BY <1>1
  <1> HIDE DEF answer, c
  <1>6. c \in Calls /\ CleanCall(past.met, c, selected.page)
    BY <1>t, <1>0, <1>4, <1>c, CallGoesOn
  <1> HIDE DEF l
  <1>7. UNCHANGED <<list, local, selected, past>>
    BY DEF UpdatePage
  <1>8. Agrees(jobs[j], list, stored.order) => Agrees(c, list, stored'.order)
    BY <1>0, <1>3, <1>c DEF Agrees
  <1> QED
    BY <1>0, <1>3, <1>5, <1>6, <1>7, <1>8, GoesOnUnseen

\* Calls that end without a word, or go on as another.
LEMMA UnseenSteps ==
  ASSUME EditorInv, NEW j \in Job, WriteFails(j) \/ DragRefused(j) \/ AddAnswered(j)
  PROVE  EditorInv'
  <1>1. PICK c \in {NoJob, NewJob("fetch", NoLeaf), NewJob("fetchLast", NoLeaf)} :
           /\ jobs' = [jobs EXCEPT ![j] = c]
           /\ c = NoJob => jobs[j].kind \in {"upload", "save"}
    BY NewJobFacts DEF WriteFails, DragRefused, AddAnswered, Done, Continues, Source
  <1>2. /\ jobs[j].kind # "none" /\ UNCHANGED <<stored, list, local, selected, past>>
    BY DEF WriteFails, DragRefused, AddAnswered
  <1>3. /\ c \in Calls /\ CleanCall(past.met, c, selected.page)
        /\ c # NoJob => c.kind \in {"fetch", "fetchLast"} /\ c.step = "sent"
    BY <1>1, NoJobFacts, NewJobFacts DEF Source
  <1>4. Agrees(jobs[j], list, stored.order) => Agrees(c, list, stored'.order)
    BY <1>1, <1>2, <1>3, NoJobFacts DEF Agrees
  <1>5. stored' \in Storage /\ Kept(past.met, stored'.image)
    BY <1>2, TypesFacts
  <1> QED
    BY <1>1, <1>2, <1>3, <1>4, <1>5, GoesOnUnseen

\* The server lists the pages.
LEMMA FindSteps ==
  ASSUME EditorInv, NEW j \in Job, FindPages(j)
  PROVE  EditorInv'
  <1>t. /\ jobs \in [Job -> Calls] /\ jobs[j] \in Calls /\ jobs[j] \in CallFields
        /\ stored \in Storage /\ Kept(past.met, stored.image)
        /\ CleanCall(past.met, jobs[j], selected.page)
    BY TypesFacts
  <1> DEFINE c == [jobs[j] EXCEPT !.step = "answered", !.list = stored.order,
                                  !.answer = stored.image]
  <1>1. /\ jobs[j].kind \in {"fetch", "fetchLast"}
        /\ UNCHANGED <<stored, list, local, selected, past>>
        /\ jobs' = [jobs EXCEPT ![j].step = "answered", ![j].list = stored.order,
                                ![j].answer = stored.image]
    BY DEF FindPages
  <1>2. jobs' = [jobs EXCEPT ![j] = c]
    BY <1>t, <1>1 DEF Calls, CallFields
  <1>c. /\ c \in CallFields /\ c.kind = jobs[j].kind /\ c.page = jobs[j].page
        /\ c.receipt = jobs[j].receipt /\ c.list = stored.order /\ c.answer = stored.image
    BY <1>t DEF CallFields, Storage
  <1> HIDE DEF c
  <1>3. c \in Calls /\ CleanCall(past.met, c, selected.page)
    BY <1>t, <1>1, <1>c, CallGoesOn
  <1>4. Agrees(c, list, stored'.order)
    BY <1>1, <1>c DEF Agrees
  <1>5. stored' \in Storage /\ Kept(past.met, stored'.image)
    BY <1>t, <1>1
  <1> QED
    BY <1>1, <1>2, <1>3, <1>4, <1>5, GoesOnUnseen

\* The server does what was asked.
LEMMA ServerSteps ==
  ASSUME EditorInv, NEW j \in Job, ReorderPages(j) \/ PageDeleted(j) \/ CreatePage(j)
  PROVE  EditorInv'
  <1>t. /\ jobs \in [Job -> Calls] /\ jobs[j] \in Calls /\ jobs[j] \in CallFields
        /\ jobs[j].list \in Seq(Leaf) /\ jobs[j].answer \in [Leaf -> Leaf]
        /\ stored \in Storage /\ stored.order \in Seq(Leaf) /\ stored.image \in [Leaf -> Leaf]
        /\ Kept(past.met, stored.image)
        /\ CleanCall(past.met, jobs[j], selected.page)
    BY TypesFacts DEF CallFields, Storage
  <1>u. UNCHANGED <<list, local, selected, past>>
    BY DEF ReorderPages, PageDeleted, CreatePage
  <1>1. CASE ReorderPages(j)
    <2>1. /\ jobs[j].kind = "drag" /\ stored' = [stored EXCEPT !.order = jobs[j].list]
      BY <1>1 DEF ReorderPages
    <2>2. PICK c \in {NoJob, NewJob("fetch", NoLeaf)} : jobs' = [jobs EXCEPT ![j] = c]
      BY <1>1 DEF ReorderPages, Done, Continues
    <2>3. /\ c \in Calls /\ CleanCall(past.met, c, selected.page)
          /\ c # NoJob => c.kind = "fetch" /\ c.step = "sent"
      BY <2>2, NoJobFacts, NewJobFacts DEF Source
    <2>4. /\ stored' \in Storage
          /\ stored'.order = jobs[j].list /\ stored'.image = stored.image
      BY <1>t, <2>1 DEF Storage
    <2>5. Agrees(jobs[j], list, stored.order) => Agrees(c, list, stored'.order)
      BY <2>1, <2>3, <2>4, NoJobFacts DEF Agrees
    <2> QED
      BY <1>t, <1>u, <2>1, <2>2, <2>3, <2>4, <2>5, GoesOnUnseen
  <1>2. CASE PageDeleted(j) \/ CreatePage(j)
    <2> DEFINE c == [jobs[j] EXCEPT !.step = "answered", !.list = jobs[j].list,
                                    !.answer = jobs[j].answer]
    <2>1. jobs[j].kind \in {"delete", "add"} /\ jobs' = [jobs EXCEPT ![j].step = "answered"]
      BY <1>2 DEF PageDeleted, CreatePage
    <2>2. jobs' = [jobs EXCEPT ![j] = c]
      BY <1>t, <2>1 DEF CallFields
    <2>c. /\ c \in CallFields /\ c.kind = jobs[j].kind /\ c.page = jobs[j].page
          /\ c.receipt = jobs[j].receipt /\ c.answer = jobs[j].answer
      BY <1>t DEF CallFields
    <2> HIDE DEF c
    <2>3. c \in Calls /\ CleanCall(past.met, c, selected.page)
      <3>1. Kept(past.met, jobs[j].answer)
        BY <1>t DEF CleanCall, Kept
      <3> QED
        BY <1>t, <2>1, <2>c, <3>1, CallGoesOn
    <2>4. stored' \in Storage /\ Kept(past.met, stored'.image)
      <3>1. CASE PageDeleted(j)
        <4> DEFINE l == jobs[j].page
        <4>1. PICK i \in DOMAIN stored.order :
                 stored' = [order |-> RemoveAt(stored.order, i),
                            image |-> [stored.image EXCEPT ![l] = l]]
          BY <3>1 DEF PageDeleted
        <4>2. RemoveAt(stored.order, i) \in Seq(Leaf)
          <5>1. /\ stored.order \in Seq(Leaf) /\ Len(stored.order) \in Nat
                /\ i \in 1..Len(stored.order)
            BY <1>t, <4>1
          <5>2. /\ SubSeq(stored.order, 1, i - 1) \in Seq(Leaf)
                /\ SubSeq(stored.order, i + 1, Len(stored.order)) \in Seq(Leaf)
            BY <5>1
          <5> QED
            BY <5>2 DEF RemoveAt
        <4>3. l \in Leaf
          BY <1>t, <3>1 DEF PageDeleted, Calls
        <4>4. [stored.image EXCEPT ![l] = l] \in [Leaf -> Leaf]
          BY <1>t, <4>3
        <4>5. Kept(past.met, [stored.image EXCEPT ![l] = l])
          BY <1>t, <4>3 DEF Kept, From
        <4> QED
          BY <4>1, <4>2, <4>4, <4>5 DEF Storage
      <3>2. CASE CreatePage(j)
        <4>1. PICK l \in Leaf :
                 stored' = [order |-> Append(stored.order, l), image |-> stored.image]
          BY <3>2 DEF CreatePage
        <4>2. Append(stored.order, l) \in Seq(Leaf)
          BY <1>t, <4>1
        <4> QED
          BY <1>t, <4>1, <4>2 DEF Storage
      <3> QED
        BY <1>2, <3>1, <3>2
    <2>5. Agrees(c, list, stored'.order)
      BY <2>1, <2>c DEF Agrees
    <2> QED
      BY <1>u, <2>1, <2>2, <2>3, <2>4, <2>5, GoesOnUnseen
  <1> QED
    BY <1>1, <1>2

\* What comes back is written to the page that is selected, which has met its page.
LEMMA WrittenSteps ==
  ASSUME EditorInv, NEW j \in Job, UploadEnds(j) \/ SaveAnswered(j)
  PROVE  EditorInv'
  <1>t. /\ jobs \in [Job -> Calls] /\ jobs[j] \in Calls /\ jobs[j] \in CallFields
        /\ stored \in Storage /\ Kept(past.met, stored.image)
        /\ Follows(past.met, selected.page) /\ CleanCall(past.met, jobs[j], selected.page)
        /\ past \in Pasts /\ list \in Seq(Leaf) /\ local \in [Leaf -> PageObjects]
        /\ selected \in Selections /\ (selected.attached => selected.page \in Leaf)
        /\ Shown(past.met, local, selected)
    BY TypesFacts
  <1>1. CASE UploadEnds(j)
    <2> DEFINE o == [Object EXCEPT !.receipt = jobs[j].page]
               c == SaveOf(selected.page, o)
    <2>1. /\ jobs[j].kind = "upload" /\ selected.page \in Leaf
          /\ Write(o) /\ jobs' = [jobs EXCEPT ![j] = c]
          /\ UNCHANGED <<stored, list, past>>
      BY <1>1, <1>t DEF UploadEnds, Continues, Selections, Source
    <2>2. o \in PageObjects /\ Clean(past.met, o, selected.page)
      <3>1. Object \in PageObjects /\ Clean(past.met, Object, selected.page)
        BY <2>1, ObjectFacts
      <3>2. jobs[j].page \in Source /\ From(past.met, jobs[j].page, selected.page)
        BY <1>t, <2>1 DEF CallFields, CleanCall
      <3>3. o \in PageObjects /\ o.image = Object.image /\ o.receipt = jobs[j].page
        BY <3>1, <3>2 DEF PageObjects
      <3> QED
        BY <3>1, <3>2, <3>3 DEF Clean
    <2> HIDE DEF o
    <2>3. /\ local' \in [Leaf -> PageObjects] /\ selected' \in Selections
          /\ selected'.page = selected.page
          /\ selected'.attached => selected'.page \in Leaf
          /\ Shown(past.met, local', selected')
      BY <2>1, <2>2, WriteFacts
    <2>4. c \in Calls /\ c.kind = "save" /\ CleanCall(past.met, c, selected.page)
      BY <2>1, <2>2, SaveFacts
    <2> HIDE DEF c
    <2>5. Agrees(jobs[j], list, stored.order) => Agrees(c, list', stored'.order)
      BY <2>1, <2>4 DEF Agrees
    <2> QED
      BY <1>t, <2>1, <2>3, <2>4, <2>5, GoesOn
  <1>2. CASE SaveAnswered(j)
    <2> DEFINE image == IF selected.page = jobs[j].page THEN jobs[j].answer[jobs[j].page]
                                                        ELSE jobs[j].page
    <2>1. /\ jobs[j].kind = "save" /\ jobs[j].page \in Leaf /\ jobs' = [jobs EXCEPT ![j] = NoJob]
          /\ \/ UNCHANGED <<local, selected>>
             \/ selected.page \in Leaf /\ Write(Fresh(image))
          /\ UNCHANGED <<stored, list, past>>
      BY <1>2, <1>t DEF SaveAnswered, Done, Calls, Selections, Source
    <2>2. image \in Source /\ (selected.page \in Leaf => From(past.met, image, selected.page))
      BY <1>t, <2>1 DEF CleanCall, CallFields, Source
    <2> HIDE DEF image
    <2>3. /\ local' \in [Leaf -> PageObjects] /\ selected' \in Selections
          /\ selected'.page = selected.page
          /\ selected'.attached => selected'.page \in Leaf
          /\ Shown(past.met, local', selected')
      <3>1. CASE UNCHANGED <<local, selected>>
        BY <1>t, <3>1
      <3>2. CASE selected.page \in Leaf /\ Write(Fresh(image))
        <4>1. Fresh(image) \in PageObjects /\ Clean(past.met, Fresh(image), selected.page)
          BY <2>2, <3>2, FreshFacts
        <4> QED
          BY <3>2, <4>1, WriteFacts
      <3> QED
        BY <2>1, <3>1, <3>2
    <2>4. Agrees(jobs[j], list, stored.order) => Agrees(NoJob, list', stored'.order)
      BY <2>1, NoJobFacts DEF Agrees
    <2> QED
      BY <1>t, <2>1, <2>3, <2>4, NoJobFacts, GoesOn
  <1> QED
    BY <1>1, <1>2

\* A call fails.
LEMMA FailedSteps ==
  ASSUME EditorInv, NEW j \in Job, ListFailsToCome(j) \/ AddOrDeleteFails(j)
  PROVE  EditorInv'
  <1>1. /\ jobs[j].kind # "none" /\ jobs' = [jobs EXCEPT ![j] = NoJob]
        /\ past' = [past EXCEPT !.alone = FALSE]
        /\ UNCHANGED <<stored, list, local, selected>>
    BY DEF ListFailsToCome, AddOrDeleteFails, Done, Failed
  <1>2. past' \in Pasts /\ past'.met = past.met /\ ~past'.alone
    BY <1>1, TypesFacts DEF Pasts
  <1> QED
    BY <1>1, <1>2, TypesFacts, NoJobFacts, GoesOn

\* A list that was read arrives.
LEMMA ArriveSteps ==
  ASSUME EditorInv, NEW j \in Job, PagesArrive(j)
  PROVE  EditorInv'
  <1>t. /\ jobs[j] \in CallFields /\ stored \in Storage /\ Kept(past.met, stored.image)
        /\ selected \in Selections /\ past \in Pasts /\ Shown(past.met, local, selected)
        /\ Follows(past.met, selected.page) /\ CleanCall(past.met, jobs[j], selected.page)
    BY TypesFacts
  <1>p. /\ jobs[j].list \in Seq(Leaf) /\ jobs[j].answer \in [Leaf -> Leaf]
        /\ Kept(past.met, jobs[j].answer)
    BY <1>t DEF CallFields, CleanCall, Kept
  <1> DEFINE first == selected.page = NoLeaf /\ jobs[j].list # <<>>
             h == Head(jobs[j].list)
  <1>1. /\ jobs[j].kind = "fetch" /\ jobs[j].step = "answered"
        /\ list' = jobs[j].list /\ local' = Objects(jobs[j].answer)
        /\ first => selected' = Attached(h) /\ past' = [past EXCEPT !.met = Meets(h)]
        /\ ~first => /\ selected' = [selected EXCEPT !.attached = FALSE, !.object = Object]
                     /\ past' = [past EXCEPT !.met = past.met]
        /\ jobs' = [jobs EXCEPT ![j] = NoJob] /\ UNCHANGED stored
    BY <1>t DEF PagesArrive, Done, Pasts
  <1>2. /\ local' \in [Leaf -> PageObjects]
        /\ \A met : past.met \subseteq met => \A l \in Leaf : Clean(met, local'[l], l)
    BY <1>p, <1>1, ObjectsFacts, MetStays
  <1>3. /\ past' \in Pasts /\ past.met \subseteq past'.met /\ past'.alone = past.alone
        /\ selected' \in Selections /\ (selected'.attached => selected'.page \in Leaf)
        /\ Shown(past'.met, local', selected') /\ Follows(past'.met, selected'.page)
    <2>1. CASE first
      <3>1. h \in Leaf
        BY <1>p, <2>1
      <3>2. /\ Meets(h) \in SUBSET (Leaf \X Leaf) /\ past.met \subseteq Meets(h)
            /\ Follows(Meets(h), h)
        BY <3>1, MeetsFacts
      <3> DEFINE met == Meets(h)
      <3>3. /\ met \in SUBSET (Leaf \X Leaf) /\ past.met \subseteq met /\ Follows(met, h)
            /\ past' = [past EXCEPT !.met = met] /\ selected' = Attached(h)
        BY <1>1, <2>1, <3>2
      <3> HIDE DEF met, h
      <3>4. past' \in Pasts /\ past'.met = met /\ past'.alone = past.alone
        BY <1>t, <3>3 DEF Pasts
      <3>5. selected' \in Selections /\ selected'.page = h /\ Shown(met, local', selected')
        BY <1>2, <3>1, <3>3, AttachedFacts, FreshFacts
      <3> QED
        BY <3>1, <3>3, <3>4, <3>5
    <2>2. CASE ~first
      <3>1. /\ selected' = [selected EXCEPT !.attached = FALSE, !.object = Object]
            /\ past' = [past EXCEPT !.met = past.met]
        BY <1>1, <2>2
      <3>2. past' \in Pasts /\ past'.met = past.met /\ past'.alone = past.alone
        BY <1>t, <3>1 DEF Pasts
      <3>3. /\ Object \in PageObjects
            /\ selected.page \in Leaf => Clean(past.met, Object, selected.page)
        BY ObjectFacts
      <3>4. /\ selected' \in Selections /\ ~selected'.attached /\ selected'.page = selected.page
            /\ selected'.object = Object
        BY <1>t, <3>1, <3>3 DEF Selections
      <3>5. Shown(past.met, local', selected')
        BY <1>2, <3>3, <3>4 DEF Shown
      <3> QED
        BY <1>t, <3>2, <3>4, <3>5
    <2> QED
      BY <2>1, <2>2
  <1> HIDE DEF first, h
  <1>4. Agrees(jobs[j], list, stored.order) => Agrees(NoJob, list', stored'.order)
    BY <1>1, NoJobFacts DEF Agrees
  <1>5. /\ Kept(past'.met, stored'.image) /\ stored' \in Storage /\ list' \in Seq(Leaf)
        /\ jobs[j].kind # "none" /\ jobs' = [jobs EXCEPT ![j] = NoJob]
    BY <1>t, <1>p, <1>1, <1>3, MetStays
  <1> QED
    BY <1>2, <1>3, <1>4, <1>5, NoJobFacts, GoesOn

\* A page is gone, and deselected if it was selected.
LEMMA DeleteAnsweredSteps ==
  ASSUME EditorInv, NEW j \in Job, DeleteAnswered(j)
  PROVE  EditorInv'
  <1>t. /\ stored \in Storage /\ Kept(past.met, stored.image) /\ past \in Pasts
        /\ list \in Seq(Leaf) /\ local \in [Leaf -> PageObjects]
        /\ selected \in Selections /\ (selected.attached => selected.page \in Leaf)
        /\ Shown(past.met, local, selected) /\ Follows(past.met, selected.page)
    BY TypesFacts
  <1> DEFINE c == NewJob("fetch", NoLeaf)
  <1>1. /\ jobs[j].kind = "delete" /\ selected' \in {Nothing, selected}
        /\ jobs' = [jobs EXCEPT ![j] = c] /\ UNCHANGED <<stored, list, local, past>>
    BY DEF DeleteAnswered, Continues
  <1>2. /\ c \in Calls /\ c.kind = "fetch" /\ c.step = "sent"
        /\ \A met, page : CleanCall(met, c, page)
    BY NewJobFacts DEF Source
  <1> HIDE DEF c
  <1>3. Agrees(c, list', stored'.order)
    BY <1>2 DEF Agrees
  <1>4. /\ selected' \in Selections /\ (selected'.attached => selected'.page \in Leaf)
        /\ Shown(past.met, local', selected') /\ Follows(past.met, selected'.page)
    BY <1>t, <1>1, FreshFacts, NoLeafIsNoLeaf DEF Shown, Follows
  <1> QED
    BY <1>t, <1>1, <1>2, <1>3, <1>4, GoesOn

\* The last page is selected, and perhaps saved at once.
LEMMA ArriveAddedSteps ==
  ASSUME EditorInv, NEW j \in Job, PagesArriveAdded(j)
  PROVE  EditorInv'
  <1>t. /\ jobs \in [Job -> Calls] /\ jobs[j] \in CallFields /\ stored \in Storage
        /\ Kept(past.met, stored.image) /\ past \in Pasts
        /\ CleanCall(past.met, jobs[j], selected.page)
    BY TypesFacts
  <1>p. /\ jobs[j].list \in Seq(Leaf) /\ jobs[j].answer \in [Leaf -> Leaf]
        /\ Kept(past.met, jobs[j].answer)
    BY <1>t DEF CallFields, CleanCall, Kept
  <1> DEFINE fresh == Objects(jobs[j].answer)
  <1>1. /\ jobs[j].kind = "fetchLast" /\ jobs[j].step = "answered"
        /\ list' = jobs[j].list /\ local' = fresh /\ UNCHANGED stored
    BY DEF PagesArriveAdded
  <1>2. /\ fresh \in [Leaf -> PageObjects]
        /\ \A met : past.met \subseteq met => \A l \in Leaf : Clean(met, fresh[l], l)
    BY <1>p, ObjectsFacts, MetStays
  <1> HIDE DEF fresh
  <1>5. CASE jobs[j].list = <<>>
    <2>1. /\ selected' = Nothing /\ jobs' = [jobs EXCEPT ![j] = NoJob]
          /\ past' = [past EXCEPT !.met = past.met]
      BY <1>5, <1>t DEF PagesArriveAdded, Done, Pasts
    <2>2. past' \in Pasts /\ past'.met = past.met /\ past'.alone = past.alone
      BY <1>t, <2>1 DEF Pasts
    <2>3. /\ selected' \in Selections /\ ~selected'.attached /\ selected'.page \notin Leaf
      BY <2>1, FreshFacts, NoLeafIsNoLeaf
    <2>4. Shown(past'.met, local', selected') /\ Follows(past'.met, selected'.page)
      BY <1>1, <1>2, <2>2, <2>3 DEF Shown, Follows
    <2>5. Agrees(jobs[j], list, stored.order) => Agrees(NoJob, list', stored'.order)
      BY <1>1, NoJobFacts DEF Agrees
    <2>6. /\ stored' \in Storage /\ Kept(past'.met, stored'.image) /\ list' \in Seq(Leaf)
          /\ local' \in [Leaf -> PageObjects] /\ jobs[j].kind # "none"
      BY <1>t, <1>p, <1>1, <1>2, <2>2
    <2> QED
      BY <2>1, <2>2, <2>3, <2>4, <2>5, <2>6, NoJobFacts, GoesOn
  <1>6. CASE jobs[j].list # <<>>
    <2> DEFINE h == Last(jobs[j].list)
    <2>1. h \in Leaf
      BY <1>p, <1>6 DEF Last
    <2>2. PICK l \in Leaf : l = h
      BY <2>1
    <2> DEFINE rest == [jobs EXCEPT ![j] = NoJob]
    <2>3. Select(l, fresh, rest) /\ past' = [past EXCEPT !.met = Meets(l)]
      BY <1>6, <1>t, <2>2 DEF PagesArriveAdded, Done, fresh, Pasts
    <2> HIDE DEF h
    <2>4. /\ Meets(l) \in SUBSET (Leaf \X Leaf) /\ past.met \subseteq Meets(l)
          /\ Follows(Meets(l), l)
      BY MeetsFacts
    <2>5. /\ past' \in Pasts /\ past'.met = Meets(l) /\ past'.alone = past.alone
      BY <1>t, <2>3, <2>4 DEF Pasts
    <2>6. \A k \in Leaf : Clean(past'.met, fresh[k], k)
      BY <1>2, <2>4, <2>5
    <2>7. /\ selected' \in Selections /\ selected'.page = l
          /\ Shown(past'.met, local', selected')
      BY <1>1, <2>3, <2>6, AttachedFacts, FreshFacts DEF Select
    <2>8. PICK i \in Job, c \in {NoJob, SaveOf(l, fresh[l])} :
             /\ jobs' = [rest EXCEPT ![i] = c] /\ rest[i] = NoJob
      <3>1. rest[j] = NoJob
        BY <1>t
      <3>2. CASE jobs' = rest
        <4>1. jobs' = [rest EXCEPT ![j] = NoJob]
          BY <1>t, <3>2
        <4> QED
          BY <3>1, <4>1
      <3> QED
        BY <2>3, <3>2 DEF Select
    <2>9. /\ c \in Calls /\ c.kind \in {"none", "save"} /\ CleanCall(past'.met, c, l)
      BY <1>2, <2>6, <2>8, NoJobFacts, SaveFacts
    <2>10. /\ rest \in [Job -> Calls] /\ rest[j] = NoJob
           /\ \A k \in Job \ {j} : rest[k] = jobs[k]
      BY <1>t, NoJobFacts
    <2> HIDE DEF rest
    <2>11. /\ jobs' \in [Job -> Calls] /\ jobs'[i] = c
           /\ \A k \in Job \ {i} : jobs'[k] = rest[k]
      BY <2>8, <2>9, <2>10
    <2>12. \A k \in Job \ {i} : jobs'[k] = jobs[k] \/ jobs'[k] = NoJob
      BY <2>10, <2>11
    <2>13. EditorTypes'
      BY <1>t, <1>p, <1>1, <1>2, <2>5, <2>7, <2>11 DEF EditorTypes
    <2>14. Kept(past'.met, stored'.image)
      BY <1>t, <1>1, <2>4, <2>5, MetStays
    <2>15. ASSUME past'.alone
           PROVE  /\ \A k \in Job \ {i} : jobs'[k] = NoJob
                  /\ Agrees(jobs'[i], list', stored'.order)
      <3>1. (\A k \in Job \ {j} : jobs[k] = NoJob) /\ list' = stored'.order
        BY <1>1, <2>5, <2>15, OthersAreNone DEF Agrees
      <3> QED
        BY <2>9, <2>10, <2>11, <3>1 DEF Agrees
    <2> QED
      BY <2>4, <2>5, <2>7, <2>9, <2>11, <2>12, <2>13, <2>14, <2>15, CallSteps
  <1> QED
    BY <1>5, <1>6

\* No action of the editor, the server or the network.
LEMMA EditorSteps == EditorInv /\ [EditorNext]_editorVars => EditorInv'
  <1> SUFFICES ASSUME EditorInv, [EditorNext]_editorVars PROVE EditorInv'
    OBVIOUS
  <1>1. CASE SelectPage \/ ChangeTemplate \/ OpenEditor
    BY <1>1, SelectSteps, TemplateSteps, OpenEditorSteps
  <1>2. CASE SavePage \/ UploadImage \/ DeletePage \/ AddPage \/ DragEnds
    BY <1>2, StartingSteps
  <1>3. ASSUME NEW j \in Job,
               \/ UploadEnds(j) \/ UpdatePage(j) \/ SaveAnswered(j) \/ WriteFails(j)
               \/ FindPages(j) \/ PagesArrive(j) \/ PagesArriveAdded(j) \/ ListFailsToCome(j)
               \/ ReorderPages(j) \/ DragRefused(j)
               \/ PageDeleted(j) \/ DeleteAnswered(j) \/ AddOrDeleteFails(j)
               \/ CreatePage(j) \/ AddAnswered(j)
        PROVE  EditorInv'
    BY <1>3, WrittenSteps, SavedSteps, UnseenSteps, FindSteps, ArriveSteps, ArriveAddedSteps,
       FailedSteps, ServerSteps, DeleteAnsweredSteps
  <1>4. CASE UNCHANGED editorVars
    BY <1>4 DEF editorVars, EditorInv, EditorTypes, Mine, OneAlone
  <1> QED
    BY <1>1, <1>2, <1>3, <1>4 DEF EditorNext

\* The inductive invariant of the editor (PageEditor.vue).
THEOREM EditorInvHolds == EditorSpec => []EditorInv
  BY EditorStarts, EditorSteps, PTL DEF EditorSpec

\* The selection moves, lists are read and pages come and go during uploads and saves:
\* every image of a page, on the server and in the list, came from an upload or a save
\* of that page, or of one that was under way when that page was selected
\* (PageEditor.vue, uploadImage, savePage and the selection).
THEOREM EditsStay == EditorSpec => []EditsStayOnTheirPage
  <1>1. EditorInv => EditsStayOnTheirPage
    <2> SUFFICES ASSUME EditorInv PROVE EditsStayOnTheirPage
      OBVIOUS
    <2>1. ToSet(stored.order) \subseteq Leaf /\ ToSet(list) \subseteq Leaf
      BY TypesFacts DEF ToSet, Storage
    <2>2. /\ \A l \in Leaf : From(past.met, stored.image[l], l)
          /\ \A l \in Leaf : From(past.met, local[l].image, l)
      BY TypesFacts DEF Kept, Shown, Clean
    <2> QED
      BY <2>1, <2>2 DEF EditsStayOnTheirPage, From
  <1> QED
    BY <1>1, EditorInvHolds, PTL

\* When nothing is under way, and since the editor was opened no operations overlapped
\* and none but a drag failed, the list is the server's (PageEditor.vue: fetchPages,
\* handleDragEnd, deletePage, addPage; album.service.ts).
THEOREM PagesAreAsStored == EditorSpec => []PagesAsStored
  <1>1. EditorInv => PagesAsStored
    BY QuietAgrees DEF PagesAsStored
  <1> QED
    BY <1>1, EditorInvHolds, PTL

-----------------------------------------------------------------------------
(******************************************************************************)
(* Since the receipts were emptied they have grown only by what uploads have  *)
(* assigned: there is no hole among the slots they were emptied for, no gap   *)
(* past them, and their number is one of those slots' or of an upload's:      *)
(* DraftInv.                                                                  *)
(******************************************************************************)

\* The inductive invariant.
DraftInv ==
    /\ template \in Template
    /\ posts \subseteq 1 .. 3
    /\ uploading \subseteq 1 .. 3
    /\ emptied \in [slots : 1 .. 3, uploads : SUBSET (1 .. 3)]
    /\ receipts \in Seq({"empty", "hole", "receipt"})
    /\ uploading \subseteq emptied.uploads \cup 1 .. Slots[template]
    /\ Len(receipts) >= emptied.slots
    /\ Len(receipts) \in {emptied.slots} \cup emptied.uploads \cup 1 .. Slots[template]
    /\ \A i \in DOMAIN receipts : IF i <= emptied.slots THEN receipts[i] # "hole"
                                  ELSE receipts[i] # "empty"

\* The number of slots of a template.
LEMMA SlotsCounted == Slots \in [Template -> 1 .. 3] /\ "single" \in Template
  BY DEF Slots, Template

\* The receipts are emptied for n slots, with what is uploading in flight.
LEMMA EmptySteps ==
  ASSUME NEW n \in 1 .. 3,
         receipts' = Empty(n), emptied' = [slots |-> n, uploads |-> uploading],
         uploading' = uploading, uploading \subseteq 1 .. 3,
         posts' \subseteq 1 .. 3, template' \in Template
  PROVE  DraftInv'
  <1>1. receipts' = [i \in 1 .. n |-> "empty"]
    BY DEF Empty
  <1>2. /\ receipts' \in Seq({"empty", "hole", "receipt"}) /\ Len(receipts') = n
        /\ DOMAIN receipts' = 1 .. n /\ \A i \in 1 .. n : receipts'[i] = "empty"
    BY <1>1
  <1>3. /\ emptied' \in [slots : 1 .. 3, uploads : SUBSET (1 .. 3)]
        /\ emptied'.slots = n /\ emptied'.uploads = uploading
    OBVIOUS
  <1> QED
    BY <1>2, <1>3 DEF DraftInv

\* The dialog starts with a single slot.
LEMMA DraftStarts == DraftInit => DraftInv
  <1> SUFFICES ASSUME DraftInit PROVE DraftInv
    OBVIOUS
  <1>1. Slots.single = 1 /\ Slots["single"] = 1
    BY DEF Slots
  <1>2. receipts = [i \in 1 .. 1 |-> "empty"]
    BY <1>1 DEF DraftInit, Empty
  <1>3. /\ receipts \in Seq({"empty", "hole", "receipt"}) /\ Len(receipts) = 1
        /\ DOMAIN receipts = 1 .. 1 /\ \A i \in 1 .. 1 : receipts[i] = "empty"
    BY <1>2
  <1>4. emptied = [slots |-> 1, uploads |-> {}]
    BY <1>1 DEF DraftInit
  <1> QED
    BY <1>1, <1>3, <1>4, SlotsCounted DEF DraftInit, DraftInv

\* An upload assigns its receipt: the array may grow to its index.
LEMMA AssignSteps ==
  ASSUME DraftInv, NewPageImageUploaded
  PROVE  DraftInv'
  <1> DEFINE n(i) == IF i > Len(receipts) THEN i ELSE Len(receipts)
  <1>1. PICK i \in uploading :
           /\ receipts' = [k \in 1 .. n(i) |->
                             IF k = i THEN "receipt"
                             ELSE IF k \in DOMAIN receipts THEN receipts[k] ELSE "hole"]
           /\ uploading' \in {uploading, uploading \ {i}}
    BY DEF NewPageImageUploaded
  <1>2. UNCHANGED <<template, posts, emptied>>
    BY DEF NewPageImageUploaded
  <1>3. /\ i \in 1 .. 3 /\ i \in emptied.uploads \cup 1 .. Slots[template]
        /\ Len(receipts) \in Nat /\ DOMAIN receipts = 1 .. Len(receipts)
        /\ \A k \in DOMAIN receipts : receipts[k] \in {"empty", "hole", "receipt"}
    BY DEF DraftInv
  <1>4. /\ n(i) \in Nat /\ n(i) >= Len(receipts) /\ i \in 1 .. n(i) /\ n(i) \in {i, Len(receipts)}
    BY <1>3
  <1> HIDE DEF n
  <1>5. /\ receipts' \in Seq({"empty", "hole", "receipt"}) /\ Len(receipts') = n(i)
        /\ DOMAIN receipts' = 1 .. n(i)
    BY <1>1, <1>3, <1>4
  <1>6. ASSUME NEW k \in 1 .. n(i)
        PROVE  IF k <= emptied.slots THEN receipts'[k] # "hole" ELSE receipts'[k] # "empty"
    <2>1. emptied.slots \in 1 .. 3 /\ emptied.slots <= Len(receipts)
      BY <1>3 DEF DraftInv
    <2>2. CASE k = i
      BY <1>1, <2>2
    <2>3. CASE k # i /\ k \in DOMAIN receipts
      BY <1>1, <2>3 DEF DraftInv
    <2>4. CASE k # i /\ k \notin DOMAIN receipts
      BY <1>1, <1>3, <1>4, <2>1, <2>4
    <2> QED
      BY <2>2, <2>3, <2>4
  <1> QED
    BY <1>1, <1>2, <1>3, <1>4, <1>5, <1>6 DEF DraftInv

\* No action of the dialog, of an upload or of a request.
LEMMA DraftSteps == DraftInv /\ [DraftNext]_draftVars => DraftInv'
  <1> SUFFICES ASSUME DraftInv, [DraftNext]_draftVars
               PROVE  DraftInv'
    OBVIOUS
  <1> USE SlotsCounted
  <1>1. CASE OpenOrCancel
    BY <1>1 DEF OpenOrCancel, DraftInv
  <1>2. CASE ChooseTemplate
    <2>1. PICK t \in Template : template' = t /\ receipts' = Empty(Slots[t])
      BY <1>2 DEF ChooseTemplate
    <2>2. /\ emptied' = [slots |-> Slots[t], uploads |-> uploading]
          /\ uploading' = uploading /\ posts' = posts
      BY <1>2, <2>1 DEF ChooseTemplate
    <2> QED
      BY <2>1, <2>2, EmptySteps DEF DraftInv
  <1>3. CASE WriteText
    BY <1>3 DEF WriteText, DraftInv
  <1>4. CASE UploadNewPageImage
    BY <1>4 DEF UploadNewPageImage, DraftInv
  <1>5. CASE NewPageImageUploaded
    BY <1>5, AssignSteps
  <1>6. CASE NewPageImageFails
    BY <1>6 DEF NewPageImageFails, DraftInv
  <1>7. CASE PostPage
    BY <1>7 DEF PostPage, DraftInv
  <1>8. CASE PageCreated
    <2>1. PICK n \in posts : /\ receipts' = Empty(n)
                             /\ emptied' = [slots |-> n, uploads |-> uploading]
                             /\ posts' \in {posts, posts \ {n}}
      BY <1>8 DEF PageCreated
    <2>2. template' = template /\ uploading' = uploading
      BY <1>8 DEF PageCreated
    <2> QED
      BY <2>1, <2>2, EmptySteps DEF DraftInv
  <1>9. CASE PageRefused
    BY <1>9 DEF PageRefused, DraftInv
  <1>10. CASE UNCHANGED draftVars
    BY <1>10 DEF draftVars, DraftInv
  <1> QED
    BY <1>1, <1>2, <1>3, <1>4, <1>5, <1>6, <1>7, <1>8, <1>9, <1>10 DEF DraftNext

\* The inductive invariant of the dialog (PageEditor.vue, the dialog that adds a page).
THEOREM DraftInvHolds == DraftSpec => []DraftInv
  BY DraftStarts, DraftSteps, PTL DEF DraftSpec

\* Templates are chosen and pages sent while images are uploaded: a page whose every
\* slot shows an image can be added, unless a late upload or answer has made the list
\* of receipts too long, and one that can be added has an image in every slot, unless
\* a late answer has made it too short (PageEditor.vue, addPage and its check).
THEOREM DraftsCanBeAdded == DraftSpec => []DraftCanBeAdded
  <1> DEFINE complete == \A i \in 1 .. Slots[template] :
                             i \in DOMAIN receipts /\ receipts[i] = "receipt"
  <1>1. DraftInv => DraftCanBeAdded
    <2> SUFFICES ASSUME DraftInv
                 PROVE  DraftCanBeAdded
      OBVIOUS
    <2>1. /\ Slots[template] \in 1 .. 3 /\ emptied.slots \in 1 .. 3 /\ emptied.uploads \subseteq 1 .. 3
          /\ Len(receipts) \in Nat /\ DOMAIN receipts = 1 .. Len(receipts)
          /\ \A i \in DOMAIN receipts : receipts[i] \in {"empty", "hole", "receipt"}
      BY SlotsCounted DEF DraftInv
    <2>2. ASSUME complete, emptied.slots <= Slots[template],
                 \A i \in emptied.uploads : i <= Slots[template]
          PROVE  ReceiptsComplete
      <3>1. Slots[template] <= Len(receipts)
        BY <2>1, <2>2
      <3>2. Len(receipts) <= Slots[template]
        BY <2>1, <2>2 DEF DraftInv
      <3> QED
        BY <2>1, <2>2, <3>1, <3>2 DEF ReceiptsComplete
    <2>3. ASSUME ReceiptsComplete, emptied.slots >= Slots[template]
          PROVE  complete
      BY <2>1, <2>3 DEF ReceiptsComplete, DraftInv
    <2> QED
      BY <2>1, <2>2, <2>3 DEF DraftCanBeAdded
  <1> QED
    BY DraftInvHolds, <1>1, PTL
=============================================================================
