------------------------- MODULE DeletionTasksProofs -------------------------
(***************************************************************************)
(* The queue of deletion tasks, for any number of rows and of overlapping  *)
(* sweeps, whatever the batch limit and the delays: a row reported done    *)
(* has had its object removed and stays done; the queue has the pending    *)
(* rows, each once and by the time they wait; and a row is attempted only  *)
(* when it is due, or has been put off since the batch with it was read.   *)
(***************************************************************************)
EXTENDS DeletionOverlap, FiniteSetTheorems, SequenceTheorems, TLAPS

\* The shape of the state, without the contents of batches and queue, on
\* which nothing below depends.
Shape ==
    /\ status \in [Task -> {"absent", "pending", "done"}]
    /\ sweep = [s \in Sweeper |-> sweep[s]]
    /\ \A s \in Sweeper : sweep[s] = [phase |-> sweep[s].phase,
                                      batch |-> sweep[s].batch,
                                      seen |-> sweep[s].seen]

\* A sweep settles a row only after it has removed its object; nothing puts
\* an object back.
SettlingObjectGone == \A s \in Sweeper : At(s, "settle") => Row(s) \notin object

DoneInv == Shape /\ SettlingObjectGone /\ DoneObjectGone

LEMMA InitDone == Init => DoneInv
<1> SUFFICES ASSUME Init PROVE DoneInv
  OBVIOUS
<1>1. Shape
  BY DEF Init, Shape, NoSweep
<1>2. SettlingObjectGone
  BY DEF Init, SettlingObjectGone, At, NoSweep
<1>3. DoneObjectGone
  BY DEF Init, DoneObjectGone
<1>4. QED
  BY <1>1, <1>2, <1>3 DEF DoneInv

-----------------------------------------------------------------------------
\* What one sweep does keeps DoneInv when the rows stay as they are, no
\* object comes back and the sweep is not left about to settle a row whose
\* object is there.
LEMMA SweepMoves ==
  ASSUME DoneInv, NEW s \in Sweeper, NEW x,
         sweep' = [sweep EXCEPT ![s] = x],
         x = [phase |-> x.phase, batch |-> x.batch, seen |-> x.seen],
         x.phase = "settle" => Head(x.batch) \notin object',
         object' \subseteq object, status' = status
  PROVE  DoneInv'
<1> USE DEF DoneInv
<1>1. \A r \in Sweeper : sweep'[r] = IF r = s THEN x ELSE sweep[r]
  BY DEF Shape
<1>2. Shape'
  BY <1>1 DEF Shape
<1>3. SettlingObjectGone'
  BY <1>1 DEF SettlingObjectGone, At, Row
<1>4. DoneObjectGone'
  BY DEF DoneObjectGone
<1>5. QED
  BY <1>2, <1>3, <1>4

\* The two ways a sweep leaves a row behind.
LEMMA AdvanceShape ==
  ASSUME NEW s \in Sweeper, Advance(s)
  PROVE  \E x : /\ sweep' = [sweep EXCEPT ![s] = x]
                /\ x = [phase |-> x.phase, batch |-> x.batch, seen |-> x.seen]
                /\ x.phase # "settle"
<1> DEFINE x == IF Len(sweep[s].batch) = 1 THEN NoSweep
                ELSE [phase |-> "next", batch |-> Tail(sweep[s].batch), seen |-> 0]
<1>1. sweep' = [sweep EXCEPT ![s] = x]
  BY DEF Advance
<1>2. x = [phase |-> x.phase, batch |-> x.batch, seen |-> x.seen] /\ x.phase # "settle"
  BY DEF NoSweep
<1> HIDE DEF x
<1>3. QED
  BY <1>1, <1>2

LEMMA GotoKeeps ==
  ASSUME DoneInv, NEW s \in Sweeper, NEW phase, Goto(s, phase),
         phase = "settle" => Row(s) \notin object',
         object' \subseteq object, status' = status
  PROVE  DoneInv'
<1> DEFINE x == [sweep[s] EXCEPT !.phase = phase]
<1>1. sweep[s] = [phase |-> sweep[s].phase, batch |-> sweep[s].batch, seen |-> sweep[s].seen]
  BY DEF DoneInv, Shape
<1>2. x = [phase |-> phase, batch |-> sweep[s].batch, seen |-> sweep[s].seen]
  BY <1>1
<1>3. sweep' = [sweep EXCEPT ![s] = x]
  BY DEF Goto
<1>4. QED
  BY <1>2, <1>3, SweepMoves DEF Row

LEMMA AdvanceKeeps ==
  ASSUME DoneInv, NEW s \in Sweeper, Advance(s),
         object' \subseteq object, status' = status
  PROVE  DoneInv'
<1>1. PICK x : /\ sweep' = [sweep EXCEPT ![s] = x]
               /\ x = [phase |-> x.phase, batch |-> x.batch, seen |-> x.seen]
               /\ x.phase # "settle"
  BY AdvanceShape
<1>2. QED
  BY <1>1, SweepMoves

LEMMA StartKeeps ==
  ASSUME DoneInv, NEW s \in Sweeper, StartSweep(s), object' = object, status' = status
  PROVE  DoneInv'
<1> DEFINE x == [phase |-> "next", batch |-> FindDue, seen |-> 0]
<1>1. sweep' = [sweep EXCEPT ![s] = x]
  BY DEF StartSweep
<1>2. QED
  BY <1>1, SweepMoves

-----------------------------------------------------------------------------
LEMMA ReadRowKeeps ==
  ASSUME DoneInv, NEW s \in Sweeper, ReadRow(s)
  PROVE  DoneInv'
<1>1. object' = object /\ status' = status
  BY DEF ReadRow, table
<1>2. CASE status[Row(s)] = "pending"
  <2> DEFINE x == [phase |-> "delete", batch |-> sweep[s].batch, seen |-> attempts[Row(s)]]
  <2>1. sweep' = [sweep EXCEPT ![s] = x]
    BY <1>2 DEF ReadRow
  <2>2. QED
    BY <1>1, <2>1, SweepMoves
<1>3. CASE status[Row(s)] # "pending"
  BY <1>1, <1>3, AdvanceKeeps DEF ReadRow
<1>4. QED
  BY <1>2, <1>3

\* The one step that makes a row done: the sweep has removed the object.
LEMMA SettleKeeps ==
  ASSUME DoneInv, NEW s \in Sweeper, Settle(s)
  PROVE  DoneInv'
<1>1. PICK x : /\ sweep' = [sweep EXCEPT ![s] = x]
               /\ x = [phase |-> x.phase, batch |-> x.batch, seen |-> x.seen]
               /\ x.phase # "settle"
  BY AdvanceShape DEF Settle
<1>2. \A r \in Sweeper : sweep'[r] = IF r = s THEN x ELSE sweep[r]
  BY <1>1 DEF DoneInv, Shape
<1>3. Shape'
  BY <1>1, <1>2 DEF DoneInv, Shape, Settle
<1>4. SettlingObjectGone'
  BY <1>1, <1>2 DEF DoneInv, SettlingObjectGone, At, Row, Settle
<1>5. DoneObjectGone'
  BY DEF DoneInv, Shape, SettlingObjectGone, DoneObjectGone, Settle
<1>6. QED
  BY <1>3, <1>4, <1>5 DEF DoneInv

LEMMA ProcessOneKeeps ==
  ASSUME DoneInv, NEW s \in Sweeper, ProcessOne(s)
  PROVE  DoneInv'
<1>1. CASE ReadRow(s)
  BY <1>1, ReadRowKeeps
<1>2. CASE DeleteObject(s)
  BY <1>2, GotoKeeps DEF DeleteObject, table
<1>3. CASE DeleteFails(s)
  BY <1>3, GotoKeeps DEF DeleteFails, table
<1>4. CASE Settle(s)
  BY <1>4, SettleKeeps
<1>5. CASE SettleFails(s)
  BY <1>5, GotoKeeps DEF SettleFails, table
<1>6. CASE Record(s)
  BY <1>6, AdvanceKeeps DEF Record
<1>7. CASE RecordFails(s)
  BY <1>7, SweepMoves DEF RecordFails, NoSweep, table
<1>8. QED
  BY <1>1, <1>2, <1>3, <1>4, <1>5, <1>6, <1>7 DEF ProcessOne

LEMMA EnqueueKeeps ==
  ASSUME DoneInv, NEW t \in Task, Enqueue(t)
  PROVE  DoneInv'
<1>1. status' = [status EXCEPT ![t] = "pending"] /\ UNCHANGED <<object, sweep>>
  BY DEF Enqueue
<1>2. QED
  BY <1>1 DEF DoneInv, Shape, SettlingObjectGone, DoneObjectGone, At, Row

LEMMA RestartKeeps == DoneInv /\ Restart => DoneInv'
  BY DEF DoneInv, Shape, SettlingObjectGone, DoneObjectGone, At, Row, Restart, NoSweep, table

LEMMA StillKeeps == DoneInv /\ UNCHANGED <<status, object, sweep>> => DoneInv'
  BY DEF DoneInv, Shape, SettlingObjectGone, DoneObjectGone, At, Row

\* Every step of the service keeps DoneInv.
LEMMA NextDone == DoneInv /\ [Next]_vars => DoneInv'
<1> SUFFICES ASSUME DoneInv, [Next]_vars PROVE DoneInv'
  OBVIOUS
<1>1. ASSUME NEW t \in Task, Enqueue(t) PROVE DoneInv'
  BY <1>1, EnqueueKeeps
<1>2. CASE Tick
  BY <1>2, StillKeeps DEF Tick
<1>3. ASSUME NEW s \in Sweeper, Trigger(s) PROVE DoneInv'
  BY <1>3, StartKeeps DEF Trigger, table
<1>4. ASSUME NEW s \in Sweeper, BootSweep(s) PROVE DoneInv'
  <2>1. object' = object /\ status' = status
    BY <1>4 DEF BootSweep, table
  <2>2. StartSweep(s) \/ UNCHANGED sweep
    BY <1>4 DEF BootSweep
  <2>3. QED
    BY <2>1, <2>2, StartKeeps, StillKeeps
<1>5. ASSUME NEW s \in Sweeper, ProcessOne(s) PROVE DoneInv'
  BY <1>5, ProcessOneKeeps
<1>6. CASE Restart
  BY <1>6, RestartKeeps
<1>7. CASE UNCHANGED vars
  BY <1>7, StillKeeps DEF vars
<1>8. QED
  BY <1>1, <1>2, <1>3, <1>4, <1>5, <1>6, <1>7 DEF Next

\* DoneInv holds in every state that can be reached.
LEMMA DoneInvHolds == Spec => []DoneInv
<1>1. QED
  BY InitDone, NextDone, PTL DEF Spec

\* A row that is done has lost its object, whichever calls fail and however
\* many sweeps overlap (processOne).
THEOREM DoneObjectsAreGone == Spec => []DoneObjectGone
<1>1. DoneInv => DoneObjectGone
  BY DEF DoneInv
<1>2. QED
  BY <1>1, DoneInvHolds, PTL

-----------------------------------------------------------------------------
\* No step of a sweep writes the status of a row except to settle it.
LEMMA StepKeepsDone ==
  ASSUME DoneInv, [Next]_vars, NEW t \in Task, status[t] = "done"
  PROVE  status'[t] = "done"
<1>1. ASSUME NEW u \in Task, Enqueue(u) PROVE status'[t] = "done"
  BY <1>1 DEF Enqueue, DoneInv, Shape
<1>2. ASSUME NEW s \in Sweeper, Trigger(s) \/ BootSweep(s) PROVE status'[t] = "done"
  BY <1>2 DEF Trigger, BootSweep, table
<1>3. ASSUME NEW s \in Sweeper, ProcessOne(s) PROVE status'[t] = "done"
  <2>1. CASE Settle(s)
    BY <2>1 DEF Settle, DoneInv, Shape
  <2>2. CASE ReadRow(s) \/ DeleteObject(s) \/ DeleteFails(s) \/ SettleFails(s)
              \/ RecordFails(s)
    BY <2>2 DEF ReadRow, DeleteObject, DeleteFails, SettleFails, RecordFails, table
  <2>3. CASE Record(s)
    BY <2>3 DEF Record
  <2>4. QED
    BY <1>3, <2>1, <2>2, <2>3 DEF ProcessOne
<1>4. CASE Tick \/ Restart \/ UNCHANGED vars
  BY <1>4 DEF Tick, Restart, vars, table
<1>5. QED
  BY <1>1, <1>2, <1>3, <1>4 DEF Next

\* A row that is done stays done: a late failure never reopens it.
THEOREM DoneStaysDone == Spec => DoneIsFinal
<1>1. DoneInv /\ [Next]_vars
        => [\A t \in Task : status[t] = "done" => status'[t] = "done"]_vars
  BY StepKeepsDone
<1>2. QED
  BY <1>1, DoneInvHolds, PTL DEF Spec, DoneIsFinal

-----------------------------------------------------------------------------
(***************************************************************************)
(* The queue.  What the sweeps do with it is the same for every way the    *)
(* rows are sorted into it: the rows that are due come first since the     *)
(* times rise along the queue, a row that is put off goes where its new    *)
(* time belongs, and the clock brings all times nearer alike.  That is     *)
(* TaskInv.                                                                *)
(***************************************************************************)

\* In a queue every row is once, by the time it waits.
Sorted(q, w) ==
    /\ q \in Seq(Task)
    /\ \A i, j \in 1..Len(q) : q[i] = q[j] => i = j
    /\ \A i, j \in 1..Len(q) : i < j => w[q[i]] <= w[q[j]]

In(t, q) == \E i \in 1..Len(q) : q[i] = t

\* The queue is of the pending rows; a row that does not exist has no time to
\* wait, so that its creation puts it where it belongs.
QueueRight ==
    /\ Sorted(queue, wait)
    /\ \A t \in Task : status[t] = "pending" <=> In(t, queue)
    /\ \A t \in Task : status[t] = "absent" => wait[t] = 0

\* A sweep in progress has a row in hand, and none of its rows is new.
Batches ==
    \A s \in Sweeper :
        /\ sweep[s].phase # "idle" => sweep[s].batch # <<>>
        /\ \A i \in 1..Len(sweep[s].batch) : status[sweep[s].batch[i]] # "absent"

TaskInv == TypeOK /\ QueueRight /\ Batches

\* The rows of the batch of sweep x are different ones, and those still to be
\* tried are due or among those in P.
Sound(x, P) ==
    /\ \A i, j \in 1..Len(x.batch) : x.batch[i] = x.batch[j] => i = j
    /\ \A i \in 1..Len(x.batch) :
          i > 1 \/ x.phase = "next" => wait[x.batch[i]] = 0 \/ x.batch[i] \in P

BatchDue == \A s \in Sweeper : Sound(sweep[s], putOff[s])

DueInv == TaskInv /\ BatchDue

-----------------------------------------------------------------------------
(* Sequences: insert a row, remove a row.                                  *)

\* A set of positions with all the positions before them is as long as it has elements.
LEMMA PrefixCounted ==
  ASSUME NEW L \in Nat, NEW Z \in SUBSET (1..L), \A i \in Z, j \in 1..L : j <= i => j \in Z
  PROVE  Cardinality(Z) \in 0..L /\ Z = 1..Cardinality(Z)
  <1>1. \A n \in Nat : IsFiniteSet(1..n) /\ Cardinality(1..n) = n
    BY FS_Interval
  <1>2. /\ IsFiniteSet(Z) /\ Cardinality(Z) \in Nat /\ Cardinality(Z) <= L
    <2>1. IsFiniteSet(Z) /\ Cardinality(Z) <= Cardinality(1..L)
      BY <1>1, FS_Subset
    <2> QED
      BY <2>1, <1>1, FS_CardinalityType
  <1>3. ASSUME NEW i \in Z PROVE i <= Cardinality(Z)
    <2>1. i \in Nat /\ 1..i \subseteq Z
      OBVIOUS
    <2>2. Cardinality(1..i) <= Cardinality(Z)
      BY <2>1, <1>2, FS_Subset
    <2> QED
      BY <2>1, <2>2, <1>1
  <1>4. Z \subseteq 1..Cardinality(Z)
    BY <1>2, <1>3
  <1>5. Z = 1..Cardinality(Z)
    BY <1>1, <1>2, <1>4, FS_Subset
  <1> QED
    BY <1>2, <1>5

\* The due rows are the first in the queue.
LEMMA DueComeFirst ==
  ASSUME TaskInv
  PROVE  /\ NumDue \in 0..Len(queue)
         /\ \A i \in 1..Len(queue) : i <= NumDue <=> Due(queue[i])
  <1> DEFINE Z == {i \in DOMAIN queue : Due(queue[i])}
  <1>1. /\ queue \in Seq(Task) /\ Len(queue) \in Nat /\ DOMAIN queue = 1..Len(queue)
        /\ wait \in [Task -> Nat] /\ \A i \in 1..Len(queue) : queue[i] \in Task
    BY LimitsArePositive DEF TaskInv, TypeOK, QueueRight, Sorted
  <1>2. \A i \in Z, j \in 1..Len(queue) : j <= i => j \in Z
    <2> SUFFICES ASSUME NEW i \in Z, NEW j \in 1..Len(queue), j < i
                 PROVE  Due(queue[j])
      BY <1>1
    <2>1. wait[queue[j]] <= wait[queue[i]] /\ wait[queue[i]] = 0
      BY <1>1 DEF TaskInv, QueueRight, Sorted, Due
    <2>2. status[queue[j]] = "pending" /\ wait[queue[j]] \in Nat
      BY <1>1 DEF TaskInv, QueueRight, In
    <2> QED
      BY <2>1, <2>2 DEF Due
  <1>3. Z \in SUBSET (1..Len(queue))
    BY <1>1
  <1> HIDE DEF Z
  <1>4. Cardinality(Z) \in 0..Len(queue) /\ Z = 1..Cardinality(Z)
    BY <1>1, <1>2, <1>3, PrefixCounted
  <1>5. NumDue = Cardinality(Z)
    BY DEF NumDue, Z
  <1>6. \A i \in 1..Len(queue) : i \in Z <=> Due(queue[i])
    BY <1>1 DEF Z
  <1> QED
    BY <1>1, <1>4, <1>5, <1>6

\* Inserting at a position leaves what is before it and moves what is behind.
LEMMA InsertAtFacts ==
  ASSUME NEW q \in Seq(Task), NEW k \in 1..Len(q) + 1, NEW t \in Task
  PROVE  LET r == InsertAt(q, k, t)
         IN  /\ r \in Seq(Task) /\ Len(r) = Len(q) + 1
             /\ \A i \in 1..k - 1 : r[i] = q[i]
             /\ r[k] = t
             /\ \A i \in k + 1..Len(q) + 1 : r[i] = q[i - 1]
  <1> DEFINE r == InsertAt(q, k, t)
             a == SubSeq(q, 1, k - 1)
             b == a \o <<t>>
             c == SubSeq(q, k, Len(q))
  <1>0. Len(q) \in Nat /\ k \in Nat /\ 1 <= k /\ k <= Len(q) + 1
    OBVIOUS
  <1>1. a \in Seq(Task) /\ Len(a) = k - 1 /\ \A i \in 1..k - 1 : a[i] = q[i]
    OBVIOUS
  <1>2. c \in Seq(Task) /\ Len(c) = Len(q) - k + 1
        /\ \A i \in 1..Len(q) - k + 1 : c[i] = q[k + i - 1]
    OBVIOUS
  <1>3. r = b \o c
    BY DEF InsertAt
  <1> HIDE DEF a, c, r
  <1>4. /\ b \in Seq(Task) /\ Len(b) = k
        /\ \A i \in 1..k : b[i] = IF i <= k - 1 THEN q[i] ELSE t
    BY <1>0, <1>1
  <1> HIDE DEF b
  <1>5. /\ b \o c \in Seq(Task) /\ Len(b \o c) = Len(b) + Len(c)
        /\ \A i \in 1..Len(b) + Len(c) : (b \o c)[i] = IF i <= Len(b) THEN b[i] ELSE c[i - Len(b)]
    BY <1>2, <1>4, ConcatProperties
  <1>6. r \in Seq(Task) /\ Len(r) = Len(q) + 1
    BY <1>0, <1>2, <1>3, <1>4, <1>5
  <1>7. \A i \in 1..Len(q) + 1 : r[i] = IF i <= k THEN b[i] ELSE c[i - k]
    BY <1>0, <1>2, <1>3, <1>4, <1>5
  <1>8. (\A i \in 1..k - 1 : r[i] = q[i]) /\ r[k] = t
    BY <1>0, <1>4, <1>7
  <1>9. ASSUME NEW i \in k + 1..Len(q) + 1 PROVE r[i] = q[i - 1]
    <2>1. i - k \in 1..Len(q) - k + 1 /\ k + (i - k) - 1 = i - 1 /\ ~(i <= k)
      BY <1>0
    <2>2. c[i - k] = q[i - 1]
      BY <2>1, <1>2
    <2> QED
      BY <2>1, <2>2, <1>0, <1>7
  <1> QED
    BY <1>6, <1>8, <1>9 DEF r

\* Removing a position leaves what is before it and moves up what is behind.
LEMMA RemoveAtFacts ==
  ASSUME NEW q \in Seq(Task), NEW k \in 1..Len(q), NEW r, r = RemoveAt(q, k)
  PROVE  /\ r \in Seq(Task) /\ Len(r) = Len(q) - 1
         /\ \A i \in 1..Len(q) - 1 : r[i] = IF i < k THEN q[i] ELSE q[i + 1]
  <1> DEFINE a == SubSeq(q, 1, k - 1)
             c == SubSeq(q, k + 1, Len(q))
  <1>0. Len(q) \in Nat /\ k \in Nat /\ 1 <= k /\ k <= Len(q)
    OBVIOUS
  <1>1. a \in Seq(Task) /\ Len(a) = k - 1 /\ \A i \in 1..k - 1 : a[i] = q[i]
    OBVIOUS
  <1>2. c \in Seq(Task) /\ Len(c) = Len(q) - k /\ \A i \in 1..Len(q) - k : c[i] = q[k + i]
    OBVIOUS
  <1>3. r = a \o c
    BY DEF RemoveAt
  <1> HIDE DEF a, c
  <1>4. /\ a \o c \in Seq(Task) /\ Len(a \o c) = Len(a) + Len(c)
        /\ \A i \in 1..Len(a) + Len(c) : (a \o c)[i] = IF i <= Len(a) THEN a[i] ELSE c[i - Len(a)]
    BY <1>1, <1>2, ConcatProperties
  <1>5. r \in Seq(Task) /\ Len(r) = Len(q) - 1
    BY <1>0, <1>1, <1>2, <1>3, <1>4
  <1>6. ASSUME NEW i \in 1..Len(q) - 1
        PROVE  r[i] = IF i < k THEN q[i] ELSE q[i + 1]
    <2>1. r[i] = IF i <= k - 1 THEN a[i] ELSE c[i - (k - 1)]
      BY <1>0, <1>1, <1>2, <1>3, <1>4
    <2>2. CASE i < k
      BY <2>1, <2>2, <1>0, <1>1
    <2>3. CASE ~(i < k)
      <3>1. i - (k - 1) \in 1..Len(q) - k /\ k + (i - (k - 1)) = i + 1
        BY <2>3, <1>0
      <3>2. c[i - (k - 1)] = q[i + 1]
        BY <3>1, <1>2
      <3> QED
        BY <2>1, <2>3, <3>2, <1>0
    <2> QED
      BY <2>2, <2>3
  <1> QED
    BY <1>5, <1>6

\* A queue without one of its rows.
LEMMA WithoutFacts ==
  ASSUME NEW q, NEW w \in [Task -> Nat], Sorted(q, w), NEW t \in Task,
         NEW r, r = Without(q, t)
  PROVE  Sorted(r, w) /\ \A u \in Task : In(u, r) <=> u # t /\ In(u, q)
  <1>0. q \in Seq(Task) /\ Len(q) \in Nat /\ DOMAIN q = 1..Len(q)
    BY DEF Sorted
  <1>1. CASE In(t, q)
    <2> DEFINE k == CHOOSE i \in DOMAIN q : q[i] = t
    <2>1. k \in 1..Len(q) /\ q[k] = t
      BY <1>0, <1>1 DEF In
    <2>2. r = RemoveAt(q, k)
      BY <1>0, <1>1 DEF Without, In
    <2> HIDE DEF k
    <2>3. /\ r \in Seq(Task) /\ Len(r) = Len(q) - 1
          /\ \A i \in 1..Len(q) - 1 : r[i] = IF i < k THEN q[i] ELSE q[i + 1]
      BY <1>0, <2>1, <2>2, RemoveAtFacts
    <2> DEFINE at(i) == IF i < k THEN i ELSE i + 1
    <2>4. ASSUME NEW i \in 1..Len(r) PROVE at(i) \in 1..Len(q) /\ at(i) # k /\ r[i] = q[at(i)]
      BY <1>0, <2>1, <2>3
    <2>5. ASSUME NEW i \in 1..Len(r), NEW j \in 1..Len(r), i < j
          PROVE  at(i) < at(j)
      BY <1>0, <2>1, <2>3, <2>5
    <2>6. ASSUME NEW j \in 1..Len(q), j # k PROVE \E i \in 1..Len(r) : r[i] = q[j]
      <3>1. CASE j < k
        <4>1. j \in 1..Len(r) /\ r[j] = q[j]
          BY <3>1, <1>0, <2>1, <2>3
        <4> QED
          BY <4>1
      <3>2. CASE j > k
        <4>1. j - 1 \in 1..Len(r) /\ r[j - 1] = q[j]
          BY <3>2, <1>0, <2>1, <2>3
        <4> QED
          BY <4>1
      <3> QED
        BY <3>1, <3>2, <1>0, <2>1, <2>6
    <2> HIDE DEF at
    <2>7. ASSUME NEW i \in 1..Len(r), NEW j \in 1..Len(r), i < j
          PROVE  r[i] # r[j] /\ w[r[i]] <= w[r[j]]
      <3>1. at(i) \in 1..Len(q) /\ at(j) \in 1..Len(q) /\ r[i] = q[at(i)] /\ r[j] = q[at(j)]
        BY <2>4
      <3>2. at(i) < at(j) /\ at(i) # at(j)
        BY <2>5, <2>7, <3>1
      <3> QED
        BY <3>1, <3>2 DEF Sorted
    <2>8. \A i, j \in 1..Len(r) : r[i] = r[j] => i = j
      <3> SUFFICES ASSUME NEW i \in 1..Len(r), NEW j \in 1..Len(r), i # j PROVE r[i] # r[j]
        OBVIOUS
      <3>1. i < j \/ j < i
        BY <1>0, <2>3
      <3> QED
        BY <3>1, <2>7
    <2>9. Sorted(r, w)
      BY <2>3, <2>7, <2>8 DEF Sorted
    <2>10. ASSUME NEW u \in Task, In(u, r) PROVE u # t /\ In(u, q)
      <3>1. PICK i \in 1..Len(r) : r[i] = u
        BY <2>10 DEF In
      <3>2. at(i) \in 1..Len(q) /\ at(i) # k /\ u = q[at(i)]
        BY <2>4, <3>1
      <3> QED
        BY <3>2, <2>1 DEF In, Sorted
    <2>11. ASSUME NEW u \in Task, u # t, In(u, q) PROVE In(u, r)
      BY <2>1, <2>6, <2>11 DEF In
    <2> QED
      BY <2>9, <2>10, <2>11
  <1>2. CASE ~In(t, q)
    <2>1. r = q
      BY <1>0, <1>2 DEF Without, In
    <2> QED
      BY <2>1, <1>2
  <1> QED
    BY <1>1, <1>2

\* A queue with one row more, where its time is between those of its neighbours.
LEMMA InsertedSorted ==
  ASSUME NEW q, NEW w \in [Task -> Nat], Sorted(q, w), NEW k \in 1..Len(q) + 1,
         NEW t \in Task, ~In(t, q),
         \A i \in 1..k - 1 : w[q[i]] <= w[t],
         \A i \in k..Len(q) : w[q[i]] >= w[t],
         NEW r, r = InsertAt(q, k, t)
  PROVE  Sorted(r, w) /\ \A u \in Task : In(u, r) <=> u = t \/ In(u, q)
  <1>0. q \in Seq(Task) /\ Len(q) \in Nat /\ k \in Nat /\ 1 <= k /\ k <= Len(q) + 1
    BY DEF Sorted
  <1>1. /\ r \in Seq(Task) /\ Len(r) = Len(q) + 1
        /\ \A i \in 1..k - 1 : r[i] = q[i]
        /\ r[k] = t
        /\ \A i \in k + 1..Len(q) + 1 : r[i] = q[i - 1]
    BY <1>0, InsertAtFacts
  <1>2. ASSUME NEW i \in 1..Len(r)
        PROVE  \/ i < k /\ i \in 1..k - 1 /\ i \in 1..Len(q) /\ r[i] = q[i]
               \/ i = k /\ r[i] = t
               \/ i > k /\ i - 1 \in k..Len(q) /\ i - 1 \in 1..Len(q) /\ r[i] = q[i - 1]
    <2>0. i \in Nat /\ 1 <= i /\ i <= Len(q) + 1
      BY <1>0, <1>1
    <2>1. CASE i < k
      <3>1. i \in 1..k - 1 /\ i \in 1..Len(q)
        BY <2>0, <2>1, <1>0
      <3> QED
        BY <2>1, <3>1, <1>1
    <2>2. CASE i = k
      BY <2>2, <1>1
    <2>3. CASE i > k
      <3>1. i \in k + 1..Len(q) + 1 /\ i - 1 \in k..Len(q) /\ i - 1 \in 1..Len(q)
        BY <2>0, <2>3, <1>0
      <3> QED
        BY <2>3, <3>1, <1>1
    <2> QED
      BY <2>0, <2>1, <2>2, <2>3, <1>0
  <1>3. ASSUME NEW i \in 1..Len(r), NEW j \in 1..Len(r), i < j
        PROVE  r[i] # r[j] /\ w[r[i]] <= w[r[j]]
    <2>0. i \in Nat /\ j \in Nat
      BY <1>0, <1>1
    <2>1. CASE i < k /\ j < k
      <3>1. i \in 1..Len(q) /\ j \in 1..Len(q) /\ r[i] = q[i] /\ r[j] = q[j] /\ i # j
        BY <2>0, <2>1, <1>0, <1>2, <1>3
      <3> QED
        BY <3>1, <1>3 DEF Sorted
    <2>2. CASE i < k /\ j = k
      <3>1. i \in 1..k - 1 /\ i \in 1..Len(q) /\ r[i] = q[i] /\ r[j] = t
        BY <2>0, <2>2, <1>0, <1>2
      <3> QED
        BY <3>1 DEF In
    <2>3. CASE i < k /\ j > k
      <3>1. /\ i \in 1..Len(q) /\ j - 1 \in 1..Len(q) /\ i < j - 1 /\ i # j - 1
            /\ r[i] = q[i] /\ r[j] = q[j - 1]
        BY <2>0, <2>3, <1>0, <1>2
      <3> QED
        BY <3>1 DEF Sorted
    <2>4. CASE i = k
      <3>1. /\ j - 1 \in k..Len(q) /\ j - 1 \in 1..Len(q) /\ r[i] = t /\ r[j] = q[j - 1]
        BY <2>0, <2>4, <1>0, <1>2, <1>3
      <3>2. w[q[j - 1]] >= w[t] /\ q[j - 1] # t
        BY <3>1 DEF In
      <3>3. q[j - 1] \in Task
        BY <3>1, <1>0
      <3> QED
        BY <3>1, <3>2, <3>3
    <2>5. CASE i > k
      <3>1. /\ i - 1 \in 1..Len(q) /\ j - 1 \in 1..Len(q) /\ i - 1 < j - 1 /\ i - 1 # j - 1
            /\ r[i] = q[i - 1] /\ r[j] = q[j - 1]
        BY <2>0, <2>5, <1>0, <1>2, <1>3
      <3> QED
        BY <3>1 DEF Sorted
    <2> QED
      BY <2>0, <2>1, <2>2, <2>3, <2>4, <2>5, <1>0, <1>3
  <1>4. \A i, j \in 1..Len(r) : r[i] = r[j] => i = j
    <2> SUFFICES ASSUME NEW i \in 1..Len(r), NEW j \in 1..Len(r), i # j PROVE r[i] # r[j]
      OBVIOUS
    <2>1. i < j \/ j < i
      BY <1>0, <1>1
    <2> QED
      BY <2>1, <1>3
  <1>5. ASSUME NEW u \in Task, In(u, r) PROVE u = t \/ In(u, q)
    BY <1>2, <1>5 DEF In
  <1>6. In(t, r)
    <2>1. k \in 1..Len(r)
      BY <1>0, <1>1
    <2> QED
      BY <1>1, <2>1 DEF In
  <1>7. ASSUME NEW j \in 1..Len(q) PROVE In(q[j], r)
    <2>1. CASE j < k
      <3>1. j \in 1..Len(r) /\ j \in 1..k - 1
        BY <2>1, <1>0, <1>1
      <3> QED
        BY <3>1, <1>1 DEF In
    <2>2. CASE j >= k
      <3>1. j + 1 \in 1..Len(r) /\ j + 1 \in k + 1..Len(q) + 1 /\ (j + 1) - 1 = j
        BY <2>2, <1>0, <1>1
      <3>2. r[j + 1] = q[j]
        BY <3>1, <1>1
      <3> QED
        BY <3>1, <3>2 DEF In
    <2> QED
      BY <2>1, <2>2, <1>0
  <1>8. Sorted(r, w)
    BY <1>1, <1>3, <1>4 DEF Sorted
  <1> QED
    BY <1>5, <1>6, <1>7, <1>8 DEF In

-----------------------------------------------------------------------------
(* Sweeps and their batches.                                               *)

\* Delays stay within the cap.
LEMMA BackoffInRange == ASSUME NEW n PROVE Backoff(n) \in 1..MaxDelay
  BY LimitsArePositive DEF Backoff

\* The rows a sweep finds: some, different ones, due and no more than the queue has.
LEMMA FoundFacts ==
  ASSUME TaskInv
  PROVE  /\ FindDue \in Seq(Task)
         /\ \A i, j \in 1..Len(FindDue) : FindDue[i] = FindDue[j] => i = j
         /\ \A i \in 1..Len(FindDue) : Due(FindDue[i])
  <1> DEFINE m == Least(Limit, NumDue)
  <1>0. queue \in Seq(Task) /\ Len(queue) \in Nat
    BY DEF TaskInv, QueueRight, Sorted
  <1>1. /\ m \in 0..Len(queue)
        /\ \A i \in 1..m : i <= NumDue
    BY <1>0, DueComeFirst, LimitsArePositive DEF Least
  <1>2. FindDue = SubSeq(queue, 1, m)
    BY DEF FindDue
  <1> HIDE DEF m
  <1> DEFINE f == SubSeq(queue, 1, m)
  <1>3. f \in Seq(Task) /\ Len(f) = m /\ \A i \in 1..m : f[i] = queue[i] /\ i \in 1..Len(queue)
    BY <1>0, <1>1
  <1>4. FindDue = f
    BY <1>2
  <1> HIDE DEF f
  <1>5. \A i, j \in 1..Len(f) : f[i] = f[j] => i = j
    BY <1>3 DEF TaskInv, QueueRight, Sorted
  <1>6. \A i \in 1..Len(f) : Due(f[i])
    BY <1>1, <1>3, DueComeFirst
  <1> QED
    BY <1>3, <1>4, <1>5, <1>6

\* The rows behind the current one.
LEMMA TailFacts ==
  ASSUME NEW q \in Seq(Task), q # <<>>
  PROVE  /\ Tail(q) \in Seq(Task)
         /\ Len(Tail(q)) = Len(q) - 1
         /\ \A i \in 1..Len(Tail(q)) : Tail(q)[i] = q[i + 1] /\ i + 1 \in 1..Len(q) /\ i + 1 > 1
         /\ Len(q) \in Nat /\ Len(q) > 0
         /\ Head(q) = q[1] /\ Head(q) \in Task /\ 1 \in 1..Len(q)
  <1>1. Len(q) \in Nat /\ Len(q) > 0 /\ Head(q) = q[1]
    OBVIOUS
  <1>2. Tail(q) \in Seq(Task) /\ Len(Tail(q)) = Len(q) - 1
    BY <1>1
  <1>3. \A i \in 1..Len(Tail(q)) : Tail(q)[i] = q[i + 1] /\ i + 1 \in 1..Len(q) /\ i + 1 > 1
    BY <1>1, <1>2
  <1> QED
    BY <1>1, <1>2, <1>3

\* The states a sweep may go to: a batch of rows that exist and, unless it is
\* idle, at least one.
Fits(x) ==
    /\ x \in SweepState
    /\ x.phase # "idle" => x.batch # <<>>
    /\ \A i \in 1..Len(x.batch) : status[x.batch[i]] # "absent"

\* The record of a sweep, by its fields.
LEMMA SweepType ==
  ASSUME TaskInv, NEW s \in Sweeper
  PROVE  /\ Fits(sweep[s])
         /\ sweep[s] \in [phase : {"idle", "next", "delete", "settle", "record"},
                          batch : Seq(Task), seen : 0..MaxAttempts]
         /\ sweep[s].phase # "idle" => Row(s) \in Task /\ status[Row(s)] # "absent"
  <1>1. sweep[s] \in SweepState
    BY DEF TaskInv, TypeOK
  <1>2. Fits(sweep[s])
    BY <1>1 DEF TaskInv, Batches, Fits
  <1>3. sweep[s].batch \in Seq(Task)
    BY <1>1 DEF SweepState
  <1>4. ASSUME sweep[s].phase # "idle" PROVE Row(s) \in Task /\ status[Row(s)] # "absent"
    <2>1. sweep[s].batch # <<>>
      BY <1>2, <1>4 DEF Fits
    <2>2. Row(s) = sweep[s].batch[1] /\ Row(s) \in Task /\ 1 \in 1..Len(sweep[s].batch)
      BY <1>3, <2>1, TailFacts DEF Row
    <2> QED
      BY <1>2, <2>2 DEF Fits
  <1> QED
    BY <1>1, <1>2, <1>4 DEF SweepState

\* A sweep that begins has found rows, all of them due.
LEMMA StartFits ==
  ASSUME TaskInv, FindDue # <<>>,
         NEW x, x = [phase |-> "next", batch |-> FindDue, seen |-> 0]
  PROVE  Fits(x) /\ \A P : Sound(x, P)
  <1> DEFINE f == FindDue
  <1>1. /\ f \in Seq(Task)
        /\ \A i, j \in 1..Len(f) : f[i] = f[j] => i = j
        /\ \A i \in 1..Len(f) : Due(f[i])
    BY FoundFacts
  <1>2. x.phase = "next" /\ x.batch = f /\ f # <<>>
    OBVIOUS
  <1>3. x \in SweepState
    BY <1>1, LimitsArePositive DEF SweepState
  <1> HIDE DEF f
  <1>4. Fits(x)
    BY <1>1, <1>2, <1>3 DEF Fits, Due
  <1>5. \A P : Sound(x, P)
    BY <1>1, <1>2 DEF Sound, Due
  <1> QED
    BY <1>4, <1>5

\* Where a sweep goes when it has finished with a row.
Advanced(s) == IF Len(sweep[s].batch) = 1 THEN NoSweep
               ELSE [phase |-> "next", batch |-> Tail(sweep[s].batch), seen |-> 0]

\* A sweep that goes on has due rows in hand if it had.
LEMMA AdvancedFits ==
  ASSUME TaskInv, NEW s \in Sweeper, sweep[s].phase # "idle"
  PROVE  /\ Fits(Advanced(s))
         /\ \A P : Sound(sweep[s], P) => Sound(Advanced(s), P)
  <1> DEFINE q == sweep[s].batch
             x == Advanced(s)
  <1>1. q \in Seq(Task) /\ q # <<>> /\ \A i \in 1..Len(q) : status[q[i]] # "absent"
    BY SweepType DEF Fits
  <1>2. CASE Len(q) = 1
    <2>1. x = NoSweep
      BY <1>2 DEF Advanced
    <2>2. NoSweep \in SweepState /\ NoSweep.phase = "idle" /\ Len(NoSweep.batch) = 0
      BY LimitsArePositive DEF NoSweep, SweepState
    <2>3. Fits(NoSweep) /\ \A P : Sound(NoSweep, P)
      BY <2>2 DEF Fits, Sound
    <2> QED
      BY <2>1, <2>3
  <1>3. CASE Len(q) # 1
    <2>1. /\ Tail(q) \in Seq(Task) /\ Len(Tail(q)) = Len(q) - 1
          /\ \A i \in 1..Len(Tail(q)) : Tail(q)[i] = q[i + 1] /\ i + 1 \in 1..Len(q) /\ i + 1 > 1
          /\ Len(q) \in Nat /\ Len(q) > 0
      BY <1>1, TailFacts
    <2>2. x = [phase |-> "next", batch |-> Tail(q), seen |-> 0]
      BY <1>3 DEF Advanced
    <2>3. x \in SweepState
      BY <2>1, <2>2, LimitsArePositive DEF SweepState
    <2>4. x.phase = "next" /\ x.batch = Tail(q)
      BY <2>2
    <2>9. Len(Tail(q)) # 0
      BY <2>1, <1>3
    <2> DEFINE r == Tail(q)
    <2>5. /\ Len(r) \in Nat
          /\ \A i \in 1..Len(r) : r[i] = q[i + 1] /\ i + 1 \in 1..Len(q) /\ i + 1 > 1
      BY <2>1, <1>3
    <2>6. x.phase = "next" /\ x.batch = r /\ r # <<>>
      <3>1. Len(r) # 0
        BY <2>9
      <3>2. r # <<>>
        <4> HIDE DEF r
        <4> QED
          BY <3>1
      <3> QED
        BY <2>4, <3>2
    <2> HIDE DEF x, r
    <2>7. Fits(x)
      BY <1>1, <2>3, <2>5, <2>6 DEF Fits
    <2>8. ASSUME NEW P, Sound(sweep[s], P) PROVE Sound(x, P)
      <3>1. \A i \in 1..Len(r) : wait[r[i]] = 0 \/ r[i] \in P
        BY <2>5, <2>8 DEF Sound
      <3>2. ASSUME NEW i \in 1..Len(r), NEW j \in 1..Len(r), r[i] = r[j] PROVE i = j
        <4>1. i + 1 = j + 1
          BY <3>2, <2>5, <2>8 DEF Sound
        <4> QED
          BY <4>1
      <3> QED
        BY <2>6, <3>1, <3>2 DEF Sound
    <2> QED
      BY <2>7, <2>8 DEF x
  <1> QED
    BY <1>2, <1>3

-----------------------------------------------------------------------------
\* A step of one sweep that leaves the rows alone.
LEMMA SweepOnly ==
  ASSUME TaskInv, NEW s \in Sweeper, NEW x, Fits(x), sweep' = [sweep EXCEPT ![s] = x],
         UNCHANGED <<table, restarts>>, object' \subseteq object, owed' \subseteq Task,
         boot' \in BOOLEAN
  PROVE  TaskInv'
  <1>1. \A r \in Sweeper : sweep'[r] = IF r = s THEN x ELSE sweep[r]
    BY DEF TaskInv, TypeOK
  <1>2. TypeOK'
    <2>1. sweep' \in [Sweeper -> SweepState]
      BY DEF TaskInv, TypeOK, Fits
    <2> QED
      BY <2>1 DEF TaskInv, TypeOK, table
  <1>3. QueueRight'
    BY DEF TaskInv, QueueRight, table
  <1>4. Batches'
    BY <1>1 DEF TaskInv, Batches, Fits, table
  <1> QED
    BY <1>2, <1>3, <1>4 DEF TaskInv

\* A step of the rows: the queue follows, and no row ceases to exist.
LEMMA RowsKeep ==
  ASSUME TaskInv, QueueRight',
         status' \in [Task -> {"absent", "pending", "done"}],
         attempts' \in [Task -> 0..MaxAttempts], wait' \in [Task -> 0..MaxDelay],
         \A t \in Task : status'[t] = "absent" => status[t] = "absent",
         UNCHANGED <<object, boot, restarts, owed>>,
         \/ UNCHANGED sweep
         \/ \E s \in Sweeper : \E x : Fits(x) /\ sweep' = [sweep EXCEPT ![s] = x]
  PROVE  TaskInv'
  <1>1. queue' \in Seq(Task)
    BY DEF QueueRight, Sorted
  <1>2. CASE UNCHANGED sweep
    <2>1. TypeOK'
      BY <1>1, <1>2 DEF TaskInv, TypeOK
    <2>2. ASSUME NEW s \in Sweeper, NEW i \in 1..Len(sweep[s].batch)
          PROVE  sweep[s].batch[i] \in Task
      BY SweepType, ElementOfSeq
    <2>3. Batches'
      BY <1>2, <2>2 DEF TaskInv, Batches
    <2> QED
      BY <2>1, <2>3 DEF TaskInv
  <1>3. ASSUME NEW s \in Sweeper, NEW x, Fits(x), sweep' = [sweep EXCEPT ![s] = x] PROVE TaskInv'
    <2>1. \A r \in Sweeper : sweep'[r] = IF r = s THEN x ELSE sweep[r]
      BY <1>3 DEF TaskInv, TypeOK
    <2>2. sweep' \in [Sweeper -> SweepState]
      BY <1>3 DEF TaskInv, TypeOK, Fits
    <2>3. TypeOK'
      BY <1>1, <2>2 DEF TaskInv, TypeOK
    <2>4. ASSUME NEW r \in Sweeper
          PROVE  /\ sweep'[r].phase # "idle" => sweep'[r].batch # <<>>
                 /\ \A i \in 1..Len(sweep'[r].batch) : status'[sweep'[r].batch[i]] # "absent"
      <3> DEFINE y == sweep'[r]
      <3>1. Fits(y)
        BY <1>3, <2>1, SweepType
      <3>2. y.batch \in Seq(Task)
        BY <3>1 DEF Fits, SweepState
      <3> HIDE DEF y
      <3>3. \A i \in 1..Len(y.batch) : y.batch[i] \in Task
        BY <3>2
      <3>4. /\ y.phase # "idle" => y.batch # <<>>
            /\ \A i \in 1..Len(y.batch) : status'[y.batch[i]] # "absent"
        BY <3>1, <3>3 DEF Fits
      <3> QED
        BY <3>4 DEF y
    <2>5. Batches'
      BY <2>4 DEF Batches
    <2> QED
      BY <2>3, <2>5 DEF TaskInv
  <1> QED
    BY <1>2, <1>3

-----------------------------------------------------------------------------
(* The steps.                                                              *)

\* No row exists when the service is first started.
LEMMA InitTasks == Init => TaskInv /\ BatchDue
  <1> SUFFICES ASSUME Init PROVE TaskInv /\ BatchDue
    OBVIOUS
  <1>1. NoSweep \in SweepState /\ NoSweep.phase = "idle" /\ NoSweep.batch = <<>>
        /\ Len(NoSweep.batch) = 0
    BY LimitsArePositive DEF NoSweep, SweepState
  <1>2. \A s \in Sweeper : sweep[s] = NoSweep
    BY DEF Init
  <1>3. TypeOK
    BY <1>1, LimitsArePositive DEF Init, TypeOK
  <1>4. QueueRight
    BY DEF Init, QueueRight, Sorted, In
  <1>5. Batches /\ BatchDue
    BY <1>1, <1>2 DEF Batches, BatchDue, Sound
  <1> QED
    BY <1>3, <1>4, <1>5 DEF TaskInv

\* A new row goes behind those that are due and before the others.
LEMMA EnqueueRight ==
  ASSUME TaskInv, NEW t \in Task, Enqueue(t)
  PROVE  QueueRight'
  <1>1. /\ wait \in [Task -> Nat] /\ Sorted(queue, wait) /\ queue \in Seq(Task)
        /\ status \in [Task -> {"absent", "pending", "done"}]
    BY LimitsArePositive DEF TaskInv, TypeOK, QueueRight, Sorted
  <1>2. wait[t] = 0 /\ ~In(t, queue)
    BY DEF Enqueue, TaskInv, QueueRight
  <1> DEFINE k == NumDue + 1
  <1>3. /\ k \in 1..Len(queue) + 1 /\ Len(queue) \in Nat
        /\ \A i \in 1..k - 1 : wait[queue[i]] <= wait[t]
    <2>1. Len(queue) \in Nat
      BY <1>1
    <2> QED
      BY <1>2, <2>1, DueComeFirst DEF Due
  <1>4. queue' = InsertAt(queue, k, t)
    BY DEF Enqueue
  <1> HIDE DEF k
  <1>5. \A i \in k..Len(queue) : wait[queue[i]] >= wait[t]
    <2> SUFFICES ASSUME NEW i \in k..Len(queue) PROVE wait[queue[i]] >= wait[t]
      OBVIOUS
    <2>1. i \in 1..Len(queue)
      BY <1>3
    <2>2. queue[i] \in Task
      BY <1>1, <2>1
    <2> QED
      BY <1>1, <1>2, <2>2
  <1>7. Sorted(queue', wait) /\ \A u \in Task : In(u, queue') <=> u = t \/ In(u, queue)
    BY <1>1, <1>2, <1>3, <1>4, <1>5, InsertedSorted
  <1>6. wait' = wait /\ \A u \in Task : status'[u] = IF u = t THEN "pending" ELSE status[u]
    BY <1>1 DEF Enqueue
  <1> QED
    BY <1>6, <1>7 DEF TaskInv, QueueRight

\* A delete request that commits a task (enqueueMany) puts it where it belongs.
LEMMA EnqueueKeepsTasks ==
  ASSUME TaskInv, NEW t \in Task, Enqueue(t)
  PROVE  TaskInv'
  <1>1. QueueRight'
    BY EnqueueRight
  <1>2. /\ status' \in [Task -> {"absent", "pending", "done"}]
        /\ attempts' \in [Task -> 0..MaxAttempts] /\ wait' \in [Task -> 0..MaxDelay]
        /\ \A u \in Task : status'[u] = "absent" => status[u] = "absent"
    BY DEF Enqueue, TaskInv, TypeOK
  <1>3. UNCHANGED <<object, boot, restarts, owed>> /\ UNCHANGED sweep
    BY DEF Enqueue
  <1> QED
    BY <1>1, <1>2, <1>3, RowsKeep

\* The clock brings all times nearer alike.
LEMMA TickKeepsTasks ==
  ASSUME TaskInv, Tick
  PROVE  TaskInv'
  <1>1. /\ wait \in [Task -> 0..MaxDelay] /\ MaxDelay \in Nat
        /\ status' = status /\ queue' = queue /\ queue \in Seq(Task)
        /\ \A t \in Task : wait'[t] = IF wait[t] > 0 THEN wait[t] - 1 ELSE 0
    BY LimitsArePositive DEF TaskInv, TypeOK, Tick
  <1>2. wait' \in [Task -> 0..MaxDelay]
    BY <1>1 DEF Tick
  <1>3. \A t, u \in Task : wait[t] <= wait[u] => wait'[t] <= wait'[u]
    BY <1>1
  <1>4. \A i \in 1..Len(queue) : queue[i] \in Task
    BY <1>1
  <1>5. Sorted(queue', wait')
    BY <1>1, <1>3, <1>4 DEF TaskInv, QueueRight, Sorted
  <1>6. \A t \in Task : wait[t] = 0 => wait'[t] = 0
    BY <1>1
  <1>7. QueueRight'
    BY <1>1, <1>5, <1>6 DEF TaskInv, QueueRight
  <1>8. UNCHANGED <<object, boot, restarts, owed>> /\ UNCHANGED sweep /\ attempts' = attempts
    BY DEF Tick
  <1>9. TaskInv'
    BY <1>1, <1>2, <1>7, <1>8, RowsKeep DEF TaskInv, TypeOK
  <1> QED
    BY <1>9

\* A settled row leaves the queue.
LEMMA SettleKeepsTasks ==
  ASSUME TaskInv, NEW s \in Sweeper, Settle(s)
  PROVE  TaskInv'
  <1>1. sweep[s].phase # "idle" /\ Row(s) \in Task
    BY SweepType DEF Settle, At
  <1>2. /\ wait \in [Task -> Nat] /\ Sorted(queue, wait) /\ wait' = wait
        /\ status \in [Task -> {"absent", "pending", "done"}]
    BY LimitsArePositive DEF TaskInv, TypeOK, QueueRight, Settle
  <1>3. Sorted(queue', wait) /\ \A u \in Task : In(u, queue') <=> u # Row(s) /\ In(u, queue)
    BY <1>1, <1>2, WithoutFacts DEF Settle
  <1>4. \A u \in Task : status'[u] = IF u = Row(s) THEN "done" ELSE status[u]
    BY <1>2 DEF Settle
  <1>5. QueueRight'
    BY <1>2, <1>3, <1>4 DEF TaskInv, QueueRight
  <1>6. sweep' = [sweep EXCEPT ![s] = Advanced(s)] /\ Fits(Advanced(s))
    BY <1>1, AdvancedFits DEF Settle, Advance, Advanced
  <1>7. /\ status' \in [Task -> {"absent", "pending", "done"}]
        /\ attempts' \in [Task -> 0..MaxAttempts] /\ wait' \in [Task -> 0..MaxDelay]
        /\ \A u \in Task : status'[u] = "absent" => status[u] = "absent"
        /\ UNCHANGED <<object, boot, restarts, owed>>
    BY <1>2, <1>4 DEF Settle, TaskInv, TypeOK
  <1> QED
    BY <1>5, <1>6, <1>7, RowsKeep

\* A row that is put off moves to where its new time belongs.
LEMMA RequeuedRight ==
  ASSUME NEW q, wait \in [Task -> Nat], Sorted(q, wait), NEW t \in Task, NEW d \in Nat,
         NEW v \in [Task -> Nat], v[t] = d, \A u \in Task : u # t => v[u] = wait[u],
         NEW r \in Requeued(q, t, d)
  PROVE  Sorted(r, v) /\ \A u \in Task : In(u, r) <=> u = t \/ In(u, q)
  <1> DEFINE rest == Without(q, t)
  <1>1. Sorted(rest, wait) /\ \A u \in Task : In(u, rest) <=> u # t /\ In(u, q)
    BY WithoutFacts
  <1>2. PICK k \in 1..Len(rest) + 1 :
          /\ \A i \in 1..k - 1 : wait[rest[i]] <= d
          /\ \A i \in k..Len(rest) : wait[rest[i]] >= d
          /\ r = InsertAt(rest, k, t)
    BY DEF Requeued
  <1> HIDE DEF rest
  <1>3. v \in [Task -> Nat] /\ v[t] = d /\ \A u \in Task : u # t => v[u] = wait[u]
    OBVIOUS
  <1>4. rest \in Seq(Task) /\ Len(rest) \in Nat
        /\ \A i \in 1..Len(rest) : rest[i] \in Task /\ rest[i] # t
    <2>1. rest \in Seq(Task) /\ Len(rest) \in Nat
      BY <1>1 DEF Sorted
    <2>2. \A i \in 1..Len(rest) : rest[i] \in Task
      BY <2>1
    <2> QED
      BY <2>1, <2>2, <1>1 DEF In
  <1>5. \A i \in 1..Len(rest) : v[rest[i]] = wait[rest[i]]
    BY <1>3, <1>4
  <1>6. Sorted(rest, v)
    BY <1>1, <1>5 DEF Sorted
  <1>7. /\ \A i \in 1..k - 1 : v[rest[i]] <= v[t]
        /\ \A i \in k..Len(rest) : v[rest[i]] >= v[t]
    <2>1. \A i \in 1..k - 1 : i \in 1..Len(rest)
      BY <1>4
    <2>2. \A i \in k..Len(rest) : i \in 1..Len(rest)
      BY <1>4
    <2> QED
      BY <2>1, <2>2, <1>2, <1>3, <1>5
  <1>8. ~In(t, rest)
    BY <1>1
  <1>9. Sorted(r, v) /\ \A u \in Task : In(u, r) <=> u = t \/ In(u, rest)
    <2>1. v \in [Task -> Nat] /\ r = InsertAt(rest, k, t)
      BY <1>2, <1>3
    <2> QED
      BY <2>1, <1>6, <1>7, <1>8, InsertedSorted
  <1> QED
    BY <1>1, <1>9

\* A recorded failure (the catch block of processOne) moves a pending row in
\* the queue, and writes but does not bring back a row that is done.
LEMMA RecordKeepsTasks ==
  ASSUME TaskInv, NEW s \in Sweeper, Record(s)
  PROVE  TaskInv'
  <1> DEFINE t == Row(s)
             d == Backoff(NewAttempts(sweep[s].seen))
  <1>1. sweep[s].phase # "idle" /\ t \in Task /\ status[t] # "absent"
        /\ sweep[s].seen \in 0..MaxAttempts
    BY SweepType DEF Record, At
  <1>2. /\ wait \in [Task -> Nat] /\ Sorted(queue, wait) /\ status' = status
        /\ status \in [Task -> {"absent", "pending", "done"}]
        /\ wait \in [Task -> 0..MaxDelay]
    BY LimitsArePositive DEF TaskInv, TypeOK, QueueRight, Record
  <1>3. d \in 1..MaxDelay /\ d \in Nat /\ d \in 0..MaxDelay
    BY BackoffInRange, LimitsArePositive
  <1>4. NewAttempts(sweep[s].seen) \in 0..MaxAttempts
    BY <1>1, LimitsArePositive DEF NewAttempts, Least
  <1>5. /\ wait' = [wait EXCEPT ![t] = d]
        /\ attempts' = [attempts EXCEPT ![t] = NewAttempts(sweep[s].seen)]
        /\ UNCHANGED <<object, boot, restarts, owed>>
        /\ status[t] = "pending" => queue' \in Requeued(queue, t, d)
        /\ status[t] # "pending" => queue' = queue
    BY DEF Record
  <1>6. sweep' = [sweep EXCEPT ![s] = Advanced(s)] /\ Fits(Advanced(s))
    BY <1>1, AdvancedFits DEF Record, Advance, Advanced
  <1> HIDE DEF t, d
  <1>7. /\ wait' \in [Task -> 0..MaxDelay] /\ wait' \in [Task -> Nat] /\ wait'[t] = d
        /\ \A u \in Task : u # t => wait'[u] = wait[u]
    BY <1>1, <1>2, <1>3, <1>5
  <1>8. attempts' \in [Task -> 0..MaxAttempts]
    BY <1>1, <1>4, <1>5 DEF TaskInv, TypeOK
  <1>9. Sorted(queue', wait') /\ \A u \in Task : In(u, queue') <=> In(u, queue)
    <2>1. CASE status[t] = "pending"
      <3>1. Sorted(queue', wait') /\ \A u \in Task : In(u, queue') <=> u = t \/ In(u, queue)
        <4>1. queue' \in Requeued(queue, t, d)
          BY <2>1, <1>5
        <4> QED
          BY <4>1, <1>1, <1>2, <1>3, <1>7, RequeuedRight
      <3>2. In(t, queue)
        BY <2>1, <1>1 DEF TaskInv, QueueRight
      <3> QED
        BY <3>1, <3>2
    <2>2. CASE status[t] # "pending"
      <3>1. queue' = queue /\ ~In(t, queue)
        BY <2>2, <1>1, <1>5 DEF TaskInv, QueueRight
      <3>2. \A i \in 1..Len(queue) : queue[i] \in Task /\ queue[i] # t
        BY <1>2, <3>1 DEF Sorted, In
      <3>3. \A i \in 1..Len(queue) : wait'[queue[i]] = wait[queue[i]]
        BY <1>7, <3>2
      <3> QED
        BY <1>2, <3>1, <3>3 DEF Sorted
    <2> QED
      BY <2>1, <2>2
  <1>10. QueueRight'
    BY <1>1, <1>2, <1>7, <1>9 DEF TaskInv, QueueRight
  <1> QED
    BY <1>2, <1>5, <1>6, <1>7, <1>8, <1>10, RowsKeep

\* A sweep that starts (runDueDeletions, onApplicationBootstrap) has rows.
LEMMA StartKeepsTasks ==
  ASSUME TaskInv, NEW s \in Sweeper, Trigger(s) \/ BootSweep(s)
  PROVE  TaskInv'
  <1>1. /\ UNCHANGED <<table, restarts>> /\ object' \subseteq object /\ owed' \subseteq Task
        /\ boot' \in BOOLEAN
    BY DEF Trigger, BootSweep, TaskInv, TypeOK
  <1>2. CASE StartSweep(s)
    <2> DEFINE x == [phase |-> "next", batch |-> FindDue, seen |-> 0]
    <2>1. FindDue # <<>> /\ sweep' = [sweep EXCEPT ![s] = x]
      BY <1>2 DEF StartSweep
    <2>2. Fits(x)
      BY <2>1, StartFits
    <2> HIDE DEF x
    <2> QED
      BY <1>1, <2>1, <2>2, SweepOnly
  <1>3. CASE UNCHANGED sweep
    <2>1. sweep' = [sweep EXCEPT ![s] = sweep[s]]
      BY <1>3 DEF TaskInv, TypeOK
    <2> QED
      BY <1>1, <2>1, SweepType, SweepOnly
  <1> QED
    BY <1>2, <1>3 DEF Trigger, BootSweep

\* The steps of processOne that leave the rows alone.
LEMMA ProcessKeepsTasks ==
  ASSUME TaskInv, NEW s \in Sweeper,
         ReadRow(s) \/ DeleteObject(s) \/ DeleteFails(s) \/ SettleFails(s) \/ RecordFails(s)
  PROVE  TaskInv'
  <1>1. /\ UNCHANGED <<table, restarts>> /\ object' \subseteq object /\ owed' \subseteq Task
        /\ boot' \in BOOLEAN
    BY DEF ReadRow, DeleteObject, DeleteFails, SettleFails, RecordFails, TaskInv, TypeOK
  <1>2. sweep[s].phase # "idle"
    BY DEF ReadRow, DeleteObject, DeleteFails, SettleFails, RecordFails, At
  <1>3. /\ Fits(sweep[s]) /\ Row(s) \in Task
        /\ sweep[s] \in [phase : {"idle", "next", "delete", "settle", "record"},
                         batch : Seq(Task), seen : 0..MaxAttempts]
    BY <1>2, SweepType
  <1>4. CASE ReadRow(s)
    <2>1. CASE status[Row(s)] = "pending"
      <3> DEFINE x == [phase |-> "delete", batch |-> sweep[s].batch, seen |-> attempts[Row(s)]]
      <3>1. sweep' = [sweep EXCEPT ![s] = x]
        BY <1>4, <2>1 DEF ReadRow
      <3>2. attempts[Row(s)] \in 0..MaxAttempts
        BY <1>3 DEF TaskInv, TypeOK
      <3>3. x \in SweepState /\ x.batch = sweep[s].batch
        BY <1>3, <3>2 DEF SweepState
      <3> HIDE DEF x
      <3>4. Fits(x)
        BY <1>2, <1>3, <3>3 DEF Fits
      <3> QED
        BY <1>1, <3>1, <3>4, SweepOnly
    <2>2. CASE status[Row(s)] # "pending"
      <3>1. sweep' = [sweep EXCEPT ![s] = Advanced(s)] /\ Fits(Advanced(s))
        BY <1>2, <1>4, <2>2, AdvancedFits DEF ReadRow, Advance, Advanced
      <3> QED
        BY <1>1, <3>1, SweepOnly
    <2> QED
      BY <2>1, <2>2
  <1>5. CASE DeleteObject(s) \/ DeleteFails(s) \/ SettleFails(s)
    <2>1. PICK p \in {"settle", "record"} : Goto(s, p)
      BY <1>5 DEF DeleteObject, DeleteFails, SettleFails
    <2> DEFINE x == [phase |-> p, batch |-> sweep[s].batch, seen |-> sweep[s].seen]
    <2>2. sweep' = [sweep EXCEPT ![s] = x]
      <3>1. [sweep[s] EXCEPT !.phase = p] = x
        BY <1>3
      <3> QED
        BY <2>1, <3>1 DEF Goto
    <2>3. x \in SweepState /\ x.batch = sweep[s].batch
      BY <1>3 DEF SweepState
    <2> HIDE DEF x
    <2>4. Fits(x)
      BY <1>2, <1>3, <2>3 DEF Fits
    <2> QED
      BY <1>1, <2>2, <2>4, SweepOnly
  <1>6. CASE RecordFails(s)
    <2>1. sweep' = [sweep EXCEPT ![s] = NoSweep]
      BY <1>6 DEF RecordFails
    <2>2. NoSweep \in SweepState /\ NoSweep.phase = "idle" /\ Len(NoSweep.batch) = 0
      BY LimitsArePositive DEF NoSweep, SweepState
    <2>3. Fits(NoSweep)
      BY <2>2 DEF Fits
    <2> QED
      BY <1>1, <2>1, <2>3, SweepOnly
  <1> QED
    BY <1>4, <1>5, <1>6

\* A restart drops the sweeps and keeps the table.
LEMMA RestartKeepsTasks ==
  ASSUME TaskInv, Restart
  PROVE  TaskInv'
  <1>1. NoSweep \in SweepState /\ NoSweep.phase = "idle" /\ Len(NoSweep.batch) = 0
    BY LimitsArePositive DEF NoSweep, SweepState
  <1>2. sweep' \in [Sweeper -> SweepState] /\ \A s \in Sweeper : sweep'[s] = NoSweep
    BY <1>1 DEF Restart
  <1>3. restarts' \in 0..MaxRestarts
    BY LimitsArePositive DEF Restart, TaskInv, TypeOK
  <1>4. TypeOK'
    BY <1>2, <1>3 DEF Restart, TaskInv, TypeOK, table
  <1>5. QueueRight'
    BY DEF Restart, TaskInv, QueueRight, table
  <1>6. Batches'
    BY <1>1, <1>2 DEF Batches
  <1> QED
    BY <1>4, <1>5, <1>6 DEF TaskInv

\* Every step of the service keeps TaskInv.
LEMMA NextTasks == TaskInv /\ [Next]_vars => TaskInv'
  <1> SUFFICES ASSUME TaskInv, [Next]_vars PROVE TaskInv'
    OBVIOUS
  <1>1. ASSUME NEW t \in Task, Enqueue(t) PROVE TaskInv'
    BY <1>1, EnqueueKeepsTasks
  <1>2. CASE Tick
    BY <1>2, TickKeepsTasks
  <1>3. ASSUME NEW s \in Sweeper, Trigger(s) \/ BootSweep(s) PROVE TaskInv'
    BY <1>3, StartKeepsTasks
  <1>4. ASSUME NEW s \in Sweeper, ProcessOne(s) PROVE TaskInv'
    <2>1. CASE Settle(s)
      BY <2>1, SettleKeepsTasks
    <2>2. CASE Record(s)
      BY <2>2, RecordKeepsTasks
    <2>3. CASE ReadRow(s) \/ DeleteObject(s) \/ DeleteFails(s) \/ SettleFails(s) \/ RecordFails(s)
      BY <2>3, ProcessKeepsTasks
    <2> QED
      BY <1>4, <2>1, <2>2, <2>3 DEF ProcessOne
  <1>5. CASE Restart
    BY <1>5, RestartKeepsTasks
  <1>6. CASE UNCHANGED vars
    BY <1>6 DEF TaskInv, TypeOK, QueueRight, Batches, vars
  <1> QED
    BY <1>1, <1>2, <1>3, <1>4, <1>5, <1>6 DEF Next

\* TaskInv holds in every state that can be reached.
LEMMA TaskInvHolds == Spec => []TaskInv
  <1>1. Init => TaskInv
    BY InitTasks
  <1> QED
    BY <1>1, NextTasks, PTL DEF Spec

\* The delay never passes its cap, the counters stay in bounds and the rows of
\* every batch and of the queue are rows (media-deletion.service.ts), however
\* many sweeps overlap.
THEOREM TasksHaveTypes == Spec => []TypeOK
  <1>1. TaskInv => TypeOK
    BY DEF TaskInv
  <1> QED
    BY <1>1, TaskInvHolds, PTL

-----------------------------------------------------------------------------
(* Overlapping sweeps.                                                     *)

\* Only a sweep itself, or a restart, changes where the sweep is.
LEMMA OnlyOwnSteps ==
  ASSUME TaskInv, Next, NEW s \in Sweeper, sweep'[s] # sweep[s]
  PROVE  Trigger(s) \/ BootSweep(s) \/ ProcessOne(s) \/ Restart
  <1>1. ASSUME NEW r \in Sweeper, NEW x, sweep' = [sweep EXCEPT ![r] = x] PROVE r = s
    BY <1>1 DEF TaskInv, TypeOK
  <1>2. sweep' # sweep
    OBVIOUS
  <1>3. ASSUME NEW t \in Task, Enqueue(t) PROVE FALSE
    BY <1>2, <1>3 DEF Enqueue
  <1>4. ~Tick
    BY <1>2 DEF Tick
  <1>5. ASSUME NEW r \in Sweeper, Trigger(r) \/ BootSweep(r) PROVE r = s
    BY <1>1, <1>2, <1>5 DEF Trigger, BootSweep, StartSweep
  <1>6. ASSUME NEW r \in Sweeper, ProcessOne(r) PROVE r = s
    <2>1. ASSUME NEW p, Goto(r, p) PROVE r = s
      BY <1>1, <2>1 DEF Goto
    <2>2. ASSUME Advance(r) PROVE r = s
      BY <1>1, <2>2 DEF Advance
    <2>3. ASSUME RecordFails(r) PROVE r = s
      BY <1>1, <2>3 DEF RecordFails
    <2>4. ASSUME ReadRow(r) PROVE r = s
      BY <1>1, <2>2, <2>4 DEF ReadRow
    <2> QED
      BY <1>6, <2>1, <2>2, <2>3, <2>4
         DEF ProcessOne, DeleteObject, DeleteFails, Settle, SettleFails, Record
  <1> QED
    BY <1>3, <1>4, <1>5, <1>6 DEF Next

\* A row that the step puts off no further.
NoLater(t) == wait[t] = 0 => wait'[t] = 0

\* The rows of a batch x, apart from those in P, after the step.
SoundNext(x, P) ==
    /\ \A i, j \in 1..Len(x.batch) : x.batch[i] = x.batch[j] => i = j
    /\ \A i \in 1..Len(x.batch) :
          i > 1 \/ x.phase = "next" => wait'[x.batch[i]] = 0 \/ x.batch[i] \in P

LEMMA SoundLater ==
  ASSUME NEW x, NEW P, Sound(x, P),
         \A i \in 1..Len(x.batch) : i > 1 \/ x.phase = "next" => NoLater(x.batch[i])
  PROVE  SoundNext(x, P)
BY DEF Sound, SoundNext, NoLater

\* The rows behind the current one are others.
LEMMA OthersBehind ==
  ASSUME TaskInv, NEW s \in Sweeper, sweep[s].phase # "idle", NEW P, Sound(sweep[s], P)
  PROVE  \A i \in 1..Len(Advanced(s).batch) :
            Advanced(s).batch[i] \in Task /\ Advanced(s).batch[i] # Row(s)
  <1> DEFINE q == sweep[s].batch
             x == Advanced(s)
  <1>1. q \in Seq(Task) /\ q # <<>>
    BY SweepType DEF Fits
  <1>2. \A i, j \in 1..Len(q) : q[i] = q[j] => i = j
    BY DEF Sound
  <1>3. /\ Tail(q) \in Seq(Task)
        /\ \A i \in 1..Len(Tail(q)) : Tail(q)[i] = q[i + 1] /\ i + 1 \in 1..Len(q) /\ i + 1 > 1
        /\ Head(q) = q[1] /\ 1 \in 1..Len(q)
    BY <1>1, TailFacts
  <1>4. CASE Len(q) = 1
    <2>1. Advanced(s) = NoSweep /\ Len(NoSweep.batch) = 0
      BY <1>4 DEF Advanced, NoSweep
    <2> QED
      BY <2>1
  <1>5. CASE Len(q) # 1
    <2> DEFINE r == Tail(q)
    <2>1. Advanced(s).batch = r
      BY <1>5 DEF Advanced
    <2>2. /\ r \in Seq(Task)
          /\ \A i \in 1..Len(r) : r[i] = q[i + 1] /\ i + 1 \in 1..Len(q) /\ i + 1 > 1
      BY <1>3
    <2> HIDE DEF r
    <2>3. \A i \in 1..Len(r) : r[i] \in Task
      BY <2>2
    <2>4. ASSUME NEW i \in 1..Len(r) PROVE r[i] # q[1]
      <3>1. r[i] = q[i + 1] /\ i + 1 \in 1..Len(q) /\ i + 1 > 1
        BY <2>2
      <3>2. i + 1 # 1
        BY <3>1
      <3> QED
        BY <1>2, <1>3, <3>1, <3>2
    <2> QED
      BY <2>1, <2>3, <2>4, <1>3 DEF Row
  <1> QED
    BY <1>4, <1>5

\* A sweep that has moved: its rows are as they were found, but for the one it
\* has finished with, which is no longer among them.
LEMMA MovedIsSound ==
  ASSUME TaskInv, NEW s \in Sweeper, NEW P, Sound(sweep[s], P),
         Trigger(s) \/ BootSweep(s) \/ ProcessOne(s) \/ Restart, sweep'[s] # sweep[s]
  PROVE  SoundNext(sweep'[s], P)
  <1>0. ASSUME NEW x, sweep' = [sweep EXCEPT ![s] = x] PROVE sweep'[s] = x
    BY <1>0 DEF TaskInv, TypeOK
  <1>1. SoundNext(NoSweep, P)
    <2>1. Len(NoSweep.batch) = 0
      BY DEF NoSweep
    <2> QED
      BY <2>1 DEF SoundNext
  <1>2. CASE Trigger(s) \/ BootSweep(s)
    <2>1. wait' = wait
      BY <1>2 DEF Trigger, BootSweep, table
    <2> DEFINE x == [phase |-> "next", batch |-> FindDue, seen |-> 0]
    <2>2. FindDue # <<>> /\ sweep' = [sweep EXCEPT ![s] = x]
      BY <1>2 DEF Trigger, BootSweep, StartSweep
    <2>3. Sound(x, P)
      BY <2>2, StartFits
    <2> HIDE DEF x
    <2>4. SoundNext(x, P)
      BY <2>1, <2>3, SoundLater DEF NoLater
    <2> QED
      BY <1>0, <2>2, <2>4
  <1>3. CASE Restart
    BY <1>1, <1>3 DEF Restart
  <1>4. CASE ProcessOne(s)
    <2>1. sweep[s].phase # "idle"
      BY <1>4 DEF ProcessOne, ReadRow, DeleteObject, DeleteFails, Settle, SettleFails, Record,
                  RecordFails, At
    <2>2. /\ Fits(sweep[s]) /\ Row(s) \in Task
          /\ sweep[s] \in [phase : {"idle", "next", "delete", "settle", "record"},
                           batch : Seq(Task), seen : 0..MaxAttempts]
      BY <2>1, SweepType
    <2>3. ASSUME Advance(s), \A u \in Task : u # Row(s) => wait'[u] = wait[u]
          PROVE  SoundNext(sweep'[s], P)
      <3> DEFINE x == Advanced(s)
      <3>1. sweep' = [sweep EXCEPT ![s] = x]
        BY <2>3 DEF Advance, Advanced
      <3>2. Sound(x, P)
        BY <2>1, AdvancedFits
      <3>3. \A i \in 1..Len(x.batch) : x.batch[i] \in Task /\ x.batch[i] # Row(s)
        BY <2>1, OthersBehind
      <3> HIDE DEF x
      <3>4. SoundNext(x, P)
        BY <2>3, <3>2, <3>3, SoundLater DEF NoLater
      <3> QED
        BY <1>0, <3>1, <3>4
    <2>4. ASSUME NEW p \in {"delete", "settle", "record"}, NEW n,
                 sweep' = [sweep EXCEPT ![s] =
                              [phase |-> p, batch |-> sweep[s].batch, seen |-> n]],
                 wait' = wait
          PROVE  SoundNext(sweep'[s], P)
      <3> DEFINE x == [phase |-> p, batch |-> sweep[s].batch, seen |-> n]
      <3>1. x.phase # "next" /\ x.batch = sweep[s].batch
        OBVIOUS
      <3>2. sweep'[s] = x
        BY <1>0, <2>4
      <3> HIDE DEF x
      <3>3. Sound(x, P)
        BY <3>1 DEF Sound
      <3>4. SoundNext(x, P)
        BY <2>4, <3>3, SoundLater DEF NoLater
      <3> QED
        BY <3>2, <3>4
    <2>5. CASE ReadRow(s)
      <3>1. wait' = wait
        BY <2>5 DEF ReadRow, table
      <3>2. CASE status[Row(s)] = "pending"
        BY <2>4, <2>5, <3>1, <3>2 DEF ReadRow
      <3>3. CASE status[Row(s)] # "pending"
        BY <2>3, <2>5, <3>1, <3>3 DEF ReadRow
      <3> QED
        BY <3>2, <3>3
    <2>6. CASE DeleteObject(s) \/ DeleteFails(s) \/ SettleFails(s)
      <3>1. PICK p \in {"settle", "record"} : Goto(s, p)
        BY <2>6 DEF DeleteObject, DeleteFails, SettleFails
      <3>2. wait' = wait
        BY <2>6 DEF DeleteObject, DeleteFails, SettleFails, table
      <3>3. [sweep[s] EXCEPT !.phase = p]
              = [phase |-> p, batch |-> sweep[s].batch, seen |-> sweep[s].seen]
        BY <2>2
      <3> QED
        BY <2>4, <3>1, <3>2, <3>3 DEF Goto
    <2>7. CASE RecordFails(s)
      BY <1>0, <1>1, <2>7 DEF RecordFails
    <2>8. CASE Settle(s)
      BY <2>3, <2>8 DEF Settle
    <2>9. CASE Record(s)
      <3>1. \A u \in Task : u # Row(s) => wait'[u] = wait[u]
        BY <2>9 DEF Record, TaskInv, TypeOK
      <3> QED
        BY <2>3, <2>9, <3>1 DEF Record
    <2> QED
      BY <1>4, <2>5, <2>6, <2>7, <2>8, <2>9 DEF ProcessOne
  <1> QED
    BY <1>2, <1>3, <1>4

\* The rows of a batch are its range.
LEMMA BatchRange ==
  ASSUME NEW q \in Seq(Task), NEW i \in 1..Len(q)
  PROVE  q[i] \in Range(q) /\ q[i] \in Task
  <1>1. DOMAIN q = 1..Len(q)
    OBVIOUS
  <1> QED
    BY <1>1 DEF Range

\* Every step keeps the rows of every batch due, but for those it puts off in
\* the batch of another sweep, which the history takes up.
LEMMA NextDue == DueInv /\ OverlapNext => DueInv'
  <1> SUFFICES ASSUME DueInv, OverlapNext PROVE BatchDue'
    BY NextTasks DEF DueInv, OverlapNext
  <1>0. TaskInv /\ TaskInv' /\ Next /\ BatchDue
    BY NextTasks DEF DueInv, OverlapNext
  <1>1. wait \in [Task -> Nat] /\ wait' \in [Task -> Nat]
    BY <1>0, LimitsArePositive DEF TaskInv, TypeOK
  <1> SUFFICES ASSUME NEW s \in Sweeper PROVE Sound(sweep[s], putOff[s])'
    BY DEF BatchDue
  <1>2. Sound(sweep[s], putOff[s])
    BY <1>0 DEF BatchDue
  <1>3. sweep[s].batch \in Seq(Task) /\ sweep'[s].batch \in Seq(Task)
    <2>1. sweep[s] \in SweepState /\ sweep'[s] \in SweepState
      BY <1>0 DEF TaskInv, TypeOK
    <2> QED
      BY <2>1 DEF SweepState
  <1>4. CASE sweep'[s] = sweep[s]
    <2>1. putOff'[s] = putOff[s] \cup {t \in Range(sweep[s].batch) : wait'[t] > wait[t]}
      BY <1>4 DEF OverlapNext
    <2> DEFINE q == sweep[s].batch
    <2>2. q \in Seq(Task)
      BY <1>3
    <2>3. ASSUME NEW i \in 1..Len(q), wait[q[i]] = 0 \/ q[i] \in putOff[s]
          PROVE  wait'[q[i]] = 0 \/ q[i] \in putOff'[s]
      <3> DEFINE t == q[i]
      <3>1. t \in Range(q) /\ t \in Task
        BY <2>2, <2>3, BatchRange
      <3> HIDE DEF t
      <3>2. wait'[t] = 0 \/ wait'[t] > 0
        BY <1>1, <3>1
      <3> QED
        BY <2>1, <2>3, <3>1, <3>2 DEF t
    <2> QED
      BY <1>2, <1>4, <2>3 DEF Sound
  <1>5. CASE sweep'[s] # sweep[s]
    <2>1. SoundNext(sweep'[s], putOff[s])
      BY <1>0, <1>2, <1>5, OnlyOwnSteps, MovedIsSound
    <2>2. putOff'[s] = putOff[s] \cap Range(sweep'[s].batch)
      BY <1>5 DEF OverlapNext
    <2>3. \A i \in 1..Len(sweep'[s].batch) : sweep'[s].batch[i] \in Range(sweep'[s].batch)
      BY <1>3, BatchRange
    <2> QED
      BY <2>1, <2>2, <2>3 DEF Sound, SoundNext
  <1> QED
    BY <1>4, <1>5

\* However many sweeps overlap, the object of a row is asked for only when the
\* row is due or has been put off by another sweep since this one read it
\* (processOne reads the row again but looks at its status alone).
THEOREM OnlyDueTried == OverlapSpec => OnlyDueAttempted
  <1>1. OverlapInit => DueInv
    BY InitTasks DEF OverlapInit, DueInv
  <1>2. DueInv /\ [OverlapNext]_overlapVars => DueInv'
    <2>1. CASE OverlapNext
      BY <2>1, NextDue
    <2>2. CASE UNCHANGED overlapVars
      BY <2>2 DEF overlapVars, vars, DueInv, TaskInv, TypeOK, QueueRight, Batches, BatchDue, Sound
    <2> QED
      BY <2>1, <2>2
  <1>3. DueInv => \A s \in Sweeper : sweep[s].phase = "next" =>
                    wait[Row(s)] = 0 \/ Row(s) \in putOff[s]
    <2> SUFFICES ASSUME DueInv, NEW s \in Sweeper, sweep[s].phase = "next"
                 PROVE  wait[Row(s)] = 0 \/ Row(s) \in putOff[s]
      OBVIOUS
    <2>1. sweep[s].batch \in Seq(Task) /\ sweep[s].batch # <<>>
      BY SweepType DEF DueInv, Fits
    <2>2. Row(s) = sweep[s].batch[1] /\ 1 \in 1..Len(sweep[s].batch)
      BY <2>1, TailFacts DEF Row
    <2> QED
      BY <2>2 DEF DueInv, BatchDue, Sound
  <1>4. DueInv /\ [OverlapNext]_overlapVars =>
          [\A s \in Sweeper : sweep[s].phase = "next" /\ sweep'[s].phase = "delete" =>
              wait[Row(s)] = 0 \/ Row(s) \in putOff[s]]_overlapVars
    BY <1>3
  <1> QED
    BY <1>1, <1>2, <1>4, PTL DEF OverlapSpec, OnlyDueAttempted
=============================================================================
