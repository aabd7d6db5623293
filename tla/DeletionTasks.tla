---------------------------- MODULE DeletionTasks ----------------------------
(***************************************************************************)
(* The queue of MediaDeletionTask rows and runDueDeletions: due times,     *)
(* exponential backoff, the batch limit, overlapping sweeps and restarts.  *)
(*                                                                         *)
(* nextAttemptAt is kept as two things that together decide every          *)
(* comparison the code makes and stay finite: `wait`, the time until the   *)
(* row is due (0 once it is), and `queue`, the pending rows by             *)
(* nextAttemptAt.  Time is counted in units of RETRY_BASE_MS.              *)
(***************************************************************************)
EXTENDS Naturals, Sequences, FiniteSets, SequencesExt

CONSTANTS
    Task,         \* rows that may be created
    Sweeper,      \* runDueDeletions calls that may be in progress together
    Limit,        \* rows one sweep takes (50)
    MaxDelay,     \* RETRY_MAX_MS in units of RETRY_BASE_MS (60)
    MaxAttempts,  \* bound of the counters: attempts is not told apart above it
    MaxRestarts,  \* bound of the restarts of one run
    Healthy       \* rows whose object the store does not refuse for ever

ASSUME LimitsArePositive == /\ Limit \in Nat \ {0}
                            /\ MaxDelay \in Nat \ {0}
                            /\ MaxAttempts \in Nat \ {0}
                            /\ MaxRestarts \in Nat
ASSUME HealthyAreTasks == Healthy \subseteq Task

VARIABLES
    status,    \* absent, pending or done
    attempts,  \* failed attempts recorded in the row
    wait,      \* time until nextAttemptAt
    queue,     \* pending rows, earliest nextAttemptAt first
    object,    \* rows whose object is still in the store
    sweep,     \* each runDueDeletions call
    boot,      \* the start-up sweep has still to run
    restarts,  \* restarts so far
    owed       \* history: rows pending at the last restart, not tried since

vars == <<status, attempts, wait, queue, object, sweep, boot, restarts, owed>>
table == <<status, attempts, wait, queue>>

\* batch: rows found due and not yet processed, the current one first;
\* seen: the attempts read from the current row.
SweepState == [phase : {"idle", "next", "delete", "settle", "record"},
               batch : Seq(Task), seen : 0..MaxAttempts]
NoSweep == [phase |-> "idle", batch |-> <<>>, seen |-> 0]

\* Types, and the bounds of the delay and of the counters.
TypeOK ==
    /\ status \in [Task -> {"absent", "pending", "done"}]
    /\ attempts \in [Task -> 0..MaxAttempts]
    /\ wait \in [Task -> 0..MaxDelay]
    /\ queue \in Seq(Task)
    /\ object \subseteq Task
    /\ sweep \in [Sweeper -> SweepState]
    /\ boot \in BOOLEAN
    /\ restarts \in 0..MaxRestarts
    /\ owed \subseteq Task

Init ==
    /\ status = [t \in Task |-> "absent"]
    /\ attempts = [t \in Task |-> 0]
    /\ wait = [t \in Task |-> 0]
    /\ queue = <<>>
    /\ object = Task
    /\ sweep = [s \in Sweeper |-> NoSweep]
    /\ boot = TRUE
    /\ restarts = 0
    /\ owed = {}

Least(a, b) == IF a < b THEN a ELSE b

\* min(60s * 2^(attempts-1), 1h), in units of 60s; the power is at least 1.
MutBackoff(n) == 2 ^ (n - 1)
Backoff(n) == IF 2 ^ (n - 1) \in 1..MaxDelay THEN 2 ^ (n - 1) ELSE MaxDelay

Due(t) == status[t] = "pending" /\ wait[t] = 0

\* The queue holds the pending rows by nextAttemptAt: the due ones come first.
NumDue == Cardinality({i \in DOMAIN queue : Due(queue[i])})

\* The rows of q but for t, which is in it once if at all.
Without(q, t) ==
    IF \E i \in DOMAIN q : q[i] = t
    THEN RemoveAt(q, CHOOSE i \in DOMAIN q : q[i] = t)
    ELSE q

-----------------------------------------------------------------------------
\* A deletion request commits a row that is due at once; every row that is
\* already due has an earlier nextAttemptAt (the commit takes no time).
Enqueue(t) ==
    /\ status[t] = "absent"
    /\ status' = [status EXCEPT ![t] = "pending"]
    /\ queue' = InsertAt(queue, NumDue + 1, t)
    /\ UNCHANGED <<attempts, wait, object, sweep, boot, owed, restarts>>

Tick ==
    /\ \E t \in Task : wait[t] > 0
    /\ wait' = [t \in Task |-> IF wait[t] > 0 THEN wait[t] - 1 ELSE 0]
    /\ UNCHANGED <<status, attempts, queue, object, sweep, boot, owed, restarts>>

\* findMany: the due rows by nextAttemptAt, at most Limit of them.
MutFindDue == SubSeq([i \in 1..NumDue |-> queue[NumDue + 1 - i]], 1, Least(Limit, NumDue))
MutFindAny == SubSeq(queue, 1, Least(Limit, Len(queue)))
FindDue == SubSeq(queue, 1, Least(Limit, NumDue))

StartSweep(s) ==
    /\ sweep[s] = NoSweep
    /\ FindDue # <<>>
    /\ sweep' = [sweep EXCEPT ![s] = [phase |-> "next", batch |-> FindDue, seen |-> 0]]

\* At the end of a delete request, or on the administrator's retry.
Trigger(s) ==
    /\ StartSweep(s)
    /\ UNCHANGED <<table, object, boot, owed, restarts>>

\* onApplicationBootstrap: a sweep that finds nothing due is over at once.
BootSweep(s) ==
    /\ boot
    /\ boot' = FALSE
    /\ StartSweep(s) \/ (FindDue = <<>> /\ UNCHANGED sweep)
    /\ UNCHANGED <<table, object, owed, restarts>>

-----------------------------------------------------------------------------
(* processOne                                                              *)

At(s, phase) == sweep[s].phase = phase
Row(s) == Head(sweep[s].batch)
Goto(s, phase) == sweep' = [sweep EXCEPT ![s].phase = phase]

\* The row is finished with: the next one, or the end of the batch.
Advance(s) ==
    sweep' = [sweep EXCEPT ![s] =
        IF Len(sweep[s].batch) = 1 THEN NoSweep
        ELSE [phase |-> "next", batch |-> Tail(sweep[s].batch), seen |-> 0]]

\* The row is read again; only its status is looked at.
ReadRow(s) ==
    /\ At(s, "next")
    /\ IF status[Row(s)] = "pending"
       THEN sweep' = [sweep EXCEPT ![s] = [phase |-> "delete", batch |-> sweep[s].batch,
                                            seen |-> attempts[Row(s)]]]
       ELSE Advance(s)
    /\ UNCHANGED <<table, object, boot, owed, restarts>>

DeleteObject(s) ==
    /\ At(s, "delete")
    /\ object' = object \ {Row(s)}
    /\ owed' = owed \ {Row(s)}
    /\ Goto(s, "settle")
    /\ UNCHANGED <<table, boot, restarts>>

MutDeleteFails(s) ==
    /\ At(s, "delete")
    /\ owed' = owed \ {Row(s)}
    /\ Goto(s, "settle")
    /\ UNCHANGED <<table, object, boot, restarts>>

DeleteFails(s) ==
    /\ At(s, "delete")
    /\ owed' = owed \ {Row(s)}
    /\ Goto(s, "record")
    /\ UNCHANGED <<table, object, boot, restarts>>

Settle(s) ==
    /\ At(s, "settle")
    /\ status' = [status EXCEPT ![Row(s)] = "done"]
    /\ queue' = Without(queue, Row(s))
    /\ Advance(s)
    /\ UNCHANGED <<attempts, wait, object, boot, owed, restarts>>

\* The update fails: the same catch block records an attempt.
SettleFails(s) ==
    /\ At(s, "settle")
    /\ Goto(s, "record")
    /\ UNCHANGED <<table, object, boot, owed, restarts>>

\* The rows of q by nextAttemptAt once row t waits d; equal waits stand for
\* times less than one unit apart, in either order.
Requeued(q, t, d) ==
    LET rest == Without(q, t)
    IN  {InsertAt(rest, k, t) :
            k \in {m \in 1..Len(rest) + 1 :
                     /\ \A i \in 1..m - 1 : wait[rest[i]] <= d
                     /\ \A i \in m..Len(rest) : wait[rest[i]] >= d}}

NewAttempts(seen) == Least(seen + 1, MaxAttempts)

\* The count written is the one read before the delete call, plus one; the
\* update names the row by id and leaves its status alone.
MutRecord(s) ==
    LET t == Row(s)
        n == NewAttempts(sweep[s].seen)
    IN  /\ At(s, "record")
        /\ attempts' = [attempts EXCEPT ![t] = n]
        /\ wait' = [wait EXCEPT ![t] = Backoff(n)]
        /\ status' = [status EXCEPT ![t] = "pending"]
        /\ queue' \in Requeued(queue, t, Backoff(n))
        /\ Advance(s)
        /\ UNCHANGED <<object, boot, owed, restarts>>

Record(s) ==
    LET t == Row(s)
        n == NewAttempts(sweep[s].seen)
    IN  /\ At(s, "record")
        /\ attempts' = [attempts EXCEPT ![t] = n]
        /\ wait' = [wait EXCEPT ![t] = Backoff(n)]
        /\ IF status[t] = "pending" THEN queue' \in Requeued(queue, t, Backoff(n))
                                    ELSE UNCHANGED queue
        /\ Advance(s)
        /\ UNCHANGED <<status, object, boot, owed, restarts>>

\* The update in the catch block fails too: the rest of the batch is dropped.
RecordFails(s) ==
    /\ At(s, "record")
    /\ sweep' = [sweep EXCEPT ![s] = NoSweep]
    /\ UNCHANGED <<table, object, boot, owed, restarts>>

Restart ==
    /\ sweep' = [s \in Sweeper |-> NoSweep]
    /\ restarts < MaxRestarts
    /\ restarts' = restarts + 1
    /\ boot' = TRUE
    /\ owed' = {t \in Task : status[t] = "pending"}
    /\ UNCHANGED <<table, object>>

ProcessOne(s) ==
    \/ ReadRow(s)
    \/ DeleteObject(s) \/ DeleteFails(s)
    \/ Settle(s) \/ SettleFails(s)
    \/ Record(s) \/ RecordFails(s)

Next ==
    \/ \E t \in Task : Enqueue(t)
    \/ Tick
    \/ \E s \in Sweeper : Trigger(s) \/ BootSweep(s) \/ ProcessOne(s)
    \/ Restart

Spec == Init /\ [][Next]_vars

-----------------------------------------------------------------------------
(* Fairness.  Time passes, a sweep in progress goes on and the start-up    *)
(* sweep runs: the event loop sees to that.  Nothing in the service makes  *)
(* another trigger happen: BusySpec adds an administrator who keeps        *)
(* retrying, a database that does not fail for ever and, for the Healthy   *)
(* rows only, a store that does not either.                                *)

ServiceFairness ==
    /\ WF_vars(Tick)
    /\ \A s \in Sweeper : WF_vars(ProcessOne(s)) /\ WF_vars(BootSweep(s))

ServiceSpec == Spec /\ ServiceFairness

BusySpec ==
    /\ ServiceSpec
    /\ \A s \in Sweeper :
          /\ SF_vars(Trigger(s))
          /\ SF_vars(Record(s))
          /\ \A t \in Healthy :
                /\ SF_vars(sweep[s].batch # <<>> /\ Row(s) = t /\ DeleteObject(s))
                /\ SF_vars(sweep[s].batch # <<>> /\ Row(s) = t /\ Settle(s))

-----------------------------------------------------------------------------
(* Properties.                                                             *)

\* A row reported done has had its object removed, however sweeps overlap
\* and whichever call fails.
DoneObjectGone == \A t \in Task : status[t] = "done" => t \notin object

\* A sweep that fails late does not reopen a row another sweep has settled.
DoneIsFinal == [][\A t \in Task : status[t] = "done" => status'[t] = "done"]_vars

\* A row that keeps failing cannot keep another from being removed, even
\* when a sweep takes fewer rows than are due.
HealthyRowsSettle == \A t \in Healthy : status[t] = "pending" ~> status[t] = "done"

\* A row pending when the process restarts is tried again (or settled) after
\* the restart, without anybody asking for it.
RestartRetries == \A t \in Task : t \in owed ~> t \notin owed
=============================================================================
