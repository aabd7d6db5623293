----------------------------- MODULE RateLimit -----------------------------
(***************************************************************************)
(* RateLimitGuard for one address: wrong passwords are counted in a window *)
(* that starts with the first of them.  canActivate tests the count before *)
(* verify awaits the three password hashes, recordFailure raises it after. *)
(* Time is a clock in ticks; only the age of the window matters.           *)
(***************************************************************************)
EXTENDS Naturals, FiniteSets

CONSTANTS
    Attempt,       \* logins in flight from the address at the same time
    MaxFailures,   \* failures after which the address is refused
    Window         \* length of the window in ticks

ASSUME LimitIsPositive == MaxFailures \in Nat \ {0} /\ Window \in Nat \ {0}
ASSUME AttemptsAreFinite == IsFiniteSet(Attempt)

VARIABLES
    record,    \* the entry of the address: its count, 0 without an entry,
               \* and the age of the window
    login,     \* each login: not sent, comparing, or its answer
    shut       \* history: ticks since the address was last let in

limitVars == <<record, login, shut>>

NoRecord == [count |-> 0, age |-> 0]
Running == record.count > 0 /\ record.age < Window
Blocked == Running /\ record.count >= MaxFailures

LimitInit ==
    /\ record = NoRecord
    /\ login = [a \in Attempt |-> "idle"]
    /\ shut = 0

\* canActivate drops an entry whose window is over.
MutCanActivate(a) ==
    /\ login[a] = "idle"
    /\ \/ /\ Running /\ record.count > MaxFailures
          /\ login' = [login EXCEPT ![a] = "refused"]
          /\ UNCHANGED record
       \/ /\ ~(Running /\ record.count > MaxFailures)
          /\ login' = [login EXCEPT ![a] = "compare"]
          /\ record' = IF Running THEN record ELSE NoRecord
    /\ UNCHANGED shut
MutCanActivateCounts(a) ==
    /\ login[a] = "idle"
    /\ \/ /\ Blocked
          /\ login' = [login EXCEPT ![a] = "refused"]
          /\ record' = [record EXCEPT !.age = 0]
       \/ /\ ~Blocked
          /\ login' = [login EXCEPT ![a] = "compare"]
          /\ record' = IF Running THEN record ELSE NoRecord
    /\ UNCHANGED shut
CanActivate(a) ==
    /\ login[a] = "idle"
    /\ \/ /\ Blocked
          /\ login' = [login EXCEPT ![a] = "refused"]
          /\ UNCHANGED record
       \/ /\ ~Blocked
          /\ login' = [login EXCEPT ![a] = "compare"]
          /\ record' = IF Running THEN record ELSE NoRecord
    /\ UNCHANGED shut

RecordFailure ==
    record' = IF Running THEN [record EXCEPT !.count = @ + 1]
              ELSE [count |-> 1, age |-> 0]

\* Owner, visitor and administrator passwords are tried in turn.
VerifyWrong(a) ==
    /\ login[a] = "compare"
    /\ RecordFailure
    /\ login' = [login EXCEPT ![a] = "refused"]
    /\ UNCHANGED shut

VerifyRight(a) ==
    /\ login[a] = "compare"
    /\ login' = [login EXCEPT ![a] = "served"]
    /\ UNCHANGED <<record, shut>>

LoginAnswered(a) ==
    /\ login[a] \in {"served", "refused"}
    /\ login' = [login EXCEPT ![a] = "idle"]
    /\ UNCHANGED <<record, shut>>

\* The timer that drops entries whose window is over.
CleanupTimer ==
    /\ record.count > 0 /\ ~Running
    /\ record' = NoRecord
    /\ UNCHANGED <<login, shut>>

LimitTick ==
    /\ shut <= Window
    /\ record' = [record EXCEPT !.age = IF record.count > 0 /\ @ < Window THEN @ + 1 ELSE @]
    /\ shut' = IF Blocked' THEN shut + 1 ELSE 0
    /\ UNCHANGED login

\* The counts live in the process.
LimitRestart ==
    /\ record' = NoRecord
    /\ login' = [a \in Attempt |-> "idle"]
    /\ shut' = 0

LimitNext ==
    \/ \E a \in Attempt :
          CanActivate(a) \/ VerifyWrong(a) \/ VerifyRight(a) \/ LoginAnswered(a)
    \/ CleanupTimer \/ LimitTick \/ LimitRestart

LimitSpec == LimitInit /\ [][LimitNext]_limitVars

-----------------------------------------------------------------------------
(* Properties.                                                             *)

Comparing == {a \in Attempt : login[a] = "compare"}

\* Logins in flight together all pass the test, but no more than those: with
\* n of them an address tries at most MaxFailures - 1 + n wrong passwords in
\* one window.
FailuresBounded == record.count <= MaxFailures - 1 + Cardinality(Attempt)

\* An address that keeps trying while it is refused is let in again when the
\* window of its first failure is over.
BlockEndsInTime == shut < Window

\* The inductive invariant behind FailuresBounded: once the address is refused,
\* only logins that were let in before can still raise the count.
LimitInv ==
    /\ record \in [count : Nat, age : 0 .. Window]
    /\ login \in [Attempt -> {"idle", "compare", "served", "refused"}]
    /\ record.count >= MaxFailures =>
          record.count + Cardinality(Comparing) <= MaxFailures - 1 + Cardinality(Attempt)
=============================================================================
