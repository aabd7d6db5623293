---------------------------- MODULE AdminSession ----------------------------
(***************************************************************************)
(* The Session table behind the login cookie: creation with the cap on     *)
(* administrator sessions, validation with lazy removal of expired rows,   *)
(* logout, the hourly cleanup and restarts.                                *)
(*                                                                         *)
(* Every HTTP request is a call that advances one database query at a      *)
(* time; what it read stays in `call` until it is used.  The password      *)
(* check, the cookie attributes and Bearer tokens are left out.            *)
(***************************************************************************)
EXTENDS Naturals, Sequences, FiniteSets

CONSTANTS
    Session,    \* random 32 byte identifiers, never drawn twice
    Call,       \* requests in flight at the same time
    MaxAdmin,   \* MAX_ADMIN_SESSIONS
    NoSession

ASSUME CapIsPositive == MaxAdmin \in Nat \ {0}
ASSUME NoSessionIsNoSession == NoSession \notin Session

VARIABLES
    role,     \* role of a session; guest stands for visitor and owner
    minted,   \* sessions in the order their expiresAt was computed
    created,  \* history: sessions in the order their rows were created
    table,    \* sessions whose row exists
    expired,  \* sessions whose expiresAt has passed
    call      \* each request: its next step and what it has read

vars == <<role, minted, created, table, expired, call>>

\* late: history, the session had ended when the request arrived.
CallState == [op : {"idle", "count", "prune", "insert",
                    "find", "drop", "revoke", "served", "refused", "failed"},
              session : Session \cup {NoSession}, doomed : SUBSET Session,
              leaves : BOOLEAN, late : BOOLEAN]
NoCall == [op |-> "idle", session |-> NoSession, doomed |-> {},
           leaves |-> FALSE, late |-> FALSE]

\* Types.
TypeOK ==
    /\ role \in [Session -> {"none", "admin", "guest"}]
    /\ minted \in Seq(Session)
    /\ created \in Seq(Session)
    /\ table \subseteq Session
    /\ expired \subseteq Session
    /\ call \in [Call -> CallState]

Init ==
    /\ role = [s \in Session |-> "none"]
    /\ minted = <<>>
    /\ created = <<>>
    /\ table = {}
    /\ expired = {}
    /\ call = [c \in Call |-> NoCall]

Issued == {created[i] : i \in DOMAIN created}
Live == table \ expired
Admins == {s \in table : role[s] = "admin"}

Before(order, s, t) ==
    \E i, j \in DOMAIN order : i < j /\ order[i] = s /\ order[j] = t

At(c, op) == call[c].op = op
Answer(c, op) == call' = [call EXCEPT ![c].op = op]

-----------------------------------------------------------------------------
(* Login: create(role).                                                    *)

\* The identifier and expiresAt are computed between two queries.
Mint(c, s, r) ==
    /\ role[s] = "none"
    /\ role' = [role EXCEPT ![s] = r]
    /\ minted' = Append(minted, s)
    /\ call' = [call EXCEPT ![c] = [NoCall EXCEPT !.op = "insert", !.session = s]]

LoginGuest(c) ==
    /\ call[c] = NoCall
    /\ \E s \in Session : Mint(c, s, "guest")
    /\ UNCHANGED <<created, table, expired>>

LoginAdmin(c) ==
    /\ call[c] = NoCall
    /\ Answer(c, "count")
    /\ UNCHANGED <<role, minted, created, table, expired>>

\* The oldest rows, enough of them to make room for one more.
MutDoomed ==
    LET excess == Cardinality(Admins) - MaxAdmin + 1
    IN  {s \in Admins : Cardinality({t \in Admins : Before(created, s, t)}) < excess}
Doomed ==
    LET excess == Cardinality(Admins) - MaxAdmin + 1
    IN  {s \in Admins : Cardinality({t \in Admins : Before(created, t, s)}) < excess}

\* Expired rows count too.
Count(c) ==
    /\ At(c, "count")
    /\ IF Cardinality(Admins) >= MaxAdmin
       THEN /\ call' = [call EXCEPT ![c].op = "prune", ![c].doomed = Doomed]
            /\ UNCHANGED <<role, minted>>
       ELSE \E s \in Session : Mint(c, s, "admin")
    /\ UNCHANGED <<created, table, expired>>

Prune(c) ==
    /\ At(c, "prune")
    /\ table' = table \ call[c].doomed
    /\ \E s \in Session : Mint(c, s, "admin")
    /\ UNCHANGED <<created, expired>>

Insert(c) ==
    /\ At(c, "insert")
    /\ table' = table \cup {call[c].session}
    /\ created' = Append(created, call[c].session)
    /\ Answer(c, "served")
    /\ UNCHANGED <<role, minted, expired>>

-----------------------------------------------------------------------------
(* SessionGuard: validate(id), then the handler; logout revokes.           *)

\* A browser sends a cookie it was given; `leaves` for POST /auth/logout.
Request(c, s, leaves) ==
    /\ call[c] = NoCall
    /\ s \in Issued
    /\ call' = [call EXCEPT ![c] = [NoCall EXCEPT
                    !.op = "find", !.session = s, !.leaves = leaves,
                    !.late = s \notin Live]]
    /\ UNCHANGED <<role, minted, created, table, expired>>

MutFind(c) ==
    /\ At(c, "find")
    /\ Answer(c, IF call[c].session \notin table THEN "refused"
                 ELSE IF call[c].leaves THEN "revoke" ELSE "served")
    /\ UNCHANGED <<role, minted, created, table, expired>>
Find(c) ==
    LET s == call[c].session
    IN  /\ At(c, "find")
        /\ \/ s \notin table            /\ Answer(c, "refused")
           \/ s \in table \cap expired  /\ Answer(c, "drop")
           \/ s \in Live /\ call[c].leaves   /\ Answer(c, "revoke")
           \/ s \in Live /\ ~call[c].leaves  /\ Answer(c, "served")
        /\ UNCHANGED <<role, minted, created, table, expired>>

\* session.delete of a row somebody else has deleted throws.
Drop(c) ==
    /\ At(c, "drop")
    /\ table' = table \ {call[c].session}
    /\ Answer(c, IF call[c].session \in table THEN "refused" ELSE "failed")
    /\ UNCHANGED <<role, minted, created, expired>>

\* deleteMany does not.
Revoke(c) ==
    /\ At(c, "revoke")
    /\ table' = table \ {call[c].session}
    /\ Answer(c, "served")
    /\ UNCHANGED <<role, minted, created, expired>>

Respond(c) ==
    /\ call[c].op \in {"served", "refused", "failed"}
    /\ call' = [call EXCEPT ![c] = NoCall]
    /\ UNCHANGED <<role, minted, created, table, expired>>

-----------------------------------------------------------------------------
\* Sessions of one role live equally long, so they expire in minting order.
Expire(s) ==
    /\ s \in Live
    /\ \A t \in Live : role[t] = role[s] => ~Before(minted, t, s)
    /\ expired' = expired \cup {s}
    /\ UNCHANGED <<role, minted, created, table, call>>

\* At start-up and every hour.
CleanupExpired ==
    /\ table' = Live
    /\ UNCHANGED <<role, minted, created, expired, call>>

\* The process dies, and starts again with a cleanup.
Restart ==
    /\ call' = [c \in Call |-> NoCall]
    /\ table' = Live
    /\ UNCHANGED <<role, minted, created, expired>>

Next ==
    \/ \E c \in Call :
          \/ LoginGuest(c) \/ LoginAdmin(c)
          \/ Count(c) \/ Prune(c) \/ Insert(c)
          \/ \E s \in Session, leaves \in BOOLEAN : Request(c, s, leaves)
          \/ Find(c) \/ Drop(c) \/ Revoke(c) \/ Respond(c)
    \/ \E s \in Session : Expire(s)
    \/ CleanupExpired
    \/ Restart

Spec == Init /\ [][Next]_vars

-----------------------------------------------------------------------------
(* Properties.                                                             *)

\* A request that arrives after its session was revoked, crowded out or has
\* expired is never served, whatever other requests do meanwhile.
EndedIsRefused == \A c \in Call : call[c].late => ~At(c, "served")

\* There are never more administrator sessions than the cap.
AdminCap == Cardinality(Admins) <= MaxAdmin

\* A login that makes room signs out the oldest administrator sessions: no
\* session goes while an older one stays.
OldestGoFirst ==
    [][\A c \in Call : At(c, "prune") /\ At(c, "insert")' =>
          \A s, t \in Admins :
              Before(created, s, t) /\ t \notin table' => s \notin table']_vars

-----------------------------------------------------------------------------
(* The inductive invariant behind EndedIsRefused.                          *)

\* Sessions about to be inserted are new, and each belongs to one login.
PendingAreNew ==
    \A c \in Call : At(c, "insert") =>
        /\ call[c].session \in Session \ Issued
        /\ role[call[c].session] # "none"
        /\ \A d \in Call \ {c} : At(d, "insert") => call[d].session # call[c].session

\* Nothing brings an ended session back.
LateHasEnded ==
    \A c \in Call : call[c].late =>
        /\ call[c].op \in {"find", "drop", "refused", "failed"}
        /\ call[c].session \in Issued \ Live

SessionInv ==
    /\ TypeOK
    /\ table \subseteq Issued
    /\ \A s \in Issued : role[s] # "none"
    /\ PendingAreNew
    /\ LateHasEnded
=============================================================================
