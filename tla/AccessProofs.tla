---------------------------- MODULE AccessProofs ----------------------------
(***************************************************************************)
(* Getting in: sessions, the limit on wrong passwords and the cutoff of    *)
(* tokens, each for any number of overlapping requests.  The sections are  *)
(* independent of each other.                                              *)
(***************************************************************************)
EXTENDS AdminSession, RateLimit, TokenCutoff, SequenceTheorems, FiniteSetTheorems, TLAPS

(***************************************************************************)
(* A request whose session had ended when it arrived is never served.      *)
(***************************************************************************)

\* Nothing has been minted, issued or asked at first.
LEMMA InitSessionInv == Init => SessionInv
<1> SUFFICES ASSUME Init PROVE SessionInv
  OBVIOUS
<1>1. created = <<>> /\ minted = <<>> /\ Issued = {}
  BY DEF Init, Issued
<1>2. NoCall \in CallState
  BY DEF NoCall, CallState
<1>3. TypeOK
  BY <1>1, <1>2 DEF Init, TypeOK
<1>4. PendingAreNew /\ LateHasEnded
  BY DEF Init, PendingAreNew, LateHasEnded, At, NoCall
<1>5. QED
  BY <1>1, <1>3, <1>4 DEF Init, SessionInv

\* A new row adds its session to the issued ones.
LEMMA IssuedGrows ==
  ASSUME TypeOK, NEW s \in Session, created' = Append(created, s)
  PROVE  created' \in Seq(Session) /\ Issued' = Issued \cup {s}
<1>1. /\ created' \in Seq(Session)
      /\ Len(created') = Len(created) + 1
      /\ \A i \in 1 .. Len(created) : created'[i] = created[i]
      /\ created'[Len(created) + 1] = s
  BY AppendProperties DEF TypeOK
<1>2. /\ Len(created) \in Nat
      /\ DOMAIN created = 1 .. Len(created)
      /\ DOMAIN created' = 1 .. (Len(created) + 1)
  BY <1>1, LenProperties DEF TypeOK
<1>3. Issued \cup {s} \subseteq Issued'
  <2>1. ASSUME NEW i \in DOMAIN created PROVE created[i] \in Issued'
    BY <1>1, <1>2 DEF Issued
  <2>2. s \in Issued'
    BY <1>1, <1>2 DEF Issued
  <2>3. QED
    BY <2>1, <2>2 DEF Issued
<1>4. Issued' \subseteq Issued \cup {s}
  BY <1>1, <1>2 DEF Issued
<1>5. QED
  BY <1>1, <1>3, <1>4

\* Steps that only take rows away, or let sessions expire, and move a call
\* that is not about to insert.
LEMMA ShrinkStep ==
  ASSUME SessionInv, TypeOK', UNCHANGED <<role, minted, created>>,
         table' \subseteq table, expired \subseteq expired',
         \A c \in Call : At(c, "insert")' =>
             call'[c].session = call[c].session /\ At(c, "insert"),
         \A c \in Call : call'[c].late =>
             /\ call'[c].op \in {"find", "drop", "refused", "failed"}
             /\ call'[c].session \in Issued \ Live'
  PROVE  SessionInv'
<1>1. Issued' = Issued
  BY DEF Issued
<1>2. PendingAreNew'
  BY <1>1 DEF SessionInv, PendingAreNew, At
<1>3. LateHasEnded'
  BY <1>1 DEF LateHasEnded
<1>4. QED
  BY <1>1, <1>2, <1>3 DEF SessionInv

\* A call moves to one of its own further steps; nothing else changes but
\* rows that go.
LEMMA AnswerStep ==
  ASSUME SessionInv, NEW c \in Call,
         NEW op \in {"count", "drop", "revoke", "served", "refused", "failed"},
         Answer(c, op), UNCHANGED <<role, minted, created, expired>>,
         table' \subseteq table,
         call[c].late => op \in {"drop", "refused", "failed"}
  PROVE  SessionInv'
<1>1. TypeOK'
  BY DEF SessionInv, TypeOK, Answer, CallState
<1>2. \A d \in Call : /\ d # c => call'[d] = call[d]
                      /\ call'[c] = [call[c] EXCEPT !.op = op]
  BY DEF SessionInv, TypeOK, Answer
<1>3. call[c] \in CallState
  BY DEF SessionInv, TypeOK
<1>4. \A d \in Call : At(d, "insert")' =>
          call'[d].session = call[d].session /\ At(d, "insert")
  BY <1>2, <1>3 DEF At, CallState
<1>5. Live' \subseteq Live
  BY DEF Live
<1>6. ASSUME NEW d \in Call, call'[d].late
      PROVE  /\ call'[d].op \in {"find", "drop", "refused", "failed"}
             /\ call'[d].session \in Issued \ Live'
  BY <1>2, <1>3, <1>5, <1>6 DEF SessionInv, LateHasEnded, CallState
<1>7. QED
  BY <1>1, <1>4, <1>6, ShrinkStep

\* Drawing a new identifier, with or without rows going in the same step.
LEMMA MintStep ==
  ASSUME SessionInv, NEW c \in Call, NEW s \in Session, NEW r \in {"admin", "guest"},
         Mint(c, s, r), ~call[c].late \/ call[c].op \notin {"find", "drop", "refused", "failed"},
         UNCHANGED <<created, expired>>, table' \subseteq table
  PROVE  SessionInv'
<1> DEFINE next == [NoCall EXCEPT !.op = "insert", !.session = s]
<1>1. next \in CallState /\ next.op = "insert" /\ next.session = s /\ ~next.late
  BY DEF CallState, NoCall
<1>2. call'[c] = next /\ \A d \in Call \ {c} : call'[d] = call[d]
  BY DEF SessionInv, TypeOK, Mint
<1>3. minted' \in Seq(Session)
  BY AppendProperties DEF SessionInv, TypeOK, Mint
<1>4. TypeOK'
  BY <1>1, <1>3 DEF SessionInv, TypeOK, Mint
<1>5. Issued' = Issued /\ Live' \subseteq Live
  BY DEF Issued, Live
<1>6. role'[s] # "none" /\ \A x \in Session : role[x] # "none" => role'[x] # "none"
  BY DEF SessionInv, TypeOK, Mint
<1>7. s \notin Issued /\ role[s] = "none"
  BY DEF SessionInv, Mint
<1>8. PendingAreNew'
  <2> SUFFICES ASSUME NEW d \in Call, At(d, "insert")'
               PROVE  /\ call'[d].session \in Session \ Issued
                      /\ role'[call'[d].session] # "none"
                      /\ \A e \in Call \ {d} : At(e, "insert")' =>
                            call'[e].session # call'[d].session
    BY <1>5 DEF PendingAreNew
  <2>1. \A e \in Call \ {c} : At(e, "insert")' =>
            /\ At(e, "insert") /\ call'[e].session = call[e].session
            /\ call[e].session \in Session \ Issued
            /\ role[call[e].session] # "none"
    BY <1>2 DEF SessionInv, PendingAreNew, At
  <2>2. CASE d = c
    <3>1. call'[d].session = s
      BY <1>1, <1>2, <2>2
    <3>2. \A e \in Call \ {d} : At(e, "insert")' => call'[e].session # s
      BY <1>7, <2>1, <2>2
    <3>3. QED
      BY <1>6, <1>7, <3>1, <3>2
  <2>3. CASE d # c
    <3>1. call'[d].session \in Session \ Issued /\ role'[call'[d].session] # "none"
      BY <1>6, <2>1, <2>3
    <3>2. call'[c].session # call'[d].session
      BY <1>1, <1>2, <1>7, <2>1, <2>3
    <3>3. \A e \in Call \ {c, d} : At(e, "insert")' => call'[e].session # call'[d].session
      BY <2>1, <2>3 DEF SessionInv, PendingAreNew
    <3>4. QED
      BY <3>1, <3>2, <3>3
  <2>4. QED
    BY <2>2, <2>3
<1>9. LateHasEnded'
  BY <1>1, <1>2, <1>5 DEF SessionInv, LateHasEnded
<1>10. Issued \subseteq Session
  BY LenProperties DEF Issued, SessionInv, TypeOK
<1>11. QED
  BY <1>4, <1>5, <1>6, <1>8, <1>9, <1>10 DEF SessionInv

\* A created session joins the table; it was not issued before.
LEMMA InsertStep ==
  ASSUME SessionInv, NEW c \in Call, Insert(c)
  PROVE  SessionInv'
<1> DEFINE s == call[c].session
<1>1. /\ s \in Session \ Issued
      /\ role[s] # "none"
      /\ ~call[c].late
      /\ \A d \in Call \ {c} : At(d, "insert") => call[d].session # s
  BY DEF SessionInv, PendingAreNew, LateHasEnded, Insert, At
<1>2. created' \in Seq(Session) /\ Issued' = Issued \cup {s}
  BY <1>1, IssuedGrows DEF SessionInv, Insert
<1>3. /\ call'[c] = [call[c] EXCEPT !.op = "served"]
      /\ \A d \in Call \ {c} : call'[d] = call[d]
      /\ call[c] \in CallState
  BY DEF SessionInv, TypeOK, Insert, Answer
<1>4. TypeOK'
  BY <1>1, <1>2 DEF SessionInv, TypeOK, Insert, Answer, CallState
<1>5. PendingAreNew'
  BY <1>1, <1>2, <1>3 DEF SessionInv, PendingAreNew, At, Insert, CallState
<1>6. Live' \subseteq Live \cup {s}
  BY DEF Live, Insert
<1>7. LateHasEnded'
  BY <1>1, <1>2, <1>3, <1>6 DEF SessionInv, LateHasEnded, CallState
<1>8. QED
  BY <1>1, <1>2, <1>4, <1>5, <1>7 DEF SessionInv, Insert

\* A request that arrives too late finds no live session.
LEMMA RequestStep ==
  ASSUME SessionInv, NEW c \in Call, NEW s \in Session, NEW leaves \in BOOLEAN,
         Request(c, s, leaves)
  PROVE  SessionInv'
<1>1. PICK late \in BOOLEAN : late = (s \notin Live)
  OBVIOUS
<1>2. PICK r : r = [NoCall EXCEPT !.op = "find", !.session = s,
                                  !.leaves = leaves, !.late = late]
  OBVIOUS
<1>3. /\ r \in CallState
      /\ r.op = "find" /\ r.session = s /\ r.late = late
  BY <1>2 DEF CallState, NoCall
<1>4. call' = [call EXCEPT ![c] = r] /\ s \in Issued
  BY <1>1, <1>2 DEF Request
<1>5. TypeOK'
  BY <1>3, <1>4 DEF SessionInv, TypeOK, Request
<1>6. call'[c] = r /\ \A d \in Call \ {c} : call'[d] = call[d]
  BY <1>4 DEF SessionInv, TypeOK
<1>7. UNCHANGED <<role, minted, created, table, expired>> /\ Live' = Live
  BY DEF Request, Live
<1>8. \A d \in Call : At(d, "insert")' => call'[d].session = call[d].session /\ At(d, "insert")
  BY <1>3, <1>6 DEF At
<1>9. ASSUME NEW d \in Call, call'[d].late
      PROVE  /\ call'[d].op \in {"find", "drop", "refused", "failed"}
             /\ call'[d].session \in Issued \ Live'
  <2>1. CASE d = c
    <3>1. late = TRUE
      BY <1>3, <1>6, <1>9, <2>1
    <3>2. s \notin Live
      BY <1>1, <3>1
    <3>3. QED
      BY <1>3, <1>4, <1>6, <1>7, <2>1, <3>2
  <2>2. CASE d # c
    BY <1>6, <1>7, <1>9, <2>2 DEF SessionInv, LateHasEnded
  <2>3. QED
    BY <2>1, <2>2
<1>10. QED
  BY <1>5, <1>7, <1>8, <1>9, ShrinkStep

\* Steps that end calls, let a session expire or clean up.
LEMMA IdleStep ==
  ASSUME SessionInv, UNCHANGED <<role, minted, created>>,
         table' \subseteq table, expired \subseteq expired', expired' \subseteq Session,
         \A c \in Call : call'[c] = call[c] \/ call'[c] = NoCall,
         call' \in [Call -> CallState]
  PROVE  SessionInv'
<1>1. TypeOK'
  BY DEF SessionInv, TypeOK
<1>2. Live' \subseteq Live
  BY DEF Live
<1>3. \A c \in Call : At(c, "insert")' => call'[c].session = call[c].session /\ At(c, "insert")
  BY DEF At, NoCall
<1>4. \A c \in Call : call'[c].late =>
          /\ call'[c].op \in {"find", "drop", "refused", "failed"}
          /\ call'[c].session \in Issued \ Live'
  BY <1>2 DEF SessionInv, LateHasEnded, NoCall
<1>5. QED
  BY <1>1, <1>3, <1>4, ShrinkStep

\* The steps of a login before its session is created.
LEMMA LoginStep ==
  ASSUME SessionInv, NEW c \in Call, LoginGuest(c) \/ LoginAdmin(c) \/ Count(c) \/ Prune(c)
  PROVE  SessionInv'
<1>1. CASE LoginGuest(c)
  BY <1>1, MintStep DEF LoginGuest, NoCall
<1>2. CASE LoginAdmin(c)
  BY <1>2, AnswerStep DEF LoginAdmin, NoCall
<1>3. CASE Count(c)
  <2>1. CASE \E s \in Session : Mint(c, s, "admin")
    BY <1>3, <2>1, MintStep DEF Count, At
  <2>2. CASE call' = [call EXCEPT ![c].op = "prune", ![c].doomed = Doomed]
             /\ UNCHANGED <<role, minted>>
    <3>1. PICK D \in SUBSET Session : D = Doomed
      BY DEF Doomed, Admins, SessionInv, TypeOK
    <3>2. call[c] \in CallState /\ ~call[c].late
      BY <1>3 DEF SessionInv, TypeOK, LateHasEnded, Count, At
    <3>3. call' = [call EXCEPT ![c] = [call[c] EXCEPT !.op = "prune", !.doomed = D]]
      BY <2>2, <3>1 DEF SessionInv, TypeOK
    <3>4. /\ call' \in [Call -> CallState]
          /\ call'[c].op = "prune" /\ ~call'[c].late
          /\ \A d \in Call \ {c} : call'[d] = call[d]
      BY <3>2, <3>3 DEF SessionInv, TypeOK, CallState
    <3>5. UNCHANGED <<role, minted, created, table, expired>> /\ Live' = Live
      BY <1>3, <2>2 DEF Count, Live
    <3>6. TypeOK'
      BY <3>4, <3>5 DEF SessionInv, TypeOK
    <3>7. \A d \in Call : At(d, "insert")' => call'[d].session = call[d].session /\ At(d, "insert")
      BY <3>4 DEF At
    <3>8. \A d \in Call : call'[d].late =>
              /\ call'[d].op \in {"find", "drop", "refused", "failed"}
              /\ call'[d].session \in Issued \ Live'
      BY <3>4, <3>5 DEF SessionInv, LateHasEnded
    <3>9. QED
      BY <3>5, <3>6, <3>7, <3>8, ShrinkStep
  <2>3. QED
    BY <1>3, <2>1, <2>2 DEF Count
<1>4. CASE Prune(c)
  BY <1>4, MintStep DEF Prune, At
<1>5. QED
  BY <1>1, <1>2, <1>3, <1>4

\* The steps of the guard: a request that came too late is refused at each.
LEMMA ValidateStep ==
  ASSUME SessionInv, NEW c \in Call, Find(c) \/ Drop(c) \/ Revoke(c)
  PROVE  SessionInv'
<1>1. call[c].late => call[c].session \notin Live /\ ~At(c, "revoke")
  BY DEF SessionInv, LateHasEnded, At
<1>2. CASE Find(c)
  <2>1. PICK op \in {"refused", "drop", "revoke", "served"} :
          Answer(c, op) /\ (op \in {"revoke", "served"} => call[c].session \in Live)
    BY <1>2 DEF Find
  <2>2. QED
    BY <1>1, <1>2, <2>1, AnswerStep DEF Find
<1>3. CASE Drop(c)
  <2>1. PICK op \in {"refused", "failed"} : Answer(c, op)
    BY <1>3 DEF Drop
  <2>2. QED
    BY <1>3, <2>1, AnswerStep DEF Drop
<1>4. CASE Revoke(c)
  BY <1>1, <1>4, AnswerStep DEF Revoke
<1>5. QED
  BY <1>2, <1>3, <1>4

\* Answers that leave, expiry, the cleanup and a restart.
LEMMA OtherStep ==
  ASSUME SessionInv,
         \/ \E c \in Call : Respond(c)
         \/ \E s \in Session : Expire(s)
         \/ CleanupExpired \/ Restart \/ UNCHANGED vars
  PROVE  SessionInv'
<1>1. NoCall \in CallState
  BY DEF NoCall, CallState
<1>2. CASE \E c \in Call : Respond(c)
  BY <1>1, <1>2, IdleStep DEF Respond, SessionInv, TypeOK
<1>3. CASE \E s \in Session : Expire(s)
  BY <1>3, IdleStep DEF Expire, Live, SessionInv, TypeOK
<1>4. CASE CleanupExpired
  BY <1>4, IdleStep DEF CleanupExpired, Live, SessionInv, TypeOK
<1>5. CASE Restart
  BY <1>1, <1>5, IdleStep DEF Restart, Live, SessionInv, TypeOK
<1>6. CASE UNCHANGED vars
  BY <1>6, IdleStep DEF vars, SessionInv, TypeOK
<1>7. QED
  BY <1>2, <1>3, <1>4, <1>5, <1>6

\* No action of the session service and its guard.
LEMMA NextKeepsSessionInv == SessionInv /\ [Next]_vars => SessionInv'
BY LoginStep, InsertStep, RequestStep, ValidateStep, OtherStep DEF Next

\* The invariant of the session table under any interleaving.
THEOREM SessionInvHolds == Spec => []SessionInv
<1>1. Init => SessionInv
  BY InitSessionInv
<1>2. SessionInv /\ [Next]_vars => SessionInv'
  BY NextKeepsSessionInv
<1>3. QED
  BY <1>1, <1>2, PTL DEF Spec

\* Logout, eviction and expiry are final: no interleaving of logins, other
\* requests, cleanups and restarts serves a request that comes after them.
THEOREM EndedSessionsRefused == Spec => []EndedIsRefused
<1>1. SessionInv => EndedIsRefused
  BY DEF SessionInv, LateHasEnded, EndedIsRefused, At
<1>2. QED
  BY <1>1, SessionInvHolds, PTL

-----------------------------------------------------------------------------
(***************************************************************************)
(* Making room signs out the oldest.  What one query read is still right   *)
(* when the next one uses it: rows only go in between, or come as the      *)
(* youngest.  That is EvictInv, with SessionInv.                           *)
(***************************************************************************)

\* A session has one row, ever; and a login that is about to make room takes the
\* oldest rows that there are now.
Distinct == \A i, j \in DOMAIN created : created[i] = created[j] => i = j
OldestDoomed ==
    \A c \in Call : At(c, "prune") =>
        /\ call[c].doomed \subseteq Issued
        /\ \A s \in Admins, t \in call[c].doomed :
              Before(created, s, t) => s \in call[c].doomed

EvictInv == Distinct /\ OldestDoomed

\* Since a session has one row, "created before" is an order.
LEMMA BeforeIsTransitive ==
  ASSUME TypeOK, Distinct, NEW s, NEW t, NEW u, Before(created, s, t), Before(created, t, u)
  PROVE  Before(created, s, u)
  <1>0. DOMAIN created = 1..Len(created) /\ Len(created) \in Nat
    BY LenProperties DEF TypeOK
  <1>1. PICK i, j \in DOMAIN created : i < j /\ created[i] = s /\ created[j] = t
    BY DEF Before
  <1>2. PICK k, l \in DOMAIN created : k < l /\ created[k] = t /\ created[l] = u
    BY DEF Before
  <1>3. j = k
    BY <1>1, <1>2 DEF Distinct
  <1>4. i < l
    BY <1>0, <1>1, <1>2, <1>3
  <1> QED
    BY <1>1, <1>2, <1>4 DEF Before

\* There are finitely many administrator sessions: each was created once.
LEMMA AdminsFinite ==
  ASSUME SessionInv
  PROVE  IsFiniteSet(Admins)
  <1>1. created \in Seq(Session) /\ DOMAIN created = 1..Len(created) /\ Len(created) \in Nat
    BY LenProperties DEF SessionInv, TypeOK
  <1>2. IsFiniteSet(1..Len(created))
    BY <1>1, FS_Interval
  <1>3. IsFiniteSet({created[i] : i \in 1..Len(created)})
    <2> DEFINE T == {created[i] : i \in 1..Len(created)}
               f == [i \in 1..Len(created) |-> created[i]]
    <2>1. f \in Surjection(1..Len(created), T)
      BY DEF Surjection
    <2>2. IsFiniteSet(T)
      <3> HIDE DEF T, f
      <3> QED
        BY <1>2, <2>1, FS_Surjection
    <2> QED
      BY <2>2
  <1>4. Admins \subseteq {created[i] : i \in 1..Len(created)}
    BY <1>1 DEF SessionInv, Admins, Issued
  <1> QED
    BY <1>3, <1>4, FS_Subset

\* With a session all older ones are among the oldest.
LEMMA DoomedAreOldest ==
  ASSUME SessionInv, Distinct, NEW t \in Doomed, NEW s \in Admins, Before(created, s, t)
  PROVE  s \in Doomed
  <1> DEFINE older(x) == {u \in Admins : Before(created, u, x)}
             excess == Cardinality(Admins) - MaxAdmin + 1
  <1>1. older(s) \subseteq older(t)
    BY BeforeIsTransitive DEF SessionInv
  <1>2. IsFiniteSet(older(t))
    BY AdminsFinite, FS_Subset
  <1>3. /\ Cardinality(older(s)) \in Nat /\ Cardinality(older(t)) \in Nat
        /\ Cardinality(older(s)) <= Cardinality(older(t))
    <2>1. IsFiniteSet(older(s)) /\ Cardinality(older(s)) <= Cardinality(older(t))
      BY <1>1, <1>2, FS_Subset
    <2> QED
      BY <2>1, <1>2, FS_CardinalityType
  <1>4. excess \in Int
    BY AdminsFinite, FS_CardinalityType, CapIsPositive
  <1>5. Cardinality(older(t)) < excess
    BY DEF Doomed
  <1> HIDE DEF older, excess
  <1>6. Cardinality(older(s)) < excess
    BY <1>3, <1>4, <1>5
  <1> QED
    BY <1>6 DEF Doomed, older, excess

\* A step that inserts nothing and after which no login makes room but those
\* that were about to.
LEMMA EvictStep ==
  ASSUME SessionInv, EvictInv, created' = created, Admins' \subseteq Admins,
         \A c \in Call : At(c, "prune")' => At(c, "prune") /\ call'[c].doomed = call[c].doomed
  PROVE  EvictInv'
  <1>1. Distinct'
    BY DEF EvictInv, Distinct
  <1>2. OldestDoomed'
    <2> SUFFICES ASSUME NEW c \in Call, At(c, "prune")'
                 PROVE  /\ call'[c].doomed \subseteq Issued'
                        /\ \A s \in Admins', t \in call'[c].doomed :
                              Before(created', s, t) => s \in call'[c].doomed
      BY DEF OldestDoomed
    <2>1. At(c, "prune") /\ call'[c].doomed = call[c].doomed
      OBVIOUS
    <2> QED
      BY <2>1 DEF EvictInv, OldestDoomed, Issued
  <1> QED
    BY <1>1, <1>2 DEF EvictInv

\* A new row is the youngest.
LEMMA EvictInsert ==
  ASSUME SessionInv, EvictInv, NEW c \in Call, Insert(c)
  PROVE  EvictInv'
  <1> DEFINE new == call[c].session
             n == Len(created)
  <1>1. new \in Session \ Issued
    BY DEF SessionInv, PendingAreNew, Insert
  <1>2. created' = Append(created, new) /\ role' = role /\ table' = table \cup {new}
    BY DEF Insert
  <1>3. /\ n \in Nat /\ DOMAIN created = 1..n /\ DOMAIN created' = 1..(n + 1)
        /\ \A i \in 1..n : created'[i] = created[i]
        /\ created'[n + 1] = new
    <2>1. created \in Seq(Session) /\ new \in Session
      BY <1>1 DEF SessionInv, TypeOK
    <2>2. /\ created' \in Seq(Session)
          /\ Len(created') = Len(created) + 1
          /\ \A i \in 1 .. Len(created) : created'[i] = created[i]
          /\ created'[Len(created) + 1] = new
      BY <1>2, <2>1, AppendProperties
    <2> QED
      BY <2>1, <2>2, LenProperties
  <1>4. \A i \in 1..n : created[i] # new
    BY <1>1, <1>3 DEF Issued
  <1> HIDE DEF new, n
  <1>5. Distinct'
    <2> SUFFICES ASSUME NEW i \in 1..(n + 1), NEW j \in 1..(n + 1), created'[i] = created'[j]
                 PROVE  i = j
      BY <1>3 DEF Distinct
    <2>1. CASE i \in 1..n /\ j \in 1..n
      BY <2>1, <1>3 DEF EvictInv, Distinct
    <2>2. CASE i = n + 1 \/ j = n + 1
      BY <2>2, <1>3, <1>4
    <2> QED
      BY <2>1, <2>2, <1>3
  <1>6. ASSUME NEW s, NEW t \in Issued, Before(created', s, t)
        PROVE  s # new /\ Before(created, s, t)
    <2>1. PICK i, j \in 1..(n + 1) : i < j /\ created'[i] = s /\ created'[j] = t
      BY <1>3, <1>6 DEF Before
    <2>2. t # new
      BY <1>1 DEF new
    <2>3. j # n + 1
      BY <2>1, <2>2, <1>3
    <2>4. i \in 1..n /\ j \in 1..n
      BY <2>1, <2>3, <1>3
    <2>5. created[i] = s /\ created[j] = t
      BY <2>1, <2>4, <1>3
    <2> QED
      BY <2>1, <2>4, <2>5, <1>3, <1>4 DEF Before
  <1>7. OldestDoomed'
    <2> SUFFICES ASSUME NEW d \in Call, At(d, "prune")'
                 PROVE  /\ call'[d].doomed \subseteq Issued'
                        /\ \A s \in Admins', t \in call'[d].doomed :
                              Before(created', s, t) => s \in call'[d].doomed
      BY DEF OldestDoomed
    <2>1. At(d, "prune") /\ call'[d] = call[d]
      BY DEF Insert, Answer, At, SessionInv, TypeOK, CallState
    <2>2. call[d].doomed \subseteq Issued /\ Issued \subseteq Issued'
      BY <2>1, <1>3 DEF EvictInv, OldestDoomed, Issued
    <2>3. ASSUME NEW s \in Admins', NEW t \in call[d].doomed, Before(created', s, t)
          PROVE  s \in call[d].doomed
      <3>1. s # new /\ Before(created, s, t)
        BY <1>6, <2>2, <2>3
      <3>2. s \in Admins
        BY <3>1, <1>2 DEF Admins
      <3> QED
        BY <2>1, <3>1, <3>2 DEF EvictInv, OldestDoomed
    <2> QED
      BY <2>1, <2>2, <2>3
  <1> QED
    BY <1>5, <1>7 DEF EvictInv

\* A login that counts too many notes the oldest.
LEMMA EvictCount ==
  ASSUME SessionInv, EvictInv, NEW c \in Call,
         call' = [call EXCEPT ![c].op = "prune", ![c].doomed = Doomed],
         UNCHANGED <<role, created, table>>
  PROVE  EvictInv'
  <1>1. Distinct' /\ Issued' = Issued /\ Admins' = Admins
    BY DEF EvictInv, Distinct, Issued, Admins
  <1>2. call[c] \in CallState /\ \A d \in Call \ {c} : call'[d] = call[d]
    BY DEF SessionInv, TypeOK
  <1>3. call'[c].doomed = Doomed
    BY DEF SessionInv, TypeOK, CallState
  <1>4. Doomed \subseteq Issued
    BY DEF SessionInv, Doomed, Admins
  <1>5. \A s \in Admins, t \in Doomed : Before(created, s, t) => s \in Doomed
    BY DoomedAreOldest DEF EvictInv
  <1>6. OldestDoomed'
    <2> SUFFICES ASSUME NEW d \in Call, At(d, "prune")'
                 PROVE  /\ call'[d].doomed \subseteq Issued
                        /\ \A s \in Admins, t \in call'[d].doomed :
                              Before(created, s, t) => s \in call'[d].doomed
      BY <1>1 DEF OldestDoomed
    <2>1. CASE d = c
      BY <2>1, <1>3, <1>4, <1>5
    <2>2. CASE d # c
      BY <2>2, <1>2 DEF EvictInv, OldestDoomed, At
    <2> QED
      BY <2>1, <2>2
  <1> QED
    BY <1>1, <1>6 DEF EvictInv

\* Drawing an identifier makes nobody an administrator who has a row.
LEMMA EvictMint ==
  ASSUME SessionInv, EvictInv, NEW c \in Call, NEW s \in Session, NEW r, Mint(c, s, r),
         created' = created, table' \subseteq table
  PROVE  EvictInv'
  <1>1. s \notin table
    BY DEF Mint, SessionInv
  <1>2. Admins' \subseteq Admins
    BY <1>1 DEF Mint, Admins, SessionInv, TypeOK
  <1>3. \A d \in Call : At(d, "prune")' => At(d, "prune") /\ call'[d].doomed = call[d].doomed
    BY DEF Mint, At, NoCall, SessionInv, TypeOK
  <1> QED
    BY <1>2, <1>3, EvictStep

\* Only the query that prunes leads from there to the insert.
LEMMA OnlyPruneLeads ==
  ASSUME SessionInv, Next, NEW c \in Call, At(c, "prune"), At(c, "insert")'
  PROVE  Prune(c)
  <1>0. call \in [Call -> CallState] /\ call[c].op = "prune" /\ call'[c].op = "insert"
    BY DEF SessionInv, TypeOK, At
  <1>1. ASSUME NEW d \in Call, NEW x, call' = [call EXCEPT ![d] = x] PROVE d = c
    BY <1>0, <1>1
  <1>2. ASSUME NEW d \in Call, NEW op, Answer(d, op) PROVE d = c /\ op = "insert"
    BY <1>0, <1>2 DEF Answer, CallState
  <1>3. ASSUME NEW d \in Call, LoginGuest(d) \/ LoginAdmin(d) \/ Insert(d) \/ Find(d) \/ Drop(d)
                               \/ Revoke(d) \/ Respond(d) \/ Count(d)
        PROVE  FALSE
    <2>1. call[d].op # "prune"
      BY <1>3 DEF LoginGuest, LoginAdmin, Insert, Find, Drop, Revoke, Respond, Count, At, NoCall
    <2>2. d # c
      BY <2>1, <1>0
    <2>3. \E x : call' = [call EXCEPT ![d] = x]
      BY <1>3 DEF LoginGuest, LoginAdmin, Insert, Find, Drop, Revoke, Respond, Count, Mint, Answer
    <2> QED
      BY <1>1, <2>2, <2>3
  <1>4. ASSUME NEW d \in Call, NEW s \in Session, NEW leaves \in BOOLEAN, Request(d, s, leaves)
        PROVE  FALSE
    BY <1>0, <1>4 DEF Request, NoCall
  <1>5. ASSUME NEW d \in Call, Prune(d) PROVE d = c
    BY <1>1, <1>5 DEF Prune, Mint
  <1>6. ~((\E s \in Session : Expire(s)) \/ CleanupExpired \/ Restart)
    BY <1>0 DEF Expire, CleanupExpired, Restart, NoCall
  <1> QED
    BY <1>3, <1>4, <1>5, <1>6 DEF Next

\* Every step keeps EvictInv.
LEMMA NextKeepsEvictInv == SessionInv /\ EvictInv /\ [Next]_vars => EvictInv'
  <1> SUFFICES ASSUME SessionInv, EvictInv, [Next]_vars PROVE EvictInv'
    OBVIOUS
  <1>0. call \in [Call -> CallState]
    BY DEF SessionInv, TypeOK
  <1>1. ASSUME NEW c \in Call, LoginGuest(c) PROVE EvictInv'
    BY <1>1, EvictMint DEF LoginGuest
  <1>2. ASSUME NEW c \in Call, Count(c) PROVE EvictInv'
    <2>1. CASE \E s \in Session : Mint(c, s, "admin")
      BY <1>2, <2>1, EvictMint DEF Count
    <2>2. CASE /\ call' = [call EXCEPT ![c].op = "prune", ![c].doomed = Doomed]
               /\ UNCHANGED <<role, minted>>
      BY <1>2, <2>2, EvictCount DEF Count
    <2> QED
      BY <1>2, <2>1, <2>2 DEF Count
  <1>3. ASSUME NEW c \in Call, Prune(c) PROVE EvictInv'
    BY <1>3, EvictMint DEF Prune
  <1>4. ASSUME NEW c \in Call, Insert(c) PROVE EvictInv'
    BY <1>4, EvictInsert
  <1>5. ASSUME NEW c \in Call, NEW op \in {"count", "drop", "revoke", "served", "refused", "failed"},
               Answer(c, op), UNCHANGED <<role, created>>, table' \subseteq table
        PROVE  EvictInv'
    <2>1. \A d \in Call : At(d, "prune")' => At(d, "prune") /\ call'[d].doomed = call[d].doomed
      BY <1>0, <1>5 DEF Answer, At, CallState
    <2>2. Admins' \subseteq Admins
      BY <1>5 DEF Admins
    <2> QED
      BY <1>5, <2>1, <2>2, EvictStep
  <1>6. ASSUME NEW c \in Call, LoginAdmin(c) \/ Find(c) \/ Drop(c) \/ Revoke(c) PROVE EvictInv'
    BY <1>5, <1>6 DEF LoginAdmin, Find, Drop, Revoke
  <1>7. ASSUME NEW c \in Call, NEW s \in Session, NEW leaves \in BOOLEAN, Request(c, s, leaves)
        PROVE  EvictInv'
    <2>1. \A d \in Call : At(d, "prune")' => At(d, "prune") /\ call'[d].doomed = call[d].doomed
      BY <1>0, <1>7 DEF Request, At, NoCall
    <2> QED
      BY <1>7, <2>1, EvictStep DEF Request, Admins
  <1>8. ASSUME NEW c \in Call, Respond(c) PROVE EvictInv'
    <2>1. \A d \in Call : At(d, "prune")' => At(d, "prune") /\ call'[d].doomed = call[d].doomed
      BY <1>0, <1>8 DEF Respond, At, NoCall
    <2> QED
      BY <1>8, <2>1, EvictStep DEF Respond, Admins
  <1>9. CASE (\E s \in Session : Expire(s)) \/ CleanupExpired \/ UNCHANGED vars
    BY <1>9, EvictStep DEF Expire, CleanupExpired, Live, Admins, At, vars
  <1>10. CASE Restart
    BY <1>10, EvictStep DEF Restart, Live, Admins, At, NoCall
  <1> QED
    BY <1>1, <1>2, <1>3, <1>4, <1>6, <1>7, <1>8, <1>9, <1>10 DEF Next

\* A login that makes room (create, lines 46-57 of session.service.ts) never
\* signs out a session while an older one stays, although it reads the rows in
\* one query and deletes them in another, with other logins in between.
THEOREM OldestSignedOut == Spec => OldestGoFirst
  <1>1. Init => EvictInv
    BY DEF Init, EvictInv, Distinct, OldestDoomed, At, NoCall
  <1>2. SessionInv /\ EvictInv /\ [Next]_vars =>
          [\A c \in Call : At(c, "prune") /\ At(c, "insert")' =>
             \A s, t \in Admins :
                Before(created, s, t) /\ t \notin table' => s \notin table']_vars
    <2> SUFFICES ASSUME SessionInv, EvictInv, Next, NEW c \in Call,
                        At(c, "prune"), At(c, "insert")',
                        NEW s \in Admins, NEW t \in Admins,
                        Before(created, s, t), t \notin table'
                 PROVE  s \notin table'
      OBVIOUS
    <2>1. Prune(c)
      BY OnlyPruneLeads
    <2>2. t \in call[c].doomed
      BY <2>1 DEF Prune, Admins
    <2>3. s \in call[c].doomed
      BY <2>2 DEF EvictInv, OldestDoomed
    <2> QED
      BY <2>1, <2>3 DEF Prune
  <1> QED
    BY <1>1, <1>2, NextKeepsEvictInv, SessionInvHolds, PTL DEF Spec, OldestGoFirst

-----------------------------------------------------------------------------
(***************************************************************************)
(* Once the count has reached the limit nobody is let in, and the logins   *)
(* that were let in before are fewer than all of them, since one has just  *)
(* raised the count: that is LimitInv.  A refused address ages with its    *)
(* window, so it is let in when the window is over: BlockInv.              *)
(***************************************************************************)

\* Logins that compare are finitely many, and no more than there are.
LEMMA ComparingCounted ==
  /\ Cardinality(Attempt) \in Nat
  /\ Cardinality(Comparing) \in Nat
  /\ Cardinality(Comparing) <= Cardinality(Attempt)
  <1>1. Comparing \subseteq Attempt
    BY DEF Comparing
  <1> QED
    BY <1>1, AttemptsAreFinite, FS_Subset, FS_CardinalityType

\* A login that ends leaves one less.
LEMMA OneLess ==
  ASSUME LimitInv, NEW a \in Attempt, NEW answer \in {"served", "refused"},
         login[a] = "compare", login' = [login EXCEPT ![a] = answer]
  PROVE  Cardinality(Comparing') = Cardinality(Comparing) - 1
  <1>1. Comparing' = Comparing \ {a} /\ a \in Comparing
    BY DEF Comparing, LimitInv
  <1>2. IsFiniteSet(Comparing)
    BY AttemptsAreFinite, FS_Subset DEF Comparing
  <1> QED
    BY <1>1, <1>2, FS_RemoveElement

\* What counts as comparing depends on nothing but the logins.
LEMMA NobodyLogsIn ==
  ASSUME \A a \in Attempt : login'[a] = "compare" <=> login[a] = "compare"
  PROVE  Comparing' = Comparing
  BY DEF Comparing

\* Nobody has failed at first.
LEMMA LimitStarts == LimitInit => LimitInv
  BY LimitIsPositive DEF LimitInit, LimitInv, NoRecord

\* No action of the guard, of a login or of the clock.
LEMMA LimitSteps == LimitInv /\ [LimitNext]_limitVars => LimitInv'
  <1> SUFFICES ASSUME LimitInv, [LimitNext]_limitVars
               PROVE  LimitInv'
    OBVIOUS
  <1> USE LimitIsPositive
  <1>1. ASSUME NEW a \in Attempt, CanActivate(a)
        PROVE  LimitInv'
    <2>1. CASE Blocked
      <3>1. record' = record /\ login' = [login EXCEPT ![a] = "refused"] /\ login[a] = "idle"
        BY <1>1, <2>1 DEF CanActivate
      <3>2. Comparing' = Comparing
        BY <3>1, NobodyLogsIn DEF LimitInv
      <3> QED
        BY <3>1, <3>2 DEF LimitInv
    <2>2. CASE ~Blocked
      <3>1. login' = [login EXCEPT ![a] = "compare"]
        BY <1>1, <2>2 DEF CanActivate
      <3>2. (record' = record /\ Running) \/ record' = NoRecord
        BY <1>1, <2>2 DEF CanActivate
      <3>3. record'.count < MaxFailures
        BY <3>2, <2>2 DEF Blocked, LimitInv, NoRecord
      <3>4. record' \in [count : Nat, age : 0 .. Window]
        BY <3>2 DEF LimitInv, NoRecord
      <3> QED
        BY <3>1, <3>3, <3>4 DEF LimitInv
    <2> QED
      BY <2>1, <2>2
  <1>2. ASSUME NEW a \in Attempt, VerifyWrong(a)
        PROVE  LimitInv'
    <2>1. login[a] = "compare" /\ login' = [login EXCEPT ![a] = "refused"]
      BY <1>2 DEF VerifyWrong
    <2>2. Cardinality(Comparing') = Cardinality(Comparing) - 1
      BY <2>1, OneLess
    <2>3. /\ record' \in [count : Nat, age : 0 .. Window]
          /\ record'.count = record.count + 1 \/ record'.count = 1
      BY <1>2 DEF VerifyWrong, RecordFailure, LimitInv
    <2>4. record'.count >= MaxFailures =>
             record'.count + Cardinality(Comparing') <= MaxFailures - 1 + Cardinality(Attempt)
      BY <2>2, <2>3, ComparingCounted DEF LimitInv
    <2> QED
      BY <2>1, <2>3, <2>4 DEF LimitInv
  <1>3. ASSUME NEW a \in Attempt, VerifyRight(a)
        PROVE  LimitInv'
    <2>1. /\ login[a] = "compare" /\ login' = [login EXCEPT ![a] = "served"]
          /\ record' = record
      BY <1>3 DEF VerifyRight
    <2>2. Cardinality(Comparing') = Cardinality(Comparing) - 1
      BY <2>1, OneLess
    <2> QED
      BY <2>1, <2>2, ComparingCounted DEF LimitInv
  <1>4. ASSUME NEW a \in Attempt, LoginAnswered(a)
        PROVE  LimitInv'
    <2>1. /\ login[a] # "compare" /\ login' = [login EXCEPT ![a] = "idle"]
          /\ record' = record
      BY <1>4 DEF LoginAnswered
    <2>2. Comparing' = Comparing
      BY <2>1, NobodyLogsIn DEF LimitInv
    <2> QED
      BY <2>1, <2>2 DEF LimitInv
  <1>5. CASE CleanupTimer
    BY <1>5 DEF CleanupTimer, LimitInv, NoRecord
  <1>6. CASE LimitTick
    <2>1. /\ record' = [record EXCEPT !.age =
                  IF record.count > 0 /\ record.age < Window THEN record.age + 1 ELSE record.age]
          /\ login' = login
      BY <1>6 DEF LimitTick
    <2>2. Comparing' = Comparing
      BY <2>1 DEF Comparing
    <2>3. record' \in [count : Nat, age : 0 .. Window] /\ record'.count = record.count
      BY <2>1 DEF LimitInv
    <2> QED
      BY <2>1, <2>2, <2>3 DEF LimitInv
  <1>7. CASE LimitRestart
    BY <1>7 DEF LimitRestart, LimitInv, NoRecord
  <1>8. CASE UNCHANGED limitVars
    BY <1>8 DEF limitVars, LimitInv, Comparing
  <1> QED
    BY <1>1, <1>2, <1>3, <1>4, <1>5, <1>6, <1>7, <1>8 DEF LimitNext

\* The inductive invariant of RateLimitGuard's count (rate-limit.guard.ts).
THEOREM LimitInvHolds == LimitSpec => []LimitInv
  BY LimitStarts, LimitSteps, PTL DEF LimitSpec

\* Whatever overlaps, an address tries at most MaxFailures - 1 wrong passwords
\* in one window, and one more for each login it may have under way
\* (rate-limit.guard.ts, canActivate and recordFailure).
THEOREM FailuresAreBounded == LimitSpec => []FailuresBounded
  <1>1. LimitInv => FailuresBounded
    BY ComparingCounted, LimitIsPositive DEF LimitInv, FailuresBounded
  <1> QED
    BY LimitInvHolds, <1>1, PTL

\* An address that has been refused for some ticks is still refused, and by a
\* window that is at least as old.
BlockInv == shut \in Nat /\ (shut > 0 => Blocked /\ shut <= record.age)

\* Only the clock ages a window, and one that is over lets the address in.
LEMMA BlockSteps == LimitInv /\ BlockInv /\ [LimitNext]_limitVars => BlockInv'
  <1> SUFFICES ASSUME LimitInv, BlockInv, [LimitNext]_limitVars
               PROVE  BlockInv'
    OBVIOUS
  <1> USE LimitIsPositive
  <1>1. ASSUME NEW a \in Attempt, CanActivate(a)
        PROVE  BlockInv'
    BY <1>1 DEF CanActivate, BlockInv, Blocked, Running
  <1>2. ASSUME NEW a \in Attempt, VerifyWrong(a)
        PROVE  BlockInv'
    BY <1>2 DEF VerifyWrong, RecordFailure, BlockInv, Blocked, Running, LimitInv
  <1>3. ASSUME NEW a \in Attempt, VerifyRight(a) \/ LoginAnswered(a)
        PROVE  BlockInv'
    BY <1>3 DEF VerifyRight, LoginAnswered, BlockInv, Blocked, Running
  <1>4. CASE CleanupTimer
    BY <1>4 DEF CleanupTimer, BlockInv, Blocked
  <1>5. CASE LimitTick
    <2>1. record'.count = record.count
          /\ record'.age = IF record.count > 0 /\ record.age < Window
                           THEN record.age + 1 ELSE record.age
      BY <1>5 DEF LimitTick, LimitInv
    <2>2. shut' = IF Blocked' THEN shut + 1 ELSE 0
      BY <1>5 DEF LimitTick
    <2>3. record.count \in Nat /\ record.age \in 0 .. Window
      BY DEF LimitInv
    <2>4. CASE Blocked'
      <3>1. record'.count > 0 /\ record'.age < Window /\ record'.age = record.age + 1
        BY <2>1, <2>3, <2>4 DEF Blocked, Running
      <3> QED
        BY <2>2, <2>3, <2>4, <3>1 DEF BlockInv
    <2> QED
      BY <2>2, <2>4 DEF BlockInv
  <1>6. CASE LimitRestart
    BY <1>6 DEF LimitRestart, BlockInv
  <1>7. CASE UNCHANGED limitVars
    BY <1>7 DEF limitVars, BlockInv, Blocked, Running
  <1> QED
    BY <1>1, <1>2, <1>3, <1>4, <1>5, <1>6, <1>7 DEF LimitNext

\* An address that keeps trying while it is refused is let in again when the
\* window of its first failure is over, for any window and any number of
\* overlapping logins (rate-limit.guard.ts, canActivate and recordFailure).
THEOREM BlockEnds == LimitSpec => []BlockEndsInTime
  <1>1. LimitInit => BlockInv
    BY DEF LimitInit, BlockInv
  <1>2. LimitInv /\ BlockInv => BlockEndsInTime
    BY LimitIsPositive DEF LimitInv, BlockInv, BlockEndsInTime, Blocked, Running
  <1> QED
    BY LimitInvHolds, BlockSteps, <1>1, <1>2, PTL DEF LimitSpec

-----------------------------------------------------------------------------
(***************************************************************************)
(* A value that is stored was read after the stamp it is stored under, so  *)
(* a stored value without the raised cutoff is older than the raise: that  *)
(* is CutoffInv, which every action preserves.                             *)
(***************************************************************************)

\* Ages and stamps are natural numbers up to the life of the cache.
LEMMA AgesGrow ==
  ASSUME NEW n \in 0 .. CacheLife
  PROVE  /\ Older(n) \in 0 .. CacheLife
         /\ n <= Older(n)
         /\ n = CacheLife => Older(n) = CacheLife
         /\ \A m \in 0 .. CacheLife : n <= m => Older(n) <= Older(m)
  BY LifeIsPositive DEF Older

\* Nothing is cached, read or raised at first.
LEMMA CutoffStarts == CutoffInit => CutoffInv
  BY LifeIsPositive DEF CutoffInit, CutoffInv, NoBearer, NewBearer, Cached

\* No action of a request, of whoever raises the cutoff, or of the clock.
LEMMA CutoffSteps == CutoffInv /\ [CutoffNext]_cutoffVars => CutoffInv'
  <1> SUFFICES ASSUME CutoffInv, [CutoffNext]_cutoffVars
               PROVE  CutoffInv'
    OBVIOUS
  <1> USE LifeIsPositive
  <1>1. CASE RaiseCutoff
    BY <1>1 DEF RaiseCutoff, CutoffInv, Cached
  <1>2. CASE ResetCache
    BY <1>2 DEF ResetCache, CutoffInv, Cached
  <1>3. CASE CutoffTick
    BY <1>3, AgesGrow DEF CutoffTick, CutoffInv, Cached, Older
  <1>4. ASSUME NEW b \in Bearer, UseToken(b)
        PROVE  CutoffInv'
    <2> DEFINE op == IF Cached THEN Verdict(cache.raised) ELSE "query"
               old == raised.set /\ raised.age = CacheLife
               new == [op |-> op, since |-> 0, saw |-> FALSE, late |-> old]
    <2>1. /\ bearer' = [bearer EXCEPT ![b] = new]
          /\ raised' = raised /\ cache' = cache
      BY <1>4, Zenon DEF UseToken, NewBearer
    <2>2. op \in {"query", "served", "refused"}
      BY DEF Verdict
    <2>3. old => op # "served"
      BY DEF CutoffInv, Cached, Verdict
    <2>4. old \in BOOLEAN
      BY DEF CutoffInv
    <2>5. new \in [op : {"idle", "query", "store", "served", "refused"},
                   since : 0 .. CacheLife, saw : BOOLEAN, late : BOOLEAN]
      BY <2>2, <2>4
    <2> HIDE DEF op, old
    <2>6. \A c \in Bearer : bearer'[c] = IF c = b THEN new ELSE bearer[c]
      BY <2>1 DEF CutoffInv
    <2>7. bearer' \in [Bearer -> [op : {"idle", "query", "store", "served", "refused"},
                                  since : 0 .. CacheLife, saw : BOOLEAN, late : BOOLEAN]]
      BY <2>1, <2>5 DEF CutoffInv
    <2>8. old => raised.set /\ raised.age = CacheLife
      BY DEF old
    <2> QED
      BY <2>1, <2>2, <2>3, <2>6, <2>7, <2>8 DEF CutoffInv, Cached
  <1>5. ASSUME NEW b \in Bearer, QueryCutoff(b)
        PROVE  CutoffInv'
    BY <1>5 DEF QueryCutoff, CutoffInv, Cached
  <1>6. ASSUME NEW b \in Bearer, StoreCutoff(b)
        PROVE  CutoffInv'
    BY <1>6 DEF StoreCutoff, CutoffInv, Cached, Verdict
  <1>7. ASSUME NEW b \in Bearer, TokenAnswered(b)
        PROVE  CutoffInv'
    BY <1>7 DEF TokenAnswered, CutoffInv, Cached, NoBearer, NewBearer
  <1>8. CASE UNCHANGED cutoffVars
    BY <1>8 DEF cutoffVars, CutoffInv, Cached
  <1> QED
    BY <1>1, <1>2, <1>3, <1>4, <1>5, <1>6, <1>7, <1>8 DEF CutoffNext

\* The inductive invariant of the guard's cache (roles.guard.ts, getInvalidationCutoff).
THEOREM CutoffInvHolds == CutoffSpec => []CutoffInv
  BY CutoffStarts, CutoffSteps, PTL DEF CutoffSpec

\* A request with an old token that arrives a cache life after the cutoff was
\* raised is never served (roles.guard.ts, canActivate).
THEOREM OldTokensAreRefused == CutoffSpec => []OldTokensEnd
  <1>1. CutoffInv => OldTokensEnd
    BY DEF CutoffInv, OldTokensEnd
  <1> QED
    BY CutoffInvHolds, <1>1, PTL
=============================================================================
