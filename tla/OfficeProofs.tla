---------------------------- MODULE OfficeProofs ----------------------------
(******************************************************************************)
(* The pages of the back office: the auth store and its guard, the switches   *)
(* of provinces, the photos of a province and the dialog of an album, for any *)
(* number of overlapping calls.  The sections are independent of each other.  *)
(******************************************************************************)
EXTENDS AdminAuth, ProvinceVisits, PhotoOrder, AlbumForm, FiniteSetTheorems, TLAPS

(*****************************************************************************)
(* A store that is sure of having no role has just been told so, and whoever *)
(* is told so leaves the guarded page or is on the way: AuthInv follows the  *)
(* store, the page and the calls that decide between them.                   *)
(*****************************************************************************)

\* A call in flight.
SentCalls == [kind : {"none", "me", "login", "logout", "data"},
              answer : {"none", "open", "401", "done"} \cup Role, waits : BOOLEAN]

\* A question who the user is, and a navigation that waits for its answer.
MeAsked == \E i \in Slot : sent[i].kind = "me"
Waiting == \E i \in Slot : sent[i].waits

\* Unless somebody was let in with another /me in flight: a store that has a
\* role asks for none, and a guarded page that asks for one waits for it.
AuthInv ==
    /\ door \in [role : Role \cup {"none"}, initialized : BOOLEAN]
    /\ sent \in [Slot -> SentCalls]
    /\ session \in Role \cup {"none"}
    /\ crossed \in BOOLEAN
    /\ \A i \in Slot : sent[i].waits => sent[i].kind = "me"
    /\ ~crossed /\ door.initialized /\ door.role # "none" => ~MeAsked
    /\ ~crossed /\ path = "guarded" /\ MeAsked => Waiting
    /\ ~crossed /\ path = "guarded" /\ door.initialized /\ ~Waiting => door.role # "none"

\* What is in flight, seen call by call.
SentOK(after) ==
    /\ after \in [Slot -> SentCalls]
    /\ \A i \in Slot : after[i].waits => after[i].kind = "me"

\* A slot without a call.
LEMMA IdleIsCall == Idle \in SentCalls /\ ~Idle.waits /\ Idle.kind = "none"
  BY DEF Idle, SentCalls

\* A call as it is sent: only a navigation waits for it.
LEMMA NewIsCall ==
  ASSUME NEW kind \in {"me", "login", "logout", "data"}
  PROVE  /\ NewOf(kind) \in SentCalls /\ NewOf(kind).kind = kind
         /\ NewOf(kind).waits <=> kind = "me"
  BY DEF NewOf, SentCalls

\* A navigation leaves every call in flight and none waiting.
LEMMA SupersededIsCalls ==
  ASSUME AuthInv
  PROVE  /\ SentOK(Superseded)
         /\ \A i \in Slot : ~Superseded[i].waits /\ Superseded[i].kind = sent[i].kind
  <1> DEFINE past(c) == [c EXCEPT !.waits = FALSE]
  <1>1. \A c \in SentCalls : past(c) \in SentCalls /\ ~past(c).waits /\ past(c).kind = c.kind
    BY DEF SentCalls
  <1>2. Superseded = [i \in Slot |-> past(sent[i])]
    BY DEF Superseded
  <1> HIDE DEF past
  <1> QED
    BY <1>1, <1>2 DEF SentOK, AuthInv

\* A call that is over is idle, and the others are as they were.
LEMMA RestIsCalls ==
  ASSUME AuthInv, NEW i \in Slot
  PROVE  /\ SentOK(Rest(i))
         /\ Rest(i)[i] = Idle /\ \A j \in Slot \ {i} : Rest(i)[j] = sent[j]
  BY IdleIsCall DEF Rest, SentOK, AuthInv

\* The same when the answer makes the page navigate.
LEMMA RestSupersededIsCalls ==
  ASSUME AuthInv, NEW i \in Slot
  PROVE  /\ SentOK(RestSuperseded(i))
         /\ RestSuperseded(i)[i] = Idle
         /\ \A j \in Slot \ {i} : RestSuperseded(i)[j] = Superseded[j]
  BY IdleIsCall, SupersededIsCalls DEF RestSuperseded, SentOK

\* Nobody is known and nothing is asked at first.
LEMMA AuthStarts == AuthInit => AuthInv
  <1> SUFFICES ASSUME AuthInit PROVE AuthInv
    OBVIOUS
  <1>1. \A i \in Slot : sent[i] = Idle
    BY DEF AuthInit
  <1>2. ~MeAsked /\ ~Waiting /\ \A i \in Slot : ~sent[i].waits
    BY <1>1, IdleIsCall DEF MeAsked, Waiting
  <1>3. /\ sent \in [Slot -> SentCalls]
        /\ door \in [role : Role \cup {"none"}, initialized : BOOLEAN]
        /\ session \in Role \cup {"none"} /\ crossed \in BOOLEAN /\ path = "start"
    BY IdleIsCall DEF AuthInit
  <1> QED
    BY <1>2, <1>3 DEF AuthInv

\* No navigation, call or answer.
LEMMA AuthSteps == AuthInv /\ [AuthNext]_authVars => AuthInv'
  <1> SUFFICES ASSUME AuthInv, [AuthNext]_authVars
               PROVE  AuthInv'
    OBVIOUS
  <1>t. /\ door \in [role : Role \cup {"none"}, initialized : BOOLEAN]
        /\ sent \in [Slot -> SentCalls] /\ session \in Role \cup {"none"}
        /\ crossed \in BOOLEAN /\ SentOK(sent) /\ "none" \notin Role
    BY DEF AuthInv, SentOK, Role
  <1>1. CASE Navigate
    <2>0. UNCHANGED <<door, session, crossed>>
      BY <1>1 DEF Navigate
    <2>1. CASE /\ door.initialized /\ sent' = Superseded
               /\ path' = IF door.role # "none" THEN "guarded" ELSE "login"
      BY <1>t, <2>0, <2>1, SupersededIsCalls DEF AuthInv, SentOK, MeAsked, Waiting
    <2>2. CASE ~door.initialized /\ Call("me", Superseded) /\ UNCHANGED path
      <3>1. PICK i \in Slot : sent' = [Superseded EXCEPT ![i] = NewOf("me")]
        BY <2>2 DEF Call
      <3>2. SentOK(sent') /\ sent'[i].waits
        BY <3>1, SupersededIsCalls, NewIsCall DEF SentOK
      <3> QED
        BY <1>t, <2>0, <2>2, <3>2 DEF AuthInv, SentOK, MeAsked, Waiting
    <2> QED
      BY <1>1, <2>1, <2>2 DEF Navigate
  <1>2. CASE NavigateToLogin
    <2>1. path' = "login" /\ sent' = Superseded /\ UNCHANGED <<door, session, crossed>>
      BY <1>2 DEF NavigateToLogin
    <2> QED
      BY <1>t, <2>1, SupersededIsCalls DEF AuthInv, SentOK, MeAsked, Waiting
  <1>3. CASE Login \/ PageCall
    <2>1. PICK kind \in {"login", "data"}, i \in Slot :
             sent[i] = Idle /\ sent' = [sent EXCEPT ![i] = NewOf(kind)]
      BY <1>3 DEF Login, PageCall, Call
    <2>2. UNCHANGED <<door, path, session, crossed>>
      BY <1>3 DEF Login, PageCall
    <2>3. /\ SentOK(sent') /\ sent'[i].kind = kind /\ ~sent'[i].waits
          /\ \A j \in Slot \ {i} : sent'[j] = sent[j]
      BY <1>t, <2>1, NewIsCall DEF SentOK
    <2> QED
      BY <1>t, <2>1, <2>2, <2>3, IdleIsCall DEF AuthInv, SentOK, MeAsked, Waiting
  <1>4. CASE LogoutButton
    <2>1. PICK i \in Slot : sent[i] = Idle /\ sent' = [Superseded EXCEPT ![i] = NewOf("logout")]
      BY <1>4 DEF LogoutButton, Call
    <2>2. path' = "login" /\ UNCHANGED <<door, session, crossed>>
      BY <1>4 DEF LogoutButton
    <2>3. /\ SentOK(sent') /\ sent'[i].kind = "logout"
          /\ \A j \in Slot \ {i} : sent'[j] = Superseded[j]
      BY <2>1, SupersededIsCalls, NewIsCall DEF SentOK
    <2> QED
      BY <1>t, <2>2, <2>3, SupersededIsCalls DEF AuthInv, SentOK, MeAsked, Waiting
  <1>5. CASE SessionEnds
    BY <1>5 DEF SessionEnds, AuthInv, MeAsked, Waiting
  <1>6. ASSUME NEW i \in Slot, Handle(i)
        PROVE  AuthInv'
    <2>1. PICK h \in Handled(sent[i].kind) :
             sent' = [sent EXCEPT ![i].answer = h.answer] /\ session' = h.session
      BY <1>6 DEF Handle
    <2>2. /\ h.answer \in {"none", "open", "401", "done"} \cup Role
          /\ h.session \in Role \cup {"none"}
      BY <1>t, <2>1 DEF Handled, Answers401
    <2> DEFINE c == [sent[i] EXCEPT !.answer = h.answer]
    <2>3. c \in SentCalls /\ c.kind = sent[i].kind /\ (c.waits <=> sent[i].waits)
      BY <1>t, <1>6, <2>2 DEF SentCalls
    <2>4. sent' = [sent EXCEPT ![i] = c]
      BY <2>1
    <2> HIDE DEF c
    <2>5. /\ SentOK(sent')
          /\ \A j \in Slot : sent'[j].kind = sent[j].kind /\ (sent'[j].waits <=> sent[j].waits)
      BY <1>t, <1>6, <2>3, <2>4 DEF SentOK
    <2>6. UNCHANGED <<door, path, crossed>>
      BY <1>6 DEF Handle
    <2> QED
      BY <1>t, <2>1, <2>2, <2>5, <2>6 DEF AuthInv, SentOK, MeAsked, Waiting
  <1>7. ASSUME NEW i \in Slot, Refused(i)
        PROVE  AuthInv'
    <2>0. path' = "login" /\ UNCHANGED <<session, crossed>>
      BY <1>7 DEF Refused
    <2>1. CASE sent' = Rest(i) /\ UNCHANGED door
      BY <1>7, <1>t, <2>0, <2>1, RestIsCalls, IdleIsCall DEF AuthInv, SentOK, MeAsked, Waiting
    <2>2. CASE /\ sent' = RestSuperseded(i)
               /\ door' = [role |-> "none", initialized |-> sent[i].kind = "me"]
      <3>1. door' \in [role : Role \cup {"none"}, initialized : BOOLEAN] /\ door'.role = "none"
        BY <2>2
      <3> QED
        BY <1>7, <1>t, <2>0, <2>2, <3>1, RestSupersededIsCalls DEF AuthInv, SentOK
    <2> QED
      BY <1>7, <2>1, <2>2 DEF Refused
  <1>8. ASSUME NEW i \in Slot, Unreachable(i)
        PROVE  AuthInv'
    <2>0. sent' = Rest(i) /\ UNCHANGED <<session, crossed>>
      BY <1>8 DEF Unreachable
    <2>1. CASE sent[i].kind # "me" /\ UNCHANGED <<door, path>>
      BY <1>8, <1>t, <2>0, <2>1, RestIsCalls, IdleIsCall DEF AuthInv, SentOK, MeAsked, Waiting
    <2>2. CASE /\ sent[i].kind = "me"
               /\ door' = [role |-> "none", initialized |-> TRUE]
               /\ path' = IF sent[i].waits THEN "login" ELSE path
      BY <1>8, <1>t, <2>0, <2>2, RestIsCalls, IdleIsCall DEF AuthInv, SentOK, MeAsked, Waiting
    <2> QED
      BY <1>8, <2>1, <2>2 DEF Unreachable
  <1>9. ASSUME NEW i \in Slot, MeAnswered(i)
        PROVE  AuthInv'
    <2>1. /\ sent[i].kind = "me" /\ sent[i].answer \in Role /\ sent' = Rest(i)
          /\ door' = [role |-> sent[i].answer, initialized |-> TRUE]
          /\ session' = session
      BY <1>9 DEF MeAnswered
    <2>2. crossed' \in BOOLEAN /\ (~crossed' => ~Asking(i))
      BY <1>9, Zenon DEF MeAnswered
    <2> QED
      BY <1>9, <1>t, <2>1, <2>2, RestIsCalls, IdleIsCall
      DEF AuthInv, SentOK, MeAsked, Waiting, Asking
  <1>10. ASSUME NEW i \in Slot, LoginAnsweredAdmin(i)
        PROVE  AuthInv'
    <2>1. /\ sent[i].kind = "login" /\ sent' = RestSuperseded(i)
          /\ door' = [role |-> "admin", initialized |-> TRUE]
          /\ session' = session
      BY <1>10 DEF LoginAnsweredAdmin
    <2>2. crossed' \in BOOLEAN /\ (~crossed' => ~Asking(i))
      BY <1>10, Zenon DEF LoginAnsweredAdmin
    <2> QED
      BY <1>10, <1>t, <2>1, <2>2, RestSupersededIsCalls, SupersededIsCalls, IdleIsCall
      DEF AuthInv, SentOK, MeAsked, Waiting, Asking, Role
  <1>11. ASSUME NEW i \in Slot, LoginAnsweredOther(i) \/ DataAnswered(i)
        PROVE  AuthInv'
    <2>1. sent[i].kind # "me" /\ sent' = Rest(i) /\ UNCHANGED <<door, path, session, crossed>>
      BY <1>11 DEF LoginAnsweredOther, DataAnswered
    <2> QED
      BY <1>11, <1>t, <2>1, RestIsCalls, IdleIsCall DEF AuthInv, SentOK, MeAsked, Waiting
  <1>12. ASSUME NEW i \in Slot, LogoutAnswered(i)
        PROVE  AuthInv'
    <2>1. /\ sent[i].kind = "logout" /\ sent' = Rest(i) /\ UNCHANGED <<path, session, crossed>>
          /\ door' = [role |-> "none", initialized |-> FALSE]
      BY <1>12 DEF LogoutAnswered
    <2> QED
      BY <1>12, <1>t, <2>1, RestIsCalls, IdleIsCall DEF AuthInv, SentOK, MeAsked, Waiting
  <1>13. CASE UNCHANGED authVars
    BY <1>13 DEF authVars, AuthInv, MeAsked, Waiting
  <1> QED
    BY <1>1, <1>2, <1>3, <1>4, <1>5, <1>6, <1>7, <1>8, <1>9, <1>10, <1>11, <1>12, <1>13
    DEF AuthNext

\* The inductive invariant of the auth store (admin stores/auth.ts, router/index.ts).
THEOREM AuthInvHolds == AuthSpec => []AuthInv
  BY AuthStarts, AuthSteps, PTL DEF AuthSpec

\* With no navigation pending, no guarded page is open over a store that is sure of
\* having no role, unless somebody was let in while another /me was in flight (admin
\* router/index.ts, the navigation guard; stores/auth.ts; main.ts, the reaction to a
\* 401).
THEOREM GuardedPagesHaveARole == AuthSpec => []GuardedNeedsRole
  <1>1. AuthInv => GuardedNeedsRole
    BY DEF AuthInv, GuardedNeedsRole, Waiting
  <1> QED
    BY AuthInvHolds, <1>1, PTL

-----------------------------------------------------------------------------
(******************************************************************************)
(* Calls that are not answered yet are links of a chain: the switch shows     *)
(* what the last one carries, and each carries the opposite of the one before *)
(* it, or of the row. Chained says so of a province as long as switch and row *)
(* have not parted; Alone says how a call that is the only one mends it.      *)
(******************************************************************************)

\* A call that a switch has made, what is remembered of a province, and a list.
ToggleCalls == [stage : {"none", "sent", "done", "refused"}, value : BOOLEAN, here : BOOLEAN]
Turns == [made : Nat, written : Nat, parted : BOOLEAN]
Listed == [stage : {"asked", "read", "shown", "failed"}, read : [Place -> BOOLEAN]]

\* The calls of this page that may still change the row, or the switch, after the
\* last one that reached the row.
Pending(p, i) ==
    i \in Turn /\ toggles[p][i].here /\ toggles[p][i].stage \in {"sent", "refused"}
               /\ i > turns[p].written

\* What link k carries: what reached the row last is what the row has.
Link(p, k) == k = turns[p].written \/ Pending(p, k)
Carried(p, k) == IF k = turns[p].written THEN visited[p] ELSE toggles[p][k].value

\* The next link carries the opposite, and the switch shows the last one.
Chained(p) ==
    /\ \A k \in Nat, i \in Turn :
          /\ Link(p, k) /\ Pending(p, i) /\ k < i
          /\ \A m \in Turn : Pending(p, m) => ~(k < m /\ m < i)
          => (Carried(p, i) <=> ~Carried(p, k))
    /\ \A k \in Nat :
          Link(p, k) /\ (\A m \in Turn : Pending(p, m) => m <= k)
          => (switch[p] <=> Carried(p, k))

\* The only call since none was in flight.
Alone(p) ==
    \A i \in Turn : toggles[p][i].here /\ turns[p].made = 1 =>
        /\ switch[p] <=> toggles[p][i].value
        /\ toggles[p][i].stage = "done" => (visited[p] <=> toggles[p][i].value)

\* How the calls of a province are numbered, and whose they are.
Numbered(p) ==
    /\ turns[p].written <= turns[p].made
    /\ \A i \in Turn :
          /\ toggles[p][i].stage = "none" => toggles[p][i] = NoToggle
          /\ toggles[p][i] # NoToggle => i <= turns[p].made
          /\ toggles[p][i].stage \in {"sent", "refused"} => i # turns[p].written
          /\ toggles[p][i].here => listing.stage = "shown"

\* The list shows, or will show, what the row has.
Sure(p) ==
    /\ listing.stage = "read" => (listing.read[p] <=> visited[p])
    /\ listing.stage = "shown" => Chained(p)

PlaceInv(p) == Numbered(p) /\ Alone(p) /\ (~turns[p].parted => Sure(p))

VisitsTypes ==
    /\ visited \in [Place -> BOOLEAN] /\ switch \in [Place -> BOOLEAN]
    /\ toggles \in [Place -> [Turn -> ToggleCalls]]
    /\ turns \in [Place -> Turns]
    /\ listing \in Listed

\* The inductive invariant.
VisitsInv == VisitsTypes /\ \A p \in Place : PlaceInv(p)

\* A turn is a number.
LEMMA TurnsAreNumbers == Turn \subseteq Nat /\ \A i \in Turn : i >= 1
  BY SomeToggles DEF Turn

\* With no call of this page in flight a chain is the row alone.
LEMMA RowAlone ==
  ASSUME VisitsTypes, NEW p \in Place, \A i \in Turn : ~Pending(p, i)
  PROVE  Chained(p) <=> (switch[p] <=> visited[p])
  <1>1. turns[p].written \in Nat
    BY DEF VisitsTypes, Turns
  <1>2. \A k \in Nat : Link(p, k) <=> k = turns[p].written
    BY TurnsAreNumbers DEF Link, Pending
  <1>3. Carried(p, turns[p].written) = visited[p]
    BY DEF Carried
  <1> QED
    BY <1>1, <1>2, <1>3 DEF Chained

\* No list and no call at first.
LEMMA VisitsStart == VisitsInit => VisitsInv
  <1> SUFFICES ASSUME VisitsInit PROVE VisitsInv
    OBVIOUS
  <1>1. NoToggle \in ToggleCalls /\ Asked \in Listed /\ NoToggle.stage = "none" /\ ~NoToggle.here
    BY DEF NoToggle, ToggleCalls, Asked, Listed
  <1>2. /\ toggles = [p \in Place |-> [i \in Turn |-> NoToggle]] /\ listing = Asked
        /\ turns = [p \in Place |-> [made |-> 0, written |-> 0, parted |-> FALSE]]
    BY DEF VisitsInit
  <1>3. listing.stage = "asked" /\ \A p \in Place, i \in Turn : toggles[p][i] = NoToggle
    BY <1>2 DEF Asked
  <1>4. VisitsTypes
    BY <1>1, <1>2 DEF VisitsInit, VisitsTypes, Turns
  <1>5. ASSUME NEW p \in Place PROVE PlaceInv(p)
    BY <1>1, <1>2, <1>3, <1>5 DEF PlaceInv, Numbered, Alone, Sure
  <1> QED
    BY <1>4, <1>5 DEF VisitsInv

\* Call i for province p becomes c, and the province is remembered as t.
OnlyCall(p, i, c, t) ==
    /\ toggles' \in [Place -> [Turn -> ToggleCalls]]
    /\ \A q \in Place \ {p} : toggles'[q] = toggles[q]
    /\ \A j \in Turn : toggles'[p][j] = IF j = i THEN c ELSE toggles[p][j]
    /\ turns' \in [Place -> Turns] /\ turns'[p] = t
    /\ \A q \in Place \ {p} : turns'[q] = turns[q]
    /\ listing' = listing
    /\ visited' \in [Place -> BOOLEAN] /\ switch' \in [Place -> BOOLEAN]
    /\ \A q \in Place \ {p} : visited'[q] = visited[q] /\ switch'[q] = switch[q]

\* A call for one province leaves the others as they were.
LEMMA OnePlaceMoves ==
  ASSUME VisitsInv, NEW p \in Place, NEW i \in Turn, NEW c, NEW t,
         OnlyCall(p, i, c, t), PlaceInv(p)'
  PROVE  VisitsInv'
  <1>1. VisitsTypes'
    BY DEF VisitsInv, VisitsTypes, OnlyCall
  <1>2. ASSUME NEW q \in Place \ {p} PROVE PlaceInv(q)'
    <2>1. PlaceInv(q)
      BY <1>2 DEF VisitsInv
    <2>2. /\ toggles'[q] = toggles[q] /\ turns'[q] = turns[q] /\ visited'[q] = visited[q]
          /\ switch'[q] = switch[q] /\ listing' = listing
      BY <1>2 DEF OnlyCall
    <2>3. /\ \A j : Pending(q, j)' <=> Pending(q, j)
          /\ \A k : (Link(q, k)' <=> Link(q, k)) /\ Carried(q, k)' = Carried(q, k)
      BY <2>2 DEF Pending, Link, Carried
    <2>4. Chained(q) => Chained(q)'
      BY <2>2, <2>3 DEF Chained
    <2>5. Numbered(q)' /\ Alone(q)'
      BY <2>1, <2>2 DEF PlaceInv, Numbered, Alone
    <2>6. ~turns'[q].parted => Sure(q)'
      BY <2>1, <2>2, <2>4 DEF PlaceInv, Sure
    <2> QED
      BY <2>5, <2>6 DEF PlaceInv
  <1> QED
    BY <1>1, <1>2 DEF VisitsInv

\* The chain gets a link.
LEMMA ChainGrows ==
  ASSUME VisitsTypes, VisitsTypes', NEW p \in Place, NEW n \in Turn, Chained(p),
         \A j \in Turn : Pending(p, j)' <=> j = n \/ Pending(p, j),
         \A j \in Turn : Pending(p, j) => j < n,
         turns[p].written < n, turns'[p].written = turns[p].written,
         visited'[p] = visited[p],
         \A j \in Turn \ {n} : toggles'[p][j] = toggles[p][j],
         toggles'[p][n].value <=> ~switch[p], switch'[p] <=> ~switch[p]
  PROVE  Chained(p)'
  <1>1. turns[p].written \in Nat /\ n \in Nat /\ Turn \subseteq Nat
    BY TurnsAreNumbers DEF VisitsTypes, Turns
  <1>2. \A k \in Nat : Link(p, k)' <=> k = n \/ Link(p, k)
    BY <1>1 DEF Link, Pending
  <1>3. \A k \in Nat : Link(p, k) => k < n /\ Carried(p, k)' = Carried(p, k)
    BY <1>1 DEF Link, Pending, Carried
  <1>4. Carried(p, n)' <=> ~switch[p]
    BY <1>1 DEF Carried
  <1>5. ASSUME NEW k \in Nat, NEW i \in Turn, Link(p, k)', Pending(p, i)', k < i,
               \A m \in Turn : Pending(p, m)' => ~(k < m /\ m < i)
        PROVE  Carried(p, i)' <=> ~Carried(p, k)'
    <2>1. Link(p, k) /\ k < n
      <3>1. CASE k = n
        BY <1>1, <1>5, <3>1
      <3> QED
        BY <1>2, <1>3, <1>5, <3>1
    <2>2. CASE i = n
      <3>1. \A m \in Turn : Pending(p, m) => m <= k
        BY <1>1, <1>5, <2>2
      <3>2. switch[p] <=> Carried(p, k)
        BY <2>1, <3>1 DEF Chained
      <3> QED
        BY <1>3, <1>4, <2>1, <2>2, <3>2
    <2>3. CASE i # n
      <3>1. Pending(p, i) /\ \A m \in Turn : Pending(p, m) => ~(k < m /\ m < i)
        BY <1>5, <2>3
      <3>2. Carried(p, i) <=> ~Carried(p, k)
        BY <1>5, <2>1, <3>1 DEF Chained
      <3>3. Link(p, i) /\ i \in Nat
        BY <1>1, <3>1 DEF Link
      <3> QED
        BY <1>3, <2>1, <3>2, <3>3
    <2> QED
      BY <2>2, <2>3
  <1>6. ASSUME NEW k \in Nat, Link(p, k)', \A m \in Turn : Pending(p, m)' => m <= k
        PROVE  switch'[p] <=> Carried(p, k)'
    <2>1. k = n
      BY <1>1, <1>2, <1>3, <1>6
    <2> QED
      BY <1>4, <2>1
  <1> QED
    BY <1>5, <1>6 DEF Chained

\* The last link goes, and the switch with it.
LEMMA ChainShrinks ==
  ASSUME VisitsTypes, VisitsTypes', NEW p \in Place, NEW n \in Turn, Chained(p), Pending(p, n),
         \A j \in Turn : Pending(p, j)' <=> j # n /\ Pending(p, j),
         \A j \in Turn : Pending(p, j) => j <= n,
         turns'[p].written = turns[p].written,
         visited'[p] = visited[p],
         \A j \in Turn \ {n} : toggles'[p][j] = toggles[p][j],
         switch'[p] <=> ~switch[p]
  PROVE  Chained(p)'
  <1>1. turns[p].written \in Nat /\ n \in Nat /\ Turn \subseteq Nat /\ turns[p].written < n
    BY TurnsAreNumbers DEF VisitsTypes, Turns, Pending
  <1>2. \A k \in Nat : Link(p, k)' <=> k # n /\ Link(p, k)
    BY <1>1 DEF Link, Pending
  <1>3. \A k \in Nat : k # n /\ Link(p, k) => Carried(p, k)' = Carried(p, k)
    BY <1>1 DEF Link, Pending, Carried
  <1>4. switch[p] <=> Carried(p, n)
    BY <1>1 DEF Chained, Link
  <1>5. ASSUME NEW k \in Nat, NEW i \in Turn, Link(p, k)', Pending(p, i)', k < i,
               \A m \in Turn : Pending(p, m)' => ~(k < m /\ m < i)
        PROVE  Carried(p, i)' <=> ~Carried(p, k)'
    <2>1. Link(p, k) /\ k # n /\ Pending(p, i) /\ i # n /\ i < n
      BY <1>1, <1>2, <1>5
    <2>2. ASSUME NEW m \in Turn, Pending(p, m) PROVE ~(k < m /\ m < i)
      <3>1. CASE m = n
        <4>1. i \in Nat /\ n \in Nat /\ i < n
          BY <1>1, <1>5, <2>1
        <4>2. ~(n < i)
          BY <4>1
        <4> QED
          BY <3>1, <4>2
      <3>2. CASE m # n
        BY <1>5, <2>2, <3>2
      <3> QED
        BY <3>1, <3>2
    <2>3. Carried(p, i) <=> ~Carried(p, k)
      BY <1>5, <2>1, <2>2 DEF Chained
    <2>4. Link(p, i) /\ i \in Nat
      BY <1>1, <2>1 DEF Link
    <2> QED
      BY <1>3, <2>1, <2>3, <2>4
  <1>6. ASSUME NEW k \in Nat, Link(p, k)', \A m \in Turn : Pending(p, m)' => m <= k
        PROVE  switch'[p] <=> Carried(p, k)'
    <2>1. Link(p, k) /\ k # n
      BY <1>2, <1>6
    <2>2. k < n
      <3>1. CASE k = turns[p].written
        BY <1>1, <3>1
      <3>2. CASE Pending(p, k)
        <4>1. k \in Turn
          BY <3>2 DEF Pending
        <4> QED
          BY <1>1, <1>6, <2>1, <3>2, <4>1
      <3> QED
        BY <2>1, <3>1, <3>2 DEF Link
    <2>3. ASSUME NEW m \in Turn, Pending(p, m) PROVE ~(k < m /\ m < n)
      <3>1. CASE m = n
        BY <1>1, <3>1
      <3>2. CASE m # n
        <4>1. m <= k
          BY <1>6, <2>3, <3>2
        <4> QED
          BY <1>1, <1>6, <4>1
      <3> QED
        BY <3>1, <3>2
    <2>4. Carried(p, n) <=> ~Carried(p, k)
      BY <2>1, <2>2, <2>3 DEF Chained
    <2> QED
      BY <1>3, <1>4, <2>1, <2>4
  <1> QED
    BY <1>5, <1>6 DEF Chained

\* A link reaches the row, and those before it are none any more.
LEMMA ChainAdvances ==
  ASSUME VisitsTypes, VisitsTypes', NEW p \in Place, NEW n \in Turn, Chained(p), Pending(p, n),
         \A j \in Turn : Pending(p, j)' <=> j > n /\ Pending(p, j),
         turns'[p].written = n, visited'[p] <=> toggles[p][n].value,
         \A j \in Turn \ {n} : toggles'[p][j] = toggles[p][j],
         switch'[p] = switch[p]
  PROVE  Chained(p)'
  <1>1. turns[p].written \in Nat /\ n \in Nat /\ Turn \subseteq Nat /\ turns[p].written < n
    BY TurnsAreNumbers DEF VisitsTypes, Turns, Pending
  <1>2. \A k \in Nat : Link(p, k)' <=> k >= n /\ Link(p, k)
    BY <1>1 DEF Link, Pending
  <1>3. \A k \in Nat : k >= n /\ Link(p, k) => (Carried(p, k)' <=> Carried(p, k))
    <2>1. Carried(p, n)' <=> Carried(p, n)
      BY <1>1 DEF Carried
    <2>2. ASSUME NEW k \in Nat, k >= n, k # n, Link(p, k) PROVE Carried(p, k)' <=> Carried(p, k)
      <3>1. k \in Turn \ {n} /\ k # turns[p].written /\ k # turns'[p].written
        BY <1>1, <2>2 DEF Link, Pending
      <3> QED
        BY <3>1 DEF Carried
    <2> QED
      BY <1>1, <2>1, <2>2
  <1>5. ASSUME NEW k \in Nat, NEW i \in Turn, Link(p, k)', Pending(p, i)', k < i,
               \A m \in Turn : Pending(p, m)' => ~(k < m /\ m < i)
        PROVE  Carried(p, i)' <=> ~Carried(p, k)'
    <2>1. Link(p, k) /\ k >= n /\ Pending(p, i) /\ i >= n
      BY <1>1, <1>2, <1>5
    <2>2. \A m \in Turn : Pending(p, m) => ~(k < m /\ m < i)
      BY <1>1, <1>5, <2>1
    <2>3. Carried(p, i) <=> ~Carried(p, k)
      BY <1>5, <2>1, <2>2 DEF Chained
    <2>4. Link(p, i) /\ i \in Nat
      BY <1>1, <2>1 DEF Link
    <2> QED
      BY <1>3, <2>1, <2>3, <2>4
  <1>6. ASSUME NEW k \in Nat, Link(p, k)', \A m \in Turn : Pending(p, m)' => m <= k
        PROVE  switch'[p] <=> Carried(p, k)'
    <2>1. Link(p, k) /\ k >= n
      BY <1>2, <1>6
    <2>2. \A m \in Turn : Pending(p, m) => m <= k
      BY <1>1, <1>6, <2>1
    <2>3. switch[p] <=> Carried(p, k)
      BY <2>1, <2>2 DEF Chained
    <2> QED
      BY <1>3, <2>1, <2>3
  <1> QED
    BY <1>5, <1>6 DEF Chained

\* The switch is flipped, and a call is sent.
LEMMA ToggleSteps ==
  ASSUME VisitsInv, NEW p \in Place, Toggle(p)
  PROVE  VisitsInv'
  <1>m. Made(p) \in Turn
    BY DEF Toggle
  <1>p. PICK n \in Turn : n = Made(p)
    BY <1>m
  <1> DEFINE c == [stage |-> "sent", value |-> ~switch[p], here |-> TRUE]
             t == [turns[p] EXCEPT !.made = n, !.written = IF InFlight(p) THEN @ ELSE 0]
  <1>t. VisitsTypes /\ turns[p] \in Turns /\ Numbered(p) /\ (~turns[p].parted => Sure(p))
    BY DEF VisitsInv, VisitsTypes, PlaceInv
  <1>n. n \in Turn /\ n \in Nat /\ n >= 1 /\ Turn \subseteq Nat
    BY <1>p, TurnsAreNumbers
  <1>1. /\ listing.stage = "shown" /\ toggles' = [toggles EXCEPT ![p][n] = c]
        /\ switch' = [switch EXCEPT ![p] = ~@] /\ turns' = [turns EXCEPT ![p] = t]
        /\ visited' = visited /\ listing' = listing
    <2>1. turns' = [turns EXCEPT ![p].made = Made(p),
                                 ![p].written = IF InFlight(p) THEN @ ELSE 0]
      BY DEF Toggle
    <2>2. turns' = [turns EXCEPT ![p] = t]
      BY <1>t, <1>p, <2>1 DEF VisitsTypes
    <2> QED
      BY <1>p, <2>2 DEF Toggle
  <1>2. c \in ToggleCalls /\ c.stage = "sent" /\ c.here /\ (c.value <=> ~switch[p])
    BY <1>t DEF VisitsTypes, ToggleCalls
  <1>3. /\ t \in Turns /\ t.made = n /\ t.parted = turns[p].parted
        /\ InFlight(p) => t.written = turns[p].written /\ n = turns[p].made + 1
        /\ ~InFlight(p) => t.written = 0 /\ n = 1
    BY <1>t, <1>n, <1>p DEF Turns, Made
  <1> HIDE DEF c, t
  <1>4. switch' \in [Place -> BOOLEAN] /\ (switch'[p] <=> ~switch[p])
        /\ \A q \in Place \ {p} : switch'[q] = switch[q]
    BY <1>t, <1>1 DEF VisitsTypes
  <1>5. OnlyCall(p, n, c, t)
    BY <1>t, <1>n, <1>1, <1>2, <1>3, <1>4 DEF OnlyCall, VisitsTypes
  <1>6. /\ \A j \in Turn : toggles'[p][j] = IF j = n THEN c ELSE toggles[p][j]
        /\ turns'[p] = t
    BY <1>5 DEF OnlyCall
  <1>7. VisitsTypes'
    BY <1>t, <1>5 DEF VisitsTypes, OnlyCall
  <1>8. /\ t.written < n
        /\ \A j \in Turn : toggles[p][j] # NoToggle => j < n /\ InFlight(p)
    <2>1. \A j \in Turn : toggles[p][j] # NoToggle => j <= turns[p].made /\ InFlight(p)
      BY <1>t DEF Numbered, InFlight
    <2> QED
      BY <1>t, <1>n, <1>3, <2>1 DEF Turns, Numbered
  <1>9. Numbered(p)'
    <2>1. t.written <= t.made
      BY <1>n, <1>3, <1>8 DEF Turns
    <2>2. ASSUME NEW j \in Turn
          PROVE  /\ toggles'[p][j].stage = "none" => toggles'[p][j] = NoToggle
                 /\ toggles'[p][j] # NoToggle => j <= t.made
                 /\ toggles'[p][j].stage \in {"sent", "refused"} => j # t.written
                 /\ toggles'[p][j].here => listing'.stage = "shown"
      <3>1. CASE j = n
        BY <1>n, <1>1, <1>2, <1>3, <1>6, <1>8, <3>1 DEF Turns
      <3>2. CASE j # n
        <4>1. toggles'[p][j] = toggles[p][j]
          BY <1>6, <3>2
        <4>2. toggles[p][j] = NoToggle => toggles[p][j].stage = "none"
          BY DEF NoToggle
        <4> QED
          BY <1>t, <1>n, <1>1, <1>3, <1>8, <4>1, <4>2 DEF Numbered, Turns
      <3> QED
        BY <3>1, <3>2
    <2> QED
      BY <1>6, <2>1, <2>2 DEF Numbered
  <1>10. Alone(p)'
    <2>1. ASSUME NEW j \in Turn, toggles'[p][j].here, t.made = 1 PROVE j = n
      <3>1. j # n => toggles[p][j] # NoToggle
        BY <1>6, <2>1 DEF NoToggle
      <3> QED
        BY <1>n, <1>3, <1>8, <2>1, <3>1, TurnsAreNumbers
    <2> QED
      BY <1>2, <1>4, <1>6, <2>1 DEF Alone
  <1>11. ASSUME ~turns'[p].parted PROVE Chained(p)'
    <2>1. Chained(p)
      BY <1>t, <1>1, <1>3, <1>6, <1>11 DEF Sure
    <2>2. \A j \in Turn : Pending(p, j) => j < n /\ InFlight(p)
      BY <1>8 DEF Pending, NoToggle
    <2>w. turns'[p].written = t.written /\ toggles'[p][n] = c
          /\ \A j \in Turn : j # n => toggles'[p][j] = toggles[p][j]
      BY <1>n, <1>6
    <2>3. Pending(p, n)'
      <3>1. n > t.written
        BY <1>n, <1>3, <1>8 DEF Turns
      <3> QED
        BY <1>n, <1>2, <2>w, <3>1 DEF Pending
    <2>4. CASE InFlight(p)
      <3>1. turns'[p].written = turns[p].written
        BY <1>3, <1>6, <2>4
      <3>2. \A j \in Turn : Pending(p, j)' <=> j = n \/ Pending(p, j)
        BY <2>3, <2>w, <3>1 DEF Pending
      <3>3. /\ turns[p].written < n /\ visited'[p] = visited[p]
            /\ \A j \in Turn \ {n} : toggles'[p][j] = toggles[p][j]
            /\ toggles'[p][n].value <=> ~switch[p]
        BY <1>n, <1>1, <1>2, <1>3, <1>6, <1>8, <2>4
      <3> QED
        BY <1>t, <1>n, <1>4, <1>7, <2>1, <2>2, <3>1, <3>2, <3>3, ChainGrows
    <2>5. CASE ~InFlight(p)
      <3>1. switch[p] <=> visited[p]
        BY <1>t, <2>1, <2>2, <2>5, RowAlone
      <3>2. turns'[p].written = 0 /\ n = 1
        BY <1>3, <1>6, <2>5
      <3>3. \A j \in Turn : Pending(p, j)' <=> j = n
        <4>1. \A j \in Turn : j # n => ~toggles'[p][j].here
          BY <1>8, <2>5, <2>w DEF NoToggle
        <4> QED
          BY <2>3, <4>1 DEF Pending
      <3>4. \A k \in Nat : Link(p, k)' <=> k \in {0, n}
        BY <1>n, <3>2, <3>3 DEF Link, Pending
      <3>5. (Carried(p, 0)' <=> visited[p]) /\ (Carried(p, n)' <=> ~switch[p])
        <4>1. Carried(p, 0)' = visited'[p] /\ Carried(p, n)' = toggles'[p][n].value
          BY <3>2 DEF Carried
        <4> QED
          BY <1>1, <1>2, <2>w, <4>1
      <3>6. ASSUME NEW k \in Nat, NEW j \in Turn, Link(p, k)', Pending(p, j)', k < j
            PROVE  Carried(p, j)' <=> ~Carried(p, k)'
        <4>1. j = n /\ k = 0
          BY <1>n, <3>2, <3>3, <3>4, <3>6
        <4> QED
          BY <3>1, <3>5, <4>1
      <3>7. ASSUME NEW k \in Nat, Link(p, k)', \A m \in Turn : Pending(p, m)' => m <= k
            PROVE  switch'[p] <=> Carried(p, k)'
        <4>1. n <= k
          BY <1>n, <2>3, <3>7
        <4>2. k = n
          BY <3>2, <3>4, <3>7, <4>1
        <4> QED
          BY <1>4, <3>5, <4>2
      <3> QED
        BY <3>6, <3>7 DEF Chained
    <2> QED
      BY <2>4, <2>5
  <1>12. PlaceInv(p)'
    BY <1>1, <1>9, <1>10, <1>11 DEF PlaceInv, Sure
  <1> QED
    BY <1>n, <1>5, <1>12, OnePlaceMoves


\* A call that is no link changes nothing of the chain.
LEMMA ChainStays ==
  ASSUME VisitsTypes, NEW p \in Place, Chained(p),
         \A j \in Turn : Pending(p, j)' <=> Pending(p, j),
         \A j \in Turn : Pending(p, j) => (toggles'[p][j].value <=> toggles[p][j].value),
         turns'[p].written = turns[p].written,
         visited'[p] = visited[p], switch'[p] = switch[p]
  PROVE  Chained(p)'
  <1>1. \A k \in Nat : Link(p, k)' <=> Link(p, k)
    BY DEF Link, Pending
  <1>2. \A k \in Nat : Link(p, k) => (Carried(p, k)' <=> Carried(p, k))
    BY DEF Link, Pending, Carried
  <1>3. \A i \in Turn : Pending(p, i) => i \in Nat /\ Link(p, i)
    BY TurnsAreNumbers DEF Link
  <1>4. ASSUME NEW k \in Nat, NEW i \in Turn, Link(p, k)', Pending(p, i)', k < i,
               \A m \in Turn : Pending(p, m)' => ~(k < m /\ m < i)
        PROVE  Carried(p, i)' <=> ~Carried(p, k)'
    <2>1. Link(p, k) /\ Pending(p, i) /\ \A m \in Turn : Pending(p, m) => ~(k < m /\ m < i)
      BY <1>1, <1>4
    <2>2. Carried(p, i) <=> ~Carried(p, k)
      BY <1>4, <2>1 DEF Chained
    <2> QED
      BY <1>2, <1>3, <2>1, <2>2
  <1>5. ASSUME NEW k \in Nat, Link(p, k)', \A m \in Turn : Pending(p, m)' => m <= k
        PROVE  switch'[p] <=> Carried(p, k)'
    <2>1. Link(p, k) /\ \A m \in Turn : Pending(p, m) => m <= k
      BY <1>1, <1>5
    <2>2. switch[p] <=> Carried(p, k)
      BY <2>1 DEF Chained
    <2> QED
      BY <1>2, <2>1, <2>2
  <1> QED
    BY <1>4, <1>5 DEF Chained

\* A switch that agrees with the row when no call is pending is a chain.
LEMMA ChainIsRow ==
  ASSUME VisitsTypes', NEW p \in Place, \A i \in Turn : ~Pending(p, i)',
         switch'[p] <=> visited'[p]
  PROVE  Chained(p)'
  <1>1. turns'[p].written \in Nat
    BY DEF VisitsTypes, Turns
  <1>2. \A k \in Nat : Link(p, k)' <=> k = turns'[p].written
    BY DEF Link, Pending
  <1>3. \A k \in Nat : k = turns'[p].written => Carried(p, k)' = visited'[p]
    BY DEF Carried
  <1>4. \A k \in Nat : Link(p, k)' => (switch'[p] <=> Carried(p, k)')
    BY <1>2, <1>3
  <1> QED
    BY <1>4 DEF Chained

\* The row is written.
LEMMA UpdateSteps ==
  ASSUME VisitsInv, NEW p \in Place, NEW i \in Turn, UpdateProvince(p, i)
  PROVE  VisitsInv'
  <1> DEFINE c == [toggles[p][i] EXCEPT !.stage = "done"]
             late == \/ ~toggles[p][i].here /\ listing.stage # "asked"
                     \/ turns[p].written > i
             t == [turns[p] EXCEPT !.written = i, !.parted = @ \/ late]
  <1>t. /\ VisitsTypes /\ turns[p] \in Turns /\ toggles[p][i] \in ToggleCalls
        /\ Numbered(p) /\ Alone(p) /\ (~turns[p].parted => Sure(p))
    BY DEF VisitsInv, VisitsTypes, PlaceInv
  <1>n. i \in Nat /\ i >= 1 /\ Turn \subseteq Nat
    BY TurnsAreNumbers
  <1>1. /\ toggles[p][i].stage = "sent" /\ toggles' = [toggles EXCEPT ![p][i] = c]
        /\ turns' = [turns EXCEPT ![p] = t] /\ switch' = switch /\ listing' = listing
        /\ visited' = [visited EXCEPT ![p] = toggles[p][i].value]
    BY <1>t DEF UpdateProvince, VisitsTypes
  <1>2. /\ c \in ToggleCalls /\ c.stage = "done" /\ c.here = toggles[p][i].here
        /\ c.value = toggles[p][i].value
    BY <1>t DEF ToggleCalls
  <1>l. late \in BOOLEAN /\ (late <=> \/ ~toggles[p][i].here /\ listing.stage # "asked"
                                      \/ turns[p].written > i)
    OBVIOUS
  <1> HIDE DEF late
  <1>3. /\ t \in Turns /\ t.made = turns[p].made /\ t.written = i
        /\ ~t.parted => ~turns[p].parted /\ ~late
    BY <1>t, <1>n, <1>l DEF Turns
  <1> HIDE DEF c, t
  <1>4. OnlyCall(p, i, c, t) /\ visited'[p] = toggles[p][i].value
    BY <1>t, <1>1, <1>2, <1>3 DEF OnlyCall, VisitsTypes, ToggleCalls
  <1>5. /\ toggles'[p][i] = c /\ \A j \in Turn \ {i} : toggles'[p][j] = toggles[p][j]
        /\ turns'[p] = t
    BY <1>4 DEF OnlyCall
  <1>6. VisitsTypes'
    BY <1>t, <1>4 DEF VisitsTypes, OnlyCall
  <1>7. i <= turns[p].made
    BY <1>t, <1>1 DEF Numbered, NoToggle
  <1>8. Numbered(p)'
    BY <1>t, <1>1, <1>2, <1>3, <1>5, <1>7 DEF Numbered
  <1>9. Alone(p)'
    <2>1. ASSUME NEW j \in Turn, toggles'[p][j].here, t.made = 1 PROVE j = i
      <3>1. j # i => j <= turns[p].made
        BY <1>t, <1>5, <2>1 DEF Numbered, NoToggle
      <3>2. turns[p].made = 1 /\ j \in Nat /\ j >= 1 /\ i <= 1
        BY <1>3, <1>7, <2>1, TurnsAreNumbers
      <3> QED
        BY <1>n, <3>1, <3>2
    <2>2. toggles[p][i].here /\ t.made = 1 => (switch[p] <=> toggles[p][i].value)
      BY <1>t, <1>3 DEF Alone
    <2> QED
      BY <1>1, <1>2, <1>4, <1>5, <2>1, <2>2 DEF Alone
  <1>10. ASSUME ~turns'[p].parted PROVE Sure(p)'
    <2>1. Sure(p) /\ (toggles[p][i].here \/ listing.stage = "asked") /\ ~(turns[p].written > i)
      BY <1>t, <1>l, <1>3, <1>5, <1>10
    <2>2. toggles[p][i].here => listing.stage = "shown"
      BY <1>t DEF Numbered
    <2>3. ASSUME listing.stage = "shown" PROVE Chained(p)'
      <3>1. toggles[p][i].here /\ Chained(p) /\ i # turns[p].written
        BY <1>t, <1>1, <2>1, <2>3 DEF Sure, Numbered
      <3>2. turns[p].written < i
        BY <1>t, <1>n, <2>1, <3>1 DEF Turns
      <3>3. Pending(p, i)
        BY <1>1, <1>n, <1>t, <3>1, <3>2 DEF Pending, Turns
      <3>4. ASSUME NEW j \in Turn PROVE Pending(p, j)' <=> j > i /\ Pending(p, j)
        <4>1. CASE j = i
          BY <1>n, <1>2, <1>5, <4>1 DEF Pending
        <4>2. CASE j # i
          <5>1. j \in Nat /\ (j > i => j > turns[p].written)
            <6>1. j \in Nat /\ turns[p].written \in Nat
              BY <1>t, <1>n, <3>4 DEF Turns
            <6> QED
              BY <1>n, <3>2, <6>1
          <5>2. toggles'[p][j] = toggles[p][j] /\ turns'[p].written = i
            BY <1>3, <1>5, <3>4, <4>2
          <5> QED
            BY <5>1, <5>2 DEF Pending
        <4> QED
          BY <4>1, <4>2
      <3>5. turns'[p].written = i /\ (visited'[p] <=> toggles[p][i].value) /\ switch'[p] = switch[p]
        BY <1>1, <1>3, <1>4, <1>5
      <3> QED
        BY <1>t, <1>5, <1>6, <3>1, <3>3, <3>4, <3>5, ChainAdvances
    <2> QED
      BY <1>1, <2>1, <2>2, <2>3 DEF Sure
  <1>11. PlaceInv(p)'
    BY <1>8, <1>9, <1>10 DEF PlaceInv
  <1> QED
    BY <1>4, <1>11, OnePlaceMoves

\* A query fails.
LEMMA UpdateFailsSteps ==
  ASSUME VisitsInv, NEW p \in Place, NEW i \in Turn, UpdateFails(p, i)
  PROVE  VisitsInv'
  <1> DEFINE c == [toggles[p][i] EXCEPT !.stage = "refused"]
  <1>t. /\ VisitsTypes /\ turns[p] \in Turns /\ toggles[p][i] \in ToggleCalls
        /\ Numbered(p) /\ Alone(p) /\ (~turns[p].parted => Sure(p))
    BY DEF VisitsInv, VisitsTypes, PlaceInv
  <1>1. /\ toggles[p][i].stage = "sent" /\ toggles' = [toggles EXCEPT ![p][i] = c]
        /\ turns' = turns /\ switch' = switch /\ listing' = listing /\ visited' = visited
    BY <1>t DEF UpdateFails, VisitsTypes
  <1>2. /\ c \in ToggleCalls /\ c.stage = "refused" /\ c.here = toggles[p][i].here
        /\ c.value = toggles[p][i].value
    BY <1>t DEF ToggleCalls
  <1> HIDE DEF c
  <1>3. OnlyCall(p, i, c, turns[p])
    BY <1>t, <1>1, <1>2 DEF OnlyCall, VisitsTypes
  <1>4. toggles'[p][i] = c /\ \A j \in Turn \ {i} : toggles'[p][j] = toggles[p][j]
    BY <1>3 DEF OnlyCall
  <1>5. toggles[p][i] # NoToggle /\ i # turns[p].written
    BY <1>t, <1>1 DEF Numbered, NoToggle
  <1>6. Numbered(p)'
    BY <1>t, <1>1, <1>2, <1>4, <1>5 DEF Numbered
  <1>7. Alone(p)'
    BY <1>t, <1>1, <1>2, <1>4 DEF Alone
  <1>8. ASSUME ~turns'[p].parted PROVE Sure(p)'
    <2>1. Sure(p)
      BY <1>t, <1>1, <1>8
    <2>2. ASSUME Chained(p) PROVE Chained(p)'
      <3>1. ASSUME NEW j \in Turn PROVE Pending(p, j)' <=> Pending(p, j)
        BY <1>1, <1>2, <1>4, <3>1 DEF Pending
      <3>2. \A j \in Turn : toggles'[p][j].value <=> toggles[p][j].value
        BY <1>2, <1>4
      <3> QED
        BY <1>t, <1>1, <2>2, <3>1, <3>2, ChainStays
    <2> QED
      BY <1>1, <2>1, <2>2 DEF Sure
  <1>9. PlaceInv(p)'
    BY <1>6, <1>7, <1>8 DEF PlaceInv
  <1> QED
    BY <1>3, <1>9, OnePlaceMoves

\* A call is acknowledged.
LEMMA ToggledSteps ==
  ASSUME VisitsInv, NEW p \in Place, NEW i \in Turn, Toggled(p, i)
  PROVE  VisitsInv'
  <1> DEFINE first == toggles[p][i].here /\ turns[p].made = 1
             t == [turns[p] EXCEPT !.parted = @ /\ ~first]
  <1>t. /\ VisitsTypes /\ turns[p] \in Turns /\ toggles[p][i] \in ToggleCalls
        /\ Numbered(p) /\ Alone(p) /\ (~turns[p].parted => Sure(p))
    BY DEF VisitsInv, VisitsTypes, PlaceInv
  <1>n. i \in Nat /\ i >= 1 /\ Turn \subseteq Nat
    BY TurnsAreNumbers
  <1>1. /\ toggles[p][i].stage = "done" /\ toggles' = [toggles EXCEPT ![p][i] = NoToggle]
        /\ turns' = [turns EXCEPT ![p] = t] /\ switch' = switch /\ listing' = listing
        /\ visited' = visited
    BY <1>t DEF Toggled, VisitsTypes
  <1>2. NoToggle \in ToggleCalls /\ NoToggle.stage = "none" /\ ~NoToggle.here
    BY DEF NoToggle, ToggleCalls
  <1>l. first \in BOOLEAN /\ (first <=> toggles[p][i].here /\ turns[p].made = 1)
    OBVIOUS
  <1> HIDE DEF first
  <1>3. /\ t \in Turns /\ t.made = turns[p].made /\ t.written = turns[p].written
        /\ ~t.parted => ~turns[p].parted \/ first
    BY <1>t, <1>l DEF Turns
  <1> HIDE DEF t
  <1>4. OnlyCall(p, i, NoToggle, t)
    BY <1>t, <1>1, <1>2, <1>3 DEF OnlyCall, VisitsTypes
  <1>5. /\ toggles'[p][i] = NoToggle /\ \A j \in Turn \ {i} : toggles'[p][j] = toggles[p][j]
        /\ turns'[p] = t
    BY <1>4 DEF OnlyCall
  <1>6. VisitsTypes'
    BY <1>t, <1>4 DEF VisitsTypes, OnlyCall
  <1>7. Numbered(p)'
    BY <1>t, <1>1, <1>2, <1>3, <1>5 DEF Numbered
  <1>8. Alone(p)'
    BY <1>t, <1>1, <1>2, <1>3, <1>5 DEF Alone
  <1>9. ASSUME ~turns'[p].parted PROVE Sure(p)'
    <2>1. CASE ~turns[p].parted
      <3>1. Sure(p)
        BY <1>t, <2>1
      <3>2. ASSUME Chained(p) PROVE Chained(p)'
        <4>1. ASSUME NEW j \in Turn PROVE Pending(p, j)' <=> Pending(p, j)
          BY <1>1, <1>2, <1>3, <1>5, <4>1 DEF Pending
        <4>2. \A j \in Turn : Pending(p, j) => (toggles'[p][j].value <=> toggles[p][j].value)
          BY <1>1, <1>5 DEF Pending
        <4> QED
          BY <1>t, <1>1, <1>3, <1>5, <3>2, <4>1, <4>2, ChainStays
      <3> QED
        BY <1>1, <3>1, <3>2 DEF Sure
    <2>2. CASE turns[p].parted
      <3>1. toggles[p][i].here /\ turns[p].made = 1
        BY <1>l, <1>3, <1>5, <1>9, <2>2
      <3>2. listing.stage = "shown" /\ (switch[p] <=> visited[p])
        BY <1>t, <1>1, <3>1 DEF Numbered, Alone
      <3>3. i = 1
        BY <1>t, <1>n, <1>1, <3>1 DEF Numbered, NoToggle
      <3>4. ASSUME NEW j \in Turn PROVE ~Pending(p, j)'
        <4>1. CASE j = i
          BY <1>2, <1>5, <4>1 DEF Pending
        <4>2. CASE j # i
          <5>1. ~(j <= 1)
            BY <3>3, <3>4, <4>2, TurnsAreNumbers
          <5>2. toggles'[p][j] = NoToggle
            BY <1>t, <1>5, <3>1, <4>2, <5>1 DEF Numbered
          <5> QED
            BY <1>2, <5>2 DEF Pending
        <4> QED
          BY <4>1, <4>2
      <3>5. Chained(p)'
        BY <1>1, <1>6, <3>2, <3>4, ChainIsRow
      <3> QED
        BY <1>1, <3>2, <3>5 DEF Sure
    <2> QED
      BY <2>1, <2>2
  <1>10. PlaceInv(p)'
    BY <1>7, <1>8, <1>9 DEF PlaceInv
  <1> QED
    BY <1>4, <1>10, OnePlaceMoves

\* A call is refused, or its answer is lost.
LEMMA ToggleFailsSteps ==
  ASSUME VisitsInv, NEW p \in Place, NEW i \in Turn, ToggleFails(p, i)
  PROVE  VisitsInv'
  <1> DEFINE parting == toggles[p][i].here /\ (toggles[p][i].stage = "done" \/ i < turns[p].made)
             t == [turns[p] EXCEPT !.parted = @ \/ parting]
  <1>t. /\ VisitsTypes /\ turns[p] \in Turns /\ toggles[p][i] \in ToggleCalls
        /\ Numbered(p) /\ Alone(p) /\ (~turns[p].parted => Sure(p))
    BY DEF VisitsInv, VisitsTypes, PlaceInv
  <1>n. i \in Nat /\ i >= 1 /\ Turn \subseteq Nat
    BY TurnsAreNumbers
  <1>1. /\ toggles[p][i].stage # "none" /\ toggles' = [toggles EXCEPT ![p][i] = NoToggle]
        /\ turns' = [turns EXCEPT ![p] = t] /\ listing' = listing /\ visited' = visited
    BY <1>t DEF ToggleFails, Parts, VisitsTypes
  <1>s. /\ switch' \in [Place -> BOOLEAN] /\ \A q \in Place \ {p} : switch'[q] = switch[q]
        /\ toggles[p][i].here => (switch'[p] <=> ~switch[p])
        /\ ~toggles[p][i].here => switch'[p] = switch[p]
    BY <1>t DEF ToggleFails, VisitsTypes
  <1>2. NoToggle \in ToggleCalls /\ NoToggle.stage = "none" /\ ~NoToggle.here
    BY DEF NoToggle, ToggleCalls
  <1>l. parting \in BOOLEAN /\ (parting <=> toggles[p][i].here
                                   /\ (toggles[p][i].stage = "done" \/ i < turns[p].made))
    OBVIOUS
  <1> HIDE DEF parting
  <1>3. /\ t \in Turns /\ t.made = turns[p].made /\ t.written = turns[p].written
        /\ ~t.parted => ~turns[p].parted /\ ~parting
    BY <1>t, <1>l DEF Turns
  <1> HIDE DEF t
  <1>4. OnlyCall(p, i, NoToggle, t)
    BY <1>t, <1>1, <1>s, <1>2, <1>3 DEF OnlyCall, VisitsTypes
  <1>5. /\ toggles'[p][i] = NoToggle /\ \A j \in Turn \ {i} : toggles'[p][j] = toggles[p][j]
        /\ turns'[p] = t
    BY <1>4 DEF OnlyCall
  <1>6. VisitsTypes'
    BY <1>t, <1>4 DEF VisitsTypes, OnlyCall
  <1>7. i <= turns[p].made
    BY <1>t, <1>1 DEF Numbered, NoToggle
  <1>8. Numbered(p)'
    BY <1>t, <1>1, <1>2, <1>3, <1>5 DEF Numbered
  <1>9. Alone(p)'
    <2>1. ASSUME NEW j \in Turn, toggles'[p][j].here, t.made = 1 PROVE FALSE
      <3>1. j # i /\ j <= turns[p].made
        BY <1>t, <1>2, <1>5, <2>1 DEF Numbered, NoToggle
      <3> QED
        BY <1>n, <1>3, <1>7, <2>1, <3>1, TurnsAreNumbers
    <2> QED
      BY <1>5, <2>1 DEF Alone
  <1>10. ASSUME ~turns'[p].parted PROVE Sure(p)'
    <2>1. Sure(p) /\ ~parting
      BY <1>t, <1>3, <1>5, <1>10
    <2>2. ASSUME Chained(p), ~toggles[p][i].here PROVE Chained(p)'
      <3>1. ASSUME NEW j \in Turn PROVE Pending(p, j)' <=> Pending(p, j)
        BY <1>2, <1>3, <1>5, <2>2, <3>1 DEF Pending
      <3>2. \A j \in Turn : Pending(p, j) => (toggles'[p][j].value <=> toggles[p][j].value)
        BY <1>5, <2>2 DEF Pending
      <3> QED
        BY <1>t, <1>1, <1>s, <1>3, <1>5, <2>2, <3>1, <3>2, ChainStays
    <2>3. ASSUME Chained(p), toggles[p][i].here PROVE Chained(p)'
      <3>1. toggles[p][i].stage \in {"sent", "refused"} /\ ~(i < turns[p].made)
        BY <1>t, <1>l, <1>1, <2>1, <2>3 DEF ToggleCalls
      <3>2. i = turns[p].made /\ i # turns[p].written
        BY <1>t, <1>n, <1>7, <3>1 DEF Numbered, Turns
      <3>3. Pending(p, i)
        BY <1>t, <1>n, <2>3, <3>1, <3>2 DEF Pending, Numbered, Turns
      <3>4. ASSUME NEW j \in Turn PROVE Pending(p, j)' <=> j # i /\ Pending(p, j)
        <4>1. CASE j = i
          BY <1>2, <1>5, <4>1 DEF Pending
        <4>2. CASE j # i
          BY <1>3, <1>5, <3>4, <4>2 DEF Pending
        <4> QED
          BY <4>1, <4>2
      <3>5. \A j \in Turn : Pending(p, j) => j <= i
        BY <1>t, <3>2 DEF Pending, Numbered, NoToggle
      <3>6. /\ turns'[p].written = turns[p].written /\ visited'[p] = visited[p]
            /\ switch'[p] <=> ~switch[p]
        BY <1>1, <1>s, <1>3, <1>5, <2>3
      <3> QED
        BY <1>t, <1>5, <1>6, <2>3, <3>3, <3>4, <3>5, <3>6, ChainShrinks
    <2>4. listing.stage = "read" => ~toggles[p][i].here
      BY <1>t DEF Numbered
    <2> QED
      BY <1>1, <2>1, <2>2, <2>3, <2>4 DEF Sure
  <1>11. PlaceInv(p)'
    BY <1>8, <1>9, <1>10 DEF PlaceInv
  <1> QED
    BY <1>4, <1>11, OnePlaceMoves

\* No call is of this page unless its list is shown.
LEMMA NobodyHere ==
  ASSUME VisitsInv, listing.stage # "shown"
  PROVE  \A p \in Place, i \in Turn : ~toggles[p][i].here
  BY DEF VisitsInv, PlaceInv, Numbered

\* The list is read, shown or lost, or the page is opened again.
LEMMA ListSteps ==
  ASSUME VisitsInv, FindAll \/ ListArrives \/ ListFails \/ OpenProvinces
  PROVE  VisitsInv'
  <1>t. VisitsTypes
    BY DEF VisitsInv
  <1>p. ASSUME NEW p \in Place PROVE Numbered(p) /\ (~turns[p].parted => Sure(p))
    BY <1>p DEF VisitsInv, PlaceInv
  <1>a. Asked \in Listed /\ Asked.stage = "asked"
    BY DEF Asked, Listed
  <1>1. CASE FindAll
    <2>1. \A p \in Place, i \in Turn : ~toggles[p][i].here
      BY <1>1, NobodyHere DEF FindAll
    <2>2. /\ listing'.stage = "read" /\ listing'.read = visited /\ listing' \in Listed
          /\ visited' = visited /\ switch' = switch /\ toggles' = toggles
      BY <1>t, <1>1 DEF FindAll, VisitsTypes, Listed
    <2>3. /\ turns' \in [Place -> Turns]
          /\ \A p \in Place : turns'[p].made = turns[p].made /\ turns'[p].written = turns[p].written
      BY <1>t, <1>1 DEF FindAll, VisitsTypes, Turns
    <2>4. VisitsTypes'
      BY <1>t, <2>2, <2>3 DEF VisitsTypes
    <2>5. ASSUME NEW p \in Place PROVE PlaceInv(p)'
      BY <1>p, <2>1, <2>2, <2>3, <2>5 DEF PlaceInv, Numbered, Alone, Sure
    <2> QED
      BY <2>4, <2>5 DEF VisitsInv
  <1>2. CASE ListArrives
    <2>1. \A p \in Place, i \in Turn : ~toggles[p][i].here
      BY <1>2, NobodyHere DEF ListArrives
    <2>2. /\ listing.stage = "read" /\ listing'.stage = "shown" /\ listing' \in Listed
          /\ visited' = visited /\ switch' = listing.read /\ toggles' = toggles /\ turns' = turns
      BY <1>a, <1>2 DEF ListArrives, Listed
    <2>3. VisitsTypes'
      BY <1>t, <2>2 DEF VisitsTypes, Listed
    <2>4. ASSUME NEW p \in Place PROVE PlaceInv(p)'
      <3>1. Numbered(p)' /\ Alone(p)'
        BY <1>p, <2>1, <2>2, <2>4 DEF Numbered, Alone
      <3>2. \A i \in Turn : ~Pending(p, i)'
        BY <2>1, <2>2, <2>4 DEF Pending
      <3>3. ASSUME ~turns'[p].parted PROVE Sure(p)'
        <4>1. switch'[p] <=> visited'[p]
          BY <1>p, <2>2, <2>4, <3>3 DEF Sure
        <4> QED
          BY <2>2, <2>3, <2>4, <3>2, <4>1, ChainIsRow DEF Sure
      <3> QED
        BY <3>1, <3>3 DEF PlaceInv
    <2> QED
      BY <2>3, <2>4 DEF VisitsInv
  <1>3. CASE ListFails
    <2>1. \A p \in Place, i \in Turn : ~toggles[p][i].here
      BY <1>3, NobodyHere DEF ListFails
    <2>2. /\ listing'.stage = "failed" /\ listing' \in Listed
          /\ visited' = visited /\ switch' = switch /\ toggles' = toggles /\ turns' = turns
      BY <1>a, <1>3 DEF ListFails, Listed
    <2>3. VisitsTypes'
      BY <1>t, <2>2 DEF VisitsTypes
    <2>4. ASSUME NEW p \in Place PROVE PlaceInv(p)'
      BY <1>p, <2>1, <2>2, <2>4 DEF PlaceInv, Numbered, Alone, Sure
    <2> QED
      BY <2>3, <2>4 DEF VisitsInv
  <1>4. CASE OpenProvinces
    <2>1. /\ listing' = Asked /\ switch' = [p \in Place |-> FALSE]
          /\ toggles' = [p \in Place |-> [i \in Turn |-> [toggles[p][i] EXCEPT !.here = FALSE]]]
          /\ visited' = visited /\ turns' = turns
      BY <1>4 DEF OpenProvinces
    <2>2. ASSUME NEW p \in Place, NEW i \in Turn
          PROVE  /\ toggles'[p][i] \in ToggleCalls /\ ~toggles'[p][i].here
                 /\ toggles'[p][i].stage = toggles[p][i].stage
                 /\ toggles[p][i] = NoToggle => toggles'[p][i] = NoToggle
      <3> DEFINE d == [toggles[p][i] EXCEPT !.here = FALSE]
      <3>1. toggles[p][i] \in ToggleCalls /\ toggles'[p][i] = d
        BY <1>t, <2>1, <2>2 DEF VisitsTypes
      <3>2. d \in ToggleCalls /\ ~d.here /\ d.stage = toggles[p][i].stage
        BY <3>1 DEF ToggleCalls
      <3>3. toggles[p][i] = NoToggle => d = NoToggle
        <4>1. \A a, b \in ToggleCalls :
                 a.stage = b.stage /\ a.value = b.value /\ a.here = b.here => a = b
          BY DEF ToggleCalls
        <4>2. NoToggle \in ToggleCalls /\ NoToggle.here = FALSE
          BY DEF NoToggle, ToggleCalls
        <4>3. d.value = toggles[p][i].value /\ d.here = FALSE
          BY <3>1 DEF ToggleCalls
        <4> QED
          BY <3>2, <4>1, <4>2, <4>3
      <3> QED
        BY <3>1, <3>2, <3>3
    <2>3. VisitsTypes'
      BY <1>t, <1>a, <2>1, <2>2 DEF VisitsTypes
    <2>4. ASSUME NEW p \in Place PROVE PlaceInv(p)'
      <3>1. Numbered(p)'
        BY <1>p, <2>1, <2>2, <2>4 DEF Numbered
      <3> QED
        BY <1>a, <2>1, <2>2, <2>4, <3>1 DEF PlaceInv, Alone, Sure
    <2> QED
      BY <2>3, <2>4 DEF VisitsInv
  <1> QED
    BY <1>1, <1>2, <1>3, <1>4

LEMMA VisitsSteps == VisitsInv /\ [VisitsNext]_visitsVars => VisitsInv'
  <1> SUFFICES ASSUME VisitsInv, [VisitsNext]_visitsVars PROVE VisitsInv'
    OBVIOUS
  <1>1. CASE FindAll \/ ListArrives \/ ListFails \/ OpenProvinces
    BY <1>1, ListSteps
  <1>2. ASSUME NEW p \in Place, Toggle(p) PROVE VisitsInv'
    BY <1>2, ToggleSteps
  <1>3. ASSUME NEW p \in Place, NEW i \in Turn, UpdateProvince(p, i) PROVE VisitsInv'
    BY <1>3, UpdateSteps
  <1>4. ASSUME NEW p \in Place, NEW i \in Turn, UpdateFails(p, i) PROVE VisitsInv'
    BY <1>4, UpdateFailsSteps
  <1>5. ASSUME NEW p \in Place, NEW i \in Turn, Toggled(p, i) PROVE VisitsInv'
    BY <1>5, ToggledSteps
  <1>6. ASSUME NEW p \in Place, NEW i \in Turn, ToggleFails(p, i) PROVE VisitsInv'
    BY <1>6, ToggleFailsSteps
  <1>7. CASE UNCHANGED visitsVars
    BY <1>7 DEF visitsVars, VisitsInv, VisitsTypes, PlaceInv, Numbered, Alone, Sure, Chained,
                Link, Pending, Carried
  <1> QED
    BY <1>1, <1>2, <1>3, <1>4, <1>5, <1>6, <1>7 DEF VisitsNext

\* The calls of every province form such a chain (ProvinceVisits).
THEOREM VisitsInvHolds == VisitsSpec => []VisitsInv
  <1> QED
    BY VisitsStart, VisitsSteps, PTL DEF VisitsSpec

\* Calls overlap, are refused or lost, or outlive the page: once a province has
\* none in flight its switch shows the row, unless the two have parted in one of
\* the ways UpdateProvince and ToggleFails record (ProvinceVisits).
THEOREM SwitchesShowTheServer == VisitsSpec => []SwitchesAreRight
  <1>1. VisitsInv => SwitchesAreRight
    <2> SUFFICES ASSUME VisitsInv, NEW p \in Place, listing.stage = "shown", ~InFlight(p),
                        ~turns[p].parted
                 PROVE  switch[p] = visited[p]
      BY DEF SwitchesAreRight
    <2>1. VisitsTypes /\ Chained(p)
      BY DEF VisitsInv, PlaceInv, Sure
    <2>2. \A i \in Turn : ~Pending(p, i)
      BY DEF InFlight, Pending, NoToggle
    <2>3. switch[p] <=> visited[p]
      BY <2>1, <2>2, RowAlone
    <2>4. switch[p] \in BOOLEAN /\ visited[p] \in BOOLEAN
      BY <2>1 DEF VisitsTypes
    <2> QED
      BY <2>3, <2>4
  <1> QED
    BY <1>1, VisitsInvHolds, PTL

-----------------------------------------------------------------------------
(***************************************************************************)
(* As long as operations neither overlap nor fail, the page shows the list *)
(* it read last, and what an operation sends or reads is that list or the  *)
(* new one: PhotosInv.  The positions a permutation writes sort it again.  *)
(***************************************************************************)

\* What an operation of the page holds at any of its steps.
Tasks ==
    [step : {"none", "files", "create", "delete", "reorder", "write", "fetch", "fetchUpload",
             "read", "readUpload"},
     order : Nat, list : Seq(Photo)]

\* Types.
PhotosTypes ==
    /\ place \in [Photo -> Int]
    /\ taken \in SUBSET Photo /\ IsFiniteSet(taken) /\ Stored \subseteq taken
    /\ shown \in Seq(Photo)
    /\ tasks \in [Task -> Tasks]
    /\ alone \in BOOLEAN

\* What a task that is alone may count on.
Carries(task) ==
    /\ task.step \in {"read", "readUpload"} => task.list \in Listings
    /\ task.step \in {"reorder", "write"} => task.list = shown /\ shown \in SetToSeqs(Stored)

\* The inductive invariant: an operation that is alone shows, carries or has just
\* read the order of the server.
PhotosInv ==
    /\ PhotosTypes
    /\ alone => \A t, u \in Task : tasks[t] # NoTask /\ tasks[u] # NoTask => t = u
    /\ alone => \A t \in Task : Carries(tasks[t])
    /\ alone /\ PhotosQuiet => shown \in Listings

\* A slot without an operation.
LEMMA NoTaskIsTyped == NoTask \in Tasks /\ NoTask.step = "none" /\ NoTask.list = <<>>
  BY DEF NoTask, Tasks

\* A listing names every stored photo once.
LEMMA ListingsAreWhole ==
  ASSUME PhotosTypes, NEW s \in SetToSeqs(Stored)
  PROVE  /\ s \in Seq(Photo) /\ ToSet(s) = Stored
         /\ DOMAIN s = 1..Cardinality(Stored) /\ Cardinality(Stored) \in Nat
         /\ \A i, j \in DOMAIN s : s[i] = s[j] => i = j
  <1>1. IsFiniteSet(Stored) /\ Cardinality(Stored) \in Nat
    BY FS_Subset, FS_CardinalityType DEF PhotosTypes
  <1> DEFINE n == Cardinality(Stored)
  <1>2. s \in [1..n -> Stored] /\ \A i, j \in 1..n : i # j => s[i] # s[j]
    BY DEF SetToSeqs
  <1>3. s \in Injection(1..n, Stored)
    BY <1>2 DEF Injection, IsInjective
  <1>4. Cardinality(1..n) = n
    BY <1>1, FS_Interval
  <1>5. s \in Surjection(1..n, Stored)
    BY <1>1, <1>3, <1>4, FS_Injection
  <1>6. ToSet(s) = Stored
    BY <1>2, <1>5 DEF Surjection, ToSet
  <1>7. s \in Seq(Photo)
    BY <1>1, <1>2 DEF Stored
  <1> QED
    BY <1>1, <1>2, <1>6, <1>7

\* A listing is an order of the stored photos.
LEMMA ListingsAreSeqs ==
  Listings \subseteq SetToSeqs(Stored)
  BY DEF Listings

\* One task goes on, or is over.
LEMMA TaskSteps ==
  ASSUME PhotosInv, PhotosTypes', NEW t \in Task, tasks[t] # NoTask,
         NEW x \in Tasks, tasks' = [tasks EXCEPT ![t] = x],
         alone' => alone,
         alone' /\ x.step \in {"read", "readUpload"} => x.list \in Listings',
         alone' /\ x.step \in {"reorder", "write"} => x.list = shown' /\ shown' \in SetToSeqs(Stored'),
         alone' /\ x = NoTask => shown' \in Listings'
  PROVE  PhotosInv'
  <1>1. tasks \in [Task -> Tasks] /\ tasks'[t] = x /\ \A u \in Task \ {t} : tasks'[u] = tasks[u]
    BY DEF PhotosInv, PhotosTypes
  <1>2. alone' => \A u \in Task \ {t} : tasks'[u] = NoTask
    BY <1>1 DEF PhotosInv
  <1>3. alone' => \A u \in Task : Carries(tasks[u])'
    BY <1>1, <1>2, NoTaskIsTyped DEF Carries
  <1>4. alone' /\ PhotosQuiet' => shown' \in Listings'
    BY <1>1 DEF PhotosQuiet
  <1> QED
    BY <1>2, <1>3, <1>4 DEF PhotosInv

\* A task begins: alone if nothing was under way.
LEMMA StartSteps ==
  ASSUME PhotosInv, NEW x \in Tasks, x # NoTask, StartTask(x), shown' \in Seq(Photo),
         UNCHANGED <<place, taken>>,
         x.step \notin {"read", "readUpload", "write"},
         alone /\ PhotosQuiet /\ x.step = "reorder" => x.list = shown' /\ shown' \in SetToSeqs(Stored)
  PROVE  PhotosInv'
  <1>1. PICK t \in Task : tasks[t] = NoTask /\ tasks' = [tasks EXCEPT ![t] = x]
    BY DEF StartTask
  <1>2. /\ alone' \in BOOLEAN /\ (alone' => alone /\ PhotosQuiet)
        /\ Stored' = Stored
    BY DEF StartTask, Stored
  <1>3. PhotosTypes'
    BY <1>1, <1>2 DEF PhotosInv, PhotosTypes
  <1>4. tasks \in [Task -> Tasks] /\ tasks'[t] = x /\ \A u \in Task \ {t} : tasks'[u] = tasks[u]
    BY <1>1 DEF PhotosInv, PhotosTypes
  <1>5. alone' => \A u \in Task \ {t} : tasks'[u] = NoTask
    BY <1>2, <1>4 DEF PhotosQuiet
  <1>6. alone' => \A u \in Task : Carries(tasks[u])'
    BY <1>2, <1>4, <1>5, NoTaskIsTyped DEF Carries
  <1>7. ~PhotosQuiet'
    BY <1>4 DEF PhotosQuiet
  <1> QED
    BY <1>3, <1>5, <1>6, <1>7 DEF PhotosInv

\* Nothing is stored, shown or under way at first.
LEMMA PhotosStart == PhotosInit => PhotosInv
  <1> SUFFICES ASSUME PhotosInit PROVE PhotosInv
    OBVIOUS
  <1> DEFINE fetch == [NoTask EXCEPT !.step = "fetch"]
  <1>1. fetch \in Tasks /\ fetch.step = "fetch" /\ fetch # NoTask
    BY NoTaskIsTyped DEF Tasks
  <1>2. tasks = [t \in Task |-> IF t = 1 THEN fetch ELSE NoTask] /\ 1 \in Task
    BY TasksAreBounded DEF PhotosInit, Task
  <1> HIDE DEF fetch
  <1>3. Stored = {}
    BY DEF PhotosInit, Stored
  <1>4. PhotosTypes
    BY <1>1, <1>2, <1>3, NoTaskIsTyped, FS_EmptySet DEF PhotosInit, PhotosTypes, NoPlace
  <1>5. ~PhotosQuiet
    BY <1>1, <1>2 DEF PhotosQuiet
  <1>6. \A t \in Task : Carries(tasks[t])
    BY <1>1, <1>2, NoTaskIsTyped DEF Carries
  <1> QED
    BY <1>2, <1>4, <1>5, <1>6 DEF PhotosInv

\* What the user does on the page.
LEMMA PageSteps ==
  ASSUME PhotosInv, UploadBegins \/ DeletePhoto \/ SaveOrder \/ OpenPhotos
  PROVE  PhotosInv'
  <1>t. PhotosTypes
    BY DEF PhotosInv
  <1>1. CASE UploadBegins
    <2> DEFINE x == [NoTask EXCEPT !.step = "files"]
    <2>1. x \in Tasks /\ x.step = "files"
      BY NoTaskIsTyped DEF Tasks
    <2> HIDE DEF x
    <2>2. StartTask(x) /\ UNCHANGED <<place, taken, shown>>
      BY <1>1 DEF UploadBegins, x
    <2> QED
      BY <1>t, <2>1, <2>2, NoTaskIsTyped, StartSteps DEF PhotosTypes
  <1>2. CASE DeletePhoto
    <2>1. PICK p \in ToSet(shown) : StartTask([NoTask EXCEPT !.step = "delete", !.list = <<p>>])
      BY <1>2 DEF DeletePhoto
    <2> DEFINE x == [NoTask EXCEPT !.step = "delete", !.list = <<p>>]
    <2>2. p \in Photo
      BY <1>t DEF PhotosTypes, ToSet
    <2>3. <<p>> \in Seq(Photo)
      BY <2>2
    <2>4. x \in Tasks /\ x.step = "delete"
      BY <2>3, NoTaskIsTyped DEF Tasks
    <2> HIDE DEF x
    <2>5. StartTask(x) /\ UNCHANGED <<place, taken, shown>>
      BY <1>2, <2>1 DEF DeletePhoto, x
    <2> QED
      BY <1>t, <2>4, <2>5, NoTaskIsTyped, StartSteps DEF PhotosTypes
  <1>3. CASE SaveOrder
    <2>1. PICK s \in SetToSeqs(ToSet(shown)) :
             shown' = s /\ StartTask([NoTask EXCEPT !.step = "reorder", !.list = s])
      BY <1>3 DEF SaveOrder
    <2> DEFINE x == [NoTask EXCEPT !.step = "reorder", !.list = s]
    <2>2. s \in Seq(Photo)
      <3>1. IsFiniteSet(ToSet(shown)) /\ ToSet(shown) \subseteq Photo
        <4>1. /\ Len(shown) \in Nat /\ shown \in [1..Len(shown) -> Photo]
              /\ ToSet(shown) = {shown[i] : i \in 1..Len(shown)}
          BY <1>t DEF PhotosTypes, ToSet
        <4>2. IsFiniteSet(1..Len(shown))
          BY <4>1, FS_Interval
        <4>3. shown \in Surjection(1..Len(shown), ToSet(shown)) /\ ToSet(shown) \subseteq Photo
          BY <4>1 DEF Surjection
        <4> QED
          BY <4>2, <4>3, FS_Surjection
      <3>2. Cardinality(ToSet(shown)) \in Nat
        BY <3>1, FS_CardinalityType
      <3>3. s \in [1..Cardinality(ToSet(shown)) -> Photo]
        BY <3>1 DEF SetToSeqs
      <3> QED
        BY <3>2, <3>3
    <2>3. x \in Tasks /\ x.step = "reorder" /\ x.list = s
      BY <2>2, NoTaskIsTyped DEF Tasks
    <2> HIDE DEF x
    <2>4. StartTask(x) /\ UNCHANGED <<place, taken>>
      BY <1>3, <2>1 DEF SaveOrder, x
    <2>5. alone /\ PhotosQuiet => ToSet(shown) = Stored
      BY <1>t, ListingsAreSeqs, ListingsAreWhole DEF PhotosInv
    <2> QED
      BY <1>t, <2>1, <2>2, <2>3, <2>4, <2>5, NoTaskIsTyped, StartSteps
  <1>4. CASE OpenPhotos
    <2> DEFINE x == [NoTask EXCEPT !.step = "fetch"]
    <2>1. x \in Tasks /\ x.step = "fetch"
      BY NoTaskIsTyped DEF Tasks
    <2> HIDE DEF x
    <2>2. /\ tasks' = [tasks EXCEPT ![1] = x] /\ shown' = <<>> /\ alone'
          /\ PhotosQuiet /\ UNCHANGED <<place, taken>> /\ 1 \in Task
      BY <1>4, TasksAreBounded DEF OpenPhotos, x, Task
    <2>3. \A t \in Task : tasks'[t] = IF t = 1 THEN x ELSE NoTask
      BY <1>t, <2>2 DEF PhotosTypes, PhotosQuiet
    <2>4. alone' \in BOOLEAN
      BY <1>4 DEF OpenPhotos
    <2>5. PhotosTypes'
      BY <1>t, <2>1, <2>2, <2>4 DEF PhotosTypes, Stored
    <2>6. ~PhotosQuiet'
      BY <2>1, <2>2, <2>3, NoTaskIsTyped DEF PhotosQuiet
    <2>7. \A t \in Task : Carries(tasks[t])'
      BY <2>1, <2>3, NoTaskIsTyped DEF Carries
    <2> QED
      BY <2>3, <2>5, <2>6, <2>7 DEF PhotosInv
  <1> QED
    BY <1>1, <1>2, <1>3, <1>4

\* A task that goes on, and an answer that comes or does not.
LEMMA GoesOnSteps ==
  ASSUME PhotosInv, NEW t \in Task,
         \/ UploadSaves(t) \/ ListShown(t) \/ TaskFails(t) \/ ReorderAccepted(t) \/ FindPhotos(t)
  PROVE  PhotosInv'
  <1>t. PhotosTypes /\ tasks[t] \in Tasks
    BY DEF PhotosInv, PhotosTypes
  <1>0. tasks[t] # NoTask /\ UNCHANGED <<place, taken>> /\ Stored' = Stored /\ Listings' = Listings
    <2>1. UNCHANGED <<place, taken>>
      BY DEF UploadSaves, ListShown, TaskFails, ReorderAccepted, FindPhotos
    <2>2. tasks[t] # NoTask
      BY NoTaskIsTyped DEF UploadSaves, ListShown, TaskFails, ReorderAccepted, FindPhotos
    <2>3. Stored' = Stored
      BY <2>1 DEF Stored
    <2> QED
      BY <2>1, <2>2, <2>3 DEF Listings
  <1>1. CASE UploadSaves(t)
    <2> DEFINE x == [tasks[t] EXCEPT !.step = "create", !.order = Len(shown)]
    <2>1. x \in Tasks /\ x.step = "create"
      <3>1. Len(shown) \in Nat
        BY <1>t DEF PhotosTypes
      <3> QED
        BY <1>t, <3>1 DEF Tasks
    <2> HIDE DEF x
    <2>2. tasks' = [tasks EXCEPT ![t] = x] /\ UNCHANGED <<shown, alone>>
      BY <1>1 DEF UploadSaves, x
    <2>3. PhotosTypes'
      BY <1>0, <1>t, <2>1, <2>2 DEF PhotosTypes
    <2> QED
      BY <1>0, <2>1, <2>2, <2>3, NoTaskIsTyped, TaskSteps
  <1>2. CASE ListShown(t)
    <2>1. /\ tasks' = [tasks EXCEPT ![t] = NoTask] /\ shown' = tasks[t].list /\ UNCHANGED alone
          /\ tasks[t].step \in {"read", "readUpload"}
      BY <1>2 DEF ListShown, End
    <2>2. PhotosTypes'
      BY <1>0, <1>t, <2>1, NoTaskIsTyped DEF PhotosTypes, Tasks
    <2>3. alone => shown' \in Listings
      BY <2>1 DEF PhotosInv, Carries
    <2> QED
      BY <1>0, <2>1, <2>2, <2>3, NoTaskIsTyped, TaskSteps
  <1>3. CASE TaskFails(t)
    <2>1. tasks' = [tasks EXCEPT ![t] = NoTask] /\ alone' = FALSE /\ UNCHANGED shown
      BY <1>3 DEF TaskFails, End
    <2>2. PhotosTypes'
      BY <1>0, <1>t, <2>1, NoTaskIsTyped DEF PhotosTypes
    <2> QED
      BY <1>0, <2>1, <2>2, NoTaskIsTyped, TaskSteps
  <1>4. CASE ReorderAccepted(t)
    <2> DEFINE x == [tasks[t] EXCEPT !.step = "write"]
    <2>1. x \in Tasks /\ x.step = "write" /\ x.list = tasks[t].list
      BY <1>t DEF Tasks
    <2> HIDE DEF x
    <2>2. /\ tasks' = [tasks EXCEPT ![t] = x] /\ UNCHANGED <<shown, alone>>
          /\ tasks[t].step = "reorder"
      BY <1>4 DEF ReorderAccepted, Goes, x
    <2>3. PhotosTypes'
      BY <1>0, <1>t, <2>1, <2>2 DEF PhotosTypes
    <2>4. alone => tasks[t].list = shown /\ shown \in SetToSeqs(Stored)
      BY <2>2 DEF PhotosInv, Carries
    <2> QED
      BY <1>0, <2>1, <2>2, <2>3, <2>4, NoTaskIsTyped, TaskSteps
  <1>5. CASE FindPhotos(t)
    <2>1. PICK s \in Listings :
             tasks' = [tasks EXCEPT ![t].list = s,
                                    ![t].step = IF @ = "fetch" THEN "read" ELSE "readUpload"]
      BY <1>5 DEF FindPhotos
    <2>2. s \in Seq(Photo)
      BY <1>t, ListingsAreSeqs, ListingsAreWhole
    <2> DEFINE x == [tasks[t] EXCEPT !.list = s,
                                     !.step = IF @ = "fetch" THEN "read" ELSE "readUpload"]
    <2>3. x \in Tasks /\ x.step \in {"read", "readUpload"} /\ x.list = s
      BY <1>t, <2>2 DEF Tasks
    <2>4. tasks' = [tasks EXCEPT ![t] = x]
      BY <1>t, <2>1 DEF Tasks, PhotosTypes
    <2> HIDE DEF x
    <2>5. UNCHANGED <<shown, alone>>
      BY <1>5 DEF FindPhotos
    <2>6. PhotosTypes'
      BY <1>0, <1>t, <2>3, <2>4, <2>5 DEF PhotosTypes
    <2> QED
      BY <1>0, <2>1, <2>3, <2>4, <2>5, <2>6, NoTaskIsTyped, TaskSteps
  <1> QED
    BY <1>1, <1>2, <1>3, <1>4, <1>5

\* The positions a whole list gives out make it a listing.
LEMMA WrittenIsListed ==
  ASSUME PhotosTypes, NEW s \in SetToSeqs(Stored),
         place' = [p \in Photo |-> IF p \in ToSet(s) THEN (CHOOSE i \in DOMAIN s : s[i] = p) - 1
                                   ELSE place[p]]
  PROVE  place' \in [Photo -> Int] /\ Stored' = Stored /\ s \in Listings'
  <1>1. /\ s \in Seq(Photo) /\ ToSet(s) = Stored /\ DOMAIN s \subseteq Nat \ {0}
        /\ \A i, j \in DOMAIN s : s[i] = s[j] => i = j
    BY ListingsAreWhole
  <1>2. ASSUME NEW i \in DOMAIN s
        PROVE  s[i] \in Photo /\ s[i] \in ToSet(s) /\ place'[s[i]] = i - 1
    <2>1. s[i] \in Photo /\ s[i] \in ToSet(s)
      BY <1>1, <1>2 DEF ToSet
    <2>2. (CHOOSE j \in DOMAIN s : s[j] = s[i]) = i
      BY <1>1, <1>2
    <2> QED
      BY <2>1, <2>2
  <1>3. \A p \in ToSet(s) : \E i \in DOMAIN s : s[i] = p
    BY DEF ToSet
  <1>4. ASSUME NEW p \in Photo
        PROVE  place'[p] \in Int /\ (place'[p] # NoPlace <=> p \in Stored)
    <2>1. CASE p \in ToSet(s)
      <3>1. PICK i \in DOMAIN s : s[i] = p
        BY <1>3, <2>1
      <3>2. place'[p] = i - 1 /\ i \in Nat \ {0}
        BY <1>1, <1>2, <3>1
      <3> QED
        <4>1. place'[p] \in Nat
          BY <3>2
        <4>2. p \in Stored
          BY <1>1, <2>1
        <4>3. \A n \in Nat : n \in Int /\ n # NoPlace
          BY DEF NoPlace
        <4> QED
          BY <4>1, <4>2, <4>3
    <2>2. CASE p \notin ToSet(s)
      BY <1>1, <1>4, <2>2 DEF PhotosTypes, Stored
    <2> QED
      BY <2>1, <2>2
  <1>5. place' \in [Photo -> Int]
    BY <1>4
  <1>6. Stored' = Stored
    BY <1>4 DEF Stored
  <1>7. \A i, j \in DOMAIN s : i < j => place'[s[i]] <= place'[s[j]]
    <2> SUFFICES ASSUME NEW i \in DOMAIN s, NEW j \in DOMAIN s, i < j
                 PROVE  place'[s[i]] <= place'[s[j]]
      OBVIOUS
    <2>1. place'[s[i]] = i - 1 /\ place'[s[j]] = j - 1
      BY <1>2
    <2>2. i \in Nat /\ j \in Nat
      BY <1>1
    <2> QED
      BY <2>1, <2>2
  <1> QED
    BY <1>5, <1>6, <1>7 DEF Listings

\* The server creates, deletes, reorders or lists.
LEMMA WritingSteps ==
  ASSUME PhotosInv, NEW t \in Task, CreatePhoto(t) \/ DeleteRow(t) \/ ReorderPhotos(t)
  PROVE  PhotosInv'
  <1>t. PhotosTypes /\ tasks[t] \in Tasks
    BY DEF PhotosInv, PhotosTypes
  <1>1. CASE CreatePhoto(t)
    <2>1. PICK p \in Photo : /\ taken' = taken \cup {p} /\ place' = [place EXCEPT ![p] = tasks[t].order]
      BY <1>1, <1>t DEF CreatePhoto, PhotosTypes
    <2> DEFINE x == [tasks[t] EXCEPT !.step = "fetchUpload"]
    <2>2. x \in Tasks /\ x.step = "fetchUpload"
      BY <1>t DEF Tasks
    <2> HIDE DEF x
    <2>3. /\ tasks' = [tasks EXCEPT ![t] = x] /\ UNCHANGED <<shown, alone>> /\ tasks[t].step = "create"
      BY <1>1 DEF CreatePhoto, Goes, x
    <2>4. Stored' \subseteq Stored \cup {p} /\ place' \in [Photo -> Int]
      BY <1>t, <2>1 DEF Stored, PhotosTypes, Tasks
    <2>5. PhotosTypes'
      BY <1>t, <2>1, <2>2, <2>3, <2>4, FS_AddElement DEF PhotosTypes
    <2> QED
      BY <2>2, <2>3, <2>5, NoTaskIsTyped, TaskSteps
  <1>2. CASE DeleteRow(t)
    <2> DEFINE x == [tasks[t] EXCEPT !.step = "fetch"]
    <2>1. x \in Tasks /\ x.step = "fetch"
      BY <1>t DEF Tasks
    <2> HIDE DEF x
    <2>2. /\ tasks' = [tasks EXCEPT ![t] = x] /\ UNCHANGED <<taken, shown, alone>>
          /\ tasks[t].step = "delete"
      BY <1>2 DEF DeleteRow, Goes, x
    <2>3. PICK p \in Photo : place' = [place EXCEPT ![p] = NoPlace]
      BY <1>2 DEF DeleteRow, Stored
    <2>4. place' \in [Photo -> Int] /\ NoPlace \in Int
      BY <1>t, <2>3 DEF PhotosTypes, NoPlace
    <2>5. Stored' \subseteq Stored
      BY <1>t, <2>3 DEF Stored, PhotosTypes
    <2>6. PhotosTypes'
      BY <1>t, <2>1, <2>2, <2>4, <2>5 DEF PhotosTypes
    <2> QED
      BY <2>1, <2>2, <2>6, NoTaskIsTyped, TaskSteps
  <1>3. CASE ReorderPhotos(t)
    <2> DEFINE s == tasks[t].list
    <2>1. /\ tasks' = [tasks EXCEPT ![t] = NoTask] /\ UNCHANGED <<taken, shown, alone>>
          /\ tasks[t].step = "write" /\ ToSet(s) \subseteq Stored
          /\ place' = [p \in Photo |-> IF p \in ToSet(s) THEN (CHOOSE i \in DOMAIN s : s[i] = p) - 1
                                       ELSE place[p]]
      BY <1>3 DEF ReorderPhotos, End
    <2>2. place' \in [Photo -> Int] /\ Stored' \subseteq Stored
      <3>1. s \in Seq(Photo)
        BY <1>t DEF Tasks
      <3>2. ASSUME NEW p \in ToSet(s)
            PROVE  (CHOOSE i \in DOMAIN s : s[i] = p) \in DOMAIN s
        BY <3>2 DEF ToSet
      <3>3. DOMAIN s \subseteq Int
        BY <3>1
      <3>4. \A p \in Photo : place'[p] \in Int
        <4> TAKE p \in Photo
        <4>1. CASE p \in ToSet(s)
          <5> DEFINE c == CHOOSE i \in DOMAIN s : s[i] = p
          <5>1. c \in Int
            BY <3>2, <3>3, <4>1
          <5>2. place'[p] = c - 1
            BY <2>1, <4>1
          <5> HIDE DEF c
          <5> QED
            BY <5>1, <5>2
        <4>2. CASE p \notin ToSet(s)
          BY <1>t, <2>1, <4>2 DEF PhotosTypes
        <4> QED
          BY <4>1, <4>2
      <3>5. Stored' \subseteq Stored
        BY <2>1 DEF Stored
      <3> QED
        BY <2>1, <3>4, <3>5
    <2>3. PhotosTypes'
      BY <1>t, <2>1, <2>2, NoTaskIsTyped DEF PhotosTypes
    <2>4. alone => s = shown /\ s \in SetToSeqs(Stored)
      BY <2>1 DEF PhotosInv, Carries
    <2>5. alone => shown \in Listings'
      BY <1>t, <2>1, <2>4, WrittenIsListed
    <2> QED
      BY <2>1, <2>3, <2>5, NoTaskIsTyped, TaskSteps
  <1> QED
    BY <1>1, <1>2, <1>3

\* No action of the page, the network or the server.
LEMMA PhotosSteps == PhotosInv /\ [PhotosNext]_photosVars => PhotosInv'
  <1> SUFFICES ASSUME PhotosInv, [PhotosNext]_photosVars
               PROVE  PhotosInv'
    OBVIOUS
  <1>1. CASE UNCHANGED photosVars
    <2>1. Stored' = Stored
      BY <1>1 DEF photosVars, Stored
    <2>2. Listings' = Listings
      BY <1>1, <2>1 DEF photosVars, Listings
    <2> QED
      BY <1>1, <2>1, <2>2 DEF photosVars, PhotosInv, PhotosTypes, Carries, PhotosQuiet
  <1> QED
    BY <1>1, PageSteps, GoesOnSteps, WritingSteps DEF PhotosNext

\* The inductive invariant of the photos of a province (PhotoManage.vue,
\* photo.service.ts).
THEOREM PhotosInvHolds == PhotosSpec => []PhotosInv
  BY PhotosStart, PhotosSteps, PTL DEF PhotosSpec

\* When nothing is under way, and nothing overlapped or failed since the page was
\* opened, it shows the photos in the order readers get them (PhotoManage.vue:
\* handleUpload, deletePhoto and saveOrder; photo.service.ts: create, delete, reorder).
THEOREM PhotosShowTheServer == PhotosSpec => []PhotosAsStored
  <1>1. PhotosInv => PhotosAsStored
    BY DEF PhotosInv, PhotosAsStored
  <1> QED
    BY <1>1, PhotosInvHolds, PTL

-----------------------------------------------------------------------------
(***************************************************************************)
(* Every cover that is under way, in the form, in a submission or in a row *)
(* is that album's, or of a form whose upload was under way when the form  *)
(* it goes through was opened: FormInv.                                    *)
(***************************************************************************)

\* What a form is opened for, and the forms a receipt may come from.
Target == Book \cup {New}
Begun == Target \cup {Earlier}

FormTypes ==
    /\ books \subseteq Book /\ listed \subseteq Book
    /\ cover \in [Book -> Begun \cup {NoCover}]
    /\ form \in [open : BOOLEAN, of : Target, cover : Begun \cup {NoCover}]
    /\ covers \subseteq Begun
    /\ saving \in [step : {"idle", "sent", "answered", "listing"}, of : Target,
                   cover : Begun \cup {NoCover}]
    /\ others \in [form : SUBSET Begun, saving : SUBSET Begun, row : [Book -> SUBSET Begun]]

\* The inductive invariant.
FormInv ==
    /\ FormTypes
    /\ form.cover \in {NoCover, form.of} \cup others.form
    /\ covers \subseteq {form.of} \cup others.form
    /\ saving.cover \in {NoCover, saving.of} \cup others.saving
    /\ \A b \in Book : cover[b] \in {NoCover, b} \cup others.row[b]

\* No album, no form and no upload at first.
LEMMA FormStarts == FormInit => FormInv
  <1> SUFFICES ASSUME FormInit
               PROVE  FormInv
    OBVIOUS
  <1>1. form = [open |-> FALSE, of |-> New, cover |-> NoCover]
    BY DEF FormInit, FormFor
  <1>2. /\ books \subseteq Book /\ listed = {} /\ saving = NotSaving /\ covers = {}
        /\ cover = [b \in Book |-> NoCover]
        /\ others = [form |-> {}, saving |-> {}, row |-> [b \in Book |-> {}]]
    BY DEF FormInit
  <1> QED
    BY <1>1, <1>2 DEF FormInv, FormTypes, NotSaving, Target, Begun

\* A form is opened: the uploads under way are of this form or noted.
LEMMA OpenFormSteps ==
  ASSUME FormInv, OpenForm
  PROVE  FormInv'
  <1>1. PICK b \in listed \cup {New} : /\ form' = FormFor(b) /\ covers' = Aging(b)
                                      /\ others' = [others EXCEPT !.form = Aging(b) \ {b}]
    BY DEF OpenForm
  <1>2. UNCHANGED <<books, cover, listed, saving>>
    BY DEF OpenForm
  <1>3. Aging(b) \subseteq Begun /\ b \in Target
    BY <1>1 DEF FormInv, FormTypes, Aging, Begun, Target
  <1>4. /\ form' \in [open : BOOLEAN, of : Target, cover : Begun \cup {NoCover}]
        /\ form'.cover = NoCover /\ form'.of = b
    BY <1>1, <1>3 DEF FormFor
  <1>5. /\ others' \in [form : SUBSET Begun, saving : SUBSET Begun, row : [Book -> SUBSET Begun]]
        /\ others'.form = Aging(b) \ {b} /\ others'.saving = others.saving
        /\ others'.row = others.row
    BY <1>1, <1>3 DEF FormInv, FormTypes
  <1> QED
    BY <1>1, <1>2, <1>3, <1>4, <1>5 DEF FormInv, FormTypes

\* An album is saved, with the cover of the form it was saved from.
LEMMA AlbumSavedSteps ==
  ASSUME FormInv, AlbumSaved
  PROVE  FormInv'
  <1> DEFINE c(b) == IF saving.cover = saving.of THEN b ELSE saving.cover
  <1>1. PICK b \in Book :
          /\ books' = books \cup {b}
          /\ \/ UNCHANGED <<cover, others>>
             \/ /\ cover' = [cover EXCEPT ![b] = c(b)]
                /\ others' = [others EXCEPT !.row[b] = others.saving, !.saving = {}]
    BY DEF AlbumSaved, FormInv, FormTypes
  <1>2. /\ UNCHANGED <<listed, form, covers>>
        /\ saving' \in [step : {"idle", "sent", "answered", "listing"}, of : Target,
                        cover : Begun \cup {NoCover}]
        /\ saving'.cover = NoCover
    BY DEF AlbumSaved, NotSaving, Target
  <1>3. c(b) \in {NoCover, b} \cup others.saving /\ c(b) \in Begun \cup {NoCover}
    BY DEF FormInv, FormTypes, Begun, Target
  <1> HIDE DEF c
  <1>4. CASE UNCHANGED <<cover, others>>
    BY <1>1, <1>2, <1>4 DEF FormInv, FormTypes
  <1>5. CASE /\ cover' = [cover EXCEPT ![b] = c(b)]
             /\ others' = [others EXCEPT !.row[b] = others.saving, !.saving = {}]
    <2>1. /\ cover' \in [Book -> Begun \cup {NoCover}] /\ cover'[b] = c(b)
          /\ \A d \in Book \ {b} : cover'[d] = cover[d]
      BY <1>3, <1>5 DEF FormInv, FormTypes
    <2>2. /\ others' \in [form : SUBSET Begun, saving : SUBSET Begun,
                          row : [Book -> SUBSET Begun]]
          /\ others'.form = others.form /\ others'.row[b] = others.saving
          /\ \A d \in Book \ {b} : others'.row[d] = others.row[d]
      BY <1>5 DEF FormInv, FormTypes
    <2> QED
      BY <1>1, <1>2, <1>3, <2>1, <2>2 DEF FormInv, FormTypes
  <1> QED
    BY <1>1, <1>4, <1>5

\* An album is deleted, and its cover with it.
LEMMA DeleteBookSteps ==
  ASSUME FormInv, DeleteBook
  PROVE  FormInv'
  <1>1. PICK b \in Book :
          /\ books' = books \ {b}
          /\ cover' = [cover EXCEPT ![b] = NoCover]
          /\ others' = [others EXCEPT !.row[b] = {}]
    BY DEF DeleteBook, FormInv, FormTypes
  <1>2. UNCHANGED <<listed, form, covers, saving>>
    BY DEF DeleteBook
  <1>3. /\ cover' \in [Book -> Begun \cup {NoCover}] /\ cover'[b] = NoCover
        /\ \A d \in Book \ {b} : cover'[d] = cover[d]
    BY <1>1 DEF FormInv, FormTypes
  <1>4. /\ others' \in [form : SUBSET Begun, saving : SUBSET Begun, row : [Book -> SUBSET Begun]]
        /\ others'.form = others.form /\ others'.saving = others.saving
        /\ \A d \in Book \ {b} : others'.row[d] = others.row[d]
    BY <1>1 DEF FormInv, FormTypes
  <1> QED
    BY <1>1, <1>2, <1>3, <1>4 DEF FormInv, FormTypes

\* The form is submitted.
LEMMA SubmitSteps ==
  ASSUME FormInv, SubmitForm \/ SubmitFails
  PROVE  FormInv'
  <1>1. CASE SubmitForm
    <2>1. /\ saving' = [step |-> "sent", of |-> form.of, cover |-> form.cover]
          /\ others' = [others EXCEPT !.saving = others.form \cap {form.cover}]
          /\ UNCHANGED <<books, cover, listed, form, covers>>
      BY <1>1 DEF SubmitForm
    <2>2. /\ others' \in [form : SUBSET Begun, saving : SUBSET Begun,
                          row : [Book -> SUBSET Begun]]
          /\ others'.form = others.form /\ others'.row = others.row
          /\ others'.saving = others.form \cap {form.cover}
      BY <2>1 DEF FormInv, FormTypes
    <2> QED
      BY <2>1, <2>2 DEF FormInv, FormTypes
  <1>2. CASE SubmitFails
    <2>1. /\ saving' = NotSaving /\ others' = [others EXCEPT !.saving = {}]
          /\ UNCHANGED <<books, cover, listed, form, covers>>
      BY <1>2 DEF SubmitFails
    <2>2. /\ others' \in [form : SUBSET Begun, saving : SUBSET Begun,
                          row : [Book -> SUBSET Begun]]
          /\ others'.form = others.form /\ others'.row = others.row
      BY <2>1 DEF FormInv, FormTypes
    <2> QED
      BY <2>1, <2>2 DEF FormInv, FormTypes, NotSaving, Target
  <1> QED
    BY <1>1, <1>2

\* No action of the dialog, of an upload or of a submission.
LEMMA FormSteps == FormInv /\ [FormNext]_formVars => FormInv'
  <1> SUFFICES ASSUME FormInv, [FormNext]_formVars
               PROVE  FormInv'
    OBVIOUS
  <1>1. CASE OpenForm
    BY <1>1, OpenFormSteps
  <1>2. CASE CancelForm
    BY <1>2 DEF CancelForm, FormInv, FormTypes
  <1>3. CASE CoverUpload
    BY <1>3 DEF CoverUpload, FormInv, FormTypes, Begun
  <1>4. CASE CoverUploaded
    BY <1>4 DEF CoverUploaded, FormInv, FormTypes
  <1>5. CASE CoverFails
    BY <1>5 DEF CoverFails, FormInv, FormTypes
  <1>6. CASE SubmitForm \/ SubmitFails
    BY <1>6, SubmitSteps
  <1>7. CASE AlbumSaved
    BY <1>7, AlbumSavedSteps
  <1>8. CASE SubmitAnswered
    BY <1>8 DEF SubmitAnswered, FormInv, FormTypes
  <1>9. CASE SubmitListed
    BY <1>9 DEF SubmitListed, FormInv, FormTypes, NotSaving, Target
  <1>10. CASE DeleteBook
    BY <1>10, DeleteBookSteps
  <1>11. CASE ListBooks
    BY <1>11 DEF ListBooks, FormInv, FormTypes
  <1>12. CASE UNCHANGED formVars
    BY <1>12 DEF formVars, FormInv, FormTypes
  <1> QED
    BY <1>1, <1>2, <1>3, <1>4, <1>5, <1>6, <1>7, <1>8, <1>9, <1>10, <1>11, <1>12
    DEF FormNext

\* The inductive invariant of the dialog (AlbumList.vue).
THEOREM FormInvHolds == FormSpec => []FormInv
  BY FormStarts, FormSteps, PTL DEF FormSpec

\* Dialogs are cancelled, opened and submitted while covers are uploaded: the cover
\* of an album is its own, or from a form whose upload was under way when the form
\* it was saved from was opened (AlbumList.vue, handleCoverUpload and handleSubmit).
THEOREM CoversAreTheirAlbums == FormSpec => []CoversBelong
  <1>1. FormInv => CoversBelong
    BY DEF FormInv, FormTypes, CoversBelong
  <1> QED
    BY FormInvHolds, <1>1, PTL
=============================================================================
