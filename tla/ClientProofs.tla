---------------------------- MODULE ClientProofs ----------------------------
(***************************************************************************)
(* The client: the session and its cookie, the photo panel, the room and   *)
(* the book, for any number of identifiers, provinces, albums and pages.   *)
(* The sections are independent of each other.                             *)
(***************************************************************************)
EXTENDS ClientSession, PhotoPanel, ClientScene, FlipBook, TLAPS

(***************************************************************************)
(* What an answer does depends on `current` alone: StoreInv says that only *)
(* the call of the operation begun last can be current, and that it is not *)
(* any more once it has let the user in. So an answer that authenticates   *)
(* comes from the latest operation, which then is no logout, and one that  *)
(* resets the role finds nobody let in.                                    *)
(*                                                                         *)
(* The cookie is another matter, since the browser applies every answer:   *)
(* CookieInv says that an answer clears the cookie of a session that has   *)
(* ended, for whichever call, so that it clears no other unless it is late.*)
(***************************************************************************)

Stages == {"none", "sent", "answered", "body"}
AnswerKinds == {"none", "refused", "done", "owner", "visitor", "admin"}
Cookies == {"keep", "set", "clear"}
PastType == [last : Operation, entered : BOOLEAN, late : BOOLEAN,
             session : Token \cup {NoToken}]

\* An operation without a call is a state of its call like any other.
LEMMA NoCallIsCall == NoCall \in CallState /\ NoCall.current = FALSE
  BY DEF NoCall, CallState

\* A call as an operation of the store or a page sends it.
LEMMA NewCallIsCall ==
  ASSUME jar \in Token \cup {NoToken}
  PROVE  /\ NewCall \in CallState
         /\ ContentCall \in CallState /\ ContentCall.current = FALSE
         /\ ContentCall.sent = jar /\ ContentCall.cookie = "keep" /\ ContentCall.stage = "sent"
  BY DEF NewCall, ContentCall, NoCall, CallState

\* The headers move a call to its body and change nothing else of it.
LEMMA StagedIsCall ==
  ASSUME NEW c \in CallState, NEW s \in Stages
  PROVE  /\ [c EXCEPT !.stage = s] \in CallState
         /\ [c EXCEPT !.stage = s].current = c.current
  BY DEF CallState, Stages

\* The server's answer changes neither what was sent nor which call is current.
LEMMA AnsweredIsCall ==
  ASSUME NEW c \in CallState, NEW a \in AnswerKinds, NEW k \in Cookies
  PROVE  LET d == [[[c EXCEPT !.stage = "answered"] EXCEPT !.answer = a] EXCEPT !.cookie = k]
         IN  d \in CallState /\ d.current = c.current
  BY DEF CallState, AnswerKinds, Cookies

\* The answer to a right password brings a new session and is no other call.
LEMMA SignedInIsCall ==
  ASSUME NEW c \in CallState, NEW t \in Token, NEW r \in {"owner", "visitor", "admin"}
  PROVE  LET d == [c EXCEPT !.stage = "answered", !.answer = r, !.cookie = "set", !.given = t]
         IN  d \in CallState /\ d.current = c.current
  <1> DEFINE e == [[[c EXCEPT !.stage = "answered"] EXCEPT !.answer = r] EXCEPT !.cookie = "set"]
  <1>1. e \in CallState /\ e.current = c.current
    BY AnsweredIsCall DEF AnswerKinds, Cookies
  <1> HIDE DEF e
  <1>2. [e EXCEPT !.given = t] \in CallState /\ [e EXCEPT !.given = t].current = e.current
    BY <1>1 DEF CallState
  <1> QED
    BY <1>1, <1>2 DEF e

\* A step on one call which does not make it current makes no call current.
LEMMA OneCallMoves ==
  ASSUME StoreInv, NEW k \in Kind, NEW d \in CallState,
         calls' = [calls EXCEPT ![k] = d],
         d.current => calls[k].current
  PROVE  /\ calls' \in [Kind -> CallState]
         /\ \A j \in Kind : calls'[j].current => calls[j].current
  BY DEF StoreInv

\* A step that makes no call current, and resets the role only for a current
\* call, preserves the invariant.
LEMMA QuietKeeps ==
  ASSUME StoreInv, calls' \in [Kind -> CallState],
         \A j \in Kind : calls'[j].current => calls[j].current,
         jar' \in Token \cup {NoToken},
         live' \subseteq Token,
         minted' \in [Token -> {"none", "owner", "visitor", "admin"}],
         past' \in PastType,
         past'.last = past.last, past'.entered = past.entered,
         view' = view \/ view' # "password",
         role' = role \/ (role' = "none" /\ \E k \in Kind : calls[k].current)
  PROVE  StoreInv'
  BY DEF StoreInv, PastType

\* An answer of the server changes the call it answers and nothing else.
LEMMA AnswerKeeps ==
  ASSUME StoreInv, NEW k \in Kind, NEW a \in AnswerKinds, NEW c \in Cookies, Answer(k, a, c)
  PROVE  /\ calls' \in [Kind -> CallState]
         /\ \A j \in Kind : calls'[j].current => calls[j].current
  <1> DEFINE d == [[[calls[k] EXCEPT !.stage = "answered"] EXCEPT !.answer = a] EXCEPT !.cookie = c]
  <1>1. calls[k] \in CallState
    BY DEF StoreInv
  <1>2. d \in CallState /\ d.current = calls[k].current
    BY <1>1, AnsweredIsCall
  <1>3. calls' = [calls EXCEPT ![k] = d]
    BY DEF Answer, StoreInv
  <1> QED
    BY <1>2, <1>3, OneCallMoves

\* The headers of an answer leave the operation and whom it let in alone.
LEMMA CookieKeeps ==
  ASSUME StoreInv, NEW k \in Kind, Cookie(calls[k])
  PROVE  /\ jar' \in Token \cup {NoToken}
         /\ past' \in PastType
         /\ past'.last = past.last
         /\ past'.entered = past.entered
  <1>1. calls[k].given \in Token \cup {NoToken}
    BY DEF StoreInv, CallState
  <1>2. past' = [past EXCEPT !.late = @ \/ (calls[k].cookie = "clear"
                                             /\ jar \notin {NoToken, calls[k].sent})]
    BY DEF Cookie
  <1>3. past \in PastType
    BY DEF StoreInv, PastType
  <1>4. past' \in PastType
        /\ past'.last = past.last /\ past'.entered = past.entered
    BY <1>2, <1>3 DEF PastType
  <1> QED
    BY <1>1, <1>4 DEF Cookie, StoreInv

\* The headers move a call on, or end it.
LEMMA StagedKeeps ==
  ASSUME StoreInv, NEW k \in Kind,
         \/ calls' = [calls EXCEPT ![k].stage = "body"]
         \/ calls' = [calls EXCEPT ![k] = NoCall]
  PROVE  /\ calls' \in [Kind -> CallState]
         /\ \A j \in Kind : calls'[j].current => calls[j].current
  <1>1. calls[k] \in CallState
    BY DEF StoreInv
  <1>2. CASE calls' = [calls EXCEPT ![k].stage = "body"]
    <2> DEFINE d == [calls[k] EXCEPT !.stage = "body"]
    <2>1. d \in CallState /\ d.current = calls[k].current
      BY <1>1, StagedIsCall DEF Stages
    <2>2. calls' = [calls EXCEPT ![k] = d]
      BY <1>2
    <2> QED
      BY <2>1, <2>2, OneCallMoves
  <1>3. CASE calls' = [calls EXCEPT ![k] = NoCall]
    BY <1>3, NoCallIsCall, OneCallMoves
  <1> QED
    BY <1>2, <1>3

\* A new operation is the only one whose call is current.
LEMMA BeginKeeps ==
  ASSUME StoreInv, NEW k \in Operation, Begin(k),
         k = "logout" => role' = "none",
         jar' = jar, live' = live, minted' = minted
  PROVE  StoreInv'
  <1> DEFINE outdated(c) == [c EXCEPT !.current = FALSE]
  <1>1. NewCall \in CallState
    BY NewCallIsCall DEF StoreInv
  <1>2. \A c \in CallState : outdated(c) \in CallState /\ outdated(c).current = FALSE
    BY DEF CallState
  <1>3. calls' = [j \in Kind |-> IF j = k THEN NewCall ELSE outdated(calls[j])]
    BY DEF Begin
  <1>4. /\ past' \in PastType
        /\ past'.last = k /\ past'.entered = FALSE
    BY DEF Begin, StoreInv, PastType
  <1> HIDE DEF outdated
  <1>5. /\ calls' \in [Kind -> CallState]
        /\ \A j \in Kind : calls'[j].current => j = k
    BY <1>1, <1>2, <1>3 DEF StoreInv
  <1> QED
    BY <1>4, <1>5 DEF StoreInv, PastType

\* The answer of the latest operation lets the user in; no call is left current.
LEMMA EntryKeeps ==
  ASSUME StoreInv, NEW k \in {"me", "verify"}, NEW t \in Token \cup {NoToken},
         Welcome(k), Inside(k, t), jar' = jar, live' = live, minted' = minted
  PROVE  StoreInv'
  <1>1. k \in Kind /\ k = past.last /\ "tip" \in Kind /\ k # "tip"
    BY DEF StoreInv, Welcome, Kind, Operation, Content
  <1>2. /\ calls' \in [Kind -> CallState]
        /\ \A j \in Kind : ~calls'[j].current
    <2>1. /\ NoCall \in CallState /\ ~NoCall.current
          /\ ContentCall \in CallState /\ ~ContentCall.current
      BY NoCallIsCall, NewCallIsCall DEF StoreInv
    <2>2. calls' = [calls EXCEPT ![k] = NoCall, !["tip"] = ContentCall]
      BY DEF Inside
    <2> QED
      BY <1>1, <2>1, <2>2 DEF StoreInv
  <1>3. /\ past' \in PastType
        /\ past'.last = k
    BY <1>1 DEF StoreInv, PastType, Inside
  <1>4. role' # "none" /\ view' # "password"
    BY DEF Welcome, Inside
  <1> QED
    BY <1>2, <1>3, <1>4 DEF StoreInv, PastType, Operation

\* The page just mounted has sent its first request.
LEMMA MountedKeeps ==
  ASSUME jar \in Token \cup {NoToken}
  PROVE  /\ Mounted \in [Kind -> CallState]
         /\ \A j \in Kind : Mounted[j].current => j = "me"
  BY NewCallIsCall, NoCallIsCall DEF Mounted

\* The client starts with at most a cookie from earlier.
LEMMA StoreStarts == SessionInit => StoreInv
  <1> SUFFICES ASSUME SessionInit PROVE StoreInv
    OBVIOUS
  <1>1. jar \in Token \cup {NoToken} /\ live \subseteq Token
    BY DEF SessionInit
  <1>2. /\ calls \in [Kind -> CallState]
        /\ \A j \in Kind : calls[j].current => j = "me"
    BY <1>1, MountedKeeps DEF SessionInit
  <1>3. minted \in [Token -> {"none", "owner", "visitor", "admin"}]
    BY DEF SessionInit
  <1>4. past = NothingPast /\ role = "none"
    BY DEF SessionInit
  <1> QED
    BY <1>1, <1>2, <1>3, <1>4 DEF StoreInv, Operation, NothingPast

\* No operation, answer or page load breaks the invariant.
LEMMA StoreSteps == StoreInv /\ [SessionNext]_sessionVars => StoreInv'
  <1> SUFFICES ASSUME StoreInv, [SessionNext]_sessionVars
               PROVE  StoreInv'
    OBVIOUS
  <1> DEFINE Unmoved == past'.last = past.last /\ past'.entered = past.entered
             PastOK  == past' \in PastType
             Quiet   == /\ calls' \in [Kind -> CallState]
                        /\ \A j \in Kind : calls'[j].current => calls[j].current
  <1>0. /\ jar \in Token \cup {NoToken} /\ live \subseteq Token
        /\ minted \in [Token -> {"none", "owner", "visitor", "admin"}]
        /\ past \in PastType
        /\ calls \in [Kind -> CallState]
    BY DEF StoreInv, PastType
  <1>k. /\ "me" \in Kind /\ "verify" \in Kind /\ "logout" \in Kind
        /\ "tip" \in Kind /\ "scene" \in Kind /\ Content \subseteq Kind
        /\ "me" \in Operation /\ "verify" \in Operation /\ "logout" \in Operation
    BY DEF Kind, Operation, Content
  <1>1. CASE Submit
    BY <1>1, <1>k, BeginKeeps DEF Submit
  <1>2. CASE Logout
    BY <1>2, <1>k, BeginKeeps DEF Logout
  <1>3. CASE HandleMe
    <2>1. PICK a \in AnswerKinds, c \in Cookies : Answer("me", a, c)
      <3>1. CASE calls["me"].sent \in live /\ Answer("me", minted[calls["me"].sent], "keep")
        BY <1>0, <3>1 DEF AnswerKinds, Cookies
      <3>2. CASE Refusal("me")
        BY <3>2 DEF Refusal, AnswerKinds, Cookies
      <3> QED
        BY <1>3, <3>1, <3>2 DEF HandleMe
    <2>2. Quiet
      BY <1>k, <2>1, AnswerKeeps
    <2> QED
      BY <1>3, <1>0, <2>2, QuietKeeps DEF HandleMe
  <1>4. CASE HandleVerify
    <2>1. Quiet /\ live' \subseteq Token
          /\ minted' \in [Token -> {"none", "owner", "visitor", "admin"}]
      <3>1. CASE Answer("verify", "refused", "keep") /\ UNCHANGED <<minted, live>>
        <4>1. Quiet
          BY <1>k, <3>1, AnswerKeeps DEF AnswerKinds, Cookies
        <4> QED
          BY <1>0, <3>1, <4>1
      <3>2. ASSUME NEW t \in Token, NEW r \in {"owner", "visitor", "admin"},
                   minted' = [minted EXCEPT ![t] = r],
                   live' = live \cup {t},
                   calls' = [calls EXCEPT !["verify"] = [@ EXCEPT
                               !.stage = "answered", !.answer = r, !.cookie = "set", !.given = t]]
            PROVE  Quiet /\ live' \subseteq Token
                   /\ minted' \in [Token -> {"none", "owner", "visitor", "admin"}]
        <4> DEFINE d == [calls["verify"] EXCEPT !.stage = "answered", !.answer = r,
                                                !.cookie = "set", !.given = t]
        <4>1. d \in CallState /\ d.current = calls["verify"].current
          BY <1>0, <1>k, SignedInIsCall
        <4>2. calls' = [calls EXCEPT !["verify"] = d]
          BY <3>2
        <4> HIDE DEF d
        <4>3. Quiet
          BY <1>k, <4>1, <4>2, OneCallMoves
        <4> QED
          BY <1>0, <3>2, <4>3
      <3> QED
        BY <1>4, <3>1, <3>2 DEF HandleVerify
    <2> QED
      BY <1>4, <1>0, <2>1, QuietKeeps DEF HandleVerify
  <1>5. CASE HandleLogout
    <2>1. PICK a \in AnswerKinds, c \in Cookies : Answer("logout", a, c)
      BY <1>5 DEF HandleLogout, Refusal, AnswerKinds, Cookies
    <2>2. Quiet
      BY <1>k, <2>1, AnswerKeeps
    <2>3. live' \subseteq Token
      BY <1>5, <1>0 DEF HandleLogout
    <2> QED
      BY <1>5, <1>0, <2>2, <2>3, QuietKeeps DEF HandleLogout
  <1>6. CASE SessionExpires \/ CookieExpires
    BY <1>6, <1>0, QuietKeeps DEF SessionExpires, CookieExpires
  <1>18. ASSUME NEW k \in Content, HandleContent(k)
         PROVE  StoreInv'
    <2>1. PICK a \in AnswerKinds, c \in Cookies : Answer(k, a, c)
      BY <1>18 DEF HandleContent, Refusal, AnswerKinds, Cookies
    <2>2. Quiet
      BY <1>k, <2>1, AnswerKeeps
    <2> QED
      BY <1>18, <1>0, <2>2, QuietKeeps DEF HandleContent
  <1>7. CASE MeHeaders
    <2>1. Quiet
      BY <1>7, <1>k, StagedKeeps DEF MeHeaders
    <2>2. jar' \in Token \cup {NoToken} /\ PastOK /\ Unmoved
      BY <1>7, <1>k, CookieKeeps DEF MeHeaders
    <2>3. role' = role \/ (role' = "none" /\ calls["me"].current)
      BY <1>7 DEF MeHeaders
    <2> QED
      BY <1>7, <1>0, <1>k, <2>1, <2>2, <2>3, QuietKeeps DEF MeHeaders
  <1>8. CASE MeBody
    <2>1. CASE Welcome("me") /\ Inside("me", calls["me"].sent)
      <3>1. calls["me"].sent \in Token \cup {NoToken}
        BY <1>0, <1>k DEF CallState
      <3> QED
        BY <1>8, <2>1, <3>1, EntryKeeps DEF MeBody
    <2>2. CASE /\ calls' = [calls EXCEPT !["me"] = NoCall]
               /\ role' = IF calls["me"].current THEN "none" ELSE role
               /\ UNCHANGED <<view, bar, past>>
      <3>1. Quiet
        BY <1>k, <2>2, StagedKeeps
      <3>2. role' = role \/ (role' = "none" /\ calls["me"].current)
        BY <2>2
      <3> QED
        BY <1>8, <1>0, <1>k, <2>2, <3>1, <3>2, QuietKeeps DEF MeBody
    <2> QED
      BY <1>8, <2>1, <2>2 DEF MeBody
  <1>9. CASE MeFails
    <2>1. Quiet
      BY <1>9, <1>k, StagedKeeps DEF MeFails
    <2>2. role' = role \/ (role' = "none" /\ calls["me"].current)
      BY <1>9 DEF MeFails
    <2> QED
      BY <1>9, <1>0, <1>k, <2>1, <2>2, QuietKeeps DEF MeFails
  <1>10. CASE VerifyHeaders
    <2>1. Quiet
      BY <1>10, <1>k, StagedKeeps DEF VerifyHeaders
    <2>2. jar' \in Token \cup {NoToken} /\ PastOK /\ Unmoved
      BY <1>10, <1>k, CookieKeeps DEF VerifyHeaders
    <2> QED
      BY <1>10, <1>0, <2>1, <2>2, QuietKeeps DEF VerifyHeaders
  <1>11. CASE VerifyBody
    <2>1. CASE Welcome("verify") /\ Inside("verify", calls["verify"].given)
      <3>1. calls["verify"].given \in Token \cup {NoToken}
        BY <1>0, <1>k DEF CallState
      <3> QED
        BY <1>11, <2>1, <3>1, EntryKeeps DEF VerifyBody
    <2>2. CASE calls' = [calls EXCEPT !["verify"] = NoCall] /\ UNCHANGED <<role, view, bar, past>>
      <3>1. Quiet
        BY <1>k, <2>2, StagedKeeps
      <3> QED
        BY <1>11, <1>0, <2>2, <3>1, QuietKeeps DEF VerifyBody
    <2> QED
      BY <1>11, <2>1, <2>2 DEF VerifyBody
  <1>12. CASE VerifyFails
    <2>1. Quiet
      BY <1>12, <1>k, StagedKeeps DEF VerifyFails
    <2> QED
      BY <1>12, <1>0, <2>1, QuietKeeps DEF VerifyFails
  <1>13. CASE LogoutHeaders
    <2>1. Quiet
      BY <1>13, <1>k, StagedKeeps DEF LogoutHeaders
    <2>2. jar' \in Token \cup {NoToken} /\ PastOK /\ Unmoved
      BY <1>13, <1>k, CookieKeeps DEF LogoutHeaders
    <2>3. role' = role \/ (role' = "none" /\ calls["logout"].current)
      BY <1>13 DEF LogoutHeaders
    <2> QED
      BY <1>13, <1>0, <1>k, <2>1, <2>2, <2>3, QuietKeeps DEF LogoutHeaders
  <1>14. CASE LogoutFails
    <2>1. Quiet
      BY <1>14, <1>k, StagedKeeps DEF LogoutFails
    <2>2. role' = role \/ (role' = "none" /\ calls["logout"].current)
      BY <1>14 DEF LogoutFails
    <2> QED
      BY <1>14, <1>0, <1>k, <2>1, <2>2, QuietKeeps DEF LogoutFails
  <1>15. CASE LoadingPage \/ AskContent \/ ContentEnds
    <2>1. CASE TipEnds \/ ContentEnds
      <3>1. Quiet
        BY <2>1, <1>k, StagedKeeps DEF TipEnds, ContentEnds
      <3>2. jar' \in Token \cup {NoToken} /\ PastOK /\ Unmoved
        BY <1>0, <1>k, <2>1, CookieKeeps DEF TipEnds, ContentEnds
      <3> QED
        BY <1>0, <2>1, <3>1, <3>2, QuietKeeps DEF TipEnds, ContentEnds
    <2>2. CASE AskContent
      <3>1. ContentCall \in CallState /\ ContentCall.current = FALSE
        BY <1>0, NewCallIsCall
      <3>2. Quiet
        BY <2>2, <1>k, <3>1, OneCallMoves DEF AskContent
      <3> QED
        BY <1>0, <2>2, <3>2, QuietKeeps DEF AskContent
    <2>3. CASE BarGrows \/ EnterScene
      <3>1. view' = view \/ view' # "password"
        BY <2>3 DEF BarGrows, EnterScene
      <3>2. UNCHANGED <<role, calls, jar, minted, live, past>>
        BY <2>3 DEF BarGrows, EnterScene
      <3> QED
        BY <1>0, <3>1, <3>2, QuietKeeps
    <2> QED
      BY <1>15, <2>1, <2>2, <2>3 DEF LoadingPage
  <1>16. CASE Reload
    <2>1. /\ calls' \in [Kind -> CallState]
          /\ \A j \in Kind : calls'[j].current => j = "me"
      BY <1>16, <1>0, MountedKeeps DEF Reload
    <2> QED
      BY <1>16, <1>0, <1>k, <2>1 DEF Reload, StoreInv, NothingPast
  <1>17. CASE UNCHANGED sessionVars
    BY <1>17 DEF sessionVars, StoreInv
  <1> QED
    BY <1>1, <1>2, <1>3, <1>4, <1>5, <1>6, <1>7, <1>8, <1>9, <1>10, <1>11, <1>12,
       <1>13, <1>14, <1>15, <1>16, <1>17, <1>18 DEF SessionNext, SessionStep

\* The inductive invariant of the session store (client stores/auth.ts,
\* operationVersion).
THEOREM StoreInvHolds == SessionSpec => []StoreInv
  BY StoreStarts, StoreSteps, PTL DEF SessionSpec

\* Only the latest operation decides (client stores/auth.ts, every comparison with
\* operationVersion): after a logout no
\* answer to an earlier operation authenticates the user again, and nobody who
\* was let in is thrown out by an answer to an earlier operation.
THEOREM LatestOperationDecides == SessionSpec => []LatestDecides
  <1>1. StoreInv => LatestDecides
    BY DEF StoreInv, LatestDecides
  <1> QED
    BY <1>1, StoreInvHolds, PTL

\* The answers that let a user in.
LetIn == {"owner", "visitor", "admin"}

\* As long as the session lives, its cookie is there or was cleared late.
Kept(t) == t \in live => jar = t \/ past.late

\* An identifier that is in use has been minted.
Minted(t) == t \in Token => minted[t] # "none"

\* An answer that clears the cookie was given to one whose session has ended, and
\* ended sessions stay so: their identifiers are minted.  An answer that lets the
\* user in leaves the cookie of its session behind.
CookieInv ==
    /\ Minted(jar) /\ Minted(past.session)
    /\ \A k \in Kind : /\ Minted(calls[k].sent)
                       /\ calls[k].cookie = "clear" => calls[k].sent \notin live
                       /\ calls[k].cookie = "set" => k = "verify"
    /\ calls["verify"].cookie = "set" =>
          calls["verify"].given \in Token /\ Minted(calls["verify"].given)
    /\ calls["me"].stage = "answered" => calls["me"].answer \in LetIn \cup {"refused"}
    /\ calls["me"].answer \in LetIn => calls["me"].cookie = "keep"
    /\ calls["me"].current =>
          /\ Kept(calls["me"].sent) /\ calls["verify"] = NoCall
    /\ calls["verify"].current /\ calls["verify"].answer \in LetIn =>
          /\ calls["verify"].cookie = "set"
          /\ calls["verify"].stage = "body" => Kept(calls["verify"].given)
    /\ past.entered => calls["verify"] = NoCall /\ Kept(past.session)

\* An answer of the server changes the state, the answer and the cookie of a call.
LEMMA AnswerShows ==
  ASSUME StoreInv, NEW k \in Kind, NEW a \in AnswerKinds, NEW c \in Cookies, Answer(k, a, c)
  PROVE  /\ \A j \in Kind \ {k} : calls'[j] = calls[j]
         /\ calls'[k].stage = "answered" /\ calls'[k].answer = a /\ calls'[k].cookie = c
         /\ calls'[k].sent = calls[k].sent /\ calls'[k].given = calls[k].given
         /\ calls'[k].current = calls[k].current
  <1> DEFINE d == [[[calls[k] EXCEPT !.stage = "answered"] EXCEPT !.answer = a] EXCEPT !.cookie = c]
  <1>1. calls[k] \in CallState /\ calls \in [Kind -> CallState]
    BY DEF StoreInv
  <1>2. /\ d.stage = "answered" /\ d.answer = a /\ d.cookie = c
        /\ d.sent = calls[k].sent /\ d.given = calls[k].given /\ d.current = calls[k].current
    BY <1>1 DEF CallState
  <1>3. calls' = [calls EXCEPT ![k] = d]
    BY DEF Answer, StoreInv
  <1> HIDE DEF d
  <1> QED
    BY <1>1, <1>2, <1>3

\* The headers move a call to its body.
LEMMA StagedShows ==
  ASSUME StoreInv, NEW k \in Kind, calls' = [calls EXCEPT ![k].stage = "body"]
  PROVE  /\ \A j \in Kind \ {k} : calls'[j] = calls[j]
         /\ calls'[k].stage = "body" /\ calls'[k].answer = calls[k].answer
         /\ calls'[k].cookie = calls[k].cookie /\ calls'[k].sent = calls[k].sent
         /\ calls'[k].given = calls[k].given /\ calls'[k].current = calls[k].current
  <1>1. calls[k] \in CallState /\ calls \in [Kind -> CallState]
    BY DEF StoreInv
  <1> QED
    BY <1>1 DEF CallState

\* A call that is not there is of no consequence.
LEMMA NoCallShows ==
  /\ NoCall.sent = NoToken /\ NoCall.cookie = "keep" /\ NoCall.answer = "none"
  /\ NoCall.current = FALSE /\ NoCall.stage = "none"
  BY DEF NoCall

\* The cookie that the headers of call k leave behind: those that clear it do so
\* for a session that has ended, or late.
LEMMA CookieShows ==
  ASSUME StoreInv, CookieInv, NEW k \in Kind, Cookie(calls[k]), live' = live, minted' = minted
  PROVE  /\ past'.entered = past.entered /\ past'.session = past.session
         /\ Minted(jar)'
         /\ calls[k].cookie = "set" => k = "verify" /\ \A t \in {calls[k].given} : Kept(t)'
         /\ calls[k].cookie # "set" => \A t \in Token \cup {NoToken} : Kept(t) => Kept(t)'
  <1>1. /\ past' = [past EXCEPT !.late = @ \/ (calls[k].cookie = "clear"
                                              /\ jar \notin {NoToken, calls[k].sent})]
        /\ past \in PastType
    BY DEF Cookie, StoreInv, PastType
  <1>2. calls[k].cookie \in Cookies
    BY DEF StoreInv, CallState, Cookies
  <1>3. /\ past'.entered = past.entered /\ past'.session = past.session
        /\ past.late => past'.late
        /\ calls[k].cookie = "clear" /\ jar \notin {NoToken, calls[k].sent} => past'.late
    BY <1>1 DEF PastType
  <1>4. jar' = CASE calls[k].cookie = "set" -> calls[k].given
                 [] calls[k].cookie = "clear" -> NoToken [] OTHER -> jar
    BY DEF Cookie
  <1>5. /\ calls[k].cookie = "set" => jar' = calls[k].given
        /\ calls[k].cookie = "keep" => jar' = jar
        /\ calls[k].cookie = "clear" => jar' = NoToken
    BY <1>2, <1>4 DEF Cookies
  <1>6. calls[k].cookie = "set" => k = "verify"
    BY DEF CookieInv
  <1>7. Minted(jar)'
    BY <1>2, <1>5, <1>6, NoTokenIsNoToken DEF CookieInv, Minted, Cookies
  <1>8. ASSUME calls[k].cookie # "set", NEW t \in Token \cup {NoToken}, Kept(t)
        PROVE  Kept(t)'
    <2>1. CASE calls[k].cookie = "keep"
      BY <1>3, <1>5, <1>8, <2>1 DEF Kept
    <2>2. CASE calls[k].cookie = "clear"
      <3>1. calls[k].sent \notin live /\ live \subseteq Token
        BY <2>2 DEF CookieInv, StoreInv
      <3> QED
        BY <1>3, <1>8, <2>2, <3>1, NoTokenIsNoToken DEF Kept
    <2> QED
      BY <1>2, <1>8, <2>1, <2>2 DEF Cookies
  <1> QED
    BY <1>3, <1>5, <1>6, <1>7, <1>8 DEF Kept

\* No cookie and no call at first.
LEMMA CookieStarts == SessionInit => CookieInv
  <1> SUFFICES ASSUME SessionInit PROVE CookieInv
    OBVIOUS
  <1>1. /\ jar \in Token \cup {NoToken} /\ calls = Mounted
        /\ past.entered = FALSE /\ past.session = NoToken
        /\ minted = [t \in Token |-> IF t = jar THEN "owner" ELSE "none"]
    BY DEF SessionInit, NothingPast
  <1>2. /\ calls["me"] = NewCall /\ \A k \in Kind \ {"me"} : calls[k] = NoCall
        /\ "verify" \in Kind \ {"me"}
    BY <1>1 DEF Mounted, Kind, Operation
  <1>3. /\ NewCall.sent = jar /\ NewCall.answer = "none" /\ NewCall.stage = "sent" /\ NewCall.cookie = "keep"
        /\ NoCall.sent = NoToken /\ NoCall.cookie = "keep" /\ NoCall.current = FALSE
    BY DEF NewCall, NoCall
  <1> QED
    BY <1>1, <1>2, <1>3, NoTokenIsNoToken DEF CookieInv, Kept, Minted, LetIn

\* A step that gives an answer to call k and mints nothing.
LEMMA AnsweredSteps ==
  ASSUME StoreInv, CookieInv, NEW k \in Kind \ {"verify"}, NEW a \in AnswerKinds,
         NEW c \in {"keep", "clear"}, Answer(k, a, c), calls[k].stage = "sent",
         k = "me" => a \in LetIn \cup {"refused"} /\ (a \in LetIn => c = "keep"),
         live' \subseteq live, c = "clear" => calls[k].sent \notin live',
         UNCHANGED <<jar, minted, past>>
  PROVE  CookieInv'
  <1>1. /\ \A j \in Kind \ {k} : calls'[j] = calls[j]
        /\ calls'[k].answer = a /\ calls'[k].cookie = c /\ calls'[k].sent = calls[k].sent
        /\ calls'[k].current = calls[k].current
    BY AnswerShows DEF Cookies
  <1>2. "me" \in Kind /\ "verify" \in Kind
    BY DEF Kind, Operation
  <1>3. \A t : Kept(t) => Kept(t)'
    BY DEF Kept
  <1>4. \A j \in Kind : /\ Minted(calls[j].sent)'
                        /\ calls'[j].cookie = "clear" => calls'[j].sent \notin live'
                        /\ calls'[j].cookie = "set" => j = "verify"
    BY <1>1 DEF CookieInv, Minted
  <1>5. /\ calls'["verify"] = calls["verify"]
        /\ calls'["me"].sent = calls["me"].sent /\ calls'["me"].current = calls["me"].current
        /\ calls'["me"].answer \in LetIn => calls'["me"].cookie = "keep"
        /\ calls'["me"].stage = "answered" => calls'["me"].answer \in LetIn \cup {"refused"}
    BY <1>1, <1>2 DEF CookieInv
  <1>6. calls'["me"].current => Kept(calls["me"].sent)'
    BY <1>3, <1>5 DEF CookieInv, Kept
  <1>7. calls'["verify"].current /\ calls'["verify"].answer \in LetIn
          /\ calls'["verify"].stage = "body" => Kept(calls["verify"].given)'
    BY <1>3, <1>5 DEF CookieInv, Kept
  <1>8. past'.entered => Kept(past.session)'
    BY <1>3 DEF CookieInv, Kept
  <1> QED
    BY <1>4, <1>5, <1>6, <1>7, <1>8 DEF CookieInv, Minted

\* A step that ends call k or moves it to its body, with the cookie its headers
\* leave behind or the one that is there, and lets nobody in.
LEMMA EndedSteps ==
  ASSUME StoreInv, CookieInv, NEW k \in Kind,
         \/ calls[k].stage # "none" /\ Cookie(calls[k])
         \/ UNCHANGED <<jar, past>>,
         \/ calls' = [calls EXCEPT ![k] = NoCall] /\ (k = "verify" => UNCHANGED jar)
         \/ /\ calls' = [calls EXCEPT ![k].stage = "body"] /\ k \in {"me", "verify"}
            /\ calls[k].stage # "none" /\ Cookie(calls[k]),
         live' = live, minted' = minted
  PROVE  CookieInv'
  <1>t. live \subseteq Token /\ calls \in [Kind -> CallState] /\ past \in PastType
    BY DEF StoreInv, PastType
  <1>k. "me" \in Kind /\ "verify" \in Kind
    BY DEF Kind, Operation
  <1>1. /\ \A j \in Kind \ {k} : calls'[j] = calls[j]
        /\ \/ calls'[k] = NoCall
           \/ /\ k \in {"me", "verify"} /\ Cookie(calls[k]) /\ calls[k].stage # "none"
              /\ calls'[k].stage = "body" /\ calls'[k].answer = calls[k].answer
              /\ calls'[k].cookie = calls[k].cookie /\ calls'[k].sent = calls[k].sent
              /\ calls'[k].given = calls[k].given /\ calls'[k].current = calls[k].current
    BY <1>t, StagedShows
  <1>2. past'.entered = past.entered /\ past'.session = past.session /\ Minted(jar)'
    BY CookieShows DEF CookieInv, Minted
  <1>3. \A j \in Kind : /\ Minted(calls[j].sent)'
                        /\ calls'[j].cookie = "clear" => calls'[j].sent \notin live'
                        /\ calls'[j].cookie = "set" => j = "verify"
    BY <1>1, NoCallShows, NoTokenIsNoToken DEF CookieInv, Minted
  <1>4. CASE calls[k].cookie # "set" \/ UNCHANGED <<jar, past>>
    <2>1. \A t \in Token \cup {NoToken} : Kept(t) => Kept(t)'
      BY <1>4, CookieShows DEF Kept
    <2>2. calls["me"].sent \in Token \cup {NoToken} /\ calls["verify"].given \in Token \cup {NoToken}
          /\ past.session \in Token \cup {NoToken}
      BY <1>t, <1>k DEF CallState, PastType
    <2>3. calls'["me"].current => Kept(calls["me"].sent)'
      BY <1>1, <1>k, <2>1, <2>2, NoCallShows DEF CookieInv, Kept
    <2>4. calls'["verify"].current /\ calls'["verify"].answer \in LetIn
            /\ calls'["verify"].stage = "body" => Kept(calls["verify"].given)'
      <3>1. CASE k = "verify" /\ calls'["verify"] # NoCall
        <4>1. /\ calls'["verify"].current = calls["verify"].current
              /\ calls'["verify"].answer = calls["verify"].answer
              /\ Cookie(calls["verify"])
          BY <1>1, <1>k, <3>1
        <4>2. calls'["verify"].given = calls["verify"].given
          BY <1>1, <1>k, <3>1
        <4>3. ASSUME calls["verify"].current, calls["verify"].answer \in LetIn
              PROVE  Kept(calls["verify"].given)'
          <5>1. calls["verify"].cookie = "set"
            BY <4>3 DEF CookieInv
          <5> QED
            BY <1>k, <4>1, <4>2, <5>1, CookieShows DEF Kept
        <4> QED
          BY <4>1, <4>3
      <3>2. CASE calls'["verify"] = NoCall
        BY <3>2, NoCallShows
      <3>3. CASE k # "verify"
        BY <1>1, <1>k, <2>1, <2>2, <3>3 DEF CookieInv, Kept
      <3> QED
        BY <3>1, <3>2, <3>3
    <2>5. past'.entered => calls'["verify"] = NoCall /\ Kept(past.session)'
      <3>1. past.entered => calls["verify"] = NoCall /\ Kept(past.session)
        BY DEF CookieInv
      <3>2. past.entered /\ k = "verify" => calls'["verify"] = NoCall
        BY <1>1, <3>1, NoCallShows
      <3> QED
        BY <1>1, <1>2, <1>k, <2>1, <2>2, <3>1, <3>2 DEF Kept
    <2> QED
      BY <1>1, <1>2, <1>3, <1>k, <2>3, <2>4, <2>5, NoCallShows DEF CookieInv, Minted
  <1>5. CASE calls[k].cookie = "set" /\ ~UNCHANGED <<jar, past>>
    <2>1. k = "verify" /\ Cookie(calls["verify"]) /\ \A t \in {calls["verify"].given} : Kept(t)'
      BY <1>5, CookieShows
    <2>2. calls["verify"] # NoCall
      BY <1>5, <2>1, NoCallShows
    <2>3. ~calls["me"].current /\ ~past.entered
      BY <2>2 DEF CookieInv
    <2> QED
      BY <1>1, <1>2, <1>3, <1>k, <2>1, <2>3, NoCallShows DEF CookieInv, Kept, Minted
  <1> QED
    BY <1>4, <1>5

\* No action of the store, the network, the server or the browser.
LEMMA CookieSteps == StoreInv /\ CookieInv /\ [SessionNext]_sessionVars => CookieInv'
  <1> SUFFICES ASSUME StoreInv, CookieInv, [SessionNext]_sessionVars
               PROVE  CookieInv'
    OBVIOUS
  <1> USE NoTokenIsNoToken
  <1>t. /\ jar \in Token \cup {NoToken} /\ live \subseteq Token
        /\ minted \in [Token -> {"none", "owner", "visitor", "admin"}]
        /\ past \in PastType
        /\ calls \in [Kind -> CallState]
    BY DEF StoreInv, PastType
  <1>k. /\ "me" \in Kind /\ "verify" \in Kind /\ "logout" \in Kind
        /\ "tip" \in Kind /\ "scene" \in Kind /\ Content \subseteq Kind \ {"me", "verify", "logout"}
    BY DEF Kind, Operation, Content
  <1>1. ASSUME NEW k \in Operation, Begin(k), UNCHANGED <<jar, minted, live>>, k # "me"
        PROVE  CookieInv'
    <2> DEFINE outdated(c) == [c EXCEPT !.current = FALSE]
    <2>1. \A c \in CallState : /\ outdated(c).current = FALSE /\ outdated(c).sent = c.sent
                               /\ outdated(c).cookie = c.cookie /\ outdated(c).stage = c.stage /\ outdated(c).answer = c.answer
                               /\ outdated(c).given = c.given
      BY DEF CallState
    <2>2. /\ calls' = [j \in Kind |-> IF j = k THEN NewCall ELSE outdated(calls[j])]
          /\ past'.entered = FALSE /\ past'.session = past.session
      BY <1>1, <1>t DEF Begin, PastType
    <2>3. /\ NewCall.sent = jar /\ NewCall.answer = "none" /\ NewCall.stage = "sent" /\ NewCall.cookie = "keep"
      BY DEF NewCall, NoCall
    <2> HIDE DEF outdated
    <2>4. /\ k \in Kind /\ calls'[k] = NewCall
          /\ \A j \in Kind \ {k} : calls'[j] = outdated(calls[j]) /\ calls[j] \in CallState
      BY <1>t, <2>2 DEF Kind
    <2>5. \A j \in Kind : /\ Minted(calls[j].sent)'
                          /\ calls'[j].cookie = "clear" => calls'[j].sent \notin live'
                          /\ calls'[j].cookie = "set" => j = "verify"
      BY <1>1, <2>1, <2>3, <2>4 DEF CookieInv, Minted
    <2>6. /\ calls'["verify"].cookie = "set" =>
                calls'["verify"].given \in Token /\ Minted(calls["verify"].given)'
          /\ ~(calls'["verify"].current /\ calls'["verify"].answer \in LetIn)
      BY <1>1, <1>k, <2>1, <2>3, <2>4 DEF CookieInv, Minted, LetIn
    <2>7. /\ calls'["me"].stage = "answered" => calls'["me"].answer \in LetIn \cup {"refused"}
          /\ calls'["me"].answer \in LetIn => calls'["me"].cookie = "keep"
          /\ ~calls'["me"].current
      BY <1>1, <1>k, <2>1, <2>4 DEF CookieInv
    <2> QED
      BY <1>1, <2>2, <2>5, <2>6, <2>7 DEF CookieInv, Minted
  <1>3. CASE HandleMe
    <2>1. PICK a \in AnswerKinds, c \in {"keep", "clear"} :
             /\ Answer("me", a, c) /\ a \in LetIn \cup {"refused"} /\ (a \in LetIn => c = "keep")
             /\ c = "clear" => calls["me"].sent \notin live
      <3>1. CASE calls["me"].sent \in live /\ Answer("me", minted[calls["me"].sent], "keep")
        <4>1. minted[calls["me"].sent] \in LetIn
          BY <1>t, <1>k, <3>1 DEF CookieInv, Minted, LetIn
        <4> QED
          BY <3>1, <4>1 DEF AnswerKinds, LetIn
      <3>2. CASE calls["me"].sent \notin live /\ Refusal("me")
        BY <3>2 DEF Refusal, AnswerKinds, LetIn
      <3> QED
        BY <1>3, <3>1, <3>2 DEF HandleMe
    <2> QED
      BY <1>3, <1>k, <2>1, AnsweredSteps DEF HandleMe
  <1>4. CASE HandleVerify
    <2>1. UNCHANGED <<jar, past>> /\ calls["verify"].stage = "sent" /\ calls["verify"] # NoCall
      BY <1>4, NoCallShows DEF HandleVerify
    <2>0. ~calls["me"].current /\ ~past.entered
      BY <2>1 DEF CookieInv
    <2>2. CASE Answer("verify", "refused", "keep") /\ UNCHANGED <<minted, live>>
      <3>1. /\ \A j \in Kind \ {"verify"} : calls'[j] = calls[j]
            /\ calls'["verify"].answer = "refused" /\ calls'["verify"].cookie = "keep"
            /\ calls'["verify"].sent = calls["verify"].sent
        BY <1>k, <2>2, AnswerShows DEF AnswerKinds, Cookies
      <3>2. calls'["me"] = calls["me"]
        BY <1>k, <3>1
      <3>3. \A j \in Kind : /\ Minted(calls[j].sent)'
                            /\ calls'[j].cookie = "clear" => calls'[j].sent \notin live'
                            /\ calls'[j].cookie = "set" => j = "verify"
        BY <2>2, <3>1 DEF CookieInv, Minted
      <3> QED
        BY <2>0, <2>1, <2>2, <3>1, <3>2, <3>3 DEF CookieInv, Minted, LetIn
    <2>3. ASSUME NEW t \in {u \in Token : minted[u] = "none"}, NEW r \in LetIn,
                 minted' = [minted EXCEPT ![t] = r], live' = live \cup {t},
                 calls' = [calls EXCEPT !["verify"] = [@ EXCEPT
                             !.stage = "answered", !.answer = r, !.cookie = "set", !.given = t]]
          PROVE  CookieInv'
      <3> DEFINE d == [calls["verify"] EXCEPT !.stage = "answered", !.answer = r,
                                              !.cookie = "set", !.given = t]
      <3>1. /\ d.stage = "answered" /\ d.answer = r /\ d.cookie = "set" /\ d.given = t
            /\ d.sent = calls["verify"].sent /\ d.current = calls["verify"].current
        BY <1>t, <1>k DEF CallState
      <3>2. calls' = [calls EXCEPT !["verify"] = d]
        BY <2>3
      <3> HIDE DEF d
      <3>3. calls'["verify"] = d /\ \A j \in Kind \ {"verify"} : calls'[j] = calls[j]
        BY <1>t, <1>k, <3>2
      <3>4. t \in Token /\ minted'[t] # "none" /\ \A u \in Token : minted[u] # "none" => minted'[u] # "none"
        BY <1>t, <2>3 DEF LetIn
      <3>5. \A j \in Kind : calls[j].sent # t
        BY <2>3 DEF CookieInv, Minted
      <3>6. \A j \in Kind : /\ Minted(calls[j].sent)'
                            /\ calls'[j].cookie = "clear" => calls'[j].sent \notin live'
                            /\ calls'[j].cookie = "set" => j = "verify"
        BY <2>3, <3>1, <3>3, <3>4, <3>5 DEF CookieInv, Minted
      <3>7. Minted(jar)' /\ Minted(past.session)'
        BY <2>1, <3>4 DEF CookieInv, Minted
      <3>8. calls'["me"] = calls["me"]
        BY <1>k, <3>3
      <3> QED
        BY <2>0, <2>1, <3>1, <3>3, <3>4, <3>6, <3>7, <3>8 DEF CookieInv, Minted
    <2> QED
      BY <1>4, <2>2, <2>3 DEF HandleVerify, LetIn
  <1>5. CASE HandleLogout
    <2>1. PICK a \in AnswerKinds, c \in {"keep", "clear"} :
             Answer("logout", a, c) /\ (c = "clear" => calls["logout"].sent \notin live')
      BY <1>5 DEF HandleLogout, Refusal, AnswerKinds
    <2> QED
      BY <1>5, <1>k, <2>1, AnsweredSteps DEF HandleLogout
  <1>18. ASSUME NEW k \in Content, HandleContent(k)
         PROVE  CookieInv'
    <2>1. PICK a \in AnswerKinds, c \in {"keep", "clear"} :
             Answer(k, a, c) /\ (c = "clear" => calls[k].sent \notin live)
      BY <1>18 DEF HandleContent, Refusal, AnswerKinds
    <2> QED
      BY <1>18, <1>k, <2>1, AnsweredSteps DEF HandleContent
  <1>6. CASE SessionExpires \/ CookieExpires
    <2>1. UNCHANGED <<calls, past, minted>> /\ live' \subseteq live
          /\ (jar' = jar \/ (jar' = NoToken /\ jar \notin live))
      BY <1>6 DEF SessionExpires, CookieExpires
    <2>2. \A t : Kept(t) => Kept(t)'
      BY <2>1 DEF Kept
    <2>3. (calls["me"].current => Kept(calls["me"].sent)') /\ (past.entered => Kept(past.session)')
          /\ (calls["verify"].current /\ calls["verify"].answer \in LetIn /\ calls["verify"].stage = "body"
                => Kept(calls["verify"].given)')
      BY <2>1, <2>2 DEF CookieInv, Kept
    <2> QED
      BY <2>1, <2>3 DEF CookieInv, Minted
  <1>7. CASE MeHeaders
    BY <1>7, <1>k, EndedSteps DEF MeHeaders
  <1>8. CASE MeBody
    <2>1. CASE calls' = [calls EXCEPT !["me"] = NoCall] /\ UNCHANGED past
      BY <1>8, <2>1, <1>k, EndedSteps DEF MeBody
    <2>2. CASE Welcome("me") /\ Inside("me", calls["me"].sent)
      <3>1. /\ past'.session = calls["me"].sent /\ past'.late = past.late
            /\ UNCHANGED <<jar, minted, live>>
        BY <1>8, <1>t, <2>2 DEF MeBody, Inside, PastType
      <3>2. /\ ContentCall.sent = jar /\ ContentCall.cookie = "keep" /\ ~ContentCall.current
        BY <1>t, NewCallIsCall
      <3>3. /\ calls'["me"] = NoCall /\ calls'["tip"] = ContentCall
            /\ \A j \in Kind \ {"me", "tip"} : calls'[j] = calls[j]
        BY <1>t, <1>k, <2>2 DEF Inside
      <3>4. calls["verify"] = NoCall /\ Kept(calls["me"].sent) /\ Minted(calls["me"].sent)
        BY <1>k, <2>2 DEF CookieInv, Welcome
      <3>5. calls'["verify"] = NoCall /\ Kept(past.session)' /\ Minted(past.session)' /\ Minted(jar)'
        BY <1>k, <3>1, <3>3, <3>4 DEF Kept, Minted, CookieInv
      <3>6. \A j \in Kind : /\ Minted(calls[j].sent)'
                            /\ calls'[j].cookie = "clear" => calls'[j].sent \notin live'
                            /\ calls'[j].cookie = "set" => j = "verify"
        BY <3>1, <3>2, <3>3, NoCallShows DEF CookieInv, Minted
      <3> QED
        BY <3>3, <3>5, <3>6, NoCallShows DEF CookieInv, LetIn
    <2> QED
      BY <1>8, <2>1, <2>2 DEF MeBody
  <1>9. CASE MeFails
    BY <1>9, <1>k, EndedSteps DEF MeFails
  <1>10. CASE VerifyHeaders
    BY <1>10, <1>k, EndedSteps DEF VerifyHeaders
  <1>11. CASE VerifyBody
    <2>1. CASE calls' = [calls EXCEPT !["verify"] = NoCall] /\ UNCHANGED past
      BY <1>11, <2>1, <1>k, EndedSteps DEF VerifyBody
    <2>2. CASE Welcome("verify") /\ Inside("verify", calls["verify"].given)
      <3>1. /\ past'.session = calls["verify"].given /\ past'.late = past.late
            /\ UNCHANGED <<jar, minted, live>>
        BY <1>11, <1>t, <2>2 DEF VerifyBody, Inside, PastType
      <3>2. /\ ContentCall.sent = jar /\ ContentCall.cookie = "keep" /\ ~ContentCall.current
        BY <1>t, NewCallIsCall
      <3>3. /\ calls'["verify"] = NoCall /\ calls'["tip"] = ContentCall
            /\ \A j \in Kind \ {"verify", "tip"} : calls'[j] = calls[j]
        BY <1>t, <1>k, <2>2 DEF Inside
      <3>4. Kept(calls["verify"].given) /\ Minted(calls["verify"].given) /\ ~calls["me"].current
        <4>1. calls["verify"].stage = "body" /\ calls["verify"] # NoCall
          BY <1>11 DEF VerifyBody, NoCall
        <4> QED
          BY <2>2, <4>1 DEF CookieInv, Welcome, LetIn
      <3>5. Kept(past.session)' /\ Minted(past.session)' /\ Minted(jar)'
        BY <3>1, <3>4 DEF Kept, Minted, CookieInv
      <3>6. \A j \in Kind : /\ Minted(calls[j].sent)'
                            /\ calls'[j].cookie = "clear" => calls'[j].sent \notin live'
                            /\ calls'[j].cookie = "set" => j = "verify"
        BY <3>1, <3>2, <3>3, NoCallShows DEF CookieInv, Minted
      <3>7. calls'["me"] = calls["me"]
        BY <1>k, <3>3
      <3> QED
        BY <3>3, <3>4, <3>5, <3>6, <3>7, NoCallShows DEF CookieInv, LetIn
    <2> QED
      BY <1>11, <2>1, <2>2 DEF VerifyBody
  <1>12. CASE VerifyFails
    BY <1>12, <1>k, EndedSteps DEF VerifyFails
  <1>13. CASE LogoutHeaders
    BY <1>13, <1>k, EndedSteps DEF LogoutHeaders
  <1>14. CASE LogoutFails
    BY <1>14, <1>k, EndedSteps DEF LogoutFails
  <1>15. CASE TipEnds
    BY <1>15, <1>k, EndedSteps DEF TipEnds
  <1>19. CASE ContentEnds
    BY <1>19, <1>k, EndedSteps DEF ContentEnds
  <1>20. CASE AskContent
    <2>1. ContentCall.sent = jar /\ ContentCall.cookie = "keep"
      BY <1>t, NewCallIsCall
    <2>2. calls'["scene"] = ContentCall /\ \A j \in Kind \ {"scene"} : calls'[j] = calls[j]
      BY <1>20, <1>t, <1>k DEF AskContent
    <2>3. calls'["me"] = calls["me"] /\ calls'["verify"] = calls["verify"]
      BY <1>k, <2>2
    <2>4. UNCHANGED <<jar, minted, live, past>>
      BY <1>20 DEF AskContent
    <2>5. \A j \in Kind : /\ Minted(calls[j].sent)'
                          /\ calls'[j].cookie = "clear" => calls'[j].sent \notin live'
                          /\ calls'[j].cookie = "set" => j = "verify"
      BY <2>1, <2>2, <2>4 DEF CookieInv, Minted
    <2> QED
      BY <2>3, <2>4, <2>5 DEF CookieInv, Minted, Kept
  <1>21. CASE BarGrows \/ EnterScene
    BY <1>21 DEF BarGrows, EnterScene, CookieInv, Minted, Kept
  <1>16. CASE Reload
    <2>1. /\ calls' = Mounted /\ past'.entered = FALSE /\ past'.session = NoToken
          /\ UNCHANGED <<jar, minted, live>>
      BY <1>16 DEF Reload, NothingPast
    <2>2. /\ calls'["me"] = NewCall /\ \A k \in Kind \ {"me"} : calls'[k] = NoCall
          /\ "verify" \in Kind \ {"me"}
      BY <2>1 DEF Mounted, Kind, Operation
    <2>3. NewCall.sent = jar /\ NewCall.answer = "none" /\ NewCall.stage = "sent" /\ NewCall.cookie = "keep"
      BY DEF NewCall, NoCall
    <2> QED
      BY <2>1, <2>2, <2>3, NoCallShows DEF CookieInv, Minted, LetIn, Kept
  <1>17. CASE UNCHANGED sessionVars
    BY <1>17 DEF sessionVars, CookieInv, Minted, Kept
  <1> QED
    BY <1>1, <1>3, <1>4, <1>5, <1>6, <1>7, <1>8, <1>9, <1>10, <1>11, <1>12,
       <1>13, <1>14, <1>15, <1>16, <1>17, <1>18, <1>19, <1>20, <1>21
    DEF SessionNext, SessionStep, LoadingPage, Submit, Logout, Operation

\* The inductive invariant of the session cookie (the Set-Cookie headers of
\* auth.controller.ts, as the calls of stores/auth.ts receive them).
THEOREM CookieInvHolds == SessionSpec => []CookieInv
  BY StoreInvHolds, CookieStarts, CookieSteps, PTL DEF SessionSpec

\* As long as the session lives that a user was let in with, its cookie stays,
\* unless an answer to a request sent with an older cookie clears it (client
\* stores/auth.ts; session.guard.ts and auth.controller.ts, which clear cookies).
THEOREM CookiesAreKept == SessionSpec => []CookieKept
  <1>1. CookieInv => CookieKept
    BY DEF CookieInv, CookieKept, Kept
  <1> QED
    BY <1>1, CookieInvHolds, PTL

-----------------------------------------------------------------------------
(****************************************************************************)
(* Of all requests that were sent only the latest, the one whose version is *)
(* the panel's own, touches what is shown, and it is for the province that  *)
(* is shown: that is PanelInv.                                              *)
(****************************************************************************)

\* The flags of the panel and whose photos it lists.
Shots == [photos : Province \cup {NoProvince}, loading : BOOLEAN,
          error : BOOLEAN, empty : BOOLEAN]

\* What the two handlers do to the flags of the panel.
LEMMA ShotChanges ==
  ASSUME NEW s \in Shots
  PROVE  /\ LET t == [s EXCEPT !.error = TRUE, !.loading = FALSE]
            IN  t \in Shots /\ t.error /\ ~t.loading
         /\ LET t == [s EXCEPT !.loading = FALSE, !.error = TRUE]
            IN  t \in Shots /\ t.error /\ ~t.loading
  BY DEF Shots

\* What the body of an answer does to them.
LEMMA PhotosListed ==
  ASSUME NEW s \in Shots, NEW of \in Province \cup {NoProvince}
  PROVE  /\ LET t == [s EXCEPT !.loading = FALSE, !.empty = TRUE, !.photos = of]
            IN  t \in Shots /\ t.empty /\ ~t.loading
         /\ LET t == [s EXCEPT !.loading = FALSE, !.empty = FALSE, !.photos = of]
            IN  t \in Shots /\ ~t.loading /\ t.photos = of
  BY DEF Shots

\* A panel with a province has sent a request for it, the latest one; whether
\* it loads, and whose photos it lists, is up to that request alone.
PanelInv ==
    /\ shownOf \in Province \cup {NoProvince}
    /\ version \in 0 .. MaxVersion
    /\ requests \in [1 .. MaxVersion -> [of : Province \cup {NoProvince},
                                         stage : {"none", "sent", "body"}]]
    /\ shot \in Shots
    /\ shownOf = NoProvince => \A v \in 1 .. MaxVersion : requests[v].stage = "none"
    /\ shownOf # NoProvince =>
          /\ version >= 1
          /\ requests[version].of = shownOf
          /\ shot.loading <=> requests[version].stage # "none"
          /\ shot.loading \/ shot.error \/ shot.empty \/ shot.photos = shownOf

\* A panel that is not mounted.
LEMMA PanelStarts == PanelInit => PanelInv
  BY MaxVersionIsNat DEF PanelInit, PanelInv, NoRequest, Blank, Shots

\* No step of the parent and no answer.
LEMMA PanelSteps == PanelInv /\ [PanelNext]_panelVars => PanelInv'
  <1> SUFFICES ASSUME PanelInv, [PanelNext]_panelVars
               PROVE  PanelInv'
    OBVIOUS
  <1> USE MaxVersionIsNat, NoProvinceIsNone
  <1>1. ASSUME NEW p \in Province, Watch(p)
        PROVE  PanelInv'
    <2>1. shot' \in Shots /\ shot'.loading
      BY <1>1 DEF Watch, Blank, Shots
    <2>2. /\ shownOf' = p /\ version' = version + 1 /\ version < MaxVersion
          /\ requests' = [requests EXCEPT ![version + 1] = [of |-> p, stage |-> "sent"]]
      BY <1>1 DEF Watch
    <2> QED
      BY <2>1, <2>2 DEF PanelInv
  <1>2. CASE Unmount
    BY <1>2 DEF Unmount, PanelInv, NoRequest, Blank, Shots
  <1>3. ASSUME NEW v \in 1 .. MaxVersion, Headers(v)
        PROVE  PanelInv'
    <2>1. shownOf' = shownOf /\ version' = version /\ shownOf # NoProvince
      BY <1>3 DEF Headers, PanelInv
    <2>2. CASE Latest(v) /\ requests' = [requests EXCEPT ![v].stage = "body"] /\ UNCHANGED shot
      BY <1>3, <2>1, <2>2 DEF Headers, PanelInv, Latest
    <2>4. CASE ~Latest(v) /\ Finished(v) /\ UNCHANGED shot
      BY <2>1, <2>4 DEF PanelInv, Latest, Finished
    <2>3. CASE shot' = [shot EXCEPT !.error = TRUE, !.loading = FALSE] /\ Latest(v) /\ Finished(v)
      <3>1. shot' \in Shots /\ shot'.error /\ ~shot'.loading
        BY <2>3, ShotChanges DEF PanelInv
      <3> QED
        BY <2>1, <2>3, <3>1 DEF PanelInv, Latest, Finished
    <2> QED
      BY <1>3, <2>2, <2>3, <2>4 DEF Headers
  <1>4. ASSUME NEW v \in 1 .. MaxVersion, Body(v)
        PROVE  PanelInv'
    <2>1. shownOf' = shownOf /\ version' = version /\ shownOf # NoProvince
      BY <1>4 DEF Body, PanelInv
    <2>2. requests' = [requests EXCEPT ![v].stage = "none"]
      BY <1>4 DEF Body, Finished
    <2>3. CASE ~Latest(v) /\ UNCHANGED shot
      BY <2>1, <2>2, <2>3 DEF PanelInv, Latest
    <2>4. CASE /\ Latest(v)
               /\ shot' = [shot EXCEPT !.loading = FALSE, !.empty = TRUE, !.photos = NoProvince]
      <3>1. shot' \in Shots /\ shot'.empty /\ ~shot'.loading
        BY <2>4, PhotosListed DEF PanelInv
      <3> QED
        BY <2>1, <2>2, <2>4, <3>1 DEF PanelInv, Latest
    <2>6. CASE /\ Latest(v)
               /\ shot' = [shot EXCEPT !.loading = FALSE, !.empty = FALSE,
                                       !.photos = requests[v].of]
      <3>1. requests[v].of = shownOf /\ shownOf \in Province \cup {NoProvince}
        BY <2>1, <2>6 DEF PanelInv, Latest
      <3>2. shot' \in Shots /\ ~shot'.loading /\ shot'.photos = shownOf
        BY <2>6, <3>1, PhotosListed DEF PanelInv
      <3> QED
        BY <2>1, <2>2, <2>6, <3>2 DEF PanelInv, Latest
    <2>5. CASE shot' = [shot EXCEPT !.loading = FALSE, !.error = TRUE] /\ Latest(v)
      <3>1. shot' \in Shots /\ shot'.error /\ ~shot'.loading
        BY <2>5, ShotChanges DEF PanelInv
      <3> QED
        BY <2>1, <2>2, <2>5, <3>1 DEF PanelInv, Latest
    <2> QED
      BY <1>4, <2>3, <2>4, <2>5, <2>6 DEF Body
  <1>5. CASE UNCHANGED panelVars
    BY <1>5 DEF panelVars, PanelInv
  <1> QED
    BY <1>1, <1>2, <1>3, <1>4, <1>5 DEF PanelNext, Answers

\* The inductive invariant of the panel (PhotoPanel.vue, the watch on its province).
THEOREM PanelInvHolds == PanelSpec => []PanelInv
  BY PanelStarts, PanelSteps, PTL DEF PanelSpec

\* The visitor sees no photos but those of the chosen province, and a panel that is
\* loading exactly as long as the request for it is unanswered (PhotoPanel.vue, the
\* version compared after each await).
THEOREM PanelShowsWhatWasChosen == PanelSpec => []PanelFollows
  <1>1. PanelInv => PanelFollows
    BY ProvincesAreNoSights, NoProvinceIsNone DEF PanelInv, PanelFollows, Sight, Shots
  <1> QED
    BY PanelInvHolds, <1>1, PTL

-----------------------------------------------------------------------------
(*****************************************************************************)
(* The room: SceneInv says which pages can still come while an album is      *)
(* asked for or open, what was under way when an overlay was opened, and     *)
(* which of the running animations will have the last word.                  *)
(*****************************************************************************)

\* Which overlays are open, and for which album.
Overlays == [map : BOOLEAN, shelf : BOOLEAN, panel : BOOLEAN, viewer : BOOLEAN,
             album : Album \cup {NoAlbum}]
\* Where the camera can be.
Zones == {"room", "wall", "shelf"}
Cameras == [zone : Zones, world : Zones, moves : Seq(Zones), resized : BOOLEAN]

\* The book of the viewer.
Books == [of : Album \cup {NoAlbum}, at : Nat, fallback : BOOLEAN, hint : BOOLEAN]

Trails == [book : SUBSET (Album \cup {NoAlbum}), stray : BOOLEAN, map : BOOLEAN, out : BOOLEAN,
           last : Zones, behind : SUBSET Zones]

\* Types.
SceneTypes ==
    /\ overlay \in Overlays
    /\ fetches \in [Album -> Nat]
    /\ pages \in Album \cup {NoAlbum}
    /\ camera \in Cameras
    /\ book \in Books
    /\ trail \in Trails

\* The book, its pages and those that may still come are of the albums that were
\* under way; a viewer that is asked for with nothing to show is a stray one.
BookFollows ==
    /\ IF Viewing(overlay) THEN book.of \in trail.book /\ pages \in trail.book
                           ELSE book = NoBook
    /\ overlay.album \in Album => \A b \in Album : fetches[b] > 0 => b \in trail.book
    /\ overlay.viewer /\ (overlay.album = NoAlbum \/ overlay.shelf) => trail.stray
    /\ trail.stray => overlay.viewer

\* What is over the map came, or will come, from pages under way when it was opened.
MapFollows ==
    /\ overlay.map /\ (Viewing(overlay) \/ overlay.shelf) => trail.map
    /\ \A b \in Album : overlay.map /\ fetches[b] > 0 => trail.map
    /\ overlay.panel => overlay.map

\* The zone the camera was sent to is the one of the overlay that is open.
ZoneFollows ==
    /\ overlay.map => trail.last = "wall"
    /\ overlay.shelf \/ Viewing(overlay) => trail.last = "shelf" \/ trail.out
    /\ \A b \in Album : overlay.album \in Album /\ fetches[b] > 0 =>
                           trail.last = "shelf" \/ trail.out
    /\ overlay.map \/ overlay.shelf \/ Viewing(overlay) \/ trail.last = "room" \/ trail.stray

\* Either the animation that was begun last is still running, and if it goes back
\* to the room the others are those it was begun behind, or only such ones are.
LastRunning(c, t) ==
    \/ /\ Len(c.moves) > 0 /\ c.moves[Len(c.moves)] = t.last
       /\ t.last = "room" =>
             \A i \in 1..Len(c.moves) : c.moves[i] = "room" \/ c.moves[i] \in t.behind
    \/ /\ \A i \in 1..Len(c.moves) : c.moves[i] \in t.behind
       /\ c.zone \in {t.last} \cup t.behind

AtRest(c) == c.moves = <<>> => c.world = IF c.resized THEN "room" ELSE c.zone

SceneInv ==
    /\ SceneTypes
    /\ BookFollows
    /\ MapFollows
    /\ ZoneFollows
    /\ LastRunning(camera, trail) /\ AtRest(camera)

\* The room, with nothing open.
LEMMA SceneStarts == SceneInit => SceneInv
  <1> SUFFICES ASSUME SceneInit PROVE SceneInv
    OBVIOUS
  <1>1. SceneTypes
    BY DEF SceneInit, SceneTypes, Overlays, Books, Zones, NoBook, Cameras, Trails
  <1>2. BookFollows /\ MapFollows /\ ZoneFollows
    BY AlbumsHavePages DEF SceneInit, BookFollows, MapFollows, ZoneFollows, Viewing
  <1>3. Len(camera.moves) = 0 /\ camera.zone = "room" /\ camera.world = "room" /\ ~camera.resized
        /\ trail.last = "room"
    BY DEF SceneInit
  <1>4. LastRunning(camera, trail) /\ AtRest(camera)
    BY <1>3 DEF LastRunning, AtRest
  <1> QED
    BY <1>1, <1>2, <1>4 DEF SceneInv

\* The element a sequence gets, and those it keeps.
LEMMA AppendedMove ==
  ASSUME NEW s \in Seq(Zones), NEW zone \in Zones
  PROVE  /\ Append(s, zone) \in Seq(Zones) /\ Append(s, zone) # <<>>
         /\ Len(Append(s, zone)) = Len(s) + 1 /\ Len(s) \in Nat
         /\ Append(s, zone)[Len(s) + 1] = zone
         /\ \A i \in 1..Len(s) : Append(s, zone)[i] = s[i]
  <1>1. Append(s, zone) \in Seq(Zones) /\ Len(Append(s, zone)) = Len(s) + 1 /\ Len(s) \in Nat
    OBVIOUS
  <1>2. Append(s, zone) # <<>>
    BY <1>1
  <1> QED
    BY <1>1, <1>2

\* The sequence without one of its elements.
LEMMA RemovedMove ==
  ASSUME NEW s \in Seq(Zones), NEW i \in 1..Len(s)
  PROVE  /\ Without(s, i) \in Seq(Zones)
         /\ Len(Without(s, i)) = Len(s) - 1 /\ Len(s) \in Nat
         /\ \A j \in 1..Len(s) - 1 : Without(s, i)[j] = IF j < i THEN s[j] ELSE s[j + 1]
  <1> DEFINE x == SubSeq(s, 1, i - 1)
             y == SubSeq(s, i + 1, Len(s))
  <1>1. i \in 1..Len(s) /\ Len(s) \in Nat
    OBVIOUS
  <1>2. /\ x \in Seq(Zones) /\ Len(x) = i - 1 /\ \A j \in 1..i - 1 : x[j] = s[j]
        /\ y \in Seq(Zones) /\ Len(y) = Len(s) - i
        /\ \A j \in 1..Len(s) - i : y[j] = s[i + j]
    BY <1>1
  <1>3. Without(s, i) = x \o y
    BY DEF Without
  <1> HIDE DEF x, y
  <1>4. x \o y \in Seq(Zones) /\ Len(x \o y) = Len(s) - 1
    <2>1. x \in Seq(Zones) /\ y \in Seq(Zones) /\ Len(x) + Len(y) = Len(s) - 1
      BY <1>1, <1>2
    <2>2. x \o y \in Seq(Zones) /\ Len(x \o y) = Len(x) + Len(y)
      BY <2>1
    <2> QED
      BY <2>1, <2>2
  <1>5. ASSUME NEW j \in 1..Len(s) - 1, j < i PROVE (x \o y)[j] = s[j]
    BY <1>1, <1>2, <1>5
  <1>6. ASSUME NEW j \in 1..Len(s) - 1, ~(j < i) PROVE (x \o y)[j] = s[j + 1]
    <2>1. j - (i - 1) \in 1..Len(s) - i /\ i + (j - (i - 1)) = j + 1
      BY <1>1, <1>6
    <2>2. (x \o y)[j] = y[j - (i - 1)]
      BY <1>1, <1>2, <1>6
    <2> QED
      BY <1>2, <2>1, <2>2
  <1> QED
    BY <1>1, <1>3, <1>4, <1>5, <1>6

\* The camera is sent somewhere: the animation that begins is the last one, and
\* those it leaves running are the ones it was begun behind.
LEMMA ZoomRuns ==
  ASSUME SceneTypes, NEW zone \in Zones, Moves(zone), trail'.last = zone,
         zone = "room" => trail'.behind = Range(camera.moves) \ {"room"}
  PROVE  camera' \in Cameras /\ LastRunning(camera', trail') /\ AtRest(camera')
  <1> DEFINE s == camera.moves
             c == camera'
  <1>1. camera \in Cameras /\ s \in Seq(Zones)
    BY DEF SceneTypes, Cameras
  <1>2. c = [camera EXCEPT !.moves = Append(s, zone)]
    BY DEF Moves
  <1>3. /\ Append(s, zone) \in Seq(Zones) /\ Append(s, zone) # <<>>
        /\ Len(Append(s, zone)) = Len(s) + 1 /\ Len(s) \in Nat
        /\ Append(s, zone)[Len(s) + 1] = zone
        /\ \A i \in 1..Len(s) : Append(s, zone)[i] = s[i]
    BY <1>1, AppendedMove
  <1>4. c \in Cameras /\ c.moves = Append(s, zone)
    BY <1>1, <1>2, <1>3 DEF Cameras
  <1>5. \A i \in 1..Len(s) : s[i] \in Range(s)
    <2>1. DOMAIN s = 1..Len(s)
      BY <1>1
    <2> QED
      BY <2>1 DEF Range
  <1> HIDE DEF s, c
  <1>6. ASSUME zone = "room", NEW i \in 1..Len(c.moves)
        PROVE  c.moves[i] = "room" \/ c.moves[i] \in trail'.behind
    <2>1. CASE i = Len(s) + 1
      BY <1>3, <1>4, <1>6, <2>1
    <2>2. CASE i \in 1..Len(s)
      BY <1>3, <1>4, <1>5, <1>6, <2>2 DEF s
    <2> QED
      BY <1>3, <1>4, <2>1, <2>2
  <1>7. Len(c.moves) > 0 /\ c.moves[Len(c.moves)] = trail'.last
    BY <1>3, <1>4
  <1>8. LastRunning(c, trail') /\ AtRest(c)
    BY <1>3, <1>4, <1>6, <1>7 DEF LastRunning, AtRest
  <1> QED
    BY <1>4, <1>8 DEF c

\* The camera is sent to the map, to the shelf or back.
LEMMA ZoomSteps ==
  ASSUME SceneInv, ZoomInWall \/ ZoomInShelf \/ ZoomOut
  PROVE  SceneInv'
  <1>t. SceneTypes /\ overlay \in Overlays /\ trail \in Trails /\ fetches \in [Album -> Nat]
    BY DEF SceneInv, SceneTypes
  <1>f. Fetching \in BOOLEAN /\ \A b \in Album : fetches[b] > 0 => Fetching
    BY DEF Fetching
  <1>r. Range(camera.moves) \ {"room"} \in SUBSET Zones
    <2>1. camera.moves \in Seq(Zones)
      BY <1>t DEF SceneTypes, Cameras
    <2>2. \A i \in DOMAIN camera.moves : camera.moves[i] \in Zones
      BY <2>1
    <2> QED
      BY <2>2 DEF Range
  <1>1. CASE ZoomInWall
    <2>1. /\ ~overlay.map /\ ~overlay.shelf /\ ~Viewing(overlay) /\ Moves("wall")
          /\ overlay' = [overlay EXCEPT !.map = TRUE]
          /\ trail' = [trail EXCEPT !.last = "wall", !.behind = {}, !.map = Fetching]
          /\ UNCHANGED <<fetches, pages, book>>
      BY <1>1 DEF ZoomInWall, EntriesShown
    <2>2. /\ overlay' \in Overlays /\ overlay'.map
          /\ overlay'.shelf = overlay.shelf /\ overlay'.panel = overlay.panel
          /\ overlay'.viewer = overlay.viewer /\ overlay'.album = overlay.album
      BY <1>t, <2>1 DEF Overlays
    <2> DEFINE F == Fetching
    <2>3. F \in BOOLEAN /\ trail' = [trail EXCEPT !.last = "wall", !.behind = {}, !.map = F]
      BY <1>f, <2>1
    <2> HIDE DEF F
    <2>4. /\ trail' \in Trails /\ trail'.last = "wall" /\ trail'.map = F
          /\ trail'.book = trail.book /\ trail'.stray = trail.stray /\ trail'.out = trail.out
      BY <1>t, <2>3 DEF Trails, Zones
    <2>5. camera' \in Cameras /\ LastRunning(camera', trail') /\ AtRest(camera')
      BY <1>t, <2>1, <2>4, ZoomRuns DEF Zones
    <2>6. ~Viewing(overlay')
      BY <2>1, <2>2 DEF Viewing
    <2>7. BookFollows'
      BY <2>1, <2>2, <2>4, <2>6 DEF SceneInv, BookFollows, Viewing
    <2>8. MapFollows'
      BY <1>f, <2>1, <2>2, <2>4, <2>6 DEF SceneInv, MapFollows, F, Viewing
    <2>9. ZoneFollows'
      BY <2>1, <2>2, <2>4, <2>6, AlbumsHavePages
         DEF SceneInv, ZoneFollows, BookFollows, Viewing
    <2> QED
      BY <1>t, <2>1, <2>2, <2>4, <2>5, <2>7, <2>8, <2>9 DEF SceneInv, SceneTypes
  <1>2. CASE ZoomInShelf
    <2>1. /\ ~overlay.map /\ ~overlay.shelf /\ ~Viewing(overlay) /\ Moves("shelf")
          /\ overlay' = [overlay EXCEPT !.shelf = TRUE]
          /\ trail' = [trail EXCEPT !.last = "shelf", !.behind = {}]
          /\ UNCHANGED <<fetches, pages, book>>
      BY <1>2 DEF ZoomInShelf, EntriesShown
    <2>2. /\ overlay' \in Overlays /\ overlay'.shelf
          /\ overlay'.map = overlay.map /\ overlay'.panel = overlay.panel
          /\ overlay'.viewer = overlay.viewer /\ overlay'.album = overlay.album
      BY <1>t, <2>1 DEF Overlays
    <2>3. /\ trail' \in Trails /\ trail'.last = "shelf" /\ trail'.map = trail.map
          /\ trail'.book = trail.book /\ trail'.stray = trail.stray /\ trail'.out = trail.out
      BY <1>t, <2>1 DEF Trails, Zones
    <2>4. camera' \in Cameras /\ LastRunning(camera', trail') /\ AtRest(camera')
      BY <1>t, <2>1, <2>3, ZoomRuns DEF Zones
    <2>5. ~Viewing(overlay')
      BY <2>1, <2>2 DEF Viewing
    <2>6. BookFollows'
      BY <1>t, <2>1, <2>2, <2>3, <2>5 DEF SceneInv, BookFollows, Viewing, Overlays
    <2>7. MapFollows' /\ ZoneFollows'
      BY <2>1, <2>2, <2>3, <2>5 DEF SceneInv, MapFollows, ZoneFollows
    <2> QED
      BY <1>t, <2>1, <2>2, <2>3, <2>4, <2>6, <2>7 DEF SceneInv, SceneTypes
  <1>3. CASE ZoomOut
    <2>1. /\ ~overlay.panel /\ ~overlay.viewer /\ Moves("room")
          /\ overlay' = [overlay EXCEPT !.map = FALSE, !.shelf = FALSE, !.panel = FALSE]
          /\ trail' = [trail EXCEPT !.last = "room", !.out = Fetching,
                                    !.behind = Range(camera.moves) \ {"room"}]
          /\ UNCHANGED <<fetches, pages, book>>
      BY <1>3 DEF ZoomOut, CloseShown
    <2>2. /\ overlay' \in Overlays /\ ~overlay'.map /\ ~overlay'.shelf /\ ~overlay'.panel
          /\ overlay'.viewer = overlay.viewer /\ overlay'.album = overlay.album
      BY <1>t, <2>1 DEF Overlays
    <2> DEFINE F == Fetching
               B == Range(camera.moves) \ {"room"}
    <2>3. /\ F \in BOOLEAN /\ B \in SUBSET Zones
          /\ trail' = [trail EXCEPT !.last = "room", !.out = F, !.behind = B]
      BY <1>f, <1>r, <2>1
    <2> HIDE DEF F, B
    <2>4. /\ trail' \in Trails /\ trail'.last = "room" /\ trail'.out = F /\ trail'.behind = B
          /\ trail'.book = trail.book /\ trail'.stray = trail.stray /\ trail'.map = trail.map
      BY <1>t, <2>3 DEF Trails, Zones
    <2>5. camera' \in Cameras /\ LastRunning(camera', trail') /\ AtRest(camera')
      BY <1>t, <2>1, <2>4, ZoomRuns DEF Zones, B
    <2>6. ~Viewing(overlay) /\ ~Viewing(overlay')
      BY <2>1, <2>2 DEF Viewing
    <2>7. BookFollows'
      BY <2>1, <2>2, <2>4, <2>6 DEF SceneInv, BookFollows
    <2>8. MapFollows'
      BY <2>2, <2>6 DEF MapFollows
    <2>9. ZoneFollows'
      BY <1>f, <2>1, <2>2, <2>4, <2>6 DEF ZoneFollows, F
    <2> QED
      BY <1>t, <2>1, <2>2, <2>4, <2>5, <2>7, <2>8, <2>9 DEF SceneInv, SceneTypes
  <1> QED
    BY <1>1, <1>2, <1>3

\* What a book that is opened, closed or left alone is.
LEMMA OpenedFacts ==
  ASSUME SceneTypes, NEW of \in Album \cup {NoAlbum}, NEW next \in Overlays,
         NEW b \in Opened(of, next)
  PROVE  /\ b \in Books
         /\ ~Viewing(next) => b = NoBook
         /\ Viewing(next) /\ book = NoBook => b.of = of
         /\ Viewing(next) /\ book # NoBook => b = book
  <1>1. book \in Books /\ NoBook \in Books
    BY DEF SceneTypes, NoBook, Books
  <1>2. CASE Viewing(next) /\ book = NoBook
    <2>1. PICK f \in BOOLEAN : b = [of |-> of, at |-> 0, fallback |-> f, hint |-> TRUE]
      BY <1>2 DEF Opened
    <2> QED
      BY <1>2, <2>1 DEF Books, Viewing
  <1>3. CASE ~Viewing(next)
    BY <1>1, <1>3 DEF Opened
  <1>4. CASE Viewing(next) /\ book # NoBook
    <2>1. b = book
      BY <1>4 DEF Opened
    <2> QED
      BY <1>1, <1>4, <2>1
  <1> QED
    BY <1>2, <1>3, <1>4

\* While an album is asked for: the overlays stay, and the book is closed unless
\* the viewer is still asked for, when it opens with the pages left over.
LEMMA OpenSteps ==
  ASSUME SceneInv, NEW a \in Album, OpenAlbum(a)
  PROVE  SceneInv'
  <1>t. /\ SceneTypes /\ overlay \in Overlays /\ fetches \in [Album -> Nat] /\ trail \in Trails
        /\ pages \in Album \cup {NoAlbum}
    BY DEF SceneInv, SceneTypes
  <1> DEFINE next == [overlay EXCEPT !.album = a]
             due == {a} \cup {b \in Album : fetches[b] > 0}
                        \cup (IF trail.stray THEN {pages} ELSE {})
  <1>1. /\ overlay.shelf /\ ~overlay.panel /\ ~Viewing(overlay)
        /\ overlay' = next /\ fetches' = [fetches EXCEPT ![a] = @ + 1]
        /\ book' \in Opened(pages, next) /\ trail' = [trail EXCEPT !.book = due]
        /\ UNCHANGED <<lists, pages, camera>>
    BY DEF OpenAlbum, SpinesShown
  <1>2. /\ next \in Overlays /\ next.album = a /\ fetches' \in [Album -> Nat]
        /\ next.map = overlay.map /\ next.shelf = overlay.shelf
        /\ next.panel = overlay.panel /\ next.viewer = overlay.viewer
    <2>1. fetches' \in [Album -> Nat]
      BY <1>t, <1>1
    <2>2. /\ next \in Overlays /\ next.album = a
          /\ next.map = overlay.map /\ next.shelf = overlay.shelf
          /\ next.panel = overlay.panel /\ next.viewer = overlay.viewer
      BY <1>t DEF Overlays
    <2> QED
      BY <2>1, <2>2
  <1>3. /\ due \in SUBSET (Album \cup {NoAlbum}) /\ a \in due
        /\ \A b \in Album : fetches[b] > 0 => b \in due
        /\ trail.stray => pages \in due
    BY <1>t
  <1>f. \A b \in Album : fetches'[b] > 0 => b \in due
    BY <1>t, <1>1, <1>3
  <1> HIDE DEF next, due
  <1>4. /\ trail' \in Trails /\ trail'.book = due /\ trail'.stray = trail.stray
        /\ trail'.map = trail.map /\ trail'.out = trail.out
        /\ trail'.last = trail.last /\ trail'.behind = trail.behind
    BY <1>t, <1>1, <1>3 DEF Trails
  <1>5. /\ book = NoBook /\ book' \in Books
        /\ ~Viewing(next) => book' = NoBook
        /\ Viewing(next) => book'.of = pages
    BY <1>t, <1>1, <1>2, OpenedFacts DEF SceneInv, BookFollows
  <1>6. Viewing(next) => trail.stray
    BY <1>1, <1>2, <1>t DEF Viewing, SceneInv, BookFollows
  <1>7. BookFollows'
    <2>1. overlay'.viewer /\ (overlay'.album = NoAlbum \/ overlay'.shelf) => trail'.stray
      BY <1>1, <1>2, <1>4 DEF SceneInv, BookFollows
    <2> QED
      BY <1>1, <1>2, <1>3, <1>f, <1>4, <1>5, <1>6, <2>1 DEF SceneInv, BookFollows
  <1>8. MapFollows'
    BY <1>1, <1>2, <1>4, <1>t DEF SceneInv, MapFollows
  <1>9. ZoneFollows'
    BY <1>1, <1>2, <1>4 DEF SceneInv, ZoneFollows
  <1>10. LastRunning(camera', trail') /\ AtRest(camera')
    BY <1>1, <1>4 DEF SceneInv, LastRunning
  <1>11. SceneTypes'
    BY <1>t, <1>1, <1>2, <1>4, <1>5 DEF SceneTypes
  <1> QED
    BY <1>7, <1>8, <1>9, <1>10, <1>11 DEF SceneInv

\* The pages come, or do not.
LEMMA PagesSteps ==
  ASSUME SceneInv, NEW a \in Album, PagesAnswered(a) \/ PagesFail(a)
  PROVE  SceneInv'
  <1>t. SceneTypes /\ overlay \in Overlays /\ fetches \in [Album -> Nat] /\ trail \in Trails
    BY DEF SceneInv, SceneTypes
  <1>f. /\ fetches[a] > 0 /\ fetches' = [fetches EXCEPT ![a] = @ - 1]
        /\ fetches' \in [Album -> Nat] /\ camera' = camera
        /\ \A b \in Album : fetches'[b] > 0 => fetches[b] > 0
    BY <1>t DEF PagesAnswered, PagesFail
  <1>1. CASE PagesAnswered(a)
    <2> DEFINE next == [overlay EXCEPT !.viewer = TRUE, !.shelf = FALSE]
               V == Viewing(next)
    <2>1. /\ overlay' = next /\ pages' = a /\ book' \in Opened(a, next)
          /\ trail' = [trail EXCEPT !.stray = ~V]
      BY <1>1 DEF PagesAnswered
    <2>2. /\ next \in Overlays /\ next.album = overlay.album /\ next.map = overlay.map
          /\ ~next.shelf /\ next.viewer /\ next.panel = overlay.panel
      BY <1>t DEF Overlays
    <2>3. V \in BOOLEAN /\ (V <=> overlay.album # NoAlbum)
      BY <2>2 DEF Viewing
    <2> HIDE DEF next
    <2>v. V = Viewing(next)
      OBVIOUS
    <2> HIDE DEF V
    <2>4. /\ trail' \in Trails /\ trail'.stray = ~V /\ trail'.book = trail.book
          /\ trail'.map = trail.map /\ trail'.out = trail.out
          /\ trail'.last = trail.last /\ trail'.behind = trail.behind
      <3> DEFINE W == ~V
      <3>1. W \in BOOLEAN /\ trail' = [trail EXCEPT !.stray = W]
        BY <2>1, <2>3
      <3> HIDE DEF W
      <3>2. /\ trail' \in Trails /\ trail'.stray = W /\ trail'.book = trail.book
            /\ trail'.map = trail.map /\ trail'.out = trail.out
            /\ trail'.last = trail.last /\ trail'.behind = trail.behind
        BY <1>t, <3>1 DEF Trails
      <3> QED
        BY <3>2 DEF W
    <2>5. /\ book' \in Books
          /\ ~V => book' = NoBook
          /\ V /\ book = NoBook => book'.of = a
          /\ V /\ book # NoBook => book' = book
      BY <1>t, <2>1, <2>2, <2>v, OpenedFacts
    <2>6. V => a \in trail.book
      BY <1>t, <1>f, <2>3 DEF SceneInv, BookFollows, Overlays
    <2>7. V /\ book # NoBook => book.of \in trail.book
      BY DEF SceneInv, BookFollows
    <2>8. BookFollows'
      BY <1>f, <2>1, <2>2, <2>v, <2>3, <2>4, <2>5, <2>6, <2>7 DEF SceneInv, BookFollows
    <2>9. MapFollows'
      BY <1>f, <2>1, <2>2, <2>4 DEF SceneInv, MapFollows
    <2>10. ZoneFollows'
      BY <1>t, <1>f, <2>1, <2>2, <2>v, <2>3, <2>4 DEF SceneInv, ZoneFollows, Overlays
    <2>11. LastRunning(camera', trail') /\ AtRest(camera')
      BY <1>f, <2>4 DEF SceneInv, LastRunning
    <2> QED
      BY <1>t, <1>f, <2>1, <2>2, <2>4, <2>5, <2>8, <2>9, <2>10, <2>11 DEF SceneInv, SceneTypes
  <1>2. CASE PagesFail(a)
    <2>1. UNCHANGED <<overlay, pages, book, trail>>
      BY <1>2 DEF PagesFail
    <2> QED
      BY <1>f, <2>1 DEF SceneInv, SceneTypes, BookFollows, MapFollows, ZoneFollows
  <1> QED
    BY <1>1, <1>2

\* The viewer is closed and the shelf is open again.
LEMMA CloseSteps ==
  ASSUME SceneInv, CloseAlbum
  PROVE  SceneInv'
  <1>t. SceneTypes /\ overlay \in Overlays /\ trail \in Trails
    BY DEF SceneInv, SceneTypes
  <1>1. /\ Viewing(overlay)
        /\ overlay' = [overlay EXCEPT !.viewer = FALSE, !.shelf = TRUE, !.album = NoAlbum]
        /\ book' = NoBook /\ trail' = [trail EXCEPT !.stray = FALSE]
        /\ UNCHANGED <<fetches, pages, camera>>
    BY DEF CloseAlbum
  <1>2. /\ overlay' \in Overlays /\ ~overlay'.viewer /\ overlay'.shelf
        /\ overlay'.album = NoAlbum /\ overlay'.map = overlay.map
        /\ overlay'.panel = overlay.panel
    BY <1>t, <1>1 DEF Overlays
  <1>3. /\ trail' \in Trails /\ ~trail'.stray /\ trail'.book = trail.book
        /\ trail'.map = trail.map /\ trail'.out = trail.out
        /\ trail'.last = trail.last /\ trail'.behind = trail.behind
    BY <1>t, <1>1 DEF Trails
  <1>4. ~Viewing(overlay') /\ NoBook \in Books /\ NoAlbum \notin Album
    BY <1>2, AlbumsHavePages DEF Viewing, Books, NoBook
  <1>5. BookFollows' /\ MapFollows' /\ ZoneFollows'
    BY <1>1, <1>2, <1>3, <1>4 DEF SceneInv, BookFollows, MapFollows, ZoneFollows
  <1>6. LastRunning(camera', trail') /\ AtRest(camera')
    BY <1>1, <1>3 DEF SceneInv, LastRunning
  <1> QED
    BY <1>t, <1>1, <1>2, <1>3, <1>4, <1>5, <1>6 DEF SceneInv, SceneTypes

\* The panel.
LEMMA OverlaySteps ==
  ASSUME SceneInv, ProvinceClick \/ PanelClose
  PROVE  SceneInv'
  <1>t. SceneTypes /\ overlay \in Overlays
    BY DEF SceneInv, SceneTypes
  <1>1. /\ UNCHANGED <<fetches, pages, camera, book, trail>>
        /\ overlay' \in Overlays
        /\ overlay'.map = overlay.map /\ overlay'.shelf = overlay.shelf
        /\ overlay'.viewer = overlay.viewer /\ overlay'.album = overlay.album
        /\ overlay'.panel => overlay.panel \/ overlay.map
    <2>1. CASE ProvinceClick
      BY <1>t, <2>1 DEF ProvinceClick, MapInReach, Overlays
    <2>2. CASE PanelClose
      BY <1>t, <2>2 DEF PanelClose, Overlays
    <2> QED
      BY <2>1, <2>2
  <1>2. Viewing(overlay') <=> Viewing(overlay)
    BY <1>1 DEF Viewing
  <1> QED
    BY <1>1, <1>2 DEF SceneInv, SceneTypes, BookFollows, MapFollows, ZoneFollows

\* The book is read.
LEMMA ReadingSteps ==
  ASSUME SceneInv, Flip \/ HintEnds
  PROVE  SceneInv'
  <1>t. SceneTypes /\ book \in Books
    BY DEF SceneInv, SceneTypes
  <1>1. /\ Viewing(overlay) /\ UNCHANGED <<overlay, fetches, pages, camera, trail>>
    BY DEF Flip, HintEnds
  <1>2. book' \in Books /\ book'.of = book.of
    <2>1. CASE Flip
      <3>1. PICK to \in 0..(PagesOf[book.of] + 1) : book' = [book EXCEPT !.at = to]
        BY <2>1 DEF Flip
      <3>2. to \in Nat
        BY <3>1
      <3> QED
        BY <1>t, <3>1, <3>2 DEF Books
    <2>2. CASE HintEnds
      BY <1>t, <2>2 DEF HintEnds, Books
    <2> QED
      BY <2>1, <2>2
  <1> QED
    BY <1>1, <1>2 DEF SceneInv, SceneTypes, BookFollows, MapFollows, ZoneFollows, Viewing

\* An animation ends, and the others go on.
LEMMA MoveEndsSteps ==
  ASSUME SceneInv, MoveEnds
  PROVE  SceneInv'
  <1> DEFINE s == camera.moves
  <1>t. SceneTypes /\ camera \in Cameras /\ s \in Seq(Zones) /\ Len(s) \in Nat
    BY DEF SceneInv, SceneTypes, Cameras
  <1>1. PICK i \in DOMAIN s :
           /\ EndsNext(i)
           /\ camera' = [zone |-> s[i], world |-> s[i],
                         moves |-> Without(s, i), resized |-> FALSE]
    BY DEF MoveEnds
  <1>2. i \in 1..Len(s)
    BY <1>t, <1>1
  <1> DEFINE w == Without(s, i)
             c == camera'
  <1>3. /\ w \in Seq(Zones) /\ Len(w) = Len(s) - 1
        /\ \A j \in 1..Len(s) - 1 : w[j] = IF j < i THEN s[j] ELSE s[j + 1]
    BY <1>t, <1>2, RemovedMove
  <1>4. s[i] \in Zones
    BY <1>t, <1>2
  <1>5. /\ c \in Cameras /\ c.zone = s[i] /\ c.world = s[i] /\ c.moves = w /\ ~c.resized
    BY <1>1, <1>3, <1>4 DEF Cameras
  <1>6. UNCHANGED <<overlay, fetches, pages, book, trail>>
    BY DEF MoveEnds
  <1>7. i > 1 => s[i] = "room"
    BY <1>1, <1>2, <1>t DEF EndsNext
  <1> HIDE DEF w, c
  <1>8. LastRunning(c, trail)
    <2>1. ASSUME \A j \in 1..Len(s) : s[j] \in trail.behind PROVE LastRunning(c, trail)
      <3>1. \A j \in 1..Len(w) : w[j] \in trail.behind
        BY <1>t, <1>2, <1>3, <2>1
      <3> QED
        BY <1>2, <1>5, <2>1, <3>1 DEF LastRunning
    <2>2. ASSUME s[Len(s)] = trail.last,
                 trail.last = "room" =>
                    \A j \in 1..Len(s) : s[j] = "room" \/ s[j] \in trail.behind
          PROVE  LastRunning(c, trail)
      <3>1. CASE i = Len(s)
        <4>1. ASSUME NEW j \in 1..Len(w) PROVE w[j] \in trail.behind
          <5>1. w[j] = s[j] /\ j \in 1..(i - 1) /\ j \in 1..Len(s) /\ i > 1
            BY <1>t, <1>2, <1>3, <3>1, <4>1
          <5>2. s[i] = "room" /\ s[j] # "room"
            BY <1>1, <5>1 DEF EndsNext
          <5> QED
            BY <2>2, <3>1, <5>1, <5>2
        <4> QED
          BY <1>5, <2>2, <3>1, <4>1 DEF LastRunning
      <3>2. CASE i < Len(s)
        <4>1. Len(w) > 0 /\ Len(w) \in 1..Len(s) - 1 /\ Len(w) + 1 = Len(s) /\ ~(Len(w) < i)
          BY <1>t, <1>2, <1>3, <3>2
        <4>2. w[Len(w)] = s[Len(s)]
          BY <1>3, <4>1
        <4>3. ASSUME trail.last = "room", NEW j \in 1..Len(w)
              PROVE  w[j] = "room" \/ w[j] \in trail.behind
          <5>1. \E k \in 1..Len(s) : w[j] = s[k]
            BY <1>t, <1>2, <1>3, <4>3
          <5> QED
            BY <2>2, <4>3, <5>1
        <4> QED
          BY <1>5, <2>2, <4>1, <4>2, <4>3 DEF LastRunning
      <3> QED
        BY <1>2, <1>t, <3>1, <3>2
    <2> QED
      BY <2>1, <2>2 DEF SceneInv, LastRunning
  <1>9. AtRest(c)
    BY <1>5 DEF AtRest
  <1> QED
    BY <1>5, <1>6, <1>8, <1>9
       DEF SceneInv, SceneTypes, BookFollows, MapFollows, ZoneFollows, Viewing, c

\* The window is resized.
LEMMA ResizeSteps ==
  ASSUME SceneInv, Resize
  PROVE  SceneInv'
  <1>t. SceneTypes /\ camera \in Cameras
    BY DEF SceneInv, SceneTypes
  <1>1. /\ UNCHANGED <<overlay, fetches, pages, book, trail>>
        /\ camera' = [camera EXCEPT !.resized = TRUE,
                                    !.world = IF camera.moves = <<>> THEN "room" ELSE @]
    BY DEF Resize
  <1>2. /\ camera' \in Cameras /\ camera'.moves = camera.moves /\ camera'.zone = camera.zone
        /\ camera'.resized
        /\ camera.moves = <<>> => camera'.world = "room"
    BY <1>t, <1>1 DEF Cameras, Zones
  <1>3. LastRunning(camera', trail') /\ AtRest(camera')
    BY <1>1, <1>2 DEF SceneInv, LastRunning, AtRest
  <1> QED
    BY <1>1, <1>2, <1>3
       DEF SceneInv, SceneTypes, BookFollows, MapFollows, ZoneFollows, Viewing

LEMMA SceneSteps == SceneInv /\ [SceneNext]_sceneVars => SceneInv'
  <1> SUFFICES ASSUME SceneInv, [SceneNext]_sceneVars PROVE SceneInv'
    OBVIOUS
  <1>1. CASE ZoomInWall \/ ZoomInShelf \/ ZoomOut
    BY <1>1, ZoomSteps
  <1>2. CASE ProvinceClick \/ PanelClose
    BY <1>2, OverlaySteps
  <1>3. ASSUME NEW a \in Album, OpenAlbum(a) \/ PagesAnswered(a) \/ PagesFail(a)
        PROVE  SceneInv'
    BY <1>3, OpenSteps, PagesSteps
  <1>4. CASE CloseAlbum
    BY <1>4, CloseSteps
  <1>5. CASE Flip \/ HintEnds
    BY <1>5, ReadingSteps
  <1>6. CASE MoveEnds \/ Resize
    BY <1>6, MoveEndsSteps, ResizeSteps
  <1>7. ASSUME UNCHANGED <<overlay, fetches, pages, camera, book, trail>>
        PROVE  SceneInv'
    BY <1>7 DEF SceneInv, SceneTypes, BookFollows, MapFollows, ZoneFollows, Viewing
  <1>8. Ready \/ AlbumsAnswered \/ ProvincesAnswered \/ UNCHANGED sceneVars
          => UNCHANGED <<overlay, fetches, pages, camera, book, trail>>
    BY DEF Ready, AlbumsAnswered, ProvincesAnswered, sceneVars
  <1> QED
    BY <1>1, <1>2, <1>3, <1>4, <1>5, <1>6, <1>7, <1>8 DEF SceneNext

\* The inductive invariant of the room (ScenePage.vue, CameraController.ts).
THEOREM SceneInvHolds == SceneSpec => []SceneInv
  BY SceneStarts, SceneSteps, PTL DEF SceneSpec

\* Whatever the user does while pages are fetched, the open book and its pages are
\* of the album it was opened for or of one that was still under way then, what
\* comes over the map was under way when the map was opened, and a viewer that is
\* asked for is shown unless its pages came too late (ScenePage.vue: the overlay
\* handlers and the fetch of an album's pages; AlbumViewer.vue).
THEOREM AlbumsOpenAsAsked == SceneSpec => []OpenedAsAsked
  <1>1. SceneInv => OpenedAsAsked
    BY DEF SceneInv, BookFollows, MapFollows, OpenedAsAsked
  <1> QED
    BY <1>1, SceneInvHolds, PTL

\* However animations overlap, the camera comes to rest at the zone it was last
\* sent to or at one it was on its way to when it was sent back, and that zone is
\* the one of the open overlay but for late pages (ScenePage.vue,
\* CameraController.ts).
THEOREM CameraFollowsTheOverlay == SceneSpec => []CameraFollows
  <1>1. ASSUME camera.moves = <<>>, LastRunning(camera, trail)
        PROVE  camera.zone \in {trail.last} \cup trail.behind
    <2>1. Len(camera.moves) = 0
      BY <1>1
    <2> QED
      BY <1>1, <2>1 DEF LastRunning
  <1>2. SceneInv => CameraFollows
    BY <1>1 DEF SceneInv, ZoneFollows, AtRest, CameraFollows
  <1> QED
    BY <1>2, SceneInvHolds, PTL

-----------------------------------------------------------------------------
(****************************************************************************)
(* The sheets a turn starts from and ends at are first in their spreads and *)
(* at most two apart, so the window of rendered sheets covers both: BookInv *)
(* and the arithmetic of spreads.                                           *)
(****************************************************************************)

\* A sheet stands for a spread if it is the first in it.
First(s) == s \in Sheets /\ FirstIn(wide, s) = s

\* The inductive invariant: the book is at the first sheet of a spread, and a turn
\* that is under way goes to a neighbouring one.
BookInv ==
    /\ opened \in [by : {"none", "viewer", "preview"}, sheets : Nat, list : BOOLEAN]
    /\ leaves \in [count : Nat, changed : BOOLEAN]
    /\ wide \in BOOLEAN /\ current \in Nat /\ turn \in Nat \cup {NoTurn}
    /\ opened.sheets > 0 /\ ~leaves.changed => opened.sheets = leaves.count + 2
    /\ IF opened.sheets = 0 THEN current = 0 ELSE First(current)
    /\ turn # NoTurn => First(turn) /\ turn \in SpreadBefore(current) \cup SpreadAfter(current)

\* A spread has one or two sheets.
LEMMA SpreadsAreSmall ==
  ASSUME NEW double \in BOOLEAN, NEW s \in Nat
  PROVE  /\ FirstIn(double, s) \in Nat
         /\ FirstIn(double, s) \in {s, s - 1}
         /\ ~double => FirstIn(double, s) = s
         /\ FirstIn(double, FirstIn(double, s)) = FirstIn(double, s)
  BY DEF FirstIn

\* How far a turn goes, from a sheet that stands for its spread.
LEMMA AfterIsNear ==
  ASSUME wide \in BOOLEAN, opened.sheets \in Nat, NEW s \in Nat, First(s),
         NEW t \in SpreadAfter(s)
  PROVE  t \in Nat /\ First(t) /\ s < t /\ t <= s + 2
  <1>1. t \in Sheets \ {0} /\ FirstIn(wide, t) = t /\ FirstIn(wide, t - 1) = FirstIn(wide, s)
    BY DEF SpreadAfter
  <1>2. t \in Nat /\ t - 1 \in Nat
    BY <1>1 DEF Sheets
  <1>3. FirstIn(wide, t - 1) \in {t - 1, t - 2} /\ FirstIn(wide, s) = s
    BY <1>2, SpreadsAreSmall DEF First
  <1> QED
    BY <1>1, <1>2, <1>3 DEF First

\* The same for turning back.
LEMMA BeforeIsNear ==
  ASSUME wide \in BOOLEAN, opened.sheets \in Nat, NEW s \in Nat, First(s),
         NEW t \in SpreadBefore(s)
  PROVE  t \in Nat /\ First(t) /\ t < s /\ s <= t + 2
  <1>1. PICK u \in Sheets : u + 1 = FirstIn(wide, s) /\ t = FirstIn(wide, u)
    BY DEF SpreadBefore
  <1>2. u \in Nat /\ u + 1 = s
    BY <1>1 DEF Sheets, First
  <1>3. t \in {u, u - 1} /\ t \in Nat /\ FirstIn(wide, t) = t
    BY <1>1, <1>2, SpreadsAreSmall
  <1>4. t \in Sheets
    BY <1>1, <1>3 DEF Sheets
  <1> QED
    BY <1>2, <1>3, <1>4 DEF First

\* The book is shut.
LEMMA BookStarts == BookInit => BookInv
  BY DEF BookInit, BookInv, Shut, NoTurn

\* A button, a key or a corner starts a turn.
LEMMA TurnSteps ==
  ASSUME BookInv, PressPrev \/ PressNext \/ PressKey \/ PullCorner
  PROVE  BookInv'
  <1>1. PICK before \in {Here, current} :
           /\ turn' \in SpreadBefore(before) \cup SpreadAfter(before)
           /\ current' = Here /\ UNCHANGED <<opened, leaves, wide, tint>>
           /\ before = Here
    BY DEF PressPrev, PressNext, PressKey, PullCorner, TurnTo, Here
  <1>2. Here \in Nat /\ (opened.sheets = 0 => Here = 0) /\ (opened.sheets # 0 => First(Here))
    <2>1. CASE turn = NoTurn
      BY <2>1 DEF BookInv, Here
    <2>2. CASE turn # NoTurn
      BY <2>2 DEF BookInv, Here, First, Sheets
    <2> QED
      BY <2>1, <2>2
  <1>3. opened.sheets # 0
    BY <1>1 DEF BookInv, SpreadBefore, SpreadAfter, Sheets
  <1>4. turn' \in Nat /\ First(turn')
    BY <1>1, <1>2, <1>3, AfterIsNear, BeforeIsNear DEF BookInv
  <1>5. First(current)' /\ First(turn)'
    BY <1>1, <1>2, <1>3, <1>4 DEF First, Sheets
  <1>6. turn' \in SpreadBefore(current)' \cup SpreadAfter(current)'
    BY <1>1 DEF SpreadBefore, SpreadAfter, Sheets
  <1> QED
    BY <1>1, <1>2, <1>3, <1>4, <1>5, <1>6 DEF BookInv

\* No turn, no resize and no change of the pages.
LEMMA BookSteps == BookInv /\ [BookNext]_bookVars => BookInv'
  <1> SUFFICES ASSUME BookInv, [BookNext]_bookVars
               PROVE  BookInv'
    OBVIOUS
  <1>1. CASE OpenViewer \/ OpenPreview
    <2>1. PICK by \in {"viewer", "preview"}, count \in 0..MaxPages, list \in BOOLEAN :
             Opens(by, count, count + 2, list) \/ Opens(by, count, 0, list)
      BY <1>1 DEF OpenViewer, OpenPreview
    <2>2. PICK sheets \in {0, count + 2} : Opens(by, count, sheets, list)
      BY <2>1
    <2>3. /\ count \in Nat /\ sheets \in Nat /\ opened = Shut
          /\ opened' = [by |-> by, sheets |-> sheets, list |-> list]
          /\ leaves' = [count |-> count, changed |-> FALSE]
          /\ UNCHANGED <<wide, current, turn>>
      BY <2>1, <2>2, PagesAreBounded DEF Opens
    <2>4. current = 0 /\ turn = NoTurn
      BY <2>3 DEF BookInv, Shut, First, Sheets
    <2>5. FirstIn(wide, 0) = 0 /\ (sheets # 0 => 0 \in 0..(sheets - 1))
      BY <2>2, <2>3 DEF FirstIn
    <2> QED
      BY <2>2, <2>3, <2>4, <2>5 DEF BookInv, First, Sheets
  <1>2. CASE CloseViewer \/ ClosePreview
    <2>1. /\ opened' = Shut /\ leaves' = [count |-> 0, changed |-> FALSE]
          /\ current' = 0 /\ turn' = NoTurn /\ UNCHANGED wide
      BY <1>2 DEF CloseViewer, ClosePreview, Closes
    <2>2. Shut \in [by : {"none", "viewer", "preview"}, sheets : Nat, list : BOOLEAN] /\ Shut.sheets = 0
      BY DEF Shut
    <2> QED
      BY <2>1, <2>2 DEF BookInv
  <1>3. CASE ExtractFromImage \/ UNCHANGED bookVars
    BY <1>3 DEF ExtractFromImage, bookVars, BookInv, First, Sheets, SpreadBefore, SpreadAfter
  <1>4. CASE PagesChange
    BY <1>4, PagesAreBounded DEF PagesChange, BookInv, First, Sheets, SpreadBefore, SpreadAfter
  <1>5. CASE PressPrev \/ PressNext \/ PressKey \/ PullCorner
    BY <1>5, TurnSteps
  <1>6. CASE CornerFallsBack
    BY <1>6 DEF CornerFallsBack, BookInv, First, Sheets
  <1>7. CASE Flipped
    BY <1>7 DEF Flipped, BookInv, First, Sheets
  <1>8. CASE WindowChanges
    <2>1. /\ wide' = ~wide /\ turn' = NoTurn /\ current' = FirstIn(wide', current)
          /\ UNCHANGED <<opened, leaves, tint>>
      BY <1>8 DEF WindowChanges
    <2>2. wide' \in BOOLEAN /\ current \in Nat
      BY <2>1 DEF BookInv
    <2>3. /\ current' \in Nat /\ current' \in {current, current - 1}
          /\ FirstIn(wide', current') = current'
      BY <2>1, <2>2, SpreadsAreSmall
    <2>4. CASE opened.sheets = 0
      BY <2>1, <2>2, <2>3, <2>4 DEF BookInv
    <2>5. CASE opened.sheets # 0
      <3>1. First(current)'
        BY <2>1, <2>2, <2>3, <2>5 DEF BookInv, First, Sheets
      <3> QED
        BY <2>1, <2>2, <2>3, <2>5, <3>1 DEF BookInv
    <2> QED
      BY <2>4, <2>5
  <1> QED
    BY <1>1, <1>2, <1>3, <1>4, <1>5, <1>6, <1>7, <1>8 DEF BookNext

\* The inductive invariant of the open book (AlbumViewer.vue, AlbumPreview.vue).
THEOREM BookInvHolds == BookSpec => []BookInv
  BY BookStarts, BookSteps, PTL DEF BookSpec

\* As long as the album keeps its pages, every sheet in sight is rendered, the one
\* that is just turning up included, and a button is disabled only where there is
\* nothing left to turn to (AlbumViewer.vue, isPageVisible; AlbumPreview.vue).
THEOREM SheetsInSightAreRendered == BookSpec => []SheetsAreRendered
  <1>1. BookInv => SheetsAreRendered
    <2> SUFFICES ASSUME BookInv, opened.sheets > 0, ~leaves.changed
                 PROVE  /\ \A s \in InSight : Rendered(s)
                        /\ PrevDisabled => SpreadBefore(current) = {}
                        /\ NextDisabled => SpreadAfter(current) = {}
      BY DEF SheetsAreRendered
    <2>1. /\ wide \in BOOLEAN /\ opened.sheets \in Nat /\ First(current) /\ current \in Nat
          /\ opened.sheets = leaves.count + 2 /\ leaves.count \in Nat
      BY DEF BookInv
    <2>2. \A s : First(s) => \A t \in Spread(s) : t \in Nat /\ t \in {s, s + 1}
      BY <2>1, SpreadsAreSmall DEF First, Spread, Sheets
    <2>3. \A t \in Spread(current) : IsPageVisible(t)
      BY <2>1, <2>2 DEF IsPageVisible
    <2>4. ASSUME turn # NoTurn, NEW t \in Spread(turn)
          PROVE  IsPageVisible(t)
      <3>1. turn \in Nat /\ First(turn) /\ current - 2 <= turn /\ turn <= current + 2
        BY <2>1, <2>4, AfterIsNear, BeforeIsNear DEF BookInv
      <3> QED
        BY <2>1, <2>2, <2>4, <3>1 DEF IsPageVisible
    <2>5. \A s \in InSight : Rendered(s)
      BY <2>3, <2>4 DEF InSight, Rendered
    <2>6. PrevDisabled => SpreadBefore(current) = {}
      BY <2>1, BeforeIsNear DEF PrevDisabled
    <2>7. NextDisabled => SpreadAfter(current) = {}
      <3> SUFFICES ASSUME current >= leaves.count + 1, NEW t \in SpreadAfter(current)
                   PROVE  FALSE
        BY DEF NextDisabled
      <3>1. t \in Nat /\ First(t) /\ current < t
        BY <2>1, AfterIsNear
      <3> QED
        BY <2>1, <3>1 DEF First, Sheets
    <2> QED
      BY <2>5, <2>6, <2>7
  <1> QED
    BY <1>1, BookInvHolds, PTL
=============================================================================
