--------------------------- MODULE ClientSession ---------------------------
(***************************************************************************)
(* Getting into the client: the session store whose operations overlap,    *)
(* the cookie jar their answers write to, the password page, the loading   *)
(* page and the listeners that unlock the sound.                           *)
(*                                                                         *)
(* A call goes through the network in three steps: the server handles it,  *)
(* its headers arrive (the browser applies Set-Cookie), its body is read.  *)
(* Only the call of the latest operation is `current`: the store compares  *)
(* the version it was started with.  The content calls of the loading page *)
(* and the scene are answered behind the same guard and write to the same  *)
(* jar; what the scene does with its content is in other modules.          *)
(***************************************************************************)
EXTENDS Naturals

CONSTANTS
    Token,     \* session identifiers, never given out twice
    NoToken

ASSUME NoTokenIsNoToken == NoToken \notin Token

VARIABLES
    view,      \* password, loading or scene
    role,      \* role in the store; none when not authenticated
    calls,     \* the call in flight of each operation and of each page's content
    jar,       \* the session cookie
    minted,    \* history: sessions the server has created, with their roles
    live,      \* sessions that are valid
    bar,       \* loading page: fetching the tip, running, or full
    sound,     \* AudioManager: pending and loaded sounds, unlocked, and
               \* whether the app listens for the first interaction
    past       \* history: the operation begun last, whether it has let the user
               \* in and with which session, and whether an answer cleared a
               \* cookie newer than its request

sessionVars == <<view, role, calls, jar, minted, live, bar, sound, past>>

Operation == {"me", "verify", "logout"}
Content == {"tip", "scene"}   \* one call at a time of what the scene shows
Kind == Operation \cup Content
NoCall == [stage |-> "none", current |-> FALSE, sent |-> NoToken,
           answer |-> "none", cookie |-> "keep", given |-> NoToken]
NewCall == [NoCall EXCEPT !.stage = "sent", !.current = TRUE, !.sent = jar]
ContentCall == [NewCall EXCEPT !.current = FALSE]
NothingPast == [last |-> "me", entered |-> FALSE, late |-> FALSE, session |-> NoToken]
PageFlip == "page-flip"

\* App calls initSession when it is mounted, once for each load of the page.
Mounted == [k \in Kind |-> IF k = "me" THEN NewCall ELSE NoCall]

SessionInit ==
    /\ view = "password"
    /\ role = "none"
    /\ jar \in Token \cup {NoToken}
    /\ calls = Mounted
    /\ minted = [t \in Token |-> IF t = jar THEN "owner" ELSE "none"]
    /\ live \in SUBSET {t \in Token : t = jar}
    /\ bar = "fetching"
    /\ sound = [armed |-> FALSE, unlocked |-> FALSE, pending |-> {PageFlip}, loaded |-> {}]
    /\ past = NothingPast

-----------------------------------------------------------------------------
(* The operations of the store: a new version outdates every other call.   *)

Begin(k) ==
    /\ calls[k] = NoCall
    /\ calls' = [j \in Kind |-> IF j = k THEN NewCall ELSE [calls[j] EXCEPT !.current = FALSE]]
    /\ past' = [past EXCEPT !.last = k, !.entered = FALSE]

\* The first click, touch or key after the listeners are there.
Unlocked == [sound EXCEPT !.unlocked = TRUE, !.pending = {}, !.loaded = @ \cup sound.pending]
Interact == sound' = IF sound.armed /\ ~sound.unlocked THEN Unlocked ELSE sound

\* The field and the button are disabled while a password is being verified.
FormEnabled == view = "password" /\ calls["verify"] = NoCall

Submit ==
    /\ FormEnabled
    /\ Begin("verify")
    /\ Interact
    /\ UNCHANGED <<view, role, jar, minted, live, bar>>

\* No page calls it; the store offers it.
Logout ==
    /\ Begin("logout")
    /\ role' = "none"
    /\ UNCHANGED <<view, jar, minted, live, bar, sound>>

-----------------------------------------------------------------------------
(* The server: AuthController behind SessionGuard and RateLimitGuard.      *)

Answer(k, answer, cookie) ==
    calls' = [calls EXCEPT ![k].stage = "answered", ![k].answer = answer, ![k].cookie = cookie]

\* A cookie that is not valid is cleared with the refusal.
Refusal(k) == Answer(k, "refused", IF calls[k].sent = NoToken THEN "keep" ELSE "clear")

HandleMe ==
    /\ calls["me"].stage = "sent"
    /\ \/ calls["me"].sent \in live /\ Answer("me", minted[calls["me"].sent], "keep")
       \/ calls["me"].sent \notin live /\ Refusal("me")
    /\ UNCHANGED <<view, role, jar, minted, live, bar, sound, past>>

\* A right password makes a session; a wrong one, or one too many, is refused.
HandleVerify ==
    /\ calls["verify"].stage = "sent"
    /\ \/ \E t \in {u \in Token : minted[u] = "none"}, r \in {"owner", "visitor", "admin"} :
             /\ minted' = [minted EXCEPT ![t] = r]
             /\ live' = live \cup {t}
             /\ calls' = [calls EXCEPT !["verify"] = [@ EXCEPT
                            !.stage = "answered", !.answer = r, !.cookie = "set", !.given = t]]
       \/ Answer("verify", "refused", "keep") /\ UNCHANGED <<minted, live>>
    /\ UNCHANGED <<view, role, jar, bar, sound, past>>

HandleLogout ==
    /\ calls["logout"].stage = "sent"
    /\ \/ /\ calls["logout"].sent \in live
          /\ live' = live \ {calls["logout"].sent}
          /\ Answer("logout", "done", "clear")
       \/ calls["logout"].sent \notin live /\ Refusal("logout") /\ UNCHANGED live
    /\ UNCHANGED <<view, role, jar, minted, bar, sound, past>>

\* Content is read by every role, and by nobody without a session.
MutHandleContent(k) ==
    /\ calls[k].stage = "sent"
    /\ \/ calls[k].sent \in live /\ Answer(k, "done", "clear")
       \/ calls[k].sent \notin live /\ Refusal(k)
    /\ UNCHANGED <<view, role, jar, minted, live, bar, sound, past>>
HandleContent(k) ==
    /\ calls[k].stage = "sent"
    /\ \/ calls[k].sent \in live /\ Answer(k, "done", "keep")
       \/ calls[k].sent \notin live /\ Refusal(k)
    /\ UNCHANGED <<view, role, jar, minted, live, bar, sound, past>>

SessionExpires ==
    /\ \E t \in live : live' = live \ {t}
    /\ UNCHANGED <<view, role, calls, jar, minted, bar, sound, past>>

\* The cookie is given the lifetime of its session, which has begun before.
CookieExpires ==
    /\ jar \notin live \cup {NoToken}
    /\ jar' = NoToken
    /\ UNCHANGED <<view, role, calls, minted, live, bar, sound, past>>

-----------------------------------------------------------------------------
(* Answers.                                                                *)

\* The browser applies Set-Cookie when the headers arrive, before any code of
\* the client runs and whatever the cookie is by then.
Cookie(c) ==
    /\ jar' = CASE c.cookie = "set" -> c.given [] c.cookie = "clear" -> NoToken [] OTHER -> jar
    /\ past' = [past EXCEPT !.late = @ \/ (c.cookie = "clear" /\ jar \notin {NoToken, c.sent})]

\* When initSession returns, whatever it returns, App adds the listeners.
Armed == sound' = [sound EXCEPT !.armed = TRUE]

\* The user is let in with a session: the loading page is mounted and asks for
\* its tip.
Inside(k, session) ==
    /\ role' = calls[k].answer /\ view' = "loading" /\ bar' = "fetching"
    /\ calls' = [calls EXCEPT ![k] = NoCall, !["tip"] = ContentCall]
    /\ past' = [past EXCEPT !.entered = TRUE, !.session = session]

MutMeHeaders ==
    LET c == calls["me"]
    IN  /\ c.stage = "answered"
        /\ Cookie(c)
        /\ \/ /\ c.answer # "refused"
              /\ calls' = [calls EXCEPT !["me"].stage = "body"]
              /\ UNCHANGED <<role, sound>>
           \/ /\ c.answer = "refused"
              /\ calls' = [calls EXCEPT !["me"] = NoCall]
              /\ role' = "none"
              /\ Armed
        /\ UNCHANGED <<view, minted, live, bar>>
MeHeaders ==
    LET c == calls["me"]
    IN  /\ c.stage = "answered"
        /\ Cookie(c)
        /\ \/ /\ c.current /\ c.answer # "refused"
              /\ calls' = [calls EXCEPT !["me"].stage = "body"]
              /\ UNCHANGED <<role, sound>>
           \/ /\ ~(c.current /\ c.answer # "refused")
              /\ calls' = [calls EXCEPT !["me"] = NoCall]
              /\ role' = IF c.current THEN "none" ELSE role
              /\ Armed
        /\ UNCHANGED <<view, minted, live, bar>>

\* An administrator's cookie does not open the client.
Welcome(k) == calls[k].current /\ calls[k].answer \in {"owner", "visitor"}

MeBody ==
    LET c == calls["me"]
    IN  /\ c.stage = "body"
        /\ \/ Welcome("me") /\ Inside("me", c.sent)
           \/ /\ ~Welcome("me")
              /\ calls' = [calls EXCEPT !["me"] = NoCall]
              /\ role' = IF c.current THEN "none" ELSE role
              /\ UNCHANGED <<view, bar, past>>
        /\ Armed
        /\ UNCHANGED <<jar, minted, live>>

MeFails ==
    /\ calls["me"].stage # "none"
    /\ calls' = [calls EXCEPT !["me"] = NoCall]
    /\ role' = IF calls["me"].current THEN "none" ELSE role
    /\ Armed
    /\ UNCHANGED <<view, jar, minted, live, bar, past>>

VerifyHeaders ==
    /\ calls["verify"].stage = "answered"
    /\ Cookie(calls["verify"])
    /\ calls' = [calls EXCEPT !["verify"].stage = "body"]
    /\ UNCHANGED <<view, role, minted, live, bar, sound>>

VerifyBody ==
    /\ calls["verify"].stage = "body"
    /\ \/ Welcome("verify") /\ Inside("verify", calls["verify"].given)
       \/ /\ ~Welcome("verify")
          /\ calls' = [calls EXCEPT !["verify"] = NoCall]
          /\ UNCHANGED <<role, view, bar, past>>
    /\ UNCHANGED <<jar, minted, live, sound>>

VerifyFails ==
    /\ calls["verify"].stage # "none"
    /\ calls' = [calls EXCEPT !["verify"] = NoCall]
    /\ UNCHANGED <<view, role, jar, minted, live, bar, sound, past>>

LogoutHeaders ==
    /\ calls["logout"].stage = "answered"
    /\ Cookie(calls["logout"])
    /\ calls' = [calls EXCEPT !["logout"] = NoCall]
    /\ role' = IF calls["logout"].current THEN "none" ELSE role
    /\ UNCHANGED <<view, minted, live, bar, sound>>

LogoutFails ==
    /\ calls["logout"].stage # "none"
    /\ calls' = [calls EXCEPT !["logout"] = NoCall]
    /\ role' = IF calls["logout"].current THEN "none" ELSE role
    /\ UNCHANGED <<view, jar, minted, live, bar, sound, past>>

-----------------------------------------------------------------------------
(* The loading page and the content of the scene.                          *)

\* The tip is optional: an error answer or none at all starts the bar, too.
MutTipEnds ==
    /\ view = "loading" /\ bar = "fetching"
    /\ calls["tip"].stage = "answered" /\ calls["tip"].answer = "done"
    /\ Cookie(calls["tip"])
    /\ calls' = [calls EXCEPT !["tip"] = NoCall]
    /\ bar' = "running"
    /\ UNCHANGED <<view, role, minted, live, sound>>
TipEnds ==
    /\ view = "loading" /\ bar = "fetching"
    /\ \/ calls["tip"].stage = "answered" /\ Cookie(calls["tip"])
       \/ UNCHANGED <<jar, past>>
    /\ calls' = [calls EXCEPT !["tip"] = NoCall]
    /\ bar' = "running"
    /\ UNCHANGED <<view, role, minted, live, sound>>

\* Provinces, albums, their pages and photos are asked for from the scene.
AskContent ==
    /\ view = "scene" /\ calls["scene"] = NoCall
    /\ calls' = [calls EXCEPT !["scene"] = ContentCall]
    /\ UNCHANGED <<view, role, jar, minted, live, bar, sound, past>>

ContentEnds ==
    /\ calls["scene"].stage # "none"
    /\ \/ calls["scene"].stage = "answered" /\ Cookie(calls["scene"])
       \/ UNCHANGED <<jar, past>>
    /\ calls' = [calls EXCEPT !["scene"] = NoCall]
    /\ UNCHANGED <<view, role, minted, live, bar, sound>>

\* The bar grows at every interval until it is full, which stops the interval.
BarGrows ==
    /\ view = "loading" /\ bar = "running"
    /\ bar' = "full"
    /\ UNCHANGED <<view, role, calls, jar, minted, live, sound, past>>

EnterScene ==
    /\ view = "loading" /\ bar = "full"
    /\ view' = "scene"
    /\ UNCHANGED <<role, calls, jar, minted, live, bar, sound, past>>

\* The page is loaded again: everything but the cookie and the server is new.
Reload ==
    /\ view' = "password" /\ role' = "none" /\ calls' = Mounted /\ bar' = "fetching"
    /\ sound' = [armed |-> FALSE, unlocked |-> FALSE, pending |-> {PageFlip}, loaded |-> {}]
    /\ past' = NothingPast
    /\ UNCHANGED <<jar, minted, live>>

LoadingPage == TipEnds \/ BarGrows \/ EnterScene

SessionStep ==
    \/ Submit \/ Logout
    \/ HandleMe \/ HandleVerify \/ HandleLogout \/ \E k \in Content : HandleContent(k)
    \/ SessionExpires \/ CookieExpires
    \/ MeHeaders \/ MeBody \/ MeFails
    \/ VerifyHeaders \/ VerifyBody \/ VerifyFails
    \/ LogoutHeaders \/ LogoutFails
    \/ LoadingPage \/ AskContent \/ ContentEnds

SessionNext == SessionStep \/ Reload

SessionSpec == SessionInit /\ [][SessionNext]_sessionVars /\ WF_sessionVars(LoadingPage)

-----------------------------------------------------------------------------
(* Properties.                                                             *)

\* Only the latest operation decides: after a logout no answer to an earlier
\* operation authenticates the user again, and one who was let in by the latest
\* operation is not thrown out by an answer to an earlier one.
LatestDecides ==
    /\ past.last = "logout" => role = "none"
    /\ past.entered => role # "none" /\ view # "password"

\* As long as the session lives that a user was let in with, its cookie stays,
\* whatever content is asked for and whatever calls are under way: only an
\* answer to a request that was sent with an older cookie can clear it.
CookieKept ==
    past.entered /\ past.session \in live => jar = past.session \/ past.late

\* Whoever reaches the loading page gets to the scene, with or without a tip.
LoadingEnds == view = "loading" ~> view \in {"scene", "password"}

\* The inductive invariant behind LatestDecides: no call is current but that of
\* the operation begun last, and none once it has let the user in.
CallState == [stage : {"none", "sent", "answered", "body"}, current : BOOLEAN,
              sent : Token \cup {NoToken}, cookie : {"keep", "set", "clear"},
              answer : {"none", "refused", "done", "owner", "visitor", "admin"},
              given : Token \cup {NoToken}]

StoreInv ==
    /\ calls \in [Kind -> CallState]
    /\ jar \in Token \cup {NoToken}
    /\ live \subseteq Token
    /\ minted \in [Token -> {"none", "owner", "visitor", "admin"}]
    /\ past \in [last : Operation, entered : BOOLEAN, late : BOOLEAN,
                session : Token \cup {NoToken}]
    /\ \A k \in Kind : calls[k].current => k = past.last /\ ~past.entered
    /\ past.last = "logout" => role = "none"
    /\ past.entered => role # "none" /\ view # "password"
=============================================================================
