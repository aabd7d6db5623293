----------------------------- MODULE AdminAuth ------------------------------
(***************************************************************************)
(* Getting into the back office: the auth store, the guard every           *)
(* navigation passes, the interceptor that reacts to a 401 of any call,    *)
(* the login page and the logout button.                                   *)
(*                                                                         *)
(* Calls overlap: a navigation asks /auth/me while a login or a logout is  *)
(* in flight, and pages are left while their calls are.                    *)
(***************************************************************************)
EXTENDS Naturals

CONSTANT MaxCalls     \* bound on the calls in flight

ASSUME CallsAreBounded == MaxCalls \in Nat \ {0}

VARIABLES
    door,        \* the store's role and whether it is initialized
    path,        \* start, login or guarded: the route shown
    sent,        \* calls in flight
    session,     \* role of the session the browser's cookie stands for
    crossed      \* history: a guarded page was entered while a /me was in flight

authVars == <<door, path, sent, session, crossed>>

Role == {"admin", "other"}     \* a visitor or an owner is "other"
Slot == 1..MaxCalls

\* waits: the navigation that waits for this call is still the pending one.
Idle == [kind |-> "none", answer |-> "none", waits |-> FALSE]
NewOf(kind) == [kind |-> kind, answer |-> "open", waits |-> kind = "me"]

AuthInit ==
    /\ door = [role |-> "none", initialized |-> FALSE]
    /\ path = "start"
    /\ sent = [i \in Slot |-> Idle]
    /\ session \in Role \cup {"none"}
    /\ crossed = FALSE

\* A navigation supersedes the one that is pending.
Superseded == [i \in Slot |-> [sent[i] EXCEPT !.waits = FALSE]]

-----------------------------------------------------------------------------
(* What the administrator does.                                            *)

Call(kind, before) ==
    \E i \in Slot : /\ sent[i] = Idle
                    /\ \A j \in 1..(i - 1) : sent[j] # Idle
                    /\ sent' = [before EXCEPT ![i] = NewOf(kind)]

\* A link, the history or the first load, to a guarded page: an initialized
\* store decides at once, otherwise the server is asked.
Navigate ==
    /\ \/ /\ door.initialized
          /\ path' = IF door.role # "none" THEN "guarded" ELSE "login"
          /\ sent' = Superseded
       \/ ~door.initialized /\ Call("me", Superseded) /\ UNCHANGED path
    /\ UNCHANGED <<door, session, crossed>>

NavigateToLogin ==
    /\ path # "login"
    /\ path' = "login"
    /\ sent' = Superseded
    /\ UNCHANGED <<door, session, crossed>>

\* The button of the form is disabled while a login is in flight.
Login ==
    /\ path = "login" /\ \A i \in Slot : sent[i].kind # "login"
    /\ Call("login", sent)
    /\ UNCHANGED <<door, path, session, crossed>>

\* The store's logout is not awaited: the login page is shown at once.
LogoutButton ==
    /\ path = "guarded"
    /\ Call("logout", Superseded)
    /\ path' = "login"
    /\ UNCHANGED <<door, session, crossed>>

\* A guarded page reads or writes.
PageCall ==
    /\ path = "guarded" /\ Call("data", sent)
    /\ UNCHANGED <<door, path, session, crossed>>

-----------------------------------------------------------------------------
(* The server, and the end of a session.                                   *)

Answers401 == {[answer |-> "401", session |-> "none"]}

\* A wrong password is a 401, too; any of the three passwords makes a session.
Handled(kind) ==
    CASE kind = "login" -> {[answer |-> r, session |-> r] : r \in Role}
                           \cup {[answer |-> "401", session |-> session]}
      [] session = "none" -> Answers401
      [] kind = "logout" -> {[answer |-> "done", session |-> "none"]}
      [] OTHER -> {[answer |-> session, session |-> session]}

Handle(i) ==
    /\ sent[i].answer = "open"
    /\ \E h \in Handled(sent[i].kind) :
          /\ sent' = [sent EXCEPT ![i].answer = h.answer]
          /\ session' = h.session
    /\ UNCHANGED <<door, path, crossed>>

SessionEnds ==
    /\ session # "none" /\ session' = "none"
    /\ UNCHANGED <<door, path, sent, crossed>>

-----------------------------------------------------------------------------
(* Answers.                                                                *)

Rest(i) == [sent EXCEPT ![i] = Idle]
RestSuperseded(i) == [Superseded EXCEPT ![i] = Idle]

\* Another /me is in flight when the answer to call i lets somebody in.
Asking(i) == \E j \in Slot \ {i} : sent[j].kind = "me"

\* The interceptor: a 401 on any page but the login page leads there, with a
\* store that has to ask again.  initSession then marks it initialized.
Refused(i) ==
    /\ sent[i].answer = "401"
    /\ path' = "login"
    /\ \/ path = "login" /\ sent[i].kind # "me" /\ sent' = Rest(i) /\ UNCHANGED door
       \/ /\ path # "login" \/ sent[i].kind = "me"
          /\ sent' = RestSuperseded(i)
          /\ door' = [role |-> "none", initialized |-> sent[i].kind = "me"]
    /\ UNCHANGED <<session, crossed>>

\* A navigation that is still pending goes on.
MeAnswered(i) ==
    /\ sent[i].kind = "me" /\ sent[i].answer \in Role
    /\ door' = [role |-> sent[i].answer, initialized |-> TRUE]
    /\ path' = IF sent[i].waits THEN "guarded" ELSE path
    /\ sent' = Rest(i)
    /\ crossed' = (crossed \/ Asking(i))
    /\ UNCHANGED session

\* Only the administrator's role is let in; the session of another role stays.
LoginAnsweredAdmin(i) ==
    /\ sent[i].kind = "login" /\ sent[i].answer = "admin"
    /\ door' = [role |-> "admin", initialized |-> TRUE]
    /\ path' = "guarded"
    /\ sent' = RestSuperseded(i)
    /\ crossed' = (crossed \/ Asking(i))
    /\ UNCHANGED session

LoginAnsweredOther(i) ==
    /\ sent[i].kind = "login" /\ sent[i].answer = "other"
    /\ sent' = Rest(i)
    /\ UNCHANGED <<door, path, session, crossed>>

MutLogoutAnswered(i) ==
    /\ sent[i].kind = "logout" /\ sent[i].answer = "done"
    /\ door' = [door EXCEPT !.role = "none"]
    /\ sent' = Rest(i)
    /\ UNCHANGED <<path, session, crossed>>
LogoutAnswered(i) ==
    /\ sent[i].kind = "logout" /\ sent[i].answer = "done"
    /\ door' = [role |-> "none", initialized |-> FALSE]
    /\ sent' = Rest(i)
    /\ UNCHANGED <<path, session, crossed>>

DataAnswered(i) ==
    /\ sent[i].kind = "data" /\ sent[i].answer \in Role
    /\ sent' = Rest(i)
    /\ UNCHANGED <<door, path, session, crossed>>

\* No answer: initSession takes it for no session, the others leave the store
\* as it is.
Unreachable(i) ==
    /\ sent[i].kind # "none"
    /\ sent' = Rest(i)
    /\ \/ /\ sent[i].kind = "me"
          /\ door' = [role |-> "none", initialized |-> TRUE]
          /\ path' = IF sent[i].waits THEN "login" ELSE path
       \/ sent[i].kind # "me" /\ UNCHANGED <<door, path>>
    /\ UNCHANGED <<session, crossed>>

AuthNext ==
    \/ Navigate \/ NavigateToLogin \/ Login \/ LogoutButton \/ PageCall
    \/ SessionEnds
    \/ \E i \in Slot :
          \/ Handle(i) \/ Refused(i) \/ Unreachable(i)
          \/ MeAnswered(i) \/ LoginAnsweredAdmin(i) \/ LoginAnsweredOther(i)
          \/ LogoutAnswered(i) \/ DataAnswered(i)

AuthSpec == AuthInit /\ [][AuthNext]_authVars

-----------------------------------------------------------------------------
(* Properties.                                                             *)

\* With no navigation pending, no guarded page is open over a store that is
\* sure of having no role,
\* whatever navigations, logouts, expired sessions and lost calls overlap,
\* unless somebody was let in while another /me was still in flight.
GuardedNeedsRole ==
    path = "guarded" /\ door.initialized /\ ~crossed /\ (\A i \in Slot : ~sent[i].waits)
        => door.role # "none"
=============================================================================
