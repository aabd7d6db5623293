----------------------------- MODULE PhotoPanel -----------------------------
(***************************************************************************)
(* The panel with the photos of a province.  Its parent mounts it with a   *)
(* province, may give it another one, and unmounts it.  Every province it  *)
(* is given starts a request; answers come in any order, in two steps      *)
(* (headers, body), and the panel compares the version of each with its    *)
(* own after both.                                                         *)
(***************************************************************************)
EXTENDS Naturals

CONSTANTS
    Province,
    NoProvince,
    MaxVersion     \* bound on the provinces one panel is given

ASSUME NoProvinceIsNone == NoProvince \notin Province
ASSUME ProvincesAreNoSights == Province \cap {"loading", "failed", "empty"} = {}
ASSUME MaxVersionIsNat == MaxVersion \in Nat

VARIABLES
    shownOf,    \* prop: the province; NoProvince while there is no panel
    version,    \* requestVersion
    requests,   \* by version, the requests of this panel
    shot        \* whose photos are listed, loading, error and empty flags

panelVars == <<shownOf, version, requests, shot>>

NoRequest == [of |-> NoProvince, stage |-> "none"]
Blank == [photos |-> NoProvince, loading |-> FALSE, error |-> FALSE, empty |-> FALSE]

PanelInit ==
    /\ shownOf = NoProvince
    /\ version = 0
    /\ requests = [v \in 1..MaxVersion |-> NoRequest]
    /\ shot = Blank

\* Another province for the panel that is there, or the first of a new one.
Watch(p) ==
    /\ p # shownOf
    /\ version < MaxVersion
    /\ shownOf' = p
    /\ version' = version + 1
    /\ requests' = [requests EXCEPT ![version + 1] = [of |-> p, stage |-> "sent"]]
    /\ shot' = [Blank EXCEPT !.loading = TRUE]

\* An unmounted panel is not looked at again, and nor are its answers.
Unmount ==
    /\ shownOf # NoProvince
    /\ shownOf' = NoProvince
    /\ version' = 0
    /\ requests' = [v \in 1..MaxVersion |-> NoRequest]
    /\ shot' = Blank

MutLatest(v) == TRUE
Latest(v) == v = version

Finished(v) == requests' = [requests EXCEPT ![v].stage = "none"]

\* Whatever ends the latest request ends the loading, in the finally block.
Headers(v) ==
    /\ requests[v].stage = "sent"
    /\ \/ Latest(v) /\ requests' = [requests EXCEPT ![v].stage = "body"] /\ UNCHANGED shot
       \/ ~Latest(v) /\ Finished(v) /\ UNCHANGED shot
       \/ Latest(v) /\ Finished(v) /\ shot' = [shot EXCEPT !.error = TRUE, !.loading = FALSE]
    /\ UNCHANGED <<shownOf, version>>

Body(v) ==
    /\ requests[v].stage = "body"
    /\ Finished(v)
    /\ \/ ~Latest(v) /\ UNCHANGED shot
       \/ /\ Latest(v)
          /\ \E none \in BOOLEAN :
                shot' = [shot EXCEPT !.loading = FALSE, !.empty = none,
                                     !.photos = IF none THEN NoProvince ELSE requests[v].of]
       \/ Latest(v) /\ shot' = [shot EXCEPT !.loading = FALSE, !.error = TRUE]
    /\ UNCHANGED <<shownOf, version>>

Answers == \E v \in 1..MaxVersion : Headers(v) \/ Body(v)

PanelNext == (\E p \in Province : Watch(p)) \/ Unmount \/ Answers

PanelSpec == PanelInit /\ [][PanelNext]_panelVars

\* What the visitor sees: the first flag that is set, or the photos.
Sight ==
    CASE shot.loading -> "loading"
      [] ~shot.loading /\ shot.error -> "failed"
      [] ~shot.loading /\ ~shot.error /\ shot.empty -> "empty"
      [] OTHER -> shot.photos

-----------------------------------------------------------------------------
(* Properties.                                                             *)

\* The visitor sees no photos but those of the province that was chosen, and a
\* panel that is loading exactly as long as the request for that province is
\* unanswered, whatever else was asked before and answers late.
PanelFollows ==
    shownOf # NoProvince =>
        /\ Sight \in {"loading", "failed", "empty", shownOf}
        /\ Sight = "loading" <=> requests[version].stage # "none"
=============================================================================
