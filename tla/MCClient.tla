------------------------------ MODULE MCClient ------------------------------
(***************************************************************************)
(* The parts of the client that share no state with each other, in one     *)
(* instance for TLC.  What one part does is the same whatever the others   *)
(* do, so each is explored in full while the others are where they start.  *)
(***************************************************************************)
EXTENDS ClientSession, PhotoPanel, ClientScene, FlipBook, TLC

CONSTANTS a1, a2

\* An album whose pages all fit on a spread, and one with more than one spread.
Books == a1 :> 1 @@ a2 :> 3

clientVars == <<sessionVars, panelVars, sceneVars, bookVars>>

\* The session starts with any cookie; the others wait with none.
Visitor == SessionInit /\ jar = NoToken

\* The book starts in either kind of window; the others wait with a wide one.
NoBookOpen == BookInit /\ wide

ClientInit ==
    /\ SessionInit /\ PanelInit /\ SceneInit /\ BookInit
    /\ Visitor \/ NoBookOpen

ClientNext ==
    \/ /\ PanelInit /\ SceneInit /\ NoBookOpen
       /\ SessionNext
       /\ UNCHANGED <<panelVars, sceneVars, bookVars>>
    \/ /\ Visitor /\ SceneInit /\ NoBookOpen
       /\ PanelNext
       /\ UNCHANGED <<sessionVars, sceneVars, bookVars>>
    \/ /\ Visitor /\ PanelInit /\ NoBookOpen
       /\ SceneNext
       /\ UNCHANGED <<sessionVars, panelVars, bookVars>>
    \/ /\ Visitor /\ PanelInit /\ SceneInit
       /\ BookNext
       /\ UNCHANGED <<sessionVars, panelVars, sceneVars>>

ClientSpec ==
    ClientInit /\ [][ClientNext]_clientVars /\ WF_sessionVars(LoadingPage)
=============================================================================
