--------------------------- MODULE ProvinceVisits ---------------------------
(***************************************************************************)
(* Marking provinces as visited: the switches of ProvinceList, which flip  *)
(* at once, the calls they make, and the rows of the server.  A switch can *)
(* be flipped again while its calls are on their way: they reach the row,  *)
(* and are answered, in any order.                                         *)
(***************************************************************************)
EXTENDS Naturals

CONSTANTS
    Place,
    MaxToggles     \* bound on the calls made for one province before all of
                   \* them are answered

ASSUME SomeToggles == MaxToggles \in Nat

VARIABLES
    visited,    \* the rows of the server
    switch,     \* what the switches show, once the list is there
    listing,    \* the list: asked, read (with what was read), shown or failed
    toggles,    \* calls in flight, by province, numbered as they were made
                \* since none was
    turns        \* history, by province: how many were made, the last of them
                \* that reached the row, and whether switch and row parted

visitsVars == <<visited, switch, listing, toggles, turns>>

Turn == 1..MaxToggles
NoToggle == [stage |-> "none", value |-> FALSE, here |-> FALSE]
Asked == [stage |-> "asked", read |-> [p \in Place |-> FALSE]]

VisitsInit ==
    /\ visited \in [Place -> BOOLEAN]
    /\ switch = [p \in Place |-> FALSE]
    /\ listing = Asked
    /\ toggles = [p \in Place |-> [i \in Turn |-> NoToggle]]
    /\ turns = [p \in Place |-> [made |-> 0, written |-> 0, parted |-> FALSE]]

InFlight(p) == \E i \in Turn : toggles[p][i] # NoToggle

\* A further call since none was in flight.
Made(p) == IF InFlight(p) THEN turns[p].made + 1 ELSE 1

\* From here on switch and row may differ.
Parts(p, parting) == turns' = [turns EXCEPT ![p].parted = @ \/ parting]

-----------------------------------------------------------------------------
FindAll ==
    /\ listing.stage = "asked"
    /\ listing' = [stage |-> "read", read |-> visited]
    /\ turns' = [p \in Place |-> [turns[p] EXCEPT !.parted = FALSE]]
    /\ UNCHANGED <<visited, switch, toggles>>

ListArrives ==
    /\ listing.stage = "read"
    /\ listing' = [Asked EXCEPT !.stage = "shown"]
    /\ switch' = listing.read
    /\ UNCHANGED <<visited, toggles, turns>>

ListFails ==
    /\ listing.stage \in {"asked", "read"}
    /\ listing' = [Asked EXCEPT !.stage = "failed"]
    /\ UNCHANGED <<visited, switch, toggles, turns>>

\* The page is left and opened again: new rows, and the calls still in flight
\* will answer to rows nobody sees.
OpenProvinces ==
    /\ listing.stage \in {"shown", "failed"}
    /\ listing' = Asked
    /\ switch' = [p \in Place |-> FALSE]
    /\ toggles' = [p \in Place |-> [i \in Turn |-> [toggles[p][i] EXCEPT !.here = FALSE]]]
    /\ UNCHANGED <<visited, turns>>

\* The switch flips, and the call carries what it shows now.
Toggle(p) ==
    /\ listing.stage = "shown"
    /\ Made(p) \in Turn
    /\ toggles' = [toggles EXCEPT ![p][Made(p)] =
                      [stage |-> "sent", value |-> ~switch[p], here |-> TRUE]]
    /\ switch' = [switch EXCEPT ![p] = ~@]
    /\ turns' = [turns EXCEPT ![p].made = Made(p),
                            ![p].written = IF InFlight(p) THEN @ ELSE 0]
    /\ UNCHANGED <<visited, listing>>

\* The row is looked up and updated, or a query fails.  Switch and row part when
\* the call is of an earlier page, or a later one has reached the row before it.
UpdateProvince(p, i) ==
    LET late == \/ ~toggles[p][i].here /\ listing.stage # "asked"
                \/ turns[p].written > i
    IN  /\ toggles[p][i].stage = "sent"
        /\ visited' = [visited EXCEPT ![p] = toggles[p][i].value]
        /\ toggles' = [toggles EXCEPT ![p][i].stage = "done"]
        /\ turns' = [turns EXCEPT ![p].written = i, ![p].parted = @ \/ late]
        /\ UNCHANGED <<switch, listing>>

UpdateFails(p, i) ==
    /\ toggles[p][i].stage = "sent"
    /\ toggles' = [toggles EXCEPT ![p][i].stage = "refused"]
    /\ UNCHANGED <<visited, switch, listing, turns>>

\* The only call since none was in flight: switch and row are one again.
Toggled(p, i) ==
    /\ toggles[p][i].stage = "done"
    /\ toggles' = [toggles EXCEPT ![p][i] = NoToggle]
    /\ turns' = [turns EXCEPT ![p].parted = @ /\ ~(toggles[p][i].here /\ turns[p].made = 1)]
    /\ UNCHANGED <<visited, switch, listing>>

\* A refusal flips the switch from whatever it shows by then.  So does an
\* answer that never comes, although the row may have been updated.  Switch and
\* row part when it was, and when the switch has been flipped since.
MutToggleFails(p, i) ==
    /\ toggles[p][i].stage # "none"
    /\ toggles' = [toggles EXCEPT ![p][i] = NoToggle]
    /\ Parts(p, toggles[p][i].here /\ (toggles[p][i].stage = "done" \/ i < turns[p].made))
    /\ UNCHANGED <<visited, switch, listing>>
ToggleFails(p, i) ==
    /\ toggles[p][i].stage # "none"
    /\ toggles' = [toggles EXCEPT ![p][i] = NoToggle]
    /\ switch' = IF toggles[p][i].here THEN [switch EXCEPT ![p] = ~@] ELSE switch
    /\ Parts(p, toggles[p][i].here /\ (toggles[p][i].stage = "done" \/ i < turns[p].made))
    /\ UNCHANGED <<visited, listing>>

VisitsNext ==
    \/ FindAll \/ ListArrives \/ ListFails \/ OpenProvinces
    \/ \E p \in Place :
          \/ Toggle(p)
          \/ \E i \in Turn :
                UpdateProvince(p, i) \/ UpdateFails(p, i) \/ Toggled(p, i) \/ ToggleFails(p, i)

VisitsSpec == VisitsInit /\ [][VisitsNext]_visitsVars

-----------------------------------------------------------------------------
(* Properties.                                                             *)

\* However calls overlap, are refused or lost, or outlive the page: a switch
\* none of whose calls is in flight shows what the server has, unless switch and
\* row have parted in one of four ways since the list was read and since a call
\* that was the only one was acknowledged: a call reached the row after a later
\* one or after the page that made it was left, the answer of one that reached it
\* was lost, or one was given up after the switch had been flipped again.
SwitchesAreRight ==
    \A p \in Place :
        listing.stage = "shown" /\ ~InFlight(p) /\ ~turns[p].parted => switch[p] = visited[p]
=============================================================================
