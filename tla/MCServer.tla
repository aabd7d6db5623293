------------------------------ MODULE MCServer ------------------------------
(***************************************************************************)
(* The parts of the server that share no state with each other, in one     *)
(* instance for TLC.  What one part does is the same whatever the others   *)
(* do, so each is explored in full while the others are where they start.  *)
(***************************************************************************)
EXTENDS PageOrder, AlbumYears, RateLimit, TokenCutoff, Migration

Interchangeable == Permutations(Page) \cup Permutations(Writer)

\* The migration starts from any contents; the others wait at one of them.
LegacyEverywhere ==
    /\ script = Unread /\ editing = NotEditing /\ ~marker
    /\ \A r \in Row : row[r].text = "old" /\ \A i \in Slots(r) : row[r].images[i] = "legacy"

ServerInit == PagesInit /\ YearsInit /\ LimitInit /\ CutoffInit /\ MigrateInit

ServerNext ==
    \/ /\ YearsInit /\ LimitInit /\ CutoffInit /\ LegacyEverywhere
       /\ PagesNext
       /\ UNCHANGED <<yearsVars, limitVars, cutoffVars, migrateVars>>
    \/ /\ PagesInit /\ LimitInit /\ CutoffInit /\ LegacyEverywhere
       /\ YearsNext
       /\ UNCHANGED <<pagesVars, limitVars, cutoffVars, migrateVars>>
    \/ /\ PagesInit /\ YearsInit /\ CutoffInit /\ LegacyEverywhere
       /\ LimitNext
       /\ UNCHANGED <<pagesVars, yearsVars, cutoffVars, migrateVars>>
    \/ /\ PagesInit /\ YearsInit /\ LimitInit /\ LegacyEverywhere
       /\ CutoffNext
       /\ UNCHANGED <<pagesVars, yearsVars, limitVars, migrateVars>>
    \/ /\ PagesInit /\ YearsInit /\ LimitInit /\ CutoffInit
       /\ MigrateNext
       /\ UNCHANGED <<pagesVars, yearsVars, limitVars, cutoffVars>>

ServerSpec ==
    ServerInit /\ [][ServerNext]_<<pagesVars, yearsVars, limitVars, cutoffVars, migrateVars>>
=============================================================================
