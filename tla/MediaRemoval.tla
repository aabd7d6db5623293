---------------------------- MODULE MediaRemoval ----------------------------
(***************************************************************************)
(* What a deleted album or page leaves behind.  The requests that delete   *)
(* them collect keys before their transaction and take the rows inside it, *)
(* while others write those rows.  A history variable, which no action of  *)
(* MediaLifecycle reads, keeps for each such request the images that rows  *)
(* were given in between.                                                  *)
(***************************************************************************)
EXTENDS MediaLifecycle

VARIABLE added   \* history: for each request about to delete an album or a
                 \* page, the images rows were given since it read its keys

removalVars == <<vars, added>>

Deleting == {"deleteAlbum", "deletePage"}
Given == UNION {media'[o] \ media[o] : o \in Owner}

RemovalInit == Init /\ added = [p \in Request |-> {}]

RemovalNext ==
    /\ Next
    /\ added' = [p \in Request |->
                    IF req[p].op \in Deleting /\ req'[p] = req[p]
                    THEN added[p] \cup Given ELSE {}]

RemovalSpec == RemovalInit /\ [][RemovalNext]_removalVars

-----------------------------------------------------------------------------
(* Properties.                                                             *)

\* The images that rows O show have tasks when request p has deleted the rows,
\* but for those the rows were given after p had read their keys.
LeavesTasks(p, O) ==
    \A o \in O : \A k \in media[o] : tasks'[k] # <<>> \/ k \in added[p]

\* An album takes the images of its cover and of all its pages with it, however
\* many requests create, change and delete them meanwhile: only an image that
\* was attached after the delete had read its keys goes without a task.
AlbumLeavesTasks ==
    [][\A a \in Album : rows[a] = "live" /\ rows'[a] = "gone" =>
          \E p \in Request : req'[p] # req[p] /\ LeavesTasks(p, AlbumRows(a))]_removalVars

\* So does a page that is deleted on its own, although an update may give it
\* other images between the read and the transaction.
PageLeavesTasks ==
    [][\A g \in Page : rows[g] = "live" /\ rows'[g] = "gone" /\ rows'[AlbumOf[g]] = "live" =>
          \E p \in Request : req'[p] # req[p] /\ LeavesTasks(p, {g})]_removalVars
=============================================================================
