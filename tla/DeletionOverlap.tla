--------------------------- MODULE DeletionOverlap ---------------------------
(***************************************************************************)
(* Overlapping sweeps of the deletion queue and the due times.  Every      *)
(* delete request, the retry endpoint and the start-up begin a sweep, and  *)
(* each works through the rows it found due when it began.  A history      *)
(* variable, which no action of DeletionTasks reads, keeps for each sweep  *)
(* the rows of its batch that another one has put off meanwhile.           *)
(***************************************************************************)
EXTENDS DeletionTasks

VARIABLE putOff   \* history: for each sweep, rows still in its batch that
                  \* another sweep has put off since it read them

overlapVars == <<vars, putOff>>

OverlapInit == Init /\ putOff = [s \in Sweeper |-> {}]

OverlapNext ==
    /\ Next
    /\ putOff' = [s \in Sweeper |->
                     IF sweep'[s] = sweep[s]
                     THEN putOff[s] \cup {t \in Range(sweep[s].batch) : wait'[t] > wait[t]}
                     ELSE putOff[s] \cap Range(sweep'[s].batch)]

OverlapSpec == OverlapInit /\ [][OverlapNext]_overlapVars

-----------------------------------------------------------------------------
\* However many sweeps overlap, the object of a row is asked for only when the
\* row is due, or when it was due as the sweep read its batch and another sweep
\* has put it off since: processOne looks at the status of the row alone.
OnlyDueAttempted ==
    [][\A s \in Sweeper : sweep[s].phase = "next" /\ sweep'[s].phase = "delete" =>
          wait[Row(s)] = 0 \/ Row(s) \in putOff[s]]_overlapVars
=============================================================================
