----------------------------- MODULE AlbumYears -----------------------------
(***************************************************************************)
(* The unique year of an album: AlbumService.create and update look the    *)
(* year up, wait for the receipt of the cover and write in a transaction.  *)
(***************************************************************************)
EXTENDS Naturals

CONSTANTS
    Volume,   \* album identifiers, never given out twice
    Year,     \* years
    Asker,    \* requests in flight at the same time
    NoYear

ASSUME NoYearIsNoYear == NoYear \notin Year

VARIABLES
    year,    \* year of an album's row, NoYear without a row
    known,   \* history: albums created so far
    ask      \* each request: its next step and what it carries

yearsVars == <<year, known, ask>>

\* lapped: history, another write was committed since the year was looked up.
NoAsk == [op |-> "idle", volume |-> <<>>, year |-> NoYear, lapped |-> FALSE]

Albums == {v \in Volume : year[v] # NoYear}
Taken(y) == \E v \in Albums : year[v] = y

YearsInit ==
    /\ year = [v \in Volume |-> NoYear]
    /\ known = {}
    /\ ask = [c \in Asker |-> NoAsk]

Reply(c, answer) == ask' = [ask EXCEPT ![c].op = answer]

\* A write of request c overtakes every other request that has looked.
Committed(c) ==
    ask' = [d \in Asker |-> IF d = c THEN [ask[c] EXCEPT !.op = "served"]
                            ELSE [ask[d] EXCEPT !.lapped = ask[d] # NoAsk]]

CreateCheck(c) ==
    /\ ask[c] = NoAsk
    /\ \E y \in Year :
          ask' = [ask EXCEPT ![c].year = y, ![c].op = IF Taken(y) THEN "conflict" ELSE "create"]
    /\ UNCHANGED <<year, known>>

\* P2002 of the unique year becomes the same conflict the check answers.
MutCreateTx(c) ==
    /\ ask[c].op = "create"
    /\ \/ Taken(ask[c].year) /\ Reply(c, "failed") /\ UNCHANGED <<year, known>>
       \/ /\ ~Taken(ask[c].year)
          /\ \E v \in Volume \ known :
                /\ year' = [year EXCEPT ![v] = ask[c].year]
                /\ known' = known \cup {v}
          /\ Committed(c)
CreateTx(c) ==
    /\ ask[c].op = "create"
    /\ \/ Taken(ask[c].year) /\ Reply(c, "conflict") /\ UNCHANGED <<year, known>>
       \/ /\ ~Taken(ask[c].year)
          /\ \E v \in Volume \ known :
                /\ year' = [year EXCEPT ![v] = ask[c].year]
                /\ known' = known \cup {v}
          /\ Committed(c)

\* An update may keep its year, or name one that is free.
UpdateCheck(c) ==
    /\ ask[c] = NoAsk
    /\ \E v \in Albums, y \in Year :
          ask' = [ask EXCEPT ![c].volume = <<v>>, ![c].year = y,
                             ![c].op = IF y # year[v] /\ Taken(y) THEN "conflict" ELSE "update"]
    /\ UNCHANGED <<year, known>>

\* Neither P2025 of a row that is gone nor P2002 of the year is caught.
UpdateTx(c) ==
    LET v == ask[c].volume[1]
    IN  /\ ask[c].op = "update"
        /\ \/ /\ v \notin Albums \/ \E w \in Albums \ {v} : year[w] = ask[c].year
              /\ Reply(c, "failed")
              /\ UNCHANGED year
           \/ /\ v \in Albums /\ \A w \in Albums \ {v} : year[w] # ask[c].year
              /\ year' = [year EXCEPT ![v] = ask[c].year]
              /\ Committed(c)
        /\ UNCHANGED known

DeleteVolume(c) ==
    /\ ask[c] = NoAsk
    /\ \E v \in Albums : year' = [year EXCEPT ![v] = NoYear]
    /\ Committed(c)
    /\ UNCHANGED known

\* The answer goes out, or a query fails before it.
Dismiss(c) ==
    /\ ask[c] # NoAsk
    /\ ask' = [ask EXCEPT ![c] = NoAsk]
    /\ UNCHANGED <<year, known>>

YearsNext ==
    \E c \in Asker :
        \/ CreateCheck(c) \/ CreateTx(c) \/ UpdateCheck(c) \/ UpdateTx(c)
        \/ DeleteVolume(c) \/ Dismiss(c)

YearsSpec == YearsInit /\ [][YearsNext]_yearsVars

-----------------------------------------------------------------------------
(* Properties.                                                             *)

\* A year that is taken is answered with a conflict: a creation always, an
\* update unless another request was committed between its look and its write.
YearConflictsAnswered ==
    \A c \in Asker : ask[c].op = "failed" => ask[c].volume # <<>> /\ ask[c].lapped
=============================================================================
