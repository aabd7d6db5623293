---------------------------- MODULE TokenCutoff ----------------------------
(***************************************************************************)
(* RolesGuard on Bearer tokens: a token issued before the configured       *)
(* cutoff is refused.  The cutoff is read from the database at most once   *)
(* in CacheLife ticks; requests overlap while they read it.                *)
(***************************************************************************)
EXTENDS Naturals

CONSTANTS
    Bearer,      \* requests in flight at the same time
    CacheLife    \* 60_000 ms, in ticks

ASSUME LifeIsPositive == CacheLife \in Nat \ {0}

VARIABLES
    raised,   \* the cutoff in the database has been raised over the old
              \* tokens, and how many ticks ago (at most CacheLife)
    cache,    \* the cached cutoff: unread, or whether it is the raised one,
              \* and the age of its stamp (at most CacheLife)
    bearer    \* each request with an old token

cutoffVars == <<raised, cache, bearer>>

\* since: ticks since the request arrived, the stamp it will store; saw: what
\* it read; late: history, the cutoff was raised CacheLife ticks before.
NewBearer(op, late) == [op |-> op, since |-> 0, saw |-> FALSE, late |-> late]
NoBearer == NewBearer("idle", FALSE)
Older(n) == IF n < CacheLife THEN n + 1 ELSE n

CutoffInit ==
    /\ raised = [set |-> FALSE, age |-> 0]
    /\ cache = [state |-> "unread", raised |-> FALSE, age |-> CacheLife]
    /\ bearer = [b \in Bearer |-> NoBearer]

\* Whoever changes a password raises token_invalidated_before; nothing in the
\* server does.
RaiseCutoff ==
    /\ ~raised.set
    /\ raised' = [set |-> TRUE, age |-> 0]
    /\ UNCHANGED <<cache, bearer>>

Verdict(old) == IF old THEN "refused" ELSE "served"

\* getInvalidationCutoff: the cached value while it is young, else a query.
Cached == cache.state = "read" /\ cache.age < CacheLife

UseToken(b) ==
    /\ bearer[b] = NoBearer
    /\ bearer' = [bearer EXCEPT ![b] =
          NewBearer(IF Cached THEN Verdict(cache.raised) ELSE "query",
                    raised.set /\ raised.age = CacheLife)]
    /\ UNCHANGED <<raised, cache>>

\* The row is read; the answer is on its way.
QueryCutoff(b) ==
    /\ bearer[b].op = "query"
    /\ bearer' = [bearer EXCEPT ![b].op = "store", ![b].saw = raised.set]
    /\ UNCHANGED <<raised, cache>>

\* The stamp is the time the request arrived, not the time of the answer.
MutStoreCutoff(b) ==
    /\ bearer[b].op = "store"
    /\ cache' = [state |-> "read", raised |-> bearer[b].saw, age |-> 0]
    /\ bearer' = [bearer EXCEPT ![b].op = Verdict(bearer[b].saw)]
    /\ UNCHANGED raised
StoreCutoff(b) ==
    /\ bearer[b].op = "store"
    /\ cache' = [state |-> "read", raised |-> bearer[b].saw, age |-> bearer[b].since]
    /\ bearer' = [bearer EXCEPT ![b].op = Verdict(bearer[b].saw)]
    /\ UNCHANGED raised

TokenAnswered(b) ==
    /\ bearer[b].op \in {"served", "refused"}
    /\ bearer' = [bearer EXCEPT ![b] = NoBearer]
    /\ UNCHANGED <<raised, cache>>

\* resetCache, and a restart.
ResetCache ==
    /\ cache' = [cache EXCEPT !.state = "unread"]
    /\ UNCHANGED <<raised, bearer>>

CutoffTick ==
    /\ raised' = [raised EXCEPT !.age = IF raised.set THEN Older(@) ELSE @]
    /\ cache' = [cache EXCEPT !.age = Older(@)]
    /\ bearer' = [b \in Bearer |-> IF bearer[b].op \in {"query", "store"}
                                  THEN [bearer[b] EXCEPT !.since = Older(@)] ELSE bearer[b]]

CutoffNext ==
    \/ RaiseCutoff \/ ResetCache \/ CutoffTick
    \/ \E b \in Bearer :
          UseToken(b) \/ QueryCutoff(b) \/ StoreCutoff(b) \/ TokenAnswered(b)

CutoffSpec == CutoffInit /\ [][CutoffNext]_cutoffVars

-----------------------------------------------------------------------------
(* Properties.                                                             *)

\* A request with an old token that arrives a full cache life after the cutoff
\* was raised is refused, whichever slow reads have overwritten the cache.
OldTokensEnd == \A b \in Bearer : bearer[b].late => bearer[b].op # "served"

\* Why: a value that is still used was read after its stamp, so it can miss the
\* raised cutoff only while that is younger than the stamp.
CutoffInv ==
    /\ raised \in [set : BOOLEAN, age : 0 .. CacheLife]
    /\ cache \in [state : {"unread", "read"}, raised : BOOLEAN, age : 0 .. CacheLife]
    /\ bearer \in [Bearer -> [op : {"idle", "query", "store", "served", "refused"},
                              since : 0 .. CacheLife, saw : BOOLEAN, late : BOOLEAN]]
    /\ Cached /\ ~cache.raised /\ raised.set => raised.age <= cache.age
    /\ \A b \in Bearer :
          /\ bearer[b].op = "store" /\ ~bearer[b].saw /\ raised.set => raised.age <= bearer[b].since
          /\ bearer[b].late => raised.set /\ raised.age = CacheLife /\ bearer[b].op # "served"
          /\ bearer[b].op = "store" /\ bearer[b].late => bearer[b].saw
=============================================================================
