---------------------------- MODULE MediaPromise ----------------------------
(***************************************************************************)
(* What the back office promises about the uploaded media, with no trace   *)
(* of how it keeps the promise: an object is handed to one record, and it  *)
(* may disappear from the object store only after that record is gone and  *)
(* its removal has been ordered.  MediaLifecycle implements this module.   *)
(***************************************************************************)
CONSTANTS Key,      \* final object keys, one per upload
          Owner,    \* records that can show an object: photos, albums, pages
          NoOwner

VARIABLES object,   \* keys present in the object store under their final name
          holder,   \* the record each key was handed to
          retired,  \* records that have been deleted
          released  \* keys whose removal has been ordered

promiseVars == <<object, holder, retired, released>>

PromiseTypeOK ==
    /\ object \subseteq Key
    /\ holder \in [Key -> Owner \cup {NoOwner}]
    /\ retired \subseteq Owner
    /\ released \subseteq Key

Init ==
    /\ object = {}
    /\ holder = [k \in Key |-> NoOwner]
    /\ retired = {}
    /\ released = {}

Publish(K) ==
    /\ object' = object \cup K
    /\ UNCHANGED <<holder, retired, released>>

\* A record takes over keys nobody holds; all of them are in the store.
Take(o, K) ==
    /\ o \notin retired
    /\ K \subseteq object
    /\ \A k \in K : holder[k] = NoOwner
    /\ holder' = [k \in Key |-> IF k \in K THEN o ELSE holder[k]]
    /\ UNCHANGED <<object, retired, released>>

\* Records go away, and with them the removal of some of their keys is
\* ordered.  A key of a record that had already gone may be ordered again.
Retire(O, K) ==
    /\ retired' = retired \cup O
    /\ \A k \in K : holder[k] \in retired \cup O
    /\ released' = released \cup K
    /\ UNCHANGED <<object, holder>>

\* Only what was ordered is removed, and that any number of times.
Remove(K) ==
    /\ K \subseteq released
    /\ object' = object \ K
    /\ UNCHANGED <<holder, retired, released>>

Next ==
    \E K \in SUBSET Key :
        \/ Publish(K) \/ Remove(K)
        \/ \E o \in Owner : Take(o, K)
        \/ \E O \in SUBSET Owner : Retire(O, K)

Spec == Init /\ [][Next]_promiseVars

\* What the promise is for: the object of a key handed to a record that
\* still exists is in the store (a photo, cover or page never shows a hole
\* left by the deletion sweep).
HeldIsPresent ==
    \A k \in Key : holder[k] \in Owner \ retired => k \in object
=============================================================================
