------------------------- MODULE MediaPromiseProofs -------------------------
(***************************************************************************)
(* What the promise is worth: whatever the number of objects and records,  *)
(* the object of a key handed to a record is in the store while the record *)
(* exists.                                                                 *)
(***************************************************************************)
EXTENDS MediaPromise, TLAPS

\* Removals are ordered for keys of retired records only; every other key
\* that was handed out is in the store.
PromiseInv ==
    /\ PromiseTypeOK
    /\ \A k \in released : holder[k] \in retired
    /\ HeldIsPresent

LEMMA NextKeepsPromiseInv ==
  ASSUME NoOwner \notin Owner, PromiseInv, [Next]_promiseVars
  PROVE  PromiseInv'
<1> USE DEF PromiseInv, PromiseTypeOK, HeldIsPresent
<1>1. ASSUME NEW K \in SUBSET Key, Publish(K)
      PROVE  PromiseInv'
  BY <1>1 DEF Publish
<1>2. ASSUME NEW K \in SUBSET Key, Remove(K)
      PROVE  PromiseInv'
  BY <1>2 DEF Remove
<1>3. ASSUME NEW K \in SUBSET Key, NEW o \in Owner, Take(o, K)
      PROVE  PromiseInv'
  BY <1>3 DEF Take
<1>4. ASSUME NEW K \in SUBSET Key, NEW O \in SUBSET Owner, Retire(O, K)
      PROVE  PromiseInv'
  BY <1>4 DEF Retire
<1>5. CASE UNCHANGED promiseVars
  BY <1>5 DEF promiseVars
<1>6. QED
  BY <1>1, <1>2, <1>3, <1>4, <1>5 DEF Next

\* A record that exists shows objects that are in the store.
THEOREM PromiseSafe ==
  ASSUME NoOwner \notin Owner
  PROVE  Spec => []HeldIsPresent
<1>1. Init => PromiseInv
  BY DEF Init, PromiseInv, PromiseTypeOK, HeldIsPresent
<1>2. PromiseInv /\ [Next]_promiseVars => PromiseInv'
  BY NextKeepsPromiseInv
<1>3. PromiseInv => HeldIsPresent
  BY DEF PromiseInv
<1>4. QED
  BY <1>1, <1>2, <1>3, PTL DEF Spec
=============================================================================
