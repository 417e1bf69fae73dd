----------------------------- MODULE CuckooSet ------------------------------
(***************************************************************************)
(* What a cuckoo filter promises, at the level of fingerprints: it is a    *)
(* multiset of the fingerprints of the keys inserted and not yet deleted.  *)
(* Insert adds one copy (or, refused, adds nothing), Delete of a stored    *)
(* fingerprint removes exactly one copy (Delete of anything else changes   *)
(* nothing), Clear empties it.  Contains is then exact on fingerprints: a  *)
(* false positive of the filter is a different key with the same          *)
(* fingerprint, never a fingerprint it does not hold.                      *)
(***************************************************************************)
EXTENDS Bags

CONSTANT Fingerprints   \* the fingerprints keys can have

VARIABLE stored         \* a bag of fingerprints

TypeOK == IsABag(stored) /\ BagToSet(stored) \subseteq Fingerprints

Init == stored = EmptyBag

\* The three steps, as relations between the bag before (old) and after
\* (new).
InsertStep(old, new, f) == new = old (+) SetToBag({f})

DeleteStep(old, new, f) == BagIn(f, old) /\ new = old (-) SetToBag({f})

ClearStep(old, new) == new = EmptyBag

\* old and new are bound once, so that a refinement mapping substituted for
\* `stored' is evaluated once per state of a step.
Next ==
    \E old \in {stored}, new \in {stored'} :
        \/ \E f \in Fingerprints : InsertStep(old, new, f)
        \/ \E f \in BagToSet(old) : DeleteStep(old, new, f)
        \/ ClearStep(old, new)

Spec == Init /\ [][Next]_stored

=============================================================================
