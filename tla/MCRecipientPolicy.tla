-------------------------- MODULE MCRecipientPolicy --------------------------
(***************************************************************************)
(* One recipient and five events: a grant, the same event id with other    *)
(* evidence, a revocation, a suppression and its clearance.                *)
(***************************************************************************)
EXTENDS RecipientPolicy, TLC

CONSTANTS phone, grant, regrant, revoke, suppress, clear

OnePhone == [e \in Events |-> phone]
EventIds == [e \in Events |-> CASE e \in {grant, regrant} -> 1
                                [] e = revoke -> 2
                                [] e = suppress -> 3
                                [] e = clear -> 4]
EventOperations == [e \in Events |-> CASE e \in {grant, regrant} -> "grant_consent"
                                       [] e = revoke -> "revoke_consent"
                                       [] e = suppress -> "apply_suppression"
                                       [] e = clear -> "clear_suppression"]
Booleans == BOOLEAN

\* Writers are interchangeable.
Symmetry == Permutations(Writers)
=============================================================================
