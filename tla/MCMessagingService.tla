------------------------- MODULE MCMessagingService -------------------------
(***************************************************************************)
(* Small instances of MessagingService.  Requests are named by what makes  *)
(* them different: a and b are two templates to one recipient, text is a   *)
(* session message and code a template with a sensitive parameter.         *)
(***************************************************************************)
EXTENDS MessagingService, TLC

CONSTANTS flow, other,            \* scopes
          a, b, text, code,       \* requests
          phone                   \* a recipient

\* Every request is filed under one scope.
OneScope == [r \in Requests |-> flow]

\* Request b has a scope of its own.
TwoScopes == [r \in Requests |-> IF r = b THEN other ELSE flow]

OneRecipient == [r \in Requests |-> phone]

\* Callers and generated ids are interchangeable in the safety runs.
Symmetry == Permutations(Callers) \cup Permutations(Ids)
=============================================================================
