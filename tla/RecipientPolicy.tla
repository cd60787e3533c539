--------------------------- MODULE RecipientPolicy ---------------------------
(***************************************************************************)
(* MongoRecipientEligibilityPolicy: grant_consent, revoke_consent,         *)
(* apply_suppression and clear_suppression record an event by the protocol *)
(* of EvidenceLog; evaluate answers from the fields the events set.        *)
(***************************************************************************)
EXTENDS EvidenceLog

CONSTANT OperationOf    \* OperationOf[e]: the operation event e records

Operations == {"grant_consent", "revoke_consent", "apply_suppression", "clear_suppression"}

PolicyFields == {"consented", "suppressed"}
PolicyDefault == [f \in PolicyFields |-> FALSE]

\* The arguments consented and suppressed the four operations give _apply.
PolicySets ==
  [e \in Events |->
     CASE OperationOf[e] = "grant_consent" -> [f \in {"consented"} |-> TRUE]
       [] OperationOf[e] = "revoke_consent" -> [f \in {"consented"} |-> FALSE]
       [] OperationOf[e] = "apply_suppression" -> [f \in {"suppressed"} |-> TRUE]
       [] OperationOf[e] = "clear_suppression" -> [f \in {"suppressed"} |-> FALSE]]

ASSUME PolicyAssumption ==
  /\ OperationOf \in [Events -> Operations]
  /\ Fields = PolicyFields
  /\ Values = BOOLEAN
  /\ Default = PolicyDefault
  /\ Sets = PolicySets
  /\ Evaluates

\* What evaluate() says of a recipient: no document, no consent.
MayReceive(k) == record[k].state["consented"] /\ ~record[k].state["suppressed"]

(***************************************************************************)
(* A recipient who may not receive messages becomes one who may only by    *)
(* the evidence of a grant or a clearance that was never on record before: *)
(* a retried or duplicated grant cannot undo a revocation made since.      *)
(***************************************************************************)
NoResurrection ==
  [][\A k \in Keys :
       ~MayReceive(k) /\ MayReceive(k)' =>
         \E e \in Events :
           /\ OperationOf[e] \in {"grant_consent", "clear_suppression"}
           /\ ~Known(e, record[k].events)
           /\ record'[k].events = Append(record[k].events, e)]_logVars
=============================================================================
