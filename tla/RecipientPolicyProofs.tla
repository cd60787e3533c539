------------------------ MODULE RecipientPolicyProofs ------------------------
(***************************************************************************)
(* What EvidenceLog's protocol means for consent, for any recipients,      *)
(* events and writers.                                                     *)
(***************************************************************************)
EXTENDS RecipientPolicy, EvidenceLogProofs

(* The two operations that take messages away from a recipient do so,      *)
(* whatever the flags were.                                                *)
LEMMA RevocationsTake ==
  ASSUME NEW state \in [Fields -> Values], NEW e \in Events,
         OperationOf[e] \in {"revoke_consent", "apply_suppression"}
  PROVE  ~(Assign(state, e)["consented"] /\ ~Assign(state, e)["suppressed"])
<1>1. Fields = {"consented", "suppressed"} /\ Sets = PolicySets
  BY PolicyAssumption DEF PolicyFields
<1>2. CASE OperationOf[e] = "revoke_consent"
  <2>1. Sets[e] = [f \in {"consented"} |-> FALSE]
    BY <1>1, <1>2 DEF PolicySets
  <2>2. Assign(state, e)["consented"] = FALSE
    BY <1>1, <2>1 DEF Assign
  <2> QED
    BY <2>2
<1>3. CASE OperationOf[e] = "apply_suppression"
  <2>1. Sets[e] = [f \in {"suppressed"} |-> TRUE]
    BY <1>1, <1>3 DEF PolicySets
  <2>2. Assign(state, e)["suppressed"] = TRUE
    BY <1>1, <2>1 DEF Assign
  <2> QED
    BY <2>2
<1> QED
  BY <1>2, <1>3

(* A recipient gets messages again only by a grant or a clearance that was *)
(* not on record: retries and duplicates of old ones, in whatever order    *)
(* they arrive, do not undo a revocation or a suppression.                 *)
THEOREM RevocationsLast == LogSpec => NoResurrection
<1>1. ASSUME LogTypeOK, LogNext, NEW k \in Keys, ~MayReceive(k), MayReceive(k)'
      PROVE  \E e \in Events :
               /\ OperationOf[e] \in {"grant_consent", "clear_suppression"}
               /\ ~Known(e, record[k].events)
               /\ record'[k].events = Append(record[k].events, e)
  <2>1. PICK w \in Writers : WriterStep(w)
    BY <1>1 DEF LogNext
  <2>2. record'[k].state # record[k].state
    BY <1>1 DEF MayReceive
  <2>3. /\ Event(w) \in Events /\ ~Known(Event(w), record[k].events)
        /\ record'[k].state = Assign(record[k].state, Event(w))
        /\ record'[k].events = Append(record[k].events, Event(w))
    BY <1>1, <2>1, <2>2, RecordEffect
  <2>4. record[k].state \in [Fields -> Values]
    BY <1>1 DEF LogTypeOK, Record
  <2>5. OperationOf[Event(w)] \notin {"revoke_consent", "apply_suppression"}
    BY <1>1, <2>3, <2>4, RevocationsTake DEF MayReceive
  <2>6. OperationOf[Event(w)] \in Operations
    BY <2>3, PolicyAssumption
  <2> QED
    BY <2>3, <2>5, <2>6 DEF Operations
<1>2. LogTypeOK /\ [LogNext]_logVars =>
        [\A k \in Keys :
           ~MayReceive(k) /\ MayReceive(k)' =>
             \E e \in Events :
               /\ OperationOf[e] \in {"grant_consent", "clear_suppression"}
               /\ ~Known(e, record[k].events)
               /\ record'[k].events = Append(record[k].events, e)]_logVars
  BY <1>1
<1> QED
  BY <1>2, LogTypeCorrect, PTL DEF LogSpec, NoResurrection
=============================================================================
