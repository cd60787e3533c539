----------------------------- MODULE MetaCloud -----------------------------
(***************************************************************************)
(* MetaCloudProvider and RequestsHttpTransport: what the adapter makes of  *)
(* every way one POST to Meta may end.  The transport makes one attempt,   *)
(* follows no redirect and reads at most max_response_bytes.               *)
(***************************************************************************)

(***************************************************************************)
(* How a POST ends.  Status codes by what the adapter tells apart; "other" *)
(* is 1xx and 3xx.  Bodies: "id" is a document with messages[0].id, "code" *)
(* one with an integer error.code, "other" any other or no JSON document,  *)
(* "large" one beyond the limit, "deep" one that makes the adapter raise,  *)
(* as JSON nested too deep for json.loads.  Timeouts and broken connections*)
(* are transport failures, at any moment up to the end of the body.        *)
(***************************************************************************)
Statuses == {"2xx", "400", "401", "403", "429", "4xx", "5xx", "other"}
Bodies == {"id", "code", "other", "large", "deep"}

Responses == [status : Statuses, body : Bodies]
Failures == [status : {"timeout", "network"}, body : {"other"}]
Outcomes == Responses \cup Failures

\* SendResult: its disposition and what its error says.
SendResult == [disposition : {"accepted", "rejected", "unknown"},
               category : {"none", "validation", "authentication", "authorization", "rate_limit",
                           "provider_temporary", "provider_permanent", "network", "timeout",
                           "protocol", "unsupported", "unknown"},
               retriable : BOOLEAN]

Accepted == [disposition |-> "accepted", category |-> "none", retriable |-> FALSE]
Unknown(category) == [disposition |-> "unknown", category |-> category, retriable |-> FALSE]
Rejected(category, retriable) ==
  [disposition |-> "rejected", category |-> category, retriable |-> retriable]

\* send: a payload of None is not posted.
Unsupported == Rejected("unsupported", FALSE)

\* The service's answer to any exception of an adapter
Raises == Unknown("unknown")

\* _transport_failure_result
FailureResult(o) == Unknown(o.status)

\* Mutant: a success that names no message is a rejection.
SuccessOrRejected(o) == IF o.body = "id" THEN Accepted ELSE Rejected("protocol", FALSE)

\* _success_result
SuccessResult(o) ==
  IF o.body = "deep" THEN Raises ELSE IF o.body = "id" THEN Accepted ELSE Unknown("protocol")

\* _classify_rejection
Category(status) ==
  CASE status = "400" -> "validation"
    [] status = "401" -> "authentication"
    [] status = "403" -> "authorization"
    [] status = "429" -> "rate_limit"
    [] status = "5xx" -> "provider_temporary"
    [] status = "4xx" -> "provider_permanent"
    [] OTHER -> "protocol"

Retriable(status) == status \in {"429", "5xx"}

\* Mutant: any server error is taken for Meta's own answer.
RejectionUnverified(o) == Rejected(Category(o.status), Retriable(o.status))

\* _rejection_result: a server error without Meta's code may come from in between.
RejectionResult(o) ==
  IF o.body = "deep" THEN Raises
  ELSE IF o.status = "5xx" /\ o.body # "code" THEN Unknown("protocol")
  ELSE Rejected(Category(o.status), Retriable(o.status))

\* send, once the payload is posted
Classify(o) ==
  IF o \in Failures THEN FailureResult(o)
  ELSE IF o.status = "2xx" THEN SuccessResult(o) ELSE RejectionResult(o)

-----------------------------------------------------------------------------
(***************************************************************************)
(* What Meta is relied on for: it answers a message it took with a success *)
(* and one it refused with an error, and only it writes error codes; a     *)
(* server error without one, or no answer, may hide either, also while the *)
(* POST is still on its way.  A redirect or an informational status means  *)
(* that nobody took the message.                                           *)
(***************************************************************************)
Hides(o) == o \in Failures \/ (o.status = "5xx" /\ o.body # "code")

MayEnd(fate) ==
  {o \in Outcomes : \/ Hides(o)
                    \/ fate = "taken" /\ o.status = "2xx"
                    \/ fate = "refused" /\ o.status # "2xx"}
=============================================================================
