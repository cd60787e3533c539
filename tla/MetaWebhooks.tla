---------------------------- MODULE MetaWebhooks ----------------------------
(***************************************************************************)
(* The webhook functions: the check of a body's signature, and the parsing *)
(* of a payload into delivery events, all of them or none.                 *)
(***************************************************************************)
EXTENDS Naturals, Sequences

(***************************************************************************)
(* A payload has changes, in their order over all entries; it is sound iff *)
(* it is JSON of the expected object and what holds the statuses has its   *)
(* types.  A change is about a field; one about messages may carry         *)
(* statuses.  A status is sound iff each of its members, those left out    *)
(* apart, has its type.                                                    *)
(***************************************************************************)
KnownStatuses == {"sent", "delivered", "read", "failed", "deleted"}

\* DeliveryStatusEvent: the message and its status
Event(s) == [id |-> s.id, status |-> IF s.status \in KnownStatuses THEN s.status ELSE "unknown"]

Malformed == [parsed |-> FALSE, events |-> <<>>]

\* _parse_document goes past other fields, and past changes without statuses.
Relevant(change) == change.field = "messages" /\ change.statuses # <<>>

StatusesOf(change) == IF Relevant(change) THEN change.statuses ELSE <<>>

\* The statuses of the first n changes, in order
Collected(changes) ==
  LET upTo[n \in 0..Len(changes)] ==
        IF n = 0 THEN <<>> ELSE upTo[n - 1] \o StatusesOf(changes[n])
  IN upTo[Len(changes)]

\* parse_meta_delivery_status_events
Parse(payload) ==
  LET statuses == Collected(payload.changes) IN
  IF ~payload.sound \/ \E n \in DOMAIN statuses : ~statuses[n].sound
  THEN Malformed
  ELSE [parsed |-> TRUE, events |-> [n \in DOMAIN statuses |-> Event(statuses[n])]]

\* Mutant: a missing signature is as good as a right one.
VerifiedWithout(header) == header \in {"right", "none"}

\* verify_meta_webhook_signature: no header, or another digest, is an answer of False.
Verified(header) == header = "right"
=============================================================================
