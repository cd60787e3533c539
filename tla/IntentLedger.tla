---------------------------- MODULE IntentLedger ----------------------------
(***************************************************************************)
(* What the IntentRepository port promises, seen from outside: for each    *)
(* idempotency scope one intent, a lifecycle that only moves forward, and  *)
(* at most one message handed to a provider.  Every step is atomic, as it  *)
(* is in InMemoryIntentRepository, where each operation runs under one     *)
(* lock.  The Mongo repository needs several commands for each operation;  *)
(* MessagingService is shown to implement this specification.              *)
(***************************************************************************)
CONSTANTS Scopes,      \* pairs (source_flow, idempotency_key)
          Requests,    \* what is asked to be sent
          ScopeOf,     \* ScopeOf[r]: the scope the caller files request r under
          NoRequest    \* owner of a scope that has no intent yet

VARIABLES state,       \* state[s]: IntentState of the scope, or "absent"
          owner,       \* owner[s]: the request the scope was created for
          sent         \* sent[s]: the message has been handed to the provider

vars == <<state, owner, sent>>

Terminal == {"accepted", "rejected", "unknown"}
States == {"absent", "pending", "dispatching"} \cup Terminal

TypeOK ==
  /\ state \in [Scopes -> States]
  /\ owner \in [Scopes -> Requests \cup {NoRequest}]
  /\ sent \in [Scopes -> BOOLEAN]

Init ==
  /\ state = [s \in Scopes |-> "absent"]
  /\ owner = [s \in Scopes |-> NoRequest]
  /\ sent = [s \in Scopes |-> FALSE]

Move(s, from, to) ==
  /\ state[s] = from
  /\ state' = [state EXCEPT ![s] = to]

\* create_if_absent: the first request owns the scope for good.
Create(r) ==
  /\ Move(ScopeOf[r], "absent", "pending")
  /\ owner' = [owner EXCEPT ![ScopeOf[r]] = r]
  /\ UNCHANGED sent

\* complete(expected_state = PENDING): the policy said no.
RejectLocally(s) ==
  /\ Move(s, "pending", "rejected")
  /\ UNCHANGED <<owner, sent>>

\* claim
Claim(s) ==
  /\ Move(s, "pending", "dispatching")
  /\ UNCHANGED <<owner, sent>>

(***************************************************************************)
(* The claimant hands the message over, once.  Recovery may already have   *)
(* settled the intent as unknown while the claimant was on its way.        *)
(***************************************************************************)
Send(s) ==
  /\ state[s] \in {"dispatching", "unknown"}
  /\ ~sent[s]
  /\ sent' = [sent EXCEPT ![s] = TRUE]
  /\ UNCHANGED <<state, owner>>

\* complete(expected_state = DISPATCHING): only a message sent is accepted.
Settle(s, to) ==
  /\ to \in Terminal
  /\ to = "accepted" => sent[s]
  /\ Move(s, "dispatching", to)
  /\ UNCHANGED <<owner, sent>>

Next ==
  \/ \E r \in Requests : Create(r)
  \/ \E s \in Scopes :
       \/ RejectLocally(s)
       \/ Claim(s)
       \/ Send(s)
       \/ \E to \in Terminal : Settle(s, to)

Spec == Init /\ [][Next]_vars
=============================================================================
