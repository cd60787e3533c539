---------------------------- MODULE MongoIntents ----------------------------
(***************************************************************************)
(* The Mongo intent collection and the commands MongoIntentRepository      *)
(* issues against it.  A command is atomic on one document; an operation   *)
(* of the repository is several commands, so other processes run between   *)
(* them.  A command may fail before it is applied, and a write may be      *)
(* applied and its reply lost: the driver raises PyMongoError either way.  *)
(*                                                                         *)
(* The module also holds recover_stale_dispatching, which an operator's    *)
(* job runs beside the services.                                           *)
(***************************************************************************)
EXTENDS Integers, Sequences, FiniteSets

CONSTANTS
  Ids,            \* intent ids the factory may generate
  Scopes,         \* pairs (source_flow, idempotency_key)
  Requests,       \* requests, identified by their request_fingerprint
  ScopeOf,        \* ScopeOf[r]: the scope request r is filed under
  NoRequest,      \* the request of a document that is not stored
  UniqueScope,    \* TRUE iff ensure_indexes() created the scope index
  Faults,         \* which failures happen
  Recoverers,     \* recovery jobs
  RecoveryLimit,  \* limit of one recovery batch
  MinAge,         \* a batch takes intents dispatched at least MinAge ticks ago
  MaxTime         \* bound of the clock

AllFaults == {"fails", "lost", "policy", "crash"}

ASSUME MongoAssumption ==
  /\ ScopeOf \in [Requests -> Scopes]
  /\ NoRequest \notin Requests
  /\ UniqueScope \in BOOLEAN
  /\ Faults \subseteq AllFaults
  /\ RecoveryLimit \in Nat \ {0}
  /\ MinAge \in Nat
  /\ MaxTime \in Nat

VARIABLES
  docs,      \* docs[i]: the document with intent_id i
  now,       \* the epoch every clock() reads
  recovery   \* recovery[j]: the batch job j is working through

-----------------------------------------------------------------------------
(* Documents.                                                              *)

Terminal == {"accepted", "rejected", "unknown"}
States == {"absent", "pending", "dispatching"} \cup Terminal

\* DispatchResults by what tells them apart; each has one disposition.
NoResult == "none"
Results == Terminal \cup
           {"policy_rejected", "provider_not_registered", "stale_dispatch_recovered"}

\* Mutant: a recovered intent is recorded as rejected.
RecoveredAsRejected(result) ==
  IF result = "stale_dispatch_recovered" THEN "rejected"
  ELSE IF result \in Terminal THEN result ELSE "rejected"

\* terminal_state of complete(): the state that matches the disposition.
StateOf(result) ==
  IF result \in {"policy_rejected", "provider_not_registered"} THEN "rejected"
  ELSE IF result = "stale_dispatch_recovered" THEN "unknown"
  ELSE result

Doc == [request : Requests \cup {NoRequest},
        state : States,
        result : Results \cup {NoResult},
        attempt_count : Nat,
        attempts : Seq(Results \cup {NoResult}),   \* NoResult: not completed
        started : Nat]                             \* dispatch_started_at_epoch

Absent == [request |-> NoRequest, state |-> "absent", result |-> NoResult,
           attempt_count |-> 0, attempts |-> <<>>, started |-> 0]

\* _intent_to_document
NewDoc(r) == [Absent EXCEPT !.request = r, !.state = "pending"]

Stored(i) == docs[i].state # "absent"

\* The documents find_one({source_flow, idempotency_key}) may return.
FindScope(s) == {i \in Ids : Stored(i) /\ ScopeOf[docs[i].request] = s}

-----------------------------------------------------------------------------
(* Write commands.  Each is the effect of the command when its filter      *)
(* matches; the filter is a predicate of its own because the command       *)
(* answers None when it does not match.                                    *)

\* Mutant: the unique index is on the fingerprint.
UpsertsByFingerprint(r) == UniqueScope => ~\E i \in Ids : docs[i].request = r

(***************************************************************************)
(* The insert of update_one(scope, $setOnInsert, upsert = True).  The      *)
(* caller has seen no document under the scope; with the unique index a    *)
(* document stored since makes the upsert match or raise DuplicateKeyError,*)
(* without it the insert goes through.                                     *)
(***************************************************************************)
UpsertInserts(r) == UniqueScope => FindScope(ScopeOf[r]) = {}

Insert(i, r) == docs' = [docs EXCEPT ![i] = NewDoc(r)]

\* Mutants: the filter of claim() names the intent, or the attempt, only.
ClaimMatchesAny(i, count) == Stored(i)
ClaimMatchesCount(i, count) == Stored(i) /\ docs[i].attempt_count = count

\* find_one_and_update of claim()
ClaimMatches(i, count) ==
  docs[i].state = "pending" /\ docs[i].attempt_count = count

\* Mutant: a claim is not counted.
ClaimedUncounted(d, t) ==
  [d EXCEPT !.state = "dispatching", !.started = t, !.attempts = Append(@, NoResult)]

\* Mutant: the claim is dated by the end of its lease.
ClaimedLease(d, t) ==
  [d EXCEPT !.state = "dispatching", !.started = t + 1,
            !.attempt_count = @ + 1, !.attempts = Append(@, NoResult)]

ClaimedDoc(d, t) ==
  [d EXCEPT !.state = "dispatching", !.started = t,
            !.attempt_count = @ + 1, !.attempts = Append(@, NoResult)]

ClaimUpdate(i, t) == docs' = [docs EXCEPT ![i] = ClaimedDoc(@, t)]

\* Mutant: complete() does not compare the state.
CompleteMatchesAny(i, expected, count) ==
  Stored(i) /\ (expected = "dispatching" => docs[i].attempt_count = count)

\* find_one_and_update of complete(), for either expected state
CompleteMatches(i, expected, count) ==
  /\ docs[i].state = expected
  /\ expected = "dispatching" =>
       /\ docs[i].attempt_count = count
       /\ docs[i].attempts[count] = NoResult

\* Mutant: intents the policy rejects are not kept.
RejectedDropped(d, expected, count, result) ==
  IF result = "policy_rejected" THEN Absent
  ELSE [d EXCEPT !.state = StateOf(result), !.result = result]

CompletedDoc(d, expected, count, result) ==
  [d EXCEPT !.state = StateOf(result), !.result = result,
            !.attempts = IF expected = "dispatching" THEN [@ EXCEPT ![count] = result] ELSE @]

CompleteUpdate(i, expected, count, result) ==
  docs' = [docs EXCEPT ![i] = CompletedDoc(@, expected, count, result)]

\* A command that raises: before it took effect, or after.
CommandFails == "fails" \in Faults
ReplyLost == "lost" \in Faults

-----------------------------------------------------------------------------
(* recover_stale_dispatching: one query, then complete() per candidate.    *)

\* count is the attempt_count complete() read of the candidate at the head.
Idle == [pc |-> "idle", batch |-> <<>>, count |-> 0]

\* Mutants: the query includes the cutoff, or forgets the state.
StaleAtCutoff(cutoff) == {i \in Ids : docs[i].state = "dispatching" /\ docs[i].started <= cutoff}
StaleAnyState(cutoff) == {i \in Ids : Stored(i) /\ docs[i].started < cutoff}

Stale(cutoff) == {i \in Ids : docs[i].state = "dispatching" /\ docs[i].started < cutoff}

\* Batches the sorted and limited query may answer, equal starts in any order.
Batches(cutoff) ==
  {b \in UNION {[1..n -> Stale(cutoff)] : n \in 0..RecoveryLimit} :
     /\ \A m, n \in DOMAIN b : m < n => b[m] # b[n] /\ docs[b[m]].started <= docs[b[n]].started
     /\ Len(b) = RecoveryLimit \/ Stale(cutoff) = {b[n] : n \in DOMAIN b}
     /\ \A n \in DOMAIN b : \A k \in Stale(cutoff) \ {b[m] : m \in DOMAIN b} :
          docs[b[n]].started <= docs[k].started}

IntentsInit ==
  /\ docs = [i \in Ids |-> Absent]
  /\ now = 0
  /\ recovery = [j \in Recoverers |-> Idle]

\* The candidate complete() is called for.
Candidate(j) == Head(recovery[j].batch)

JobBecomes(j, m) == recovery' = [recovery EXCEPT ![j] = m]

NextCandidate(j) ==
  JobBecomes(j, IF Len(recovery[j].batch) = 1 THEN Idle
                ELSE [pc |-> "find", batch |-> Tail(recovery[j].batch), count |-> 0])

\* find_candidates(); a query that raises or finds nothing changes nothing.
RecoverySelect(j, cutoff) ==
  /\ recovery[j].pc = "idle"
  /\ \E b \in Batches(cutoff) \ {<<>>} :
       JobBecomes(j, [pc |-> "find", batch |-> b, count |-> 0])
  /\ UNCHANGED <<docs, now>>

\* complete(): find_one({intent_id, state: dispatching})
RecoveryFind(j) ==
  /\ recovery[j].pc = "find"
  /\ \/ /\ docs[Candidate(j)].state # "dispatching"
        /\ NextCandidate(j)
     \/ /\ docs[Candidate(j)].state = "dispatching"
        /\ JobBecomes(j, [recovery[j] EXCEPT !.pc = "update",
                                             !.count = docs[Candidate(j)].attempt_count])
  /\ UNCHANGED <<docs, now>>

\* complete(): the conditional update
RecoveryUpdate(j) ==
  /\ recovery[j].pc = "update"
  /\ LET i == Candidate(j)
         count == recovery[j].count
     IN \/ /\ CompleteMatches(i, "dispatching", count)
           /\ CompleteUpdate(i, "dispatching", count, "stale_dispatch_recovered")
           /\ \/ NextCandidate(j)
              \/ ReplyLost /\ JobBecomes(j, Idle)
        \/ /\ ~CompleteMatches(i, "dispatching", count)
           /\ NextCandidate(j)
           /\ UNCHANGED docs
  /\ UNCHANGED now

(***************************************************************************)
(* A command that raises ends the batch: the candidates behind it are left *)
(* for a later batch.  So does the end of the job's process.               *)
(***************************************************************************)
RecoveryAborts(j) ==
  /\ Faults \cap {"fails", "crash"} # {}
  /\ recovery[j].pc # "idle"
  /\ JobBecomes(j, Idle)
  /\ UNCHANGED <<docs, now>>

-----------------------------------------------------------------------------
IntentsTypeOK ==
  /\ docs \in [Ids -> Doc]
  /\ now \in 0..MaxTime
  /\ recovery \in [Recoverers -> [pc : {"idle", "find", "update"},
                                   batch : Seq(Ids), count : Nat]]

(***************************************************************************)
(* One intent per idempotency scope, whatever the callers interleave: the  *)
(* promise of create_if_absent().                                          *)
(***************************************************************************)
ScopeUnique ==
  \A i, k \in Ids :
    Stored(i) /\ Stored(k) /\ ScopeOf[docs[i].request] = ScopeOf[docs[k].request] => i = k

(***************************************************************************)
(* The attempt history of a document tells the same story as its state: no *)
(* attempt before the claim, one open attempt while dispatching, and once  *)
(* completed the attempt carries the document's result.  complete() and    *)
(* _intent_from_document() raise MongoRecordError on a document for which  *)
(* this fails.                                                             *)
(***************************************************************************)
AttemptsCoherent ==
  \A i \in Ids : LET d == docs[i] IN
    /\ d.attempt_count = Len(d.attempts)
    /\ d.state \in {"absent", "pending"} => d.result = NoResult /\ d.attempts = <<>>
    /\ d.state = "dispatching" => d.result = NoResult /\ d.attempts = <<NoResult>>
    /\ d.state \in Terminal =>
         /\ d.state = StateOf(d.result)
         /\ d.attempts = IF d.result = "policy_rejected" THEN <<>> ELSE <<d.result>>

(***************************************************************************)
(* Once an intent is completed no later command touches it: no late        *)
(* answer, recovery batch or second claim rewrites a recorded outcome, and *)
(* the scope stays with the request it was created for.                    *)
(***************************************************************************)
IntentStep(i) ==
  /\ Stored(i) => docs'[i].request = docs[i].request
  /\ docs[i].state = "pending" => docs'[i].state # "absent"
  /\ docs[i].state = "dispatching" => docs'[i].state \notin {"absent", "pending"}
  /\ docs[i].state \in Terminal => docs'[i] = docs[i]

OutcomesAreFinal == [][\A i \in Ids : IntentStep(i)]_docs
=============================================================================
