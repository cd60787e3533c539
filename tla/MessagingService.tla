-------------------------- MODULE MessagingService --------------------------
(***************************************************************************)
(* MessagingService.send_template and send_text: concurrent calls, from    *)
(* any number of processes, that share the Mongo intent collection, the    *)
(* policies and a provider.  One action is one command to Mongo, one       *)
(* policy lookup or the provider call, with the Python code that runs      *)
(* after it and before the next one.                                       *)
(***************************************************************************)
EXTENDS MongoIntents

CONSTANTS
  Callers,        \* threads or processes that call the service
  NoId,           \* the intent id of a call that has none yet
  Recipients,     \* normalized phone numbers
  RecipientOf,    \* RecipientOf[r]: whom request r is addressed to
  Text,           \* requests made by send_text: they need an open session
  Sensitive,      \* requests with a SensitiveTextParameter
  HasKey,         \* TRUE iff sensitive_fingerprint_key is configured
  Unregistered,   \* requests whose provider_key is not in the registry
  PolicyMoves,    \* recipients whose eligibility changes while calls run
  SessionMoves,   \* text requests whose session opens and closes
  CallBound       \* clock ticks from a call's claim to its end, at most

ASSUME ServiceAssumption ==
  /\ NoId \notin Ids
  /\ RecipientOf \in [Requests -> Recipients]
  /\ Text \subseteq Requests
  /\ Sensitive \subseteq Requests \ Text
  /\ HasKey \in BOOLEAN
  /\ Unregistered \subseteq Requests
  /\ PolicyMoves \subseteq Recipients
  /\ SessionMoves \subseteq Text
  /\ CallBound \in Nat

VARIABLES
  call,        \* call[c]: the call c is in, or the reply of its last one
  eligible,    \* recipients consented and not suppressed
  sessions,    \* text requests whose recipient has an open session
  sends,       \* sends[i]: times intent i was handed to the provider (2: or more)
  delivered    \* intents the provider has taken for delivery

mongo == <<docs, now, recovery>>
policy == <<eligible, sessions>>
provider == <<sends, delivered>>
vars == <<docs, now, recovery, call, eligible, sessions, sends, delivered>>

-----------------------------------------------------------------------------
(* Calls.                                                                  *)

Claimed == {"send", "completeFind", "completeUpdate"}
Steps == {"get", "upsert", "readback", "policy", "session", "rejectFind", "rejectUpdate",
          "claimFind", "claimUpdate", "resolve"} \cup Claimed

Errors == {"IdempotencyConflictError", "IntentInProgressError", "IntentStateError",
           "ServiceDependencyError", "PostDispatchPersistenceError", "crashed"}

Reply == [kind : {"none", "result"} \cup Errors,
          result : Results \cup {NoResult}, replay : BOOLEAN]

NoReply == [kind |-> "none", result |-> NoResult, replay |-> FALSE]

(***************************************************************************)
(* created, id, started and count are local variables of the call; invoked *)
(* is provider_invoked.  contacted, wasEligible and hadSession are not in  *)
(* the code: they record whether the provider was reached and whether the  *)
(* policies allowed the send at some moment since the call began.          *)
(***************************************************************************)
Call == [pc : {"idle"} \cup Steps, request : Requests \cup {NoRequest},
         id : Ids \cup {NoId}, created : BOOLEAN, started : Nat, count : Nat,
         result : Results \cup {NoResult}, invoked : BOOLEAN, reply : Reply,
         contacted : BOOLEAN, wasEligible : BOOLEAN, hadSession : BOOLEAN]

NoCall == [pc |-> "idle", request |-> NoRequest, id |-> NoId, created |-> FALSE,
           started |-> 0, count |-> 0, result |-> NoResult, invoked |-> FALSE,
           reply |-> NoReply, contacted |-> FALSE, wasEligible |-> FALSE,
           hadSession |-> FALSE]

At(c, pc) == call[c].pc = pc
Becomes(c, m) == call' = [call EXCEPT ![c] = m]
Goto(c, pc) == Becomes(c, [call[c] EXCEPT !.pc = pc])

\* The call ends; what is left of it is what its caller knows.
Finish(c, reply) ==
  Becomes(c, [NoCall EXCEPT !.request = call[c].request, !.reply = reply,
                            !.contacted = call[c].contacted])
Raise(c, error) == Finish(c, [NoReply EXCEPT !.kind = error])
Return(c, result) == Finish(c, [kind |-> "result", result |-> result, replay |-> FALSE])

\* Mutant: idempotent_replay is never set.
ReplayUnmarked(c, result) == Return(c, result)

Replay(c, result) == Finish(c, [kind |-> "result", result |-> result, replay |-> TRUE])

Eligible(r) == RecipientOf[r] \in eligible
Scope(c) == ScopeOf[call[c].request]

ServiceInit ==
  /\ call = [c \in Callers |-> NoCall]
  /\ eligible \in SUBSET Recipients
  /\ sessions \in SUBSET Text
  /\ sends = [i \in Ids |-> 0]
  /\ delivered = {}

-----------------------------------------------------------------------------
(* The call up to its claim.                                               *)

\* send_template / send_text up to _send's first lookup.
Start(c, r) ==
  /\ At(c, "idle")
  /\ \/ /\ r \in Sensitive /\ ~HasKey
        /\ Becomes(c, [NoCall EXCEPT !.request = r,
                        !.reply = [NoReply EXCEPT !.kind = "ServiceDependencyError"]])
     \/ /\ r \in Sensitive => HasKey
        /\ Becomes(c, [NoCall EXCEPT !.pc = "get", !.request = r,
                        !.wasEligible = Eligible(r), !.hadSession = r \in sessions])
  /\ UNCHANGED <<mongo, policy, provider>>

\* Mutant: only an intent that is still open is compared.
ConflictsWhileOpen(c, i) == docs[i].state \notin Terminal /\ docs[i].request # call[c].request

\* The intent was created for another request.
Conflicts(c, i) == docs[i].request # call[c].request

\* Mutant: sensitive parameters can be read back.
AnyoneHoldsRequest(c) == TRUE

(***************************************************************************)
(* A pending request is at hand: deserialize_request reads it from the     *)
(* snapshot, but refuses the redacted marker of a sensitive one, which     *)
(* only the call that created the intent still has.                        *)
(***************************************************************************)
HoldsRequest(c) == call[c].request \in Sensitive => call[c].created

\* _continue_intent up to the policies, for the document just read.
ContinueIntent(c, i) ==
  LET d == docs[i] IN
  \/ Conflicts(c, i) /\ Raise(c, "IdempotencyConflictError")
  \/ /\ ~Conflicts(c, i)
     /\ \/ d.state \in Terminal /\ Replay(c, d.result)
        \/ d.state = "dispatching" /\ Raise(c, "IntentInProgressError")
        \/ d.state = "pending" /\ ~HoldsRequest(c) /\ Raise(c, "ServiceDependencyError")
        \/ /\ d.state = "pending" /\ HoldsRequest(c)
           /\ Becomes(c, [call[c] EXCEPT !.pc = "policy", !.id = i])

\* An id no document and no other call has.
Fresh(i) == ~Stored(i) /\ \A c \in Callers : call[c].id # i

GetIntent(c) ==
  /\ At(c, "get")
  /\ \/ CommandFails /\ Raise(c, "ServiceDependencyError")
     \/ \E i \in FindScope(Scope(c)) : ContinueIntent(c, i)
     \/ /\ FindScope(Scope(c)) = {}
        /\ \E i \in Ids : /\ Fresh(i)
                          /\ Becomes(c, [call[c] EXCEPT !.pc = "upsert", !.id = i])
  /\ UNCHANGED <<mongo, policy, provider>>

\* create_if_absent: the upsert.  A match and a DuplicateKeyError both lead to a read.
UpsertIntent(c) ==
  /\ At(c, "upsert")
  /\ \/ /\ UpsertInserts(call[c].request)
        /\ Insert(call[c].id, call[c].request)
        /\ \/ Becomes(c, [call[c] EXCEPT !.pc = "readback", !.created = TRUE])
           \/ ReplyLost /\ Raise(c, "ServiceDependencyError")
     \/ /\ UNCHANGED docs
        /\ \/ FindScope(Scope(c)) # {} /\ Goto(c, "readback")
           \/ CommandFails /\ Raise(c, "ServiceDependencyError")
  /\ UNCHANGED <<now, recovery, policy, provider>>

\* create_if_absent: find_one(scope).  The document may have moved on since the upsert.
ReadBack(c) ==
  /\ At(c, "readback")
  /\ \/ CommandFails /\ Raise(c, "ServiceDependencyError")
     \/ \E i \in FindScope(Scope(c)) : ContinueIntent(c, i)
  /\ UNCHANGED <<mongo, policy, provider>>

PolicyRaises(c) == "policy" \in Faults /\ Raise(c, "ServiceDependencyError")

\* Mutant: texts are not checked for a session.
EvaluateNoSession(c) ==
  /\ At(c, "policy")
  /\ \/ PolicyRaises(c)
     \/ Goto(c, IF Eligible(call[c].request) THEN "claimFind" ELSE "rejectFind")
  /\ UNCHANGED <<mongo, policy, provider>>

EvaluateRecipient(c) ==
  /\ At(c, "policy")
  /\ LET r == call[c].request IN
       \/ PolicyRaises(c)
       \/ ~Eligible(r) /\ Goto(c, "rejectFind")
       \/ Eligible(r) /\ Goto(c, IF r \in Text THEN "session" ELSE "claimFind")
  /\ UNCHANGED <<mongo, policy, provider>>

EvaluateSession(c) ==
  /\ At(c, "session")
  /\ \/ PolicyRaises(c)
     \/ Goto(c, IF call[c].request \in sessions THEN "claimFind" ELSE "rejectFind")
  /\ UNCHANGED <<mongo, policy, provider>>

\* _complete_local_rejection: complete(expected_state = PENDING)
RejectFind(c) ==
  /\ At(c, "rejectFind")
  /\ \/ CommandFails /\ Raise(c, "ServiceDependencyError")
     \/ Goto(c, IF docs[call[c].id].state = "pending" THEN "rejectUpdate" ELSE "resolve")
  /\ UNCHANGED <<mongo, policy, provider>>

RejectUpdate(c) ==
  /\ At(c, "rejectUpdate")
  /\ LET i == call[c].id IN
       \/ /\ CompleteMatches(i, "pending", 0)
          /\ CompleteUpdate(i, "pending", 0, "policy_rejected")
          /\ \/ Return(c, "policy_rejected")
             \/ ReplyLost /\ Raise(c, "ServiceDependencyError")
       \/ /\ UNCHANGED docs
          /\ \/ ~CompleteMatches(i, "pending", 0) /\ Goto(c, "resolve")
             \/ CommandFails /\ Raise(c, "ServiceDependencyError")
  /\ UNCHANGED <<now, recovery, policy, provider>>

\* claim: the clock is read here, before the update that stores it.
ClaimFind(c) ==
  /\ At(c, "claimFind")
  /\ LET d == docs[call[c].id] IN
       \/ CommandFails /\ Raise(c, "ServiceDependencyError")
       \/ d.state # "pending" /\ Goto(c, "resolve")
       \/ /\ d.state = "pending"
          /\ Becomes(c, [call[c] EXCEPT !.pc = "claimUpdate", !.started = now,
                                               !.count = d.attempt_count])
  /\ UNCHANGED <<mongo, policy, provider>>

Claim(c) ==
  /\ At(c, "claimUpdate")
  /\ LET i == call[c].id IN
       \/ /\ ClaimMatches(i, call[c].count)
          /\ ClaimUpdate(i, call[c].started)
          /\ Goto(c, "send") \/ (ReplyLost /\ Raise(c, "ServiceDependencyError"))
       \/ /\ UNCHANGED docs
          /\ \/ ~ClaimMatches(i, call[c].count) /\ Goto(c, "resolve")
             \/ CommandFails /\ Raise(c, "ServiceDependencyError")
  /\ UNCHANGED <<now, recovery, policy, provider>>

\* Mutant: a call that lost the race claims again.
ResolveRetries(c) ==
  /\ At(c, "resolve")
  /\ Goto(c, "claimFind")
  /\ UNCHANGED <<mongo, policy, provider>>

\* _resolve_claim_race: someone else has the intent; see how far it is.
Resolve(c) ==
  /\ At(c, "resolve")
  /\ LET r == call[c].request
         found == FindScope(Scope(c))
         finished == {i \in found : docs[i].request = r /\ docs[i].state \in Terminal}
         errors == IF found = {} THEN {"IntentStateError"}
                   ELSE {IF docs[i].request # r THEN "IdempotencyConflictError"
                         ELSE "IntentInProgressError" : i \in found \ finished}
     IN \/ CommandFails /\ Raise(c, "ServiceDependencyError")
        \/ \E i \in finished : Replay(c, docs[i].result)
        \/ \E e \in errors : Raise(c, e)
  /\ UNCHANGED <<mongo, policy, provider>>

-----------------------------------------------------------------------------
(* The claimed call.                                                       *)

(***************************************************************************)
(* gateway.send.  The provider is assumed to tell the truth when it says   *)
(* accepted or rejected; "unknown" also stands for an answer that breaks   *)
(* the gateway's contract and for any exception of the adapter, after      *)
(* which the message may or may not be on its way.                         *)
(***************************************************************************)
Dispatch(c) ==
  /\ At(c, "send")
  /\ LET i == call[c].id IN
       \/ /\ call[c].request \in Unregistered
          /\ Becomes(c, [call[c] EXCEPT !.pc = "completeFind",
                                               !.result = "provider_not_registered"])
          /\ UNCHANGED provider
       \/ /\ call[c].request \notin Unregistered
          /\ sends' = [sends EXCEPT ![i] = IF @ = 0 THEN 1 ELSE 2]
          /\ \E answer \in Terminal, taken \in BOOLEAN :
               /\ answer = "accepted" => taken
               /\ answer = "rejected" => ~taken
               /\ delivered' = IF taken THEN delivered \cup {i} ELSE delivered
               /\ Becomes(c, [call[c] EXCEPT !.pc = "completeFind", !.result = answer,
                                                    !.invoked = TRUE, !.contacted = TRUE])
  /\ UNCHANGED <<mongo, policy>>

\* Mutant: whether the provider was invoked is forgotten.
CompletionFailsAlike(c) == Raise(c, "ServiceDependencyError")

CompletionFails(c) ==
  Raise(c, IF call[c].invoked THEN "PostDispatchPersistenceError" ELSE "ServiceDependencyError")

\* Mutant: complete() goes by the attempts that claim() read.
CompleteUnread(c) ==
  /\ At(c, "completeFind")
  /\ \/ CommandFails /\ CompletionFails(c)
     \/ docs[call[c].id].state # "dispatching" /\ CompletionFails(c)
     \/ docs[call[c].id].state = "dispatching" /\ Goto(c, "completeUpdate")
  /\ UNCHANGED <<mongo, policy, provider>>

\* _complete_claimed_intent: complete(expected_state = DISPATCHING)
CompleteFind(c) ==
  /\ At(c, "completeFind")
  /\ LET d == docs[call[c].id] IN
       \/ CommandFails /\ CompletionFails(c)
       \/ d.state # "dispatching" /\ CompletionFails(c)
       \/ /\ d.state = "dispatching"
          /\ Becomes(c, [call[c] EXCEPT !.pc = "completeUpdate", !.count = d.attempt_count])
  /\ UNCHANGED <<mongo, policy, provider>>

Complete(c) ==
  /\ At(c, "completeUpdate")
  /\ LET i == call[c].id
         matches == CompleteMatches(i, "dispatching", call[c].count)
     IN \/ /\ matches
           /\ CompleteUpdate(i, "dispatching", call[c].count, call[c].result)
           /\ Return(c, call[c].result) \/ (ReplyLost /\ CompletionFails(c))
        \/ /\ ~matches \/ CommandFails
           /\ CompletionFails(c)
           /\ UNCHANGED docs
  /\ UNCHANGED <<now, recovery, policy, provider>>

\* The caller's process ends in the middle of a call.
Crash(c) ==
  /\ "crash" \in Faults
  /\ ~At(c, "idle")
  /\ Raise(c, "crashed")
  /\ UNCHANGED <<mongo, policy, provider>>

-----------------------------------------------------------------------------
(* What happens around the calls.                                          *)

Toggle(S, x) == IF x \in S THEN S \ {x} ELSE S \cup {x}

Running(c) == ~At(c, "idle")

\* A consent or suppression event of another process.
ChangeEligibility(p) ==
  /\ eligible' = Toggle(eligible, p)
  /\ call' = [c \in Callers |->
       [call[c] EXCEPT !.wasEligible =
          @ \/ (Running(c) /\ RecipientOf[call[c].request] \in eligible')]]
  /\ UNCHANGED <<mongo, sessions, provider>>

\* A session is opened, expires, or is replaced by one without the purpose.
ChangeSession(r) ==
  /\ sessions' = Toggle(sessions, r)
  /\ call' = [c \in Callers |->
       [call[c] EXCEPT !.hadSession =
          @ \/ (Running(c) /\ call[c].request \in sessions')]]
  /\ UNCHANGED <<mongo, eligible, provider>>

(***************************************************************************)
(* Time passes, but a call ends within CallBound ticks of the moment claim *)
(* read the clock.  The code has no such bound (the provider's timeout and *)
(* Mongo's are the application's); CallBound = MaxTime states none.        *)
(***************************************************************************)
Tick ==
  /\ now < MaxTime
  /\ \A c \in Callers :
       call[c].pc \in Claimed \cup {"claimUpdate"} => now - call[c].started < CallBound
  /\ now' = now + 1
  /\ UNCHANGED <<docs, recovery, call, policy, provider>>

CallStep(c) ==
  \/ GetIntent(c) \/ UpsertIntent(c) \/ ReadBack(c)
  \/ EvaluateRecipient(c) \/ EvaluateSession(c)
  \/ RejectFind(c) \/ RejectUpdate(c)
  \/ ClaimFind(c) \/ Claim(c) \/ Resolve(c)
  \/ Dispatch(c) \/ CompleteFind(c) \/ Complete(c)

RecoveryStep(j) ==
  /\ \/ \E cutoff \in 0..(now + 1 - MinAge) : RecoverySelect(j, cutoff)
     \/ RecoveryFind(j) \/ RecoveryUpdate(j) \/ RecoveryAborts(j)
  /\ UNCHANGED <<call, policy, provider>>

Init == IntentsInit /\ ServiceInit

Next ==
  \/ \E c \in Callers :
       (\E r \in Requests : Start(c, r)) \/ CallStep(c) \/ Crash(c)
  \/ \E j \in Recoverers : RecoveryStep(j)
  \/ \E p \in PolicyMoves : ChangeEligibility(p)
  \/ \E r \in SessionMoves : ChangeSession(r)
  \/ Tick

Spec == Init /\ [][Next]_vars

-----------------------------------------------------------------------------
(* Properties.                                                             *)

TypeOK ==
  /\ IntentsTypeOK
  /\ call \in [Callers -> Call]
  /\ eligible \subseteq Recipients
  /\ sessions \subseteq Text
  /\ sends \in [Ids -> 0..2]
  /\ delivered \subseteq Ids

(***************************************************************************)
(* No intent is handed to the provider twice, whichever calls, crashes,    *)
(* lost replies and recovery batches meet on it.                           *)
(***************************************************************************)
IntentSentAtMostOnce == \A i \in Ids : sends[i] <= 1

(***************************************************************************)
(* The point of an idempotency key: in one scope (source_flow,             *)
(* idempotency_key) the provider is called at most once, over all intents, *)
(* requests and callers that ever used the scope.                          *)
(***************************************************************************)
ScopeSentAtMostOnce ==
  /\ IntentSentAtMostOnce
  /\ \A i, k \in Ids :
       /\ sends[i] > 0 /\ sends[k] > 0
       /\ Stored(i) /\ Stored(k) /\ ScopeOf[docs[i].request] = ScopeOf[docs[k].request]
       => i = k

(***************************************************************************)
(* The recorded outcome is the truth: an intent recorded as accepted was   *)
(* taken by the provider, one recorded as rejected was not and never will  *)
(* be; what nobody can know is recorded as unknown.                        *)
(***************************************************************************)
OutcomeIsTrue ==
  \A i \in Ids :
    /\ docs[i].state = "accepted" => i \in delivered
    /\ docs[i].state = "rejected" => i \notin delivered

(***************************************************************************)
(* A result a call returned, fresh or replayed, is the result recorded for *)
(* that very request: a caller never gets the outcome of another request   *)
(* that shares its scope, nor one that a later reader would contradict.    *)
(***************************************************************************)
ResultsAreDurable ==
  \A c \in Callers : call[c].reply.kind = "result" =>
    \E i \in Ids : docs[i].request = call[c].request /\ docs[i].result = call[c].reply.result

(***************************************************************************)
(* Two calls of one scope never both return the outcome as their own: all  *)
(* but one are marked idempotent_replay.                                   *)
(***************************************************************************)
FreshResult(c) == call[c].reply.kind = "result" /\ ~call[c].reply.replay

OneFreshResult ==
  \A c, d \in Callers :
    FreshResult(c) /\ FreshResult(d) /\ Scope(c) = Scope(d) => c = d

(***************************************************************************)
(* The kind of reply tells whether this call reached the provider: a       *)
(* PostDispatchPersistenceError says it did; every other error of the      *)
(* service and a replay say it did not.                                    *)
(***************************************************************************)
RepliesAreHonest ==
  \A c \in Callers : LET reply == call[c].reply IN
    /\ reply.kind = "PostDispatchPersistenceError" => call[c].contacted
    /\ reply.kind \in {"IdempotencyConflictError", "IntentInProgressError",
                       "ServiceDependencyError"} => ~call[c].contacted
    /\ reply.kind = "result" /\ reply.replay => ~call[c].contacted

(***************************************************************************)
(* No call ends in IntentStateError: the states it guards against (an      *)
(* intent that disappears during a claim) cannot come about.               *)
(***************************************************************************)
NoStateError == \A c \in Callers : call[c].reply.kind # "IntentStateError"

(***************************************************************************)
(* A call that is about to send has been allowed to: its recipient was     *)
(* consented and not suppressed, and for a text the session was open, at   *)
(* some moment since the call began.  (Not more: a revocation between the  *)
(* evaluation and the send is not seen.)                                   *)
(***************************************************************************)
PolicyRespected ==
  \A c \in Callers : At(c, "send") =>
    /\ call[c].wasEligible
    /\ call[c].request \in Text => call[c].hadSession

(***************************************************************************)
(* A pending intent with sensitive content is out of everyone's reach once *)
(* the call that created it is over: no later call sends it or settles it. *)
(* (With the scope index.  Without it a call may create one intent of the  *)
(* scope and read another one back, which it then has the request of, too: *)
(* the intent is out of reach once every such call is over.)               *)
(***************************************************************************)
CreatorRuns(i) == \E c \in Callers : Running(c) /\ call[c].created /\ call[c].id = i

SensitiveFailsClosed ==
  [][\A i \in Ids :
       docs[i].state = "pending" /\ docs[i].request \in Sensitive /\ ~CreatorRuns(i)
       => docs'[i] = docs[i]]_vars

(***************************************************************************)
(* With a cutoff beyond the age CallBound, recovery settles no intent whose  *)
(* call is still going: the call that claimed an intent finds it           *)
(* dispatching until it completes it itself.                               *)
(***************************************************************************)
NeverOvertaken ==
  MinAge > CallBound =>
    \A c \in Callers : call[c].pc \in Claimed => docs[call[c].id].state = "dispatching"

(***************************************************************************)
(* What PostDispatchPersistenceError says of itself: the provider was      *)
(* called and its result is not in the record.                             *)
(***************************************************************************)
PostDispatchMeansUnrecorded ==
  \A c \in Callers : call[c].reply.kind = "PostDispatchPersistenceError" =>
    \A i \in FindScope(Scope(c)) :
      docs[i].state = "dispatching" \/ docs[i].result = "stale_dispatch_recovered"

(***************************************************************************)
(* claim() and complete() filter on the attempts they read before, too.    *)
(* That never makes them miss: an update whose intent is still in the      *)
(* state its operation found meets the whole filter, so that answering     *)
(* None means that another call or a job has moved the intent on.          *)
(***************************************************************************)
UpdatesMatch ==
  /\ \A c \in Callers : LET i == call[c].id IN
       /\ At(c, "claimUpdate") /\ docs[i].state = "pending" => ClaimMatches(i, call[c].count)
       /\ At(c, "completeUpdate") /\ docs[i].state = "dispatching" =>
            CompleteMatches(i, "dispatching", call[c].count)
  /\ \A j \in Recoverers :
       recovery[j].pc = "update" /\ docs[Candidate(j)].state = "dispatching" =>
         CompleteMatches(Candidate(j), "dispatching", recovery[j].count)

(***************************************************************************)
(* Whatever becomes of a call after its claim, its intent is in reach of   *)
(* recovery from then on: a batch that is cut off past this moment selects *)
(* the intent, although the clock moves on between the claim's reading of  *)
(* it and its update, and complete() then takes it.                        *)
(***************************************************************************)
Recoverable ==
  \A i \in Ids : docs[i].state = "dispatching" =>
    /\ i \in Stale(now + 1)
    /\ CompleteMatches(i, "dispatching", docs[i].attempt_count)

(***************************************************************************)
(* Fairness.  A call that is not stopped by a crash goes on to its end.    *)
(* Recovery is not started by the package: an operator's job calls it, and *)
(* is assumed to be started again and again, with a cutoff that advances,  *)
(* and not to be stopped by a crash at the same step for ever.             *)
(***************************************************************************)
JobStep(A) == A /\ UNCHANGED <<call, policy, provider>>

Fairness ==
  /\ \A c \in Callers : WF_vars(CallStep(c))
  /\ \A j \in Recoverers :
       /\ SF_vars(JobStep(RecoverySelect(j, now + 1 - MinAge)))
       /\ SF_vars(JobStep(RecoveryFind(j)))
       /\ SF_vars(JobStep(RecoveryUpdate(j)))

FairSpec == Spec /\ Fairness

(***************************************************************************)
(* Every call comes to an end, however its race for the intent goes: one   *)
(* that another call, or recovery, overtakes does not wait or try again.   *)
(***************************************************************************)
CallsReturn == \A c \in Callers : []<>At(c, "idle")

(***************************************************************************)
(* No intent stays dispatching: its call completes it, or, if that call    *)
(* crashed or lost its reply, recovery does.  (What it leaves for is a     *)
(* terminal state, by OutcomesAreFinal.)                                   *)
(***************************************************************************)
DispatchingEnds == \A i \in Ids : []<>(docs[i].state # "dispatching")

(***************************************************************************)
(* The service over the Mongo repository implements the intent ledger of   *)
(* the port: to an outside observer each scope moves by atomic steps.      *)
(***************************************************************************)
IntentOf(s) == CHOOSE i \in Ids : i \in FindScope(s)

Ledger == INSTANCE IntentLedger WITH
  state <- [s \in Scopes |-> IF FindScope(s) = {} THEN "absent" ELSE docs[IntentOf(s)].state],
  owner <- [s \in Scopes |-> IF FindScope(s) = {} THEN NoRequest ELSE docs[IntentOf(s)].request],
  sent <- [s \in Scopes |-> FindScope(s) # {} /\ sends[IntentOf(s)] > 0]

ImplementsLedger == Ledger!Spec

-----------------------------------------------------------------------------
(***************************************************************************)
(* The inductive invariant: what every call may rely on about the intent   *)
(* it works on, what keeps two calls apart, and what the record and the    *)
(* provider have to say about each other.                                  *)
(***************************************************************************)

\* The steps at which a call has an intent it found stored.
Bound == Steps \ {"get", "upsert", "readback"}

CallOK(m) ==
  /\ m.pc = "idle" => m.id = NoId
  /\ m.pc # "idle" => m.request \in Requests
  /\ m.pc = "upsert" => m.id \in Ids /\ ~Stored(m.id)
  /\ m.pc \in Bound => m.id \in Ids /\ Stored(m.id) /\ docs[m.id].request = m.request
  /\ m.pc \in Claimed => docs[m.id].state \in {"dispatching", "unknown"}
  /\ m.pc = "send" => sends[m.id] = 0
  /\ m.pc \in Claimed \ {"send"} =>
       /\ m.result \in Results \ {"policy_rejected"}
       /\ m.result = "accepted" => m.id \in delivered
       /\ StateOf(m.result) = "rejected" => m.id \notin delivered
  /\ m.reply.kind # "IntentStateError"

\* No two calls are about to insert the same id, nor have claimed the same intent.
Apart ==
  \A c, d \in Callers : c # d =>
    /\ At(c, "upsert") => call[d].id # call[c].id
    /\ call[c].pc \in Claimed /\ call[d].pc \in Claimed => call[d].id # call[c].id

IntentOK(i) ==
  /\ sends[i] <= 1
  /\ docs[i].state \in {"absent", "pending"} => sends[i] = 0
  /\ sends[i] = 0 => i \notin delivered
  /\ docs[i].state = "accepted" => i \in delivered
  /\ docs[i].state = "rejected" => i \notin delivered

(***************************************************************************)
(* Every part of the above, with the types and one intent per scope where  *)
(* the index exists: each command of _send preserves it.                   *)
(***************************************************************************)
IInv ==
  /\ TypeOK
  /\ \A c \in Callers : CallOK(call[c])
  /\ Apart
  /\ \A i \in Ids : IntentOK(i)
  /\ \A j \in Recoverers : recovery[j].pc # "idle" => recovery[j].batch # <<>>
  /\ UniqueScope => ScopeUnique
=============================================================================
