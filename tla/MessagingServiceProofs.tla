----------------------- MODULE MessagingServiceProofs -----------------------
(***************************************************************************)
(* Invariance proofs for MessagingService, for any number of callers,      *)
(* intents, scopes, requests and recovery jobs, and whatever failures.     *)
(***************************************************************************)
EXTENDS MessagingService, SequenceTheorems, TLAPS

-----------------------------------------------------------------------------
(* The commands, as seen from the documents.                               *)

USE DEF Terminal, States, NoResult, Results

(* Overwriting an entry of a sequence leaves a sequence, of the same elements.  *)
LEMMA ExceptIsSeq ==
  ASSUME NEW S, NEW s \in Seq(S), NEW n, NEW x \in S
  PROVE  [s EXCEPT ![n] = x] \in Seq(S)
<1>1. PICK m \in Nat : s \in [1..m -> S]
  BY SeqDef
<1>2. [s EXCEPT ![n] = x] \in [1..m -> S]
  BY <1>1
<1> QED
  BY <1>2, SeqDef

(* terminal_state of complete() is a terminal state.                       *)
LEMMA StateOfTerminal ==
  ASSUME NEW result \in Results
  PROVE  StateOf(result) \in Terminal
BY DEF StateOf

LEMMA NewDocType ==
  ASSUME NEW r \in Requests
  PROVE  /\ NewDoc(r) \in Doc
         /\ NewDoc(r).state = "pending" /\ NewDoc(r).request = r
<1>1. <<>> \in Seq(Results \cup {NoResult})
  OBVIOUS
<1> QED
  BY <1>1 DEF NewDoc, Absent, Doc

(* The upsert's insert adds one pending document and changes no other.     *)
LEMMA InsertEffect ==
  ASSUME docs \in [Ids -> Doc], NEW i \in Ids, NEW r \in Requests, Insert(i, r)
  PROVE  /\ docs' \in [Ids -> Doc]
         /\ docs'[i].state = "pending" /\ docs'[i].request = r
         /\ \A k \in Ids : k # i => docs'[k] = docs[k]
BY NewDocType DEF Insert

(* A claim moves its document to dispatching and changes no other.         *)
LEMMA ClaimEffect ==
  ASSUME docs \in [Ids -> Doc], NEW i \in Ids, NEW t \in Nat, ClaimUpdate(i, t)
  PROVE  /\ docs' \in [Ids -> Doc]
         /\ docs'[i].state = "dispatching" /\ docs'[i].request = docs[i].request
         /\ \A k \in Ids : k # i => docs'[k] = docs[k]
<1> DEFINE d == docs[i]
<1>1. d \in Doc
  OBVIOUS
<1>2. Append(d.attempts, NoResult) \in Seq(Results \cup {NoResult})
  BY <1>1 DEF Doc
<1>3. d.attempt_count + 1 \in Nat
  BY <1>1 DEF Doc
<1>4. ClaimedDoc(d, t) \in Doc
  BY <1>1, <1>2, <1>3 DEF ClaimedDoc, Doc
<1>5. ClaimedDoc(d, t).state = "dispatching" /\ ClaimedDoc(d, t).request = d.request
  BY <1>1 DEF ClaimedDoc, Doc
<1> QED
  BY <1>4, <1>5 DEF ClaimUpdate

(* A completion moves its document to the result's state, likewise.        *)
LEMMA CompleteEffect ==
  ASSUME docs \in [Ids -> Doc], NEW i \in Ids, NEW expected, NEW count,
         NEW result \in Results, CompleteUpdate(i, expected, count, result)
  PROVE  /\ docs' \in [Ids -> Doc]
         /\ docs'[i].state = StateOf(result) /\ docs'[i].request = docs[i].request
         /\ \A k \in Ids : k # i => docs'[k] = docs[k]
<1> DEFINE d == docs[i]
           e == CompletedDoc(d, expected, count, result)
<1>1. d \in Doc
  OBVIOUS
<1>2. [d.attempts EXCEPT ![count] = result] \in Seq(Results \cup {NoResult})
  <2>1. d.attempts \in Seq(Results \cup {NoResult})
    BY <1>1 DEF Doc
  <2> QED
    BY <2>1, ExceptIsSeq
<1>3. StateOf(result) \in States
  BY StateOfTerminal
<1>4. e \in Doc
  <2>1. CASE expected = "dispatching"
    <3> DEFINE attempts == [d.attempts EXCEPT ![count] = result]
    <3>1. e = [d EXCEPT !.state = StateOf(result), !.result = result, !.attempts = attempts]
      BY <2>1 DEF CompletedDoc
    <3>2. attempts \in Seq(Results \cup {NoResult})
      BY <1>2
    <3> HIDE DEF attempts, e
    <3> QED
      BY <1>1, <1>3, <3>1, <3>2 DEF Doc
  <2>2. CASE expected # "dispatching"
    BY <1>1, <1>3, <2>2 DEF CompletedDoc, Doc
  <2> QED
    BY <2>1, <2>2
<1>5. e.state = StateOf(result) /\ e.request = d.request
  BY <1>1 DEF CompletedDoc, Doc
<1> QED
  BY <1>4, <1>5 DEF CompleteUpdate

-----------------------------------------------------------------------------
(* Calls.                                                                  *)

USE DEF Claimed, Steps, Errors, mongo, policy, provider

LEMMA NoCallType == NoCall \in Call /\ NoReply \in Reply
BY DEF NoCall, NoReply, Call, Reply

(* A call whose record is replaced keeps the type; the others keep theirs. *)
LEMMA BecomesEffect ==
  ASSUME call \in [Callers -> Call], NEW c \in Callers, NEW m \in Call, Becomes(c, m)
  PROVE  /\ call' \in [Callers -> Call]
         /\ call'[c] = m
         /\ \A d \in Callers : d # c => call'[d] = call[d]
BY DEF Becomes

(* Whatever the reply, a finished call holds no intent.                    *)
Over(m) == /\ m \in Call /\ m.pc = "idle" /\ m.id = NoId
           /\ m.reply.kind # "IntentStateError"

LEMMA FinishEffect ==
  ASSUME call \in [Callers -> Call], NEW c \in Callers, NEW reply \in Reply,
         reply.kind # "IntentStateError", Finish(c, reply)
  PROVE  \E m : Over(m) /\ Becomes(c, m)
<1> DEFINE m == [NoCall EXCEPT !.request = call[c].request, !.reply = reply,
                               !.contacted = call[c].contacted]
<1>1. call[c].request \in Requests \cup {NoRequest} /\ call[c].contacted \in BOOLEAN
  BY DEF Call
<1>2. m \in Call
  BY <1>1, NoCallType DEF NoCall, Call
<1>3. m.pc = "idle" /\ m.id = NoId /\ m.reply = reply
  BY DEF NoCall
<1> HIDE DEF m
<1>4. Becomes(c, m)
  BY DEF Finish, m
<1> QED
  BY <1>2, <1>3, <1>4 DEF Over

LEMMA RaiseEffect ==
  ASSUME call \in [Callers -> Call], NEW c \in Callers,
         NEW error \in Errors \ {"IntentStateError"}, Raise(c, error)
  PROVE  \E m : Over(m) /\ Becomes(c, m)
<1> DEFINE reply == [NoReply EXCEPT !.kind = error]
<1>1. reply \in Reply /\ reply.kind # "IntentStateError"
  BY DEF NoReply, Reply
<1>2. Finish(c, reply)
  BY DEF Raise
<1> HIDE DEF reply
<1> QED
  BY <1>1, <1>2, FinishEffect

LEMMA ReturnEffect ==
  ASSUME call \in [Callers -> Call], NEW c \in Callers,
         NEW result \in Results \cup {NoResult}, Return(c, result) \/ Replay(c, result)
  PROVE  \E m : Over(m) /\ Becomes(c, m)
<1>1. PICK replay \in BOOLEAN :
        Finish(c, [kind |-> "result", result |-> result, replay |-> replay])
  BY DEF Return, Replay
<1> DEFINE reply == [kind |-> "result", result |-> result, replay |-> replay]
<1>2. reply \in Reply /\ reply.kind # "IntentStateError"
  BY DEF Reply
<1> HIDE DEF reply
<1> QED
  BY <1>1, <1>2, FinishEffect DEF reply

-----------------------------------------------------------------------------
(* Steps that write nothing but the record of one call.                    *)

LEMMA ReadStep ==
  ASSUME IInv, NEW c \in Callers, NEW m \in Call, Becomes(c, m),
         UNCHANGED <<mongo, policy, provider>>,
         CallOK(m),
         m.pc = "upsert" => \A d \in Callers : d # c => call[d].id # m.id,
         m.id \in {NoId, call[c].id} \/ m.pc = "upsert" \/ (m.id \in Ids /\ Stored(m.id)),
         m.pc \in Claimed => call[c].pc \in Claimed /\ m.id = call[c].id
  PROVE  IInv'
<1>1. call \in [Callers -> Call]
  BY DEF IInv, TypeOK
<1>2. /\ call' \in [Callers -> Call]
      /\ call'[c] = m
      /\ \A d \in Callers : d # c => call'[d] = call[d]
  BY <1>1, BecomesEffect
<1>3. TypeOK'
  BY <1>2 DEF IInv, TypeOK, IntentsTypeOK
<1>4. \A d \in Callers : CallOK(call[d])'
  <2> SUFFICES ASSUME NEW d \in Callers PROVE CallOK(call[d])'
    OBVIOUS
  <2>1. call'[d] = call[d] \/ call'[d] = m
    BY <1>2
  <2>2. CallOK(call[d])
    BY DEF IInv
  <2> QED
    BY <2>1, <2>2 DEF CallOK, Stored
<1>5. Apart'
  <2> SUFFICES ASSUME NEW d \in Callers, NEW e \in Callers, d # e
               PROVE  /\ call'[d].pc = "upsert" => call'[e].id # call'[d].id
                      /\ call'[d].pc \in Claimed /\ call'[e].pc \in Claimed
                           => call'[e].id # call'[d].id
    BY DEF Apart, At
  <2>1. /\ call[d].pc = "upsert" => call[e].id # call[d].id
        /\ call[d].pc \in Claimed /\ call[e].pc \in Claimed => call[e].id # call[d].id
    BY DEF IInv, Apart, At
  <2>2. CallOK(call[d]) /\ NoId \notin Ids
    BY ServiceAssumption DEF IInv
  <2>3. CASE d = c
    BY <1>2, <2>1, <2>3
  <2>4. CASE e = c
    BY <1>2, <2>1, <2>2, <2>4 DEF CallOK
  <2>5. CASE d # c /\ e # c
    BY <1>2, <2>1, <2>5
  <2> QED
    BY <2>3, <2>4, <2>5
<1>6. /\ \A i \in Ids : IntentOK(i)'
      /\ (\A j \in Recoverers : recovery[j].pc # "idle" => recovery[j].batch # <<>>)'
      /\ (UniqueScope => ScopeUnique)'
  BY DEF IInv, IntentOK, ScopeUnique, Stored
<1> QED
  BY <1>3, <1>4, <1>5, <1>6 DEF IInv

(* In particular a call may end at any point.                              *)
LEMMA OverStep ==
  ASSUME IInv, NEW c \in Callers, \E m : Over(m) /\ Becomes(c, m),
         UNCHANGED <<mongo, policy, provider>>
  PROVE  IInv'
<1>1. PICK m : Over(m) /\ Becomes(c, m)
  OBVIOUS
<1>2. CallOK(m) /\ m \in Call /\ m.pc = "idle" /\ m.id = NoId
  BY <1>1 DEF Over, CallOK, Bound
<1> QED
  BY <1>1, <1>2, ReadStep

LEMMA CallType ==
  ASSUME IInv, NEW c \in Callers
  PROVE  /\ call \in [Callers -> Call] /\ call[c] \in Call /\ CallOK(call[c])
         /\ docs \in [Ids -> Doc]
BY DEF IInv, TypeOK, IntentsTypeOK

LEMMA RaiseStep ==
  ASSUME IInv, NEW c \in Callers, NEW error \in Errors \ {"IntentStateError"},
         Raise(c, error), UNCHANGED <<mongo, policy, provider>>
  PROVE  IInv'
BY CallType, RaiseEffect, OverStep

LEMMA ReplayStep ==
  ASSUME IInv, NEW c \in Callers, NEW i \in Ids, Replay(c, docs[i].result),
         UNCHANGED <<mongo, policy, provider>>
  PROVE  IInv'
<1>1. docs[i].result \in Results \cup {NoResult}
  BY CallType DEF Doc
<1> QED
  BY <1>1, CallType, ReturnEffect, OverStep

(* Between two steps before the claim that work on a stored intent.        *)
LEMMA GotoStep ==
  ASSUME IInv, NEW c \in Callers, call[c].pc \in Bound \ Claimed,
         NEW pc \in Bound \ Claimed, Goto(c, pc), UNCHANGED <<mongo, policy, provider>>
  PROVE  IInv'
<1> DEFINE m == [call[c] EXCEPT !.pc = pc]
<1>1. call[c] \in Call /\ CallOK(call[c])
  BY CallType
<1>2. m \in Call
  BY <1>1 DEF Call, Bound
<1>3. /\ m.pc = pc /\ m.id = call[c].id /\ m.request = call[c].request
      /\ m.reply = call[c].reply
  BY <1>1 DEF Call
<1> HIDE DEF m
<1>4. CallOK(m)
  BY <1>1, <1>3 DEF CallOK, Bound
<1>5. Becomes(c, m)
  BY DEF Goto, m
<1> QED
  BY <1>2, <1>3, <1>4, <1>5, ReadStep DEF Bound

(* A call starts.                                                          *)
LEMMA StartStep ==
  ASSUME IInv, NEW c \in Callers, NEW r \in Requests, Start(c, r)
  PROVE  IInv'
<1> DEFINE e == [NoCall EXCEPT !.request = r,
                   !.reply = [NoReply EXCEPT !.kind = "ServiceDependencyError"]]
           m == [NoCall EXCEPT !.pc = "get", !.request = r,
                   !.wasEligible = Eligible(r), !.hadSession = r \in sessions]
<1>1. UNCHANGED <<mongo, policy, provider>>
  BY DEF Start
<1>2. CASE Becomes(c, e)
  <2>1. e \in Call
    BY NoCallType DEF NoCall, NoReply, Call, Reply
  <2>2. e.pc = "idle" /\ e.id = NoId /\ e.reply.kind = "ServiceDependencyError"
    BY DEF NoCall, NoReply
  <2> HIDE DEF e
  <2> QED
    BY <1>1, <1>2, <2>1, <2>2, OverStep DEF Over
<1>3. CASE Becomes(c, m)
  <2> DEFINE F(x, y) == [NoCall EXCEPT !.pc = "get", !.request = r,
                           !.wasEligible = x, !.hadSession = y]
  <2>1. \A x, y \in BOOLEAN : F(x, y) \in Call
    BY NoCallType DEF NoCall, Call
  <2>2. m \in Call
    <3> DEFINE x == Eligible(r)
               y == r \in sessions
    <3>1. x \in BOOLEAN /\ y \in BOOLEAN
      BY DEF Eligible
    <3>2. m = F(x, y)
      OBVIOUS
    <3> HIDE DEF F, m, x, y
    <3> QED
      BY <2>1, <3>1, <3>2
  <2>3. m.pc = "get" /\ m.id = NoId /\ m.request = r /\ m.reply.kind = "none"
    BY DEF NoCall, NoReply
  <2> HIDE DEF m
  <2>4. CallOK(m)
    BY <2>3 DEF CallOK, Bound
  <2> QED
    BY <1>1, <1>3, <2>2, <2>3, <2>4, ReadStep
<1> QED
  BY <1>2, <1>3 DEF Start

(* A call goes on with the intent it found.                                *)
LEMMA ContinueStep ==
  ASSUME IInv, NEW c \in Callers, call[c].pc \notin {"idle", "upsert"},
         NEW i \in FindScope(Scope(c)), ContinueIntent(c, i),
         UNCHANGED <<mongo, policy, provider>>
  PROVE  IInv'
<1> DEFINE m == [call[c] EXCEPT !.pc = "policy", !.id = i]
<1>0. i \in Ids /\ Stored(i)
  BY DEF FindScope
<1>1. call[c] \in Call /\ CallOK(call[c])
  BY CallType
<1>2. CASE Raise(c, "IdempotencyConflictError")
  BY <1>2, RaiseStep
<1>3. CASE Raise(c, "IntentInProgressError")
  BY <1>3, RaiseStep
<1>4. CASE Raise(c, "ServiceDependencyError")
  BY <1>4, RaiseStep
<1>5. CASE Replay(c, docs[i].result)
  BY <1>0, <1>5, ReplayStep
<1>6. CASE Becomes(c, m) /\ docs[i].request = call[c].request
  <2>1. m \in Call
    BY <1>0, <1>1 DEF Call
  <2>2. /\ m.pc = "policy" /\ m.id = i /\ m.request = call[c].request
        /\ m.reply = call[c].reply
    BY <1>1 DEF Call
  <2> HIDE DEF m
  <2>3. CallOK(m)
    BY <1>0, <1>1, <1>6, <2>2 DEF CallOK, Bound
  <2> QED
    BY <1>0, <1>6, <2>1, <2>2, <2>3, ReadStep
<1> QED
  BY <1>2, <1>3, <1>4, <1>5, <1>6 DEF ContinueIntent, Conflicts

(* The first lookup.                                                       *)
LEMMA GetIntentStep ==
  ASSUME IInv, NEW c \in Callers, GetIntent(c)
  PROVE  IInv'
<1>1. At(c, "get") /\ UNCHANGED <<mongo, policy, provider>>
  BY DEF GetIntent
<1>2. CASE Raise(c, "ServiceDependencyError")
  BY <1>1, <1>2, RaiseStep
<1>3. CASE \E i \in FindScope(Scope(c)) : ContinueIntent(c, i)
  BY <1>1, <1>3, ContinueStep DEF At
<1>4. CASE \E i \in Ids : Fresh(i) /\ Becomes(c, [call[c] EXCEPT !.pc = "upsert", !.id = i])
  <2>1. PICK i \in Ids : Fresh(i) /\ Becomes(c, [call[c] EXCEPT !.pc = "upsert", !.id = i])
    BY <1>4
  <2> DEFINE m == [call[c] EXCEPT !.pc = "upsert", !.id = i]
  <2>2. call[c] \in Call /\ CallOK(call[c])
    BY CallType
  <2>3. m \in Call
    BY <2>2 DEF Call
  <2>4. /\ m.pc = "upsert" /\ m.id = i /\ m.request = call[c].request
        /\ m.reply = call[c].reply
    BY <2>2 DEF Call
  <2>5. Becomes(c, m)
    BY <2>1
  <2> HIDE DEF m
  <2>6. CallOK(m)
    BY <1>1, <2>1, <2>2, <2>4 DEF CallOK, Bound, Fresh, At
  <2> QED
    BY <1>1, <2>1, <2>3, <2>4, <2>5, <2>6, ReadStep DEF Fresh
<1> QED
  BY <1>2, <1>3, <1>4 DEF GetIntent

(* The read after the upsert.                                              *)
LEMMA ReadBackStep ==
  ASSUME IInv, NEW c \in Callers, ReadBack(c)
  PROVE  IInv'
<1>1. At(c, "readback") /\ UNCHANGED <<mongo, policy, provider>>
  BY DEF ReadBack
<1>2. CASE Raise(c, "ServiceDependencyError")
  BY <1>1, <1>2, RaiseStep
<1>3. CASE \E i \in FindScope(Scope(c)) : ContinueIntent(c, i)
  BY <1>1, <1>3, ContinueStep DEF At
<1> QED
  BY <1>2, <1>3 DEF ReadBack

(* The policies, which write nothing.                                      *)
LEMMA EvaluateStep ==
  ASSUME IInv, NEW c \in Callers, EvaluateRecipient(c) \/ EvaluateSession(c)
  PROVE  IInv'
<1>1. call[c].pc \in Bound \ Claimed /\ UNCHANGED <<mongo, policy, provider>>
  BY DEF EvaluateRecipient, EvaluateSession, At, Bound
<1>2. CASE Raise(c, "ServiceDependencyError")
  BY <1>1, <1>2, RaiseStep
<1>3. CASE \E pc \in {"rejectFind", "session", "claimFind"} : Goto(c, pc)
  BY <1>1, <1>3, GotoStep DEF Bound
<1> QED
  BY <1>2, <1>3 DEF EvaluateRecipient, EvaluateSession, PolicyRaises

(* complete(PENDING) reads.                                                *)
LEMMA RejectFindStep ==
  ASSUME IInv, NEW c \in Callers, RejectFind(c)
  PROVE  IInv'
<1>1. call[c].pc \in Bound \ Claimed /\ UNCHANGED <<mongo, policy, provider>>
  BY DEF RejectFind, At, Bound
<1>2. CASE Raise(c, "ServiceDependencyError")
  BY <1>1, <1>2, RaiseStep
<1>3. CASE \E pc \in {"rejectUpdate", "resolve"} : Goto(c, pc)
  BY <1>1, <1>3, GotoStep DEF Bound
<1> QED
  BY <1>2, <1>3 DEF RejectFind

(* claim() reads.                                                          *)
LEMMA ClaimFindStep ==
  ASSUME IInv, NEW c \in Callers, ClaimFind(c)
  PROVE  IInv'
<1> DEFINE d == docs[call[c].id]
           m == [call[c] EXCEPT !.pc = "claimUpdate", !.started = now,
                                !.count = d.attempt_count]
<1>1. /\ call[c].pc = "claimFind" /\ call[c].pc \in Bound \ Claimed
      /\ UNCHANGED <<mongo, policy, provider>>
  BY DEF ClaimFind, At, Bound
<1>2. CASE Raise(c, "ServiceDependencyError")
  BY <1>1, <1>2, RaiseStep
<1>3. CASE Goto(c, "resolve")
  BY <1>1, <1>3, GotoStep DEF Bound
<1>4. CASE Becomes(c, m)
  <2>1. call[c] \in Call /\ CallOK(call[c])
    BY CallType
  <2>2. d.attempt_count \in Nat /\ now \in Nat
    BY <1>1, <2>1, CallType, MongoAssumption DEF CallOK, Doc, IInv, TypeOK, IntentsTypeOK
  <2>3. m \in Call
    BY <2>1, <2>2 DEF Call
  <2>4. /\ m.pc = "claimUpdate" /\ m.id = call[c].id /\ m.request = call[c].request
        /\ m.reply = call[c].reply
    BY <2>1 DEF Call
  <2> HIDE DEF m
  <2>5. CallOK(m)
    BY <1>1, <2>1, <2>4 DEF CallOK, Bound
  <2> QED
    BY <1>1, <1>4, <2>3, <2>4, <2>5, ReadStep
<1> QED
  BY <1>2, <1>3, <1>4 DEF ClaimFind

(* The intent a call bound itself to is still there: _resolve_claim_race   *)
(* never finds its scope empty.                                            *)
LEMMA ResolveStep ==
  ASSUME IInv, NEW c \in Callers, Resolve(c)
  PROVE  IInv'
<1>1. call[c].pc = "resolve" /\ UNCHANGED <<mongo, policy, provider>>
  BY DEF Resolve, At
<1>2. call[c].id \in FindScope(Scope(c))
  BY <1>1, CallType DEF CallOK, Bound, FindScope, Scope
<1>3. CASE \E error \in Errors \ {"IntentStateError"} : Raise(c, error)
  BY <1>1, <1>3, RaiseStep
<1>4. CASE \E i \in Ids : Replay(c, docs[i].result)
  BY <1>1, <1>4, ReplayStep
<1> QED
  BY <1>2, <1>3, <1>4 DEF Resolve, FindScope

(* complete(DISPATCHING) reads.                                            *)
LEMMA CompleteFindStep ==
  ASSUME IInv, NEW c \in Callers, CompleteFind(c)
  PROVE  IInv'
<1> DEFINE d == docs[call[c].id]
           m == [call[c] EXCEPT !.pc = "completeUpdate", !.count = d.attempt_count]
<1>1. call[c].pc = "completeFind" /\ UNCHANGED <<mongo, policy, provider>>
  BY DEF CompleteFind, At
<1>2. CASE CompletionFails(c)
  BY <1>1, <1>2, RaiseStep DEF CompletionFails
<1>3. CASE Becomes(c, m)
  <2>1. call[c] \in Call /\ CallOK(call[c])
    BY CallType
  <2>2. d.attempt_count \in Nat
    BY <1>1, <2>1, CallType DEF CallOK, Bound, Doc
  <2>3. m \in Call
    BY <2>1, <2>2 DEF Call
  <2>4. /\ m.pc = "completeUpdate" /\ m.id = call[c].id /\ m.request = call[c].request
        /\ m.reply = call[c].reply /\ m.result = call[c].result
    BY <2>1 DEF Call
  <2> HIDE DEF m
  <2>5. CallOK(m)
    BY <1>1, <2>1, <2>4 DEF CallOK, Bound
  <2> QED
    BY <1>1, <1>3, <2>3, <2>4, <2>5, ReadStep
<1> QED
  BY <1>2, <1>3 DEF CompleteFind

(* A call ends anywhere.                                                   *)
LEMMA CrashStep ==
  ASSUME IInv, NEW c \in Callers, Crash(c)
  PROVE  IInv'
BY RaiseStep DEF Crash

-----------------------------------------------------------------------------
(* Steps that write the document of one intent.                            *)

(* What a call relies on survives the steps of others: its document stays, *)
(* and nobody else takes back or settles what it has claimed, except for   *)
(* recovery, as unknown.                                                   *)
LEMMA CallStable ==
  ASSUME IInv, NEW d \in Callers, call'[d] = call[d],
         call[d].pc = "upsert" => docs'[call[d].id].state = "absent",
         call[d].pc \in Bound => /\ docs'[call[d].id].state # "absent"
                                /\ docs'[call[d].id].request = docs[call[d].id].request,
         call[d].pc \in Claimed =>
           /\ docs'[call[d].id].state \in {"dispatching", "unknown"}
           /\ sends'[call[d].id] = sends[call[d].id]
           /\ call[d].id \in delivered' <=> call[d].id \in delivered
  PROVE  CallOK(call[d])'
BY CallType DEF CallOK, Stored, Bound

(* A write to one document, by the call that works on it.                  *)
LEMMA WriteStep ==
  ASSUME IInv, NEW c \in Callers, NEW m \in Call, Becomes(c, m), CallOK(m)',
         NEW i \in Ids, i = call[c].id, m.id \in {NoId, i}, m.pc # "upsert",
         UNCHANGED <<now, recovery, policy, provider>>,
         docs' \in [Ids -> Doc], \A k \in Ids : k # i => docs'[k] = docs[k],
         docs'[i].state # "absent",
         Stored(i) => docs'[i].request = docs[i].request,
         Stored(i) \/ (UniqueScope => FindScope(ScopeOf[docs'[i].request]) = {}),
         \A d \in Callers : d # c /\ call[d].pc \in Claimed => call[d].id # i,
         IntentOK(i)'
  PROVE  IInv'
<1>1. /\ call' \in [Callers -> Call]
      /\ call'[c] = m
      /\ \A d \in Callers : d # c => call'[d] = call[d]
  BY CallType, BecomesEffect
<1>2. TypeOK'
  BY <1>1 DEF IInv, TypeOK, IntentsTypeOK
<1>3. \A d \in Callers : CallOK(call[d])'
  <2> SUFFICES ASSUME NEW d \in Callers PROVE CallOK(call[d])'
    OBVIOUS
  <2>1. CASE d = c
    BY <1>1, <2>1 DEF CallOK, Stored
  <2>2. CASE d # c
    <3>1. CallOK(call[d])
      BY CallType
    <3>2. call[d].pc = "upsert" => call[d].id # i
      BY <2>2 DEF IInv, Apart, At
    <3> QED
      BY <1>1, <2>2, <3>1, <3>2, CallStable DEF CallOK, Stored, Bound
  <2> QED
    BY <2>1, <2>2
<1>4. Apart'
  <2> SUFFICES ASSUME NEW d \in Callers, NEW e \in Callers, d # e
               PROVE  /\ call'[d].pc = "upsert" => call'[e].id # call'[d].id
                      /\ call'[d].pc \in Claimed /\ call'[e].pc \in Claimed
                           => call'[e].id # call'[d].id
    BY DEF Apart, At
  <2>1. /\ call[d].pc = "upsert" => call[e].id # call[d].id
        /\ call[d].pc \in Claimed /\ call[e].pc \in Claimed => call[e].id # call[d].id
    BY DEF IInv, Apart, At
  <2>2. CallOK(call[d]) /\ CallOK(call[e]) /\ NoId \notin Ids
    BY CallType, ServiceAssumption
  <2>3. CASE d = c
    BY <1>1, <2>1, <2>2, <2>3 DEF CallOK, Bound
  <2>4. CASE e = c
    BY <1>1, <2>1, <2>2, <2>4 DEF CallOK, Bound
  <2>5. CASE d # c /\ e # c
    BY <1>1, <2>1, <2>5
  <2> QED
    BY <2>3, <2>4, <2>5
<1>5. \A k \in Ids : IntentOK(k)'
  BY DEF IInv, IntentOK
<1>6. (\A j \in Recoverers : recovery[j].pc # "idle" => recovery[j].batch # <<>>)'
  BY DEF IInv
<1>7. (UniqueScope => ScopeUnique)'
  BY DEF IInv, ScopeUnique, Stored, FindScope
<1> QED
  BY <1>2, <1>3, <1>4, <1>5, <1>6, <1>7 DEF IInv

(* A write after which the call is over, its reply returned or lost.       *)
LEMMA OverWriteStep ==
  ASSUME IInv, NEW c \in Callers, \E m : Over(m) /\ Becomes(c, m),
         NEW i \in Ids, i = call[c].id,
         UNCHANGED <<now, recovery, policy, provider>>,
         docs' \in [Ids -> Doc], \A k \in Ids : k # i => docs'[k] = docs[k],
         docs'[i].state # "absent",
         Stored(i) => docs'[i].request = docs[i].request,
         Stored(i) \/ (UniqueScope => FindScope(ScopeOf[docs'[i].request]) = {}),
         \A d \in Callers : d # c /\ call[d].pc \in Claimed => call[d].id # i,
         IntentOK(i)'
  PROVE  IInv'
<1>1. PICK m : Over(m) /\ Becomes(c, m)
  OBVIOUS
<1>2. CallOK(m)' /\ m \in Call /\ m.pc = "idle" /\ m.id = NoId
  BY <1>1 DEF Over, CallOK, Bound
<1> QED
  BY <1>1, <1>2, WriteStep

(* Nobody has claimed an intent that is absent or pending.                 *)
LEMMA UnclaimedIntent ==
  ASSUME IInv, NEW i \in Ids, docs[i].state \in {"absent", "pending"}
  PROVE  /\ \A d \in Callers : call[d].pc \in Claimed => call[d].id # i
         /\ sends[i] = 0 /\ i \notin delivered
BY CallType DEF CallOK, IInv, IntentOK

(* The upsert inserts where nothing was, or changes nothing.               *)
LEMMA UpsertStep ==
  ASSUME IInv, NEW c \in Callers, UpsertIntent(c)
  PROVE  IInv'
<1> DEFINE r == call[c].request
<1>0. PICK i \in Ids : i = call[c].id
  BY CallType DEF UpsertIntent, At, CallOK
<1>1. /\ call[c].pc = "upsert" /\ call[c] \in Call
      /\ i = call[c].id /\ ~Stored(i) /\ r \in Requests
      /\ UNCHANGED <<now, recovery, policy, provider>>
  BY <1>0, CallType DEF UpsertIntent, At, CallOK
<1>2. CASE /\ UpsertInserts(r) /\ Insert(i, r)
           /\ \/ Becomes(c, [call[c] EXCEPT !.pc = "readback", !.created = TRUE])
              \/ Raise(c, "ServiceDependencyError")
  <2>1. /\ docs' \in [Ids -> Doc]
        /\ docs'[i].state = "pending" /\ docs'[i].request = r
        /\ \A k \in Ids : k # i => docs'[k] = docs[k]
    BY <1>1, <1>2, CallType, InsertEffect
  <2>2. /\ sends[i] = 0 /\ i \notin delivered
        /\ \A d \in Callers : call[d].pc \in Claimed => call[d].id # i
    BY <1>1, UnclaimedIntent DEF Stored
  <2>3. IntentOK(i)'
    BY <1>1, <2>1, <2>2 DEF IntentOK
  <2>4. UniqueScope => FindScope(ScopeOf[docs'[i].request]) = {}
    BY <1>2, <2>1 DEF UpsertInserts
  <2>5. CASE Raise(c, "ServiceDependencyError")
    <3>1. \E m : Over(m) /\ Becomes(c, m)
      BY <2>5, CallType, RaiseEffect
    <3> QED
      BY <1>1, <2>1, <2>2, <2>3, <2>4, <3>1, OverWriteStep
  <2>6. CASE Becomes(c, [call[c] EXCEPT !.pc = "readback", !.created = TRUE])
    <3>1. PICK m : m = [call[c] EXCEPT !.pc = "readback", !.created = TRUE]
      OBVIOUS
    <3>2. m \in Call
      BY <1>1, <3>1 DEF Call
    <3>3. m.pc = "readback" /\ m.id = i /\ m.request = r /\ m.reply = call[c].reply
      BY <1>1, <3>1 DEF Call
    <3>4. CallOK(m)'
      BY <1>1, <3>3, CallType DEF CallOK, Bound
    <3>5. Becomes(c, m)
      BY <2>6, <3>1
    <3> QED
      BY <1>1, <2>1, <2>2, <2>3, <2>4, <3>2, <3>3, <3>4, <3>5, WriteStep
  <2> QED
    BY <1>2, <2>5, <2>6
<1>3. CASE UNCHANGED docs /\ Raise(c, "ServiceDependencyError")
  BY <1>1, <1>3, RaiseStep
<1>4. CASE UNCHANGED docs /\ Goto(c, "readback")
  <2> DEFINE m == [call[c] EXCEPT !.pc = "readback"]
  <2>1. m \in Call
    BY <1>1 DEF Call
  <2>2. m.pc = "readback" /\ m.id = i /\ m.request = r /\ m.reply = call[c].reply
    BY <1>1 DEF Call
  <2>3. Becomes(c, m)
    BY <1>4 DEF Goto
  <2> HIDE DEF m
  <2>4. CallOK(m)
    BY <1>1, <2>2, CallType DEF CallOK, Bound
  <2> QED
    BY <1>1, <1>4, <2>1, <2>2, <2>3, <2>4, ReadStep
<1> QED
  BY <1>0, <1>2, <1>3, <1>4 DEF UpsertIntent

(* A local rejection settles a pending intent.                             *)
LEMMA RejectUpdateStep ==
  ASSUME IInv, NEW c \in Callers, RejectUpdate(c)
  PROVE  IInv'
<1>0. PICK i \in Ids : i = call[c].id
  BY CallType DEF RejectUpdate, At, CallOK, Bound
<1>1. /\ call[c].pc \in Bound \ Claimed /\ i = call[c].id /\ Stored(i)
      /\ UNCHANGED <<now, recovery, policy, provider>>
  BY <1>0, CallType DEF RejectUpdate, At, CallOK, Bound
<1>2. CASE /\ CompleteMatches(i, "pending", 0)
           /\ CompleteUpdate(i, "pending", 0, "policy_rejected")
           /\ Return(c, "policy_rejected") \/ Raise(c, "ServiceDependencyError")
  <2>1. /\ docs' \in [Ids -> Doc]
        /\ docs'[i].state = "rejected" /\ docs'[i].request = docs[i].request
        /\ \A k \in Ids : k # i => docs'[k] = docs[k]
    BY <1>1, <1>2, CallType, CompleteEffect DEF StateOf
  <2>2. /\ sends[i] = 0 /\ i \notin delivered
        /\ \A d \in Callers : call[d].pc \in Claimed => call[d].id # i
    BY <1>1, <1>2, UnclaimedIntent DEF CompleteMatches
  <2>3. IntentOK(i)'
    BY <1>1, <2>1, <2>2 DEF IntentOK
  <2>4. \E m : Over(m) /\ Becomes(c, m)
    BY <1>2, CallType, RaiseEffect, ReturnEffect
  <2> QED
    BY <1>1, <2>1, <2>2, <2>3, <2>4, OverWriteStep
<1>3. CASE UNCHANGED docs /\ Raise(c, "ServiceDependencyError")
  BY <1>1, <1>3, RaiseStep
<1>4. CASE UNCHANGED docs /\ Goto(c, "resolve")
  BY <1>1, <1>4, GotoStep DEF Bound
<1> QED
  BY <1>0, <1>2, <1>3, <1>4 DEF RejectUpdate

(* The claim: its filter on PENDING is what makes the winner the only one. *)
LEMMA ClaimStep ==
  ASSUME IInv, NEW c \in Callers, Claim(c)
  PROVE  IInv'
<1>0. PICK i \in Ids : i = call[c].id
  BY CallType DEF Claim, At, CallOK, Bound
<1>1. /\ call[c].pc \in Bound \ Claimed /\ call[c] \in Call /\ i = call[c].id /\ Stored(i)
      /\ docs[i].request = call[c].request /\ call[c].request \in Requests
      /\ UNCHANGED <<now, recovery, policy, provider>>
  BY <1>0, CallType DEF Claim, At, CallOK, Bound
<1>2. CASE /\ ClaimMatches(i, call[c].count) /\ ClaimUpdate(i, call[c].started)
           /\ Goto(c, "send") \/ Raise(c, "ServiceDependencyError")
  <2>1. /\ docs' \in [Ids -> Doc]
        /\ docs'[i].state = "dispatching" /\ docs'[i].request = docs[i].request
        /\ \A k \in Ids : k # i => docs'[k] = docs[k]
    <3>1. call[c].started \in Nat
      BY <1>1 DEF Call
    <3> QED
      BY <1>1, <1>2, <3>1, CallType, ClaimEffect
  <2>2. /\ sends[i] = 0 /\ i \notin delivered
        /\ \A d \in Callers : call[d].pc \in Claimed => call[d].id # i
    BY <1>1, <1>2, UnclaimedIntent DEF ClaimMatches
  <2>3. IntentOK(i)'
    BY <1>1, <2>1, <2>2 DEF IntentOK
  <2>4. CASE Raise(c, "ServiceDependencyError")
    <3>1. \E m : Over(m) /\ Becomes(c, m)
      BY <2>4, CallType, RaiseEffect
    <3> QED
      BY <1>1, <2>1, <2>2, <2>3, <3>1, OverWriteStep
  <2>5. CASE Goto(c, "send")
    <3>1. PICK m : m = [call[c] EXCEPT !.pc = "send"]
      OBVIOUS
    <3>2. m \in Call
      BY <1>1, <3>1 DEF Call
    <3>3. /\ m.pc = "send" /\ m.id = i /\ m.request = call[c].request
          /\ m.reply = call[c].reply
      BY <1>1, <3>1 DEF Call
    <3>4. CallOK(m)'
      BY <1>1, <2>1, <2>2, <3>3, CallType DEF CallOK, Bound, Stored
    <3>5. Becomes(c, m)
      BY <2>5, <3>1 DEF Goto
    <3> QED
      BY <1>1, <2>1, <2>2, <2>3, <3>2, <3>3, <3>4, <3>5, WriteStep
  <2> QED
    BY <1>2, <2>4, <2>5
<1>3. CASE UNCHANGED docs /\ Raise(c, "ServiceDependencyError")
  BY <1>1, <1>3, RaiseStep
<1>4. CASE UNCHANGED docs /\ Goto(c, "resolve")
  BY <1>1, <1>4, GotoStep DEF Bound
<1> QED
  BY <1>0, <1>2, <1>3, <1>4 DEF Claim

(* The provider call: the call is alone with its intent, which nobody can  *)
(* have settled as accepted or rejected yet.                               *)
LEMMA DispatchStep ==
  ASSUME IInv, NEW c \in Callers, Dispatch(c)
  PROVE  IInv'
<1>0. PICK i \in Ids : i = call[c].id
  BY CallType DEF Dispatch, At, CallOK, Bound
<1>1. /\ call[c].pc = "send" /\ call[c] \in Call /\ i = call[c].id /\ CallOK(call[c])
      /\ UNCHANGED <<mongo, policy>>
  BY <1>0, CallType DEF Dispatch, At
<1>2. /\ sends[i] = 0 /\ i \notin delivered
      /\ docs[i].state \in {"dispatching", "unknown"}
  BY <1>1 DEF CallOK, IInv, IntentOK
<1>3. CASE /\ Becomes(c, [call[c] EXCEPT !.pc = "completeFind",
                                         !.result = "provider_not_registered"])
           /\ UNCHANGED provider
  <2>1. PICK m : m = [call[c] EXCEPT !.pc = "completeFind",
                                     !.result = "provider_not_registered"]
    OBVIOUS
  <2>2. m \in Call
    BY <1>1, <2>1 DEF Call
  <2>3. /\ m.pc = "completeFind" /\ m.id = i /\ m.request = call[c].request
        /\ m.reply = call[c].reply /\ m.result = "provider_not_registered"
    BY <1>1, <2>1 DEF Call
  <2>4. CallOK(m)
    BY <1>1, <1>2, <2>3 DEF CallOK, Bound
  <2>5. Becomes(c, m)
    BY <1>3, <2>1
  <2> QED
    BY <1>1, <1>3, <2>2, <2>3, <2>4, <2>5, ReadStep
<1>4. ASSUME NEW answer \in Terminal, NEW taken \in BOOLEAN,
             answer = "accepted" => taken, answer = "rejected" => ~taken,
             sends' = [sends EXCEPT ![i] = IF @ = 0 THEN 1 ELSE 2],
             delivered' = IF taken THEN delivered \cup {i} ELSE delivered,
             Becomes(c, [call[c] EXCEPT !.pc = "completeFind", !.result = answer,
                                        !.invoked = TRUE, !.contacted = TRUE])
      PROVE  IInv'
  <2>1. PICK m : m = [call[c] EXCEPT !.pc = "completeFind", !.result = answer,
                                     !.invoked = TRUE, !.contacted = TRUE]
    OBVIOUS
  <2>2. m \in Call
    BY <1>1, <2>1 DEF Call
  <2>3. /\ m.pc = "completeFind" /\ m.id = i /\ m.request = call[c].request
        /\ m.reply = call[c].reply /\ m.result = answer
    BY <1>1, <2>1 DEF Call
  <2>4. /\ call' \in [Callers -> Call]
        /\ call'[c] = m
        /\ \A d \in Callers : d # c => call'[d] = call[d]
    BY <1>4, <2>1, <2>2, CallType, BecomesEffect
  <2>5. /\ sends' \in [Ids -> 0..2] /\ sends'[i] = 1
        /\ \A k \in Ids : k # i => sends'[k] = sends[k]
    BY <1>2, <1>4 DEF IInv, TypeOK
  <2>6. /\ delivered' \subseteq Ids
        /\ i \in delivered' <=> taken
        /\ \A k \in Ids : k # i => (k \in delivered' <=> k \in delivered)
    BY <1>2, <1>4 DEF IInv, TypeOK
  <2>7. StateOf(answer) = answer
    BY DEF StateOf
  <2>8. TypeOK'
    BY <1>1, <2>4, <2>5, <2>6 DEF IInv, TypeOK, IntentsTypeOK
  <2>9. \A d \in Callers : CallOK(call[d])'
    <3> SUFFICES ASSUME NEW d \in Callers PROVE CallOK(call[d])'
      OBVIOUS
    <3>1. CASE d = c
      BY <1>1, <1>2, <1>4, <2>3, <2>4, <2>6, <2>7, <3>1 DEF CallOK, Bound, Stored
    <3>2. CASE d # c
      <4>1. call[d].pc \in Claimed => call[d].id # i
        BY <1>1, <3>2 DEF IInv, Apart, At
      <4>2. CallOK(call[d])
        BY CallType
      <4> QED
        BY <1>1, <2>4, <2>5, <2>6, <3>2, <4>1, <4>2, CallStable DEF CallOK, Bound, Stored
    <3> QED
      BY <3>1, <3>2
  <2>10. Apart'
    <3> SUFFICES ASSUME NEW d \in Callers, NEW e \in Callers, d # e
                 PROVE  /\ call'[d].pc = "upsert" => call'[e].id # call'[d].id
                        /\ call'[d].pc \in Claimed /\ call'[e].pc \in Claimed
                             => call'[e].id # call'[d].id
      BY DEF Apart, At
    <3>1. \A f \in Callers : /\ call'[f].id = call[f].id
                             /\ call'[f].pc \in Claimed <=> call[f].pc \in Claimed
                             /\ call'[f].pc = "upsert" => call[f].pc = "upsert"
      BY <1>1, <2>3, <2>4
    <3> QED
      BY <3>1 DEF IInv, Apart, At
  <2>11. \A k \in Ids : IntentOK(k)'
    BY <1>1, <1>2, <2>5, <2>6 DEF IInv, IntentOK
  <2>12. /\ (\A j \in Recoverers : recovery[j].pc # "idle" => recovery[j].batch # <<>>)'
         /\ (UniqueScope => ScopeUnique)'
    BY <1>1 DEF IInv, ScopeUnique, Stored
  <2> QED
    BY <2>8, <2>9, <2>10, <2>11, <2>12 DEF IInv
<1> QED
  BY <1>0, <1>3, <1>4 DEF Dispatch

(* A completion settles the intent its call claimed.                       *)
LEMMA CompleteStep ==
  ASSUME IInv, NEW c \in Callers, Complete(c)
  PROVE  IInv'
<1>0. PICK i \in Ids : i = call[c].id
  BY CallType DEF Complete, At, CallOK, Bound
<1>1. /\ call[c].pc = "completeUpdate" /\ call[c] \in Call /\ CallOK(call[c])
      /\ i = call[c].id /\ Stored(i)
      /\ UNCHANGED <<now, recovery, policy, provider>>
  BY <1>0, CallType DEF Complete, At, CallOK, Bound
<1>2. CASE /\ CompleteMatches(i, "dispatching", call[c].count)
           /\ CompleteUpdate(i, "dispatching", call[c].count, call[c].result)
           /\ Return(c, call[c].result) \/ CompletionFails(c)
  <2>1. /\ call[c].result \in Results
        /\ call[c].result = "accepted" => i \in delivered
        /\ StateOf(call[c].result) = "rejected" => i \notin delivered
    BY <1>1 DEF CallOK
  <2>2. /\ docs' \in [Ids -> Doc]
        /\ docs'[i].state = StateOf(call[c].result) /\ docs'[i].request = docs[i].request
        /\ \A k \in Ids : k # i => docs'[k] = docs[k]
    BY <1>2, <2>1, CallType, CompleteEffect
  <2>3. StateOf(call[c].result) \in Terminal
        /\ (StateOf(call[c].result) = "accepted" => call[c].result = "accepted")
    BY <2>1, StateOfTerminal DEF StateOf
  <2>4. \A d \in Callers : d # c /\ call[d].pc \in Claimed => call[d].id # i
    BY <1>1 DEF IInv, Apart
  <2>5. IntentOK(i)
    BY DEF IInv
  <2>6. IntentOK(i)'
    BY <1>1, <2>1, <2>2, <2>3, <2>5 DEF IntentOK
  <2>7. \E m : Over(m) /\ Becomes(c, m)
    BY <1>2, <2>1, CallType, RaiseEffect, ReturnEffect DEF CompletionFails
  <2> QED
    BY <1>1, <2>2, <2>3, <2>4, <2>6, <2>7, OverWriteStep
<1>3. CASE UNCHANGED docs /\ CompletionFails(c)
  BY <1>1, <1>3, RaiseStep DEF CompletionFails
<1> QED
  BY <1>0, <1>2, <1>3 DEF Complete

-----------------------------------------------------------------------------
(* Recovery jobs, policies and the clock.                                  *)

Job == [pc : {"idle", "find", "update"}, batch : Seq(Ids), count : Nat]

Recoveries == {rec \in [Recoverers -> Job] :
                 \A j \in Recoverers : rec[j].pc # "idle" => rec[j].batch # <<>>}

(* The jobs, by what their steps rely on.                                  *)
LEMMA RecoveryType ==
  ASSUME IInv
  PROVE  recovery \in Recoveries
BY DEF IInv, TypeOK, IntentsTypeOK, Recoveries, Job

(* Steps of neither Mongo's intents nor the provider: what a call may rely *)
(* on does not depend on them.                                             *)
LEMMA OtherStep ==
  ASSUME IInv, UNCHANGED <<docs, provider>>,
         recovery' \in Recoveries, now' \in 0..MaxTime,
         eligible' \subseteq Recipients, sessions' \subseteq Text,
         call' \in [Callers -> Call],
         \A d \in Callers : /\ call'[d].pc = call[d].pc /\ call'[d].id = call[d].id
                            /\ call'[d].request = call[d].request
                            /\ call'[d].result = call[d].result
                            /\ call'[d].reply = call[d].reply
  PROVE  IInv'
<1>1. TypeOK'
  BY DEF IInv, TypeOK, IntentsTypeOK, Recoveries, Job
<1>2. \A d \in Callers : CallOK(call[d])'
  BY DEF IInv, CallOK, Stored, Bound
<1>3. Apart'
  BY DEF IInv, Apart, At
<1>4. /\ \A i \in Ids : IntentOK(i)'
      /\ (UniqueScope => ScopeUnique)'
  BY DEF IInv, IntentOK, ScopeUnique, Stored
<1>5. (\A j \in Recoverers : recovery[j].pc # "idle" => recovery[j].batch # <<>>)'
  BY DEF Recoveries
<1> QED
  BY <1>1, <1>2, <1>3, <1>4, <1>5 DEF IInv

(* A job becomes another one of its type,                                  *)
LEMMA JobEffect ==
  ASSUME IInv, NEW j \in Recoverers, NEW job \in Job,
         job.pc # "idle" => job.batch # <<>>, JobBecomes(j, job)
  PROVE  recovery' \in Recoveries
BY RecoveryType DEF JobBecomes, Recoveries

(* or none.                                                                *)
LEMMA IdleEffect ==
  ASSUME IInv, NEW j \in Recoverers, JobBecomes(j, Idle)
  PROVE  recovery' \in Recoveries
<1>1. Idle \in Job /\ Idle.pc = "idle"
  BY DEF Idle, Job
<1> QED
  BY <1>1, JobEffect

(* A batch still has a candidate as long as the job works on it.           *)
LEMMA NextCandidateEffect ==
  ASSUME IInv, NEW j \in Recoverers, recovery[j].pc # "idle", NextCandidate(j)
  PROVE  recovery' \in Recoveries
<1> DEFINE batch == recovery[j].batch
           job == [pc |-> "find", batch |-> Tail(batch), count |-> 0]
<1>1. batch \in Seq(Ids) /\ batch # <<>>
  BY RecoveryType DEF Recoveries, Job
<1>2. CASE Len(batch) = 1
  BY <1>2, IdleEffect DEF NextCandidate
<1>3. CASE Len(batch) # 1
  <2>1. Tail(batch) \in Seq(Ids) /\ Len(Tail(batch)) = Len(batch) - 1 /\ Len(batch) \in Nat
    BY <1>1, HeadTailProperties, LenProperties
  <2>2. Tail(batch) # <<>>
    <3>1. Len(batch) # 0
      BY <1>1, EmptySeq
    <3>2. Len(Tail(batch)) # 0
      BY <1>3, <2>1, <3>1
    <3> QED
      BY <2>1, <3>2, EmptySeq
  <2>3. job \in Job /\ job.batch # <<>>
    BY <2>1, <2>2 DEF Job
  <2>4. JobBecomes(j, job)
    BY <1>3 DEF NextCandidate
  <2> HIDE DEF job
  <2> QED
    BY <2>3, <2>4, JobEffect
<1> QED
  BY <1>2, <1>3

(* A job selects its batch.                                                *)
LEMMA RecoverySelectStep ==
  ASSUME IInv, NEW j \in Recoverers, NEW cutoff, RecoverySelect(j, cutoff),
         UNCHANGED <<call, policy, provider>>
  PROVE  IInv'
<1>1. PICK b \in Batches(cutoff) \ {<<>>} :
        JobBecomes(j, [pc |-> "find", batch |-> b, count |-> 0])
  BY DEF RecoverySelect
<1>2. b \in Seq(Ids)
  <2>1. PICK n \in 0..RecoveryLimit : b \in [1..n -> Stale(cutoff)]
    BY DEF Batches
  <2>2. b \in [1..n -> Ids] /\ n \in Nat
    BY <2>1, MongoAssumption DEF Stale
  <2> QED
    BY <2>2, SeqDef
<1> DEFINE job == [pc |-> "find", batch |-> b, count |-> 0]
<1>3. job \in Job /\ job.batch # <<>>
  BY <1>1, <1>2 DEF Job
<1> HIDE DEF job
<1>4. recovery' \in Recoveries
  BY <1>1, <1>3, JobEffect DEF job
<1> QED
  BY <1>4, OtherStep DEF RecoverySelect, IInv, TypeOK, IntentsTypeOK

(* A job reads its candidate.                                              *)
LEMMA RecoveryFindStep ==
  ASSUME IInv, NEW j \in Recoverers, RecoveryFind(j), UNCHANGED <<call, policy, provider>>
  PROVE  IInv'
<1> DEFINE i == Candidate(j)
           job == [recovery[j] EXCEPT !.pc = "update", !.count = docs[i].attempt_count]
<1>1. recovery[j] \in Job /\ recovery[j].batch # <<>> /\ recovery[j].pc = "find"
  BY RecoveryType DEF RecoveryFind, Recoveries
<1>2. i \in Ids
  BY <1>1, HeadTailProperties DEF Candidate, Job
<1>3. job \in Job /\ job.batch = recovery[j].batch
  <2>1. docs[i] \in Doc
    BY <1>2 DEF IInv, TypeOK, IntentsTypeOK
  <2>2. docs[i].attempt_count \in Nat
    BY <2>1 DEF Doc
  <2> QED
    BY <1>1, <2>2 DEF Job
<1> HIDE DEF i, job
<1>4. recovery' \in Recoveries
  <2>1. CASE NextCandidate(j)
    BY <1>1, <2>1, NextCandidateEffect
  <2>2. CASE JobBecomes(j, job)
    BY <1>1, <1>3, <2>2, JobEffect
  <2> QED
    BY <2>1, <2>2 DEF RecoveryFind, job, i
<1> QED
  BY <1>4, OtherStep DEF RecoveryFind, IInv, TypeOK, IntentsTypeOK

(* Recovery settles a dispatching intent as unknown: its claimant, if it   *)
(* still runs, and the provider keep what they rely on.                    *)
LEMMA RecoveryUpdateStep ==
  ASSUME IInv, NEW j \in Recoverers, RecoveryUpdate(j), UNCHANGED <<call, policy, provider>>
  PROVE  IInv'
<1> DEFINE count == recovery[j].count
<1>1. recovery[j] \in Job /\ recovery[j].batch # <<>> /\ recovery[j].pc = "update"
  BY RecoveryType DEF RecoveryUpdate, Recoveries
<1>2. Candidate(j) \in Ids
  BY <1>1, HeadTailProperties DEF Candidate, Job
<1>3. PICK i \in Ids : i = Candidate(j)
  BY <1>2
<1>4. recovery' \in Recoveries
  <2>1. CASE NextCandidate(j)
    BY <1>1, <2>1, NextCandidateEffect
  <2>2. CASE JobBecomes(j, Idle)
    BY <2>2, IdleEffect
  <2> QED
    BY <2>1, <2>2 DEF RecoveryUpdate
<1>5. CASE UNCHANGED docs
  BY <1>4, <1>5, OtherStep DEF RecoveryUpdate, IInv, TypeOK, IntentsTypeOK
<1>6. CASE /\ CompleteMatches(i, "dispatching", count)
           /\ CompleteUpdate(i, "dispatching", count, "stale_dispatch_recovered")
  <2>1. docs[i].state = "dispatching"
    BY <1>6 DEF CompleteMatches
  <2>2. /\ docs' \in [Ids -> Doc]
        /\ docs'[i].state = "unknown" /\ docs'[i].request = docs[i].request
        /\ \A k \in Ids : k # i => docs'[k] = docs[k]
    <3>1. docs \in [Ids -> Doc] /\ "stale_dispatch_recovered" \in Results
      BY DEF IInv, TypeOK, IntentsTypeOK
    <3> HIDE DEF count
    <3> QED
      BY <1>6, <3>1, CompleteEffect DEF StateOf
  <2>3. TypeOK'
    BY <1>4, <2>2 DEF RecoveryUpdate, IInv, TypeOK, IntentsTypeOK, Recoveries, Job
  <2>4. \A d \in Callers : CallOK(call[d])'
    BY <2>1, <2>2 DEF IInv, CallOK, Stored, Bound
  <2>5. Apart'
    BY DEF IInv, Apart, At
  <2>6. \A k \in Ids : IntentOK(k)'
    BY <2>1, <2>2 DEF IInv, IntentOK
  <2>7. (\A k \in Recoverers : recovery[k].pc # "idle" => recovery[k].batch # <<>>)'
    BY <1>4 DEF Recoveries
  <2>8. (UniqueScope => ScopeUnique)'
    BY <2>1, <2>2 DEF IInv, ScopeUnique, Stored
  <2> QED
    BY <2>3, <2>4, <2>5, <2>6, <2>7, <2>8 DEF IInv
<1> QED
  BY <1>3, <1>5, <1>6 DEF RecoveryUpdate

(* A job ends in the middle of its batch.                                  *)
LEMMA RecoveryAbortsStep ==
  ASSUME IInv, NEW j \in Recoverers, RecoveryAborts(j), UNCHANGED <<call, policy, provider>>
  PROVE  IInv'
<1>1. recovery' \in Recoveries
  BY IdleEffect DEF RecoveryAborts
<1> QED
  BY <1>1, OtherStep DEF RecoveryAborts, IInv, TypeOK, IntentsTypeOK

(* What a call remembers of the policies is no part of what it relies on.  *)
LEMMA ChangeEligibilityStep ==
  ASSUME IInv, NEW p \in PolicyMoves, ChangeEligibility(p)
  PROVE  IInv'
<1>1. eligible' \subseteq Recipients
  BY ServiceAssumption DEF ChangeEligibility, Toggle, IInv, TypeOK
<1> DEFINE F(d, x) == [call[d] EXCEPT !.wasEligible = x]
           seen(d) == call[d].wasEligible \/ (Running(d) /\ RecipientOf[call[d].request] \in eligible')
<1>2. \A d \in Callers : \A x \in BOOLEAN :
        /\ F(d, x) \in Call
        /\ F(d, x).pc = call[d].pc /\ F(d, x).id = call[d].id
        /\ F(d, x).request = call[d].request /\ F(d, x).result = call[d].result
        /\ F(d, x).reply = call[d].reply
  BY CallType DEF Call
<1>3. \A d \in Callers : seen(d) \in BOOLEAN
  OBVIOUS
<1>4. call' = [d \in Callers |-> F(d, seen(d))]
  BY DEF ChangeEligibility
<1> HIDE DEF F, seen
<1>5. call' \in [Callers -> Call]
  BY <1>2, <1>3, <1>4
<1>6. \A d \in Callers : /\ call'[d].pc = call[d].pc /\ call'[d].id = call[d].id
                         /\ call'[d].request = call[d].request
                         /\ call'[d].result = call[d].result
                         /\ call'[d].reply = call[d].reply
  BY <1>2, <1>3, <1>4
<1>7. recovery' \in Recoveries /\ now' \in 0..MaxTime /\ sessions' \subseteq Text
  BY RecoveryType DEF ChangeEligibility, IInv, TypeOK, IntentsTypeOK
<1>8. UNCHANGED <<docs, provider>>
  BY DEF ChangeEligibility
<1> QED
  BY <1>1, <1>5, <1>6, <1>7, <1>8, OtherStep

(* The same for the sessions.                                              *)
LEMMA ChangeSessionStep ==
  ASSUME IInv, NEW r \in SessionMoves, ChangeSession(r)
  PROVE  IInv'
<1>1. sessions' \subseteq Text
  BY ServiceAssumption DEF ChangeSession, Toggle, IInv, TypeOK
<1> DEFINE F(d, x) == [call[d] EXCEPT !.hadSession = x]
           seen(d) == call[d].hadSession \/ (Running(d) /\ call[d].request \in sessions')
<1>2. \A d \in Callers : \A x \in BOOLEAN :
        /\ F(d, x) \in Call
        /\ F(d, x).pc = call[d].pc /\ F(d, x).id = call[d].id
        /\ F(d, x).request = call[d].request /\ F(d, x).result = call[d].result
        /\ F(d, x).reply = call[d].reply
  BY CallType DEF Call
<1>3. \A d \in Callers : seen(d) \in BOOLEAN
  OBVIOUS
<1>4. call' = [d \in Callers |-> F(d, seen(d))]
  BY DEF ChangeSession
<1> HIDE DEF F, seen
<1>5. call' \in [Callers -> Call]
  BY <1>2, <1>3, <1>4
<1>6. \A d \in Callers : /\ call'[d].pc = call[d].pc /\ call'[d].id = call[d].id
                         /\ call'[d].request = call[d].request
                         /\ call'[d].result = call[d].result
                         /\ call'[d].reply = call[d].reply
  BY <1>2, <1>3, <1>4
<1>7. recovery' \in Recoveries /\ now' \in 0..MaxTime /\ eligible' \subseteq Recipients
  BY RecoveryType DEF ChangeSession, IInv, TypeOK, IntentsTypeOK
<1>8. UNCHANGED <<docs, provider>>
  BY DEF ChangeSession
<1> QED
  BY <1>1, <1>5, <1>6, <1>7, <1>8, OtherStep

(* Time is no part of what calls rely on.                                  *)
LEMMA TickStep ==
  ASSUME IInv, Tick
  PROVE  IInv'
<1>1. now' \in 0..MaxTime
  BY MongoAssumption DEF Tick, IInv, TypeOK, IntentsTypeOK
<1>2. recovery' \in Recoveries
  BY RecoveryType DEF Tick
<1> QED
  BY <1>1, <1>2, OtherStep DEF Tick, IInv, TypeOK

(* Nothing happens.                                                        *)
LEMMA StutterStep ==
  ASSUME IInv, UNCHANGED vars
  PROVE  IInv'
<1>1. recovery' \in Recoveries
  BY RecoveryType DEF vars
<1> QED
  BY <1>1, OtherStep DEF vars, IInv, TypeOK, IntentsTypeOK

-----------------------------------------------------------------------------
(* The inductive invariant.                                                *)

(* The base case,                                                          *)
LEMMA InitIInv ==
  ASSUME Init
  PROVE  IInv
<1>1. \A i \in Ids : docs[i] = Absent
  BY DEF Init, IntentsInit
<1>2. Absent \in Doc /\ Absent.state = "absent"
  <2>1. <<>> \in Seq(Results \cup {NoResult})
    OBVIOUS
  <2> QED
    BY <2>1 DEF Absent, Doc
<1>3. Idle \in Job /\ Idle.pc = "idle"
  BY DEF Idle, Job
<1>4. \A c \in Callers : call[c] = NoCall
  BY DEF Init, ServiceInit
<1>5. NoCall.pc = "idle" /\ NoCall.id = NoId /\ NoCall.reply.kind = "none"
  BY DEF NoCall, NoReply
<1>6. TypeOK
  BY <1>2, <1>3, NoCallType, MongoAssumption
  DEF Init, IntentsInit, ServiceInit, TypeOK, IntentsTypeOK, Job
<1>7. \A c \in Callers : CallOK(call[c])
  BY <1>4, <1>5 DEF CallOK, Bound
<1>8. Apart
  BY <1>4, <1>5 DEF Apart, At
<1>9. \A i \in Ids : IntentOK(i)
  BY <1>1, <1>2 DEF Init, ServiceInit, IntentOK
<1>10. \A j \in Recoverers : recovery[j].pc # "idle" => recovery[j].batch # <<>>
  BY <1>3 DEF Init, IntentsInit
<1>11. UniqueScope => ScopeUnique
  BY <1>1, <1>2 DEF ScopeUnique, Stored
<1> QED
  BY <1>6, <1>7, <1>8, <1>9, <1>10, <1>11 DEF IInv

(* and the step: one lemma for each action.                                *)
LEMMA NextIInv ==
  ASSUME IInv, [Next]_vars
  PROVE  IInv'
<1>1. ASSUME NEW c \in Callers, CallStep(c)
      PROVE  IInv'
  BY <1>1, GetIntentStep, UpsertStep, ReadBackStep, EvaluateStep, RejectFindStep,
     RejectUpdateStep, ClaimFindStep, ClaimStep, ResolveStep, DispatchStep,
     CompleteFindStep, CompleteStep DEF CallStep
<1>2. ASSUME NEW j \in Recoverers, RecoveryStep(j)
      PROVE  IInv'
  BY <1>2, RecoverySelectStep, RecoveryFindStep, RecoveryUpdateStep, RecoveryAbortsStep
  DEF RecoveryStep
<1> QED
  BY <1>1, <1>2, StartStep, CrashStep, ChangeEligibilityStep, ChangeSessionStep, TickStep,
     StutterStep DEF Next

(* The service never leaves the inductive invariant: whatever calls,       *)
(* recovery jobs, crashes and lost replies interleave, each call still     *)
(* finds the intent it works on, and record and provider agree.            *)
THEOREM Invariance == Spec => []IInv
<1>1. Init => IInv
  BY InitIInv
<1>2. IInv /\ [Next]_vars => IInv'
  BY NextIInv
<1> QED
  BY <1>1, <1>2, PTL DEF Spec

(* Every variable of the service keeps its type: documents, calls and      *)
(* batches are always of the shapes the code builds.                       *)
THEOREM TypeCorrect == Spec => []TypeOK
<1>1. IInv => TypeOK
  BY DEF IInv
<1> QED
  BY <1>1, Invariance, PTL

(* claim() lets one call through: no intent is handed to the provider      *)
(* twice, with or without the unique scope index.                          *)
THEOREM IntentSentOnce == Spec => []IntentSentAtMostOnce
<1>1. IInv => IntentSentAtMostOnce
  BY DEF IInv, IntentOK, IntentSentAtMostOnce
<1> QED
  BY <1>1, Invariance, PTL

(* With the unique index create_if_absent() files one intent per scope.    *)
THEOREM OneIntentPerScope ==
  ASSUME UniqueScope
  PROVE  Spec => []ScopeUnique
<1>1. IInv => ScopeUnique
  BY DEF IInv
<1> QED
  BY <1>1, Invariance, PTL

(* The two together: with the unique index an idempotency key is worth at  *)
(* most one call of the provider, over every intent, request and caller.   *)
THEOREM ScopeSentOnce ==
  ASSUME UniqueScope
  PROVE  Spec => []ScopeSentAtMostOnce
<1>1. IInv => ScopeSentAtMostOnce
  BY DEF IInv, IntentOK, IntentSentAtMostOnce, ScopeSentAtMostOnce, ScopeUnique
<1> QED
  BY <1>1, Invariance, PTL

(* An intent recorded as accepted was taken by the provider and one        *)
(* recorded as rejected was not, for a provider that answers truthfully.   *)
THEOREM RecordedOutcomeIsTrue == Spec => []OutcomeIsTrue
<1>1. IInv => OutcomeIsTrue
  BY DEF IInv, IntentOK, OutcomeIsTrue
<1> QED
  BY <1>1, Invariance, PTL

(* The IntentStateError of _resolve_claim_race is unreachable: an intent   *)
(* a call has seen does not disappear from its scope.                      *)
THEOREM IntentsDoNotDisappear == Spec => []NoStateError
<1>1. IInv => NoStateError
  BY DEF IInv, CallOK, NoStateError
<1> QED
  BY <1>1, Invariance, PTL

-----------------------------------------------------------------------------
(* The attempts of a document.                                             *)

Coherent(d) ==
  /\ d.attempt_count = Len(d.attempts)
  /\ d.state \in {"absent", "pending"} => d.result = NoResult /\ d.attempts = <<>>
  /\ d.state = "dispatching" => d.result = NoResult /\ d.attempts = <<NoResult>>
  /\ d.state \in Terminal =>
       /\ d.state = StateOf(d.result)
       /\ d.attempts = IF d.result = "policy_rejected" THEN <<>> ELSE <<d.result>>

(* A new document has no attempts.                                         *)
LEMMA NewIsCoherent == ASSUME NEW r \in Requests PROVE Coherent(NewDoc(r))
BY DEF Coherent, NewDoc, Absent

(* A claim opens the first attempt.                                        *)
LEMMA ClaimedIsCoherent ==
  ASSUME NEW d \in Doc, Coherent(d), d.state = "pending", NEW t \in Nat
  PROVE  Coherent(ClaimedDoc(d, t))
<1>1. d.attempts = <<>> /\ d.attempt_count = 0 /\ d.result = NoResult
  BY DEF Coherent
<1>2. /\ ClaimedDoc(d, t).state = "dispatching" /\ ClaimedDoc(d, t).result = NoResult
      /\ ClaimedDoc(d, t).attempt_count = 1
      /\ ClaimedDoc(d, t).attempts = Append(<<>>, NoResult)
  BY <1>1 DEF ClaimedDoc, Doc
<1>3. Append(<<>>, NoResult) = <<NoResult>> /\ Len(<<NoResult>>) = 1
  OBVIOUS
<1> QED
  BY <1>2, <1>3 DEF Coherent

(* A completion of either kind closes the open attempt, if there is one.   *)
LEMMA CompletedIsCoherent ==
  ASSUME NEW d \in Doc, Coherent(d), NEW expected \in {"pending", "dispatching"},
         d.state = expected, NEW result \in Results,
         expected = "pending" <=> result = "policy_rejected"
  PROVE  Coherent(CompletedDoc(d, expected, d.attempt_count, result))
<1> DEFINE e == CompletedDoc(d, expected, d.attempt_count, result)
<1>1. /\ e.state = StateOf(result) /\ e.result = result
      /\ e.attempt_count = d.attempt_count
  BY DEF CompletedDoc, Doc
<1>2. StateOf(result) \in Terminal
  BY StateOfTerminal
<1>3. CASE expected = "pending"
  <2>1. e.attempts = d.attempts /\ d.attempts = <<>> /\ d.attempt_count = 0
    BY <1>3 DEF CompletedDoc, Doc, Coherent
  <2> QED
    BY <1>1, <1>2, <1>3, <2>1 DEF Coherent
<1>4. CASE expected = "dispatching"
  <2>1. d.attempts = <<NoResult>> /\ d.attempt_count = 1
    BY <1>4 DEF Coherent
  <2>2. e.attempts = [<<NoResult>> EXCEPT ![1] = result]
    BY <1>4, <2>1 DEF CompletedDoc, Doc
  <2>3. [<<NoResult>> EXCEPT ![1] = result] = <<result>> /\ Len(<<result>>) = 1
    OBVIOUS
  <2> QED
    BY <1>1, <1>2, <1>4, <2>1, <2>2, <2>3 DEF Coherent
<1> QED
  BY <1>3, <1>4

(* One document's write keeps the others as they are.                      *)
LEMMA OneDocument ==
  ASSUME docs \in [Ids -> Doc], NEW i \in Ids, NEW d, docs' = [docs EXCEPT ![i] = d],
         Coherent(d), NEW k \in Ids, Coherent(docs[k])
  PROVE  Coherent(docs'[k])
BY DEF Doc

(* Each write of a call,                                                   *)
LEMMA CallIsCoherent ==
  ASSUME IInv, \A k \in Ids : Coherent(docs[k]), NEW c \in Callers, CallStep(c), NEW k \in Ids
  PROVE  Coherent(docs'[k])
<1>1. docs \in [Ids -> Doc] /\ CallOK(call[c]) /\ call[c] \in Call
  BY CallType
<1>2. CASE UNCHANGED docs
  BY <1>2
<1>3. CASE At(c, "upsert") /\ Insert(call[c].id, call[c].request)
  BY <1>1, <1>3, NewIsCoherent, OneDocument DEF At, CallOK, Insert
<1>4. CASE /\ At(c, "rejectUpdate") /\ CompleteMatches(call[c].id, "pending", 0)
           /\ CompleteUpdate(call[c].id, "pending", 0, "policy_rejected")
  <2>1. call[c].id \in Ids /\ docs[call[c].id].state = "pending"
    BY <1>1, <1>4 DEF At, CallOK, Bound, CompleteMatches
  <2>2. docs[call[c].id].attempt_count = 0
    BY <1>1, <2>1 DEF Coherent
  <2>3. Coherent(CompletedDoc(docs[call[c].id], "pending", 0, "policy_rejected"))
    BY <1>1, <2>1, <2>2, CompletedIsCoherent
  <2> QED
    BY <1>1, <1>4, <2>1, <2>3, OneDocument DEF CompleteUpdate
<1>5. CASE /\ At(c, "claimUpdate") /\ ClaimMatches(call[c].id, call[c].count)
           /\ ClaimUpdate(call[c].id, call[c].started)
  <2>1. /\ call[c].id \in Ids /\ docs[call[c].id].state = "pending"
        /\ call[c].started \in Nat
    BY <1>1, <1>5 DEF At, CallOK, Bound, ClaimMatches, Call
  <2>2. Coherent(ClaimedDoc(docs[call[c].id], call[c].started))
    BY <1>1, <2>1, ClaimedIsCoherent
  <2> QED
    BY <1>1, <1>5, <2>1, <2>2, OneDocument DEF ClaimUpdate
<1>6. CASE /\ At(c, "completeUpdate")
           /\ CompleteMatches(call[c].id, "dispatching", call[c].count)
           /\ CompleteUpdate(call[c].id, "dispatching", call[c].count, call[c].result)
  <2>1. /\ call[c].id \in Ids /\ docs[call[c].id].state = "dispatching"
        /\ docs[call[c].id].attempt_count = call[c].count
        /\ call[c].result \in Results /\ call[c].result # "policy_rejected"
    BY <1>1, <1>6 DEF At, CallOK, Bound, CompleteMatches
  <2>2. Coherent(CompletedDoc(docs[call[c].id], "dispatching", call[c].count, call[c].result))
    BY <1>1, <2>1, CompletedIsCoherent
  <2> QED
    BY <1>1, <1>6, <2>1, <2>2, OneDocument DEF CompleteUpdate
<1> QED
  BY <1>2, <1>3, <1>4, <1>5, <1>6
  DEF CallStep, GetIntent, UpsertIntent, ReadBack, EvaluateRecipient, EvaluateSession,
      RejectFind, RejectUpdate, ClaimFind, Claim, Resolve, Dispatch, CompleteFind, Complete

(* and of a job, keeps the attempts with the state.                        *)
LEMMA RecoveryIsCoherent ==
  ASSUME IInv, \A k \in Ids : Coherent(docs[k]), NEW j \in Recoverers, RecoveryStep(j),
         NEW k \in Ids
  PROVE  Coherent(docs'[k])
<1>1. CASE UNCHANGED docs
  BY <1>1
<1>2. CASE /\ recovery[j].pc = "update"
           /\ CompleteMatches(Candidate(j), "dispatching", recovery[j].count)
           /\ CompleteUpdate(Candidate(j), "dispatching", recovery[j].count,
                             "stale_dispatch_recovered")
  <2>1. Candidate(j) \in Ids /\ docs \in [Ids -> Doc]
    BY <1>2, RecoveryType, HeadTailProperties
    DEF Recoveries, Job, Candidate, IInv, TypeOK, IntentsTypeOK
  <2>2. /\ docs[Candidate(j)].state = "dispatching"
        /\ docs[Candidate(j)].attempt_count = recovery[j].count
    BY <1>2 DEF CompleteMatches
  <2>3. Coherent(CompletedDoc(docs[Candidate(j)], "dispatching", recovery[j].count,
                              "stale_dispatch_recovered"))
    BY <2>1, <2>2, CompletedIsCoherent
  <2> QED
    BY <1>2, <2>1, <2>3, OneDocument DEF CompleteUpdate
<1> QED
  BY <1>1, <1>2
  DEF RecoveryStep, RecoverySelect, RecoveryFind, RecoveryUpdate, RecoveryAborts

(* The attempts of every document agree with its state, whatever the order *)
(* of claims, rejections, completions and recovery: _validate_attempts and *)
(* complete() have no reason to raise MongoRecordError.                    *)
THEOREM AttemptsAgree == Spec => []AttemptsCoherent
<1>1. AttemptsCoherent <=> \A k \in Ids : Coherent(docs[k])
  BY DEF AttemptsCoherent, Coherent
<1>2. Init => AttemptsCoherent
  BY <1>1 DEF Init, IntentsInit, Absent, Coherent
<1>3. IInv /\ AttemptsCoherent /\ [Next]_vars => AttemptsCoherent'
  <2> SUFFICES ASSUME IInv, AttemptsCoherent, [Next]_vars
               PROVE  AttemptsCoherent'
    OBVIOUS
  <2>1. \A k \in Ids : Coherent(docs[k])
    BY <1>1
  <2>2. ASSUME NEW c \in Callers, CallStep(c)
        PROVE  \A k \in Ids : Coherent(docs'[k])
    BY <2>1, <2>2, CallIsCoherent
  <2>3. ASSUME NEW j \in Recoverers, RecoveryStep(j)
        PROVE  \A k \in Ids : Coherent(docs'[k])
    BY <2>1, <2>3, RecoveryIsCoherent
  <2>4. \/ \E c \in Callers : (\E r \in Requests : Start(c, r)) \/ Crash(c)
        \/ \E p \in PolicyMoves : ChangeEligibility(p)
        \/ \E r \in SessionMoves : ChangeSession(r)
        \/ Tick
        \/ UNCHANGED vars
        => docs' = docs
    BY DEF Start, Crash, ChangeEligibility, ChangeSession, Tick, vars
  <2>5. \A k \in Ids : Coherent(docs'[k])
    BY <2>1, <2>2, <2>3, <2>4 DEF Next
  <2> QED
    BY <2>5 DEF AttemptsCoherent, Coherent
<1> QED
  BY <1>2, <1>3, Invariance, PTL DEF Spec

-----------------------------------------------------------------------------
(* Recorded outcomes are final: what each write does to every document.    *)

(* Each write moves its intent forward: the insert,                        *)
LEMMA UpsertIsForward ==
  ASSUME IInv, NEW c \in Callers, UpsertIntent(c), NEW k \in Ids
  PROVE  IntentStep(k)
<1>1. /\ call[c].pc = "upsert" /\ call[c].id \in Ids /\ ~Stored(call[c].id)
      /\ call[c].request \in Requests /\ docs \in [Ids -> Doc]
  BY CallType DEF UpsertIntent, At, CallOK
<1>2. CASE UNCHANGED docs
  BY <1>2 DEF IntentStep
<1>3. CASE Insert(call[c].id, call[c].request)
  <2>1. \A i \in Ids : i # call[c].id => docs'[i] = docs[i]
    BY <1>1, <1>3, InsertEffect
  <2> QED
    BY <1>1, <2>1 DEF IntentStep, Stored
<1> QED
  BY <1>2, <1>3 DEF UpsertIntent

(* the local rejection,                                                    *)
LEMMA RejectIsForward ==
  ASSUME IInv, NEW c \in Callers, RejectUpdate(c), NEW k \in Ids
  PROVE  IntentStep(k)
<1>1. call[c].id \in Ids /\ docs \in [Ids -> Doc]
  BY CallType DEF RejectUpdate, At, CallOK, Bound
<1>2. CASE UNCHANGED docs
  BY <1>2 DEF IntentStep
<1>3. CASE /\ CompleteMatches(call[c].id, "pending", 0)
           /\ CompleteUpdate(call[c].id, "pending", 0, "policy_rejected")
  <2>1. /\ docs'[call[c].id].state = "rejected"
        /\ docs'[call[c].id].request = docs[call[c].id].request
        /\ \A i \in Ids : i # call[c].id => docs'[i] = docs[i]
    BY <1>1, <1>3, CompleteEffect DEF StateOf
  <2> QED
    BY <1>3, <2>1 DEF IntentStep, CompleteMatches
<1> QED
  BY <1>2, <1>3 DEF RejectUpdate

(* the claim,                                                              *)
LEMMA ClaimIsForward ==
  ASSUME IInv, NEW c \in Callers, Claim(c), NEW k \in Ids
  PROVE  IntentStep(k)
<1>1. call[c].id \in Ids /\ docs \in [Ids -> Doc] /\ call[c].started \in Nat
  BY CallType DEF Claim, At, CallOK, Bound, Call
<1>2. CASE UNCHANGED docs
  BY <1>2 DEF IntentStep
<1>3. CASE ClaimMatches(call[c].id, call[c].count) /\ ClaimUpdate(call[c].id, call[c].started)
  <2>1. /\ docs'[call[c].id].state = "dispatching"
        /\ docs'[call[c].id].request = docs[call[c].id].request
        /\ \A i \in Ids : i # call[c].id => docs'[i] = docs[i]
    BY <1>1, <1>3, ClaimEffect
  <2> QED
    BY <1>3, <2>1 DEF IntentStep, ClaimMatches
<1> QED
  BY <1>2, <1>3 DEF Claim

(* the completion,                                                         *)
LEMMA CompleteIsForward ==
  ASSUME IInv, NEW c \in Callers, Complete(c), NEW k \in Ids
  PROVE  IntentStep(k)
<1>1. call[c].id \in Ids /\ docs \in [Ids -> Doc] /\ call[c].result \in Results
  BY CallType DEF Complete, At, CallOK, Bound
<1>2. CASE UNCHANGED docs
  BY <1>2 DEF IntentStep
<1>3. CASE /\ CompleteMatches(call[c].id, "dispatching", call[c].count)
           /\ CompleteUpdate(call[c].id, "dispatching", call[c].count, call[c].result)
  <2>1. /\ docs'[call[c].id].state = StateOf(call[c].result)
        /\ docs'[call[c].id].request = docs[call[c].id].request
        /\ \A i \in Ids : i # call[c].id => docs'[i] = docs[i]
    BY <1>1, <1>3, CompleteEffect
  <2>2. StateOf(call[c].result) \in Terminal
    BY <1>1, StateOfTerminal
  <2> QED
    BY <1>3, <2>1, <2>2 DEF IntentStep, CompleteMatches
<1> QED
  BY <1>2, <1>3 DEF Complete

(* and the recovery.                                                       *)
LEMMA RecoveryIsForward ==
  ASSUME IInv, NEW j \in Recoverers, RecoveryUpdate(j), NEW k \in Ids
  PROVE  IntentStep(k)
<1>1. Candidate(j) \in Ids /\ docs \in [Ids -> Doc]
  BY RecoveryType, HeadTailProperties
  DEF RecoveryUpdate, Recoveries, Job, Candidate, IInv, TypeOK, IntentsTypeOK
<1>2. CASE UNCHANGED docs
  BY <1>2 DEF IntentStep
<1>3. CASE /\ CompleteMatches(Candidate(j), "dispatching", recovery[j].count)
           /\ CompleteUpdate(Candidate(j), "dispatching", recovery[j].count,
                             "stale_dispatch_recovered")
  <2>1. /\ docs'[Candidate(j)].state = "unknown"
        /\ docs'[Candidate(j)].request = docs[Candidate(j)].request
        /\ \A i \in Ids : i # Candidate(j) => docs'[i] = docs[i]
    BY <1>1, <1>3, CompleteEffect DEF StateOf
  <2> QED
    BY <1>3, <2>1 DEF IntentStep, CompleteMatches
<1> QED
  BY <1>2, <1>3 DEF RecoveryUpdate

(* Every step moves every intent forward or leaves it.                     *)
LEMMA NextIsForward ==
  ASSUME IInv, [Next]_vars, NEW k \in Ids
  PROVE  IntentStep(k)
<1>1. ASSUME NEW c \in Callers, CallStep(c)
      PROVE  IntentStep(k)
  <2>1. UNCHANGED docs => IntentStep(k)
    BY DEF IntentStep
  <2> QED
    BY <1>1, <2>1, UpsertIsForward, RejectIsForward, ClaimIsForward, CompleteIsForward
    DEF CallStep, GetIntent, ReadBack, EvaluateRecipient, EvaluateSession, RejectFind,
      ClaimFind, Resolve, Dispatch, CompleteFind, mongo
<1>2. ASSUME NEW j \in Recoverers, RecoveryStep(j)
      PROVE  IntentStep(k)
  <2>1. UNCHANGED docs => IntentStep(k)
    BY DEF IntentStep
  <2> QED
    BY <1>2, <2>1, RecoveryIsForward
    DEF RecoveryStep, RecoverySelect, RecoveryFind, RecoveryAborts
<1>3. \/ \E c \in Callers : (\E r \in Requests : Start(c, r)) \/ Crash(c)
      \/ \E p \in PolicyMoves : ChangeEligibility(p)
      \/ \E r \in SessionMoves : ChangeSession(r)
      \/ Tick
      \/ UNCHANGED vars
      => UNCHANGED docs
  BY DEF Start, Crash, ChangeEligibility, ChangeSession, Tick, vars, mongo
<1> QED
  BY <1>1, <1>2, <1>3 DEF Next, IntentStep

(* No late answer, recovery batch, second claim or crash rewrites an       *)
(* outcome once complete() recorded it, and no intent goes back a state.   *)
THEOREM OutcomesFinal == Spec => OutcomesAreFinal
<1>1. IInv /\ [Next]_vars => [\A i \in Ids : IntentStep(i)]_docs
  BY NextIsForward
<1> QED
  BY <1>1, Invariance, PTL DEF Spec, OutcomesAreFinal

-----------------------------------------------------------------------------
(* What callers are told.                                                  *)

Saving == {"completeFind", "completeUpdate"}

\* The kinds of reply that tell whether the provider was reached.
Before == {"IdempotencyConflictError", "IntentInProgressError", "ServiceDependencyError"}

\* A running call knows whether it reached the provider, and says so when it ends.
HonestCall(m) ==
  /\ m.pc # "idle" => m.reply = NoReply
  /\ m.pc \notin Saving \cup {"idle"} => m.contacted = FALSE /\ m.invoked = FALSE
  /\ m.pc \in Saving => m.invoked = m.contacted
  /\ m.reply.kind = "PostDispatchPersistenceError" => m.contacted = TRUE
  /\ m.reply.kind \in Before => m.contacted = FALSE
  /\ m.reply.kind = "result" /\ m.reply.replay = TRUE => m.contacted = FALSE

(* How a call may end.                                                     *)
LEMMA RaiseEnds ==
  ASSUME NEW c \in Callers, call \in [Callers -> Call], NEW e, Raise(c, e)
  PROVE  /\ call'[c].pc = "idle" /\ call'[c].request = call[c].request
         /\ call'[c].contacted = call[c].contacted /\ call'[c].reply.kind = e
         /\ \A d \in Callers : d # c => call'[d] = call[d]
BY DEF Raise, Finish, Becomes, NoCall, NoReply

(* The same with a result.                                                 *)
LEMMA ResultEnds ==
  ASSUME NEW c \in Callers, call \in [Callers -> Call], NEW r, NEW replay \in BOOLEAN,
         Finish(c, [kind |-> "result", result |-> r, replay |-> replay])
  PROVE  /\ call'[c].pc = "idle" /\ call'[c].request = call[c].request
         /\ call'[c].contacted = call[c].contacted
         /\ call'[c].reply = [kind |-> "result", result |-> r, replay |-> replay]
         /\ \A d \in Callers : d # c => call'[d] = call[d]
BY DEF Finish, Becomes, NoCall

(* An error before the completion, a crash at any time.                    *)
LEMMA RaiseIsHonest ==
  ASSUME NEW c \in Callers, IInv, HonestCall(call[c]), NEW e, Raise(c, e),
         e \notin {"PostDispatchPersistenceError", "result"},
         call[c].pc \notin Saving \cup {"idle"} \/ e = "crashed"
  PROVE  HonestCall(call'[c])
BY CallType, RaiseEnds DEF HonestCall, Before, Saving

(* A replay is told by a call that sent nothing.                           *)
LEMMA ReplayIsHonest ==
  ASSUME NEW c \in Callers, IInv, HonestCall(call[c]), NEW r, Replay(c, r),
         call[c].pc \notin Saving \cup {"idle"}
  PROVE  HonestCall(call'[c])
<1>1. call[c].contacted = FALSE
  BY DEF HonestCall
<1>2. /\ call'[c].pc = "idle" /\ call'[c].contacted = call[c].contacted
      /\ call'[c].reply = [kind |-> "result", result |-> r, replay |-> TRUE]
  BY CallType, ResultEnds, Zenon DEF Replay
<1>3. call'[c].reply.kind = "result"
  BY <1>2
<1> QED
  BY <1>1, <1>2, <1>3, Zenon DEF HonestCall, Before, Saving

(* A result of its own says nothing false of the provider.                 *)
LEMMA ReturnIsHonest ==
  ASSUME NEW c \in Callers, IInv, HonestCall(call[c]), NEW r, Return(c, r)
  PROVE  HonestCall(call'[c])
<1>1. /\ call'[c].pc = "idle"
      /\ call'[c].reply = [kind |-> "result", result |-> r, replay |-> FALSE]
  BY CallType, ResultEnds, Zenon DEF Return
<1>2. call'[c].reply.kind = "result" /\ call'[c].reply.replay # TRUE
  BY <1>1
<1> QED
  BY <1>1, <1>2, Zenon DEF HonestCall, Before, Saving

(* A completion that fails says whether the message was handed over.       *)
LEMMA CompletionFailsHonestly ==
  ASSUME NEW c \in Callers, IInv, HonestCall(call[c]), call[c].pc \in Saving,
         CompletionFails(c)
  PROVE  HonestCall(call'[c])
<1>1. call[c].invoked \in BOOLEAN /\ call[c].contacted \in BOOLEAN
  BY CallType DEF Call
<1>2. call[c].invoked = call[c].contacted
  BY DEF HonestCall
<1>3. CASE call[c].invoked
  <2>1. Raise(c, "PostDispatchPersistenceError")
    BY <1>3 DEF CompletionFails
  <2>2. /\ call'[c].pc = "idle" /\ call'[c].contacted = call[c].contacted
        /\ call'[c].reply.kind = "PostDispatchPersistenceError"
    BY <2>1, CallType, RaiseEnds
  <2>3. call[c].contacted = TRUE
    BY <1>1, <1>2, <1>3
  <2> QED
    BY <2>2, <2>3 DEF HonestCall, Before, Saving
<1>4. CASE ~call[c].invoked
  <2>1. Raise(c, "ServiceDependencyError")
    BY <1>4 DEF CompletionFails
  <2> QED
    BY <1>1, <1>2, <1>4, <2>1, CallType, RaiseEnds DEF HonestCall, Before, Saving
<1> QED
  BY <1>3, <1>4

(* A call that goes on, short of the provider or after it.                 *)
LEMMA GoesOnHonestly ==
  ASSUME NEW c \in Callers, IInv, HonestCall(call[c]), NEW m, Becomes(c, m),
         call[c].pc # "idle", m.pc # "idle", m.reply = call[c].reply,
         m.contacted = call[c].contacted, m.invoked = call[c].invoked,
         m.pc \in Saving <=> call[c].pc \in Saving
  PROVE  HonestCall(call'[c])
<1>1. call'[c] = m
  BY CallType DEF Becomes
<1> QED
  BY <1>1 DEF HonestCall, NoReply, Before, Saving


(* In particular to another step.                                          *)
LEMMA GotoIsHonest ==
  ASSUME NEW c \in Callers, IInv, HonestCall(call[c]), NEW pc, Goto(c, pc),
         call[c].pc \notin Saving \cup {"idle"}, pc \notin Saving \cup {"idle"}
  PROVE  HonestCall(call'[c])
<1> DEFINE m == [call[c] EXCEPT !.pc = pc]
<1>1. /\ m.pc = pc /\ m.reply = call[c].reply /\ m.contacted = call[c].contacted
      /\ m.invoked = call[c].invoked
  BY CallType DEF Call
<1>2. Becomes(c, m)
  BY DEF Goto
<1> HIDE DEF m
<1> QED
  BY <1>1, <1>2, GoesOnHonestly

(* The errors of _continue_intent come before the provider is called.      *)
LEMMA ContinuesHonestly ==
  ASSUME NEW c \in Callers, IInv, HonestCall(call[c]), NEW i, ContinueIntent(c, i),
         call[c].pc \notin Saving \cup {"idle"}
  PROVE  HonestCall(call'[c])
<1>1. CASE \E e \in Before : Raise(c, e)
  BY <1>1, RaiseIsHonest DEF Before
<1>2. CASE Replay(c, docs[i].result)
  BY <1>2, ReplayIsHonest
<1>3. CASE Becomes(c, [call[c] EXCEPT !.pc = "policy", !.id = i])
  <2> DEFINE m == [call[c] EXCEPT !.pc = "policy", !.id = i]
  <2>1. /\ m.pc = "policy" /\ m.reply = call[c].reply /\ m.contacted = call[c].contacted
        /\ m.invoked = call[c].invoked
    BY CallType DEF Call
  <2>2. Becomes(c, m)
    BY <1>3
  <2> HIDE DEF m
  <2> QED
    BY <2>1, <2>2, GoesOnHonestly DEF Saving
<1> QED
  BY <1>1, <1>2, <1>3 DEF ContinueIntent, Before

(* The provider call: from here on the call knows whether it was made.     *)
LEMMA DispatchIsHonest ==
  ASSUME NEW c \in Callers, IInv, HonestCall(call[c]), Dispatch(c)
  PROVE  HonestCall(call'[c])
<1> DEFINE n == [call[c] EXCEPT !.pc = "completeFind", !.result = "provider_not_registered"]
           m(answer) == [call[c] EXCEPT !.pc = "completeFind", !.result = answer,
                                        !.invoked = TRUE, !.contacted = TRUE]
<1>1. /\ call[c].pc = "send" /\ call[c] \in Call /\ call[c].reply = NoReply
      /\ call[c].contacted = FALSE /\ call[c].invoked = FALSE
  BY CallType DEF Dispatch, At, HonestCall, Saving
<1>2. /\ n.pc = "completeFind" /\ n.reply = call[c].reply
      /\ n.invoked = call[c].invoked /\ n.contacted = call[c].contacted
  BY <1>1 DEF Call
<1>3. \A answer : /\ m(answer).pc = "completeFind" /\ m(answer).reply = call[c].reply
                  /\ m(answer).invoked = m(answer).contacted
  BY <1>1, Zenon DEF Call
<1>4. Becomes(c, n) \/ \E answer \in Terminal : Becomes(c, m(answer))
  BY DEF Dispatch
<1> HIDE DEF n, m
<1>5. PICK x : /\ Becomes(c, x) /\ x.pc = "completeFind" /\ x.reply = NoReply
               /\ x.invoked = x.contacted
  BY <1>1, <1>2, <1>3, <1>4, Zenon
<1>6. call'[c] = x
  BY <1>5, CallType DEF Becomes
<1> QED
  BY <1>5, <1>6 DEF HonestCall, NoReply, Before, Saving

(* Each step of a call leaves it honest.                                   *)
LEMMA CallIsHonest ==
  ASSUME NEW c \in Callers, IInv, HonestCall(call[c]), CallStep(c)
  PROVE  HonestCall(call'[c])
<1> USE DEF At
<1>1. CASE \E e \in Before : Raise(c, e) /\ call[c].pc \notin Saving \cup {"idle"}
  BY <1>1, RaiseIsHonest DEF Before
<1>2. CASE GetIntent(c)
  <2>1. CASE \E i \in Ids : Becomes(c, [call[c] EXCEPT !.pc = "upsert", !.id = i])
    <3> PICK i \in Ids : Becomes(c, [call[c] EXCEPT !.pc = "upsert", !.id = i])
      BY <2>1
    <3> DEFINE m == [call[c] EXCEPT !.pc = "upsert", !.id = i]
    <3>1. /\ m.pc = "upsert" /\ m.reply = call[c].reply /\ m.contacted = call[c].contacted
          /\ m.invoked = call[c].invoked
      BY CallType DEF Call
    <3>2. Becomes(c, m) /\ call[c].pc = "get"
      BY <1>2 DEF GetIntent
    <3> HIDE DEF m
    <3> QED
      BY <3>1, <3>2, GoesOnHonestly DEF Saving
  <2> QED
    BY <1>1, <1>2, <2>1, ContinuesHonestly DEF GetIntent, Saving, Before
<1>3. CASE UpsertIntent(c)
  <2>1. CASE Becomes(c, [call[c] EXCEPT !.pc = "readback", !.created = TRUE])
    <3> DEFINE m == [call[c] EXCEPT !.pc = "readback", !.created = TRUE]
    <3>1. /\ m.pc = "readback" /\ m.reply = call[c].reply /\ m.contacted = call[c].contacted
          /\ m.invoked = call[c].invoked
      BY CallType DEF Call
    <3>2. Becomes(c, m) /\ call[c].pc = "upsert"
      BY <1>3, <2>1 DEF UpsertIntent
    <3> HIDE DEF m
    <3> QED
      BY <3>1, <3>2, GoesOnHonestly DEF Saving
  <2>2. CASE Goto(c, "readback")
    BY <1>3, <2>2, GotoIsHonest DEF UpsertIntent, Saving
  <2> QED
    BY <1>1, <1>3, <2>1, <2>2 DEF UpsertIntent, Saving, Before
<1>4. CASE ReadBack(c)
  BY <1>1, <1>4, ContinuesHonestly DEF ReadBack, Saving, Before
<1>5. CASE EvaluateRecipient(c) \/ EvaluateSession(c)
  BY <1>1, <1>5, GotoIsHonest
  DEF EvaluateRecipient, EvaluateSession, PolicyRaises, Saving, Before
<1>6. CASE RejectFind(c)
  BY <1>1, <1>6, GotoIsHonest DEF RejectFind, Saving, Before
<1>7. CASE RejectUpdate(c)
  BY <1>1, <1>7, GotoIsHonest, ReturnIsHonest DEF RejectUpdate, Saving, Before
<1>8. CASE ClaimFind(c)
  <2> DEFINE m == [call[c] EXCEPT !.pc = "claimUpdate", !.started = now,
                                  !.count = docs[call[c].id].attempt_count]
  <2>1. CASE Becomes(c, m)
    <3>1. /\ m.pc = "claimUpdate" /\ m.reply = call[c].reply /\ m.contacted = call[c].contacted
          /\ m.invoked = call[c].invoked
      BY CallType DEF Call
    <3>2. Becomes(c, m) /\ call[c].pc = "claimFind"
      BY <1>8, <2>1 DEF ClaimFind
    <3> HIDE DEF m
    <3> QED
      BY <3>1, <3>2, GoesOnHonestly DEF Saving
  <2> QED
    BY <1>1, <1>8, <2>1, GotoIsHonest DEF ClaimFind, Saving, Before
<1>9. CASE Claim(c)
  BY <1>1, <1>9, GotoIsHonest DEF Claim, Saving, Before
<1>10. CASE Resolve(c)
  BY <1>1, <1>10, ReplayIsHonest, CallType, RaiseIsHonest
  DEF Resolve, Saving, Before
<1>11. CASE Dispatch(c)
  BY <1>11, DispatchIsHonest
<1>12. CASE CompleteFind(c)
  <2> DEFINE m == [call[c] EXCEPT !.pc = "completeUpdate",
                                  !.count = docs[call[c].id].attempt_count]
  <2>1. CASE Becomes(c, m)
    <3>1. /\ m.pc = "completeUpdate" /\ m.reply = call[c].reply
          /\ m.contacted = call[c].contacted /\ m.invoked = call[c].invoked
      BY CallType DEF Call
    <3>2. Becomes(c, m) /\ call[c].pc = "completeFind"
      BY <1>12, <2>1 DEF CompleteFind
    <3> HIDE DEF m
    <3> QED
      BY <3>1, <3>2, GoesOnHonestly DEF Saving
  <2> QED
    BY <1>12, <2>1, CompletionFailsHonestly DEF CompleteFind, Saving
<1>13. CASE Complete(c)
  BY <1>13, CompletionFailsHonestly, ReturnIsHonest DEF Complete, Saving
<1> QED
  BY <1>2, <1>3, <1>4, <1>5, <1>6, <1>7, <1>8, <1>9, <1>10, <1>11, <1>12, <1>13 DEF CallStep

(* A new call knows of no provider.                                        *)
LEMMA StartIsHonest ==
  ASSUME NEW c \in Callers, IInv, NEW r, Start(c, r)
  PROVE  HonestCall(call'[c])
<1> DEFINE e == [NoCall EXCEPT !.request = r,
                   !.reply = [NoReply EXCEPT !.kind = "ServiceDependencyError"]]
           m == [NoCall EXCEPT !.pc = "get", !.request = r,
                   !.wasEligible = Eligible(r), !.hadSession = r \in sessions]
<1>1. e.pc = "idle" /\ e.reply.kind = "ServiceDependencyError" /\ e.contacted = FALSE
  BY DEF NoCall, NoReply
<1>2. m.pc = "get" /\ m.reply = NoReply /\ m.contacted = FALSE /\ m.invoked = FALSE
  BY Zenon DEF NoCall
<1>3. Becomes(c, e) \/ Becomes(c, m)
  BY DEF Start
<1> HIDE DEF e, m
<1>4. call'[c] = e \/ call'[c] = m
  BY <1>3, CallType DEF Becomes
<1>5. HonestCall(e)
  BY <1>1 DEF HonestCall, Before, Saving
<1>6. HonestCall(m)
  BY <1>2 DEF HonestCall, Before, Saving, NoReply
<1> QED
  BY <1>4, <1>5, <1>6

(* A step of one call is none of another.                                  *)
LEMMA OthersKeep ==
  ASSUME NEW c \in Callers, IInv, CallStep(c) \/ Crash(c) \/ (\E r \in Requests : Start(c, r)),
         NEW d \in Callers, d # c
  PROVE  call'[d] = call[d]
<1>1. \A m : Becomes(c, m) => call'[d] = call[d]
  BY CallType DEF Becomes
<1>2. \A m : Finish(c, m) => call'[d] = call[d]
  BY <1>1 DEF Finish
<1>3. (\E e : Raise(c, e)) \/ CompletionFails(c) => call'[d] = call[d]
  BY <1>2 DEF Raise, CompletionFails
<1>4. (\E pc : Goto(c, pc)) => call'[d] = call[d]
  BY <1>1 DEF Goto
<1>5. (\E x : Replay(c, x) \/ Return(c, x)) => call'[d] = call[d]
  BY <1>2 DEF Replay, Return
<1>6. (\E i : ContinueIntent(c, i)) => call'[d] = call[d]
  BY <1>1, <1>3, <1>5 DEF ContinueIntent
<1>7. CASE CallStep(c)
  <2>1. CASE GetIntent(c) \/ UpsertIntent(c) \/ ReadBack(c)
    BY <2>1, <1>1, <1>3, <1>4, <1>6 DEF GetIntent, UpsertIntent, ReadBack
  <2>2. CASE EvaluateRecipient(c) \/ EvaluateSession(c) \/ RejectFind(c) \/ RejectUpdate(c)
    BY <2>2, <1>3, <1>4, <1>5
    DEF EvaluateRecipient, EvaluateSession, RejectFind, RejectUpdate, PolicyRaises
  <2>3. CASE ClaimFind(c) \/ Claim(c) \/ Resolve(c)
    BY <2>3, <1>1, <1>3, <1>4, <1>5 DEF ClaimFind, Claim, Resolve
  <2>4. CASE Dispatch(c)
    BY <2>4, <1>1 DEF Dispatch
  <2>5. CASE CompleteFind(c) \/ Complete(c)
    BY <2>5, <1>1, <1>3, <1>5 DEF CompleteFind, Complete
  <2> QED
    BY <1>7, <2>1, <2>2, <2>3, <2>4, <2>5 DEF CallStep
<1> QED
  BY <1>1, <1>3, <1>7 DEF Crash, Start

(* All that the changes of policies touch of a call is what it remembers.  *)
Alike(m, n) ==
  /\ n.pc = m.pc /\ n.request = m.request /\ n.id = m.id /\ n.reply = m.reply
  /\ n.created = m.created /\ n.started = m.started /\ n.count = m.count
  /\ n.invoked = m.invoked /\ n.contacted = m.contacted

(* A policy that changes keeps the rest of every call.                     *)
LEMMA PolicyMovesKeep ==
  ASSUME IInv, NEW d \in Callers,
         (\E p \in PolicyMoves : ChangeEligibility(p)) \/ (\E r \in SessionMoves : ChangeSession(r))
  PROVE  Alike(call[d], call'[d])
<1> DEFINE m(x) == [call[d] EXCEPT !.wasEligible = x]
           n(x) == [call[d] EXCEPT !.hadSession = x]
<1>1. \A x : Alike(call[d], m(x)) /\ Alike(call[d], n(x))
  BY CallType, Zenon DEF Call, Alike
<1>2. \E x : call'[d] = m(x) \/ call'[d] = n(x)
  <2>1. CASE \E p \in PolicyMoves : ChangeEligibility(p)
    <3>1. call'[d] = m(call[d].wasEligible \/ (Running(d) /\ RecipientOf[call[d].request] \in eligible'))
      BY <2>1, Zenon DEF ChangeEligibility
    <3> QED
      BY <3>1, Zenon
  <2>2. CASE \E r \in SessionMoves : ChangeSession(r)
    <3>1. call'[d] = n(call[d].hadSession \/ (Running(d) /\ call[d].request \in sessions'))
      BY <2>2, Zenon DEF ChangeSession
    <3> QED
      BY <3>1, Zenon
  <2> QED
    BY <2>1, <2>2
<1> HIDE DEF m, n
<1> QED
  BY <1>1, <1>2

(* What is not touched stays honest.                                       *)
LEMMA OthersAreHonest ==
  ASSUME NEW m, NEW n, HonestCall(m), Alike(m, n)
  PROVE  HonestCall(n)
BY Zenon DEF HonestCall, Alike

HonestInv == \A c \in Callers : HonestCall(call[c])

(* Every caller is told the truth, whatever the others do.                 *)
LEMMA HonestInvariance == Spec => []HonestInv
<1>1. Init => HonestInv
  <2>1. /\ NoCall.pc = "idle" /\ NoCall.reply.kind = "none"
    BY DEF NoCall, NoReply
  <2>2. HonestCall(NoCall)
    BY <2>1 DEF HonestCall, Before, Saving
  <2> QED
    BY <2>2 DEF HonestInv, Init, ServiceInit
<1>2. IInv /\ HonestInv /\ [Next]_vars => HonestInv'
  <2> SUFFICES ASSUME IInv, HonestInv, [Next]_vars, NEW d \in Callers
               PROVE  HonestCall(call[d])'
    BY DEF HonestInv
  <2> USE DEF HonestInv
  <2>1. HonestCall(call'[d])
    <3>1. ASSUME NEW c \in Callers, CallStep(c) \/ Crash(c) \/ (\E r \in Requests : Start(c, r))
          PROVE  HonestCall(call'[d])
      <4>1. CASE d # c
        BY <3>1, <4>1, OthersKeep
      <4>2. CASE d = c /\ CallStep(c)
        BY <4>2, CallIsHonest
      <4>3. CASE d = c /\ Crash(c)
        BY <4>3, RaiseIsHonest DEF Crash
      <4>4. CASE d = c /\ \E r \in Requests : Start(c, r)
        BY <4>4, StartIsHonest
      <4> QED
        BY <3>1, <4>1, <4>2, <4>3, <4>4
    <3>2. CASE \/ \E p \in PolicyMoves : ChangeEligibility(p)
               \/ \E r \in SessionMoves : ChangeSession(r)
      BY <3>2, PolicyMovesKeep, OthersAreHonest
    <3>3. CASE (\E j \in Recoverers : RecoveryStep(j)) \/ Tick \/ UNCHANGED vars
      BY <3>3 DEF RecoveryStep, Tick, vars
    <3> QED
      BY <3>1, <3>2, <3>3 DEF Next
  <2> QED
    BY <2>1 DEF HonestCall
<1> QED
  BY <1>1, <1>2, Invariance, PTL DEF Spec

(* The reply a caller gets tells the truth about the provider: in          *)
(* particular, PostDispatchPersistenceError is raised only by a call that  *)
(* reached it, and a ServiceDependencyError only by one that did not.      *)
THEOREM HonestReplies == Spec => []RepliesAreHonest
<1>1. IInv /\ HonestInv => RepliesAreHonest
  <2> SUFFICES ASSUME IInv, HonestInv, NEW c \in Callers
               PROVE  LET reply == call[c].reply IN
                 /\ reply.kind = "PostDispatchPersistenceError" => call[c].contacted
                 /\ reply.kind \in Before => ~call[c].contacted
                 /\ reply.kind = "result" /\ reply.replay => ~call[c].contacted
    BY DEF RepliesAreHonest, Before
  <2>1. HonestCall(call[c]) /\ call[c].contacted \in BOOLEAN /\ call[c].reply.replay \in BOOLEAN
    BY CallType DEF HonestInv, Call, Reply
  <2> QED
    BY <2>1, Zenon DEF HonestCall
<1> QED
  BY <1>1, Invariance, HonestInvariance, PTL

-----------------------------------------------------------------------------
(* What a call may send.                                                   *)

Granted == {"session", "claimFind", "claimUpdate", "send"}

\* What a call remembers of the policies, for those who are eligible and the sessions there are.
PermittedCall(m, who, open) ==
  /\ m.pc # "idle" => /\ RecipientOf[m.request] \in who => m.wasEligible = TRUE
                      /\ m.request \in open => m.hadSession = TRUE
  /\ m.pc \in Granted => m.wasEligible = TRUE
  /\ m.pc \in Granted \ {"session"} /\ m.request \in Text => m.hadSession = TRUE

(* A call that is over needs no permission.                                *)
LEMMA EndsPermitted ==
  ASSUME NEW c \in Callers, IInv,
         CompletionFails(c) \/ (\E x : Raise(c, x) \/ Replay(c, x) \/ Return(c, x))
  PROVE  PermittedCall(call'[c], eligible, sessions)
<1>1. call'[c].pc = "idle"
  BY CallType DEF CompletionFails, Raise, Replay, Return, Finish, Becomes, NoCall
<1> QED
  BY <1>1 DEF PermittedCall, Granted

(* A call that goes on has what the policies had to say on its way.        *)
LEMMA GoesOnPermitted ==
  ASSUME NEW c \in Callers, IInv, PermittedCall(call[c], eligible, sessions),
         NEW m, Becomes(c, m), call[c].pc # "idle",
         m.request = call[c].request, m.wasEligible = call[c].wasEligible,
         m.hadSession = call[c].hadSession,
         m.pc \in {"claimUpdate", "send"} => call[c].pc \in {"claimFind", "claimUpdate"},
         m.pc = "session" => call[c].pc = "policy" /\ Eligible(call[c].request),
         m.pc = "claimFind" =>
           \/ call[c].pc = "policy" /\ Eligible(call[c].request) /\ call[c].request \notin Text
           \/ call[c].pc = "session" /\ call[c].request \in sessions
  PROVE  PermittedCall(call'[c], eligible, sessions)
<1>1. call'[c] = m
  BY CallType DEF Becomes
<1> QED
  BY <1>1 DEF PermittedCall, Granted, Eligible

(* A call that goes on to where nothing is granted, or was already.        *)
LEMMA GotoPermitted ==
  ASSUME NEW c \in Callers, IInv, PermittedCall(call[c], eligible, sessions),
         NEW pc, Goto(c, pc), call[c].pc # "idle",
         pc \in {"claimUpdate", "send"} => call[c].pc \in {"claimFind", "claimUpdate"},
         pc = "session" => call[c].pc = "policy" /\ Eligible(call[c].request),
         pc = "claimFind" =>
           \/ call[c].pc = "policy" /\ Eligible(call[c].request) /\ call[c].request \notin Text
           \/ call[c].pc = "session" /\ call[c].request \in sessions
  PROVE  PermittedCall(call'[c], eligible, sessions)
<1> DEFINE m == [call[c] EXCEPT !.pc = pc]
<1>1. /\ m.pc = pc /\ m.request = call[c].request /\ m.wasEligible = call[c].wasEligible
      /\ m.hadSession = call[c].hadSession
  BY CallType DEF Call
<1>2. Becomes(c, m)
  BY DEF Goto
<1> HIDE DEF m
<1> QED
  BY <1>1, <1>2, GoesOnPermitted

(* _continue_intent grants nothing.                                        *)
LEMMA ContinuesPermitted ==
  ASSUME NEW c \in Callers, IInv, PermittedCall(call[c], eligible, sessions), NEW i,
         ContinueIntent(c, i), call[c].pc # "idle"
  PROVE  PermittedCall(call'[c], eligible, sessions)
<1> DEFINE m == [call[c] EXCEPT !.pc = "policy", !.id = i]
<1>1. /\ m.pc = "policy" /\ m.request = call[c].request /\ m.wasEligible = call[c].wasEligible
      /\ m.hadSession = call[c].hadSession
  BY CallType DEF Call
<1>2. Becomes(c, m) \/ (\E x : Raise(c, x) \/ Replay(c, x))
  BY DEF ContinueIntent
<1> HIDE DEF m
<1> QED
  BY <1>1, <1>2, GoesOnPermitted, EndsPermitted

(* Each step of a call grants what the policies said.                      *)
LEMMA CallIsPermitted ==
  ASSUME NEW c \in Callers, IInv, PermittedCall(call[c], eligible, sessions), CallStep(c)
  PROVE  PermittedCall(call'[c], eligible, sessions)
<1> USE DEF At
<1>1. CASE GetIntent(c)
  <2>1. CASE \E i \in Ids : Becomes(c, [call[c] EXCEPT !.pc = "upsert", !.id = i])
    <3> PICK i \in Ids : Becomes(c, [call[c] EXCEPT !.pc = "upsert", !.id = i])
      BY <2>1
    <3> DEFINE m == [call[c] EXCEPT !.pc = "upsert", !.id = i]
    <3>1. /\ m.pc = "upsert" /\ m.request = call[c].request
          /\ m.wasEligible = call[c].wasEligible /\ m.hadSession = call[c].hadSession
      BY CallType DEF Call
    <3>2. Becomes(c, m) /\ call[c].pc = "get"
      BY <1>1 DEF GetIntent
    <3> HIDE DEF m
    <3> QED
      BY <3>1, <3>2, GoesOnPermitted
  <2> QED
    BY <1>1, <2>1, EndsPermitted, ContinuesPermitted DEF GetIntent
<1>2. CASE UpsertIntent(c)
  <2>1. CASE Becomes(c, [call[c] EXCEPT !.pc = "readback", !.created = TRUE])
    <3> DEFINE m == [call[c] EXCEPT !.pc = "readback", !.created = TRUE]
    <3>1. /\ m.pc = "readback" /\ m.request = call[c].request
          /\ m.wasEligible = call[c].wasEligible /\ m.hadSession = call[c].hadSession
      BY CallType DEF Call
    <3>2. Becomes(c, m) /\ call[c].pc = "upsert"
      BY <1>2, <2>1 DEF UpsertIntent
    <3> HIDE DEF m
    <3> QED
      BY <3>1, <3>2, GoesOnPermitted
  <2> QED
    BY <1>2, <2>1, EndsPermitted, GotoPermitted DEF UpsertIntent
<1>3. CASE ReadBack(c)
  BY <1>3, EndsPermitted, ContinuesPermitted DEF ReadBack
<1>4. CASE EvaluateRecipient(c) \/ EvaluateSession(c)
  BY <1>4, EndsPermitted, GotoPermitted DEF EvaluateRecipient, EvaluateSession, PolicyRaises
<1>5. CASE RejectFind(c) \/ RejectUpdate(c)
  BY <1>5, EndsPermitted, GotoPermitted DEF RejectFind, RejectUpdate
<1>6. CASE ClaimFind(c)
  <2> DEFINE m == [call[c] EXCEPT !.pc = "claimUpdate", !.started = now,
                                  !.count = docs[call[c].id].attempt_count]
  <2>1. CASE Becomes(c, m)
    <3>1. /\ m.pc = "claimUpdate" /\ m.request = call[c].request
          /\ m.wasEligible = call[c].wasEligible /\ m.hadSession = call[c].hadSession
      BY CallType DEF Call
    <3>2. Becomes(c, m) /\ call[c].pc = "claimFind"
      BY <1>6, <2>1 DEF ClaimFind
    <3> HIDE DEF m
    <3> QED
      BY <3>1, <3>2, GoesOnPermitted
  <2> QED
    BY <1>6, <2>1, EndsPermitted, GotoPermitted DEF ClaimFind
<1>7. CASE Claim(c) \/ Resolve(c)
  BY <1>7, EndsPermitted, GotoPermitted DEF Claim, Resolve
<1>8. CASE Dispatch(c)
  <2>1. call'[c].pc = "completeFind" /\ call'[c].request = call[c].request
        /\ call'[c].wasEligible = call[c].wasEligible /\ call'[c].hadSession = call[c].hadSession
        /\ call[c].pc = "send"
    <3> DEFINE n == [call[c] EXCEPT !.pc = "completeFind", !.result = "provider_not_registered"]
               m(answer) == [call[c] EXCEPT !.pc = "completeFind", !.result = answer,
                                            !.invoked = TRUE, !.contacted = TRUE]
               Fine(x) == x.pc = "completeFind" /\ x.request = call[c].request
                          /\ x.wasEligible = call[c].wasEligible /\ x.hadSession = call[c].hadSession
    <3>1. Fine(n) /\ \A answer : Fine(m(answer))
      BY CallType, Zenon DEF Call
    <3>2. call[c].pc = "send" /\ (Becomes(c, n) \/ \E answer \in Terminal : Becomes(c, m(answer)))
      BY <1>8 DEF Dispatch
    <3>3. \A x : Becomes(c, x) => call'[c] = x
      BY CallType DEF Becomes
    <3> HIDE DEF m, n, Fine
    <3>4. Fine(call'[c])
      BY <3>1, <3>2, <3>3
    <3> QED
      BY <3>2, <3>4 DEF Fine
  <2> QED
    BY <2>1 DEF PermittedCall, Granted
<1>9. CASE CompleteFind(c)
  <2> DEFINE m == [call[c] EXCEPT !.pc = "completeUpdate",
                                  !.count = docs[call[c].id].attempt_count]
  <2>1. CASE Becomes(c, m)
    <3>1. /\ m.pc = "completeUpdate" /\ m.request = call[c].request
          /\ m.wasEligible = call[c].wasEligible /\ m.hadSession = call[c].hadSession
      BY CallType DEF Call
    <3>2. Becomes(c, m) /\ call[c].pc = "completeFind"
      BY <1>9, <2>1 DEF CompleteFind
    <3> HIDE DEF m
    <3> QED
      BY <3>1, <3>2, GoesOnPermitted
  <2> QED
    BY <1>9, <2>1, EndsPermitted DEF CompleteFind
<1>10. CASE Complete(c)
  BY <1>10, EndsPermitted DEF Complete
<1> QED
  BY <1>1, <1>2, <1>3, <1>4, <1>5, <1>6, <1>7, <1>8, <1>9, <1>10 DEF CallStep

(* A new call remembers the policies as they are.                          *)
LEMMA StartIsPermitted ==
  ASSUME NEW c \in Callers, IInv, NEW r, Start(c, r)
  PROVE  PermittedCall(call'[c], eligible, sessions)
<1> DEFINE e == [NoCall EXCEPT !.request = r,
                   !.reply = [NoReply EXCEPT !.kind = "ServiceDependencyError"]]
           m == [NoCall EXCEPT !.pc = "get", !.request = r,
                   !.wasEligible = Eligible(r), !.hadSession = r \in sessions]
<1>1. e.pc = "idle"
  BY DEF NoCall
<1>2. m.pc = "get" /\ m.request = r /\ m.wasEligible = Eligible(r) /\ m.hadSession = (r \in sessions)
  BY Zenon DEF NoCall
<1>3. Becomes(c, e) \/ Becomes(c, m)
  BY DEF Start
<1> HIDE DEF e, m
<1>4. call'[c] = e \/ call'[c] = m
  BY <1>3, CallType DEF Becomes
<1>5. PermittedCall(e, eligible, sessions)
  BY <1>1 DEF PermittedCall, Granted
<1>6. PermittedCall(m, eligible, sessions)
  <2>1. RecipientOf[r] \in eligible => m.wasEligible = TRUE
    BY <1>2, Zenon DEF Eligible
  <2>2. r \in sessions => m.hadSession = TRUE
    BY <1>2, Zenon
  <2> QED
    BY <1>2, <2>1, <2>2 DEF PermittedCall, Granted
<1> QED
  BY <1>4, <1>5, <1>6

(* Eligibility that comes while a call runs is remembered by it.           *)
LEMMA PolicyMovesPermitted ==
  ASSUME IInv, NEW d \in Callers, PermittedCall(call[d], eligible, sessions),
         (\E p \in PolicyMoves : ChangeEligibility(p)) \/ (\E r \in SessionMoves : ChangeSession(r))
  PROVE  PermittedCall(call'[d], eligible', sessions')
<1> DEFINE m(x) == [call[d] EXCEPT !.wasEligible = x]
           n(x) == [call[d] EXCEPT !.hadSession = x]
<1>1. \A x : /\ m(x).pc = call[d].pc /\ m(x).request = call[d].request
             /\ m(x).wasEligible = x /\ m(x).hadSession = call[d].hadSession
             /\ n(x).pc = call[d].pc /\ n(x).request = call[d].request
             /\ n(x).wasEligible = call[d].wasEligible /\ n(x).hadSession = x
  BY CallType, Zenon DEF Call
<1>2. CASE \E p \in PolicyMoves : ChangeEligibility(p)
  <2> DEFINE x == call[d].wasEligible \/ (Running(d) /\ RecipientOf[call[d].request] \in eligible')
  <2>1. call'[d] = m(x) /\ sessions' = sessions
    BY <1>2, Zenon DEF ChangeEligibility
  <2>2. /\ call[d].wasEligible = TRUE => x = TRUE
        /\ call[d].pc # "idle" /\ RecipientOf[call[d].request] \in eligible' => x = TRUE
    BY Zenon DEF Running, At
  <2> HIDE DEF m, n, x
  <2>3. /\ call'[d].pc = call[d].pc /\ call'[d].request = call[d].request
        /\ call'[d].wasEligible = x /\ call'[d].hadSession = call[d].hadSession
    BY <1>1, <2>1, Zenon
  <2> QED
    BY <2>1, <2>2, <2>3 DEF PermittedCall, Granted
<1>3. CASE \E r \in SessionMoves : ChangeSession(r)
  <2> DEFINE x == call[d].hadSession \/ (Running(d) /\ call[d].request \in sessions')
  <2>1. call'[d] = n(x) /\ eligible' = eligible
    BY <1>3, Zenon DEF ChangeSession
  <2>2. /\ call[d].hadSession = TRUE => x = TRUE
        /\ call[d].pc # "idle" /\ call[d].request \in sessions' => x = TRUE
    BY Zenon DEF Running, At
  <2> HIDE DEF m, n, x
  <2>3. PICK y : /\ y = call'[d] /\ y.pc = call[d].pc /\ y.request = call[d].request
                 /\ y.wasEligible = call[d].wasEligible /\ y.hadSession = x
    BY <1>1, <2>1, Zenon
  <2>4. /\ y.pc # "idle" => (RecipientOf[y.request] \in eligible' => y.wasEligible = TRUE)
        /\ y.pc \in Granted => y.wasEligible = TRUE
    BY <2>1, <2>3, Zenon DEF PermittedCall
  <2>5. y.pc # "idle" => (y.request \in sessions' => y.hadSession = TRUE)
    BY <2>2, <2>3, Zenon
  <2>6. y.pc \in Granted \ {"session"} /\ y.request \in Text => y.hadSession = TRUE
    BY <2>2, <2>3, Zenon DEF PermittedCall
  <2> QED
    BY <2>3, <2>4, <2>5, <2>6, Zenon DEF PermittedCall
<1> QED
  BY <1>2, <1>3

(* Nothing is sent that the policies did not allow at some moment of the   *)
(* call, for any number of recipients and changes of their consent.        *)
THEOREM PoliciesRespected == Spec => []PolicyRespected
<1> DEFINE Inv == \A c \in Callers : PermittedCall(call[c], eligible, sessions)
<1>1. Init => Inv
  <2>1. NoCall.pc = "idle"
    BY DEF NoCall
  <2>2. PermittedCall(NoCall, eligible, sessions)
    BY <2>1 DEF PermittedCall, Granted
  <2> QED
    BY <2>2 DEF Init, ServiceInit
<1>2. IInv /\ Inv /\ [Next]_vars => Inv'
  <2> SUFFICES ASSUME IInv, Inv, [Next]_vars, NEW d \in Callers
               PROVE  PermittedCall(call'[d], eligible', sessions')
    OBVIOUS
  <2>1. ASSUME NEW c \in Callers, CallStep(c) \/ Crash(c) \/ (\E r \in Requests : Start(c, r))
        PROVE  PermittedCall(call'[d], eligible', sessions')
    <3>1. eligible' = eligible /\ sessions' = sessions
      BY <2>1 DEF CallStep, Crash, Start, GetIntent, UpsertIntent, ReadBack, EvaluateRecipient,
        EvaluateSession, RejectFind, RejectUpdate, ClaimFind, Claim, Resolve, Dispatch,
        CompleteFind, Complete, policy
    <3>2. CASE d # c
      BY <2>1, <3>1, <3>2, OthersKeep
    <3>3. CASE d = c /\ CallStep(c)
      BY <3>1, <3>3, CallIsPermitted
    <3>4. CASE d = c /\ Crash(c)
      BY <3>1, <3>4, EndsPermitted DEF Crash
    <3>5. CASE d = c /\ \E r \in Requests : Start(c, r)
      BY <3>1, <3>5, StartIsPermitted
    <3> QED
      BY <2>1, <3>2, <3>3, <3>4, <3>5
  <2>2. CASE \/ \E p \in PolicyMoves : ChangeEligibility(p)
             \/ \E r \in SessionMoves : ChangeSession(r)
    BY <2>2, PolicyMovesPermitted
  <2>3. CASE (\E j \in Recoverers : RecoveryStep(j)) \/ Tick \/ UNCHANGED vars
    BY <2>3 DEF RecoveryStep, Tick, vars, policy
  <2> QED
    BY <2>1, <2>2, <2>3 DEF Next
<1>3. IInv /\ Inv => PolicyRespected
  <2> SUFFICES ASSUME IInv, Inv, NEW c \in Callers, At(c, "send")
               PROVE  /\ call[c].wasEligible
                      /\ call[c].request \in Text => call[c].hadSession
    BY DEF PolicyRespected
  <2>1. PermittedCall(call[c], eligible, sessions) /\ call[c].pc = "send"
    BY DEF At
  <2>2. "send" \in Granted /\ "send" \in Granted \ {"session"}
    BY DEF Granted
  <2> QED
    BY <2>1, <2>2, Zenon DEF PermittedCall
<1> QED
  BY <1>1, <1>2, <1>3, Invariance, PTL DEF Spec

-----------------------------------------------------------------------------
(* What a result rests on.                                                 *)

\* The intent i is settled with a result, for request r.
SettledAs(d, r, result) == d.state \in Terminal /\ d.request = r /\ d.result = result

BackedCall(m, D) ==
  m.reply.kind = "result" => \E i \in Ids : SettledAs(D[i], m.request, m.reply.result)

\* A step of a call: it goes on, raises, replays a result on record, or records its own.
GoesOn(c) == call'[c].reply = call[c].reply /\ call'[c].request = call[c].request
Raises(c) == \E e : Raise(c, e) /\ e # "result"
Replays(c) ==
  \E i \in Ids : SettledAs(docs[i], call[c].request, docs[i].result) /\ Replay(c, docs[i].result)
Records(c) ==
  \E i \in Ids : /\ docs[i].state \in {"pending", "dispatching"}
                 /\ docs[i].request = call[c].request
                 /\ SettledAs(docs'[i], call[c].request, docs'[i].result)
                 /\ Return(c, docs'[i].result)

(* A call that goes on says nothing yet.                                   *)
LEMMA GoingOn ==
  ASSUME NEW c \in Callers, IInv, NEW m, Becomes(c, m),
         m.reply = call[c].reply, m.request = call[c].request
  PROVE  GoesOn(c)
BY CallType DEF Becomes, GoesOn

(* In particular to another step.                                          *)
LEMMA GotoGoesOn ==
  ASSUME NEW c \in Callers, IInv, NEW pc, Goto(c, pc)
  PROVE  GoesOn(c)
<1> DEFINE m == [call[c] EXCEPT !.pc = pc]
<1>1. m.reply = call[c].reply /\ m.request = call[c].request /\ Becomes(c, m)
  BY CallType DEF Call, Goto
<1> HIDE DEF m
<1> QED
  BY <1>1, GoingOn

(* How _continue_intent ends a call.                                       *)
LEMMA ContinueEnds ==
  ASSUME NEW c \in Callers, IInv, NEW i \in Ids, ContinueIntent(c, i)
  PROVE  GoesOn(c) \/ Raises(c) \/ Replays(c)
<1>1. CASE \E e \in Before : Raise(c, e)
  BY <1>1 DEF Raises, Before
<1>2. CASE ~Conflicts(c, i) /\ docs[i].state \in Terminal /\ Replay(c, docs[i].result)
  BY <1>2 DEF Replays, Conflicts, SettledAs
<1>3. CASE Becomes(c, [call[c] EXCEPT !.pc = "policy", !.id = i])
  <2> DEFINE m == [call[c] EXCEPT !.pc = "policy", !.id = i]
  <2>1. m.reply = call[c].reply /\ m.request = call[c].request /\ Becomes(c, m)
    BY <1>3, CallType DEF Call
  <2> HIDE DEF m
  <2> QED
    BY <2>1, GoingOn
<1> QED
  BY <1>1, <1>2, <1>3 DEF ContinueIntent, Before

(* complete() records the very result the call returns.                    *)
LEMMA CompletedResult ==
  ASSUME NEW i \in Ids, docs \in [Ids -> Doc], NEW expected, NEW count, NEW result,
         CompleteUpdate(i, expected, count, result)
  PROVE  docs'[i].result = result
BY DEF CompleteUpdate, CompletedDoc, Doc

(* A call that completes its intent records what it returns.               *)
LEMMA ReturnRecords ==
  ASSUME NEW c \in Callers, IInv, NEW expected \in {"pending", "dispatching"}, NEW count,
         NEW result \in Results, NEW i \in Ids, docs[i].request = call[c].request,
         CompleteMatches(i, expected, count), CompleteUpdate(i, expected, count, result),
         Return(c, result)
  PROVE  Records(c)
<1>1. /\ docs'[i].state = StateOf(result) /\ docs'[i].request = docs[i].request
      /\ docs'[i].result = result
  BY CallType, CompleteEffect, CompletedResult
<1>2. StateOf(result) \in Terminal
  BY StateOfTerminal
<1>3. docs[i].state \in {"pending", "dispatching"}
  BY DEF CompleteMatches
<1> QED
  BY <1>1, <1>2, <1>3 DEF Records, SettledAs

(* No step of a call ends it otherwise.                                    *)
LEMMA CallEnds ==
  ASSUME NEW c \in Callers, IInv, CallStep(c)
  PROVE  GoesOn(c) \/ Raises(c) \/ Replays(c) \/ Records(c)
<1> USE DEF At
<1>1. CASE \E e \in Before \cup {"PostDispatchPersistenceError"} : Raise(c, e)
  BY <1>1 DEF Raises, Before
<1>2. CASE GetIntent(c)
  <2>1. CASE \E i \in Ids : Becomes(c, [call[c] EXCEPT !.pc = "upsert", !.id = i])
    <3> PICK i \in Ids : Becomes(c, [call[c] EXCEPT !.pc = "upsert", !.id = i])
      BY <2>1
    <3> DEFINE m == [call[c] EXCEPT !.pc = "upsert", !.id = i]
    <3>1. m.reply = call[c].reply /\ m.request = call[c].request /\ Becomes(c, m)
      BY CallType DEF Call
    <3> HIDE DEF m
    <3> QED
      BY <3>1, GoingOn
  <2> QED
    BY <1>1, <1>2, <2>1, ContinueEnds DEF GetIntent, FindScope, Before
<1>3. CASE UpsertIntent(c)
  <2>1. CASE Becomes(c, [call[c] EXCEPT !.pc = "readback", !.created = TRUE])
    <3> DEFINE m == [call[c] EXCEPT !.pc = "readback", !.created = TRUE]
    <3>1. m.reply = call[c].reply /\ m.request = call[c].request /\ Becomes(c, m)
      BY <2>1, CallType DEF Call
    <3> HIDE DEF m
    <3> QED
      BY <3>1, GoingOn
  <2> QED
    BY <1>1, <1>3, <2>1, GotoGoesOn DEF UpsertIntent, Before
<1>4. CASE ReadBack(c)
  BY <1>1, <1>4, ContinueEnds DEF ReadBack, FindScope, Before
<1>5. CASE EvaluateRecipient(c) \/ EvaluateSession(c) \/ RejectFind(c) \/ Claim(c)
  BY <1>1, <1>5, GotoGoesOn
  DEF EvaluateRecipient, EvaluateSession, RejectFind, Claim, PolicyRaises, Before
<1>6. CASE RejectUpdate(c)
  <2>1. call[c].id \in Ids /\ docs[call[c].id].request = call[c].request
    BY <1>6, CallType DEF RejectUpdate, CallOK, Bound
  <2>2. CASE /\ CompleteMatches(call[c].id, "pending", 0)
             /\ CompleteUpdate(call[c].id, "pending", 0, "policy_rejected")
             /\ Return(c, "policy_rejected")
    BY <2>1, <2>2, ReturnRecords
  <2> QED
    BY <1>1, <1>6, <2>2, GotoGoesOn DEF RejectUpdate, Before
<1>7. CASE ClaimFind(c)
  <2> DEFINE m == [call[c] EXCEPT !.pc = "claimUpdate", !.started = now,
                                  !.count = docs[call[c].id].attempt_count]
  <2>1. CASE Becomes(c, m)
    <3>1. m.reply = call[c].reply /\ m.request = call[c].request
      BY CallType DEF Call
    <3> HIDE DEF m
    <3> QED
      BY <2>1, <3>1, GoingOn
  <2> QED
    BY <1>1, <1>7, <2>1, GotoGoesOn DEF ClaimFind, Before
<1>8. CASE Resolve(c)
  <2>1. CASE \E i \in Ids : /\ docs[i].request = call[c].request /\ docs[i].state \in Terminal
                            /\ Replay(c, docs[i].result)
    BY <2>1 DEF Replays, SettledAs
  <2>2. CASE \E e \in Before \cup {"IntentStateError"} : Raise(c, e)
    BY <2>2 DEF Raises, Before
  <2> QED
    BY <1>8, <2>1, <2>2 DEF Resolve, FindScope, Before
<1>9. CASE Dispatch(c)
  <2> DEFINE n == [call[c] EXCEPT !.pc = "completeFind", !.result = "provider_not_registered"]
             m(answer) == [call[c] EXCEPT !.pc = "completeFind", !.result = answer,
                                          !.invoked = TRUE, !.contacted = TRUE]
  <2>1. /\ n.reply = call[c].reply /\ n.request = call[c].request
        /\ \A answer : m(answer).reply = call[c].reply /\ m(answer).request = call[c].request
    BY CallType, Zenon DEF Call
  <2>2. Becomes(c, n) \/ \E answer \in Terminal : Becomes(c, m(answer))
    BY <1>9 DEF Dispatch
  <2> HIDE DEF n, m
  <2> QED
    BY <2>1, <2>2, GoingOn
<1>10. CASE CompleteFind(c)
  <2> DEFINE m == [call[c] EXCEPT !.pc = "completeUpdate",
                                  !.count = docs[call[c].id].attempt_count]
  <2>1. CASE Becomes(c, m)
    <3>1. m.reply = call[c].reply /\ m.request = call[c].request
      BY CallType DEF Call
    <3> HIDE DEF m
    <3> QED
      BY <2>1, <3>1, GoingOn
  <2> QED
    BY <1>1, <1>10, <2>1 DEF CompleteFind, CompletionFails, Before
<1>11. CASE Complete(c)
  <2>1. /\ call[c].id \in Ids /\ docs[call[c].id].request = call[c].request
        /\ call[c].result \in Results
    BY <1>11, CallType DEF Complete, CallOK, Bound
  <2>2. CASE /\ CompleteMatches(call[c].id, "dispatching", call[c].count)
             /\ CompleteUpdate(call[c].id, "dispatching", call[c].count, call[c].result)
             /\ Return(c, call[c].result)
    BY <2>1, <2>2, ReturnRecords
  <2> QED
    BY <1>1, <1>11, <2>2 DEF Complete, CompletionFails, Before
<1> QED
  BY <1>2, <1>3, <1>4, <1>5, <1>6, <1>7, <1>8, <1>9, <1>10, <1>11 DEF CallStep

(* What is on record stays there.                                          *)
LEMMA BackedStays ==
  ASSUME IInv, [Next]_vars, NEW m, BackedCall(m, docs)
  PROVE  BackedCall(m, docs')
<1> SUFFICES ASSUME m.reply.kind = "result"
             PROVE  \E i \in Ids : SettledAs(docs'[i], m.request, m.reply.result)
  BY DEF BackedCall
<1>1. PICK i \in Ids : SettledAs(docs[i], m.request, m.reply.result)
  BY DEF BackedCall
<1>2. docs'[i] = docs[i]
  BY <1>1, NextIsForward DEF SettledAs, IntentStep
<1> QED
  BY <1>1, <1>2

BackedInv == \A c \in Callers : BackedCall(call[c], docs)

(* The result a call returns is on record.                                 *)
LEMMA CallIsBacked ==
  ASSUME IInv, BackedInv, NEW c \in Callers, CallStep(c), [Next]_vars
  PROVE  BackedCall(call'[c], docs')
<1>1. CASE GoesOn(c)
  <2>1. BackedCall(call[c], docs')
    BY BackedStays DEF BackedInv
  <2> QED
    BY <1>1, <2>1 DEF GoesOn, BackedCall
<1>2. CASE Raises(c)
  BY <1>2, CallType, RaiseEnds DEF Raises, BackedCall
<1>3. CASE Replays(c)
  <2>1. PICK i \in Ids : /\ SettledAs(docs[i], call[c].request, docs[i].result)
                         /\ Replay(c, docs[i].result)
    BY <1>3 DEF Replays
  <2>2. docs'[i] = docs[i]
    BY <2>1, NextIsForward DEF SettledAs, IntentStep
  <2>3. /\ call'[c].request = call[c].request
        /\ call'[c].reply = [kind |-> "result", result |-> docs[i].result, replay |-> TRUE]
    BY <2>1, CallType, ResultEnds, Zenon DEF Replay
  <2>4. call'[c].reply.result = docs[i].result
    BY <2>3
  <2> QED
    BY <2>1, <2>2, <2>3, <2>4 DEF BackedCall
<1>4. CASE Records(c)
  <2>1. PICK i \in Ids : /\ SettledAs(docs'[i], call[c].request, docs'[i].result)
                         /\ Return(c, docs'[i].result)
    BY <1>4 DEF Records
  <2>3. /\ call'[c].request = call[c].request
        /\ call'[c].reply = [kind |-> "result", result |-> docs'[i].result, replay |-> FALSE]
    BY <2>1, CallType, ResultEnds, Zenon DEF Return
  <2>4. call'[c].reply.result = docs'[i].result
    BY <2>3
  <2> QED
    BY <2>1, <2>3, <2>4 DEF BackedCall
<1> QED
  BY <1>1, <1>2, <1>3, <1>4, CallEnds

(* A new call has no result.                                               *)
LEMMA StartReplies ==
  ASSUME NEW c \in Callers, IInv, NEW r, Start(c, r)
  PROVE  call'[c].reply.kind # "result"
<1> DEFINE e == [NoCall EXCEPT !.request = r,
                   !.reply = [NoReply EXCEPT !.kind = "ServiceDependencyError"]]
           m == [NoCall EXCEPT !.pc = "get", !.request = r,
                   !.wasEligible = Eligible(r), !.hadSession = r \in sessions]
<1>1. e.reply.kind = "ServiceDependencyError"
  BY DEF NoCall, NoReply
<1>2. m.reply = NoReply /\ NoReply.kind = "none"
  BY Zenon DEF NoCall, NoReply
<1>3. Becomes(c, e) \/ Becomes(c, m)
  BY DEF Start
<1> HIDE DEF e, m
<1>4. call'[c] = e \/ call'[c] = m
  BY <1>3, CallType DEF Becomes
<1> QED
  BY <1>1, <1>2, <1>4

(* Neither calls nor jobs nor policies take a result back.                 *)
LEMMA BackedKeeps ==
  ASSUME IInv, BackedInv, [Next]_vars
  PROVE  BackedInv'
<1> SUFFICES ASSUME NEW d \in Callers
             PROVE  BackedCall(call'[d], docs')
  BY DEF BackedInv, BackedCall, SettledAs
<1>1. BackedCall(call[d], docs')
  BY BackedStays DEF BackedInv
<1>2. ASSUME NEW c \in Callers, CallStep(c) \/ Crash(c) \/ (\E r \in Requests : Start(c, r))
      PROVE  BackedCall(call'[d], docs')
  <2>1. CASE d # c
    BY <1>1, <1>2, <2>1, OthersKeep
  <2>2. CASE d = c /\ CallStep(c)
    BY <2>2, CallIsBacked
  <2>3. CASE d = c /\ Crash(c)
    BY <2>3, CallType, RaiseEnds DEF Crash, BackedCall
  <2>4. CASE d = c /\ \E r \in Requests : Start(c, r)
    BY <2>4, StartReplies DEF BackedCall
  <2> QED
    BY <1>2, <2>1, <2>2, <2>3, <2>4
<1>3. CASE \/ \E p \in PolicyMoves : ChangeEligibility(p)
           \/ \E r \in SessionMoves : ChangeSession(r)
  BY <1>1, <1>3, PolicyMovesKeep DEF Alike, BackedCall
<1>4. CASE (\E j \in Recoverers : RecoveryStep(j)) \/ Tick \/ UNCHANGED vars
  BY <1>1, <1>4 DEF RecoveryStep, Tick, vars
<1> QED
  BY <1>2, <1>3, <1>4 DEF Next

(* What was returned is on record, for good.                               *)
LEMMA BackedInvariance == Spec => []BackedInv
<1>1. Init => BackedInv
  <2>1. NoCall.reply.kind = "none"
    BY DEF NoCall, NoReply
  <2> QED
    BY <2>1 DEF Init, ServiceInit, BackedInv, BackedCall
<1> QED
  BY <1>1, BackedKeeps, Invariance, PTL DEF Spec

(* A result that was returned once is on record for that request, and      *)
(* stays the answer.                                                       *)
THEOREM DurableResults == Spec => []ResultsAreDurable
<1>1. BackedInv => ResultsAreDurable
  BY DEF BackedInv, BackedCall, SettledAs, ResultsAreDurable
<1> QED
  BY <1>1, BackedInvariance, PTL

-----------------------------------------------------------------------------
\* What is told of a call as its own result.
Owns(m) == m.reply.kind = "result" /\ m.reply.replay # TRUE

(* The two ways to say it agree.                                           *)
LEMMA FreshIsOwned ==
  ASSUME IInv, NEW c \in Callers
  PROVE  FreshResult(c) <=> Owns(call[c])
<1>1. call[c].reply.replay \in BOOLEAN
  BY CallType DEF Call, Reply
<1> QED
  BY <1>1, Zenon DEF FreshResult, Owns

OneOwner == \A c, d \in Callers :
  Owns(call[c]) /\ Owns(call[d]) /\ Scope(c) = Scope(d) => c = d

(* A call that newly owns a result has just settled an intent of its scope *)
(* that was open before.                                                   *)
LEMMA OwnersSettle ==
  ASSUME NEW c \in Callers, IInv, HonestCall(call[c]), call[c].pc # "idle", CallStep(c),
         Owns(call'[c])
  PROVE  /\ call'[c].request = call[c].request
         /\ \E i \in Ids : /\ docs[i].state \in {"pending", "dispatching"}
                           /\ docs[i].request = call[c].request
<1>1. CASE GoesOn(c)
  <2>1. call[c].reply.kind = "none"
    BY DEF HonestCall, NoReply
  <2> QED
    BY <1>1, <2>1 DEF GoesOn, Owns
<1>2. CASE Raises(c)
  BY <1>2, CallType, RaiseEnds DEF Raises, Owns
<1>3. CASE Replays(c)
  <2>1. PICK i \in Ids : Replay(c, docs[i].result)
    BY <1>3 DEF Replays
  <2>2. call'[c].reply = [kind |-> "result", result |-> docs[i].result, replay |-> TRUE]
    BY <2>1, CallType, ResultEnds, Zenon DEF Replay
  <2>3. call'[c].reply.replay = TRUE
    BY <2>2
  <2> QED
    BY <2>3, Zenon DEF Owns
<1>4. CASE Records(c)
  <2>1. PICK i \in Ids : /\ docs[i].state \in {"pending", "dispatching"}
                         /\ docs[i].request = call[c].request
                         /\ Return(c, docs'[i].result)
    BY <1>4 DEF Records
  <2>2. call'[c].request = call[c].request
    BY <2>1, CallType, ResultEnds, Zenon DEF Return
  <2> QED
    BY <2>1, <2>2
<1> QED
  BY <1>1, <1>2, <1>3, <1>4, CallEnds

(* With the unique index there is one result to own in a scope.            *)
LEMMA CallOwns ==
  ASSUME UniqueScope, IInv, BackedInv, OneOwner, NEW c \in Callers, HonestCall(call[c]),
         call[c].pc # "idle", CallStep(c), Owns(call'[c]), NEW d \in Callers, d # c,
         Owns(call[d]), ScopeOf[call'[c].request] = ScopeOf[call[d].request]
  PROVE  FALSE
<1>1. PICK i \in Ids : /\ docs[i].state \in {"pending", "dispatching"}
                       /\ docs[i].request = call'[c].request
  BY OwnersSettle
<1>2. PICK k \in Ids : SettledAs(docs[k], call[d].request, call[d].reply.result)
  BY DEF BackedInv, BackedCall, Owns
<1>3. Stored(i) /\ Stored(k) /\ ScopeOf[docs[i].request] = ScopeOf[docs[k].request]
  BY <1>1, <1>2 DEF Stored, SettledAs
<1>4. i = k
  BY <1>3 DEF IInv, ScopeUnique
<1> QED
  BY <1>1, <1>2, <1>4 DEF SettledAs

(* Only a call that runs takes a step.                                     *)
LEMMA CallStepRuns ==
  ASSUME NEW c \in Callers, CallStep(c)
  PROVE  call[c].pc # "idle"
BY DEF CallStep, At, GetIntent, UpsertIntent, ReadBack, EvaluateRecipient, EvaluateSession,
  RejectFind, RejectUpdate, ClaimFind, Claim, Resolve, Dispatch, CompleteFind, Complete

(* No step makes a second owner.                                           *)
LEMMA OneOwnerKeeps ==
  ASSUME UniqueScope, IInv, BackedInv, HonestInv, OneOwner, [Next]_vars
  PROVE  OneOwner'
<1> SUFFICES ASSUME NEW a \in Callers, NEW b \in Callers, a # b,
                    Owns(call'[a]), Owns(call'[b]),
                    ScopeOf[call'[a].request] = ScopeOf[call'[b].request]
             PROVE  FALSE
  BY DEF OneOwner, Owns, Scope
<1>0. ~(Owns(call[a]) /\ Owns(call[b]) /\ ScopeOf[call[a].request] = ScopeOf[call[b].request])
  BY DEF OneOwner, Scope
<1>1. ASSUME NEW c \in Callers, CallStep(c) \/ Crash(c) \/ (\E r \in Requests : Start(c, r))
      PROVE  FALSE
  <2>1. \A d \in Callers : d # c => call'[d] = call[d]
    BY <1>1, OthersKeep
  <2>2. CASE c # a /\ c # b
    BY <1>0, <2>1, <2>2
  <2>3. CASE (c = a \/ c = b) /\ CallStep(c)
    BY <2>1, <2>3, CallStepRuns, CallOwns DEF HonestInv
  <2>4. CASE (c = a \/ c = b) /\ Crash(c)
    BY <2>4, CallType, RaiseEnds DEF Crash, Owns
  <2>5. CASE (c = a \/ c = b) /\ \E r \in Requests : Start(c, r)
    BY <2>5, StartReplies DEF Owns
  <2> QED
    BY <1>1, <2>2, <2>3, <2>4, <2>5
<1>2. CASE \/ \E p \in PolicyMoves : ChangeEligibility(p)
           \/ \E r \in SessionMoves : ChangeSession(r)
  <2>1. Alike(call[a], call'[a]) /\ Alike(call[b], call'[b])
    BY <1>2, PolicyMovesKeep
  <2> QED
    BY <1>0, <2>1 DEF Alike, Owns
<1>3. CASE (\E j \in Recoverers : RecoveryStep(j)) \/ Tick \/ UNCHANGED vars
  BY <1>0, <1>3 DEF RecoveryStep, Tick, vars
<1> QED
  BY <1>1, <1>2, <1>3 DEF Next

(* With the unique index, two calls of one key are never both told that    *)
(* the message sent is theirs: all but one are told of a replay.           *)
THEOREM OneResultIsFresh ==
  ASSUME UniqueScope
  PROVE  Spec => []OneFreshResult
<1>1. Init => OneOwner
  <2>1. NoCall.reply.kind = "none"
    BY DEF NoCall, NoReply
  <2> QED
    BY <2>1 DEF Init, ServiceInit, OneOwner, Owns
<1>2. IInv /\ BackedInv /\ HonestInv /\ OneOwner /\ [Next]_vars => OneOwner'
  BY OneOwnerKeeps
<1>3. IInv /\ OneOwner => OneFreshResult
  BY FreshIsOwned DEF OneOwner, OneFreshResult
<1> QED
  BY <1>1, <1>2, <1>3, Invariance, BackedInvariance, HonestInvariance, PTL DEF Spec

-----------------------------------------------------------------------------
(* Sensitive content.                                                      *)

\* The steps at which a call has the message it may send.
Ready == {"policy", "session", "rejectFind", "rejectUpdate", "claimFind", "claimUpdate"}

CreatorCall(m) == m.pc \in Ready /\ m.request \in Sensitive => m.created = TRUE

(* A call that holds a sensitive message created the intent.               *)
LEMMA CallerOfCreator ==
  ASSUME NEW c \in Callers, IInv, CreatorCall(call[c]), CallStep(c)
  PROVE  CreatorCall(call'[c])
<1> USE DEF At
<1>1. CASE CompletionFails(c) \/ (\E x : Raise(c, x) \/ Replay(c, x) \/ Return(c, x))
  <2>1. call'[c].pc = "idle"
    BY <1>1, CallType DEF CompletionFails, Raise, Replay, Return, Finish, Becomes, NoCall
  <2> QED
    BY <2>1 DEF CreatorCall, Ready
<1>2. ASSUME NEW m, Becomes(c, m), m.pc \notin Ready \/ call[c].pc \in Ready,
             m.request = call[c].request, m.created = call[c].created
      PROVE  CreatorCall(call'[c])
  <2>1. call'[c] = m
    BY <1>2, CallType DEF Becomes
  <2> QED
    BY <1>2, <2>1 DEF CreatorCall
<1>3. ASSUME NEW pc, Goto(c, pc), pc \notin Ready \/ call[c].pc \in Ready
      PROVE  CreatorCall(call'[c])
  <2> DEFINE m == [call[c] EXCEPT !.pc = pc]
  <2>1. /\ m.pc = pc /\ m.request = call[c].request /\ m.created = call[c].created
        /\ Becomes(c, m)
    BY <1>3, CallType DEF Call, Goto
  <2> HIDE DEF m
  <2> QED
    BY <1>2, <1>3, <2>1
<1>4. ASSUME NEW i \in Ids, ContinueIntent(c, i)
      PROVE  CreatorCall(call'[c])
  <2> DEFINE m == [call[c] EXCEPT !.pc = "policy", !.id = i]
  <2>1. /\ m.request = call[c].request /\ m.created = call[c].created
    BY CallType DEF Call
  <2>2. call[c].created \in BOOLEAN
    BY CallType DEF Call
  <2>3. CASE HoldsRequest(c) /\ Becomes(c, m)
    <3>1. call'[c] = m
      BY <2>3, CallType DEF Becomes
    <3>2. call[c].request \in Sensitive => call[c].created = TRUE
      BY <2>2, <2>3 DEF HoldsRequest
    <3> HIDE DEF m
    <3> QED
      BY <2>1, <3>1, <3>2 DEF CreatorCall
  <2> QED
    BY <1>1, <1>4, <2>3 DEF ContinueIntent
<1>5. CASE GetIntent(c)
  <2>1. CASE \E i \in Ids : Becomes(c, [call[c] EXCEPT !.pc = "upsert", !.id = i])
    <3> PICK i \in Ids : Becomes(c, [call[c] EXCEPT !.pc = "upsert", !.id = i])
      BY <2>1
    <3> DEFINE m == [call[c] EXCEPT !.pc = "upsert", !.id = i]
    <3>1. m.pc = "upsert" /\ m.request = call[c].request /\ m.created = call[c].created
          /\ Becomes(c, m)
      BY CallType DEF Call
    <3> HIDE DEF m
    <3> QED
      BY <3>1, <1>2 DEF Ready
  <2> QED
    BY <1>1, <1>4, <1>5, <2>1 DEF GetIntent, FindScope
<1>6. CASE UpsertIntent(c)
  <2>1. CASE Becomes(c, [call[c] EXCEPT !.pc = "readback", !.created = TRUE])
    <3> DEFINE m == [call[c] EXCEPT !.pc = "readback", !.created = TRUE]
    <3>1. m.pc = "readback" /\ call'[c] = m
      BY <2>1, CallType DEF Becomes, Call
    <3> QED
      BY <3>1 DEF CreatorCall, Ready
  <2> QED
    BY <1>1, <1>3, <1>6, <2>1 DEF UpsertIntent, Ready
<1>7. CASE ReadBack(c)
  BY <1>1, <1>4, <1>7 DEF ReadBack, FindScope
<1>8. CASE EvaluateRecipient(c) \/ EvaluateSession(c) \/ RejectFind(c) \/ RejectUpdate(c) \/ Claim(c)
  BY <1>1, <1>3, <1>8
  DEF EvaluateRecipient, EvaluateSession, RejectFind, RejectUpdate, Claim, PolicyRaises, Ready
<1>9. CASE ClaimFind(c)
  <2> DEFINE m == [call[c] EXCEPT !.pc = "claimUpdate", !.started = now,
                                  !.count = docs[call[c].id].attempt_count]
  <2>1. CASE Becomes(c, m)
    <3>1. m.request = call[c].request /\ m.created = call[c].created
      BY CallType DEF Call
    <3>2. call[c].pc \in Ready
      BY <1>9 DEF ClaimFind, Ready
    <3> HIDE DEF m
    <3> QED
      BY <2>1, <3>1, <3>2, <1>2
  <2> QED
    BY <1>1, <1>3, <1>9, <2>1 DEF ClaimFind, Ready
<1>10. CASE Resolve(c)
  BY <1>1, <1>10 DEF Resolve
<1>11. CASE Dispatch(c)
  <2> DEFINE n == [call[c] EXCEPT !.pc = "completeFind", !.result = "provider_not_registered"]
             m(answer) == [call[c] EXCEPT !.pc = "completeFind", !.result = answer,
                                          !.invoked = TRUE, !.contacted = TRUE]
  <2>1. n.pc = "completeFind" /\ \A answer : m(answer).pc = "completeFind"
    BY CallType, Zenon DEF Call
  <2>2. Becomes(c, n) \/ \E answer \in Terminal : Becomes(c, m(answer))
    BY <1>11 DEF Dispatch
  <2> HIDE DEF n, m
  <2>3. call'[c].pc = "completeFind"
    BY <2>1, <2>2, CallType DEF Becomes
  <2> QED
    BY <2>3 DEF CreatorCall, Ready
<1>12. CASE CompleteFind(c)
  <2> DEFINE m == [call[c] EXCEPT !.pc = "completeUpdate",
                                  !.count = docs[call[c].id].attempt_count]
  <2>1. CASE Becomes(c, m)
    <3>1. m.pc = "completeUpdate"
      BY CallType DEF Call
    <3>2. call'[c] = m
      BY <2>1, CallType DEF Becomes
    <3> QED
      BY <3>1, <3>2 DEF CreatorCall, Ready
  <2> QED
    BY <1>1, <1>12, <2>1 DEF CompleteFind
<1>13. CASE Complete(c)
  BY <1>1, <1>13 DEF Complete
<1> QED
  BY <1>5, <1>6, <1>7, <1>8, <1>9, <1>10, <1>11, <1>12, <1>13 DEF CallStep

(* Only the call about to reject or to claim an intent takes it out of     *)
(* pending.                                                                *)
LEMMA PendingChanges ==
  ASSUME IInv, [Next]_vars, NEW i \in Ids, docs[i].state = "pending", docs'[i] # docs[i]
  PROVE  \E c \in Callers : call[c].pc \in {"rejectUpdate", "claimUpdate"} /\ call[c].id = i
<1>0. docs' # docs
  OBVIOUS
<1>1. ASSUME NEW c \in Callers, CallStep(c)
      PROVE  call[c].pc \in {"rejectUpdate", "claimUpdate"} /\ call[c].id = i
  <2>1. CASE UpsertIntent(c)
    <3>1. call[c].id \in Ids /\ ~Stored(call[c].id) /\ Insert(call[c].id, call[c].request)
      BY <1>0, <2>1, CallType DEF UpsertIntent, At, CallOK
    <3> QED
      BY <3>1, CallType DEF Insert, Stored
  <2>2. CASE RejectUpdate(c)
    BY <1>0, <2>2, CallType DEF RejectUpdate, At, CompleteUpdate
  <2>3. CASE Claim(c)
    BY <1>0, <2>3, CallType DEF Claim, At, ClaimUpdate
  <2>4. CASE Complete(c)
    <3>1. CompleteMatches(call[c].id, "dispatching", call[c].count)
          /\ \E d : docs' = [docs EXCEPT ![call[c].id] = d]
      BY <1>0, <2>4 DEF Complete, CompleteUpdate
    <3>2. call[c].id # i
      BY <3>1 DEF CompleteMatches
    <3> QED
      BY <3>1, <3>2, CallType
  <2> QED
    BY <1>0, <1>1, <2>1, <2>2, <2>3, <2>4
    DEF CallStep, GetIntent, ReadBack, EvaluateRecipient, EvaluateSession, RejectFind,
      ClaimFind, Resolve, Dispatch, CompleteFind
<1>2. ASSUME NEW j \in Recoverers, RecoveryStep(j)
      PROVE  FALSE
  <2>1. CompleteMatches(Candidate(j), "dispatching", recovery[j].count)
        /\ \E d : docs' = [docs EXCEPT ![Candidate(j)] = d]
    BY <1>0, <1>2 DEF RecoveryStep, RecoverySelect, RecoveryFind, RecoveryAborts, RecoveryUpdate,
      CompleteUpdate
  <2>2. Candidate(j) # i
    BY <2>1 DEF CompleteMatches
  <2> QED
    BY <2>1, <2>2, CallType
<1>3. \/ \E c \in Callers : (\E r \in Requests : Start(c, r)) \/ Crash(c)
      \/ \E p \in PolicyMoves : ChangeEligibility(p)
      \/ \E r \in SessionMoves : ChangeSession(r)
      \/ Tick
      \/ UNCHANGED vars
      => docs' = docs
  BY DEF Start, Crash, ChangeEligibility, ChangeSession, Tick, vars
<1> QED
  BY <1>0, <1>1, <1>2, <1>3 DEF Next

(* A pending intent with sensitive content, once its creator is gone, is   *)
(* never sent, rejected or settled by anyone.  Without the scope index     *)
(* its creators are the calls that created an intent of its scope and read *)
(* this one back.                                                          *)
THEOREM SensitiveStaysClosed == Spec => SensitiveFailsClosed
<1> DEFINE Inv == \A c \in Callers : CreatorCall(call[c])
<1>1. Init => Inv
  <2>1. NoCall.pc = "idle"
    BY DEF NoCall
  <2> QED
    BY <2>1 DEF Init, ServiceInit, CreatorCall, Ready
<1>2. IInv /\ Inv /\ [Next]_vars => Inv'
  <2> SUFFICES ASSUME IInv, Inv, [Next]_vars, NEW d \in Callers
               PROVE  CreatorCall(call'[d])
    BY DEF CreatorCall
  <2>1. ASSUME NEW c \in Callers, CallStep(c) \/ Crash(c) \/ (\E r \in Requests : Start(c, r))
        PROVE  CreatorCall(call'[d])
    <3>1. CASE d # c
      BY <2>1, <3>1, OthersKeep
    <3>2. CASE d = c /\ CallStep(c)
      BY <3>2, CallerOfCreator
    <3>3. CASE d = c /\ Crash(c)
      BY <3>3, CallType, RaiseEnds DEF Crash, CreatorCall, Ready
    <3>4. CASE d = c /\ \E r \in Requests : Start(c, r)
      <4>1. call'[c].pc \in {"idle", "get"}
        BY <3>4, CallType DEF Start, Becomes, NoCall
      <4> QED
        BY <3>4, <4>1 DEF CreatorCall, Ready
    <3> QED
      BY <2>1, <3>1, <3>2, <3>3, <3>4
  <2>2. CASE \/ \E p \in PolicyMoves : ChangeEligibility(p)
             \/ \E r \in SessionMoves : ChangeSession(r)
    BY <2>2, PolicyMovesKeep DEF Alike, CreatorCall
  <2>3. CASE (\E j \in Recoverers : RecoveryStep(j)) \/ Tick \/ UNCHANGED vars
    BY <2>3 DEF RecoveryStep, Tick, vars
  <2> QED
    BY <2>1, <2>2, <2>3 DEF Next
<1>3. IInv /\ Inv /\ [Next]_vars =>
        [\A i \in Ids : docs[i].state = "pending" /\ docs[i].request \in Sensitive /\ ~CreatorRuns(i)
           => docs'[i] = docs[i]]_vars
  <2> SUFFICES ASSUME IInv, Inv, [Next]_vars, NEW i \in Ids, docs[i].state = "pending",
                      docs[i].request \in Sensitive, docs'[i] # docs[i]
               PROVE  CreatorRuns(i)
    OBVIOUS
  <2>1. PICK c \in Callers : call[c].pc \in {"rejectUpdate", "claimUpdate"} /\ call[c].id = i
    BY PendingChanges
  <2>2. docs[i].request = call[c].request
    BY <2>1, CallType DEF CallOK, Bound
  <2>3. call[c].created = TRUE
    BY <2>1, <2>2 DEF CreatorCall, Ready
  <2>4. Running(c)
    BY <2>1 DEF Running, At
  <2> QED
    BY <2>1, <2>3, <2>4, Zenon DEF CreatorRuns
<1> QED
  BY <1>1, <1>2, <1>3, Invariance, PTL DEF Spec, SensitiveFailsClosed

-----------------------------------------------------------------------------
(* Time and recovery.                                                      *)

\* The steps of a call that has read the clock for its claim.
Watched == Claimed \cup {"claimUpdate"}

\* At time t, with documents D: a call is no older than CallBound, and its intent is its own.
TimedCall(m, D, t) ==
  /\ m.pc \in Watched => m.started <= t /\ t - m.started <= CallBound
  /\ m.pc \in Claimed => D[m.id].state = "dispatching" /\ D[m.id].started = m.started

\* The candidates of a batch are as old as its cutoff says.
OldBatch(b, D, t) ==
  \A n \in DOMAIN b : /\ D[b[n]].state \notin {"absent", "pending"}
                      /\ D[b[n]].started + MinAge <= t

TimedInv ==
  MinAge > CallBound =>
    /\ \A c \in Callers : TimedCall(call[c], docs, now)
    /\ \A j \in Recoverers : OldBatch(recovery[j].batch, docs, now)

(* complete() leaves the time of the claim alone.                          *)
LEMMA CompletedKeepsStart ==
  ASSUME docs \in [Ids -> Doc], NEW k, NEW i \in Ids, NEW expected, NEW count, NEW result,
         CompleteUpdate(k, expected, count, result)
  PROVE  /\ docs'[i].started = docs[i].started
         /\ i # k => docs'[i] = docs[i]
BY DEF CompleteUpdate, CompletedDoc, Doc

(* A call writes to a dispatched intent only when it completes it.         *)
LEMMA CallWrites ==
  ASSUME IInv, NEW c \in Callers, CallStep(c), NEW i \in Ids,
         docs[i].state \notin {"absent", "pending"}
  PROVE  \/ docs'[i] = docs[i]
         \/ /\ call[c].pc = "completeUpdate" /\ call[c].id = i
            /\ docs'[i].started = docs[i].started
<1> USE DEF At
<1>1. CASE UpsertIntent(c)
  <2>1. ~Stored(call[c].id)
    BY <1>1, CallType DEF UpsertIntent, CallOK
  <2> QED
    BY <1>1, <2>1, CallType DEF UpsertIntent, Insert, Stored
<1>2. CASE RejectUpdate(c)
  <2>1. CompleteMatches(call[c].id, "pending", 0) => call[c].id # i
    BY DEF CompleteMatches
  <2> QED
    BY <1>2, <2>1, CallType, CompletedKeepsStart DEF RejectUpdate
<1>3. CASE Claim(c)
  BY <1>3, CallType DEF Claim, ClaimMatches, ClaimUpdate
<1>4. CASE Complete(c)
  BY <1>4, CallType, CompletedKeepsStart DEF Complete
<1>5. CASE UNCHANGED docs
  BY <1>5
<1> QED
  BY <1>1, <1>2, <1>3, <1>4, <1>5
  DEF CallStep, GetIntent, ReadBack, EvaluateRecipient, EvaluateSession, RejectFind,
      ClaimFind, Resolve, Dispatch, CompleteFind

(* A job writes only to the candidate it works on.                         *)
LEMMA JobWrites ==
  ASSUME IInv, NEW j \in Recoverers, RecoveryStep(j), NEW i \in Ids
  PROVE  \/ docs'[i] = docs[i]
         \/ /\ recovery[j].pc = "update" /\ Candidate(j) = i
            /\ docs'[i].started = docs[i].started
<1>1. CASE RecoveryUpdate(j)
  BY <1>1, CallType, CompletedKeepsStart DEF RecoveryUpdate, IInv, TypeOK, IntentsTypeOK
<1> QED
  BY <1>1 DEF RecoveryStep, RecoverySelect, RecoveryFind, RecoveryAborts

(* The other steps write no document.                                      *)
LEMMA QuietSteps ==
  ASSUME \/ \E c \in Callers : (\E r \in Requests : Start(c, r)) \/ Crash(c)
         \/ \E p \in PolicyMoves : ChangeEligibility(p)
         \/ \E r \in SessionMoves : ChangeSession(r)
         \/ Tick
         \/ UNCHANGED vars
  PROVE  UNCHANGED <<docs, recovery>>
BY DEF Start, Crash, ChangeEligibility, ChangeSession, Tick, vars

(* Once dispatched, an intent keeps the time of its claim.                 *)
LEMMA StartIsKept ==
  ASSUME IInv, [Next]_vars, NEW i \in Ids, docs[i].state \notin {"absent", "pending"}
  PROVE  /\ docs'[i].state \notin {"absent", "pending"}
         /\ docs'[i].started = docs[i].started
<1>1. docs[i].state \in {"dispatching"} \cup Terminal
  BY CallType DEF Doc, IInv, TypeOK, IntentsTypeOK
<1>2. docs'[i].state \notin {"absent", "pending"}
  BY <1>1, NextIsForward DEF IntentStep
<1>3. docs'[i].started = docs[i].started
  <2>1. ASSUME NEW c \in Callers, CallStep(c)
        PROVE  docs'[i].started = docs[i].started
    BY <2>1, CallWrites
  <2>2. ASSUME NEW j \in Recoverers, RecoveryStep(j)
        PROVE  docs'[i].started = docs[i].started
    BY <2>2, JobWrites
  <2> QED
    BY <2>1, <2>2, QuietSteps DEF Next
<1> QED
  BY <1>2, <1>3

(* The steps of a call, as far as its age and its claim go.                *)
LEMMA EndsUnwatched ==
  ASSUME IInv, NEW c \in Callers,
         (\E e : Raise(c, e)) \/ (\E x : Replay(c, x) \/ Return(c, x))
  PROVE  call'[c].pc = "idle"
BY CallType, RaiseEnds, ResultEnds DEF Replay, Return

(* A call that goes on keeps its intent and its clock.                     *)
LEMMA GoneTo ==
  ASSUME IInv, NEW c \in Callers, NEW pc, Goto(c, pc)
  PROVE  /\ call'[c].pc = pc /\ call'[c].id = call[c].id
         /\ call'[c].started = call[c].started
BY CallType DEF Goto, Becomes, Call

(* _continue_intent claims nothing.                                        *)
LEMMA ContinuesUnwatched ==
  ASSUME IInv, NEW c \in Callers, NEW i, ContinueIntent(c, i)
  PROVE  call'[c].pc \in {"idle", "policy"}
<1>1. CASE Becomes(c, [call[c] EXCEPT !.pc = "policy", !.id = i])
  BY <1>1, CallType DEF Becomes, Call
<1> QED
  BY <1>1, EndsUnwatched DEF ContinueIntent

\* How a call comes to be watched, and stays it.
ReadsClock(c) == call'[c].pc = "claimUpdate" /\ call'[c].started = now
TakesClaim(c) ==
  /\ call[c].pc = "claimUpdate" /\ call'[c].pc = "send" /\ call[c].id \in Ids
  /\ call'[c].id = call[c].id /\ call'[c].started = call[c].started
  /\ docs'[call[c].id].state = "dispatching" /\ docs'[call[c].id].started = call[c].started
GoesOnClaimed(c) ==
  /\ call[c].pc \in Claimed /\ call'[c].pc \in Claimed
  /\ call'[c].id = call[c].id /\ call'[c].started = call[c].started
  /\ UNCHANGED docs

(* No step of a call makes it watched otherwise.                           *)
LEMMA WatchedSteps ==
  ASSUME IInv, NEW c \in Callers, CallStep(c)
  PROVE  call'[c].pc \notin Watched \/ ReadsClock(c) \/ TakesClaim(c) \/ GoesOnClaimed(c)
<1> USE DEF At
<1>1. CASE \E e : Raise(c, e)
  BY <1>1, EndsUnwatched DEF Watched
<1>2. CASE GetIntent(c)
  <2>1. CASE \E i \in Ids : Becomes(c, [call[c] EXCEPT !.pc = "upsert", !.id = i])
    <3>1. call'[c].pc = "upsert"
      BY <2>1, CallType DEF Becomes, Call
    <3> QED
      BY <3>1 DEF Watched
  <2> QED
    BY <1>1, <1>2, <2>1, ContinuesUnwatched DEF GetIntent, Watched
<1>3. CASE UpsertIntent(c)
  <2>1. CASE Becomes(c, [call[c] EXCEPT !.pc = "readback", !.created = TRUE])
    <3>1. call'[c].pc = "readback"
      BY <2>1, CallType DEF Becomes, Call
    <3> QED
      BY <3>1 DEF Watched
  <2> QED
    BY <1>1, <1>3, <2>1, GoneTo DEF UpsertIntent, Watched
<1>4. CASE ReadBack(c)
  BY <1>1, <1>4, ContinuesUnwatched DEF ReadBack, Watched
<1>5. CASE EvaluateRecipient(c) \/ EvaluateSession(c) \/ RejectFind(c)
  BY <1>1, <1>5, GoneTo
  DEF EvaluateRecipient, EvaluateSession, RejectFind, PolicyRaises, Watched
<1>6. CASE RejectUpdate(c) \/ Complete(c)
  BY <1>1, <1>6, GoneTo, EndsUnwatched DEF RejectUpdate, Complete, CompletionFails, Watched
<1>7. CASE ClaimFind(c)
  <2> DEFINE m == [call[c] EXCEPT !.pc = "claimUpdate", !.started = now,
                                  !.count = docs[call[c].id].attempt_count]
  <2>1. CASE Becomes(c, m)
    <3>1. m.pc = "claimUpdate" /\ m.started = now
      BY CallType DEF Call
    <3> HIDE DEF m
    <3> QED
      BY <2>1, <3>1, CallType DEF Becomes, ReadsClock
  <2> QED
    BY <1>1, <1>7, <2>1, GoneTo DEF ClaimFind, Watched
<1>8. CASE Claim(c)
  <2>1. CASE ClaimUpdate(call[c].id, call[c].started) /\ Goto(c, "send")
    <3>1. call[c].id \in Ids /\ docs[call[c].id] \in Doc
      BY <1>8, CallType DEF Claim, CallOK, Bound
    <3>2. docs'[call[c].id] = ClaimedDoc(docs[call[c].id], call[c].started)
      BY <2>1, <3>1, CallType DEF ClaimUpdate
    <3>3. docs'[call[c].id].state = "dispatching" /\ docs'[call[c].id].started = call[c].started
      BY <3>1, <3>2 DEF ClaimedDoc, Doc
    <3> QED
      BY <1>8, <2>1, <3>1, <3>3, GoneTo DEF Claim, TakesClaim
  <2> QED
    BY <1>1, <1>8, <2>1, GoneTo DEF Claim, Watched
<1>9. CASE Resolve(c)
  BY <1>1, <1>9, EndsUnwatched DEF Resolve, Watched
<1>10. CASE Dispatch(c)
  <2> DEFINE n == [call[c] EXCEPT !.pc = "completeFind", !.result = "provider_not_registered"]
             m(answer) == [call[c] EXCEPT !.pc = "completeFind", !.result = answer,
                                          !.invoked = TRUE, !.contacted = TRUE]
  <2>1. /\ n.pc = "completeFind" /\ n.id = call[c].id /\ n.started = call[c].started
        /\ \A answer : /\ m(answer).pc = "completeFind" /\ m(answer).id = call[c].id
                       /\ m(answer).started = call[c].started
    BY CallType, Zenon DEF Call
  <2>2. Becomes(c, n) \/ \E answer \in Terminal : Becomes(c, m(answer))
    BY <1>10 DEF Dispatch
  <2> HIDE DEF n, m
  <2> QED
    BY <1>10, <2>1, <2>2, CallType DEF Dispatch, Becomes, GoesOnClaimed
<1>11. CASE CompleteFind(c)
  <2> DEFINE m == [call[c] EXCEPT !.pc = "completeUpdate",
                                  !.count = docs[call[c].id].attempt_count]
  <2>1. CASE Becomes(c, m)
    <3>1. m.pc = "completeUpdate" /\ m.id = call[c].id /\ m.started = call[c].started
      BY CallType DEF Call
    <3> HIDE DEF m
    <3> QED
      BY <1>11, <2>1, <3>1, CallType DEF CompleteFind, Becomes, GoesOnClaimed
  <2> QED
    BY <1>1, <1>11, <2>1 DEF CompleteFind, CompletionFails
<1> QED
  BY <1>2, <1>3, <1>4, <1>5, <1>6, <1>7, <1>8, <1>9, <1>10, <1>11 DEF CallStep

(* A batch of stale intents, and what is left of it.                       *)
LEMMA SelectedIsOld ==
  ASSUME IInv, NEW cutoff \in 0..(now + 1 - MinAge), NEW b \in Batches(cutoff)
  PROVE  OldBatch(b, docs, now)
<1> SUFFICES ASSUME NEW n \in DOMAIN b
             PROVE  /\ docs[b[n]].state \notin {"absent", "pending"}
                    /\ docs[b[n]].started + MinAge <= now
  BY DEF OldBatch
<1>1. b[n] \in Stale(cutoff)
  BY DEF Batches
<1>2. /\ docs[b[n]].state = "dispatching" /\ docs[b[n]].started < cutoff
      /\ docs[b[n]].started \in Nat
  BY <1>1, CallType DEF Stale, Doc, IInv, TypeOK, IntentsTypeOK
<1>3. now \in Nat /\ MinAge \in Nat
  BY MongoAssumption DEF IInv, TypeOK, IntentsTypeOK
<1> QED
  BY <1>2, <1>3

(* What is left of an old batch is old.                                    *)
LEMMA RestIsOld ==
  ASSUME NEW b \in Seq(Ids), b # <<>>, NEW D, NEW t, OldBatch(b, D, t)
  PROVE  OldBatch(Tail(b), D, t)
<1>1. \A n \in DOMAIN Tail(b) : n + 1 \in DOMAIN b /\ Tail(b)[n] = b[n + 1]
  BY HeadTailProperties, LenProperties
<1> QED
  BY <1>1 DEF OldBatch

(* Only Tick moves the clock.                                              *)
LEMMA ClockSteps ==
  ASSUME [Next]_vars
  PROVE  now' = now \/ Tick
<1>1. ASSUME NEW c \in Callers, CallStep(c)
      PROVE  now' = now
  BY <1>1 DEF CallStep, GetIntent, UpsertIntent, ReadBack, EvaluateRecipient, EvaluateSession,
    RejectFind, RejectUpdate, ClaimFind, Claim, Resolve, Dispatch, CompleteFind, Complete
<1>2. ASSUME NEW j \in Recoverers, RecoveryStep(j)
      PROVE  now' = now
  BY <1>2 DEF RecoveryStep, RecoverySelect, RecoveryFind, RecoveryUpdate, RecoveryAborts
<1>3. \/ \E c \in Callers : (\E r \in Requests : Start(c, r)) \/ Crash(c)
      \/ \E p \in PolicyMoves : ChangeEligibility(p)
      \/ \E r \in SessionMoves : ChangeSession(r)
      \/ UNCHANGED vars
      => now' = now
  BY DEF Start, Crash, ChangeEligibility, ChangeSession, vars
<1> QED
  BY <1>1, <1>2, <1>3 DEF Next

(* Candidates only get older.                                              *)
LEMMA BatchesAge ==
  ASSUME IInv, [Next]_vars, NEW b \in Seq(Ids), OldBatch(b, docs, now)
  PROVE  OldBatch(b, docs', now')
<1>1. now' \in Nat /\ now \in Nat /\ now <= now'
  <2>1. now \in Nat
    BY MongoAssumption DEF IInv, TypeOK, IntentsTypeOK
  <2>2. now' = now \/ now' = now + 1
    BY ClockSteps DEF Tick
  <2> QED
    BY <2>1, <2>2
<1> SUFFICES ASSUME NEW n \in DOMAIN b
             PROVE  /\ docs'[b[n]].state \notin {"absent", "pending"}
                    /\ docs'[b[n]].started + MinAge <= now'
  BY DEF OldBatch
<1>2. b[n] \in Ids
  BY ElementOfSeq, LenProperties
<1>3. docs[b[n]].started \in Nat /\ MinAge \in Nat
  BY <1>2, MongoAssumption DEF Doc, IInv, TypeOK, IntentsTypeOK
<1>4. /\ docs[b[n]].state \notin {"absent", "pending"}
      /\ docs[b[n]].started + MinAge <= now
  BY DEF OldBatch
<1>5. /\ docs'[b[n]].state \notin {"absent", "pending"}
      /\ docs'[b[n]].started = docs[b[n]].started
  BY <1>2, <1>4, StartIsKept
<1> QED
  BY <1>1, <1>3, <1>4, <1>5

(* Every batch stays old.                                                  *)
LEMMA BatchesAreOld ==
  ASSUME IInv, [Next]_vars, \A j \in Recoverers : OldBatch(recovery[j].batch, docs, now),
         NEW k \in Recoverers
  PROVE  OldBatch(recovery'[k].batch, docs', now')
<1>1. /\ recovery[k] \in Job /\ recovery \in [Recoverers -> Job]
      /\ recovery[k].pc # "idle" => recovery[k].batch # <<>>
  BY RecoveryType DEF Recoveries
<1>2. OldBatch(recovery[k].batch, docs', now')
  BY <1>1, BatchesAge DEF Job
<1>3. OldBatch(<<>>, docs', now')
  BY EmptySeq DEF OldBatch
<1>4. Idle.batch = <<>>
  BY DEF Idle
<1>5. ASSUME NEW j \in Recoverers, RecoveryStep(j)
      PROVE  OldBatch(recovery'[k].batch, docs', now')
  <2>1. \A m : JobBecomes(j, m) => recovery'[k] = IF k = j THEN m ELSE recovery[k]
    BY <1>1 DEF JobBecomes
  <2>2. CASE \/ JobBecomes(j, Idle)
             \/ \E m : JobBecomes(j, m) /\ m.batch = recovery[j].batch
    BY <1>2, <1>3, <1>4, <2>1, <2>2
  <2>3. ASSUME NEW b \in Seq(Ids), OldBatch(b, docs, now),
               JobBecomes(j, [pc |-> "find", batch |-> b, count |-> 0])
        PROVE  OldBatch(recovery'[k].batch, docs', now')
    BY <1>2, <2>1, <2>3, BatchesAge
  <2>4. CASE NextCandidate(j) /\ recovery[j].pc # "idle"
    <3>1. recovery[j].batch \in Seq(Ids) /\ recovery[j].batch # <<>>
      BY <2>4, RecoveryType DEF Recoveries, Job
    <3>2. Tail(recovery[j].batch) \in Seq(Ids)
      BY <3>1, HeadTailProperties
    <3>3. OldBatch(Tail(recovery[j].batch), docs, now)
      BY <3>1, RestIsOld
    <3> QED
      BY <2>2, <2>3, <2>4, <3>2, <3>3 DEF NextCandidate
  <2>5. CASE \E cutoff \in 0..(now + 1 - MinAge) : RecoverySelect(j, cutoff)
    <3>1. PICK cutoff \in 0..(now + 1 - MinAge) : RecoverySelect(j, cutoff)
      BY <2>5
    <3>2. PICK b \in Batches(cutoff) \ {<<>>} :
            JobBecomes(j, [pc |-> "find", batch |-> b, count |-> 0])
      BY <3>1 DEF RecoverySelect
    <3>3. b \in Seq(Ids)
      <4>1. PICK n \in 0..RecoveryLimit : b \in [1..n -> Stale(cutoff)]
        BY <3>2 DEF Batches
      <4>2. b \in [1..n -> Ids] /\ n \in Nat
        BY <4>1, MongoAssumption DEF Stale
      <4> QED
        BY <4>2, SeqDef
    <3> QED
      BY <2>3, <3>2, <3>3, SelectedIsOld
  <2>6. CASE RecoveryFind(j)
    <3> DEFINE m == [recovery[j] EXCEPT !.pc = "update",
                                        !.count = docs[Candidate(j)].attempt_count]
    <3>1. m.batch = recovery[j].batch
      BY <1>1 DEF Job
    <3>2. JobBecomes(j, m) \/ NextCandidate(j)
      BY <2>6 DEF RecoveryFind
    <3> HIDE DEF m
    <3> QED
      BY <2>2, <2>4, <2>6, <3>1, <3>2 DEF RecoveryFind
  <2>7. CASE RecoveryUpdate(j) \/ RecoveryAborts(j)
    BY <2>2, <2>4, <2>7 DEF RecoveryUpdate, RecoveryAborts
  <2> QED
    BY <1>5, <2>5, <2>6, <2>7 DEF RecoveryStep
<1>6. CASE UNCHANGED recovery
  BY <1>2, <1>6
<1>7. ASSUME NEW c \in Callers, CallStep(c)
      PROVE  UNCHANGED recovery
  BY <1>7 DEF CallStep, GetIntent, UpsertIntent, ReadBack, EvaluateRecipient, EvaluateSession,
    RejectFind, RejectUpdate, ClaimFind, Claim, Resolve, Dispatch, CompleteFind, Complete
<1> QED
  BY <1>5, <1>6, <1>7, QuietSteps DEF Next

(* The intent of a claimed call stays as it was claimed, while other calls *)
(* run and jobs recover.                                                   *)
LEMMA ClaimIsKept ==
  ASSUME IInv, MinAge > CallBound, [Next]_vars, NEW c \in Callers, ~CallStep(c),
         call[c].pc \in Claimed, TimedCall(call[c], docs, now),
         \A j \in Recoverers : OldBatch(recovery[j].batch, docs, now)
  PROVE  /\ docs'[call[c].id].state = "dispatching"
         /\ docs'[call[c].id].started = call[c].started
<1> DEFINE i == call[c].id
<1>1. /\ i \in Ids /\ docs[i].state = "dispatching" /\ docs[i].started = call[c].started
      /\ now - call[c].started <= CallBound /\ call[c].started \in Nat
  BY CallType DEF CallOK, Bound, TimedCall, Watched, Call
<1> HIDE DEF i
<1>2. ASSUME NEW d \in Callers, CallStep(d)
      PROVE  docs'[i] = docs[i]
  <2>1. d # c
    BY <1>2
  <2>2. call[d].pc = "completeUpdate" => call[d].id # i
    BY <2>1, Zenon DEF IInv, Apart, At, i
  <2> QED
    BY <1>1, <1>2, <2>2, CallWrites
<1>3. ASSUME NEW j \in Recoverers, RecoveryStep(j)
      PROVE  docs'[i] = docs[i]
  <2>1. ASSUME recovery[j].pc = "update", Candidate(j) = i
        PROVE  FALSE
    <3>1. recovery[j].batch \in Seq(Ids) /\ recovery[j].batch # <<>>
      BY <2>1, RecoveryType DEF Recoveries, Job
    <3>2. 1 \in DOMAIN recovery[j].batch /\ recovery[j].batch[1] = i
      BY <2>1, <3>1, EmptySeq, LenProperties DEF Candidate
    <3>3. docs[i].started + MinAge <= now
      BY <3>2 DEF OldBatch
    <3>4. now \in Nat /\ MinAge \in Nat /\ CallBound \in Nat
      BY MongoAssumption, ServiceAssumption DEF IInv, TypeOK, IntentsTypeOK
    <3> QED
      BY <1>1, <3>3, <3>4
  <2> QED
    BY <1>1, <1>3, <2>1, JobWrites
<1> QED
  BY <1>1, <1>2, <1>3, QuietSteps DEF Next, i

(* The step of a call, of another one, of a job or of the clock: a call    *)
(* that was timely is.                                                     *)
LEMMA CallIsTimely ==
  ASSUME IInv, TimedInv, MinAge > CallBound, [Next]_vars, NEW c \in Callers
  PROVE  TimedCall(call'[c], docs', now')
<1>1. /\ TimedCall(call[c], docs, now)
      /\ \A j \in Recoverers : OldBatch(recovery[j].batch, docs, now)
  BY DEF TimedInv
<1>2. now \in Nat /\ CallBound \in Nat /\ call[c].started \in Nat
  BY CallType, MongoAssumption, ServiceAssumption DEF IInv, TypeOK, IntentsTypeOK, Call
<1>3. CASE CallStep(c)
  <2>1. now' = now
    BY <1>3 DEF CallStep, GetIntent, UpsertIntent, ReadBack, EvaluateRecipient,
      EvaluateSession, RejectFind, RejectUpdate, ClaimFind, Claim, Resolve, Dispatch,
      CompleteFind, Complete
  <2>2. CASE call'[c].pc \notin Watched
    BY <2>2 DEF TimedCall, Watched
  <2>3. CASE ReadsClock(c)
    BY <1>2, <2>1, <2>3 DEF ReadsClock, TimedCall, Watched
  <2>4. CASE TakesClaim(c)
    <3>1. call[c].started <= now /\ now - call[c].started <= CallBound
      BY <1>1, <2>4 DEF TakesClaim, TimedCall, Watched
    <3> QED
      BY <2>1, <2>4, <3>1 DEF TakesClaim, TimedCall, Watched
  <2>5. CASE GoesOnClaimed(c)
    BY <1>1, <2>1, <2>5 DEF GoesOnClaimed, TimedCall, Watched
  <2> QED
    BY <1>3, <2>2, <2>3, <2>4, <2>5, WatchedSteps
<1>4. CASE Crash(c) \/ \E r \in Requests : Start(c, r)
  <2>1. call'[c].pc \notin Watched
    <3>1. ASSUME NEW r, Becomes(c, [NoCall EXCEPT !.request = r,
                          !.reply = [NoReply EXCEPT !.kind = "ServiceDependencyError"]])
          PROVE  call'[c].pc \notin Watched
      BY <3>1, CallType DEF Becomes, NoCall, Watched
    <3>2. ASSUME NEW r \in Requests, Start(c, r)
          PROVE  call'[c].pc \notin Watched
      <4> DEFINE m == [NoCall EXCEPT !.pc = "get", !.request = r,
                         !.wasEligible = Eligible(r), !.hadSession = r \in sessions]
      <4>1. m.pc = "get"
        BY Zenon DEF NoCall
      <4>2. Becomes(c, m) => call'[c] = m
        BY CallType DEF Becomes
      <4>3. Start(c, r) => Becomes(c, m) \/ Becomes(c, [NoCall EXCEPT !.request = r,
                             !.reply = [NoReply EXCEPT !.kind = "ServiceDependencyError"]])
        BY Zenon DEF Start
      <4> HIDE DEF m
      <4> QED
        BY <3>1, <3>2, <4>1, <4>2, <4>3 DEF Watched
    <3> QED
      BY <1>4, <3>2, EndsUnwatched DEF Crash, Watched
  <2> QED
    BY <2>1 DEF TimedCall, Watched
<1>5. CASE ~CallStep(c) /\ Alike(call[c], call'[c]) /\ now' = now
  <2>1. /\ call'[c].pc = call[c].pc /\ call'[c].id = call[c].id
        /\ call'[c].started = call[c].started
    BY <1>5, Zenon DEF Alike
  <2> QED
    BY <1>1, <1>5, <2>1, ClaimIsKept DEF TimedCall
<1>6. CASE Tick
  <2>1. call' = call /\ docs' = docs /\ now' = now + 1
    BY <1>6 DEF Tick
  <2>2. call[c].pc \in Watched => now - call[c].started < CallBound
    BY <1>6, Zenon DEF Tick, Watched
  <2> QED
    BY <1>1, <1>2, <2>1, <2>2 DEF TimedCall
<1>7. ASSUME call'[c] = call[c]
      PROVE  Alike(call[c], call'[c])
  BY <1>7 DEF Alike
<1>8. CASE ~CallStep(c) /\ ~Crash(c) /\ ~(\E r \in Requests : Start(c, r)) /\ ~Tick
  <2>1. now' = now
    BY <1>8, ClockSteps
  <2>2. Alike(call[c], call'[c])
    <3>1. ASSUME NEW d \in Callers,
                 CallStep(d) \/ Crash(d) \/ (\E r \in Requests : Start(d, r))
          PROVE  call'[c] = call[c]
      BY <1>8, <3>1, OthersKeep
    <3>2. (\E j \in Recoverers : RecoveryStep(j)) \/ UNCHANGED vars => call' = call
      BY DEF RecoveryStep, vars
    <3>3. CASE \/ \E p \in PolicyMoves : ChangeEligibility(p)
               \/ \E r \in SessionMoves : ChangeSession(r)
      BY <3>3, PolicyMovesKeep
    <3> QED
      BY <1>7, <1>8, <3>1, <3>2, <3>3 DEF Next
  <2> QED
    BY <1>5, <1>8, <2>1, <2>2
<1> QED
  BY <1>3, <1>4, <1>6, <1>8

(* With a cutoff beyond the age a call can have, recovery settles no       *)
(* intent whose call is still going.                                       *)
THEOREM NoneOvertaken == Spec => []NeverOvertaken
<1>1. Init => TimedInv
  <2>1. NoCall.pc = "idle" /\ Idle.batch = <<>>
    BY DEF NoCall, Idle
  <2>2. \A c \in Callers : TimedCall(NoCall, docs, now)
    BY <2>1 DEF TimedCall, Watched
  <2>3. OldBatch(<<>>, docs, now)
    BY EmptySeq DEF OldBatch
  <2> QED
    BY <2>1, <2>2, <2>3 DEF Init, ServiceInit, IntentsInit, TimedInv
<1>2. IInv /\ TimedInv /\ [Next]_vars => TimedInv'
  BY CallIsTimely, BatchesAreOld DEF TimedInv
<1>3. TimedInv => NeverOvertaken
  BY DEF TimedInv, TimedCall, NeverOvertaken
<1> QED
  BY <1>1, <1>2, <1>3, Invariance, PTL DEF Spec

-----------------------------------------------------------------------------
(* Progress, as far as it can be said without fairness: a call has only so *)
(* many steps, each finds what it needs, and no update is lost for another *)
(* reason than that someone else made it first.                            *)

\* Where _send and what it calls may go from a step; they may end at any.
Follows(pc, next) ==
  \/ pc = "get" /\ next \in {"upsert", "policy"}
  \/ pc = "upsert" /\ next = "readback"
  \/ pc = "readback" /\ next = "policy"
  \/ pc = "policy" /\ next \in {"session", "claimFind", "rejectFind"}
  \/ pc = "session" /\ next \in {"claimFind", "rejectFind"}
  \/ pc = "rejectFind" /\ next \in {"rejectUpdate", "resolve"}
  \/ pc = "rejectUpdate" /\ next = "resolve"
  \/ pc = "claimFind" /\ next \in {"claimUpdate", "resolve"}
  \/ pc = "claimUpdate" /\ next \in {"send", "resolve"}
  \/ pc = "send" /\ next = "completeFind"
  \/ pc = "completeFind" /\ next = "completeUpdate"
  \/ next = "idle"

\* The steps a call may still make.
StepsLeft(pc) ==
  CASE pc = "idle" -> 0
    [] pc \in {"resolve", "completeUpdate"} -> 1
    [] pc \in {"rejectUpdate", "completeFind"} -> 2
    [] pc \in {"rejectFind", "send"} -> 3
    [] pc = "claimUpdate" -> 4
    [] pc = "claimFind" -> 5
    [] pc = "session" -> 6
    [] pc = "policy" -> 7
    [] pc = "readback" -> 8
    [] pc = "upsert" -> 9
    [] pc = "get" -> 10

(* Every step of a call is one of these.                                   *)
LEMMA CallFollows ==
  ASSUME IInv, NEW c \in Callers, CallStep(c)
  PROVE  Follows(call[c].pc, call'[c].pc)
<1> USE DEF At
<1>1. ASSUME (\E e : Raise(c, e)) \/ CompletionFails(c)
      PROVE  call'[c].pc = "idle"
  BY <1>1, EndsUnwatched DEF CompletionFails
<1>2. CASE GetIntent(c)
  <2>1. ASSUME NEW i, Becomes(c, [call[c] EXCEPT !.pc = "upsert", !.id = i])
        PROVE  call'[c].pc = "upsert"
    BY <2>1, CallType DEF Becomes, Call
  <2> QED
    BY <1>1, <1>2, <2>1, ContinuesUnwatched DEF GetIntent, Follows
<1>3. CASE UpsertIntent(c)
  <2>1. ASSUME Becomes(c, [call[c] EXCEPT !.pc = "readback", !.created = TRUE])
        PROVE  call'[c].pc = "readback"
    BY <2>1, CallType DEF Becomes, Call
  <2> QED
    BY <1>1, <1>3, <2>1, GoneTo DEF UpsertIntent, Follows
<1>4. CASE ReadBack(c)
  BY <1>1, <1>4, ContinuesUnwatched DEF ReadBack, Follows
<1>5. CASE EvaluateRecipient(c) \/ EvaluateSession(c) \/ RejectFind(c)
  BY <1>1, <1>5, GoneTo DEF EvaluateRecipient, EvaluateSession, RejectFind, PolicyRaises, Follows
<1>6. CASE RejectUpdate(c) \/ Resolve(c) \/ Complete(c)
  BY <1>1, <1>6, GoneTo, EndsUnwatched DEF RejectUpdate, Resolve, Complete, Follows
<1>7. CASE ClaimFind(c)
  <2>1. ASSUME NEW t, NEW n, Becomes(c, [call[c] EXCEPT !.pc = "claimUpdate", !.started = t,
                                                        !.count = n])
        PROVE  call'[c].pc = "claimUpdate"
    BY <2>1, CallType DEF Becomes, Call
  <2> QED
    BY <1>1, <1>7, <2>1, GoneTo DEF ClaimFind, Follows
<1>8. CASE Claim(c)
  BY <1>1, <1>8, GoneTo DEF Claim, Follows
<1>9. CASE Dispatch(c)
  <2>1. call[c].pc = "send"
    BY <1>9 DEF Dispatch
  <2>2. call'[c].pc = "completeFind"
    <3> DEFINE n == [call[c] EXCEPT !.pc = "completeFind", !.result = "provider_not_registered"]
               m(answer) == [call[c] EXCEPT !.pc = "completeFind", !.result = answer,
                                            !.invoked = TRUE, !.contacted = TRUE]
    <3>1. n.pc = "completeFind" /\ \A answer : m(answer).pc = "completeFind"
      BY CallType, Zenon DEF Call
    <3>2. Becomes(c, n) \/ \E answer \in Terminal : Becomes(c, m(answer))
      BY <1>9 DEF Dispatch
    <3> HIDE DEF n, m
    <3> QED
      BY <3>1, <3>2, CallType DEF Becomes
  <2> QED
    BY <2>1, <2>2 DEF Follows
<1>10. CASE CompleteFind(c)
  <2>1. ASSUME NEW n, Becomes(c, [call[c] EXCEPT !.pc = "completeUpdate", !.count = n])
        PROVE  call'[c].pc = "completeUpdate"
    BY <2>1, CallType DEF Becomes, Call
  <2> QED
    BY <1>1, <1>10, <2>1 DEF CompleteFind, Follows
<1> QED
  BY <1>2, <1>3, <1>4, <1>5, <1>6, <1>7, <1>8, <1>9, <1>10 DEF CallStep

(* Between its own steps a call stays where it is, unless its process ends.*)
LEMMA BetweenSteps ==
  ASSUME IInv, [Next]_vars, NEW c \in Callers, ~CallStep(c)
  PROVE  \/ Alike(call[c], call'[c])
         \/ call'[c].pc = "idle"
         \/ call[c].pc = "idle" /\ call'[c].pc = "get"
<1>1. CASE Crash(c)
  BY <1>1, EndsUnwatched DEF Crash
<1>2. ASSUME NEW r \in Requests, Start(c, r)
      PROVE  call[c].pc = "idle" /\ call'[c].pc \in {"idle", "get"}
  BY <1>2, CallType DEF Start, At, Becomes, NoCall
<1>3. CASE call'[c] = call[c]
  BY <1>3 DEF Alike
<1>4. CASE ~Crash(c) /\ ~(\E r \in Requests : Start(c, r))
  <2>1. ASSUME NEW d \in Callers, CallStep(d) \/ Crash(d) \/ (\E r \in Requests : Start(d, r))
        PROVE  call'[c] = call[c]
    BY <1>4, <2>1, OthersKeep
  <2>2. (\E j \in Recoverers : RecoveryStep(j)) \/ Tick \/ UNCHANGED vars => call' = call
    BY DEF RecoveryStep, Tick, vars
  <2>3. CASE \/ \E p \in PolicyMoves : ChangeEligibility(p)
             \/ \E r \in SessionMoves : ChangeSession(r)
    BY <2>3, PolicyMovesKeep
  <2> QED
    BY <1>3, <1>4, <2>1, <2>2, <2>3 DEF Next
<1> QED
  BY <1>1, <1>2, <1>4

\* A call makes one of ten steps with each of its own, and none goes back.
CallsAdvance ==
  [][\A c \in Callers : Running(c) =>
       /\ StepsLeft(call'[c].pc) <= StepsLeft(call[c].pc)
       /\ CallStep(c) => StepsLeft(call'[c].pc) < StepsLeft(call[c].pc)]_vars

(* No race, lost reply or policy makes a call try again: with each step it *)
(* has fewer left, of ten at most, and nobody else's step sets it back.    *)
THEOREM CallsShorten == Spec => CallsAdvance
<1>1. \A pc \in Steps : StepsLeft("idle") < StepsLeft(pc) /\ StepsLeft("idle") <= StepsLeft(pc)
  <2>1. /\ StepsLeft("idle") = 0 /\ StepsLeft("get") = 10 /\ StepsLeft("upsert") = 9
        /\ StepsLeft("readback") = 8 /\ StepsLeft("policy") = 7 /\ StepsLeft("session") = 6
        /\ StepsLeft("claimFind") = 5 /\ StepsLeft("claimUpdate") = 4 /\ StepsLeft("send") = 3
        /\ StepsLeft("rejectFind") = 3 /\ StepsLeft("rejectUpdate") = 2
        /\ StepsLeft("completeFind") = 2 /\ StepsLeft("completeUpdate") = 1
        /\ StepsLeft("resolve") = 1
    BY DEF StepsLeft
  <2> QED
    BY <2>1
<1>2. \A pc, next \in {"idle"} \cup Steps :
        pc # "idle" /\ Follows(pc, next) =>
          StepsLeft(next) < StepsLeft(pc) /\ StepsLeft(next) <= StepsLeft(pc)
  BY DEF StepsLeft, Follows
<1>3. ASSUME IInv, IInv', [Next]_vars, NEW c \in Callers, Running(c)
      PROVE  /\ StepsLeft(call'[c].pc) <= StepsLeft(call[c].pc)
             /\ CallStep(c) => StepsLeft(call'[c].pc) < StepsLeft(call[c].pc)
  <2>1. /\ call[c].pc \in {"idle"} \cup Steps /\ call[c].pc # "idle"
        /\ call'[c].pc \in {"idle"} \cup Steps
    BY <1>3, CallType DEF Running, At, IInv, TypeOK, Call
  <2>2. CASE CallStep(c)
    <3>1. Follows(call[c].pc, call'[c].pc)
      BY <1>3, <2>2, CallFollows
    <3> QED
      BY <1>2, <2>1, <3>1, Zenon
  <2>3. CASE ~CallStep(c)
    <3>1. CASE call'[c].pc = "idle"
      BY <1>1, <2>1, <2>3, <3>1
    <3>2. CASE call'[c].pc = call[c].pc
      <4>1. StepsLeft(call'[c].pc) <= StepsLeft(call[c].pc)
        BY <2>1, <3>2 DEF StepsLeft
      <4> QED
        BY <2>3, <4>1
    <3> QED
      BY <1>3, <2>1, <2>3, <3>1, <3>2, BetweenSteps, Zenon DEF Alike
  <2> QED
    BY <2>2, <2>3
<1>4. IInv /\ IInv' /\ [Next]_vars =>
        [\A c \in Callers : Running(c) =>
           /\ StepsLeft(call'[c].pc) <= StepsLeft(call[c].pc)
           /\ CallStep(c) => StepsLeft(call'[c].pc) < StepsLeft(call[c].pc)]_vars
  BY <1>3
<1> QED
  BY <1>4, Invariance, PTL DEF Spec, CallsAdvance

(* A scope that has an intent keeps one.                                   *)
LEMMA FoundStays ==
  ASSUME IInv, [Next]_vars, NEW s, FindScope(s) # {}
  PROVE  \E i \in Ids : docs'[i].state # "absent" /\ ScopeOf[docs'[i].request] = s
<1>1. PICK i \in Ids : Stored(i) /\ ScopeOf[docs[i].request] = s
  BY DEF FindScope
<1>2. docs[i].state \in States
  BY DEF IInv, TypeOK, IntentsTypeOK, Doc
<1>3. docs'[i].state # "absent" /\ docs'[i].request = docs[i].request
  BY <1>1, <1>2, NextIsForward DEF IntentStep, Stored, States, Terminal
<1> QED
  BY <1>1, <1>3

\* The read that ends create_if_absent() finds the intent of its scope.
ReadBackFinds == \A c \in Callers : At(c, "readback") => FindScope(Scope(c)) # {}

(* However the upsert ended for it, a call that reads the intent back finds*)
(* one: nothing deletes intents, so create_if_absent() has no reason to    *)
(* raise that its creation could not be confirmed.                         *)
THEOREM CreatedIsFound == Spec => []ReadBackFinds
<1>1. Init => ReadBackFinds
  BY DEF Init, ServiceInit, NoCall, ReadBackFinds, At
<1>2. IInv /\ ReadBackFinds /\ [Next]_vars => ReadBackFinds'
  <2> SUFFICES ASSUME IInv, ReadBackFinds, [Next]_vars, NEW c \in Callers,
                      call'[c].pc = "readback"
               PROVE  \E i \in Ids : /\ docs'[i].state # "absent"
                                    /\ ScopeOf[docs'[i].request] = ScopeOf[call'[c].request]
    BY DEF ReadBackFinds, At, Scope, FindScope, Stored
  <2>1. CASE CallStep(c)
    <3>1. call[c].pc = "upsert"
      BY <2>1, CallFollows DEF Follows
    <3>2. UpsertIntent(c)
      BY <2>1, <3>1 DEF CallStep, At, GetIntent, ReadBack, EvaluateRecipient, EvaluateSession,
        RejectFind, RejectUpdate, ClaimFind, Claim, Resolve, Dispatch, CompleteFind, Complete
    <3>3. ~\E e : Raise(c, e)
      BY EndsUnwatched
    <3>4. call[c].request \in Requests
      BY <3>1, CallType DEF CallOK
    <3>5. CASE Insert(call[c].id, call[c].request)
               /\ Becomes(c, [call[c] EXCEPT !.pc = "readback", !.created = TRUE])
      <4>1. call'[c].request = call[c].request
        BY <3>5, CallType DEF Becomes, Call
      <4>2. call[c].id \in Ids
        BY <3>1, CallType DEF CallOK
      <4>3. docs'[call[c].id] = NewDoc(call[c].request)
        BY <3>5, <4>2, CallType DEF Insert
      <4>4. docs'[call[c].id].state # "absent" /\ docs'[call[c].id].request = call[c].request
        BY <4>3 DEF NewDoc, Absent
      <4> QED
        BY <4>1, <4>2, <4>4
    <3>6. CASE FindScope(Scope(c)) # {} /\ Goto(c, "readback")
      <4>1. call'[c].request = call[c].request
        BY <3>6, CallType DEF Goto, Becomes, Call
      <4> QED
        BY <3>6, <4>1, FoundStays DEF Scope
    <3> QED
      BY <3>2, <3>3, <3>5, <3>6 DEF UpsertIntent
  <2>2. CASE ~CallStep(c)
    <3>1. call[c].pc = "readback" /\ call'[c].request = call[c].request
      BY <2>2, BetweenSteps, Zenon DEF Alike
    <3> QED
      BY <3>1, FoundStays DEF ReadBackFinds, At, Scope
  <2> QED
    BY <2>1, <2>2
<1> QED
  BY <1>1, <1>2, Invariance, PTL DEF Spec

\* What complete() and claim() have read of the attempts before they write.
CountsRead ==
  /\ \A c \in Callers : /\ call[c].pc = "claimUpdate" => call[c].count = 0
                        /\ call[c].pc = "completeUpdate" => call[c].count = 1
  /\ \A j \in Recoverers : recovery[j].pc = "update" => recovery[j].count = 1

(* A claim is the first attempt, and the only one.                         *)
LEMMA CountsInvariance == Spec => []CountsRead
<1>1. Init => CountsRead
  BY DEF Init, ServiceInit, IntentsInit, NoCall, Idle, CountsRead
<1>2. ASSUME IInv, AttemptsCoherent, NEW i \in Ids
      PROVE  /\ docs[i].state = "pending" => docs[i].attempt_count = 0
             /\ docs[i].state = "dispatching" => docs[i].attempt_count = 1
  <2>1. Len(<<>>) = 0 /\ Len(<<NoResult>>) = 1
    OBVIOUS
  <2> QED
    BY <1>2, <2>1 DEF AttemptsCoherent
<1>3. ASSUME IInv, AttemptsCoherent, CountsRead, [Next]_vars, NEW c \in Callers
      PROVE  /\ call'[c].pc = "claimUpdate" => call'[c].count = 0
             /\ call'[c].pc = "completeUpdate" => call'[c].count = 1
  <2>1. CASE CallStep(c) /\ call'[c].pc = "claimUpdate"
    <3>1. call[c].pc = "claimFind"
      BY <1>3, <2>1, CallFollows DEF Follows
    <3>2. ClaimFind(c)
      BY <2>1, <3>1 DEF CallStep, At, GetIntent, UpsertIntent, ReadBack, EvaluateRecipient,
        EvaluateSession, RejectFind, RejectUpdate, Claim, Resolve, Dispatch, CompleteFind, Complete
    <3>3. (~\E e : Raise(c, e)) /\ ~Goto(c, "resolve")
      BY <1>3, <2>1, EndsUnwatched, GoneTo
    <3>4. docs[call[c].id].state = "pending"
          /\ Becomes(c, [call[c] EXCEPT !.pc = "claimUpdate", !.started = now,
                                        !.count = docs[call[c].id].attempt_count])
      BY <3>2, <3>3 DEF ClaimFind
    <3>5. call'[c].count = docs[call[c].id].attempt_count
      BY <1>3, <3>4, CallType DEF Becomes, Call
    <3>6. call[c].id \in Ids
      BY <1>3, <3>1, CallType DEF CallOK, Bound
    <3> QED
      BY <1>2, <1>3, <2>1, <3>4, <3>5, <3>6
  <2>2. CASE CallStep(c) /\ call'[c].pc = "completeUpdate"
    <3>1. call[c].pc = "completeFind"
      BY <1>3, <2>2, CallFollows DEF Follows
    <3>2. CompleteFind(c)
      BY <2>2, <3>1 DEF CallStep, At, GetIntent, UpsertIntent, ReadBack, EvaluateRecipient,
        EvaluateSession, RejectFind, RejectUpdate, ClaimFind, Claim, Resolve, Dispatch, Complete
    <3>3. ~CompletionFails(c)
      BY <1>3, <2>2, EndsUnwatched DEF CompletionFails
    <3>4. docs[call[c].id].state = "dispatching"
          /\ Becomes(c, [call[c] EXCEPT !.pc = "completeUpdate",
                                        !.count = docs[call[c].id].attempt_count])
      BY <3>2, <3>3 DEF CompleteFind
    <3>5. call'[c].count = docs[call[c].id].attempt_count
      BY <1>3, <3>4, CallType DEF Becomes, Call
    <3>6. call[c].id \in Ids
      BY <1>3, <3>1, CallType DEF CallOK, Bound
    <3> QED
      BY <1>2, <1>3, <2>2, <3>4, <3>5, <3>6
  <2>3. CASE ~CallStep(c)
    BY <1>3, <2>3, BetweenSteps, Zenon DEF Alike, CountsRead
  <2> QED
    BY <2>1, <2>2, <2>3
<1>4. ASSUME IInv, AttemptsCoherent, CountsRead, [Next]_vars, NEW k \in Recoverers
      PROVE  recovery'[k].pc = "update" => recovery'[k].count = 1
  <2>1. recovery \in [Recoverers -> Job]
    BY <1>4, RecoveryType DEF Recoveries
  <2>2. CASE UNCHANGED recovery
    BY <1>4, <2>2 DEF CountsRead
  <2>3. ASSUME NEW j \in Recoverers, RecoveryStep(j)
        PROVE  recovery'[k].pc = "update" => recovery'[k].count = 1
    <3>1. \A m : JobBecomes(j, m) => recovery'[k] = IF k = j THEN m ELSE recovery[k]
      BY <2>1 DEF JobBecomes
    <3>2. ASSUME NEW m, JobBecomes(j, m), m.pc # "update"
          PROVE  recovery'[k].pc = "update" => recovery'[k].count = 1
      BY <1>4, <3>1, <3>2 DEF CountsRead
    <3>3. CASE NextCandidate(j) \/ JobBecomes(j, Idle)
      <4>1. \A b : [pc |-> "find", batch |-> b, count |-> 0].pc # "update"
        OBVIOUS
      <4>2. Idle.pc # "update"
        BY DEF Idle
      <4> QED
        BY <3>2, <3>3, <4>1, <4>2 DEF NextCandidate
    <3>4. CASE \E cutoff : RecoverySelect(j, cutoff)
      <4>1. PICK b : JobBecomes(j, [pc |-> "find", batch |-> b, count |-> 0])
        BY <3>4 DEF RecoverySelect
      <4> QED
        BY <3>2, <4>1
    <3>5. CASE RecoveryFind(j)
      <4>1. CASE /\ docs[Candidate(j)].state = "dispatching"
                 /\ JobBecomes(j, [recovery[j] EXCEPT !.pc = "update",
                                                      !.count = docs[Candidate(j)].attempt_count])
        <5>1. recovery[j] \in Job /\ recovery[j].batch # <<>>
          BY <1>4, <3>5, RecoveryType DEF RecoveryFind, Recoveries
        <5>2. Candidate(j) \in Ids
          BY <5>1, HeadTailProperties DEF Candidate, Job
        <5>3. PICK m : m = [recovery[j] EXCEPT !.pc = "update",
                                               !.count = docs[Candidate(j)].attempt_count]
          OBVIOUS
        <5>4. m.count = docs[Candidate(j)].attempt_count /\ JobBecomes(j, m)
          BY <4>1, <5>1, <5>3 DEF Job
        <5>5. m.count = 1
          BY <1>2, <1>4, <4>1, <5>2, <5>4
        <5> QED
          BY <1>4, <3>1, <5>4, <5>5 DEF CountsRead
      <4> QED
        BY <3>3, <3>5, <4>1 DEF RecoveryFind
    <3> QED
      BY <2>3, <3>3, <3>4, <3>5 DEF RecoveryStep, RecoveryUpdate, RecoveryAborts
  <2>4. ASSUME NEW c \in Callers, CallStep(c)
        PROVE  UNCHANGED recovery
    BY <2>4 DEF CallStep, GetIntent, UpsertIntent, ReadBack, EvaluateRecipient, EvaluateSession,
      RejectFind, RejectUpdate, ClaimFind, Claim, Resolve, Dispatch, CompleteFind, Complete
  <2> QED
    BY <1>4, <2>2, <2>3, <2>4, QuietSteps DEF Next
<1>5. IInv /\ AttemptsCoherent /\ CountsRead /\ [Next]_vars => CountsRead'
  BY <1>3, <1>4 DEF CountsRead
<1> QED
  BY <1>1, <1>5, Invariance, AttemptsAgree, PTL DEF Spec

(* claim() and complete() answer None only because another call or a job   *)
(* has moved the intent on: the attempts in their filters never differ.    *)
THEOREM OnlyRacesMiss == Spec => []UpdatesMatch
<1>1. ASSUME IInv, AttemptsCoherent, NEW i \in Ids
      PROVE  /\ docs[i].state = "pending" => ClaimMatches(i, 0)
             /\ docs[i].state = "dispatching" => CompleteMatches(i, "dispatching", 1)
  <2>1. Len(<<>>) = 0 /\ Len(<<NoResult>>) = 1 /\ <<NoResult>>[1] = NoResult
    OBVIOUS
  <2>2. /\ docs[i].state = "pending" => docs[i].attempt_count = 0
        /\ docs[i].state = "dispatching" =>
             docs[i].attempt_count = 1 /\ docs[i].attempts = <<NoResult>>
    BY <1>1, <2>1 DEF AttemptsCoherent
  <2> QED
    BY <2>1, <2>2 DEF ClaimMatches, CompleteMatches
<1>2. IInv /\ AttemptsCoherent /\ CountsRead => UpdatesMatch
  <2> SUFFICES ASSUME IInv, AttemptsCoherent, CountsRead PROVE UpdatesMatch
    OBVIOUS
  <2>1. ASSUME NEW c \in Callers, call[c].pc \in {"claimUpdate", "completeUpdate"}
        PROVE  call[c].id \in Ids
    BY <2>1, CallType DEF CallOK, Bound
  <2>2. ASSUME NEW j \in Recoverers, recovery[j].pc = "update"
        PROVE  Candidate(j) \in Ids
    <3>1. recovery[j].batch \in Seq(Ids) /\ recovery[j].batch # <<>>
      BY <2>2, RecoveryType DEF Recoveries, Job
    <3> QED
      BY <3>1, HeadTailProperties DEF Candidate
  <2> QED
    BY <1>1, <2>1, <2>2 DEF UpdatesMatch, CountsRead, At
<1> QED
  BY <1>2, Invariance, AttemptsAgree, CountsInvariance, PTL

(* Only a claim makes an intent dispatching, at the time its call has read.*)
LEMMA ClaimsDispatch ==
  ASSUME IInv, [Next]_vars, NEW i \in Ids,
         docs[i].state # "dispatching", docs'[i].state = "dispatching"
  PROVE  \E c \in Callers : call[c].pc = "claimUpdate" /\ docs'[i].started = call[c].started
<1>1. docs \in [Ids -> Doc]
  BY DEF IInv, TypeOK, IntentsTypeOK
<1>2. \A result \in Results : StateOf(result) # "dispatching"
  BY StateOfTerminal
<1>3. ASSUME NEW k \in Ids, NEW expected, NEW count, NEW result \in Results,
             CompleteUpdate(k, expected, count, result)
      PROVE  FALSE
  <2>1. /\ docs'[k].state = StateOf(result)
        /\ \A m \in Ids : m # k => docs'[m] = docs[m]
    BY <1>1, <1>3, CompleteEffect
  <2> QED
    BY <1>2, <2>1
<1>4. ASSUME NEW c \in Callers, CallStep(c)
      PROVE  call[c].pc = "claimUpdate" /\ docs'[i].started = call[c].started
  <2> USE DEF At
  <2>1. CASE UNCHANGED docs
    BY <2>1
  <2>2. CASE UpsertIntent(c) /\ Insert(call[c].id, call[c].request)
    <3>1. call[c].id \in Ids /\ call[c].request \in Requests
      BY <2>2, CallType DEF UpsertIntent, CallOK
    <3> QED
      BY <1>1, <2>2, <3>1, InsertEffect
  <2>3. CASE RejectUpdate(c) /\ CompleteUpdate(call[c].id, "pending", 0, "policy_rejected")
    <3>1. call[c].id \in Ids
      BY <2>3, CallType DEF RejectUpdate, CallOK, Bound
    <3> QED
      BY <1>3, <2>3, <3>1
  <2>4. CASE Claim(c) /\ ClaimUpdate(call[c].id, call[c].started)
    <3>1. call[c].pc = "claimUpdate" /\ call[c].id \in Ids
      BY <2>4, CallType DEF Claim, CallOK, Bound
    <3>2. i = call[c].id
      BY <1>1, <2>4, <3>1 DEF ClaimUpdate
    <3>3. docs'[i] = ClaimedDoc(docs[i], call[c].started) /\ docs[i] \in Doc
      BY <1>1, <2>4, <3>2 DEF ClaimUpdate
    <3> QED
      BY <3>1, <3>3 DEF ClaimedDoc, Doc
  <2>5. CASE /\ Complete(c)
             /\ CompleteUpdate(call[c].id, "dispatching", call[c].count, call[c].result)
    <3>1. call[c].id \in Ids /\ call[c].result \in Results
      BY <2>5, CallType DEF Complete, CallOK, Bound
    <3> QED
      BY <1>3, <2>5, <3>1
  <2> QED
    BY <1>4, <2>1, <2>2, <2>3, <2>4, <2>5
    DEF CallStep, GetIntent, UpsertIntent, ReadBack, EvaluateRecipient, EvaluateSession,
        RejectFind, RejectUpdate, ClaimFind, Claim, Resolve, Dispatch, CompleteFind, Complete
<1>5. ASSUME NEW j \in Recoverers, RecoveryStep(j)
      PROVE  FALSE
  <2>1. CASE UNCHANGED docs
    BY <2>1
  <2>2. CASE /\ recovery[j].pc = "update"
             /\ CompleteUpdate(Candidate(j), "dispatching", recovery[j].count,
                               "stale_dispatch_recovered")
    <3>1. recovery[j].batch \in Seq(Ids) /\ recovery[j].batch # <<>>
      BY <2>2, RecoveryType DEF Recoveries, Job
    <3>2. Candidate(j) \in Ids
      BY <3>1, HeadTailProperties DEF Candidate
    <3> QED
      BY <1>3, <2>2, <3>2
  <2> QED
    BY <1>5, <2>1, <2>2
    DEF RecoveryStep, RecoverySelect, RecoveryFind, RecoveryUpdate, RecoveryAborts
<1> QED
  BY <1>4, <1>5, QuietSteps DEF Next

\* No claim is dated in the future, neither one stored nor one about to be.
DatedPast ==
  /\ \A c \in Callers : call[c].pc = "claimUpdate" => call[c].started <= now
  /\ \A i \in Ids : docs[i].state = "dispatching" => docs[i].started <= now

(* What the recovery of every intent rests on: whichever call died or lost *)
(* its reply after its claim, the query of recover_stale_dispatching()     *)
(* finds the intent once it is old enough, and complete() then takes it.   *)
THEOREM DispatchingIsRecoverable == Spec => []Recoverable
<1>1. Init => DatedPast
  BY DEF Init, ServiceInit, IntentsInit, NoCall, Absent, DatedPast
<1>2. IInv /\ DatedPast /\ [Next]_vars => DatedPast'
  <2> SUFFICES ASSUME IInv, DatedPast, [Next]_vars PROVE DatedPast'
    OBVIOUS
  <2>1. now \in Nat /\ now' \in Nat /\ now <= now'
    <3>1. now \in Nat
      BY MongoAssumption DEF IInv, TypeOK, IntentsTypeOK
    <3>2. now' = now \/ now' = now + 1
      BY ClockSteps DEF Tick
    <3> QED
      BY <3>1, <3>2
  <2>2. ASSUME NEW c \in Callers, call'[c].pc = "claimUpdate"
        PROVE  call'[c].started <= now'
    <3>1. CASE CallStep(c)
      <4>1. ReadsClock(c)
        BY <2>2, <3>1, WatchedSteps DEF TakesClaim, GoesOnClaimed, Watched
      <4> QED
        BY <2>1, <4>1 DEF ReadsClock
    <3>2. CASE ~CallStep(c)
      <4>1. call[c].pc = "claimUpdate" /\ call'[c].started = call[c].started
        BY <2>2, <3>2, BetweenSteps, Zenon DEF Alike
      <4>2. call[c].started \in Nat
        BY CallType DEF Call
      <4> QED
        BY <2>1, <4>1, <4>2 DEF DatedPast
    <3> QED
      BY <3>1, <3>2
  <2>3. ASSUME NEW i \in Ids, docs'[i].state = "dispatching"
        PROVE  docs'[i].started <= now'
    <3>1. PICK t \in Nat : docs'[i].started = t /\ t <= now
      <4>1. CASE docs[i].state = "dispatching"
        <5>1. docs[i].started \in Nat
          BY DEF IInv, TypeOK, IntentsTypeOK, Doc
        <5> QED
          BY <4>1, <5>1, StartIsKept DEF DatedPast
      <4>2. CASE docs[i].state # "dispatching"
        <5>1. PICK c \in Callers : call[c].pc = "claimUpdate" /\ docs'[i].started = call[c].started
          BY <2>3, <4>2, ClaimsDispatch
        <5>2. call[c].started \in Nat
          BY CallType DEF Call
        <5> QED
          BY <5>1, <5>2 DEF DatedPast
      <4> QED
        BY <4>1, <4>2
    <3> QED
      BY <2>1, <3>1
  <2> QED
    BY <2>2, <2>3 DEF DatedPast
<1>3. IInv /\ AttemptsCoherent /\ DatedPast => Recoverable
  <2> SUFFICES ASSUME IInv, AttemptsCoherent, DatedPast,
                      NEW i \in Ids, docs[i].state = "dispatching"
               PROVE  i \in Stale(now + 1) /\ CompleteMatches(i, "dispatching", docs[i].attempt_count)
    BY DEF Recoverable
  <2>1. now \in Nat /\ docs[i].started \in Nat /\ docs[i].started <= now
    BY MongoAssumption DEF IInv, TypeOK, IntentsTypeOK, Doc, DatedPast
  <2>2. i \in Stale(now + 1)
    BY <2>1 DEF Stale
  <2>3. Len(<<NoResult>>) = 1 /\ <<NoResult>>[1] = NoResult
    OBVIOUS
  <2>4. docs[i].attempts = <<NoResult>> /\ docs[i].attempt_count = 1
    BY <2>3 DEF AttemptsCoherent
  <2> QED
    BY <2>2, <2>3, <2>4 DEF CompleteMatches
<1> QED
  BY <1>1, <1>2, <1>3, Invariance, AttemptsAgree, PTL DEF Spec

-----------------------------------------------------------------------------
(* The ledger.                                                             *)

\* What the documents D, handed over as S counts, are to the port.
FoundIn(D, s) == {i \in Ids : D[i].state # "absent" /\ ScopeOf[D[i].request] = s}
OneOf(D, s) == CHOOSE i \in Ids : i \in FoundIn(D, s)
StateIn(D) == [s \in Scopes |-> IF FoundIn(D, s) = {} THEN "absent" ELSE D[OneOf(D, s)].state]
OwnerIn(D) == [s \in Scopes |-> IF FoundIn(D, s) = {} THEN NoRequest ELSE D[OneOf(D, s)].request]
SentIn(D, S) == [s \in Scopes |-> FoundIn(D, s) # {} /\ S[OneOf(D, s)] > 0]

(* The ledger's variables are those of the documents, before and after.    *)
LEMMA LedgerStates ==
  /\ Ledger!Init <=> /\ StateIn(docs) = [s \in Scopes |-> "absent"]
                     /\ OwnerIn(docs) = [s \in Scopes |-> NoRequest]
                     /\ SentIn(docs, sends) = [s \in Scopes |-> FALSE]
  /\ Ledger!vars = <<StateIn(docs), OwnerIn(docs), SentIn(docs, sends)>>
  /\ Ledger!vars' = <<StateIn(docs'), OwnerIn(docs'), SentIn(docs', sends')>>
BY Zenon DEF Ledger!Init, Ledger!vars, StateIn, OwnerIn, SentIn, FoundIn, OneOf, FindScope, Stored, IntentOf

\* A step of the ledger in one scope.
MoveIn(D, E, s, from, to) == StateIn(D)[s] = from /\ StateIn(E) = [StateIn(D) EXCEPT ![s] = to]

(* So are its actions: the moves of a scope,                               *)
LEMMA LedgerMoves ==
  ASSUME NEW s \in Scopes, NEW from, NEW to
  PROVE  Ledger!Move(s, from, to) <=> MoveIn(docs, docs', s, from, to)
BY Zenon DEF Ledger!Move, MoveIn, StateIn, FoundIn, OneOf, FindScope, Stored, IntentOf

(* the rejection and the claim,                                            *)
LEMMA LedgerActions ==
  /\ \A s \in Scopes : /\ Ledger!RejectLocally(s) <=>
                            /\ MoveIn(docs, docs', s, "pending", "rejected")
                            /\ OwnerIn(docs') = OwnerIn(docs)
                            /\ SentIn(docs', sends') = SentIn(docs, sends)
                       /\ Ledger!Claim(s) <=>
                            /\ MoveIn(docs, docs', s, "pending", "dispatching")
                            /\ OwnerIn(docs') = OwnerIn(docs)
                            /\ SentIn(docs', sends') = SentIn(docs, sends)
BY LedgerMoves, Zenon DEF Ledger!RejectLocally, Ledger!Claim, OwnerIn, SentIn, FoundIn, OneOf,
  FindScope, Stored, IntentOf

(* the settlement,                                                         *)
LEMMA LedgerSettles ==
  ASSUME NEW s \in Scopes, NEW to \in Terminal,
         MoveIn(docs, docs', s, "dispatching", to),
         OwnerIn(docs') = OwnerIn(docs), SentIn(docs', sends') = SentIn(docs, sends),
         to = "accepted" => SentIn(docs, sends)[s]
  PROVE  Ledger!Settle(s, to)
BY LedgerMoves, Zenon DEF Ledger!Settle, Ledger!Terminal, OwnerIn, SentIn, FoundIn, OneOf,
  FindScope, Stored, IntentOf

(* the message handed over,                                                *)
LEMMA LedgerSends ==
  ASSUME NEW s \in Scopes, StateIn(docs)[s] \in {"dispatching", "unknown"},
         ~SentIn(docs, sends)[s], SentIn(docs', sends') = [SentIn(docs, sends) EXCEPT ![s] = TRUE],
         StateIn(docs') = StateIn(docs), OwnerIn(docs') = OwnerIn(docs)
  PROVE  Ledger!Send(s)
BY Zenon DEF Ledger!Send, OwnerIn, StateIn, SentIn, FoundIn, OneOf,
  FindScope, Stored, IntentOf

(* and the creation.                                                       *)
LEMMA LedgerCreates ==
  ASSUME NEW r \in Requests, MoveIn(docs, docs', ScopeOf[r], "absent", "pending"),
         OwnerIn(docs') = [OwnerIn(docs) EXCEPT ![ScopeOf[r]] = r],
         SentIn(docs', sends') = SentIn(docs, sends)
  PROVE  Ledger!Create(r)
BY LedgerMoves, MongoAssumption, Zenon DEF Ledger!Create, OwnerIn, SentIn, FoundIn, OneOf,
  FindScope, Stored, IntentOf

\* One document per scope, in documents D.
UniqueIn(D) ==
  \A i, k \in Ids : D[i].state # "absent" /\ D[k].state # "absent"
                    /\ ScopeOf[D[i].request] = ScopeOf[D[k].request] => i = k

(* The document of a scope is the one that is found.                       *)
LEMMA TheOneFound ==
  ASSUME NEW D, UniqueIn(D), NEW i \in Ids, D[i].state # "absent"
  PROVE  FoundIn(D, ScopeOf[D[i].request]) = {i} /\ OneOf(D, ScopeOf[D[i].request]) = i
<1>1. \A k \in Ids : k \in FoundIn(D, ScopeOf[D[i].request]) <=> k = i
  BY DEF FoundIn, UniqueIn
<1>2. FoundIn(D, ScopeOf[D[i].request]) = {i}
  BY <1>1 DEF FoundIn
<1> QED
  BY <1>2 DEF OneOf

(* A write to one document moves its scope.                                *)
LEMMA DocumentMoves ==
  ASSUME NEW D, NEW E, NEW S, UniqueIn(D), NEW i \in Ids,
         D[i].state # "absent", E[i].state # "absent", E[i].request = D[i].request,
         \A k \in Ids : k # i => E[k] = D[k], NEW s, s = ScopeOf[D[i].request]
  PROVE  /\ s \in Scopes => MoveIn(D, E, s, D[i].state, E[i].state)
         /\ s \in Scopes => SentIn(D, S)[s] = (S[i] > 0)
         /\ OwnerIn(E) = OwnerIn(D) /\ SentIn(E, S) = SentIn(D, S)
<1>1. \A t : FoundIn(E, t) = FoundIn(D, t)
  BY DEF FoundIn
<1>2. \A t : OneOf(E, t) = OneOf(D, t)
  BY <1>1 DEF OneOf
<1>3. FoundIn(D, s) = {i} /\ OneOf(D, s) = i
  BY TheOneFound
<1>4. ASSUME NEW t, FoundIn(D, t) # {}
      PROVE  OneOf(D, t) \in Ids /\ (OneOf(D, t) = i => t = s)
  BY <1>4 DEF OneOf, FoundIn
<1>5. ASSUME NEW t, t # s
      PROVE  FoundIn(D, t) # {} => E[OneOf(D, t)] = D[OneOf(D, t)]
  BY <1>4, <1>5
<1>6. StateIn(E) = [StateIn(D) EXCEPT ![s] = E[i].state]
  BY <1>1, <1>2, <1>3, <1>5 DEF StateIn
<1>7. s \in Scopes => StateIn(D)[s] = D[i].state
  BY <1>3 DEF StateIn
<1>8. OwnerIn(E) = OwnerIn(D)
  BY <1>1, <1>2, <1>3, <1>5 DEF OwnerIn
<1>9. SentIn(E, S) = SentIn(D, S) /\ (s \in Scopes => SentIn(D, S)[s] = (S[i] > 0))
  BY <1>1, <1>2, <1>3 DEF SentIn
<1> QED
  BY <1>6, <1>7, <1>8, <1>9 DEF MoveIn

(* An insert gives its scope an owner.                                     *)
LEMMA DocumentCreated ==
  ASSUME NEW D, NEW E, NEW S, NEW r \in Requests, NEW i \in Ids,
         D[i].state = "absent", E[i].state = "pending", E[i].request = r, S[i] = 0,
         FoundIn(D, ScopeOf[r]) = {}, \A k \in Ids : k # i => E[k] = D[k]
  PROVE  /\ MoveIn(D, E, ScopeOf[r], "absent", "pending")
         /\ OwnerIn(E) = [OwnerIn(D) EXCEPT ![ScopeOf[r]] = r]
         /\ SentIn(E, S) = SentIn(D, S)
<1> DEFINE s == ScopeOf[r]
<1>1. s \in Scopes
  BY MongoAssumption
<1>2. FoundIn(E, s) = {i}
  BY DEF FoundIn
<1>3. OneOf(E, s) = i
  BY <1>2 DEF OneOf
<1>4. \A t : t # s => FoundIn(E, t) = FoundIn(D, t)
  BY DEF FoundIn
<1>5. \A t : t # s => OneOf(E, t) = OneOf(D, t)
  BY <1>4 DEF OneOf
<1>6. ASSUME NEW t, t # s, FoundIn(D, t) # {}
      PROVE  E[OneOf(D, t)] = D[OneOf(D, t)]
  BY <1>6 DEF OneOf, FoundIn
<1>7. FoundIn(D, s) = {}
  OBVIOUS
<1>8. ~(S[i] > 0)
  OBVIOUS
<1> HIDE DEF s
<1>9. StateIn(E) = [StateIn(D) EXCEPT ![s] = "pending"] /\ StateIn(D)[s] = "absent"
  BY <1>1, <1>2, <1>3, <1>4, <1>5, <1>6, <1>7 DEF StateIn
<1>10. OwnerIn(E) = [OwnerIn(D) EXCEPT ![s] = r]
  BY <1>1, <1>2, <1>3, <1>4, <1>5, <1>6, <1>7 DEF OwnerIn
<1>11. SentIn(E, S) = SentIn(D, S)
  BY <1>2, <1>3, <1>4, <1>5, <1>7, <1>8 DEF SentIn
<1> QED
  BY <1>9, <1>10, <1>11 DEF MoveIn, s

(* A message handed over marks its scope.                                  *)
LEMMA MessageHanded ==
  ASSUME NEW D, UniqueIn(D), NEW i \in Ids, D[i].state # "absent", NEW S, NEW T,
         T[i] > 0, \A k \in Ids : k # i => T[k] = S[k], NEW s, s = ScopeOf[D[i].request]
  PROVE  SentIn(D, T) = [SentIn(D, S) EXCEPT ![s] = TRUE]
<1>1. FoundIn(D, s) = {i} /\ OneOf(D, s) = i
  BY TheOneFound
<1>2. ASSUME NEW t, t # s, FoundIn(D, t) # {}
      PROVE  T[OneOf(D, t)] = S[OneOf(D, t)]
  BY <1>2 DEF OneOf, FoundIn
<1> QED
  BY <1>1, <1>2 DEF SentIn

-----------------------------------------------------------------------------
(* Each step of the service is one of the ledger, or none.                 *)

LedgerStep == [Ledger!Next]_(Ledger!vars)

(* Steps of neither Mongo's intents nor the provider.                      *)
LEMMA LedgerStays ==
  ASSUME UNCHANGED <<docs, sends>>
  PROVE  LedgerStep
BY LedgerStates DEF LedgerStep

\* Whatever is stored was asked for.
AskedFor == \A i \in Ids : Stored(i) => docs[i].request \in Requests

(* Only an upsert stores, for the request of its call.                     *)
LEMMA InsertIsAskedFor ==
  ASSUME IInv, [Next]_vars, NEW i \in Ids, ~Stored(i), Stored(i)'
  PROVE  docs'[i].request \in Requests
<1>1. ASSUME NEW c \in Callers, CallStep(c)
      PROVE  docs'[i].request \in Requests
  <2>1. docs'[i] # docs[i]
    BY DEF Stored
  <2>2. CASE UpsertIntent(c)
    <3>1. /\ call[c].id \in Ids /\ call[c].request \in Requests
          /\ Insert(call[c].id, call[c].request)
      BY <2>1, <2>2, CallType DEF UpsertIntent, At, CallOK
    <3> QED
      BY <2>1, <3>1, CallType, InsertEffect
  <2>3. ASSUME NEW k, NEW x, NEW n, NEW y, docs[k].state # "absent", CompleteUpdate(k, x, n, y)
        PROVE  FALSE
    BY <2>1, <2>3, CallType, CompletedKeepsStart DEF Stored
  <2>4. CASE Claim(c)
    BY <2>1, <2>4, CallType DEF Claim, ClaimMatches, ClaimUpdate, Stored
  <2> QED
    BY <1>1, <2>1, <2>2, <2>3, <2>4 DEF CallStep, GetIntent, ReadBack, EvaluateRecipient,
      EvaluateSession, RejectFind, RejectUpdate, ClaimFind, Resolve, Dispatch, CompleteFind,
      Complete, CompleteMatches
<1>2. ASSUME NEW j \in Recoverers, RecoveryStep(j)
      PROVE  FALSE
  <2>1. CASE RecoveryUpdate(j)
    <3>1. docs'[i] # docs[i] /\ docs \in [Ids -> Doc]
      BY DEF Stored, IInv, TypeOK, IntentsTypeOK
    <3>2. /\ docs[Candidate(j)].state = "dispatching"
          /\ CompleteUpdate(Candidate(j), "dispatching", recovery[j].count,
                            "stale_dispatch_recovered")
      BY <2>1, <3>1 DEF RecoveryUpdate, CompleteMatches
    <3>3. i # Candidate(j)
      BY <3>2 DEF Stored
    <3> QED
      BY <3>1, <3>2, <3>3, CompletedKeepsStart
  <2> QED
    BY <1>2, <2>1 DEF RecoveryStep, RecoverySelect, RecoveryFind, RecoveryAborts, Stored
<1> QED
  BY <1>1, <1>2, QuietSteps DEF Next, Stored

(* So it is at any time.                                                   *)
LEMMA AskedForInvariance == Spec => []AskedFor
<1>1. Init => AskedFor
  BY DEF Init, IntentsInit, Absent, AskedFor, Stored
<1>2. IInv /\ AskedFor /\ [Next]_vars => AskedFor'
  BY InsertIsAskedFor, NextIsForward DEF AskedFor, IntentStep
<1> QED
  BY <1>1, <1>2, Invariance, PTL DEF Spec

(* A document settled is a scope settled.                                  *)
LEMMA CompletedSettles ==
  ASSUME UniqueScope, IInv, AskedFor, NEW i \in Ids, docs[i].state = "dispatching",
         NEW result \in Results, NEW count, CompleteUpdate(i, "dispatching", count, result),
         UNCHANGED sends, StateOf(result) = "accepted" => sends[i] > 0
  PROVE  LedgerStep
<1> DEFINE s == ScopeOf[docs[i].request]
<1>1. /\ docs'[i].state = StateOf(result) /\ docs'[i].request = docs[i].request
      /\ \A k \in Ids : k # i => docs'[k] = docs[k]
  BY CompleteEffect DEF IInv, TypeOK, IntentsTypeOK
<1>2. StateOf(result) \in Terminal
  BY StateOfTerminal
<1>3. s \in Scopes
  BY MongoAssumption DEF AskedFor, Stored
<1>4. UniqueIn(docs)
  BY DEF IInv, ScopeUnique, UniqueIn, Stored
<1>5. docs[i].state # "absent" /\ docs'[i].state # "absent"
  BY <1>1, <1>2
<1>6. s = ScopeOf[docs[i].request]
  OBVIOUS
<1> HIDE DEF s
<1>7. /\ MoveIn(docs, docs', s, docs[i].state, docs'[i].state)
      /\ SentIn(docs, sends)[s] = (sends[i] > 0)
      /\ OwnerIn(docs') = OwnerIn(docs) /\ SentIn(docs', sends) = SentIn(docs, sends)
  BY <1>1, <1>3, <1>4, <1>5, <1>6, DocumentMoves
<1>8. Ledger!Settle(s, StateOf(result))
  BY <1>1, <1>2, <1>3, <1>7, LedgerSettles
<1> QED
  BY <1>2, <1>3, <1>8 DEF LedgerStep, Ledger!Next, Ledger!Terminal

(* The upsert creates, or does nothing.                                    *)
LEMMA UpsertCreates ==
  ASSUME UniqueScope, IInv, NEW c \in Callers, UpsertIntent(c)
  PROVE  LedgerStep
<1> DEFINE i == call[c].id
           r == call[c].request
<1>1. /\ i \in Ids /\ r \in Requests /\ docs[i].state = "absent" /\ sends[i] = 0
      /\ UNCHANGED sends
  BY CallType DEF UpsertIntent, At, CallOK, Stored, IInv, IntentOK
<1>2. CASE Insert(i, r) /\ UpsertInserts(r)
  <2>1. /\ docs'[i].state = "pending" /\ docs'[i].request = r
        /\ \A k \in Ids : k # i => docs'[k] = docs[k]
    BY <1>1, <1>2, CallType, InsertEffect
  <2>2. FoundIn(docs, ScopeOf[r]) = {}
    BY <1>2 DEF UpsertInserts, FindScope, FoundIn, Stored
  <2> HIDE DEF i, r
  <2>3. /\ MoveIn(docs, docs', ScopeOf[r], "absent", "pending")
        /\ OwnerIn(docs') = [OwnerIn(docs) EXCEPT ![ScopeOf[r]] = r]
        /\ SentIn(docs', sends) = SentIn(docs, sends)
    BY <1>1, <2>1, <2>2, DocumentCreated
  <2>4. Ledger!Create(r)
    BY <1>1, <2>3, LedgerCreates
  <2> QED
    BY <1>1, <2>4 DEF LedgerStep, Ledger!Next
<1> QED
  BY <1>1, <1>2, LedgerStays DEF UpsertIntent

(* The local rejection,                                                    *)
LEMMA RejectRejects ==
  ASSUME UniqueScope, IInv, AskedFor, NEW c \in Callers, RejectUpdate(c)
  PROVE  LedgerStep
<1> DEFINE i == call[c].id
           s == ScopeOf[docs[i].request]
<1>1. i \in Ids /\ UNCHANGED sends
  BY CallType DEF RejectUpdate, At, CallOK, Bound
<1>2. CASE /\ CompleteMatches(i, "pending", 0)
           /\ CompleteUpdate(i, "pending", 0, "policy_rejected")
  <2>1. docs[i].state = "pending"
    BY <1>2 DEF CompleteMatches
  <2>2. /\ docs'[i].state = "rejected" /\ docs'[i].request = docs[i].request
        /\ \A k \in Ids : k # i => docs'[k] = docs[k]
    BY <1>1, <1>2, CallType, CompleteEffect DEF StateOf
  <2>3. s \in Scopes
    BY <1>1, <2>1, MongoAssumption DEF AskedFor, Stored
  <2>4. UniqueIn(docs)
    BY DEF IInv, ScopeUnique, UniqueIn, Stored
  <2> HIDE DEF i
  <2>5. /\ MoveIn(docs, docs', s, "pending", "rejected")
        /\ OwnerIn(docs') = OwnerIn(docs) /\ SentIn(docs', sends) = SentIn(docs, sends)
    BY <1>1, <2>1, <2>2, <2>3, <2>4, DocumentMoves
  <2> HIDE DEF s
  <2>6. Ledger!RejectLocally(s)
    BY <1>1, <2>3, <2>5, LedgerActions
  <2> QED
    BY <2>3, <2>6 DEF LedgerStep, Ledger!Next
<1> QED
  BY <1>1, <1>2, LedgerStays DEF RejectUpdate

(* the claim,                                                              *)
LEMMA ClaimClaims ==
  ASSUME UniqueScope, IInv, AskedFor, NEW c \in Callers, Claim(c)
  PROVE  LedgerStep
<1> DEFINE i == call[c].id
           s == ScopeOf[docs[i].request]
<1>1. i \in Ids /\ UNCHANGED sends /\ call[c].started \in Nat
  BY CallType DEF Claim, At, CallOK, Bound, Call
<1>2. CASE ClaimMatches(i, call[c].count) /\ ClaimUpdate(i, call[c].started)
  <2>1. docs[i].state = "pending"
    BY <1>2 DEF ClaimMatches
  <2>2. /\ docs'[i].state = "dispatching" /\ docs'[i].request = docs[i].request
        /\ \A k \in Ids : k # i => docs'[k] = docs[k]
    BY <1>1, <1>2, CallType, ClaimEffect
  <2>3. s \in Scopes
    BY <1>1, <2>1, MongoAssumption DEF AskedFor, Stored
  <2>4. UniqueIn(docs)
    BY DEF IInv, ScopeUnique, UniqueIn, Stored
  <2> HIDE DEF i
  <2>5. /\ MoveIn(docs, docs', s, "pending", "dispatching")
        /\ OwnerIn(docs') = OwnerIn(docs) /\ SentIn(docs', sends) = SentIn(docs, sends)
    BY <1>1, <2>1, <2>2, <2>3, <2>4, DocumentMoves
  <2> HIDE DEF s
  <2>6. Ledger!Claim(s)
    BY <1>1, <2>3, <2>5, LedgerActions
  <2> QED
    BY <2>3, <2>6 DEF LedgerStep, Ledger!Next
<1> QED
  BY <1>1, <1>2, LedgerStays DEF Claim

(* the provider call,                                                      *)
LEMMA DispatchSends ==
  ASSUME UniqueScope, IInv, AskedFor, NEW c \in Callers, Dispatch(c)
  PROVE  LedgerStep
<1> DEFINE i == call[c].id
           s == ScopeOf[docs[i].request]
<1>1. /\ i \in Ids /\ UNCHANGED docs /\ sends[i] = 0 /\ docs[i].state \in {"dispatching", "unknown"}
      /\ sends \in [Ids -> 0..2]
  BY CallType DEF Dispatch, At, CallOK, Bound, IInv, TypeOK
<1>2. CASE sends' = [sends EXCEPT ![i] = IF @ = 0 THEN 1 ELSE 2]
  <2>1. sends'[i] = 1 /\ \A k \in Ids : k # i => sends'[k] = sends[k]
    BY <1>1, <1>2
  <2>2. s \in Scopes
    BY <1>1, MongoAssumption DEF AskedFor, Stored
  <2>3. UniqueIn(docs) /\ sends'[i] > 0 /\ ~(sends[i] > 0) /\ docs[i].state # "absent"
    BY <1>1, <2>1 DEF IInv, ScopeUnique, UniqueIn, Stored
  <2> HIDE DEF i
  <2>4. /\ StateIn(docs)[s] = docs[i].state /\ SentIn(docs, sends)[s] = (sends[i] > 0)
    BY <1>1, <2>2, <2>3, DocumentMoves DEF MoveIn
  <2>5. SentIn(docs, sends') = [SentIn(docs, sends) EXCEPT ![s] = TRUE]
    BY <1>1, <2>1, <2>3, MessageHanded
  <2> HIDE DEF s
  <2>6. Ledger!Send(s)
    BY <1>1, <2>2, <2>3, <2>4, <2>5, LedgerSends
  <2> QED
    BY <2>2, <2>6 DEF LedgerStep, Ledger!Next
<1> QED
  BY <1>1, <1>2, LedgerStays DEF Dispatch

(* the completion,                                                         *)
LEMMA CompleteSettles ==
  ASSUME UniqueScope, IInv, AskedFor, NEW c \in Callers, Complete(c)
  PROVE  LedgerStep
<1> DEFINE i == call[c].id
<1>1. /\ i \in Ids /\ UNCHANGED sends /\ call[c].result \in Results
      /\ call[c].result = "accepted" => i \in delivered
  BY CallType DEF Complete, At, CallOK, Bound
<1>2. sends[i] \in 0..2 /\ (sends[i] = 0 => i \notin delivered)
  BY <1>1 DEF IInv, TypeOK, IntentOK
<1>3. StateOf(call[c].result) = "accepted" => sends[i] > 0
  <2>1. StateOf(call[c].result) = "accepted" => call[c].result = "accepted"
    BY DEF StateOf
  <2> HIDE DEF i
  <2> QED
    BY <1>1, <1>2, <2>1
<1>4. CASE /\ CompleteMatches(i, "dispatching", call[c].count)
           /\ CompleteUpdate(i, "dispatching", call[c].count, call[c].result)
  <2>1. docs[i].state = "dispatching"
    BY <1>4 DEF CompleteMatches
  <2> HIDE DEF i
  <2> QED
    BY <1>1, <1>3, <1>4, <2>1, CompletedSettles
<1> QED
  BY <1>1, <1>4, LedgerStays DEF Complete

(* and the recovery.                                                       *)
LEMMA RecoverySettles ==
  ASSUME UniqueScope, IInv, AskedFor, NEW j \in Recoverers, RecoveryStep(j)
  PROVE  LedgerStep
<1> DEFINE i == Candidate(j)
<1>1. UNCHANGED sends
  BY DEF RecoveryStep
<1>2. CASE RecoveryUpdate(j)
  <2>1. i \in Ids
    BY <1>2, RecoveryType, HeadTailProperties DEF RecoveryUpdate, Recoveries, Job, Candidate
  <2>2. /\ "stale_dispatch_recovered" \in Results
        /\ StateOf("stale_dispatch_recovered") # "accepted"
    BY DEF StateOf
  <2> HIDE DEF i
  <2>3. CASE /\ CompleteMatches(i, "dispatching", recovery[j].count)
             /\ CompleteUpdate(i, "dispatching", recovery[j].count, "stale_dispatch_recovered")
    <3>1. docs[i].state = "dispatching"
      BY <2>3 DEF CompleteMatches
    <3> QED
      BY <1>1, <2>1, <2>2, <2>3, <3>1, CompletedSettles
  <2> QED
    BY <1>1, <1>2, <2>3, LedgerStays DEF RecoveryUpdate, i
<1> QED
  BY <1>1, <1>2, LedgerStays DEF RecoveryStep, RecoverySelect, RecoveryFind, RecoveryAborts

(* With the unique index, the service over the Mongo repository implements *)
(* the ledger: every command of every call and job is one atomic step of   *)
(* one scope, or no step at all.                                           *)
THEOREM LedgerImplemented ==
  ASSUME UniqueScope
  PROVE  Spec => ImplementsLedger
<1>1. Init => Ledger!Init
  <2>1. ASSUME Init
        PROVE  \A s : FoundIn(docs, s) = {}
    BY <2>1 DEF Init, IntentsInit, Absent, FoundIn
  <2> QED
    BY <2>1, LedgerStates DEF StateIn, OwnerIn, SentIn
<1>2. IInv /\ AskedFor /\ [Next]_vars => LedgerStep
  <2> SUFFICES ASSUME IInv, AskedFor, [Next]_vars PROVE LedgerStep
    OBVIOUS
  <2>1. ASSUME NEW c \in Callers, CallStep(c)
        PROVE  LedgerStep
    <3>1. UNCHANGED <<docs, sends>> => LedgerStep
      BY LedgerStays
    <3> QED
      BY <2>1, <3>1, UpsertCreates, RejectRejects, ClaimClaims, DispatchSends, CompleteSettles
      DEF CallStep, GetIntent, ReadBack, EvaluateRecipient, EvaluateSession, RejectFind,
        ClaimFind, Resolve, CompleteFind
  <2>2. \/ \E c \in Callers : (\E r \in Requests : Start(c, r)) \/ Crash(c)
        \/ \E p \in PolicyMoves : ChangeEligibility(p)
        \/ \E r \in SessionMoves : ChangeSession(r)
        \/ Tick
        \/ UNCHANGED vars
        => UNCHANGED <<docs, sends>>
    BY DEF Start, Crash, ChangeEligibility, ChangeSession, Tick, vars
  <2> QED
    BY <2>1, <2>2, LedgerStays, RecoverySettles DEF Next
<1> QED
  BY <1>1, <1>2, Invariance, AskedForInvariance, PTL DEF Spec, ImplementsLedger, Ledger!Spec, LedgerStep

=============================================================================
