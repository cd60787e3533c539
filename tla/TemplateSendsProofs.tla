------------------------ MODULE TemplateSendsProofs ------------------------
(***************************************************************************)
(* Invariance proofs for TemplateSends, for any catalog, any callers and   *)
(* any releases that share the collection: what Meta is sent is what was   *)
(* asked, once, and what is recorded is what Meta did.                     *)
(***************************************************************************)
EXTENDS TemplateSends, MessagingServiceProofs, MessageRequestsProofs, SequenceTheorems,
        WellFoundedInduction

USE DEF mongo, policy, provider, adapter, service, catalog
USE DEF Claimed, Steps, Errors, LookupErrors

-----------------------------------------------------------------------------
(* The adapter.                                                            *)

Fates == {"none", "underway", "taken", "refused"}

(* Whatever way a POST ends, the adapter says accepted only of a message   *)
(* that Meta took, and rejected or retriable only of one that it refused.  *)
LEMMA AdapterIsTruthful ==
  ASSUME NEW fate \in Fates \ {"none"}, NEW o \in Meta!MayEnd(fate)
  PROVE  /\ Meta!Classify(o).disposition \in Terminal
         /\ Meta!Classify(o).disposition = "accepted" => fate = "taken"
         /\ Meta!Classify(o).disposition = "rejected" => fate = "refused"
         /\ Meta!Classify(o).retriable => fate = "refused"
<1> USE DEF Fates, Meta!MayEnd, Meta!Hides, Terminal
<1>1. \A category, b : /\ Meta!Rejected(category, b).disposition = "rejected"
                       /\ Meta!Rejected(category, b).retriable = b
                       /\ Meta!Unknown(category).disposition = "unknown"
                       /\ Meta!Unknown(category).retriable = FALSE
      /\ Meta!Raises.disposition = "unknown" /\ Meta!Raises.retriable = FALSE
      /\ Meta!Accepted.disposition = "accepted" /\ Meta!Accepted.retriable = FALSE
  BY DEF Meta!Rejected, Meta!Unknown, Meta!Raises, Meta!Accepted
<1>2. CASE o \in Meta!Failures
  BY <1>1, <1>2 DEF Meta!Classify, Meta!FailureResult
<1>3. CASE o \notin Meta!Failures /\ o.status = "2xx"
  BY <1>1, <1>3 DEF Meta!Classify, Meta!SuccessResult
<1>4. CASE o \notin Meta!Failures /\ o.status # "2xx"
  <2>1. Meta!Classify(o) = Meta!RejectionResult(o)
    BY <1>4 DEF Meta!Classify
  <2>2. CASE o.body = "deep" \/ (o.status = "5xx" /\ o.body # "code")
    BY <1>1, <2>1, <2>2 DEF Meta!RejectionResult
  <2>3. CASE o.body # "deep" /\ ~(o.status = "5xx" /\ o.body # "code")
    <3>1. fate = "refused"
      BY <1>4, <2>3
    <3>2. Meta!Classify(o) = Meta!Rejected(Meta!Category(o.status), Meta!Retriable(o.status))
      BY <2>1, <2>3 DEF Meta!RejectionResult
    <3> HIDE DEF Meta!Retriable
    <3> QED
      BY <1>1, <3>1, <3>2
  <2> QED
    BY <2>2, <2>3
<1> QED
  BY <1>2, <1>3, <1>4

-----------------------------------------------------------------------------
(* The inductive invariant: who asked for what, what is kept of it, and    *)
(* what has been posted.                                                   *)

NoSecrets(m) ==
  \A n \in DOMAIN m.components : \A k \in DOMAIN m.components[n].parameters :
    m.components[n].parameters[k].value \in Secrets
      => m.components[n].parameters[k].kind = "sensitive_text"

\* m is a message that makes request r.
Asked(r, m) ==
  /\ r \in Requests /\ m \in BuiltMessage /\ NoSecrets(m)
  /\ r.message = FingerprintData(m)
  /\ r.keyed <=> ContainsSensitive(m)

Completing == {"completeFind", "completeUpdate"}

Recorded(r) == \E i \in Ids : Stored(i) /\ docs[i].request = r

CallAsks(c) ==
  /\ call[c].pc # "idle" => Asked(call[c].request, content[c])
  /\ call[c].reply.kind = "result" =>
       Asked(call[c].request, content[c]) /\ Recorded(call[c].request)
  /\ call[c].pc \in Bound => HoldsRequest(c)
  /\ c \in posting => call[c].pc = "send" /\ post[call[c].id] # NoPost
  /\ call[c].pc = "send" /\ c \notin posting => post[call[c].id] = NoPost
  /\ call[c].pc \in Completing /\ StateOf(call[c].result) = "rejected" =>
       post[call[c].id].fate \in {"none", "refused"}

SnapshotOK(i) ==
  Stored(i) => \E schema \in Schemas : \E m :
    Asked(docs[i].request, m) /\ Fits(schema, m) /\ snapshot[i] = SerializeAs(schema, m)

IsPost(p) ==
  \E t, f, q, b : p = [times |-> t, fate |-> f, payload |-> q, retriable |-> b]

PostOK(i) ==
  /\ IsPost(post[i])
  /\ post[i].times \in {0, 1} /\ post[i].fate \in Fates
  /\ post[i].times = 0 => post[i] = NoPost
  /\ post[i] # NoPost =>
       /\ post[i].fate # "none"
       /\ \E m : Asked(docs[i].request, m) /\ post[i].payload = Payload(m)
  /\ docs[i].state \in {"absent", "pending"} => post[i] = NoPost
  /\ i \in delivered => post[i].fate = "taken"
  /\ docs[i].state = "rejected" => post[i].fate \in {"none", "refused"}
  /\ post[i].retriable => post[i].fate = "refused"

CatalogOK == \A k \in Keys : stored[k].active => stored[k].alias \in Aliases

Domains ==
  /\ DOMAIN stored = Keys /\ DOMAIN content = Callers
  /\ DOMAIN snapshot = Ids /\ DOMAIN post = Ids

SendsInv ==
  /\ IInv
  /\ Domains
  /\ CatalogOK
  /\ \A c \in Callers : CallAsks(c)
  /\ \A i \in Ids : SnapshotOK(i)
  /\ \A i \in Ids : PostOK(i)

-----------------------------------------------------------------------------
(* What the steps of the service do, for those who ask.                    *)

(* A command leaves a document alone, inserts it for the call's request,   *)
(* or moves it on.                                                         *)
Kept(k) == docs'[k] = docs[k]
Inserted(c, k) == /\ k = call[c].id /\ docs[k].state = "absent"
                  /\ docs'[k].state = "pending" /\ docs'[k].request = call[c].request
Advanced(k) == /\ docs[k].state \in {"pending", "dispatching"}
               /\ docs'[k].request = docs[k].request
               /\ docs'[k].state \in States \ {"absent", "pending"}

Settled(c, k) ==
  docs'[k].state = "rejected" =>
    \/ docs[k].state = "pending"
    \/ k = call[c].id /\ call[c].pc = "completeUpdate" /\ StateOf(call[c].result) = "rejected"

Moves(c) == \A k \in Ids : \/ Kept(k) \/ Inserted(c, k)
                           \/ Advanced(k) /\ Settled(c, k)

(* The call goes on or ends, with a result only if one is recorded.        *)
Goes(c, m) ==
  /\ m.pc \in Steps \ {"send"}
  /\ m.reply = call[c].reply
  /\ m.pc \in Bound => (m.request \in Sensitive => m.created)
  /\ m.pc \in Completing =>
       call[c].pc \in Completing /\ m.id = call[c].id /\ m.result = call[c].result
Claims(c, m) ==
  /\ m.pc = "send" /\ m.id = call[c].id /\ m.reply = call[c].reply
  /\ docs[m.id].state = "pending"
  /\ m.request \in Sensitive => m.created
Ends(c, m) ==
  /\ m.pc = "idle"
  /\ m.reply.kind = "result" => \E i \in Ids : docs'[i].state # "absent" /\ docs'[i].request = m.request

After(c) ==
  \E m : /\ Becomes(c, m) /\ m.request = call[c].request
         /\ Goes(c, m) \/ Claims(c, m) \/ Ends(c, m)

LEMMA RaiseAfter ==
  ASSUME IInv, NEW c \in Callers, NEW error \in Errors, Raise(c, error)
  PROVE  After(c)
<1> DEFINE m == [NoCall EXCEPT !.request = call[c].request,
                   !.reply = [NoReply EXCEPT !.kind = error], !.contacted = call[c].contacted]
<1>1. m.pc = "idle" /\ m.reply.kind = error /\ m.request = call[c].request
  BY DEF NoCall, NoReply
<1>2. Becomes(c, m)
  BY DEF Raise, Finish
<1>3. error # "result"
  OBVIOUS
<1> HIDE DEF m
<1> QED
  BY <1>1, <1>2, <1>3 DEF After, Ends

LEMMA ResultAfter ==
  ASSUME IInv, NEW c \in Callers, NEW result, Return(c, result) \/ Replay(c, result),
         NEW i \in Ids, docs'[i].state # "absent", docs'[i].request = call[c].request
  PROVE  After(c)
<1>1. PICK reply : Finish(c, reply)
  BY DEF Return, Replay
<1> DEFINE m == [NoCall EXCEPT !.request = call[c].request, !.reply = reply,
                               !.contacted = call[c].contacted]
<1>2. m.pc = "idle" /\ m.request = call[c].request
  BY DEF NoCall
<1>3. Becomes(c, m)
  BY <1>1 DEF Finish
<1> HIDE DEF m
<1> QED
  BY <1>2, <1>3 DEF After, Ends

LEMMA GotoAfter ==
  ASSUME IInv, NEW c \in Callers, CallAsks(c), call[c].pc \in Bound \ Claimed,
         NEW pc \in Bound \ Claimed, Goto(c, pc)
  PROVE  After(c)
<1> DEFINE m == [call[c] EXCEPT !.pc = pc]
<1>1. call[c] \in Call
  BY CallType
<1>2. /\ m.pc = pc /\ m.request = call[c].request /\ m.reply = call[c].reply
      /\ m.created = call[c].created
  BY <1>1 DEF Call
<1>3. Becomes(c, m)
  BY DEF Goto
<1>4. call[c].request \in Sensitive => call[c].created
  BY DEF CallAsks, HoldsRequest
<1> HIDE DEF m
<1>5. Goes(c, m)
  BY <1>2, <1>4 DEF Goes, Bound, Completing
<1> QED
  BY <1>2, <1>3, <1>5 DEF After

LEMMA ContinueAfter ==
  ASSUME IInv, NEW c \in Callers, NEW i \in FindScope(Scope(c)), ContinueIntent(c, i),
         UNCHANGED docs
  PROVE  After(c)
<1>1. i \in Ids /\ Stored(i) /\ call[c] \in Call
  BY CallType DEF FindScope
<1>2. CASE \E error \in Errors : Raise(c, error)
  BY <1>2, RaiseAfter
<1>3. CASE Replay(c, docs[i].result) /\ ~Conflicts(c, i)
  <2>1. docs'[i].state # "absent" /\ docs'[i].request = call[c].request
    BY <1>1, <1>3 DEF Stored, Conflicts
  <2> QED
    BY <1>1, <1>3, <2>1, ResultAfter
<1>4. CASE HoldsRequest(c) /\ Becomes(c, [call[c] EXCEPT !.pc = "policy", !.id = i])
  <2> DEFINE m == [call[c] EXCEPT !.pc = "policy", !.id = i]
  <2>1. /\ m.pc = "policy" /\ m.request = call[c].request /\ m.reply = call[c].reply
        /\ m.created = call[c].created
    BY <1>1 DEF Call
  <2>2. Becomes(c, m)
    BY <1>4
  <2>3. call[c].request \in Sensitive => call[c].created
    BY <1>4 DEF HoldsRequest
  <2> HIDE DEF m
  <2>4. Goes(c, m)
    BY <2>1, <2>3 DEF Goes, Bound, Completing
  <2> QED
    BY <2>1, <2>2, <2>4 DEF After
<1> QED
  BY <1>2, <1>3, <1>4 DEF ContinueIntent

LEMMA NothingMoves ==
  ASSUME NEW c \in Callers, UNCHANGED docs
  PROVE  Moves(c)
BY DEF Moves, Kept

(* The steps that only read.                                               *)
LEMMA ReadAfter ==
  ASSUME IInv, NEW c \in Callers, CallAsks(c),
         \/ GetIntent(c) \/ ReadBack(c) \/ EvaluateRecipient(c) \/ EvaluateSession(c)
         \/ RejectFind(c) \/ ClaimFind(c) \/ Resolve(c) \/ CompleteFind(c)
  PROVE  Moves(c) /\ After(c)
<1>1. UNCHANGED docs
  BY DEF GetIntent, ReadBack, EvaluateRecipient, EvaluateSession, RejectFind, ClaimFind, Resolve,
         CompleteFind
<1> SUFFICES After(c)
  BY <1>1, NothingMoves
<1>2. call[c] \in Call
  BY CallType
<1>3. CASE \E error \in Errors : Raise(c, error)
  BY <1>3, RaiseAfter
<1>4. CASE \E i \in FindScope(Scope(c)) : ContinueIntent(c, i)
  BY <1>1, <1>4, ContinueAfter
<1>5. CASE call[c].pc \in Bound \ Claimed /\ \E pc \in Bound \ Claimed : Goto(c, pc)
  BY <1>5, GotoAfter
<1>6. CASE \E i \in Ids : Becomes(c, [call[c] EXCEPT !.pc = "upsert", !.id = i])
  <2>1. PICK i \in Ids : Becomes(c, [call[c] EXCEPT !.pc = "upsert", !.id = i])
    BY <1>6
  <2> DEFINE m == [call[c] EXCEPT !.pc = "upsert", !.id = i]
  <2>2. m.pc = "upsert" /\ m.request = call[c].request /\ m.reply = call[c].reply
    BY <1>2 DEF Call
  <2>3. Becomes(c, m)
    BY <2>1
  <2> HIDE DEF m
  <2>4. Goes(c, m)
    BY <2>2 DEF Goes, Bound, Completing
  <2> QED
    BY <2>2, <2>3, <2>4 DEF After
<1>7. CASE /\ At(c, "claimFind")
           /\ Becomes(c, [call[c] EXCEPT !.pc = "claimUpdate", !.started = now,
                                         !.count = docs[call[c].id].attempt_count])
  <2> DEFINE m == [call[c] EXCEPT !.pc = "claimUpdate", !.started = now,
                                  !.count = docs[call[c].id].attempt_count]
  <2>1. /\ m.pc = "claimUpdate" /\ m.request = call[c].request /\ m.reply = call[c].reply
        /\ m.created = call[c].created
    BY <1>2 DEF Call
  <2>2. Becomes(c, m)
    BY <1>7
  <2>3. call[c].request \in Sensitive => call[c].created
    BY <1>7 DEF CallAsks, HoldsRequest, Bound, At
  <2> HIDE DEF m
  <2>4. Goes(c, m)
    BY <2>1, <2>3 DEF Goes, Bound, Completing
  <2> QED
    BY <2>1, <2>2, <2>4 DEF After
<1>8. CASE /\ At(c, "completeFind")
           /\ Becomes(c, [call[c] EXCEPT !.pc = "completeUpdate",
                                         !.count = docs[call[c].id].attempt_count])
  <2> DEFINE m == [call[c] EXCEPT !.pc = "completeUpdate",
                                  !.count = docs[call[c].id].attempt_count]
  <2>1. /\ m.pc = "completeUpdate" /\ m.request = call[c].request /\ m.reply = call[c].reply
        /\ m.created = call[c].created /\ m.id = call[c].id /\ m.result = call[c].result
    BY <1>2 DEF Call
  <2>2. Becomes(c, m)
    BY <1>8
  <2>3. call[c].request \in Sensitive => call[c].created
    BY <1>8 DEF CallAsks, HoldsRequest, Bound, At
  <2> HIDE DEF m
  <2>4. Goes(c, m)
    BY <1>8, <2>1, <2>3 DEF Goes, Bound, Completing, At
  <2> QED
    BY <2>1, <2>2, <2>4 DEF After
<1>9. CASE \E i \in Ids : /\ Stored(i) /\ docs[i].request = call[c].request
                          /\ Replay(c, docs[i].result)
  BY <1>1, <1>9, ResultAfter DEF Stored
<1> QED
  <2>1. CASE GetIntent(c)
    BY <1>3, <1>4, <1>6, <2>1 DEF GetIntent
  <2>2. CASE ReadBack(c)
    BY <1>3, <1>4, <2>2 DEF ReadBack
  <2>3. CASE EvaluateRecipient(c)
    BY <1>3, <1>5, <2>3 DEF EvaluateRecipient, PolicyRaises, At, Bound
  <2>4. CASE EvaluateSession(c)
    BY <1>3, <1>5, <2>4 DEF EvaluateSession, PolicyRaises, At, Bound
  <2>5. CASE RejectFind(c)
    BY <1>3, <1>5, <2>5 DEF RejectFind, At, Bound
  <2>6. CASE ClaimFind(c)
    BY <1>3, <1>5, <1>7, <2>6 DEF ClaimFind, At, Bound
  <2>7. CASE Resolve(c)
    BY <1>3, <1>9, <2>7 DEF Resolve, FindScope, Terminal
  <2>8. CASE CompleteFind(c)
    BY <1>3, <1>8, <2>8 DEF CompleteFind, CompletionFails
  <2> QED
    BY <2>1, <2>2, <2>3, <2>4, <2>5, <2>6, <2>7, <2>8

(* The steps that write: the insert, the rejection, the claim and the      *)
(* completion.                                                             *)
LEMMA UpsertAfter ==
  ASSUME IInv, NEW c \in Callers, CallAsks(c), UpsertIntent(c)
  PROVE  Moves(c) /\ After(c)
<1>1. /\ call[c].pc = "upsert" /\ call[c] \in Call /\ call[c].id \in Ids /\ ~Stored(call[c].id)
      /\ call[c].request \in Requests /\ docs \in [Ids -> Doc]
  BY CallType DEF UpsertIntent, At, CallOK
<1>2. Moves(c)
  <2>1. CASE UNCHANGED docs
    BY <2>1, NothingMoves
  <2>2. CASE Insert(call[c].id, call[c].request)
    BY <1>1, <2>2, InsertEffect DEF Moves, Kept, Inserted, Stored
  <2> QED
    BY <2>1, <2>2 DEF UpsertIntent
<1> SUFFICES After(c)
  BY <1>2
<1>3. CASE \E error \in Errors : Raise(c, error)
  BY <1>3, RaiseAfter
<1>4. ASSUME NEW b, Becomes(c, [call[c] EXCEPT !.pc = "readback", !.created = b])
      PROVE  After(c)
  <2> DEFINE m == [call[c] EXCEPT !.pc = "readback", !.created = b]
  <2>1. m.pc = "readback" /\ m.request = call[c].request /\ m.reply = call[c].reply
    BY <1>1 DEF Call
  <2>2. Becomes(c, m)
    BY <1>4
  <2> HIDE DEF m
  <2>3. Goes(c, m)
    BY <2>1 DEF Goes, Bound, Completing
  <2> QED
    BY <2>1, <2>2, <2>3 DEF After
<1>5. CASE Goto(c, "readback")
  <2> DEFINE m == [call[c] EXCEPT !.pc = "readback"]
  <2>1. m.pc = "readback" /\ m.request = call[c].request /\ m.reply = call[c].reply
    BY <1>1 DEF Call
  <2>2. Becomes(c, m)
    BY <1>5 DEF Goto
  <2> HIDE DEF m
  <2>3. Goes(c, m)
    BY <2>1 DEF Goes, Bound, Completing
  <2> QED
    BY <2>1, <2>2, <2>3 DEF After
<1> QED
  BY <1>3, <1>4, <1>5 DEF UpsertIntent

LEMMA RejectAfter ==
  ASSUME IInv, NEW c \in Callers, CallAsks(c), RejectUpdate(c)
  PROVE  Moves(c) /\ After(c)
<1> DEFINE i == call[c].id
<1>1. /\ call[c].pc = "rejectUpdate" /\ i \in Ids /\ docs \in [Ids -> Doc]
      /\ docs[i].request = call[c].request
  BY CallType DEF RejectUpdate, At, CallOK, Bound
<1> HIDE DEF i
<1>2. CASE UNCHANGED docs /\ (Goto(c, "resolve") \/ Raise(c, "ServiceDependencyError"))
  BY <1>1, <1>2, RaiseAfter, GotoAfter, NothingMoves DEF Bound
<1>3. CASE /\ CompleteMatches(i, "pending", 0)
           /\ CompleteUpdate(i, "pending", 0, "policy_rejected")
           /\ Return(c, "policy_rejected") \/ Raise(c, "ServiceDependencyError")
  <2>1. /\ docs'[i].state = "rejected" /\ docs'[i].request = docs[i].request
        /\ \A k \in Ids : k # i => docs'[k] = docs[k]
    BY <1>1, <1>3, CompleteEffect DEF StateOf, Results
  <2>2. docs[i].state = "pending"
    BY <1>3 DEF CompleteMatches
  <2>3. Moves(c)
    BY <2>1, <2>2 DEF Moves, Kept, Advanced, Settled, States, Terminal
  <2>4. After(c)
    BY <1>1, <1>3, <2>1, RaiseAfter, ResultAfter
  <2> QED
    BY <2>3, <2>4
<1> QED
  BY <1>2, <1>3 DEF RejectUpdate, i

LEMMA ClaimAfter ==
  ASSUME IInv, NEW c \in Callers, CallAsks(c), Claim(c)
  PROVE  Moves(c) /\ After(c)
<1> DEFINE i == call[c].id
<1>1. /\ call[c].pc = "claimUpdate" /\ i \in Ids /\ docs \in [Ids -> Doc] /\ call[c] \in Call
      /\ call[c].started \in Nat
  BY CallType DEF Claim, At, CallOK, Bound, Call
<1>2. CASE UNCHANGED docs /\ (Goto(c, "resolve") \/ Raise(c, "ServiceDependencyError"))
  BY <1>1, <1>2, RaiseAfter, GotoAfter, NothingMoves DEF Bound
<1>3. CASE /\ ClaimMatches(i, call[c].count) /\ ClaimUpdate(i, call[c].started)
           /\ Goto(c, "send") \/ Raise(c, "ServiceDependencyError")
  <2>1. /\ docs'[i].state = "dispatching" /\ docs'[i].request = docs[i].request
        /\ \A k \in Ids : k # i => docs'[k] = docs[k]
    BY <1>1, <1>3, ClaimEffect
  <2>2. docs[i].state = "pending"
    BY <1>3 DEF ClaimMatches
  <2>3. Moves(c)
    BY <2>1, <2>2 DEF Moves, Kept, Advanced, Settled, States, Terminal
  <2>4. CASE Goto(c, "send")
    <3> DEFINE m == [call[c] EXCEPT !.pc = "send"]
    <3>1. /\ m.pc = "send" /\ m.request = call[c].request /\ m.reply = call[c].reply
          /\ m.created = call[c].created /\ m.id = i
      BY <1>1 DEF Call
    <3>2. Becomes(c, m)
      BY <2>4 DEF Goto
    <3>3. call[c].request \in Sensitive => call[c].created
      BY <1>1 DEF CallAsks, HoldsRequest, Bound
    <3> HIDE DEF m
    <3>4. Claims(c, m)
      BY <2>2, <3>1, <3>3 DEF Claims, i
    <3> QED
      BY <2>3, <3>1, <3>2, <3>4 DEF After
  <2> QED
    BY <1>3, <2>3, <2>4, RaiseAfter
<1> QED
  BY <1>2, <1>3 DEF Claim

LEMMA CompleteAfter ==
  ASSUME IInv, NEW c \in Callers, CallAsks(c), Complete(c)
  PROVE  Moves(c) /\ After(c)
<1> DEFINE i == call[c].id
<1>1. /\ call[c].pc = "completeUpdate" /\ i \in Ids /\ docs \in [Ids -> Doc]
      /\ docs[i].request = call[c].request /\ call[c].result \in Results
  BY CallType DEF Complete, At, CallOK, Bound
<1>2. CASE UNCHANGED docs /\ CompletionFails(c)
  BY <1>2, RaiseAfter, NothingMoves DEF CompletionFails
<1>3. CASE /\ CompleteMatches(i, "dispatching", call[c].count)
           /\ CompleteUpdate(i, "dispatching", call[c].count, call[c].result)
           /\ Return(c, call[c].result) \/ CompletionFails(c)
  <2>1. /\ docs'[i].state = StateOf(call[c].result) /\ docs'[i].request = docs[i].request
        /\ \A k \in Ids : k # i => docs'[k] = docs[k]
    BY <1>1, <1>3, CompleteEffect
  <2>2. docs[i].state = "dispatching"
    BY <1>3 DEF CompleteMatches
  <2>3. StateOf(call[c].result) \in Terminal
    BY <1>1, StateOfTerminal
  <2>4. Moves(c)
    BY <1>1, <2>1, <2>2, <2>3 DEF Moves, Kept, Advanced, Settled, States, Terminal
  <2>5. CASE Return(c, call[c].result)
    BY <1>1, <2>1, <2>3, <2>4, <2>5, ResultAfter DEF Terminal
  <2>6. CASE CompletionFails(c)
    BY <2>4, <2>6, RaiseAfter DEF CompletionFails
  <2> QED
    BY <1>3, <2>4, <2>5, <2>6
<1> QED
  BY <1>2, <1>3 DEF Complete

LEMMA CallAfter ==
  ASSUME IInv, NEW c \in Callers, CallAsks(c), CallStep(c), ~At(c, "send")
  PROVE  Moves(c) /\ After(c)
<1>1. ~Dispatch(c)
  BY DEF Dispatch
<1> QED
  BY <1>1, ReadAfter, UpsertAfter, RejectAfter, ClaimAfter, CompleteAfter DEF CallStep

-----------------------------------------------------------------------------
(* Every step keeps the invariant.                                         *)

LEMMA CallRuns ==
  ASSUME NEW c \in Callers, CallStep(c)
  PROVE  call[c].pc # "idle"
BY DEF CallStep, GetIntent, UpsertIntent, ReadBack, EvaluateRecipient, EvaluateSession, RejectFind,
       RejectUpdate, ClaimFind, Claim, Resolve, Dispatch, CompleteFind, Complete, At

\* No document goes, nor changes hands.
Lasting == \A k \in Ids : Stored(k) =>
             docs'[k].state # "absent" /\ docs'[k].request = docs[k].request

LEMMA RecordedLasts ==
  ASSUME Lasting, NEW r, Recorded(r)
  PROVE  Recorded(r)'
BY DEF Recorded, Lasting, Stored

LEMMA MovesLast ==
  ASSUME NEW c \in Callers, Moves(c)
  PROVE  Lasting
BY DEF Moves, Kept, Inserted, Advanced, Lasting, Stored, States, Terminal

(* What a call may rely on does not depend on the steps of others.         *)
LEMMA AsksLasts ==
  ASSUME NEW d \in Callers, CallAsks(d), Lasting,
         call'[d] = call[d], content'[d] = content[d], d \in posting' <=> d \in posting,
         call[d].pc \in Claimed => post'[call[d].id] = post[call[d].id]
                                   \/ /\ post[call[d].id].fate = "underway"
                                      /\ d \in posting => post'[call[d].id] # NoPost
                                      /\ d \notin posting => call[d].pc # "send"
  PROVE  CallAsks(d)'
<1>1. call[d].reply.kind = "result" =>
        \E i \in Ids : docs'[i].state # "absent" /\ docs'[i].request = call[d].request
  BY DEF CallAsks, Recorded, Lasting, Stored
<1>2. StateOf(call'[d].result) = StateOf(call[d].result)
  OBVIOUS
<1>3. /\ call[d].pc # "idle" => Asked(call[d].request, content[d])
      /\ call[d].reply.kind = "result" => Asked(call[d].request, content[d])
      /\ call[d].pc \in Bound => HoldsRequest(d)
  BY DEF CallAsks
<1>4. /\ (d \in posting => call[d].pc = "send" /\ post[call[d].id] # NoPost)'
      /\ (call[d].pc = "send" /\ d \notin posting => post[call[d].id] = NoPost)'
  BY DEF CallAsks
<1>5. (call[d].pc \in Completing /\ StateOf(call[d].result) = "rejected" =>
         post[call[d].id].fate \in {"none", "refused"})'
  BY <1>2 DEF CallAsks, Completing
<1> QED
  BY <1>1, <1>3, <1>4, <1>5 DEF CallAsks, Recorded, Stored, HoldsRequest, Asked
LEMMA ServiceKeepsCalls ==
  ASSUME SendsInv, IInv', NEW c \in Callers, CallStep(c), ~At(c, "send"),
         UNCHANGED <<content, adapter>>, NEW d \in Callers
  PROVE  CallAsks(d)'
<1>1. Moves(c) /\ After(c) /\ Lasting /\ CallAsks(c)
  BY CallAfter, MovesLast DEF SendsInv
<1>2. PICK m : /\ Becomes(c, m) /\ m.request = call[c].request
               /\ Goes(c, m) \/ Claims(c, m) \/ Ends(c, m)
  BY <1>1 DEF After
<1>3. call \in [Callers -> Call]
  BY CallType DEF SendsInv
<1>4. call'[c] = m /\ \A e \in Callers \ {c} : call'[e] = call[e]
  BY <1>2, <1>3 DEF Becomes
<1>5. CASE d # c
  BY <1>1, <1>4, <1>5, AsksLasts DEF SendsInv
<1>6. CASE d = c
  <2>1. Asked(call[c].request, content[c])
    BY <1>1, CallRuns DEF CallAsks
  <2>2. Asked(call[c].request, content[c])'
    BY <1>2, <1>4, <2>1 DEF Asked
  <2>3. c \notin posting
    BY <1>1 DEF CallAsks, At
  <2>4. CASE Goes(c, m)
    <3>1. m.reply.kind = "result" => Recorded(m.request)'
      BY <1>1, <1>2, <2>4, RecordedLasts DEF CallAsks, Goes
    <3> QED
      BY <1>1, <1>4, <1>6, <2>2, <2>3, <2>4, <3>1 DEF CallAsks, Goes, HoldsRequest, Completing
  <2>5. CASE Claims(c, m)
    <3>1. m.reply.kind = "result" => Recorded(m.request)'
      BY <1>1, <1>2, <2>5, RecordedLasts DEF CallAsks, Claims
    <3>2. m.id \in Ids
      BY <1>4, <2>5 DEF IInv, CallOK, Claims, Bound
    <3>3. post[m.id] = NoPost
      BY <2>5, <3>2 DEF SendsInv, PostOK, Claims
    <3> QED
      BY <1>4, <1>6, <2>2, <2>3, <2>5, <3>1, <3>3 DEF CallAsks, Claims, HoldsRequest, Completing
  <2>6. CASE Ends(c, m)
    BY <1>4, <1>6, <2>2, <2>3, <2>6 DEF CallAsks, Ends, Bound, Completing, Recorded, Stored
  <2> QED
    BY <1>2, <2>4, <2>5, <2>6
<1> QED
  BY <1>5, <1>6

LEMMA SnapshotLasts ==
  ASSUME NEW i \in Ids, SnapshotOK(i), Lasting, snapshot'[i] = snapshot[i],
         ~Stored(i) => docs'[i].state = "absent"
  PROVE  SnapshotOK(i)'
BY DEF SnapshotOK, Lasting, Stored, Asked

LEMMA ServiceKeepsSnapshots ==
  ASSUME SendsInv, NEW c \in Callers, ServiceStep(c), NEW i \in Ids
  PROVE  SnapshotOK(i)'
<1>1. Moves(c) /\ Lasting /\ SnapshotOK(i)
  BY CallAfter, MovesLast DEF SendsInv, ServiceStep
<1>2. PICK schema \in Schemas :
        /\ Fits(schema, content[c])
        /\ snapshot' = [k \in Ids |-> IF ~Stored(k) /\ docs'[k].state # "absent"
                                      THEN SerializeAs(schema, content[c]) ELSE snapshot[k]]
  BY DEF ServiceStep
<1>3. CASE ~Stored(i) /\ docs'[i].state # "absent"
  <2>1. docs'[i].request = call[c].request
    BY <1>1, <1>3 DEF Moves, Kept, Inserted, Advanced, Stored
  <2>2. Asked(call[c].request, content[c])
    BY CallRuns DEF SendsInv, CallAsks, ServiceStep
  <2>3. snapshot'[i] = SerializeAs(schema, content[c])
    BY <1>2, <1>3
  <2>4. Asked(docs[i].request, content[c])'
    BY <2>1, <2>2 DEF Asked, ServiceStep
  <2>5. content' = content
    BY DEF ServiceStep
  <2> QED
    BY <1>2, <2>3, <2>4, <2>5 DEF SnapshotOK
<1>4. CASE ~(~Stored(i) /\ docs'[i].state # "absent")
  <2>1. snapshot'[i] = snapshot[i]
    BY <1>2, <1>4
  <2> QED
    BY <1>1, <1>4, <2>1, SnapshotLasts
<1> QED
  BY <1>3, <1>4

(* Where no POST is made, the documents may only move as the post allows.  *)
LEMMA PostLasts ==
  ASSUME NEW i \in Ids, PostOK(i), post'[i] = post[i],
         i \in delivered' <=> i \in delivered,
         post[i] # NoPost => docs'[i].request = docs[i].request
                             /\ docs'[i].state \notin {"absent", "pending"},
         docs'[i].state = "rejected" => post[i].fate \in {"none", "refused"}
  PROVE  PostOK(i)'
<1>1. ASSUME NEW m, Asked(docs[i].request, m), post[i] # NoPost
      PROVE  Asked(docs[i].request, m)'
  BY <1>1 DEF Asked
<1> QED
  BY <1>1 DEF PostOK, IsPost

LEMMA ServiceKeepsPosts ==
  ASSUME SendsInv, NEW c \in Callers, ServiceStep(c), NEW i \in Ids
  PROVE  PostOK(i)'
<1>1. Moves(c) /\ PostOK(i) /\ CallAsks(c)
  BY CallAfter DEF SendsInv, ServiceStep
<1>2. post'[i] = post[i] /\ delivered' = delivered
  <2>1. UNCHANGED delivered
    BY DEF ServiceStep, CallStep, GetIntent, UpsertIntent, ReadBack, EvaluateRecipient,
           EvaluateSession, RejectFind, RejectUpdate, ClaimFind, Claim, Resolve, Dispatch,
           CompleteFind, Complete, At
  <2> QED
    BY <2>1 DEF ServiceStep
<1>3. NoPost.fate = "none"
  BY DEF NoPost
<1>4. CASE Kept(i)
  BY <1>1, <1>2, <1>4, PostLasts DEF Kept, PostOK
<1>5. CASE Inserted(c, i)
  BY <1>1, <1>2, <1>3, <1>5, PostLasts DEF Inserted, PostOK
<1>6. CASE Advanced(i) /\ Settled(c, i)
  BY <1>1, <1>2, <1>3, <1>6, PostLasts DEF Advanced, Settled, PostOK, CallAsks, Completing
<1> QED
  BY <1>1, <1>4, <1>5, <1>6 DEF Moves

LEMMA ServiceKeeps ==
  ASSUME SendsInv, NEW c \in Callers, ServiceStep(c)
  PROVE  SendsInv'
<1>1. IInv'
  BY NextIInv DEF SendsInv, ServiceStep, Next
<1>2. \A d \in Callers : CallAsks(d)'
  BY <1>1, ServiceKeepsCalls DEF ServiceStep
<1>3. \A i \in Ids : SnapshotOK(i)'
  BY ServiceKeepsSnapshots
<1>4. \A i \in Ids : PostOK(i)'
  BY ServiceKeepsPosts
<1>5. Domains' /\ CatalogOK'
  BY DEF ServiceStep, SendsInv, Domains, CatalogOK
<1> QED
  BY <1>1, <1>2, <1>3, <1>4, <1>5 DEF SendsInv

(* Steps that leave the documents and what is kept of the requests alone.  *)
LEMMA QuietStep ==
  ASSUME SendsInv, IInv', UNCHANGED <<docs, delivered, stored, snapshot>>,
         DOMAIN content' = Callers, DOMAIN post' = Ids,
         \A d \in Callers : CallAsks(d)', \A i \in Ids : PostOK(i)'
  PROVE  SendsInv'
<1>1. Lasting
  BY DEF Lasting, Stored
<1>2. \A i \in Ids : SnapshotOK(i)'
  BY <1>1, SnapshotLasts DEF SendsInv, Stored
<1>3. Domains' /\ CatalogOK'
  BY DEF SendsInv, Domains, CatalogOK
<1> QED
  BY <1>2, <1>3 DEF SendsInv

LEMMA QuietPosts ==
  ASSUME SendsInv, UNCHANGED <<docs, delivered, post>>
  PROVE  \A i \in Ids : PostOK(i)'
<1> SUFFICES ASSUME NEW i \in Ids PROVE PostOK(i)'
  OBVIOUS
<1>1. PostOK(i)
  BY DEF SendsInv
<1> QED
  BY <1>1, PostLasts DEF PostOK

(* A call's process ends.                                                  *)
LEMMA CrashKeeps ==
  ASSUME SendsInv, NEW c \in Callers, CrashCall(c)
  PROVE  SendsInv'
<1>1. IInv'
  BY CrashStep DEF SendsInv, CrashCall
<1>2. UNCHANGED <<docs, delivered, stored, snapshot, post, content>>
  BY DEF CrashCall, Crash
<1>3. ASSUME NEW d \in Callers
      PROVE  CallAsks(d)'
  <2>1. call \in [Callers -> Call] /\ CallAsks(d)
    BY CallType DEF SendsInv
  <2>2. CASE d # c
    <3>1. call'[d] = call[d] /\ (d \in posting' <=> d \in posting)
      BY <2>1, <2>2 DEF CrashCall, Crash, Raise, Finish, Becomes
    <3>2. Lasting
      BY <1>2 DEF Lasting, Stored
    <3> QED
      BY <1>2, <2>1, <3>1, <3>2, AsksLasts
  <2>3. CASE d = c
    <3> DEFINE m == [NoCall EXCEPT !.request = call[c].request,
                       !.reply = [NoReply EXCEPT !.kind = "crashed"], !.contacted = call[c].contacted]
    <3>1. call'[c] = m
      BY <2>1 DEF CrashCall, Crash, Raise, Finish, Becomes
    <3>2. m.pc = "idle" /\ m.reply.kind = "crashed"
      BY DEF NoCall, NoReply
    <3>3. c \notin posting'
      BY DEF CrashCall
    <3> HIDE DEF m
    <3> QED
      BY <2>3, <3>1, <3>2, <3>3 DEF CallAsks, Bound, Completing
  <2> QED
    BY <2>2, <2>3
<1> QED
  BY <1>1, <1>2, <1>3, QuietStep, QuietPosts DEF SendsInv, Domains

(* Recovery only gives up on what is dispatching.                          *)
LEMMA RecoveryEffect ==
  ASSUME IInv, NEW j \in Recoverers, RecoveryStep(j), NEW k \in Ids
  PROVE  \/ Kept(k)
         \/ /\ docs[k].state = "dispatching" /\ docs'[k].state = "unknown"
            /\ docs'[k].request = docs[k].request
<1>1. CASE UNCHANGED docs
  BY <1>1 DEF Kept
<1>2. CASE /\ recovery[j].pc = "update"
           /\ CompleteMatches(Candidate(j), "dispatching", recovery[j].count)
           /\ CompleteUpdate(Candidate(j), "dispatching", recovery[j].count,
                             "stale_dispatch_recovered")
  <2>1. Candidate(j) \in Ids /\ docs \in [Ids -> Doc]
    BY <1>2, RecoveryType, HeadTailProperties
    DEF Recoveries, Job, Candidate, IInv, TypeOK, IntentsTypeOK
  <2>2. /\ docs'[Candidate(j)].state = "unknown"
        /\ docs'[Candidate(j)].request = docs[Candidate(j)].request
        /\ \A i \in Ids : i # Candidate(j) => docs'[i] = docs[i]
    BY <1>2, <2>1, CompleteEffect DEF StateOf, Results
  <2> QED
    BY <1>2, <2>2 DEF CompleteMatches, Kept
<1> QED
  BY <1>1, <1>2
  DEF RecoveryStep, RecoverySelect, RecoveryFind, RecoveryUpdate, RecoveryAborts

LEMMA RecoveryKeeps ==
  ASSUME SendsInv, NEW j \in Recoverers, Recovers(j)
  PROVE  SendsInv'
<1>1. IInv /\ RecoveryStep(j)
  BY DEF SendsInv, Recovers
<1>2. IInv'
  BY <1>1, NextIInv DEF Next
<1>3. UNCHANGED <<call, delivered, stored, content, snapshot, post, posting>>
  BY DEF Recovers, RecoveryStep
<1>4. Lasting /\ \A k \in Ids : ~Stored(k) => docs'[k].state = "absent"
  BY <1>1, RecoveryEffect DEF Lasting, Stored, Kept
<1>5. \A d \in Callers : CallAsks(d)'
  BY <1>3, <1>4, AsksLasts DEF SendsInv
<1>6. \A i \in Ids : SnapshotOK(i)'
  BY <1>3, <1>4, SnapshotLasts DEF SendsInv
<1>7. ASSUME NEW i \in Ids
      PROVE  PostOK(i)'
  <2>1. PostOK(i)
    BY DEF SendsInv
  <2>2. \/ Kept(i)
        \/ /\ docs[i].state = "dispatching" /\ docs'[i].state = "unknown"
           /\ docs'[i].request = docs[i].request
    BY <1>1, RecoveryEffect
  <2> QED
    BY <1>3, <2>1, <2>2, PostLasts DEF PostOK, Kept
<1>8. Domains' /\ CatalogOK'
  BY <1>3 DEF SendsInv, Domains, CatalogOK
<1> QED
  BY <1>2, <1>5, <1>6, <1>7, <1>8 DEF SendsInv

-----------------------------------------------------------------------------
(* The POST.                                                               *)

(* What a claimed call goes on with is a message that makes its request.   *)
LEMMA HeldIsAsked ==
  ASSUME SendsInv, NEW c \in Callers, call[c].pc = "send"
  PROVE  /\ Asked(call[c].request, Held(c))
         /\ Payload(Held(c)) # NoPayload
<1> DEFINE r == call[c].request
           i == call[c].id
<1>1. /\ i \in Ids /\ Stored(i) /\ docs[i].request = r /\ r \in Requests
  BY CallType DEF SendsInv, CallOK, Bound
<1>2. Asked(r, content[c]) /\ HoldsRequest(c)
  BY DEF SendsInv, CallAsks, Bound
<1>3. r \in Sensitive <=> r.keyed
  BY <1>1, SendsAssumption
<1>4. CASE ContainsSensitive(content[c])
  <2>1. call[c].created
    BY <1>2, <1>3, <1>4 DEF Asked, HoldsRequest
  <2> QED
    BY <1>2, <1>4, <2>1, FingerprintDeterminesPayload DEF Held, Asked
<1>5. CASE ~ContainsSensitive(content[c])
  <2>1. PICK schema \in Schemas : \E m :
          Asked(r, m) /\ Fits(schema, m) /\ snapshot[i] = SerializeAs(schema, m)
    BY <1>1 DEF SendsInv, SnapshotOK
  <2>2. PICK m : Asked(r, m) /\ Fits(schema, m) /\ snapshot[i] = SerializeAs(schema, m)
    BY <2>1
  <2>3. schema \in 1..3
    BY SendsAssumption
  <2>4. m \in BuiltMessage /\ ~ContainsSensitive(m)
    BY <1>2, <1>5, <2>2 DEF Asked
  <2>5. Deserialize(snapshot[i]) = m
    BY <2>2, <2>3, <2>4, SnapshotRestoresMessage
  <2>6. Held(c) = m
    BY <1>5, <2>5 DEF Held
  <2> QED
    BY <2>2, <2>4, <2>6, FingerprintDeterminesPayload
<1> QED
  BY <1>4, <1>5

(* The steps of a POST leave everything else of the call alone.            *)
LEMMA CallsAsBefore ==
  ASSUME SendsInv, UNCHANGED <<docs, call, content>>, NEW d \in Callers,
         (d \in posting => call[d].pc = "send" /\ post[call[d].id] # NoPost)',
         (call[d].pc = "send" /\ d \notin posting => post[call[d].id] = NoPost)',
         (call[d].pc \in Completing /\ StateOf(call[d].result) = "rejected" =>
            post[call[d].id].fate \in {"none", "refused"})'
  PROVE  CallAsks(d)'
<1>1. CallAsks(d)
  BY DEF SendsInv
<1> QED
  BY <1>1 DEF CallAsks, HoldsRequest, Recorded, Stored, Asked, Completing

LEMMA PostKeeps ==
  ASSUME SendsInv, NEW c \in Callers, Post(c)
  PROVE  SendsInv'
<1> DEFINE i == call[c].id
           new == [times |-> 1, fate |-> "underway", payload |-> Payload(Held(c)),
                   retriable |-> FALSE]
<1>1. UNCHANGED <<service, stored, content, snapshot>>
  BY DEF Post
<1>2. /\ i \in Ids /\ docs[i].request = call[c].request /\ i \notin delivered
      /\ docs[i].state \in {"dispatching", "unknown"}
      /\ call[c].pc = "send" /\ c \notin posting
  BY CallType DEF SendsInv, IInv, IntentOK, CallOK, Bound, Post, At
<1>3. post[i] = NoPost /\ NoPost.times = 0
  BY <1>2 DEF SendsInv, CallAsks, NoPost
<1>4. post' = [post EXCEPT ![i] = new]
  BY <1>3 DEF Post
<1>5. Asked(call[c].request, Held(c)) /\ Payload(Held(c)) # NoPayload
  BY <1>2, HeldIsAsked
<1>6. /\ new.times = 1 /\ new.fate = "underway" /\ new.payload = Payload(Held(c))
      /\ ~new.retriable /\ IsPost(new) /\ new # NoPost
  BY DEF NoPost, IsPost
<1> HIDE DEF new
<1>7. post'[i] = new /\ \A k \in Ids : k # i => post'[k] = post[k]
  BY <1>2, <1>4 DEF SendsInv, Domains
<1>8. IInv'
  BY <1>1, StutterStep DEF SendsInv, vars
<1>9. ASSUME NEW k \in Ids
      PROVE  PostOK(k)'
  <2>1. PostOK(k)
    BY DEF SendsInv
  <2>2. CASE k # i
    BY <1>1, <1>7, <2>1, <2>2, PostLasts DEF PostOK
  <2>3. CASE k = i
    <3>1. /\ post'[k] = new /\ docs'[k] = docs[k] /\ docs[k].request = call[c].request
          /\ k \in delivered' <=> k \in delivered
      BY <1>1, <1>2, <1>7, <2>3
    <3>2. (\E m : Asked(docs[k].request, m) /\ post[k].payload = Payload(m))'
      BY <1>5, <1>6, <3>1 DEF Asked
    <3>3. IsPost(post'[k])
      BY <1>6, <3>1
    <3>4. k \notin delivered /\ docs[k].state \in {"dispatching", "unknown"}
      BY <1>2, <2>3
    <3>5. post'[k].times = 1 /\ post'[k].fate = "underway" /\ ~post'[k].retriable
      BY <1>6, <3>1
    <3>6. post'[k].times = 1
      BY <3>5
    <3>7. post'[k].times \in {0, 1} /\ post'[k].times # 0
      BY <3>6
    <3>8. /\ (post[k].times \in {0, 1} /\ post[k].fate \in Fates)'
          /\ (post[k].times = 0 => post[k] = NoPost)'
          /\ (post[k].fate # "none")'
      BY <3>5, <3>7, Zenon DEF Fates
    <3>9. /\ (docs[k].state \in {"absent", "pending"} => post[k] = NoPost)'
          /\ (k \in delivered => post[k].fate = "taken")'
          /\ (docs[k].state = "rejected" => post[k].fate \in {"none", "refused"})'
          /\ (post[k].retriable => post[k].fate = "refused")'
      BY <3>1, <3>4, <3>5
    <3> HIDE DEF i
    <3> QED
      BY <3>2, <3>3, <3>8, <3>9, Zenon DEF PostOK
  <2> QED
    BY <2>2, <2>3
<1>10. ASSUME NEW d \in Callers
       PROVE  CallAsks(d)'
  <2>1. CallAsks(d) /\ CallOK(call[d])
    BY CallType DEF SendsInv
  <2>2. posting' = posting \cup {c}
    BY DEF Post
  <2>3. CASE d = c
    BY <1>1, <1>2, <1>6, <1>7, <2>2, <2>3, CallsAsBefore DEF Completing
  <2>4. CASE d # c
    <3>1. call[d].pc \in Claimed => call[d].id # i /\ call[d].id \in Ids
      BY <1>2, <2>1, <2>4 DEF SendsInv, IInv, Apart, At, CallOK, Bound
    <3>2. call[d].pc \in Claimed => post'[call[d].id] = post[call[d].id]
      BY <1>7, <3>1
    <3> QED
      BY <1>1, <2>1, <2>2, <2>4, <3>2, CallsAsBefore DEF CallAsks, Completing
  <2> QED
    BY <2>3, <2>4
<1> QED
  BY <1>1, <1>4, <1>8, <1>9, <1>10, QuietStep DEF SendsInv, Domains

(* Meta decides: the POST was on its way, so nothing has been said of it.  *)
LEMMA DecisionKeeps ==
  ASSUME SendsInv, NEW i \in Ids, NEW fate \in {"taken", "refused"}, MetaDecides(i, fate)
  PROVE  SendsInv'
<1>1. /\ UNCHANGED <<service, stored, content, snapshot, posting>>
      /\ post[i].fate = "underway"
  BY DEF MetaDecides
<1>2. PICK t, q, b : post[i] = [times |-> t, fate |-> "underway", payload |-> q, retriable |-> b]
  <2>1. PICK t, f, q, b : post[i] = [times |-> t, fate |-> f, payload |-> q, retriable |-> b]
    BY DEF SendsInv, PostOK, IsPost
  <2>2. f = "underway"
    BY <1>1, <2>1
  <2> QED
    BY <2>1, <2>2
<1> DEFINE new == [times |-> t, fate |-> fate, payload |-> q, retriable |-> b]
<1>3. post' = [post EXCEPT ![i] = new]
  <2>1. post' = [post EXCEPT ![i] = [post[i] EXCEPT !.fate = fate]]
    BY DEF MetaDecides
  <2>2. [post[i] EXCEPT !.fate = fate] = new
    BY <1>2
  <2> QED
    BY <2>1, <2>2
<1>4. /\ new.times = post[i].times /\ new.payload = post[i].payload /\ new.fate = fate
      /\ new.retriable = post[i].retriable
  BY <1>2
<1>10. IsPost(new)
  BY DEF IsPost
<1>5. new # NoPost /\ post[i] # NoPost /\ fate # "none" /\ fate # "underway"
  BY <1>1, <1>4 DEF NoPost
<1> HIDE DEF new
<1>6. post'[i] = new /\ \A k \in Ids : k # i => post'[k] = post[k]
  BY <1>3 DEF SendsInv, Domains
<1>7. IInv'
  BY <1>1, StutterStep DEF SendsInv, vars
<1>8. ASSUME NEW k \in Ids
      PROVE  PostOK(k)'
  <2>1. PostOK(k)
    BY DEF SendsInv
  <2>2. CASE k # i
    BY <1>1, <1>6, <2>1, <2>2, PostLasts DEF PostOK
  <2>3. CASE k = i
    <3>1. post'[k] = new /\ docs'[k] = docs[k] /\ delivered' = delivered
      BY <1>1, <1>6, <2>3
    <3>2. PICK m : Asked(docs[k].request, m) /\ post[k].payload = Payload(m)
      BY <1>5, <2>1, <2>3 DEF PostOK
    <3>3. (Asked(docs[k].request, m) /\ post[k].payload = Payload(m))'
      BY <1>4, <2>3, <3>1, <3>2 DEF Asked
    <3>4. /\ docs[k].state \notin {"absent", "pending", "rejected"} /\ k \notin delivered
          /\ post[k].times \in {0, 1} /\ post[k].times # 0
      BY <1>1, <1>5, <2>1, <2>3 DEF PostOK
    <3>5. ~post[k].retriable
      BY <1>1, <2>1, <2>3 DEF PostOK
    <3>6. ~post'[k].retriable
      BY <1>4, <2>3, <3>1, <3>5, Zenon
    <3>7. IsPost(post'[k])
      BY <1>10, <3>1
    <3>8. new.times = post[k].times /\ new.fate = fate
      BY <1>4, <2>3
    <3>9. /\ (post[k].times \in {0, 1} /\ post[k].times # 0 /\ post[k].fate = fate)'
          /\ (k \notin delivered /\ docs[k].state \notin {"absent", "pending", "rejected"})'
      BY <3>1, <3>4, <3>8
    <3>10. (post[k].fate \in Fates /\ post[k].fate # "none")'
      BY <1>5, <3>9 DEF Fates
    <3> QED
      BY <3>3, <3>6, <3>7, <3>9, <3>10, Zenon DEF PostOK
  <2> QED
    BY <2>2, <2>3
<1>9. ASSUME NEW d \in Callers
      PROVE  CallAsks(d)'
  <2>1. CallAsks(d) /\ CallOK(call[d])
    BY CallType DEF SendsInv
  <2>2. call[d].pc \in Claimed => call[d].id \in Ids
    BY <2>1 DEF CallOK, Bound
  <2>3. call[d].pc \in Completing /\ StateOf(call[d].result) = "rejected" => call[d].id # i
    BY <1>1, <2>1 DEF CallAsks
  <2>4. call[d].pc = "send" /\ d \notin posting => call[d].id # i
    BY <1>5, <2>1 DEF CallAsks
  <2>5. UNCHANGED <<docs, call, content, posting>>
    BY <1>1
  <2>6. (d \in posting => call[d].pc = "send" /\ post[call[d].id] # NoPost)'
    BY <1>5, <1>6, <2>1, <2>2, <2>5 DEF CallAsks
  <2>7. (call[d].pc = "send" /\ d \notin posting => post[call[d].id] = NoPost)'
    BY <1>6, <2>1, <2>2, <2>4, <2>5 DEF CallAsks
  <2>8. (call[d].pc \in Completing /\ StateOf(call[d].result) = "rejected" =>
            post[call[d].id].fate \in {"none", "refused"})'
    BY <1>6, <2>1, <2>2, <2>3, <2>5 DEF CallAsks, Completing
  <2> QED
    BY <2>5, <2>6, <2>7, <2>8, CallsAsBefore
<1> QED
  BY <1>1, <1>3, <1>7, <1>8, <1>9, QuietStep DEF SendsInv, Domains

(* The POST's end is the provider's answer: what the adapter makes of Meta's *)
(* is truthful, and the registry has the adapter.                          *)
LEMMA EndIsDispatch ==
  ASSUME SendsInv, NEW c \in Callers, PostEnds(c)
  PROVE  Dispatch(c)
<1>1. PICK i \in Ids : i = call[c].id
  BY CallType DEF SendsInv, CallAsks, PostEnds, CallOK, Bound
<1>2. call[c].pc = "send" /\ post[i] # NoPost /\ call[c] \in Call
  BY <1>1, CallType DEF SendsInv, CallAsks, PostEnds
<1>3. PICK o \in Meta!MayEnd(post[i].fate) :
        /\ Becomes(c, [call[c] EXCEPT !.pc = "completeFind",
                                      !.result = Meta!Classify(o).disposition,
                                      !.invoked = TRUE, !.contacted = TRUE])
        /\ sends' = [sends EXCEPT ![i] = IF @ = 0 THEN 1 ELSE 2]
        /\ delivered' = IF post[i].fate = "taken" THEN delivered \cup {i} ELSE delivered
  BY <1>1 DEF PostEnds
<1> DEFINE answer == Meta!Classify(o).disposition
           taken == post[i].fate = "taken"
<1>4. post[i].fate \in Fates \ {"none"}
  BY <1>2 DEF SendsInv, PostOK
<1>5. /\ answer \in Terminal
      /\ answer = "accepted" => taken
      /\ answer = "rejected" => ~taken
  BY <1>4, AdapterIsTruthful
<1>6. UNCHANGED <<mongo, policy>>
  BY DEF PostEnds
<1>7. taken \in BOOLEAN
  OBVIOUS
<1>8. call[c].request \notin Unregistered
  BY SendsAssumption
<1>9. /\ Becomes(c, [call[c] EXCEPT !.pc = "completeFind", !.result = answer,
                                    !.invoked = TRUE, !.contacted = TRUE])
      /\ sends' = [sends EXCEPT ![i] = IF @ = 0 THEN 1 ELSE 2]
      /\ delivered' = IF taken THEN delivered \cup {i} ELSE delivered
  BY <1>3 DEF answer
<1> HIDE DEF taken, answer
<1> QED
  BY <1>1, <1>2, <1>5, <1>6, <1>7, <1>8, <1>9 DEF Dispatch, At

(* The POST ends for its call, which is told nothing that Meta belies.     *)
LEMMA EndKeeps ==
  ASSUME SendsInv, NEW c \in Callers, PostEnds(c)
  PROVE  SendsInv'
<1>1. PICK i \in Ids : i = call[c].id
  BY CallType DEF SendsInv, CallAsks, PostEnds, CallOK, Bound
<1>2. /\ call[c].pc = "send" /\ c \in posting /\ post[i] # NoPost /\ call[c] \in Call
      /\ call \in [Callers -> Call] /\ CallAsks(c)
  BY <1>1, CallType DEF SendsInv, CallAsks, PostEnds
<1>3. PICK o \in Meta!MayEnd(post[i].fate) :
        /\ Becomes(c, [call[c] EXCEPT !.pc = "completeFind",
                                      !.result = Meta!Classify(o).disposition,
                                      !.invoked = TRUE, !.contacted = TRUE])
        /\ post' = [post EXCEPT ![i].retriable = Meta!Classify(o).retriable]
        /\ sends' = [sends EXCEPT ![i] = IF @ = 0 THEN 1 ELSE 2]
        /\ delivered' = IF post[i].fate = "taken" THEN delivered \cup {i} ELSE delivered
  BY <1>1 DEF PostEnds
<1> DEFINE answer == Meta!Classify(o).disposition
           hint == Meta!Classify(o).retriable
           taken == post[i].fate = "taken"
<1>4. post[i].fate \in Fates \ {"none"} /\ PostOK(i)
  BY <1>2 DEF SendsInv, PostOK
<1>5. /\ answer \in Terminal
      /\ answer = "accepted" => taken
      /\ answer = "rejected" => post[i].fate = "refused"
      /\ hint => post[i].fate = "refused"
  BY <1>4, AdapterIsTruthful
<1> HIDE DEF answer, hint
<1>6. UNCHANGED <<mongo, policy, stored, content, snapshot>> /\ posting' = posting \ {c}
  BY DEF PostEnds
<1>7. IInv'
  BY <1>1, <1>2, EndIsDispatch, DispatchStep DEF SendsInv
<1>8. PICK m : m = [call[c] EXCEPT !.pc = "completeFind", !.result = answer,
                                   !.invoked = TRUE, !.contacted = TRUE]
  OBVIOUS
<1>9. /\ m.pc = "completeFind" /\ m.result = answer /\ m.id = i
      /\ m.request = call[c].request /\ m.reply = call[c].reply /\ m.created = call[c].created
  BY <1>1, <1>2, <1>8 DEF Call
<1>10. call'[c] = m /\ \A d \in Callers : d # c => call'[d] = call[d]
  BY <1>2, <1>3, <1>8 DEF Becomes, answer
<1>11. PICK t, f, q, b : post[i] = [times |-> t, fate |-> f, payload |-> q, retriable |-> b]
  BY <1>4 DEF PostOK, IsPost
<1> DEFINE new == [times |-> t, fate |-> f, payload |-> q, retriable |-> hint]
<1>12. post' = [post EXCEPT ![i] = new]
  <2>1. post' = [post EXCEPT ![i] = [post[i] EXCEPT !.retriable = hint]]
    BY <1>3 DEF hint
  <2>2. [post[i] EXCEPT !.retriable = hint] = new
    BY <1>11
  <2> QED
    BY <2>1, <2>2
<1>13. new.times = post[i].times /\ new.payload = post[i].payload /\ new.fate = post[i].fate
  BY <1>11
<1>14. new.retriable = hint
  OBVIOUS
<1>15. IsPost(new)
  BY DEF IsPost
<1> HIDE DEF new
<1>16. post'[i] = new /\ \A k \in Ids : k # i => post'[k] = post[k]
  BY <1>12 DEF SendsInv, Domains
<1>17. new # NoPost
  BY <1>4, <1>13 DEF NoPost
<1>18. ASSUME NEW k \in Ids
       PROVE  PostOK(k)'
  <2>1. PostOK(k) /\ docs' = docs
    BY <1>6 DEF SendsInv
  <2>2. CASE k # i
    <3>1. k \in delivered' <=> k \in delivered
      BY <1>3, <2>2
    <3> QED
      BY <1>6, <1>16, <2>1, <2>2, <3>1, PostLasts DEF PostOK
  <2>3. CASE k = i
    <3>1. PICK x : Asked(docs[k].request, x) /\ post[k].payload = Payload(x)
      BY <1>2, <2>1, <2>3 DEF PostOK
    <3>2. (Asked(docs[k].request, x) /\ post[k].payload = Payload(x))'
      BY <1>13, <1>16, <2>1, <2>3, <3>1 DEF Asked
    <3>3. IsPost(post'[k])
      BY <1>15, <1>16, <2>3
    <3>4. /\ docs[k].state \notin {"absent", "pending"} /\ post[k].times # 0
          /\ post[k].times \in {0, 1} /\ post[k].fate \in Fates /\ post[k].fate # "none"
          /\ docs[k].state = "rejected" => post[k].fate \in {"none", "refused"}
      BY <1>2, <2>1, <2>3 DEF PostOK
    <3>5. k \in delivered' => post[k].fate = "taken"
      BY <1>3, <2>1, <2>3 DEF PostOK
    <3>6. /\ (post[k].times \in {0, 1} /\ post[k].times # 0)'
          /\ (post[k].fate \in Fates /\ post[k].fate # "none")'
          /\ (docs[k].state \notin {"absent", "pending"})'
          /\ (docs[k].state = "rejected" => post[k].fate \in {"none", "refused"})'
          /\ (k \in delivered => post[k].fate = "taken")'
      BY <1>13, <1>16, <2>1, <2>3, <3>4, <3>5
    <3>7. post'[k].retriable => post'[k].fate = "refused"
      <4>1. post'[k].fate = post[i].fate /\ post'[k] = new
        BY <1>13, <1>16, <2>3
      <4>2. post'[k].retriable => hint
        BY <1>14, <4>1, Zenon
      <4> QED
        BY <1>5, <4>1, <4>2
    <3> QED
      BY <3>2, <3>3, <3>6, <3>7, Zenon DEF PostOK
  <2> QED
    BY <2>2, <2>3
<1>19. ASSUME NEW d \in Callers
       PROVE  CallAsks(d)'
  <2>1. CallAsks(d) /\ CallOK(call[d])
    BY CallType DEF SendsInv
  <2>2. CASE d # c
    <3>1. call[d].pc \in Claimed => call[d].id # i /\ call[d].id \in Ids
      BY <1>1, <1>2, <2>1, <2>2 DEF SendsInv, IInv, Apart, At, CallOK, Bound
    <3>2. call[d].pc \in Claimed => post'[call[d].id] = post[call[d].id]
      BY <1>16, <3>1
    <3>3. call'[d] = call[d] /\ content'[d] = content[d] /\ (d \in posting' <=> d \in posting)
      BY <1>6, <1>10, <2>2
    <3>4. Lasting
      BY <1>6 DEF Lasting, Stored
    <3> QED
      BY <2>1, <3>2, <3>3, <3>4, AsksLasts
  <2>3. CASE d = c
    <3>1. Asked(call[c].request, content[c]) /\ HoldsRequest(c)
      BY <1>2 DEF CallAsks, Bound
    <3>2. m.reply.kind = "result" => Recorded(m.request)
      BY <1>2, <1>9 DEF CallAsks
    <3>3. (Asked(call[d].request, content[d]) /\ HoldsRequest(d))'
      BY <1>6, <1>9, <1>10, <2>3, <3>1 DEF Asked, HoldsRequest
    <3>4. (call[d].reply.kind = "result" => Recorded(call[d].request))'
      BY <1>6, <1>10, <2>3, <3>2 DEF Recorded, Stored
    <3>5. /\ (call[d].pc = "completeFind" /\ d \notin posting)'
          /\ call'[d].id = i /\ call'[d].result = answer
      BY <1>6, <1>9, <1>10, <2>3
    <3>6. StateOf(answer) = "rejected" => post'[i].fate = "refused"
      BY <1>5, <1>13, <1>16 DEF StateOf, Terminal
    <3>7. (StateOf(call[d].result) = "rejected" => post[call[d].id].fate \in {"none", "refused"})'
      BY <3>5, <3>6
    <3> QED
      BY <3>3, <3>4, <3>5, <3>7 DEF CallAsks
  <2> QED
    BY <2>2, <2>3
<1>20. Lasting /\ \A k \in Ids : SnapshotOK(k)'
  <2>1. Lasting
    BY <1>6 DEF Lasting, Stored
  <2> QED
    BY <1>6, <2>1, SnapshotLasts DEF SendsInv, Stored
<1>21. Domains' /\ CatalogOK'
  BY <1>6, <1>12 DEF SendsInv, Domains, CatalogOK
<1> QED
  BY <1>7, <1>18, <1>19, <1>20, <1>21 DEF SendsInv

-----------------------------------------------------------------------------
(* The start of a call, and the steps of others.                           *)

LEMMA RefusalType ==
  ASSUME CatalogOK, NEW k \in Keys, NEW provided \in Supplied,
         <<Catalog!Get(k), provided>> \notin Buildable
  PROVE  Refusal(Catalog!Get(k), provided) \in LookupErrors
<1> DEFINE got == Catalog!Get(k)
<1>1. got \in Aliases \/ got = Catalog!None \/ got = Catalog!RecordError
  BY DEF Catalog!Get, CatalogOK
<1> HIDE DEF got
<1>2. CASE got = Catalog!None \/ got = Catalog!RecordError
  BY <1>2 DEF Refusal, got
<1>3. CASE got \in Aliases /\ got # Catalog!None /\ got # Catalog!RecordError
  <2>1. MessageOf(got, provided).type # "template"
    BY <1>3 DEF Buildable, got
  <2>2. Built(TemplateOf[got], provided).type = "template"
    BY DEF Built
  <2>3. MessageOf(got, provided).type \in LookupErrors
    BY <2>1, <2>2 DEF MessageOf, BuildTemplateMessage, Raised
  <2>4. Refusal(got, provided) = MessageOf(got, provided).type
    BY <1>3 DEF Refusal
  <2> QED
    BY <2>3, <2>4 DEF got
<1> QED
  BY <1>1, <1>2, <1>3

(* What is built of an alias and a mapping is asked by its request.        *)
LEMMA BuiltIsAsked ==
  ASSUME NEW a, NEW provided, <<a, provided>> \in Buildable, NEW k \in Keys
  PROVE  /\ Asked(RequestOf(k, MessageOf(a, provided)), MessageOf(a, provided))
         /\ RequestOf(k, MessageOf(a, provided)) \in Requests
<1> DEFINE m == MessageOf(a, provided)
           alias == TemplateOf[a]
<1>1. a \in Aliases /\ provided \in Supplied /\ m.type = "template"
  BY DEF Buildable
<1>2. /\ alias \in TemplateAlias
      /\ \A name \in DOMAIN provided : provided[name] \in Parameter
      /\ \A name \in DOMAIN provided :
           provided[name].value \in Secrets => provided[name].kind = "sensitive_text"
  BY <1>1, SendsAssumption
<1>3. m = Built(alias, provided) /\ m \in BuiltMessage
  <2>1. m = BuildTemplateMessage(alias, provided)
    BY DEF MessageOf
  <2>2. BuildTemplateMessage(alias, provided).type = "template"
    BY <1>1, <2>1
  <2> HIDE DEF m, alias
  <2>3. /\ BuildTemplateMessage(alias, provided) = Built(alias, provided)
        /\ Built(alias, provided) \in BuiltMessage
    BY <1>2, <2>2, Builds
  <2> QED
    BY <2>1, <2>3
<1>4. Names(alias) \subseteq DOMAIN provided
  BY <1>1 DEF MessageOf, BuildTemplateMessage, Raised
<1>5. NoSecrets(m)
  <2> DEFINE P(x) == [y \in DOMAIN alias.components[x].names |->
                        provided[alias.components[x].names[y]]]
             C(x) == [type |-> alias.components[x].type,
                      button |-> IF alias.components[x].type = "button" THEN "url" ELSE "none",
                      parameters |-> P(x)]
  <2>1. m = [type |-> "template", template |-> alias.template,
             components |-> [x \in DOMAIN alias.components |-> C(x)]]
    BY <1>3 DEF Built
  <2>2. \A x : C(x).parameters = P(x)
    OBVIOUS
  <2> HIDE DEF C, m, alias
  <2>3. m.components = [x \in DOMAIN alias.components |-> C(x)]
    BY <2>1
  <2>4. \A x \in DOMAIN m.components :
          x \in DOMAIN alias.components /\ m.components[x].parameters = P(x)
    BY <2>2, <2>3
  <2> SUFFICES ASSUME NEW n \in DOMAIN m.components, NEW j \in DOMAIN m.components[n].parameters
               PROVE  m.components[n].parameters[j].value \in Secrets
                        => m.components[n].parameters[j].kind = "sensitive_text"
    BY DEF NoSecrets
  <2> DEFINE name == alias.components[n].names[j]
  <2>5. j \in DOMAIN alias.components[n].names /\ m.components[n].parameters[j] = provided[name]
    BY <2>4
  <2>6. name \in DOMAIN provided
    <3>1. name \in {alias.components[n].names[y] : y \in DOMAIN alias.components[n].names}
      BY <2>5
    <3>2. n \in DOMAIN alias.components
      BY <2>4
    <3> HIDE DEF name
    <3>3. name \in Names(alias)
      BY <3>1, <3>2 DEF Names
    <3> QED
      BY <1>4, <3>3
  <2> HIDE DEF name
  <2>7. provided[name].value \in Secrets => provided[name].kind = "sensitive_text"
    BY <1>2, <2>6
  <2> QED
    BY <2>5, <2>7
<1>6. /\ RequestOf(k, m).message = FingerprintData(m)
      /\ RequestOf(k, m).keyed <=> ContainsSensitive(m)
  BY DEF RequestOf, Fingerprint
<1>7. RequestOf(k, m) \in Requests
  <2>1. PICK x \in Buildable : x = <<a, provided>>
    OBVIOUS
  <2>2. m = MessageOf(x[1], x[2])
    BY <2>1
  <2> QED
    BY <2>2, SendsAssumption
<1> QED
  BY <1>3, <1>5, <1>6, <1>7 DEF Asked

(* A webhook changes nothing here, and neither does a stutter.             *)
LEMMA QuietKeeps ==
  ASSUME SendsInv, UNCHANGED <<service, stored, content, snapshot, adapter>>
  PROVE  SendsInv'
<1>1. IInv'
  BY StutterStep DEF SendsInv, vars
<1>2. \A d \in Callers : CallAsks(d)'
  BY AsksLasts DEF SendsInv, Lasting, Stored
<1> QED
  BY <1>1, <1>2, QuietStep, QuietPosts DEF SendsInv, Domains

(* A call that starts asks for what it has built.                          *)
LEMMA StartKeeps ==
  ASSUME SendsInv, NEW c \in Callers, NEW r, NEW x, Asked(r, x), At(c, "idle"), Start(c, r),
         content' = [content EXCEPT ![c] = x], UNCHANGED <<stored, snapshot, adapter>>
  PROVE  SendsInv'
<1>1. /\ UNCHANGED <<mongo, policy, provider>>
      /\ call[c].pc = "idle" /\ call \in [Callers -> Call] /\ DOMAIN content = Callers
  BY CallType DEF SendsInv, Domains, Start, At
<1>2. c \notin posting
  BY <1>1 DEF SendsInv, CallAsks
<1>3. IInv'
  BY StartStep DEF SendsInv, Asked
<1>4. content'[c] = x /\ DOMAIN content' = Callers
      /\ \A d \in Callers : d # c => content'[d] = content[d]
  BY <1>1
<1>5. PICK m : /\ Becomes(c, m) /\ m.request = r /\ m.pc \in {"idle", "get"}
               /\ m.reply.kind # "result"
  <2> DEFINE m1 == [NoCall EXCEPT !.request = r,
                      !.reply = [NoReply EXCEPT !.kind = "ServiceDependencyError"]]
             m2 == [NoCall EXCEPT !.pc = "get", !.request = r,
                      !.wasEligible = Eligible(r), !.hadSession = r \in sessions]
  <2>1. m1.request = r /\ m1.pc = "idle" /\ m1.reply.kind = "ServiceDependencyError"
    BY DEF NoCall, NoReply
  <2>2. m2.request = r /\ m2.pc = "get" /\ m2.reply.kind = "none"
    BY DEF NoCall, NoReply
  <2>3. Becomes(c, m1) \/ Becomes(c, m2)
    BY DEF Start
  <2> HIDE DEF m1, m2
  <2> QED
    BY <2>1, <2>2, <2>3
<1>6. call'[c] = m /\ \A d \in Callers : d # c => call'[d] = call[d]
  BY <1>1, <1>5 DEF Becomes
<1>7. ASSUME NEW d \in Callers
      PROVE  CallAsks(d)'
  <2>1. CASE d # c
    <3>1. Lasting /\ CallAsks(d)
      BY <1>1 DEF SendsInv, Lasting, Stored
    <3> QED
      BY <1>1, <1>4, <1>6, <2>1, <3>1, AsksLasts
  <2>2. CASE d = c
    <3>1. Asked(call[d].request, content[d])'
      BY <1>4, <1>5, <1>6, <2>2 DEF Asked
    <3> QED
      BY <1>1, <1>2, <1>5, <1>6, <2>2, <3>1 DEF CallAsks, Bound, Completing
  <2> QED
    BY <2>1, <2>2
<1> QED
  BY <1>1, <1>3, <1>4, <1>7, QuietStep, QuietPosts DEF SendsInv, Domains

(* A call that is refused before _send leaves everything else alone.       *)
LEMMA CallTemplateKeeps ==
  ASSUME SendsInv, NEW c \in Callers, NEW k \in Keys, NEW provided \in Supplied,
         CallTemplate(c, k, provided)
  PROVE  SendsInv'
<1> DEFINE got == Catalog!Get(k)
<1>1. At(c, "idle") /\ UNCHANGED <<catalog, snapshot, adapter>>
  BY DEF CallTemplate
<1>2. CASE UNCHANGED <<service, content>>
  BY <1>1, <1>2, QuietKeeps
<1>3. CASE /\ <<got, provided>> \in Buildable
           /\ Start(c, RequestOf(k, MessageOf(got, provided)))
           /\ content' = [content EXCEPT ![c] = MessageOf(got, provided)]
  <2> DEFINE x == MessageOf(got, provided)
             r == RequestOf(k, x)
  <2>1. Asked(r, x)
    BY <1>3, BuiltIsAsked
  <2> HIDE DEF x, r
  <2>2. Start(c, r) /\ content' = [content EXCEPT ![c] = x]
    BY <1>3 DEF x, r
  <2> QED
    BY <1>1, <2>1, <2>2, StartKeeps
<1> QED
  BY <1>2, <1>3 DEF CallTemplate

(* An event about a recipient changes what the policies answer, and no     *)
(* call, document or POST.                                                 *)
LEMMA ConsentKeeps ==
  ASSUME SendsInv, ConsentChanges
  PROVE  SendsInv'
<1>1. PICK p \in PolicyMoves : ChangeEligibility(p)
  BY DEF ConsentChanges
<1>2. IInv'
  BY <1>1, ChangeEligibilityStep DEF SendsInv
<1>3. UNCHANGED <<docs, delivered, stored, content, snapshot, post, posting>>
  BY <1>1 DEF ConsentChanges, ChangeEligibility
<1>4. ASSUME NEW d \in Callers
      PROVE  CallAsks(d)'
  <2>1. call \in [Callers -> Call] /\ CallAsks(d)
    BY CallType DEF SendsInv
  <2>2. /\ call'[d].pc = call[d].pc /\ call'[d].request = call[d].request
        /\ call'[d].reply = call[d].reply /\ call'[d].id = call[d].id
        /\ call'[d].created = call[d].created /\ call'[d].result = call[d].result
    <3>1. PICK x : call'[d] = [call[d] EXCEPT !.wasEligible = x]
      BY <1>1, <2>1 DEF ChangeEligibility
    <3> QED
      BY <2>1, <3>1 DEF Call
  <2>3. (Asked(call[d].request, content[d]) <=> Asked(call[d].request, content[d])')
        /\ (Recorded(call[d].request) => Recorded(call[d].request)')
    BY <1>3, <2>2 DEF Asked, Recorded, Stored
  <2>4. HoldsRequest(d) => HoldsRequest(d)'
    BY <2>2 DEF HoldsRequest
  <2>5. /\ (call[d].pc # "idle" => Asked(call[d].request, content[d]))'
        /\ (call[d].reply.kind = "result" =>
             Asked(call[d].request, content[d]) /\ Recorded(call[d].request))'
        /\ (call[d].pc \in Bound => HoldsRequest(d))'
    BY <2>1, <2>2, <2>3, <2>4 DEF CallAsks
  <2>6. /\ (d \in posting => call[d].pc = "send" /\ post[call[d].id] # NoPost)'
        /\ (call[d].pc = "send" /\ d \notin posting => post[call[d].id] = NoPost)'
    BY <1>3, <2>1, <2>2 DEF CallAsks
  <2>7. StateOf(call'[d].result) = StateOf(call[d].result)
    BY <2>2
  <2>8. (call[d].pc \in Completing /\ StateOf(call[d].result) = "rejected" =>
           post[call[d].id].fate \in {"none", "refused"})'
    BY <1>3, <2>1, <2>2, <2>7 DEF CallAsks
  <2> QED
    BY <2>5, <2>6, <2>8 DEF CallAsks
<1> QED
  BY <1>2, <1>3, <1>4, QuietStep, QuietPosts DEF SendsInv, Domains

(* Editors save aliases and deactivate them; nothing of a call depends on  *)
(* it any more.                                                            *)
LEMMA CatalogKeeps ==
  ASSUME SendsInv, EditCatalog
  PROVE  SendsInv'
<1>1. UNCHANGED <<service, content, snapshot, adapter>> /\ DOMAIN stored = Keys
  BY DEF EditCatalog, SendsInv, Domains
<1>2. Domains' /\ CatalogOK'
  <2>1. PICK k \in Keys : \/ UNCHANGED stored
                          \/ \E d : /\ stored' = [stored EXCEPT ![k] = d]
                                    /\ d.active => d.alias \in Aliases
    <3>1. PICK e \in Editors, k \in Keys :
            \/ \E a \in Aliases : Catalog!Create(e, k, a)
            \/ \E revision \in 1..(MaxRevision - 1) :
                 (\E a \in Aliases : Catalog!Replace(e, k, a, revision))
                 \/ Catalog!Deactivate(e, k, revision)
      BY DEF EditCatalog, Catalog!Next
    <3>2. ASSUME NEW a \in Aliases, NEW n, NEW schema,
                 stored' = [stored EXCEPT ![k] =
                   [revision |-> n, alias |-> a, schema |-> schema, active |-> TRUE]]
          PROVE  \E d : stored' = [stored EXCEPT ![k] = d] /\ (d.active => d.alias \in Aliases)
      <4> DEFINE new == [revision |-> n, alias |-> a, schema |-> schema, active |-> TRUE]
      <4>1. new.alias \in Aliases /\ stored' = [stored EXCEPT ![k] = new]
        BY <3>2
      <4> HIDE DEF new
      <4> QED
        BY <4>1, Zenon
    <3>3. ASSUME stored' = [stored EXCEPT ![k] = Catalog!Deactivated(stored[k])]
          PROVE  \E d : stored' = [stored EXCEPT ![k] = d] /\ (d.active => d.alias \in Aliases)
      <4> DEFINE new == Catalog!Deactivated(stored[k])
      <4>1. (new.active => new.alias \in Aliases)
        BY DEF Catalog!Deactivated, SendsInv, CatalogOK
      <4> HIDE DEF new
      <4> QED
        BY <3>3, <4>1, Zenon DEF new
    <3>4. CASE \E a \in Aliases : Catalog!Create(e, k, a)
      BY <3>2, <3>4 DEF Catalog!Create, Catalog!Fails
    <3>5. CASE \E revision \in 1..(MaxRevision - 1) :
                 \E a \in Aliases : Catalog!Replace(e, k, a, revision)
      BY <3>2, <3>5 DEF Catalog!Replace, Catalog!Fails
    <3>6. CASE \E revision \in 1..(MaxRevision - 1) : Catalog!Deactivate(e, k, revision)
      BY <3>3, <3>6 DEF Catalog!Deactivate, Catalog!Fails
    <3> QED
      BY <3>1, <3>4, <3>5, <3>6
  <2> QED
    BY <1>1, <2>1 DEF SendsInv, Domains, CatalogOK
<1>3. IInv'
  BY <1>1, StutterStep DEF SendsInv, vars
<1>4. \A d \in Callers : CallAsks(d)'
  BY <1>1, AsksLasts DEF SendsInv, Lasting, Stored
<1>5. \A i \in Ids : SnapshotOK(i)'
  BY <1>1, SnapshotLasts DEF SendsInv, Lasting, Stored
<1>6. \A i \in Ids : PostOK(i)'
  BY <1>1, QuietPosts
<1> QED
  BY <1>2, <1>3, <1>4, <1>5, <1>6 DEF SendsInv

LEMMA InitSends ==
  ASSUME SendsInit
  PROVE  SendsInv
<1>1. IInv
  BY InitIInv DEF SendsInit
<1>2. /\ \A c \in Callers : call[c] = NoCall
      /\ \A i \in Ids : docs[i] = Absent
      /\ delivered = {} /\ posting = {} /\ post = [i \in Ids |-> NoPost]
  BY DEF SendsInit, Init, IntentsInit, ServiceInit
<1>3. NoCall.pc = "idle" /\ NoCall.reply.kind = "none" /\ Absent.state = "absent"
  BY DEF NoCall, NoReply, Absent
<1>4. \A c \in Callers : CallAsks(c)
  BY <1>2, <1>3 DEF CallAsks, Bound, Completing
<1>5. \A i \in Ids : SnapshotOK(i)
  BY <1>2, <1>3 DEF SnapshotOK, Stored
<1>6. NoPost.times = 0 /\ NoPost.fate = "none" /\ ~NoPost.retriable /\ IsPost(NoPost)
  BY DEF NoPost, IsPost
<1>7. ASSUME NEW i \in Ids
      PROVE  PostOK(i)
  <2>1. post[i] = NoPost /\ docs[i].state = "absent" /\ i \notin delivered
    BY <1>2, <1>3
  <2>2. ~post[i].retriable
    BY <1>6, <2>1, Zenon
  <2>3. post[i].times = 0 /\ post[i].fate = "none" /\ IsPost(post[i])
    BY <1>6, <2>1
  <2> QED
    BY <2>1, <2>2, <2>3, Zenon DEF PostOK, Fates
<1>8. Domains /\ CatalogOK
  BY DEF SendsInit, Domains, CatalogOK, Catalog!Init, Catalog!Nothing
<1> QED
  BY <1>1, <1>4, <1>5, <1>7, <1>8 DEF SendsInv

LEMMA NextSends ==
  ASSUME SendsInv, [SendsNext]_sendsVars
  PROVE  SendsInv'
<1>1. CASE SendsNext
  <2>1. ASSUME NEW c \in Callers,
               \/ \E k \in Keys, provided \in Supplied : CallTemplate(c, k, provided)
               \/ ServiceStep(c) \/ Post(c) \/ PostEnds(c) \/ CrashCall(c)
        PROVE  SendsInv'
    BY <2>1, CallTemplateKeeps, ServiceKeeps, PostKeeps, EndKeeps, CrashKeeps
  <2>2. ASSUME NEW i \in Ids, MetaDecides(i, "taken") \/ MetaDecides(i, "refused")
        PROVE  SendsInv'
    BY <2>2, DecisionKeeps
  <2>3. ASSUME NEW j \in Recoverers, Recovers(j)
        PROVE  SendsInv'
    BY <2>3, RecoveryKeeps
  <2>4. CASE EditCatalog
    BY <2>4, CatalogKeeps
  <2>5. CASE ConsentChanges
    BY <2>5, ConsentKeeps
  <2>6. CASE Webhook
    BY <2>6, QuietKeeps DEF Webhook
  <2> QED
    BY <1>1, <2>1, <2>2, <2>3, <2>4, <2>5, <2>6 DEF SendsNext
<1>2. CASE UNCHANGED sendsVars
  BY <1>2, QuietKeeps DEF sendsVars
<1> QED
  BY <1>1, <1>2

(* Whatever crashes, is edited, answered late or never: calls, documents,  *)
(* snapshots and what Meta was sent stay about the same request.           *)
THEOREM SendsInvariance == SendsSpec => []SendsInv
<1>1. SendsInit => SendsInv
  BY InitSends
<1>2. SendsInv /\ [SendsNext]_sendsVars => SendsInv'
  BY NextSends
<1> QED
  BY <1>1, <1>2, PTL DEF SendsSpec

-----------------------------------------------------------------------------
(* The service inside: what MessagingService says of any provider that     *)
(* tells the truth holds of Meta behind its adapter.                       *)

LEMMA NextIsService ==
  ASSUME SendsInv, [SendsNext]_sendsVars
  PROVE  [Next]_vars
<1>1. ASSUME NEW c \in Callers, NEW k \in Keys, NEW provided \in Supplied,
             CallTemplate(c, k, provided)
      PROVE  [Next]_vars
  <2> DEFINE got == Catalog!Get(k)
  <2>1. CASE UNCHANGED service
    BY <2>1 DEF vars
  <2>2. CASE /\ <<got, provided>> \in Buildable
             /\ Start(c, RequestOf(k, MessageOf(got, provided)))
    <3>1. RequestOf(k, MessageOf(got, provided)) \in Requests
      BY <2>2, BuiltIsAsked
    <3> QED
      BY <2>2, <3>1, Zenon DEF Next
  <2> QED
    BY <1>1, <2>1, <2>2 DEF CallTemplate
<1>2. ASSUME NEW c \in Callers, ServiceStep(c)
      PROVE  [Next]_vars
  BY <1>2, Zenon DEF ServiceStep, Next
<1>3. ASSUME NEW c \in Callers, PostEnds(c)
      PROVE  [Next]_vars
  BY <1>3, EndIsDispatch, Zenon DEF CallStep, Next
<1>4. ASSUME NEW c \in Callers, CrashCall(c)
      PROVE  [Next]_vars
  BY <1>4, Zenon DEF CrashCall, Next
<1>5. ASSUME NEW j \in Recoverers, Recovers(j)
      PROVE  [Next]_vars
  BY <1>5, Zenon DEF Recovers, Next
<1>6. CASE ConsentChanges
  BY <1>6, Zenon DEF ConsentChanges, Next
<1>7. CASE UNCHANGED service
  BY <1>7 DEF vars
<1>8. ASSUME NEW c \in Callers, Post(c)
      PROVE  UNCHANGED service
  BY <1>8 DEF Post
<1>9. ASSUME NEW i \in Ids, MetaDecides(i, "taken") \/ MetaDecides(i, "refused")
      PROVE  UNCHANGED service
  BY <1>9 DEF MetaDecides
<1>10. CASE EditCatalog
  BY <1>7, <1>10 DEF EditCatalog
<1>11. CASE Webhook
  BY <1>7, <1>11 DEF Webhook
<1>12. CASE UNCHANGED sendsVars
  BY <1>7, <1>12 DEF sendsVars
<1> QED
  BY <1>1, <1>2, <1>3, <1>4, <1>5, <1>6, <1>7, <1>8, <1>9, <1>10, <1>11, <1>12 DEF SendsNext

(* send_template over the catalog, the message, the Meta adapter and Meta  *)
(* is the service of MessagingService: every step is one of its steps, or  *)
(* none, and the adapter's answers are those of a provider that tells the  *)
(* truth, which is what MessagingService assumes of it.                    *)
THEOREM ServiceImplemented == SendsSpec => ImplementsService
<1>1. SendsInit => Init
  BY DEF SendsInit
<1>2. SendsInv /\ [SendsNext]_sendsVars => [Next]_vars
  BY NextIsService
<1> QED
  BY <1>1, <1>2, SendsInvariance, PTL DEF SendsSpec, ImplementsService, Spec

(* So all that is proved of the service is true of it with Meta behind:    *)
(* replies tell whether Meta was reached, nothing is sent that consent     *)
(* did not allow, and a result a caller has got remains the one on record; *)
(* outcomes are final, and a pending sensitive intent is out of reach once *)
(* its creator is gone (without the index: its creators, as said there).   *)
THEOREM PromisesKept ==
  SendsSpec => /\ []RepliesAreHonest /\ []PolicyRespected /\ []ResultsAreDurable
               /\ []NoStateError /\ OutcomesAreFinal /\ SensitiveFailsClosed
<1> QED
  BY ServiceImplemented, HonestReplies, PoliciesRespected, DurableResults, IntentsDoNotDisappear,
     OutcomesFinal, SensitiveStaysClosed, PTL DEF ImplementsService

(* And with the unique index, each idempotency key is an entry of the      *)
(* ledger that the port describes, whatever editors, Meta and its webhooks *)
(* do meanwhile.                                                           *)
THEOREM LedgerKept ==
  ASSUME UniqueScope
  PROVE  SendsSpec => ImplementsLedger
<1> QED
  BY ServiceImplemented, LedgerImplemented, PTL DEF ImplementsService

-----------------------------------------------------------------------------
(* The catalog inside, which is the one TemplateCatalog describes and so   *)
(* has its promises, and the types.                                        *)

Editing == INSTANCE TemplateCatalogProofs WITH Faults <- {}

(* The features of an alias, as MessageRequests has it, are those that     *)
(* TemplateCatalog assumes: a button has a sensitive text.                 *)
LEMMA CatalogIsAsAssumed == Editing!CatalogAssumption
<1>1. FeaturesOf \in [Aliases -> SUBSET Editing!Features]
  BY DEF FeaturesOf, Editing!Features
<1>2. ASSUME NEW a \in Aliases, "button" \in FeaturesOf[a]
      PROVE  "sensitive" \in FeaturesOf[a]
  <2>1. PICK n \in DOMAIN TemplateOf[a].components : TemplateOf[a].components[n].type = "button"
    BY <1>2 DEF FeaturesOf
  <2>2. TemplateOf[a].components \in Seq(ComponentSpec)
    BY SendsAssumption DEF TemplateAlias
  <2>3. PICK c : c = TemplateOf[a].components[n] /\ c \in ComponentSpec /\ c.type = "button"
    BY <2>1, <2>2
  <2>4. 1 \in DOMAIN c.kinds /\ c.kinds[1] = "sensitive_text"
    BY <2>3 DEF ComponentSpec
  <2>5. "sensitive_text" \in {c.kinds[k] : k \in DOMAIN c.kinds}
    BY <2>4
  <2>6. "sensitive_text" \in KindsIn(a)
    BY <2>1, <2>3, <2>5 DEF KindsIn
  <2> QED
    BY <2>6 DEF FeaturesOf
<1> QED
  BY <1>1, <1>2, SendsAssumption DEF Editing!CatalogAssumption

LEMMA CatalogIsEdited ==
  /\ Catalog!Init => Editing!Init
  /\ Catalog!Next => Editing!Next
  /\ Editing!TypeOK => Catalog!TypeOK
  /\ Editing!RevisionsAreOwned => Catalog!RevisionsAreOwned
  /\ Editing!SupportedIsRead => Catalog!SupportedIsRead
<1>1. Catalog!Init => Editing!Init
  BY DEF Catalog!Init, Editing!Init, Catalog!Nothing, Editing!Nothing
<1>2. Catalog!Next => Editing!Next
  BY Zenon
  DEF Catalog!Next, Catalog!Create, Catalog!Replace, Catalog!Deactivate, Catalog!Fails,
      Catalog!Ends, Catalog!IsRevision, Catalog!Updated, Catalog!Readable, Catalog!SchemaOf,
      Catalog!Deactivates, Catalog!Deactivated,
      Editing!Next, Editing!Create, Editing!Replace, Editing!Deactivate, Editing!Fails,
      Editing!Ends, Editing!IsRevision, Editing!Updated, Editing!Readable, Editing!SchemaOf,
      Editing!Deactivates, Editing!Deactivated
<1>3. Editing!TypeOK => Catalog!TypeOK
  BY DEF Catalog!TypeOK, Catalog!Document, Catalog!Ended, Catalog!Outcomes,
         Editing!TypeOK, Editing!Document, Editing!Ended, Editing!Outcomes
<1>4. Editing!RevisionsAreOwned => Catalog!RevisionsAreOwned
  BY DEF Catalog!RevisionsAreOwned, Catalog!Won, Editing!RevisionsAreOwned, Editing!Won
<1>5. Editing!SupportedIsRead => Catalog!SupportedIsRead
  BY Zenon
  DEF Catalog!SupportedIsRead, Catalog!Won, Catalog!SavedIsRead, Catalog!Supported, Catalog!Get,
      Catalog!Readable, Catalog!None, Catalog!RecordError,
      Editing!SupportedIsRead, Editing!Won, Editing!SavedIsRead, Editing!Supported, Editing!Get,
      Editing!Readable, Editing!None, Editing!RecordError
<1> QED
  BY <1>1, <1>2, <1>3, <1>4, <1>5

(* While calls read the catalog it keeps its word to editors: no revision  *)
(* is given to two of them, and what was saved last, of the shapes it can  *)
(* read back, is what send_template gets.                                  *)
THEOREM CatalogKept ==
  SendsSpec => [](Catalog!TypeOK /\ Catalog!RevisionsAreOwned /\ Catalog!SupportedIsRead)
<1>1. SendsInit => Editing!Init
  BY CatalogIsEdited DEF SendsInit
<1>2. [SendsNext]_sendsVars => [Editing!Next]_(Editing!vars)
  <2>1. EditCatalog => Editing!Next
    BY CatalogIsEdited DEF EditCatalog
  <2>2. CASE UNCHANGED catalog
    BY <2>2 DEF Editing!vars
  <2>3. ASSUME NEW c \in Callers,
               \/ \E k \in Keys, provided \in Supplied : CallTemplate(c, k, provided)
               \/ ServiceStep(c) \/ Post(c) \/ PostEnds(c) \/ CrashCall(c)
        PROVE  UNCHANGED catalog
    BY <2>3 DEF CallTemplate, ServiceStep, Post, PostEnds, CrashCall
  <2>4. ASSUME NEW i \in Ids, MetaDecides(i, "taken") \/ MetaDecides(i, "refused")
        PROVE  UNCHANGED catalog
    BY <2>4 DEF MetaDecides
  <2>5. ASSUME NEW j \in Recoverers, Recovers(j)
        PROVE  UNCHANGED catalog
    BY <2>5 DEF Recovers
  <2>6. CASE ConsentChanges \/ Webhook \/ UNCHANGED sendsVars
    BY <2>6 DEF ConsentChanges, Webhook, sendsVars, Editing!vars
  <2> QED
    BY <2>1, <2>2, <2>3, <2>4, <2>5, <2>6 DEF SendsNext
<1>3. SendsSpec => Editing!Spec
  BY <1>1, <1>2, PTL DEF SendsSpec, Editing!Spec
<1>4. Editing!Spec => [](Editing!TypeOK) /\ [](Editing!RevisionsAreOwned)
                      /\ [](Editing!SupportedIsRead)
  <2>1. Editing!Spec => [](Editing!TypeOK)
    BY CatalogIsAsAssumed, Editing!CatalogTypeCorrect, Zenon DEF Editing!CatalogAssumption
  <2>2. Editing!Spec => [](Editing!RevisionsAreOwned)
    BY CatalogIsAsAssumed, Editing!OwnersAreUnique, Zenon DEF Editing!CatalogAssumption
  <2>3. Editing!Spec => [](Editing!SupportedIsRead)
    BY CatalogIsAsAssumed, Editing!SupportedAreRead, Zenon DEF Editing!CatalogAssumption
  <2> QED
    BY <2>1, <2>2, <2>3
<1> QED
  BY <1>3, <1>4, CatalogIsEdited, PTL

\* What the types need of what was before.
Typed ==
  /\ refused \in [Callers -> {"none"} \cup LookupErrors]
  /\ content \in [Callers -> BuiltMessage \cup {NoMessage}]
  /\ \A i \in Ids : ~Stored(i) => snapshot[i] = NoSnapshot
  /\ \A i \in Ids : post[i].retriable \in BOOLEAN
  /\ posting \subseteq Callers

(* Every answer of the adapter is a SendResult: no status and no body are  *)
(* without one.                                                            *)
LEMMA AdapterAnswers ==
  ASSUME NEW o \in Meta!Outcomes
  PROVE  Meta!Classify(o) \in Meta!SendResult
<1>1. /\ Meta!Category(o.status) \in {"validation", "authentication", "authorization",
           "rate_limit", "provider_temporary", "provider_permanent", "protocol"}
      /\ Meta!Retriable(o.status) \in BOOLEAN
  BY DEF Meta!Category, Meta!Retriable
<1>2. o \in Meta!Failures => o.status \in {"timeout", "network"}
  BY DEF Meta!Failures
<1> HIDE DEF Meta!Retriable, Meta!Category, Meta!Failures, Meta!Outcomes
<1> QED
  BY <1>1, <1>2
  DEF Meta!SendResult, Meta!Classify, Meta!FailureResult, Meta!SuccessResult,
      Meta!RejectionResult, Meta!Raises, Meta!Unknown, Meta!Accepted, Meta!Rejected

LEMMA SerializedType ==
  ASSUME NEW m \in BuiltMessage, NEW schema
  PROVE  /\ SerializeAs(schema, m).schema = schema
         /\ SerializeAs(schema, m).message.type = "template"
<1>1. m = [type |-> "template", template |-> m.template, components |-> m.components]
  BY Parts
<1>2. \A x : [m EXCEPT !.components = x].type = "template"
  BY <1>1
<1>3. CASE schema = 3
  <2>1. SerializeAs(schema, m) = [schema |-> 3, message |-> Map(Redacted, m)]
        /\ Map(Redacted, m).type = "template"
    BY <1>3, SnapshotOf DEF SerializeAs
  <2>2. PICK s : s = Map(Redacted, m)
    OBVIOUS
  <2>3. SerializeAs(schema, m) = [schema |-> 3, message |-> s] /\ s.type = "template"
    BY <2>1, <2>2, Zenon
  <2> QED
    BY <1>3, <2>3
<1>4. CASE schema # 3
  BY <1>1, <1>2, <1>4 DEF SerializeAs
<1> QED
  BY <1>3, <1>4

LEMMA TypedKeeps ==
  ASSUME SendsInv, Typed, [SendsNext]_sendsVars
  PROVE  Typed'
<1> USE DEF Typed
<1>1. ASSUME NEW i \in Ids, docs'[i].state = "absent"
      PROVE  ~Stored(i)
  <2>1. IntentStep(i)
    BY NextIsService, NextIsForward DEF SendsInv
  <2>2. docs[i].state \in States
    BY DEF SendsInv, IInv, TypeOK, IntentsTypeOK, Doc
  <2> QED
    BY <1>1, <2>1, <2>2 DEF IntentStep, Stored, States, Terminal
<1>2. CASE UNCHANGED <<refused, content, snapshot, post, posting>>
  BY <1>1, <1>2 DEF Stored
<1>3. ASSUME NEW c \in Callers, NEW k \in Keys, NEW provided \in Supplied,
             CallTemplate(c, k, provided)
      PROVE  Typed'
  <2> DEFINE got == Catalog!Get(k)
  <2>1. UNCHANGED <<snapshot, post, posting>>
    BY <1>3 DEF CallTemplate
  <2>2. refused' \in [Callers -> {"none"} \cup LookupErrors]
    BY <1>3, RefusalType DEF CallTemplate, SendsInv
  <2>3. content' \in [Callers -> BuiltMessage \cup {NoMessage}]
    <3>1. CASE UNCHANGED content
      BY <3>1
    <3>2. CASE /\ <<got, provided>> \in Buildable
               /\ content' = [content EXCEPT ![c] = MessageOf(got, provided)]
      <4>1. MessageOf(got, provided) \in BuiltMessage
        BY <3>2, BuiltIsAsked DEF Asked
      <4> QED
        BY <3>2, <4>1
    <3> QED
      BY <1>3, <3>1, <3>2 DEF CallTemplate
  <2> QED
    BY <1>1, <2>1, <2>2, <2>3 DEF Stored
<1>4. ASSUME NEW c \in Callers, ServiceStep(c)
      PROVE  Typed'
  <2>1. PICK s : snapshot' = [i \in Ids |-> IF ~Stored(i) /\ docs'[i].state # "absent"
                                            THEN s ELSE snapshot[i]]
    BY <1>4 DEF ServiceStep
  <2>2. UNCHANGED <<refused, content, post, posting>>
    BY <1>4 DEF ServiceStep
  <2> QED
    BY <1>1, <2>1, <2>2 DEF Stored
<1> DEFINE Rest == /\ posting' \subseteq Callers
                    /\ UNCHANGED <<refused, content, snapshot>>
<1>5. \A i \in Ids : \A x :
        x.retriable \in BOOLEAN /\ post' = [post EXCEPT ![i] = x] /\ Rest => Typed'
  BY <1>1 DEF Stored, SendsInv, Domains
<1> HIDE DEF Typed, Rest
<1>6. ASSUME NEW c \in Callers, Post(c)
      PROVE  Typed'
  <2>1. call[c].id \in Ids
    BY <1>6, CallType DEF SendsInv, CallOK, Post, At, Bound
  <2>2. PICK n, p : post' = [post EXCEPT ![call[c].id] =
          [times |-> n, fate |-> "underway", payload |-> p, retriable |-> FALSE]]
    BY <1>6, Zenon DEF Post
  <2>3. PICK x : x = [times |-> n, fate |-> "underway", payload |-> p, retriable |-> FALSE]
    OBVIOUS
  <2>4. x.retriable \in BOOLEAN /\ post' = [post EXCEPT ![call[c].id] = x]
    BY <2>2, <2>3
  <2>5. Rest
    BY <1>6 DEF Post, Typed, Rest
  <2> QED
    BY <1>5, <2>1, <2>4, <2>5, Zenon
<1>7. ASSUME NEW i \in Ids, NEW fate, MetaDecides(i, fate)
      PROVE  Typed'
  <2>1. PICK t, f, q, b : post[i] = [times |-> t, fate |-> f, payload |-> q, retriable |-> b]
    BY DEF SendsInv, PostOK, IsPost
  <2>2. PICK x : x = [post[i] EXCEPT !.fate = fate]
    OBVIOUS
  <2>3. x.retriable = post[i].retriable
    BY <2>1, <2>2
  <2>4. x.retriable \in BOOLEAN
    BY <2>3, Zenon DEF Typed
  <2>5. post' = [post EXCEPT ![i] = x]
    BY <1>7, <2>2 DEF MetaDecides
  <2>6. Rest
    BY <1>7 DEF MetaDecides, Typed, Rest
  <2> QED
    BY <1>5, <2>4, <2>5, <2>6, Zenon
<1>8. ASSUME NEW c \in Callers, PostEnds(c)
      PROVE  Typed'
  <2>1. PICK i \in Ids : i = call[c].id
    BY <1>8, CallType DEF SendsInv, CallAsks, PostEnds, CallOK, Bound
  <2>2. PICK o \in Meta!MayEnd(post[i].fate) :
          post' = [post EXCEPT ![i].retriable = Meta!Classify(o).retriable]
    BY <1>8, <2>1, Zenon DEF PostEnds
  <2>3. Meta!Classify(o) \in Meta!SendResult
    BY AdapterAnswers DEF Meta!MayEnd
  <2>4. Meta!Classify(o).retriable \in BOOLEAN
    BY <2>3 DEF Meta!SendResult
  <2>5. PICK b : b = Meta!Classify(o).retriable
    OBVIOUS
  <2>6. PICK t, f, q, a : post[i] = [times |-> t, fate |-> f, payload |-> q, retriable |-> a]
    BY DEF SendsInv, PostOK, IsPost
  <2>7. PICK x : x = [post[i] EXCEPT !.retriable = b]
    OBVIOUS
  <2>8. x.retriable = b /\ post' = [post EXCEPT ![i] = x]
    BY <2>2, <2>5, <2>6, <2>7
  <2>9. Rest
    BY <1>8 DEF PostEnds, Typed, Rest
  <2> QED
    BY <1>5, <2>1, <2>4, <2>5, <2>8, <2>9, Zenon
<1>9. ASSUME NEW c \in Callers, CrashCall(c)
      PROVE  Typed'
  <2>1. posting' \subseteq Callers /\ UNCHANGED <<docs, refused, content, snapshot, post>>
    BY <1>9 DEF CrashCall, Crash, Typed
  <2> QED
    BY <2>1 DEF Typed, Stored
<1>10. ASSUME NEW j \in Recoverers, Recovers(j)
       PROVE  Typed'
  BY <1>2, <1>10 DEF Recovers
<1>11. CASE EditCatalog \/ ConsentChanges \/ Webhook \/ UNCHANGED sendsVars
  BY <1>2, <1>11 DEF EditCatalog, ConsentChanges, Webhook, sendsVars
<1> QED
  BY <1>3, <1>4, <1>6, <1>7, <1>8, <1>9, <1>10, <1>11 DEF SendsNext

(* Every variable keeps its type: whatever is stored, posted or refused is *)
(* one of the forms the code gives it.                                     *)
THEOREM SendsTypeCorrect == SendsSpec => []SendsTypeOK
<1>1. SendsInit => Typed
  <2>1. NoPost.retriable \in BOOLEAN
    BY DEF NoPost
  <2> QED
    BY <2>1, Zenon DEF SendsInit, Typed
<1>2. SendsSpec => []Typed
  BY <1>1, TypedKeeps, SendsInvariance, PTL DEF SendsSpec
<1>3. SendsInv /\ Typed /\ Catalog!TypeOK => SendsTypeOK
  <2> SUFFICES ASSUME SendsInv, Typed, Catalog!TypeOK PROVE SendsTypeOK
    OBVIOUS
  <2>1. TypeOK
    BY DEF SendsInv, IInv
  <2>2. content \in [Callers -> Message \cup {NoMessage}]
    BY DEF Typed, BuiltMessage, Message
  <2>3. ASSUME NEW i \in Ids, snapshot[i] # NoSnapshot
        PROVE  snapshot[i].schema \in Schemas /\ snapshot[i].message.type = "template"
    <3>1. PICK schema \in Schemas : \E m \in BuiltMessage : snapshot[i] = SerializeAs(schema, m)
      BY <2>3 DEF Typed, SendsInv, SnapshotOK, Asked
    <3> QED
      BY <3>1, SerializedType
  <2>4. ASSUME NEW i \in Ids
        PROVE  /\ post[i].times \in 0..2
               /\ post[i].fate \in {"none", "underway", "taken", "refused"}
               /\ post[i].payload.type \in {"none", "template"}
               /\ post[i].retriable \in BOOLEAN
    <3>1. PostOK(i)
      BY DEF SendsInv
    <3>2. CASE post[i] = NoPost
      BY <3>1, <3>2 DEF NoPost, NoPayload, PostOK, Fates, Typed
    <3>3. CASE post[i] # NoPost
      <4>1. PICK m \in BuiltMessage : post[i].payload = Payload(m)
        BY <3>1, <3>3 DEF PostOK, Asked
      <4>2. Payload(m).type = "template"
        BY PayloadOf
      <4> QED
        BY <3>1, <4>1, <4>2 DEF PostOK, Fates, Typed
    <3> QED
      BY <3>2, <3>3
  <2> QED
    BY <2>1, <2>2, <2>3, <2>4 DEF SendsTypeOK, Typed
<1> QED
  BY <1>2, <1>3, SendsInvariance, CatalogKept, PTL

-----------------------------------------------------------------------------
(* Induction over the natural numbers, for a set of them.                  *)

LEMMA Minimal ==
  ASSUME NEW S, NEW R, IsWellFoundedOn(R, S), \A x, y \in S : x < y => <<x, y>> \in R,
         NEW T, T \subseteq S, T # {}
  PROVE  \E x \in T : \A y \in T : ~(y < x)
<1>1. \E x \in T : \A y \in T : ~(<<y, x>> \in R)
  BY WFMin
<1> QED
  BY <1>1, Zenon

LEMMA LeastElement ==
  ASSUME NEW T, T \subseteq Nat, T # {}
  PROVE  \E x \in T : \A y \in T : x <= y
<1>1. \E R : IsWellFoundedOn(R, Nat) /\ \A x, y \in Nat : x < y => <<x, y>> \in R
  <2>1. IsWellFoundedOn(OpToRel(<, Nat), Nat)
    BY NatLessThanWellFounded
  <2>2. \A x, y \in Nat : x < y => <<x, y>> \in OpToRel(<, Nat)
    BY DEF OpToRel
  <2> QED
    BY <2>1, <2>2, Zenon
<1>2. \E x \in T : \A y \in T : ~(y < x)
  BY <1>1, Minimal, Zenon
<1> QED
  BY <1>2

LEMMA NatsBySet ==
  ASSUME NEW S, 0 \in S, \A n \in Nat : n \in S => n + 1 \in S
  PROVE  Nat \subseteq S
<1> SUFFICES ASSUME Nat \ S # {} PROVE FALSE
  OBVIOUS
<1>0. PICK T : T = Nat \ S
  OBVIOUS
<1>1. PICK x \in T : \A y \in T : x <= y
  BY <1>0, LeastElement
<1>2. x # 0 /\ x - 1 \in Nat
  BY <1>1, <1>0
<1>3. x - 1 \in S
  BY <1>0, <1>1, <1>2
<1>4. (x - 1) + 1 \in S
  BY <1>2, <1>3
<1> QED
  BY <1>0, <1>1, <1>4

-----------------------------------------------------------------------------
(* What a webhook body says.                                               *)

\* f joins the first n of the sequences in B, for every n up to N.
Join(s, t) == s \o t
Joins(f, N, B) == f = [n \in 0..N |-> IF n = 0 THEN <<>> ELSE Join(f[n - 1], B[n])]

LEMMA JoinsExtend ==
  ASSUME NEW B, NEW N \in Nat, NEW f, Joins(f, N, B)
  PROVE  \E g : Joins(g, N + 1, B)
<1>1. PICK g : g = [n \in 0..(N + 1) |-> IF n = N + 1 THEN Join(f[N], B[N + 1]) ELSE f[n]]
  OBVIOUS
<1>2. /\ g = [n \in 0..(N + 1) |-> g[n]] /\ g[N + 1] = Join(f[N], B[N + 1])
      /\ \A n \in 0..N : g[n] = f[n]
  BY <1>1
<1>3. f[0] = <<>> /\ \A n \in 1..N : f[n] = Join(f[n - 1], B[n])
  BY DEF Joins
<1>4. ASSUME NEW n \in 0..(N + 1)
      PROVE  g[n] = IF n = 0 THEN <<>> ELSE Join(g[n - 1], B[n])
  <2>1. CASE n = 0
    BY <1>2, <1>3, <2>1
  <2>2. CASE n \in 1..N
    <3>1. n # 0 /\ n - 1 \in 0..N /\ n \in 0..N
      BY <2>2
    <3>2. g[n] = f[n] /\ g[n - 1] = f[n - 1] /\ f[n] = Join(f[n - 1], B[n])
      BY <1>2, <1>3, <2>2, <3>1
    <3> QED
      BY <3>1, <3>2, Zenon
  <2>3. CASE n = N + 1
    <3>1. n # 0 /\ n - 1 = N /\ N \in 0..N
      BY <2>3
    <3>2. g[n] = Join(f[N], B[n]) /\ g[n - 1] = f[N]
      BY <1>2, <2>3, <3>1, Zenon
    <3> QED
      BY <3>1, <3>2, Zenon
  <2> QED
    BY <2>1, <2>2, <2>3
<1>5. PICK h : h = [n \in 0..(N + 1) |-> IF n = 0 THEN <<>> ELSE Join(g[n - 1], B[n])]
  OBVIOUS
<1>6. \A n \in 0..(N + 1) : h[n] = g[n]
  BY <1>4, <1>5, Zenon
<1>7. h = g
  BY <1>2, <1>5, <1>6
<1> QED
  BY <1>5, <1>7, Zenon DEF Joins

(* The recursion of Collected has a solution, of every length.             *)
LEMMA JoinsExist ==
  ASSUME NEW B, NEW N \in Nat
  PROVE  \E f : Joins(f, N, B)
<1> DEFINE S == {n \in Nat : \E f : Joins(f, n, B)}
<1>1. 0 \in S
  <2>1. Joins([n \in 0..0 |-> <<>>], 0, B)
    BY DEF Joins
  <2> QED
    BY <2>1
<1>2. \A n \in Nat : n \in S => n + 1 \in S
  BY JoinsExtend
<1> HIDE DEF S
<1>3. Nat \subseteq S
  BY <1>1, <1>2, NatsBySet
<1> QED
  BY <1>3 DEF S

(* So what Collected is about satisfies its own definition.                *)
LEMMA CollectedJoins ==
  ASSUME NEW changes, Len(changes) \in Nat
  PROVE  \E f : /\ Hook!Collected(changes) = f[Len(changes)]
                /\ f[0] = <<>>
                /\ \A n \in 1..Len(changes) : f[n] = f[n - 1] \o Hook!StatusesOf(changes[n])
<1> DEFINE N == Len(changes)
           B == [n \in 1..N |-> Hook!StatusesOf(changes[n])]
           Is(f) == f = [n \in 0..N |-> IF n = 0 THEN <<>>
                                        ELSE f[n - 1] \o Hook!StatusesOf(changes[n])]
<1>1. ASSUME NEW f
      PROVE  Joins(f, N, B) <=> Is(f)
  <2>1. \A n \in 0..N : n # 0 => B[n] = Hook!StatusesOf(changes[n])
    OBVIOUS
  <2> HIDE DEF B
  <2>2. ASSUME NEW n \in 0..N
        PROVE  (IF n = 0 THEN <<>> ELSE Join(f[n - 1], B[n]))
               = IF n = 0 THEN <<>> ELSE f[n - 1] \o Hook!StatusesOf(changes[n])
    BY <2>1, Zenon DEF Join
  <2>3. [n \in 0..N |-> IF n = 0 THEN <<>> ELSE Join(f[n - 1], B[n])]
        = [n \in 0..N |-> IF n = 0 THEN <<>> ELSE f[n - 1] \o Hook!StatusesOf(changes[n])]
    BY <2>2, Zenon
  <2> QED
    BY <2>3, Zenon DEF Joins
<1>2. PICK f : f = CHOOSE g : Is(g)
  OBVIOUS
<1>3. Is(f)
  BY <1>1, <1>2, JoinsExist, Zenon
<1>4. Hook!Collected(changes) = f[N]
  BY <1>2 DEF Hook!Collected
<1>5. ASSUME NEW n \in 0..N
      PROVE  f[n] = IF n = 0 THEN <<>> ELSE f[n - 1] \o Hook!StatusesOf(changes[n])
  BY <1>3, Zenon
<1>6. 0 \in 0..N /\ \A n \in 1..N : n \in 0..N /\ n # 0
  OBVIOUS
<1> QED
  BY <1>4, <1>5, <1>6, Zenon

(* What is joined is what the parts hold: no more, no less.                *)
PartsUpTo(B, n) == UNION {Range(B[m]) : m \in 1..n}

LEMMA PartsNext ==
  ASSUME NEW B, NEW n \in Nat
  PROVE  PartsUpTo(B, 0) = {} /\ PartsUpTo(B, n + 1) = PartsUpTo(B, n) \cup Range(B[n + 1])
<1>1. 1..0 = {} /\ 1..(n + 1) = (1..n) \cup {n + 1}
  OBVIOUS
<1>2. ASSUME NEW x
      PROVE  x \in PartsUpTo(B, n + 1) <=> x \in PartsUpTo(B, n) \/ x \in Range(B[n + 1])
  <2>1. x \in PartsUpTo(B, n + 1) <=> \E m \in 1..(n + 1) : x \in Range(B[m])
    BY DEF PartsUpTo
  <2>2. x \in PartsUpTo(B, n) <=> \E m \in 1..n : x \in Range(B[m])
    BY DEF PartsUpTo
  <2> QED
    BY <1>1, <2>1, <2>2
<1>3. PartsUpTo(B, 0) = {}
  BY <1>1 DEF PartsUpTo
<1> QED
  BY <1>2, <1>3

JoinedFrom(f, B, N, T) ==
  f[0] = <<>> /\ \A n \in 1..N : B[n] \in Seq(T) /\ f[n] = f[n - 1] \o B[n]

LEMMA JoinedHolds ==
  ASSUME NEW T, NEW N \in Nat, NEW f, NEW B, JoinedFrom(f, B, N, T)
  PROVE  f[N] \in Seq(T) /\ Range(f[N]) = PartsUpTo(B, N)
<1> USE DEF JoinedFrom
<1> DEFINE Holds(n) == f[n] \in Seq(T) /\ Range(f[n]) = PartsUpTo(B, n)
           S == {n \in Nat : n <= N => Holds(n)}
<1>1. 0 \in S
  <2>1. f[0] \in Seq(T) /\ Range(f[0]) = {}
    BY DEF Range
  <2> QED
    BY <2>1, PartsNext
<1>2. ASSUME NEW n \in Nat, n \in S
      PROVE  n + 1 \in S
  <2> SUFFICES ASSUME n + 1 <= N PROVE Holds(n + 1)
    OBVIOUS
  <2>1. n + 1 \in 1..N /\ (n + 1) - 1 = n /\ Holds(n)
    BY <1>2
  <2>2. PICK s, t : s = f[n] /\ t = B[n + 1]
    OBVIOUS
  <2>3. f[n + 1] = s \o t
    BY <2>1, <2>2, Zenon
  <2>4. s \in Seq(T) /\ t \in Seq(T)
    BY <2>1, <2>2, Zenon
  <2>5. s \o t \in Seq(T) /\ Range(s \o t) = Range(s) \cup Range(t)
    BY <2>4, RangeConcatenation
  <2>6. PartsUpTo(B, n + 1) = PartsUpTo(B, n) \cup Range(B[n + 1])
    BY PartsNext
  <2> QED
    BY <2>1, <2>2, <2>3, <2>5, <2>6, Zenon
<1> HIDE DEF S
<1>3. Nat \subseteq S
  BY <1>1, <1>2, NatsBySet
<1> QED
  BY <1>3 DEF S

\* Bodies whose changes are about the fields F and whose statuses are in S.
Bodies(F, S) == [sound : BOOLEAN, changes : Seq([field : F, statuses : Seq(S)])]

\* The statuses of the changes that are about messages.
Told(body) ==
  UNION {Range(body.changes[n].statuses) :
           n \in {m \in DOMAIN body.changes : body.changes[m].field = "messages"}}

LEMMA ToldAreStatuses ==
  ASSUME NEW S, NEW F, NEW body \in Bodies(F, S)
  PROVE  Told(body) \subseteq S
<1>1. PICK C : C = [field : F, statuses : Seq(S)]
  OBVIOUS
<1>2. body.changes \in Seq(C)
  BY <1>1 DEF Bodies
<1>3. ASSUME NEW n \in DOMAIN body.changes
      PROVE  body.changes[n].statuses \in Seq(S)
  <2>1. body.changes[n] \in C
    BY <1>2, SeqFunction
  <2> QED
    BY <1>1, <2>1
<1>4. ASSUME NEW s \in Seq(S)
      PROVE  Range(s) \subseteq S
  BY <1>4, SeqFunction DEF Range
<1> QED
  BY <1>3, <1>4 DEF Told

LEMMA ChangeTells ==
  ASSUME NEW S, NEW F, NEW c \in [field : F, statuses : Seq(S)]
  PROVE  /\ Hook!StatusesOf(c) \in Seq(S)
         /\ Range(Hook!StatusesOf(c)) = IF c.field = "messages" THEN Range(c.statuses) ELSE {}
<1>1. <<>> \in Seq(S) /\ Range(<<>>) = {}
  BY DEF Range
<1>2. c.statuses \in Seq(S)
  OBVIOUS
<1> QED
  BY <1>1, <1>2 DEF Hook!StatusesOf, Hook!Relevant

LEMMA CollectedIsTold ==
  ASSUME NEW S, NEW F, NEW body \in Bodies(F, S)
  PROVE  Range(Hook!Collected(body.changes)) = Told(body)
<1>1. PICK changes : changes = body.changes
  OBVIOUS
<1>2. PICK C : C = [field : F, statuses : Seq(S)]
  OBVIOUS
<1>3. changes \in Seq(C)
  BY <1>1, <1>2 DEF Bodies
<1>4. PICK N \in Nat : /\ N = Len(changes) /\ DOMAIN changes = 1..N
                       /\ \A n \in 1..N : changes[n] \in C
  BY <1>3, SeqFunction
<1>5. PICK f : /\ Hook!Collected(changes) = f[N] /\ f[0] = <<>>
               /\ \A n \in 1..N : f[n] = f[n - 1] \o Hook!StatusesOf(changes[n])
  BY <1>4, CollectedJoins, Zenon
<1>6. PICK B : B = [n \in 1..N |-> Hook!StatusesOf(changes[n])]
  OBVIOUS
<1>7. ASSUME NEW n \in 1..N
      PROVE  /\ B[n] = Hook!StatusesOf(changes[n]) /\ B[n] \in Seq(S)
             /\ Range(B[n]) = IF changes[n].field = "messages" THEN Range(changes[n].statuses) ELSE {}
  BY <1>2, <1>4, <1>6, ChangeTells
<1>8. JoinedFrom(f, B, N, S)
  BY <1>5, <1>7, Zenon DEF JoinedFrom
<1>9. Range(f[N]) = PartsUpTo(B, N)
  BY <1>8, JoinedHolds, Zenon
<1>10. ASSUME NEW x
       PROVE  x \in PartsUpTo(B, N) <=> x \in Told(body)
  <2>1. x \in PartsUpTo(B, N) <=> \E n \in 1..N : x \in Range(B[n])
    BY DEF PartsUpTo
  <2>2. x \in Told(body) <=>
          \E n \in 1..N : changes[n].field = "messages" /\ x \in Range(changes[n].statuses)
    BY <1>1, <1>4 DEF Told
  <2>3. ASSUME NEW n \in 1..N
        PROVE  x \in Range(B[n]) <=>
                 changes[n].field = "messages" /\ x \in Range(changes[n].statuses)
    BY <1>7
  <2> QED
    BY <2>1, <2>2, <2>3, Zenon
<1> QED
  BY <1>1, <1>5, <1>9, <1>10

(* All events of a body or none: those of its statuses about messages, if  *)
(* the signature is right and everything in it is sound.                   *)
THEOREM BodyIsReported ==
  ASSUME NEW S, NEW F, NEW body \in Bodies(F, S), NEW header
  PROVE  EventsOf(header, body) =
           IF header = "right" /\ body.sound /\ \A s \in Told(body) : s.sound
           THEN {Hook!Event(s) : s \in Told(body)} ELSE {}
<1>1. PICK c : c = Hook!Collected(body.changes)
  OBVIOUS
<1>2. Range(c) = Told(body)
  BY <1>1, CollectedIsTold, Zenon
<1>3. \A x : x \in Told(body) <=> \E n \in DOMAIN c : x = c[n]
  BY <1>2 DEF Range
<1>4. CASE ~body.sound \/ \E n \in DOMAIN c : ~c[n].sound
  <2>1. Hook!Parse(body) = Hook!Malformed
    BY <1>1, <1>4 DEF Hook!Parse
  <2>2. EventsOf(header, body) = {}
    BY <2>1 DEF EventsOf, Hook!Malformed
  <2>3. ~(body.sound /\ \A s \in Told(body) : s.sound)
    BY <1>3, <1>4
  <2> QED
    BY <2>2, <2>3
<1>5. CASE body.sound /\ \A n \in DOMAIN c : c[n].sound
  <2> DEFINE e == [n \in DOMAIN c |-> Hook!Event(c[n])]
  <2>1. Hook!Parse(body) = [parsed |-> TRUE, events |-> e]
    BY <1>1, <1>5 DEF Hook!Parse
  <2>2. DOMAIN e = DOMAIN c /\ \A n \in DOMAIN c : e[n] = Hook!Event(c[n])
    OBVIOUS
  <2> HIDE DEF e
  <2>3. EventsOf(header, body) = IF header = "right" THEN {e[n] : n \in DOMAIN e} ELSE {}
    BY <2>1 DEF EventsOf, Hook!Verified
  <2>4. {e[n] : n \in DOMAIN e} = {Hook!Event(s) : s \in Told(body)}
    BY <1>3, <2>2
  <2>5. \A s \in Told(body) : s.sound
    BY <1>3, <1>5
  <2> QED
    BY <1>5, <2>3, <2>4, <2>5
<1> QED
  BY <1>4, <1>5

\* What Meta sends, and what anyone else may.
Fields == {"messages", "account_update"}
StatusesAbout(ids) == [id : ids, status : {"delivered"}, sound : BOOLEAN]

LEMMA SentAreBodies ==
  ASSUME NEW ids
  PROVE  WebhookBodies(ids) \subseteq Bodies(Fields, StatusesAbout(ids))
<1>1. PICK S : S = StatusesAbout(ids)
  OBVIOUS
<1>2. ASSUME NEW i \in ids, NEW sound \in BOOLEAN
      PROVE  Status(i, sound) \in S
  BY <1>1, <1>2 DEF Status, StatusesAbout
<1>3. PICK C : C = [field : Fields, statuses : Seq(S)]
  OBVIOUS
<1>4. ASSUME NEW s \in Seq(S), NEW field \in Fields
      PROVE  [field |-> field, statuses |-> s] \in C
  BY <1>3
<1>5. \A w \in Seq(C) : [sound |-> TRUE, changes |-> w] \in Bodies(Fields, S)
  BY <1>3 DEF Bodies
<1>6. ASSUME NEW i \in ids, NEW k \in ids, NEW sound \in BOOLEAN
      PROVE  BodyAbout(i, k, sound) \in Bodies(Fields, S)
  <2>1. PICK u, v, w : u = Status(i, FALSE) /\ v = Status(i, TRUE) /\ w = Status(k, sound)
    OBVIOUS
  <2>2. u \in S /\ v \in S /\ w \in S
    BY <1>2, <2>1
  <2>3. <<u>> \in Seq(S) /\ <<>> \in Seq(S) /\ <<v, w>> \in Seq(S)
    BY <2>2
  <2>4. PICK x, y, z : /\ x = [field |-> "account_update", statuses |-> <<u>>]
                       /\ y = [field |-> "messages", statuses |-> <<>>]
                       /\ z = [field |-> "messages", statuses |-> <<v, w>>]
    OBVIOUS
  <2>5. x \in C /\ y \in C /\ z \in C
    BY <1>4, <2>3, <2>4 DEF Fields
  <2>6. <<x, y, z>> \in Seq(C)
    BY <2>5
  <2> QED
    BY <1>5, <2>1, <2>4, <2>6, Zenon DEF BodyAbout
<1>7. ASSUME NEW b \in WebhookBodies(ids)
      PROVE  b \in Bodies(Fields, S)
  <2>1. PICK i \in ids, k \in ids, sound \in BOOLEAN : b = BodyAbout(i, k, sound)
    BY <1>7 DEF WebhookBodies
  <2> QED
    BY <1>6, <2>1, Zenon
<1> QED
  BY <1>1, <1>7

\* Meta took every message that an event handed to the application is about.
ReportedWasTaken == \A e \in reported : e.id \in Ids /\ post[e.id].fate = "taken"

(* What the steps do to a message Meta has taken: it stays taken.          *)
LEMMA TakenLasts ==
  ASSUME SendsInv, [SendsNext]_sendsVars, NEW i \in Ids, post[i].fate = "taken"
  PROVE  post'[i].fate = "taken"
<1>1. ASSUME NEW c \in Callers, Post(c)
      PROVE  post'[i] = post[i]
  <2>1. call[c].pc = "send" /\ c \notin posting
    BY <1>1 DEF Post, At
  <2>2. call[c].id # i
    BY <2>1 DEF SendsInv, CallAsks, NoPost
  <2>3. PICK x : post' = [post EXCEPT ![call[c].id] = x]
    BY <1>1 DEF Post
  <2> QED
    BY <2>2, <2>3 DEF SendsInv, Domains
<1>2. ASSUME NEW k \in Ids, NEW fate, MetaDecides(k, fate)
      PROVE  post'[i] = post[i]
  BY <1>2 DEF MetaDecides, SendsInv, Domains
<1>3. ASSUME NEW c \in Callers, PostEnds(c)
      PROVE  post'[i].fate = "taken"
  <2>1. PICK k, b : post' = [post EXCEPT ![k].retriable = b]
    BY <1>3 DEF PostEnds
  <2>2. PICK t, f, q, a : post[i] = [times |-> t, fate |-> f, payload |-> q, retriable |-> a]
    BY DEF SendsInv, PostOK, IsPost
  <2> QED
    BY <2>1, <2>2 DEF SendsInv, Domains
<1>4. CASE UNCHANGED post
  BY <1>4
<1> QED
  BY <1>1, <1>2, <1>3, <1>4
  DEF SendsNext, CallTemplate, ServiceStep, CrashCall, Recovers, EditCatalog, ConsentChanges,
      Webhook, sendsVars

(* The events of a body are those of a body Meta signed, about messages it *)
(* has taken; no other body adds any.                                      *)
LEMMA EventsOfWebhook ==
  ASSUME NEW header, NEW body \in WebhookBodies(IF header = "right" THEN Taken ELSE Ids),
         NEW e \in EventsOf(header, body)
  PROVE  e.id \in Taken
<1>1. PICK ids, S : /\ ids = (IF header = "right" THEN Taken ELSE Ids)
                    /\ S = StatusesAbout(ids)
  OBVIOUS
<1>2. body \in Bodies(Fields, S)
  BY <1>1, SentAreBodies
<1>3. header = "right" /\ \E s \in Told(body) : e = Hook!Event(s)
  BY <1>2, BodyIsReported
<1>4. PICK s \in Told(body) : e = Hook!Event(s)
  BY <1>3
<1>5. Told(body) \subseteq S
  BY <1>2, ToldAreStatuses
<1>6. s.id \in Taken
  BY <1>1, <1>3, <1>4, <1>5 DEF StatusesAbout
<1> QED
  BY <1>4, <1>6 DEF Hook!Event

(* A delivery event is about a message that Meta took, ...                 *)
THEOREM EventsAreTrue == SendsSpec => []ReportedWasTaken
<1>1. SendsInit => ReportedWasTaken
  BY DEF SendsInit, ReportedWasTaken
<1>2. SendsInv /\ ReportedWasTaken /\ [SendsNext]_sendsVars => ReportedWasTaken'
  <2> SUFFICES ASSUME SendsInv, ReportedWasTaken, [SendsNext]_sendsVars, NEW e \in reported'
               PROVE  e.id \in Ids /\ post'[e.id].fate = "taken"
    BY DEF ReportedWasTaken
  <2>1. CASE e \in reported
    BY <2>1, TakenLasts DEF ReportedWasTaken
  <2>2. CASE e \notin reported
    <3>1. Webhook
      BY <2>2 DEF SendsNext, CallTemplate, ServiceStep, Post, MetaDecides, PostEnds, CrashCall,
                  Recovers, EditCatalog, ConsentChanges, sendsVars
    <3>2. \E header : \E body \in WebhookBodies(IF header = "right" THEN Taken ELSE Ids) :
            e \in EventsOf(header, body)
      BY <2>2, <3>1 DEF Webhook
    <3>3. e.id \in Taken
      BY <3>2, EventsOfWebhook
    <3> QED
      BY <3>1, <3>3 DEF Taken, Webhook
  <2> QED
    BY <2>1, <2>2
<1> QED
  BY <1>1, <1>2, SendsInvariance, PTL DEF SendsSpec

(* ... so that the record never says it was not sent: it is dispatching,   *)
(* accepted or unknown.                                                    *)
THEOREM RecordsAgree == SendsSpec => []EventsAgree
<1>1. SendsInv /\ ReportedWasTaken => EventsAgree
  <2> SUFFICES ASSUME SendsInv, ReportedWasTaken, NEW e \in reported
               PROVE  docs[e.id].state \in {"dispatching", "accepted", "unknown"}
    BY DEF EventsAgree
  <2>1. PICK i \in Ids : i = e.id /\ post[i].fate = "taken"
    BY DEF ReportedWasTaken
  <2>2. post[i] # NoPost
    BY <2>1 DEF NoPost
  <2>3. PostOK(i) /\ docs[i].state \in States
    BY DEF SendsInv, IInv, TypeOK, IntentsTypeOK, Doc
  <2> QED
    BY <2>1, <2>2, <2>3 DEF PostOK, States, Terminal
<1> QED
  BY <1>1, SendsInvariance, EventsAreTrue, PTL

-----------------------------------------------------------------------------
(* What the invariant means for those who send and those who receive.      *)

(* Meta gets at most one POST of an idempotency key, if the unique index   *)
(* is there: claim() lets one call post and nobody posts in its place.     *)
THEOREM OnePost ==
  ASSUME UniqueScope
  PROVE  SendsSpec => []PostedOnce
<1>1. SendsInv => PostedOnce
  <2> SUFFICES ASSUME SendsInv PROVE PostedOnce
    OBVIOUS
  <2>1. ASSUME NEW i \in Ids
        PROVE  post[i].times <= 1 /\ (post[i].times > 0 => Stored(i))
    <3>1. post[i].times \in {0, 1} /\ NoPost.times = 0
      BY DEF SendsInv, PostOK, NoPost
    <3>2. ~Stored(i) => post[i] = NoPost
      BY DEF SendsInv, PostOK, Stored
    <3> QED
      BY <3>1, <3>2
  <2>2. ScopeUnique
    BY DEF SendsInv, IInv
  <2> QED
    BY <2>1, <2>2 DEF PostedOnce, ScopeUnique
<1> QED
  BY <1>1, SendsInvariance, PTL

(* What complete() records is what Meta did: the adapter takes no answer   *)
(* that leaves a doubt for an acceptance or a rejection.                   *)
THEOREM RecordIsMetas == SendsSpec => []RecordsMatchMeta
<1>1. SendsInv => RecordsMatchMeta
  <2> SUFFICES ASSUME SendsInv, NEW i \in Ids
               PROVE  /\ docs[i].state = "accepted" => post[i].fate = "taken"
                      /\ docs[i].state = "rejected" => post[i].fate \notin {"taken", "underway"}
    BY DEF RecordsMatchMeta
  <2>1. docs[i].state = "accepted" => i \in delivered
    BY DEF SendsInv, IInv, IntentOK
  <2> QED
    BY <2>1 DEF SendsInv, PostOK
<1> QED
  BY <1>1, SendsInvariance, PTL

(* Only a message that Meta refused is offered to be sent again.           *)
THEOREM RetriesAreSafe == SendsSpec => []RetryIsSafe
<1>1. SendsInv => RetryIsSafe
  BY DEF SendsInv, PostOK, RetryIsSafe
<1> QED
  BY <1>1, SendsInvariance, PTL

(* A result is about the words its caller asked for, whoever stored them,  *)
(* whoever posted them and however the alias has been edited since.        *)
THEOREM SentAsAsked == SendsSpec => []SentIsAsked
<1>1. SendsInv => SentIsAsked
  <2> SUFFICES ASSUME SendsInv, NEW c \in Callers, call[c].reply.kind = "result"
               PROVE  \E i \in Ids : /\ docs[i].request = call[c].request
                                     /\ post[i] # NoPost => post[i].payload = Payload(content[c])
    BY DEF SentIsAsked
  <2>1. Asked(call[c].request, content[c]) /\ Recorded(call[c].request)
    BY DEF SendsInv, CallAsks
  <2>2. PICK i \in Ids : docs[i].request = call[c].request
    BY <2>1 DEF Recorded
  <2>3. ASSUME post[i] # NoPost
        PROVE  post[i].payload = Payload(content[c])
    <3>1. PICK m : Asked(call[c].request, m) /\ post[i].payload = Payload(m)
      BY <2>2, <2>3 DEF SendsInv, PostOK
    <3> QED
      BY <2>1, <3>1, FingerprintDeterminesPayload DEF Asked
  <2> QED
    BY <2>2, <2>3
<1> QED
  BY <1>1, SendsInvariance, PTL

(* Whichever release wrote it, a stored request is restored as it was      *)
(* asked, or, with sensitive content, by nobody.                           *)
THEOREM StoredIsRestored == SendsSpec => []SnapshotsRestore
<1>1. SendsInv => SnapshotsRestore
  <2> SUFFICES ASSUME SendsInv, NEW i \in Ids, Stored(i)
               PROVE  LET m == Deserialize(snapshot[i]) IN
                      IF docs[i].request \in Sensitive THEN m = Unrestorable
                      ELSE m.type = "template" /\ FingerprintData(m) = docs[i].request.message
    BY DEF SnapshotsRestore
  <2>1. PICK schema \in Schemas : \E x :
          Asked(docs[i].request, x) /\ Fits(schema, x) /\ snapshot[i] = SerializeAs(schema, x)
    BY DEF SendsInv, SnapshotOK
  <2>2. PICK x :
          Asked(docs[i].request, x) /\ Fits(schema, x) /\ snapshot[i] = SerializeAs(schema, x)
    BY <2>1
  <2>3. schema \in 1..3 /\ x \in BuiltMessage /\ x.type = "template"
    BY <2>2, SendsAssumption DEF Asked, BuiltMessage, TemplateMessage
  <2>4. docs[i].request \in Requests
    BY <2>2 DEF Asked
  <2>5. docs[i].request \in Sensitive <=> ContainsSensitive(x)
    BY <2>2, <2>4, SendsAssumption DEF Asked
  <2> QED
    BY <2>2, <2>3, <2>5, SnapshotRestoresMessage, SensitiveIsNotRestored DEF Asked
<1> QED
  BY <1>1, SendsInvariance, PTL

(* What a caller passed as a sensitive text is in no stored request.       *)
THEOREM SecretsStayOut == SendsSpec => []SecretsAreNotStored
<1>1. SendsInv => SecretsAreNotStored
  <2> SUFFICES ASSUME SendsInv, NEW i \in Ids, Stored(i),
                      NEW n \in DOMAIN snapshot[i].message.components,
                      NEW k \in DOMAIN snapshot[i].message.components[n].parameters
               PROVE  snapshot[i].message.components[n].parameters[k].value \notin Secrets
    BY DEF SecretsAreNotStored
  <2>1. PICK schema \in Schemas : \E x :
          Asked(docs[i].request, x) /\ Fits(schema, x) /\ snapshot[i] = SerializeAs(schema, x)
    BY DEF SendsInv, SnapshotOK
  <2>2. PICK x :
          Asked(docs[i].request, x) /\ Fits(schema, x) /\ snapshot[i] = SerializeAs(schema, x)
    BY <2>1
  <2>3. schema \in 1..3 /\ x \in BuiltMessage /\ NoSecrets(x)
    BY <2>2, SendsAssumption DEF Asked
  <2>4. /\ n \in DOMAIN x.components /\ k \in DOMAIN x.components[n].parameters
        /\ snapshot[i].message.components[n].parameters[k].value =
             IF x.components[n].parameters[k].kind = "sensitive_text" THEN Redaction
             ELSE x.components[n].parameters[k].value
    BY <2>2, <2>3, SnapshotIsRedacted
  <2>5. Redaction \notin Secrets
    BY SendsAssumption, RequestsAssumption
  <2> QED
    BY <2>3, <2>4, <2>5 DEF NoSecrets
<1> QED
  BY <1>1, SendsInvariance, PTL

(* Whoever claimed an intent has something to post: the adapter's refusal  *)
(* of a payload it cannot build is never met.                              *)
THEOREM AlwaysPosts ==
  SendsSpec => [](\A c \in Callers : At(c, "send") => Payload(Held(c)) # NoPayload)
<1>1. SendsInv => \A c \in Callers : At(c, "send") => Payload(Held(c)) # NoPayload
  BY HeldIsAsked DEF At
<1> QED
  BY <1>1, SendsInvariance, PTL
=============================================================================
