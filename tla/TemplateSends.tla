--------------------------- MODULE TemplateSends ---------------------------
(***************************************************************************)
(* send_template from the catalog to Meta and back: MessagingService with  *)
(* the alias each call reads, the message it builds, the snapshot it       *)
(* leaves, the POST of the Meta adapter and the events Meta sends later,   *)
(* while an editor changes the alias.  A request is now its fingerprint,   *)
(* and the provider call three steps: the POST leaves, Meta takes or       *)
(* refuses it, and the call sees how it ended, which may come first.       *)
(***************************************************************************)
EXTENDS MessagingService, MessageRequests

CONSTANTS
  Keys,            \* template keys
  Aliases,         \* names of the TemplateAlias values editors save
  TemplateOf,      \* TemplateOf[a]: the alias as MessageRequests describes it
  NoAlias,         \* no alias
  Editors,         \* processes that save and deactivate aliases
  MaxRevision,     \* bound of the revisions
  Supplied,        \* the parameter mappings callers pass
  Schemas,         \* request schemas written by the releases that share the collection
  Secrets          \* the values passed as sensitive texts

VARIABLES
  stored, editor,  \* the catalog
  refused,         \* refused[c]: what c's last send_template raised before _send, or "none"
  content,         \* content[c]: the message c's call of _send was made for
  snapshot,        \* snapshot[i]: serialized_request of intent i
  post,            \* post[i]: the POSTs for intent i
  posting,         \* callers in the adapter whose POST has left
  reported         \* delivery events handed to the application

Meta == INSTANCE MetaCloud
Hook == INSTANCE MetaWebhooks

KindsIn(a) == UNION {{TemplateOf[a].components[n].kinds[k] :
                        k \in DOMAIN TemplateOf[a].components[n].kinds} :
                     n \in DOMAIN TemplateOf[a].components}

\* What the catalog tells apart.
FeaturesOf ==
  [a \in Aliases |->
     (IF "image" \in KindsIn(a) THEN {"image"} ELSE {})
     \cup (IF "sensitive_text" \in KindsIn(a) THEN {"sensitive"} ELSE {})
     \cup (IF \E n \in DOMAIN TemplateOf[a].components : TemplateOf[a].components[n].type = "button"
           THEN {"button"} ELSE {})]

Catalog == INSTANCE TemplateCatalog WITH Faults <- {}

adapter == <<post, posting>>
service == <<docs, now, recovery, call, eligible, sessions, sends, delivered>>
catalog == <<stored, editor>>
sendsVars == <<service, catalog, refused, content, snapshot, adapter, reported>>

NoMessage == NoPayload
NoSnapshot == [schema |-> 0, message |-> NoMessage]
NoPost == [times |-> 0, fate |-> "none", payload |-> NoPayload, retriable |-> FALSE]

\* The request a call for key k makes of alias a, and its message.
MessageOf(a, provided) == BuildTemplateMessage(TemplateOf[a], provided)
RequestOf(k, m) == Fingerprint(k, m)

Buildable == {x \in Aliases \X Supplied : MessageOf(x[1], x[2]).type = "template"}

ASSUME SendsAssumption ==
  /\ Requests = {RequestOf(k, MessageOf(x[1], x[2])) : k \in Keys, x \in Buildable}
  /\ Sensitive = {r \in Requests : r.keyed}
  /\ Text = {} /\ Unregistered = {}
  /\ NoAlias \notin Aliases /\ MaxRevision \in Nat
  /\ 3 \in Schemas /\ Schemas \subseteq 1..3
  /\ TemplateOf \in [Aliases -> TemplateAlias]
  /\ Secrets \subseteq Values
  /\ \A provided \in Supplied : \A name \in DOMAIN provided :
       /\ provided[name] \in Parameter
       /\ provided[name].value \in Secrets => provided[name].kind = "sensitive_text"

SendsInit ==
  /\ Init
  /\ Catalog!Init
  /\ refused = [c \in Callers |-> "none"]
  /\ content = [c \in Callers |-> NoMessage]
  /\ snapshot = [i \in Ids |-> NoSnapshot]
  /\ post = [i \in Ids |-> NoPost]
  /\ posting = {}
  /\ reported = {}

-----------------------------------------------------------------------------
(* The call.  Meta takes or refuses a message on its own time: sends and   *)
(* delivered say what was so when the provider call came to its end.       *)

\* Raised by send_template before _send: the catalog's answer, or the parameters.
LookupErrors == {"ServiceDependencyError", "UnknownTemplateError", "MissingTemplateParameterError",
                 "ExtraTemplateParameterError", "TemplateParameterError"}

Refusal(got, provided) ==
  IF got = Catalog!None THEN "UnknownTemplateError"
  ELSE IF got = Catalog!RecordError THEN "ServiceDependencyError"
  ELSE MessageOf(got, provided).type

(***************************************************************************)
(* send_template up to _send's first lookup: the alias is read once, here. *)
(* One that raises before is no call of _send, and call[c] remains what it *)
(* was.                                                                    *)
(***************************************************************************)
CallTemplate(c, k, provided) ==
  /\ At(c, "idle")
  /\ LET got == Catalog!Get(k)
         accepted == <<got, provided>> \in Buildable
     IN \/ /\ ~accepted
           /\ refused' = [refused EXCEPT ![c] = Refusal(got, provided)]
           /\ UNCHANGED <<service, content>>
        \/ /\ accepted
           /\ refused' = [refused EXCEPT ![c] = "none"]
           /\ Start(c, RequestOf(k, MessageOf(got, provided)))
           /\ content' = [content EXCEPT ![c] = MessageOf(got, provided)]
  /\ UNCHANGED <<catalog, snapshot, adapter, reported>>

\* A command or a policy lookup; the upsert stores the snapshot with the intent.
ServiceStep(c) ==
  /\ ~At(c, "send")
  /\ CallStep(c)
  /\ \E schema \in Schemas :
       /\ Fits(schema, content[c])
       /\ snapshot' = [i \in Ids |-> IF ~Stored(i) /\ docs'[i].state # "absent"
                                     THEN SerializeAs(schema, content[c]) ELSE snapshot[i]]
  /\ UNCHANGED <<catalog, refused, content, adapter, reported>>

\* The request _continue_intent goes on with: the call's own, or the one restored.
Held(c) ==
  IF call[c].created /\ ContainsSensitive(content[c]) THEN content[c]
  ELSE Deserialize(snapshot[call[c].id])

\* MetaCloudProvider.send up to the POST.  That there is a payload is proved (AlwaysPosts), so
\* its other answer, Meta!Unsupported, is given to no call of the service.
Post(c) ==
  /\ At(c, "send") /\ c \notin posting
  /\ Payload(Held(c)) # NoPayload
  /\ post' = [post EXCEPT ![call[c].id] =
       [times |-> IF @.times = 0 THEN 1 ELSE 2, fate |-> "underway",
        payload |-> Payload(Held(c)), retriable |-> FALSE]]
  /\ posting' = posting \cup {c}
  /\ UNCHANGED <<service, catalog, refused, content, snapshot, reported>>

\* What Meta makes of a POST; nothing of the caller is needed for it.
MetaDecides(i, fate) ==
  /\ post[i].fate = "underway"
  /\ post' = [post EXCEPT ![i].fate = fate]
  /\ UNCHANGED <<service, catalog, refused, content, snapshot, posting, reported>>

\* The POST ends for the caller: the adapter's result is the provider's answer.
PostEnds(c) ==
  /\ c \in posting
  /\ LET i == call[c].id IN
       \E result \in {Meta!Classify(o) : o \in Meta!MayEnd(post[i].fate)} :
         /\ Becomes(c, [call[c] EXCEPT !.pc = "completeFind", !.result = result.disposition,
                                       !.invoked = TRUE, !.contacted = TRUE])
         /\ post' = [post EXCEPT ![i].retriable = result.retriable]
         /\ sends' = [sends EXCEPT ![i] = IF @ = 0 THEN 1 ELSE 2]
         /\ delivered' = IF post[i].fate = "taken" THEN delivered \cup {i} ELSE delivered
  /\ posting' = posting \ {c}
  /\ UNCHANGED <<mongo, policy, catalog, refused, content, snapshot, reported>>

\* The call's process ends, but a POST that left is on its way.
CrashCall(c) ==
  /\ Crash(c)
  /\ posting' = posting \ {c}
  /\ UNCHANGED <<catalog, refused, content, snapshot, post, reported>>

Recovers(j) ==
  /\ RecoveryStep(j)
  /\ UNCHANGED <<catalog, refused, content, snapshot, adapter, reported>>

EditCatalog ==
  /\ Catalog!Next
  /\ UNCHANGED <<service, refused, content, snapshot, adapter, reported>>

\* A consent or suppression event of another process, at any moment of a call.
ConsentChanges ==
  /\ \E p \in PolicyMoves : ChangeEligibility(p)
  /\ UNCHANGED <<catalog, refused, content, snapshot, adapter, reported>>

-----------------------------------------------------------------------------
(***************************************************************************)
(* Meta reports the messages it took, in batches whose soundness is its    *)
(* own affair; bodies that Meta did not sign may be about anything.  The   *)
(* application hands on the events of a body whose signature is right.     *)
(***************************************************************************)
Taken == {i \in Ids : post[i].fate = "taken"}

Status(i, sound) == [id |-> i, status |-> "delivered", sound |-> sound]

BodyAbout(i, k, sound) ==
  [sound |-> TRUE,
   changes |-> <<[field |-> "account_update", statuses |-> <<Status(i, FALSE)>>],
                 [field |-> "messages", statuses |-> <<>>],
                 [field |-> "messages", statuses |-> <<Status(i, TRUE), Status(k, sound)>>]>>]

WebhookBodies(ids) == {BodyAbout(i, k, sound) : i \in ids, k \in ids, sound \in BOOLEAN}

\* What the application makes of a body, by the two functions.
EventsOf(header, payload) ==
  LET result == Hook!Parse(payload) IN
  IF Hook!Verified(header) THEN {result.events[n] : n \in DOMAIN result.events} ELSE {}

Webhook ==
  /\ \E header \in {"right", "none", "other"} :
       \E events \in {EventsOf(header, body) :
                       body \in WebhookBodies(IF header = "right" THEN Taken ELSE Ids)} :
         reported' = reported \cup events
  /\ UNCHANGED <<service, catalog, refused, content, snapshot, adapter>>

SendsNext ==
  \/ \E c \in Callers :
       \/ \E k \in Keys, provided \in Supplied : CallTemplate(c, k, provided)
       \/ ServiceStep(c) \/ Post(c) \/ PostEnds(c) \/ CrashCall(c)
  \/ \E i \in Ids : MetaDecides(i, "taken") \/ MetaDecides(i, "refused")
  \/ \E j \in Recoverers : Recovers(j)
  \/ EditCatalog \/ ConsentChanges
  \/ Webhook

SendsSpec == SendsInit /\ [][SendsNext]_sendsVars

-----------------------------------------------------------------------------
SendsTypeOK ==
  /\ TypeOK
  /\ Catalog!TypeOK
  /\ refused \in [Callers -> {"none"} \cup LookupErrors]
  /\ content \in [Callers -> Message \cup {NoMessage}]
  /\ \A i \in Ids : snapshot[i] # NoSnapshot =>
       snapshot[i].schema \in Schemas /\ snapshot[i].message.type = "template"
  /\ \A i \in Ids : /\ post[i].times \in 0..2
                    /\ post[i].fate \in {"none", "underway", "taken", "refused"}
                    /\ post[i].payload.type \in {"none", "template"}
                    /\ post[i].retriable \in BOOLEAN
  /\ posting \subseteq Callers

(***************************************************************************)
(* Meta gets at most one POST for an idempotency key, whatever crashes     *)
(* while it is on its way, whatever is edited and whoever tries again.     *)
(***************************************************************************)
PostedOnce ==
  /\ \A i \in Ids : post[i].times <= 1
  /\ \A i, k \in Ids :
       /\ post[i].times > 0 /\ post[k].times > 0
       /\ ScopeOf[docs[i].request] = ScopeOf[docs[k].request]
       => i = k

(***************************************************************************)
(* The record never contradicts Meta, which decides on its own time and    *)
(* may answer with anything or not at all: an intent recorded as accepted  *)
(* was taken, and one recorded as rejected was not and is not on its way,  *)
(* so that it never will be.                                               *)
(***************************************************************************)
RecordsMatchMeta ==
  \A i \in Ids :
    /\ docs[i].state = "accepted" => post[i].fate = "taken"
    /\ docs[i].state = "rejected" => post[i].fate \notin {"taken", "underway"}

(***************************************************************************)
(* An error marked retriable invites the caller to send again under a new  *)
(* key: the message was then refused, never taken or still on its way.     *)
(***************************************************************************)
RetryIsSafe == \A i \in Ids : post[i].retriable => post[i].fate = "refused"

(***************************************************************************)
(* A call that gets a result, its own or a replay, gets that of its own    *)
(* words: what was posted is the payload of the message this call built    *)
(* from the alias it read, however the alias has changed since, and        *)
(* whichever call and release stored the request.  The fingerprint, which  *)
(* leaves part of the message out, tells payloads apart.                   *)
(***************************************************************************)
SentIsAsked ==
  \A c \in Callers : call[c].reply.kind = "result" =>
    \E i \in Ids :
      /\ docs[i].request = call[c].request
      /\ post[i] # NoPost => post[i].payload = Payload(content[c])

(***************************************************************************)
(* Every stored request can be restored as what was asked, unless it has   *)
(* sensitive content: then it never can, by any call, so that only the     *)
(* call that created the intent may send it.                               *)
(***************************************************************************)
SnapshotsRestore ==
  \A i \in Ids : Stored(i) =>
    LET m == Deserialize(snapshot[i]) IN
    IF docs[i].request \in Sensitive THEN m = Unrestorable
    ELSE m.type = "template" /\ FingerprintData(m) = docs[i].request.message

(***************************************************************************)
(* No sensitive text gets into the collection with the request.            *)
(***************************************************************************)
SecretsAreNotStored ==
  \A i \in Ids : Stored(i) =>
    \A n \in DOMAIN snapshot[i].message.components :
      LET parameters == snapshot[i].message.components[n].parameters
      IN \A k \in DOMAIN parameters : parameters[k].value \notin Secrets

(***************************************************************************)
(* A delivery event, which may be there before the call has its answer or  *)
(* its record, is never about a message that the record says was not sent. *)
(***************************************************************************)
EventsAgree ==
  \A e \in reported : docs[e.id].state \in {"dispatching", "accepted", "unknown"}

(***************************************************************************)
(* With the alias, the message, the POST and Meta in their place, the      *)
(* service is the one that MessagingService describes: every step of a     *)
(* call is one of its steps or none, and the adapter and Meta are together *)
(* the provider it assumes, one that tells the truth.                      *)
(***************************************************************************)
ImplementsService == Spec
=============================================================================
