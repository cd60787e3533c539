# healthassure-messaging in TLA+

`healthassure_messaging` is a Python SDK that sends WhatsApp messages for an
application: `MessagingService` decides whether a message may go out, records an
*intent* for it under the caller's idempotency key, hands it to a provider at
most once and records the outcome. The state lives in MongoDB collections that
any number of processes share; the SDK has no threads, locks or transactions of
its own, and every operation is a few single-document commands with Python in
between. This directory specifies that core, model-checks it with TLC and proves
its main safety properties with TLAPS.

Paths below are relative to `src/src/healthassure_messaging/` unless they start
with `src/`.

## Contents

- [The system](#the-system)
- [Modules](#modules)
- [How the model reads the code](#how-the-model-reads-the-code)
- [Runs](#runs)
- [Fairness](#fairness)
- [Proofs](#proofs)
- [Where the code and its documentation disagree](#where-the-code-and-its-documentation-disagree)
- [What is not modelled](#what-is-not-modelled)
- [Plan](#plan)

## The system

| Component | State | Operations | Hard behaviours | What makes it correct |
| --- | --- | --- | --- | --- |
| `MessagingService` (`service.py`) | the locals of each running call | `send_template`, `send_text` | calls of one key race in several processes; a call may end between any two commands; the provider may have the message while nothing records it | a key is worth one provider call; a result is what the record says; an error tells whether the provider was called; every call returns |
| `MongoIntentRepository` (`persistence/mongo.py:313-542`) | the intent documents with their attempt history | `get`, `create_if_absent`, `claim`, `complete`, `recover_stale_dispatching` | read, then conditional update; lost replies; duplicate keys; recovery beside slow calls; batches with a limit | one intent per scope, states only move forward, outcomes are final and true, attempts agree with the state |
| `IntentRepository` port and in-memory repository (`ports.py`, `testing.py`) | one intent per scope | the same four | none: one lock around each operation | the atomic ledger the Mongo repository has to look like |
| `MongoRecipientEligibilityPolicy` (`mongo.py:626-813`) | consent, suppression and their events, per recipient | `grant_consent`, `revoke_consent`, `apply_suppression`, `clear_suppression`, `evaluate` | retried and duplicated events, conflicting evidence under one id, concurrent writers | each event once, flags follow the history, a retried grant never undoes a revocation |
| `MongoTextSessionPolicy` (`mongo.py:915-1041`) | the session and its events, per recipient | `open_session`, `has_active_session` | the document and the clock are read one after the other | a session reported active is backed by the last evidence read |
| `MongoTemplateCatalog` (`mongo.py:1196-1317`) | one alias document per template key, with a revision | `get`, `save`, `deactivate` | editors start from one revision; the schema depends on the alias; the check of an update comes after it | no lost update, what was saved is read back |
| Index plan (`mongo.py:1370-1452`) | the indexes | `index_plan`, `ensure_indexes` | created by an explicit call only | uniqueness of scopes depends on it |
| Provider registry and gateway (`provider.py`) | providers by key | `register`, `get`, `send` | adapters that raise or break the contract | a refusal before the call is told from a failure after it |
| Contracts (`service_contracts.py`, `contracts.py`, `enums.py`, `phone.py`) | immutable values | validation | none | the forms below lose nothing another form needs |
| Templates and serialization (`templates.py`, `serialization.py`) | none | building a message, its fingerprint, writing and reading snapshots | three schemas of releases that share a collection; redaction | reading gives back what was asked, or nothing if it is sensitive; a fingerprint settles the payload |
| Meta provider and HTTP (`providers/meta.py`, `http.py`) | none | `send`: one POST | every way a POST may end, before or after Meta took the message | accepted means taken, rejected means never sent, retriable means safe to send again |
| Webhooks (`webhooks.py`, `providers/meta_webhooks.py`) | none | signature check, parsing | events before the answer; forged or malformed bodies | an event is about a message that was sent |
| Release workflow (`src/.github/`) | a run of the release | verification of a frozen release | a moving tag, replaced assets, reruns, an upload that fails unnoticed, stale pages of PyPI | nothing is published that was not verified; green means published |
| Test doubles (`testing.py`), package surface and build | - | - | none | not modelled |

The application calls the service. The service reads the template catalog, then
the intent repository, then both policies, then claims the intent, calls the
gateway, which calls the Meta adapter, and completes the intent; the components
share nothing else. Policy events, catalog edits and recovery come from other
processes at any time, and webhooks come from Meta to the application. The release
workflow shares nothing with the package.

## Modules

| Module | What it is |
| --- | --- |
| `IntentLedger` | abstract: what the `IntentRepository` port promises, one atomic step per operation |
| `MongoIntents` | the intent collection, the commands of the Mongo repository, and `recover_stale_dispatching` |
| `MessagingService` | the service over `MongoIntents`, both policies as sets and a provider; properties; refinement of `IntentLedger`; the inductive invariant |
| `EvidenceLog` | the write protocol that both policies share: ensure, read, append under a condition, look again |
| `RecipientPolicy` | `EvidenceLog` with the four policy operations and `evaluate` |
| `TextSession` | `EvidenceLog` with `open_session`, and `has_active_session` as two reads |
| `TemplateCatalog` | the catalog under optimistic revisions and its three schemas |
| `MessageRequests` | the forms of a request as operators: message, fingerprint, snapshot, what is read back, payload |
| `MetaCloud` | what the adapter makes of every way one POST may end, and what Meta is relied on for |
| `MetaWebhooks` | the signature check and the parsing of a webhook body |
| `TemplateSends` | composition: `MessagingService`, `TemplateCatalog`, `MessageRequests`, `MetaCloud` and `MetaWebhooks` |
| `Release` | the release workflow and its control script, beside PyPI and people |
| `*Proofs` | theorems about the module they are named for (`EvidenceLog`, `RecipientPolicy`, `TextSession`, `TemplateCatalog`, `MessageRequests`, `MessagingService`, `TemplateSends`, `Release`) |
| `MC*` | instances for TLC; a `.cfg` file per run |

`MessagingService`, action by action:

| Code | Actions |
| --- | --- |
| `send_template`, `send_text`, `_send` up to the first lookup | `Start` |
| `_get_intent` | `GetIntent` |
| `create_if_absent`: upsert, then `find_one` | `UpsertIntent`, `ReadBack` |
| `_continue_intent` | `ContinueIntent`, part of the two reads |
| `_is_policy_eligible` | `EvaluateRecipient`, `EvaluateSession` |
| `_complete_local_rejection` with `complete(PENDING)` | `RejectFind`, `RejectUpdate` |
| `claim` | `ClaimFind`, `Claim` |
| `_resolve_claim_race` | `Resolve` |
| `_dispatch_claimed` with `gateway.send` | `Dispatch` |
| `_complete_claimed_intent` with `complete(DISPATCHING)` | `CompleteFind`, `Complete` |
| `recover_stale_dispatching` | `RecoverySelect`, `RecoveryFind`, `RecoveryUpdate`, `RecoveryAborts` |

In `EvidenceLog`, `Ensure` and `Read` are `ensure_and_read`, `Update` the
conditional update, `Raced` the second look and `Evaluate` the answer of the
policy. `TemplateCatalog` has an action per operation, since each is one
command.

`TemplateSends` takes the steps of `MessagingService` as they are, save for the
first and the provider call, which it replaces. A template that is not there or
does not fit its parameters ends `send_template` before `_send`: `refused` says with
which error, and the call of `MessagingService` never begins.

| Code | Actions |
| --- | --- |
| `send_template`: `catalog.get`, `build_template_message`, the fingerprint, up to the first lookup; or the error it raises before | `CallTemplate` |
| every command and policy lookup of `_send`; the upsert also stores the snapshot | `ServiceStep` |
| `gateway.send` down to the POST | `Post` |
| Meta takes or refuses the message | `MetaDecides` |
| the transport's answer or failure, `_success_result`, `_rejection_result`, `_transport_failure_result` | `PostEnds` |
| the process ends while its POST is on its way | `CrashCall` |
| `recover_stale_dispatching` | `Recovers` |
| `save`, `deactivate` | `EditCatalog` |
| a consent or suppression event of another process | `ConsentChanges` |
| `verify_meta_webhook_signature`, `parse_meta_delivery_status_events` | `Webhook` |

`Release` has a job of the workflow, one network request at a time, and the world
around it:

| Code | Actions |
| --- | --- |
| the workflow's trigger and concurrency group | `StartJob` |
| `actions/checkout` | `Checkout` |
| `prepare`: event and git trust, downloads, preflight and staging | `Context`, `Download`, `Preflight` |
| the publish action (`continue-on-error`) | `Upload` |
| `postflight` (`if: always()`): the checks again, then the polling | `Postflight`, `Poll` |
| the job's time limit, a lost runner | `Cancel` |
| people | `UploadByHand`, `Yank`; moved tags and replaced assets are what `Checkout` and `Download` may find |

## How the model reads the code

- **One action is one command** to Mongo, one policy lookup, one clock read where
  it matters, or the provider call, with the Python that follows it up to the
  next one. Between two actions any other process runs.
- **Failures.** `_mongo_call` turns any `PyMongoError` into an error of the
  package. A command may raise before it took effect (`"fails"`), or a write may
  be applied and its reply lost (`"lost"`); the caller sees the same exception.
  A policy lookup may raise (`"policy"`), and a caller, writer or job may end at
  any step (`"crash"`). `Faults` says which of these happen in a run.
- **A request is its fingerprint.** `_request_fingerprint` covers the recipient,
  provider, operation and content; two requests are the same for the service iff
  their fingerprints are, so a request is a model value. `ScopeOf[r]` is the pair
  (source_flow, idempotency_key) the caller files it under.
- **Ids are fresh.** The default factories are `uuid4().hex`: an id no document
  and no running call has. Ids of ended calls that stored nothing may be reused;
  this keeps `Ids` finite and is what a fresh id would do.
- **The read-back.** A matched upsert and a `DuplicateKeyError` both lead to
  `find_one(scope)`; `created` is told apart as the code does, and the document
  read may have been moved on by others in the meantime.
- **Results.** A `DispatchResult` is its disposition and, for the three results
  the service or recovery builds, its `provider_status`. Message ids, error
  texts and timestamps other than `dispatch_started_at_epoch` are left out.
- **Sensitive requests.** The stored request carries a redaction marker and
  `deserialize_request` refuses it: only the call whose upsert created the intent
  still has the message (`HoldsRequest`).
- **The provider** tells the truth when it says accepted or rejected. "unknown"
  also stands for an exception and for an answer that breaks the gateway's
  contract, after which the message may or may not go out. An unregistered
  provider is refused before any call. `contacted`, `wasEligible`, `hadSession`,
  `sends` and `delivered` are history variables: the code does not keep them,
  properties and proofs need them.
- **Reading a document.** `_intent_from_document`, `_policy_record_from_document`
  and `_session_record_from_document` raise `MongoRecordError` when a document
  contradicts itself. The model has no branch for it: `AttemptsCoherent`,
  `RecordedOnce` and `FieldsAreLatest` say that no such document arises. In
  `TemplateCatalog` it does arise, and there `Readable` is modelled.
- **The clock** is one for all processes. `Tick` is bounded by `MaxTime`, and
  `CallBound` limits the ticks from claim to completion where a run asks what a
  generous cutoff buys; the code has no such limit.
- **Indexes.** `UniqueScope` says whether the unique scope index exists
  (`ensure_indexes()` is an explicit call, `src/README.md`). The unique indexes of
  recipients, sessions and template keys are assumed.
- **Policy events** are applied in the order they arrive; the code does not
  compare `occurred_at_epoch`, and neither does the model.
- **An event is its evidence.** Two events of one `event_id` that differ anywhere
  are two members of `Events` with the same `IdOf`.

In `TemplateSends`:

- **A request is its fingerprint record**, what `_request_fingerprint` hashes; that
  two records differ iff their hashes do takes the hash to be free of collisions.
  The fingerprint leaves out which texts are sensitive and where a button stands, the
  snapshot leaves out sensitive texts, the payload leaves out what is sensitive; the
  properties say that what is left suffices.
- **Two releases** may share the collection: each `ServiceStep` that creates an
  intent picks a schema of `Schemas` the message fits. The current release writes
  the newest; the older ones are still read.
- **The POST is three steps.** It leaves, Meta decides, and the call sees how it
  ended, which may be a timeout before Meta has decided. A process that ends after
  `Post` leaves a POST that Meta may still take.
- **Meta** is external, and relied on for this only: it answers a message it took
  with a success and one it refused with an error, it alone writes error codes into a
  server error, a redirect or an informational status means that nobody took the
  message, and it reports only messages it took. A failure of the
  connection, or a 5xx without Meta's code, which may come from in between, can hide
  either decision.
- **A webhook body** is sound or not, and so is each of its statuses; the types of
  the members are not modelled one by one. A body with a wrong or missing signature
  may be about any intent.

In `Release`:

- A file's bytes are the pinned ones, others of the same size or others of another
  size. The checks of the archives' structure are implied by the pinned digest.
- **The script that runs is the modelled one**: the workflow runs the script of the
  tagged commit, and a commit whose script checks less is outside of what the script
  can promise.
- **PyPI** never gives the bytes of a file name away to another file. With
  `StalePages` any page it had may be served. A version without files is a 404.
- The downloads may come in any order; the code takes that of the manifest.

## Runs

| Run | Instance | Question |
| --- | --- | --- |
| `race` | three callers, one scope, three requests (one with an unregistered provider, one sensitive), one recovery job, all failures | Can any interleaving send twice, lie to a caller, or leave an incoherent document or a result that is not durable? Does an update ever miss for another reason than that someone else made it? |
| `policy` | two callers, a text and a sensitive template of one scope, consent and session changing, crashes, lost replies | Is only what was allowed during the call sent? Does one caller at most count it as its own? Is a sensitive intent whose creator is gone left alone? Are outcomes final, and does the service implement the ledger, when a rejection races a claim? Is `IInv`, on which the proofs rest, invariant? |
| `recovery` | two callers, two scopes without the unique index, three requests (one sensitive, which a service without a key refuses), batches of two, three epochs, cutoff two ticks old, calls of one tick | Does a cutoff older than the longest call keep recovery off running calls? Is every dispatching intent in reach of a later batch? What holds without `ensure_indexes()`: each intent is sent once, though the scope may be sent twice. |
| `liveness` | two callers of one scope without its unique index, batches of one, every dispatching intent stale at once, crashes, lost replies | Does every call return, also one that lost its claim to the other call or its intent to recovery? Does every dispatch end? With two stale intents and a limit of one, does the limit starve either? |
| `post_dispatch` | violation | see [below](#where-the-code-and-its-documentation-disagree) |
| `recipient_policy` | three writers, five events, two with one id, all failures | Are events recorded once, flags right, answers true, and revocations safe from retries? |
| `text_session` | two writers, three events, two with one id, one reader, three epochs | Is an active session backed, though document and clock are read apart? |
| `template_catalog` | two editors, one key, four shapes of alias, revisions to 4 | Are updates lost, does a document change without a new revision, and are supported aliases read back? |
| `template_shapes`, `template_deactivate` | violation | see below |
| `template_sends` | two callers of one key, an editor with three aliases (a letter, the letter with its texts swapped, a login with a sensitive code), four parameter mappings, two request schemas, consent changing, crashes, recovery, webhooks | With the alias changing between a call and its retry, and Meta deciding before or after the call sees an end: is Meta posted once, are record, events and retriable errors true of Meta, and does every result belong to what its caller asked? Is no secret stored? |
| `release` | two artifacts and another file, a good commit and four bad ones, eleven events, two polling attempts, two jobs, stale pages, hand uploads and yanking | Is only what was frozen uploaded, by one job? Does green mean published? Does a job end? |

Three calls of one scope are what the protocol can tell apart: one that owns the
intent, one that lost the race with it, and one that comes after either is over
(calls start again without limit, so any number follow one another). One intent
id per caller is enough under the index, for at most one is stored and each
other caller holds at most one. In `liveness` the index is absent for the sake of its
bounds: two calls of the scope then may find one intent and race for it, as under the
index (whose behaviours are among those without it), or create one each, and both of
them go stale. Two ids suffice there too: a call takes an id only while none is stored
in the scope. `recovery` has more requests than ids, and a call that finds none
free waits; its properties are safety properties. Epochs only matter by their order to a cutoff.
`MaxTime = 0` in the runs that are not about time makes every dispatching intent
stale at once, the worst case for a running call. In `template_sends` two callers
are enough, one that created the intent and one that retries it; three aliases give
a call whose retry builds another text order, and one whose retry has a sensitive
message; two revisions let the alias change between them. In `release` a second
job is the rerun of the first. Callers, ids, writers and editors are
interchangeable, hence the symmetry in safety runs; liveness runs use none.

`template_sends` has a `VIEW` that leaves out what became of an editor's call and of a
refused one, what a call remembers of the policy, the two history variables `sends` and
`delivered` (`post` says more), and the clock and the sessions, which do not change in
the run: none of them has a part in a guard or in another property of the run than the
type invariant.

Deadlock is checked in all runs but two: in `template_sends` the two ids and the
revisions run out, in `release` the number of jobs does (`MaxJobs`); these are bounds
of the instances. Elsewhere an idle caller may always start a call.

The mutants listed in `PROJECT.json`, each a plausible slip in the mapped code, show
for each property that it is sensitive to the code it is about.

## Fairness

`FairSpec` has weak fairness for each call's own next step: the service is
straight-line code, and a call that is not stopped by a crash executes it.
`Start`, crashes, policy changes and time have no fairness. For recovery the
package gives nothing: `recover_stale_dispatching` runs when an operator's job
calls it. `DispatchingEnds` therefore assumes an adopter that calls it again and
again with a cutoff that advances, and strong fairness for the job's steps: a job
whose process ends is started again, and not always stopped at the same step.
Without it a crash after a claim leaves the intent dispatching for ever.
`CallsReturn` needs no recovery; it is checked beside it because recovery, like
another call, may take the intent away from a call that is under way.

A job of the release workflow has weak fairness for its steps: every request of the
script and the publish action have timeouts, and the script's polling is bounded by
`POSTFLIGHT_ATTEMPTS`. Nothing else has fairness: nobody has to start a job, and
PyPI need never show the version.

## Proofs

TLAPS checks the theorems for every value of the constants: any number of
callers, intents, scopes, requests, jobs, writers, readers, editors and events, any
clock and any set of failures, under the assumptions the modules name
(`MongoAssumption`, `ServiceAssumption`, `LogAssumption`, `PolicyAssumption`,
`SessionAssumption`, `CatalogAssumption`, `RequestsAssumption`, `SendsAssumption`,
`ReleaseAssumption`). They say that the constants have their types, that a redaction
marker is no text a caller passes, and, in `SendsAssumption`, which requests
there are: those an alias and a mapping can make. TLC evaluates them in every run.

### The service (`MessagingServiceProofs`)

| Theorem | Says |
| --- | --- |
| `Invariance` | `IInv` is invariant |
| `TypeCorrect` | documents, calls and batches keep their shapes |
| `IntentSentOnce` | no intent is handed to the provider twice, with or without the index |
| `OneIntentPerScope`, `ScopeSentOnce` | with the unique index a scope has one intent and is worth one provider call |
| `RecordedOutcomeIsTrue` | accepted was taken by the provider, rejected was not |
| `IntentsDoNotDisappear` | `IntentStateError` is unreachable |
| `AttemptsAgree` | the attempt history agrees with the state, so `MongoRecordError` is not raised for an intent |
| `OutcomesFinal` | a recorded outcome is never rewritten, no intent goes back a state |
| `HonestReplies` | the kind of a reply tells whether its call reached the provider |
| `PoliciesRespected` | a call about to send was allowed to since it began |
| `DurableResults` | a result returned is and stays the recorded one |
| `OneResultIsFresh` | with the index, one call of a scope at most is told that the outcome is its own |
| `SensitiveStaysClosed` | a pending sensitive intent is not touched again once its creator is over (without the index: once every call is over that created an intent of its scope and read this one back) |
| `NoneOvertaken` | recovery with a cutoff older than any call settles no intent of a running call |
| `LedgerImplemented` | with the index, the service over the Mongo repository implements `IntentLedger` |
| `CallsShorten` | every step of a call leaves it fewer steps, of ten at most; nobody else's step sets it back |
| `CreatedIsFound` | the read that ends `create_if_absent` finds the intent of its scope, however the upsert ended |
| `OnlyRacesMiss` | `claim` and `complete` answer `None` only because another call or a job moved the intent on |
| `DispatchingIsRecoverable` | every dispatching intent is selected by recovery once it is old enough, and `complete` takes it |

"Sent once" is not inductive: a state in which two calls are past their claim of
one intent satisfies it and has a successor that does not. `IInv` adds what the
conditional updates establish:

- `CallOK`: what a call may rely on about its intent at each of its steps. Past
  the claim the document is dispatching or, if recovery came first, unknown; at
  the send nothing was sent; before the completion the result agrees with what
  the provider did.
- `Apart`: no two calls are past the claim of one intent, and the id a call is
  about to insert is nobody else's. The claim's filter (`state` is pending) gives
  the first: a call past its claim has left the document in another state, and
  nothing makes a document pending again.
- `IntentOK`: at most one send per intent, none before the claim, and record and
  provider agree.
- `ScopeUnique` where the index exists.

The proof has a lemma per action. Commands are first reduced to their effect on
the documents (`InsertEffect`, `ClaimEffect`, `CompleteEffect`); steps that write
no document follow from `ReadStep`, those that write one from `WriteStep`, whose
core is that what other calls rely on survives (`CallStable`). The other theorems
rest on `Invariance` and on an invariant of their own, each about one call:

- `HonestCall`: what has happened to the provider at each step of a call, and in
  each reply. `PermittedCall`: past a policy lookup the recipient was allowed, and
  the session open, at some moment of the call.
- `BackedCall`: a call that holds a result has found it in a document of its
  request; with `OutcomesFinal` it stays there. `OneOwner`: of the calls with a
  fresh result for a scope there is one. `CreatorCall`: a call that goes on with a
  sensitive request has created the intent.
- `TimedInv`: a call past its claim started no longer than `CallBound` ago and its
  document says when (`TimedCall`), and what recovery selected is older than that
  (`OldBatch`). If `MinAge > CallBound` the two cannot be one.
- For the refinement, the ledger's state of a scope is that of its only document
  (`FoundIn`, `StateIn`, `OwnerIn`, `SentIn`). Each write of a document is a step of
  the ledger or leaves it alone (`DocumentCreated`, `DocumentMoves`, `MessageHanded`);
  reads stutter. The uniqueness of documents makes the mapping a function, which is
  why the index is an assumption of the theorem.

The last four theorems are the part of `CallsReturn` and `DispatchingEnds` that needs
no fairness. `StepsLeft` is a measure that every step of a call lowers (`CallFollows`
lists where each may lead) and that the steps of others leave alone (`BetweenSteps`):
nothing in `_send` retries. `CountsRead` (a claim has read no attempt, a completion
one) makes the attempts in the filters true of the document, so a filter can only miss
on the state; `DatedPast` (no claim is dated in the future) puts every claim that was
left behind in reach of a later cutoff.

### The send path (`MessageRequestsProofs`, `TemplateSendsProofs`)

| Theorem | Says |
| --- | --- |
| `FingerprintDeterminesPayload` | messages of one fingerprint have one payload, and each has one |
| `SnapshotRestoresMessage` | a message without sensitive content is restored exactly, under any schema it fits |
| `SensitiveIsNotRestored` | a message with sensitive content is never restored |
| `SnapshotIsRedacted` | a snapshot keeps all of a message but the sensitive texts |
| `SendsInvariance` | `SendsInv` is invariant |
| `OnePost` | with the index, Meta gets at most one POST of an idempotency key |
| `RecordIsMetas` | an intent accepted was taken by Meta; one rejected was not and never will be |
| `RetriesAreSafe` | only a message Meta refused is marked as retriable |
| `SentAsAsked` | a call's result is about the payload of the message it asked for |
| `StoredIsRestored`, `SecretsStayOut` | what is stored is restored as asked or, if sensitive, never; and holds no secret |
| `AlwaysPosts` | a call that claimed an intent has a payload: the adapter's answer "unsupported" is unreachable |
| `BodyIsReported` | of a webhook body of any length the events are those of all its statuses about messages, if it is signed and everything in it is sound, and none otherwise |
| `EventsAreTrue`, `RecordsAgree` | an event is about a message Meta took; that message is on record as dispatching, accepted or unknown, never as one that was not sent |
| `ServiceImplemented` | `TemplateSends` implements `MessagingService` (`ImplementsService`) |
| `PromisesKept`, `LedgerKept` | so replies are honest, policies respected, results durable and outcomes final in it, `IntentStateError` is unreachable and sensitive intents stay closed, in the sense of `SensitiveStaysClosed`; and, with the index, it implements `IntentLedger` |
| `CatalogKept` | it also implements `TemplateCatalog`: no revision is won twice and supported aliases are read, while calls run |
| `SendsTypeCorrect` | everything keeps its type |

Every step of `TemplateSends` is a step of `MessagingService` or leaves its variables
alone (`NextIsService`): a call that is refused early has not begun, `Post` and
`MetaDecides` are inside the provider call, and `PostEnds` is `Dispatch`. That it is
takes the invariant, for `Dispatch` is a provider that tells the truth, and the
adapter answers "accepted" only when Meta took the message and "rejected" only when it
refused it. So `IInv` and every theorem of the service carry over; the catalog's do by
the instance `Editing` of its proofs, once the aliases of `MessageRequests` are shown to
be among those it assumes (`CatalogIsAsAssumed`). `SendsInv` adds
`CallAsks` (the message a call holds is what its request asks, and a call at the
send has posted nothing yet), `SnapshotOK` (a snapshot is one of a message of the
document's fingerprint) and `PostOK` (a POST is of the payload of such a message,
and record and retriable flag agree with Meta's decision). Several messages have one
fingerprint; `FingerprintDeterminesPayload` is what makes them one for Meta.

`BodyIsReported` is an induction over the changes of a body, and over the statuses of
each. The library's induction theorems take a predicate, which the provers cannot
instantiate; the same is had with a set in its place (`NatsBySet`), which the
well-foundedness of `<` on the naturals gives, and the sequence a body's parts make
when put together is pinned down without recursion (`Joins`, `PartsUpTo`). The parser
is then shown to tell those of `Told` and no other.

### Policies, sessions, catalog, release

| Module | Theorems |
| --- | --- |
| `EvidenceLogProofs` | `LogTypeCorrect`, `EventsRecordedOnce`, `FieldsFollowHistory`, `AnswersTrue`: the shapes; each event once; flags follow the history; a writer's answer is true |
| `RecipientPolicyProofs` | `RevocationsLast`: only a grant or clearance never recorded before makes a recipient eligible again |
| `TextSessionProofs` | `ActiveSessionsAreBacked`: a session reported active rests on the last evidence read and had not expired at the clock read |
| `TemplateCatalogProofs` | `CatalogTypeCorrect`, `OwnersAreUnique`, `SupportedAreRead`, `RevisionsTell`: the shapes; no revision is won twice; supported aliases are read; no change without a revision |
| `ReleaseProofs` | `Types`, `Frozen`, `Green`, `OneJob`: the shapes; only frozen bytes of a trusted commit; green means published; one job uploads |

For the log, `RecordEffect` is the core: a step leaves a document's history and
fields alone or appends one event, of an id not recorded, together with its
fields. `HistoryGrows` makes what a writer saw last. For sessions, `SessionInv` adds
that what a reader holds is the session after the events it has read; the writers'
steps keep it because histories only grow. For the catalog, `CatalogInv` adds
`EndOK`: the revision an editor was told is not ahead of the document's, is nobody
else's, and until the next one the document has what the editor saved. For the
release, `IInv` adds that every page PyPI had says no more than the page of now
(`IndexInv`) and what a job has verified at each of its steps (`JobInv`); an exact
page, however old, then shows what PyPI has.

### Only model-checked

- Liveness (`CallsReturn`, `DispatchingEnds`, `JobEnds`): it needs fairness and
  `ENABLED`, which the prover does not handle.

Every other property of a passing run is stated by a theorem. The other way round,
`ImplementsService` is proved and no run repeats it: to find the step of the service
behind each of seven million steps takes TLC too long. The type invariants of the
catalog, the release and the service are proved and not repeated in the runs on their
own (`IInv`, which `policy` checks, contains the service's).

## Where the code and its documentation disagree

- **`post_dispatch`.** `PostDispatchPersistenceError` says of itself "Provider
  invocation occurred but its result could not be persisted"
  (`service_contracts.py:246`). The service raises it whenever `complete()` raises
  after the provider was called. If Mongo applied the update and its reply was
  lost, the result *is* persisted and a repeated call replays it. What holds
  instead is `RepliesAreHonest`: the error says that the provider was called.
- **`template_shapes`.** `TemplateCatalog.get` is to "return the exact alias
  registered under *template_key*" (`ports.py:17`). `save()` accepts any
  `TemplateAlias`; one with a sensitive body and no button goes under schema 3, and
  the rules of reading want sensitive content *and* a button there
  (`mongo.py:1187`). A creation returns revision 1 and every `get()` then raises
  `MongoRecordError`; an update raises after it has replaced the alias. An alias
  that has both sensitive content and an image header is refused likewise.
  `SupportedIsRead` holds for the three shapes the rules know.
- **`template_deactivate`.** The filter of `deactivate()` names schema version 1
  (`mongo.py:1297`), that of `save()` accepts all three. An image or authentication
  alias cannot be deactivated: the call raises "Mongo template revision conflicts
  with the stored alias" although the revision is the stored one.

## What is not modelled

- Argument validation and the fields of the dataclasses: pure, they raise before the
  first step. Phone numbers are model values: `normalize_phone_number` is a pure
  function over characters that applications call before they use the service, which
  only validates.
- `DispatchResult` fields beyond the outcome, error messages, and in the service the
  error categories (`MetaCloud` has them). `Retry-After` is carried and decides
  nothing.
- The strictness of `deserialize_request`, `_validate_attempts` and the other readers
  about documents the package did not write, and of JSON as such.
- The structure of wheel and sdist, which the pinned digest implies; arguments,
  JSON and URLs of the release script.
- `ensure_indexes` itself: one idempotent command per index, before any use. The
  registration of providers, before any send.
- The deletion of files or of a version on PyPI: `GreenMeansPublished` says that the
  version was published, not that it is still there.
- The growth of event arrays, which `src/README.md` leaves to adopters.
- The order of policy events by `occurred_at_epoch`: the code does not compare it, so
  a late grant undoes a newer revocation, and no document of the repository says
  otherwise.
- Redelivery of webhooks: one malformed status discards the sound events beside it,
  and that Meta sends them again is not in this code.
- A provider that lies, and an adapter that raises `ProviderNotFoundError` after it
  has reached the network.
- The in-memory catalog, policies and repository and the fake provider, which serve
  tests, each under one lock or immutable; build configuration and the package
  surface.

## Plan

Done: the intent protocol with its abstract ledger, its safety proofs, the
refinement and liveness; both policies' write protocol, sessions and the catalog
with their proofs; requests and their forms; the Meta adapter and webhooks, composed
with the service and the catalog, the composition shown to implement both; the release
workflow.

Left:

1. *The policy collections composed into the service*, in place of the sets of
   `MessagingService`. `PolicyRespected` already lets consent change at any moment
   between the evaluation and the send; the composition would add the two reads of
   `has_active_session` to a call.
