----------------------------- MODULE EvidenceLog -----------------------------
(***************************************************************************)
(* The write protocol that MongoRecipientEligibilityPolicy._apply and      *)
(* MongoTextSessionPolicy.open_session share.  A document per key holds    *)
(* the events recorded for it and the fields those events set.  A writer   *)
(* ensures the document, reads it, and appends its event by one update     *)
(* that is conditional on the event's id; writers of many processes do so  *)
(* at once, again and again, with the same event or with another one that  *)
(* has the same id.  As in MongoIntents a command may fail, and a write    *)
(* may be applied and its reply lost.                                      *)
(***************************************************************************)
EXTENDS Naturals, Sequences, FiniteSets

CONSTANTS
  Keys,       \* the documents' keys: a recipient, or a recipient's session
  Events,     \* events writers may bring, by all their evidence
  KeyOf,      \* KeyOf[e]: the document event e is for
  IdOf,       \* IdOf[e]: its event_id
  Fields,     \* the fields events set
  Values,     \* the values of fields
  Default,    \* Default[f]: the value of $setOnInsert
  Sets,       \* Sets[e]: the fields event e sets, with their values
  Writers,    \* processes that record events
  Evaluates,  \* TRUE iff a call reads the document again for its answer
  Faults      \* which failures happen

ASSUME LogAssumption ==
  /\ KeyOf \in [Events -> Keys]
  /\ IdOf \in [Events -> Nat]
  /\ Default \in [Fields -> Values]
  /\ \A e \in Events : /\ DOMAIN Sets[e] \subseteq Fields
                       /\ \A f \in DOMAIN Sets[e] : Sets[e][f] \in Values
  /\ Evaluates \in BOOLEAN
  /\ Faults \subseteq {"fails", "lost", "crash"}

VARIABLES
  record,   \* record[k]: the document of key k
  writer    \* writer[w]: the call writer w is in, or how its last one ended

logVars == <<record, writer>>

Replies == {"none", "done", "conflict", "unavailable"}

Record == [stored : BOOLEAN, state : [Fields -> Values], events : Seq(Events)]
Writing == [pc : {"idle", "ensure", "read", "update", "raced", "evaluate"},
            event : Events, reply : Replies]

LogInit ==
  /\ record = [k \in Keys |-> [stored |-> FALSE, state |-> Default, events |-> <<>>]]
  /\ writer \in [Writers -> [pc : {"idle"}, event : Events, reply : {"none"}]]

-----------------------------------------------------------------------------
Event(w) == writer[w].event
Document(w) == record[KeyOf[Event(w)]]
In(e, events) == \E n \in DOMAIN events : events[n] = e

\* An event of e's id is recorded.
Known(e, events) == \E n \in DOMAIN events : IdOf[events[n]] = IdOf[e]

Step(w, pc) == writer' = [writer EXCEPT ![w].pc = pc]
End(w, reply) == writer' = [writer EXCEPT ![w].pc = "idle", ![w].reply = reply]
Fails(w) == "fails" \in Faults /\ End(w, "unavailable")

\* The event is recorded; the policy's answer is a fresh evaluate().
Succeed(w) == IF Evaluates THEN Step(w, "evaluate") ELSE End(w, "done")

Begin(w, e) ==
  /\ writer[w].pc = "idle"
  /\ writer' = [writer EXCEPT ![w] = [pc |-> "ensure", event |-> e, reply |-> "none"]]
  /\ UNCHANGED record

\* ensure_and_read: update_one(scope, {$setOnInsert: initial}, upsert = True)
Ensure(w) ==
  /\ writer[w].pc = "ensure"
  /\ \/ /\ record' = [record EXCEPT ![KeyOf[Event(w)]].stored = TRUE]
        /\ Step(w, "read") \/ ("lost" \in Faults /\ End(w, "unavailable"))
     \/ Fails(w) /\ UNCHANGED record

\* Mutant: an event of the same id passes for the same event.
SameIdIsSame(w) ==
  IF Known(Event(w), Document(w).events) THEN Succeed(w) ELSE End(w, "conflict")

\* An event of the same id is recorded: this one, or conflicting evidence.
Compare(w) ==
  IF In(Event(w), Document(w).events) THEN Succeed(w) ELSE End(w, "conflict")

\* ensure_and_read: find_one(scope), and the search of the events read
Read(w) ==
  /\ writer[w].pc = "read"
  /\ \/ Fails(w)
     \/ Known(Event(w), Document(w).events) /\ Compare(w)
     \/ ~Known(Event(w), Document(w).events) /\ Step(w, "update")
  /\ UNCHANGED record

\* Mutant: the update does not look at the event's id.
MatchesAlways(w) == TRUE

\* The filter's {"events.event_id": {$ne: event_id}}
Matches(w) == ~Known(Event(w), Document(w).events)

\* Mutant: fields the event does not set are reset.
AssignAll(state, e) ==
  [f \in Fields |-> IF f \in DOMAIN Sets[e] THEN Sets[e][f] ELSE Default[f]]

\* Mutant: the update replaces the fields.
AssignOnly(state, e) == Sets[e]

\* $set
Assign(state, e) ==
  [f \in Fields |-> IF f \in DOMAIN Sets[e] THEN Sets[e][f] ELSE state[f]]

\* find_one_and_update: $set and $push in one command
Update(w) ==
  /\ writer[w].pc = "update"
  /\ LET e == Event(w) IN
       \/ /\ Matches(w)
          /\ record' = [record EXCEPT ![KeyOf[e]] =
               [stored |-> TRUE, state |-> Assign(@.state, e), events |-> Append(@.events, e)]]
          /\ Succeed(w) \/ ("lost" \in Faults /\ End(w, "unavailable"))
       \/ /\ UNCHANGED record
          /\ Fails(w) \/ (~Matches(w) /\ Step(w, "raced"))

\* The update matched nothing: find_one(scope) once more
Raced(w) ==
  /\ writer[w].pc = "raced"
  /\ Fails(w) \/ Compare(w)
  /\ UNCHANGED record

\* evaluate() of the answer, which says what is recorded by then
Evaluate(w) ==
  /\ writer[w].pc = "evaluate"
  /\ Fails(w) \/ End(w, "done")
  /\ UNCHANGED record

WriterCrash(w) ==
  /\ "crash" \in Faults
  /\ writer[w].pc # "idle"
  /\ End(w, "none")
  /\ UNCHANGED record

WriterStep(w) ==
  \/ \E e \in Events : Begin(w, e)
  \/ Ensure(w) \/ Read(w) \/ Update(w) \/ Raced(w) \/ Evaluate(w) \/ WriterCrash(w)

LogNext == \E w \in Writers : WriterStep(w)

LogSpec == LogInit /\ [][LogNext]_logVars

-----------------------------------------------------------------------------
LogTypeOK ==
  /\ record \in [Keys -> Record]
  /\ writer \in [Writers -> Writing]

(***************************************************************************)
(* However often an event is brought, and by however many writers at once, *)
(* it is recorded once, and no second event is recorded under its id.      *)
(***************************************************************************)
RecordedOnce ==
  \A k \in Keys : LET events == record[k].events IN
    \A m, n \in DOMAIN events : IdOf[events[m]] = IdOf[events[n]] => m = n

(***************************************************************************)
(* A document agrees with its history: every field has the value the last  *)
(* event that sets it gave it, or its default.  A document for which this  *)
(* fails can be neither evaluated nor written any more: reading it raises  *)
(* MongoRecordError.                                                       *)
(***************************************************************************)
Setters(events, f) == {n \in DOMAIN events : f \in DOMAIN Sets[events[n]]}

FieldsAreLatest ==
  \A k \in Keys, f \in Fields :
    LET events == record[k].events
        setters == Setters(events, f)
    IN \/ setters = {} /\ record[k].state[f] = Default[f]
       \/ \E n \in setters : /\ \A m \in setters : m <= n
                             /\ record[k].state[f] = Sets[events[n]][f]

(***************************************************************************)
(* A call that returned normally has its very evidence on record, and one  *)
(* that raised the conflict has other evidence there under its event id.   *)
(* (A call that raised anything else tells its caller nothing: to bring    *)
(* the event again is safe, RecordedOnce says.)                            *)
(***************************************************************************)
AnswersAreTrue ==
  \A w \in Writers :
    LET e == Event(w)
        events == Document(w).events
    IN /\ writer[w].reply = "done" => In(e, events)
       /\ writer[w].reply = "conflict" => Known(e, events) /\ ~In(e, events)
=============================================================================
