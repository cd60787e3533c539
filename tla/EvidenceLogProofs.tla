-------------------------- MODULE EvidenceLogProofs --------------------------
(***************************************************************************)
(* Invariance proofs for EvidenceLog, for any documents, events, writers   *)
(* and failures, and hence for both policies that follow its protocol.     *)
(***************************************************************************)
EXTENDS EvidenceLog, SequenceTheorems, TLAPS

-----------------------------------------------------------------------------
(* Steps.                                                                  *)

(* $set gives every field a value.                                         *)
LEMMA AssignType ==
  ASSUME NEW state \in [Fields -> Values], NEW e \in Events
  PROVE  Assign(state, e) \in [Fields -> Values]
BY LogAssumption DEF Assign

(* A writer's own step leaves its record a record of a call.                *)
LEMMA WriterType ==
  ASSUME LogTypeOK, NEW w \in Writers,
         NEW pc \in {"idle", "ensure", "read", "update", "raced", "evaluate"},
         NEW reply \in Replies
  PROVE  /\ Step(w, pc) => writer' \in [Writers -> Writing]
         /\ End(w, reply) => writer' \in [Writers -> Writing]
BY DEF LogTypeOK, Writing, Step, End

LEMMA SucceedType ==
  ASSUME LogTypeOK, NEW w \in Writers
  PROVE  /\ Succeed(w) => writer' \in [Writers -> Writing]
         /\ Compare(w) => writer' \in [Writers -> Writing]
         /\ Fails(w) => writer' \in [Writers -> Writing]
BY WriterType DEF Succeed, Compare, Fails, Replies

(* The one command that adds an event.                                     *)
Appends(w) ==
  /\ Matches(w)
  /\ record' = [record EXCEPT ![KeyOf[Event(w)]] =
       [stored |-> TRUE, state |-> Assign(@.state, Event(w)),
        events |-> Append(@.events, Event(w))]]

(* What a writer's step may do to the documents: nothing, mark one as      *)
(* stored, or append the writer's event while its id is not recorded.      *)
LEMMA RecordStep ==
  ASSUME NEW w \in Writers, WriterStep(w)
  PROVE  \/ UNCHANGED record
         \/ record' = [record EXCEPT ![KeyOf[Event(w)]].stored = TRUE]
         \/ Appends(w)
BY DEF WriterStep, Begin, Ensure, Read, Update, Raced, Evaluate, WriterCrash, Appends

(* The same, from the documents' side: the types, and what each document   *)
(* becomes.                                                                *)
LEMMA RecordEffect ==
  ASSUME LogTypeOK, NEW w \in Writers, WriterStep(w), NEW k \in Keys
  PROVE  /\ record' \in [Keys -> Record]
         /\ \/ /\ record'[k].state = record[k].state
               /\ record'[k].events = record[k].events
            \/ /\ Event(w) \in Events /\ ~Known(Event(w), record[k].events)
               /\ record'[k].state = Assign(record[k].state, Event(w))
               /\ record'[k].events = Append(record[k].events, Event(w))
<1>1. Event(w) \in Events /\ KeyOf[Event(w)] \in Keys
  BY LogAssumption DEF LogTypeOK, Writing, Event
<1>2. record \in [Keys -> Record]
  BY DEF LogTypeOK
<1>3. CASE UNCHANGED record
  BY <1>2, <1>3
<1>4. CASE record' = [record EXCEPT ![KeyOf[Event(w)]].stored = TRUE]
  BY <1>1, <1>2, <1>4 DEF Record
<1>5. CASE Appends(w)
  <2> DEFINE key == KeyOf[Event(w)]
             d == record[key]
  <2>1. d \in Record
    BY <1>1, <1>2
  <2>2. /\ Append(d.events, Event(w)) \in Seq(Events)
        /\ Assign(d.state, Event(w)) \in [Fields -> Values]
    BY <1>1, <2>1, AssignType DEF Record
  <2>3. record'[key] = [stored |-> TRUE, state |-> Assign(d.state, Event(w)),
                        events |-> Append(d.events, Event(w))]
    BY <1>1, <1>2, <1>5 DEF Appends
  <2>4. \A x \in Keys : x # key => record'[x] = record[x]
    BY <1>1, <1>2, <1>5 DEF Appends
  <2>5. record' \in [Keys -> Record]
    <3>1. record'[key] \in Record
      BY <2>2, <2>3 DEF Record
    <3> QED
      BY <1>1, <1>2, <1>5, <3>1, <2>4 DEF Appends
  <2>6. ~Known(Event(w), record[key].events)
    BY <1>5 DEF Appends, Matches, Document
  <2> QED
    BY <1>1, <2>3, <2>4, <2>5, <2>6
<1> QED
  BY <1>3, <1>4, <1>5, RecordStep

LEMMA LogTypeStep ==
  ASSUME LogTypeOK, NEW w \in Writers, WriterStep(w)
  PROVE  LogTypeOK'
<1>1. record' \in [Keys -> Record]
  <2>1. CASE Keys = {}
    <3>1. KeyOf[Event(w)] \in Keys
      BY LogAssumption DEF LogTypeOK, Writing, Event
    <3> QED
      BY <2>1, <3>1
  <2>2. CASE \E k \in Keys : TRUE
    BY <2>2, RecordEffect
  <2> QED
    BY <2>1, <2>2
<1>2. writer' \in [Writers -> Writing]
  <2>1. ASSUME NEW e \in Events, Begin(w, e)
        PROVE  writer' \in [Writers -> Writing]
    BY <2>1 DEF Begin, LogTypeOK, Writing, Replies
  <2>2. CASE Ensure(w) \/ Read(w) \/ Raced(w) \/ Evaluate(w) \/ WriterCrash(w)
    BY <2>2, WriterType, SucceedType
    DEF Ensure, Read, Raced, Evaluate, WriterCrash, Replies
  <2>3. CASE Update(w)
    BY <2>3, WriterType, SucceedType DEF Update, Replies
  <2> QED
    BY <2>1, <2>2, <2>3 DEF WriterStep
<1> QED
  BY <1>1, <1>2 DEF LogTypeOK

(* Every document and call is what the code builds.                        *)
THEOREM LogTypeCorrect == LogSpec => []LogTypeOK
<1>1. LogInit => LogTypeOK
  <2> SUFFICES ASSUME LogInit PROVE LogTypeOK
    OBVIOUS
  <2>1. <<>> \in Seq(Events)
    OBVIOUS
  <2> QED
    BY <2>1, LogAssumption DEF LogInit, LogTypeOK, Record, Writing, Replies
<1>2. LogTypeOK /\ [LogNext]_logVars => LogTypeOK'
  BY LogTypeStep DEF LogNext, logVars, LogTypeOK
<1> QED
  BY <1>1, <1>2, PTL DEF LogSpec

-----------------------------------------------------------------------------
(* Histories.                                                              *)

(* However often and by however many writers an event is brought, it is    *)
(* recorded once, and no other event is recorded under its id: _apply and  *)
(* open_session may be repeated whenever their caller does not know.       *)
THEOREM EventsRecordedOnce == LogSpec => []RecordedOnce
<1>1. LogInit => RecordedOnce
  BY DEF LogInit, RecordedOnce
<1>2. LogTypeOK /\ RecordedOnce /\ [LogNext]_logVars => RecordedOnce'
  <2> SUFFICES ASSUME LogTypeOK, RecordedOnce, LogNext, NEW k \in Keys
               PROVE  LET events == record'[k].events IN
                      \A m, n \in DOMAIN events : IdOf[events[m]] = IdOf[events[n]] => m = n
    BY DEF logVars, RecordedOnce
  <2>1. PICK w \in Writers : WriterStep(w)
    BY DEF LogNext
  <2>2. record[k].events \in Seq(Events)
    BY DEF LogTypeOK, Record
  <2>3. CASE record'[k].events = record[k].events
    BY <2>3 DEF RecordedOnce
  <2>4. CASE /\ Event(w) \in Events /\ ~Known(Event(w), record[k].events)
             /\ record'[k].events = Append(record[k].events, Event(w))
    BY <2>2, <2>4 DEF RecordedOnce, Known
  <2> QED
    BY <2>1, <2>3, <2>4, RecordEffect
<1> QED
  BY <1>1, <1>2, LogTypeCorrect, PTL DEF LogSpec

(* A document's fields are those of its history: the flags of a policy and *)
(* the session are written by the update that appends the event, so that   *)
(* reading a document back never raises MongoRecordError.                  *)
THEOREM FieldsFollowHistory == LogSpec => []FieldsAreLatest
<1>1. LogInit => FieldsAreLatest
  BY DEF LogInit, FieldsAreLatest, Setters
<1>2. LogTypeOK /\ FieldsAreLatest /\ [LogNext]_logVars => FieldsAreLatest'
  <2> SUFFICES ASSUME LogTypeOK, FieldsAreLatest, LogNext, NEW k \in Keys, NEW f \in Fields
               PROVE  LET events == record'[k].events
                          setters == Setters(events, f)
                      IN \/ setters = {} /\ record'[k].state[f] = Default[f]
                         \/ \E n \in setters : /\ \A m \in setters : m <= n
                                               /\ record'[k].state[f] = Sets[events[n]][f]
    BY DEF logVars, FieldsAreLatest, Setters
  <2>1. PICK w \in Writers : WriterStep(w)
    BY DEF LogNext
  <2> DEFINE events == record[k].events
             e == Event(w)
  <2>2. events \in Seq(Events) /\ record[k].state \in [Fields -> Values]
    BY DEF LogTypeOK, Record
  <2>3. CASE record'[k].events = events /\ record'[k].state = record[k].state
    BY <2>3 DEF FieldsAreLatest
  <2>4. CASE /\ e \in Events
             /\ record'[k].state = Assign(record[k].state, e)
             /\ record'[k].events = Append(events, e)
    <3>1. /\ DOMAIN Append(events, e) = 1..(Len(events) + 1)
          /\ DOMAIN events = 1..Len(events) /\ Len(events) \in Nat
          /\ Append(events, e)[Len(events) + 1] = e
          /\ \A n \in DOMAIN events : Append(events, e)[n] = events[n]
      BY <2>2, <2>4
    <3>2. CASE f \in DOMAIN Sets[e]
      <4>1. record'[k].state[f] = Sets[e][f]
        BY <2>4, <3>2 DEF Assign
      <4>2. /\ Len(events) + 1 \in Setters(Append(events, e), f)
            /\ \A m \in Setters(Append(events, e), f) : m <= Len(events) + 1
        BY <3>1, <3>2 DEF Setters
      <4> QED
        BY <2>4, <3>1, <4>1, <4>2
    <3>3. CASE f \notin DOMAIN Sets[e]
      <4>1. record'[k].state[f] = record[k].state[f]
        BY <2>4, <3>3 DEF Assign
      <4>2. Setters(Append(events, e), f) = Setters(events, f)
        BY <3>1, <3>3 DEF Setters
      <4>3. \A n \in Setters(events, f) : Append(events, e)[n] = events[n]
        BY <3>1 DEF Setters
      <4>4. \/ Setters(events, f) = {} /\ record[k].state[f] = Default[f]
            \/ \E n \in Setters(events, f) : /\ \A m \in Setters(events, f) : m <= n
                                            /\ record[k].state[f] = Sets[events[n]][f]
        BY DEF FieldsAreLatest
      <4>5. CASE Setters(events, f) = {} /\ record[k].state[f] = Default[f]
        BY <2>4, <4>1, <4>2, <4>5
      <4>6. ASSUME NEW n \in Setters(events, f), \A m \in Setters(events, f) : m <= n,
                   record[k].state[f] = Sets[events[n]][f]
            PROVE  /\ \A m \in Setters(Append(events, e), f) : m <= n
                   /\ record'[k].state[f] = Sets[Append(events, e)[n]][f]
        BY <4>1, <4>2, <4>3, <4>6
      <4> QED
        BY <2>4, <4>2, <4>4, <4>5, <4>6
    <3> QED
      BY <3>2, <3>3
  <2> QED
    BY <2>1, <2>3, <2>4, RecordEffect
<1> QED
  BY <1>1, <1>2, LogTypeCorrect, PTL DEF LogSpec

-----------------------------------------------------------------------------
(* Answers.                                                                *)

(* A history that grows by an event of a new id keeps its events, and who  *)
(* conflicts with it conflicts with it for good.                           *)
LEMMA HistoryGrows ==
  ASSUME NEW events \in Seq(Events), NEW e \in Events, NEW f \in Events, ~Known(f, events)
  PROVE  /\ In(f, Append(events, f))
         /\ In(e, events) => In(e, Append(events, f))
         /\ Known(e, events) => Known(e, Append(events, f))
         /\ Known(e, events) /\ ~In(e, events) => ~In(e, Append(events, f))
<1>1. /\ DOMAIN Append(events, f) = 1..(Len(events) + 1)
      /\ DOMAIN events = 1..Len(events) /\ Len(events) \in Nat
      /\ Append(events, f)[Len(events) + 1] = f
      /\ \A n \in DOMAIN events : Append(events, f)[n] = events[n]
  OBVIOUS
<1>2. \A n \in DOMAIN Append(events, f) : n \in DOMAIN events \/ n = Len(events) + 1
  BY <1>1
<1>3. DOMAIN events \subseteq DOMAIN Append(events, f)
  BY <1>1
<1>4. In(f, Append(events, f))
  BY <1>1 DEF In
<1>5. In(e, events) => In(e, Append(events, f))
  BY <1>1, <1>3 DEF In
<1>6. Known(e, events) => Known(e, Append(events, f))
  BY <1>1, <1>3 DEF Known
<1>7. Known(e, events) /\ ~In(e, events) => ~In(e, Append(events, f))
  BY <1>1, <1>2 DEF Known, In
<1> QED
  BY <1>4, <1>5, <1>6, <1>7

(* What a call knows of the history at its steps, and tells its caller.    *)
Kept(m, events) ==
  /\ m.pc = "evaluate" \/ m.reply = "done" => In(m.event, events)
  /\ m.pc = "raced" => Known(m.event, events)
  /\ m.reply = "conflict" => Known(m.event, events) /\ ~In(m.event, events)

AnswersKept == \A w \in Writers : Kept(writer[w], Document(w).events)

(* It stays true whoever writes.                                           *)
LEMMA KeptStable ==
  ASSUME LogTypeOK, NEW w \in Writers, WriterStep(w), NEW v \in Writers,
         Kept(writer[v], Document(v).events)
  PROVE  Kept(writer[v], record'[KeyOf[Event(v)]].events)
<1>1. Event(v) \in Events /\ KeyOf[Event(v)] \in Keys /\ Event(v) = writer[v].event
  BY LogAssumption DEF LogTypeOK, Writing, Event
<1>2. Document(v).events \in Seq(Events)
  BY <1>1 DEF LogTypeOK, Record, Document
<1>3. \/ record'[KeyOf[Event(v)]].events = Document(v).events
      \/ /\ Event(w) \in Events /\ ~Known(Event(w), Document(v).events)
         /\ record'[KeyOf[Event(v)]].events = Append(Document(v).events, Event(w))
  BY <1>1, RecordEffect DEF Document
<1>4. CASE record'[KeyOf[Event(v)]].events = Document(v).events
  BY <1>4
<1>5. CASE /\ Event(w) \in Events /\ ~Known(Event(w), Document(v).events)
           /\ record'[KeyOf[Event(v)]].events = Append(Document(v).events, Event(w))
  <2> DEFINE before == Document(v).events
             after == Append(before, Event(w))
  <2>1. /\ In(Event(v), before) => In(Event(v), after)
        /\ Known(Event(v), before) => Known(Event(v), after)
        /\ Known(Event(v), before) /\ ~In(Event(v), before) => ~In(Event(v), after)
    BY <1>1, <1>2, <1>5, HistoryGrows
  <2> HIDE DEF before, after
  <2>2. Kept(writer[v], before) => Kept(writer[v], after)
    BY <1>1, <2>1 DEF Kept
  <2> QED
    BY <1>5, <2>2 DEF before, after
<1> QED
  BY <1>3, <1>4, <1>5

(* The writer's own step tells it only what the history it sees says.      *)
LEMMA KeptStep ==
  ASSUME LogTypeOK, AnswersKept, NEW w \in Writers, WriterStep(w), NEW v \in Writers
  PROVE  Kept(writer'[v], record'[KeyOf[writer'[v].event]].events)
<1>1. writer \in [Writers -> Writing] /\ Event(w) \in Events
  BY DEF LogTypeOK, Writing, Event
<1>2. Kept(writer[v], record'[KeyOf[Event(v)]].events)
  BY KeptStable DEF AnswersKept
<1>3. CASE v # w
  <2>1. writer'[v] = writer[v]
    BY <1>1, <1>3
    DEF WriterStep, Begin, Ensure, Read, Update, Raced, Evaluate, WriterCrash, Compare,
        Succeed, Fails, Step, End
  <2> QED
    BY <1>2, <2>1 DEF Event
<1>4. CASE v = w
  <2> DEFINE now == record'[KeyOf[Event(w)]].events
  <2>1. ASSUME NEW pc \in {"ensure", "read", "update"}, Step(w, pc)
        PROVE  Kept(writer'[w], now) /\ writer'[w].event = Event(w)
    BY <1>1, <1>2, <1>4, <2>1 DEF Step, Kept, Event, Writing
  <2>2. ASSUME NEW reply \in {"none", "unavailable"}, End(w, reply)
        PROVE  Kept(writer'[w], now) /\ writer'[w].event = Event(w)
    BY <1>1, <2>2 DEF End, Kept, Event, Writing
  <2>3. ASSUME In(Event(w), now), Succeed(w) \/ End(w, "done")
        PROVE  Kept(writer'[w], now) /\ writer'[w].event = Event(w)
    BY <1>1, <1>2, <1>4, <2>3 DEF Succeed, Step, End, Kept, Event, Writing
  <2>4. ASSUME Known(Event(w), Document(w).events), Compare(w), UNCHANGED record
        PROVE  Kept(writer'[w], now) /\ writer'[w].event = Event(w)
    <3>1. now = Document(w).events
      BY <2>4 DEF Document
    <3>2. CASE In(Event(w), Document(w).events)
      BY <2>3, <2>4, <3>1, <3>2 DEF Compare
    <3>3. CASE ~In(Event(w), Document(w).events) /\ End(w, "conflict")
      BY <1>1, <2>4, <3>1, <3>3 DEF End, Kept, Event, Writing
    <3> QED
      BY <2>4, <3>2, <3>3 DEF Compare
  <2>5. ASSUME NEW e \in Events, Begin(w, e)
        PROVE  Kept(writer'[w], record'[KeyOf[writer'[w].event]].events)
    BY <1>1, <2>5 DEF Begin, Kept
  <2>6. CASE Ensure(w)
    BY <2>1, <2>2, <2>6, <1>4 DEF Ensure, Fails, Event
  <2>7. CASE Read(w)
    BY <2>1, <2>2, <2>4, <2>7, <1>4 DEF Read, Fails, Event
  <2>8. CASE Update(w)
    <3>1. CASE Appends(w)
      <4>1. Document(w).events \in Seq(Events) /\ KeyOf[Event(w)] \in Keys
        BY <1>1, LogAssumption DEF LogTypeOK, Record, Document
      <4>2. now = Append(Document(w).events, Event(w))
        BY <3>1, <4>1 DEF Appends, Document, LogTypeOK
      <4>3. In(Event(w), now)
        BY <1>1, <3>1, <4>1, <4>2, HistoryGrows DEF Appends, Matches
      <4>4. Succeed(w) \/ End(w, "unavailable") \/ Step(w, "raced")
        BY <2>8 DEF Update, Fails
      <4>5. CASE Step(w, "raced")
        <5>1. Known(Event(w), now)
          BY <4>3 DEF In, Known
        <5> QED
          BY <1>1, <1>2, <1>4, <4>5, <5>1 DEF Step, Kept, Event, Writing
      <4> QED
        BY <1>4, <2>2, <2>3, <4>3, <4>4, <4>5 DEF Event
    <3>2. CASE UNCHANGED record /\ Fails(w)
      BY <1>4, <2>2, <3>2 DEF Fails, Event
    <3>3. CASE UNCHANGED record /\ ~Matches(w) /\ Step(w, "raced")
      BY <1>1, <1>2, <1>4, <3>3 DEF Matches, Step, Kept, Event, Document, Writing
    <3> QED
      BY <2>8, <3>1, <3>2, <3>3 DEF Update, Appends
  <2>9. CASE Raced(w)
    <3>1. Known(Event(w), Document(w).events)
      BY <2>9 DEF Raced, AnswersKept, Kept, Event
    <3> QED
      BY <1>4, <2>2, <2>4, <2>9, <3>1 DEF Raced, Fails, Event
  <2>10. CASE Evaluate(w)
    <3>1. In(Event(w), now)
      BY <2>10 DEF Evaluate, AnswersKept, Kept, Event, Document
    <3> QED
      BY <1>4, <2>2, <2>3, <2>10, <3>1 DEF Evaluate, Fails, Event
  <2>11. CASE WriterCrash(w)
    BY <1>4, <2>2, <2>11 DEF WriterCrash, Event
  <2> QED
    BY <1>4, <2>5, <2>6, <2>7, <2>8, <2>9, <2>10, <2>11 DEF WriterStep
<1> QED
  BY <1>3, <1>4

(* A normal return means this very evidence is on record, a conflict that  *)
(* other evidence is, whatever other writers did meanwhile.                *)
THEOREM AnswersTrue == LogSpec => []AnswersAreTrue
<1>1. LogInit => AnswersKept
  BY DEF LogInit, AnswersKept, Kept
<1>2. LogTypeOK /\ AnswersKept /\ [LogNext]_logVars => AnswersKept'
  <2>1. LogTypeOK /\ AnswersKept /\ UNCHANGED logVars => AnswersKept'
    BY DEF logVars, AnswersKept, Document, Event
  <2>2. ASSUME LogTypeOK, AnswersKept, NEW w \in Writers, WriterStep(w)
        PROVE  AnswersKept'
    BY <2>2, KeptStep DEF AnswersKept, Document, Event
  <2> QED
    BY <2>1, <2>2 DEF LogNext
<1>3. AnswersKept => AnswersAreTrue
  BY DEF AnswersKept, AnswersAreTrue, Kept, Event
<1> QED
  BY <1>1, <1>2, <1>3, LogTypeCorrect, PTL DEF LogSpec
=============================================================================
