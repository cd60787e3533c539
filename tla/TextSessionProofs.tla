------------------------- MODULE TextSessionProofs -------------------------
(***************************************************************************)
(* What a session reported as active rests on, for any recipients, events, *)
(* purposes, writers and readers, and any time between the two reads.      *)
(***************************************************************************)
EXTENDS TextSession, EvidenceLogProofs

Reading == [pc : {"idle", "read"}, key : Keys, purpose : Purposes, session : Sessions,
            read : Nat, answer : BOOLEAN, at : 0..LastTime]

\* The session that the first n events leave.
SessionAfter(events, n) == IF n = 0 THEN Default["session"] ELSE Sets[events[n]]["session"]

\* A reader holds the session of the history it saw, and answers from it.
Holds(m, events) ==
  /\ m.read <= Len(events)
  /\ m.session = SessionAfter(events, m.read)
  /\ m.answer => Active(m.session, m.purpose, m.at)

ReaderOK(m) == Holds(m, record[m.key].events)

SessionInv ==
  /\ LogTypeOK
  /\ clock \in 0..LastTime
  /\ reader \in [Readers -> Reading]
  /\ \A k \in Keys :
       record[k].state["session"] = SessionAfter(record[k].events, Len(record[k].events))
  /\ \A q \in Readers : ReaderOK(reader[q])

(* An event on record sets the whole session.                              *)
LEMMA EventSets ==
  ASSUME NEW e \in Events
  PROVE  /\ Sets[e]["session"] = [purposes |-> PurposesOf[e], opened |-> OpensAt[e],
                                  expires |-> ExpiresAt[e]]
         /\ \A state \in [Fields -> Values] : Assign(state, e)["session"] = Sets[e]["session"]
<1>1. Fields = {"session"} /\ Sets = SessionSets
  BY SessionAssumption DEF SessionFields
<1>2. Sets[e] = [f \in {"session"} |-> [purposes |-> PurposesOf[e], opened |-> OpensAt[e],
                                        expires |-> ExpiresAt[e]]]
  BY <1>1 DEF SessionSets, SessionFields
<1> QED
  BY <1>1, <1>2 DEF Assign

(* A history grows at its end.                                             *)
LEMMA HistoryKeeps ==
  ASSUME LogTypeOK, NEW w \in Writers, WriterStep(w), NEW k \in Keys, NEW n \in Nat,
         n <= Len(record[k].events)
  PROVE  /\ n <= Len(record'[k].events)
         /\ SessionAfter(record'[k].events, n) = SessionAfter(record[k].events, n)
<1>1. record[k].events \in Seq(Events)
  BY DEF LogTypeOK, Record
<1>2. CASE record'[k].events = record[k].events
  BY <1>2
<1>3. CASE Event(w) \in Events /\ record'[k].events = Append(record[k].events, Event(w))
  <2> DEFINE events == record[k].events
             e == Event(w)
  <2>1. events \in Seq(Events) /\ e \in Events /\ record'[k].events = Append(events, e)
    BY <1>1, <1>3
  <2> HIDE DEF events, e
  <2>2. /\ Len(Append(events, e)) = Len(events) + 1 /\ Len(events) \in Nat
        /\ \A i \in 1..Len(events) : Append(events, e)[i] = events[i]
    BY <2>1
  <2>3. n <= Len(events)
    BY DEF events
  <2>4. n # 0 => Append(events, e)[n] = events[n]
    BY <2>2, <2>3
  <2>5. n <= Len(Append(events, e))
    BY <2>2, <2>3
  <2>6. SessionAfter(Append(events, e), n) = SessionAfter(events, n)
    BY <2>4 DEF SessionAfter
  <2> QED
    BY <2>1, <2>5, <2>6 DEF events
<1> QED
  BY <1>2, <1>3, RecordEffect

(* The document has the session of its last event.                         *)
LEMMA LatestSession ==
  ASSUME LogTypeOK, NEW w \in Writers, WriterStep(w), NEW k \in Keys,
         record[k].state["session"] = SessionAfter(record[k].events, Len(record[k].events))
  PROVE  record'[k].state["session"] = SessionAfter(record'[k].events, Len(record'[k].events))
<1>1. record[k].events \in Seq(Events) /\ record[k].state \in [Fields -> Values]
  BY DEF LogTypeOK, Record
<1>2. CASE record'[k].state = record[k].state /\ record'[k].events = record[k].events
  BY <1>2
<1>3. CASE /\ Event(w) \in Events
           /\ record'[k].state = Assign(record[k].state, Event(w))
           /\ record'[k].events = Append(record[k].events, Event(w))
  <2>1. /\ Len(record'[k].events) # 0
        /\ record'[k].events[Len(record'[k].events)] = Event(w)
    BY <1>1, <1>3
  <2>2. record'[k].state["session"] = Sets[Event(w)]["session"]
    BY <1>1, <1>3, EventSets
  <2> QED
    BY <2>1, <2>2 DEF SessionAfter
<1> QED
  BY <1>2, <1>3, RecordEffect

LEMMA LogStepKeeps ==
  ASSUME SessionInv, NEW w \in Writers, WriterStep(w), UNCHANGED <<clock, reader>>
  PROVE  SessionInv'
<1>1. LogTypeOK'
  BY LogTypeStep DEF SessionInv
<1>2. clock' \in 0..LastTime /\ reader' \in [Readers -> Reading]
  BY DEF SessionInv
<1>3. \A k \in Keys :
        record'[k].state["session"] = SessionAfter(record'[k].events, Len(record'[k].events))
  BY LatestSession DEF SessionInv
<1>4. ASSUME NEW q \in Readers
      PROVE  ReaderOK(reader[q])'
  <2> DEFINE m == reader[q]
  <2>1. m.key \in Keys /\ m.read \in Nat
    BY DEF SessionInv, Reading
  <2>2. Holds(m, record[m.key].events)
    BY DEF SessionInv, ReaderOK
  <2>3. LogTypeOK
    BY DEF SessionInv
  <2>4. reader'[q] = m
    OBVIOUS
  <2> HIDE DEF m
  <2>5. /\ m.read <= Len(record'[m.key].events)
        /\ SessionAfter(record'[m.key].events, m.read) = SessionAfter(record[m.key].events, m.read)
    BY <2>1, <2>2, <2>3, HistoryKeeps DEF Holds
  <2>6. Holds(m, record'[m.key].events)
    BY <2>2, <2>5 DEF Holds
  <2> QED
    BY <2>4, <2>6 DEF ReaderOK
<1> QED
  BY <1>1, <1>2, <1>3, <1>4 DEF SessionInv, SessionAfter

(* A reader's step, by what it holds afterwards.                           *)
LEMMA ReaderMoves ==
  ASSUME SessionInv, NEW q \in Readers, NEW m \in Reading, ReaderOK(m),
         reader' = [reader EXCEPT ![q] = m], UNCHANGED <<record, writer, clock>>
  PROVE  SessionInv'
<1>1. reader' \in [Readers -> Reading]
  BY DEF SessionInv
<1>2. \A p \in Readers : reader'[p] = IF p = q THEN m ELSE reader[p]
  BY DEF SessionInv
<1>3. \A p \in Readers : ReaderOK(reader'[p])
  BY <1>2 DEF SessionInv
<1>4. \A p \in Readers : ReaderOK(reader[p])'
  BY <1>3 DEF ReaderOK
<1> QED
  BY <1>1, <1>4 DEF SessionInv, LogTypeOK, SessionAfter

(* find_one: the reader holds what the document's last event set.          *)
LEMMA ReadKeeps ==
  ASSUME SessionInv, NEW q \in Readers, NEW k \in Keys, NEW purpose \in Purposes,
         ReadSession(q, k, purpose)
  PROVE  SessionInv'
<1>1. PICK m : m = [pc |-> "read", key |-> k, purpose |-> purpose,
                    session |-> record[k].state["session"],
                    read |-> Len(record[k].events), answer |-> FALSE, at |-> 0]
  OBVIOUS
<1>2. /\ record[k].state["session"] \in Sessions /\ Len(record[k].events) \in Nat
      /\ 0 \in 0..LastTime
  BY SessionAssumption DEF SessionInv, LogTypeOK, Record, SessionFields
<1>3. m \in Reading
  BY <1>1, <1>2, Zenon DEF Reading
<1>4. /\ m.key = k /\ m.read = Len(record[k].events) /\ m.session = record[k].state["session"]
      /\ ~m.answer
  BY <1>1
<1>5. ReaderOK(m)
  BY <1>2, <1>4 DEF ReaderOK, Holds, SessionInv
<1>6. reader' = [reader EXCEPT ![q] = m] /\ UNCHANGED <<record, writer, clock>>
  BY <1>1 DEF ReadSession
<1> QED
  BY <1>3, <1>5, <1>6, ReaderMoves

(* clock(): the answer is about the session held.                          *)
LEMMA AnswerKeeps ==
  ASSUME SessionInv, NEW q \in Readers, AnswerSession(q)
  PROVE  SessionInv'
<1>1. PICK old \in Reading : old = reader[q]
  BY DEF SessionInv
<1>2. PICK active \in BOOLEAN : active = Active(old.session, old.purpose, clock)
  BY DEF Active
<1>3. PICK m : m = [old EXCEPT !.pc = "idle", !.at = clock, !.answer = active]
  OBVIOUS
<1>4. clock \in 0..LastTime
  BY DEF SessionInv
<1>5. m \in Reading /\ m.key = old.key /\ m.read = old.read /\ m.session = old.session
      /\ m.purpose = old.purpose /\ m.at = clock /\ m.answer = active
  BY <1>1, <1>2, <1>3, <1>4, Zenon DEF Reading
<1>6. ReaderOK(old)
  BY <1>1 DEF SessionInv
<1>7. ReaderOK(m)
  BY <1>2, <1>5, <1>6 DEF ReaderOK, Holds
<1>8. reader' = [reader EXCEPT ![q] = m] /\ UNCHANGED <<record, writer, clock>>
  BY <1>1, <1>2, <1>3, Zenon DEF AnswerSession
<1> QED
  BY <1>5, <1>7, <1>8, ReaderMoves

LEMMA InitSession ==
  ASSUME SessionInit
  PROVE  SessionInv
<1>1. LogTypeOK
  <2>1. <<>> \in Seq(Events)
    OBVIOUS
  <2> QED
    BY <2>1, LogAssumption DEF SessionInit, LogInit, LogTypeOK, Record, Writing, Replies
<1>2. \A k \in Keys : record[k].state = Default /\ record[k].events = <<>>
  BY DEF SessionInit, LogInit
<1>3. Default["session"] \in Sessions /\ 0 \in 0..LastTime
  BY SessionAssumption, LogAssumption DEF SessionFields
<1> DEFINE Fresh == [pc : {"idle"}, key : Keys, purpose : Purposes,
                     session : {Default["session"]}, read : {0}, answer : {FALSE}, at : {0}]
<1>4. ASSUME NEW m \in Fresh
      PROVE  m \in Reading /\ m.key \in Keys /\ m.read = 0 /\ m.session = Default["session"]
             /\ ~m.answer
  <2>1. 0 \in Nat
    OBVIOUS
  <2>2. {0} \subseteq Nat /\ {0} \subseteq 0..LastTime /\ {Default["session"]} \subseteq Sessions
        /\ {"idle"} \subseteq {"idle", "read"} /\ {FALSE} \subseteq BOOLEAN
    BY <1>3, <2>1, Zenon
  <2>3. m \in Reading
    BY <1>4, <2>2, Zenon DEF Reading
  <2> QED
    BY <2>3, <1>4
<1>5. \A q \in Readers : reader[q] \in Fresh
  BY DEF SessionInit
<1> HIDE DEF Fresh
<1>6. reader \in [Readers -> Reading]
  BY <1>4, <1>5 DEF SessionInit
<1>7. \A q \in Readers : ReaderOK(reader[q])
  BY <1>2, <1>4, <1>5 DEF ReaderOK, Holds, SessionAfter
<1> QED
  BY <1>1, <1>2, <1>3, <1>6, <1>7 DEF SessionInit, SessionInv, SessionAfter

LEMMA NextSession ==
  ASSUME SessionInv, [SessionNext]_sessionVars
  PROVE  SessionInv'
<1>1. CASE LogNext /\ UNCHANGED <<clock, reader>>
  BY <1>1, LogStepKeeps DEF LogNext
<1>2. ASSUME NEW q \in Readers, NEW k \in Keys, NEW purpose \in Purposes,
             ReadSession(q, k, purpose)
      PROVE  SessionInv'
  BY <1>2, ReadKeeps
<1>3. ASSUME NEW q \in Readers, AnswerSession(q)
      PROVE  SessionInv'
  BY <1>3, AnswerKeeps
<1>4. CASE TimePasses
  BY <1>4, SessionAssumption DEF TimePasses, SessionInv, LogTypeOK, ReaderOK, Holds, SessionAfter, Active
<1>5. CASE UNCHANGED sessionVars
  BY <1>5 DEF sessionVars, SessionInv, LogTypeOK, ReaderOK, Holds, SessionAfter, Active
<1> QED
  BY <1>1, <1>2, <1>3, <1>4, <1>5 DEF SessionNext

(* Readers hold what the history they saw had left, and answer from it.    *)
THEOREM SessionInvariance == SessionSpec => []SessionInv
<1>1. SessionInit => SessionInv
  BY InitSession
<1>2. SessionInv /\ [SessionNext]_sessionVars => SessionInv'
  BY NextSession
<1> QED
  BY <1>1, <1>2, PTL DEF SessionSpec

(* has_active_session says yes only on the last evidence there was when it *)
(* read the document, and only before its expiry by the clock it read then.*)
THEOREM ActiveSessionsAreBacked == SessionSpec => []ActiveIsBacked
<1>1. SessionInv => ActiveIsBacked
  <2> SUFFICES ASSUME SessionInv, NEW q \in Readers, reader[q].answer
               PROVE  LET n == reader[q].read
                          e == record[reader[q].key].events[n]
                      IN /\ n > 0 /\ reader[q].purpose \in PurposesOf[e]
                         /\ ExpiresAt[e] > reader[q].at
    BY DEF ActiveIsBacked
  <2> DEFINE m == reader[q]
             e == record[m.key].events[m.read]
  <2>1. m.key \in Keys /\ m.read \in Nat
    BY DEF SessionInv, Reading
  <2>2. /\ m.read <= Len(record[m.key].events)
        /\ m.session = SessionAfter(record[m.key].events, m.read)
        /\ m.purpose \in m.session.purposes /\ m.session.expires > m.at
    BY DEF SessionInv, ReaderOK, Holds, Active
  <2>3. Default["session"].purposes = {}
    BY SessionAssumption DEF SessionDefault, SessionFields
  <2>4. m.read # 0
    BY <2>2, <2>3 DEF SessionAfter
  <2>5. e \in Events
    BY <2>1, <2>2, <2>4 DEF SessionInv, LogTypeOK, Record
  <2>6. m.session = [purposes |-> PurposesOf[e], opened |-> OpensAt[e], expires |-> ExpiresAt[e]]
    BY <2>2, <2>4, <2>5, EventSets DEF SessionAfter
  <2> QED
    BY <2>1, <2>2, <2>4, <2>6
<1> QED
  BY <1>1, SessionInvariance, PTL
=============================================================================
