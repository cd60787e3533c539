----------------------------- MODULE TextSession -----------------------------
(***************************************************************************)
(* MongoTextSessionPolicy: open_session records an event by the protocol   *)
(* of EvidenceLog, and has_active_session reads the session and then the   *)
(* clock.  The two reads are not one: writers and time run in between.     *)
(***************************************************************************)
EXTENDS EvidenceLog

CONSTANTS
  Purposes,     \* purpose keys
  PurposesOf,   \* PurposesOf[e]: allowed_purpose_keys of event e
  OpensAt,      \* OpensAt[e]: its opened_at_epoch
  ExpiresAt,    \* ExpiresAt[e]: its expires_at_epoch
  Readers,      \* calls of has_active_session
  LastTime      \* bound of the epochs

\* The three fields of a session are always set together: they count as one.
SessionFields == {"session"}
Sessions == [purposes : SUBSET Purposes, opened : 0..LastTime, expires : 0..LastTime]
SessionDefault ==
  [f \in SessionFields |-> [purposes |-> {}, opened |-> 0, expires |-> 0]]

\* The $set of open_session: an event replaces the session.
SessionSets ==
  [e \in Events |->
     [f \in SessionFields |->
        [purposes |-> PurposesOf[e], opened |-> OpensAt[e], expires |-> ExpiresAt[e]]]]

ASSUME SessionAssumption ==
  /\ PurposesOf \in [Events -> (SUBSET Purposes) \ {{}}]
  /\ OpensAt \in [Events -> 0..LastTime]
  /\ ExpiresAt \in [Events -> 0..LastTime]
  /\ \A e \in Events : ExpiresAt[e] > OpensAt[e]
  /\ Fields = SessionFields
  /\ Values = Sessions
  /\ Default = SessionDefault
  /\ Sets = SessionSets
  /\ ~Evaluates
  /\ LastTime \in Nat

VARIABLES
  clock,    \* the epoch clock() reads
  reader    \* reader[q]: the call of has_active_session q is in or was in last;
            \* read counts the events it read, at is the epoch of its answer

sessionVars == <<record, writer, clock, reader>>

SessionInit ==
  /\ LogInit
  /\ clock = 0
  /\ reader \in [Readers -> [pc : {"idle"}, key : Keys, purpose : Purposes,
                             session : {Default["session"]}, read : {0}, answer : {FALSE}, at : {0}]]

\* find_one(scope); no document reads as the inactive session
ReadSession(q, k, purpose) ==
  /\ reader[q].pc = "idle"
  /\ reader' = [reader EXCEPT ![q] =
       [pc |-> "read", key |-> k, purpose |-> purpose, session |-> record[k].state["session"],
        read |-> Len(record[k].events), answer |-> FALSE, at |-> 0]]
  /\ UNCHANGED <<record, writer, clock>>

\* Mutant: a session lasts through its last second.
ActiveThrough(session, purpose, t) ==
  purpose \in session.purposes /\ session.expires >= t

Active(session, purpose, t) ==
  purpose \in session.purposes /\ session.expires > t

\* clock(), and the answer
AnswerSession(q) ==
  /\ reader[q].pc = "read"
  /\ LET m == reader[q] IN
       reader' = [reader EXCEPT ![q] =
         [m EXCEPT !.pc = "idle", !.at = clock, !.answer = Active(m.session, m.purpose, clock)]]
  /\ UNCHANGED <<record, writer, clock>>

TimePasses ==
  /\ clock < LastTime
  /\ clock' = clock + 1
  /\ UNCHANGED <<record, writer, reader>>

SessionNext ==
  \/ LogNext /\ UNCHANGED <<clock, reader>>
  \/ \E q \in Readers :
       \/ \E k \in Keys, purpose \in Purposes : ReadSession(q, k, purpose)
       \/ AnswerSession(q)
  \/ TimePasses

SessionSpec == SessionInit /\ [][SessionNext]_sessionVars

-----------------------------------------------------------------------------
(***************************************************************************)
(* A session reported as active was backed by evidence: the last event on  *)
(* record when the document was read allows the purpose and had not        *)
(* expired when the clock was read.  Later events may have replaced it by  *)
(* then; earlier ones never count, though they may not have expired.       *)
(***************************************************************************)
ActiveIsBacked ==
  \A q \in Readers : reader[q].answer =>
    LET n == reader[q].read
        e == record[reader[q].key].events[n]
    IN n > 0 /\ reader[q].purpose \in PurposesOf[e] /\ ExpiresAt[e] > reader[q].at
=============================================================================
