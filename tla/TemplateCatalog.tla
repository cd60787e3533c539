--------------------------- MODULE TemplateCatalog ---------------------------
(***************************************************************************)
(* MongoTemplateCatalog: editors of several processes save and deactivate  *)
(* template aliases under optimistic revisions, each by one command, while *)
(* services get them.  What of an alias matters here is which kinds of     *)
(* parameters it has: they choose the schema it is stored under and the    *)
(* rules it is read by.                                                    *)
(***************************************************************************)
EXTENDS Naturals

CONSTANTS
  Keys,         \* template keys
  Aliases,      \* TemplateAlias values
  FeaturesOf,   \* FeaturesOf[a]: which of Features occur in a's components
  NoAlias,      \* the alias of a key never saved
  Editors,      \* processes that save and deactivate
  MaxRevision,  \* bound of the revisions
  Faults        \* which failures happen

Features == {"image", "sensitive", "button"}

\* A button component has one sensitive parameter (TemplateComponentSpec).
ASSUME CatalogAssumption ==
  /\ FeaturesOf \in [Aliases -> SUBSET Features]
  /\ \A a \in Aliases : "button" \in FeaturesOf[a] => "sensitive" \in FeaturesOf[a]
  /\ NoAlias \notin Aliases
  /\ MaxRevision \in Nat
  /\ Faults \subseteq {"fails", "lost"}

VARIABLES
  stored,   \* stored[k]: the document with template_key k
  editor    \* editor[e]: how e's last call ended

vars == <<stored, editor>>

Document == [revision : Nat, alias : Aliases \cup {NoAlias}, schema : 0..3, active : BOOLEAN]
Nothing == [revision |-> 0, alias |-> NoAlias, schema |-> 0, active |-> FALSE]

\* "unreadable": MongoRecordError; "unavailable": MongoPersistenceError
Outcomes == {"none", "done", "conflict", "unreadable", "unavailable"}

\* The revision returned, or the one expected by a call that raised.
Ended == [key : Keys, alias : Aliases \cup {NoAlias}, revision : Nat, outcome : Outcomes]

Init ==
  /\ stored = [k \in Keys |-> Nothing]
  /\ editor \in [Editors -> [key : Keys, alias : {NoAlias}, revision : {0},
                             outcome : {"none"}]]

-----------------------------------------------------------------------------
\* Mutant: images are stored as they were before schema 2.
SchemaBeforeImages(a) == IF FeaturesOf[a] \cap {"button", "sensitive"} # {} THEN 3 ELSE 1

\* record_schema_version of _alias_fields
SchemaOf(a) ==
  IF FeaturesOf[a] \cap {"button", "sensitive"} # {} THEN 3
  ELSE IF "image" \in FeaturesOf[a] THEN 2 ELSE 1

\* _alias_from_document reads the document.
Readable(d) ==
  LET features == FeaturesOf[d.alias] IN
  /\ d.schema = 1 <=> features = {}
  /\ d.schema = 2 <=> features = {"image"}
  /\ d.schema = 3 <=> features = {"sensitive", "button"}

Ends(e, k, a, revision, outcome) ==
  editor' = [editor EXCEPT ![e] = [key |-> k, alias |-> a, revision |-> revision,
                                   outcome |-> outcome]]

Fails(e, k, a, revision) ==
  /\ "fails" \in Faults
  /\ Ends(e, k, a, revision, "unavailable")
  /\ UNCHANGED stored

\* save(expected_revision = None): the insert, into an index unique by key
Create(e, k, a) ==
  \/ /\ stored[k].revision = 0
     /\ stored' = [stored EXCEPT ![k] =
          [revision |-> 1, alias |-> a, schema |-> SchemaOf(a), active |-> TRUE]]
     /\ \/ Ends(e, k, a, 1, "done")
        \/ "lost" \in Faults /\ Ends(e, k, a, 0, "unavailable")
  \/ /\ stored[k].revision # 0
     /\ Ends(e, k, a, 0, "conflict")
     /\ UNCHANGED stored
  \/ Fails(e, k, a, 0)

\* Mutant: the update does not compare revisions.
IsAnyRevision(k, revision) == stored[k].revision > 0

\* The revision in the filter of both updates
IsRevision(k, revision) == stored[k].revision = revision

\* The answer of an update: the document it left is read, and may be refused.
Updated(e, k, a, d) ==
  \/ Readable(d) /\ Ends(e, k, a, d.revision, "done")
  \/ ~Readable(d) /\ Ends(e, k, a, d.revision - 1, "unreadable")
  \/ "lost" \in Faults /\ Ends(e, k, a, d.revision - 1, "unavailable")

\* save(expected_revision = revision): the update, which activates the alias again
Replace(e, k, a, revision) ==
  \/ /\ IsRevision(k, revision)
     /\ LET d == [revision |-> revision + 1, alias |-> a, schema |-> SchemaOf(a),
                  active |-> TRUE]
        IN stored' = [stored EXCEPT ![k] = d] /\ Updated(e, k, a, d)
  \/ /\ ~IsRevision(k, revision)
     /\ Ends(e, k, a, revision, "conflict")
     /\ UNCHANGED stored
  \/ Fails(e, k, a, revision)

\* deactivate: its filter names schema 1, whatever the alias is stored under
Deactivates(k, revision) ==
  IsRevision(k, revision) /\ stored[k].schema = 1 /\ stored[k].active

\* Mutant: a deactivation keeps the revision.
DeactivatedQuietly(d) == [d EXCEPT !.active = FALSE]

Deactivated(d) == [d EXCEPT !.active = FALSE, !.revision = @ + 1]

Deactivate(e, k, revision) ==
  \/ /\ Deactivates(k, revision)
     /\ LET d == Deactivated(stored[k])
        IN stored' = [stored EXCEPT ![k] = d] /\ Updated(e, k, NoAlias, d)
  \/ /\ ~Deactivates(k, revision)
     /\ Ends(e, k, NoAlias, revision, "conflict")
     /\ UNCHANGED stored
  \/ Fails(e, k, NoAlias, revision)

Next ==
  \E e \in Editors, k \in Keys :
    \/ \E a \in Aliases : Create(e, k, a)
    \/ \E revision \in 1..(MaxRevision - 1) :
         (\E a \in Aliases : Replace(e, k, a, revision)) \/ Deactivate(e, k, revision)

Spec == Init /\ [][Next]_vars

-----------------------------------------------------------------------------
TypeOK ==
  /\ stored \in [Keys -> Document]
  /\ editor \in [Editors -> Ended]

\* What get() answers: an alias, None, or MongoRecordError.
None == "None"
RecordError == "unreadable"
Get(k) ==
  IF ~stored[k].active THEN None
  ELSE IF Readable(stored[k]) THEN stored[k].alias ELSE RecordError

(***************************************************************************)
(* Optimistic revisions lose no update: two editors are never told that    *)
(* the same revision is theirs, whichever of them started from which.      *)
(***************************************************************************)
Won(e) == editor[e].outcome = "done"

RevisionsAreOwned ==
  \A e, f \in Editors :
    Won(e) /\ Won(f) /\ editor[e].key = editor[f].key /\ editor[e].revision = editor[f].revision
    => e = f

(***************************************************************************)
(* A revision identifies what was stored: the document never changes       *)
(* without taking the next one, so an editor that was overtaken, also by   *)
(* a deactivation, is always told so.                                      *)
(***************************************************************************)
RevisionsIdentify ==
  [][\A k \in Keys : stored'[k] # stored[k] => stored'[k].revision = stored[k].revision + 1]_vars

(***************************************************************************)
(* What an editor saved is what services get, until the next revision: the *)
(* schema chosen for the alias is one under which it can be read.  (For    *)
(* the shapes of alias the rules of reading know.)                         *)
(***************************************************************************)
SavedIsRead(A) ==
  \A e \in Editors : LET last == editor[e] IN
    last.alias \in A /\ Won(e) /\ stored[last.key].revision = last.revision
    => Get(last.key) = last.alias

\* Plain, image header, authentication with its button.
Supported(a) == FeaturesOf[a] \in {{}, {"image"}, {"sensitive", "button"}}

SupportedIsRead == SavedIsRead({a \in Aliases : Supported(a)})

(***************************************************************************)
(* TemplateCatalog.get is to return the exact alias registered under the   *)
(* key: so for every alias save() accepted.                                *)
(***************************************************************************)
RegisteredIsRead == SavedIsRead(Aliases)

(***************************************************************************)
(* "Mongo template revision conflicts with the stored alias": a call that  *)
(* raises this has named a revision that is not the stored one, or an      *)
(* alias that is not active.  (As the step that raises it.)                *)
(***************************************************************************)
ConflictsAreStale ==
  [][\A e \in Editors :
       LET last == editor'[e] IN
       editor' # editor /\ editor'[e] # editor[e] /\ last.outcome = "conflict" =>
         \/ stored[last.key].revision # last.revision
         \/ ~stored[last.key].active]_vars
=============================================================================
