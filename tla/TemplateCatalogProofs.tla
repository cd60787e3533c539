----------------------- MODULE TemplateCatalogProofs -----------------------
(***************************************************************************)
(* Invariance proofs for TemplateCatalog, for any keys, aliases, editors   *)
(* and revisions, and whichever commands fail or lose their replies.       *)
(***************************************************************************)
EXTENDS TemplateCatalog, TLAPS

SupportedAliases == {a \in Aliases : Supported(a)}

\* The last call of e is about a revision the key has had; nobody else has won it, and until
\* the next revision what e saved is what is stored.
EndOK(e) ==
  LET last == editor[e] IN
  Won(e) =>
    /\ last.revision <= stored[last.key].revision
    /\ \A f \in Editors \ {e} :
         Won(f) /\ editor[f].key = last.key => editor[f].revision # last.revision
    /\ last.alias \in Aliases /\ last.revision = stored[last.key].revision =>
         /\ stored[last.key].alias = last.alias /\ stored[last.key].active
         /\ stored[last.key].schema = SchemaOf(last.alias)

CatalogInv == TypeOK /\ \A e \in Editors : EndOK(e)

-----------------------------------------------------------------------------
(* What an operation does.                                                 *)

Left(k) == UNCHANGED stored

\* The document of k is replaced by one of the next revision.
Moved(k, d) ==
  /\ d \in Document /\ d.revision = stored[k].revision + 1
  /\ stored' = [stored EXCEPT ![k] = d]

\* The answer to e: a win names the document it has just written.
Answered(e, k, m) ==
  /\ m \in Ended /\ m.key = k
  /\ editor' = [editor EXCEPT ![e] = m]

Wins(k, m, d) ==
  m.outcome = "done" =>
    /\ Moved(k, d) /\ m.revision = d.revision
    /\ m.alias \in Aliases => d.alias = m.alias /\ d.active /\ d.schema = SchemaOf(m.alias)

Operates(e, k) ==
  \E m, d : /\ Answered(e, k, m)
            /\ Left(k) \/ Moved(k, d)
            /\ Wins(k, m, d)

(* A call that ended otherwise has not won.                                *)
LEMMA NoWin ==
  ASSUME NEW e \in Editors, NEW k \in Keys, NEW a \in Aliases \cup {NoAlias}, NEW n \in Nat,
         NEW outcome \in Outcomes \ {"done"}, Ends(e, k, a, n, outcome),
         UNCHANGED stored \/ \E d : Moved(k, d)
  PROVE  Operates(e, k)
<1> DEFINE m == [key |-> k, alias |-> a, revision |-> n, outcome |-> outcome]
<1>1. m \in Ended /\ m.key = k /\ m.outcome # "done"
  BY DEF Ended
<1>2. editor' = [editor EXCEPT ![e] = m]
  BY DEF Ends
<1> HIDE DEF m
<1>3. Answered(e, k, m)
  BY <1>1, <1>2 DEF Answered
<1> QED
  BY <1>1, <1>3 DEF Operates, Left, Wins

(* A call that is told it is done has written what it says.                *)
LEMMA Win ==
  ASSUME NEW e \in Editors, NEW k \in Keys, NEW a \in Aliases \cup {NoAlias}, NEW d,
         Moved(k, d), Ends(e, k, a, d.revision, "done"),
         a \in Aliases => d.alias = a /\ d.active /\ d.schema = SchemaOf(a)
  PROVE  Operates(e, k)
<1> DEFINE m == [key |-> k, alias |-> a, revision |-> d.revision, outcome |-> "done"]
<1>1. m \in Ended /\ m.key = k /\ m.alias = a /\ m.revision = d.revision
  BY DEF Ended, Moved, Document, Outcomes
<1>2. editor' = [editor EXCEPT ![e] = m]
  BY DEF Ends
<1> HIDE DEF m
<1>3. Answered(e, k, m) /\ Wins(k, m, d)
  BY <1>1, <1>2 DEF Answered, Wins
<1> QED
  BY <1>3 DEF Operates

(* save() stores an alias under a schema there is.                         *)
LEMMA SchemaType ==
  ASSUME NEW a
  PROVE  SchemaOf(a) \in 1..3
BY DEF SchemaOf

LEMMA SavedType ==
  ASSUME NEW n \in Nat, NEW a \in Aliases,
         NEW d, d = [revision |-> n, alias |-> a, schema |-> SchemaOf(a), active |-> TRUE]
  PROVE  d \in Document /\ d.revision = n /\ d.alias = a /\ d.active /\ d.schema = SchemaOf(a)
BY SchemaType DEF Document

LEMMA FailOperates ==
  ASSUME NEW e \in Editors, NEW k \in Keys, NEW a \in Aliases \cup {NoAlias}, NEW n \in Nat,
         Fails(e, k, a, n)
  PROVE  Operates(e, k)
BY NoWin DEF Fails, Outcomes

LEMMA CreateOperates ==
  ASSUME TypeOK, NEW e \in Editors, NEW k \in Keys, NEW a \in Aliases, Create(e, k, a)
  PROVE  Operates(e, k)
<1>1. CASE stored[k].revision # 0 /\ Ends(e, k, a, 0, "conflict") /\ UNCHANGED stored
  BY <1>1, NoWin DEF Outcomes
<1>3. CASE Fails(e, k, a, 0)
  BY <1>3, FailOperates
<1> DEFINE new == [revision |-> 1, alias |-> a, schema |-> SchemaOf(a), active |-> TRUE]
<1>2. CASE /\ stored[k].revision = 0 /\ stored' = [stored EXCEPT ![k] = new]
           /\ Ends(e, k, a, 1, "done") \/ Ends(e, k, a, 0, "unavailable")
  <2>1. PICK d : d = new
    OBVIOUS
  <2>2. d \in Document /\ d.revision = 1 /\ d.alias = a /\ d.active /\ d.schema = SchemaOf(a)
    BY <2>1, SavedType
  <2>3. Moved(k, d)
    BY <1>2, <2>1, <2>2 DEF Moved
  <2>4. CASE Ends(e, k, a, 1, "done")
    BY <2>2, <2>3, <2>4, Win
  <2>5. CASE Ends(e, k, a, 0, "unavailable")
    BY <2>3, <2>5, NoWin DEF Outcomes
  <2> QED
    BY <1>2, <2>4, <2>5
<1> QED
  BY <1>1, <1>2, <1>3 DEF Create

(* The answer of an update.                                                *)
LEMMA UpdatedOperates ==
  ASSUME NEW e \in Editors, NEW k \in Keys, NEW a \in Aliases \cup {NoAlias}, NEW d,
         stored[k].revision \in Nat, Moved(k, d), Updated(e, k, a, d),
         a \in Aliases => d.alias = a /\ d.active /\ d.schema = SchemaOf(a)
  PROVE  Operates(e, k)
<1>1. d.revision - 1 \in Nat
  BY DEF Moved
<1>2. CASE Ends(e, k, a, d.revision, "done")
  BY <1>2, Win
<1>3. CASE Ends(e, k, a, d.revision - 1, "unreadable") \/ Ends(e, k, a, d.revision - 1, "unavailable")
  BY <1>1, <1>3, NoWin DEF Outcomes
<1> QED
  BY <1>2, <1>3 DEF Updated

LEMMA ReplaceOperates ==
  ASSUME TypeOK, NEW e \in Editors, NEW k \in Keys, NEW a \in Aliases, NEW n \in Nat,
         Replace(e, k, a, n)
  PROVE  Operates(e, k)
<1>1. CASE Ends(e, k, a, n, "conflict") /\ UNCHANGED stored
  BY <1>1, NoWin DEF Outcomes
<1>3. CASE Fails(e, k, a, n)
  BY <1>3, FailOperates
<1> DEFINE new == [revision |-> n + 1, alias |-> a, schema |-> SchemaOf(a), active |-> TRUE]
<1>2. CASE /\ IsRevision(k, n)
           /\ stored' = [stored EXCEPT ![k] = new] /\ Updated(e, k, a, new)
  <2>1. PICK d : d = new
    OBVIOUS
  <2>2. /\ d \in Document /\ d.revision = n + 1 /\ d.alias = a /\ d.active
        /\ d.schema = SchemaOf(a)
    BY <2>1, SavedType
  <2>3. Moved(k, d) /\ Updated(e, k, a, d)
    BY <1>2, <2>1, <2>2 DEF Moved, IsRevision
  <2> QED
    BY <2>2, <2>3, UpdatedOperates DEF TypeOK, Document
<1> QED
  BY <1>1, <1>2, <1>3 DEF Replace

LEMMA DeactivateOperates ==
  ASSUME TypeOK, NEW e \in Editors, NEW k \in Keys, NEW n \in Nat, Deactivate(e, k, n)
  PROVE  Operates(e, k)
<1>1. CASE Ends(e, k, NoAlias, n, "conflict") /\ UNCHANGED stored
  BY <1>1, NoWin DEF Outcomes
<1>3. CASE Fails(e, k, NoAlias, n)
  BY <1>3, FailOperates
<1>2. CASE LET d == Deactivated(stored[k])
           IN stored' = [stored EXCEPT ![k] = d] /\ Updated(e, k, NoAlias, d)
  <2>1. PICK d : d = Deactivated(stored[k])
    OBVIOUS
  <2>4. PICK old \in Document : old = stored[k]
    BY DEF TypeOK
  <2>5. d = [old EXCEPT !.active = FALSE, !.revision = old.revision + 1]
    BY <2>1, <2>4 DEF Deactivated
  <2>6. PICK off : off = [old EXCEPT !.active = FALSE]
    OBVIOUS
  <2>7. off \in Document /\ off.revision = old.revision
    BY <2>4, <2>6, Zenon DEF Document
  <2>8. d = [off EXCEPT !.revision = old.revision + 1]
    BY <2>5, <2>6
  <2>2. d \in Document /\ d.revision = stored[k].revision + 1
    BY <2>4, <2>7, <2>8 DEF Document
  <2>3. Moved(k, d) /\ Updated(e, k, NoAlias, d)
    BY <1>2, <2>1, <2>2 DEF Moved
  <2> QED
    BY <2>3, UpdatedOperates, CatalogAssumption DEF TypeOK, Document
<1> QED
  BY <1>1, <1>2, <1>3 DEF Deactivate

LEMMA NextOperates ==
  ASSUME TypeOK, Next
  PROVE  \E e \in Editors, k \in Keys : Operates(e, k)
BY CreateOperates, ReplaceOperates, DeactivateOperates DEF Next

-----------------------------------------------------------------------------
(* The invariant.                                                          *)

LEMMA OperationKeeps ==
  ASSUME CatalogInv, NEW e \in Editors, NEW k \in Keys, Operates(e, k)
  PROVE  CatalogInv'
<1>1. PICK m, d : Answered(e, k, m) /\ (Left(k) \/ Moved(k, d)) /\ Wins(k, m, d)
  BY DEF Operates
<1>2. /\ stored \in [Keys -> Document] /\ editor \in [Editors -> Ended]
      /\ m \in Ended /\ m.key = k /\ editor'[e] = m
      /\ \A f \in Editors \ {e} : editor'[f] = editor[f]
  BY <1>1 DEF CatalogInv, TypeOK, Answered
<1>3. TypeOK'
  BY <1>1, <1>2 DEF TypeOK, Answered, Left, Moved
<1>4. \/ stored' = stored
      \/ /\ stored'[k] = d /\ d.revision = stored[k].revision + 1
         /\ \A j \in Keys \ {k} : stored'[j] = stored[j]
  BY <1>1, <1>2 DEF Left, Moved
<1>5. \A f \in Editors : editor[f].key \in Keys /\ editor[f].revision \in Nat
  BY <1>2 DEF Ended
<1>6. \A j \in Keys : /\ stored[j].revision \in Nat /\ stored'[j].revision \in Nat
                       /\ stored'[j].revision >= stored[j].revision
  BY <1>2, <1>4 DEF Document
<1>7. m.outcome = "done" =>
        /\ stored'[k] = d /\ m.revision = d.revision /\ d.revision = stored[k].revision + 1
        /\ m.alias \in Aliases => d.alias = m.alias /\ d.active /\ d.schema = SchemaOf(m.alias)
  BY <1>1, <1>2 DEF Wins, Moved
<1>8. ASSUME NEW f \in Editors \ {e}, Won(f)
      PROVE  /\ editor[f].revision <= stored[editor[f].key].revision
             /\ m.outcome = "done" /\ editor[f].key = k => editor[f].revision # m.revision
  <2>1. editor[f].revision <= stored[editor[f].key].revision
    BY <1>8 DEF CatalogInv, EndOK
  <2> QED
    BY <1>5, <1>6, <1>7, <2>1
<1>9. ASSUME NEW f \in Editors
      PROVE  EndOK(f)'
  <2>1. CASE f = e
    <3>1. m.outcome = "done" =>
            \A g \in Editors \ {e} :
              (Won(g) /\ editor[g].key = m.key => editor[g].revision # m.revision)
      BY <1>2, <1>8
    <3>2. m.outcome = "done" => m.revision <= stored'[k].revision
      BY <1>2, <1>6, <1>7 DEF Ended
    <3> QED
      BY <1>2, <1>7, <2>1, <3>1, <3>2 DEF EndOK, Won
  <2>2. CASE f # e
    <3> SUFFICES ASSUME Won(f)
                 PROVE  EndOK(f)'
      BY <1>2, <2>2 DEF EndOK, Won
    <3> DEFINE last == editor[f]
    <3>1. editor'[f] = last /\ last.key \in Keys /\ last.revision \in Nat
      BY <1>2, <1>5, <2>2
    <3>2. /\ last.revision <= stored[last.key].revision
          /\ \A g \in Editors \ {f} :
               Won(g) /\ editor[g].key = last.key => editor[g].revision # last.revision
          /\ last.alias \in Aliases /\ last.revision = stored[last.key].revision =>
               /\ stored[last.key].alias = last.alias /\ stored[last.key].active
               /\ stored[last.key].schema = SchemaOf(last.alias)
      BY DEF CatalogInv, EndOK
    <3>3. last.revision <= stored'[last.key].revision
      BY <1>6, <3>1, <3>2
    <3>4. m.outcome = "done" /\ k = last.key => m.revision # last.revision
      BY <1>8, <2>2
    <3>5. last.revision = stored'[last.key].revision => stored'[last.key] = stored[last.key]
      BY <1>4, <1>6, <3>1, <3>2
    <3> HIDE DEF last
    <3>6. \A g \in Editors \ {f} :
            (Won(g) /\ editor[g].key = last.key => editor[g].revision # last.revision)'
      BY <1>2, <3>1, <3>2, <3>4 DEF Won, last
    <3>7. last.alias \in Aliases /\ last.revision = stored'[last.key].revision =>
               /\ stored'[last.key].alias = last.alias /\ stored'[last.key].active
               /\ stored'[last.key].schema = SchemaOf(last.alias)
      BY <3>2, <3>5
    <3> QED
      BY <3>1, <3>3, <3>6, <3>7 DEF EndOK, last
  <2> QED
    BY <2>1, <2>2
<1> QED
  BY <1>3, <1>9 DEF CatalogInv

LEMMA InitCatalog ==
  ASSUME Init
  PROVE  CatalogInv
<1>1. \A e \in Editors : editor[e] \in Ended /\ editor[e].outcome = "none"
  BY DEF Init, Ended, Outcomes
<1>2. editor \in [Editors -> Ended]
  BY <1>1 DEF Init
<1>3. Nothing \in Document
  BY DEF Nothing, Document
<1> QED
  BY <1>1, <1>2, <1>3 DEF Init, CatalogInv, TypeOK, EndOK, Won

LEMMA NextCatalog ==
  ASSUME CatalogInv, [Next]_vars
  PROVE  CatalogInv'
<1>1. CASE Next
  BY <1>1, NextOperates, OperationKeeps DEF CatalogInv
<1>2. CASE UNCHANGED vars
  BY <1>2 DEF vars, CatalogInv, TypeOK, EndOK, Won
<1> QED
  BY <1>1, <1>2

(* Documents and answers keep their shapes, and an editor that was told    *)
(* its save succeeded is right about it until the next revision.           *)
THEOREM CatalogInvariance == Spec => []CatalogInv
<1>1. Init => CatalogInv
  BY InitCatalog
<1>2. CatalogInv /\ [Next]_vars => CatalogInv'
  BY NextCatalog
<1> QED
  BY <1>1, <1>2, PTL DEF Spec

(* The documents of the catalog and what its editors are told keep the     *)
(* shapes the code builds.                                                 *)
THEOREM CatalogTypeCorrect == Spec => []TypeOK
<1>1. CatalogInv => TypeOK
  BY DEF CatalogInv
<1> QED
  BY <1>1, CatalogInvariance, PTL

(* No two editors are told that one revision of a key is theirs.           *)
THEOREM OwnersAreUnique == Spec => []RevisionsAreOwned
<1>1. CatalogInv => RevisionsAreOwned
  BY DEF CatalogInv, EndOK, RevisionsAreOwned
<1> QED
  BY <1>1, CatalogInvariance, PTL

(* An alias of a shape the rules of reading know is what get() answers,    *)
(* from the save that succeeded to the next revision.                      *)
THEOREM SupportedAreRead == Spec => []SupportedIsRead
<1>1. CatalogInv => SupportedIsRead
  <2> SUFFICES ASSUME CatalogInv, NEW e \in Editors, Won(e),
                      editor[e].alias \in SupportedAliases,
                      stored[editor[e].key].revision = editor[e].revision
               PROVE  Get(editor[e].key) = editor[e].alias
    BY DEF SupportedIsRead, SavedIsRead, SupportedAliases
  <2> DEFINE a == editor[e].alias
             d == stored[editor[e].key]
  <2>1. d.alias = a /\ d.active /\ d.schema = SchemaOf(a) /\ a \in Aliases
    BY DEF CatalogInv, EndOK, SupportedAliases
  <2>2. FeaturesOf[a] \in {{}, {"image"}, {"sensitive", "button"}}
    BY DEF SupportedAliases, Supported
  <2> HIDE DEF a, d
  <2>3. Readable(d)
    <3>1. CASE FeaturesOf[a] = {}
      BY <2>1, <3>1 DEF Readable, SchemaOf
    <3>2. CASE FeaturesOf[a] = {"image"}
      BY <2>1, <3>2 DEF Readable, SchemaOf
    <3>3. CASE FeaturesOf[a] = {"sensitive", "button"}
      BY <2>1, <3>3 DEF Readable, SchemaOf
    <3> QED
      BY <2>2, <3>1, <3>2, <3>3
  <2> QED
    BY <2>1, <2>3 DEF Get, a, d
<1> QED
  BY <1>1, CatalogInvariance, PTL

(* The document of a key never changes without taking the next revision.   *)
THEOREM RevisionsTell == Spec => RevisionsIdentify
<1>1. TypeOK /\ [Next]_vars =>
        [\A k \in Keys : stored'[k] # stored[k] => stored'[k].revision = stored[k].revision + 1]_vars
  <2> SUFFICES ASSUME TypeOK, Next, NEW j \in Keys, stored'[j] # stored[j]
               PROVE  stored'[j].revision = stored[j].revision + 1
    OBVIOUS
  <2>1. PICK e \in Editors, k \in Keys : Operates(e, k)
    BY NextOperates
  <2>2. PICK d : Left(k) \/ Moved(k, d)
    BY <2>1 DEF Operates
  <2> QED
    BY <2>2 DEF Left, Moved, TypeOK
<1> QED
  BY <1>1, CatalogTypeCorrect, PTL DEF Spec, RevisionsIdentify
=============================================================================
