--------------------------- MODULE MessageRequests ---------------------------
(***************************************************************************)
(* Requests and their forms: the message build_template_message makes of   *)
(* an alias, its fingerprint, the snapshot that is stored with the intent, *)
(* the message read back from it, and the payload Meta is sent.  Every     *)
(* form leaves something out; what the other forms need must remain.       *)
(***************************************************************************)
EXTENDS Naturals, Sequences

CONSTANTS
  Values,       \* texts and media ids
  References,   \* TemplateReferences: a template name and a language
  Redaction     \* what stands where a sensitive text was

ASSUME RequestsAssumption == Redaction \notin Values

(***************************************************************************)
(* contracts.py.  button is the pair (sub_type, index), which only buttons *)
(* have: ("url", 0), or (None, None) when an early schema left it out.     *)
(***************************************************************************)
Kinds == {"text", "sensitive_text", "image"}
Types == {"header", "body", "button"}

Parameter == [kind : Kinds, value : Values]

Component == {c \in [type : Types, button : {"none", "url"}, parameters : Seq(Parameter)] :
  /\ c.type # "button" => c.button = "none"
  /\ \A n \in DOMAIN c.parameters :
       c.parameters[n].kind = "image" => c.type = "header" /\ Len(c.parameters) = 1}

TextMessage == [type : {"text"}, body : Values]
TemplateMessage == [type : {"template"}, template : References, components : Seq(Component)]
Message == TextMessage \cup TemplateMessage

\* _message_contains_sensitive_data
ContainsSensitive(m) ==
  /\ m.type = "template"
  /\ \E n \in DOMAIN m.components : \E k \in DOMAIN m.components[n].parameters :
       m.components[n].parameters[k].kind = "sensitive_text"

\* Every parameter of m in another form.
Map(Form(_), m) ==
  [m EXCEPT !.components = [n \in DOMAIN m.components |->
     [m.components[n] EXCEPT !.parameters =
        [k \in DOMAIN m.components[n].parameters |-> Form(m.components[n].parameters[k])]]]]

-----------------------------------------------------------------------------
(* templates.py and the aliases of service_contracts.py.  An alias names   *)
(* the template and, for each component, its parameters and their kinds in *)
(* order; provided maps names to parameters.                               *)

\* TemplateComponentSpec
ComponentSpec == {c \in [type : Types, names : Seq(STRING), kinds : Seq(Kinds)] :
  /\ Len(c.names) = Len(c.kinds) /\ c.names # <<>>
  /\ \A n \in DOMAIN c.kinds :
       /\ c.kinds[n] = "image" => c.type = "header" /\ Len(c.kinds) = 1
       /\ c.kinds[n] = "sensitive_text" => c.type \in {"body", "button"} /\ Len(c.kinds) = 1
       /\ c.type = "button" => c.kinds[n] = "sensitive_text"}

TemplateAlias == [template : References, components : Seq(ComponentSpec)]

Raised(error) == [type |-> error]

Names(alias) ==
  UNION {{alias.components[n].names[k] : k \in DOMAIN alias.components[n].names} :
           n \in DOMAIN alias.components}

\* Mutant: only the names are compared.
AnyKindFits(alias, provided) == TRUE

KindsFit(alias, provided) ==
  \A n \in DOMAIN alias.components : LET c == alias.components[n] IN
    \A k \in DOMAIN c.names : provided[c.names[k]].kind = c.kinds[k]

\* In the order of the alias, whatever the order of the mapping
Built(alias, provided) ==
  [type |-> "template", template |-> alias.template,
   components |-> [n \in DOMAIN alias.components |-> LET c == alias.components[n] IN
     [type |-> c.type, button |-> IF c.type = "button" THEN "url" ELSE "none",
      parameters |-> [k \in DOMAIN c.names |-> provided[c.names[k]]]]]]

\* build_template_message
BuildTemplateMessage(alias, provided) ==
  IF ~(Names(alias) \subseteq DOMAIN provided) THEN Raised("MissingTemplateParameterError")
  ELSE IF ~(DOMAIN provided \subseteq Names(alias)) THEN Raised("ExtraTemplateParameterError")
  ELSE IF ~KindsFit(alias, provided) THEN Raised("TemplateParameterError")
  ELSE Built(alias, provided)

-----------------------------------------------------------------------------
(* service.py: the fingerprint.  Its hash is taken to be without           *)
(* collisions; with sensitive content it is keyed.                         *)

\* A text is written as it is, sensitive or not; an image as what it is.
Plain(p) == [kind |-> IF p.kind = "image" THEN "image" ELSE "text", value |-> p.value]

\* Mutant: the order of a component's parameters does not count.
FingerprintedUnordered(m) ==
  IF m.type = "text" THEN m
  ELSE [type |-> m.type, template |-> m.template,
        components |-> [n \in DOMAIN m.components |-> LET c == m.components[n] IN
          [type |-> c.type, parameters |-> {Plain(c.parameters[k]) : k \in DOMAIN c.parameters}]]]

\* _message_fingerprint_data: without sub_type and index
FingerprintData(m) ==
  IF m.type = "text" THEN m
  ELSE [type |-> m.type, template |-> m.template,
        components |-> [n \in DOMAIN m.components |-> LET c == m.components[n] IN
          [type |-> c.type, parameters |-> [k \in DOMAIN c.parameters |-> Plain(c.parameters[k])]]]]

\* _request_fingerprint; context holds recipient, provider_key and the operation.
Fingerprint(context, m) ==
  [context |-> context, message |-> FingerprintData(m), keyed |-> ContainsSensitive(m)]

-----------------------------------------------------------------------------
(* serialization.py: the snapshot, written under schema 3 by this release, *)
(* and read under the schemas of earlier ones too.                         *)

\* Mutant: sensitive texts are stored as they are.
StoredWhole(p) == p

Redacted(p) == IF p.kind = "sensitive_text" THEN [p EXCEPT !.value = Redaction] ELSE p

\* serialize_request
Serialize(m) == [schema |-> 3, message |-> IF m.type = "text" THEN m ELSE Map(Redacted, m)]

\* Mutant: images are read under the schema that brought them only.
RestorableThen(kind, schema) == kind = "text" \/ (kind = "image" /\ schema = 2)

\* The kinds of parameters _parse_component knows under a schema, and restores.
Restorable(kind, schema) == kind = "text" \/ (kind = "image" /\ schema \in {2, 3})

Unrestorable == Raised("RequestSerializationError")

\* Under schema 3 a button must have its metadata.
RestorableComponent(c, schema) ==
  /\ \A k \in DOMAIN c.parameters : Restorable(c.parameters[k].kind, schema)
  /\ schema = 3 /\ c.type = "button" => c.button # "none"

\* deserialize_request: all or nothing; before schema 3 a button had no metadata.
Deserialize(s) ==
  LET m == s.message IN
  IF m.type = "text" THEN m
  ELSE IF \A n \in DOMAIN m.components : RestorableComponent(m.components[n], s.schema)
  THEN [m EXCEPT !.components = [n \in DOMAIN m.components |->
          [m.components[n] EXCEPT !.button =
             IF s.schema = 3 THEN m.components[n].button ELSE "none"]]]
  ELSE Unrestorable

\* What an earlier release left of a message that fits its schema.
SerializeAs(schema, m) ==
  IF schema = 3 THEN Serialize(m)
  ELSE [schema |-> schema, message |-> IF m.type = "text" THEN m
          ELSE [m EXCEPT !.components = [n \in DOMAIN m.components |->
                  [m.components[n] EXCEPT !.button = "none"]]]]

Fits(schema, m) ==
  schema = 3 \/ (m.type = "template" =>
    \A n \in DOMAIN m.components : \A k \in DOMAIN m.components[n].parameters :
      Restorable(m.components[n].parameters[k].kind, schema))

-----------------------------------------------------------------------------
(* meta.py: the payload, apart from the recipient.                         *)

NoPayload == [type |-> "none"]

\* _build_payload: None for a button whose place is not known
Payload(m) ==
  IF m.type = "text" THEN m
  ELSE IF \E n \in DOMAIN m.components :
            m.components[n].type = "button" /\ m.components[n].button # "url"
  THEN NoPayload
  ELSE Map(Plain, m)
=============================================================================
