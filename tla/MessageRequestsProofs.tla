----------------------- MODULE MessageRequestsProofs -----------------------
(***************************************************************************)
(* What the forms of a request keep, for every alias, mapping and schema.  *)
(***************************************************************************)
EXTENDS MessageRequests, SequenceTheorems, TLAPS

(* The messages build_template_message makes: a button has its place, and  *)
(* a sensitive parameter.                                                  *)
IsSensitive(c) == \E k \in DOMAIN c.parameters : c.parameters[k].kind = "sensitive_text"

BuiltMessage == {m \in TemplateMessage : \A n \in DOMAIN m.components :
  m.components[n].type = "button" => m.components[n].button = "url" /\ IsSensitive(m.components[n])}

LEMMA SeqFunction ==
  ASSUME NEW S, NEW s \in Seq(S)
  PROVE  /\ s = [n \in DOMAIN s |-> s[n]]
         /\ DOMAIN s = 1..Len(s) /\ Len(s) \in Nat
         /\ \A n \in DOMAIN s : s[n] \in S
OBVIOUS

LEMMA FunctionSeq ==
  ASSUME NEW S, NEW T, NEW s \in Seq(T), NEW F(_), \A n \in DOMAIN s : F(n) \in S
  PROVE  /\ [n \in DOMAIN s |-> F(n)] \in Seq(S)
         /\ Len([n \in DOMAIN s |-> F(n)]) = Len(s)
<1>1. Len(s) \in Nat /\ DOMAIN s = 1..Len(s)
  BY SeqFunction
<1>2. [n \in 1..Len(s) |-> F(n)] \in [1..Len(s) -> S]
  BY <1>1
<1>3. [n \in 1..Len(s) |-> F(n)] \in Seq(S)
  BY <1>1, <1>2, SeqDef
<1> QED
  BY <1>1, <1>3, LenProperties

LEMMA KindsDiffer ==
  /\ "text" # "sensitive_text" /\ "text" # "image" /\ "image" # "sensitive_text"
  /\ "button" # "header" /\ "button" # "body" /\ "header" # "body"
OBVIOUS

(* What is built of an alias the catalog may hold is such a message.       *)
LEMMA Builds ==
  ASSUME NEW alias \in TemplateAlias, NEW provided,
         \A name \in DOMAIN provided : provided[name] \in Parameter,
         BuildTemplateMessage(alias, provided).type = "template"
  PROVE  /\ BuildTemplateMessage(alias, provided) = Built(alias, provided)
         /\ Built(alias, provided) \in BuiltMessage
<1> DEFINE m == Built(alias, provided)
           P(n) == [k \in DOMAIN alias.components[n].names |->
                      provided[alias.components[n].names[k]]]
           C(n) == [type |-> alias.components[n].type,
                    button |-> IF alias.components[n].type = "button" THEN "url" ELSE "none",
                    parameters |-> P(n)]
<1>1. /\ Names(alias) \subseteq DOMAIN provided /\ KindsFit(alias, provided)
      /\ BuildTemplateMessage(alias, provided) = m
  BY DEF BuildTemplateMessage, Raised
<1>2. alias.components \in Seq(ComponentSpec) /\ alias.template \in References
  BY DEF TemplateAlias
<1>3. ASSUME NEW n \in DOMAIN alias.components
      PROVE  C(n) \in Component /\ (C(n).type = "button" => C(n).button = "url" /\ IsSensitive(C(n)))
  <2> DEFINE c == alias.components[n]
  <2>1. /\ c.type \in Types /\ c.names \in Seq(STRING) /\ c.kinds \in Seq(Kinds)
        /\ Len(c.names) = Len(c.kinds) /\ c.names # <<>>
        /\ \A k \in DOMAIN c.kinds :
             /\ c.kinds[k] = "image" => c.type = "header" /\ Len(c.kinds) = 1
             /\ c.type = "button" => c.kinds[k] = "sensitive_text"
    BY <1>2, <1>3, SeqFunction DEF ComponentSpec
  <2>2. \A k \in DOMAIN c.names : c.names[k] \in DOMAIN provided
    BY <1>1, <1>3 DEF Names
  <2>3. \A k \in DOMAIN c.names : provided[c.names[k]].kind = c.kinds[k]
    BY <1>1, <1>3 DEF KindsFit
  <2>4. DOMAIN c.names = DOMAIN c.kinds /\ DOMAIN c.names = 1..Len(c.names) /\ Len(c.names) \in Nat
    BY <2>1, SeqFunction
  <2>5. P(n) \in Seq(Parameter) /\ Len(P(n)) = Len(c.names)
    <3>1. \A k \in DOMAIN c.names : provided[c.names[k]] \in Parameter
      BY <2>2
    <3> HIDE DEF c
    <3>2. /\ [k \in DOMAIN c.names |-> provided[c.names[k]]] \in Seq(Parameter)
          /\ Len([k \in DOMAIN c.names |-> provided[c.names[k]]]) = Len(c.names)
      BY <2>1, <3>1, FunctionSeq
    <3> QED
      BY <3>2 DEF c
  <2>6. DOMAIN P(n) = DOMAIN c.names /\ \A k \in DOMAIN c.names : P(n)[k] = provided[c.names[k]]
    OBVIOUS
  <2>7. C(n).parameters = P(n) /\ C(n).type = c.type
        /\ C(n).button = IF c.type = "button" THEN "url" ELSE "none"
    OBVIOUS
  <2>8. C(n) \in [type : Types, button : {"none", "url"}, parameters : Seq(Parameter)]
    BY <2>1, <2>5
  <2>9. \A k \in DOMAIN P(n) : P(n)[k].kind = "image" => c.type = "header" /\ Len(P(n)) = 1
    BY <2>1, <2>3, <2>4, <2>5, <2>6
  <2>10. C(n) \in Component
    <3> HIDE DEF C, P, c
    <3> QED
      BY <2>7, <2>8, <2>9 DEF Component
  <2>11. c.type = "button" => \E k \in DOMAIN P(n) : P(n)[k].kind = "sensitive_text"
    <3>1. 1 \in DOMAIN c.names
      BY <2>1, <2>4, EmptySeq
    <3> QED
      BY <2>1, <2>3, <2>4, <2>6, <3>1
  <2> HIDE DEF C, P, c
  <2> QED
    BY <2>7, <2>10, <2>11 DEF IsSensitive
<1>4. m = [type |-> "template", template |-> alias.template,
           components |-> [n \in DOMAIN alias.components |-> C(n)]]
  BY DEF Built
<1> HIDE DEF C, m
<1>5. [n \in DOMAIN alias.components |-> C(n)] \in Seq(Component)
  <2>1. /\ Len(alias.components) \in Nat
        /\ DOMAIN alias.components = 1..Len(alias.components)
    BY <1>2, SeqFunction
  <2>2. [n \in DOMAIN alias.components |-> C(n)] \in [1..Len(alias.components) -> Component]
    BY <1>3, <2>1
  <2> QED
    BY <2>1, <2>2, SeqDef
<1>6. m \in TemplateMessage
  BY <1>2, <1>4, <1>5 DEF TemplateMessage
<1>7. DOMAIN m.components = DOMAIN alias.components
      /\ \A n \in DOMAIN alias.components : m.components[n] = C(n)
  BY <1>4
<1> QED
  BY <1>1, <1>3, <1>6, <1>7 DEF BuiltMessage, m

-----------------------------------------------------------------------------
(* A message and its parts.                                                *)

LEMMA Parts ==
  ASSUME NEW m \in BuiltMessage
  PROVE  /\ m.type = "template" /\ m.template \in References
         /\ m = [type |-> "template", template |-> m.template, components |-> m.components]
         /\ m.components = [n \in DOMAIN m.components |-> m.components[n]]
         /\ \A n \in DOMAIN m.components : LET c == m.components[n] IN
              /\ c \in Component
              /\ c = [type |-> c.type, button |-> c.button, parameters |-> c.parameters]
              /\ c.button = IF c.type = "button" THEN "url" ELSE "none"
              /\ c.type = "button" => IsSensitive(c)
              /\ c.parameters = [k \in DOMAIN c.parameters |-> c.parameters[k]]
              /\ \A k \in DOMAIN c.parameters : c.parameters[k] \in Parameter
<1>1. /\ m \in TemplateMessage
      /\ \A n \in DOMAIN m.components : m.components[n].type = "button" =>
            m.components[n].button = "url" /\ IsSensitive(m.components[n])
  BY DEF BuiltMessage
<1>2. /\ m.type = "template" /\ m.template \in References /\ m.components \in Seq(Component)
      /\ m = [type |-> "template", template |-> m.template, components |-> m.components]
  BY <1>1 DEF TemplateMessage
<1>3. /\ m.components = [n \in DOMAIN m.components |-> m.components[n]]
      /\ \A n \in DOMAIN m.components : m.components[n] \in Component
  BY <1>2, SeqFunction
<1>4. ASSUME NEW c \in Component
      PROVE  /\ c = [type |-> c.type, button |-> c.button, parameters |-> c.parameters]
             /\ c.type # "button" => c.button = "none"
             /\ c.parameters = [k \in DOMAIN c.parameters |-> c.parameters[k]]
             /\ \A k \in DOMAIN c.parameters : c.parameters[k] \in Parameter
  <2>1. /\ c \in [type : Types, button : {"none", "url"}, parameters : Seq(Parameter)]
        /\ c.type # "button" => c.button = "none"
    BY DEF Component
  <2>2. c.parameters \in Seq(Parameter)
    BY <2>1
  <2> QED
    BY <2>1, <2>2, SeqFunction
<1> QED
  BY <1>1, <1>2, <1>3, <1>4

LEMMA ComponentForm ==
  ASSUME NEW m \in BuiltMessage, NEW n \in DOMAIN m.components
  PROVE  \E t, b, p : /\ m.components[n] = [type |-> t, button |-> b, parameters |-> p]
                      /\ p = [k \in DOMAIN p |-> p[k]]
<1> DEFINE c == m.components[n]
<1>1. /\ c = [type |-> c.type, button |-> c.button, parameters |-> c.parameters]
      /\ c.parameters = [k \in DOMAIN c.parameters |-> c.parameters[k]]
  BY Parts
<1> HIDE DEF c
<1>2. \E t, b, p : /\ c = [type |-> t, button |-> b, parameters |-> p]
                   /\ p = [k \in DOMAIN p |-> p[k]]
  BY <1>1
<1> QED
  BY <1>2 DEF c

LEMMA ComponentExcept ==
  ASSUME NEW t, NEW b, NEW p, NEW q, NEW d
  PROVE  /\ [[type |-> t, button |-> b, parameters |-> p] EXCEPT !.parameters = q]
            = [type |-> t, button |-> b, parameters |-> q]
         /\ [[type |-> t, button |-> b, parameters |-> p] EXCEPT !.button = d]
            = [type |-> t, button |-> d, parameters |-> p]
OBVIOUS

(* The payload of a message is built of its parts.                         *)
LEMMA PayloadOf ==
  ASSUME NEW m \in BuiltMessage
  PROVE  Payload(m) =
           [type |-> "template", template |-> m.template,
            components |-> [n \in DOMAIN m.components |->
              [type |-> m.components[n].type,
               button |-> IF m.components[n].type = "button" THEN "url" ELSE "none",
               parameters |-> [k \in DOMAIN m.components[n].parameters |->
                                 Plain(m.components[n].parameters[k])]]]]
<1> DEFINE Q(n) == [k \in DOMAIN m.components[n].parameters |->
                      Plain(m.components[n].parameters[k])]
           D(n) == [m.components[n] EXCEPT !.parameters = Q(n)]
           E(n) == [type |-> m.components[n].type,
                    button |-> IF m.components[n].type = "button" THEN "url" ELSE "none",
                    parameters |-> Q(n)]
<1>1. Payload(m) = [m EXCEPT !.components = [n \in DOMAIN m.components |-> D(n)]]
  <2>1. m.type # "text"
    BY Parts
  <2>2. ~\E n \in DOMAIN m.components :
            m.components[n].type = "button" /\ m.components[n].button # "url"
    <3> SUFFICES ASSUME NEW n \in DOMAIN m.components
                 PROVE  m.components[n].type = "button" => m.components[n].button = "url"
      OBVIOUS
    <3>1. m.components[n].button = IF m.components[n].type = "button" THEN "url" ELSE "none"
      BY Parts
    <3> QED
      BY <3>1
  <2>3. Payload(m) = Map(Plain, m)
    BY <2>1, <2>2 DEF Payload
  <2> QED
    BY <2>3 DEF Map
<1>2. \A n \in DOMAIN m.components : D(n) = E(n)
  <2> SUFFICES ASSUME NEW n \in DOMAIN m.components PROVE D(n) = E(n)
    OBVIOUS
  <2> DEFINE c == m.components[n]
  <2>1. /\ c = [type |-> c.type, button |-> c.button, parameters |-> c.parameters]
        /\ c.button = IF c.type = "button" THEN "url" ELSE "none"
    BY Parts
  <2>2. \A q : [c EXCEPT !.parameters = q] = [type |-> c.type, button |-> c.button, parameters |-> q]
    <3>1. PICK t, b, p : c = [type |-> t, button |-> b, parameters |-> p]
      BY <2>1
    <3>2. c.type = t /\ c.button = b
      BY <3>1
    <3> HIDE DEF c
    <3> QED
      BY <3>1, <3>2, ComponentExcept
  <2> HIDE DEF Q
  <2> QED
    BY <2>1, <2>2
<1>3. [n \in DOMAIN m.components |-> D(n)] = [n \in DOMAIN m.components |-> E(n)]
  BY <1>2
<1> HIDE DEF D
<1> DEFINE F == [n \in DOMAIN m.components |-> E(n)]
<1>4. Payload(m) = [m EXCEPT !.components = F]
  BY <1>1, <1>3
<1>5. m = [type |-> "template", template |-> m.template, components |-> m.components]
  BY Parts
<1>6. Payload(m) = [type |-> "template", template |-> m.template, components |-> F]
  <2> HIDE DEF F
  <2> QED
    BY <1>4, <1>5
<1> QED
  BY <1>6

(* The fingerprint leaves out the place of a button and whether a text is  *)
(* sensitive, but two messages with the same fingerprint are the same for  *)
(* Meta, and there is always something to send.                            *)
THEOREM FingerprintDeterminesPayload ==
  ASSUME NEW m1 \in BuiltMessage, NEW m2 \in BuiltMessage,
         FingerprintData(m1) = FingerprintData(m2)
  PROVE  Payload(m1) = Payload(m2) /\ Payload(m1) # NoPayload /\ Payload(m1).type = "template"
<1> DEFINE G(m, n) == [type |-> m.components[n].type,
                       parameters |-> [k \in DOMAIN m.components[n].parameters |->
                                         Plain(m.components[n].parameters[k])]]
           H(m) == [n \in DOMAIN m.components |-> G(m, n)]
<1>1. ASSUME NEW m \in BuiltMessage
      PROVE  FingerprintData(m) = [type |-> "template", template |-> m.template, components |-> H(m)]
  BY Parts DEF FingerprintData
<1>2. m1.template = m2.template /\ H(m1) = H(m2)
  <2> HIDE DEF H
  <2> QED
    BY <1>1
<1>3. DOMAIN m1.components = DOMAIN m2.components
      /\ \A n \in DOMAIN m1.components : G(m1, n) = G(m2, n)
  <2>1. DOMAIN H(m1) = DOMAIN m1.components /\ DOMAIN H(m2) = DOMAIN m2.components
    OBVIOUS
  <2>2. \A n \in DOMAIN m1.components : H(m1)[n] = G(m1, n)
    OBVIOUS
  <2>3. \A n \in DOMAIN m2.components : H(m2)[n] = G(m2, n)
    OBVIOUS
  <2> HIDE DEF G, H
  <2> QED
    BY <1>2, <2>1, <2>2, <2>3
<1>4. \A n \in DOMAIN m1.components :
        /\ m1.components[n].type = m2.components[n].type
        /\ [k \in DOMAIN m1.components[n].parameters |-> Plain(m1.components[n].parameters[k])]
           = [k \in DOMAIN m2.components[n].parameters |-> Plain(m2.components[n].parameters[k])]
  BY <1>3
<1> DEFINE B(m, n) ==
  [type |-> m.components[n].type,
   button |-> IF m.components[n].type = "button" THEN "url" ELSE "none",
   parameters |-> [k \in DOMAIN m.components[n].parameters |->
                     Plain(m.components[n].parameters[k])]]
<1>5. \A n \in DOMAIN m1.components : B(m1, n) = B(m2, n)
  BY <1>4
<1>6. /\ Payload(m1) = [type |-> "template", template |-> m1.template,
                        components |-> [n \in DOMAIN m1.components |-> B(m1, n)]]
      /\ Payload(m2) = [type |-> "template", template |-> m2.template,
                        components |-> [n \in DOMAIN m2.components |-> B(m2, n)]]
  BY PayloadOf
<1> HIDE DEF B, G, H
<1>7. Payload(m1) = Payload(m2)
  BY <1>2, <1>3, <1>5, <1>6
<1>8. Payload(m1).type = "template"
  BY <1>6
<1> QED
  BY <1>7, <1>8 DEF NoPayload

-----------------------------------------------------------------------------
(* Snapshots.                                                              *)

(* The snapshot of schema 3 part by part.                                  *)
LEMMA SnapshotOf ==
  ASSUME NEW m \in BuiltMessage
  PROVE  /\ Serialize(m) = [schema |-> 3, message |-> Map(Redacted, m)]
         /\ Map(Redacted, m).type = "template"
         /\ DOMAIN Map(Redacted, m).components = DOMAIN m.components
         /\ \A n \in DOMAIN m.components :
              /\ Map(Redacted, m).components[n].type = m.components[n].type
              /\ Map(Redacted, m).components[n].button = m.components[n].button
              /\ Map(Redacted, m).components[n].parameters =
                   [k \in DOMAIN m.components[n].parameters |->
                      Redacted(m.components[n].parameters[k])]
<1> DEFINE Q(n) == [k \in DOMAIN m.components[n].parameters |->
                      Redacted(m.components[n].parameters[k])]
           D(n) == [m.components[n] EXCEPT !.parameters = Q(n)]
           F == [n \in DOMAIN m.components |-> D(n)]
<1>1. Map(Redacted, m) = [m EXCEPT !.components = F]
  BY DEF Map
<1>2. Map(Redacted, m) = [type |-> "template", template |-> m.template, components |-> F]
  <2>1. m = [type |-> "template", template |-> m.template, components |-> m.components]
    BY Parts
  <2> HIDE DEF F
  <2> QED
    BY <1>1, <2>1
<1>3. ASSUME NEW n \in DOMAIN m.components
      PROVE  /\ D(n).type = m.components[n].type /\ D(n).button = m.components[n].button
             /\ D(n).parameters = Q(n)
  <2>1. PICK t, b, p : /\ m.components[n] = [type |-> t, button |-> b, parameters |-> p]
                      /\ p = [k \in DOMAIN p |-> p[k]]
    BY ComponentForm
  <2> HIDE DEF Q
  <2> QED
    BY <2>1
<1>4. \A n \in DOMAIN m.components : F[n] = D(n)
  OBVIOUS
<1>5. DOMAIN F = DOMAIN m.components
  OBVIOUS
<1> HIDE DEF D, F
<1>6. m.type = "template"
  BY Parts
<1> QED
  BY <1>2, <1>3, <1>4, <1>5, <1>6 DEF Serialize

(* A request without sensitive content is restored as it was, by the       *)
(* releases of either schema.                                              *)
THEOREM SnapshotRestoresMessage ==
  ASSUME NEW m \in BuiltMessage, NEW schema \in 1..3, Fits(schema, m), ~ContainsSensitive(m)
  PROVE  Deserialize(SerializeAs(schema, m)) = m
<1>1. ASSUME NEW n \in DOMAIN m.components
      PROVE  /\ m.components[n].button = "none" /\ m.components[n].type # "button"
             /\ \A k \in DOMAIN m.components[n].parameters :
                  m.components[n].parameters[k].kind # "sensitive_text"
  <2>1. m.type = "template"
    BY Parts
  <2>2. \A k \in DOMAIN m.components[n].parameters :
          m.components[n].parameters[k].kind # "sensitive_text"
    BY <2>1 DEF ContainsSensitive
  <2>3. /\ m.components[n].type = "button" => IsSensitive(m.components[n])
        /\ m.components[n].button = IF m.components[n].type = "button" THEN "url" ELSE "none"
    BY Parts
  <2> QED
    BY <2>2, <2>3 DEF IsSensitive
<1>2. /\ m = [type |-> "template", template |-> m.template, components |-> m.components]
      /\ m.type = "template"
      /\ m.components = [n \in DOMAIN m.components |-> m.components[n]]
  BY Parts
<1>3. [m EXCEPT !.components = [n \in DOMAIN m.components |->
          [m.components[n] EXCEPT !.button = "none"]]] = m
  <2>1. ASSUME NEW n \in DOMAIN m.components
        PROVE  [m.components[n] EXCEPT !.button = "none"] = m.components[n]
    <3>1. PICK t, b, p : /\ m.components[n] = [type |-> t, button |-> b, parameters |-> p]
                        /\ p = [k \in DOMAIN p |-> p[k]]
      BY ComponentForm
    <3>2. b = "none"
      BY <1>1, <3>1
    <3> QED
      BY <3>1, <3>2
  <2>2. [n \in DOMAIN m.components |-> [m.components[n] EXCEPT !.button = "none"]]
        = [n \in DOMAIN m.components |-> m.components[n]]
    BY <2>1
  <2>3. [m EXCEPT !.components = m.components] = m
    BY <1>2
  <2> QED
    BY <1>2, <2>2, <2>3
<1>4. [m EXCEPT !.components = [n \in DOMAIN m.components |->
          [m.components[n] EXCEPT !.button = m.components[n].button]]] = m
  <2>1. ASSUME NEW n \in DOMAIN m.components
        PROVE  [m.components[n] EXCEPT !.button = m.components[n].button] = m.components[n]
    <3>1. PICK t, b, p : /\ m.components[n] = [type |-> t, button |-> b, parameters |-> p]
                        /\ p = [k \in DOMAIN p |-> p[k]]
      BY ComponentForm
    <3> QED
      BY <3>1
  <2>2. [n \in DOMAIN m.components |-> [m.components[n] EXCEPT !.button = m.components[n].button]]
        = [n \in DOMAIN m.components |-> m.components[n]]
    BY <2>1
  <2>3. [m EXCEPT !.components = m.components] = m
    BY <1>2
  <2> QED
    BY <1>2, <2>2, <2>3
<1>5. Map(Redacted, m) = m
  <2>1. ASSUME NEW n \in DOMAIN m.components
        PROVE  [m.components[n] EXCEPT !.parameters =
                  [k \in DOMAIN m.components[n].parameters |->
                     Redacted(m.components[n].parameters[k])]] = m.components[n]
    <3>1. PICK t, b, p : /\ m.components[n] = [type |-> t, button |-> b, parameters |-> p]
                         /\ p = [k \in DOMAIN p |-> p[k]]
      BY ComponentForm
    <3>2. p = [k \in DOMAIN p |-> p[k]] /\ m.components[n].parameters = p
      BY <3>1
    <3>3. \A k \in DOMAIN p : Redacted(p[k]) = p[k]
      BY <1>1, <3>2 DEF Redacted
    <3>4. [k \in DOMAIN p |-> Redacted(p[k])] = p
      BY <3>2, <3>3
    <3> QED
      BY <3>1, <3>2, <3>4
  <2>2. [n \in DOMAIN m.components |->
           [m.components[n] EXCEPT !.parameters =
              [k \in DOMAIN m.components[n].parameters |->
                 Redacted(m.components[n].parameters[k])]]]
        = [n \in DOMAIN m.components |-> m.components[n]]
    BY <2>1
  <2>3. [m EXCEPT !.components = m.components] = m
    BY <1>2
  <2> QED
    BY <1>2, <2>2, <2>3 DEF Map
<1>6. SerializeAs(schema, m) = [schema |-> schema, message |-> m]
  BY <1>2, <1>3, <1>5 DEF SerializeAs, Serialize
<1>7. \A n \in DOMAIN m.components : RestorableComponent(m.components[n], schema)
  <2> SUFFICES ASSUME NEW n \in DOMAIN m.components
               PROVE  RestorableComponent(m.components[n], schema)
    OBVIOUS
  <2>1. m.components[n].type # "button"
    BY <1>1
  <2>2. ASSUME NEW k \in DOMAIN m.components[n].parameters
        PROVE  Restorable(m.components[n].parameters[k].kind, schema)
    <3>1. m.components[n].parameters[k].kind \in {"text", "image"}
      <4>1. m.components[n].parameters[k] \in Parameter
        BY Parts
      <4> QED
        BY <1>1, <4>1 DEF Parameter, Kinds
    <3> QED
      BY <1>2, <3>1 DEF Fits, Restorable
  <2> QED
    BY <2>1, <2>2 DEF RestorableComponent
<1> DEFINE s == [schema |-> schema, message |-> m]
<1>8. s.schema = schema /\ s.message = m
  OBVIOUS
<1> HIDE DEF s
<1>9. Deserialize(s) = m
  <2>1. CASE schema = 3
    BY <1>2, <1>4, <1>7, <1>8, <2>1 DEF Deserialize
  <2>2. CASE schema # 3
    BY <1>2, <1>3, <1>7, <1>8, <2>2 DEF Deserialize
  <2> QED
    BY <2>1, <2>2
<1> QED
  BY <1>6, <1>9 DEF s

(* A request with sensitive content is never restored.                     *)
THEOREM SensitiveIsNotRestored ==
  ASSUME NEW m \in BuiltMessage, NEW schema \in 1..3, Fits(schema, m), ContainsSensitive(m)
  PROVE  schema = 3 /\ Deserialize(SerializeAs(schema, m)) = Unrestorable
<1>0. PICK n \in DOMAIN m.components : IsSensitive(m.components[n])
  BY DEF ContainsSensitive, IsSensitive
<1>1. PICK k \in DOMAIN m.components[n].parameters :
        m.components[n].parameters[k].kind = "sensitive_text"
  BY <1>0 DEF IsSensitive
<1>2. schema = 3
  BY <1>1, Parts DEF Fits, Restorable
<1> DEFINE r == Map(Redacted, m)
           s == Serialize(m)
<1>3. /\ r.type = "template" /\ DOMAIN r.components = DOMAIN m.components
      /\ r.components[n].parameters = [j \in DOMAIN m.components[n].parameters |->
                                         Redacted(m.components[n].parameters[j])]
      /\ s.message = r /\ s.schema = 3
  <2>1. Serialize(m) = [schema |-> 3, message |-> Map(Redacted, m)]
    BY SnapshotOf
  <2>2. s.message = r /\ s.schema = 3
    BY <2>1
  <2>3. r.type = "template" /\ DOMAIN r.components = DOMAIN m.components
    BY SnapshotOf
  <2>4. r.components[n].parameters = [j \in DOMAIN m.components[n].parameters |->
                                         Redacted(m.components[n].parameters[j])]
    BY SnapshotOf
  <2> QED
    BY <2>2, <2>3, <2>4
<1>4. r.components[n].parameters[k].kind = "sensitive_text"
  <2>1. m.components[n].parameters[k] \in Parameter
    BY Parts
  <2>2. Redacted(m.components[n].parameters[k]).kind = "sensitive_text"
    BY <1>1, <2>1 DEF Redacted, Parameter
  <2> QED
    BY <1>3, <2>2
<1> HIDE DEF r, s
<1>5. k \in DOMAIN r.components[n].parameters
  BY <1>3
<1>6. ~RestorableComponent(r.components[n], 3)
  BY <1>4, <1>5 DEF RestorableComponent, Restorable
<1>7. Deserialize(s) = Unrestorable
  BY <1>3, <1>6 DEF Deserialize
<1>8. SerializeAs(schema, m) = s
  BY <1>2 DEF SerializeAs, s
<1> QED
  BY <1>2, <1>7, <1>8

(* Where a sensitive text was, the snapshot has the redaction, and         *)
(* everything else in it is what was asked.                                *)
THEOREM SnapshotIsRedacted ==
  ASSUME NEW m \in BuiltMessage, NEW schema \in 1..3, Fits(schema, m)
  PROVE  LET r == SerializeAs(schema, m).message IN
         /\ r.type = "template" /\ DOMAIN r.components = DOMAIN m.components
         /\ \A n \in DOMAIN m.components :
              /\ DOMAIN r.components[n].parameters = DOMAIN m.components[n].parameters
              /\ \A k \in DOMAIN m.components[n].parameters :
                   r.components[n].parameters[k].value =
                     IF m.components[n].parameters[k].kind = "sensitive_text" THEN Redaction
                     ELSE m.components[n].parameters[k].value
<1> DEFINE r == SerializeAs(schema, m).message
<1>1. CASE schema = 3
  <2>1. /\ r.type = "template" /\ DOMAIN r.components = DOMAIN m.components
        /\ \A n \in DOMAIN m.components :
             r.components[n].parameters = [k \in DOMAIN m.components[n].parameters |->
                                             Redacted(m.components[n].parameters[k])]
    <3>1. r = Map(Redacted, m)
      <4>1. Serialize(m) = [schema |-> 3, message |-> Map(Redacted, m)]
        BY SnapshotOf
      <4>2. SerializeAs(schema, m) = Serialize(m)
        BY <1>1 DEF SerializeAs
      <4> QED
        BY <4>1, <4>2
    <3> HIDE DEF r
    <3> QED
      BY <3>1, SnapshotOf
  <2>2. ASSUME NEW n \in DOMAIN m.components, NEW k \in DOMAIN m.components[n].parameters
        PROVE  Redacted(m.components[n].parameters[k]).value =
                 IF m.components[n].parameters[k].kind = "sensitive_text" THEN Redaction
                 ELSE m.components[n].parameters[k].value
    <3>1. m.components[n].parameters[k] \in Parameter
      BY Parts
    <3> QED
      BY <3>1 DEF Redacted, Parameter
  <2> HIDE DEF r
  <2> QED
    BY <2>1, <2>2 DEF r
<1>2. CASE schema # 3
  <2>1. ~ContainsSensitive(m)
    BY <1>2, SensitiveIsNotRestored
  <2>2. m.type = "template"
    BY Parts
  <2> DEFINE F == [n \in DOMAIN m.components |-> [m.components[n] EXCEPT !.button = "none"]]
  <2>3. r = [m EXCEPT !.components = F]
    BY <1>2, <2>2 DEF SerializeAs
  <2>4. ASSUME NEW n \in DOMAIN m.components
        PROVE  F[n].parameters = m.components[n].parameters
    <3>1. PICK t, b, p : /\ m.components[n] = [type |-> t, button |-> b, parameters |-> p]
                        /\ p = [k \in DOMAIN p |-> p[k]]
      BY ComponentForm
    <3> QED
      BY <3>1
  <2>5. DOMAIN F = DOMAIN m.components
    OBVIOUS
  <2> HIDE DEF F, r
  <2>6. r.type = "template" /\ r.components = F
    <3>1. m = [type |-> "template", template |-> m.template, components |-> m.components]
      BY Parts
    <3> QED
      BY <2>3, <3>1
  <2> QED
    BY <2>1, <2>2, <2>4, <2>5, <2>6 DEF ContainsSensitive, r
<1> QED
  BY <1>1, <1>2
=============================================================================
