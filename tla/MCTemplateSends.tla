-------------------------- MODULE MCTemplateSends --------------------------
(***************************************************************************)
(* Small instances of TemplateSends: a letter with a picture and two texts,*)
(* the same letter with the texts the other way round, and a login with a  *)
(* sensitive code in its body and its button.                              *)
(***************************************************************************)
EXTENDS TemplateSends, TLC

CONSTANTS flow, phone      \* the scope and the recipient

Part(type, names, kind) == [type |-> type, names |-> names, kinds |-> [n \in DOMAIN names |-> kind]]

Letter(names) == [template |-> "hello",
                  components |-> <<Part("header", <<"picture">>, "image"), Part("body", names, "text")>>]

Templates == [a \in Aliases |->
  CASE a = "letter"  -> Letter(<<"first", "last">>)
    [] a = "swapped" -> Letter(<<"last", "first">>)
    [] a = "login"   -> [template |-> "login",
                         components |-> <<Part("body", <<"code">>, "sensitive_text"),
                                          Part("button", <<"code">>, "sensitive_text")>>]]

Given(kind, value) == [kind |-> kind, value |-> value]

\* What the letters need, the same with a picture for a text, what the login needs, and more.
Mappings == LET picture == Given("image", "10001") IN {
  [picture |-> picture, first |-> Given("text", "A"), last |-> Given("text", "B")],
  [picture |-> picture, first |-> picture, last |-> Given("text", "B")],
  [code |-> Given("sensitive_text", "S")],
  [code |-> Given("sensitive_text", "S"), last |-> Given("text", "B")]}

AllValues == {"A", "B", "10001", "S"}

MCRequests ==
  {RequestOf(k, MessageOf(x[1], x[2])) : k \in Keys, x \in Buildable}
MCSensitive == {r \in MCRequests : r.keyed}
MCScopeOf == [r \in MCRequests |-> flow]
MCRecipientOf == [r \in MCRequests |-> phone]

\* What became of an editor's call and of a refused one, what was so when a provider call ended
\* (sends, delivered) and what a call remembers of the policy change nothing for the rest, nor
\* for the properties of the run.
View == <<docs, recovery, [c \in Callers |-> [call[c] EXCEPT !.wasEligible = FALSE]], eligible,
          stored, content, snapshot, adapter, reported>>

Symmetry == Permutations(Callers) \cup Permutations(Ids)
=============================================================================
