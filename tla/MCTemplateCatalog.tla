-------------------------- MODULE MCTemplateCatalog --------------------------
(***************************************************************************)
(* One template key and an alias of each kind of components: text only, an *)
(* image header, an authentication template with its copy-code button, a   *)
(* sensitive body alone.                                                   *)
(***************************************************************************)
EXTENDS TemplateCatalog, TLC

CONSTANTS welcome, plain, picture, login, secret

FeaturesByName ==
  [a \in Aliases |-> CASE a = plain -> {}
                       [] a = picture -> {"image"}
                       [] a = login -> {"sensitive", "button"}
                       [] a = secret -> {"sensitive"}]

\* Editors are interchangeable.
Symmetry == Permutations(Editors)
=============================================================================
