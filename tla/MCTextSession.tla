---------------------------- MODULE MCTextSession ----------------------------
(***************************************************************************)
(* One recipient and three openings: one for both purposes, a shorter one  *)
(* for care that replaces it or is replaced by it, and the first's id with *)
(* another expiry.                                                         *)
(***************************************************************************)
EXTENDS TextSession, TLC

CONSTANTS phone, care, claims, wide, short, altered

OneSession == [e \in Events |-> phone]
EventIds == [e \in Events |-> IF e = short THEN 2 ELSE 1]
EventPurposes == [e \in Events |-> IF e = short THEN {care} ELSE {care, claims}]
EventOpens == [e \in Events |-> 0]
EventExpires == [e \in Events |-> IF e = wide THEN 2 ELSE 1]

\* Writers are interchangeable.
Symmetry == Permutations(Writers)
=============================================================================
