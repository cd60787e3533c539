----------------------------- MODULE MCRelease -----------------------------
(***************************************************************************)
(* Small instances of Release: a wheel and an sdist, a commit made for the *)
(* release and three that must not be trusted.                             *)
(***************************************************************************)
EXTENDS Release

CONSTANTS wheel, sdist, notes,            \* file names
          source, control, merged, wide, linked,  \* commits
          manifest, script, package       \* paths

Parents ==
  [c \in Commits |-> IF c = merged THEN <<source, wide>> ELSE IF c = source THEN <<>> ELSE <<source>>]

Changes ==
  [c \in Commits |-> IF c = wide THEN {manifest, script, package} ELSE {manifest, script}]

Regular ==
  [c \in Commits |-> IF c = linked THEN {manifest, package} ELSE {manifest, script, package}]

\* The release's own assets, and three listings that are not.
Listing(w, s, o) ==
  [n \in Files |-> IF n = wheel THEN w ELSE IF n = sdist THEN s ELSE o]
Good == Listing("frozen", "frozen", Missing)

Releases ==
  {[kind |-> "release", sha |-> c, listed |-> Good] : c \in Commits}
  \cup {[kind |-> k, sha |-> control, listed |-> Good] : k \in {"prerelease", "other tag"}}
  \cup {[kind |-> "release", sha |-> control, listed |-> l] :
          l \in {Listing("altered", "frozen", Missing), Listing("resized", "frozen", Missing),
                 Listing("frozen", "frozen", "frozen"), Listing("frozen", Missing, Missing)}}

\* Someone helps a publication along, or spoils it.
Hands == {<<sdist, "frozen">>, <<sdist, "altered">>, <<notes, "frozen">>}
=============================================================================
