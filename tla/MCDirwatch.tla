----------------------------- MODULE MCDirwatch -----------------------------
(* Dirwatch with one recording, for TLC.                                   *)
EXTENDS Dirwatch

(* The inner folder is there at first for what is recorded in it, and,     *)
(* empty, beside what a trunk-recorder makes in the watched folder.        *)
SomeSetups ==
  {s \in Setup : s.inner => s.kind = "trunk-recorder" \/ \E r \in File : s.home[r] = Inner}
=============================================================================
