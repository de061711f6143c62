------------------------------ MODULE MCArchive ------------------------------
(* Archive with three calls of two talkgroups, one call patched, for TLC.  *)
EXTENDS Archive

Heard == [c \in Call |-> IF c = "k3" THEN "tg2" ELSE "tg1"]
Patched == [c \in Call |-> IF c = "k2" THEN {"tg2"} ELSE {}]
Everything == [list : {FALSE}, talkgroups : {Talkgroup}]
SomeLists == Everything \union [list : {TRUE}, talkgroups : {{"tg1"}, {"tg2"}}]
NoSelection == {Talkgroup}
Selections == {Talkgroup, {"tg2"}}
Ranges == {[span |-> 2, width |-> 2], [span |-> 4, width |-> 2], [span |-> 6, width |-> 3]}
=============================================================================
