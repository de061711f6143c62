------------------------------ MODULE MCIngest ------------------------------
(* Ingest with a few calls, for TLC.                                       *)
EXTENDS Ingest

(* Two calls of one talkgroup close in time, the second patched to another *)
(* talkgroup; and two calls of that other talkgroup.                       *)
TwoTalkgroups == {
  [id |-> 1, sys |-> 1, ref |-> 1, time |-> 2, patches |-> {}],
  [id |-> 2, sys |-> 1, ref |-> 1, time |-> 1, patches |-> {2}],
  [id |-> 3, sys |-> 1, ref |-> 2, time |-> 3, patches |-> {}],
  [id |-> 4, sys |-> 1, ref |-> 2, time |-> 5, patches |-> {}]}

(* Two talkgroups of one system, one of another, one given by its label.   *)
TwoSystems == {
  [id |-> 1, sys |-> 1, ref |-> 1, time |-> 1, patches |-> {}],
  [id |-> 2, sys |-> 2, ref |-> 1, time |-> 1, patches |-> {}],
  [id |-> 3, sys |-> 1, ref |-> NoRef, time |-> 1, patches |-> {2}]}

Blacklisted12 == {<<1, 2>>}
=============================================================================
