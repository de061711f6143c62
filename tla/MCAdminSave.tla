---------------------------- MODULE MCAdminSave ----------------------------
(* AdminSave from small configurations, for TLC.                           *)
EXTENDS AdminSave

Made(id, sys, key, tag) == [id |-> id, sys |-> sys, key |-> key, tag |-> tag]

(* One system with a talkgroup, and a tag to remove or to change to.       *)
OneSystem == {[l \in List |->
  CASE l = "tags"       -> {Made(1, 0, 1, 0), Made(2, 0, 3, 0)}
    [] l = "talkgroups" -> {Made(1, 1, 1, 1)}
    [] l \in {"sites", "units"} -> {Made(1, 1, 1, 0)}
    [] OTHER            -> {Made(1, 0, 1, 0)}]}

(* A call of another talkgroup, with a new group and a new tag.            *)
Call == {[key |-> 2, group |-> 2, tag |-> 2]}
=============================================================================
