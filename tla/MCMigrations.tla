---------------------------- MODULE MCMigrations ----------------------------
(* Migrations of small databases of version 6, for TLC.                    *)
EXTENDS Migrations

Whole(n)  == [id |-> n, whole |-> TRUE]
Lacking(n) == [id |-> n, whole |-> FALSE]

(* Two systems that both have a talkgroup 100, one more talkgroup, calls   *)
(* with a list of sources, with a single one and with a patch, a dirwatch  *)
(* with a system and one without, and rows that lack a column.             *)
Small == [
  groups      |-> {[id |-> 1, label |-> 2], [id |-> 2, label |-> 1]},
  tags        |-> {[id |-> 1, label |-> 1]},
  systems     |-> {[id |-> 1, ref |-> 11], [id |-> 2, ref |-> 12]},
  talkgroups  |-> {[id |-> 1, ref |-> 100, sys |-> 11, tag |-> 1, group |-> 1],
                   [id |-> 2, ref |-> 100, sys |-> 12, tag |-> 1, group |-> 2],
                   [id |-> 3, ref |-> 200, sys |-> 12, tag |-> 9, group |-> 2]},
  units       |-> {[id |-> 1, ref |-> 7, sys |-> 11], [id |-> 2, ref |-> 8, sys |-> 13]},
  options     |-> {[id |-> 1, keys |-> {"autoPopulate", "maxClients"}], [id |-> 2, keys |-> {"secret"}]},
  meta        |-> {[id |-> 1]},
  logs        |-> {Whole(1), Lacking(2)},
  downstreams |-> {Whole(1)},
  dirwatches  |-> {[id |-> 1, whole |-> TRUE, sys |-> 11, tg |-> 100],
                   [id |-> 2, whole |-> TRUE, sys |-> 0, tg |-> 0]},
  calls       |-> {[id |-> 1, whole |-> TRUE, sys |-> 11, tg |-> 100, patches |-> {}, sources |-> {7}, source |-> 7],
                   [id |-> 2, whole |-> TRUE, sys |-> 12, tg |-> 100, patches |-> {100}, sources |-> {}, source |-> 8],
                   [id |-> 3, whole |-> TRUE, sys |-> 12, tg |-> 300, patches |-> {}, sources |-> {}, source |-> 0]},
  apikeys     |-> {[id |-> 1]},
  accesses    |-> {Whole(1), Lacking(2)}]

(* One where a talkgroup has no group, and one that was never used.        *)
Groupless == [Small EXCEPT !.talkgroups = {[id |-> 1, ref |-> 100, sys |-> 11, tag |-> 1, group |-> 0]}]
Unused    == [t \in Table |-> {}]

Databases   == {Small, Groupless, Unused}
=============================================================================
