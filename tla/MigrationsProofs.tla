--------------------------- MODULE MigrationsProofs ---------------------------
(***************************************************************************)
(* Theorems about Migrations, for any databases of version 6, on either    *)
(* engine, with any number of crashes and failures.                        *)
(***************************************************************************)
EXTENDS Migrations, FiniteSetTheorems, WellFoundedInduction, TLAPS

-----------------------------------------------------------------------------
(* The order of the migrations.                                            *)

LEMMA Positions ==
  /\ DOMAIN Order = 1..13 /\ Len(Order) = 13
  /\ Order[1] = "groups" /\ Order[2] = "tags" /\ Order[3] = "systems"
  /\ Order[4] = "talkgroups" /\ Order[5] = "units" /\ Order[6] = "options"
  /\ Order[7] = "meta" /\ Order[8] = "logs" /\ Order[9] = "downstreams"
  /\ Order[10] = "dirwatches" /\ Order[11] = "calls" /\ Order[12] = "apikeys"
  /\ Order[13] = "accesses"
BY DEF Order

LEMMA Tables ==
  Table = {"groups", "tags", "systems", "talkgroups", "units", "options", "meta",
           "logs", "downstreams", "dirwatches", "calls", "apikeys", "accesses"}
<1>1. Table = {Order[i] : i \in 1..13}
  BY Positions DEF Table, Range
<1> QED BY <1>1, Positions

(* What a table needs was moved before it.                                 *)
LEMMA NeededFirst ==
  ASSUME NEW i \in DOMAIN Order, NEW t \in Needs(Order[i])
  PROVE  \E j \in DOMAIN Order : j < i /\ Order[j] = t
<1> USE Positions
<1>1. CASE i \in {1, 2, 3, 6, 7, 8, 9, 12, 13}
  BY <1>1 DEF Needs
<1>2. CASE i \in {4, 5, 10, 11}
  BY <1>2 DEF Needs
<1> QED BY <1>1, <1>2

(* What a needed table needs is needed; so it was read well, too.          *)
LEMMA NeedsClosed ==
  ASSUME NEW t, NEW s \in Needs(t), WellRead(t)
  PROVE  s \in Table /\ s \notin misread /\ WellRead(s)
<1>1. s \in {"systems", "tags", "talkgroups"} /\ Needs(s) \subseteq Needs(t)
  BY DEF Needs
<1> QED BY <1>1, Tables DEF WellRead

-----------------------------------------------------------------------------
(* The rows of a new database.                                             *)

(* A row has the key of an old one, or one that the code gives by itself;  *)
(* systems and talkgroups keep their references.                           *)
Proper(t, row) ==
  /\ t \notin {"options", "meta"} => row.id \in Ids(legacy[t]) \union {0, 1}
  /\ t = "systems" => \E l \in legacy["systems"] : row.id = l.id /\ row.ref = l.ref
  /\ t = "talkgroups" => \E l \in legacy["talkgroups"] : row.id = l.id /\ row.ref = l.ref

Shape(db) == DOMAIN db = Table /\ \A t \in Table : \A row \in db[t] : Proper(t, row)

LEMMA Inserted ==
  ASSUME NEW db, Shape(db), NEW t \in Table, NEW row, Proper(t, row)
  PROVE  /\ Shape(Insert(db, t, row))
         /\ \A s \in Table : db[s] \subseteq Insert(db, t, row)[s]
<1>1. CASE row.id \in Ids(db[t])
  BY <1>1 DEF Insert
<1>2. CASE row.id \notin Ids(db[t])
  <2>1. Insert(db, t, row) = [db EXCEPT ![t] = db[t] \union {row}]
    BY <1>2 DEF Insert
  <2>2. DOMAIN Insert(db, t, row) = Table
    BY <2>1 DEF Shape
  <2>3. \A s \in Table : Insert(db, t, row)[s] = IF s = t THEN db[t] \union {row} ELSE db[s]
    BY <2>1 DEF Shape
  <2> QED BY <2>2, <2>3 DEF Shape
<1> QED BY <1>1, <1>2

LEMMA InsertedKey ==
  ASSUME NEW db, Shape(db), NEW t \in Table, NEW row
  PROVE  row.id \in Ids(Insert(db, t, row)[t])
<1>1. CASE row.id \notin Ids(db[t])
  <2>1. Insert(db, t, row)[t] = db[t] \union {row}
    BY <1>1 DEF Insert, Shape
  <2> QED BY <2>1 DEF Ids
<1> QED BY <1>1 DEF Insert

(* The migration of a row adds proper rows and removes none.               *)
LEMMA RowGrows ==
  ASSUME NEW t \in Table, NEW r \in legacy[t], NEW rows, NEW seen, NEW db, Shape(db)
  PROVE  /\ Shape(Migrated(t, r, rows, seen, db))
         /\ \A s \in Table : db[s] \subseteq Migrated(t, r, rows, seen, db)[s]
<1> DEFINE Grows(d) == Shape(d) /\ \A s \in Table : db[s] \subseteq d[s]
<1>0. Grows(db)
  OBVIOUS
<1>id. r.id \in Ids(legacy[t])
  BY DEF Ids
<1>1. CASE t = "groups"
  <2>1. Proper("groups", Placed(r, rows))
    BY <1>id, <1>1 DEF Proper, Placed
  <2> QED BY <1>1, <2>1, Inserted DEF Migrated, migrateGroup
<1>2. CASE t = "tags"
  <2>1. Proper("tags", Placed(r, rows))
    BY <1>id, <1>2 DEF Proper, Placed
  <2> QED BY <1>2, <2>1, Inserted DEF Migrated, migrateTag
<1>3. CASE t = "systems"
  <2>1. Proper("systems", [id |-> r.id, ref |-> r.ref])
    BY <1>id, <1>3 DEF Proper
  <2> QED BY <1>3, <2>1, Inserted DEF Migrated, migrateSystem
<1>4. CASE t = "talkgroups"
  <2> DEFINE row == [id |-> r.id, ref |-> r.ref, sys |-> seen.systems[r.sys], tag |-> r.tag,
                     groups |-> {r.group} \intersect Ids(db.groups)]
  <2>1. Proper("talkgroups", row)
    BY <1>id, <1>4 DEF Proper
  <2>2. Grows(Insert(db, "talkgroups", row))
    BY <1>4, <2>1, Inserted
  <2> QED BY <1>0, <1>4, <2>2 DEF Migrated, migrateTalkgroup
<1>5. CASE t = "units"
  <2> DEFINE row == [id |-> r.id, ref |-> 0, sys |-> seen.systems[r.sys]]
  <2>1. Proper("units", row)
    BY <1>id, <1>5 DEF Proper
  <2>2. Grows(Insert(db, "units", row))
    BY <1>5, <2>1, Inserted
  <2> QED BY <1>0, <1>5, <2>2 DEF Migrated, migrateUnit
<1>6. CASE t = "options"
  <2>1. \A row : Proper("options", row)
    BY DEF Proper
  <2>2. Migrated(t, r, rows, seen, db) = [db EXCEPT !["options"] = db["options"] \union {[id |-> k] : k \in r.keys}]
    BY <1>6 DEF Migrated, migrateOption
  <2> QED BY <1>6, <2>1, <2>2 DEF Shape
<1>7. CASE t = "meta"
  BY <1>0, <1>7 DEF Migrated
<1>8. CASE t \in {"logs", "downstreams", "accesses", "apikeys"}
  <2>1. Proper(t, [id |-> r.id])
    BY <1>id, <1>8 DEF Proper
  <2>2. Grows(Insert(db, t, [id |-> r.id]))
    BY <2>1, Inserted
  <2> QED BY <1>0, <1>8, <2>2 DEF Migrated, migrateLog, migrateDownstream, migrateAccess, migrateApikey
<1>9. CASE t = "dirwatches"
  <2> DEFINE row == [id |-> r.id, sys |-> seen.systems[r.sys],
                     tg |-> IF r.tg \in DOMAIN seen.talkgroups THEN seen.talkgroups[r.tg] ELSE 0]
  <2>1. Proper("dirwatches", row)
    BY <1>id, <1>9 DEF Proper
  <2>2. Grows(Insert(db, "dirwatches", row))
    BY <1>9, <2>1, Inserted
  <2> QED BY <1>0, <1>9, <2>2 DEF Migrated, migrateDirwatch
<1>10. CASE t = "calls"
  <2> DEFINE row == [id |-> r.id, sys |-> seen.systems[r.sys], tg |-> seen.talkgroups[r.tg],
                     patches |-> {seen.talkgroups[p] : p \in r.patches \intersect DOMAIN seen.talkgroups},
                     sources |-> r.sources]
             one == Insert(db, "calls", row)
             unit == [id |-> 0, ref |-> r.source, sys |-> seen.systems[r.sys]]
             two == SourceUnit(r, seen.systems[r.sys], one)
  <2>1. Proper("calls", row)
    BY <1>id, <1>10 DEF Proper
  <2>2. Grows(one)
    BY <1>10, <2>1, Inserted
  <2>3. Proper("units", unit)
    BY DEF Proper
  <2>4. two = one \/ two = [one EXCEPT !["units"] = one["units"] \union {unit}]
    BY DEF SourceUnit
  <2> HIDE DEF one, two, unit
  <2>5. Grows(two)
    BY <2>2, <2>3, <2>4, Tables DEF Shape
  <2>6. Migrated(t, r, rows, seen, db) \in {db, two}
    BY <1>10 DEF Migrated, migrateCall, two, one
  <2> QED BY <1>0, <2>5, <2>6
<1> QED BY <1>1, <1>2, <1>3, <1>4, <1>5, <1>6, <1>7, <1>8, <1>9, <1>10, Tables

-----------------------------------------------------------------------------
(* What is fit to move.                                                    *)

(* Of the rows of t, those that are fit and no longer to be read are moved.*)
Taken(t, todo, db) ==
  IF t = "options"
  THEN \A o \in Sound("options") \ todo : \A k \in o.keys : k \in Ids(db["options"])
  ELSE \A r \in Fit(t) \ todo : r.id \in Ids(db[t])

LEMMA TakenAll ==
  ASSUME NEW t \in Table, NEW db, Taken(t, {}, db)
  PROVE  Ids(Fit(t)) \subseteq Ids(db[t])
BY DEF Taken, Fit, Ids

LEMMA FitValues ==
  /\ Fit("systems") = Sound("systems") /\ Fit("tags") = Sound("tags")
  /\ Fit("talkgroups") = FitTalkgroups
  /\ \A t \in Table \ {"options"} : Fit(t) \subseteq Sound(t)
  /\ \A t \in Table : Sound(t) \subseteq legacy[t]
<1>1. FitTalkgroups \subseteq Sound("talkgroups") /\ \A t : Sound(t) \subseteq legacy[t]
  BY DEF FitTalkgroups, Sound
<1> QED BY <1>1, Tables DEF Fit

(* A row that is fit finds what it needs in the new database.              *)
LEMMA RowMoved ==
  ASSUME legacy \in Legacy, NEW t \in Table \ {"options"}, NEW r \in Fit(t), NEW rows, NEW db,
         Shape(new), Shape(db), \A s \in Table : new[s] \subseteq db[s],
         \A s \in Needs(t) : Ids(Fit(s)) \subseteq Ids(new[s])
  PROVE  r.id \in Ids(Migrated(t, r, rows, Seen(t, new), db)[t])
<1>0. \A s \in Table : \A x, y \in legacy[s] : x.id = y.id => x = y
  BY MigrationsAssumption
<1>1. r \in legacy[t] /\ r \in Sound(t)
  BY FitValues
<1>2. ASSUME "systems" \in Needs(t), NEW x, SystemOf(x)
      PROVE  \E s \in new["systems"] : s.ref = x.sys
  <2>1. PICK l \in Sound("systems") : l.ref = x.sys
    BY <1>2 DEF SystemOf
  <2>2. l.id \in Ids(new["systems"]) /\ l \in legacy["systems"]
    BY <1>2, <2>1, FitValues, Tables DEF Ids
  <2>3. PICK n \in new["systems"] : n.id = l.id
    BY <2>2 DEF Ids
  <2>4. PICK k \in legacy["systems"] : n.id = k.id /\ n.ref = k.ref
    BY <2>3, Tables DEF Shape, Proper
  <2>5. k = l
    BY <1>0, <2>2, <2>3, <2>4, Tables
  <2> QED BY <2>1, <2>3, <2>4, <2>5
<1>3. ASSUME "talkgroups" \in Needs(t), NEW g \in FitTalkgroups
      PROVE  \E n \in new["talkgroups"] : n.ref = g.ref
  <2>1. g.id \in Ids(new["talkgroups"]) /\ g \in legacy["talkgroups"]
    BY <1>3, FitValues, Tables DEF Ids
  <2>2. PICK n \in new["talkgroups"] : n.id = g.id
    BY <2>1 DEF Ids
  <2>3. PICK k \in legacy["talkgroups"] : n.id = k.id /\ n.ref = k.ref
    BY <2>2, Tables DEF Shape, Proper
  <2>4. k = g
    BY <1>0, <2>1, <2>2, <2>3, Tables
  <2> QED BY <2>2, <2>3, <2>4
<1> DEFINE seen == Seen(t, new)
<1>4. CASE t \in {"groups", "tags", "systems", "apikeys"}
  BY <1>4, InsertedKey DEF Migrated, migrateGroup, migrateTag, migrateSystem, migrateApikey, Placed
<1>5. CASE t = "talkgroups"
  <2>1. SystemOf(r) /\ r.tag \in Ids(Sound("tags")) /\ seen.systems = SystemsByRef(new)
    BY <1>5 DEF Fit, FitTalkgroups, Seen, Joins
  <2>2. r.sys \in DOMAIN seen.systems
    BY <1>2, <1>5, <2>1 DEF Needs, SystemsByRef
  <2>3. r.tag \in Ids(db.tags)
    BY <1>5, <2>1, FitValues, Tables DEF Needs, Ids
  <2> QED BY <1>5, <2>2, <2>3, InsertedKey DEF Migrated, migrateTalkgroup
<1>6. CASE t = "units"
  <2>1. SystemOf(r) /\ seen.systems = SystemsByRef(new)
    BY <1>6 DEF Fit, Seen, Joins
  <2>2. r.sys \in DOMAIN seen.systems
    BY <1>2, <1>6, <2>1 DEF Needs, SystemsByRef
  <2> QED BY <1>6, <2>2, InsertedKey DEF Migrated, migrateUnit
<1>7. CASE t = "meta"
  BY <1>7 DEF Fit
<1>8. CASE t \in {"logs", "downstreams", "accesses"}
  <2>1. r.whole
    BY <1>8 DEF Fit
  <2> QED BY <1>8, <2>1, InsertedKey DEF Migrated, migrateLog, migrateDownstream, migrateAccess
<1>9. CASE t = "dirwatches"
  <2>1. r.whole /\ SystemOf(r) /\ FitTalkgroups # {} /\ seen.systems = JoinedSystems(new)
    BY <1>9 DEF Fit, Seen, Joins
  <2>2. new.talkgroups # {}
    BY <1>3, <1>9, <2>1 DEF Needs
  <2>3. r.sys \in DOMAIN seen.systems
    BY <1>2, <1>9, <2>1, <2>2 DEF Needs, JoinedSystems
  <2> QED BY <1>9, <2>1, <2>3, InsertedKey DEF Migrated, migrateDirwatch
<1>10. CASE t = "calls"
  <2>1. PICK g \in FitTalkgroups : g.ref = r.tg /\ g.sys = r.sys
    BY <1>10 DEF Fit
  <2>2. /\ r.whole /\ SystemOf(g)
        /\ seen.systems = JoinedSystems(new) /\ seen.talkgroups = JoinedTalkgroups(new)
    BY <1>10 DEF Fit, FitTalkgroups, Seen, Joins
  <2>3. \E n \in new["talkgroups"] : n.ref = r.tg
    BY <1>3, <1>10, <2>1 DEF Needs
  <2>4. r.tg \in DOMAIN seen.talkgroups /\ r.sys \in DOMAIN seen.systems
    BY <1>2, <1>10, <2>1, <2>2, <2>3 DEF Needs, JoinedSystems, JoinedTalkgroups
  <2> DEFINE row == [id |-> r.id, sys |-> seen.systems[r.sys], tg |-> seen.talkgroups[r.tg],
                     patches |-> {seen.talkgroups[p] : p \in r.patches \intersect DOMAIN seen.talkgroups},
                     sources |-> r.sources]
  <2>5. CASE r.id \in Ids(db.calls)
    BY <1>10, <2>5 DEF Migrated, migrateCall
  <2>6. CASE r.id \notin Ids(db.calls)
    <3> DEFINE one == Insert(db, "calls", row)
    <3>1. Migrated(t, r, rows, seen, db) = SourceUnit(r, seen.systems[r.sys], one)
      BY <1>10, <2>2, <2>4, <2>6 DEF Migrated, migrateCall
    <3>2. r.id \in Ids(one["calls"])
      BY <1>10, InsertedKey
    <3> HIDE DEF one, seen
    <3>3. SourceUnit(r, seen.systems[r.sys], one)["calls"] = one["calls"]
      BY DEF SourceUnit
    <3> QED BY <1>10, <3>1, <3>2, <3>3 DEF seen
  <2> QED BY <2>5, <2>6
<1> QED BY <1>4, <1>5, <1>6, <1>7, <1>8, <1>9, <1>10, Tables

LEMMA OptionsMoved ==
  ASSUME NEW r \in legacy["options"], NEW rows, NEW seen, NEW db, Shape(db)
  PROVE  \A k \in r.keys : k \in Ids(Migrated("options", r, rows, seen, db)["options"])
<1>1. Migrated("options", r, rows, seen, db)["options"] = db["options"] \union {[id |-> k] : k \in r.keys}
  BY Tables DEF Migrated, migrateOption, Shape
<1>2. ASSUME NEW k \in r.keys
      PROVE  k \in Ids(Migrated("options", r, rows, seen, db)["options"])
  <2>1. [id |-> k] \in Migrated("options", r, rows, seen, db)["options"]
    BY <1>1
  <2> QED BY <2>1 DEF Ids
<1> QED BY <1>2

(* What is fit depends on the sound rows of the table and of its needs.    *)
LEMMA FitShrinks ==
  ASSUME legacy' = legacy, NEW t \in Table,
         \A s \in Needs(t) \union {t} : Sound(s)' \subseteq Sound(s)
  PROVE  Fit(t)' \subseteq Fit(t)
<1>1. ASSUME {"systems", "tags", "talkgroups"} \subseteq Needs(t) \union {t}
      PROVE  FitTalkgroups' \subseteq FitTalkgroups
  BY <1>1 DEF FitTalkgroups, SystemOf, Ids
<1>2. ASSUME "systems" \in Needs(t), NEW x, SystemOf(x)'
      PROVE  SystemOf(x)
  BY <1>2 DEF SystemOf
<1>3. CASE t = "talkgroups"
  BY <1>1, <1>3 DEF Fit, Needs
<1>4. CASE t = "units"
  BY <1>2, <1>4 DEF Fit, Needs
<1>5. CASE t = "dirwatches"
  BY <1>1, <1>2, <1>5 DEF Fit, Needs
<1>6. CASE t = "calls"
  BY <1>1, <1>6 DEF Fit, Needs
<1>7. CASE t = "options"
  BY <1>7 DEF Fit
<1>8. CASE t \in {"groups", "tags", "systems", "meta", "logs", "downstreams", "apikeys", "accesses"}
  BY <1>8 DEF Fit
<1> QED BY <1>3, <1>4, <1>5, <1>6, <1>7, <1>8, Tables

LEMMA FitKept ==
  ASSUME legacy' = legacy, spoiled' = spoiled
  PROVE  \A t \in Table : Fit(t)' = Fit(t) /\ Sound(t)' = Sound(t)
<1>1. \A t : Sound(t)' = Sound(t)
  BY DEF Sound
<1>2. \A x : SystemOf(x)' <=> SystemOf(x)
  BY <1>1 DEF SystemOf
<1>3. FitTalkgroups' = FitTalkgroups
  BY <1>1, <1>2 DEF FitTalkgroups
<1>4. ASSUME NEW t \in Table
      PROVE  Fit(t)' = Fit(t)
  BY <1>1, <1>2, <1>3 DEF Fit
<1> QED BY <1>1, <1>4

LEMMA TakenKept ==
  ASSUME legacy' = legacy, spoiled' = spoiled, NEW t \in Table, NEW todo, NEW db,
         Taken(t, todo, db)
  PROVE  Taken(t, todo, db)'
BY FitKept, Tables DEF Taken

-----------------------------------------------------------------------------
(* The inductive invariant.                                                *)

Types ==
  /\ engine \in Engine /\ legacy \in Legacy
  /\ DOMAIN old \subseteq Table /\ \A t \in DOMAIN old : old[t] = legacy[t]
  /\ Shape(new)
  /\ pc \in {"down", "migrate", "seed", "ready"} /\ at \in DOMAIN Order
  /\ misread \subseteq Table /\ kept \subseteq Table
  /\ faults \in 0..MaxFaults /\ crashes \in 0..MaxCrashes

(* A table whose rows are in the new one, whether or not it could be       *)
(* dropped, and one that the process may be past.                          *)
Done   == (Table \ DOMAIN old) \union kept
Passed == Done \union misread

(* A table is done after those it needs, and the process is past what is   *)
(* done or was misread.                                                    *)
InOrder ==
  /\ \A t \in Done : Needs(t) \subseteq Passed
  /\ pc = "migrate" => \A i \in DOMAIN Order : i < at => Order[i] \in Passed

(* A transaction adds to the new tables, reads the old one until it drops  *)
(* it, and has moved what it no longer has to read.                        *)
Transaction ==
  tx # None =>
    /\ pc = "migrate"
    /\ tx = [todo |-> tx.todo, db |-> tx.db, seen |-> tx.seen, drop |-> tx.drop]
    /\ tx.todo \subseteq legacy[Order[at]] /\ tx.drop \in {"none", "done", "failed"}
    /\ Shape(tx.db) /\ \A s \in Table : new[s] \subseteq tx.db[s]
    /\ WellRead(Order[at]) => Taken(Order[at], tx.todo, tx.db)
    /\ IF tx.drop # "none" THEN tx.todo = {}
       ELSE Order[at] \in DOMAIN old /\ tx.seen = Seen(Order[at], new)

Inv == Types /\ InOrder /\ Transaction /\ DroppedWhenMoved

LEMMA InvInit == Init => Inv
<1> SUFFICES ASSUME Init PROVE Inv
  OBVIOUS
<1>1. DOMAIN old = Table
  BY MigrationsAssumption DEF Init
<1>2. Shape(new)
  BY DEF Init, Shape
<1> QED BY <1>1, <1>2, MigrationsAssumption, Positions
    DEF Init, Inv, Types, InOrder, Done, Passed, Transaction, DroppedWhenMoved, None

LEMMA AtTable == Types => Order[at] \in Table
BY DEF Types, Table, Range

(* The end of the process keeps the invariant.                             *)
LEMMA FatalKeeps ==
  ASSUME Inv, Fatal, old' = old, new' = new,
         faults' \in 0..MaxFaults, crashes' \in 0..MaxCrashes
  PROVE  Inv'
<1>1. Types'
  BY DEF Inv, Types, Fatal, Shape, Proper
<1>2. InOrder'
  BY DEF Inv, InOrder, Done, Passed, Fatal
<1>3. Transaction'
  BY DEF Transaction, Fatal, None
<1>4. ASSUME NEW t \in Done, WellRead(t)
      PROVE  Ids(Fit(t)') \subseteq Ids(new[t])
  <2>1. \A s \in Needs(t) \union {t} : s \in Done
    BY <1>4, NeedsClosed DEF Inv, InOrder, Passed
  <2>2. \A s \in Needs(t) \union {t} : Sound(s)' \subseteq Sound(s)
    BY <2>1 DEF Sound, Fatal, Done
  <2>3. t \in Table
    BY DEF Inv, Types, Done
  <2>4. Fit(t)' \subseteq Fit(t)
    BY <2>2, <2>3, FitShrinks DEF Fatal
  <2> QED BY <1>4, <2>4 DEF Inv, DroppedWhenMoved, Done, Ids
<1>5. DroppedWhenMoved'
  BY <1>4 DEF DroppedWhenMoved, Done, WellRead, Fatal, Ids
<1> QED BY <1>1, <1>2, <1>3, <1>5 DEF Inv

(* The process goes on to the next migration, past a table that is done or *)
(* was misread.                                                            *)
LEMMA AdvanceKeeps ==
  ASSUME Types, Advance(at), Passed \subseteq Passed', pc = "migrate",
         \A i \in DOMAIN Order : i < at => Order[i] \in Passed,
         Order[at] \in Passed'
  PROVE  /\ pc' \in {"migrate", "seed"} /\ at' \in DOMAIN Order
         /\ pc' = "migrate" => \A i \in DOMAIN Order : i < at' => Order[i] \in Passed'
<1>1. at \in 1..13
  BY Positions DEF Types
<1> QED BY <1>1, Positions DEF Advance

(* When the old table t is gone, or could not be dropped, what was moved   *)
(* is in the new tables.                                                   *)
LEMMA DropKeeps ==
  ASSUME Inv, tx # None, tx.todo = {}, UNCHANGED <<legacy, spoiled, misread>>,
         new' = tx.db,
         \/ old' = Without(Order[at]) /\ kept' = kept
         \/ old' = old /\ kept' = kept \union {Order[at]}
  PROVE  /\ DOMAIN old' \subseteq DOMAIN old
         /\ \A t \in DOMAIN old' : old'[t] = legacy'[t]
         /\ kept' \subseteq Table
         /\ Shape(new)'
         /\ Passed' = Passed \union {Order[at]}
         /\ \A t \in Done' : Needs(t) \subseteq Passed'
         /\ DroppedWhenMoved'
<1> USE DEF Inv
<1>0. Order[at] \in Table
  BY AtTable
<1>w. old' = Without(Order[at]) =>
        /\ DOMAIN old' = DOMAIN old \ {Order[at]}
        /\ \A t \in DOMAIN old' : old'[t] = old[t]
  BY DEF Without, Restrict
<1>1. /\ DOMAIN old' \subseteq DOMAIN old /\ \A t \in DOMAIN old' : old'[t] = legacy'[t]
      /\ kept' \subseteq Table
  BY <1>0, <1>w DEF Types
<1>d. Done' = Done \union {Order[at]}
  BY <1>0, <1>w DEF Done
<1>p. Passed' = Passed \union {Order[at]}
  BY <1>d DEF Passed
<1>2. Shape(new)'
  BY DEF Transaction, Shape, Proper
<1>3. \A t \in Needs(Order[at]) : t \in Passed
  BY NeededFirst DEF Types, InOrder, Transaction
<1>4. \A t \in Done' : Needs(t) \subseteq Passed'
  BY <1>d, <1>p, <1>3 DEF InOrder
<1>5. \A t \in Table : Ids(Fit(t)') \subseteq Ids(Fit(t))
  <2>1. ASSUME NEW t \in Table
        PROVE  Fit(t)' \subseteq Fit(t)
    BY FitShrinks DEF Sound
  <2> QED BY <2>1 DEF Ids
<1>6. WellRead(Order[at]) => Ids(Fit(Order[at])) \subseteq Ids(tx.db[Order[at]])
  BY TakenAll, <1>0 DEF Transaction
<1>7. ASSUME NEW t \in Done, WellRead(t)
      PROVE  Ids(Fit(t)) \subseteq Ids(tx.db[t])
  BY <1>7 DEF DroppedWhenMoved, Done, Types, Transaction, Ids
<1>8. ASSUME NEW t \in Done', WellRead(t)
      PROVE  Ids(Fit(t)') \subseteq Ids(new'[t])
  <2>1. t \in Table
    BY <1>0, <1>d DEF Done, Types
  <2>2. Ids(Fit(t)) \subseteq Ids(tx.db[t])
    BY <1>d, <1>6, <1>7, <1>8
  <2> QED BY <1>5, <2>1, <2>2
<1>9. DroppedWhenMoved'
  BY <1>8 DEF DroppedWhenMoved, Done, WellRead, Ids
<1> QED BY <1>1, <1>2, <1>4, <1>p, <1>9

LEMMA InvNext == Inv /\ [Next]_vars => Inv'
<1> SUFFICES ASSUME Inv, [Next]_vars PROVE Inv'
  OBVIOUS
<1> USE DEF Inv
<1>0. Order[at] \in Table
  BY AtTable
<1>f. /\ MaxFaults \in Nat /\ MaxCrashes \in Nat
      /\ faults \in 0..MaxFaults /\ crashes \in 0..MaxCrashes
  BY MigrationsAssumption DEF Types
<1>k. ASSUME UNCHANGED <<legacy, old, new, spoiled, misread, kept>>
      PROVE  DroppedWhenMoved'
  <2>1. \A t \in Done : t \in Table
    BY DEF Done, Types
  <2> QED BY <1>k, <2>1, FitKept DEF DroppedWhenMoved, Done, WellRead
<1>s. ASSUME legacy' = legacy
      PROVE  \A db : Shape(db) <=> Shape(db)'
  BY <1>s DEF Shape, Proper
<1>1. CASE NewDatabase
  <2> USE <1>1 DEF NewDatabase, counts, faulty
  <2>1. Types'
    BY <1>f, Positions DEF Types, Shape, Proper
  <2>2. InOrder'
    BY Positions DEF InOrder, Done, Passed
  <2>3. Transaction'
    BY DEF Transaction
  <2> QED BY <1>k, <2>1, <2>2, <2>3
<1>2. CASE Absent \/ CountFails
  <2>1. /\ UNCHANGED <<engine, legacy, old, new, tx, spoiled, kept>> /\ pc = "migrate" /\ tx = None
        /\ Advance(at)
        /\ misread \subseteq misread' /\ misread' \subseteq misread \union {Order[at]}
        /\ faults' \in 0..MaxFaults /\ crashes' \in 0..MaxCrashes
        /\ Order[at] \notin DOMAIN old \/ Order[at] \in misread'
    BY <1>2, <1>f DEF Absent, CountFails, counts, faulty
  <2>2. Passed \subseteq Passed' /\ Done' = Done /\ Order[at] \in Passed'
    BY <1>0, <2>1 DEF Passed, Done
  <2>3. /\ pc' \in {"migrate", "seed"} /\ at' \in DOMAIN Order
        /\ pc' = "migrate" => \A i \in DOMAIN Order : i < at' => Order[i] \in Passed'
    BY <2>1, <2>2, AdvanceKeeps DEF InOrder
  <2>4. Types'
    BY <1>0, <2>1, <2>3 DEF Types, Shape, Proper
  <2>5. InOrder'
    BY <2>2, <2>3 DEF InOrder
  <2>6. Transaction'
    BY <2>1 DEF Transaction
  <2>7. DroppedWhenMoved'
    <3>1. \A t \in Done : t \in Table
      BY DEF Done, Types
    <3>2. \A t : WellRead(t)' => WellRead(t)
      BY <2>1 DEF WellRead
    <3> QED BY <2>1, <3>1, <3>2, FitKept DEF DroppedWhenMoved, Done
  <2> QED BY <2>4, <2>5, <2>6, <2>7
<1>3. CASE Begin
  <2>1. CASE engine = "mysql" /\ Joins(Order[at])
    BY <1>3, <1>f, <2>1, FatalKeeps DEF Begin
  <2>2. CASE ~(engine = "mysql" /\ Joins(Order[at]))
    <3> USE <1>3, <2>2 DEF Begin
    <3>1. /\ UNCHANGED <<engine, legacy, old, new, pc, at, spoiled, misread, kept, faults, crashes>>
          /\ tx' = [todo |-> old[Order[at]], db |-> new, seen |-> Seen(Order[at], new), drop |-> "none"]
      BY DEF faulty
    <3>2. Types' /\ InOrder'
      BY <3>1 DEF Types, InOrder, Done, Passed, Shape, Proper
    <3>3. old[Order[at]] = legacy[Order[at]]
      BY DEF Types
    <3>4. Taken(Order[at], legacy[Order[at]], new)'
      <4>1. Fit(Order[at])' \subseteq legacy[Order[at]] \/ Order[at] = "options"
        BY <1>0, <3>1, FitValues DEF Fit, FitTalkgroups, SystemOf, Sound
      <4> QED BY <3>1, <4>1 DEF Taken, Sound
    <3>5. Transaction'
      BY <3>1, <3>3, <3>4, <1>s DEF Transaction, Types
    <3> QED BY <1>k, <3>1, <3>2, <3>5
  <2> QED BY <2>1, <2>2
<1>4. CASE MigrateRow
  <2>1. PICK r \in tx.todo :
          LET db == Migrated(Order[at], r, old[Order[at]], tx.seen, tx.db) IN
          IF Panics(r, db) THEN Fatal
          ELSE /\ tx' = [tx EXCEPT !.todo = @ \ {r}, !.db = db]
               /\ UNCHANGED <<engine, legacy, pc, at, spoiled, misread, kept>>
    BY <1>4 DEF MigrateRow, faulty
  <2>2. tx # None /\ UNCHANGED <<old, new, faults, crashes>>
    BY <1>4 DEF MigrateRow
  <2>3. CASE Fatal
    BY <1>f, <2>2, <2>3, FatalKeeps
  <2>4. CASE ~Fatal
    <3>1. PICK db : /\ db = Migrated(Order[at], r, old[Order[at]], tx.seen, tx.db)
                    /\ tx' = [tx EXCEPT !.todo = tx.todo \ {r}, !.db = db]
                    /\ UNCHANGED <<engine, legacy, pc, at, spoiled, misread, kept>>
      BY <2>1, <2>4
    <3>2. /\ r \in legacy[Order[at]] /\ Shape(tx.db) /\ Shape(new) /\ legacy \in Legacy
          /\ \A s \in Table : new[s] \subseteq tx.db[s]
          /\ WellRead(Order[at]) => Taken(Order[at], tx.todo, tx.db)
          /\ pc = "migrate" /\ tx.drop = "none" /\ Order[at] \in DOMAIN old /\ tx.seen = Seen(Order[at], new)
      BY <2>1, <2>2 DEF Transaction, Types
    <3>3. Shape(db) /\ \A s \in Table : tx.db[s] \subseteq db[s]
      BY <1>0, <3>1, <3>2, RowGrows
    <3>4. ASSUME WellRead(Order[at]), NEW s \in Needs(Order[at])
          PROVE  Ids(Fit(s)) \subseteq Ids(new[s])
      <4>1. s \in Passed
        BY <3>2, NeededFirst DEF Types, InOrder
      <4>2. s \in Done /\ WellRead(s)
        BY <3>4, <4>1, NeedsClosed DEF Passed
      <4> QED BY <4>2 DEF DroppedWhenMoved, Done
    <3>5. ASSUME WellRead(Order[at]) PROVE Taken(Order[at], tx.todo \ {r}, db)
      <4>1. CASE Order[at] = "options"
        <5>1. \A k \in r.keys : k \in Ids(db["options"])
          BY <3>1, <3>2, <4>1, OptionsMoved
        <5>2. Ids(tx.db["options"]) \subseteq Ids(db["options"])
          BY <1>0, <3>3, <4>1 DEF Ids
        <5> QED BY <3>2, <3>5, <4>1, <5>1, <5>2 DEF Taken
      <4>2. CASE Order[at] # "options"
        <5>1. r \in Fit(Order[at]) => r.id \in Ids(db[Order[at]])
          BY <1>0, <3>1, <3>2, <3>4, <3>5, <4>2, RowMoved
        <5>2. Ids(tx.db[Order[at]]) \subseteq Ids(db[Order[at]])
          BY <1>0, <3>3 DEF Ids
        <5> QED BY <3>2, <3>5, <4>2, <5>1, <5>2 DEF Taken
      <4> QED BY <4>1, <4>2
    <3>6. tx' = [todo |-> tx.todo \ {r}, db |-> db, seen |-> tx.seen, drop |-> tx.drop]
      BY <2>2, <3>1 DEF Transaction
    <3>7. WellRead(Order[at])' => Taken(Order[at], tx.todo, tx.db)'
      BY <1>0, <3>1, <3>5, <3>6, TakenKept DEF WellRead
    <3>8. Transaction'
      BY <1>s, <2>2, <3>1, <3>2, <3>3, <3>6, <3>7 DEF Transaction
    <3>9. Types' /\ InOrder'
      BY <2>2, <3>1 DEF Types, InOrder, Done, Passed, Shape, Proper
    <3> QED BY <1>k, <2>2, <3>1, <3>8, <3>9
  <2> QED BY <2>3, <2>4
<1>5. CASE DropTable \/ DropFails
  <2>1. /\ tx # None /\ tx.todo = {} /\ tx.drop = "none"
        /\ \E d \in {"done", "failed"} : tx' = [tx EXCEPT !.drop = d]
        /\ UNCHANGED <<engine, legacy, pc, at, spoiled, misread>>
        /\ faults' \in 0..MaxFaults /\ crashes' \in 0..MaxCrashes
    BY <1>5, <1>f DEF DropTable, DropFails, counts, faulty
  <2>2. /\ pc = "migrate" /\ Shape(tx.db) /\ tx.todo \subseteq legacy[Order[at]]
        /\ \A s \in Table : new[s] \subseteq tx.db[s]
        /\ WellRead(Order[at]) => Taken(Order[at], tx.todo, tx.db)
        /\ \E d \in {"done", "failed"} :
             tx' = [todo |-> tx.todo, db |-> tx.db, seen |-> tx.seen, drop |-> d]
    BY <2>1 DEF Transaction
  <2>3. WellRead(Order[at])' => Taken(Order[at], tx.todo, tx.db)'
    BY <1>0, <2>1, <2>2, TakenKept DEF WellRead
  <2>4. CASE old' = old /\ new' = new /\ kept' = kept
    <3>1. Types' /\ InOrder'
      BY <2>1, <2>4 DEF Types, InOrder, Done, Passed, Shape, Proper
    <3>2. Transaction'
      BY <1>s, <2>1, <2>2, <2>3, <2>4 DEF Transaction
    <3> QED BY <1>k, <2>1, <2>4, <3>1, <3>2
  <2>5. CASE /\ new' = tx.db
             /\ \/ old' = Without(Order[at]) /\ kept' = kept
                \/ old' = old /\ kept' = kept \union {Order[at]}
    <3>1. /\ DOMAIN old' \subseteq DOMAIN old
          /\ \A t \in DOMAIN old' : old'[t] = legacy'[t]
          /\ kept' \subseteq Table /\ Shape(new)'
          /\ Passed' = Passed \union {Order[at]}
          /\ \A t \in Done' : Needs(t) \subseteq Passed'
          /\ DroppedWhenMoved'
      BY <2>1, <2>5, DropKeeps
    <3>2. Types' /\ InOrder'
      BY <2>1, <3>1 DEF Types, InOrder
    <3>3. Transaction'
      BY <1>s, <2>1, <2>2, <2>3, <2>5 DEF Transaction
    <3> QED BY <3>1, <3>2, <3>3
  <2> QED BY <1>5, <2>4, <2>5 DEF DropTable, DropFails, counts, faulty
<1>6. CASE Commit
  <2>1. /\ tx # None /\ tx.todo = {} /\ pc = "migrate" /\ Advance(at)
        /\ new' = tx.db /\ tx' = None
        /\ \/ old' = Without(Order[at]) /\ kept' = kept
           \/ old' = old /\ kept' = kept \union {Order[at]}
        /\ UNCHANGED <<engine, legacy, spoiled, misread, faults, crashes>>
    BY <1>6 DEF Commit, Transaction
  <2>2. /\ DOMAIN old' \subseteq DOMAIN old
        /\ \A t \in DOMAIN old' : old'[t] = legacy'[t]
        /\ kept' \subseteq Table /\ Shape(new)'
        /\ Passed' = Passed \union {Order[at]}
        /\ \A t \in Done' : Needs(t) \subseteq Passed'
        /\ DroppedWhenMoved'
    BY <2>1, DropKeeps
  <2>3. /\ pc' \in {"migrate", "seed"} /\ at' \in DOMAIN Order
        /\ pc' = "migrate" => \A i \in DOMAIN Order : i < at' => Order[i] \in Passed'
    BY <2>1, <2>2, AdvanceKeeps DEF InOrder
  <2>4. Types' /\ InOrder'
    BY <2>1, <2>2, <2>3 DEF Types, InOrder
  <2>5. Transaction'
    BY <2>1 DEF Transaction
  <2> QED BY <2>2, <2>4, <2>5
<1>7. CASE seed
  <2>1. /\ pc' = "ready" /\ new' = Seeded(new) /\ pc = "seed"
        /\ UNCHANGED <<engine, legacy, old, at, tx, spoiled, misread, kept, faults, crashes>>
    BY <1>7 DEF seed, counts, faulty
  <2>2. Shape(new)' /\ \A t \in Table : new[t] \subseteq new'[t]
    <3>1. \A t \in Table \ {"systems", "talkgroups"} : Proper(t, Default)
      BY DEF Proper, Default
    <3>2. DOMAIN new = Table
      BY DEF Types, Shape
    <3>3. /\ DOMAIN new' = Table
          /\ \A t \in Table : new'[t] = IF t \in {"groups", "tags"} /\ new[t] = {} THEN {Default} ELSE new[t]
      BY <2>1, <3>2, Tables DEF Seeded
    <3> QED BY <1>s, <2>1, <3>1, <3>3, Tables DEF Types, Shape, Proper
  <2>3. Types' /\ InOrder'
    BY <2>1, <2>2 DEF Types, InOrder, Done, Passed
  <2>4. Transaction'
    BY <2>1 DEF Transaction
  <2>5. DroppedWhenMoved'
    <3>1. ASSUME NEW t \in Done, WellRead(t)
          PROVE  Ids(Fit(t)') \subseteq Ids(new'[t])
      <4>1. t \in Table
        BY DEF Done, Types
      <4> QED BY <2>1, <2>2, <3>1, <4>1, FitKept DEF DroppedWhenMoved, Done, Ids
    <3> QED BY <2>1, <3>1 DEF DroppedWhenMoved, Done, WellRead, Ids
  <2> QED BY <2>3, <2>4, <2>5
<1>8. CASE RowFails
  <2>1. PICK r \in tx.todo : /\ tx' = [tx EXCEPT !.todo = tx.todo \ {r}]
                            /\ spoiled' = spoiled \union {<<Order[at], r.id>>}
    BY <1>8 DEF RowFails
  <2>2. /\ tx # None /\ faults < MaxFaults /\ faults' = faults + 1
        /\ UNCHANGED <<engine, legacy, old, new, pc, at, misread, kept, crashes>>
    BY <1>8 DEF RowFails
  <2>3. /\ pc = "migrate" /\ Shape(tx.db) /\ tx.todo \subseteq legacy[Order[at]]
        /\ tx' = [todo |-> tx.todo \ {r}, db |-> tx.db, seen |-> tx.seen, drop |-> tx.drop]
        /\ \A s \in Table : new[s] \subseteq tx.db[s]
        /\ WellRead(Order[at]) => Taken(Order[at], tx.todo, tx.db)
        /\ tx.drop = "none" /\ Order[at] \in DOMAIN old /\ tx.seen = Seen(Order[at], new)
    BY <2>1, <2>2 DEF Transaction
  <2>4. \A t \in Table : Sound(t)' \subseteq Sound(t)
    BY <2>1, <2>2 DEF Sound
  <2>5. r \notin Sound(Order[at])'
    BY <2>1, <2>2 DEF Sound
  <2>6. ASSUME NEW t \in Table
        PROVE  Fit(t)' \subseteq Fit(t) /\ (t # "options" => Fit(t)' \subseteq Sound(t)')
    <3>1. Needs(t) \subseteq Table
      BY Tables DEF Needs
    <3>2. t # "options" => Fit(t)' \subseteq Sound(t)'
      BY Tables DEF Fit, FitTalkgroups
    <3> QED BY <2>2, <2>4, <3>1, <3>2, FitShrinks
  <2>7. ASSUME WellRead(Order[at]) PROVE Taken(Order[at], tx.todo \ {r}, tx.db)'
    <3>1. CASE Order[at] = "options"
      <4>1. \A o \in Sound("options")' : o # r /\ o \in Sound("options")
        BY <1>0, <2>2, <2>4, <2>5, <3>1
      <4>2. \A o \in Sound("options")' \ (tx.todo \ {r}) : o \in Sound("options") \ tx.todo
        BY <4>1
      <4> QED BY <2>2, <2>3, <2>7, <3>1, <4>2 DEF Taken
    <3>2. CASE Order[at] # "options"
      <4>1. \A x \in Fit(Order[at])' : x # r /\ x \in Fit(Order[at])
        BY <1>0, <2>2, <2>5, <2>6, <3>2
      <4> QED BY <2>2, <2>3, <2>7, <3>2, <4>1 DEF Taken
    <3> QED BY <3>1, <3>2
  <2>8. Transaction'
    <3>1. WellRead(Order[at])' => Taken(Order[at], tx.todo, tx.db)'
      BY <2>2, <2>3, <2>7 DEF WellRead
    <3> QED BY <1>s, <2>1, <2>2, <2>3, <3>1 DEF Transaction
  <2>9. Types' /\ InOrder'
    BY <1>f, <2>2 DEF Types, InOrder, Done, Passed, Shape, Proper
  <2>10. DroppedWhenMoved'
    <3>1. \A t \in Done : t \in Table
      BY DEF Done, Types
    <3> QED BY <2>2, <2>6, <3>1 DEF DroppedWhenMoved, Done, WellRead, Ids
  <2> QED BY <2>8, <2>9, <2>10
<1>9. CASE CommitFails
  <2>1. faults' \in 0..MaxFaults
    BY <1>9, <1>f DEF CommitFails
  <2> QED BY <1>9, <1>f, <2>1, FatalKeeps DEF CommitFails
<1>10. CASE Crash
  <2>1. crashes' \in 0..MaxCrashes
    BY <1>10, <1>f DEF Crash
  <2> QED BY <1>10, <1>f, <2>1, FatalKeeps DEF Crash
<1>11. CASE UNCHANGED vars
  <2> USE <1>11 DEF vars, counts, faulty
  <2>1. Types' /\ InOrder'
    BY DEF Types, InOrder, Done, Passed, Shape, Proper
  <2>2. Transaction'
    BY <1>0, <1>s, TakenKept DEF Transaction, WellRead
  <2> QED BY <1>k, <2>1, <2>2
<1> QED BY <1>1, <1>2, <1>3, <1>4, <1>5, <1>6, <1>7, <1>8, <1>9, <1>10, <1>11 DEF Next, Work

LEMMA InvAlways == Spec => []Inv
<1> QED BY InvInit, InvNext, PTL DEF Spec

-----------------------------------------------------------------------------
(* Every variable has its type; the rows of a new table have the keys of   *)
(* the old ones, or those the code makes up (migrations.go).               *)
THEOREM TypeCorrect == Spec => []TypeOK
<1>1. Inv => TypeOK
  <2> SUFFICES ASSUME Inv PROVE TypeOK
    OBVIOUS
  <2>1. DOMAIN new = Table /\ \A t \in Table \ {"options", "meta"} : Ids(new[t]) \subseteq Ids(legacy[t]) \union {0, 1}
    BY DEF Inv, Types, Shape, Proper, Ids
  <2> QED BY <2>1 DEF Inv, Types, Transaction, TypeOK
<1> QED BY InvAlways, <1>1, PTL

(* A migration leaves no row behind in a table that it drops, or fails to  *)
(* drop, if the row could be moved: whatever the rows, wherever the        *)
(* process stops, and however many rows, drops and commits fail, on SQLite *)
(* and on MySQL, which commits the rows before it drops the table (the     *)
(* DROP TABLE and the Commit that end each migration of migrations.go,     *)
(* called in order by migrate).  WellRead names the rows that a failing    *)
(* SELECT COUNT, taken for a table that is not there, does cost.           *)
THEOREM DroppedWhenMovedSafe == Spec => []DroppedWhenMoved
<1>1. Inv => DroppedWhenMoved
  BY DEF Inv
<1> QED BY InvAlways, <1>1, PTL

-----------------------------------------------------------------------------
(* The order of the rows makes no difference.                              *)

(* What rows S of the old table t add to the new tables, all at once.      *)
Together(t, S, l, base) ==
  [s \in Table |-> base[s] \union UNION {Migrated(t, r, l[t], Seen(t, base), base)[s] : r \in S}]

(* A database has its tables and nothing else.                             *)
Db(db) == db = [s \in Table |-> db[s]]

LEMMA SameDb ==
  ASSUME NEW db, Db(db), NEW other, Db(other), \A s \in Table : \A x : x \in db[s] <=> x \in other[s]
  PROVE  db = other
<1>1. \A s \in Table : db[s] = other[s]
  OBVIOUS
<1> QED BY <1>1 DEF Db

LEMMA InsertDb ==
  ASSUME NEW db, Db(db), NEW t \in Table, NEW row
  PROVE  /\ Db(Insert(db, t, row))
         /\ \A s \in Table : \A x :
              x \in Insert(db, t, row)[s] <=>
              x \in db[s] \/ (s = t /\ x = row /\ \A y \in db[t] : y.id # row.id)
<1>0. row.id \in Ids(db[t]) <=> \E y \in db[t] : y.id = row.id
  BY DEF Ids
<1>1. CASE row.id \in Ids(db[t])
  <2>1. Insert(db, t, row) = db
    BY <1>1 DEF Insert
  <2> QED BY <1>0, <1>1, <2>1
<1>2. CASE row.id \notin Ids(db[t])
  <2>1. Insert(db, t, row) = [db EXCEPT ![t] = db[t] \union {row}]
    BY <1>2 DEF Insert
  <2>2. Db(Insert(db, t, row))
    BY <2>1 DEF Db
  <2>3. \A s \in Table : Insert(db, t, row)[s] = IF s = t THEN db[t] \union {row} ELSE db[s]
    BY <2>1 DEF Db
  <2>4. ASSUME NEW s \in Table, NEW x
        PROVE  x \in Insert(db, t, row)[s] <=> x \in db[s] \/ (s = t /\ x = row)
    BY <2>3
  <2> QED BY <1>0, <1>2, <2>2, <2>4
<1> QED BY <1>1, <1>2

LEMMA InsertFresh ==
  ASSUME NEW db, Db(db), NEW t \in Table, NEW row, \A y \in db[t] : y.id # row.id
  PROVE  /\ Db(Insert(db, t, row))
         /\ \A s \in Table : \A x : x \in Insert(db, t, row)[s] <=> x \in db[s] \/ (s = t /\ x = row)
BY InsertDb

LEMMA TogetherDb ==
  ASSUME NEW t, NEW l, NEW base, NEW S
  PROVE  /\ Db(Together(t, S, l, base))
         /\ \A s \in Table : \A x :
              x \in Together(t, S, l, base)[s] <=>
              x \in base[s] \/ \E r \in S : x \in Migrated(t, r, l[t], Seen(t, base), base)[s]
BY DEF Together, Db

LEMMA TogetherNone ==
  ASSUME NEW t, NEW l, NEW base, Db(base)
  PROVE  Together(t, {}, l, base) = base
BY DEF Together, Db

(* The rows of a table that get one row each, or none.                     *)
LEMMA InsertTogether ==
  ASSUME NEW t \in Table, NEW l \in Legacy, NEW base, Db(base), base[t] = {},
         NEW S \in SUBSET l[t], NEW r \in l[t] \ S,
         NEW put, \A x \in S \union {r} : put[x].id = x.id,
         \A x \in S : \/ Migrated(t, x, l[t], Seen(t, base), base) = Insert(base, t, put[x])
                    \/ Migrated(t, x, l[t], Seen(t, base), base) = base
  PROVE  /\ Db(Insert(Together(t, S, l, base), t, put[r]))
         /\ \A s \in Table : \A x :
              x \in Insert(Together(t, S, l, base), t, put[r])[s] <=>
              x \in Together(t, S, l, base)[s] \/ x \in Insert(base, t, put[r])[s]
         /\ \A s \in Table \ {t} : Together(t, S, l, base)[s] = base[s]
<1> DEFINE one(x) == Migrated(t, x, l[t], Seen(t, base), base)
<1>a. PICK db : db = Together(t, S, l, base)
  OBVIOUS
<1>1. \A x : \A s \in Table : \A y : y \in Insert(base, t, put[x])[s] <=> y \in base[s] \/ (s = t /\ y = put[x])
  BY InsertDb
<1>2. \A x \in S : \A s \in Table : \A y : y \in one(x)[s] => y \in base[s] \/ (s = t /\ y = put[x])
  <2>1. \A x \in S : one(x) = Insert(base, t, put[x]) \/ one(x) = base
    OBVIOUS
  <2> HIDE DEF one
  <2> QED BY <1>1, <2>1
<1>3. \A s \in Table : \A y : y \in db[s] <=> y \in base[s] \/ \E x \in S : y \in one(x)[s]
  BY <1>a, TogetherDb
<1>4. Db(db)
  BY <1>a, TogetherDb
<1> HIDE DEF one
<1>5. ASSUME NEW s \in Table \ {t}
      PROVE  db[s] = base[s]
  <2>1. \A y : y \in db[s] <=> y \in base[s]
    BY <1>2, <1>3
  <2> QED BY <2>1
<1>6. \A y \in db[t] : \E x \in S : y = put[x]
  BY <1>2, <1>3
<1>7. \A y \in db[t] : y.id # put[r].id
  <2>1. \A x \in S : x.id # r.id
    BY MigrationsAssumption
  <2> QED BY <1>6, <2>1
<1>8. /\ Db(Insert(db, t, put[r]))
      /\ \A s \in Table : \A x : x \in Insert(db, t, put[r])[s] <=> x \in db[s] \/ (s = t /\ x = put[r])
  BY <1>4, <1>7, InsertFresh
<1>9. \A s \in Table : \A x : x \in Insert(db, t, put[r])[s] <=> x \in db[s] \/ x \in Insert(base, t, put[r])[s]
  BY <1>1, <1>3, <1>8
<1> QED BY <1>a, <1>5, <1>8, <1>9

(* The migration of a call whose key is free.                              *)
CallRow(x, seen) ==
  [id |-> x.id, sys |-> seen.systems[x.sys], tg |-> seen.talkgroups[x.tg],
   patches |-> {seen.talkgroups[p] : p \in x.patches \intersect DOMAIN seen.talkgroups},
   sources |-> x.sources]
CallUnit(x, seen) == [id |-> 0, ref |-> x.source, sys |-> seen.systems[x.sys]]
Carried(x, seen) == x.whole /\ x.sys \in DOMAIN seen.systems /\ x.tg \in DOMAIN seen.talkgroups
Known(x, seen, d) == \E u \in d["units"] : u.sys = CallUnit(x, seen).sys /\ u.ref = CallUnit(x, seen).ref
Lone(x) == x.sources = {} /\ x.source # 0

LEMMA CallMigrated ==
  ASSUME NEW d, Db(d), NEW x, \A y \in d["calls"] : y.id # x.id, NEW rows, NEW seen
  PROVE  /\ Db(Migrated("calls", x, rows, seen, d))
         /\ \A s \in Table : \A y : y \in Migrated("calls", x, rows, seen, d)[s] <=>
              \/ y \in d[s]
              \/ Carried(x, seen) /\ s = "calls" /\ y = CallRow(x, seen)
              \/ /\ Carried(x, seen) /\ s = "units" /\ y = CallUnit(x, seen)
                 /\ Lone(x) /\ ~Known(x, seen, d)
<1> DEFINE one == Insert(d, "calls", CallRow(x, seen))
           two == SourceUnit(x, seen.systems[x.sys], one)
<1>0. CallRow(x, seen).id = x.id /\ CallUnit(x, seen).ref = x.source /\ CallUnit(x, seen).sys = seen.systems[x.sys]
  BY DEF CallRow, CallUnit
<1>1. Migrated("calls", x, rows, seen, d) = IF Carried(x, seen) THEN two ELSE d
  <2>1. x.id \notin Ids(d["calls"])
    BY DEF Ids
  <2> QED BY <2>1 DEF Migrated, migrateCall, Carried, CallRow
<1>2. /\ Db(one)
      /\ \A s \in Table : \A y : y \in one[s] <=> y \in d[s] \/ (s = "calls" /\ y = CallRow(x, seen))
  BY <1>0, InsertFresh, Tables
<1> HIDE DEF one
<1>3. one["units"] = d["units"]
  <2>1. \A y : y \in one["units"] <=> y \in d["units"]
    BY <1>2, Tables
  <2> QED BY <2>1
<1>4. two = IF Lone(x) /\ ~Known(x, seen, d)
            THEN [one EXCEPT !["units"] = one["units"] \union {CallUnit(x, seen)}] ELSE one
  <2>1. Known(x, seen, d) <=> \E u \in one["units"] : u.sys = seen.systems[x.sys] /\ u.ref = x.source
    BY <1>0, <1>3 DEF Known
  <2>2. CASE Lone(x) /\ ~Known(x, seen, d)
    BY <2>1, <2>2 DEF SourceUnit, Lone, CallUnit
  <2>3. CASE ~(Lone(x) /\ ~Known(x, seen, d))
    BY <2>1, <2>3 DEF SourceUnit, Lone
  <2> QED BY <2>2, <2>3
<1> HIDE DEF two
<1>5. CASE Lone(x) /\ ~Known(x, seen, d)
  <2>1. Db(two)
    BY <1>2, <1>4, <1>5 DEF Db
  <2>2. \A s \in Table : two[s] = IF s = "units" THEN one["units"] \union {CallUnit(x, seen)} ELSE one[s]
    BY <1>2, <1>4, <1>5 DEF Db
  <2>3. \A s \in Table : \A y : y \in two[s] <=> y \in one[s] \/ (s = "units" /\ y = CallUnit(x, seen))
    BY <2>2
  <2> QED BY <1>1, <1>2, <1>5, <2>1, <2>3
<1>6. CASE ~(Lone(x) /\ ~Known(x, seen, d))
  BY <1>1, <1>2, <1>4, <1>6
<1> QED BY <1>5, <1>6

(* One more row, after the others or with them.                            *)
LEMMA TogetherStep ==
  ASSUME NEW t \in Table, NEW l \in Legacy, NEW base, Db(base), base[t] = {},
         NEW S \in SUBSET l[t], NEW r \in l[t] \ S
  PROVE  Migrated(t, r, l[t], Seen(t, base), Together(t, S, l, base)) = Together(t, S \union {r}, l, base)
<1>a. PICK seen : seen = Seen(t, base)
  OBVIOUS
<1>b. PICK db : db = Together(t, S, l, base)
  OBVIOUS
<1> DEFINE one(x) == Migrated(t, x, l[t], seen, base)
           more == Migrated(t, r, l[t], seen, db)
<1>c. SUFFICES more = Together(t, S \union {r}, l, base)
  BY <1>a, <1>b
<1>d. /\ Db(db)
      /\ \A s \in Table : \A x : x \in db[s] <=> x \in base[s] \/ \E y \in S : x \in one(y)[s]
  BY <1>a, <1>b, TogetherDb
<1>e. ASSUME Db(more), \A s \in Table : \A x : x \in more[s] <=> x \in db[s] \/ x \in one(r)[s]
      PROVE  more = Together(t, S \union {r}, l, base)
  <2>1. PICK all : all = Together(t, S \union {r}, l, base)
    OBVIOUS
  <2>2. /\ Db(all)
        /\ \A s \in Table : \A x : x \in all[s] <=> x \in base[s] \/ \E y \in S \union {r} : x \in one(y)[s]
    BY <1>a, <2>1, TogetherDb
  <2> HIDE DEF more, one
  <2>3. \A s \in Table : \A x : x \in more[s] <=> x \in all[s]
    BY <1>d, <1>e, <2>2
  <2> QED BY <1>e, <2>1, <2>2, <2>3, SameDb
<1>0. ASSUME NEW put, \A x \in S \union {r} : put[x].id = x.id,
             \A x \in S \union {r} : one(x) = Insert(base, t, put[x]) \/ one(x) = base,
             \/ more = Insert(db, t, put[r]) /\ one(r) = Insert(base, t, put[r])
             \/ more = db /\ one(r) = base
      PROVE  more = Together(t, S \union {r}, l, base)
  <2>1. /\ Db(Insert(db, t, put[r]))
        /\ \A s \in Table : \A x : x \in Insert(db, t, put[r])[s] <=> x \in db[s] \/ x \in Insert(base, t, put[r])[s]
    BY <1>a, <1>b, <1>0, InsertTogether
  <2>2. Db(more) /\ \A s \in Table : \A x : x \in more[s] <=> x \in db[s] \/ x \in one(r)[s]
    <3> HIDE DEF more, one
    <3> QED BY <1>d, <1>0, <2>1
  <2> QED BY <1>e, <2>2
<1>1. CASE t \in {"groups", "tags"}
  <2> DEFINE put == [x \in l[t] |-> Placed(x, l[t])]
  <2>1. \A x \in l[t] : put[x].id = x.id
    BY DEF Placed
  <2>2. \A x \in l[t] : \A d : Migrated(t, x, l[t], seen, d) = Insert(d, t, put[x])
    BY <1>1 DEF Migrated, migrateGroup, migrateTag
  <2> HIDE DEF put
  <2> QED BY <1>0, <2>1, <2>2
<1>2. CASE t = "systems"
  <2> DEFINE put == [x \in l[t] |-> [id |-> x.id, ref |-> x.ref]]
  <2>1. \A x \in l[t] : put[x].id = x.id
    OBVIOUS
  <2>2. \A x \in l[t] : \A d : Migrated(t, x, l[t], seen, d) = Insert(d, t, put[x])
    BY <1>2 DEF Migrated, migrateSystem
  <2> HIDE DEF put
  <2> QED BY <1>0, <2>1, <2>2
<1>3. CASE t \in {"logs", "downstreams", "accesses", "apikeys"}
  <2> DEFINE put == [x \in l[t] |-> [id |-> x.id]]
  <2>1. \A x \in l[t] : put[x].id = x.id
    OBVIOUS
  <2>2. \A x \in l[t] : \/ \A d : Migrated(t, x, l[t], seen, d) = Insert(d, t, put[x])
                       \/ \A d : Migrated(t, x, l[t], seen, d) = d
    BY <1>3 DEF Migrated, migrateLog, migrateDownstream, migrateAccess, migrateApikey
  <2> HIDE DEF put
  <2> QED BY <1>0, <2>1, <2>2
<1>4. CASE t = "units"
  <2> DEFINE put == [x \in l[t] |-> [id |-> x.id, ref |-> 0, sys |-> seen.systems[x.sys]]]
  <2>1. \A x \in l[t] : put[x].id = x.id
    OBVIOUS
  <2>2. \A x \in l[t] : \/ \A d : Migrated(t, x, l[t], seen, d) = Insert(d, t, put[x])
                       \/ \A d : Migrated(t, x, l[t], seen, d) = d
    BY <1>4 DEF Migrated, migrateUnit
  <2> HIDE DEF put
  <2> QED BY <1>0, <2>1, <2>2
<1>5. CASE t = "dirwatches"
  <2> DEFINE put == [x \in l[t] |->
               [id |-> x.id, sys |-> seen.systems[x.sys],
                tg |-> IF x.tg \in DOMAIN seen.talkgroups THEN seen.talkgroups[x.tg] ELSE 0]]
  <2>1. \A x \in l[t] : put[x].id = x.id
    OBVIOUS
  <2>2. \A x \in l[t] : \/ \A d : Migrated(t, x, l[t], seen, d) = Insert(d, t, put[x])
                       \/ \A d : Migrated(t, x, l[t], seen, d) = d
    BY <1>5 DEF Migrated, migrateDirwatch
  <2> HIDE DEF put
  <2> QED BY <1>0, <2>1, <2>2
<1>6. CASE t = "talkgroups"
  <2> DEFINE put == [x \in l[t] |->
               [id |-> x.id, ref |-> x.ref, sys |-> seen.systems[x.sys], tag |-> x.tag,
                groups |-> {x.group} \intersect Ids(base["groups"])]]
  <2>1. \A x \in l[t] : put[x].id = x.id
    OBVIOUS
  <2>2. ASSUME NEW d, d["groups"] = base["groups"], d["tags"] = base["tags"], NEW x \in l[t]
        PROVE  Migrated(t, x, l[t], seen, d) =
                 IF x.sys \in DOMAIN seen.systems /\ x.tag \in Ids(base["tags"])
                 THEN Insert(d, t, put[x]) ELSE d
    BY <1>6, <2>2 DEF Migrated, migrateTalkgroup
  <2> HIDE DEF put
  <2>3. \A x \in S \union {r} : one(x) = Insert(base, t, put[x]) \/ one(x) = base
    BY <2>2
  <2>4. db["groups"] = base["groups"] /\ db["tags"] = base["tags"]
    BY <1>6, <2>1, <2>3, InsertTogether, Tables, <1>a, <1>b
  <2> QED BY <1>0, <2>1, <2>2, <2>3, <2>4
<1>7. CASE t = "options"
  <2>1. ASSUME NEW d, Db(d), NEW x
        PROVE  /\ Db(Migrated(t, x, l[t], seen, d))
               /\ \A s \in Table : \A y : y \in Migrated(t, x, l[t], seen, d)[s] <=>
                    y \in d[s] \/ (s = "options" /\ \E k \in x.keys : y = [id |-> k])
    <3>1. Migrated(t, x, l[t], seen, d) = [d EXCEPT !["options"] = d["options"] \union {[id |-> k] : k \in x.keys}]
      BY <1>7 DEF Migrated, migrateOption
    <3>2. Db(Migrated(t, x, l[t], seen, d))
      BY <1>7, <2>1, <3>1 DEF Db
    <3>3. \A s \in Table : Migrated(t, x, l[t], seen, d)[s] =
             IF s = "options" THEN d["options"] \union {[id |-> k] : k \in x.keys} ELSE d[s]
      BY <1>7, <2>1, <3>1 DEF Db
    <3> QED BY <3>2, <3>3
  <2> HIDE DEF one, more
  <2>2. Db(more) /\ \A s \in Table : \A x : x \in more[s] <=> x \in db[s] \/ x \in one(r)[s]
    BY <1>d, <2>1 DEF one, more
  <2> QED BY <1>e, <2>2
<1>8. CASE t = "meta"
  <2>1. more = db /\ one(r) = base
    BY <1>8 DEF Migrated
  <2> HIDE DEF more, one
  <2> QED BY <1>d, <1>e, <2>1
<1>9. CASE t = "calls"
  <2>1. \A x \in S : x.id # r.id
    BY MigrationsAssumption
  <2>2. ASSUME NEW x
        PROVE  \A s \in Table : \A y : y \in one(x)[s] <=>
                 \/ y \in base[s]
                 \/ Carried(x, seen) /\ s = "calls" /\ y = CallRow(x, seen)
                 \/ /\ Carried(x, seen) /\ s = "units" /\ y = CallUnit(x, seen)
                    /\ Lone(x) /\ ~Known(x, seen, base)
    BY <1>9, CallMigrated
  <2> HIDE DEF one
  <2>3. \A y \in db["calls"] : y.id # r.id
    <3>1. \A y \in db["calls"] : \E x \in S : y = CallRow(x, seen)
      BY <1>9, <1>d, <2>2, Tables
    <3>2. \A x : CallRow(x, seen).id = x.id
      BY DEF CallRow
    <3> QED BY <2>1, <3>1, <3>2
  <2>4. /\ Db(more)
        /\ \A s \in Table : \A y : y \in more[s] <=>
             \/ y \in db[s]
             \/ Carried(r, seen) /\ s = "calls" /\ y = CallRow(r, seen)
             \/ /\ Carried(r, seen) /\ s = "units" /\ y = CallUnit(r, seen)
                /\ Lone(r) /\ ~Known(r, seen, db)
    BY <1>9, <1>d, <2>3, CallMigrated
  <2> HIDE DEF more
  <2>5. Known(r, seen, base) => Known(r, seen, db)
    BY <1>d, Tables DEF Known
  <2>6. ASSUME Known(r, seen, db), ~Known(r, seen, base)
        PROVE  CallUnit(r, seen) \in db["units"]
    <3>1. PICK u \in db["units"] : u.sys = CallUnit(r, seen).sys /\ u.ref = CallUnit(r, seen).ref
      BY <2>6 DEF Known
    <3>2. u \notin base["units"]
      BY <2>6, <3>1 DEF Known
    <3>3. \E x \in S : u = CallUnit(x, seen)
      BY <1>9, <1>d, <2>2, <3>2, Tables
    <3>4. u = CallUnit(r, seen)
      BY <3>1, <3>3 DEF CallUnit
    <3> QED BY <3>4
  <2>7. \A s \in Table : \A y : y \in more[s] <=> y \in db[s] \/ y \in one(r)[s]
    <3>1. \A s \in Table : \A y : y \in base[s] => y \in db[s]
      BY <1>d
    <3> QED BY <2>2, <2>4, <2>5, <2>6, <3>1
  <2> QED BY <1>e, <2>4, <2>7 DEF more, one
<1> QED BY <1>1, <1>2, <1>3, <1>4, <1>5, <1>6, <1>7, <1>8, <1>9, Tables

-----------------------------------------------------------------------------
(* Folds.  Induction is stated over sets of numbers, so that it can be     *)
(* cited for any set.                                                      *)

LEMMA Induction ==
  ASSUME NEW T, 0 \in T, \A n \in Nat : n \in T => n + 1 \in T
  PROVE  Nat \subseteq T
<1> DEFINE X == Nat \ T
<1>1. SUFFICES ASSUME X # {} PROVE FALSE
  OBVIOUS
<1>2. PICK x \in X : \A y \in X : ~ (<<y, x>> \in OpToRel(<, Nat))
  BY <1>1, NatLessThanWellFounded, WFMin
<1>3. x \in Nat /\ x # 0
  OBVIOUS
<1>4. x - 1 \in Nat /\ x - 1 < x /\ (x - 1) + 1 = x
  BY <1>3
<1>5. x - 1 \notin X
  BY <1>2, <1>3, <1>4 DEF OpToRel
<1> QED BY <1>3, <1>4, <1>5

Pick(s) == CHOOSE x \in s : TRUE

LEMMA Picked ==
  ASSUME NEW S, IsFiniteSet(S), NEW s \in SUBSET S, s # {}
  PROVE  /\ Pick(s) \in S /\ s \ {Pick(s)} \in SUBSET S
         /\ Cardinality(s) \in Nat \ {0}
         /\ Cardinality(s \ {Pick(s)}) = Cardinality(s) - 1
<1>1. Pick(s) \in s
  BY DEF Pick
<1>2. IsFiniteSet(s)
  BY FS_Subset
<1>3. Cardinality(s) \in Nat /\ Cardinality(s) # 0
  BY <1>2, FS_CardinalityType, FS_EmptySet
<1> QED BY <1>1, <1>2, <1>3, FS_RemoveElement

(* What holds of the empty set, and of a set when it holds of the set      *)
(* without its picked element, holds of every finite set.                  *)
LEMMA FiniteInduction ==
  ASSUME NEW S, IsFiniteSet(S), NEW T, {} \in T,
         \A s \in SUBSET S : s # {} /\ s \ {Pick(s)} \in T => s \in T
  PROVE  S \in T
<1> DEFINE N == {n \in Nat : \A s \in SUBSET S : Cardinality(s) = n => s \in T}
<1>1. 0 \in N
  <2>1. ASSUME NEW s \in SUBSET S, Cardinality(s) = 0
        PROVE  s = {}
    BY <2>1, Picked
  <2> QED BY <2>1
<1>2. ASSUME NEW n \in Nat, n \in N
      PROVE  n + 1 \in N
  <2>1. ASSUME NEW s \in SUBSET S, Cardinality(s) = n + 1
        PROVE  s \in T
    <3>1. s # {}
      BY <2>1, FS_EmptySet
    <3>2. s \ {Pick(s)} \in SUBSET S /\ Cardinality(s \ {Pick(s)}) = n
      BY <2>1, <3>1, Picked
    <3> QED BY <1>2, <3>1, <3>2
  <2> QED BY <2>1
<1> HIDE DEF N
<1>3. Cardinality(S) \in N
  BY <1>1, <1>2, Induction, FS_CardinalityType
<1> QED BY <1>3 DEF N

(* A migration moves all rows of its table, in whatever order.             *)
LEMMA MovedTogether ==
  ASSUME NEW t \in Table, NEW l \in Legacy, NEW base, Db(base), base[t] = {}
  PROVE  Moved(t, l, base) = Together(t, l[t], l, base)
<1>0. PICK S : S = l[t]
  OBVIOUS
<1>1. IsFiniteSet(S)
  BY <1>0, MigrationsAssumption
<1> DEFINE Is(it) == it = [s \in SUBSET S |-> IF s = {} THEN base
                            ELSE Migrated(t, Pick(s), S, Seen(t, base), it[s \ {Pick(s)}])]
<1>2. Moved(t, l, base) = (CHOOSE it : Is(it))[S]
  BY <1>0 DEF Moved, FoldSet, MapThenFoldSet, Pick
<1>3. ASSUME NEW s \in SUBSET S, s # {}
      PROVE  Migrated(t, Pick(s), S, Seen(t, base), Together(t, s \ {Pick(s)}, l, base)) = Together(t, s, l, base)
  <2>1. PICK less : less = s \ {Pick(s)}
    OBVIOUS
  <2>2. Pick(s) \in l[t] \ less /\ less \in SUBSET l[t] /\ less \union {Pick(s)} = s
    BY <1>0, <1>3, <2>1 DEF Pick
  <2>3. Migrated(t, Pick(s), l[t], Seen(t, base), Together(t, less, l, base)) = Together(t, less \union {Pick(s)}, l, base)
    BY <2>2, TogetherStep
  <2> QED BY <1>0, <2>1, <2>2, <2>3
<1>4. Is([s \in SUBSET S |-> Together(t, s, l, base)])
  <2>1. PICK f : f = [s \in SUBSET S |-> Together(t, s, l, base)]
    OBVIOUS
  <2>2. ASSUME NEW s \in SUBSET S
        PROVE  f[s] = IF s = {} THEN base ELSE Migrated(t, Pick(s), S, Seen(t, base), f[s \ {Pick(s)}])
    <3>1. CASE s = {}
      BY <2>1, <3>1, TogetherNone
    <3>2. CASE s # {}
      <4>1. f[s \ {Pick(s)}] = Together(t, s \ {Pick(s)}, l, base)
        BY <2>1
      <4> QED BY <1>3, <2>1, <3>2, <4>1
    <3> QED BY <3>1, <3>2
  <2>3. f = [s \in SUBSET S |-> f[s]]
    BY <2>1
  <2>4. f = [s \in SUBSET S |-> IF s = {} THEN base ELSE Migrated(t, Pick(s), S, Seen(t, base), f[s \ {Pick(s)}])]
    BY <2>2, <2>3
  <2> QED BY <2>1, <2>4
<1>5. PICK it : Is(it) /\ Moved(t, l, base) = it[S]
  BY <1>2, <1>4
<1> DEFINE T == {s \in SUBSET S : it[s] = Together(t, s, l, base)}
<1>6. {} \in T
  BY <1>5, TogetherNone
<1>7. ASSUME NEW s \in SUBSET S, s # {}, s \ {Pick(s)} \in T
      PROVE  s \in T
  <2>1. it[s] = Migrated(t, Pick(s), S, Seen(t, base), it[s \ {Pick(s)}])
    BY <1>5, <1>7
  <2> QED BY <1>3, <1>7, <2>1
<1> HIDE DEF T, Is
<1>8. S \in T
  BY <1>1, <1>6, <1>7, FiniteInduction
<1> QED BY <1>0, <1>5, <1>8 DEF T

-----------------------------------------------------------------------------
(* The migrations, one after the other.                                    *)

LEMMA MaxOf ==
  ASSUME NEW n \in Nat, NEW s \in SUBSET (1..n), s # {}
  PROVE  /\ n # 0 /\ Max(s) \in s /\ \A y \in s : Max(s) >= y
         /\ s \ {Max(s)} \in SUBSET (1..(n - 1))
<1> DEFINE X == {k \in Nat : \A y \in s : k >= y}
<1>1. n \in X
  OBVIOUS
<1>2. PICK m \in X : \A y \in X : ~ (<<y, m>> \in OpToRel(<, Nat))
  BY <1>1, NatLessThanWellFounded, WFMin
<1>3. m \in Nat /\ \A y \in s : m >= y
  BY <1>2
<1>4. m # 0
  <2>1. PICK y \in s : y \in 1..n /\ m >= y
    BY <1>3
  <2> QED BY <1>3, <2>1
<1>5. m - 1 \in Nat /\ m - 1 < m
  BY <1>3, <1>4
<1>6. m - 1 \notin X
  BY <1>2, <1>3, <1>5 DEF OpToRel
<1>7. PICK y \in s : ~(m - 1 >= y)
  BY <1>5, <1>6
<1>8. m \in s
  BY <1>3, <1>7
<1>9. Max(s) \in s /\ \A z \in s : Max(s) >= z
  BY <1>3, <1>8 DEF Max
<1>10. n # 0
  BY <1>8
<1>11. ASSUME NEW z \in s \ {Max(s)}
       PROVE  z \in 1..(n - 1)
  <2>1. Max(s) >= z /\ z # Max(s) /\ Max(s) \in 1..n /\ z \in 1..n
    BY <1>9
  <2> QED BY <2>1
<1> QED BY <1>9, <1>10, <1>11

Empty == [t \in Table |-> {}]

(* p[k] is what the first k migrations make of a database of version 6.    *)
Steps(l, p) ==
  /\ p[0] = Empty
  /\ \A k \in 1..13 : p[k] = Moved(Order[k], l, p[k - 1])
  /\ Outcome(l) = Seeded(p[13])

LEMMA StepsExist ==
  ASSUME NEW l
  PROVE  \E p : Steps(l, p)
<1> DEFINE Good(f, n) == \A s \in SUBSET (1..n) :
             f[s] = IF s = {} THEN Empty ELSE Moved(Order[Max(s)], l, f[s \ {Max(s)}])
           N == {n \in Nat : \E f : Good(f, n)}
           Is(it) == it = [s \in SUBSET (1..13) |-> IF s = {} THEN Empty
                             ELSE Moved(Order[Max(s)], l, it[s \ {Max(s)}])]
<1>1. 0 \in N
  <2>1. Good([s \in SUBSET (1..0) |-> Empty], 0)
    <3>1. \A s \in SUBSET (1..0) : s = {}
      OBVIOUS
    <3> QED BY <3>1
  <2> HIDE DEF Good
  <2> QED BY <2>1
<1>2. ASSUME NEW n \in Nat, n \in N
      PROVE  n + 1 \in N
  <2>1. PICK f : Good(f, n)
    BY <1>2
  <2>2. PICK g : g = [s \in SUBSET (1..(n + 1)) |-> IF s = {} THEN Empty
                        ELSE Moved(Order[Max(s)], l, f[s \ {Max(s)}])]
    OBVIOUS
  <2>3. ASSUME NEW s \in SUBSET (1..n)
        PROVE  g[s] = f[s]
    <3>1. s \in SUBSET (1..(n + 1))
      OBVIOUS
    <3> QED BY <2>1, <2>2, <3>1
  <2>4. ASSUME NEW s \in SUBSET (1..(n + 1)), s # {}
        PROVE  g[s \ {Max(s)}] = f[s \ {Max(s)}]
    <3>1. PICK m \in Nat : m = n + 1
      OBVIOUS
    <3>2. s \ {Max(s)} \in SUBSET (1..(m - 1))
      BY <2>4, <3>1, MaxOf
    <3>3. m - 1 = n
      BY <3>1
    <3> QED BY <2>3, <3>2, <3>3
  <2>5. Good(g, n + 1)
    BY <2>2, <2>4
  <2> HIDE DEF Good
  <2> QED BY <2>5
<1> HIDE DEF N
<1>3. 13 \in N
  BY <1>1, <1>2, Induction
<1>4. PICK f : Good(f, 13)
  BY <1>3 DEF N
<1>5. Is([s \in SUBSET (1..13) |-> f[s]])
  <2>1. PICK g : g = [s \in SUBSET (1..13) |-> f[s]]
    OBVIOUS
  <2>2. ASSUME NEW s \in SUBSET (1..13)
        PROVE  g[s] = IF s = {} THEN Empty ELSE Moved(Order[Max(s)], l, g[s \ {Max(s)}])
    <3>1. s \ {Max(s)} \in SUBSET (1..13)
      OBVIOUS
    <3> QED BY <1>4, <2>1, <3>1
  <2>3. g = [s \in SUBSET (1..13) |-> g[s]]
    BY <2>1
  <2>4. Is(g)
    BY <2>2, <2>3
  <2> HIDE DEF Is
  <2> QED BY <2>1, <2>4
<1>6. FoldLeft(LAMBDA db, t : Moved(t, l, db), Empty, Order) = (CHOOSE it : Is(it))[1..13]
  BY Positions DEF FoldLeft, MapThenFoldSet
<1>7. PICK it : Is(it) /\ Outcome(l) = Seeded(it[1..13])
  <2>1. Outcome(l) = Seeded(FoldLeft(LAMBDA db, t : Moved(t, l, db), Empty, Order))
    BY DEF Outcome, Empty
  <2> HIDE DEF Is
  <2> QED BY <1>5, <1>6, <2>1
<1>8. PICK p : p = [k \in 0..13 |-> it[1..k]]
  OBVIOUS
<1>9. p[0] = Empty
  BY <1>7, <1>8
<1>10. ASSUME NEW k \in 1..13
       PROVE  p[k] = Moved(Order[k], l, p[k - 1])
  <2>1. 1..k \in SUBSET (1..13) /\ 1..k # {} /\ k \in 1..k /\ k \in Nat
    OBVIOUS
  <2>2. Max(1..k) = k
    <3>1. Max(1..k) \in 1..k /\ Max(1..k) >= k
      BY <2>1, MaxOf
    <3> QED BY <3>1
  <2>3. (1..k) \ {k} = 1..(k - 1)
    OBVIOUS
  <2>4. it[1..k] = Moved(Order[Max(1..k)], l, it[(1..k) \ {Max(1..k)}])
    BY <1>7, <2>1
  <2>5. k \in 0..13 /\ k - 1 \in 0..13
    OBVIOUS
  <2> QED BY <1>8, <2>2, <2>3, <2>4, <2>5
<1>11. Outcome(l) = Seeded(p[13])
  BY <1>7, <1>8
<1> QED BY <1>9, <1>10, <1>11 DEF Steps

After(l) == CHOOSE p : Steps(l, p)

LEMMA AfterSteps ==
  ASSUME NEW l
  PROVE  Steps(l, After(l))
BY StepsExist DEF After

(* A migration adds to its own table; that of the calls, also to units.    *)
LEMMA RowTouches ==
  ASSUME NEW t \in Table, NEW r, NEW rows, NEW seen, NEW db, Db(db), NEW s \in Table,
         s # t, t = "calls" => s # "units"
  PROVE  Migrated(t, r, rows, seen, db)[s] = db[s]
<1>1. ASSUME NEW row
      PROVE  Insert(db, t, row)[s] = db[s]
  <2>1. \A x : x \in Insert(db, t, row)[s] <=> x \in db[s]
    BY InsertDb
  <2> QED BY <2>1
<1>2. CASE t \in {"groups", "tags", "systems", "talkgroups", "units", "logs", "downstreams",
                 "dirwatches", "apikeys", "accesses"}
  BY <1>1, <1>2 DEF Migrated, migrateGroup, migrateTag, migrateSystem, migrateTalkgroup, migrateUnit,
       migrateLog, migrateDownstream, migrateDirwatch, migrateApikey, migrateAccess
<1>3. CASE t = "options"
  <2>1. Migrated(t, r, rows, seen, db) = [db EXCEPT !["options"] = db["options"] \union {[id |-> k] : k \in r.keys}]
    BY <1>3 DEF Migrated, migrateOption
  <2> QED BY <1>3, <2>1 DEF Db
<1>4. CASE t = "meta"
  BY <1>4 DEF Migrated
<1>5. CASE t = "calls"
  <2> DEFINE one == Insert(db, "calls",
               [id |-> r.id, sys |-> seen.systems[r.sys], tg |-> seen.talkgroups[r.tg],
                patches |-> {seen.talkgroups[p] : p \in r.patches \intersect DOMAIN seen.talkgroups},
                sources |-> r.sources])
             two == SourceUnit(r, seen.systems[r.sys], one)
  <2>1. Db(one) /\ one[s] = db[s]
    BY <1>1, <1>5, InsertDb
  <2>2. Migrated(t, r, rows, seen, db) \in {db, two}
    BY <1>5 DEF Migrated, migrateCall
  <2> HIDE DEF one
  <2>3. two[s] = one[s]
    BY <1>5, <2>1 DEF SourceUnit, Db
  <2> QED BY <2>1, <2>2, <2>3
<1> QED BY <1>2, <1>3, <1>4, <1>5, Tables

LEMMA TogetherTouches ==
  ASSUME NEW t \in Table, NEW l, NEW S, NEW db, Db(db), NEW s \in Table,
         s # t, t = "calls" => s # "units"
  PROVE  Together(t, S, l, db)[s] = db[s]
<1>1. \A r \in S : Migrated(t, r, l[t], Seen(t, db), db)[s] = db[s]
  BY RowTouches
<1>2. \A x : x \in Together(t, S, l, db)[s] <=> x \in db[s]
  BY <1>1, TogetherDb
<1> QED BY <1>2

LEMMA Later ==
  ASSUME NEW k \in DOMAIN Order, NEW j \in DOMAIN Order, j > k
  PROVE  Order[j] # Order[k] /\ (Order[k] = "calls" => Order[j] # "units")
<1> USE Positions
<1>1. CASE k \in {1, 2, 3, 4, 5, 6}
  BY <1>1
<1>2. CASE k \in {7, 8, 9, 10, 11, 12, 13}
  BY <1>2
<1> QED BY <1>1, <1>2

(* Before its migration, a new table is empty.                             *)
LEMMA Stages ==
  ASSUME NEW l \in Legacy
  PROVE  /\ \A k \in 0..13 : /\ Db(After(l)[k])
                            /\ \A j \in 1..13 : j > k => After(l)[k][Order[j]] = {}
         /\ \A k \in 1..13 : After(l)[k] = Together(Order[k], l[Order[k]], l, After(l)[k - 1])
         /\ Outcome(l) = Seeded(After(l)[13])
<1>0. PICK p : p = After(l) /\ Steps(l, p)
  BY AfterSteps
<1>t. \A k \in 1..13 : Order[k] \in Table
  BY Positions DEF Table, Range
<1> DEFINE Fresh(k) == Db(p[k]) /\ \A j \in 1..13 : j > k => p[k][Order[j]] = {}
           T == {n \in Nat : n <= 13 => Fresh(n)}
<1>1. 0 \in T
  <2>1. Db(Empty) /\ \A t \in Table : Empty[t] = {}
    BY DEF Db, Empty
  <2> QED BY <1>0, <1>t, <2>1 DEF Steps
<1>2. ASSUME NEW k \in 1..13, Fresh(k - 1)
      PROVE  p[k] = Together(Order[k], l[Order[k]], l, p[k - 1])
  <2>1. p[k] = Moved(Order[k], l, p[k - 1])
    BY <1>0 DEF Steps
  <2>2. Db(p[k - 1]) /\ p[k - 1][Order[k]] = {}
    BY <1>2
  <2> QED BY <1>t, <2>1, <2>2, MovedTogether
<1>3. ASSUME NEW n \in Nat, n \in T
      PROVE  n + 1 \in T
  <2>1. SUFFICES ASSUME n + 1 <= 13 PROVE Fresh(n + 1)
    OBVIOUS
  <2>2. PICK k \in 1..13 : k = n + 1
    BY <2>1
  <2>3. Fresh(k - 1) /\ k - 1 = n
    BY <1>3, <2>2
  <2>4. p[k] = Together(Order[k], l[Order[k]], l, p[k - 1])
    BY <1>2, <2>3
  <2>5. Db(p[k])
    BY <2>4, TogetherDb
  <2>6. ASSUME NEW j \in 1..13, j > k
        PROVE  p[k][Order[j]] = {}
    <3>1. Order[j] # Order[k] /\ (Order[k] = "calls" => Order[j] # "units")
      BY <2>6, Later, Positions
    <3>2. Db(p[k - 1]) /\ p[k - 1][Order[j]] = {}
      BY <2>3, <2>6
    <3> QED BY <1>t, <2>4, <3>1, <3>2, TogetherTouches
  <2> QED BY <2>2, <2>5, <2>6
<1> HIDE DEF T, Fresh
<1>4. \A k \in 0..13 : k \in T
  BY <1>1, <1>3, Induction
<1>5. \A k \in 0..13 : Fresh(k)
  BY <1>4 DEF T
<1>6. \A k \in 1..13 : p[k] = Together(Order[k], l[Order[k]], l, p[k - 1])
  <2>1. \A k \in 1..13 : k - 1 \in 0..13
    OBVIOUS
  <2> QED BY <1>2, <1>5, <2>1
<1>7. Outcome(l) = Seeded(p[13])
  BY <1>0 DEF Steps
<1> QED BY <1>0, <1>5, <1>6, <1>7 DEF Fresh

-----------------------------------------------------------------------------
(* What was moved does not depend on where the process stopped.            *)

LEMMA SeededTwice ==
  ASSUME NEW db
  PROVE  Seeded(Seeded(db)) = Seeded(db)
<1>1. PICK d : d = Seeded(db)
  OBVIOUS
<1>2. d = [[db EXCEPT !["groups"] = IF db["groups"] = {} THEN {Default} ELSE db["groups"]]
             EXCEPT !["tags"] = IF db["tags"] = {} THEN {Default} ELSE db["tags"]]
  BY <1>1 DEF Seeded
<1>3. d["groups"] # {} \/ "groups" \notin DOMAIN d
  BY <1>2
<1>4. d["tags"] # {} \/ "tags" \notin DOMAIN d
  BY <1>2
<1>5. d = [x \in DOMAIN d |-> d[x]]
  BY <1>2
<1>6. Seeded(d) = d
  BY <1>3, <1>4, <1>5 DEF Seeded
<1> QED BY <1>1, <1>6

(* No row failed by itself in a table that is gone.                        *)
Clean == \A p \in spoiled : p[1] \in DOMAIN old

(* Also not in the table that is being moved.                              *)
CleanHere == Clean /\ \A p \in spoiled : p[1] # Order[at]

(* The first k tables are gone; unless rows failed, the new database has   *)
(* what these were to become, and the transaction what was read since.     *)
Reached(k) ==
  /\ \A i \in 1..13 : Order[i] \in DOMAIN old <=> i > k
  /\ pc \in {"seed", "ready"} => k = 13
  /\ Clean => \/ new = After(legacy)[k] /\ pc # "ready"
              \/ new = Seeded(After(legacy)[13]) /\ k = 13
  /\ tx # None =>
       IF engine = "mysql" /\ tx.drop = "done" THEN k = at /\ tx.db = new
       ELSE /\ k = at - 1
            /\ CleanHere => tx.db = Together(Order[at], legacy[Order[at]] \ tx.todo, legacy, new)

(* No table was misread, and each DROP did what it should.                 *)
Calm == misread = {} /\ kept = {}

Tidy == old = legacy \/ old = [t \in DOMAIN old |-> old[t]]

Restarted == Calm => Tidy /\ \E k \in 0..13 : Reached(k)

LEMMA RestartedInit == Init => Restarted
<1> SUFFICES ASSUME Init PROVE Restarted
  OBVIOUS
<1>1. DOMAIN old = Table /\ legacy \in Legacy
  BY MigrationsAssumption DEF Init
<1>2. \A i \in 1..13 : Order[i] \in DOMAIN old
  BY <1>1, Positions DEF Table, Range
<1>3. new = After(legacy)[0]
  BY AfterSteps DEF Steps, Init, Empty
<1>4. PICK k \in 0..13 : k = 0
  OBVIOUS
<1>5. \A i \in 1..13 : Order[i] \in DOMAIN old <=> i > k
  BY <1>2, <1>4
<1>6. pc = "down" /\ tx = None
  BY DEF Init
<1>7. Reached(k)
  BY <1>3, <1>4, <1>5, <1>6 DEF Reached
<1> QED BY <1>7 DEF Restarted, Tidy, Init

(* The end of the process.                                                 *)
LEMMA RestartedFatal ==
  ASSUME Restarted, Fatal, old' = old, new' = new
  PROVE  Restarted'
<1>0. SUFFICES ASSUME Calm' PROVE Tidy' /\ \E k \in 0..13 : Reached(k)'
  BY DEF Restarted
<1>1. PICK k \in 0..13 : Reached(k) /\ Tidy
  BY <1>0 DEF Restarted, Calm, Fatal
<1>2. Clean' => Clean
  BY <1>0 DEF Clean, Fatal, Calm
<1>3. Reached(k)'
  BY <1>1, <1>2 DEF Reached, Fatal, None
<1> QED BY <1>1, <1>3 DEF Tidy, Fatal

(* A transaction whose rows are all read has made the next stage.          *)
LEMMA StageMade ==
  ASSUME Inv, NEW k \in 0..13, Reached(k), tx # None, k = at - 1, CleanHere
  PROVE  /\ new = After(legacy)[at - 1] /\ Db(new) /\ new[Order[at]] = {}
         /\ tx.todo = {} /\ ~(engine = "mysql" /\ tx.drop = "done") => tx.db = After(legacy)[at]
<1>1. at \in 1..13 /\ legacy \in Legacy /\ Order[at] \in Table
  BY Positions, AtTable DEF Inv, Types
<1>2. new = After(legacy)[at - 1]
  BY <1>1 DEF Reached, CleanHere
<1>3. at - 1 \in 0..13 /\ at > at - 1
  BY <1>1
<1>4. Db(new) /\ new[Order[at]] = {}
  BY <1>1, <1>2, <1>3, Stages
<1>5. ASSUME tx.todo = {}, ~(engine = "mysql" /\ tx.drop = "done")
      PROVE  tx.db = After(legacy)[at]
  <2>1. tx.db = Together(Order[at], legacy[Order[at]] \ {}, legacy, new)
    BY <1>5 DEF Reached
  <2>2. legacy[Order[at]] \ {} = legacy[Order[at]]
    OBVIOUS
  <2>3. After(legacy)[at] = Together(Order[at], legacy[Order[at]], legacy, After(legacy)[at - 1])
    BY <1>1, Stages
  <2> QED BY <1>2, <2>1, <2>2, <2>3
<1> QED BY <1>2, <1>4, <1>5

(* The drop of a table, with what was made of it.                          *)
LEMMA RestartedDrop ==
  ASSUME Inv, NEW k \in 0..13, Reached(k), Tidy, tx # None, tx.todo = {},
         k = at - 1, ~(engine = "mysql" /\ tx.drop = "done"),
         new' = tx.db, old' = Without(Order[at]), legacy' = legacy, spoiled' = spoiled
  PROVE  /\ Tidy' /\ at \in 1..13
         /\ \A i \in 1..13 : Order[i] \in DOMAIN old' <=> i > at
         /\ Clean' => new' = After(legacy')[at]
<1>1. at \in 1..13
  BY Positions DEF Inv, Types
<1>2. DOMAIN old' = DOMAIN old \ {Order[at]} /\ old' = [t \in DOMAIN old' |-> old'[t]]
  BY DEF Without, Restrict
<1>3. \A i \in 1..13 : Order[i] = Order[at] => i = at
  <2>1. ASSUME NEW i \in 1..13, Order[i] = Order[at], i # at PROVE FALSE
    BY <1>1, <2>1, Later, Positions
  <2> QED BY <2>1
<1>4. \A i \in 1..13 : Order[i] \in DOMAIN old' <=> i > at
  <2>1. \A i \in 1..13 : i > at <=> i > at - 1 /\ i # at
    BY <1>1
  <2> QED BY <1>2, <1>3, <2>1 DEF Reached
<1>5. Clean' => CleanHere
  BY <1>2 DEF Clean, CleanHere
<1>6. Clean' => new' = After(legacy')[at]
  BY <1>5, StageMade
<1> QED BY <1>1, <1>2, <1>4, <1>6 DEF Tidy

LEMMA RestartedNext == Inv /\ Restarted /\ [Next]_vars => Restarted'
<1> SUFFICES ASSUME Inv, Restarted, [Next]_vars PROVE Restarted'
  OBVIOUS
<1>c. SUFFICES ASSUME Calm' PROVE Restarted'
  BY DEF Restarted
<1>m. misread \subseteq misread' /\ kept \subseteq kept'
  BY DEF Next, Work, NewDatabase, Absent, CountFails, Begin, MigrateRow, RowFails, DropTable, DropFails,
         Commit, CommitFails, seed, Crash, Fatal, vars, counts, faulty
<1>k. PICK k \in 0..13 : Reached(k) /\ Tidy
  BY <1>c, <1>m DEF Restarted, Calm
<1>at. at \in 1..13 /\ Order[at] \in Table /\ legacy \in Legacy
  BY Positions, AtTable DEF Inv, Types
<1>tx. tx # None =>
         /\ pc = "migrate" /\ tx.todo \subseteq legacy[Order[at]]
         /\ tx = [todo |-> tx.todo, db |-> tx.db, seen |-> tx.seen, drop |-> tx.drop]
         /\ IF tx.drop # "none" THEN tx.todo = {}
            ELSE Order[at] \in DOMAIN old /\ tx.seen = Seen(Order[at], new) /\ old[Order[at]] = legacy[Order[at]]
  BY DEF Inv, Types, Transaction
<1>1. CASE NewDatabase
  <2>1. /\ UNCHANGED <<engine, legacy, old, new, spoiled>> /\ pc' = "migrate" /\ tx' = tx /\ pc = "down"
    BY <1>1 DEF NewDatabase, counts, faulty
  <2>2. tx = None
    BY <1>tx, <2>1
  <2>3. Reached(k)'
    BY <1>k, <2>1, <2>2 DEF Reached, Clean
  <2> QED BY <1>k, <2>1, <2>3 DEF Restarted, Tidy
<1>2. CASE Absent
  <2>1. /\ UNCHANGED <<engine, legacy, old, new, tx, spoiled>> /\ pc = "migrate" /\ tx = None
        /\ Order[at] \notin DOMAIN old /\ Advance(at)
    BY <1>2 DEF Absent, counts, faulty
  <2>2. pc' \in {"migrate", "seed"} /\ (pc' = "seed" => at = 13)
    BY <2>1, Positions DEF Advance
  <2>3. at <= k
    BY <1>at, <1>k, <2>1 DEF Reached
  <2>4. Reached(k)'
    BY <1>at, <1>k, <2>1, <2>2, <2>3 DEF Reached, Clean
  <2> QED BY <1>k, <2>1, <2>4 DEF Restarted, Tidy
<1>12. CASE CountFails
  BY <1>12, <1>c DEF CountFails, Calm
<1>3. CASE Begin
  <2>1. CASE Fatal
    BY <1>3, <2>1, RestartedFatal DEF Begin
  <2>2. CASE ~Fatal
    <3>1. /\ UNCHANGED <<engine, legacy, old, new, pc, at, spoiled>> /\ pc = "migrate"
          /\ Order[at] \in DOMAIN old
          /\ tx' = [todo |-> old[Order[at]], db |-> new, seen |-> Seen(Order[at], new), drop |-> "none"]
      BY <1>3, <2>2 DEF Begin, faulty
    <3>2. /\ tx'.todo = legacy[Order[at]] /\ tx'.db = new /\ tx'.drop = "none"
      BY <3>1 DEF Inv, Types
    <3>3. k = at - 1
      <4>1. \A i \in 1..13 : i < at => ~(i > k)
        BY <1>k, <1>c, <1>m, <3>1, Positions DEF Inv, InOrder, Passed, Done, Reached, Calm
      <4>2. at > k
        BY <1>k, <1>at, <3>1 DEF Reached
      <4>3. at - 1 <= k
        <5>1. CASE at = 1
          BY <5>1
        <5>2. CASE at # 1
          <6>1. at - 1 \in 1..13 /\ at - 1 < at
            BY <1>at, <5>2
          <6> QED BY <4>1, <6>1
        <5> QED BY <5>1, <5>2
      <4> QED BY <1>at, <4>2, <4>3
    <3>4. CleanHere => new = Together(Order[at], {}, legacy, new)
      <4>1. ASSUME CleanHere PROVE Db(new)
        <5>1. new = After(legacy)[k]
          BY <1>k, <1>at, <3>3, <4>1 DEF Reached, CleanHere
        <5> QED BY <1>at, <5>1, Stages
      <4> QED BY <4>1, TogetherNone
    <3>5. legacy[Order[at]] \ tx'.todo = {}
      BY <3>2
    <3>6. CleanHere' => tx'.db = Together(Order[at], legacy[Order[at]] \ tx'.todo, legacy, new)
      BY <3>1, <3>2, <3>4, <3>5 DEF CleanHere, Clean
    <3>7. Reached(k)'
      BY <1>k, <3>1, <3>2, <3>3, <3>6 DEF Reached, Clean
    <3> QED BY <1>k, <3>1, <3>7 DEF Restarted, Tidy
  <2> QED BY <2>1, <2>2
<1>4. CASE MigrateRow
  <2>1. PICK r \in tx.todo :
          LET db == Migrated(Order[at], r, old[Order[at]], tx.seen, tx.db) IN
          IF Panics(r, db) THEN Fatal
          ELSE /\ tx' = [tx EXCEPT !.todo = @ \ {r}, !.db = db]
               /\ UNCHANGED <<engine, legacy, pc, at, spoiled>>
    BY <1>4 DEF MigrateRow, faulty
  <2>2. tx # None /\ UNCHANGED <<old, new, faults, crashes>>
    BY <1>4 DEF MigrateRow
  <2>3. CASE Fatal
    BY <2>2, <2>3, RestartedFatal
  <2>4. CASE ~Fatal
    <3>1. PICK db : /\ db = Migrated(Order[at], r, old[Order[at]], tx.seen, tx.db)
                    /\ tx' = [tx EXCEPT !.todo = tx.todo \ {r}, !.db = db]
                    /\ UNCHANGED <<engine, legacy, pc, at, spoiled>>
      BY <2>1, <2>4
    <3>2. tx.drop = "none" /\ r \in legacy[Order[at]]
      BY <1>tx, <2>1, <2>2
    <3>3. tx' = [todo |-> tx.todo \ {r}, db |-> db, seen |-> tx.seen, drop |-> tx.drop]
      BY <1>tx, <2>2, <3>1
    <3>4. k = at - 1
      BY <1>k, <2>2, <3>2 DEF Reached
    <3>5. ASSUME CleanHere
          PROVE  db = Together(Order[at], legacy[Order[at]] \ (tx.todo \ {r}), legacy, new)
      <4>1. PICK S : S = legacy[Order[at]] \ tx.todo
        OBVIOUS
      <4>2. S \in SUBSET legacy[Order[at]] /\ r \in legacy[Order[at]] \ S
        BY <2>1, <3>2, <4>1
      <4>3. S \union {r} = legacy[Order[at]] \ (tx.todo \ {r})
        BY <2>1, <3>2, <4>1
      <4>4. tx.db = Together(Order[at], S, legacy, new)
        BY <1>k, <2>2, <3>2, <3>5, <4>1 DEF Reached
      <4>5. Db(new) /\ new[Order[at]] = {}
        BY <1>k, <2>2, <3>4, <3>5, StageMade
      <4>6. db = Migrated(Order[at], r, legacy[Order[at]], Seen(Order[at], new), Together(Order[at], S, legacy, new))
        BY <1>tx, <2>2, <3>1, <3>2, <4>4
      <4>7. Migrated(Order[at], r, legacy[Order[at]], Seen(Order[at], new), Together(Order[at], S, legacy, new))
              = Together(Order[at], S \union {r}, legacy, new)
        BY <1>at, <4>2, <4>5, TogetherStep
      <4> QED BY <4>3, <4>6, <4>7
    <3>6. CleanHere' => tx'.db = Together(Order[at], legacy[Order[at]] \ tx'.todo, legacy, new)
      BY <2>2, <3>1, <3>3, <3>5 DEF CleanHere, Clean
    <3>7. Reached(k)'
      BY <1>k, <2>2, <3>1, <3>2, <3>3, <3>4, <3>6 DEF Reached, Clean
    <3> QED BY <1>k, <2>2, <3>1, <3>7 DEF Restarted, Tidy
  <2> QED BY <2>3, <2>4
<1>5. CASE DropTable \/ DropFails
  <2>1. /\ tx # None /\ tx.todo = {} /\ tx.drop = "none" /\ pc = "migrate"
        /\ UNCHANGED <<engine, legacy, pc, at, spoiled>>
        /\ \E d \in {"done", "failed"} :
             tx' = [todo |-> tx.todo, db |-> tx.db, seen |-> tx.seen, drop |-> d]
    BY <1>5, <1>tx DEF DropTable, DropFails, counts, faulty
  <2>2. k = at - 1
    BY <1>k, <2>1 DEF Reached
  <2>3. CASE engine = "mysql"
    <3>0. DropTable
      BY <1>5, <1>c, <2>3 DEF DropFails, Calm
    <3>1. new' = tx.db /\ old' = Without(Order[at]) /\ tx'.drop = "done" /\ tx'.db = tx.db
      BY <2>1, <2>3, <3>0, <1>tx DEF DropTable
    <3>2. /\ Tidy' /\ \A i \in 1..13 : Order[i] \in DOMAIN old' <=> i > at
          /\ Clean' => new' = After(legacy')[at]
      BY <1>k, <2>1, <2>2, <3>1, RestartedDrop
    <3>3. PICK n \in 0..13 : n = at
      BY <1>at
    <3>4. Reached(n)'
      BY <2>1, <2>3, <3>1, <3>2, <3>3 DEF Reached
    <3> QED BY <3>2, <3>4 DEF Restarted
  <2>4. CASE engine # "mysql"
    <3>1. new' = new /\ old' = old
      BY <1>5, <2>4 DEF DropTable, DropFails
    <3>2. Reached(k)'
      BY <1>k, <2>1, <2>2, <2>4, <3>1 DEF Reached, CleanHere, Clean
    <3> QED BY <1>k, <2>1, <3>1, <3>2 DEF Restarted, Tidy
  <2> QED BY <2>3, <2>4
<1>6. CASE Commit
  <2>0. tx.drop = "done"
    BY <1>6, <1>c DEF Commit, Calm
  <2>1. /\ tx # None /\ tx.todo = {} /\ pc = "migrate" /\ Advance(at)
        /\ new' = tx.db /\ old' = Without(Order[at]) /\ tx' = None
        /\ UNCHANGED <<engine, legacy, spoiled>>
    BY <1>6, <1>tx, <2>0 DEF Commit
  <2>2. pc' \in {"migrate", "seed"} /\ (pc' = "seed" => at = 13)
    BY <2>1, Positions DEF Advance
  <2>3. /\ Tidy' /\ \A i \in 1..13 : Order[i] \in DOMAIN old' <=> i > at
        /\ Clean' => \/ new' = After(legacy')[at]
                     \/ new' = Seeded(After(legacy')[13]) /\ at = 13
    <3>1. CASE engine = "mysql"
      <4>1. k = at /\ new' = new
        BY <1>k, <2>0, <2>1, <3>1 DEF Reached
      <4>2. Order[at] \notin DOMAIN old
        BY <1>k, <1>at, <4>1 DEF Reached
      <4>3. DOMAIN old' = DOMAIN old /\ old' = [t \in DOMAIN old' |-> old'[t]]
        BY <2>1, <4>2 DEF Without, Restrict
      <4>4. Clean' => Clean
        BY <2>1, <4>3 DEF Clean
      <4> QED BY <1>k, <2>1, <4>1, <4>3, <4>4 DEF Reached, Tidy
    <3>2. CASE engine # "mysql"
      <4>1. k = at - 1
        BY <1>k, <2>1, <3>2 DEF Reached
      <4> QED BY <1>k, <2>1, <3>2, <4>1, RestartedDrop
    <3> QED BY <3>1, <3>2
  <2>4. PICK n \in 0..13 : n = at
    BY <1>at
  <2>5. Reached(n)'
    BY <2>1, <2>2, <2>3, <2>4 DEF Reached
  <2> QED BY <2>3, <2>5 DEF Restarted
<1>7. CASE seed
  <2>1. /\ pc = "seed" /\ pc' = "ready" /\ new' = Seeded(new)
        /\ UNCHANGED <<engine, legacy, old, at, tx, spoiled>>
    BY <1>7 DEF seed, counts, faulty
  <2>2. tx = None /\ k = 13
    BY <1>k, <1>tx, <2>1 DEF Reached
  <2>3. Clean => new' = Seeded(After(legacy)[13])
    BY <1>k, <2>1, <2>2, SeededTwice DEF Reached
  <2>4. Reached(k)'
    BY <1>k, <2>1, <2>2, <2>3 DEF Reached, Clean
  <2> QED BY <1>k, <2>1, <2>4 DEF Restarted, Tidy
<1>8. CASE RowFails
  <2>1. PICK r \in tx.todo : /\ tx' = [tx EXCEPT !.todo = tx.todo \ {r}]
                            /\ spoiled' = spoiled \union {<<Order[at], r.id>>}
    BY <1>8 DEF RowFails
  <2>2. tx # None /\ UNCHANGED <<engine, legacy, old, new, pc, at>>
    BY <1>8 DEF RowFails
  <2>3. tx.drop = "none"
    BY <1>tx, <2>1, <2>2
  <2>4. tx'.drop = "none"
    BY <1>tx, <2>1, <2>2, <2>3
  <2>5. ~CleanHere'
    <3>1. <<Order[at], r.id>> \in spoiled' /\ <<Order[at], r.id>>[1] = Order[at]
      BY <2>1
    <3> QED BY <2>2, <3>1 DEF CleanHere
  <2>6. Clean' => Clean
    BY <2>1, <2>2 DEF Clean
  <2>7. Reached(k)'
    BY <1>k, <2>2, <2>3, <2>4, <2>5, <2>6 DEF Reached
  <2> QED BY <1>k, <2>2, <2>7 DEF Restarted, Tidy
<1>9. CASE CommitFails
  BY <1>9, RestartedFatal DEF CommitFails
<1>10. CASE Crash
  BY <1>10, RestartedFatal DEF Crash
<1>11. CASE UNCHANGED vars
  <2>1. Reached(k)'
    BY <1>k, <1>11 DEF Reached, Clean, CleanHere, vars, counts, faulty
  <2> QED BY <1>k, <1>11, <2>1 DEF Restarted, Tidy, vars
<1> QED BY <1>1, <1>2, <1>3, <1>4, <1>5, <1>6, <1>7, <1>8, <1>9, <1>10, <1>11, <1>12 DEF Next, Work

(* However often the upgrade was stopped, failed to commit and was started *)
(* again, and in whatever order the rows of a table were read, what it     *)
(* leaves in the end is what it leaves when nothing stops it; unless the   *)
(* SELECT COUNT or the DROP of a table failed (each migration of           *)
(* migrations.go, called in order by migrate).                             *)
THEOREM RestartsSafe == Spec => []RestartsMakeNoDifference
<1>1. Inv /\ Restarted => RestartsMakeNoDifference
  <2> SUFFICES ASSUME Inv, Restarted, pc = "ready", spoiled = {}, misread = {}, kept = {}
               PROVE  old = [t \in {} |-> {}] /\ new = Outcome(legacy)
    BY DEF RestartsMakeNoDifference
  <2>1. PICK k \in 0..13 : Reached(k) /\ Tidy
    BY DEF Restarted, Calm
  <2>2. k = 13 /\ new = Seeded(After(legacy)[13])
    BY <2>1 DEF Reached, Clean
  <2>3. new = Outcome(legacy)
    BY <2>2, Stages DEF Inv, Types
  <2>4. \A i \in 1..13 : Order[i] \notin DOMAIN old
    BY <2>1, <2>2 DEF Reached
  <2>5. DOMAIN old = {}
    BY <2>4, Positions DEF Inv, Types, Table, Range
  <2>6. old = [t \in DOMAIN old |-> old[t]]
    <3>1. "groups" \in Table
      BY Tables
    <3>2. old # legacy
      BY <2>5, <3>1, MigrationsAssumption DEF Inv, Types
    <3> QED BY <2>1, <3>2 DEF Tidy
  <2> QED BY <2>3, <2>5, <2>6
<1>2. Spec => []Restarted
  BY InvAlways, RestartedInit, RestartedNext, PTL DEF Spec
<1> QED BY InvAlways, <1>1, <1>2, PTL

=============================================================================
