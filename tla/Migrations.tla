----------------------------- MODULE Migrations -----------------------------
(***************************************************************************)
(* What a start does with a database of version 6 (database.go,            *)
(* migrations.go, seeds.go): each old table that is still there is copied  *)
(* row by row into its new one and dropped, in a transaction of its own,   *)
(* in an order in which what a row refers to was moved before it.  The     *)
(* process may stop anywhere and be started again; a statement or a commit *)
(* may fail, and what a start then makes of it is part of the model: a     *)
(* migration takes any error of its first query for a table that is not    *)
(* there, and only logs a DROP that fails.                                 *)
(*                                                                         *)
(* A row is its keys, what it refers to, and whether the columns that the  *)
(* code insists on are there; 0 stands for NULL.                           *)
(***************************************************************************)
EXTENDS Naturals, FiniteSets, FiniteSetsExt, SequencesExt

CONSTANTS
  Legacy,      \* databases of version 6, each a function from Table to rows
  MaxCrashes,  \* bound on the times the process stops
  MaxFaults    \* bound on the statements and commits that fail

(* A plausible mistake: talkgroups before the systems they refer to.       *)
OrderTalkgroupsFirst ==
  <<"talkgroups", "groups", "tags", "systems", "units", "options", "meta",
    "logs", "downstreams", "dirwatches", "calls", "apikeys", "accesses">>

(* database.migrate: the order of the migrations.                          *)
Order == <<"groups", "tags", "systems", "talkgroups", "units", "options", "meta",
           "logs", "downstreams", "dirwatches", "calls", "apikeys", "accesses">>
Table == Range(Order)

(* A database has finitely many rows.  Keys identify them, and an          *)
(* administrator gave a reference only once in a system.                   *)
ASSUME MigrationsAssumption ==
  /\ MaxCrashes \in Nat /\ MaxFaults \in Nat
  /\ \A l \in Legacy :
       /\ DOMAIN l = Table /\ \A t \in Table : IsFiniteSet(l[t])
       /\ \A t \in Table : \A r, x \in l[t] : r.id = x.id => r = x
       /\ \A s, x \in l.systems : s.ref = x.ref => s = x
       /\ \A t, x \in l.talkgroups : t.ref = x.ref /\ t.sys = x.sys => t = x

Engine == {"sqlite", "mysql"}   \* what version 6 ran on, MariaDB as MySQL

None == <<>>

VARIABLES
  engine, legacy,   \* the database: what it runs on, what version 6 left
  old,              \* old tables that are there
  new,              \* new tables
  pc, at,           \* what the process does; the migration it is at
  tx,               \* the transaction, or None
  spoiled,          \* keys of the rows whose INSERT failed by itself
  misread,          \* tables that were there and taken for not being there
  kept,             \* tables that a failing DROP left beside their moved rows
  faults, crashes

faulty == <<spoiled, misread, kept>>
counts == <<faulty, faults, crashes>>
vars   == <<engine, legacy, old, new, pc, at, tx, counts>>

Ids(rows) == {r.id : r \in rows}

Init ==
  /\ engine \in Engine /\ legacy \in Legacy
  /\ old = legacy
  /\ new = [t \in Table |-> {}]
  /\ pc = "down" /\ at = 1 /\ tx = None
  /\ spoiled = {} /\ misread = {} /\ kept = {}
  /\ faults = 0 /\ crashes = 0

-----------------------------------------------------------------------------
(* What a migration reads first: the key of each system by its reference.  *)
SystemsByRef(db) ==
  [ref \in {s.ref : s \in db.systems} |-> (CHOOSE s \in db.systems : s.ref = ref).id]

(* Calls and dirwatches read "systems" LEFT JOIN "talkgroups" without a    *)
(* condition: every talkgroup comes with every system, the last of those   *)
(* with a reference stays, and without talkgroups no system is taken.      *)
(* MySQL does not take the query.                                          *)
JoinedSystems(db) == [ref \in {s.ref : s \in {x \in db.systems : db.talkgroups # {}}} |-> SystemsByRef(db)[ref]]
JoinedTalkgroups(db) ==
  [ref \in {t.ref : t \in db.talkgroups} |-> Max({t.id : t \in {x \in db.talkgroups : x.ref = ref}})]

Joins(t) == t \in {"dirwatches", "calls"}

Seen(t, db) ==
  [systems    |-> IF Joins(t) THEN JoinedSystems(db) ELSE SystemsByRef(db),
   talkgroups |-> JoinedTalkgroups(db)]

(* An INSERT that is refused, for its key or a foreign key, is only logged.*)
Insert(db, t, row) ==
  IF row.id \in Ids(db[t]) THEN db ELSE [db EXCEPT ![t] = @ \union {row}]

(* Groups and tags are put in the order of their labels.                   *)
Placed(r, rows) == [id |-> r.id, order |-> Cardinality({x \in rows : x.label <= r.label})]

migrateGroup(r, rows, db) == Insert(db, "groups", Placed(r, rows))
migrateTag(r, rows, db)   == Insert(db, "tags", Placed(r, rows))
migrateSystem(r, db)      == Insert(db, "systems", [id |-> r.id, ref |-> r.ref])

migrateTalkgroup(r, seen, db) ==
  IF r.sys \in DOMAIN seen.systems /\ r.tag \in Ids(db.tags)
  THEN Insert(db, "talkgroups",
         [id |-> r.id, ref |-> r.ref, sys |-> seen.systems[r.sys], tag |-> r.tag,
          groups |-> {r.group} \intersect Ids(db.groups)])
  ELSE db

(* The new row is given unit.Id, which nothing has set, for a reference.   *)
migrateUnit(r, seen, db) ==
  IF r.sys \in DOMAIN seen.systems
  THEN Insert(db, "units", [id |-> r.id, ref |-> 0, sys |-> seen.systems[r.sys]])
  ELSE db

(* The row "options" is an object of which each known member makes a row;  *)
(* any other row is copied.                                                *)
migrateOption(r, db) == [db EXCEPT !.options = @ \union {[id |-> k] : k \in r.keys}]

migrateLog(r, db)        == IF r.whole THEN Insert(db, "logs", [id |-> r.id]) ELSE db
migrateDownstream(r, db) == IF r.whole THEN Insert(db, "downstreams", [id |-> r.id]) ELSE db
migrateAccess(r, db)     == IF r.whole THEN Insert(db, "accesses", [id |-> r.id]) ELSE db
migrateApikey(r, db)     == Insert(db, "apikeys", [id |-> r.id])

(* A dirwatch without a system is given nil, for which the text of the     *)
(* INSERT has no number: the statement is refused.                         *)
migrateDirwatch(r, seen, db) ==
  IF r.whole /\ r.sys \in DOMAIN seen.systems
  THEN Insert(db, "dirwatches",
         [id |-> r.id, sys |-> seen.systems[r.sys],
          tg |-> IF r.tg \in DOMAIN seen.talkgroups THEN seen.talkgroups[r.tg] ELSE 0])
  ELSE db

(* The single source of a call makes a unit where there is none with that  *)
(* reference; the call itself is told its source only if that fails.       *)
SourceUnit(r, sys, db) ==
  IF r.sources = {} /\ r.source # 0 /\ ~\E u \in db.units : u.sys = sys /\ u.ref = r.source
  THEN [db EXCEPT !.units = @ \union {[id |-> 0, ref |-> r.source, sys |-> sys]}]
  ELSE db

migrateCall(r, seen, db) ==
  IF /\ r.whole /\ r.sys \in DOMAIN seen.systems /\ r.tg \in DOMAIN seen.talkgroups
     /\ r.id \notin Ids(db.calls)
  THEN SourceUnit(r, seen.systems[r.sys],
         Insert(db, "calls",
           [id |-> r.id, sys |-> seen.systems[r.sys], tg |-> seen.talkgroups[r.tg],
            patches |-> {seen.talkgroups[p] : p \in r.patches \intersect DOMAIN seen.talkgroups},
            sources |-> r.sources]))
  ELSE db

(* One row of table t, out of those read.                                  *)
Migrated(t, r, rows, seen, db) ==
  CASE t = "groups"      -> migrateGroup(r, rows, db)
    [] t = "tags"        -> migrateTag(r, rows, db)
    [] t = "systems"     -> migrateSystem(r, db)
    [] t = "talkgroups"  -> migrateTalkgroup(r, seen, db)
    [] t = "units"       -> migrateUnit(r, seen, db)
    [] t = "options"     -> migrateOption(r, db)
    [] t = "meta"        -> db
    [] t = "logs"        -> migrateLog(r, db)
    [] t = "downstreams" -> migrateDownstream(r, db)
    [] t = "dirwatches"  -> migrateDirwatch(r, seen, db)
    [] t = "calls"       -> migrateCall(r, seen, db)
    [] t = "apikeys"     -> migrateApikey(r, db)
    [] t = "accesses"    -> migrateAccess(r, db)

(* seed: the defaults, where nothing was moved.                            *)
Default == [id |-> 1, order |-> 0]
Seeded(db) ==
  [db EXCEPT !.groups = IF @ = {} THEN {Default} ELSE @,
             !.tags   = IF @ = {} THEN {Default} ELSE @]

-----------------------------------------------------------------------------
(* Somebody, or the service manager, starts the server.                    *)
NewDatabase ==
  /\ pc = "down"
  /\ pc' = "migrate" /\ at' = 1
  /\ UNCHANGED <<engine, legacy, old, new, tx, counts>>

(* A plausible mistake: the transaction outlives the server that failed.   *)
FatalKeepsTransaction ==
  /\ pc' = "down" /\ UNCHANGED tx
  /\ spoiled' = {p \in spoiled : p[1] \notin DOMAIN old \/ p[1] \in kept}
  /\ UNCHANGED <<engine, legacy, at, misread, kept>>

(* log.Fatal, or a panic: the process ends and its transaction with it.    *)
(* Rows that failed in it will be read again.                              *)
Fatal ==
  /\ pc' = "down" /\ tx' = None
  /\ spoiled' = {p \in spoiled : p[1] \notin DOMAIN old \/ p[1] \in kept}
  /\ UNCHANGED <<engine, legacy, at, misread, kept>>

Advance(n) == IF n = Len(Order) THEN pc' = "seed" /\ UNCHANGED at ELSE at' = n + 1 /\ UNCHANGED pc

(* A plausible mistake: the error of the query is returned.                *)
AbsentIsFatal ==
  /\ pc = "migrate" /\ tx = None /\ Order[at] \notin DOMAIN old
  /\ Fatal
  /\ UNCHANGED <<old, new, faults, crashes>>

(* No old table: nothing to do.                                            *)
Absent ==
  /\ pc = "migrate" /\ tx = None /\ Order[at] \notin DOMAIN old
  /\ Advance(at)
  /\ UNCHANGED <<engine, legacy, old, new, tx, counts>>

(* Any error of SELECT COUNT is taken for that.                            *)
CountFails ==
  /\ pc = "migrate" /\ tx = None /\ Order[at] \in DOMAIN old /\ faults < MaxFaults
  /\ Advance(at)
  /\ misread' = misread \union {Order[at]}
  /\ faults' = faults + 1
  /\ UNCHANGED <<engine, legacy, old, new, tx, spoiled, kept, crashes>>

Begin ==
  /\ pc = "migrate" /\ tx = None /\ Order[at] \in DOMAIN old
  /\ IF engine = "mysql" /\ Joins(Order[at])
     THEN Fatal
     ELSE /\ tx' = [todo |-> old[Order[at]], db |-> new, seen |-> Seen(Order[at], new), drop |-> "none"]
          /\ UNCHANGED <<engine, legacy, pc, at, faulty>>
  /\ UNCHANGED <<old, new, faults, crashes>>

(* A talkgroup without a group is looked up in an empty slice once it is   *)
(* inserted.                                                               *)
Panics(r, db) == Order[at] = "talkgroups" /\ r.group = 0 /\ db # tx.db

MigrateRow ==
  /\ tx # None
  /\ \E r \in tx.todo :
       LET db == Migrated(Order[at], r, old[Order[at]], tx.seen, tx.db) IN
       IF Panics(r, db) THEN Fatal
       ELSE /\ tx' = [tx EXCEPT !.todo = @ \ {r}, !.db = db]
            /\ UNCHANGED <<engine, legacy, pc, at, faulty>>
  /\ UNCHANGED <<old, new, faults, crashes>>

RowFails ==
  /\ tx # None /\ faults < MaxFaults
  /\ \E r \in tx.todo :
       /\ tx' = [tx EXCEPT !.todo = @ \ {r}]
       /\ spoiled' = spoiled \union {<<Order[at], r.id>>}
  /\ faults' = faults + 1
  /\ UNCHANGED <<engine, legacy, old, new, pc, at, misread, kept, crashes>>

Without(t) == Restrict(old, DOMAIN old \ {t})

(* A plausible mistake: the drop is not part of the transaction.           *)
DropTableAtOnce ==
  /\ tx # None /\ tx.todo = {} /\ tx.drop = "none"
  /\ tx' = [tx EXCEPT !.drop = "done"]
  /\ old' = Without(Order[at])
  /\ UNCHANGED <<engine, legacy, new, pc, at, counts>>

(* MySQL commits before it drops a table.                                  *)
DropTable ==
  /\ tx # None /\ tx.todo = {} /\ tx.drop = "none"
  /\ tx' = [tx EXCEPT !.drop = "done"]
  /\ IF engine = "mysql" THEN new' = tx.db /\ old' = Without(Order[at]) ELSE UNCHANGED <<old, new>>
  /\ UNCHANGED <<engine, legacy, pc, at, counts>>

(* A DROP that fails is only logged, but for "meta", which has a migration *)
(* of one statement.                                                       *)
DropFails ==
  /\ tx # None /\ tx.todo = {} /\ tx.drop = "none"
  /\ Order[at] # "meta" /\ faults < MaxFaults
  /\ tx' = [tx EXCEPT !.drop = "failed"]
  /\ IF engine = "mysql" THEN new' = tx.db /\ kept' = kept \union {Order[at]} ELSE UNCHANGED <<new, kept>>
  /\ faults' = faults + 1
  /\ UNCHANGED <<engine, legacy, old, pc, at, spoiled, misread, crashes>>

Commit ==
  /\ tx # None /\ tx.drop # "none"
  /\ new' = tx.db /\ tx' = None
  /\ IF tx.drop = "done" THEN old' = Without(Order[at]) /\ UNCHANGED kept
     ELSE kept' = kept \union {Order[at]} /\ UNCHANGED old
  /\ Advance(at)
  /\ UNCHANGED <<engine, legacy, spoiled, misread, faults, crashes>>

CommitFails ==
  /\ tx # None /\ tx.drop # "none" /\ faults < MaxFaults
  /\ Fatal
  /\ faults' = faults + 1
  /\ UNCHANGED <<old, new, crashes>>

seed ==
  /\ pc = "seed"
  /\ new' = Seeded(new)
  /\ pc' = "ready"
  /\ UNCHANGED <<engine, legacy, old, at, tx, counts>>

Crash ==
  /\ pc # "down" /\ crashes < MaxCrashes
  /\ Fatal
  /\ crashes' = crashes + 1
  /\ UNCHANGED <<old, new, faults>>

Work == Absent \/ Begin \/ MigrateRow \/ DropTable \/ Commit \/ seed
Next == NewDatabase \/ Work \/ CountFails \/ RowFails \/ DropFails \/ CommitFails \/ Crash

(* The process runs on by itself, and a server that is down is started.    *)
Spec == Init /\ [][Next]_vars /\ WF_vars(NewDatabase) /\ WF_vars(Work)

-----------------------------------------------------------------------------
(* Every variable has its type.                                            *)
TypeOK ==
  /\ engine \in Engine /\ legacy \in Legacy
  /\ DOMAIN old \subseteq Table /\ \A t \in DOMAIN old : old[t] = legacy[t]
  /\ DOMAIN new = Table /\ \A t \in Table \ {"options", "meta"} : Ids(new[t]) \subseteq Ids(legacy[t]) \union {0, 1}
  /\ pc \in {"down", "migrate", "seed", "ready"} /\ at \in DOMAIN Order
  /\ tx # None => pc = "migrate" /\ tx.todo \subseteq legacy[Order[at]] /\ tx.drop \in {"none", "done", "failed"}
  /\ misread \subseteq Table /\ kept \subseteq Table
  /\ faults \in 0..MaxFaults /\ crashes \in 0..MaxCrashes

(* Rows that have what the code insists on, and all they refer to, leaving *)
(* out those whose INSERT failed by itself.                                *)
Sound(t) == {r \in legacy[t] : <<t, r.id>> \notin spoiled}
SystemOf(r) == \E s \in Sound("systems") : s.ref = r.sys
FitTalkgroups == {g \in Sound("talkgroups") : SystemOf(g) /\ g.tag \in Ids(Sound("tags"))}
Fit(t) ==
  CASE t = "talkgroups" -> FitTalkgroups
    [] t = "units"      -> {u \in Sound(t) : SystemOf(u)}
    [] t = "dirwatches" -> {d \in Sound(t) : d.whole /\ SystemOf(d) /\ FitTalkgroups # {}}
    [] t = "calls"      -> {c \in Sound(t) : c.whole /\ \E g \in FitTalkgroups : g.ref = c.tg /\ g.sys = c.sys}
    [] t \in {"logs", "downstreams", "accesses"} -> {r \in Sound(t) : r.whole}
    [] t = "options"    -> {[id |-> k] : k \in UNION {o.keys : o \in Sound(t)}}
    [] t = "meta"       -> {}
    [] OTHER -> Sound(t)

(* The tables that decide which rows of a table are moved.                 *)
Needs(t) ==
  CASE t = "talkgroups" -> {"systems", "tags"}
    [] t = "units" -> {"systems"}
    [] t \in {"dirwatches", "calls"} -> {"systems", "tags", "talkgroups"}
    [] OTHER -> {}

(* Where one of them was taken for not being there, the rows of t are lost *)
(* with their table; so are those of a table in which seed puts defaults.  *)
WellRead(t) == misread \intersect (Needs(t) \union ({t} \intersect {"groups", "tags"})) = {}

(* An old table is gone, or left behind by a DROP that failed, only when   *)
(* each of its rows that is fit to move is in the new one, wherever the    *)
(* process stopped and whatever row, drop or commit failed (the drop in    *)
(* the transaction of its table, migrations.go:112-121).  The code does    *)
(* not give it for the rows of a table that needs one whose SELECT COUNT   *)
(* failed: they are passed over and dropped.                               *)
DroppedWhenMoved ==
  \A t \in (Table \ DOMAIN old) \union kept : WellRead(t) => Ids(Fit(t)) \subseteq Ids(new[t])

(* What an upgrade leaves when nothing stops it.                           *)
Moved(t, l, db) == FoldSet(LAMBDA r, done : Migrated(t, r, l[t], Seen(t, db), done), db, l[t])
Outcome(l) ==
  Seeded(FoldLeft(LAMBDA db, t : Moved(t, l, db), [t \in Table |-> {}], Order))

(* The new database is the same in the end, and keeps being so, however    *)
(* many times the upgrade was stopped, failed to commit, and started again *)
(* (database.migrate: each migration asks whether its old table is there). *)
(* It is not when a table was misread or its DROP failed: rows that were   *)
(* passed over, or refused the first time, may be moved by a later start.  *)
RestartsMakeNoDifference ==
  pc = "ready" /\ spoiled = {} /\ misread = {} /\ kept = {}
    => old = [t \in {} |-> {}] /\ new = Outcome(legacy)

(* On SQLite, when every talkgroup has a group, a server that is started   *)
(* whenever it is down ends its upgrade and serves.                        *)
EventuallyServes ==
  engine = "sqlite" /\ (\A g \in legacy.talkgroups : g.group # 0) => <>[](pc = "ready")
=============================================================================
