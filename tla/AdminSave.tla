------------------------------ MODULE AdminSave ------------------------------
(***************************************************************************)
(* Saving the configuration (the PUT branch of Admin.ConfigHandler in      *)
(* admin.go, with FromMap, Write and Read of every list it saves), while   *)
(* the ingestion of a call populates groups, tags and talkgroups           *)
(* (controller.go) and a user is added or removed (UserAddHandler and      *)
(* UserRemoveHandler).                                                     *)
(*                                                                         *)
(* Every list is in memory and has a table.  FromMap replaces the list by  *)
(* what the page sends, Write brings the table to the list in a            *)
(* transaction of its own, Read replaces the list by the table.  A save    *)
(* does that for one list after another; admin.mutex keeps other saves     *)
(* out, but neither ingestion nor the handlers of users.                   *)
(*                                                                         *)
(* Contents are abstracted to what tells rows apart: the id, the system it *)
(* belongs to, the reference or label, and the tag of a talkgroup.         *)
(***************************************************************************)
EXTENDS Naturals, FiniteSets, FiniteSetsExt

CONSTANTS
  Config,     \* the configurations to start from: functions from List to rows
  Key,        \* references and labels
  Arrival,    \* calls of unknown talkgroups: its key, its group's and its tag's
  AutoSystem, \* references of the systems that populate automatically
  MaxOthers,  \* bound on the calls that populate and the users added or removed
  MaxFaults,  \* bound on failing transactions and crashes
  MaxSaves    \* bound on the saves

(* Lists with a table of their own, and those that systems are made of.    *)
Flat   == {"access", "apikeys", "dirwatch", "downstreams", "groups", "tags"}
Nested == {"sites", "talkgroups", "units"}
List   == Flat \union {"systems"} \union Nested
Sent   == Flat \union {"systems", "options"}    \* what a page sends

New == 0      \* the id of an element without a row; no system; no tag
Bad == 0      \* an access code that is not numeric

Row == [id : Nat, sys : Nat, key : Nat, tag : Nat]

Option == {"audioConversion", "duplicateDetectionTimeFrame", "maxClients"}

(* What a database keeps: rows are finitely many and told apart by ids,    *)
(* what they refer to exists, and only what is nested has a system.        *)
Sane(c) ==
  /\ \A l \in List : /\ IsFiniteSet(c[l])
                     /\ \A r, q \in c[l] : r.id # New /\ (r.id = q.id => r = q)
  /\ \A l \in Nested : \A r \in c[l] : \E s \in c["systems"] : s.id = r.sys
  /\ \A l \in List \ Nested : \A r \in c[l] : r.sys = New
  /\ \A r \in c["talkgroups"] : \E g \in c["tags"] : g.id = r.tag

ASSUME AdminSaveAssumption ==
  /\ Config \subseteq [List -> SUBSET Row]
  /\ \A c \in Config : Sane(c)
  /\ Key \subseteq Nat \ {Bad}
  /\ Arrival \subseteq [key : Key, group : Key, tag : Key]
  /\ AutoSystem \subseteq Key
  /\ MaxOthers \in Nat /\ MaxFaults \in Nat /\ MaxSaves \in Nat

VARIABLES
  mem,       \* the lists in memory
  tab,       \* the tables: their rows, and the last id given
  calls,     \* the talkgroups (by id) of stored calls
  options,   \* Options
  optRows,   \* the options table
  watching,  \* the folders that are watched
  pc,        \* where the save is
  doc,       \* the configuration the page sends
  pop,       \* the call being ingested
  user,      \* the request that adds or removes a user
  clean,     \* nothing failed or overlapped since the start, or since a save
             \* of the whole configuration began
  others, faults, saves

ext  == <<pop, user, others>>
vars == <<mem, tab, calls, options, optRows, watching, pc, doc, ext, clean, faults, saves>>

NoDoc  == [l \in {} |-> {}]
NoCall == [at |-> "idle", sys |-> 0, sysKey |-> 0, key |-> 0, group |-> 0, tag |-> 0,
           orphan |-> FALSE, id |-> 0]

Ids(S) == {r.id : r \in S}

Init ==
  /\ mem \in Config
  /\ tab = [l \in List |-> [rows |-> mem[l], last |-> IF mem[l] = {} THEN 0 ELSE Max(Ids(mem[l]))]]
  /\ calls = Ids(mem["talkgroups"])
  /\ options = [o \in Option |-> "default"]
  /\ optRows = [o \in {} |-> "default"]
  /\ watching = mem["dirwatch"]
  /\ pc = "idle"
  /\ doc = NoDoc
  /\ pop = NoCall
  /\ user = "idle"
  /\ clean = TRUE
  /\ others = 0 /\ faults = 0 /\ saves = 0

-----------------------------------------------------------------------------
(* Tables.                                                                 *)

(* The rows that are removed: no row while an element of the list is new.  *)
Removed(list, rows) == IF New \in Ids(list) THEN {} ELSE {r \in rows : r.id \notin Ids(list)}

(* Mutants of Upsert: an id is given twice; rows are replaced instead of   *)
(* updated; a row that exists is left as it is.                            *)
UpsertTakesLast(e, t) ==
  IF e.id \in Ids(t.rows) THEN t
  ELSE [rows |-> t.rows \union {[e EXCEPT !.id = t.last]}, last |-> t.last + 1]
UpsertReplaces(e, t) ==
  [rows |-> {r \in t.rows : r.id # e.id} \union {[e EXCEPT !.id = t.last + 1]}, last |-> t.last + 1]
UpsertIgnores(e, t) ==
  IF e.id \in Ids(t.rows) THEN t
  ELSE [rows |-> t.rows \union {[e EXCEPT !.id = t.last + 1]}, last |-> t.last + 1]

(* An element whose row exists updates it, except for its system; any      *)
(* other is inserted.                                                      *)
Upsert(e, t) ==
  IF e.id \in Ids(t.rows)
  THEN [t EXCEPT !.rows = {IF r.id = e.id THEN [e EXCEPT !.sys = r.sys] ELSE r : r \in @}]
  ELSE [rows |-> t.rows \union {[e EXCEPT !.id = t.last + 1]}, last |-> t.last + 1]

Written(list, gone, t) == FoldSet(Upsert, [t EXCEPT !.rows = @ \ gone], list)

(* What the database removes with rows: talkgroups with their system or    *)
(* tag, sites and units with their system.                                 *)
Cascade(t) ==
  LET sys == Ids(t["systems"].rows)
      In(r) == r.sys \in sys
  IN  [t EXCEPT !["sites"].rows      = {r \in @ : In(r)},
                !["units"].rows      = {r \in @ : In(r)},
                !["talkgroups"].rows = {r \in @ : In(r) /\ r.tag \in Ids(t["tags"].rows)}]

(* The tables become t; calls go with their talkgroup.                     *)
Commit(t) ==
  /\ tab' = Cascade(t)
  /\ calls' = calls \intersect Ids(Cascade(t)["talkgroups"].rows)

-----------------------------------------------------------------------------
(* Write and Read of one list, whoever calls them.                         *)

FlatTable(list, t) == Written(list, Removed(list, t.rows), t)

WriteList(l) == Commit([tab EXCEPT ![l] = FlatTable(mem[l], @)])

ReadList(l) == mem' = [mem EXCEPT ![l] = tab[l].rows]

(* A reading that fails leaves the part that was read.                     *)
ReadPart(l) == \E S \in SUBSET tab[l].rows : S # tab[l].rows /\ mem' = [mem EXCEPT ![l] = S]

Fault == faults < MaxFaults /\ faults' = faults + 1 /\ clean' = FALSE
NoFault == UNCHANGED <<faults, clean>>

(* Systems.Write: a system takes the id of its row, and what is nested in  *)
(* it is written under that id.                                            *)
SystemsTable == FlatTable(mem["systems"], tab["systems"])

Unsaved(l) == {e \in mem[l] : e.id \notin Ids(tab[l].rows)}

(* The ids that the elements in S were inserted into t under.              *)
Given(S, t, last) ==
  CHOOSE f \in [S -> Ids(t.rows)] :
    \A e, d \in S : /\ f[e] > last /\ [e EXCEPT !.id = f[e]] \in t.rows
                    /\ f[e] = f[d] => e = d

IdOf(s) ==
  IF \E e \in Unsaved("systems") : e.id = s
  THEN LET given == Given(Unsaved("systems"), SystemsTable, tab["systems"].last)
       IN  given[CHOOSE e \in Unsaved("systems") : e.id = s]
  ELSE s

Under(l, s) == {[e EXCEPT !.sys = IdOf(s.id)] : e \in {x \in mem[l] : x.sys = s.id}}
RowsUnder(t, s) == {r \in t.rows : r.sys = IdOf(s.id)}

(* New talkgroups do not keep others: the condition looks at the row's id. *)
RemovedUnder(l, s, t) ==
  IF l = "talkgroups" THEN {r \in RowsUnder(t, s) : r.id \notin Ids(Under(l, s))}
  ELSE Removed(Under(l, s), RowsUnder(t, s))

PutUnder(l, s, t) == Written(Under(l, s), RemovedUnder(l, s, t), t)

NestedTable(l) ==
  LET Put(s, t) == PutUnder(l, s, t)
  IN  FoldSet(Put, Cascade([tab EXCEPT !["systems"] = SystemsTable])[l], mem["systems"])

SitesTable      == NestedTable("sites")
TalkgroupsTable == NestedTable("talkgroups")
UnitsTable      == NestedTable("units")

(* The objects of systems and talkgroups take the ids of inserted rows;    *)
(* those of sites and units do not.                                        *)
Assigned ==
  LET Moved(e) == [e EXCEPT !.sys = IdOf(e.sys)]
      new      == Unsaved("talkgroups")
      given    == Given({Moved(e) : e \in new}, TalkgroupsTable, tab["talkgroups"].last)
      Tg(e)    == IF e \in new THEN given[Moved(e)] ELSE e.id
  IN  [mem EXCEPT !["systems"]    = {[e EXCEPT !.id = IdOf(e.id)] : e \in @},
                  !["talkgroups"] = {[Moved(e) EXCEPT !.id = Tg(e)] : e \in @},
                  !["sites"]      = {Moved(e) : e \in @},
                  !["units"]      = {Moved(e) : e \in @}]

(* A talkgroup whose tag has no row is refused by the database.            *)
TagsKnown == \A e \in mem["talkgroups"] : e.tag \in Ids(tab["tags"].rows)

WriteSystems ==
  /\ TagsKnown
  /\ Commit([tab EXCEPT !["systems"]    = SystemsTable,
                        !["sites"]      = SitesTable,
                        !["talkgroups"] = TalkgroupsTable,
                        !["units"]      = UnitsTable])
  /\ mem' = Assigned

(* Rolled back; ids that were given are not given again.                   *)
WriteSystemsFails ==
  /\ \/ ~TagsKnown /\ faults' = faults /\ clean' = FALSE
     \/ Fault
  /\ tab' = [tab EXCEPT !["systems"].last = SystemsTable.last,
                        !["talkgroups"].last = TalkgroupsTable.last]
  /\ mem' \in {mem, Assigned}
  /\ UNCHANGED calls

ReadSystems ==
  mem' = [l \in List |-> IF l \in {"systems"} \union Nested THEN tab[l].rows ELSE mem[l]]

(* A reading that fails: some systems, or all and the contents of some.    *)
ReadSystemsPart ==
  \E S \in SUBSET tab["systems"].rows, N \in SUBSET Ids(tab["systems"].rows) :
    /\ N # Ids(tab["systems"].rows)
    /\ S # tab["systems"].rows => N = {}
    /\ mem' = [l \in List |-> IF l = "systems" THEN S
                              ELSE IF l \in Nested THEN {r \in tab[l].rows : r.sys \in N}
                              ELSE mem[l]]

-----------------------------------------------------------------------------
(* Options are written one by one; the conversion of audio is not, and the *)
(* time frame is looked for under another name than it is written under.   *)

OptionsWritten(opts) == [o \in Option \ {"audioConversion"} |-> opts[o]]

OptionsRead(t) ==
  [o \in Option |-> IF o \in DOMAIN t \ {"duplicateDetectionTimeFrame"} THEN t[o] ELSE "default"]

-----------------------------------------------------------------------------
(* The page.                                                               *)

(* A unit is sent with its reference as its id.                            *)
PageUnits == {[r EXCEPT !.id = r.key] : r \in mem["units"]}

(* SendConfig.                                                             *)
Page == [l \in List \union {"options"} |->
           CASE l = "units" -> PageUnits [] l = "options" -> options [] OTHER -> mem[l]]

(* What the administrator makes of the page: an element of one list is     *)
(* removed, another added, or both, or its key is changed.                 *)
NewRows(p, l) ==
  CASE l = "talkgroups" -> [id : {New}, sys : Ids(p["systems"]), key : Key, tag : Ids(p["tags"])]
    [] l \in {"sites", "units"} -> [id : {New}, sys : Ids(p["systems"]), key : Key, tag : {0}]
    [] l = "access" -> [id : {New}, sys : {0}, key : Key \union {Bad}, tag : {0}]
    [] OTHER -> [id : {New}, sys : {0}, key : Key, tag : {0}]

(* A bound: a system is added only to a page without a new one, so that    *)
(* what is nested in a system is told by the system's id.                  *)
Fresh(p, l) ==
  {n \in NewRows(p, l) :
     /\ \A e \in p[l] : ~(e.key = n.key /\ e.sys = n.sys)
     /\ l = "systems" => New \notin Ids(p[l])}

(* The talkgroups whose tag the page does not have must be given another:  *)
(* the page insists on it.                                                 *)
Repaired(p) ==
  LET lost == {e \in p["talkgroups"] : e.tag \notin Ids(p["tags"])}
      Retagged(u) == (p["talkgroups"] \ lost) \union {[e EXCEPT !.tag = u] : e \in lost}
  IN  IF lost = {} THEN {p} ELSE {[p EXCEPT !["talkgroups"] = Retagged(u)] : u \in Ids(p["tags"])}

Without(p, l, e) ==
  CASE l = "systems" ->
         {[k \in DOMAIN p |-> IF k \in Nested THEN {x \in p[k] : x.sys # e.id}
                              ELSE IF k = l THEN p[k] \ {e} ELSE p[k]]}
    [] l = "tags" -> Repaired([p EXCEPT !["tags"] = @ \ {e}])
    [] OTHER -> {[p EXCEPT ![l] = @ \ {e}]}

Edit(p) ==
  \/ doc' = p
  \/ \E l \in List :
       \/ \E e \in p[l], q \in UNION {Without(p, l, x) : x \in p[l]} : e \notin q[l] /\ doc' = q
       \/ \E n \in Fresh(p, l) : doc' = [p EXCEPT ![l] = @ \union {n}]
       \/ \E e \in p[l] : \E q \in Without(p, l, e) : \E n \in Fresh(q, l) :
            doc' = [q EXCEPT ![l] = @ \union {n}]
       \/ \E e \in p[l], n \in Fresh(p, l) :
            doc' = [p EXCEPT ![l] = (@ \ {e}) \union {[e EXCEPT !.key = n.key]}]
  \/ \E o \in Option : doc' = [p EXCEPT !["options"][o] = "chosen"]
  \/ \E l \in Sent : doc' = [k \in DOMAIN p \ (IF l = "systems" THEN {l} \union Nested ELSE {l}) |-> p[k]]

LoadPage ==
  /\ pc = "idle" /\ saves < MaxSaves
  /\ \E p \in Repaired(Page) : Edit(p)
  /\ pc' = "page"
  /\ UNCHANGED <<mem, tab, calls, options, optRows, watching, ext, clean, faults, saves>>

-----------------------------------------------------------------------------
(* The PUT.                                                                *)

Go(here, next) == pc = here /\ pc' = next
Absent(l, here, next) == Go(here, next) /\ l \notin DOMAIN doc /\ UNCHANGED <<mem, tab, calls, faults, clean>>
Other == UNCHANGED <<options, optRows, watching, doc, ext, saves>>

(* The list becomes what the page sent.                                    *)
FromMap(l) == l \in DOMAIN doc /\ mem' = [mem EXCEPT ![l] = doc[l]] /\ UNCHANGED <<tab, calls>>

(* Mutant: what was written is not read back.                              *)
WriteWithoutRead(l, here, read, next) ==
  \/ Go(here, next) /\ WriteList(l) /\ UNCHANGED mem /\ NoFault
  \/ Go(here, next) /\ Fault /\ UNCHANGED <<mem, tab, calls>>

WriteStep(l, here, read, next) ==
  \/ Go(here, read) /\ WriteList(l) /\ UNCHANGED mem /\ NoFault
  \/ Go(here, next) /\ Fault /\ UNCHANGED <<mem, tab, calls>>

ReadStep(l, here, next) ==
  /\ Go(here, next)
  /\ (ReadList(l) /\ NoFault) \/ (ReadPart(l) /\ Fault)
  /\ UNCHANGED <<tab, calls>>

(* The codes are looked at before anything is done.                        *)
Numeric == \A e \in doc["access"] : e.key # Bad

PutAccess ==
  /\ saves' = saves + 1
  /\ clean' = (pop.at = "idle" /\ user = "idle" /\ Sent \subseteq DOMAIN doc)
  /\ \/ Go("page", "access.write") /\ FromMap("access") /\ Numeric
     \/ Go("page", "stop") /\ "access" \notin DOMAIN doc /\ UNCHANGED <<mem, tab, calls>>
  /\ UNCHANGED <<options, optRows, watching, doc, ext, faults>>

RefuseCode ==
  /\ Go("page", "idle")
  /\ "access" \in DOMAIN doc /\ ~Numeric
  /\ doc' = NoDoc
  /\ saves' = saves + 1
  /\ UNCHANGED <<mem, tab, calls, options, optRows, watching, ext, clean, faults>>

AccessWrite == WriteStep("access", "access.write", "access.read", "stop") /\ Other
AccessRead  == ReadStep("access", "access.read", "stop") /\ Other

(* Dirwatches.Stop also empties the list.                                  *)
StopDirwatches ==
  /\ Go("stop", "apikeys")
  /\ mem' = [mem EXCEPT !["dirwatch"] = {}]
  /\ watching' = {}
  /\ UNCHANGED <<tab, calls, options, optRows, doc, ext, clean, faults, saves>>

(* A list nobody else changes is saved in one step.                        *)
SaveList(l, here, next) ==
  LET t == FlatTable(doc[l], tab[l]) IN
  \/ Absent(l, here, next)
  \/ /\ l \in DOMAIN doc
     /\ Go(here, next)
     /\ \/ tab' = [tab EXCEPT ![l] = t] /\ mem' = [mem EXCEPT ![l] = t.rows] /\ NoFault
        \/ tab' = tab /\ mem' = [mem EXCEPT ![l] = doc[l]] /\ Fault
        \/ /\ tab' = [tab EXCEPT ![l] = t]
           /\ \E S \in SUBSET t.rows : S # t.rows /\ mem' = [mem EXCEPT ![l] = S]
           /\ Fault
     /\ UNCHANGED calls

SaveApikeys     == SaveList("apikeys", "apikeys", "dirwatch") /\ Other
SaveDirwatches  == SaveList("dirwatch", "dirwatch", "downstreams") /\ Other
SaveDownstreams == SaveList("downstreams", "downstreams", "groups") /\ Other

PutGroups ==
  /\ \/ Go("groups", "groups.write") /\ FromMap("groups") /\ NoFault
     \/ Absent("groups", "groups", "options")
  /\ Other
GroupsWrite == WriteStep("groups", "groups.write", "groups.read", "options") /\ Other
GroupsRead  == ReadStep("groups", "groups.read", "options") /\ Other

(* Options are not read back.                                              *)
SaveOptions ==
  /\ Go("options", "systems")
  /\ \/ /\ "options" \notin DOMAIN doc
        /\ UNCHANGED <<options, optRows, faults, clean>>
     \/ /\ "options" \in DOMAIN doc
        /\ options' = doc["options"]
        /\ \/ optRows' = OptionsWritten(doc["options"]) /\ NoFault
           \/ optRows' = optRows /\ Fault
  /\ UNCHANGED <<mem, tab, calls, watching, doc, ext, saves>>

(* A call in IngestCall keeps the system it found before.                  *)
Orphaned == pop' = IF pop.at = "idle" THEN pop ELSE [pop EXCEPT !.orphan = TRUE]
OtherSystems == UNCHANGED <<options, optRows, watching, doc, user, others, saves>>

PutSystems ==
  \/ /\ Go("systems", "systems.write")
     /\ "systems" \in DOMAIN doc
     /\ mem' = [l \in List |-> IF l \in {"systems"} \union Nested THEN doc[l] ELSE mem[l]]
     /\ Orphaned
     /\ UNCHANGED <<tab, calls, faults, clean>> /\ OtherSystems
  \/ Absent("systems", "systems", "tags") /\ Other

(* The system that a call found is an object of the list, and takes its    *)
(* id with it.                                                             *)
Renumbered ==
  pop' = IF pop.at # "idle" /\ ~pop.orphan THEN [pop EXCEPT !.sys = IdOf(@)] ELSE pop

SystemsWrite ==
  /\ \/ Go("systems.write", "systems.read") /\ WriteSystems /\ Renumbered /\ NoFault
     \/ Go("systems.write", "tags") /\ WriteSystemsFails /\ (IF mem' = mem THEN UNCHANGED pop ELSE Renumbered)
  /\ OtherSystems

SystemsRead ==
  /\ Go("systems.read", "tags")
  /\ (ReadSystems /\ NoFault) \/ (ReadSystemsPart /\ Fault)
  /\ Orphaned
  /\ UNCHANGED <<tab, calls>> /\ OtherSystems

PutTags ==
  /\ \/ Go("tags", "tags.write") /\ FromMap("tags") /\ NoFault
     \/ Absent("tags", "tags", "finish")
  /\ Other
TagsWrite == WriteStep("tags", "tags.write", "tags.read", "finish") /\ Other
TagsRead  == ReadStep("tags", "tags.read", "finish") /\ Other

(* Dirwatches.Start; the page is sent what is in memory.                   *)
Finish ==
  /\ Go("finish", "idle")
  /\ watching' = mem["dirwatch"]
  /\ doc' = NoDoc
  /\ UNCHANGED <<mem, tab, calls, options, optRows, ext, clean, faults, saves>>

-----------------------------------------------------------------------------
(* IngestCall, for a call of an unknown talkgroup: see Ingest for the      *)
(* rest.                                                                   *)

Saving == pc \notin {"idle", "page"}
Rest == UNCHANGED <<options, optRows, watching, pc, doc, user, others, saves>>

(* The talkgroup is not known; s is kept to the end.                       *)
Arrive(s, a) ==
  /\ pop.at = "idle" /\ others < MaxOthers
  /\ s.key \in AutoSystem
  /\ \A e \in mem["talkgroups"] : ~(e.sys = s.id /\ e.key = a.key)
  /\ pop' = [at |-> "group", sys |-> s.id, sysKey |-> s.key, key |-> a.key,
             group |-> a.group, tag |-> a.tag, orphan |-> FALSE, id |-> 0]
  /\ others' = others + 1
  /\ clean' = (clean /\ ~Saving)
  /\ UNCHANGED <<mem, tab, calls, options, optRows, watching, pc, doc, user, faults, saves>>

PopGo(here, next) == pop.at = here /\ pop' = [pop EXCEPT !.at = next]
Dropped == pop' = NoCall

(* ensureAutoPopulateGroups and ensureAutoPopulateTag.                     *)
Ensure(l, k, here, write, next) ==
  /\ IF \E e \in mem[l] : e.key = k
     THEN PopGo(here, next) /\ UNCHANGED mem
     ELSE /\ PopGo(here, write)
          /\ mem' = [mem EXCEPT ![l] = @ \union {[id |-> New, sys |-> 0, key |-> k, tag |-> 0]}]
  /\ UNCHANGED <<tab, calls>> /\ NoFault /\ Rest

EnsureWrite(l, write, read) ==
  /\ \/ PopGo(write, read) /\ WriteList(l) /\ NoFault
     \/ pop.at = write /\ Dropped /\ Fault /\ UNCHANGED <<tab, calls>>
  /\ UNCHANGED mem /\ Rest

EnsureRead(l, read, next) ==
  /\ \/ PopGo(read, next) /\ ReadList(l) /\ NoFault
     \/ pop.at = read /\ Dropped /\ ReadPart(l) /\ Fault
  /\ UNCHANGED <<tab, calls>> /\ Rest

PopulateGroups ==
  \/ Ensure("groups", pop.group, "group", "group.write", "tag")
  \/ EnsureWrite("groups", "group.write", "group.read")
  \/ EnsureRead("groups", "group.read", "tag")

PopulateTag ==
  \/ Ensure("tags", pop.tag, "tag", "tag.write", "talkgroup")
  \/ EnsureWrite("tags", "tag.write", "tag.read")
  \/ EnsureRead("tags", "tag.read", "talkgroup")

(* The tag is looked up again; the talkgroup is appended to the list of    *)
(* the system that was found first.                                        *)
TagId(k) == IF \E e \in mem["tags"] : e.key = k
            THEN (CHOOSE e \in mem["tags"] : e.key = k).id ELSE New

PopulateTalkgroup ==
  /\ PopGo("talkgroup", "write")
  /\ mem' = IF pop.orphan THEN mem
            ELSE [mem EXCEPT !["talkgroups"] =
                    @ \union {[id |-> New, sys |-> pop.sys, key |-> pop.key, tag |-> TagId(pop.tag)]}]
  /\ UNCHANGED <<tab, calls>> /\ NoFault /\ Rest

PopulateWrite ==
  /\ \/ PopGo("write", "read") /\ WriteSystems /\ NoFault
     \/ pop.at = "write" /\ Dropped /\ WriteSystemsFails
  /\ Rest

(* What was read is searched for the talkgroup; if it is not found the     *)
(* call is dropped.                                                        *)
PopulateRead ==
  /\ pop.at = "read"
  /\ \/ /\ ReadSystems /\ NoFault
        /\ \/ \E s \in tab["systems"].rows, r \in tab["talkgroups"].rows :
                /\ s.key = pop.sysKey /\ r.sys = s.id /\ r.key = pop.key
                /\ pop' = [pop EXCEPT !.at = "store", !.id = r.id]
           \/ /\ \A s \in tab["systems"].rows, r \in tab["talkgroups"].rows :
                   ~(s.key = pop.sysKey /\ r.sys = s.id /\ r.key = pop.key)
              /\ Dropped
     \/ ReadSystemsPart /\ Fault /\ Dropped
  /\ UNCHANGED <<tab, calls>> /\ Rest

(* A call of a talkgroup without row is refused by the database.           *)
StoreCall ==
  /\ pop.at = "store" /\ Dropped
  /\ calls' = calls \union ({pop.id} \intersect Ids(tab["talkgroups"].rows))
  /\ UNCHANGED <<mem, tab>> /\ NoFault /\ Rest

Ingestion ==
  \/ \E s \in mem["systems"], a \in Arrival : Arrive(s, a)
  \/ PopulateGroups \/ PopulateTag \/ PopulateTalkgroup \/ PopulateWrite \/ PopulateRead
  \/ StoreCall

-----------------------------------------------------------------------------
(* Users are added and removed by a request of their own.                  *)

UserAdd(k) ==
  /\ user = "idle" /\ others < MaxOthers
  /\ mem' = [mem EXCEPT !["access"] =
       IF \E e \in @ : e.key = k THEN @
       ELSE @ \union {[id |-> New, sys |-> 0, key |-> k, tag |-> 0]}]
  /\ user' = "write"
  /\ others' = others + 1
  /\ clean' = (clean /\ ~Saving)
  /\ UNCHANGED <<tab, calls, options, optRows, watching, pc, doc, pop, faults, saves>>

UserRemove(e) ==
  /\ user = "idle" /\ others < MaxOthers
  /\ mem' = [mem EXCEPT !["access"] = @ \ {e}]
  /\ user' = "write"
  /\ others' = others + 1
  /\ clean' = (clean /\ ~Saving)
  /\ UNCHANGED <<tab, calls, options, optRows, watching, pc, doc, pop, faults, saves>>

UserWrite ==
  /\ user = "write"
  /\ \/ user' = "read" /\ WriteList("access") /\ NoFault
     \/ user' = "idle" /\ Fault /\ UNCHANGED <<tab, calls>>
  /\ UNCHANGED <<mem, options, optRows, watching, pc, doc, pop, others, saves>>

UserRead ==
  /\ user = "read" /\ user' = "idle"
  /\ (ReadList("access") /\ NoFault) \/ (ReadPart("access") /\ Fault)
  /\ UNCHANGED <<tab, calls, options, optRows, watching, pc, doc, pop, others, saves>>

(* The process stops at any step, and starts again from its tables.        *)
Restart ==
  /\ faults < MaxFaults /\ faults' = faults + 1
  /\ clean' = TRUE
  /\ mem' = [l \in List |-> tab[l].rows]
  /\ options' = OptionsRead(optRows)
  /\ watching' = tab["dirwatch"].rows
  /\ pc' = "idle" /\ doc' = NoDoc /\ pop' = NoCall /\ user' = "idle"
  /\ UNCHANGED <<tab, calls, optRows, others, saves>>

Put ==
  \/ PutAccess \/ RefuseCode \/ AccessWrite \/ AccessRead
  \/ StopDirwatches \/ SaveApikeys \/ SaveDirwatches \/ SaveDownstreams
  \/ PutGroups \/ GroupsWrite \/ GroupsRead \/ SaveOptions
  \/ PutSystems \/ SystemsWrite \/ SystemsRead
  \/ PutTags \/ TagsWrite \/ TagsRead \/ Finish

Next ==
  \/ LoadPage \/ Put
  \/ Ingestion
  \/ (\E k \in Key : UserAdd(k)) \/ (\E e \in mem["access"] : UserRemove(e))
  \/ UserWrite \/ UserRead
  \/ Restart

Spec == Init /\ [][Next]_vars

-----------------------------------------------------------------------------
(* The tables hold rows of the right shape under ids that were given, each *)
(* once, and no row, nor a stored call, refers to one that is gone.        *)
TablesOK ==
  /\ tab \in [List -> [rows : SUBSET Row, last : Nat]]
  /\ \A l \in List : \A r, q \in tab[l].rows : r.id \in 1..tab[l].last /\ (r.id = q.id => r = q)
  /\ calls \subseteq Ids(tab["talkgroups"].rows)
  /\ tab = Cascade(tab)

(* The lists in memory hold elements of the right shape, and the tables    *)
(* are in order.                                                           *)
TypeOK ==
  /\ mem \in [List -> SUBSET Row]
  /\ TablesOK

Quiet == pc = "idle" /\ pop.at = "idle" /\ user = "idle"

(* Whatever was ingested, saved or failed before: once a page was saved    *)
(* whole, with nothing failing and nobody else changing the lists          *)
(* meanwhile, every list in memory is its table and the folders watched    *)
(* are those configured.  A talkgroup whose tag the save removed stays in  *)
(* memory: systems are read before tags are written.                       *)
Agreement ==
  Quiet /\ clean =>
    /\ watching = mem["dirwatch"]
    /\ \A l \in List \ {"talkgroups"} : mem[l] = tab[l].rows
    /\ {e \in mem["talkgroups"] : e.tag \in Ids(tab["tags"].rows)} = tab["talkgroups"].rows

Lacks(l, id) == l \in DOMAIN doc /\ id \notin Ids(doc[l])

(* The stored calls of a talkgroup go only with a save whose page does not *)
(* have the talkgroup.  A page without its tag does the same when it came  *)
(* without systems, or when somebody changed them in the meantime.         *)
CallsKept ==
  [][\A r \in tab["talkgroups"].rows :
       r.id \in calls \ calls' /\ faults = 0 =>
         /\ Saving
         /\ \/ Lacks("talkgroups", r.id)
            \/ Lacks("tags", r.tag) /\ ~(clean /\ "systems" \in DOMAIN doc)]_vars

(* e of a page and r of a table are the same element.                      *)
Same(e, r, l) ==
  /\ e.key = r.key /\ e.tag = r.tag
  /\ e.id = r.id \/ e.id \notin Ids(tab[l].rows)
  /\ e.sys = r.sys \/ e.sys \notin Ids(tab["systems"].rows)

(* When a save that nothing disturbed ends, the tables have what the page  *)
(* sent, and nothing else except what a new element kept from being        *)
(* removed: see Removed.  Units are left out, whose page does not have     *)
(* their ids: see PageUnits.  A restart would find the options that are in *)
(* force, except the two that OptionsWritten and OptionsRead lose.         *)
SaveExact ==
  pc = "finish" /\ clean =>
    /\ \A l \in DOMAIN doc \ {"options", "units"} :
         /\ \A e \in doc[l] : \E r \in tab[l].rows : Same(e, r, l)
         /\ \A r \in tab[l].rows :
              \/ \E e \in doc[l] : Same(e, r, l)
              \/ l # "talkgroups" /\ New \in Ids(doc[l])
              \/ l \in Nested /\ New \in Ids(doc["systems"]) /\ r.sys \notin Ids(doc["systems"])
    /\ "options" \in DOMAIN doc =>
         \A o \in Option \ {"audioConversion", "duplicateDetectionTimeFrame"} :
           OptionsRead(optRows)[o] = options[o]
=============================================================================
