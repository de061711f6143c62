-------------------------------- MODULE Ingest --------------------------------
(***************************************************************************)
(* The ingestion of calls (IngestCall and EmitCall of controller.go, with  *)
(* Systems.Read and Systems.Write of system.go, Talkgroups.ReadTx and      *)
(* WriteTx of talkgroup.go, CheckDuplicate and WriteCall of call.go).      *)
(*                                                                         *)
(* One goroutine takes calls from the Ingest channel.  It finds the call's *)
(* system and talkgroup in memory, creates what is missing when it         *)
(* populates automatically (writing all systems to the database and        *)
(* reading them back), rejects blacklisted calls and duplicates, stores    *)
(* the call and starts a goroutine that broadcasts it.  The process may    *)
(* stop at any step: the database stays, memory is read from it again.     *)
(*                                                                         *)
(* A row is identified by what it stands for and by the call whose         *)
(* ingestion inserted it; ids are not used again.  An object in memory has *)
(* the id of its row, New before it has one, or an id that was assigned by *)
(* a transaction that was rolled back.                                     *)
(***************************************************************************)
EXTENDS Integers, Sequences, FiniteSets

CONSTANTS
  Call,           \* the calls that may be submitted: records (below)
  System,         \* references of systems
  Ref,            \* references of talkgroups within a system
  AutoPopulate,   \* Options.AutoPopulate
  AutoSystem,     \* the configured systems that populate automatically
  Blacklist,      \* blacklisted <<system, talkgroup>> of configured systems
  TimeFrame,      \* Options.DuplicateDetectionTimeFrame
  QueueCap,       \* capacity of the Ingest channel (8192 in the code)
  Fault,          \* what may go wrong: "group", "write", "read", "client",
                  \* "duplicate", "call", "crash"
  MaxCrashes      \* bound on the number of crashes

NoRef == 0        \* a call whose talkgroup is only given by a label, an unknown one

ASSUME IngestAssumption ==
  /\ Call \subseteq [id : Nat \ {0}, sys : System, ref : Ref \union {NoRef}, time : Nat,
                     patches : SUBSET Ref]
  /\ \A c, d \in Call : c.id = d.id => c = d
  /\ NoRef \notin Ref
  /\ AutoPopulate \in BOOLEAN
  /\ AutoSystem \subseteq System
  /\ Blacklist \subseteq System \X Ref
  /\ TimeFrame \in Nat
  /\ QueueCap \in Nat \ {0}
  /\ Fault \subseteq {"group", "write", "read", "client", "duplicate", "call", "crash"}
  /\ MaxCrashes \in Nat

VARIABLES
  queue,       \* the Ingest channel
  pc,          \* the ingest goroutine (below); "down" when there is no process
  cur,         \* the call in IngestCall
  target,      \* the row of the talkgroup cur was resolved to
  systems,     \* Systems.List
  systemRows,  \* the systems table
  tgRows,      \* the talkgroups table
  stored,      \* the calls table: each call with the row of its talkgroup
  emitting,    \* calls whose broadcasting goroutine was started and has not run
  heard,       \* calls in the order listeners are sent them
  fate,        \* what became of each call, as logged
  crashes

memory == <<cur, target, systems>>
tables == <<systemRows, tgRows, stored>>
vars   == <<queue, pc, memory, tables, emitting, heard, fate, crashes>>

(* The ingest goroutine waits on the channel, or is about to write the     *)
(* systems, read them back, send listeners the configuration, look for a   *)
(* duplicate, or store the call; it is stuck when the configuration cannot *)
(* be sent.                                                                *)
PC == {"idle", "write", "read", "emit", "duplicate", "store", "stuck", "down"}

(* What IngestCall logs of a call it is done with; "unread" is its error   *)
(* when the systems cannot be read back.                                   *)
Results == {"stored", "blacklisted", "duplicate", "error", "unread", "dropped"}
Fates   == {"none", "queued", "panic", "lost"} \union Results

Admin == 0    \* the id of a row saved by the administrator
New   == -1   \* the id of an object that was never written

SystemRow    == [ref : System, by : Nat]
TalkgroupRow == [sys : SystemRow, ref : Ref, by : Nat]

NoCall == [id |-> 0]
NoRow  == [ref |-> NoRef]

(* What Systems.Read makes of the rows S and T.                            *)
Loaded(S, T) ==
  {[ref |-> s.ref, by |-> s.by,
    tgs |-> {[ref |-> t.ref, by |-> t.by] : t \in {x \in T : x.sys = s}}] : s \in S}

Init ==
  /\ queue = <<>>
  /\ pc = "idle"
  /\ cur = NoCall
  /\ target = NoRow
  /\ systemRows \in SUBSET [ref : System, by : {Admin}]
  /\ tgRows \in SUBSET [sys : systemRows, ref : Ref, by : {Admin}]
  /\ systems = Loaded(systemRows, tgRows)
  /\ stored = {}
  /\ emitting = <<>>
  /\ heard = <<>>
  /\ fate = [c \in Call |-> "none"]
  /\ crashes = 0

-----------------------------------------------------------------------------
(* The upload handler and the watched folders send a call to the channel.  *)
Submit(c) ==
  /\ pc # "down"
  /\ fate[c] = "none"
  /\ Len(queue) < QueueCap
  /\ queue' = Append(queue, c)
  /\ fate' = [fate EXCEPT ![c] = "queued"]
  /\ UNCHANGED <<pc, memory, tables, emitting, heard, crashes>>

(* IngestCall returns.                                                     *)
Return(c, result) ==
  /\ pc' = "idle"
  /\ cur' = NoCall
  /\ target' = NoRow
  /\ fate' = [fate EXCEPT ![c] = result]

(* The process ends: what is in memory is lost, c with that result.        *)
Die(c, result) ==
  /\ pc' = "down"
  /\ cur' = NoCall
  /\ target' = NoRow
  /\ queue' = <<>>
  /\ systems' = {}
  /\ emitting' = <<>>
  /\ fate' = [d \in Call |-> IF d = c THEN result
                             ELSE IF fate[d] = "queued" THEN "lost" ELSE fate[d]]
  /\ UNCHANGED <<tables, heard>>

-----------------------------------------------------------------------------
(* IngestCall up to the first access to the database.  Of several systems  *)
(* with the reference the first in the list is found; the list's order is  *)
(* unspecified.                                                            *)

Found(c) == {s \in systems : s.ref = c.sys}

SystemsFor(c) ==
  IF Found(c) = {} /\ AutoPopulate
  THEN {[ref |-> c.sys, by |-> New, tgs |-> {}]}
  ELSE Found(c)

HasTalkgroup(s, ref) == \E t \in s.tgs : t.ref = ref

(* A system that was created automatically has no blacklist, and does not  *)
(* itself populate.                                                        *)
Blacklisted(s, ref) == s.by = Admin /\ <<s.ref, ref>> \in Blacklist
Populates(s)        == AutoPopulate \/ (s.by = Admin /\ s.ref \in AutoSystem)

(* The call at the head of the channel is taken, and found to be for s; it *)
(* goes on unless its talkgroup is known and blacklisted.                  *)
Taken(c) ==
  /\ pc = "idle"
  /\ queue # <<>> /\ c = Head(queue)

Accepted(c, s) ==
  /\ Taken(c)
  /\ s \in SystemsFor(c)
  /\ ~(HasTalkgroup(s, c.ref) /\ Blacklisted(s, c.ref))

RejectBlacklisted(c) ==
  /\ Taken(c)
  /\ \E s \in SystemsFor(c) : HasTalkgroup(s, c.ref) /\ Blacklisted(s, c.ref)
  /\ queue' = Tail(queue)
  /\ Return(c, "blacklisted")
  /\ UNCHANGED <<systems, tables, emitting, heard, crashes>>

(* Mutant: patches are created whether they are blacklisted or not.        *)
MissingAll(c, s) == {r \in {c.ref} \union c.patches : r # NoRef /\ ~HasTalkgroup(s, r)}

(* Mutant: talkgroups are created without looking for them.                *)
MissingKnown(c, s) == {r \in {c.ref} \union c.patches : r # NoRef /\ ~Blacklisted(s, r)}

(* The talkgroups to create: the call's own, and those it is patched to    *)
(* that are not blacklisted.                                               *)
Missing(c, s) ==
  {r \in {c.ref} \union c.patches :
     /\ r # NoRef /\ ~HasTalkgroup(s, r)
     /\ r = c.ref \/ ~Blacklisted(s, r)}

Replaced(s, refs) ==
  (systems \ {s}) \union {[s EXCEPT !.tgs = @ \union {[ref |-> r, by |-> New] : r \in refs}]}

(* Something is created; or nothing is, but the talkgroup's label is       *)
(* repaired or a unit is new.                                              *)
Populate(c) ==
  /\ \E s \in SystemsFor(c) :
       /\ Accepted(c, s) /\ Populates(s)
       /\ systems' = Replaced(s, Missing(c, s))
  /\ queue' = Tail(queue)
  /\ pc' = "write"
  /\ cur' = c
  /\ UNCHANGED <<target, tables, emitting, heard, fate, crashes>>

(* A group or a tag cannot be written: IngestCall returns, and what it has *)
(* added to memory stays there.                                            *)
GroupFails(c) ==
  /\ "group" \in Fault
  /\ \E s \in SystemsFor(c) :
       /\ Accepted(c, s) /\ Populates(s)
       /\ \E refs \in {{}, Missing(c, s) \intersect {c.ref}} : systems' = Replaced(s, refs)
  /\ queue' = Tail(queue)
  /\ Return(c, "error")
  /\ UNCHANGED <<tables, emitting, heard, crashes>>

(* Nothing is missing and nothing is repaired.                             *)
Resolve(c) ==
  /\ \E s \in Found(c) :
       /\ Accepted(c, s) /\ (Populates(s) => Missing(c, s) = {})
       /\ \E t \in s.tgs :
            /\ t.ref = c.ref
            /\ target' = [sys |-> [ref |-> s.ref, by |-> s.by], ref |-> t.ref, by |-> t.by]
  /\ queue' = Tail(queue)
  /\ pc' = "duplicate"
  /\ cur' = c
  /\ UNCHANGED <<systems, tables, emitting, heard, fate, crashes>>

(* The call has no system, or no talkgroup, and none is created: logging   *)
(* that dereferences the one that is nil.                                  *)
Unmatched(c) ==
  /\ Taken(c)
  /\ \/ SystemsFor(c) = {}
     \/ \E s \in Found(c) : ~HasTalkgroup(s, c.ref) /\ (Populates(s) => Missing(c, s) = {})
  /\ Die(c, "panic")
  /\ UNCHANGED crashes

-----------------------------------------------------------------------------
(* Systems.Write, in one transaction: rows that no object in memory has    *)
(* the id of are removed, objects without a row are inserted.  No system   *)
(* is removed while one of them is new.  Calls go with their talkgroup.    *)

SystemRowOf(s) ==
  LET row == [ref |-> s.ref, by |-> s.by] IN
  IF row \in systemRows THEN row ELSE [row EXCEPT !.by = cur.id]

TalkgroupRowOf(s, t) ==
  LET row == [sys |-> [ref |-> s.ref, by |-> s.by], ref |-> t.ref, by |-> t.by] IN
  IF row \in tgRows THEN row ELSE [sys |-> SystemRowOf(s), ref |-> t.ref, by |-> cur.id]

RowsOf(s) == {TalkgroupRowOf(s, t) : t \in s.tgs}

KeptSystems ==
  IF \E s \in systems : s.by = New THEN systemRows
  ELSE systemRows \intersect {SystemRowOf(s) : s \in systems}

WrittenSystems == KeptSystems \union {SystemRowOf(s) : s \in systems}

WrittenTalkgroups ==
  {t \in tgRows :
     /\ t.sys \in KeptSystems
     /\ \A s \in systems : SystemRowOf(s) = t.sys => t \in RowsOf(s)}
  \union UNION {RowsOf(s) : s \in systems}

(* The objects in memory take the ids of the rows that were inserted.      *)
Assigned(rows) ==
  {[ref |-> s.ref,
    by  |-> IF SystemRowOf(s) \in rows THEN SystemRowOf(s).by ELSE s.by,
    tgs |-> {[ref |-> t.ref,
              by  |-> IF TalkgroupRowOf(s, t) \in rows THEN TalkgroupRowOf(s, t).by ELSE t.by]
               : t \in s.tgs}] : s \in systems}

WriteSystems ==
  /\ pc = "write"
  /\ pc' = "read"
  /\ systemRows' = WrittenSystems
  /\ tgRows' = WrittenTalkgroups
  /\ stored' = {k \in stored : k.row \in WrittenTalkgroups}
  /\ systems' = Assigned(WrittenSystems \union WrittenTalkgroups)
  /\ UNCHANGED <<queue, cur, target, emitting, heard, fate, crashes>>

(* The transaction fails, perhaps after some ids were assigned, and is     *)
(* rolled back; a talkgroup is inserted after its system.                  *)
WriteFails ==
  /\ "write" \in Fault
  /\ pc = "write"
  /\ \E S \in SUBSET (WrittenSystems \ systemRows) :
     \E T \in SUBSET {t \in WrittenTalkgroups \ tgRows : t.sys \in systemRows \union S} :
       systems' = Assigned(S \union T)
  /\ Return(cur, "error")
  /\ UNCHANGED <<queue, tables, emitting, heard, crashes>>

-----------------------------------------------------------------------------
(* Systems.Read empties the list first.                                    *)

(* The talkgroup is looked up again in what was read.                      *)
ReadBack ==
  /\ pc = "read" /\ cur.ref # NoRef
  /\ systems' = Loaded(systemRows, tgRows)
  /\ \E s \in {x \in systemRows : x.ref = cur.sys} :
       \/ \E t \in {x \in tgRows : x.sys = s /\ x.ref = cur.ref} :
            /\ target' = t
            /\ pc' = "emit"
            /\ UNCHANGED <<cur, fate>>
       \/ /\ ~\E t \in tgRows : t.sys = s /\ t.ref = cur.ref
          /\ Return(cur, "dropped")
  /\ UNCHANGED <<queue, tables, emitting, heard, crashes>>

(* The call still has no talkgroup, whose reference is wanted.             *)
ReadBackUnmatched ==
  /\ pc = "read" /\ cur.ref = NoRef
  /\ Die(cur, "panic")
  /\ UNCHANGED crashes

(* Mutant: the goroutine ends when it cannot read.                         *)
ReadFailsEnds ==
  /\ "read" \in Fault
  /\ pc = "read"
  /\ pc' = "ended"
  /\ fate' = [fate EXCEPT ![cur] = "unread"]
  /\ UNCHANGED <<queue, memory, tables, emitting, heard, crashes>>

(* The read fails: on the systems, or while it reads the talkgroups of     *)
(* one after the other.                                                    *)
ReadFails ==
  /\ "read" \in Fault
  /\ pc = "read"
  /\ \/ \E S \in SUBSET systemRows : systems' = Loaded(S, {})
     \/ \E T \in SUBSET tgRows :
          /\ Cardinality({s \in systemRows :
               LET all == {t \in tgRows : t.sys = s} IN
               T \intersect all # {} /\ ~(all \subseteq T)}) <= 1
          /\ systems' = Loaded(systemRows, T)
  /\ Return(cur, "unread")
  /\ UNCHANGED <<queue, tables, emitting, heard, crashes>>

(* Every listener is sent the configuration, one after the other.          *)
EmitConfig ==
  /\ pc = "emit"
  /\ pc' = "duplicate"
  /\ UNCHANGED <<queue, memory, tables, emitting, heard, fate, crashes>>

(* The channel of one of them is full and the goroutine that drained it    *)
(* has ended: pushing on it never returns.                                 *)
EmitConfigBlocks ==
  /\ "client" \in Fault
  /\ pc = "emit"
  /\ pc' = "stuck"
  /\ UNCHANGED <<queue, memory, tables, emitting, heard, fate, crashes>>

-----------------------------------------------------------------------------
(* CheckDuplicate, WriteCall, EmitCall.                                    *)

(* Mutant: only earlier calls are looked for.                              *)
NearBefore(c, d) == c.time - d.time \in 0..TimeFrame

Near(c, d) == c.time - d.time \in -TimeFrame..TimeFrame

Duplicate == \E k \in stored : k.row = target /\ Near(cur, k.call)

RejectDuplicate ==
  /\ pc = "duplicate" /\ Duplicate
  /\ Return(cur, "duplicate")
  /\ UNCHANGED <<queue, systems, tables, emitting, heard, crashes>>

CheckFails ==
  /\ "duplicate" \in Fault
  /\ pc = "duplicate"
  /\ Return(cur, "error")
  /\ UNCHANGED <<queue, systems, tables, emitting, heard, crashes>>

NoDuplicate ==
  /\ pc = "duplicate" /\ ~Duplicate
  /\ pc' = "store"
  /\ UNCHANGED <<queue, memory, tables, emitting, heard, fate, crashes>>

(* The row of the talkgroup does not exist, or the transaction fails.      *)
StoreFails ==
  /\ pc = "store"
  /\ target \notin tgRows \/ "call" \in Fault
  /\ Return(cur, "error")
  /\ UNCHANGED <<queue, systems, tables, emitting, heard, crashes>>

(* Mutant: the call is stored and not emitted.                             *)
StoreQuietly ==
  /\ pc = "store"
  /\ target \in tgRows
  /\ stored' = stored \union {[call |-> cur, row |-> target]}
  /\ Return(cur, "stored")
  /\ UNCHANGED <<queue, systems, systemRows, tgRows, emitting, heard, crashes>>

(* Mutant: no constraint ties the call to a talkgroup.                     *)
StoreUnchecked ==
  /\ pc = "store"
  /\ stored' = stored \union {[call |-> cur, row |-> target]}
  /\ emitting' = Append(emitting, cur)
  /\ Return(cur, "stored")
  /\ UNCHANGED <<queue, systems, systemRows, tgRows, heard, crashes>>

Store ==
  /\ pc = "store"
  /\ target \in tgRows
  /\ stored' = stored \union {[call |-> cur, row |-> target]}
  /\ emitting' = Append(emitting, cur)
  /\ Return(cur, "stored")
  /\ UNCHANGED <<queue, systems, systemRows, tgRows, heard, crashes>>

(* One of the goroutines that broadcast.                                   *)
Broadcast(i) ==
  /\ i \in DOMAIN emitting
  /\ heard' = Append(heard, emitting[i])
  /\ emitting' = SubSeq(emitting, 1, i - 1) \o SubSeq(emitting, i + 1, Len(emitting))
  /\ UNCHANGED <<queue, pc, memory, tables, fate, crashes>>

-----------------------------------------------------------------------------

Crash ==
  /\ "crash" \in Fault
  /\ pc # "down"
  /\ crashes < MaxCrashes
  /\ crashes' = crashes + 1
  /\ Die(cur, "lost")

(* Start reads the systems.                                                *)
Restart ==
  /\ pc = "down"
  /\ pc' = "idle"
  /\ systems' = Loaded(systemRows, tgRows)
  /\ UNCHANGED <<queue, cur, target, tables, emitting, heard, fate, crashes>>

IngestStep ==
  \/ \E c \in Call :
       \/ RejectBlacklisted(c) \/ Populate(c) \/ GroupFails(c) \/ Resolve(c) \/ Unmatched(c)
  \/ WriteSystems \/ WriteFails
  \/ ReadBack \/ ReadBackUnmatched \/ ReadFails
  \/ EmitConfig \/ EmitConfigBlocks
  \/ RejectDuplicate \/ CheckFails \/ NoDuplicate \/ Store \/ StoreFails

Next ==
  \/ \E c \in Call : Submit(c)
  \/ IngestStep
  \/ \E i \in DOMAIN emitting : Broadcast(i)
  \/ Crash \/ Restart

(* The goroutines that can run are scheduled; the process is restarted.    *)
Fairness ==
  /\ WF_vars(IngestStep)
  /\ WF_vars(Restart)
  /\ WF_vars(Broadcast(1))

Spec == Init /\ [][Next]_vars /\ Fairness

-----------------------------------------------------------------------------

Object ==
  [ref : System, by : Nat \union {New}, tgs : SUBSET [ref : Ref, by : Nat \union {New}]]

TypeOK ==
  /\ queue \in Seq(Call)
  /\ pc \in PC
  /\ cur \in Call \union {NoCall}
  /\ cur = NoCall <=> pc \in {"idle", "down"}
  /\ systems \subseteq Object
  /\ systemRows \subseteq SystemRow
  /\ tgRows \subseteq TalkgroupRow
  /\ stored \subseteq [call : Call, row : tgRows]
  /\ emitting \in Seq(Call)
  /\ heard \in Seq(Call)
  /\ fate \in [Call -> Fates]
  /\ crashes \in 0..MaxCrashes

(* No two stored calls of one talkgroup of one system are within the time  *)
(* frame of one another, through failed writes, crashes and restarts.      *)
NoDuplicates ==
  \A k, l \in stored :
    k.call.sys = l.call.sys /\ k.call.ref = l.call.ref /\ k # l => ~Near(k.call, l.call)

(* Populating never inserts a system or a talkgroup twice: a call finds    *)
(* what an earlier call created, whether or not its write succeeded.  It   *)
(* does not hold with AutoPopulate when a reading fails: Systems.Read has  *)
(* emptied the list (system.go:425), and the next call of a system that it *)
(* did not come to creates that system again.                              *)
RowsUnique ==
  /\ \A s, r \in systemRows : s.ref = r.ref => s = r
  /\ \A t, u \in tgRows : t.sys = u.sys /\ t.ref = u.ref => t = u

(* A blacklisted talkgroup that was not configured exists only because a   *)
(* call of its own came before it existed, never because of a patch.       *)
BlacklistedNotPatchedIn ==
  \A t \in tgRows :
    t.sys.by = Admin /\ <<t.sys.ref, t.ref>> \in Blacklist /\ t.by # Admin
      => \E c \in Call : c.sys = t.sys.ref /\ c.ref = t.ref /\ fate[c] # "none"

(* Calls that may end the process: those that populating cannot give a     *)
(* talkgroup, and those whose system was cut out of memory by a reading    *)
(* that failed.                                                            *)
Unmatchable(c) ==
  \/ c.ref = NoRef
  \/ /\ ~AutoPopulate
     /\ \/ c.sys \notin AutoSystem \/ ~\E s \in systemRows : s.ref = c.sys
        \/ \E d \in Call : fate[d] = "unread"

(* Every call that comes into the channel is stored or rejected, whatever  *)
(* the database fails at, unless the process ends first, which a call does *)
(* only if it is unmatchable (the log of controller.go:178 dereferences    *)
(* nil), or the goroutine is stuck for ever in EmitConfig (437) behind a   *)
(* listener that does not take its messages (client.go:320).               *)
EveryCallSettled ==
  \A c \in Call :
    fate[c] = "queued"
      ~> \/ fate[c] \in Results \union {"lost"}
         \/ fate[c] = "panic" /\ Unmatchable(c)
         \/ pc = "stuck"

(* A call that comes to be stored is broadcast, unless storing it fails or  *)
(* the process stops first: nothing later in the queue prevents it.        *)
StoredIsHeard ==
  \A c \in Call :
    pc = "store" /\ cur = c
      ~> pc = "down" \/ fate[c] = "error" \/ \E i \in DOMAIN heard : heard[i] = c
=============================================================================
