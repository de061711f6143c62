------------------------------ MODULE IngestProofs ------------------------------
(***************************************************************************)
(* Theorems about Ingest, for any calls, systems, blacklists, failures and *)
(* crashes.                                                                *)
(***************************************************************************)
EXTENDS Ingest, SequenceTheorems, TLAPS

-----------------------------------------------------------------------------
(* Types.                                                                  *)

LEMMA CallIds ==
  /\ \A c \in Call : c.id \in Nat \ {0} /\ c.sys \in System /\ c.ref \in Ref \union {NoRef}
                       /\ c.patches \subseteq Ref /\ c.time \in Nat
  /\ NoCall \notin Call
<1>1. \A c \in Call : c.id \in Nat \ {0} /\ c.sys \in System /\ c.ref \in Ref \union {NoRef}
                       /\ c.patches \subseteq Ref /\ c.time \in Nat
  BY IngestAssumption
<1>2. NoCall.id = 0
  BY DEF NoCall
<1> QED BY <1>1, <1>2

LEMMA LoadedType ==
  ASSUME NEW S \in SUBSET SystemRow, NEW T \in SUBSET TalkgroupRow
  PROVE  Loaded(S, T) \subseteq Object
BY DEF Loaded, Object, SystemRow, TalkgroupRow

(* The rows Systems.Write makes of an object: its own if it has one, and   *)
(* otherwise one inserted by the call that populates.                      *)
OwnRow(s)       == [ref |-> s.ref, by |-> s.by]
OwnTgRow(s, t)  == [sys |-> OwnRow(s), ref |-> t.ref, by |-> t.by]

LEMMA SystemRowOfObject ==
  ASSUME TypeOK, cur \in Call, NEW s \in Object
  PROVE  /\ SystemRowOf(s) \in SystemRow
         /\ SystemRowOf(s).ref = s.ref
         /\ OwnRow(s) \in systemRows => SystemRowOf(s) = OwnRow(s) /\ SystemRowOf(s).by = s.by
         /\ OwnRow(s) \notin systemRows => SystemRowOf(s).by = cur.id
<1>1. cur.id \in Nat
  BY CallIds
<1>2. CASE OwnRow(s) \in systemRows
  BY <1>2 DEF TypeOK, SystemRowOf, OwnRow, SystemRow
<1>3. CASE OwnRow(s) \notin systemRows
  BY <1>1, <1>3 DEF SystemRowOf, OwnRow, SystemRow, Object
<1> QED BY <1>2, <1>3

LEMMA TalkgroupRowOfObject ==
  ASSUME TypeOK, cur \in Call, NEW s \in Object, NEW t \in s.tgs
  PROVE  /\ TalkgroupRowOf(s, t) \in TalkgroupRow
         /\ TalkgroupRowOf(s, t).ref = t.ref
         /\ OwnTgRow(s, t) \in tgRows => TalkgroupRowOf(s, t) = OwnTgRow(s, t)
         /\ OwnTgRow(s, t) \notin tgRows =>
              TalkgroupRowOf(s, t).sys = SystemRowOf(s) /\ TalkgroupRowOf(s, t).by = cur.id
<1>1. cur.id \in Nat /\ SystemRowOf(s) \in SystemRow
  BY CallIds, SystemRowOfObject
<1>2. t \in [ref : Ref, by : Nat \union {New}]
  BY DEF Object
<1>3. CASE OwnTgRow(s, t) \in tgRows
  BY <1>3 DEF TypeOK, TalkgroupRowOf, OwnRow, OwnTgRow
<1>4. CASE OwnTgRow(s, t) \notin tgRows
  BY <1>1, <1>2, <1>4 DEF TalkgroupRowOf, OwnRow, OwnTgRow, TalkgroupRow
<1> QED BY <1>3, <1>4

LEMMA WrittenType ==
  ASSUME TypeOK, cur \in Call
  PROVE  WrittenSystems \subseteq SystemRow /\ WrittenTalkgroups \subseteq TalkgroupRow
<1>1. WrittenSystems \subseteq SystemRow
  BY SystemRowOfObject DEF TypeOK, WrittenSystems, KeptSystems
<1>2. WrittenTalkgroups \subseteq TalkgroupRow
  BY TalkgroupRowOfObject DEF TypeOK, WrittenTalkgroups, RowsOf
<1> QED BY <1>1, <1>2

(* What Assigned makes of an object: the same reference and talkgroups, and *)
(* the id of a row that was inserted, or the one it had.                   *)
LEMMA AssignedObject ==
  ASSUME TypeOK, cur \in Call, NEW rows, NEW o \in Assigned(rows)
  PROVE  \E s \in systems :
           /\ o.ref = s.ref
           /\ o.by = IF SystemRowOf(s) \in rows THEN SystemRowOf(s).by ELSE s.by
           /\ o.tgs = {[ref |-> t.ref,
                        by |-> IF TalkgroupRowOf(s, t) \in rows THEN TalkgroupRowOf(s, t).by
                               ELSE t.by] : t \in s.tgs}
BY DEF Assigned

LEMMA AssignedType ==
  ASSUME TypeOK, cur \in Call, NEW rows
  PROVE  Assigned(rows) \subseteq Object
<1> SUFFICES ASSUME NEW s \in systems
             PROVE  [ref |-> s.ref,
                     by  |-> IF SystemRowOf(s) \in rows THEN SystemRowOf(s).by ELSE s.by,
                     tgs |-> {[ref |-> t.ref,
                               by  |-> IF TalkgroupRowOf(s, t) \in rows
                                       THEN TalkgroupRowOf(s, t).by ELSE t.by] : t \in s.tgs}]
                      \in Object
  BY DEF Assigned
<1>1. s \in Object
  BY DEF TypeOK
<1>2. (IF SystemRowOf(s) \in rows THEN SystemRowOf(s).by ELSE s.by) \in Nat \union {New}
  BY <1>1, SystemRowOfObject DEF SystemRow, Object
<1>3. ASSUME NEW t \in s.tgs
      PROVE  [ref |-> t.ref,
              by  |-> IF TalkgroupRowOf(s, t) \in rows THEN TalkgroupRowOf(s, t).by ELSE t.by]
               \in [ref : Ref, by : Nat \union {New}]
  <2>1. TalkgroupRowOf(s, t).by \in Nat
    BY <1>1, TalkgroupRowOfObject DEF TalkgroupRow
  <2>2. t.ref \in Ref /\ t.by \in Nat \union {New}
    BY <1>1 DEF Object
  <2> QED BY <2>1, <2>2
<1> QED BY <1>1, <1>2, <1>3 DEF Object

LEMMA TypeInit == Init => TypeOK
<1> SUFFICES ASSUME Init PROVE TypeOK
  OBVIOUS
<1>1. systemRows \subseteq SystemRow /\ tgRows \subseteq TalkgroupRow
  BY DEF Init, SystemRow, TalkgroupRow, Admin
<1>2. systems \subseteq Object
  BY <1>1, LoadedType DEF Init
<1>3. crashes \in 0..MaxCrashes /\ queue \in Seq(Call) /\ emitting \in Seq(Call)
        /\ heard \in Seq(Call) /\ stored = {}
  BY IngestAssumption DEF Init
<1> QED BY <1>1, <1>2, <1>3 DEF Init, TypeOK, PC, Fates, Results

(* IngestCall returns c with a result, or the process ends.                *)
LEMMA ReturnType ==
  ASSUME TypeOK, NEW c \in Call, NEW r \in Fates, Return(c, r)
  PROVE  /\ pc' \in PC /\ cur' \in Call \union {NoCall}
         /\ cur' = NoCall <=> pc' \in {"idle", "down"}
         /\ fate' \in [Call -> Fates]
BY DEF TypeOK, Return, PC

LEMMA DieType ==
  ASSUME TypeOK, NEW c, NEW r \in Fates, Die(c, r), crashes' \in 0..MaxCrashes
  PROVE  TypeOK'
<1>1. fate' \in [Call -> Fates]
  BY DEF TypeOK, Die, Fates, Results
<1>2. <<>> \in Seq(Call)
  OBVIOUS
<1> QED BY <1>1, <1>2 DEF TypeOK, Die, PC, tables

LEMMA ReplacedType ==
  ASSUME TypeOK, NEW c \in Call, NEW s \in SystemsFor(c), NEW refs \in SUBSET Ref
  PROVE  Replaced(s, refs) \subseteq Object /\ s \in Object
<1>1. s \in Object
  BY CallIds DEF TypeOK, SystemsFor, Found, Object
<1>2. [s EXCEPT !.tgs = @ \union {[ref |-> r, by |-> New] : r \in refs}] \in Object
  BY <1>1 DEF Object
<1> QED BY <1>1, <1>2 DEF TypeOK, Replaced

LEMMA MissingType ==
  ASSUME NEW c \in Call, NEW s
  PROVE  Missing(c, s) \subseteq Ref
BY CallIds DEF Missing

LEMMA QueueType ==
  ASSUME TypeOK, NEW c \in Call, Taken(c)
  PROVE  Tail(queue) \in Seq(Call)
BY HeadTailProperties DEF TypeOK, Taken

LEMMA TypeStep ==
  ASSUME TypeOK, [Next]_vars
  PROVE  TypeOK'
<1> USE DEF memory, tables
<1>1. ASSUME NEW c \in Call, Submit(c)
      PROVE  TypeOK'
  <2>1. Append(queue, c) \in Seq(Call)
    BY DEF TypeOK
  <2> QED BY <1>1, <2>1 DEF Submit, TypeOK, Fates, Results
<1>2. ASSUME NEW c \in Call, RejectBlacklisted(c)
      PROVE  TypeOK'
  BY <1>2, QueueType, ReturnType DEF RejectBlacklisted, TypeOK, Fates, Results
<1>3. ASSUME NEW c \in Call, Populate(c)
      PROVE  TypeOK'
  <2>1. Tail(queue) \in Seq(Call)
    BY <1>3, QueueType DEF Populate, Accepted
  <2>2. systems' \subseteq Object
    BY <1>3, ReplacedType, MissingType DEF Populate, Accepted
  <2> QED BY <1>3, <2>1, <2>2, CallIds DEF Populate, TypeOK, PC
<1>4. ASSUME NEW c \in Call, GroupFails(c)
      PROVE  TypeOK'
  <2>1. Tail(queue) \in Seq(Call)
    BY <1>4, QueueType DEF GroupFails, Accepted
  <2>2. systems' \subseteq Object
    BY <1>4, ReplacedType, MissingType DEF GroupFails, Accepted
  <2> QED BY <1>4, <2>1, <2>2, ReturnType DEF GroupFails, TypeOK, Fates, Results
<1>5. ASSUME NEW c \in Call, Resolve(c)
      PROVE  TypeOK'
  <2>1. Tail(queue) \in Seq(Call)
    BY <1>5, QueueType DEF Resolve, Accepted
  <2> QED BY <1>5, <2>1, CallIds DEF Resolve, TypeOK, PC
<1>6. ASSUME NEW c \in Call, Unmatched(c)
      PROVE  TypeOK'
  BY <1>6, DieType DEF Unmatched, Fates, Results, TypeOK
<1>7. CASE WriteSystems
  <2>1. cur \in Call
    BY <1>7 DEF WriteSystems, TypeOK
  <2>2. systems' \subseteq Object
    BY <1>7, <2>1, AssignedType DEF WriteSystems
  <2>3. stored' \subseteq [call : Call, row : tgRows']
    BY <1>7 DEF WriteSystems, TypeOK
  <2> QED BY <1>7, <2>1, <2>2, <2>3, WrittenType DEF WriteSystems, TypeOK, PC
<1>8. CASE WriteFails
  <2>1. cur \in Call
    BY <1>8 DEF WriteFails, TypeOK
  <2>2. systems' \subseteq Object
    BY <1>8, <2>1, AssignedType DEF WriteFails
  <2> QED BY <1>8, <2>1, <2>2, ReturnType DEF WriteFails, TypeOK, Fates, Results
<1>9. CASE ReadBack
  <2>1. cur \in Call
    BY <1>9 DEF ReadBack, TypeOK
  <2>2. systems' \subseteq Object
    BY <1>9, LoadedType DEF ReadBack, TypeOK
  <2>3. CASE Return(cur, "dropped")
    BY <1>9, <2>1, <2>2, <2>3, ReturnType DEF ReadBack, TypeOK, Fates, Results
  <2>4. CASE pc' = "emit" /\ UNCHANGED <<cur, fate>>
    BY <1>9, <2>1, <2>2, <2>4, CallIds DEF ReadBack, TypeOK, PC
  <2> QED BY <1>9, <2>3, <2>4 DEF ReadBack
<1>10. CASE ReadBackUnmatched
  BY <1>10, DieType DEF ReadBackUnmatched, Fates, Results, TypeOK
<1>11. CASE ReadFails
  <2>1. cur \in Call
    BY <1>11 DEF ReadFails, TypeOK
  <2>2. systems' \subseteq Object
    <3>1. CASE \E S \in SUBSET systemRows : systems' = Loaded(S, {})
      BY <3>1, LoadedType DEF TypeOK
    <3>2. CASE \E T \in SUBSET tgRows : systems' = Loaded(systemRows, T)
      BY <3>2, LoadedType DEF TypeOK
    <3> QED BY <1>11, <3>1, <3>2 DEF ReadFails
  <2> QED BY <1>11, <2>1, <2>2, ReturnType DEF ReadFails, TypeOK, Fates, Results
<1>12. CASE RejectDuplicate \/ CheckFails \/ StoreFails
  <2>1. cur \in Call
    BY <1>12 DEF RejectDuplicate, CheckFails, StoreFails, TypeOK
  <2> QED BY <1>12, <2>1, ReturnType DEF RejectDuplicate, CheckFails, StoreFails, TypeOK, Fates, Results
<1>13. CASE EmitConfig \/ EmitConfigBlocks \/ NoDuplicate
  BY <1>13 DEF EmitConfig, EmitConfigBlocks, NoDuplicate, TypeOK, PC
<1>14. CASE Store
  <2>1. cur \in Call
    BY <1>14 DEF Store, TypeOK
  <2>2. Append(emitting, cur) \in Seq(Call)
    BY <2>1 DEF TypeOK
  <2> QED BY <1>14, <2>1, <2>2, ReturnType DEF Store, TypeOK, Fates, Results
<1>15. ASSUME NEW i \in DOMAIN emitting, Broadcast(i)
       PROVE  TypeOK'
  <2>1. i \in 1..Len(emitting) /\ Len(emitting) \in Nat /\ \A j \in 1..Len(emitting) : emitting[j] \in Call
    BY LenProperties, ElementOfSeq DEF TypeOK
  <2>2. SubSeq(emitting, 1, i - 1) \in Seq(Call)
    BY <2>1, SubSeqProperties
  <2>3. SubSeq(emitting, i + 1, Len(emitting)) \in Seq(Call)
    BY <2>1, SubSeqProperties
  <2>4. emitting' \in Seq(Call)
    BY <1>15, <2>2, <2>3, ConcatProperties DEF Broadcast
  <2>5. heard' \in Seq(Call)
    BY <1>15, <2>1 DEF Broadcast, TypeOK
  <2> QED BY <1>15, <2>4, <2>5 DEF Broadcast, TypeOK
<1>16. CASE Crash
  BY <1>16, DieType, IngestAssumption DEF Crash, Fates, Results, TypeOK
<1>17. CASE Restart
  BY <1>17, LoadedType DEF Restart, TypeOK, PC
<1>18. CASE UNCHANGED vars
  BY <1>18 DEF vars, TypeOK
<1> QED BY <1>1, <1>2, <1>3, <1>4, <1>5, <1>6, <1>7, <1>8, <1>9, <1>10, <1>11, <1>12,
           <1>13, <1>14, <1>15, <1>16, <1>17, <1>18 DEF Next, IngestStep

(* Every variable keeps its type, and a stored call always has the row of  *)
(* its talkgroup: the write that removes a row removes its calls.          *)
THEOREM TypeCorrect == Spec => []TypeOK
BY TypeInit, TypeStep, PTL DEF Spec

-----------------------------------------------------------------------------
(* What the tables and memory keep to, whatever fails.                     *)

ForeignKeys == \A t \in tgRows : t.sys \in systemRows

OneTalkgroupRow == \A t, u \in tgRows : t.sys = u.sys /\ t.ref = u.ref => t = u

(* Two objects for one system are those of two rows.                       *)
OneSystem ==
  \A s, r \in systems :
    s.ref = r.ref /\ s # r =>
      OwnRow(s) \in systemRows /\ OwnRow(r) \in systemRows /\ s.by # r.by

OneTalkgroup == \A s \in systems : \A t, u \in s.tgs : t.ref = u.ref => t = u

Sound == ForeignKeys /\ OneTalkgroupRow /\ OneSystem /\ OneTalkgroup

LoadedOf(T, s) ==
  [ref |-> s.ref, by |-> s.by,
   tgs |-> {[ref |-> t.ref, by |-> t.by] : t \in {x \in T : x.sys = s}}]

LEMMA LoadedObjects ==
  ASSUME NEW S, NEW T, NEW o \in Loaded(S, T)
  PROVE  \E s \in S : o = LoadedOf(T, s)
BY DEF Loaded, LoadedOf

LEMMA SoundInit == Init => Sound
<1> SUFFICES ASSUME Init PROVE Sound
  OBVIOUS
<1>1. /\ systemRows \subseteq [ref : System, by : {Admin}]
      /\ tgRows \subseteq [sys : systemRows, ref : Ref, by : {Admin}]
  BY DEF Init
<1>2. ForeignKeys /\ OneTalkgroupRow
  BY <1>1 DEF ForeignKeys, OneTalkgroupRow
<1>3. OneSystem
  <2> SUFFICES ASSUME NEW o \in systems, NEW p \in systems, o.ref = p.ref PROVE o = p
    BY DEF OneSystem, OwnRow
  <2>1. PICK s \in systemRows : o = LoadedOf(tgRows, s)
    BY LoadedObjects DEF Init
  <2>2. PICK r \in systemRows : p = LoadedOf(tgRows, r)
    BY LoadedObjects DEF Init
  <2>3. s.ref = r.ref
    BY <2>1, <2>2 DEF LoadedOf
  <2>4. s = r
    BY <1>1, <2>3
  <2> QED BY <2>1, <2>2, <2>4
<1>4. OneTalkgroup
  BY <1>1 DEF Init, OneTalkgroup, Loaded
<1> QED BY <1>2, <1>3, <1>4 DEF Sound

(* Reading, in whole or in part.                                           *)
LEMMA LoadedSound ==
  ASSUME TypeOK, Sound, UNCHANGED <<systemRows, tgRows>>,
         NEW S \in SUBSET systemRows, NEW T \in SUBSET tgRows, systems' = Loaded(S, T)
  PROVE  Sound'
<1>1. ForeignKeys' /\ OneTalkgroupRow'
  BY DEF Sound, ForeignKeys, OneTalkgroupRow
<1>2. \A s \in systemRows : s = OwnRow(s)
  BY DEF TypeOK, SystemRow, OwnRow
<1>3. \A s : OwnRow(LoadedOf(T, s)) = OwnRow(s)
  BY DEF OwnRow, LoadedOf
<1>4. OneSystem'
  <2> SUFFICES ASSUME NEW o \in systems', NEW p \in systems', o.ref = p.ref, o # p
               PROVE  OwnRow(o) \in systemRows /\ OwnRow(p) \in systemRows /\ o.by # p.by
    BY DEF OneSystem, OwnRow
  <2>1. PICK s \in S : o = LoadedOf(T, s)
    BY LoadedObjects
  <2>2. PICK r \in S : p = LoadedOf(T, r)
    BY LoadedObjects
  <2>3. OwnRow(o) = s /\ OwnRow(p) = r /\ s # r
    BY <1>2, <1>3, <2>1, <2>2
  <2> QED BY <2>3 DEF OwnRow
<1>5. OneTalkgroup'
  <2> SUFFICES ASSUME NEW o \in systems', NEW p \in o.tgs, NEW q \in o.tgs, p.ref = q.ref
               PROVE  p = q
    BY DEF OneTalkgroup
  <2>1. PICK s \in S : o = LoadedOf(T, s)
    BY LoadedObjects
  <2> QED BY <2>1 DEF Sound, OneTalkgroupRow, LoadedOf
<1> QED BY <1>1, <1>4, <1>5 DEF Sound

(* Creating the system of a call, or talkgroups it does not have.          *)
LEMMA ReplacedSound ==
  ASSUME TypeOK, Sound, UNCHANGED <<systemRows, tgRows>>,
         NEW c \in Call, NEW s \in SystemsFor(c), NEW refs \in SUBSET Ref,
         \A r \in refs : ~HasTalkgroup(s, r),
         systems' = Replaced(s, refs)
  PROVE  Sound'
<1> DEFINE n == [s EXCEPT !.tgs = @ \union {[ref |-> r, by |-> New] : r \in refs}]
<1>1. ForeignKeys' /\ OneTalkgroupRow'
  BY DEF Sound, ForeignKeys, OneTalkgroupRow
<1>2. s \in Object /\ n.ref = s.ref /\ n.by = s.by
        /\ n.tgs = s.tgs \union {[ref |-> r, by |-> New] : r \in refs}
  BY ReplacedType DEF Object
<1>3. systems' = (systems \ {s}) \union {n}
  BY DEF Replaced
<1>4. s \in systems \/ (s.tgs = {} /\ \A r \in systems : r.ref # s.ref)
  BY DEF SystemsFor, Found
<1> HIDE DEF n
<1>5. OneSystem'
  BY <1>2, <1>3, <1>4 DEF Sound, OneSystem, OwnRow
<1>6. \A t, u \in n.tgs : t.ref = u.ref => t = u
  BY <1>2, <1>4 DEF Sound, OneTalkgroup, HasTalkgroup
<1>7. OneTalkgroup'
  BY <1>3, <1>6 DEF Sound, OneTalkgroup
<1> QED BY <1>1, <1>5, <1>7 DEF Sound

(* No two objects are written to one row.                                  *)
LEMMA RowsOfDistinct ==
  ASSUME TypeOK, Sound, cur \in Call, NEW s \in systems, NEW r \in systems,
         SystemRowOf(s) = SystemRowOf(r)
  PROVE  s = r
<1>1. s \in Object /\ r \in Object
  BY DEF TypeOK
<1>2. s.ref = r.ref
  BY <1>1, SystemRowOfObject
<1>3. ASSUME s # r PROVE FALSE
  <2>1. OwnRow(s) \in systemRows /\ OwnRow(r) \in systemRows /\ s.by # r.by
    BY <1>2, <1>3 DEF Sound, OneSystem
  <2>2. SystemRowOf(s) = OwnRow(s) /\ SystemRowOf(r) = OwnRow(r)
    BY <1>1, <2>1, SystemRowOfObject
  <2>3. OwnRow(s).by = s.by /\ OwnRow(r).by = r.by
    BY DEF OwnRow
  <2> QED BY <2>1, <2>2, <2>3
<1> QED BY <1>3

(* The row of a talkgroup is under that of its system.                     *)
LEMMA TalkgroupRowSystem ==
  ASSUME TypeOK, Sound, cur \in Call, NEW s \in systems, NEW t \in s.tgs
  PROVE  TalkgroupRowOf(s, t).sys = SystemRowOf(s)
<1>1. s \in Object
  BY DEF TypeOK
<1>2. CASE OwnTgRow(s, t) \in tgRows
  <2>1. OwnTgRow(s, t).sys = OwnRow(s)
    BY DEF OwnTgRow
  <2>2. OwnRow(s) \in systemRows
    BY <1>2, <2>1 DEF Sound, ForeignKeys
  <2> QED BY <1>1, <1>2, <2>1, <2>2, SystemRowOfObject, TalkgroupRowOfObject
<1>3. CASE OwnTgRow(s, t) \notin tgRows
  BY <1>1, <1>3, TalkgroupRowOfObject
<1> QED BY <1>2, <1>3

AssignedOf(rows, s) ==
  [ref |-> s.ref,
   by  |-> IF SystemRowOf(s) \in rows THEN SystemRowOf(s).by ELSE s.by,
   tgs |-> {[ref |-> t.ref,
             by  |-> IF TalkgroupRowOf(s, t) \in rows THEN TalkgroupRowOf(s, t).by ELSE t.by]
              : t \in s.tgs}]

(* Assigning ids, of all the rows that were inserted or of some of them.   *)
LEMMA AssignedSound ==
  ASSUME TypeOK, Sound, cur \in Call, NEW rows, systems' = Assigned(rows),
         \A s \in systems : SystemRowOf(s) \in systemRows => SystemRowOf(s) \in systemRows'
  PROVE  OneSystem' /\ OneTalkgroup'
<1>1. ASSUME NEW o \in systems'
      PROVE  \E s \in systems : o = AssignedOf(rows, s)
  BY DEF Assigned, AssignedOf
<1>2. ASSUME NEW s \in systems, OwnRow(s) \in systemRows
      PROVE  AssignedOf(rows, s).by = s.by /\ OwnRow(AssignedOf(rows, s)) \in systemRows'
  <2>1. SystemRowOf(s) = OwnRow(s)
    BY <1>2, SystemRowOfObject DEF TypeOK
  <2>2. OwnRow(s).by = s.by
    BY DEF OwnRow
  <2>3. AssignedOf(rows, s).by = s.by /\ AssignedOf(rows, s).ref = s.ref
    BY <2>1, <2>2 DEF AssignedOf
  <2> QED BY <1>2, <2>1, <2>3 DEF OwnRow
<1>3. OneSystem'
  <2> SUFFICES ASSUME NEW o \in systems', NEW p \in systems', o.ref = p.ref, o # p
               PROVE  OwnRow(o) \in systemRows' /\ OwnRow(p) \in systemRows' /\ o.by # p.by
    BY DEF OneSystem, OwnRow
  <2>1. PICK s \in systems : o = AssignedOf(rows, s)
    BY <1>1
  <2>2. PICK r \in systems : p = AssignedOf(rows, r)
    BY <1>1
  <2>3. s # r /\ s.ref = r.ref
    BY <2>1, <2>2 DEF AssignedOf
  <2>4. OwnRow(s) \in systemRows /\ OwnRow(r) \in systemRows /\ s.by # r.by
    BY <2>3 DEF Sound, OneSystem
  <2> QED BY <1>2, <2>1, <2>2, <2>4
<1>4. OneTalkgroup'
  <2> SUFFICES ASSUME NEW o \in systems', NEW p \in o.tgs, NEW q \in o.tgs, p.ref = q.ref
               PROVE  p = q
    BY DEF OneTalkgroup
  <2>1. PICK s \in systems : o = AssignedOf(rows, s)
    BY <1>1
  <2>2. PICK t \in s.tgs :
          p = [ref |-> t.ref,
               by |-> IF TalkgroupRowOf(s, t) \in rows THEN TalkgroupRowOf(s, t).by ELSE t.by]
    BY <2>1 DEF AssignedOf
  <2>3. PICK u \in s.tgs :
          q = [ref |-> u.ref,
               by |-> IF TalkgroupRowOf(s, u) \in rows THEN TalkgroupRowOf(s, u).by ELSE u.by]
    BY <2>1 DEF AssignedOf
  <2>4. t = u
    BY <2>2, <2>3 DEF Sound, OneTalkgroup
  <2> QED BY <2>2, <2>3, <2>4
<1> QED BY <1>3, <1>4

LEMMA WrittenSound ==
  ASSUME TypeOK, Sound, WriteSystems
  PROVE  Sound'
<1>1. cur \in Call
  BY DEF WriteSystems, TypeOK
<1>2. \A s \in systems : SystemRowOf(s) \in systemRows'
  BY DEF WriteSystems, WrittenSystems
<1>3. OneSystem' /\ OneTalkgroup'
  BY <1>1, <1>2, AssignedSound DEF WriteSystems
<1>4. ASSUME NEW t \in tgRows'
      PROVE  \/ t \in tgRows /\ t.sys \in KeptSystems
                  /\ \A s \in systems : SystemRowOf(s) = t.sys => t \in RowsOf(s)
             \/ \E s \in systems : t \in RowsOf(s)
  BY DEF WriteSystems, WrittenTalkgroups
<1>5. ASSUME NEW s \in systems, NEW t \in RowsOf(s)
      PROVE  t.sys = SystemRowOf(s) /\ \E x \in s.tgs : t = TalkgroupRowOf(s, x) /\ t.ref = x.ref
  BY <1>1, <1>5, TalkgroupRowSystem, TalkgroupRowOfObject DEF RowsOf, TypeOK
<1>6. ForeignKeys'
  <2> SUFFICES ASSUME NEW t \in tgRows' PROVE t.sys \in systemRows'
    BY DEF ForeignKeys
  <2> QED BY <1>2, <1>4, <1>5 DEF WriteSystems, WrittenSystems
<1>7. OneTalkgroupRow'
  <2> SUFFICES ASSUME NEW t \in tgRows', NEW u \in tgRows', t.sys = u.sys, t.ref = u.ref
               PROVE  t = u
    BY DEF OneTalkgroupRow
  <2>1. ASSUME NEW s \in systems, t \in RowsOf(s), u \in RowsOf(s)
        PROVE  t = u
    BY <1>5, <2>1 DEF Sound, OneTalkgroup
  <2>2. ASSUME NEW s \in systems, t \in RowsOf(s) PROVE u \in RowsOf(s)
    BY <1>1, <1>4, <1>5, <2>2, RowsOfDistinct
  <2>3. ASSUME NEW s \in systems, u \in RowsOf(s) PROVE t \in RowsOf(s)
    BY <1>1, <1>4, <1>5, <2>3, RowsOfDistinct
  <2>4. ASSUME t \in tgRows, u \in tgRows PROVE t = u
    BY <2>4 DEF Sound, OneTalkgroupRow
  <2> QED BY <1>4, <2>1, <2>2, <2>3, <2>4
<1> QED BY <1>3, <1>6, <1>7 DEF Sound

LEMMA SoundSame ==
  ASSUME Sound, UNCHANGED <<systems, systemRows, tgRows>>
  PROVE  Sound'
BY DEF Sound, ForeignKeys, OneTalkgroupRow, OneSystem, OneTalkgroup, OwnRow

LEMMA SoundDie ==
  ASSUME Sound, NEW c, NEW r, Die(c, r)
  PROVE  Sound'
BY DEF Sound, ForeignKeys, OneTalkgroupRow, OneSystem, OneTalkgroup, Die, tables

LEMMA SoundStep ==
  ASSUME TypeOK, Sound, [Next]_vars
  PROVE  Sound'
<1> USE DEF memory, tables
<1>1. ASSUME NEW c \in Call, Submit(c) \/ RejectBlacklisted(c) \/ Resolve(c)
      PROVE  Sound'
  BY <1>1, SoundSame DEF Submit, RejectBlacklisted, Resolve
<1>2. ASSUME NEW c \in Call, Populate(c)
      PROVE  Sound'
  <2>1. PICK s \in SystemsFor(c) : systems' = Replaced(s, Missing(c, s))
    BY <1>2 DEF Populate
  <2>2. \A r \in Missing(c, s) : ~HasTalkgroup(s, r)
    BY DEF Missing
  <2> QED BY <1>2, <2>1, <2>2, MissingType, ReplacedSound DEF Populate
<1>3. ASSUME NEW c \in Call, GroupFails(c)
      PROVE  Sound'
  <2>1. PICK s \in SystemsFor(c) : \E refs \in SUBSET Missing(c, s) : systems' = Replaced(s, refs)
    BY <1>3 DEF GroupFails
  <2>2. \A r \in Missing(c, s) : ~HasTalkgroup(s, r)
    BY DEF Missing
  <2> QED BY <1>3, <2>1, <2>2, MissingType, ReplacedSound DEF GroupFails
<1>4. ASSUME NEW c \in Call, Unmatched(c)
      PROVE  Sound'
  BY <1>4, SoundDie DEF Unmatched
<1>5. CASE WriteSystems
  BY <1>5, WrittenSound
<1>6. CASE WriteFails
  <2>1. cur \in Call /\ UNCHANGED <<systemRows, tgRows>>
    BY <1>6 DEF WriteFails, TypeOK
  <2>2. OneSystem' /\ OneTalkgroup'
    BY <1>6, <2>1, AssignedSound DEF WriteFails
  <2> QED BY <2>1, <2>2 DEF Sound, ForeignKeys, OneTalkgroupRow
<1>7. CASE ReadBack \/ Restart
  BY <1>7, LoadedSound DEF ReadBack, Restart
<1>8. CASE ReadFails
  <2>1. UNCHANGED <<systemRows, tgRows>>
    BY <1>8 DEF ReadFails
  <2>2. CASE \E S \in SUBSET systemRows : systems' = Loaded(S, {})
    BY <2>1, <2>2, LoadedSound
  <2>3. CASE \E T \in SUBSET tgRows : systems' = Loaded(systemRows, T)
    BY <2>1, <2>3, LoadedSound
  <2> QED BY <1>8, <2>2, <2>3 DEF ReadFails
<1>9. CASE ReadBackUnmatched \/ Crash
  BY <1>9, SoundDie DEF ReadBackUnmatched, Crash
<1>10. CASE \/ EmitConfig \/ EmitConfigBlocks
            \/ RejectDuplicate \/ CheckFails \/ NoDuplicate \/ Store \/ StoreFails
  BY <1>10, SoundSame DEF EmitConfig, EmitConfigBlocks, RejectDuplicate, CheckFails, NoDuplicate, Store, StoreFails
<1>11. ASSUME NEW i \in DOMAIN emitting, Broadcast(i)
       PROVE  Sound'
  BY <1>11, SoundSame DEF Broadcast
<1>12. CASE UNCHANGED vars
  BY <1>12, SoundSame DEF vars
<1> QED BY <1>1, <1>2, <1>3, <1>4, <1>5, <1>6, <1>7, <1>8, <1>9, <1>10, <1>11, <1>12
        DEF Next, IngestStep

(* Whatever fails, the tables keep one row per talkgroup of a system and   *)
(* memory one object per row.                                              *)
THEOREM SoundAlways == Spec => []Sound
<1>1. TypeOK /\ Sound /\ [Next]_vars => Sound'
  BY SoundStep
<1> QED BY <1>1, SoundInit, TypeCorrect, PTL DEF Spec

-----------------------------------------------------------------------------
(* What the administrator configured, and blacklisted talkgroups.          *)

Known(sys, ref) == \E c \in Call : c.sys = sys /\ c.ref = ref /\ fate[c] # "none"

Queued == \A i \in DOMAIN queue : fate[queue[i]] # "none"

(* What was configured and is in memory has its row: a failed reading may  *)
(* forget it, and it then goes from the table as well, but no later write  *)
(* inserts it as something else.                                           *)
Configured ==
  \A s \in systems :
    s.by = Admin =>
      OwnRow(s) \in systemRows /\ \A t \in s.tgs : t.by = Admin => OwnTgRow(s, t) \in tgRows

KnownObjects ==
  \A s \in systems : \A t \in s.tgs :
    s.by = Admin /\ <<s.ref, t.ref>> \in Blacklist /\ t.by # Admin => Known(s.ref, t.ref)

KnownRows ==
  \A t \in tgRows :
    t.sys.by = Admin /\ <<t.sys.ref, t.ref>> \in Blacklist /\ t.by # Admin
      => Known(t.sys.ref, t.ref)

Blacklists == Queued /\ Configured /\ KnownObjects /\ KnownRows

(* A call that was submitted has been.                                     *)
LEMMA FateStep ==
  ASSUME TypeOK, [Next]_vars, NEW c \in Call, fate[c] # "none"
  PROVE  fate'[c] # "none"
<1>1. ASSUME NEW d, NEW r, Return(d, r), r # "none"
      PROVE  fate'[c] # "none"
  BY <1>1 DEF Return, TypeOK
<1>2. ASSUME NEW d, NEW r, Die(d, r), r # "none"
      PROVE  fate'[c] # "none"
  BY <1>2 DEF Die, TypeOK
<1>3. ASSUME NEW d \in Call, Submit(d)
      PROVE  fate'[c] # "none"
  BY <1>3 DEF Submit, TypeOK
<1>4. ASSUME NEW d \in Call, RejectBlacklisted(d) \/ GroupFails(d)
      PROVE  fate'[c] # "none"
  BY <1>1, <1>4 DEF RejectBlacklisted, GroupFails
<1>5. ASSUME NEW d \in Call, Unmatched(d)
      PROVE  fate'[c] # "none"
  BY <1>2, <1>5 DEF Unmatched
<1>6. ASSUME NEW d \in Call, Populate(d) \/ Resolve(d)
      PROVE  fate'[c] # "none"
  BY <1>6 DEF Populate, Resolve
<1>7. CASE WriteFails \/ ReadFails \/ RejectDuplicate \/ CheckFails \/ Store \/ StoreFails
  BY <1>1, <1>7 DEF WriteFails, ReadFails, RejectDuplicate, CheckFails, Store, StoreFails
<1>8. CASE ReadBack
  BY <1>1, <1>8 DEF ReadBack
<1>9. CASE ReadBackUnmatched \/ Crash
  BY <1>2, <1>9 DEF ReadBackUnmatched, Crash
<1>10. CASE WriteSystems \/ EmitConfig \/ EmitConfigBlocks \/ NoDuplicate \/ Restart \/ UNCHANGED vars
  BY <1>10 DEF WriteSystems, EmitConfig, EmitConfigBlocks, NoDuplicate, Restart, vars
<1>11. ASSUME NEW i \in DOMAIN emitting, Broadcast(i)
       PROVE  fate'[c] # "none"
  BY <1>11 DEF Broadcast
<1> QED BY <1>3, <1>4, <1>5, <1>6, <1>7, <1>8, <1>9, <1>10, <1>11 DEF Next, IngestStep

LEMMA KnownStep ==
  ASSUME TypeOK, [Next]_vars, NEW sys, NEW ref, Known(sys, ref)
  PROVE  Known(sys, ref)'
BY FateStep DEF Known

LEMMA QueuedStep ==
  ASSUME TypeOK, Queued, [Next]_vars
  PROVE  Queued'
<1> SUFFICES ASSUME NEW i \in DOMAIN queue' PROVE fate'[queue'[i]] # "none"
  BY DEF Queued
<1>1. Len(queue) \in Nat /\ DOMAIN queue = 1..Len(queue) /\ \A j \in DOMAIN queue : queue[j] \in Call
  BY LenProperties, ElementOfSeq DEF TypeOK
<1>2. CASE UNCHANGED queue
  BY <1>1, <1>2, FateStep DEF Queued
<1>3. ASSUME NEW c \in Call, Submit(c)
      PROVE  fate'[queue'[i]] # "none"
  <2>1. i \in 1..Len(queue) + 1
    BY <1>3 DEF Submit, TypeOK
  <2>2. CASE i = Len(queue) + 1
    BY <1>3, <2>2 DEF Submit, TypeOK
  <2>3. CASE i \in 1..Len(queue)
    <3>1. queue'[i] = queue[i]
      BY <1>3, <2>3 DEF Submit, TypeOK
    <3> QED BY <1>1, <2>3, <3>1, FateStep DEF Queued
  <2> QED BY <1>1, <2>1, <2>2, <2>3
<1>4. ASSUME queue # <<>>, queue' = Tail(queue)
      PROVE  fate'[queue'[i]] # "none"
  <2>1. /\ Tail(queue) \in Seq(Call) /\ Len(Tail(queue)) = Len(queue) - 1
        /\ \A j \in 1..Len(Tail(queue)) : Tail(queue)[j] = queue[j + 1]
    BY <1>4, HeadTailProperties DEF TypeOK
  <2>2. i \in 1..Len(queue) - 1 /\ queue'[i] = queue[i + 1]
    BY <1>4, <2>1, LenProperties
  <2>3. i + 1 \in DOMAIN queue
    BY <1>1, <2>2
  <2> QED BY <1>1, <2>2, <2>3, FateStep DEF Queued
<1>5. ASSUME queue' = <<>> PROVE FALSE
  BY <1>5
<1>6. ASSUME NEW c \in Call, RejectBlacklisted(c) \/ Populate(c) \/ GroupFails(c) \/ Resolve(c)
      PROVE  queue # <<>> /\ queue' = Tail(queue)
  BY <1>6 DEF RejectBlacklisted, Populate, GroupFails, Resolve, Accepted, Taken
<1>7. ASSUME NEW c \in Call, Unmatched(c)
      PROVE  FALSE
  BY <1>5, <1>7 DEF Unmatched, Die
<1>8. CASE ReadBackUnmatched \/ Crash
  BY <1>5, <1>8 DEF ReadBackUnmatched, Crash, Die
<1>9. CASE \/ WriteSystems \/ WriteFails \/ ReadBack \/ ReadFails \/ EmitConfig \/ EmitConfigBlocks
           \/ RejectDuplicate \/ CheckFails \/ NoDuplicate \/ Store \/ StoreFails \/ Restart
  BY <1>2, <1>9 DEF WriteSystems, WriteFails, ReadBack, ReadFails, EmitConfig, EmitConfigBlocks,
                    RejectDuplicate, CheckFails, NoDuplicate, Store, StoreFails, Restart
<1>10. ASSUME NEW j \in DOMAIN emitting, Broadcast(j)
       PROVE  UNCHANGED queue
  BY <1>10 DEF Broadcast
<1>11. CASE UNCHANGED vars
  BY <1>2, <1>11 DEF vars
<1> QED BY <1>2, <1>3, <1>4, <1>6, <1>7, <1>8, <1>9, <1>10, <1>11 DEF Next, IngestStep

LEMMA LoadedBlacklists ==
  ASSUME TypeOK, KnownRows', UNCHANGED <<systemRows, tgRows>>,
         NEW S \in SUBSET systemRows, NEW T \in SUBSET tgRows, systems' = Loaded(S, T)
  PROVE  Configured' /\ KnownObjects'
<1>1. ASSUME NEW o \in systems'
      PROVE  /\ OwnRow(o) \in systemRows
             /\ \A p \in o.tgs : OwnTgRow(o, p) \in tgRows
  <2>1. PICK s \in S : o = LoadedOf(T, s)
    BY LoadedObjects
  <2>2. OwnRow(o) = s
    BY <2>1 DEF LoadedOf, OwnRow, TypeOK, SystemRow
  <2>3. ASSUME NEW p \in o.tgs PROVE OwnTgRow(o, p) \in tgRows
    <3>1. PICK t \in T : t.sys = s /\ p = [ref |-> t.ref, by |-> t.by]
      BY <2>1 DEF LoadedOf
    <3>2. t = [sys |-> t.sys, ref |-> t.ref, by |-> t.by]
      BY DEF TypeOK, TalkgroupRow
    <3>3. p.ref = t.ref /\ p.by = t.by
      BY <3>1
    <3>4. OwnTgRow(o, p) = t
      BY <2>2, <3>1, <3>2, <3>3 DEF OwnTgRow
    <3> QED BY <3>4
  <2> QED BY <2>2, <2>3
<1>2. Configured'
  BY <1>1 DEF Configured, OwnRow, OwnTgRow
<1>3. KnownObjects'
  <2> SUFFICES ASSUME NEW o \in systems', NEW p \in o.tgs, o.by = Admin,
                      <<o.ref, p.ref>> \in Blacklist, p.by # Admin
               PROVE  Known(o.ref, p.ref)'
    BY DEF KnownObjects
  <2>1. OwnTgRow(o, p) \in tgRows'
    BY <1>1
  <2>2. /\ OwnTgRow(o, p).sys.by = o.by /\ OwnTgRow(o, p).sys.ref = o.ref
        /\ OwnTgRow(o, p).ref = p.ref /\ OwnTgRow(o, p).by = p.by
    BY DEF OwnTgRow, OwnRow
  <2> QED BY <2>1, <2>2 DEF KnownRows
<1> QED BY <1>2, <1>3

LEMMA ReplacedBlacklists ==
  ASSUME TypeOK, Configured, KnownObjects, [Next]_vars, UNCHANGED <<systemRows, tgRows>>,
         NEW c \in Call, fate[c] # "none", NEW s \in SystemsFor(c),
         NEW refs \in SUBSET Missing(c, s), systems' = Replaced(s, refs)
  PROVE  Configured' /\ KnownObjects'
<1> DEFINE n == [s EXCEPT !.tgs = @ \union {[ref |-> r, by |-> New] : r \in refs}]
<1>1. s \in Object /\ n.ref = s.ref /\ n.by = s.by
        /\ n.tgs = s.tgs \union {[ref |-> r, by |-> New] : r \in refs}
  BY MissingType, ReplacedType DEF Object
<1>2. systems' = (systems \ {s}) \union {n}
  BY DEF Replaced
<1>3. s.ref = c.sys /\ (s \in systems \/ s.by = New)
  BY DEF SystemsFor, Found
<1> HIDE DEF n
<1>4. \A t \in n.tgs : t \in s.tgs \/ (t.by = New /\ t.ref \in refs)
  BY <1>1
<1>5. New # Admin
  BY DEF New, Admin
<1>6. OwnRow(n) = OwnRow(s) /\ \A t : OwnTgRow(n, t) = OwnTgRow(s, t)
  BY <1>1 DEF OwnRow, OwnTgRow
<1>7. n.by = Admin => /\ OwnRow(n) \in systemRows
                      /\ \A t \in n.tgs : t.by = Admin => OwnTgRow(n, t) \in tgRows
  BY <1>1, <1>3, <1>4, <1>5, <1>6 DEF Configured
<1>8. Configured'
  BY <1>2, <1>7 DEF Configured, OwnRow, OwnTgRow
<1>9. ASSUME NEW t \in n.tgs, n.by = Admin, <<n.ref, t.ref>> \in Blacklist, t.by # Admin
      PROVE  Known(n.ref, t.ref)'
  <2>1. CASE t \in s.tgs
    <3>1. Known(s.ref, t.ref)
      BY <1>1, <1>3, <1>5, <1>9, <2>1 DEF KnownObjects
    <3> QED BY <1>1, <3>1, KnownStep
  <2>2. CASE t.ref \in refs
    <3>1. t.ref = c.ref
      BY <1>1, <1>9, <2>2 DEF Missing, Blacklisted
    <3>2. Known(s.ref, t.ref)
      BY <1>3, <3>1 DEF Known
    <3> QED BY <1>1, <3>2, KnownStep
  <2> QED BY <1>4, <2>1, <2>2
<1>10. KnownObjects'
  <2> SUFFICES ASSUME NEW o \in systems', NEW p \in o.tgs, o.by = Admin,
                      <<o.ref, p.ref>> \in Blacklist, p.by # Admin
               PROVE  Known(o.ref, p.ref)'
    BY DEF KnownObjects
  <2>1. CASE o = n
    BY <1>9, <2>1
  <2>2. CASE o \in systems
    BY <2>2, KnownStep DEF KnownObjects
  <2> QED BY <1>2, <2>1, <2>2
<1> QED BY <1>8, <1>10

LEMMA AssignedBlacklists ==
  ASSUME TypeOK, Configured, KnownObjects, [Next]_vars, cur \in Call,
         NEW rows, systems' = Assigned(rows),
         \A s \in systems : OwnRow(s) \in systemRows => OwnRow(s) \in systemRows',
         \A s \in systems : \A t \in s.tgs :
           OwnTgRow(s, t) \in tgRows => OwnTgRow(s, t) \in tgRows'
  PROVE  Configured' /\ KnownObjects'
<1>1. cur.id \in Nat /\ cur.id # Admin
  BY CallIds DEF Admin
<1>2. ASSUME NEW s \in systems, AssignedOf(rows, s).by = Admin
      PROVE  s.by = Admin
  <2>1. SystemRowOf(s).by = s.by \/ SystemRowOf(s).by = cur.id
    BY SystemRowOfObject DEF TypeOK
  <2> QED BY <1>1, <1>2, <2>1 DEF AssignedOf
<1>3. ASSUME NEW s \in systems, NEW p \in AssignedOf(rows, s).tgs, s.by = Admin
      PROVE  \E t \in s.tgs : /\ p.ref = t.ref
                              /\ p.by = Admin <=> t.by = Admin
  <2>1. PICK t \in s.tgs :
          p = [ref |-> t.ref,
               by |-> IF TalkgroupRowOf(s, t) \in rows THEN TalkgroupRowOf(s, t).by ELSE t.by]
    BY DEF AssignedOf
  <2>2. OwnTgRow(s, t).by = t.by
    BY DEF OwnTgRow
  <2>3. TalkgroupRowOf(s, t).by = t.by \/ TalkgroupRowOf(s, t).by = cur.id
    BY <2>2, TalkgroupRowOfObject DEF TypeOK
  <2>4. t.by = Admin => TalkgroupRowOf(s, t).by = t.by
    BY <1>3, <2>2, TalkgroupRowOfObject DEF TypeOK, Configured
  <2> QED BY <1>1, <2>1, <2>3, <2>4
<1>4. ASSUME NEW o \in systems', o.by = Admin
      PROVE  /\ OwnRow(o) \in systemRows'
             /\ \A p \in o.tgs : p.by = Admin => OwnTgRow(o, p) \in tgRows'
             /\ \A p \in o.tgs : <<o.ref, p.ref>> \in Blacklist /\ p.by # Admin
                                   => Known(o.ref, p.ref)'
  <2>1. PICK s \in systems : o = AssignedOf(rows, s)
    BY DEF Assigned, AssignedOf
  <2>2. s.by = Admin /\ o.ref = s.ref
    BY <1>2, <1>4, <2>1 DEF AssignedOf
  <2>3. OwnRow(o) = OwnRow(s) /\ OwnRow(s) \in systemRows
    BY <1>4, <2>2 DEF OwnRow, Configured
  <2>4. ASSUME NEW p \in o.tgs, p.by = Admin
        PROVE  OwnTgRow(o, p) \in tgRows'
    <3>1. PICK t \in s.tgs : p.ref = t.ref /\ t.by = Admin
      BY <1>3, <2>1, <2>2, <2>4
    <3>2. OwnTgRow(s, t) \in tgRows
      BY <2>2, <3>1 DEF Configured
    <3>3. OwnTgRow(o, p) = OwnTgRow(s, t)
      BY <2>3, <2>4, <3>1 DEF OwnTgRow
    <3> QED BY <3>2, <3>3
  <2>5. ASSUME NEW p \in o.tgs, <<o.ref, p.ref>> \in Blacklist, p.by # Admin
        PROVE  Known(o.ref, p.ref)'
    <3>1. PICK t \in s.tgs : p.ref = t.ref /\ t.by # Admin
      BY <1>3, <2>1, <2>2, <2>5
    <3>2. Known(s.ref, t.ref)
      BY <2>2, <2>5, <3>1 DEF KnownObjects
    <3> QED BY <2>2, <3>1, <3>2, KnownStep
  <2> QED BY <2>3, <2>4, <2>5
<1> QED BY <1>4 DEF Configured, KnownObjects, OwnRow, OwnTgRow

(* A row that is inserted is that of an object.                            *)
LEMMA WrittenBlacklists ==
  ASSUME TypeOK, Sound, Blacklists, [Next]_vars, WriteSystems
  PROVE  Configured' /\ KnownObjects' /\ KnownRows'
<1>1. cur \in Call
  BY DEF WriteSystems, TypeOK
<1>2. cur.id # Admin
  BY <1>1, CallIds DEF Admin
<1>3. \A s \in systems : OwnRow(s) \in systemRows => OwnRow(s) \in systemRows'
  BY <1>1, SystemRowOfObject DEF WriteSystems, WrittenSystems, TypeOK
<1>4. ASSUME NEW s \in systems, NEW t \in s.tgs, OwnTgRow(s, t) \in tgRows
      PROVE  OwnTgRow(s, t) \in tgRows'
  <2>1. TalkgroupRowOf(s, t) \in tgRows'
    BY DEF WriteSystems, WrittenTalkgroups, RowsOf
  <2> QED BY <1>1, <1>4, <2>1, TalkgroupRowOfObject DEF TypeOK
<1>5. Configured' /\ KnownObjects'
  BY <1>1, <1>3, <1>4, AssignedBlacklists DEF WriteSystems, Blacklists
<1>6. ASSUME NEW t \in tgRows', t.sys.by = Admin, <<t.sys.ref, t.ref>> \in Blacklist, t.by # Admin
      PROVE  Known(t.sys.ref, t.ref)'
  <2>1. CASE t \in tgRows
    BY <1>6, <2>1, KnownStep DEF Blacklists, KnownRows
  <2>2. ASSUME NEW s \in systems, NEW x \in s.tgs, t = TalkgroupRowOf(s, x), t \notin tgRows
        PROVE  Known(t.sys.ref, t.ref)'
    <3>1. /\ OwnTgRow(s, x) \notin tgRows
          /\ t.sys = SystemRowOf(s) /\ t.ref = x.ref
      BY <1>1, <2>2, TalkgroupRowOfObject, TalkgroupRowSystem DEF TypeOK
    <3>2. s.by = Admin /\ s.ref = t.sys.ref
      BY <1>1, <1>2, <1>6, <3>1, SystemRowOfObject DEF TypeOK
    <3>3. x.by # Admin
      BY <3>1, <3>2 DEF Blacklists, Configured
    <3>4. Known(s.ref, x.ref)
      BY <1>6, <3>1, <3>2, <3>3 DEF Blacklists, KnownObjects
    <3> QED BY <3>1, <3>2, <3>4, KnownStep
  <2> QED BY <2>1, <2>2 DEF WriteSystems, WrittenTalkgroups, RowsOf
<1>7. KnownRows'
  BY <1>6 DEF KnownRows
<1> QED BY <1>5, <1>7

LEMMA BlacklistsSame ==
  ASSUME TypeOK, Blacklists, [Next]_vars, UNCHANGED <<systemRows, tgRows>>
  PROVE  /\ KnownRows'
         /\ UNCHANGED systems => Configured' /\ KnownObjects'
<1>1. KnownRows'
  BY KnownStep DEF Blacklists, KnownRows
<1>2. ASSUME UNCHANGED systems PROVE Configured' /\ KnownObjects'
  BY <1>2, KnownStep DEF Blacklists, Configured, KnownObjects, OwnRow, OwnTgRow
<1> QED BY <1>1, <1>2

LEMMA BlacklistsInit == Init => Blacklists
<1> SUFFICES ASSUME Init PROVE Blacklists
  OBVIOUS
<1>1. Queued
  BY DEF Init, Queued
<1>2. \A t \in tgRows : t.by = Admin
  BY DEF Init
<1>3. KnownRows
  BY <1>2 DEF KnownRows
<1>4. ASSUME NEW o \in systems
      PROVE  /\ OwnRow(o) \in systemRows
             /\ \A p \in o.tgs : OwnTgRow(o, p) \in tgRows /\ p.by = Admin
  <2>1. PICK s \in systemRows : o = LoadedOf(tgRows, s)
    BY LoadedObjects DEF Init
  <2>2. OwnRow(o) = s
    BY <2>1 DEF LoadedOf, OwnRow, Init
  <2>3. ASSUME NEW p \in o.tgs PROVE OwnTgRow(o, p) \in tgRows /\ p.by = Admin
    <3>1. PICK t \in tgRows : t.sys = s /\ p = [ref |-> t.ref, by |-> t.by]
      BY <2>1 DEF LoadedOf
    <3>2. t = [sys |-> t.sys, ref |-> t.ref, by |-> t.by]
      BY DEF Init
    <3>3. p.ref = t.ref /\ p.by = t.by
      BY <3>1
    <3>4. OwnTgRow(o, p) = t
      BY <2>2, <3>1, <3>2, <3>3 DEF OwnTgRow
    <3> QED BY <1>2, <3>3, <3>4
  <2> QED BY <2>2, <2>3
<1> QED BY <1>1, <1>3, <1>4 DEF Blacklists, Configured, KnownObjects

LEMMA BlacklistsStep ==
  ASSUME TypeOK, Sound, Blacklists, [Next]_vars
  PROVE  Blacklists'
<1> USE DEF memory, tables
<1>0. Queued'
  BY QueuedStep DEF Blacklists
<1> SUFFICES Configured' /\ KnownObjects' /\ KnownRows'
  BY <1>0 DEF Blacklists
<1>1. ASSUME NEW c \in Call, Taken(c)
      PROVE  fate[c] # "none"
  <2>1. 1 \in DOMAIN queue /\ c = queue[1]
    BY <1>1, EmptySeq, LenProperties DEF Taken, TypeOK
  <2> QED BY <2>1 DEF Blacklists, Queued
<1>2. ASSUME NEW c \in Call, NEW r, Die(c, r)
      PROVE  Configured' /\ KnownObjects' /\ KnownRows'
  BY <1>2, BlacklistsSame DEF Die, Configured, KnownObjects
<1>3. ASSUME NEW c \in Call, Submit(c) \/ RejectBlacklisted(c) \/ Resolve(c)
      PROVE  Configured' /\ KnownObjects' /\ KnownRows'
  BY <1>3, BlacklistsSame DEF Submit, RejectBlacklisted, Resolve
<1>4. ASSUME NEW c \in Call, Populate(c)
      PROVE  Configured' /\ KnownObjects' /\ KnownRows'
  <2>1. PICK s \in SystemsFor(c) : systems' = Replaced(s, Missing(c, s)) /\ fate[c] # "none"
    BY <1>1, <1>4 DEF Populate, Accepted
  <2> QED BY <1>4, <2>1, BlacklistsSame, ReplacedBlacklists DEF Populate, Blacklists
<1>5. ASSUME NEW c \in Call, GroupFails(c)
      PROVE  Configured' /\ KnownObjects' /\ KnownRows'
  <2>1. PICK s \in SystemsFor(c) :
          /\ fate[c] # "none"
          /\ \E refs \in SUBSET Missing(c, s) : systems' = Replaced(s, refs)
    BY <1>1, <1>5 DEF GroupFails, Accepted
  <2> QED BY <1>5, <2>1, BlacklistsSame, ReplacedBlacklists DEF GroupFails, Blacklists
<1>6. ASSUME NEW c \in Call, Unmatched(c)
      PROVE  Configured' /\ KnownObjects' /\ KnownRows'
  BY <1>2, <1>6 DEF Unmatched
<1>7. CASE WriteSystems
  BY <1>7, WrittenBlacklists
<1>8. CASE WriteFails
  <2>1. cur \in Call
    BY <1>8 DEF WriteFails, TypeOK
  <2> QED BY <1>8, <2>1, BlacklistsSame, AssignedBlacklists DEF WriteFails, Blacklists
<1>9. CASE ReadBack \/ Restart
  BY <1>9, BlacklistsSame, LoadedBlacklists DEF ReadBack, Restart
<1>10. CASE ReadFails
  <2>1. KnownRows' /\ UNCHANGED <<systemRows, tgRows>>
    BY <1>10, BlacklistsSame DEF ReadFails
  <2>2. CASE \E S \in SUBSET systemRows : systems' = Loaded(S, {})
    BY <2>1, <2>2, LoadedBlacklists
  <2>3. CASE \E T \in SUBSET tgRows : systems' = Loaded(systemRows, T)
    BY <2>1, <2>3, LoadedBlacklists
  <2> QED BY <1>10, <2>2, <2>3 DEF ReadFails
<1>11. CASE ReadBackUnmatched \/ Crash
  BY <1>11, BlacklistsSame DEF ReadBackUnmatched, Crash, Die, Configured, KnownObjects
<1>12. CASE \/ EmitConfig \/ EmitConfigBlocks
            \/ RejectDuplicate \/ CheckFails \/ NoDuplicate \/ Store \/ StoreFails
  BY <1>12, BlacklistsSame DEF EmitConfig, EmitConfigBlocks, RejectDuplicate, CheckFails, NoDuplicate, Store, StoreFails
<1>13. ASSUME NEW i \in DOMAIN emitting, Broadcast(i)
       PROVE  Configured' /\ KnownObjects' /\ KnownRows'
  BY <1>13, BlacklistsSame DEF Broadcast
<1>14. CASE UNCHANGED vars
  BY <1>14, BlacklistsSame DEF vars
<1> QED BY <1>3, <1>4, <1>5, <1>6, <1>7, <1>8, <1>9, <1>10, <1>11, <1>12, <1>13, <1>14
        DEF Next, IngestStep

(* A blacklisted talkgroup that the administrator did not configure exists *)
(* only after a call of its own was submitted, whatever fails and however  *)
(* often the process stops.                                                *)
THEOREM BlacklistedSafe == Spec => []BlacklistedNotPatchedIn
<1>1. TypeOK /\ Sound /\ Blacklists /\ [Next]_vars => Blacklists'
  BY BlacklistsStep
<1>2. Blacklists => BlacklistedNotPatchedIn
  BY DEF Blacklists, KnownRows, Known, BlacklistedNotPatchedIn
<1> QED BY <1>1, <1>2, BlacklistsInit, SoundAlways, TypeCorrect, PTL DEF Spec

-----------------------------------------------------------------------------
(* One row per system, and no duplicates.                                  *)

(* Reading back does not fail where every system populates.  A reading     *)
(* that fails leaves a list without some of the systems (Systems.Read      *)
(* empties it first), and the next call of one of them inserts it again.   *)
ReadsWhole == AutoPopulate => "read" \notin Fault

OneSystemRow == \A s, r \in systemRows : s.ref = r.ref => s = r

(* The object of a system that has a row has its id.                       *)
IdsMatch == \A r \in systemRows, s \in systems : s.ref = r.ref => s.by = r.by

(* A system with a row has an object, where a missing one would be created. *)
Covered ==
  AutoPopulate /\ pc # "down" => \A r \in systemRows : \E s \in systems : s.ref = r.ref

Whole == OneSystemRow /\ IdsMatch /\ Covered

LEMMA LoadedIds ==
  ASSUME TypeOK, OneSystemRow, NEW S \in SUBSET systemRows, NEW T
  PROVE  \A r \in systemRows, o \in Loaded(S, T) : o.ref = r.ref => o.by = r.by
BY LoadedObjects DEF LoadedOf, OneSystemRow

LEMMA LoadedCovers ==
  ASSUME NEW T
  PROVE  \A r \in systemRows : \E o \in Loaded(systemRows, T) : o.ref = r.ref
<1>1. \A r \in systemRows : LoadedOf(T, r) \in Loaded(systemRows, T) /\ LoadedOf(T, r).ref = r.ref
  BY DEF Loaded, LoadedOf
<1> QED BY <1>1

LEMMA WholeInit == Init => Whole
<1> SUFFICES ASSUME Init PROVE Whole
  OBVIOUS
<1>1. OneSystemRow
  BY DEF Init, OneSystemRow
<1>2. IdsMatch
  BY <1>1, LoadedObjects DEF Init, IdsMatch, LoadedOf, OneSystemRow
<1>3. Covered
  BY LoadedCovers DEF Init, Covered
<1> QED BY <1>1, <1>2, <1>3 DEF Whole

LEMMA LoadedWhole ==
  ASSUME TypeOK, Whole, UNCHANGED systemRows, NEW T, systems' = Loaded(systemRows, T)
  PROVE  Whole'
<1>1. OneSystemRow'
  BY DEF Whole, OneSystemRow
<1>2. IdsMatch'
  BY LoadedIds DEF Whole, IdsMatch
<1>3. Covered'
  BY LoadedCovers DEF Covered
<1> QED BY <1>1, <1>2, <1>3 DEF Whole

(* A system is created only where no row has its reference.                *)
LEMMA ReplacedWhole ==
  ASSUME TypeOK, Whole, UNCHANGED systemRows, pc # "down",
         NEW c \in Call, NEW s \in SystemsFor(c), NEW refs \in SUBSET Ref,
         systems' = Replaced(s, refs)
  PROVE  Whole'
<1> DEFINE n == [s EXCEPT !.tgs = @ \union {[ref |-> r, by |-> New] : r \in refs}]
<1>1. n.ref = s.ref /\ n.by = s.by
  BY ReplacedType DEF Object
<1>2. systems' = (systems \ {s}) \union {n}
  BY DEF Replaced
<1>3. s \in systems \/ (AutoPopulate /\ \A r \in systems : r.ref # s.ref)
  BY DEF SystemsFor, Found
<1> HIDE DEF n
<1>4. \A r \in systemRows : s.ref = r.ref => s.by = r.by
  BY <1>3 DEF Whole, IdsMatch, Covered
<1> QED BY <1>1, <1>2, <1>4 DEF Whole, OneSystemRow, IdsMatch, Covered

(* Each object that is assigned ids stands for the one it was.             *)
LEMMA AssignedRefs ==
  ASSUME NEW rows
  PROVE  /\ \A o \in Assigned(rows) : \E s \in systems : o = AssignedOf(rows, s)
         /\ \A s \in systems : \E o \in Assigned(rows) : o.ref = s.ref
<1>1. \A o \in Assigned(rows) : \E s \in systems : o = AssignedOf(rows, s)
  BY DEF Assigned, AssignedOf
<1>2. \A s \in systems : AssignedOf(rows, s) \in Assigned(rows)
  BY DEF Assigned, AssignedOf
<1>3. \A s \in systems : AssignedOf(rows, s).ref = s.ref
  BY DEF AssignedOf
<1> QED BY <1>1, <1>2, <1>3

LEMMA WrittenWhole ==
  ASSUME TypeOK, Sound, Whole, WriteSystems
  PROVE  Whole'
<1>1. cur \in Call /\ pc # "down"
  BY DEF WriteSystems, TypeOK
<1>2. \A r \in systemRows' : r \in systemRows \/ \E s \in systems : r = SystemRowOf(s)
  BY DEF WriteSystems, WrittenSystems, KeptSystems
<1>3. \A s \in systems : SystemRowOf(s) \in systemRows' /\ SystemRowOf(s).ref = s.ref
  BY <1>1, SystemRowOfObject DEF WriteSystems, WrittenSystems, TypeOK
<1>4. ASSUME NEW s \in systems, NEW r \in systemRows, s.ref = r.ref
      PROVE  SystemRowOf(s) = r
  <2>1. s.by = r.by
    BY <1>4 DEF Whole, IdsMatch
  <2>2. OwnRow(s) = r
    BY <1>4, <2>1 DEF OwnRow, TypeOK, SystemRow
  <2> QED BY <1>1, <2>2, SystemRowOfObject DEF TypeOK
<1>5. ASSUME NEW s \in systems, NEW r \in systems, s.ref = r.ref
      PROVE  SystemRowOf(s) = SystemRowOf(r)
  <2>1. CASE s = r
    BY <2>1
  <2>2. CASE s # r
    <3>1. OwnRow(s) \in systemRows /\ OwnRow(s).ref = s.ref
      BY <1>5, <2>2 DEF Sound, OneSystem, OwnRow
    <3> QED BY <1>4, <1>5, <3>1
  <2> QED BY <2>1, <2>2
<1>6. OneSystemRow'
  <2> SUFFICES ASSUME NEW r \in systemRows', NEW q \in systemRows', r.ref = q.ref PROVE r = q
    BY DEF OneSystemRow
  <2>1. CASE r \in systemRows /\ q \in systemRows
    BY <2>1 DEF Whole, OneSystemRow
  <2>2. ASSUME NEW s \in systems, r = SystemRowOf(s), q \in systemRows PROVE r = q
    BY <1>3, <1>4, <2>2
  <2>3. ASSUME NEW s \in systems, q = SystemRowOf(s), r \in systemRows PROVE r = q
    BY <1>3, <1>4, <2>3
  <2>4. ASSUME NEW s \in systems, NEW t \in systems, r = SystemRowOf(s), q = SystemRowOf(t)
        PROVE  r = q
    BY <1>3, <1>5, <2>4
  <2> QED BY <1>2, <2>1, <2>2, <2>3, <2>4
<1>7. IdsMatch'
  <2> SUFFICES ASSUME NEW r \in systemRows', NEW o \in systems', o.ref = r.ref PROVE o.by = r.by
    BY DEF IdsMatch
  <2>1. PICK s \in systems : o = AssignedOf(WrittenSystems \union WrittenTalkgroups, s)
    BY AssignedRefs DEF WriteSystems
  <2>2. o.ref = s.ref /\ o.by = SystemRowOf(s).by
    BY <1>3, <2>1 DEF AssignedOf, WriteSystems
  <2>3. SystemRowOf(s) = r
    BY <1>3, <1>6, <2>2 DEF OneSystemRow
  <2> QED BY <2>2, <2>3
<1>8. Covered'
  <2>1. ASSUME AutoPopulate, NEW r \in systemRows'
        PROVE  \E s \in systems : s.ref = r.ref
    BY <1>1, <1>2, <1>3, <2>1 DEF Whole, Covered
  <2> QED BY <2>1, AssignedRefs DEF WriteSystems, Covered
<1> QED BY <1>6, <1>7, <1>8 DEF Whole

LEMMA WriteFailsWhole ==
  ASSUME TypeOK, Whole, WriteFails
  PROVE  Whole'
<1>1. cur \in Call /\ pc # "down" /\ UNCHANGED systemRows
  BY DEF WriteFails, TypeOK, tables
<1>2. PICK rows : systems' = Assigned(rows)
  BY DEF WriteFails
<1>3. OneSystemRow'
  BY <1>1 DEF Whole, OneSystemRow
<1>4. IdsMatch'
  <2> SUFFICES ASSUME NEW r \in systemRows, NEW o \in systems', o.ref = r.ref PROVE o.by = r.by
    BY <1>1 DEF IdsMatch
  <2>1. PICK s \in systems : o = AssignedOf(rows, s)
    BY <1>2, AssignedRefs
  <2>2. s.ref = r.ref /\ s.by = r.by
    BY <2>1 DEF AssignedOf, Whole, IdsMatch
  <2>3. OwnRow(s) = r
    BY <2>2 DEF OwnRow, TypeOK, SystemRow
  <2>4. SystemRowOf(s).by = s.by
    BY <1>1, <2>3, SystemRowOfObject DEF TypeOK
  <2> QED BY <2>1, <2>2, <2>4 DEF AssignedOf
<1>5. Covered'
  BY <1>1, <1>2, AssignedRefs DEF Whole, Covered
<1> QED BY <1>3, <1>4, <1>5 DEF Whole

LEMMA WholeSame ==
  ASSUME Whole, UNCHANGED <<systems, systemRows>>, pc' = "down" \/ pc # "down"
  PROVE  Whole'
BY DEF Whole, OneSystemRow, IdsMatch, Covered

LEMMA WholeDie ==
  ASSUME Whole, NEW c, NEW r, Die(c, r)
  PROVE  Whole'
BY DEF Whole, OneSystemRow, IdsMatch, Covered, Die, tables

LEMMA WholeStep ==
  ASSUME ReadsWhole, TypeOK, Sound, Whole, [Next]_vars
  PROVE  Whole'
<1> USE DEF memory, tables
<1>1. ASSUME NEW c \in Call, Submit(c) \/ RejectBlacklisted(c) \/ Resolve(c)
      PROVE  Whole'
  BY <1>1, WholeSame DEF Submit, RejectBlacklisted, Resolve, Taken, Accepted
<1>2. ASSUME NEW c \in Call, Populate(c)
      PROVE  Whole'
  <2>1. PICK s \in SystemsFor(c) : systems' = Replaced(s, Missing(c, s)) /\ pc # "down"
    BY <1>2 DEF Populate, Accepted, Taken
  <2> QED BY <1>2, <2>1, MissingType, ReplacedWhole DEF Populate
<1>3. ASSUME NEW c \in Call, GroupFails(c)
      PROVE  Whole'
  <2>1. PICK s \in SystemsFor(c) :
          /\ pc # "down"
          /\ \E refs \in SUBSET Missing(c, s) : systems' = Replaced(s, refs)
    BY <1>3 DEF GroupFails, Accepted, Taken
  <2> QED BY <1>3, <2>1, MissingType, ReplacedWhole DEF GroupFails
<1>4. ASSUME NEW c \in Call, Unmatched(c)
      PROVE  Whole'
  BY <1>4, WholeDie DEF Unmatched
<1>5. CASE WriteSystems
  BY <1>5, WrittenWhole
<1>6. CASE WriteFails
  BY <1>6, WriteFailsWhole
<1>7. CASE ReadBack \/ Restart
  BY <1>7, LoadedWhole DEF ReadBack, Restart
<1>8. CASE ReadFails
  <2>1. ~AutoPopulate /\ UNCHANGED systemRows
    BY <1>8 DEF ReadFails, ReadsWhole
  <2>2. IdsMatch'
    <3>1. CASE \E S \in SUBSET systemRows : systems' = Loaded(S, {})
      BY <2>1, <3>1, LoadedIds DEF Whole, IdsMatch
    <3>2. CASE \E T \in SUBSET tgRows : systems' = Loaded(systemRows, T)
      BY <2>1, <3>2, LoadedIds DEF Whole, IdsMatch
    <3> QED BY <1>8, <3>1, <3>2 DEF ReadFails
  <2> QED BY <2>1, <2>2 DEF Whole, OneSystemRow, Covered
<1>9. CASE ReadBackUnmatched \/ Crash
  BY <1>9, WholeDie DEF ReadBackUnmatched, Crash
<1>10. CASE \/ EmitConfig \/ EmitConfigBlocks
            \/ RejectDuplicate \/ CheckFails \/ NoDuplicate \/ Store \/ StoreFails
  BY <1>10, WholeSame DEF EmitConfig, EmitConfigBlocks, RejectDuplicate, CheckFails, NoDuplicate, Store, StoreFails
<1>11. ASSUME NEW i \in DOMAIN emitting, Broadcast(i)
       PROVE  Whole'
  BY <1>11, WholeSame DEF Broadcast
<1>12. CASE UNCHANGED vars
  BY <1>12, WholeSame DEF vars
<1> QED BY <1>1, <1>2, <1>3, <1>4, <1>5, <1>6, <1>7, <1>8, <1>9, <1>10, <1>11, <1>12
        DEF Next, IngestStep

LEMMA WholeAlways ==
  ASSUME ReadsWhole
  PROVE  Spec => []Whole
<1>1. TypeOK /\ Sound /\ Whole /\ [Next]_vars => Whole'
  BY WholeStep
<1> QED BY <1>1, WholeInit, SoundAlways, TypeCorrect, PTL DEF Spec

(* Populating never inserts a system or a talkgroup twice, through failed  *)
(* writes, crashes and restarts.                                           *)
THEOREM RowsUniqueSafe ==
  ASSUME ReadsWhole
  PROVE  Spec => []RowsUnique
<1>1. Sound /\ Whole => RowsUnique
  BY DEF Sound, OneTalkgroupRow, Whole, OneSystemRow, RowsUnique
<1> QED BY <1>1, SoundAlways, WholeAlways, PTL

(* A stored call has the row of its own talkgroup; so has the call that    *)
(* was given one, and no near one once it has been checked.                *)
Filed ==
  /\ \A k \in stored : k.row.sys.ref = k.call.sys /\ k.row.ref = k.call.ref
  /\ pc \in {"emit", "duplicate", "store"} => target.sys.ref = cur.sys /\ target.ref = cur.ref
  /\ pc = "store" => ~Duplicate

NoDuplicatesInv == Filed /\ NoDuplicates

LEMMA FiledInit == Init => NoDuplicatesInv
BY DEF Init, NoDuplicatesInv, Filed, NoDuplicates

(* A step that stores nothing, and neither begins nor ends a check.        *)
LEMMA FiledSame ==
  ASSUME NoDuplicatesInv, stored' \subseteq stored,
         \/ pc' \notin {"emit", "duplicate", "store"}
         \/ UNCHANGED <<pc, cur, target, stored>>
  PROVE  NoDuplicatesInv'
BY DEF NoDuplicatesInv, Filed, NoDuplicates, Duplicate, Near

LEMMA NearSymmetric ==
  ASSUME NEW c \in Call, NEW d \in Call
  PROVE  Near(c, c) /\ (Near(c, d) => Near(d, c))
BY CallIds, IngestAssumption DEF Near

(* The call that is stored has the row of every call of its talkgroup, as  *)
(* rows are unique, and the check of that row was of all of them.          *)
LEMMA StoreFiled ==
  ASSUME TypeOK, Sound, RowsUnique, NoDuplicatesInv, Store
  PROVE  NoDuplicatesInv'
<1>1. cur \in Call /\ target \in tgRows /\ pc' = "idle"
  BY DEF Store, Return, TypeOK
<1> DEFINE k == [call |-> cur, row |-> target]
<1>2. stored' = stored \union {k} /\ k.call = cur /\ k.row = target
  BY DEF Store
<1>3. ~Duplicate /\ target.sys.ref = cur.sys /\ target.ref = cur.ref
  BY DEF Store, NoDuplicatesInv, Filed
<1>4. ASSUME NEW l \in stored, l.call.sys = cur.sys, l.call.ref = cur.ref
      PROVE  ~Near(cur, l.call) /\ ~Near(l.call, cur)
  <2>1. l.call \in Call /\ l.row \in tgRows
    BY DEF TypeOK
  <2>2. l.row.sys.ref = target.sys.ref /\ l.row.ref = target.ref
    BY <1>3, <1>4 DEF NoDuplicatesInv, Filed
  <2>3. l.row = target
    BY <1>1, <2>1, <2>2 DEF RowsUnique, Sound, ForeignKeys
  <2> QED BY <1>1, <1>3, <2>1, <2>3, NearSymmetric DEF Duplicate
<1> HIDE DEF k
<1>5. NoDuplicates'
  <2> SUFFICES ASSUME NEW m \in stored', NEW l \in stored', m.call.sys = l.call.sys,
                      m.call.ref = l.call.ref, m # l
               PROVE  ~Near(m.call, l.call)
    BY DEF NoDuplicates, Near
  <2> QED BY <1>2, <1>4 DEF NoDuplicatesInv, NoDuplicates
<1>6. Filed'
  BY <1>1, <1>2, <1>3 DEF NoDuplicatesInv, Filed
<1> QED BY <1>5, <1>6 DEF NoDuplicatesInv

LEMMA FiledStep ==
  ASSUME TypeOK, Sound, RowsUnique, NoDuplicatesInv, [Next]_vars
  PROVE  NoDuplicatesInv'
<1> USE DEF memory, tables
<1>1. ASSUME NEW c \in Call, Submit(c)
      PROVE  NoDuplicatesInv'
  BY <1>1, FiledSame DEF Submit
<1>2. ASSUME NEW c \in Call, RejectBlacklisted(c) \/ Populate(c) \/ GroupFails(c)
      PROVE  NoDuplicatesInv'
  BY <1>2, FiledSame DEF RejectBlacklisted, Populate, GroupFails, Return
<1>3. ASSUME NEW c \in Call, Resolve(c)
      PROVE  NoDuplicatesInv'
  <2>1. target'.sys.ref = cur'.sys /\ target'.ref = cur'.ref /\ pc' = "duplicate" /\ UNCHANGED stored
    BY <1>3 DEF Resolve, Found
  <2> QED BY <2>1 DEF NoDuplicatesInv, Filed, NoDuplicates, Near
<1>4. ASSUME NEW c, NEW r, Die(c, r)
      PROVE  NoDuplicatesInv'
  BY <1>4, FiledSame DEF Die
<1>5. ASSUME NEW c \in Call, Unmatched(c)
      PROVE  NoDuplicatesInv'
  BY <1>4, <1>5 DEF Unmatched
<1>6. CASE WriteSystems \/ WriteFails \/ ReadFails \/ Restart
  BY <1>6, FiledSame DEF WriteSystems, WriteFails, ReadFails, Restart, Return
<1>7. CASE ReadBack
  <2>1. CASE pc' = "emit" /\ UNCHANGED cur
    <3>1. UNCHANGED stored /\ target'.sys.ref = cur'.sys /\ target'.ref = cur'.ref
      BY <1>7, <2>1 DEF ReadBack, Return
    <3> QED BY <2>1, <3>1 DEF NoDuplicatesInv, Filed, NoDuplicates, Near
  <2>2. CASE pc' = "idle"
    BY <1>7, <2>2, FiledSame DEF ReadBack
  <2> QED BY <1>7, <2>1, <2>2 DEF ReadBack, Return
<1>8. CASE ReadBackUnmatched \/ Crash
  BY <1>4, <1>8 DEF ReadBackUnmatched, Crash
<1>9. CASE RejectDuplicate \/ CheckFails \/ StoreFails
  BY <1>9, FiledSame DEF RejectDuplicate, CheckFails, StoreFails, Return
<1>10. CASE EmitConfig \/ EmitConfigBlocks \/ NoDuplicate
  BY <1>10 DEF EmitConfig, EmitConfigBlocks, NoDuplicate, NoDuplicatesInv, Filed, NoDuplicates, Duplicate, Near
<1>11. CASE Store
  BY <1>11, StoreFiled
<1>12. ASSUME NEW i \in DOMAIN emitting, Broadcast(i)
       PROVE  NoDuplicatesInv'
  BY <1>12, FiledSame DEF Broadcast
<1>13. CASE UNCHANGED vars
  BY <1>13, FiledSame DEF vars
<1> QED BY <1>1, <1>2, <1>3, <1>5, <1>6, <1>7, <1>8, <1>9, <1>10, <1>11, <1>12, <1>13
        DEF Next, IngestStep

(* No two stored calls of a talkgroup are within the time frame of each    *)
(* other, whichever writes fail and however often the process stops.       *)
THEOREM NoDuplicatesSafe ==
  ASSUME ReadsWhole
  PROVE  Spec => []NoDuplicates
<1>1. TypeOK /\ Sound /\ RowsUnique /\ NoDuplicatesInv /\ [Next]_vars => NoDuplicatesInv'
  BY FiledStep
<1>2. NoDuplicatesInv => NoDuplicates
  BY DEF NoDuplicatesInv
<1> QED BY <1>1, <1>2, FiledInit, RowsUniqueSafe, SoundAlways, TypeCorrect, PTL DEF Spec

=============================================================================
