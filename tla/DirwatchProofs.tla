----------------------------- MODULE DirwatchProofs -----------------------------
(***************************************************************************)
(* Theorems about Dirwatch, for any recordings, of any size, saves of the  *)
(* configuration and errors of the watcher.                                *)
(***************************************************************************)
EXTENDS Dirwatch, SequenceTheorems, TLAPS

-----------------------------------------------------------------------------
(* The inductive invariant.                                                *)

(* The events a watch may report: a file that is ingested, or the folder.  *)
Noticed == {e \in Event : e[1] = "file" => e[2] \in Path /\ Wanted(e[2])}

Job == {None} \union ({"read", "remove"} \X Path)

Types ==
  /\ kind \in Kind /\ deleteAfter \in BOOLEAN /\ inner \in BOOLEAN
  /\ home \in [File -> {Root, Inner}]
  /\ present \in [Path -> BOOLEAN]
  /\ size \in [Path -> Nat] /\ \A p \in Path : size[p] <= Finished(p)
  /\ cur \in Watch
  /\ live \in [Watch -> BOOLEAN]
  /\ loop \in [Watch -> {"none", "run", "ending", "done"}]
  /\ watched \in [Watch -> SUBSET {Root, Inner}]
  /\ queue \in [Watch -> Seq(Noticed)]
  /\ hand \in [Watch -> Noticed \union {None}]
  /\ made \in [Watch -> [Path -> Nat]]
  /\ entry \in [Watch -> [Path -> Nat]]
  /\ armed \subseteq Timer /\ waiting \subseteq Timer /\ orphans \subseteq armed
  /\ walk \in [Watch -> [at : {"none"} \union Going, left : SUBSET (Path \union {Inner})]]
  /\ job \in [Watch -> [Worker -> Job]]
  /\ pushed \in [File -> Seq(Nat)]

(* Only the object started last has a watcher; what a goroutine had in     *)
(* hand is of a watcher that was closed; later objects do not exist yet.   *)
Objects ==
  \A w \in Watch :
    /\ live[w] => w = cur
    /\ ~live[w] => watched[w] = {} /\ queue[w] = <<>>
    /\ hand[w] # None => loop[w] = "run" /\ ~live[w]
    /\ w > cur => loop[w] = "none"

(* A timer was made for a file that is ingested; until it fires it has the *)
(* entry of its file, in the table of a goroutine of events that has not   *)
(* ended, or is an orphan, which has not the entry.                        *)
Timers ==
  /\ \A w \in Watch, p \in Path : entry[w][p] <= made[w][p]
  /\ \A t \in armed \union waiting : t.n \in 1..made[t.w][t.p] /\ Wanted(t.p)
  /\ armed \cap waiting = {}
  /\ \A t \in armed : t \in orphans \/ (loop[t.w] # "done" /\ entry[t.w][t.p] = t.n)
  /\ \A t \in orphans : entry[t.w][t.p] # t.n

(* What is ingested: by a timer, a file for which one was made; by the     *)
(* walk, any file if files are deleted after.  What is removed has been    *)
(* ingested, and files are deleted after.                                  *)
Jobs ==
  \A w \in Watch, x \in Worker :
    /\ x = "walk" /\ job[w][x] # None => deleteAfter
    /\ \A p \in Path :
         /\ job[w][x] = <<"read", p>> => deleteAfter \/ (Wanted(p) /\ made[w][p] > 0)
         /\ job[w][x] = <<"remove", p>> => deleteAfter /\ pushed[p[1]] # <<>>

Inv == Types /\ Objects /\ Timers /\ Jobs /\ DeletedAfter

-----------------------------------------------------------------------------
(* Paths and sequences.                                                    *)

LEMMA Paths ==
  /\ None \notin {"read", "remove"} \X Path /\ None \notin Event
  /\ Inner \notin Path /\ Root # Inner
  /\ \A p \in Path : p[1] \in File /\ Audio(p[1]) \in Path
  /\ \A f \in File : Last(f) \in Path /\ Audio(f) \in Path
  /\ \A p \in Path : Finished(p) \in Nat \ {0}
<1>1. \A p \in Path : Finished(p) \in Nat \ {0}
  BY DirwatchAssumption DEF Finished
<1> QED BY <1>1 DEF Path, Event, None, Inner, Root, Audio, Json, Last

LEMMA JobKinds ==
  \A p, q \in Path :
    /\ <<"read", p>> # None /\ <<"remove", p>> # None /\ <<"read", p>> # <<"remove", q>>
    /\ <<"read", p>> = <<"read", q>> \/ <<"remove", p>> = <<"remove", q>> => p = q
BY DEF None

LEMMA WantedIsLast ==
  ASSUME kind \in Kind, NEW p \in Path, Wanted(p)
  PROVE  p = Last(p[1])
BY DEF Path, Kind, Wanted, Last, Audio, Json

LEMMA PushedGrows ==
  ASSUME NEW s \in Seq(Nat), NEW x \in Nat
  PROVE  Append(s, x) \in Seq(Nat) /\ Append(s, x) # <<>>
BY AppendProperties

LEMMA SeenNoticed ==
  ASSUME Types, NEW w \in Watch, Looks(w)
  PROVE  Seen(w) \in Noticed
BY HeadTailProperties DEF Types, Looks, Seen

LEMMA HandledTypes ==
  ASSUME Types, Objects, NEW w \in Watch, Looks(w), Handled(w), UNCHANGED <<kind, live>>
  PROVE  /\ queue' \in [Watch -> Seq(Noticed)]' /\ hand' \in [Watch -> Noticed \union {None}]'
         /\ hand'[w] = None /\ \A v \in Watch \ {w} : hand'[v] = hand[v]
         /\ \A v \in Watch : ~live[v] => queue'[v] = <<>>
<1>1. Noticed' = Noticed
  BY DEF Noticed, Wanted
<1>2. queue[w] # <<>> => Tail(queue[w]) \in Seq(Noticed)
  BY HeadTailProperties DEF Types
<1>3. ~live[w] => hand[w] # None
  BY DEF Looks, Objects
<1>4. hand[w] = None => queue[w] # <<>>
  BY DEF Looks
<1>5. queue' \in [Watch -> Seq(Noticed)]
  BY <1>2, <1>4 DEF Handled, Types
<1>6. hand' \in [Watch -> Noticed \union {None}]
  BY DEF Handled, Types
<1>7. \A v \in Watch : ~live[v] => queue'[v] = <<>>
  BY <1>3 DEF Handled, Objects, Types
<1> QED BY <1>1, <1>5, <1>6, <1>7 DEF Handled, Types

LEMMA NotifyTypes ==
  ASSUME Types, NEW folder, NEW e \in Noticed, Notify(folder, e), UNCHANGED kind
  PROVE  /\ queue' \in [Watch -> Seq(Noticed)]'
         /\ \A w \in Watch : watched[w] = {} => queue'[w] = queue[w]
<1>1. Noticed' = Noticed
  BY DEF Noticed, Wanted
<1>2. \A w \in Watch : Append(queue[w], e) \in Seq(Noticed)
  BY AppendProperties DEF Types
<1> QED BY <1>1, <1>2 DEF Notify, Types

LEMMA NotifyFileTypes ==
  ASSUME Types, NEW p \in Path, NotifyFile(p), UNCHANGED kind
  PROVE  /\ queue' \in [Watch -> Seq(Noticed)]'
         /\ \A w \in Watch : watched[w] = {} => queue'[w] = queue[w]
<1>1. CASE Wanted(p)
  <2>1. <<"file", p>> \in Noticed
    BY <1>1 DEF Noticed, Event
  <2> QED BY <1>1, <2>1, NotifyTypes DEF NotifyFile
<1>2. CASE ~Wanted(p)
  <2>1. Noticed' = Noticed
    BY DEF Noticed, Wanted
  <2> QED BY <1>2, <2>1 DEF NotifyFile, Types
<1> QED BY <1>1, <1>2

(* What a step that does not touch a part leaves true.                     *)
LEMMA ObjectsKept ==
  ASSUME Objects, UNCHANGED <<cur, live, loop, watched, queue, hand>>
  PROVE  Objects'
BY DEF Objects

LEMMA TimersKept ==
  ASSUME Timers, UNCHANGED <<kind, loop, made, entry, armed, waiting, orphans>>
  PROVE  Timers'
BY DEF Timers, Wanted

LEMMA JobsKept ==
  ASSUME Jobs, UNCHANGED <<kind, deleteAfter, made, job, pushed>>
  PROVE  Jobs'
BY DEF Jobs, Wanted

(* What a worker may begin, and what it may leave.                         *)
MayIngest(w, x, p) == deleteAfter \/ (x = "timer" /\ Wanted(p) /\ made[w][p] > 0)

LEMMA JobsStep ==
  ASSUME Jobs, UNCHANGED <<kind, deleteAfter, made>>,
         \A f \in File : pushed[f] # <<>> => pushed'[f] # <<>>,
         \A w \in Watch, x \in Worker :
           \/ job'[w][x] = job[w][x]
           \/ job'[w][x] = None
           \/ \E p \in Path : job'[w][x] = <<"read", p>> /\ MayIngest(w, x, p)
           \/ \E p \in Path : job'[w][x] = <<"remove", p>> /\ deleteAfter /\ pushed'[p[1]] # <<>>
  PROVE  Jobs'
<1> SUFFICES ASSUME NEW w \in Watch, NEW x \in Worker
             PROVE  /\ x = "walk" /\ job'[w][x] # None => deleteAfter
                    /\ \A p \in Path :
                         /\ job'[w][x] = <<"read", p>> => deleteAfter \/ (Wanted(p) /\ made[w][p] > 0)
                         /\ job'[w][x] = <<"remove", p>> => deleteAfter /\ pushed'[p[1]] # <<>>
  BY DEF Jobs, Wanted
<1>1. CASE job'[w][x] = job[w][x]
  <2>1. \A p \in Path : p[1] \in File
    BY Paths
  <2> QED BY <1>1, <2>1 DEF Jobs
<1>2. CASE job'[w][x] = None
  BY <1>2, JobKinds
<1>3. ASSUME NEW p \in Path, job'[w][x] = <<"read", p>>, MayIngest(w, x, p)
      PROVE  /\ x = "walk" => deleteAfter
             /\ \A q \in Path :
                  /\ job'[w][x] = <<"read", q>> => deleteAfter \/ (Wanted(q) /\ made[w][q] > 0)
                  /\ job'[w][x] # <<"remove", q>>
  BY <1>3, JobKinds DEF MayIngest
<1>4. ASSUME NEW p \in Path, job'[w][x] = <<"remove", p>>, deleteAfter, pushed'[p[1]] # <<>>
      PROVE  \A q \in Path : job'[w][x] = <<"remove", q>> => pushed'[q[1]] # <<>>
  BY <1>4, JobKinds
<1> QED BY <1>1, <1>2, <1>3, <1>4

LEMMA DeletedKept ==
  ASSUME DeletedAfter, UNCHANGED <<kind, deleteAfter, size, present, pushed, made>>
  PROVE  DeletedAfter'
BY DEF DeletedAfter, Last

LEMMA WalkTypes ==
  ASSUME Types, NEW w \in Watch, NEW at \in Going, NEW left \in SUBSET (Path \union {Inner})
  PROVE  /\ [walk EXCEPT ![w].at = at] \in
               [Watch -> [at : {"none"} \union Going, left : SUBSET (Path \union {Inner})]]
         /\ [walk EXCEPT ![w].left = left] \in
               [Watch -> [at : {"none"} \union Going, left : SUBSET (Path \union {Inner})]]
<1>1. walk[w] \in [at : {"none"} \union Going, left : SUBSET (Path \union {Inner})]
  BY DEF Types
<1>2. /\ [walk[w] EXCEPT !.at = at] \in [at : {"none"} \union Going, left : SUBSET (Path \union {Inner})]
      /\ [walk[w] EXCEPT !.left = left] \in [at : {"none"} \union Going, left : SUBSET (Path \union {Inner})]
  BY <1>1
<1> QED BY <1>2 DEF Types

LEMMA JobTypes ==
  ASSUME Types, NEW w \in Watch, NEW x \in Worker, NEW j \in Job,
         job' = [job EXCEPT ![w][x] = j]
  PROVE  /\ job' \in [Watch -> [Worker -> Job]]
         /\ \A v \in Watch, y \in Worker :
              job'[v][y] = IF v = w /\ y = x THEN j ELSE job[v][y]
<1>1. job \in [Watch -> [Worker -> Job]]
  BY DEF Types
<1> QED BY <1>1

LEMMA NoticedKept == UNCHANGED kind => Noticed' = Noticed
BY DEF Noticed, Wanted

-----------------------------------------------------------------------------
LEMMA InvInit == Init => Inv
<1> SUFFICES ASSUME Init PROVE Inv
  OBVIOUS
<1> USE DEF Init
<1>1. Watch \subseteq Nat /\ 1 \in Watch
  BY DirwatchAssumption DEF Watch
<1>2. Types
  <2>0. /\ kind \in Kind /\ deleteAfter \in BOOLEAN /\ inner \in BOOLEAN
        /\ home \in [File -> {Root, Inner}]
    <3>1. PICK s \in Setups : kind = s.kind /\ deleteAfter = s.deleteAfter /\ home = s.home /\ inner = s.inner
      OBVIOUS
    <3>2. s \in Setup
      BY DirwatchAssumption
    <3> QED BY <3>1, <3>2 DEF Setup
  <2>1. size \in [Path -> Nat] /\ \A p \in Path : size[p] <= Finished(p)
    BY Paths
  <2>2. present \in [Path -> BOOLEAN]
    OBVIOUS
  <2>3. walk \in [Watch -> [at : {"none"} \union Going, left : SUBSET (Path \union {Inner})]]
    BY DEF Going
  <2>4. job \in [Watch -> [Worker -> Job]]
    BY DEF Job
  <2>5. queue \in [Watch -> Seq(Noticed)] /\ pushed \in [File -> Seq(Nat)]
    OBVIOUS
  <2> QED BY <1>1, <2>0, <2>1, <2>2, <2>3, <2>4, <2>5 DEF Types, None
<1>3. Objects
  <2>1. \A w \in Watch : hand[w] = None /\ watched[w] = {} /\ queue[w] = <<>> /\ (live[w] <=> w = 1)
    OBVIOUS
  <2>2. \A w \in Watch : w > 1 => loop[w] = "none"
    OBVIOUS
  <2> QED BY <2>1, <2>2 DEF Objects
<1>4. Timers
  BY DEF Timers
<1>5. Jobs
  BY Paths DEF Jobs
<1>6. DeletedAfter
  BY Paths DEF DeletedAfter
<1> QED BY <1>2, <1>3, <1>4, <1>5, <1>6 DEF Inv

-----------------------------------------------------------------------------
(* The recorder and the folder.                                            *)

LEMMA RecorderStep ==
  ASSUME Inv, NEW p \in Path, Create(p) \/ WritePiece(p)
  PROVE  Inv'
<1> USE DEF Inv, ByRecorder, config, timers
<1>1. Timers' /\ Jobs'
  BY TimersKept, JobsKept DEF Create, WritePiece
<1>2. CASE Create(p)
  <2>1. queue' \in [Watch -> Seq(Noticed)]' /\ \A w \in Watch : watched[w] = {} => queue'[w] = queue[w]
    BY <1>2, NotifyFileTypes DEF Create
  <2>2. Types'
    BY <1>2, <2>1, NoticedKept DEF Create, Types
  <2>3. Objects'
    BY <1>2, <2>1 DEF Create, Objects
  <2>4. DeletedAfter'
    BY <1>2, Paths DEF Create, DeletedAfter, Last, Types
  <2> QED BY <1>1, <2>2, <2>3, <2>4
<1>3. CASE WritePiece(p)
  <2>1. queue' \in [Watch -> Seq(Noticed)]' /\ \A w \in Watch : watched[w] = {} => queue'[w] = queue[w]
    <3>1. CASE present[p]
      BY <1>3, <3>1, NotifyFileTypes DEF WritePiece
    <3>2. CASE ~present[p]
      BY <1>3, <3>2, NoticedKept DEF WritePiece, Types
    <3> QED BY <3>1, <3>2
  <2>2. Types'
    <3>1. size' \in [Path -> Nat] /\ \A q \in Path : size'[q] <= Finished(q)
      <4>0. size[p] \in Nat /\ Finished(p) \in Nat /\ size[p] < Finished(p)
        BY <1>3, Paths DEF WritePiece, Types
      <4>1. size[p] + 1 \in Nat /\ size[p] + 1 <= Finished(p)
        BY <4>0
      <4>2. size' = [size EXCEPT ![p] = size[p] + 1]
        BY <1>3 DEF WritePiece
      <4> QED BY <4>1, <4>2 DEF Types
    <3> QED BY <1>3, <2>1, <3>1, NoticedKept DEF WritePiece, Types
  <2>3. Objects'
    BY <1>3, <2>1 DEF WritePiece, Objects
  <2>4. DeletedAfter'
    BY <1>3, Paths DEF WritePiece, Opened, DeletedAfter, Last, Types
  <2> QED BY <1>1, <2>2, <2>3, <2>4
<1> QED BY <1>2, <1>3

LEMMA FolderStep ==
  ASSUME Inv, MakeFolder \/ RemoveFolder
  PROVE  Inv'
<1> USE DEF Inv, ByRecorder, config, timers
<1>1. Timers' /\ Jobs' /\ DeletedAfter'
  BY TimersKept, JobsKept, DeletedKept DEF MakeFolder, RemoveFolder
<1>2. <<"made", Inner>> \in Noticed /\ <<"removed", Inner>> \in Noticed
  BY DEF Noticed, Event
<1>3. UNCHANGED <<config, present, size, cur, live, loop, hand, walk, job, pushed, timers>>
  BY DEF MakeFolder, RemoveFolder
<1>4. queue' \in [Watch -> Seq(Noticed)]' /\ \A w \in Watch : watched[w] = {} => queue'[w] = queue[w]
  BY <1>2, <1>3, NotifyTypes DEF MakeFolder, RemoveFolder
<1>5. watched' \in [Watch -> SUBSET {Root, Inner}] /\ \A w \in Watch : watched'[w] \subseteq watched[w]
  BY DEF MakeFolder, RemoveFolder, Types
<1>6. Types'
  BY <1>3, <1>4, <1>5, NoticedKept DEF MakeFolder, RemoveFolder, Types
<1>7. Objects'
  BY <1>3, <1>4, <1>5 DEF Objects
<1> QED BY <1>1, <1>6, <1>7

-----------------------------------------------------------------------------
(* Start, Stop and the goroutine of events.                                *)

LEMMA StartStep ==
  ASSUME Inv, Start
  PROVE  Inv'
<1> USE DEF Inv, Start, config, disk, timers
<1>1. DeletedAfter' /\ Jobs'
  BY JobsKept, DeletedKept
<1>2. cur + 1 \in Watch /\ cur \in Nat /\ Watch \subseteq Nat
  BY DirwatchAssumption DEF Types, Watch
<1>3. cur' \in Watch /\ cur' > cur /\ cur' # cur
  BY <1>2
<1>4. Types'
  <2>1. walk' \in [Watch -> [at : {"none"} \union Going, left : SUBSET (Path \union {Inner})]]
    BY <1>3, WalkTypes DEF Going
  <2> QED BY <1>3, <2>1, NoticedKept DEF Types
<1>5. Objects'
  BY <1>2, <1>3 DEF Types, Objects
<1>6. Timers'
  BY <1>3 DEF Types, Timers, Wanted
<1> QED BY <1>1, <1>4, <1>5, <1>6

LEMMA StopStep ==
  ASSUME Inv, Stop
  PROVE  Inv'
<1> USE DEF Inv, Stop, config, disk, timers
<1>1. DeletedAfter' /\ Jobs' /\ Timers'
  BY TimersKept, JobsKept, DeletedKept
<1>2. cur \in Watch
  BY DEF Types
<1>3. PICK e \in {None} \union (IF Looks(cur) THEN {Seen(cur)} ELSE {}) :
        hand' = [hand EXCEPT ![cur] = e]
  OBVIOUS
<1>4. e \in Noticed \union {None} /\ (e # None => loop[cur] = "run")
  BY <1>2, <1>3, SeenNoticed DEF Looks
<1>5. Types'
  BY <1>2, <1>3, <1>4, NoticedKept DEF Types
<1>6. Objects'
  BY <1>2, <1>3, <1>4 DEF Types, Objects
<1> QED BY <1>1, <1>5, <1>6

LEMMA HandleFileStep ==
  ASSUME Inv, NEW w \in Watch, HandleFile(w)
  PROVE  Inv'
<1> USE DEF Inv, HandleFile, config, disk
<1>1. PICK p \in Path : p = Seen(w)[2] /\ Wanted(p)
  BY SeenNoticed DEF Noticed
<1>new. PICK new : new = [w |-> w, p |-> p, n |-> made[w][p] + 1, size |-> size[p]]
  OBVIOUS
<1> DEFINE n == made[w][p] + 1
<1>2. /\ made' = [made EXCEPT ![w][p] = n] /\ entry' = [entry EXCEPT ![w][p] = n]
      /\ armed' = (armed \ Entered(w, p)) \union {new}
  BY <1>1, <1>new DEF Arm
<1>3. loop[w] = "run" /\ UNCHANGED <<loop, waiting, orphans, kind>>
  BY DEF Looks
<1>4. n \in Nat /\ n > made[w][p] /\ n > 0 /\ made[w][p] \in Nat /\ new \in Timer
  BY <1>1, <1>new DEF Types, Timer
<1>5. /\ new.w = w /\ new.p = p /\ new.n = n
  BY <1>new
<1> HIDE DEF n
<1>6. /\ queue' \in [Watch -> Seq(Noticed)]' /\ hand' \in [Watch -> Noticed \union {None}]'
      /\ hand'[w] = None /\ \A v \in Watch \ {w} : hand'[v] = hand[v]
      /\ \A v \in Watch : ~live[v] => queue'[v] = <<>>
  BY HandledTypes
<1>7. Types'
  <2>1. orphans' \subseteq armed'
    BY <1>2, <1>3 DEF Types, Timers, Entered
  <2> QED BY <1>1, <1>2, <1>4, <1>6, <2>1, NoticedKept DEF Types
<1>8. Objects'
  BY <1>6 DEF Objects
<1>9. /\ \A v \in Watch, q \in Path :
           /\ made'[v][q] = IF v = w /\ q = p THEN n ELSE made[v][q]
           /\ entry'[v][q] = IF v = w /\ q = p THEN n ELSE entry[v][q]
           /\ made[v][q] \in Nat /\ entry[v][q] \in Nat
      /\ \A v \in Watch, q \in Path : made'[v][q] \in Nat /\ made'[v][q] >= made[v][q]
  <2>1. \A v \in Watch, q \in Path :
          /\ made'[v][q] = IF v = w /\ q = p THEN n ELSE made[v][q]
          /\ entry'[v][q] = IF v = w /\ q = p THEN n ELSE entry[v][q]
          /\ made[v][q] \in Nat /\ entry[v][q] \in Nat
    BY <1>1, <1>2 DEF Types
  <2> QED BY <1>4, <2>1
<1>10. Timers'
  <2>1. \A v \in Watch, q \in Path : entry'[v][q] <= made'[v][q]
    BY <1>4, <1>9 DEF Timers
  <2>2. \A t \in armed \union waiting : t.w \in Watch /\ t.p \in Path /\ t.n \in Nat
    BY DEF Types, Timer
  <2>3. \A t \in armed' \union waiting' : t.n \in 1..made'[t.w][t.p] /\ Wanted(t.p)'
    <3>1. ASSUME NEW t \in armed \union waiting
          PROVE  t.n \in 1..made'[t.w][t.p] /\ Wanted(t.p)'
      <4>1. t.n \in 1..made[t.w][t.p] /\ Wanted(t.p)
        BY DEF Timers
      <4> QED BY <1>3, <1>9, <2>2, <4>1 DEF Wanted
    <3>2. new.n \in 1..made'[new.w][new.p] /\ Wanted(new.p)'
      BY <1>1, <1>3, <1>4, <1>5, <1>9 DEF Wanted
    <3> QED BY <1>2, <1>3, <3>1, <3>2
  <2>4. new \notin waiting
    BY <1>4, <1>5 DEF Timers
  <2>5. armed' \cap waiting' = {}
    BY <1>2, <1>3, <2>4 DEF Timers
  <2>6. ASSUME NEW t \in armed', t \notin orphans'
        PROVE  loop'[t.w] # "done" /\ entry'[t.w][t.p] = t.n
    <3>1. CASE t = new
      BY <1>1, <1>3, <1>5, <1>9, <3>1
    <3>2. CASE t # new
      <4>1. t \in armed \ Entered(w, p)
        BY <1>2, <3>2
      <4>2. loop[t.w] # "done" /\ entry[t.w][t.p] = t.n
        BY <1>3, <2>6, <4>1 DEF Timers
      <4>3. ~(t.w = w /\ t.p = p)
        BY <4>1, <4>2 DEF Entered
      <4> QED BY <1>3, <1>9, <2>2, <4>1, <4>2, <4>3
    <3> QED BY <3>1, <3>2
  <2>7. ASSUME NEW t \in orphans'
        PROVE  entry'[t.w][t.p] # t.n
    <3>1. t \in armed /\ t \in orphans
      BY <1>3, <2>7 DEF Types
    <3>2. t.n \in 1..made[t.w][t.p] /\ entry[t.w][t.p] # t.n
      BY <3>1 DEF Timers
    <3> QED BY <1>4, <1>9, <2>2, <3>1, <3>2
  <2> QED BY <2>1, <2>3, <2>5, <2>6, <2>7 DEF Timers
<1>11. Jobs'
  BY <1>3, <1>9 DEF Jobs, Wanted
<1>12. DeletedAfter'
  <2>1. \A f \in File : Last(f)' = Last(f) /\ Last(f) \in Path
    BY Paths DEF Last
  <2> QED BY <1>9, <2>1 DEF DeletedAfter
<1> QED BY <1>7, <1>8, <1>10, <1>11, <1>12

(* What walkDir does to the watches of an object.                          *)
LEMMA AddTypes ==
  ASSUME Types, Objects, NEW w \in Watch, NEW d \in {Root, Inner}, Add(w, d)
  PROVE  /\ watched' \in [Watch -> SUBSET {Root, Inner}]
         /\ \A v \in Watch : ~live[v] => watched'[v] = {}
BY DEF Types, Objects, Add

LEMMA HandleFolderStep ==
  ASSUME Inv, NEW w \in Watch, HandleMade(w) \/ HandleRemoved(w)
  PROVE  Inv'
<1> USE DEF Inv, config, disk, timers
<1>1. Jobs' /\ DeletedAfter'
  BY JobsKept, DeletedKept DEF HandleMade, HandleRemoved
<1>2. /\ queue' \in [Watch -> Seq(Noticed)]' /\ hand' \in [Watch -> Noticed \union {None}]'
      /\ hand'[w] = None /\ \A v \in Watch \ {w} : hand'[v] = hand[v]
      /\ \A v \in Watch : ~live[v] => queue'[v] = <<>>
  <2>1. Looks(w) /\ Handled(w) /\ UNCHANGED <<kind, live>>
    BY DEF HandleMade, HandleRemoved
  <2> QED BY <2>1, HandledTypes
<1>3. /\ watched' \in [Watch -> SUBSET {Root, Inner}]
      /\ \A v \in Watch : ~live[v] => watched'[v] = {}
  <2>1. CASE UNCHANGED watched
    BY <2>1 DEF Types, Objects
  <2>2. CASE Add(w, Inner)
    BY <2>2, AddTypes
  <2>3. CASE live[w] /\ watched' = [watched EXCEPT ![w] = @ \ {Inner}]
    BY <2>3 DEF Types, Objects
  <2> QED BY <2>1, <2>2, <2>3 DEF HandleMade, HandleRemoved
<1>4. /\ UNCHANGED <<config, disk, cur, live, timers, walk, job, pushed>>
      /\ loop[w] = "run"
      /\ loop' = loop \/ loop' = [loop EXCEPT ![w] = "ending"]
  BY DEF HandleMade, HandleRemoved, Looks
<1>5. Types'
  BY <1>2, <1>3, <1>4, NoticedKept DEF Types
<1>6. Objects'
  BY <1>2, <1>3, <1>4 DEF Objects, Types
<1>7. \A v \in Watch : loop'[v] = "done" => loop[v] = "done"
  BY <1>4 DEF Types
<1>8. Timers'
  BY <1>4, <1>7 DEF Timers, Types, Timer, Wanted
<1> QED BY <1>1, <1>5, <1>6, <1>8

LEMMA FailStep ==
  ASSUME Inv, NEW w \in Watch, Fail(w)
  PROVE  Inv'
<1> USE DEF Inv, Fail, config, disk, timers
<1>1. Jobs' /\ DeletedAfter'
  BY JobsKept, DeletedKept
<1>2. Types'
  BY NoticedKept DEF Types
<1>3. Objects'
  BY DEF Objects, Types
<1>4. \A v \in Watch : loop'[v] = "done" => loop[v] = "done"
  BY DEF Types
<1>5. Timers'
  BY <1>4 DEF Timers, Types, Timer, Wanted
<1> QED BY <1>1, <1>2, <1>3, <1>5

(* The end of the goroutine stops the timers that have their entry.        *)
LEMMA ExitStep ==
  ASSUME Inv, NEW w \in Watch, Exit(w)
  PROVE  Inv'
<1> USE DEF Inv, Exit, config, disk, timers
<1>1. Jobs' /\ DeletedAfter'
  BY JobsKept, DeletedKept
<1>2. Types'
  <2>1. orphans' \subseteq armed'
    BY DEF Types, Timers, Entered
  <2> QED BY <2>1, NoticedKept DEF Types
<1>3. Objects'
  BY DEF Objects, Types
<1>4. /\ armed' \subseteq armed /\ UNCHANGED <<kind, made, waiting, orphans>>
      /\ loop' = [loop EXCEPT ![w] = "done"]
      /\ entry' = [entry EXCEPT ![w] = [p \in Path |-> 0]]
  OBVIOUS
<1>5. \A t \in armed \union waiting : t.w \in Watch /\ t.p \in Path
  BY DEF Types, Timer
<1>6. \A v \in Watch, p \in Path : entry'[v][p] <= made'[v][p]
  <2>1. \A v \in Watch, p \in Path : made[v][p] \in Nat /\ made'[v][p] = made[v][p]
    BY <1>4 DEF Types
  <2>2. \A v \in Watch, p \in Path : entry'[v][p] = IF v = w THEN 0 ELSE entry[v][p]
    BY <1>4 DEF Types
  <2> QED BY <2>1, <2>2 DEF Timers
<1>7. ASSUME NEW t \in armed', t \notin orphans'
      PROVE  t.w # w /\ loop[t.w] # "done" /\ entry[t.w][t.p] = t.n
  <2>1. t \in armed /\ entry[t.w][t.p] = t.n /\ t.p \in Path /\ loop[t.w] # "done"
    BY <1>4, <1>5, <1>7 DEF Timers
  <2> QED BY <1>7, <2>1 DEF Entered
<1>8. Timers'
  <2>1. \A t \in armed' : t \in orphans' \/ (loop'[t.w] # "done" /\ entry'[t.w][t.p] = t.n)
    BY <1>4, <1>5, <1>7 DEF Types
  <2>2. ASSUME NEW t \in orphans'
        PROVE  entry'[t.w][t.p] # t.n
    <3>1. t \in armed /\ t \in orphans /\ t.w \in Watch /\ t.p \in Path /\ t.n \in Nat
      BY <1>4, <2>2 DEF Types, Timer
    <3>2. entry[t.w][t.p] # t.n /\ t.n \in 1..made[t.w][t.p]
      BY <3>1 DEF Timers
    <3>3. t.n # 0
      BY <3>1, <3>2 DEF Types
    <3> QED BY <1>4, <3>1, <3>2, <3>3 DEF Types
  <2> QED BY <1>4, <1>6, <2>1, <2>2 DEF Timers, Wanted
<1> QED BY <1>1, <1>2, <1>3, <1>8

-----------------------------------------------------------------------------
(* Timers.                                                                 *)

LEMMA FireStep ==
  ASSUME Inv, NEW t \in armed, Fire(t)
  PROVE  Inv'
<1> USE DEF Inv, Fire, config, disk
<1>1. Jobs' /\ DeletedAfter' /\ Objects'
  BY JobsKept, DeletedKept, ObjectsKept
<1>2. Types'
  BY NoticedKept DEF Types
<1>3. armed' \union waiting' = armed \union waiting
  OBVIOUS
<1>4. armed' = armed \ {t} /\ orphans' = orphans \ {t} /\ armed' \cap waiting' = {}
  BY DEF Timers
<1>5. Timers'
  BY <1>3, <1>4 DEF Timers, Wanted
<1> QED BY <1>1, <1>2, <1>5

LEMMA RunTimerStep ==
  ASSUME Inv, NEW t \in waiting, RunTimer(t)
  PROVE  Inv'
<1> USE DEF Inv, RunTimer, config, disk
<1>1. DeletedAfter' /\ Objects'
  BY DeletedKept, ObjectsKept
<1>2. t.w \in Watch /\ t.p \in Path /\ Wanted(t.p) /\ made[t.w][t.p] > 0
  BY DEF Types, Timer, Timers
<1>3. entry' = [entry EXCEPT ![t.w][t.p] = 0] /\ UNCHANGED <<made, armed, loop, kind, deleteAfter, pushed>>
  OBVIOUS
<1>4. /\ \A v \in Watch, p \in Path :
           entry'[v][p] = IF v = t.w /\ p = t.p THEN 0 ELSE entry[v][p]
      /\ entry' \in [Watch -> [Path -> Nat]]
  BY <1>2, <1>3 DEF Types
<1>5. <<"read", t.p>> \in Job
  BY <1>2 DEF Job
<1>6. Types'
  <2>1. job' \in [Watch -> [Worker -> Job]]
    BY <1>2, <1>5, JobTypes DEF Types, Worker
  <2>2. orphans' \subseteq armed'
    BY DEF Types, Entered
  <2> QED BY <1>4, <2>1, <2>2, NoticedKept DEF Types
<1>7. Timers'
  <2>1. \A v \in Watch, p \in Path : entry'[v][p] <= made'[v][p]
    <3>1. \A v \in Watch, p \in Path : made[v][p] \in Nat
      BY DEF Types
    <3> QED BY <1>3, <1>4, <3>1 DEF Timers
  <2>2. \A u \in armed : u.w \in Watch /\ u.p \in Path /\ u.n \in Nat /\ u.n # 0
    <3>1. ASSUME NEW u \in armed PROVE u.n # 0
      <4>1. u.w \in Watch /\ u.p \in Path /\ u.n \in Nat /\ u.n \in 1..made[u.w][u.p]
        BY DEF Types, Timer, Timers
      <4> QED BY <4>1 DEF Types
    <3> QED BY <3>1 DEF Types, Timer
  <2>3. orphans' = orphans \union Entered(t.w, t.p) /\ orphans \subseteq armed
    BY DEF Types
  <2>4. ASSUME NEW u \in armed', u \notin orphans'
        PROVE  loop'[u.w] # "done" /\ entry'[u.w][u.p] = u.n
    <3>1. u \in armed /\ u \notin orphans /\ u \notin Entered(t.w, t.p)
      BY <1>3, <2>3, <2>4
    <3>2. loop[u.w] # "done" /\ entry[u.w][u.p] = u.n
      BY <3>1 DEF Timers
    <3>3. ~(u.w = t.w /\ u.p = t.p)
      BY <3>1, <3>2 DEF Entered
    <3> QED BY <1>3, <1>4, <2>2, <3>1, <3>2, <3>3
  <2>5. ASSUME NEW u \in orphans'
        PROVE  entry'[u.w][u.p] # u.n
    <3>1. u \in armed /\ (u \in orphans => entry[u.w][u.p] # u.n)
      BY <2>3, <2>5 DEF Entered, Timers
    <3>2. u \notin orphans => u.w = t.w /\ u.p = t.p
      BY <2>3, <2>5 DEF Entered
    <3> QED BY <1>4, <2>2, <3>1, <3>2
  <2>6. waiting' \subseteq waiting /\ UNCHANGED armed
    OBVIOUS
  <2> QED BY <1>3, <2>1, <2>4, <2>5, <2>6 DEF Timers, Wanted
<1>8. Jobs'
  <2>1. ASSUME NEW v \in Watch, NEW x \in Worker
        PROVE  \/ job'[v][x] = job[v][x]
               \/ v = t.w /\ x = "timer" /\ job'[v][x] = <<"read", t.p>>
    BY <1>2, <1>5, JobTypes DEF Worker
  <2> QED BY <1>2, <1>3, <2>1, JobsStep DEF MayIngest
<1> QED BY <1>1, <1>6, <1>7, <1>8

-----------------------------------------------------------------------------
(* Ingest.                                                                 *)

LEMMA ReadStep ==
  ASSUME Inv, NEW w \in Watch, NEW x \in Worker, Read(w, x)
  PROVE  Inv'
<1> USE DEF Inv, config, disk, timers
<1>1. /\ UNCHANGED <<config, disk, cur, live, loop, watched, dirs, queue, hand, timers, walk>>
      /\ job[w][x] \in {"read"} \X Path
  BY DEF Read
<1>2. Objects' /\ Timers'
  BY <1>1, ObjectsKept, TimersKept
<1>3. PICK p \in Path : job[w][x] = <<"read", p>>
  BY <1>1
<1>4. CASE ~Readable(p)
  <2>1. job' = [job EXCEPT ![w][x] = None] /\ UNCHANGED pushed
    BY <1>3, <1>4 DEF Read
  <2>2. /\ job' \in [Watch -> [Worker -> Job]]
        /\ \A v \in Watch, y \in Worker : job'[v][y] = job[v][y] \/ job'[v][y] = None
    BY <2>1, JobTypes DEF Job
  <2>3. Jobs'
    BY <1>1, <2>1, <2>2, JobsStep
  <2>4. DeletedAfter'
    BY <1>1, <2>1, DeletedKept
  <2>5. Types'
    BY <1>1, <2>1, <2>2, NoticedKept DEF Types
  <2> QED BY <1>2, <2>3, <2>4, <2>5
<1>5. CASE Readable(p)
  <2>1. /\ job' = [job EXCEPT ![w][x] = IF deleteAfter THEN <<"remove", p>> ELSE None]
        /\ pushed' = [pushed EXCEPT ![p[1]] = Append(pushed[p[1]], size[Audio(p[1])])]
    BY <1>3, <1>5 DEF Read
  <2>2. /\ pushed' \in [File -> Seq(Nat)] /\ pushed'[p[1]] # <<>>
        /\ \A f \in File \ {p[1]} : pushed'[f] = pushed[f]
    <3>1. p[1] \in File /\ size[Audio(p[1])] \in Nat
      BY Paths DEF Types
    <3>2. Append(pushed[p[1]], size[Audio(p[1])]) \in Seq(Nat) /\ Append(pushed[p[1]], size[Audio(p[1])]) # <<>>
      BY <3>1, PushedGrows DEF Types
    <3> QED BY <2>1, <3>1, <3>2 DEF Types
  <2>3. job' \in [Watch -> [Worker -> Job]]
    BY <2>1, JobTypes DEF Job
  <2>4. Types'
    BY <1>1, <2>2, <2>3, NoticedKept DEF Types
  <2>5. Jobs'
    <3>1. ASSUME NEW v \in Watch, NEW y \in Worker
          PROVE  \/ job'[v][y] = job[v][y]
                 \/ job'[v][y] = None
                 \/ job'[v][y] = <<"remove", p>> /\ deleteAfter
      BY <2>1, JobTypes DEF Job
    <3>2. \A f \in File : pushed[f] # <<>> => pushed'[f] # <<>>
      BY <2>2
    <3>3. UNCHANGED <<kind, deleteAfter, made>>
      BY <1>1
    <3> QED BY <2>2, <3>1, <3>2, <3>3, JobsStep
  <2>6. DeletedAfter'
    <3>1. deleteAfter \/ (Wanted(p) /\ made[w][p] > 0)
      BY <1>3 DEF Jobs
    <3>2. ~deleteAfter => \E v \in Watch : made[v][Last(p[1])] > 0
      BY <3>1, WantedIsLast DEF Types
    <3> QED BY <1>1, <2>2, <3>2 DEF DeletedAfter, Last
  <2> QED BY <1>2, <2>4, <2>5, <2>6
<1> QED BY <1>4, <1>5

LEMMA RemoveStep ==
  ASSUME Inv, NEW w \in Watch, NEW x \in Worker, Remove(w, x)
  PROVE  Inv'
<1> USE DEF Inv, config, disk, timers
<1>1. PICK p \in Path : job[w][x] = <<"remove", p>>
  BY DEF Remove
<1>2. /\ present' = IF present[p] THEN [present EXCEPT ![p] = FALSE, ![Audio(p[1])] = FALSE] ELSE present
      /\ job' = [job EXCEPT ![w][x] = None]
      /\ UNCHANGED <<config, size, inner, cur, live, loop, watched, dirs, queue, hand, timers, walk, pushed>>
  BY <1>1 DEF Remove
<1>3. Objects' /\ Timers'
  BY <1>2, ObjectsKept, TimersKept
<1>new. /\ job' \in [Watch -> [Worker -> Job]]
        /\ \A v \in Watch, y \in Worker : job'[v][y] = job[v][y] \/ job'[v][y] = None
  BY <1>2, JobTypes DEF Job
<1>4. Types'
  BY <1>2, <1>new, NoticedKept DEF Types
<1>5. Jobs'
  BY <1>2, <1>new, JobsStep
<1>6. deleteAfter /\ pushed[p[1]] # <<>>
  BY <1>1 DEF Jobs
<1>7. \A f \in File : f # p[1] => present'[Audio(f)] = present[Audio(f)]
  <2>1. \A f \in File : f # p[1] => Audio(f) # p /\ Audio(f) # Audio(p[1]) /\ Audio(f) \in Path
    BY DEF Path, Audio
  <2> QED BY <1>2, <2>1 DEF Types
<1>8. DeletedAfter'
  BY <1>2, <1>6, <1>7 DEF DeletedAfter, Last
<1> QED BY <1>3, <1>4, <1>5, <1>8

-----------------------------------------------------------------------------
(* The walk.                                                               *)

LEMMA WalkStep ==
  ASSUME Inv, NEW w \in Watch, Walk(w)
  PROVE  Inv'
<1> USE DEF Inv, config, disk, timers
<1> DEFINE Walks == [Watch -> [at : {"none"} \union Going, left : SUBSET (Path \union {Inner})]]
<1>1. /\ UNCHANGED <<config, disk, cur, live, loop, queue, hand, timers, pushed>>
      /\ UNCHANGED watched \/ \E d \in {Root, Inner} : Add(w, d)
  BY DEF Walk, WalkRoot, WalkList, WalkFolder, WalkFile, WalkDone
<1>2. Timers' /\ DeletedAfter'
  BY <1>1, TimersKept, DeletedKept
<1>3. /\ watched' \in [Watch -> SUBSET {Root, Inner}]
      /\ \A v \in Watch : ~live[v] => watched'[v] = {}
  BY <1>1, AddTypes DEF Types, Objects
<1>4. Objects'
  BY <1>1, <1>3 DEF Objects
<1>5. walk[w].left \subseteq Path \union {Inner} /\ \A d : Listed(d) \subseteq Path
  BY DEF Types, Listed
<1>6. walk' \in Walks
  <2>at. /\ [walk EXCEPT ![w].at = "list"] \in Walks
         /\ [walk EXCEPT ![w].at = "done"] \in Walks
         /\ [walk EXCEPT ![w].at = "broken"] \in Walks
    BY WalkTypes DEF Going
  <2>left. \A left \in SUBSET (Path \union {Inner}) : [walk EXCEPT ![w].left = left] \in Walks
    BY WalkTypes DEF Going
  <2>1. CASE WalkRoot(w) \/ WalkDone(w)
    BY <2>1, <2>at DEF WalkRoot, WalkDone
  <2>2. CASE WalkList(w)
    <3>1. [at |-> "visit", left |-> Listed(Root) \union (IF inner THEN {Inner} ELSE {})]
            \in [at : {"none"} \union Going, left : SUBSET (Path \union {Inner})]
      BY <1>5 DEF Going
    <3>2. walk' = [walk EXCEPT ![w] = [at |-> "visit", left |-> Listed(Root) \union (IF inner THEN {Inner} ELSE {})]]
      BY <2>2 DEF WalkList
    <3>3. walk \in Walks
      BY DEF Types
    <3> QED BY <3>1, <3>2, <3>3
  <2>3. CASE WalkFolder(w)
    <3>1. (walk[w].left \ {Inner}) \union Listed(Inner) \subseteq Path \union {Inner}
      BY <1>5
    <3>2. \/ walk' = [walk EXCEPT ![w].left = (walk[w].left \ {Inner}) \union Listed(Inner)]
          \/ walk' = [walk EXCEPT ![w].at = "done"]
          \/ walk' = [walk EXCEPT ![w].at = "broken"]
      BY <2>3 DEF WalkFolder
    <3> QED BY <3>1, <3>2, <2>at, <2>left
  <2>4. ASSUME NEW p \in Path, WalkFile(w, p)
        PROVE  walk' \in Walks
    <3>1. walk[w].left \ {p} \subseteq Path \union {Inner}
      BY <1>5
    <3> QED BY <2>4, <3>1, <2>left DEF WalkFile
  <2> QED BY <2>1, <2>2, <2>3, <2>4 DEF Walk
<1>7. UNCHANGED job \/ \E p \in Path : deleteAfter /\ job' = [job EXCEPT ![w]["walk"] = <<"read", p>>]
  BY DEF Walk, WalkRoot, WalkList, WalkFolder, WalkFile, WalkDone
<1>8. /\ job' \in [Watch -> [Worker -> Job]]
      /\ \A v \in Watch, y \in Worker :
           \/ job'[v][y] = job[v][y]
           \/ deleteAfter /\ \E p \in Path : job'[v][y] = <<"read", p>>
  <2>1. CASE UNCHANGED job
    BY <2>1 DEF Types
  <2>2. ASSUME NEW p \in Path, deleteAfter, job' = [job EXCEPT ![w]["walk"] = <<"read", p>>]
        PROVE  /\ job' \in [Watch -> [Worker -> Job]]
               /\ \A v \in Watch, y \in Worker :
                    job'[v][y] = job[v][y] \/ job'[v][y] = <<"read", p>>
    <3>1. <<"read", p>> \in Job /\ "walk" \in Worker
      BY DEF Job, Worker
    <3> QED BY <2>2, <3>1, JobTypes
  <2> QED BY <1>7, <2>1, <2>2
<1>9. Types'
  BY <1>1, <1>3, <1>6, <1>8, NoticedKept DEF Types
<1>10. Jobs'
  BY <1>1, <1>8, JobsStep DEF MayIngest
<1> QED BY <1>2, <1>4, <1>9, <1>10

-----------------------------------------------------------------------------
LEMMA InvStep ==
  ASSUME Inv, [Next]_vars
  PROVE  Inv'
<1>1. CASE UNCHANGED vars
  <2>1. UNCHANGED <<config, disk, cur, live, loop, watched, queue, hand, timers, walk, job, pushed>>
    BY <1>1 DEF vars
  <2> QED BY <2>1, NoticedKept, ObjectsKept, TimersKept, JobsKept, DeletedKept
          DEF Inv, Types, config, disk, timers
<1> QED BY <1>1, RecorderStep, FolderStep, StartStep, StopStep, HandleFileStep, HandleFolderStep,
           FailStep, ExitStep, FireStep, RunTimerStep, ReadStep, RemoveStep, WalkStep
        DEF Next, Loop, Ingest

LEMMA InvAlways == Spec => []Inv
BY InvInit, InvStep, PTL DEF Spec

(* The types; only the object started last has a watcher, and an entry is  *)
(* a timer that was made.                                                  *)
THEOREM TypeCorrect == Spec => []TypeOK
<1>1. ASSUME Inv PROVE TypeOK
  <2> USE <1>1 DEF Inv
  <2>1. \A p \in Path : size[p] \in 0..Finished(p)
    BY Paths DEF Types
  <2>2. \A t \in armed : t \notin waiting /\ t.n \in 1..made[t.w][t.p]
    BY DEF Timers
  <2>3. \A w \in Watch, p \in Path : entry[w][p] \in 0..made[w][p]
    BY DEF Types, Timers
  <2>4. \A w \in Watch : hand[w] # None => hand[w] \in Event /\ loop[w] = "run"
    BY DEF Types, Objects, Noticed
  <2> QED BY <2>1, <2>2, <2>3, <2>4 DEF Types, Objects, TypeOK
<1> QED BY <1>1, InvAlways, PTL

(* A recording disappears only when it was ingested and the option is on;  *)
(* when it is off, one that is ingested was written while the folder was   *)
(* watched.                                                                *)
THEOREM DeletedAfterSafe == Spec => []DeletedAfter
<1>1. Inv => DeletedAfter
  BY DEF Inv
<1> QED BY <1>1, InvAlways, PTL

(* No timer outlives the goroutine of events but one whose entry an        *)
(* earlier timer of its file has deleted.                                  *)
THEOREM ExitStopsTimersSafe == Spec => []ExitStopsTimers
<1>1. Inv => ExitStopsTimers
  BY DEF Inv, Timers, ExitStopsTimers
<1> QED BY <1>1, InvAlways, PTL
=============================================================================
