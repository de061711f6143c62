------------------------------ MODULE Dirwatch ------------------------------
(***************************************************************************)
(* Watched folders (dirwatch.go).  A recorder creates files and writes     *)
(* them piece by piece; a Dirwatch arms a timer at every event of a file   *)
(* and ingests the file when the timer runs, or when its first walk of the *)
(* folder meets the file and files are deleted after.  Saving the          *)
(* configuration stops a Dirwatch and starts a new one for the folder: the *)
(* old one's timers and walk may still run, beside the new one's.          *)
(*                                                                         *)
(* Time is in the guards: the recorder never pauses for as long as the     *)
(* delay, so a timer fires only when its file is finished or was written   *)
(* after the timer was armed.                                              *)
(***************************************************************************)
EXTENDS Naturals, Sequences, FiniteSets

CONSTANTS
  File,        \* recordings
  Bad,         \* those whose metadata make no valid call
  Size,        \* pieces of a recording
  Setups,      \* what the folder is configured as, and holds folders, at first
  MaxSaves,    \* bound on the times the configuration is saved
  MaxTroubles  \* bound on saves, errors of the watcher, and the times the
               \* inner folder is made or removed, together

(* The Dirwatch objects for the folder, one after another.                 *)
Watch == 1..MaxSaves + 1

Kind == {"default", "trunk-recorder"}   \* dsdplus and sdr-trunk are as default

Root  == <<"folder", "watched">>
Inner == <<"folder", "inner">>

(* Where recordings are made, and whether the inner folder is there.       *)
Setup == [kind : Kind, deleteAfter : BOOLEAN, home : [File -> {Root, Inner}], inner : BOOLEAN]

ASSUME DirwatchAssumption ==
  /\ Bad \subseteq File
  /\ Size \in Nat \ {0}
  /\ Setups \subseteq Setup
  /\ MaxSaves \in Nat /\ MaxTroubles \in Nat

(* A recording is a file, and with trunk-recorder a JSON file beside it.   *)
Audio(f) == <<f, "audio">>
Json(f)  == <<f, "json">>
Path     == File \X {"audio", "json"}
Finished(p) == IF p[2] = "audio" THEN Size ELSE 1

VARIABLES
  kind, deleteAfter,   \* the configuration of the folder
  present, size,       \* files: whether their name exists, pieces written
  home,                \* the folder a recording is made in
  inner,               \* whether the inner folder exists
  cur,                 \* the object started last
  live,                \* dirwatch.watcher is set
  loop,                \* the goroutine of events
  watched,             \* folders with a watch
  dirs,                \* dirwatch.dirs
  queue, hand,         \* events; one taken when the watcher was closed
  made,                \* timers made so far, of each path
  entry,               \* dirwatch.timers: the number of the timer, or 0
  armed, waiting,      \* timers that have not fired, and that wait for the mutex
  orphans,             \* armed timers whose entry an earlier one deleted
  walk,                \* the goroutine of the walk
  job,                 \* files being ingested, by a timer or by the walk
  pushed,              \* sizes at which a recording was sent to be ingested
  troubles

disk   == <<present, size, inner>>
config == <<kind, deleteAfter, home>>
timers == <<made, entry, armed, waiting, orphans>>
vars   == <<config, disk, cur, live, loop, watched, dirs, queue, hand, timers, walk, job, pushed, troubles>>

Folder(p) == home[p[1]]

None   == <<>>
Worker == {"timer", "walk"}
Timer  == [w : Watch, p : Path, n : Nat, size : Nat]
Event  == {"file", "made", "removed"} \X (Path \union {Inner})
Going  == {"sleep", "list", "visit", "done", "broken"}

(* The first object was started; recordings of an earlier time may lie in  *)
(* the folder.                                                             *)
Init ==
  /\ \E s \in Setups : kind = s.kind /\ deleteAfter = s.deleteAfter /\ home = s.home /\ inner = s.inner
  /\ \E old \in SUBSET {f \in File : home[f] = Root} :
       /\ present = [p \in Path |-> p[1] \in old /\ (p[2] = "audio" \/ kind = "trunk-recorder")]
       /\ size = [p \in Path |-> IF present[p] THEN Finished(p) ELSE 0]
  /\ cur = 1
  /\ live = [w \in Watch |-> w = 1]
  /\ loop = [w \in Watch |-> IF w = 1 THEN "run" ELSE "none"]
  /\ watched = [w \in Watch |-> {}]
  /\ dirs = [w \in Watch |-> {}]
  /\ queue = [w \in Watch |-> <<>>]
  /\ hand = [w \in Watch |-> None]
  /\ made = [w \in Watch |-> [p \in Path |-> 0]]
  /\ entry = made
  /\ armed = {} /\ waiting = {} /\ orphans = {}
  /\ walk = [w \in Watch |-> [at |-> IF w = 1 THEN "sleep" ELSE "none", left |-> {}]]
  /\ job = [w \in Watch |-> [x \in Worker |-> None]]
  /\ pushed = [f \in File |-> <<>>]
  /\ troubles = 0

-----------------------------------------------------------------------------
(* The recorder.  With trunk-recorder the JSON file comes last.            *)

(* The files of a kind that are ingested.  The timers of others find       *)
(* nothing to do and are left out.                                         *)
Wanted(p) == IF kind = "trunk-recorder" THEN p[2] = "json" ELSE p[2] = "audio"

Trouble == troubles < MaxTroubles /\ troubles' = troubles + 1

Notify(folder, e) ==
  queue' = [w \in Watch |-> IF folder \in watched[w] THEN Append(queue[w], e) ELSE queue[w]]

NotifyFile(p) == IF Wanted(p) THEN Notify(Folder(p), <<"file", p>>) ELSE UNCHANGED queue

ByRecorder ==
  UNCHANGED <<config, cur, live, loop, dirs, hand, timers, walk, job, pushed>>

Create(p) ==
  /\ ~present[p] /\ size[p] = 0
  /\ Folder(p) = Inner => inner
  /\ p[2] = "json" => kind = "trunk-recorder" /\ size[Audio(p[1])] = Size
  /\ present' = [present EXCEPT ![p] = TRUE]
  /\ NotifyFile(p)
  /\ UNCHANGED <<size, inner, watched, troubles>> /\ ByRecorder

(* A file that was removed is written on, without a name.                  *)
Opened(p) == present[p] \/ size[p] > 0

WritePiece(p) ==
  /\ Opened(p) /\ size[p] < Finished(p)
  /\ size' = [size EXCEPT ![p] = @ + 1]
  /\ IF present[p] THEN NotifyFile(p) ELSE UNCHANGED queue
  /\ UNCHANGED <<present, inner, watched, troubles>> /\ ByRecorder

(* Somebody makes the inner folder only for what is recorded there.        *)
MakeFolder ==
  /\ ~inner /\ Trouble /\ \E f \in File : home[f] = Inner
  /\ inner' = TRUE
  /\ Notify(Root, <<"made", Inner>>)
  /\ UNCHANGED <<present, size, watched>> /\ ByRecorder

(* The watch of a folder goes with the folder.                             *)
RemoveFolder ==
  /\ inner /\ Trouble
  /\ \A p \in Path : Folder(p) = Inner => ~present[p]
  /\ inner' = FALSE
  /\ Notify(Root, <<"removed", Inner>>)
  /\ watched' = [w \in Watch |-> watched[w] \ {Inner}]
  /\ UNCHANGED <<present, size>> /\ ByRecorder

-----------------------------------------------------------------------------
(* Start and Stop.                                                         *)

Start ==
  /\ cur <= MaxSaves /\ ~live[cur]
  /\ cur' = cur + 1
  /\ live' = [live EXCEPT ![cur'] = TRUE]
  /\ loop' = [loop EXCEPT ![cur'] = "run"]
  /\ walk' = [walk EXCEPT ![cur'].at = "sleep"]
  /\ UNCHANGED <<config, disk, watched, dirs, queue, hand, timers, job, pushed, troubles>>

(* The event the goroutine of events looks at: what it had in hand when    *)
(* the watcher was closed, or the next one.                                *)
Looks(w) == loop[w] = "run" /\ (hand[w] # None \/ queue[w] # <<>>)
Seen(w)  == IF hand[w] # None THEN hand[w] ELSE Head(queue[w])

Stop ==
  /\ cur <= MaxSaves /\ live[cur] /\ Trouble
  /\ live' = [live EXCEPT ![cur] = FALSE]
  /\ watched' = [watched EXCEPT ![cur] = {}]
  /\ queue' = [queue EXCEPT ![cur] = <<>>]
  /\ hand' \in {[hand EXCEPT ![cur] = e] : e \in {None} \union (IF Looks(cur) THEN {Seen(cur)} ELSE {})}
  /\ UNCHANGED <<config, disk, cur, loop, dirs, timers, walk, job, pushed>>

-----------------------------------------------------------------------------
(* The goroutine of events.  The mutex is held while a timer ingests.      *)

Free(w) == job[w]["timer"] = None

Handled(w) ==
  /\ hand' = [hand EXCEPT ![w] = None]
  /\ queue' = [queue EXCEPT ![w] = IF hand[w] = None THEN Tail(@) ELSE @]

(* The timer that has the entry of the path, if it has not fired.          *)
Entered(w, p) == {t \in armed : t.w = w /\ t.p = p /\ t.n = entry[w][p]}

(* Mutant: only the first event of a file arms a timer.                    *)
ArmOnce(w, p) ==
  LET n == made[w][p] + 1 IN
  /\ made' = [made EXCEPT ![w][p] = n]
  /\ entry' = [entry EXCEPT ![w][p] = n]
  /\ armed' = IF n = 1 THEN armed \union {[w |-> w, p |-> p, n |-> n, size |-> size[p]]} ELSE armed

(* It makes room for a new one.                                            *)
Arm(w, p) ==
  LET n == made[w][p] + 1 IN
  /\ made' = [made EXCEPT ![w][p] = n]
  /\ entry' = [entry EXCEPT ![w][p] = n]
  /\ armed' = (armed \ Entered(w, p)) \union {[w |-> w, p |-> p, n |-> n, size |-> size[p]]}

HandleFile(w) ==
  /\ Looks(w) /\ Seen(w)[1] = "file" /\ Free(w)
  /\ Arm(w, Seen(w)[2])
  /\ Handled(w)
  /\ UNCHANGED <<config, disk, cur, live, loop, watched, dirs, waiting, orphans, walk, job, pushed, troubles>>

(* Adding a folder when there is no watcher any more is a panic, which     *)
(* ends the goroutine.                                                     *)
Add(w, d) ==
  /\ dirs' = [dirs EXCEPT ![w] = @ \union {d}]
  /\ watched' = IF live[w] THEN [watched EXCEPT ![w] = @ \union {d}] ELSE watched

(* walkDir: files that are there already are left alone.                   *)
HandleMade(w) ==
  /\ Looks(w) /\ Seen(w)[1] = "made"
  /\ Handled(w)
  /\ IF inner /\ Inner \notin dirs[w]
     THEN Add(w, Inner) /\ loop' = IF live[w] THEN loop ELSE [loop EXCEPT ![w] = "ending"]
     ELSE UNCHANGED <<dirs, watched, loop>>
  /\ UNCHANGED <<config, disk, cur, live, timers, walk, job, pushed, troubles>>

(* The watcher may have dropped the watch by itself: its error leaves dirs *)
(* as it is.                                                               *)
HandleRemoved(w) ==
  /\ Looks(w) /\ Seen(w)[1] = "removed"
  /\ Handled(w)
  /\ \/ UNCHANGED <<dirs, watched>>
     \/ /\ live[w]
        /\ dirs' = [dirs EXCEPT ![w] = @ \ {Inner}]
        /\ watched' = [watched EXCEPT ![w] = @ \ {Inner}]
  /\ UNCHANGED <<config, disk, cur, live, loop, timers, walk, job, pushed, troubles>>

(* An error of the watcher, or its end, ends the goroutine.                *)
Fail(w) ==
  /\ loop[w] = "run" /\ live[w] /\ Trouble
  /\ loop' = [loop EXCEPT ![w] = "ending"]
  /\ UNCHANGED <<config, disk, cur, live, watched, dirs, queue, hand, timers, walk, job, pushed>>

(* Mutant: the timers are forgotten and not stopped.                       *)
ExitForgets(w) ==
  /\ hand[w] = None /\ Free(w)
  /\ loop[w] = "ending" \/ (loop[w] = "run" /\ ~live[w])
  /\ loop' = [loop EXCEPT ![w] = "done"]
  /\ entry' = [entry EXCEPT ![w] = [p \in Path |-> 0]]
  /\ UNCHANGED <<config, disk, cur, live, watched, dirs, queue, hand, made, armed, waiting, orphans, walk, job, pushed, troubles>>

(* Timers in the table are stopped.  While the watcher is still set Start  *)
(* is called, and refuses because it is.                                   *)
Exit(w) ==
  /\ hand[w] = None /\ Free(w)
  /\ loop[w] = "ending" \/ (loop[w] = "run" /\ ~live[w])
  /\ loop' = [loop EXCEPT ![w] = "done"]
  /\ armed' = armed \ UNION {Entered(w, p) : p \in Path}
  /\ entry' = [entry EXCEPT ![w] = [p \in Path |-> 0]]
  /\ UNCHANGED <<config, disk, cur, live, watched, dirs, queue, hand, made, waiting, orphans, walk, job, pushed, troubles>>

-----------------------------------------------------------------------------
(* Timers.                                                                 *)

Fire(t) ==
  /\ t \in armed
  /\ size[t.p] = Finished(t.p) \/ size[t.p] > t.size
  /\ armed' = armed \ {t}
  /\ waiting' = waiting \union {t}
  /\ orphans' = orphans \ {t}
  /\ UNCHANGED <<config, disk, cur, live, loop, watched, dirs, queue, hand, made, entry, walk, job, pushed, troubles>>

(* The entry is deleted, be it of this timer or of a later one, which then *)
(* has none.                                                               *)
RunTimer(t) ==
  /\ t \in waiting /\ Free(t.w)
  /\ waiting' = waiting \ {t}
  /\ entry' = [entry EXCEPT ![t.w][t.p] = 0]
  /\ orphans' = orphans \union Entered(t.w, t.p)
  /\ job' = IF present[t.p] THEN [job EXCEPT ![t.w]["timer"] = <<"read", t.p>>]
            ELSE job
  /\ UNCHANGED <<config, disk, cur, live, loop, watched, dirs, queue, hand, made, armed, walk, pushed, troubles>>

-----------------------------------------------------------------------------
(* Ingest.                                                                 *)

(* What must be there for a call to be made of it.                         *)
Readable(p) ==
  /\ present[p] /\ present[Audio(p[1])]
  /\ kind = "trunk-recorder" => size[p] = Finished(p)
  /\ size[Audio(p[1])] > 0 /\ p[1] \notin Bad

Read(w, x) ==
  LET p == job[w][x][2] IN
  /\ job[w][x] \in {"read"} \X Path
  /\ IF Readable(p)
     THEN /\ pushed' = [pushed EXCEPT ![p[1]] = Append(@, size[Audio(p[1])])]
          /\ job' = [job EXCEPT ![w][x] = IF deleteAfter THEN <<"remove", p>> ELSE None]
     ELSE job' = [job EXCEPT ![w][x] = None] /\ UNCHANGED pushed
  /\ UNCHANGED <<config, disk, cur, live, loop, watched, dirs, queue, hand, timers, walk, troubles>>

(* Nothing more is removed when the file is gone already.                  *)
Remove(w, x) ==
  LET p == job[w][x][2] IN
  /\ job[w][x] \in {"remove"} \X Path
  /\ present' = IF present[p] THEN [present EXCEPT ![p] = FALSE, ![Audio(p[1])] = FALSE] ELSE present
  /\ job' = [job EXCEPT ![w][x] = None]
  /\ UNCHANGED <<config, size, inner, cur, live, loop, watched, dirs, queue, hand, timers, walk, pushed, troubles>>

-----------------------------------------------------------------------------
(* The walk, once the delay has passed.  It ends at the first folder it    *)
(* meets without a watcher; it does not look at the watcher before a file. *)

(* Mutant: a watcher that was closed is used.                              *)
WalkRootClosed(w) ==
  /\ walk[w].at = "sleep"
  /\ dirs' = [dirs EXCEPT ![w] = @ \union {Root}]
  /\ watched' = [watched EXCEPT ![w] = @ \union {Root}]
  /\ walk' = [walk EXCEPT ![w].at = "list"]
  /\ UNCHANGED <<config, disk, cur, live, loop, queue, hand, timers, job, pushed, troubles>>

WalkRoot(w) ==
  /\ walk[w].at = "sleep"
  /\ Add(w, Root)
  /\ walk' = [walk EXCEPT ![w].at = IF live[w] THEN "list" ELSE "done"]
  /\ UNCHANGED <<config, disk, cur, live, loop, queue, hand, timers, job, pushed, troubles>>

Listed(d) == {p \in Path : present[p] /\ Wanted(p) /\ Folder(p) = d}

WalkList(w) ==
  /\ walk[w].at = "list"
  /\ walk' = [walk EXCEPT ![w] = [at |-> "visit",
                                  left |-> Listed(Root) \union (IF inner THEN {Inner} ELSE {})]]
  /\ UNCHANGED <<config, disk, cur, live, loop, watched, dirs, queue, hand, timers, job, pushed, troubles>>

Visiting(w) == walk[w].at = "visit" /\ job[w]["walk"] = None

(* A folder that goes before it is read, or before it is even looked at,   *)
(* is an error that ends the walk: what was listed after it is not met.    *)
WalkFolder(w) ==
  /\ Visiting(w) /\ Inner \in walk[w].left
  /\ \/ /\ inner /\ Add(w, Inner)
        /\ walk' = IF live[w] THEN [walk EXCEPT ![w].left = (@ \ {Inner}) \union Listed(Inner)]
                   ELSE [walk EXCEPT ![w].at = "done"]
     \/ /\ ~inner /\ walk' = [walk EXCEPT ![w].at = "broken"]
        /\ UNCHANGED watched
        /\ \/ UNCHANGED dirs
           \/ live[w] /\ dirs' = [dirs EXCEPT ![w] = @ \union {Inner}]
  /\ UNCHANGED <<config, disk, cur, live, loop, queue, hand, timers, job, pushed, troubles>>

(* Mutant: files are ingested although they are to stay.                   *)
WalkFileAlways(w, p) ==
  /\ Visiting(w) /\ p \in walk[w].left
  /\ walk' = [walk EXCEPT ![w].left = @ \ {p}]
  /\ job' = [job EXCEPT ![w]["walk"] = <<"read", p>>]
  /\ UNCHANGED <<config, disk, cur, live, loop, watched, dirs, queue, hand, timers, pushed, troubles>>

WalkFile(w, p) ==
  /\ Visiting(w) /\ p \in walk[w].left
  /\ walk' = [walk EXCEPT ![w].left = @ \ {p}]
  /\ job' = IF deleteAfter THEN [job EXCEPT ![w]["walk"] = <<"read", p>>] ELSE job
  /\ UNCHANGED <<config, disk, cur, live, loop, watched, dirs, queue, hand, timers, pushed, troubles>>

WalkDone(w) ==
  /\ Visiting(w) /\ walk[w].left = {}
  /\ walk' = [walk EXCEPT ![w].at = "done"]
  /\ UNCHANGED <<config, disk, cur, live, loop, watched, dirs, queue, hand, timers, job, pushed, troubles>>

-----------------------------------------------------------------------------
Loop(w) == HandleFile(w) \/ HandleMade(w) \/ HandleRemoved(w) \/ Exit(w)
Ingest(w, x) == Read(w, x) \/ Remove(w, x)
Walk(w) == WalkRoot(w) \/ WalkList(w) \/ WalkFolder(w) \/ (\E p \in Path : WalkFile(w, p)) \/ WalkDone(w)

Next ==
  \/ \E p \in Path : Create(p) \/ WritePiece(p)
  \/ MakeFolder \/ RemoveFolder
  \/ Start \/ Stop
  \/ \E w \in Watch : Loop(w) \/ Fail(w) \/ Walk(w) \/ \E x \in Worker : Ingest(w, x)
  \/ \E t \in armed : Fire(t)
  \/ \E t \in waiting : RunTimer(t)

(* Goroutines run, timers fire, and the mutex is given to whoever waits    *)
(* for it; a recording that was begun is finished.                         *)
Fairness ==
  /\ \A w \in Watch :
       /\ SF_vars(Loop(w))
       /\ WF_vars(Walk(w) \/ Ingest(w, "walk"))
       /\ WF_vars(Ingest(w, "timer"))
  /\ \A w \in Watch, f \in File :
       /\ WF_vars(\E t \in armed : t.w = w /\ t.p[1] = f /\ Fire(t))
       /\ SF_vars(\E t \in waiting : t.w = w /\ t.p[1] = f /\ RunTimer(t))
  /\ \A f \in File : WF_vars(WritePiece(Audio(f)) \/ WritePiece(Json(f)))

Spec == Init /\ [][Next]_vars /\ Fairness

-----------------------------------------------------------------------------
(* Types, and: a path's entry is a timer that was made; only the current   *)
(* object has a watcher.                                                   *)
TypeOK ==
  /\ present \in [Path -> BOOLEAN]
  /\ \A p \in Path : size[p] \in 0..Finished(p)
  /\ armed \subseteq Timer /\ waiting \subseteq Timer /\ orphans \subseteq armed
  /\ \A t \in armed : t \notin waiting /\ t.n \in 1..made[t.w][t.p]
  /\ \A w \in Watch :
       /\ \A p \in Path : entry[w][p] \in 0..made[w][p]
       /\ live[w] => w = cur
       /\ ~live[w] => watched[w] = {} /\ queue[w] = <<>>
       /\ hand[w] # None => hand[w] \in Event /\ loop[w] = "run"

Whole(f) == \E i \in DOMAIN pushed[f] : pushed[f][i] = Size
Alive(w) == live[w] /\ loop[w] = "run"
Last(f)  == IF kind = "trunk-recorder" THEN Json(f) ELSE Audio(f)
Written(f) == size[Last(f)] = Finished(Last(f)) /\ f \notin Bad

(* What the page promises of "Delete After": a recording disappears only   *)
(* when it was ingested and the option is on; when it is off, one that is  *)
(* ingested was written while the folder was watched.                      *)
DeletedAfter ==
  \A f \in File :
    /\ size[Audio(f)] > 0 /\ ~present[Audio(f)] => deleteAfter /\ pushed[f] # <<>>
    /\ pushed[f] # <<>> /\ ~deleteAfter => \E w \in Watch : made[w][Last(f)] > 0

(* When the goroutine has ended no timer is left to fire, except one whose *)
(* entry an earlier timer of its file had deleted: that one could not be   *)
(* stopped when the later one was made, because it had fired and waited    *)
(* for the mutex, or was such an orphan itself; running, it deletes the    *)
(* entry of the later one, which nothing can stop any more.                *)
ExitStopsTimers == \A t \in armed : loop[t.w] = "done" => t \in orphans

(* While the object that watches the folder goes on, a recording whose     *)
(* last piece it has noticed is ingested whole, however often it was       *)
(* ingested in part before and whichever timers ran; and with "Delete      *)
(* After" no recording stays in the folder, whether it was there before,   *)
(* came during the walk, or was seen half written.  What the code does not *)
(* give: an inner folder that goes before the walk has read it ends the    *)
(* walk (dirwatch.go:819), and the files it had not come to stay, unless   *)
(* they are written to.                                                    *)
Queued(f) == \E i \in DOMAIN queue[cur] : queue[cur][i] = <<"file", Last(f)>>
Due(f)     == Queued(f) \/ (deleteAfter /\ home[f] = Root /\ present[Last(f)])
Settles(f) == IF deleteAfter THEN ~present[Last(f)] ELSE Whole(f)
Missed(f)  == /\ walk[cur].at = "broken" /\ Last(f) \in walk[cur].left
              /\ ~Queued(f) /\ made[cur][Last(f)] = 0

EventuallyIngested ==
  \A f \in File : (Alive(cur) /\ Written(f) /\ Due(f)) ~> (Settles(f) \/ ~Alive(cur) \/ Missed(f))
=============================================================================
