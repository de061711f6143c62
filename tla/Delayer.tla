------------------------------- MODULE Delayer -------------------------------
(***************************************************************************)
(* Delayed calls (delayer.go and EmitCall of controller.go).               *)
(*                                                                         *)
(* A call is ingested, stored, and emitted: while its timestamp plus its   *)
(* delay is in the future it is put in the delayed table and a timer is    *)
(* armed; the timer removes the row and emits the call again.  When the    *)
(* server starts it reads the table, empties it, and delays again or emits *)
(* each call it found.  The process may stop at any step, which keeps the  *)
(* table and loses everything else.                                        *)
(*                                                                         *)
(* EmitCall and Delay call one another: for a call with no delay whose     *)
(* timestamp is in the future neither returns until that time has come, or *)
(* the goroutine's stack is exhausted, which ends the process.             *)
(***************************************************************************)
EXTENDS Integers, FiniteSets

CONSTANTS
  Call,         \* calls
  Delay,        \* the values of the delay options (minutes), with 0 for none
  Stamp,        \* the timestamps recorders may put on calls
  MaxTime,      \* bound on the clock
  MaxCrashes,   \* bound on the number of crashes
  MaxChanges,   \* bound on the number of changes of the delay options
  Fault         \* the database failures that may happen: "push", "pop", "getcall"

ASSUME DelayerAssumption ==
  /\ Delay \subseteq Nat
  /\ Stamp \subseteq Nat
  /\ MaxTime \in Nat
  /\ MaxCrashes \in Nat
  /\ MaxChanges \in Nat
  /\ Fault \subseteq {"push", "pop", "getcall"}

VARIABLES
  now,       \* the wall clock
  phase,     \* the process: "down", "starting" or "up"
  conf,      \* the configured delays of the talkgroup and of the system
  stamp,     \* the timestamp of each stored call; -1 before it is stored
  held,      \* the delay read from the call's talkgroup and system in memory
  at,        \* what a goroutine is doing with the call (below)
  delayed,   \* the delayed table: the stored release time, or -1 for no row
  todo,      \* what Start has read from the table and has still to restore
  sent,      \* how many times each call was broadcast
  crashes, changes

vars == <<now, phase, conf, stamp, held, at, delayed, todo, sent, crashes, changes>>

(* at[c] is "idle" when no goroutine has the call; "emitting" in EmitCall  *)
(* called by the ingest goroutine or by Start; "armed" while its timer     *)
(* runs; "popped" in EmitCall called by the timer, after pop.              *)
At == {"idle", "emitting", "armed", "popped"}

None == -1

NoRows == [c \in Call |-> None]

Stored(c) == stamp[c] # None

(* The talkgroup's delay has precedence over the system's.                 *)
GetDelay(options) == IF options.tg > 0 THEN options.tg ELSE options.sys

GetTimestamp(c) == stamp[c] + held[c]

(* Mutant: an off-by-one in the comparison.                                *)
CanDelayEarly(c) == GetTimestamp(c) > now + 1

CanDelay(c) == GetTimestamp(c) > now

Init ==
  /\ now = 0
  /\ phase = "up"
  /\ conf \in [tg : Delay, sys : Delay]
  /\ stamp = [c \in Call |-> None]
  /\ held = [c \in Call |-> 0]
  /\ at = [c \in Call |-> "idle"]
  /\ delayed = NoRows
  /\ todo = NoRows
  /\ sent = [c \in Call |-> 0]
  /\ crashes = 0
  /\ changes = 0

-----------------------------------------------------------------------------
(* The ingest goroutine and Start run EmitCall themselves, one call at a   *)
(* time; timers run it each in its own goroutine.                          *)
Busy == \E c \in Call : at[c] = "emitting"

(* WriteCall has stored the call; EmitCall is about to run.  Its talkgroup *)
(* and system are those of the current configuration.                      *)
Ingest(c, t) ==
  /\ phase = "up" /\ ~Busy
  /\ ~Stored(c)
  /\ stamp' = [stamp EXCEPT ![c] = t]
  /\ held' = [held EXCEPT ![c] = GetDelay(conf)]
  /\ at' = [at EXCEPT ![c] = "emitting"]
  /\ UNCHANGED <<now, phase, conf, delayed, todo, sent, crashes, changes>>

Emitting(c) == at[c] \in {"emitting", "popped"}

(* Mutant: a call whose row is still in the table keeps its timer.         *)
BroadcastRearms(c) ==
  /\ Emitting(c)
  /\ ~CanDelay(c)
  /\ sent' = [sent EXCEPT ![c] = @ + 1]
  /\ at' = [at EXCEPT ![c] = IF delayed[c] # None THEN "armed" ELSE "idle"]
  /\ UNCHANGED <<now, phase, conf, stamp, held, delayed, todo, crashes, changes>>

(* EmitCall when CanDelay is false: Downstreams.Send and Clients.EmitCall  *)
(* are started.                                                            *)
Broadcast(c) ==
  /\ Emitting(c)
  /\ ~CanDelay(c)
  /\ sent' = [sent EXCEPT ![c] = @ + 1]
  /\ at' = [at EXCEPT ![c] = "idle"]
  /\ UNCHANGED <<now, phase, conf, stamp, held, delayed, todo, crashes, changes>>

(* Mutant: the delay is subtracted from the timestamp in the row.          *)
PushEarlier(c) ==
  /\ Emitting(c)
  /\ CanDelay(c) /\ held[c] > 0
  /\ delayed' = [delayed EXCEPT ![c] = stamp[c] - held[c]]
  /\ at' = [at EXCEPT ![c] = "armed"]
  /\ UNCHANGED <<now, phase, conf, stamp, held, todo, sent, crashes, changes>>

(* Mutant: the timer is armed and the row is not written.                  *)
PushForgets(c) ==
  /\ Emitting(c)
  /\ CanDelay(c) /\ held[c] > 0
  /\ at' = [at EXCEPT ![c] = "armed"]
  /\ UNCHANGED <<now, phase, conf, stamp, held, delayed, todo, sent, crashes, changes>>

(* EmitCall when CanDelay is true, for a call with a delay.                *)
Push(c) ==
  /\ Emitting(c)
  /\ CanDelay(c) /\ held[c] > 0
  /\ delayed' = [delayed EXCEPT ![c] = GetTimestamp(c)]
  /\ at' = [at EXCEPT ![c] = "armed"]
  /\ UNCHANGED <<now, phase, conf, stamp, held, todo, sent, crashes, changes>>

(* The row cannot be written: the error is logged and the call forgotten.  *)
PushFails(c) ==
  /\ "push" \in Fault
  /\ Emitting(c)
  /\ CanDelay(c) /\ held[c] > 0
  /\ at' = [at EXCEPT ![c] = "idle"]
  /\ UNCHANGED <<now, phase, conf, stamp, held, delayed, todo, sent, crashes, changes>>

(* EmitCall when CanDelay is true, for a call without a delay: Delay calls *)
(* EmitCall, which calls Delay, and so on.  No variable changes until the  *)
(* clock reaches the timestamp; or the stack overflows.                    *)
Recursing(c) == Emitting(c) /\ CanDelay(c) /\ held[c] = 0

-----------------------------------------------------------------------------
(* The timer: pop, delete the timer, EmitCall.                             *)

Due(c) == at[c] = "armed" /\ ~CanDelay(c)

Pop(c) ==
  /\ Due(c)
  /\ at' = [at EXCEPT ![c] = "popped"]
  /\ delayed' = [delayed EXCEPT ![c] = None]
  /\ UNCHANGED <<now, phase, conf, stamp, held, todo, sent, crashes, changes>>

(* The row cannot be removed: the error is logged, the call emitted.       *)
PopFails(c) ==
  /\ "pop" \in Fault
  /\ Due(c)
  /\ at' = [at EXCEPT ![c] = "popped"]
  /\ UNCHANGED <<now, phase, conf, stamp, held, delayed, todo, sent, crashes, changes>>

-----------------------------------------------------------------------------
(* Crash and restart.                                                      *)

Stop ==
  /\ phase' = "down"
  /\ at' = [c \in Call |-> "idle"]
  /\ todo' = NoRows
  /\ UNCHANGED <<now, conf, stamp, held, delayed, sent, changes>>

(* A kill, a power failure, a panic elsewhere in the server.               *)
Crash ==
  /\ phase # "down"
  /\ crashes < MaxCrashes
  /\ crashes' = crashes + 1
  /\ Stop

StackOverflow ==
  /\ \E c \in Call : Recursing(c)
  /\ Stop
  /\ UNCHANGED crashes

(* Mutant: Start does not empty the table.                                 *)
BootKeeps ==
  /\ phase = "down"
  /\ phase' = "starting"
  /\ todo' = delayed
  /\ UNCHANGED <<now, conf, stamp, held, at, delayed, sent, crashes, changes>>

(* Start: SELECT, then DELETE of the whole table.                          *)
Boot ==
  /\ phase = "down"
  /\ phase' = "starting"
  /\ todo' = delayed
  /\ delayed' = NoRows
  /\ UNCHANGED <<now, conf, stamp, held, at, sent, crashes, changes>>

(* Start, for one of the calls it has read: GetCall, which resolves it     *)
(* with the current configuration, then EmitCall if the release time read  *)
(* from the table is past, Delay if it is not.  Delay pushes a new row and *)
(* arms a timer if there is a delay, and calls EmitCall if there is none.  *)
Redelays(c) == todo[c] >= now /\ GetDelay(conf) > 0

Restoring(c) ==
  /\ phase = "starting" /\ ~Busy
  /\ todo[c] # None
  /\ todo' = [todo EXCEPT ![c] = None]

(* Mutant: an overdue call is dropped.                                     *)
RestoreDropsOverdue(c) ==
  /\ Restoring(c)
  /\ held' = [held EXCEPT ![c] = GetDelay(conf)]
  /\ IF Redelays(c)
     THEN /\ delayed' = [delayed EXCEPT ![c] = stamp[c] + GetDelay(conf)]
          /\ at' = [at EXCEPT ![c] = "armed"]
     ELSE UNCHANGED <<delayed, at>>
  /\ UNCHANGED <<now, phase, conf, stamp, sent, crashes, changes>>

(* Mutant: the row is written again but no timer is armed.                 *)
RestoreForgetsTimer(c) ==
  /\ Restoring(c)
  /\ held' = [held EXCEPT ![c] = GetDelay(conf)]
  /\ IF Redelays(c)
     THEN /\ delayed' = [delayed EXCEPT ![c] = stamp[c] + GetDelay(conf)]
          /\ UNCHANGED at
     ELSE /\ at' = [at EXCEPT ![c] = "emitting"]
          /\ UNCHANGED delayed
  /\ UNCHANGED <<now, phase, conf, stamp, sent, crashes, changes>>

Restore(c) ==
  /\ Restoring(c)
  /\ held' = [held EXCEPT ![c] = GetDelay(conf)]
  /\ IF Redelays(c)
     THEN /\ delayed' = [delayed EXCEPT ![c] = stamp[c] + GetDelay(conf)]
          /\ at' = [at EXCEPT ![c] = "armed"]
     ELSE /\ at' = [at EXCEPT ![c] = "emitting"]
          /\ UNCHANGED delayed
  /\ UNCHANGED <<now, phase, conf, stamp, sent, crashes, changes>>

(* GetCall fails, and the call is skipped without a word; or the new row   *)
(* cannot be written.                                                      *)
RestoreFails(c) ==
  /\ Restoring(c)
  /\ "getcall" \in Fault \/ ("push" \in Fault /\ Redelays(c))
  /\ UNCHANGED <<now, phase, conf, stamp, held, at, delayed, sent, crashes, changes>>

(* Start returns and the ingest goroutine is started.                      *)
Started ==
  /\ phase = "starting" /\ ~Busy
  /\ todo = NoRows
  /\ phase' = "up"
  /\ UNCHANGED <<now, conf, stamp, held, at, delayed, todo, sent, crashes, changes>>

-----------------------------------------------------------------------------

(* The administrator saves other delays.  Calls in memory keep the         *)
(* talkgroup and the system they were resolved with.                       *)
SetDelay ==
  /\ phase = "up"
  /\ changes < MaxChanges
  /\ changes' = changes + 1
  /\ conf' \in [tg : Delay, sys : Delay]
  /\ UNCHANGED <<now, phase, stamp, held, at, delayed, todo, sent, crashes>>

Tick ==
  /\ now < MaxTime
  /\ now' = now + 1
  /\ UNCHANGED <<phase, conf, stamp, held, at, delayed, todo, sent, crashes, changes>>

Next ==
  \/ \E c \in Call :
       \/ \E t \in Stamp : Ingest(c, t)
       \/ Broadcast(c) \/ Push(c) \/ PushFails(c)
       \/ Pop(c) \/ PopFails(c)
       \/ Restore(c) \/ RestoreFails(c)
  \/ Crash \/ StackOverflow \/ Boot \/ Started \/ SetDelay \/ Tick

(* Every goroutine that can take a step takes it, the clock runs, and the  *)
(* server is started again after it stopped.                               *)
Fairness ==
  /\ \A c \in Call :
       /\ WF_vars(Broadcast(c))
       /\ WF_vars(Push(c) \/ PushFails(c))
       /\ WF_vars(Pop(c) \/ PopFails(c))
       /\ WF_vars(Restore(c) \/ RestoreFails(c))
  /\ WF_vars(Boot) /\ WF_vars(Started) /\ WF_vars(Tick)

Spec == Init /\ [][Next]_vars /\ Fairness

-----------------------------------------------------------------------------

TypeOK ==
  /\ now \in 0..MaxTime
  /\ phase \in {"down", "starting", "up"}
  /\ conf \in [tg : Delay, sys : Delay]
  /\ stamp \in [Call -> Nat \union {None}]
  /\ held \in [Call -> Nat]
  /\ at \in [Call -> At]
  /\ delayed \in [Call -> Nat \union {None}]
  /\ todo \in [Call -> Nat \union {None}]
  /\ sent \in [Call -> Nat]
  /\ crashes \in 0..MaxCrashes
  /\ changes \in 0..MaxChanges

(* Somebody still has the call: a goroutine, a row, or Start.              *)
Pending(c) == at[c] # "idle" \/ delayed[c] # None \/ todo[c] # None

(* A call is broadcast at most once, through any crashes and restarts, as  *)
(* long as the timer can remove its row; and once broadcast it is forgotten.*)
AtMostOnce == \A c \in Call : sent[c] <= 1 /\ (sent[c] = 1 => ~Pending(c))

(* When the timer cannot remove its row the call is broadcast again, but   *)
(* only by a restart that finds the row: each repeat takes a crash.        *)
RepeatsNeedRestart == \A c \in Call : sent[c] <= 1 + crashes

(* While the server is up the table and the timers are the same calls, and *)
(* the stored release time is the one the timer was set to: no row waits   *)
(* for a restart, and a restart will find every armed call.                *)
TableIsTimers ==
  \A c \in Call :
    /\ at[c] = "armed" => delayed[c] = GetTimestamp(c)
    /\ phase = "up" /\ delayed[c] # None => at[c] = "armed"

(* A call that somebody has is only forgotten without having been broadcast *)
(* when the process stops.                                                 *)
OnlyStopLoses ==
  [][\A c \in Call : Pending(c) /\ ~Pending(c)' => sent'[c] > sent[c] \/ phase' = "down"]_vars

(* A call that somebody has is broadcast in the end, unless the process    *)
(* stopped at a step that loses it.                                        *)
EventuallyBroadcast == \A c \in Call : Pending(c) ~> (sent[c] > 0 \/ ~Pending(c))

-----------------------------------------------------------------------------
(* The promise, and how this state stands for its state.                   *)

Status(c) ==
  CASE sent[c] > 0 -> "broadcast"
    [] sent[c] = 0 /\ ~Stored(c) -> "absent"
    [] sent[c] = 0 /\ Stored(c) /\ Pending(c) -> "held"
    [] OTHER -> "lost"

Promise ==
  INSTANCE DelayedRelease WITH
    status <- [c \in Call |-> Status(c)],
    due <- [c \in Call |-> IF Stored(c) THEN GetTimestamp(c) ELSE 0]

(* Delayer keeps the promise of DelayedRelease.                            *)
KeepsPromise == Promise!Spec
=============================================================================
