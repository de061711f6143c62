---------------------------- MODULE DelayedRelease ----------------------------
(***************************************************************************)
(* What delaying calls promises, seen from the listeners: a call that was  *)
(* ingested is held, is broadcast once, and not before the time it is due. *)
(* A held call may be given another due time (its delay is read again when *)
(* the server restarts) and may be lost; a call that was broadcast or lost *)
(* stays so.                                                               *)
(***************************************************************************)
EXTENDS Integers

CONSTANT Call

VARIABLES
  now,      \* the wall clock
  status,   \* "absent", "held", "broadcast" or "lost", for each call
  due       \* the time before which a held call may not be broadcast

vars == <<now, status, due>>

Init ==
  /\ now = 0
  /\ status = [c \in Call |-> "absent"]
  /\ due = [c \in Call |-> 0]

Tick == now' = now + 1 /\ UNCHANGED <<status, due>>

(* Some due time for c.                                                    *)
SetDue(c) ==
  /\ due' \in [Call -> Nat]
  /\ \A d \in Call \ {c} : due'[d] = due[d]

Ingest(c) ==
  /\ status[c] = "absent"
  /\ status' = [status EXCEPT ![c] = "held"]
  /\ SetDue(c)
  /\ UNCHANGED now

Reschedule(c) ==
  /\ status[c] = "held"
  /\ SetDue(c)
  /\ UNCHANGED <<now, status>>

Broadcast(c) ==
  /\ status[c] = "held"
  /\ due[c] <= now
  /\ status' = [status EXCEPT ![c] = "broadcast"]
  /\ UNCHANGED <<now, due>>

(* A crash, or a row that could not be written or read, may lose any of    *)
(* the calls that are held.                                                *)
Lose(S) ==
  /\ \A c \in S : status[c] = "held"
  /\ status' = [c \in Call |-> IF c \in S THEN "lost" ELSE status[c]]
  /\ UNCHANGED <<now, due>>

Next ==
  \/ Tick
  \/ \E c \in Call : Ingest(c) \/ Reschedule(c) \/ Broadcast(c)
  \/ \E S \in SUBSET Call : Lose(S)

Spec == Init /\ [][Next]_vars
=============================================================================
