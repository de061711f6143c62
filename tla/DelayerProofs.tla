---------------------------- MODULE DelayerProofs ----------------------------
(***************************************************************************)
(* Theorems about Delayer, for any calls, delays, clocks and crashes.      *)
(***************************************************************************)
EXTENDS Delayer, TLAPS

LEMMA DelayIsNat == conf \in [tg : Delay, sys : Delay] => GetDelay(conf) \in Nat
BY DelayerAssumption DEF GetDelay

LEMMA TypeInit == Init => TypeOK
BY DelayerAssumption DEF Init, TypeOK, At, None, NoRows

LEMMA TypeStep ==
  ASSUME TypeOK, [Next]_vars
  PROVE  TypeOK'
<1> USE DelayerAssumption DEF TypeOK, At, None
<1>1. ASSUME NEW c \in Call, NEW t \in Stamp, Ingest(c, t)
      PROVE  TypeOK'
  BY <1>1, DelayIsNat DEF Ingest
<1>2. ASSUME NEW c \in Call, Broadcast(c)
      PROVE  TypeOK'
  BY <1>2 DEF Broadcast
<1>3. ASSUME NEW c \in Call, Push(c)
      PROVE  TypeOK'
  BY <1>3 DEF Push, GetTimestamp, Emitting, CanDelay
<1>4. ASSUME NEW c \in Call, PushFails(c) \/ Pop(c) \/ PopFails(c)
      PROVE  TypeOK'
  BY <1>4 DEF PushFails, Pop, PopFails
<1>5. ASSUME NEW c \in Call, Restore(c)
      PROVE  TypeOK'
  BY <1>5, DelayIsNat DEF Restore, Restoring
<1>6. ASSUME NEW c \in Call, RestoreFails(c)
      PROVE  TypeOK'
  BY <1>6 DEF RestoreFails, Restoring
<1>7. CASE Crash
  BY <1>7 DEF Crash, Stop, NoRows
<1>8. CASE StackOverflow
  BY <1>8 DEF StackOverflow, Stop, NoRows
<1>9. CASE Boot
  BY <1>9 DEF Boot, NoRows
<1>10. CASE Started
  BY <1>10 DEF Started
<1>11. CASE SetDelay
  BY <1>11 DEF SetDelay
<1>12. CASE Tick
  BY <1>12 DEF Tick
<1>13. CASE UNCHANGED vars
  BY <1>13 DEF vars
<1> QED BY <1>1, <1>2, <1>3, <1>4, <1>5, <1>6, <1>7, <1>8, <1>9, <1>10, <1>11, <1>12, <1>13
        DEF Next

(* Every variable keeps its type.                                          *)
THEOREM TypeCorrect == Spec => []TypeOK
BY TypeInit, TypeStep, PTL DEF Spec

-----------------------------------------------------------------------------
(* Where a call is.                                                        *)

(* A call is in one place: with a goroutine that emits it, under a timer   *)
(* whose row carries its release time, in what Start has read, or, while   *)
(* the process is down, in the table.  Once broadcast it is nowhere.       *)
Located(c) ==
  /\ phase = "down" => at[c] = "idle" /\ todo[c] = None
  /\ phase = "up" => todo[c] = None
  /\ ~Stored(c) => ~Pending(c) /\ sent[c] = 0
  /\ at[c] = "armed" => delayed[c] = GetTimestamp(c)
  /\ at[c] # "armed" /\ phase # "down" => delayed[c] = None
  /\ at[c] # "idle" => todo[c] = None
  /\ sent[c] <= 1 /\ (sent[c] = 1 => ~Pending(c))

LEMMA LocatedInit == Init => \A c \in Call : Located(c)
BY DEF Init, Located, NoRows, Pending, Stored, None

(* The steps of one call leave every other call where it is.               *)
LEMMA LocatedElsewhere ==
  ASSUME NEW d \in Call, Located(d),
         UNCHANGED <<phase, stamp[d], held[d], at[d], delayed[d], todo[d], sent[d]>>
  PROVE  Located(d)'
BY DEF Located, Pending, Stored, GetTimestamp, None

LEMMA LocatedStep ==
  ASSUME TypeOK, "pop" \notin Fault, \A c \in Call : Located(c), [Next]_vars, NEW d \in Call
  PROVE  Located(d)'
<1> USE DEF TypeOK, At
<1> DEFINE Same == UNCHANGED <<phase, stamp[d], held[d], at[d], delayed[d], todo[d], sent[d]>>
<1>0. Same => Located(d)'
  BY LocatedElsewhere
<1> HIDE DEF Same
<1>1. ASSUME NEW c \in Call, NEW t \in Stamp, Ingest(c, t)
      PROVE  Located(d)'
  <2>1. CASE c = d
    BY <1>1, <2>1, DelayerAssumption
       DEF Ingest, Located, Pending, Stored, GetTimestamp, None
  <2>2. CASE c # d
    BY <1>0, <1>1, <2>2 DEF Ingest, Same
  <2> QED BY <2>1, <2>2
<1>2. ASSUME NEW c \in Call, Broadcast(c)
      PROVE  Located(d)'
  <2>1. CASE c = d
    <3>1. sent[d] = 0 /\ delayed[d] = None /\ todo[d] = None /\ Stored(d)
      BY <1>2, <2>1 DEF Broadcast, Emitting, Located, Pending
    <3> QED BY <1>2, <2>1, <3>1 DEF Broadcast, Located, Pending, Stored, None
  <2>2. CASE c # d
    BY <1>0, <1>2, <2>2 DEF Broadcast, Same
  <2> QED BY <2>1, <2>2
<1>3. ASSUME NEW c \in Call, Push(c)
      PROVE  Located(d)'
  <2>1. CASE c = d
    BY <1>3, <2>1 DEF Push, Emitting, Located, Pending, Stored, GetTimestamp, None
  <2>2. CASE c # d
    BY <1>0, <1>3, <2>2 DEF Push, Same
  <2> QED BY <2>1, <2>2
<1>4. ASSUME NEW c \in Call, PushFails(c)
      PROVE  Located(d)'
  <2>1. CASE c = d
    BY <1>4, <2>1 DEF PushFails, Emitting, Located, Pending, Stored, None
  <2>2. CASE c # d
    BY <1>0, <1>4, <2>2 DEF PushFails, Same
  <2> QED BY <2>1, <2>2
<1>5. ASSUME NEW c \in Call, Pop(c)
      PROVE  Located(d)'
  <2>1. CASE c = d
    BY <1>5, <2>1 DEF Pop, Due, Located, Pending, Stored, None
  <2>2. CASE c # d
    BY <1>0, <1>5, <2>2 DEF Pop, Same
  <2> QED BY <2>1, <2>2
<1>6. ASSUME NEW c \in Call, PopFails(c)
      PROVE  Located(d)'
  BY <1>6 DEF PopFails
<1>7. ASSUME NEW c \in Call, Restore(c)
      PROVE  Located(d)'
  <2>1. CASE c = d
    <3>1. /\ phase = "starting" /\ at[d] = "idle" /\ delayed[d] = None /\ Stored(d)
          /\ sent[d] = 0
      BY <1>7, <2>1 DEF Restore, Restoring, Located, Pending
    <3>2. CASE Redelays(d)
      BY <1>7, <2>1, <3>1, <3>2 DEF Restore, Restoring, Located, Pending, Stored, GetTimestamp, None
    <3>3. CASE ~Redelays(d)
      BY <1>7, <2>1, <3>1, <3>3 DEF Restore, Restoring, Located, Pending, Stored, None
    <3> QED BY <3>2, <3>3
  <2>2. CASE c # d
    BY <1>0, <1>7, <2>2 DEF Restore, Restoring, Same
  <2> QED BY <2>1, <2>2
<1>8. ASSUME NEW c \in Call, RestoreFails(c)
      PROVE  Located(d)'
  <2>1. CASE c = d
    BY <1>8, <2>1 DEF RestoreFails, Restoring, Located, Pending, Stored, GetTimestamp, None
  <2>2. CASE c # d
    BY <1>0, <1>8, <2>2 DEF RestoreFails, Restoring, Same
  <2> QED BY <2>1, <2>2
<1>9. CASE Crash \/ StackOverflow
  <2>1. Stop
    BY <1>9 DEF Crash, StackOverflow
  <2> QED BY <2>1 DEF Stop, NoRows, Located, Pending, Stored, None
<1>10. CASE Boot
  BY <1>10 DEF Boot, NoRows, Located, Pending, Stored, None
<1>11. CASE Started
  BY <1>11 DEF Started, NoRows, Located, Pending, Stored, GetTimestamp, None
<1>12. CASE SetDelay \/ Tick \/ UNCHANGED vars
  BY <1>0, <1>12 DEF SetDelay, Tick, vars, Same
<1> QED BY <1>1, <1>2, <1>3, <1>4, <1>5, <1>6, <1>7, <1>8, <1>9, <1>10, <1>11, <1>12 DEF Next

LEMMA LocatedAlways ==
  ASSUME "pop" \notin Fault
  PROVE  Spec => [](\A c \in Call : Located(c))
<1>1. TypeOK /\ (\A c \in Call : Located(c)) /\ [Next]_vars => (\A c \in Call : Located(c))'
  BY LocatedStep
<1> QED BY <1>1, TypeCorrect, LocatedInit, PTL DEF Spec

(* A call is broadcast at most once, whatever crashes and restarts do, as  *)
(* long as the timer can remove its row.                                   *)
THEOREM AtMostOnceSafe ==
  ASSUME "pop" \notin Fault
  PROVE  Spec => []AtMostOnce
<1>1. (\A c \in Call : Located(c)) => AtMostOnce
  BY DEF Located, AtMostOnce
<1> QED BY <1>1, LocatedAlways, PTL

(* While the server is up, the table and the timers agree.                 *)
THEOREM TableIsTimersSafe ==
  ASSUME "pop" \notin Fault
  PROVE  Spec => []TableIsTimers
<1>1. (\A c \in Call : Located(c)) => TableIsTimers
  BY DEF Located, TableIsTimers
<1> QED BY <1>1, LocatedAlways, PTL

-----------------------------------------------------------------------------
(* When the timer cannot remove its row.                                   *)

(* A call that the process can still broadcast was broadcast before only    *)
(* by processes that ended, each of them once.                             *)
Repeatable(c) ==
  /\ sent[c] <= 1 + crashes
  /\ phase = "down" \/ at[c] # "idle" \/ todo[c] # None => sent[c] <= crashes
  /\ at[c] # "idle" => todo[c] = None /\ held[c] > 0
  /\ phase = "down" => at[c] = "idle"
  /\ phase # "starting" => todo[c] = None
  /\ ~Stored(c) => sent[c] = 0 /\ at[c] = "idle" /\ delayed[c] = None /\ todo[c] = None

LEMMA RepeatableInit == Init => \A c \in Call : Repeatable(c)
BY DEF Init, Repeatable, NoRows, Stored, None

LEMMA RepeatableElsewhere ==
  ASSUME NEW d \in Call, Repeatable(d),
         UNCHANGED <<phase, stamp[d], held[d], at[d], delayed[d], todo[d], sent[d], crashes>>
  PROVE  Repeatable(d)'
BY DEF Repeatable, Stored, None

LEMMA RepeatableStep ==
  ASSUME TypeOK, 0 \notin Delay, \A c \in Call : Repeatable(c), [Next]_vars, NEW d \in Call
  PROVE  Repeatable(d)'
<1> USE DEF TypeOK, At
<1> DEFINE Same == UNCHANGED <<phase, stamp[d], held[d], at[d], delayed[d], todo[d], sent[d], crashes>>
<1>0. Same => Repeatable(d)'
  BY RepeatableElsewhere
<1>00. GetDelay(conf) \in Nat /\ GetDelay(conf) > 0
  <2>1. conf.tg \in Delay /\ conf.sys \in Delay
    OBVIOUS
  <2>2. conf.tg \in Nat /\ conf.tg # 0
    BY <2>1, DelayerAssumption
  <2>3. conf.tg > 0
    BY <2>2
  <2> QED BY <2>2, <2>3 DEF GetDelay
<1> HIDE DEF Same
<1>1. ASSUME NEW c \in Call, NEW t \in Stamp, Ingest(c, t)
      PROVE  Repeatable(d)'
  <2>1. CASE c = d
    BY <1>1, <1>00, <2>1, DelayerAssumption DEF Ingest, Repeatable, Stored, None
  <2>2. CASE c # d
    BY <1>0, <1>1, <2>2 DEF Ingest, Same
  <2> QED BY <2>1, <2>2
<1>2. ASSUME NEW c \in Call, Broadcast(c)
      PROVE  Repeatable(d)'
  <2>1. CASE c = d
    BY <1>2, <2>1 DEF Broadcast, Emitting, Repeatable, Stored, None
  <2>2. CASE c # d
    BY <1>0, <1>2, <2>2 DEF Broadcast, Same
  <2> QED BY <2>1, <2>2
<1>3. ASSUME NEW c \in Call, Push(c) \/ PushFails(c) \/ Pop(c) \/ PopFails(c)
      PROVE  Repeatable(d)'
  <2>1. CASE c = d
    BY <1>3, <2>1 DEF Push, PushFails, Pop, PopFails, Emitting, Due, Repeatable, Stored, None
  <2>2. CASE c # d
    BY <1>0, <1>3, <2>2 DEF Push, PushFails, Pop, PopFails, Same
  <2> QED BY <2>1, <2>2
<1>4. ASSUME NEW c \in Call, Restore(c)
      PROVE  Repeatable(d)'
  <2>1. CASE c = d
    BY <1>4, <1>00, <2>1 DEF Restore, Restoring, Repeatable, Stored, None
  <2>2. CASE c # d
    BY <1>0, <1>4, <2>2 DEF Restore, Restoring, Same
  <2> QED BY <2>1, <2>2
<1>5. ASSUME NEW c \in Call, RestoreFails(c)
      PROVE  Repeatable(d)'
  BY <1>5 DEF RestoreFails, Restoring, Repeatable, Stored, None
<1>6. CASE Crash
  BY <1>6 DEF Crash, Stop, NoRows, Repeatable, Stored, None
<1>7. CASE StackOverflow
  BY <1>7 DEF StackOverflow, Recursing, Emitting, Repeatable
<1>8. CASE Boot
  BY <1>8 DEF Boot, NoRows, Repeatable, Stored, None
<1>9. CASE Started
  BY <1>9 DEF Started, NoRows, Repeatable, Stored, None
<1>10. CASE SetDelay \/ Tick \/ UNCHANGED vars
  BY <1>0, <1>10 DEF SetDelay, Tick, vars, Same
<1> QED BY <1>1, <1>2, <1>3, <1>4, <1>5, <1>6, <1>7, <1>8, <1>9, <1>10 DEF Next

(* Each repeat of a broadcast takes the end of a process, when a timer may *)
(* fail to remove its row.  Without a delay the process may also end by    *)
(* itself (StackOverflow), which crashes does not count.                   *)
THEOREM RepeatsSafe ==
  ASSUME 0 \notin Delay \/ "pop" \notin Fault
  PROVE  Spec => []RepeatsNeedRestart
<1>1. CASE 0 \notin Delay
  <2>1. TypeOK /\ (\A c \in Call : Repeatable(c)) /\ [Next]_vars
          => (\A c \in Call : Repeatable(c))'
    BY <1>1, RepeatableStep
  <2>2. (\A c \in Call : Repeatable(c)) => RepeatsNeedRestart
    BY DEF Repeatable, RepeatsNeedRestart
  <2> QED BY <2>1, <2>2, TypeCorrect, RepeatableInit, PTL DEF Spec
<1>2. CASE "pop" \notin Fault
  <2>1. TypeOK /\ AtMostOnce => RepeatsNeedRestart
    BY DEF TypeOK, AtMostOnce, RepeatsNeedRestart
  <2> QED BY <1>2, <2>1, TypeCorrect, AtMostOnceSafe, PTL
<1> QED BY <1>1, <1>2

-----------------------------------------------------------------------------
(* What may lose a call.                                                   *)

LEMMA OnlyStopLosesStep ==
  ASSUME TypeOK, Fault = {}, \A c \in Call : Located(c), [Next]_vars, NEW d \in Call,
         Pending(d), ~Pending(d)'
  PROVE  sent'[d] > sent[d] \/ phase' = "down"
<1> USE DEF TypeOK, At
<1>0. UNCHANGED <<at[d], delayed[d], todo[d]>> => FALSE
  BY DEF Pending
<1>1. ASSUME NEW c \in Call, NEW t \in Stamp, Ingest(c, t)
      PROVE  FALSE
  BY <1>0, <1>1 DEF Ingest, Pending
<1>2. ASSUME NEW c \in Call, Broadcast(c)
      PROVE  sent'[d] > sent[d]
  BY <1>0, <1>2 DEF Broadcast
<1>3. ASSUME NEW c \in Call, Push(c) \/ Pop(c)
      PROVE  FALSE
  BY <1>0, <1>3 DEF Push, Pop, Pending
<1>4. ASSUME NEW c \in Call, PushFails(c) \/ PopFails(c) \/ RestoreFails(c)
      PROVE  FALSE
  BY <1>4 DEF PushFails, PopFails, RestoreFails
<1>5. ASSUME NEW c \in Call, Restore(c)
      PROVE  FALSE
  BY <1>0, <1>5 DEF Restore, Restoring, Pending
<1>6. CASE Crash \/ StackOverflow
  BY <1>6 DEF Crash, StackOverflow, Stop
<1>7. CASE Boot
  <2>1. delayed[d] # None
    BY <1>7 DEF Boot, Located, Pending
  <2> QED BY <1>7, <2>1 DEF Boot, Pending
<1>8. CASE Started \/ SetDelay \/ Tick \/ UNCHANGED vars
  BY <1>0, <1>8 DEF Started, SetDelay, Tick, vars
<1> QED BY <1>1, <1>2, <1>3, <1>4, <1>5, <1>6, <1>7, <1>8 DEF Next

(* Without database failures only the end of the process loses a call that *)
(* was not broadcast.                                                      *)
THEOREM OnlyStopLosesSafe ==
  ASSUME Fault = {}
  PROVE  Spec => OnlyStopLoses
<1>1. TypeOK /\ (\A c \in Call : Located(c)) /\ [Next]_vars =>
        [\A c \in Call : Pending(c) /\ ~Pending(c)' => sent'[c] > sent[c] \/ phase' = "down"]_vars
  BY OnlyStopLosesStep
<1>2. "pop" \notin Fault
  OBVIOUS
<1> QED BY <1>1, <1>2, TypeCorrect, LocatedAlways, PTL DEF Spec, OnlyStopLoses

-----------------------------------------------------------------------------
(* The refinement of DelayedRelease.                                       *)

LEMMA StatusValues ==
  ASSUME TypeOK, NEW c \in Call, Located(c)
  PROVE  /\ sent[c] = 1 <=> Status(c) = "broadcast"
         /\ ~Stored(c) <=> Status(c) = "absent"
         /\ Pending(c) <=> Status(c) = "held"
         /\ sent[c] = 0 /\ Stored(c) /\ ~Pending(c) <=> Status(c) = "lost"
BY DEF TypeOK, Located, Status

DueOf(c) == IF Stored(c) THEN GetTimestamp(c) ELSE 0

(* A call nothing happens to keeps its status and its due time.            *)
LEMMA SameCall ==
  ASSUME NEW d \in Call,
         UNCHANGED <<stamp[d], held[d], at[d], delayed[d], todo[d], sent[d]>>
  PROVE  Status(d)' = Status(d) /\ DueOf(d)' = DueOf(d)
BY DEF Status, DueOf, Stored, Pending, GetTimestamp

LEMMA PromiseInit == Init => Promise!Init
<1> SUFFICES ASSUME Init PROVE Promise!Init
  OBVIOUS
<1>1. \A c \in Call : Status(c) = "absent" /\ ~Stored(c)
  BY DEF Init, Status, Stored, None
<1> QED BY <1>1 DEF Promise!Init, Init

Others(c) == \A d \in Call \ {c} : Status(d)' = Status(d) /\ DueOf(d)' = DueOf(d)

LEMMA OthersKept ==
  ASSUME NEW c \in Call, 
         \A d \in Call \ {c} :
           UNCHANGED <<stamp[d], held[d], at[d], delayed[d], todo[d], sent[d]>>
  PROVE  Others(c)
BY SameCall DEF Others

(* From the status of one call before and after, the step of the promise.  *)
LEMMA PromiseStutter ==
  ASSUME UNCHANGED now, \A d \in Call : Status(d)' = Status(d) /\ DueOf(d)' = DueOf(d)
  PROVE  UNCHANGED Promise!vars
BY DEF Promise!vars, DueOf

LEMMA PromiseSetDue ==
  ASSUME TypeOK', NEW c \in Call, Others(c)
  PROVE  Promise!SetDue(c)
<1>1. \A d \in Call : DueOf(d)' \in Nat
  BY DEF TypeOK, DueOf, Stored, GetTimestamp
<1> QED BY <1>1 DEF Promise!SetDue, Others, DueOf

LEMMA PromiseIngest ==
  ASSUME TypeOK', UNCHANGED now, NEW c \in Call, Others(c),
         Status(c) = "absent", Status(c)' = "held"
  PROVE  Promise!Ingest(c)
BY PromiseSetDue DEF Promise!Ingest, Others

LEMMA PromiseReschedule ==
  ASSUME TypeOK', UNCHANGED now, NEW c \in Call, Others(c),
         Status(c) = "held", Status(c)' = "held"
  PROVE  Promise!Reschedule(c)
BY PromiseSetDue DEF Promise!Reschedule, Others

LEMMA PromiseBroadcast ==
  ASSUME UNCHANGED now, NEW c \in Call, Others(c), DueOf(c)' = DueOf(c), DueOf(c) <= now,
         Status(c) = "held", Status(c)' = "broadcast"
  PROVE  Promise!Broadcast(c)
BY DEF Promise!Broadcast, Others, DueOf

LEMMA PromiseLose ==
  ASSUME UNCHANGED now, NEW S \in SUBSET Call,
         \A d \in Call : DueOf(d)' = DueOf(d),
         \A d \in S : Status(d) = "held" /\ Status(d)' = "lost",
         \A d \in Call \ S : Status(d)' = Status(d)
  PROVE  Promise!Lose(S)
BY DEF Promise!Lose, DueOf

LEMMA StatusValuesNext ==
  ASSUME TypeOK', NEW c \in Call, Located(c)'
  PROVE  /\ (sent[c] = 1)' => Status(c)' = "broadcast"
         /\ Pending(c)' => Status(c)' = "held"
         /\ (sent[c] = 0)' /\ Stored(c)' /\ ~Pending(c)' => Status(c)' = "lost"
BY DEF TypeOK, Located, Status

(* Every step is a step of the promise, or changes nothing it sees: the    *)
(* pushes, pops and restarts that move a call are invisible, a failure or  *)
(* the end of the process may lose calls, and no other step does.          *)
LEMMA PromiseStep ==
  ASSUME TypeOK, TypeOK', "pop" \notin Fault,
         \A c \in Call : Located(c), \A c \in Call : Located(c)', [Next]_vars
  PROVE  [Promise!Next]_(Promise!vars)
<1> USE DEF At
<1>1. ASSUME NEW c \in Call, NEW t \in Stamp, Ingest(c, t)
      PROVE  Promise!Ingest(c)
  <2>1. Others(c) /\ UNCHANGED now
    BY <1>1, OthersKept DEF Ingest, TypeOK
  <2>2. Status(c) = "absent"
    BY <1>1, StatusValues DEF Ingest
  <2>3. Pending(c)'
    BY <1>1 DEF Ingest, Pending, TypeOK
  <2> QED BY <2>1, <2>2, <2>3, StatusValuesNext, PromiseIngest
<1>2. ASSUME NEW c \in Call, Broadcast(c)
      PROVE  Promise!Broadcast(c)
  <2>1. Others(c) /\ UNCHANGED <<now, stamp, held>>
    BY <1>2, OthersKept DEF Broadcast, TypeOK
  <2>2. Pending(c) /\ sent[c] = 0 /\ Stored(c)
    BY <1>2 DEF Broadcast, Emitting, Pending, Located, TypeOK
  <2>3. sent'[c] = 1
    BY <1>2, <2>2 DEF Broadcast, TypeOK
  <2>4. DueOf(c) <= now /\ DueOf(c)' = DueOf(c)
    BY <1>2, <2>1, <2>2 DEF Broadcast, CanDelay, DueOf, Stored, GetTimestamp, TypeOK
  <2> QED BY <2>1, <2>2, <2>3, <2>4, StatusValues, StatusValuesNext, PromiseBroadcast
<1>3. ASSUME NEW c \in Call, Push(c) \/ Pop(c)
      PROVE  UNCHANGED Promise!vars
  <2>1. Others(c) /\ UNCHANGED <<now, stamp, held, sent>>
    BY <1>3, OthersKept DEF Push, Pop, TypeOK
  <2>2. Pending(c) /\ Pending(c)'
    BY <1>3 DEF Push, Pop, Emitting, Due, Pending, TypeOK
  <2>3. Status(c)' = Status(c) /\ DueOf(c)' = DueOf(c)
    BY <2>1, <2>2, StatusValues, StatusValuesNext DEF DueOf, Stored, GetTimestamp
  <2> QED BY <2>1, <2>3, PromiseStutter DEF Others
<1>4. ASSUME NEW c \in Call, PushFails(c) \/ RestoreFails(c)
      PROVE  Promise!Lose({c})
  <2>1. Others(c) /\ UNCHANGED <<now, stamp, held, sent>>
    BY <1>4, OthersKept DEF PushFails, RestoreFails, Restoring, TypeOK
  <2>2. Pending(c) /\ sent[c] = 0 /\ Stored(c)
    BY <1>4 DEF PushFails, RestoreFails, Restoring, Emitting, Pending, Located, TypeOK
  <2>3. ~Pending(c)'
    BY <1>4 DEF PushFails, RestoreFails, Restoring, Emitting, Pending, Located, TypeOK
  <2>4. DueOf(c)' = DueOf(c) /\ Stored(c)' /\ (sent[c] = 0)'
    BY <2>1, <2>2 DEF DueOf, Stored, GetTimestamp
  <2> QED BY <2>1, <2>2, <2>3, <2>4, StatusValues, StatusValuesNext, PromiseLose DEF Others
<1>5. ASSUME NEW c \in Call, Restore(c)
      PROVE  Promise!Reschedule(c)
  <2>1. Others(c) /\ UNCHANGED now
    BY <1>5, OthersKept DEF Restore, Restoring, TypeOK
  <2>2. Pending(c) /\ Pending(c)'
    BY <1>5 DEF Restore, Restoring, Pending, TypeOK
  <2> QED BY <2>1, <2>2, StatusValues, StatusValuesNext, PromiseReschedule
<1>6. ASSUME Crash \/ StackOverflow
      PROVE  \E S \in SUBSET Call : Promise!Lose(S)
  <2> DEFINE S == {d \in Call : Pending(d) /\ ~Pending(d)'}
  <2>1. Stop
    BY <1>6 DEF Crash, StackOverflow
  <2>2. UNCHANGED <<now, stamp, held, sent>>
    BY <2>1 DEF Stop
  <2>3. ASSUME NEW d \in Call
        PROVE  /\ DueOf(d)' = DueOf(d)
               /\ d \in S => Status(d) = "held" /\ Status(d)' = "lost"
               /\ d \notin S => Status(d)' = Status(d)
    <3>1. DueOf(d)' = DueOf(d) /\ Stored(d)' = Stored(d) /\ (sent[d])' = sent[d]
      BY <2>2 DEF DueOf, Stored, GetTimestamp
    <3>2. Pending(d)' => Pending(d)
      BY <2>1 DEF Stop, Pending, NoRows, TypeOK
    <3>3. CASE d \in S
      <4>1. sent[d] = 0 /\ Stored(d)
        BY <3>3 DEF Located, TypeOK
      <4> QED BY <3>1, <3>3, <4>1, StatusValues, StatusValuesNext
    <3>4. CASE d \notin S
      <4>1. Pending(d)' <=> Pending(d)
        BY <3>2, <3>4
      <4> QED BY <3>1, <3>4, <4>1 DEF Status
    <3> QED BY <3>1, <3>3, <3>4
  <2> QED BY <2>2, <2>3, PromiseLose
<1>7. ASSUME Boot
      PROVE  UNCHANGED Promise!vars
  <2>1. UNCHANGED <<now, stamp, held, sent>>
    BY <1>7 DEF Boot
  <2>2. ASSUME NEW d \in Call
        PROVE  Status(d)' = Status(d) /\ DueOf(d)' = DueOf(d)
    <3>1. Pending(d)' <=> Pending(d)
      BY <1>7 DEF Boot, Pending, Located, NoRows
    <3> QED BY <2>1, <3>1 DEF Status, DueOf, Stored, GetTimestamp
  <2> QED BY <2>1, <2>2, PromiseStutter
<1>8. ASSUME Started \/ SetDelay
      PROVE  UNCHANGED Promise!vars
  BY <1>8, SameCall, PromiseStutter DEF Started, SetDelay
<1>9. ASSUME Tick
      PROVE  Promise!Tick
  <2>1. \A d \in Call : Status(d)' = Status(d) /\ DueOf(d)' = DueOf(d)
    BY <1>9, SameCall DEF Tick
  <2> QED BY <1>9, <2>1 DEF Tick, Promise!Tick, DueOf
<1>10. CASE UNCHANGED vars
  BY <1>10, SameCall, PromiseStutter DEF vars
<1>11. ASSUME NEW c \in Call, PopFails(c)
       PROVE  FALSE
  BY <1>11 DEF PopFails
<1> QED BY <1>1, <1>2, <1>3, <1>4, <1>5, <1>6, <1>7, <1>8, <1>9, <1>10, <1>11
        DEF Next, Promise!Next

(* Delayer implements DelayedRelease, as long as the timer can remove its  *)
(* row: no call is broadcast before it is due, twice, or after it was lost.*)
THEOREM Refinement ==
  ASSUME "pop" \notin Fault
  PROVE  Spec => KeepsPromise
<1>1. TypeOK /\ TypeOK' /\ (\A c \in Call : Located(c)) /\ (\A c \in Call : Located(c))' /\ [Next]_vars
        => [Promise!Next]_(Promise!vars)
  BY PromiseStep
<1> QED BY <1>1, PromiseInit, TypeCorrect, LocatedAlways, PTL DEF Spec, KeepsPromise, Promise!Spec
=============================================================================
