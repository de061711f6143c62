--------------------------- MODULE ListenersProofs ---------------------------
(***************************************************************************)
(* Theorems about Listeners, for any clients, limits and capacities.       *)
(***************************************************************************)
EXTENDS Listeners, FiniteSetTheorems, SequenceTheorems, TLAPS

LEMMA FunctionIsSequence ==
  ASSUME NEW T, NEW m \in Nat, NEW f \in [1..m -> T]
  PROVE  f \in Seq(T)
BY SeqDef

(* The pushes of a broadcast are a sequence of pairs of a client of its    *)
(* snapshot and one of its commands.                                       *)
LEMMA PushesType ==
  ASSUME NEW S \in SUBSET Client, IsFiniteSet(S), NEW order \in Orders(S),
         NEW cmds \in Seq(Command)
  PROVE  /\ Pushes(order, cmds) \in Seq(Client \X Command)
         /\ \A i \in DOMAIN Pushes(order, cmds) : Pushes(order, cmds)[i][1] \in S
<1> DEFINE n == Len(cmds)
           k == Cardinality(S)
           p == [i \in 1..(n * Len(order)) |-> <<order[((i - 1) \div n) + 1], cmds[((i - 1) % n) + 1]>>]
<1>1. k \in Nat
  BY FS_CardinalityType
<1>2. order \in [1..k -> S] /\ order \in Seq(S) /\ Len(order) = k
  BY <1>1 DEF Orders
<1>3. ASSUME NEW i \in 1..(n * k)
      PROVE  /\ ((i - 1) \div n) + 1 \in 1..k
             /\ ((i - 1) % n) + 1 \in 1..n
  <2>1. n \in Nat /\ n > 0
    BY <1>1, <1>3, SMT
  <2> DEFINE q == (i - 1) \div n
             r == (i - 1) % n
  <2>2. q \in Int /\ r \in 0..(n - 1) /\ i - 1 = n * q + r
    BY <2>1, <1>3, <1>1, SMT
  <2>3. q >= 0
    BY <2>2, <2>1, <1>3, SMT
  <2>4. q < k
    BY <2>2, <2>1, <2>3, <1>3, <1>1, SMT
  <2> QED BY <2>2, <2>3, <2>4, <1>1, <2>1
<1>4. p \in [1..(n * k) -> S \X Command]
  BY <1>2, <1>3
<1>5. n * k \in Nat
  BY <1>1
<1>7. \A i \in DOMAIN p : p[i] \in S \X Command
  BY <1>4
<1>8. Pushes(order, cmds) = p
  BY DEF Pushes
<1>9. p \in Seq(Client \X Command)
  <2>1. p \in [1..(n * k) -> Client \X Command]
    BY <1>4
  <2> HIDE DEF p, n, k
  <2> QED BY <2>1, <1>5, FunctionIsSequence
<1> QED BY <1>7, <1>8, <1>9

-----------------------------------------------------------------------------
(* Types.                                                                  *)

(* A broadcast that starts keeps the type of emit, and what it has to push *)
(* is for clients of its snapshot.                                         *)
LEMMA StartType ==
  ASSUME TypeOK, NEW S \in SUBSET Client, NEW cmds \in Seq(Command), Start(S, cmds)
  PROVE  /\ broadcasts' \in Broadcast
         /\ emit' \in [Broadcast -> Seq(Client \X Command)]
         /\ \A b \in Broadcast :
              \/ emit'[b] = emit[b]
              \/ \A i \in DOMAIN emit'[b] : emit'[b][i][1] \in S
<1>1. IsFiniteSet(S)
  BY ListenersAssumption, FS_Subset
<1>2. PICK order \in Orders(S) :
        emit' = [emit EXCEPT ![broadcasts + 1] = Pushes(order, cmds)]
  BY DEF Start
<1>3. /\ Pushes(order, cmds) \in Seq(Client \X Command)
      /\ \A i \in DOMAIN Pushes(order, cmds) : Pushes(order, cmds)[i][1] \in S
  BY <1>1, PushesType
<1>4. broadcasts + 1 \in Broadcast /\ broadcasts' = broadcasts + 1
  BY ListenersAssumption DEF Start, TypeOK, Broadcast
<1>5. emit \in [Broadcast -> Seq(Client \X Command)]
  BY DEF TypeOK
<1> QED BY <1>2, <1>3, <1>4, <1>5

LEMMA SnapshotCommands ==
  /\ <<"MSG">> \in Seq(Command)
  /\ \A cmd \in Command : <<cmd>> \in Seq(Command) /\ <<cmd, "MSG">> \in Seq(Command)
BY DEF Command

(* Every kind of broadcast is a Start over a part of the map.              *)
LEMMA EmitIsStart ==
  ASSUME TypeOK, EmitCall \/ EmitListenersCount \/ EmitConfig
  PROVE  \E S \in SUBSET clientsMap, cmds \in Seq(Command) : Start(S, cmds)
<1>1. CASE EmitCall
  BY <1>1, SnapshotCommands DEF EmitCall
<1>2. CASE EmitListenersCount
  BY <1>2, SnapshotCommands DEF EmitListenersCount
<1>3. CASE EmitConfig
  BY <1>3, SnapshotCommands DEF EmitConfig
<1> QED BY <1>1, <1>2, <1>3

LEMMA TypeInit == Init => TypeOK
BY ListenersAssumption DEF Init, TypeOK

LEMMA TypeStep ==
  ASSUME TypeOK, [Next]_vars
  PROVE  TypeOK'
<1> USE DEF TypeOK, Command
<1>1. ASSUME NEW c \in Client, Accept(c) \/ Refuse(c) \/ Drop(c)
      PROVE  TypeOK'
  <2>1. CASE Accept(c)
    BY <2>1 DEF Accept
  <2>2. CASE Refuse(c)
    BY <2>2 DEF Refuse, hub
  <2>3. CASE Drop(c)
    BY <2>3 DEF Drop, hub
  <2> QED BY <1>1, <2>1, <2>2, <2>3
<1>2. ASSUME NEW c \in Client, NEW cmd \in Command, Read(c, cmd)
      PROVE  TypeOK'
  BY <1>2 DEF Read, hub
<1>3. ASSUME NEW c \in Client, Reply(c)
      PROVE  TypeOK'
  BY <1>3 DEF Reply, hub
<1>4. ASSUME NEW c \in Client, Release(c) \/ PushUnregister(c)
      PROVE  TypeOK'
  <2>1. CASE Release(c)
    <3>1. active' \in Nat
      BY <2>1 DEF Release
    <3> QED BY <2>1, <3>1 DEF Release
  <2>2. CASE PushUnregister(c)
    BY <2>2 DEF PushUnregister
  <2> QED BY <1>4, <2>1, <2>2
<1>5. ASSUME NEW c \in Client, Write(c) \/ WriteFails(c)
      PROVE  TypeOK'
  <2>1. send' \in [Client -> Seq(Command)] /\ register' \in SUBSET Client
    <3>1. Take(c)
      BY <1>5 DEF Write, WriteFails
    <3>2. send[c] \in Seq(Command) /\ send[c] # <<>>
      BY <3>1 DEF Take
    <3>3. Tail(send[c]) \in Seq(Command)
      BY <3>2
    <3> QED BY <3>1, <3>3 DEF Take
  <2>2. CASE Write(c)
    BY <2>1, <2>2 DEF Write
  <2>3. CASE WriteFails(c)
    BY <2>1, <2>3 DEF WriteFails, StopWriter, Stopped
  <2> QED BY <1>5, <2>2, <2>3
<1>6. ASSUME NEW c \in Client, PingFails(c) \/ TimerFires(c)
      PROVE  TypeOK'
  BY <1>6 DEF PingFails, TimerFires, StopWriter, Stopped, hub
<1>7. ASSUME NEW c \in Client, Add(c) \/ Remove(c)
      PROVE  TypeOK'
  BY <1>7 DEF Add, Remove, sockets
<1>8. ASSUME EmitCall \/ EmitListenersCount \/ EmitConfig
      PROVE  TypeOK'
  <2>1. PICK S \in SUBSET clientsMap, cmds \in Seq(Command) : Start(S, cmds)
    BY <1>8, EmitIsStart
  <2>2. broadcasts' \in Broadcast /\ emit' \in [Broadcast -> Seq(Client \X Command)]
    BY <2>1, StartType
  <2> QED BY <2>1, <2>2, ListenersAssumption DEF Start, sockets, hub, Broadcast
<1>9. ASSUME NEW b \in Broadcast, Push(b)
      PROVE  TypeOK'
  <2>1. /\ emit[b] \in Seq(Client \X Command) /\ emit[b] # <<>>
        /\ Head(emit[b]) \in Client \X Command
        /\ Tail(emit[b]) \in Seq(Client \X Command)
    BY <1>9, HeadTailProperties DEF Push
  <2>2. emit' \in [Broadcast -> Seq(Client \X Command)]
    BY <1>9, <2>1 DEF Push
  <2>3. send' \in [Client -> Seq(Command)]
    BY <1>9, <2>1 DEF Push
  <2> QED BY <1>9, <2>2, <2>3 DEF Push, sockets, hub
<1>10. CASE UNCHANGED vars
  BY <1>10 DEF vars, sockets, hub
<1> QED BY <1>1, <1>2, <1>3, <1>4, <1>5, <1>6, <1>7, <1>8, <1>9, <1>10 DEF Next

(* Every variable keeps its type.                                          *)
THEOREM TypeCorrect == Spec => []TypeOK
BY TypeInit, TypeStep, PTL DEF Spec

-----------------------------------------------------------------------------
(* Slots.                                                                  *)

(* Nothing has happened yet to a connection that was not attempted.        *)
Unstarted ==
  \A c \in Client : conn[c] = "none" => reader[c] = "none" /\ timer[c] = "none"

LEMMA UnstartedStep ==
  ASSUME TypeOK, Unstarted, [Next]_vars
  PROVE  Unstarted'
<1> USE DEF TypeOK, Unstarted
<1>1. ASSUME NEW c \in Client, Accept(c) \/ Refuse(c) \/ Drop(c)
      PROVE  Unstarted'
  BY <1>1 DEF Accept, Refuse, Drop
<1>2. ASSUME NEW c \in Client, Release(c) \/ PushUnregister(c)
      PROVE  Unstarted'
  BY <1>2 DEF Release, PushUnregister
<1>3. ASSUME NEW c \in Client, Write(c)
      PROVE  Unstarted'
  BY <1>3 DEF Write
<1>4. ASSUME NEW c \in Client, WriteFails(c) \/ PingFails(c) \/ TimerFires(c)
      PROVE  Unstarted'
  BY <1>4 DEF WriteFails, PingFails, TimerFires, StopWriter
<1>5. ASSUME UNCHANGED <<conn, reader, timer>>
      PROVE  Unstarted'
  BY <1>5
<1>6. ASSUME NEW c \in Client, NEW cmd \in Command, Read(c, cmd)
      PROVE  Unstarted'
  BY <1>6 DEF Read
<1>7. ASSUME NEW c \in Client, Reply(c) \/ Add(c) \/ Remove(c)
      PROVE  Unstarted'
  BY <1>7 DEF Reply, Add, Remove, sockets
<1>8. ASSUME EmitCall \/ EmitListenersCount \/ EmitConfig
      PROVE  Unstarted'
  BY <1>8, EmitIsStart, <1>5 DEF Start, sockets
<1>9. ASSUME NEW b \in Broadcast, Push(b)
      PROVE  Unstarted'
  BY <1>9 DEF Push, sockets
<1>10. CASE UNCHANGED vars
  BY <1>10 DEF vars, sockets
<1> QED BY <1>1, <1>2, <1>3, <1>4, <1>6, <1>7, <1>8, <1>9, <1>10 DEF Next

(* What the reader and the counter do together at each step: a step that   *)
(* changes one changes the other, by one connection.                       *)
Readers == {c \in Client : Live(c)}

LEMMA ReadersStep ==
  ASSUME TypeOK, Unstarted, [Next]_vars
  PROVE  \/ UNCHANGED <<Readers, active>>
         \/ \E c \in Client \ Readers :
              /\ Readers' = Readers \union {c}
              /\ active < MaxClients /\ active' = active + 1
         \/ \E c \in Readers :
              /\ Readers' = Readers \ {c}
              /\ active' = IF active > 0 THEN active - 1 ELSE active
<1> USE DEF TypeOK, Readers, Live
<1>1. ASSUME NEW c \in Client, Accept(c)
      PROVE  /\ c \notin Readers /\ Readers' = Readers \union {c}
             /\ active < MaxClients /\ active' = active + 1
  BY <1>1 DEF Accept, Unstarted
<1>2. ASSUME NEW c \in Client, Release(c)
      PROVE  /\ c \in Readers /\ Readers' = Readers \ {c}
             /\ active' = IF active > 0 THEN active - 1 ELSE active
  BY <1>2 DEF Release
<1>3. ASSUME NEW c \in Client, PushUnregister(c)
      PROVE  UNCHANGED <<Readers, active>>
  BY <1>3 DEF PushUnregister
<1>4. ASSUME NEW c \in Client,
             \/ Refuse(c) \/ Drop(c) \/ Reply(c) \/ Add(c) \/ Remove(c)
             \/ Write(c) \/ WriteFails(c) \/ PingFails(c) \/ TimerFires(c)
             \/ \E cmd \in Command : Read(c, cmd)
      PROVE  UNCHANGED <<reader, active>>
  BY <1>4 DEF Refuse, Drop, Reply, Add, Remove, Write, WriteFails, PingFails, TimerFires, Read,
              hub, sockets
<1>5. ASSUME EmitCall \/ EmitListenersCount \/ EmitConfig
      PROVE  UNCHANGED <<reader, active>>
  BY <1>5, EmitIsStart DEF Start, sockets, hub
<1>6. ASSUME NEW b \in Broadcast, Push(b)
      PROVE  UNCHANGED <<reader, active>>
  BY <1>6 DEF Push, sockets, hub
<1>7. CASE UNCHANGED vars
  BY <1>7 DEF vars, sockets, hub
<1>8. UNCHANGED <<reader, active>> => UNCHANGED <<Readers, active>>
  OBVIOUS
<1> QED BY <1>1, <1>2, <1>3, <1>4, <1>5, <1>6, <1>7, <1>8 DEF Next

LEMMA SlotsStep ==
  ASSUME TypeOK, Unstarted, SlotsAccounted, [Next]_vars
  PROVE  SlotsAccounted'
<1>1. /\ active = Cardinality(Readers) /\ active <= MaxClients /\ active \in Nat
      /\ MaxClients \in Nat
  BY ListenersAssumption DEF SlotsAccounted, Readers, TypeOK
<1>2. IsFiniteSet(Readers)
  BY ListenersAssumption, FS_Subset DEF Readers
<1>3. SUFFICES active' = Cardinality(Readers') /\ active' <= MaxClients
  BY DEF SlotsAccounted, Readers
<1>4. CASE UNCHANGED <<Readers, active>>
  BY <1>1, <1>4
<1>5. CASE \E c \in Client \ Readers :
             /\ Readers' = Readers \union {c}
             /\ active < MaxClients /\ active' = active + 1
  <2>1. PICK c \in Client \ Readers :
          /\ Readers' = Readers \union {c}
          /\ active < MaxClients /\ active' = active + 1
    BY <1>5
  <2>2. Cardinality(Readers') = Cardinality(Readers) + 1
    BY <2>1, <1>2, FS_AddElement
  <2> QED BY <2>1, <2>2, <1>1
<1>6. CASE \E c \in Readers :
             /\ Readers' = Readers \ {c}
             /\ active' = IF active > 0 THEN active - 1 ELSE active
  <2>1. PICK c \in Readers :
          /\ Readers' = Readers \ {c}
          /\ active' = IF active > 0 THEN active - 1 ELSE active
    BY <1>6
  <2>2. Cardinality(Readers') = Cardinality(Readers) - 1
    BY <2>1, <1>2, FS_RemoveElement
  <2>3. Cardinality(Readers) > 0
    BY <2>1, <1>2, <1>1, FS_EmptySet
  <2> QED BY <2>1, <2>2, <2>3, <1>1
<1> QED BY <1>4, <1>5, <1>6, ReadersStep

LEMMA SlotsInit == Init => Unstarted /\ SlotsAccounted
<1> SUFFICES ASSUME Init PROVE Unstarted /\ SlotsAccounted
  OBVIOUS
<1>1. {c \in Client : Live(c)} = {}
  BY DEF Init, Live
<1>2. Unstarted
  BY DEF Init, Unstarted
<1>3. SlotsAccounted
  <2>1. active = 0 /\ MaxClients \in Nat
    BY ListenersAssumption DEF Init
  <2>2. Cardinality({}) = 0
    BY FS_EmptySet
  <2> QED BY <1>1, <2>1, <2>2 DEF SlotsAccounted
<1> QED BY <1>2, <1>3

LEMMA UnstartedAlways == Spec => []Unstarted
BY TypeInit, TypeStep, SlotsInit, UnstartedStep, PTL DEF Spec

(* The slots taken are those of the connections whose reader runs, and     *)
(* never more than MaxClients.                                             *)
THEOREM SlotsSafe == Spec => []SlotsAccounted
BY TypeCorrect, UnstartedAlways, SlotsInit, SlotsStep, PTL DEF Spec

-----------------------------------------------------------------------------
(* Registration and broadcasts.                                            *)

(* How one step changes what BroadcastToConfigured and StaysOut relate: a  *)
(* timer that is nil stays nil, only the step that makes it nil registers, *)
(* and the map only takes what was registered.                             *)
LEMMA RegistrationStep ==
  ASSUME TypeOK, Unstarted, [Next]_vars, NEW d \in Client
  PROVE  /\ timer[d] = "nil" => timer'[d] = "nil"
         /\ d \in register' => d \in register \/ (timer[d] # "nil" /\ timer'[d] = "nil")
         /\ d \in clientsMap' => d \in clientsMap \union register
<1> USE DEF TypeOK
<1>1. ASSUME NEW c \in Client, Accept(c)
      PROVE  UNCHANGED <<register, clientsMap>> /\ (timer[d] = "nil" => timer'[d] = "nil")
  BY <1>1 DEF Accept, Unstarted
<1>2. ASSUME NEW c \in Client,
             \/ Refuse(c) \/ Drop(c) \/ Reply(c) \/ Release(c) \/ PushUnregister(c)
             \/ \E cmd \in Command : Read(c, cmd)
      PROVE  UNCHANGED <<register, clientsMap, timer>>
  BY <1>2 DEF Refuse, Drop, Reply, Release, PushUnregister, Read, hub
<1>3. ASSUME NEW c \in Client, Write(c) \/ WriteFails(c)
      PROVE  /\ UNCHANGED clientsMap
             /\ timer[d] = "nil" => timer'[d] = "nil"
             /\ d \in register' => d \in register \/ (timer[d] # "nil" /\ timer'[d] = "nil")
  <2>1. Take(c) /\ UNCHANGED clientsMap
    BY <1>3 DEF Write, WriteFails
  <2>2. CASE d # c
    <3>1. timer'[d] = timer[d]
      BY <1>3, <2>2 DEF Write, WriteFails
    <3>2. d \in register' => d \in register
      BY <2>1, <2>2 DEF Take
    <3> QED BY <2>1, <3>1, <3>2
  <2>3. CASE d = c
    <3>1. CASE FirstConfig(c)
      BY <1>3, <2>1, <2>3, <3>1 DEF Take, FirstConfig, Write, WriteFails
    <3>2. CASE ~FirstConfig(c)
      BY <1>3, <2>1, <2>3, <3>2 DEF Take, Write, WriteFails, Stopped
    <3> QED BY <3>1, <3>2
  <2> QED BY <2>2, <2>3
<1>4. ASSUME NEW c \in Client, PingFails(c) \/ TimerFires(c)
      PROVE  UNCHANGED <<register, clientsMap>> /\ (timer[d] = "nil" => timer'[d] = "nil")
  BY <1>4 DEF PingFails, TimerFires, Stopped, hub
<1>5. ASSUME NEW c \in Client, Add(c) \/ Remove(c)
      PROVE  /\ UNCHANGED timer /\ register' \subseteq register
             /\ clientsMap' \subseteq clientsMap \union register
  BY <1>5 DEF Add, Remove, sockets
<1>6. ASSUME EmitCall \/ EmitListenersCount \/ EmitConfig
      PROVE  UNCHANGED <<register, clientsMap, timer>>
  BY <1>6, EmitIsStart DEF Start, sockets, hub
<1>7. ASSUME NEW b \in Broadcast, Push(b)
      PROVE  UNCHANGED <<register, clientsMap, timer>>
  BY <1>7 DEF Push, sockets, hub
<1>8. CASE UNCHANGED vars
  BY <1>8 DEF vars, sockets, hub
<1> QED BY <1>1, <1>2, <1>3, <1>4, <1>5, <1>6, <1>7, <1>8 DEF Next

(* What a broadcast has to push after a step, it had before, or it is for  *)
(* a client in the map.                                                    *)
LEMMA EmitStep ==
  ASSUME TypeOK, [Next]_vars, NEW b \in Broadcast, NEW i \in DOMAIN emit'[b]
  PROVE  \/ \E j \in DOMAIN emit[b] : emit[b][j] = emit'[b][i]
         \/ emit'[b][i][1] \in clientsMap
<1>1. ASSUME UNCHANGED emit
      PROVE  \E j \in DOMAIN emit[b] : emit[b][j] = emit'[b][i]
  BY <1>1
<1>2. ASSUME NEW c \in Client,
             \/ Accept(c) \/ Refuse(c) \/ Drop(c) \/ Reply(c) \/ Release(c)
             \/ PushUnregister(c) \/ Write(c) \/ WriteFails(c) \/ PingFails(c)
             \/ TimerFires(c) \/ Add(c) \/ Remove(c)
             \/ \E cmd \in Command : Read(c, cmd)
      PROVE  UNCHANGED emit
  BY <1>2 DEF Accept, Refuse, Drop, Reply, Release, PushUnregister, Write, WriteFails,
              PingFails, TimerFires, Add, Remove, Read
<1>3. ASSUME EmitCall \/ EmitListenersCount \/ EmitConfig
      PROVE  \/ \E j \in DOMAIN emit[b] : emit[b][j] = emit'[b][i]
             \/ emit'[b][i][1] \in clientsMap
  <2>1. PICK S \in SUBSET clientsMap, cmds \in Seq(Command) : Start(S, cmds)
    BY <1>3, EmitIsStart
  <2>2. S \in SUBSET Client
    BY <2>1 DEF TypeOK
  <2>3. emit'[b] = emit[b] \/ emit'[b][i][1] \in S
    BY <2>1, <2>2, StartType
  <2> QED BY <2>1, <2>3
<1>4. ASSUME NEW a \in Broadcast, Push(a)
      PROVE  \E j \in DOMAIN emit[b] : emit[b][j] = emit'[b][i]
  <2>1. emit \in [Broadcast -> Seq(Client \X Command)]
    BY DEF TypeOK
  <2>2. CASE a # b
    BY <1>4, <2>1, <2>2 DEF Push
  <2>3. CASE a = b
    <3>1. emit[b] \in Seq(Client \X Command) /\ emit[b] # <<>> /\ emit'[b] = Tail(emit[b])
      BY <1>4, <2>1, <2>3 DEF Push
    <3>2. i \in 1..(Len(emit[b]) - 1) /\ emit'[b][i] = emit[b][i + 1]
      BY <3>1
    <3>3. i + 1 \in DOMAIN emit[b]
      BY <3>1, <3>2
    <3> QED BY <3>2, <3>3
  <2> QED BY <2>2, <2>3
<1>5. CASE UNCHANGED vars
  BY <1>1, <1>5 DEF vars
<1> QED BY <1>1, <1>2, <1>3, <1>4, <1>5 DEF Next

LEMMA BroadcastInit == Init => BroadcastToConfigured
BY DEF Init, BroadcastToConfigured

LEMMA BroadcastStep ==
  ASSUME TypeOK, Unstarted, BroadcastToConfigured, [Next]_vars
  PROVE  BroadcastToConfigured'
<1> USE DEF BroadcastToConfigured
<1>1. ASSUME NEW d \in register' \union clientsMap'
      PROVE  d \in Client /\ timer'[d] = "nil"
  <2>1. d \in Client
    BY TypeStep DEF TypeOK
  <2> QED BY <2>1, RegistrationStep
<1>2. ASSUME NEW b \in Broadcast, NEW i \in DOMAIN emit'[b]
      PROVE  timer'[emit'[b][i][1]] = "nil"
  <2> DEFINE d == emit'[b][i][1]
  <2>1. d \in Client
    <3>1. emit'[b] \in Seq(Client \X Command)
      BY TypeStep DEF TypeOK
    <3>2. emit'[b][i] \in Client \X Command
      BY <3>1
    <3> QED BY <3>2
  <2>2. timer[d] = "nil"
    BY EmitStep
  <2> QED BY <2>1, <2>2, RegistrationStep
<1> QED BY <1>1, <1>2

(* Broadcasts go only to connections that have been given a configuration. *)
THEOREM BroadcastSafe == Spec => []BroadcastToConfigured
BY TypeCorrect, UnstartedAlways, BroadcastInit, BroadcastStep, PTL DEF Spec

LEMMA StaysOutStep ==
  ASSUME TypeOK, Unstarted, [Next]_vars, NEW c \in Client,
         timer[c] = "nil", c \notin register, c \notin clientsMap
  PROVE  c \notin register' /\ c \notin clientsMap'
BY RegistrationStep

(* A listener that left the map never comes back to it.                    *)
THEOREM StaysOutSafe == Spec => StaysOut
<1>1. TypeOK /\ Unstarted /\ [Next]_vars =>
        [\A c \in Client : timer[c] = "nil" /\ c \notin register /\ c \notin clientsMap
           => c \notin register' /\ c \notin clientsMap']_vars
  BY StaysOutStep
<1> QED BY <1>1, TypeCorrect, UnstartedAlways, PTL DEF Spec, StaysOut
=============================================================================
