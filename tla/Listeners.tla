------------------------------ MODULE Listeners ------------------------------
(***************************************************************************)
(* The life of a listener's websocket on the server (client.go and the     *)
(* registration loop of controller.go).                                    *)
(*                                                                         *)
(* Client.Init reserves a slot and starts two goroutines per connection.   *)
(* The reader turns each frame into at most one reply on the buffered Send *)
(* channel; when the socket fails it releases the slot and asks to be      *)
(* unregistered.  The writer drains Send onto the socket; the first        *)
(* configuration it takes from Send stops the authentication timer and     *)
(* asks for the client to be registered.  One controller goroutine selects *)
(* over the Register and Unregister channels and maintains Clients.Map;    *)
(* broadcasts (EmitCall, EmitConfig, EmitListenersCount) walk a snapshot   *)
(* of that map and block on each client's Send in turn.                    *)
(*                                                                         *)
(* A message is either a configuration ("CFG") or anything else ("MSG").   *)
(* What a PIN is worth is the subject of module Pin.                       *)
(***************************************************************************)
EXTENDS Integers, Sequences, FiniteSets

CONSTANTS
  Client,         \* the websocket connections that may be attempted
  MaxClients,     \* Options.MaxClients
  SendCap,        \* capacity of Client.Send (8192 in the code)
  MaxRequests,    \* bound: frames read per connection
  MaxBroadcasts   \* bound: broadcasts started

ASSUME ListenersAssumption ==
  /\ IsFiniteSet(Client)
  /\ MaxClients \in Nat
  /\ SendCap \in Nat \ {0}
  /\ MaxRequests \in Nat
  /\ MaxBroadcasts \in Nat

VARIABLES
  conn,        \* the websocket: "none", "open" or "closed"
  reader,      \* reader goroutine: "none", "reading", "released", "done"
  reply,       \* the message the reader is about to push, or "none"
  requests,    \* frames read so far
  writer,      \* writer goroutine: "none", "running", "done"
  timer,       \* writer's timer: "none", "armed", "fired", "stopped", "nil"
  send,        \* Client.Send
  register,    \* Controller.Register, not yet taken by the loop
  unregister,  \* Controller.Unregister, not yet taken by the loop
  clientsMap,  \* Clients.Map
  active,      \* Clients.active
  emit,        \* what each broadcast has still to push, in order
  broadcasts   \* how many broadcasts have started

sockets == <<conn, reader, reply, requests, writer, timer>>
hub     == <<register, unregister, clientsMap, active>>
vars    == <<sockets, send, hub, emit, broadcasts>>

Command   == {"CFG", "MSG"}
Broadcast == 1..MaxBroadcasts

Live(c) == reader[c] = "reading"

Init ==
  /\ conn = [c \in Client |-> "none"]
  /\ reader = [c \in Client |-> "none"]
  /\ reply = [c \in Client |-> "none"]
  /\ requests = [c \in Client |-> 0]
  /\ writer = [c \in Client |-> "none"]
  /\ timer = [c \in Client |-> "none"]
  /\ send = [c \in Client |-> <<>>]
  /\ register = {}
  /\ unregister = {}
  /\ clientsMap = {}
  /\ active = 0
  /\ emit = [b \in Broadcast |-> <<>>]
  /\ broadcasts = 0

-----------------------------------------------------------------------------
(* Client.Init: TryReserve, then the two goroutines.                       *)

(* Mutant: registered as soon as it is accepted.                           *)
AcceptRegisters(c) ==
  /\ conn[c] = "none"
  /\ active < MaxClients
  /\ active' = active + 1
  /\ conn' = [conn EXCEPT ![c] = "open"]
  /\ reader' = [reader EXCEPT ![c] = "reading"]
  /\ writer' = [writer EXCEPT ![c] = "running"]
  /\ timer' = [timer EXCEPT ![c] = "armed"]
  /\ register' = register \union {c}
  /\ UNCHANGED <<reply, requests, send, unregister, clientsMap, emit, broadcasts>>

Accept(c) ==
  /\ conn[c] = "none"
  /\ active < MaxClients
  /\ active' = active + 1
  /\ conn' = [conn EXCEPT ![c] = "open"]
  /\ reader' = [reader EXCEPT ![c] = "reading"]
  /\ writer' = [writer EXCEPT ![c] = "running"]
  /\ timer' = [timer EXCEPT ![c] = "armed"]
  /\ UNCHANGED <<reply, requests, send, register, unregister, clientsMap, emit, broadcasts>>

Refuse(c) ==
  /\ conn[c] = "none"
  /\ active >= MaxClients
  /\ conn' = [conn EXCEPT ![c] = "closed"]
  /\ UNCHANGED <<reader, reply, requests, writer, timer, send, hub, emit, broadcasts>>

(* The peer goes away, the network drops, or the read deadline passes.     *)
Drop(c) ==
  /\ conn[c] = "open"
  /\ conn' = [conn EXCEPT ![c] = "closed"]
  /\ UNCHANGED <<reader, reply, requests, writer, timer, send, hub, emit, broadcasts>>

-----------------------------------------------------------------------------
(* The reader goroutine.                                                   *)

(* ReadMessage returns a frame; ProcessMessage has computed its answer.    *)
Read(c, cmd) ==
  /\ Live(c) /\ reply[c] = "none"
  /\ conn[c] = "open"
  /\ requests[c] < MaxRequests
  /\ requests' = [requests EXCEPT ![c] = @ + 1]
  /\ reply' = [reply EXCEPT ![c] = cmd]
  /\ UNCHANGED <<conn, reader, writer, timer, send, hub, emit, broadcasts>>

(* client.Send <- message: blocks while the buffer is full.                *)
Reply(c) ==
  /\ Live(c) /\ reply[c] # "none"
  /\ Len(send[c]) < SendCap
  /\ send' = [send EXCEPT ![c] = Append(@, reply[c])]
  /\ reply' = [reply EXCEPT ![c] = "none"]
  /\ UNCHANGED <<conn, reader, requests, writer, timer, hub, emit, broadcasts>>

(* Mutant: the reader waits for Send to be drained before it releases.     *)
ReleaseOnDrain(c) ==
  /\ Live(c) /\ reply[c] = "none" /\ send[c] = <<>>
  /\ conn[c] = "closed"
  /\ reader' = [reader EXCEPT ![c] = "released"]
  /\ active' = active - 1
  /\ UNCHANGED <<conn, reply, requests, writer, timer, send,
                 register, unregister, clientsMap, emit, broadcasts>>

(* Mutant: the slot is not given back.                                     *)
ReleaseForgets(c) ==
  /\ Live(c) /\ reply[c] = "none"
  /\ conn[c] = "closed"
  /\ reader' = [reader EXCEPT ![c] = "released"]
  /\ UNCHANGED <<conn, reply, requests, writer, timer, send, hub, emit, broadcasts>>

(* ReadMessage fails: the deferred function releases the slot ...          *)
Release(c) ==
  /\ Live(c) /\ reply[c] = "none"
  /\ conn[c] = "closed"
  /\ reader' = [reader EXCEPT ![c] = "released"]
  /\ active' = IF active > 0 THEN active - 1 ELSE active
  /\ UNCHANGED <<conn, reply, requests, writer, timer, send,
                 register, unregister, clientsMap, emit, broadcasts>>

(* Mutant: the slot is released again, unguarded, with the unregistration. *)
PushUnregisterReleases(c) ==
  /\ reader[c] = "released"
  /\ reader' = [reader EXCEPT ![c] = "done"]
  /\ unregister' = unregister \union {c}
  /\ active' = active - 1
  /\ UNCHANGED <<conn, reply, requests, writer, timer, send,
                 register, clientsMap, emit, broadcasts>>

(* ... and then sends the client to the Unregister channel.                *)
PushUnregister(c) ==
  /\ reader[c] = "released"
  /\ reader' = [reader EXCEPT ![c] = "done"]
  /\ unregister' = unregister \union {c}
  /\ UNCHANGED <<conn, reply, requests, writer, timer, send,
                 register, clientsMap, active, emit, broadcasts>>

-----------------------------------------------------------------------------
(* The writer goroutine.                                                   *)

(* Mutant: every configuration registers the client.                       *)
AnyConfig(c) == Head(send[c]) = "CFG"

FirstConfig(c) == Head(send[c]) = "CFG" /\ timer[c] # "nil"

Stopped(t) == IF t = "armed" THEN "stopped" ELSE t

(* Take the next message.  The first configuration makes the timer nil and *)
(* registers the client, before the write is attempted.                    *)
Take(c) ==
  /\ writer[c] = "running"
  /\ send[c] # <<>>
  /\ send' = [send EXCEPT ![c] = Tail(@)]
  /\ register' = IF FirstConfig(c) THEN register \union {c} ELSE register

(* Mutant: any message stops the authentication timer.                     *)
WriteStopsTimer(c) ==
  /\ Take(c)
  /\ conn[c] = "open"
  /\ timer' = [timer EXCEPT ![c] = IF FirstConfig(c) THEN "nil" ELSE Stopped(@)]
  /\ UNCHANGED <<conn, reader, reply, requests, writer, unregister, clientsMap, active,
                 emit, broadcasts>>

Write(c) ==
  /\ Take(c)
  /\ conn[c] = "open"
  /\ timer' = IF FirstConfig(c) THEN [timer EXCEPT ![c] = "nil"] ELSE timer
  /\ UNCHANGED <<conn, reader, reply, requests, writer, unregister, clientsMap, active,
                 emit, broadcasts>>

(* The goroutine returns: the timer that is not nil is stopped and the     *)
(* socket closed.                                                          *)
StopWriter(c) ==
  /\ writer' = [writer EXCEPT ![c] = "done"]
  /\ conn' = [conn EXCEPT ![c] = "closed"]

(* The write fails, on a closed socket or on the write deadline.           *)
WriteFails(c) ==
  /\ Take(c)
  /\ timer' = [timer EXCEPT ![c] = IF FirstConfig(c) THEN "nil" ELSE Stopped(@)]
  /\ StopWriter(c)
  /\ UNCHANGED <<reader, reply, requests, unregister, clientsMap, active, emit, broadcasts>>

(* The periodic ping fails.                                                *)
PingFails(c) ==
  /\ writer[c] = "running"
  /\ timer' = [timer EXCEPT ![c] = Stopped(@)]
  /\ StopWriter(c)
  /\ UNCHANGED <<reader, reply, requests, send, hub, emit, broadcasts>>

(* Sixty seconds without a configuration: the socket is closed.            *)
TimerFires(c) ==
  /\ timer[c] = "armed"
  /\ timer' = [timer EXCEPT ![c] = "fired"]
  /\ conn' = [conn EXCEPT ![c] = "closed"]
  /\ UNCHANGED <<reader, reply, requests, writer, send, hub, emit, broadcasts>>

-----------------------------------------------------------------------------
(* The controller's select over Register and Unregister.                   *)

Add(c) ==
  /\ c \in register
  /\ register' = register \ {c}
  /\ clientsMap' = clientsMap \union {c}
  /\ UNCHANGED <<sockets, send, unregister, active, emit, broadcasts>>

Remove(c) ==
  /\ c \in unregister
  /\ unregister' = unregister \ {c}
  /\ clientsMap' = clientsMap \ {c}
  /\ UNCHANGED <<sockets, send, register, active, emit, broadcasts>>

-----------------------------------------------------------------------------
(* Broadcasts.  A snapshot of a Go map comes in any order.                 *)

Orders(S) ==
  {f \in [1..Cardinality(S) -> S] : \A i, j \in DOMAIN f : f[i] = f[j] => i = j}

(* Each client of the snapshot is sent the commands cmds, then the next.   *)
Pushes(order, cmds) ==
  LET n == Len(cmds) IN
  [i \in 1..(n * Len(order)) |-> <<order[((i - 1) \div n) + 1], cmds[((i - 1) % n) + 1]>>]

Start(S, cmds) ==
  /\ S # {}
  /\ broadcasts < MaxBroadcasts
  /\ broadcasts' = broadcasts + 1
  /\ \E order \in Orders(S) :
       emit' = [emit EXCEPT ![broadcasts + 1] = Pushes(order, cmds)]
  /\ UNCHANGED <<sockets, send, hub>>

(* The listeners S of the snapshot have access to the call and have its    *)
(* talkgroup, or one it is patched to, switched on.                        *)
EmitCall == \E S \in SUBSET clientsMap : Start(S, <<"MSG">>)

(* Five seconds after a registration or its end, if the count is shown.    *)
EmitListenersCount == Start(clientsMap, <<"MSG">>)

(* PIN requests if access is restricted, configurations otherwise; each is *)
(* followed by the listeners count if that is shown.                       *)
EmitConfig ==
  \E cmd \in Command : \E cmds \in {<<cmd>>, <<cmd, "MSG">>} : Start(clientsMap, cmds)

(* Mutant: the loop does not move on to the next client.                   *)
PushAgain(b) ==
  /\ emit[b] # <<>>
  /\ LET c == Head(emit[b])[1] IN
     /\ Len(send[c]) < SendCap
     /\ send' = [send EXCEPT ![c] = Append(@, Head(emit[b])[2])]
  /\ UNCHANGED <<sockets, hub, emit, broadcasts>>

(* c.Send <- message of broadcast b.                                       *)
Push(b) ==
  /\ emit[b] # <<>>
  /\ LET c == Head(emit[b])[1] IN
     /\ Len(send[c]) < SendCap
     /\ send' = [send EXCEPT ![c] = Append(@, Head(emit[b])[2])]
  /\ emit' = [emit EXCEPT ![b] = Tail(@)]
  /\ UNCHANGED <<sockets, hub, broadcasts>>

-----------------------------------------------------------------------------

Next ==
  \/ \E c \in Client :
       \/ Accept(c) \/ Refuse(c) \/ Drop(c)
       \/ \E cmd \in Command : Read(c, cmd)
       \/ Reply(c) \/ Release(c) \/ PushUnregister(c)
       \/ Write(c) \/ WriteFails(c) \/ PingFails(c) \/ TimerFires(c)
       \/ Add(c) \/ Remove(c)
  \/ EmitCall \/ EmitListenersCount \/ EmitConfig
  \/ \E b \in Broadcast : Push(b)

(* The runtime schedules every goroutine that can run, a timer that is     *)
(* armed fires, and a goroutine waiting for room in a buffer that keeps    *)
(* being drained gets its turn (senders on a channel are queued in order). *)
(* Nothing is assumed of the peers or of when broadcasts start.            *)
Fairness ==
  /\ \A c \in Client :
       /\ SF_vars(Reply(c))
       /\ WF_vars(Release(c))
       /\ WF_vars(PushUnregister(c))
       /\ WF_vars(Write(c) \/ WriteFails(c))
       /\ WF_vars(conn[c] = "closed" /\ PingFails(c))
       /\ WF_vars(TimerFires(c))
       /\ WF_vars(Add(c))
       /\ WF_vars(Remove(c))
  /\ \A b \in Broadcast : SF_vars(Push(b))

Spec == Init /\ [][Next]_vars /\ Fairness

-----------------------------------------------------------------------------

TypeOK ==
  /\ conn \in [Client -> {"none", "open", "closed"}]
  /\ reader \in [Client -> {"none", "reading", "released", "done"}]
  /\ reply \in [Client -> Command \union {"none"}]
  /\ requests \in [Client -> Nat]
  /\ writer \in [Client -> {"none", "running", "done"}]
  /\ timer \in [Client -> {"none", "armed", "fired", "stopped", "nil"}]
  /\ send \in [Client -> Seq(Command)]
  /\ register \in SUBSET Client
  /\ unregister \in SUBSET Client
  /\ clientsMap \in SUBSET Client
  /\ active \in Nat
  /\ emit \in [Broadcast -> Seq(Client \X Command)]
  /\ broadcasts \in 0..MaxBroadcasts

(* Clients.active is exactly the number of connections whose reader is     *)
(* still running, authenticated or not, and never exceeds MaxClients:      *)
(* every way out of the reader gives the slot back, once.                  *)
SlotsAccounted ==
  /\ active = Cardinality({c \in Client : Live(c)})
  /\ active <= MaxClients

(* Broadcasts reach only connections that have been given a configuration: *)
(* from the Register channel through the map to the pushes under way.      *)
BroadcastToConfigured ==
  /\ register \union clientsMap \subseteq {c \in Client : timer[c] = "nil"}
  /\ \A b \in Broadcast : \A i \in DOMAIN emit[b] : timer[emit[b][i][1]] = "nil"

(* A connection that was registered and is no longer queued or in the map  *)
(* never comes back: a later configuration does not register it again.     *)
StaysOut ==
  [][\A c \in Client :
       timer[c] = "nil" /\ c \notin register /\ c \notin clientsMap
         => c \notin register' /\ c \notin clientsMap']_vars

(* Every connection is closed or configured in the end: one that never     *)
(* authenticates does not keep its slot.                                   *)
ConfiguredOrClosed ==
  \A c \in Client : conn[c] = "open" ~> (conn[c] = "closed" \/ timer[c] = "nil")

(* The slot of a closed connection comes back, unless its reader is stuck  *)
(* on a full Send whose writer has gone.                                   *)
SlotReturned ==
  \A c \in Client :
    conn[c] = "closed" /\ Live(c)
      ~> \/ ~Live(c)
         \/ reply[c] # "none" /\ Len(send[c]) = SendCap /\ writer[c] = "done"

(* A broadcast visits every client of its snapshot: the only thing that    *)
(* can hold it is a client whose writer has gone.                          *)
BroadcastAdvances ==
  \A b \in Broadcast :
    emit[b] # <<>> ~> (emit[b] = <<>> \/ writer[emit[b][1][1]] = "done")

(* The listeners count is the number of connected listeners once the       *)
(* registration loop has caught up: a connection that has gone and is in   *)
(* neither channel is not in the map.                                      *)
DepartedNotCounted ==
  \A c \in Client :
    reader[c] = "done" /\ c \notin register \union unregister => c \notin clientsMap
=============================================================================
