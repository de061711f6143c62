---------------------------------- MODULE Pin ----------------------------------
(***************************************************************************)
(* Authentication of listeners (ProcessMessage and ProcessMessageCommandPin*)
(* of controller.go, auth_limiter.go, AccessCount of client.go, GetAccess, *)
(* HasExpired and FromMap of access.go).                                   *)
(*                                                                         *)
(* Each connection's reader handles one message at a time; readers run     *)
(* concurrently, and concurrently with the administrator saving the access *)
(* codes.  A PIN goes through the limiter of its address, the list of      *)
(* access codes, the count of listeners that use the code, and, accepted,  *)
(* resets the limiter and is answered with the configuration, after which  *)
(* the client is registered as a listener.                                 *)
(*                                                                         *)
(* An access is a pointer: saving the codes makes new objects, and clients *)
(* keep the ones they have.                                                *)
(***************************************************************************)
EXTENDS Integers, FiniteSets

CONSTANTS
  Client,           \* connections
  Address,          \* remote addresses
  AddressOf,        \* the address of each connection
  Code,             \* access codes
  Limit,            \* the limit of each code, 0 for none
  MaxPinAttempts,   \* Options.MaxPinAttempts
  Window,           \* pinAttemptWindow, in ticks of the clock
  MaxSaves          \* bound: how often the codes are saved

ASSUME PinAssumption ==
  /\ IsFiniteSet(Client)
  /\ AddressOf \in [Client -> Address]
  /\ Code \intersect {"none", "wrong"} = {}
  /\ Limit \in [Code -> Nat]
  /\ MaxPinAttempts \in Nat
  /\ Window \in Nat \ {0}
  /\ MaxSaves \in Nat

VARIABLES
  count, left,   \* AuthLimiter.attempts: failures, and time until they expire
  listed,        \* the codes in Accesses.List
  saves,         \* how often the list was replaced
  expired,       \* the codes whose expiration date has passed
  pc,            \* what a reader is doing (below)
  pin,           \* the PIN it handles
  access,        \* Client.Access
  configured,    \* clients that were sent a configuration, to be registered
  listeners      \* Clients.Map

limiter == <<count, left>>
codes   == <<listed, saves, expired>>
roster  == <<configured, listeners>>
vars    == <<limiter, codes, pc, pin, access, roster>>

(* A reader waits for a message, or has a PIN that the limiter let pass,   *)
(* that is to be looked up, to be counted as failed, to be checked against *)
(* the limit, or that is accepted.                                         *)
PC == {"idle", "passed", "lookup", "failed", "limited", "accepted"}

(* An access without systems is what NewAccess makes.                      *)
NoAccess == [code |-> "none", save |-> 0]
Access   == [code : Code, save : Nat] \union {NoAccess}

Init ==
  /\ count = [a \in Address |-> 0]
  /\ left = [a \in Address |-> 0]
  /\ listed \in SUBSET Code
  /\ saves = 0
  /\ expired = {}
  /\ pc = [c \in Client |-> "idle"]
  /\ pin = [c \in Client |-> "none"]
  /\ access = [c \in Client |-> NoAccess]
  /\ configured = {}
  /\ listeners = {}

-----------------------------------------------------------------------------
(* The limiter.  An entry with no failures is one that does not exist.     *)

Locked(a) == MaxPinAttempts > 0 /\ count[a] >= MaxPinAttempts /\ left[a] > 0

(* RetryAfter: an expired lock is forgotten.                               *)
RetryAfter(a) ==
  /\ count' = [count EXCEPT ![a] = IF @ >= MaxPinAttempts /\ ~Locked(a) THEN 0 ELSE @]
  /\ UNCHANGED left

(* A failure at a: entries that have expired are deleted first.            *)
Purged == [b \in Address |-> IF left[b] = 0 THEN 0 ELSE count[b]]

(* Mutant: a failure adds to the window of those before it.                *)
FailedExtends(a) ==
  /\ count' = [Purged EXCEPT ![a] = IF MaxPinAttempts = 0 THEN 0 ELSE @ + 1]
  /\ left' = [left EXCEPT ![a] = IF MaxPinAttempts = 0 THEN 0 ELSE @ + Window]

Failed(a) ==
  /\ count' = [Purged EXCEPT ![a] = IF MaxPinAttempts = 0 THEN 0 ELSE @ + 1]
  /\ left' = [left EXCEPT ![a] = IF MaxPinAttempts = 0 THEN 0 ELSE Window]

-----------------------------------------------------------------------------
(* One PIN.                                                                *)

Await(c, to) == pc' = [pc EXCEPT ![c] = to]

(* Mutant: an attempt while locked starts the window anew.                 *)
PinLockedExtends(c) ==
  /\ pc[c] = "idle"
  /\ Locked(AddressOf[c])
  /\ left' = [left EXCEPT ![AddressOf[c]] = Window]
  /\ UNCHANGED <<count, codes, pc, pin, access, roster>>

(* Locked: the client is told for how long.                                *)
PinLocked(c) ==
  /\ pc[c] = "idle"
  /\ Locked(AddressOf[c])
  /\ UNCHANGED vars

(* Mutant: the limiter is not asked.                                       *)
PinUnlimited(c, p) ==
  /\ pc[c] = "idle"
  /\ RetryAfter(AddressOf[c])
  /\ Await(c, "passed")
  /\ pin' = [pin EXCEPT ![c] = p]
  /\ UNCHANGED <<codes, access, roster>>

Pin(c, p) ==
  /\ pc[c] = "idle"
  /\ ~Locked(AddressOf[c])
  /\ RetryAfter(AddressOf[c])
  /\ Await(c, "passed")
  /\ pin' = [pin EXCEPT ![c] = p]
  /\ UNCHANGED <<codes, access, roster>>

(* A PIN that is not in base64 is an error and no failure.                 *)
PinUndecoded(c) ==
  /\ pc[c] = "idle"
  /\ ~Locked(AddressOf[c])
  /\ RetryAfter(AddressOf[c])
  /\ UNCHANGED <<codes, pc, pin, access, roster>>

(* No code is needed while the list is empty.                              *)
Unrestricted(c) ==
  /\ pc[c] = "passed" /\ listed = {}
  /\ access' = [access EXCEPT ![c] = NoAccess]
  /\ Await(c, "accepted")
  /\ UNCHANGED <<limiter, codes, pin, roster>>

Restricted(c) ==
  /\ pc[c] = "passed" /\ listed # {}
  /\ Await(c, "lookup")
  /\ UNCHANGED <<limiter, codes, pin, access, roster>>

NotFound(c) ==
  /\ pc[c] = "lookup" /\ pin[c] \notin listed
  /\ Await(c, "failed")
  /\ UNCHANGED <<limiter, codes, pin, access, roster>>

PinFails(c) ==
  /\ pc[c] = "failed"
  /\ Failed(AddressOf[c])
  /\ Await(c, "idle")
  /\ pin' = [pin EXCEPT ![c] = "none"]
  /\ UNCHANGED <<codes, access, roster>>

(* The client takes the access before the rest is checked.                 *)
Found(c) ==
  /\ pc[c] = "lookup" /\ pin[c] \in listed
  /\ access' = [access EXCEPT ![c] = [code |-> pin[c], save |-> saves]]
  /\ Await(c, IF pin[c] \in expired THEN "idle"
              ELSE IF Limit[pin[c]] > 0 THEN "limited" ELSE "accepted")
  /\ pin' = [pin EXCEPT ![c] = "none"]
  /\ UNCHANGED <<limiter, codes, roster>>

AccessCount(c) == Cardinality({d \in listeners : access[d] = access[c]})

CheckLimit(c) ==
  /\ pc[c] = "limited"
  /\ Await(c, IF AccessCount(c) > Limit[access[c].code] THEN "idle" ELSE "accepted")
  /\ UNCHANGED <<limiter, codes, pin, access, roster>>

(* The first configuration written to a client registers it.               *)
SendConfig(c) ==
  configured' = IF c \in listeners THEN configured ELSE configured \union {c}

(* Mutant: the failures of every address are forgotten.                    *)
AcceptForgetsAll(c) ==
  /\ pc[c] = "accepted"
  /\ count' = [a \in Address |-> 0]
  /\ left' = [a \in Address |-> 0]
  /\ SendConfig(c)
  /\ Await(c, "idle")
  /\ pin' = [pin EXCEPT ![c] = "none"]
  /\ UNCHANGED <<codes, access, listeners>>

Accept(c) ==
  /\ pc[c] = "accepted"
  /\ count' = [count EXCEPT ![AddressOf[c]] = 0]
  /\ left' = [left EXCEPT ![AddressOf[c]] = 0]
  /\ SendConfig(c)
  /\ Await(c, "idle")
  /\ pin' = [pin EXCEPT ![c] = "none"]
  /\ UNCHANGED <<codes, access, listeners>>

-----------------------------------------------------------------------------
(* Other requests, the connections, the administrator and time.            *)

(* A client asks for the configuration: the PIN is asked of one that has   *)
(* no access, and changes nothing here.                                    *)
Config(c) ==
  /\ pc[c] = "idle"
  /\ listed = {} \/ access[c] # NoAccess
  /\ SendConfig(c)
  /\ UNCHANGED <<limiter, codes, pc, pin, access, listeners>>

Register(c) ==
  /\ c \in configured
  /\ configured' = configured \ {c}
  /\ listeners' = listeners \union {c}
  /\ UNCHANGED <<limiter, codes, pc, pin, access>>

(* A connection ends, and another may come from its address.               *)
Leave(c) ==
  /\ pc[c] = "idle"
  /\ configured' = configured \ {c}
  /\ listeners' = listeners \ {c}
  /\ access' = [access EXCEPT ![c] = NoAccess]
  /\ UNCHANGED <<limiter, codes, pc, pin>>

(* The administrator saves a list of codes.                                *)
Save(list) ==
  /\ saves < MaxSaves
  /\ saves' = saves + 1
  /\ listed' = list
  /\ UNCHANGED <<limiter, expired, pc, pin, access, roster>>

Expire(k) ==
  /\ expired' = expired \union {k}
  /\ UNCHANGED <<limiter, listed, saves, pc, pin, access, roster>>

Tick ==
  /\ left' = [a \in Address |-> IF left[a] > 0 THEN left[a] - 1 ELSE 0]
  /\ UNCHANGED <<count, codes, pc, pin, access, roster>>

Reader(c) ==
  \/ PinLocked(c) \/ PinUndecoded(c)
  \/ \E p \in Code \union {"wrong"} : Pin(c, p)
  \/ Unrestricted(c) \/ Restricted(c) \/ NotFound(c) \/ PinFails(c)
  \/ Found(c) \/ CheckLimit(c) \/ Accept(c)
  \/ Config(c) \/ Leave(c)

Next ==
  \/ \E c \in Client : Reader(c) \/ Register(c)
  \/ \E list \in SUBSET Code : Save(list)
  \/ \E k \in Code : Expire(k)
  \/ Tick

(* Time passes.                                                            *)
Fairness == WF_vars(Tick)

Spec == Init /\ [][Next]_vars /\ Fairness

-----------------------------------------------------------------------------
(* What each variable holds.                                               *)
TypeOK ==
  /\ count \in [Address -> Nat]
  /\ left \in [Address -> 0 .. Window]
  /\ listed \subseteq Code /\ expired \subseteq Code
  /\ saves \in 0 .. MaxSaves
  /\ pc \in [Client -> PC]
  /\ pin \in [Client -> Code \union {"none", "wrong"}]
  /\ access \in [Client -> Access]
  /\ configured \subseteq Client /\ listeners \subseteq Client

At(a) == {c \in Client : AddressOf[c] = a}

(* The PINs of an address that passed the limiter and may yet fail.        *)
Pending(a) == {c \in At(a) : pc[c] \in {"passed", "lookup", "failed"}}

(* The limiter is asked before a PIN is looked up and told afterwards, so  *)
(* connections of one address can all pass before any has failed: what is  *)
(* counted and what may still be counted never exceeds MaxPinAttempts by   *)
(* more than the other connections of the address.                         *)
FailuresBounded ==
  MaxPinAttempts > 0 =>
    \A a \in Address :
      At(a) # {} => count[a] + Cardinality(Pending(a)) < MaxPinAttempts + Cardinality(At(a))

(* A locked address stays locked until its window has passed, or until a   *)
(* PIN of that address that had passed the limiter earlier is accepted; no *)
(* failure, save or success elsewhere unlocks it.                          *)
LockLasts ==
  [][\A a \in Address :
       Locked(a) /\ ~Locked(a)' =>
         \/ left[a] = 1 /\ pc' = pc
         \/ \E c \in At(a) : pc[c] = "accepted" /\ pc'[c] = "idle"]_vars

(* A lock ends, however often the clients of the address keep trying: an   *)
(* attempt while locked does not start the window anew.                    *)
Unlocks == \A a \in Address : Locked(a) ~> ~Locked(a)
=============================================================================
