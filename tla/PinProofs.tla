------------------------------- MODULE PinProofs -------------------------------
(***************************************************************************)
(* Proofs about the authentication of listeners: types, the bound on the   *)
(* failures of an address, and how long a lock lasts.                      *)
(***************************************************************************)
EXTENDS Pin, FiniteSetTheorems, TLAPS

(* The clock changes nothing but the time left.                            *)
LEMMA ClockSteps ==
  ASSUME TypeOK, Tick
  PROVE  /\ left' \in [Address -> 0 .. Window]
         /\ UNCHANGED <<count, codes, pc, pin, access, roster>>
BY PinAssumption DEF TypeOK, Tick

(* The limiter keeps its types, whatever is reported to it.                *)
LEMMA LimiterType ==
  ASSUME TypeOK, NEW a \in Address
  PROVE  /\ RetryAfter(a) => /\ count' \in [Address -> Nat]
                             /\ left' \in [Address -> 0 .. Window]
         /\ Failed(a) => /\ count' \in [Address -> Nat]
                         /\ left' \in [Address -> 0 .. Window]
<1>1. RetryAfter(a) => count' \in [Address -> Nat] /\ left' \in [Address -> 0 .. Window]
  BY DEF TypeOK, RetryAfter
<1>2. Purged \in [Address -> Nat]
  BY DEF TypeOK, Purged
<1>3. Failed(a) => count' \in [Address -> Nat]
  BY <1>2 DEF Failed
<1>4. 0 \in 0 .. Window /\ Window \in 0 .. Window
  BY PinAssumption
<1>5. Failed(a) => left' \in [Address -> 0 .. Window]
  BY <1>4 DEF TypeOK, Failed
<1> QED BY <1>1, <1>3, <1>5

LEMMA TypeInit == Init => TypeOK
BY PinAssumption DEF Init, TypeOK, PC, Access, NoAccess

LEMMA TypeStep == TypeOK /\ [Next]_vars => TypeOK'
<1> SUFFICES ASSUME TypeOK, [Next]_vars PROVE TypeOK' OBVIOUS
<1> USE PinAssumption DEF Await, limiter, codes, roster
<1>1. ASSUME NEW c \in Client, Reader(c) PROVE TypeOK'
  <2> AddressOf[c] \in Address OBVIOUS
  <2>1. CASE PinLocked(c) \/ PinUndecoded(c)
    BY <2>1, LimiterType DEF PinLocked, PinUndecoded, TypeOK, vars
  <2>2. ASSUME NEW p \in Code \union {"wrong"}, Pin(c, p) PROVE TypeOK'
    BY <2>2, LimiterType DEF Pin, TypeOK, PC
  <2>3. CASE Unrestricted(c)
    BY <2>3 DEF Unrestricted, TypeOK, PC, Access
  <2>4. CASE Restricted(c) \/ NotFound(c)
    BY <2>4 DEF Restricted, NotFound, TypeOK, PC
  <2>5. CASE PinFails(c)
    BY <2>5, LimiterType DEF PinFails, TypeOK, PC
  <2>6. CASE Found(c)
    <3>1. pin[c] \in Code /\ saves \in Nat
      BY <2>6 DEF Found, TypeOK
    <3>2. access' \in [Client -> Access]
      BY <2>6, <3>1 DEF Found, TypeOK, Access
    <3>3. pc' \in [Client -> PC]
      BY <2>6 DEF Found, TypeOK, PC
    <3> QED BY <2>6, <3>2, <3>3 DEF Found, TypeOK
  <2>7. CASE CheckLimit(c)
    BY <2>7 DEF CheckLimit, TypeOK, PC
  <2>8. CASE Accept(c)
    BY <2>8 DEF Accept, SendConfig, TypeOK, PC
  <2>9. CASE Config(c)
    BY <2>9 DEF Config, SendConfig, TypeOK
  <2>10. CASE Leave(c)
    BY <2>10 DEF Leave, TypeOK, Access
  <2> QED BY <1>1, <2>1, <2>2, <2>3, <2>4, <2>5, <2>6, <2>7, <2>8, <2>9, <2>10 DEF Reader
<1>2. ASSUME NEW c \in Client, Register(c) PROVE TypeOK'
  BY <1>2 DEF Register, TypeOK
<1>3. ASSUME NEW list \in SUBSET Code, Save(list) PROVE TypeOK'
  BY <1>3 DEF Save, TypeOK
<1>4. ASSUME NEW k \in Code, Expire(k) PROVE TypeOK'
  BY <1>4 DEF Expire, TypeOK
<1>5. CASE Tick
  BY <1>5, ClockSteps DEF TypeOK
<1>6. CASE UNCHANGED vars
  BY <1>6 DEF vars, TypeOK
<1> QED BY <1>1, <1>2, <1>3, <1>4, <1>5, <1>6 DEF Next

(* Every variable keeps its type.                                          *)
THEOREM TypeCorrect == Spec => []TypeOK
<1>1. Init => TypeOK BY TypeInit
<1>2. TypeOK /\ [Next]_vars => TypeOK' BY TypeStep
<1> QED BY <1>1, <1>2, PTL DEF Spec

-----------------------------------------------------------------------------
(* The failures of an address.                                             *)

(* What is counted at an address, with what may yet be counted.            *)
Load(a) == count[a] + Cardinality(Pending(a))

LEMMA PendingFinite ==
  ASSUME NEW a
  PROVE  /\ IsFiniteSet(At(a)) /\ IsFiniteSet(Pending(a))
         /\ Cardinality(At(a)) \in Nat /\ Cardinality(Pending(a)) \in Nat
         /\ Cardinality(Pending(a)) <= Cardinality(At(a))
<1>1. IsFiniteSet(At(a)) BY PinAssumption, FS_Subset DEF At
<1>2. Pending(a) \subseteq At(a) BY DEF Pending
<1> QED BY <1>1, <1>2, FS_Subset, FS_CardinalityType

(* Where no PIN passes or fails, the load does not grow.                   *)
LEMMA LoadShrinks ==
  ASSUME TypeOK, TypeOK', NEW a \in Address,
         count'[a] <= count[a],
         \A c \in Client : pc'[c] \in {"passed", "lookup", "failed"} =>
                             pc[c] \in {"passed", "lookup", "failed"}
  PROVE  Load(a)' <= Load(a)
<1>1. Pending(a)' \subseteq Pending(a) BY DEF Pending, At
<1>2. Cardinality(Pending(a)') <= Cardinality(Pending(a)) /\ Cardinality(Pending(a)') \in Nat
  BY <1>1, PendingFinite, FS_Subset, FS_CardinalityType
<1>3. Cardinality(Pending(a)) \in Nat BY PendingFinite
<1>4. count[a] \in Nat /\ count'[a] \in Nat BY DEF TypeOK
<1> QED BY <1>2, <1>3, <1>4 DEF Load

(* A failure moves a PIN from those pending to those counted.              *)
LEMMA LoadOfFailure ==
  ASSUME TypeOK, TypeOK', NEW c \in Client, PinFails(c), NEW a \in Address
  PROVE  Load(a)' <= Load(a)
<1>1. CASE a = AddressOf[c]
  <2>1. Pending(a)' = Pending(a) \ {c} /\ c \in Pending(a)
    BY <1>1 DEF PinFails, Await, Pending, At, TypeOK
  <2>2. Cardinality(Pending(a)') = Cardinality(Pending(a)) - 1
    BY <2>1, PendingFinite, FS_RemoveElement
  <2>3. count'[a] <= count[a] + 1
    BY <1>1, PinAssumption DEF PinFails, Failed, Purged, TypeOK
  <2>4. count[a] \in Nat /\ count'[a] \in Nat BY DEF TypeOK
  <2> QED BY <2>2, <2>3, <2>4, PendingFinite DEF Load
<1>2. CASE a # AddressOf[c]
  <2>1. count'[a] <= count[a]
    BY <1>2, PinAssumption DEF PinFails, Failed, Purged, TypeOK
  <2> QED BY <2>1, LoadShrinks DEF PinFails, Await, TypeOK
<1> QED BY <1>1, <1>2

(* A PIN passes only below the maximum, where one more still fits.         *)
LEMMA LoadOfPin ==
  ASSUME TypeOK, TypeOK', MaxPinAttempts > 0, FailuresBounded,
         NEW c \in Client, NEW p, Pin(c, p), NEW a \in Address, At(a) # {}
  PROVE  Load(a)' < MaxPinAttempts + Cardinality(At(a))
<1>1. CASE a = AddressOf[c]
  <2>1. count'[a] < MaxPinAttempts
    BY <1>1, PinAssumption DEF Pin, RetryAfter, Locked, TypeOK
  <2>2. Pending(a)' \subseteq At(a) BY DEF Pending, At
  <2>3. Cardinality(Pending(a)') <= Cardinality(At(a)) /\ Cardinality(Pending(a)') \in Nat
    BY <2>2, PendingFinite, FS_Subset, FS_CardinalityType
  <2>4. count'[a] \in Nat BY DEF TypeOK
  <2> QED BY <2>1, <2>3, <2>4, PendingFinite, PinAssumption DEF Load
<1>2. CASE a # AddressOf[c]
  <2>1. Pending(a)' = Pending(a)
    BY <1>2 DEF Pin, Await, Pending, At, TypeOK
  <2>2. count'[a] = count[a]
    BY <1>2 DEF Pin, RetryAfter, TypeOK
  <2> QED BY <2>1, <2>2 DEF Load, FailuresBounded
<1> QED BY <1>1, <1>2

LEMMA FailuresInit == Init => FailuresBounded
<1> SUFFICES ASSUME Init, MaxPinAttempts > 0, NEW a \in Address, At(a) # {}
    PROVE  count[a] + Cardinality(Pending(a)) < MaxPinAttempts + Cardinality(At(a))
  BY DEF FailuresBounded
<1>1. Pending(a) = {} BY DEF Init, Pending, At
<1>2. Cardinality(Pending(a)) = 0 BY <1>1, FS_EmptySet
<1>3. count[a] = 0 BY DEF Init
<1> QED BY <1>2, <1>3, PendingFinite, PinAssumption

LEMMA FailuresStep ==
  TypeOK /\ TypeOK' /\ FailuresBounded /\ [Next]_vars => FailuresBounded'
<1> SUFFICES ASSUME TypeOK, TypeOK', FailuresBounded, [Next]_vars,
                    MaxPinAttempts > 0, NEW a \in Address, At(a) # {}
    PROVE  Load(a)' < MaxPinAttempts + Cardinality(At(a))
  BY DEF FailuresBounded, Load, At
<1> USE DEF Await, limiter, codes, roster
<1>1. ASSUME Load(a)' <= Load(a) PROVE Load(a)' < MaxPinAttempts + Cardinality(At(a))
  <2>1. Load(a) < MaxPinAttempts + Cardinality(At(a)) BY DEF FailuresBounded, Load
  <2>2. Load(a) \in Int BY PendingFinite DEF Load, TypeOK
  <2>3. Pending(a)' \subseteq At(a) BY DEF Pending, At
  <2>4. Cardinality(Pending(a)') \in Nat BY <2>3, PendingFinite, FS_Subset, FS_CardinalityType
  <2>5. Load(a)' \in Int BY <2>4 DEF Load, TypeOK
  <2> QED BY <1>1, <2>1, <2>2, <2>5, PendingFinite, PinAssumption
<1>2. ASSUME NEW c \in Client, Reader(c) PROVE Load(a)' < MaxPinAttempts + Cardinality(At(a))
  <2>1. ASSUME NEW p, Pin(c, p) PROVE Load(a)' < MaxPinAttempts + Cardinality(At(a))
    BY <2>1, LoadOfPin
  <2>2. CASE PinFails(c)
    BY <2>2, LoadOfFailure, <1>1
  <2>3. CASE Accept(c)
    <3>1. count'[a] <= count[a] BY <2>3 DEF Accept, TypeOK
    <3>2. Load(a)' <= Load(a) BY <2>3, <3>1, LoadShrinks DEF Accept, TypeOK
    <3> QED BY <3>2, <1>1
  <2>4. CASE \/ PinLocked(c) \/ PinUndecoded(c) \/ Unrestricted(c) \/ Restricted(c) \/ NotFound(c)
             \/ Found(c) \/ CheckLimit(c) \/ Config(c) \/ Leave(c)
    <3>1. count'[a] <= count[a]
      BY <2>4 DEF PinLocked, PinUndecoded, RetryAfter, Unrestricted, Restricted, NotFound, Found, CheckLimit,
                  Config, Leave, TypeOK, vars
    <3>2. \A d \in Client : pc'[d] \in {"passed", "lookup", "failed"} =>
                              pc[d] \in {"passed", "lookup", "failed"}
      BY <2>4 DEF PinLocked, PinUndecoded, RetryAfter, Unrestricted, Restricted, NotFound, Found, CheckLimit,
                  Config, Leave, TypeOK, vars
    <3>3. Load(a)' <= Load(a) BY <3>1, <3>2, LoadShrinks
    <3> QED BY <3>3, <1>1
  <2> QED BY <1>2, <2>1, <2>2, <2>3, <2>4 DEF Reader
<1>3. CASE \/ \E c \in Client : Register(c)
           \/ \E list \in SUBSET Code : Save(list)
           \/ \E k \in Code : Expire(k)
           \/ Tick
           \/ UNCHANGED vars
  <2>1. count' = count /\ pc' = pc BY <1>3 DEF Register, Save, Expire, Tick, vars
  <2>2. Load(a)' <= Load(a) BY <2>1, LoadShrinks DEF TypeOK
  <2> QED BY <2>2, <1>1
<1> QED BY <1>2, <1>3 DEF Next

(* However the connections of an address interleave, their failures exceed *)
(* the maximum by no more than the connections beside the one that may     *)
(* still try.                                                              *)
THEOREM FailuresSafe == Spec => []FailuresBounded
<1>1. Init => FailuresBounded BY FailuresInit
<1>2. TypeOK /\ TypeOK' /\ FailuresBounded /\ [Next]_vars => FailuresBounded' BY FailuresStep
<1> QED BY <1>1, <1>2, TypeCorrect, PTL DEF Spec

-----------------------------------------------------------------------------
(* The lock.                                                               *)

LEMMA LockStep ==
  ASSUME TypeOK, [Next]_vars, NEW a \in Address, Locked(a), ~Locked(a)'
  PROVE  \/ left[a] = 1 /\ pc' = pc
         \/ \E c \in At(a) : pc[c] = "accepted" /\ pc'[c] = "idle"
<1> USE DEF Await, limiter, codes, roster
<1>1. count[a] # count'[a] \/ left[a] # left'[a] BY DEF Locked
<1>2. ASSUME NEW c \in Client, Reader(c)
      PROVE  \E d \in At(a) : pc[d] = "accepted" /\ pc'[d] = "idle"
  <2>1. CASE Accept(c)
    <3>1. AddressOf[c] = a BY <2>1, <1>1 DEF Accept, TypeOK
    <3>2. c \in At(a) /\ pc[c] = "accepted" /\ pc'[c] = "idle"
      BY <2>1, <3>1 DEF Accept, At, TypeOK
    <3> QED BY <3>2
  <2>2. CASE PinFails(c)
    (* A failure adds to the entry of a locked address and keeps others.   *)
    <3>1. left[a] \in 0 .. Window /\ left[a] > 0 /\ MaxPinAttempts # 0 /\ count[a] \in Nat
      BY PinAssumption DEF Locked, TypeOK
    <3>2. Purged[a] = count[a] BY <3>1 DEF Purged
    <3>3. count'[a] \in {Purged[a], Purged[a] + 1}
      BY <2>2, <3>1 DEF PinFails, Failed, Purged
    <3>4. left'[a] \in {left[a], Window}
      BY <2>2, <3>1 DEF PinFails, Failed, TypeOK
    <3>5. Locked(a)' BY <3>1, <3>2, <3>3, <3>4, PinAssumption DEF Locked
    <3> QED BY <3>5
  <2>3. ASSUME PinUndecoded(c) \/ \E p : Pin(c, p) PROVE FALSE
    BY <2>3, <1>1 DEF PinUndecoded, Pin, RetryAfter, TypeOK
  <2>4. CASE \/ PinLocked(c) \/ Unrestricted(c) \/ Restricted(c) \/ NotFound(c)
             \/ Found(c) \/ CheckLimit(c) \/ Config(c) \/ Leave(c)
    BY <2>4, <1>1 DEF PinLocked, Unrestricted, Restricted, NotFound, Found, CheckLimit,
                      Config, Leave, vars
  <2> QED BY <1>2, <2>1, <2>2, <2>3, <2>4 DEF Reader
<1>3. CASE Tick
  <2>1. left'[a] = left[a] - 1 /\ count' = count BY <1>3 DEF Tick, Locked, TypeOK
  <2>2. left[a] = 1 BY <2>1 DEF Locked, TypeOK
  <2> QED BY <1>3, <2>2 DEF Tick
<1>4. CASE \/ \E c \in Client : Register(c)
           \/ \E list \in SUBSET Code : Save(list)
           \/ \E k \in Code : Expire(k)
           \/ UNCHANGED vars
  BY <1>4, <1>1 DEF Register, Save, Expire, vars
<1> QED BY <1>2, <1>3, <1>4 DEF Next

(* A lock lasts until its window has passed or a PIN that had passed the   *)
(* limiter before is accepted.                                             *)
THEOREM LockSafe == Spec => LockLasts
<1>1. TypeOK /\ [Next]_vars =>
        [\A a \in Address :
           Locked(a) /\ ~Locked(a)' =>
             \/ left[a] = 1 /\ pc' = pc
             \/ \E c \in At(a) : pc[c] = "accepted" /\ pc'[c] = "idle"]_vars
  BY LockStep
<1> QED BY <1>1, TypeCorrect, PTL DEF Spec, LockLasts
=============================================================================
