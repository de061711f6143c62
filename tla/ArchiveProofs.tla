------------------------------ MODULE ArchiveProofs ------------------------------
(***************************************************************************)
(* Theorems about Archive, for any calls, delays, ranges and accesses.     *)
(* What is proved of Delayer in DelayerProofs is used for its steps.       *)
(***************************************************************************)
EXTENDS Archive, DelayerProofs

-----------------------------------------------------------------------------
(* The buckets of the activity screen, for every range and every width.    *)

LEMMA Division ==
  ASSUME NEW a \in Nat, NEW w \in Nat \ {0}
  PROVE  /\ a \div w \in Nat
         /\ (a \div w) * w <= a
         /\ a < (a \div w) * w + w
OBVIOUS

LEMMA Multiples ==
  ASSUME NEW i \in Int, NEW j \in Int, NEW w \in Nat \ {0}
  PROVE  /\ i * w \in Int
         /\ (i + 1) * w = i * w + w
         /\ i <= j => i * w <= j * w
         /\ i * w < j * w => i < j
<1>1. i * w \in Int /\ (i + 1) * w = i * w + w
  OBVIOUS
<1>2. ASSUME i <= j PROVE i * w <= j * w
  <2>1. (j - i) * w >= 0
    BY <1>2
  <2> QED BY <2>1
<1>3. ASSUME i * w < j * w PROVE i < j
  <2>1. CASE j <= i
    <3>1. (i - j) * w >= 0
      BY <2>1
    <3> QED BY <1>3, <3>1
  <2> QED BY <2>1
<1> QED BY <1>1, <1>2, <1>3

(* The buckets of a range begin at or before it, less than one width, and  *)
(* end at or after it, less than one width.                                *)
LEMMA BucketsCover ==
  ASSUME NEW S \in Nat, NEW E \in Nat, S < E, NEW w \in Nat \ {0}
  PROVE  LET O == (S \div w) * w
             n == (E - O + w - 1) \div w
         IN  /\ O \in Nat /\ O <= S /\ S < O + w
             /\ n \in Nat /\ n * w >= E - O /\ n * w < E - O + w
<1> DEFINE O == (S \div w) * w
           n == (E - O + w - 1) \div w
<1>1. O \in Nat /\ O <= S /\ S < O + w
  BY Division
<1> HIDE DEF O
<1>2. E - O + w - 1 \in Nat
  BY <1>1
<1>3. n \in Nat /\ n * w <= E - O + w - 1 /\ E - O + w - 1 < n * w + w
  BY <1>2, Division
<1>4. n * w \in Int
  BY <1>3
<1> HIDE DEF n
<1>5. n * w >= E - O /\ n * w < E - O + w
  BY <1>1, <1>3, <1>4
<1> QED BY <1>1, <1>3, <1>5 DEF O, n

(* The activity of everybody's calls over one range.                       *)
LEMMA ActivityExactRange ==
  ASSUME ArchiveTypeOK, NEW r \in Range
  PROVE  /\ \A c \in ReadScopedActivity(r, [list |-> FALSE, talkgroups |-> Talkgroup], FALSE) :
              /\ BucketOf(c, r) \in Buckets(r)
              /\ Epoch + stamp[c] >= BucketStart(BucketOf(c, r), r)
              /\ Epoch + stamp[c] < BucketEnd(BucketOf(c, r), r)
         /\ BucketStart(0, r) = Start(r) /\ BucketEnd(Count(r) - 1, r) = End
         /\ \A i \in Buckets(r) : i > 0 => BucketStart(i, r) = BucketEnd(i - 1, r)
<1> DEFINE S == Start(r)
           E == End
           w == r.width
           O == Origin(r)
           n == Count(r)
<1>1. w \in Nat \ {0} /\ r.span \in Nat \ {0} /\ r.span <= Epoch /\ Epoch \in Nat /\ now \in Nat
  BY ArchiveAssumption, DelayerAssumption DEF ArchiveTypeOK, TypeOK
<1>2. S \in Nat /\ E \in Nat /\ S < E
  BY <1>1 DEF Start, End
<1>3. /\ O \in Nat /\ O <= S /\ S < O + w
      /\ n \in Nat /\ n * w >= E - O /\ n * w < E - O + w
  BY <1>1, <1>2, BucketsCover DEF Origin, Count
<1>4. n > 0
  <2>1. 0 * w < n * w
    BY <1>1, <1>2, <1>3
  <2> QED BY <1>1, <1>3, <2>1, Multiples
<1>5. ASSUME NEW i \in Int
      PROVE  /\ BucketStart(i, r) = IF S > O + i * w THEN S ELSE O + i * w
             /\ BucketEnd(i, r) = IF E < O + (i * w + w) THEN E ELSE O + (i * w + w)
  BY <1>1, Multiples DEF BucketStart, BucketEnd, More, Least
<1>6. Buckets(r) = 0..(n - 1)
  BY DEF Buckets
<1>7. ASSUME NEW c \in ReadScopedActivity(r, [list |-> FALSE, talkgroups |-> Talkgroup], FALSE)
      PROVE  /\ BucketOf(c, r) \in Buckets(r)
             /\ Epoch + stamp[c] >= BucketStart(BucketOf(c, r), r)
             /\ Epoch + stamp[c] < BucketEnd(BucketOf(c, r), r)
  <2> DEFINE x == Epoch + stamp[c]
             b == BucketOf(c, r)
  <2>1. stamp[c] \in Nat /\ x >= S /\ x < E
    BY <1>7 DEF ReadScopedActivity, ArchiveTypeOK, TypeOK, Stored
  <2>2. x \in Nat /\ x - O \in Nat
    BY <1>1, <1>2, <1>3, <2>1
  <2>bucket. b = (x - O) \div w
    BY <1>1, <1>3, <2>1, <2>2 DEF BucketOf, O, w
  <2> HIDE DEF x, b, O, w
  <2>3. b \in Nat /\ b * w <= x - O /\ x - O < b * w + w
    BY <1>1, <2>2, <2>bucket, Division
  <2>4. b * w \in Int /\ n * w \in Int
    BY <1>1, <1>3, <2>3
  <2>5. b < n
    BY <1>1, <1>2, <1>3, <2>1, <2>2, <2>3, <2>4, Multiples
  <2>6. b \in Buckets(r)
    BY <1>3, <1>6, <2>3, <2>5
  <2>7. x >= BucketStart(b, r) /\ x < BucketEnd(b, r)
    BY <1>1, <1>2, <1>3, <1>5, <2>1, <2>2, <2>3, <2>4
  <2> QED BY <2>6, <2>7 DEF x, b
<1>8. BucketStart(0, r) = S
  <2>1. 0 * w = 0
    BY <1>1
  <2> QED BY <1>2, <1>3, <1>5, <2>1
<1>9. BucketEnd(n - 1, r) = E
  <2>1. (n - 1) * w + w = n * w /\ n * w \in Int
    BY <1>1, <1>3
  <2> QED BY <1>2, <1>3, <1>5, <2>1
<1>10. ASSUME NEW i \in Buckets(r), i > 0
       PROVE  BucketStart(i, r) = BucketEnd(i - 1, r)
  <2>1. i \in Int /\ i >= 1 /\ i <= n - 1
    BY <1>3, <1>6, <1>10
  <2>2. i * w \in Int /\ (i - 1) * w + w = i * w
    BY <1>1, <2>1
  <2>3. 1 * w <= i * w /\ 1 * w = w
    BY <1>1, <2>1, Multiples
  <2>4. i * w <= (n - 1) * w /\ (n - 1) * w = n * w - w /\ n * w \in Int
    BY <1>1, <1>3, <2>1, Multiples
  <2> QED BY <1>1, <1>2, <1>3, <1>5, <2>1, <2>2, <2>3, <2>4
<1> QED BY <1>7, <1>8, <1>9, <1>10 DEF S, E, n

-----------------------------------------------------------------------------
(* The table of calls and the delayed table, through pruning and restarts. *)

(* Only stored calls are in the archive; a row of the delayed table, and   *)
(* what Start has read of it, is about a call of the archive; and a timer  *)
(* runs beside a row, or is left over from a call that was pruned.         *)
Filed(c) ==
  /\ phase = "down" => at[c] = "idle"
  /\ c \in archive => Stored(c)
  /\ delayed[c] # None => c \in archive
  /\ todo[c] # None => c \in archive /\ phase # "up"
  /\ at[c] = "armed" => delayed[c] # None \/ c \notin archive

ArchiveInv == ArchiveTypeOK /\ \A c \in Call : Filed(c)

LEMMA FiledInit == ArchiveInit => ArchiveInv
<1> SUFFICES ASSUME ArchiveInit PROVE ArchiveInv
  OBVIOUS
<1>1. TypeOK
  BY TypeInit DEF ArchiveInit
<1>2. listing \in [options : Options, access : Access, shown : SUBSET Call, more : BOOLEAN]
  BY DEF ArchiveInit, NewListing
<1>3. ArchiveTypeOK
  BY <1>1, <1>2 DEF ArchiveInit, Init, ArchiveTypeOK, NoRows, None
<1> QED BY <1>3 DEF ArchiveInv, ArchiveInit, Init, Filed, NoRows, Stored, None

(* A call that nothing happens to stays filed as it is.                    *)
LEMMA FiledElsewhere ==
  ASSUME NEW d \in Call, Filed(d),
         UNCHANGED <<phase, stamp[d], at[d], delayed[d], todo[d], d \in archive>>
  PROVE  Filed(d)'
BY DEF Filed, Stored, None

(* The steps of Delayer, with what they do to the archive.                 *)
LEMMA FiledStep ==
  ASSUME ArchiveInv, StoreCall \/ DelayerStep, NEW d \in Call
  PROVE  Filed(d)'
<1> DEFINE Same == UNCHANGED <<phase, stamp[d], at[d], delayed[d], todo[d], d \in archive>>
<1>0. TypeOK /\ Filed(d)
  BY DEF ArchiveInv, ArchiveTypeOK
<1> USE <1>0, DelayerAssumption DEF TypeOK, At
<1>00. Same => Filed(d)'
  BY FiledElsewhere
<1> HIDE DEF Same
<1>1. ASSUME NEW c \in Call, NEW t \in Stamp, Ingest(c, t),
             archive' = archive \union {c}
      PROVE  Filed(d)'
  <2>1. CASE c = d
    BY <1>1, <2>1 DEF Ingest, Filed, Stored, None
  <2>2. CASE c # d
    BY <1>00, <1>1, <2>2 DEF Ingest, Same
  <2> QED BY <2>1, <2>2
<1> SUFFICES ASSUME DelayerStep PROVE Filed(d)'
  BY <1>1 DEF StoreCall
<1>2. UNCHANGED archive
  BY DEF DelayerStep
<1>3. ASSUME NEW c \in Call, Push(c), c \in archive
      PROVE  Filed(d)'
  <2>1. CASE c = d
    BY <1>2, <1>3, <2>1 DEF Push, Emitting, GetTimestamp, Filed, Stored, None
  <2>2. CASE c # d
    BY <1>00, <1>2, <1>3, <2>2 DEF Push, Same
  <2> QED BY <2>1, <2>2
<1>4. ASSUME NEW c \in Call, Broadcast(c) \/ PushFails(c) \/ PushRefused(c) \/ Pop(c) \/ PopFails(c)
      PROVE  Filed(d)'
  <2>1. CASE c = d
    BY <1>2, <1>4, <2>1
       DEF Broadcast, PushFails, PushRefused, Pop, PopFails, Emitting, Due, Filed, Stored, None
  <2>2. CASE c # d
    BY <1>00, <1>2, <1>4, <2>2 DEF Broadcast, PushFails, PushRefused, Pop, PopFails, Same
  <2> QED BY <2>1, <2>2
<1>5. ASSUME NEW c \in Call, Restore(c)
      PROVE  Filed(d)'
  <2>1. CASE c = d
    <3>1. d \in archive /\ stamp[d] \in Nat /\ phase = "starting"
      BY <1>5, <2>1 DEF Restore, Restoring, Filed, Stored, None
    <3>2. stamp[d] + GetDelay(conf) # None
      BY <3>1, DelayIsNat DEF None
    <3> QED BY <1>2, <1>5, <2>1, <3>1, <3>2 DEF Restore, Restoring, Filed, Stored, None
  <2>2. CASE c # d
    BY <1>00, <1>2, <1>5, <2>2 DEF Restore, Restoring, Same
  <2> QED BY <2>1, <2>2
<1>6. ASSUME NEW c \in Call, RestoreFails(c)
      PROVE  Filed(d)'
  BY <1>2, <1>6 DEF RestoreFails, Restoring, Filed, Stored, None
<1>7. CASE Crash \/ StackOverflow
  <2>1. Stop
    BY <1>7 DEF Crash, StackOverflow
  <2> QED BY <1>2, <2>1 DEF Stop, NoRows, Filed, Stored, None
<1>8. CASE Boot
  BY <1>2, <1>8 DEF Boot, NoRows, Filed, Stored, None
<1>9. CASE Started
  BY <1>2, <1>9 DEF Started, NoRows, Filed, Stored, None
<1>10. CASE SetDelay \/ Tick
  BY <1>00, <1>2, <1>10 DEF SetDelay, Tick, Same
<1> QED BY <1>3, <1>4, <1>5, <1>6, <1>7, <1>8, <1>9, <1>10 DEF DelayerStep

(* A pruned call takes its row of the delayed table with it, not its timer.*)
LEMMA FiledPrune ==
  ASSUME ArchiveInv, PruneDatabase, NEW d \in Call
  PROVE  Filed(d)'
BY DEF ArchiveInv, PruneDatabase, Filed, Stored, None

LEMMA ArchiveTypeStep ==
  ASSUME ArchiveInv, [ArchiveNext]_archiveVars
  PROVE  TypeOK' /\ (listing \in [options : Options, access : Access,
                                  shown : SUBSET Call, more : BOOLEAN])'
<1> USE DEF ArchiveInv, ArchiveTypeOK
<1>1. ASSUME StoreCall \/ DelayerStep
      PROVE  TypeOK' /\ UNCHANGED listing
  <2>1. ASSUME NEW c \in Call, PushRefused(c)
        PROVE  TypeOK'
    BY <2>1 DEF PushRefused, TypeOK, At
  <2>2. [Next]_vars \/ \E c \in Call : PushRefused(c)
    BY <1>1 DEF StoreCall, DelayerStep, Next
  <2> QED BY <1>1, <2>1, <2>2, TypeStep DEF StoreCall, DelayerStep
<1>2. ASSUME PruneDatabase
      PROVE  TypeOK' /\ UNCHANGED listing
  BY <1>2 DEF PruneDatabase, TypeOK, None
<1>3. ASSUME SearchCalls
      PROVE  /\ UNCHANGED vars
             /\ (listing \in [options : Options, access : Access, shown : SUBSET Call, more : BOOLEAN])'
  <2> DEFINE found == Search(listing.options, listing.access)
  <2>1. PICK page \in SUBSET found :
          listing' = [listing EXCEPT !.shown = listing.shown \union page,
                        !.more = Cardinality(listing.shown \union page) < Cardinality(found)]
    BY <1>3 DEF SearchCalls, Answer, Page
  <2>2. page \subseteq Call
    BY DEF Search
  <2> DEFINE more == Cardinality(listing.shown \union page) < Cardinality(found)
  <2>3. more \in BOOLEAN /\ listing' = [listing EXCEPT !.shown = listing.shown \union page, !.more = more]
    BY <2>1
  <2> HIDE DEF more
  <2>4. UNCHANGED vars
    BY <1>3 DEF SearchCalls
  <2> QED BY <2>2, <2>3, <2>4
<1>4. CASE UNCHANGED archiveVars
  BY <1>4, TypeStep DEF archiveVars
<1> QED BY <1>1, <1>2, <1>3, <1>4, TypeStep DEF ArchiveNext

LEMMA ArchiveStep ==
  ASSUME ArchiveInv, [ArchiveNext]_archiveVars
  PROVE  ArchiveInv'
<1>1. TypeOK' /\ (listing \in [options : Options, access : Access, shown : SUBSET Call, more : BOOLEAN])'
  BY ArchiveTypeStep
<1>2. ASSUME NEW d \in Call
      PROVE  Filed(d)'
  <2>1. CASE SearchCalls \/ UNCHANGED archiveVars
    <3>1. UNCHANGED <<now, phase, stamp, held, at, delayed, todo, archive>>
      BY <2>1 DEF SearchCalls, archiveVars, vars
    <3> QED BY <3>1, FiledElsewhere DEF ArchiveInv
  <2> QED BY <2>1, FiledStep, FiledPrune DEF ArchiveNext
<1>3. (archive \subseteq {c \in Call : Stored(c)})'
  <2>1. archive' \subseteq Call
    BY DEF ArchiveInv, ArchiveTypeOK, ArchiveNext, StoreCall, DelayerStep, PruneDatabase,
           SearchCalls, archiveVars
  <2> QED BY <1>2, <2>1 DEF Filed
<1> QED BY <1>1, <1>2, <1>3 DEF ArchiveInv, ArchiveTypeOK, Filed

LEMMA ArchiveInvAlways == ArchiveSpec => []ArchiveInv
BY FiledInit, ArchiveStep, PTL DEF ArchiveSpec

(* The types; only stored calls are in the archive, and only calls of the  *)
(* archive have a row in the delayed table.                                *)
THEOREM ArchiveTypeCorrect == ArchiveSpec => []ArchiveTypeOK
<1>1. ArchiveInv => ArchiveTypeOK
  BY DEF ArchiveInv
<1> QED BY <1>1, ArchiveInvAlways, PTL

(* Each call of a range falls into one of the buckets of the activity      *)
(* screen, and the buckets are the range, whatever the widths and spans.   *)
THEOREM ActivityExactSafe == ArchiveSpec => []ActivityExact
<1>1. ArchiveTypeOK => ActivityExact
  BY ActivityExactRange DEF ActivityExact
<1> QED BY <1>1, ArchiveTypeCorrect, PTL

(* A listener's activity does not count a call before its release.         *)
THEOREM ActivityHidesSafe == ArchiveSpec => []ActivityHidesDelayed
<1>1. ASSUME ArchiveInv, NEW r \in Range, NEW access \in Access,
             NEW c \in ReadScopedActivity(r, access, TRUE)
      PROVE  /\ at[c] # "armed"
             /\ Emitting(c) /\ CanDelay(c) => held[c] # GetDelay(conf)
  <2>1. c \in archive /\ c \in Call /\ Released(c)
    BY <1>1 DEF ReadScopedActivity, ArchiveInv, ArchiveTypeOK
  <2>2. at[c] # "armed"
    BY <1>1, <2>1 DEF ArchiveInv, Filed, Released
  <2>3. stamp[c] \in Nat \union {None} /\ held[c] \in Nat /\ now \in Nat
    BY <1>1, <2>1, DelayerAssumption DEF ArchiveInv, ArchiveTypeOK, TypeOK
  <2>4. CanDelay(c) => held[c] # GetDelay(conf)
    BY <2>1, <2>3 DEF Released, CanDelay, GetTimestamp, None
  <2> QED BY <2>2, <2>4
<1>2. ArchiveInv => ActivityHidesDelayed
  BY <1>1 DEF ActivityHidesDelayed
<1> QED BY <1>2, ArchiveInvAlways, PTL
=============================================================================
