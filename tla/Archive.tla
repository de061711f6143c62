------------------------------- MODULE Archive -------------------------------
(***************************************************************************)
(* The archive: searching and listing stored calls (Search of call.go and  *)
(* the search page of the web client), the activity screen (activity.go),  *)
(* and the pruning of old calls (scheduler.go).                            *)
(*                                                                         *)
(* The archive is read by listeners while calls are ingested, delayed,     *)
(* restored and released: this module adds the calls table and its readers *)
(* to Delayer.  What a search or an activity would answer is an operator   *)
(* of the state; only a listing, which a listener reads page by page, has  *)
(* a state of its own.  A search counts and then selects under the mutex   *)
(* of the calls; that one is released between the two is left out.         *)
(***************************************************************************)
EXTENDS Delayer

CONSTANTS
  Talkgroup,     \* the talkgroups
  TalkgroupOf,   \* the talkgroup of each call
  Patches,       \* the talkgroups patched to each call
  Access,        \* the accesses: a list of talkgroups, or all without a list
  Selection,     \* the talkgroups a search form may select
  Date,          \* the dates it may have
  Limit,         \* how many calls a page of a listing has
  Day,           \* how many units of the clock a day has
  PruneDays,     \* after how many days calls are pruned; 0 for never
  Range,         \* the ranges of the activity screen, with their bucket width
  Epoch          \* what the Unix clock shows when now is 0

ASSUME ArchiveAssumption ==
  /\ TalkgroupOf \in [Call -> Talkgroup]
  /\ Patches \in [Call -> SUBSET Talkgroup]
  /\ Access \subseteq [list : BOOLEAN, talkgroups : SUBSET Talkgroup]
  /\ \A access \in Access : ~access.list => access.talkgroups = Talkgroup
  /\ Selection \subseteq SUBSET Talkgroup /\ Talkgroup \in Selection
  /\ Date \subseteq Nat
  /\ Limit \in Nat \ {0} /\ Day \in Nat \ {0} /\ PruneDays \in Nat
  /\ Range \subseteq [span : Nat \ {0}, width : Nat \ {0}]
  /\ Epoch \in Nat /\ \A r \in Range : r.span <= Epoch

VARIABLES
  archive,   \* the calls table: which calls are in it
  listing    \* the listing on the search page

archiveVars == <<vars, archive, listing>>

-----------------------------------------------------------------------------
(* Search.                                                                 *)

(* The call was heard on one of the talkgroups, or is patched to one.      *)
PatchedTalkgroupMatch(c, talkgroups) ==
  TalkgroupOf[c] \in talkgroups \/ Patches[c] \cap talkgroups # {}

(* The condition of the base query, which an access that is a list of      *)
(* systems replaces by its own.                                            *)
Allowed(c, access) ==
  IF access.list THEN PatchedTalkgroupMatch(c, access.talkgroups) ELSE delayed[c] = None

(* A date is the start of a day of results in ascending order and the end  *)
(* of one in descending order.                                             *)
InDay(t, date, order) ==
  \/ date = None
  \/ order = "ASC" /\ t \in date..(date + Day - 1)
  \/ order = "DESC" /\ t \in (date - Day + 1)..date

(* A system, a group, a tag, the live feed or a talkgroup selects some of  *)
(* the talkgroups; without any the form selects them all.                  *)
Options == [order : {"ASC", "DESC"}, date : Date \union {None}, talkgroups : Selection]

(* The calls a search finds, before it is cut into pages.                  *)
Search(o, access) ==
  {c \in archive :
     /\ Allowed(c, access)
     /\ PatchedTalkgroupMatch(c, o.talkgroups)
     /\ InDay(stamp[c], o.date, o.order)}

(* Calls are ordered by their timestamps alone: those with one timestamp   *)
(* come in any order, and in another one in the next query.                *)
InOrder(before, after, order) ==
  \A b \in before, a \in after :
    IF order = "ASC" THEN stamp[b] <= stamp[a] ELSE stamp[b] >= stamp[a]

Least(a, b) == IF a < b THEN a ELSE b

(* The pages a search may return at an offset.                             *)
Page(found, offset, order) ==
  {page \in SUBSET found :
     \E skipped \in SUBSET (found \ page) :
       /\ Cardinality(skipped) = Least(offset, Cardinality(found))
       /\ Cardinality(page) = Least(Limit, Cardinality(found) - Cardinality(skipped))
       /\ InOrder(skipped, page, order)
       /\ InOrder(skipped \union page, found \ (skipped \union page), order)}

-----------------------------------------------------------------------------
(* The search page.  While its end is in sight and it has fewer results    *)
(* than the search counted it asks for the next page, at the offset of the *)
(* results it has; a result it has already is not added again.  It waits   *)
(* for each answer.  A change of its form starts over from nothing: it is  *)
(* another listing, and one is enough, as readers do not disturb readers.  *)

NewListing ==
  [options : Options, access : Access, shown : {{}}, more : {TRUE}]

(* The answer to a search: a page and the count of all it found.           *)
Answer(offset) ==
  LET found == Search(listing.options, listing.access)
  IN  \E page \in Page(found, offset, listing.options.order) :
        LET results == listing.shown \union page
        IN  listing' = [listing EXCEPT !.shown = results,
                                       !.more = Cardinality(results) < Cardinality(found)]

(* Mutant: the offset is where the last page began.                        *)
SearchCallsAgain ==
  /\ phase = "up"
  /\ listing.more
  /\ Answer(IF listing.shown = {} THEN 0 ELSE Cardinality(listing.shown) - Limit)
  /\ UNCHANGED <<vars, archive>>

SearchCalls ==
  /\ phase = "up"
  /\ listing.more
  /\ Answer(Cardinality(listing.shown))
  /\ UNCHANGED <<vars, archive>>

-----------------------------------------------------------------------------
(* Storing and pruning.                                                    *)

StoreCall ==
  \E c \in Call :
    /\ \E t \in Stamp : Ingest(c, t)
    /\ archive' = archive \union {c}
    /\ UNCHANGED listing

Expired(c) == stamp[c] < now - PruneDays * Day

(* Mutant: the rows of the calls stay in the delayed table.                *)
PruneKeepsRows ==
  /\ phase = "up" /\ PruneDays > 0
  /\ \E c \in archive : Expired(c)
  /\ archive' = {c \in archive : ~Expired(c)}
  /\ UNCHANGED <<vars, listing>>

(* Every hour the scheduler deletes old calls, and the foreign keys their  *)
(* rows in the delayed table.                                              *)
PruneDatabase ==
  /\ phase = "up" /\ PruneDays > 0
  /\ \E c \in archive : Expired(c)
  /\ archive' = {c \in archive : ~Expired(c)}
  /\ delayed' = [c \in Call |-> IF c \in archive' THEN delayed[c] ELSE None]
  /\ UNCHANGED <<now, phase, conf, stamp, held, at, todo, sent, crashes, changes, listing>>

(* A call was pruned before it is delayed: the foreign key refuses the row. *)
PushRefused(c) ==
  /\ c \notin archive
  /\ Emitting(c)
  /\ CanDelay(c) /\ held[c] > 0
  /\ at' = [at EXCEPT ![c] = "idle"]
  /\ UNCHANGED <<now, phase, conf, stamp, held, delayed, todo, sent, crashes, changes>>

(* The steps of Delayer that leave the calls table alone.                  *)
DelayerStep ==
  /\ \/ \E c \in Call :
          \/ Broadcast(c) \/ PushFails(c) \/ PushRefused(c)
          \/ Push(c) /\ c \in archive
          \/ Pop(c) \/ PopFails(c)
          \/ Restore(c) \/ RestoreFails(c)
     \/ Crash \/ StackOverflow \/ Boot \/ Started \/ SetDelay \/ Tick
  /\ UNCHANGED <<archive, listing>>

ArchiveInit == Init /\ archive = {} /\ listing \in NewListing

ArchiveNext ==
  StoreCall \/ DelayerStep \/ PruneDatabase \/ SearchCalls

(* The end of the list stays in sight, so the page keeps asking.           *)
ArchiveSpec ==
  ArchiveInit /\ [][ArchiveNext]_archiveVars /\ Fairness /\ WF_archiveVars(SearchCalls)

-----------------------------------------------------------------------------
(* Activity: how many calls each bucket of a range has.  An access shows   *)
(* the talkgroups it lists, patches not considered.  Only listeners are    *)
(* kept from delayed calls.                                                *)

End == Epoch + now
Start(r) == End - r.span
Origin(r) == (Start(r) \div r.width) * r.width

(* Mutant: the last bucket, which is not a whole one, is forgotten.        *)
CountRoundedDown(r) == (End - Origin(r)) \div r.width

Count(r) == (End - Origin(r) + r.width - 1) \div r.width

Buckets(r) == 0..(Count(r) - 1)

BucketOf(c, r) == (Epoch + stamp[c] - Origin(r)) \div r.width

More(a, b) == IF a > b THEN a ELSE b

BucketStart(i, r) == More(Start(r), Origin(r) + i * r.width)
BucketEnd(i, r) == Least(End, Origin(r) + (i + 1) * r.width)

(* Mutant: a call is released when it has no row in the delayed table.     *)
ReleasedByTable(c) == delayed[c] = None

(* No row in the delayed table, and no delay by the tables of talkgroups   *)
(* and systems, as for a call that is stored and not yet delayed.          *)
Released(c) == delayed[c] = None /\ stamp[c] <= now - GetDelay(conf)

ReadScopedActivity(r, access, listener) ==
  {c \in archive :
     /\ Epoch + stamp[c] >= Start(r) /\ Epoch + stamp[c] < End
     /\ TalkgroupOf[c] \in access.talkgroups
     /\ listener => Released(c)}

-----------------------------------------------------------------------------

(* The types, and the foreign key of the delayed table.                    *)
ArchiveTypeOK ==
  /\ TypeOK
  /\ archive \subseteq {c \in Call : Stored(c)}
  /\ \A c \in Call : delayed[c] # None => c \in archive
  /\ listing \in [options : Options, access : Access, shown : SUBSET Call, more : BOOLEAN]

(* The activity screen: each call of the range falls into one of the       *)
(* buckets that were made, between the start and the end that are shown    *)
(* for it, wherever the hour is when the range is read; the buckets are    *)
(* the range, and the request never fails for a bucket outside of it.      *)
ActivityExact ==
  \A r \in Range :
    /\ \A c \in ReadScopedActivity(r, [list |-> FALSE, talkgroups |-> Talkgroup], FALSE) :
         /\ BucketOf(c, r) \in Buckets(r)
         /\ Epoch + stamp[c] >= BucketStart(BucketOf(c, r), r)
         /\ Epoch + stamp[c] < BucketEnd(BucketOf(c, r), r)
    /\ BucketStart(0, r) = Start(r) /\ BucketEnd(Count(r) - 1, r) = End
    /\ \A i \in Buckets(r) : i > 0 => BucketStart(i, r) = BucketEnd(i - 1, r)

(* A listener's activity does not count a call before its release: not one *)
(* whose timer runs, in whatever order the delays of the configuration     *)
(* change and the server restarts, and not one that is stored and whose    *)
(* row is not yet written, as long as its delay is not changed just then.  *)
ActivityHidesDelayed ==
  phase = "up" =>
    \A r \in Range, access \in Access :
      \A c \in ReadScopedActivity(r, access, TRUE) :
        /\ at[c] # "armed"
        /\ Emitting(c) /\ CanDelay(c) => held[c] # GetDelay(conf)

(* Nothing came before what is shown, nothing that is shown has gone, and  *)
(* no two of the calls have one timestamp.                                 *)
Steady ==
  LET found == Search(listing.options, listing.access)
  IN  /\ listing.shown \subseteq found
      /\ InOrder(listing.shown, found \ listing.shown, listing.options.order)
      /\ \A a, b \in found : stamp[a] = stamp[b] => a = b

(* A listener who scrolls on while calls are added behind what is shown is *)
(* told in the end that all recordings are loaded.                         *)
ListingCompletes == (listing.more /\ Steady) ~> (~listing.more \/ ~Steady)

(* A call is not found before it is released to the listeners.             *)
SearchHidesDelayed ==
  phase = "up" =>
    \A options \in Options, access \in Access :
      \A c \in Search(options, access) : delayed[c] = None
=============================================================================
