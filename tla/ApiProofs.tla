------------------------------ MODULE ApiProofs ------------------------------
(***************************************************************************)
(* Theorems about the calls of the SDK, the limits in front of the API and *)
(* the computation of a quote, for any inputs, settings, limits, markets   *)
(* and number of requests.                                                 *)
(***************************************************************************)
EXTENDS Sdk, RateLimits, QuoteRequest, FiniteSetTheorems, WellFoundedInduction, TLAPS

(* The rate limits.                                                        *)

Entries == [at : Nat, n : Nat]
Records == [times : SUBSET Entries, until : Int]
Lists == [st : {"pending", "ok", "failed"}, has : BOOLEAN, asked : BOOLEAN, lifted : BOOLEAN]

RateTypes ==
  /\ now \in Nat /\ calls \in Nat /\ banned \in BOOLEAN
  /\ notFound \in Records /\ quotes \in Records /\ hits \subseteq Entries /\ served \subseteq Entries
  /\ list \in Lists
  /\ slot \in [Slots -> [pc : {"free", "list", "handled"}, list : Lists, seen : Nat, cleaned : Int]]

FiniteTimes ==
  IsFiniteSet(notFound.times) /\ IsFiniteSet(quotes.times) /\ IsFiniteSet(hits) /\ IsFiniteSet(served)

\* Nothing is from the future, and a block ends one duration after it began.
NotLater ==
  /\ \A x \in hits \cup served \cup notFound.times \cup quotes.times : x.at <= now
  /\ notFound.until <= now + Block /\ quotes.until <= now + Block
  /\ notFound # NoRecord => notFound.until >= 0
  /\ quotes # NoRecord => quotes.until >= 0

\* A 404 of the last window is in the record, or from before the block that ended it.
NotFoundsKept ==
  /\ Cardinality(notFound.times) <= MaxHits
  /\ \A x \in hits : x.at > now - Window =>
       /\ notFound # NoRecord
       /\ x \in notFound.times \/ (notFound.until > 0 /\ x.at <= notFound.until - Block)

\* A quote of the last window is in the record, or the block is on that came after it.
QuotesKept ==
  /\ quotes.until <= 0 => /\ Cardinality(quotes.times) <= MaxHits
                          /\ \A x \in served : x.at > now - Window => x \in quotes.times
  /\ quotes.until > 0 => \A x \in served : x.at <= quotes.until - Block

\* While the record is away, every request that is handled saw it cleaned.
CleanedAway ==
  notFound = NoRecord =>
    \A s \in Slots : slot[s].pc = "handled" => slot[s].cleaned >= 0 /\ CountIn(hits, slot[s].cleaned) = 0

\* What a list says of the address, by the query that it came from.
Says(l) == l.st = "ok" /\ l.asked /\ ~l.lifted => l.has
ListsSay ==
  /\ list.st = "pending" /\ list.asked /\ ~list.lifted => banned
  /\ Says(list)
  /\ \A s \in Slots :
       /\ slot[s].pc # "free" => Says(slot[s].list)
       /\ slot[s].pc = "list" /\ slot[s].list.st = "pending" => list.st = "pending"
       /\ slot[s].pc = "handled" => slot[s].list.st # "pending" /\ ~slot[s].list.has

RateInv ==
  /\ RateTypes /\ FiniteTimes /\ NotLater /\ NotFoundsKept /\ QuotesKept /\ CleanedAway /\ ListsSay
  /\ QuotesWithinLimit /\ NotFoundsStopRequests /\ RecordMissingOnlyByCleanup

-----------------------------------------------------------------------------

\* A smaller set is finite, and not larger.
LEMMA NotMore ==
  ASSUME NEW T, IsFiniteSet(T), NEW S \in SUBSET T
  PROVE  IsFiniteSet(S) /\ Cardinality(S) \in Nat /\ Cardinality(T) \in Nat /\ Cardinality(S) <= Cardinality(T)
  BY FS_Subset, FS_CardinalityType

\* What is left of the times with one more stays finite.
LEMMA WithOneMore ==
  ASSUME NEW times, IsFiniteSet(times), NEW t, NEW x
  PROVE  IsFiniteSet(Recent(times, t) \cup {x}) /\ IsFiniteSet(times \cup {x})
<1>1. Recent(times, t) \in SUBSET times
  BY DEF Recent
<1>2. IsFiniteSet(Recent(times, t))
  BY <1>1, NotMore
<1> QED
  BY <1>2, FS_AddElement

\* A count is a number.
LEMMA CountIsNat ==
  ASSUME NEW times, IsFiniteSet(times), NEW t
  PROVE  CountIn(times, t) \in Nat
  BY NotMore DEF CountIn, InWindow

LEMMA NoneInWindow ==
  ASSUME NEW times, NEW t, \A x \in times : ~(x.at > t - Window /\ x.at <= t)
  PROVE  CountIn(times, t) = 0
<1>1. InWindow(times, t) = {}
  BY DEF InWindow
<1> QED
  BY <1>1, FS_EmptySet, Zenon DEF CountIn

\* No 404 of the last window is missing from a record that does not block.
LEMMA NotFoundsCounted ==
  ASSUME LimitsAssumption, RateTypes, FiniteTimes, NotFoundsKept, notFound.until <= now
  PROVE  /\ CountIn(hits, now) <= MaxHits
         /\ (\A x \in notFound.times : x.at < now - Window) => CountIn(hits, now) = 0
<1>1. \A x \in hits : x.at \in Nat
  BY DEF RateTypes, Entries
<1>2. notFound.until \in Int /\ now \in Nat
  BY DEF RateTypes, Records
<1>3. ASSUME NEW x \in hits, x.at > now - Window PROVE x \in notFound.times
  BY <1>1, <1>2, <1>3 DEF NotFoundsKept, LimitsAssumption
<1>4. InWindow(hits, now) \in SUBSET notFound.times
  BY <1>3 DEF InWindow
<1>5. CountIn(hits, now) <= MaxHits
  <2>1. /\ Cardinality(InWindow(hits, now)) <= Cardinality(notFound.times)
        /\ Cardinality(InWindow(hits, now)) \in Nat /\ Cardinality(notFound.times) \in Nat
    BY <1>4, NotMore DEF FiniteTimes
  <2> QED
    BY <2>1 DEF CountIn, NotFoundsKept, LimitsAssumption
<1>6. ASSUME \A x \in notFound.times : x.at < now - Window PROVE CountIn(hits, now) = 0
  <2>1. \A x \in hits : ~(x.at > now - Window /\ x.at <= now)
    BY <1>1, <1>2, <1>3, <1>6 DEF LimitsAssumption
  <2> QED
    BY <2>1, NoneInWindow
<1> QED
  BY <1>5, <1>6

-----------------------------------------------------------------------------
(* One lemma for each step. What it does not touch is left to the frames.  *)

\* What says something of the record of 404s, of the quotes and of the lists.
NotFoundFrame == UNCHANGED <<now, notFound, hits>>
QuoteFrame == UNCHANGED <<now, quotes, served>>
ListFrame == UNCHANGED <<banned, list>>
SlotFrame == UNCHANGED <<slot, crashed>>

LEMMA Frames ==
  ASSUME RateInv
  PROVE  /\ NotFoundFrame => NotFoundsKept'
         /\ QuoteFrame => QuotesKept' /\ QuotesWithinLimit'
         /\ NotFoundFrame /\ SlotFrame => CleanedAway' /\ RecordMissingOnlyByCleanup'
         /\ SlotFrame => NotFoundsStopRequests'
         /\ ListFrame /\ SlotFrame => ListsSay'
<1>1. NotFoundFrame => NotFoundsKept'
  BY DEF NotFoundFrame, RateInv, NotFoundsKept
<1>2. QuoteFrame => QuotesKept' /\ QuotesWithinLimit'
  BY DEF QuoteFrame, RateInv, QuotesKept, QuotesWithinLimit, CountIn, InWindow
<1>3. NotFoundFrame /\ SlotFrame => CleanedAway' /\ RecordMissingOnlyByCleanup'
  BY DEF NotFoundFrame, SlotFrame, RateInv, CleanedAway, RecordMissingOnlyByCleanup, CountIn, InWindow
<1>4. SlotFrame => NotFoundsStopRequests'
  BY DEF SlotFrame, RateInv, NotFoundsStopRequests
<1>5. ListFrame /\ SlotFrame => ListsSay'
  BY DEF ListFrame, SlotFrame, RateInv, ListsSay, Says
<1> QED
  BY <1>1, <1>2, <1>3, <1>4, <1>5

LEMMA TickKeeps == ASSUME LimitsAssumption, RateInv, Tick PROVE RateInv'
<1>1. now' = now + 1 /\ UNCHANGED <<crashed, calls, notFound, quotes, banned, list, slot, hits, served>> /\ now \in Nat
  BY DEF Tick, RateInv, RateTypes
<1>2. \A x \in hits \cup served : x.at \in Nat /\ x.at <= now
  BY DEF RateInv, RateTypes, NotLater, Entries
<1>3. RateTypes' /\ FiniteTimes'
  BY <1>1 DEF RateInv, RateTypes, FiniteTimes
<1>4. NotLater'
  <2>1. \A x \in hits \cup served \cup notFound.times \cup quotes.times : x.at \in Nat /\ x.at <= now
    BY DEF RateInv, RateTypes, NotLater, Entries, Records
  <2> QED
    BY <1>1, <2>1 DEF RateInv, RateTypes, Records, NotLater, LimitsAssumption
<1>5. NotFoundsKept'
  BY <1>1, <1>2 DEF RateInv, NotFoundsKept, LimitsAssumption
<1>6. QuotesKept'
  BY <1>1, <1>2 DEF RateInv, QuotesKept, LimitsAssumption
<1>7. CleanedAway' /\ RecordMissingOnlyByCleanup' /\ NotFoundsStopRequests'
  BY <1>1 DEF RateInv, CleanedAway, RecordMissingOnlyByCleanup, NotFoundsStopRequests, CountIn, InWindow
<1>8. QuotesWithinLimit'
  <2> SUFFICES ASSUME NEW t \in 0 .. now + 1 PROVE CountIn(served, t) <= MaxHits
    BY <1>1 DEF QuotesWithinLimit, CountIn, InWindow
  <2>1. CASE t \in 0 .. now
    BY <2>1 DEF RateInv, QuotesWithinLimit
  <2>2. CASE t = now + 1
    <3>1. InWindow(served, t) \in SUBSET InWindow(served, now)
      BY <1>1, <1>2, <2>2 DEF InWindow, LimitsAssumption
    <3>2. IsFiniteSet(InWindow(served, now))
      BY NotMore DEF InWindow, RateInv, FiniteTimes
    <3>3. /\ CountIn(served, t) <= CountIn(served, now)
          /\ CountIn(served, t) \in Nat /\ CountIn(served, now) \in Nat
      BY <3>1, <3>2, NotMore DEF CountIn
    <3>4. CountIn(served, now) <= MaxHits
      BY <1>1 DEF RateInv, QuotesWithinLimit
    <3> QED
      BY <3>3, <3>4 DEF LimitsAssumption
  <2> QED
    BY <1>1, <2>1, <2>2
<1>9. ListsSay'
  BY <1>1, Frames DEF ListFrame, SlotFrame
<1> QED
  BY <1>3, <1>4, <1>5, <1>6, <1>7, <1>8, <1>9 DEF RateInv

\* The list of refused addresses: an edit, an answer, a new query.
LEMMA ListKeeps ==
  ASSUME LimitsAssumption, RateInv, Ban \/ ListSettles \/ RefreshIps PROVE RateInv'
<1>1. UNCHANGED <<now, crashed, calls, notFound, quotes, hits, served>>
  BY DEF Ban, ListSettles, RefreshIps
<1>2. /\ list \in Lists /\ banned \in BOOLEAN
      /\ slot \in [Slots -> [pc : {"free", "list", "handled"}, list : Lists, seen : Nat, cleaned : Int]]
  BY DEF RateInv, RateTypes
<1>3. /\ list' \in Lists /\ banned' \in BOOLEAN
      /\ list'.st = "pending" /\ list'.asked /\ ~list'.lifted => banned'
      /\ Says(list')
  <2>1. /\ list.st = "pending" /\ list.asked /\ ~list.lifted => banned
        /\ Says(list)
    BY DEF RateInv, ListsSay
  <2>2. CASE Ban
    <3>1. banned' = ~banned /\ list' = [list EXCEPT !.lifted = @ \/ (banned /\ list.st = "pending")]
      BY <2>2 DEF Ban
    <3>2. /\ list' \in Lists /\ list'.st = list.st /\ list'.asked = list.asked /\ list'.has = list.has
          /\ list'.lifted = (list.lifted \/ (banned /\ list.st = "pending"))
      BY <1>2, <3>1 DEF Lists
    <3> QED
      BY <1>2, <2>1, <3>1, <3>2 DEF Says
  <2>3. CASE ListSettles
    <3>1. PICK ok \in BOOLEAN :
            list' = [list EXCEPT !.st = IF ok THEN "ok" ELSE "failed", !.has = ok /\ banned]
      BY <2>3 DEF ListSettles
    <3>2. banned' = banned /\ list.st = "pending"
      BY <2>3 DEF ListSettles
    <3>3. /\ list' \in Lists /\ list'.st = (IF ok THEN "ok" ELSE "failed") /\ list'.has = (ok /\ banned)
          /\ list'.asked = list.asked /\ list'.lifted = list.lifted
      BY <1>2, <3>1 DEF Lists
    <3> QED
      BY <1>2, <2>1, <3>2, <3>3 DEF Says
  <2>4. CASE RefreshIps
    BY <1>2, <2>4 DEF RefreshIps, Pending, Lists, Says
  <2> QED
    BY <2>2, <2>3, <2>4
<1>4. /\ slot' \in [Slots -> [pc : {"free", "list", "handled"}, list : Lists, seen : Nat, cleaned : Int]]
      /\ \A s \in Slots : /\ slot'[s].pc = slot[s].pc /\ slot'[s].seen = slot[s].seen
                          /\ slot'[s].cleaned = slot[s].cleaned
                          /\ slot'[s].list = slot[s].list \/ (slot[s].pc = "list" /\ slot'[s].list = list')
                          /\ slot[s].pc = "list" /\ slot'[s].list.st = "pending" => list'.st = "pending"
  <2>1. \A s \in Slots : slot[s].pc = "list" /\ slot[s].list.st = "pending" => list.st = "pending"
    BY DEF RateInv, ListsSay
  <2>2. CASE Ban
    <3>1. slot' = slot /\ list'.st = list.st
      BY <1>2, <2>2 DEF Ban, Lists
    <3> QED
      BY <1>2, <2>1, <3>1
  <2>3. CASE ListSettles
    <3>1. /\ slot' = [s \in Slots |-> IF slot[s].pc = "list" /\ slot[s].list.st = "pending"
                                      THEN [slot[s] EXCEPT !.list = list'] ELSE slot[s]]
          /\ list.st = "pending"
      BY <2>3 DEF ListSettles, Seen
    <3>2. list'.st # "pending"
      BY <1>2, <2>3 DEF ListSettles, Lists
    <3> SUFFICES ASSUME NEW s \in Slots
        PROVE  /\ slot'[s] \in [pc : {"free", "list", "handled"}, list : Lists, seen : Nat, cleaned : Int]
               /\ slot'[s].pc = slot[s].pc /\ slot'[s].seen = slot[s].seen
               /\ slot'[s].cleaned = slot[s].cleaned
               /\ slot'[s].list = slot[s].list \/ (slot[s].pc = "list" /\ slot'[s].list = list')
               /\ slot[s].pc = "list" /\ slot'[s].list.st = "pending" => list'.st = "pending"
      BY <3>1
    <3>3. CASE slot[s].pc = "list" /\ slot[s].list.st = "pending"
      <4>1. slot'[s] = [slot[s] EXCEPT !.list = list']
        BY <3>1, <3>3
      <4> QED
        BY <1>2, <1>3, <3>2, <3>3, <4>1
    <3>4. CASE ~(slot[s].pc = "list" /\ slot[s].list.st = "pending")
      <4>1. slot'[s] = slot[s]
        BY <3>1, <3>4
      <4> QED
        BY <1>2, <3>4, <4>1
    <3> QED
      BY <3>3, <3>4
  <2>4. CASE RefreshIps
    <3>1. slot' = slot /\ list.st # "pending"
      BY <2>4 DEF RefreshIps
    <3> QED
      BY <1>2, <2>1, <3>1
  <2> QED
    BY <2>2, <2>3, <2>4
<1>5. RateTypes' /\ FiniteTimes' /\ NotLater'
  BY <1>1, <1>3, <1>4 DEF RateInv, RateTypes, FiniteTimes, NotLater
<1>6. NotFoundsKept' /\ QuotesKept' /\ QuotesWithinLimit'
  BY <1>1, Frames DEF NotFoundFrame, QuoteFrame
<1>7. CleanedAway' /\ NotFoundsStopRequests' /\ RecordMissingOnlyByCleanup'
  <2>1. CleanedAway'
    BY <1>1, <1>4 DEF RateInv, CleanedAway
  <2>2. NotFoundsStopRequests'
    BY <1>4 DEF RateInv, NotFoundsStopRequests
  <2>3. RecordMissingOnlyByCleanup'
    BY <1>1, <1>4 DEF RateInv, RecordMissingOnlyByCleanup
  <2> QED
    BY <2>1, <2>2, <2>3
<1>8. ListsSay'
  <2> SUFFICES ASSUME NEW s \in Slots
      PROVE  /\ slot'[s].pc # "free" => Says(slot'[s].list)
             /\ slot'[s].pc = "list" /\ slot'[s].list.st = "pending" => list'.st = "pending"
             /\ slot'[s].pc = "handled" => slot'[s].list.st # "pending" /\ ~slot'[s].list.has
    BY <1>3 DEF ListsSay, Says
  <2>1. /\ slot[s].pc # "free" => Says(slot[s].list)
        /\ slot[s].pc = "handled" => slot[s].list.st # "pending" /\ ~slot[s].list.has
    BY DEF RateInv, ListsSay
  <2>2. slot'[s].list = slot[s].list => (Says(slot'[s].list) <=> Says(slot[s].list))
    BY DEF Says
  <2>3. slot'[s].list = list' => (Says(slot'[s].list) <=> Says(list'))
    BY DEF Says
  <2> QED
    BY <1>3, <1>4, <2>1, <2>2, <2>3
<1> QED
  BY <1>5, <1>6, <1>7, <1>8 DEF RateInv

\* A request comes, or is refused by the list.
LEMMA ArriveKeeps ==
  ASSUME LimitsAssumption, RateInv, ~crashed, NEW s \in Slots, Arrive(s) \/ Refused(s) PROVE RateInv'
<1>1. /\ UNCHANGED <<now, crashed, notFound, quotes, banned, list, hits, served>>
      /\ calls' \in {calls, calls + 1}
      /\ slot' \in {[slot EXCEPT ![s] = [Free EXCEPT !.pc = "list", !.list = list]], [slot EXCEPT ![s] = Free]}
  BY DEF Arrive, Refused
<1>2. /\ list \in Lists /\ calls \in Nat
      /\ slot \in [Slots -> [pc : {"free", "list", "handled"}, list : Lists, seen : Nat, cleaned : Int]]
  BY DEF RateInv, RateTypes
<1>3. /\ slot' \in [Slots -> [pc : {"free", "list", "handled"}, list : Lists, seen : Nat, cleaned : Int]]
      /\ \A z \in Slots : z # s => slot'[z] = slot[z]
      /\ slot'[s].pc = "free" \/ (slot'[s].pc = "list" /\ slot'[s].list = list)
  <2> DEFINE waits == [Free EXCEPT !.pc = "list", !.list = list]
  <2>1. Free \in [pc : {"free", "list", "handled"}, list : Lists, seen : Nat, cleaned : Int] /\ Free.pc = "free"
    BY DEF Free, Pending, Lists
  <2>2. /\ waits \in [pc : {"free", "list", "handled"}, list : Lists, seen : Nat, cleaned : Int]
        /\ waits.pc = "list" /\ waits.list = list
    BY <1>2, <2>1
  <2>3. slot' = [slot EXCEPT ![s] = waits] \/ slot' = [slot EXCEPT ![s] = Free]
    BY <1>1
  <2> HIDE DEF waits
  <2> QED
    BY <1>2, <2>1, <2>2, <2>3
<1>4. RateTypes' /\ FiniteTimes' /\ NotLater'
  BY <1>1, <1>2, <1>3 DEF RateInv, RateTypes, FiniteTimes, NotLater
<1>5. NotFoundsKept' /\ QuotesKept' /\ QuotesWithinLimit'
  BY <1>1, Frames DEF NotFoundFrame, QuoteFrame
<1>6. CleanedAway'
  BY <1>1, <1>3 DEF RateInv, CleanedAway
<1>7. NotFoundsStopRequests'
  BY <1>3 DEF RateInv, NotFoundsStopRequests
<1>8. RecordMissingOnlyByCleanup'
  BY <1>1 DEF RecordMissingOnlyByCleanup
<1>9. ListsSay'
  BY <1>1, <1>3 DEF RateInv, ListsSay, Says
<1> QED
  BY <1>4, <1>5, <1>6, <1>7, <1>8, <1>9 DEF RateInv

LEMMA NewRecords ==
  /\ NoRecord \in Records /\ NoRecord.times = {} /\ NoRecord.until = -1
  /\ NewRecord \in Records /\ NewRecord.times = {} /\ NewRecord.until = 0
  /\ IsFiniteSet({}) /\ Cardinality({}) = 0
<1>1. IsFiniteSet({}) /\ Cardinality({}) = 0
  BY FS_EmptySet
<1> QED
  BY <1>1 DEF NoRecord, NewRecord, Records

\* A request is let through only with a record that counts every 404 of the window.
LEMMA LimitKeeps ==
  ASSUME LimitsAssumption, RateInv, ~crashed, NEW s \in Slots, Limit(s) PROVE RateInv'
<1>1. /\ UNCHANGED <<now, crashed, calls, quotes, banned, list, hits, served>>
      /\ slot[s].pc = "list" /\ slot[s].list.st # "pending" /\ ~slot[s].list.has
      /\ notFound' = IF notFound = NoRecord THEN NewRecord ELSE notFound
      /\ slot' = [slot EXCEPT ![s] = IF notFound'.until > now THEN Free
                                     ELSE [slot[s] EXCEPT !.pc = "handled", !.seen = CountIn(hits, now)]]
  BY DEF Limit, Passes
<1>2. /\ now \in Nat /\ notFound \in Records
      /\ slot \in [Slots -> [pc : {"free", "list", "handled"}, list : Lists, seen : Nat, cleaned : Int]]
  BY DEF RateInv, RateTypes
<1>3. CountIn(hits, now) \in Nat
  BY CountIsNat DEF RateInv, FiniteTimes
<1>4. /\ slot' \in [Slots -> [pc : {"free", "list", "handled"}, list : Lists, seen : Nat, cleaned : Int]]
      /\ \A z \in Slots : z # s => slot'[z] = slot[z]
      /\ \/ slot'[s].pc = "free"
         \/ /\ slot'[s].pc = "handled" /\ slot'[s].list = slot[s].list /\ slot'[s].seen = CountIn(hits, now)
            /\ notFound'.until <= now
  <2>1. notFound'.until \in Int
    BY <1>1, <1>2, NewRecords DEF Records
  <2>2. CASE notFound'.until > now
    <3>1. slot' = [slot EXCEPT ![s] = Free]
      BY <1>1, <2>2
    <3>2. Free \in [pc : {"free", "list", "handled"}, list : Lists, seen : Nat, cleaned : Int] /\ Free.pc = "free"
      BY DEF Free, Pending, Lists
    <3> QED
      BY <1>2, <3>1, <3>2
  <2>3. CASE ~(notFound'.until > now)
    <3> DEFINE handled == [slot[s] EXCEPT !.pc = "handled", !.seen = CountIn(hits, now)]
    <3>1. slot' = [slot EXCEPT ![s] = handled]
      BY <1>1, <2>3
    <3>2. /\ handled \in [pc : {"free", "list", "handled"}, list : Lists, seen : Nat, cleaned : Int]
          /\ handled.pc = "handled" /\ handled.list = slot[s].list /\ handled.seen = CountIn(hits, now)
      BY <1>2, <1>3
    <3>3. notFound'.until <= now
      BY <1>2, <2>1, <2>3
    <3> HIDE DEF handled
    <3> QED
      BY <1>2, <3>1, <3>2, <3>3
  <2> QED
    BY <2>2, <2>3
<1>5. /\ notFound' \in Records /\ notFound' # NoRecord /\ notFound'.times = notFound.times
      /\ notFound'.until >= 0 /\ (notFound # NoRecord => notFound' = notFound) /\ notFound.until <= notFound'.until
  <2>1. CASE notFound = NoRecord
    <3>1. notFound' = NewRecord
      BY <1>1, <2>1
    <3>2. notFound'.until = 0 /\ notFound.until = -1 /\ notFound' # NoRecord
      BY <2>1, <3>1, NewRecords
    <3> QED
      BY <2>1, <3>1, <3>2, NewRecords
  <2>2. CASE notFound # NoRecord
    <3>1. notFound' = notFound
      BY <1>1, <2>2
    <3>2. notFound.until \in Int /\ notFound.until >= 0
      BY <1>2, <2>2 DEF RateInv, NotLater, Records
    <3> QED
      BY <1>2, <2>2, <3>1, <3>2
  <2> QED
    BY <2>1, <2>2
<1>6. RateTypes' /\ FiniteTimes'
  BY <1>1, <1>4, <1>5 DEF RateInv, RateTypes, FiniteTimes
<1>7. NotLater'
  <2>1. notFound'.until <= now + Block
    BY <1>1, <1>2, NewRecords DEF RateInv, NotLater, LimitsAssumption
  <2> QED
    BY <1>1, <1>5, <2>1 DEF RateInv, NotLater
<1>8. NotFoundsKept'
  BY <1>1, <1>5 DEF RateInv, NotFoundsKept
<1>9. QuotesKept' /\ QuotesWithinLimit'
  BY <1>1, Frames DEF QuoteFrame
<1>10. CleanedAway'
  BY <1>5 DEF CleanedAway
<1>11. NotFoundsStopRequests'
  <2>1. slot'[s].pc = "handled" => CountIn(hits, now) <= MaxHits
    <3>1. notFound'.until <= now => notFound.until <= now
      BY <1>2, <1>5 DEF Records
    <3> QED
      BY <1>4, <3>1, NotFoundsCounted DEF RateInv
  <2> QED
    BY <1>4, <2>1 DEF RateInv, NotFoundsStopRequests
<1>12. RecordMissingOnlyByCleanup'
  BY <1>1 DEF RecordMissingOnlyByCleanup
<1>13. ListsSay'
  BY <1>1, <1>4 DEF RateInv, ListsSay, Says
<1> QED
  BY <1>6, <1>7, <1>8, <1>9, <1>10, <1>11, <1>12, <1>13 DEF RateInv

\* A response goes into the record, and into a block if it is one too many.
LEMMA FinishKeeps ==
  ASSUME LimitsAssumption, RateInv, ~crashed, NEW s \in Slots, Finish(s) PROVE RateInv'
<1> DEFINE hit == Entry(now, Cardinality(hits))
           times == Recent(notFound.times, now) \cup {hit}
<1>1. /\ slot[s].pc = "handled"
      /\ UNCHANGED <<now, calls, quotes, banned, list, served>>
      /\ \/ UNCHANGED <<notFound, hits, crashed>>
         \/ notFound = NoRecord /\ crashed' = TRUE /\ UNCHANGED <<notFound, hits>>
         \/ /\ notFound # NoRecord /\ hits' = hits \cup {hit} /\ UNCHANGED crashed
            /\ notFound' = IF TooMany(times) THEN [times |-> {}, until |-> now + Block]
                           ELSE [notFound EXCEPT !.times = times]
      /\ slot' = IF crashed' THEN slot ELSE [slot EXCEPT ![s] = Free]
  BY DEF Finish
<1>2. /\ now \in Nat /\ notFound \in Records /\ hits \subseteq Entries
      /\ slot \in [Slots -> [pc : {"free", "list", "handled"}, list : Lists, seen : Nat, cleaned : Int]]
      /\ IsFiniteSet(hits) /\ IsFiniteSet(notFound.times) /\ Cardinality(hits) \in Nat
  BY FS_CardinalityType DEF RateInv, RateTypes, FiniteTimes
<1>3. /\ slot' \in [Slots -> [pc : {"free", "list", "handled"}, list : Lists, seen : Nat, cleaned : Int]]
      /\ \A z \in Slots : slot'[z] = slot[z] \/ slot'[z].pc = "free"
  <2>1. Free \in [pc : {"free", "list", "handled"}, list : Lists, seen : Nat, cleaned : Int] /\ Free.pc = "free"
    BY DEF Free, Pending, Lists
  <2> QED
    BY <1>1, <1>2, <2>1
<1>4. /\ hit \in Entries /\ hit.at = now
      /\ times \subseteq Entries /\ IsFiniteSet(times) /\ Cardinality(times) \in Nat /\ IsFiniteSet(hits \cup {hit})
  <2>1. hit \in Entries /\ hit.at = now
    BY <1>2 DEF Entry, Entries
  <2>2. IsFiniteSet(times) /\ IsFiniteSet(hits \cup {hit})
    BY <1>2, WithOneMore
  <2>3. times \subseteq Entries
    BY <1>2, <2>1 DEF Recent, Records
  <2> QED
    BY <2>1, <2>2, <2>3, FS_CardinalityType
<1> HIDE DEF hit
<1>5. CASE UNCHANGED <<notFound, hits>>
  <2>1. RateTypes' /\ FiniteTimes' /\ NotLater' /\ NotFoundsKept'
    BY <1>1, <1>3, <1>5 DEF RateInv, RateTypes, FiniteTimes, NotLater, NotFoundsKept
  <2>2. CleanedAway'
    BY <1>3, <1>5 DEF RateInv, CleanedAway
  <2>3. RecordMissingOnlyByCleanup'
    <3>1. CASE crashed' = TRUE
      <4>1. notFound = NoRecord /\ slot' = slot
        BY <1>1, <3>1
      <4>2. slot'[s].cleaned >= 0 /\ CountIn(hits', slot'[s].cleaned) = 0
        BY <1>1, <1>5, <4>1 DEF RateInv, CleanedAway
      <4> QED
        BY <4>2 DEF RecordMissingOnlyByCleanup
    <3>2. CASE crashed' = crashed
      BY <3>2 DEF RecordMissingOnlyByCleanup
    <3> QED
      BY <1>1, <3>1, <3>2
  <2> QED
    BY <1>1, <1>3, <2>1, <2>2, <2>3, Frames DEF QuoteFrame, RateInv, NotFoundsStopRequests, ListsSay, Says
<1>6. CASE /\ notFound # NoRecord /\ hits' = hits \cup {hit} /\ UNCHANGED crashed
           /\ notFound' = IF TooMany(times) THEN [times |-> {}, until |-> now + Block]
                          ELSE [notFound EXCEPT !.times = times]
  <2>1. notFound.until \in Int /\ notFound.until >= 0 /\ notFound.until <= now + Block
    BY <1>2, <1>6 DEF RateInv, NotLater, Records
  <2>2. /\ notFound' \in Records /\ notFound'.until >= 0 /\ notFound'.until <= now + Block
        /\ IsFiniteSet(notFound'.times) /\ Cardinality(notFound'.times) <= MaxHits
        /\ \/ notFound'.until = now + Block /\ notFound'.times = {}
           \/ notFound'.until = notFound.until /\ notFound'.times = times
    <3> HIDE DEF times
    <3>1. CASE TooMany(times)
      <4>1. notFound' = [times |-> {}, until |-> now + Block]
        BY <1>6, <3>1
      <4> QED
        BY <1>2, <4>1, NewRecords DEF Records, LimitsAssumption
    <3>2. CASE ~TooMany(times)
      <4>1. notFound' = [notFound EXCEPT !.times = times]
        BY <1>6, <3>2
      <4>2. Cardinality(times) <= MaxHits
        BY <1>4, <3>2 DEF TooMany, LimitsAssumption
      <4> QED
        BY <1>2, <1>4, <2>1, <4>1, <4>2 DEF Records
    <3> QED
      BY <3>1, <3>2
  <2>3. notFound' # NoRecord
    BY <2>2, NewRecords
  <2>4. \A x \in times : x.at <= now
    BY <1>2, <1>4 DEF RateInv, NotLater, Recent
  <2>5. RateTypes' /\ FiniteTimes'
    BY <1>1, <1>2, <1>3, <1>4, <1>6, <2>2 DEF RateInv, RateTypes, FiniteTimes
  <2>6. NotLater'
    BY <1>1, <1>2, <1>4, <1>6, <2>2, <2>4 DEF RateInv, NotLater
  <2>7. NotFoundsKept'
    <3> SUFFICES ASSUME NEW x \in hits', x.at > now - Window
                 PROVE  x \in notFound'.times \/ (notFound'.until > 0 /\ x.at <= notFound'.until - Block)
      BY <1>1, <2>2, <2>3 DEF NotFoundsKept
    <3>1. x.at \in Nat /\ x.at <= now
      BY <1>2, <1>4, <1>6 DEF RateInv, NotLater, Entries
    <3>2. CASE notFound'.until = now + Block
      BY <1>2, <3>1, <3>2 DEF LimitsAssumption
    <3>3. CASE notFound'.until = notFound.until /\ notFound'.times = times
      <4>1. CASE x = hit
        BY <3>3, <4>1
      <4>2. CASE x \in hits
        <5>1. x \in notFound.times \/ (notFound.until > 0 /\ x.at <= notFound.until - Block)
          BY <4>2 DEF RateInv, NotFoundsKept
        <5>2. x.at >= now - Window
          BY <1>2, <3>1 DEF LimitsAssumption
        <5> QED
          BY <3>3, <5>1, <5>2 DEF Recent
      <4> QED
        BY <1>6, <4>1, <4>2
    <3> QED
      BY <2>2, <3>2, <3>3
  <2>8. CleanedAway' /\ RecordMissingOnlyByCleanup'
    BY <1>6, <2>3 DEF CleanedAway, RecordMissingOnlyByCleanup
  <2> QED
    BY <1>1, <1>3, <2>5, <2>6, <2>7, <2>8, Frames DEF QuoteFrame, RateInv, NotFoundsStopRequests, ListsSay, Says
<1> QED
  BY <1>1, <1>5, <1>6

\* The record is dropped only when none of its times, and so no 404 of the window, is left.
LEMMA CleanNotFoundKeeps ==
  ASSUME LimitsAssumption, RateInv, ~crashed, CleanNotFound PROVE RateInv'
<1>1. /\ UNCHANGED <<now, crashed, calls, quotes, banned, list, hits, served>>
      /\ notFound' = NoRecord /\ notFound.until <= now
      /\ \A x \in notFound.times : x.at < now - Window
      /\ slot' = [z \in Slots |-> IF slot[z].pc = "handled" THEN [slot[z] EXCEPT !.cleaned = now] ELSE slot[z]]
  BY DEF CleanNotFound, Forgotten
<1>2. /\ now \in Nat /\ hits \subseteq Entries
      /\ slot \in [Slots -> [pc : {"free", "list", "handled"}, list : Lists, seen : Nat, cleaned : Int]]
  BY DEF RateInv, RateTypes
<1>3. CountIn(hits, now) = 0
  BY <1>1, NotFoundsCounted DEF RateInv
<1>4. /\ slot' \in [Slots -> [pc : {"free", "list", "handled"}, list : Lists, seen : Nat, cleaned : Int]]
      /\ \A z \in Slots : /\ slot'[z].pc = slot[z].pc /\ slot'[z].seen = slot[z].seen
                          /\ slot'[z].list = slot[z].list
                          /\ slot[z].pc = "handled" => slot'[z].cleaned = now
  <2> SUFFICES ASSUME NEW z \in Slots
      PROVE /\ slot'[z] \in [pc : {"free", "list", "handled"}, list : Lists, seen : Nat, cleaned : Int]
            /\ slot'[z].pc = slot[z].pc /\ slot'[z].seen = slot[z].seen /\ slot'[z].list = slot[z].list
            /\ slot[z].pc = "handled" => slot'[z].cleaned = now
    BY <1>1
  <2>1. CASE slot[z].pc = "handled"
    <3>1. slot'[z] = [slot[z] EXCEPT !.cleaned = now]
      BY <1>1, <2>1
    <3> QED
      BY <1>2, <2>1, <3>1
  <2>2. CASE slot[z].pc # "handled"
    <3>1. slot'[z] = slot[z]
      BY <1>1, <2>2
    <3> QED
      BY <1>2, <2>2, <3>1
  <2> QED
    BY <2>1, <2>2
<1>5. RateTypes' /\ FiniteTimes'
  BY <1>1, <1>4, NewRecords DEF RateInv, RateTypes, FiniteTimes
<1>6. NotLater'
  <2>1. notFound'.until <= now + Block
    BY <1>1, <1>2, NewRecords DEF LimitsAssumption
  <2> QED
    BY <1>1, <2>1, NewRecords DEF RateInv, NotLater
<1>7. NotFoundsKept'
  <2>1. \A x \in hits : ~(x.at > now - Window)
    <3> SUFFICES ASSUME NEW x \in hits, x.at > now - Window PROVE FALSE
      OBVIOUS
    <3>1. x.at \in Nat /\ notFound.until \in Int
      BY <1>2 DEF Entries, RateInv, RateTypes, Records
    <3>2. x \in notFound.times
      BY <1>1, <1>2, <3>1 DEF RateInv, NotFoundsKept, LimitsAssumption
    <3> QED
      BY <1>1, <1>2, <3>1, <3>2 DEF LimitsAssumption
  <2>2. Cardinality(notFound'.times) <= MaxHits
    BY <1>1, NewRecords DEF LimitsAssumption
  <2> QED
    BY <1>1, <2>1, <2>2 DEF NotFoundsKept
<1>8. QuotesKept' /\ QuotesWithinLimit'
  BY <1>1, Frames DEF QuoteFrame
<1>9. CleanedAway'
  BY <1>1, <1>2, <1>3, <1>4 DEF CleanedAway
<1>10. NotFoundsStopRequests'
  BY <1>4 DEF RateInv, NotFoundsStopRequests
<1>11. RecordMissingOnlyByCleanup'
  BY <1>1 DEF RecordMissingOnlyByCleanup
<1>12. ListsSay'
  BY <1>1, <1>4 DEF RateInv, ListsSay, Says
<1> QED
  BY <1>5, <1>6, <1>7, <1>8, <1>9, <1>10, <1>11, <1>12 DEF RateInv

\* The quotes' record, too, is dropped only when none of the window is left.
LEMMA CleanQuotesKeeps ==
  ASSUME LimitsAssumption, RateInv, CleanQuotes PROVE RateInv'
<1>1. /\ UNCHANGED <<now, crashed, calls, notFound, banned, list, slot, hits, served>>
      /\ quotes' = NoRecord /\ quotes.until <= now
      /\ \A x \in quotes.times : x.at < now - Window
  BY DEF CleanQuotes, Forgotten
<1>2. now \in Nat /\ served \subseteq Entries /\ quotes.until \in Int
  BY DEF RateInv, RateTypes, Records
<1>3. RateTypes' /\ FiniteTimes'
  BY <1>1, NewRecords DEF RateInv, RateTypes, FiniteTimes
<1>4. NotLater'
  <2>1. quotes'.until <= now + Block
    BY <1>1, <1>2, NewRecords DEF LimitsAssumption
  <2> QED
    BY <1>1, <2>1, NewRecords DEF RateInv, NotLater
<1>5. QuotesKept'
  <2>1. \A x \in served : ~(x.at > now - Window)
    <3> SUFFICES ASSUME NEW x \in served, x.at > now - Window PROVE FALSE
      OBVIOUS
    <3>1. x.at \in Nat
      BY <1>2 DEF Entries
    <3>2. CASE quotes.until <= 0
      <4>1. x \in quotes.times
        BY <3>2 DEF RateInv, QuotesKept
      <4> QED
        BY <1>1, <1>2, <3>1, <4>1 DEF LimitsAssumption
    <3>3. CASE quotes.until > 0
      <4>1. x.at <= quotes.until - Block
        BY <3>3 DEF RateInv, QuotesKept
      <4> QED
        BY <1>1, <1>2, <3>1, <4>1 DEF LimitsAssumption
    <3> QED
      BY <1>2, <3>2, <3>3
  <2>2. Cardinality(quotes'.times) <= MaxHits /\ quotes'.until = -1
    BY <1>1, NewRecords DEF LimitsAssumption
  <2> QED
    BY <1>1, <2>1, <2>2 DEF QuotesKept
<1>6. QuotesWithinLimit'
  BY <1>1 DEF RateInv, QuotesWithinLimit
<1> QED
  BY <1>1, <1>3, <1>4, <1>5, <1>6, Frames DEF NotFoundFrame, SlotFrame, ListFrame, RateInv

\* A quote is let through only into a record that holds every quote of the window.
LEMMA QuoteKeeps ==
  ASSUME LimitsAssumption, RateInv, Quote PROVE RateInv'
<1> DEFINE entry == Entry(now, calls)
           times == Recent(Reset(quotes).times, now) \cup {entry}
<1>1. /\ UNCHANGED <<now, crashed, notFound, banned, list, slot, hits>> /\ calls' = calls + 1
      /\ \/ UNCHANGED <<quotes, served>>
         \/ /\ ~(quotes.until > now)
            /\ quotes' = [times |-> times, until |-> IF TooMany(times) THEN now + Block ELSE 0]
            /\ served' = IF TooMany(times) THEN served ELSE served \cup {entry}
  BY DEF Quote
<1>2. /\ now \in Nat /\ calls \in Nat /\ quotes \in Records /\ served \subseteq Entries
      /\ IsFiniteSet(served) /\ IsFiniteSet(quotes.times) /\ quotes.until \in Int
  BY DEF RateInv, RateTypes, FiniteTimes, Records
<1>3. NotFoundsKept' /\ CleanedAway' /\ RecordMissingOnlyByCleanup' /\ NotFoundsStopRequests' /\ ListsSay'
  BY <1>1, Frames DEF NotFoundFrame, SlotFrame, ListFrame
<1>4. CASE UNCHANGED <<quotes, served>>
  <2>1. RateTypes' /\ FiniteTimes' /\ NotLater' /\ QuotesKept' /\ QuotesWithinLimit'
    BY <1>1, <1>2, <1>4, Frames DEF RateInv, RateTypes, FiniteTimes, NotLater, QuoteFrame
  <2> QED
    BY <1>3, <2>1 DEF RateInv
<1>5. /\ entry \in Entries /\ entry.at = now
      /\ times \subseteq Entries /\ IsFiniteSet(times) /\ Cardinality(times) \in Nat /\ IsFiniteSet(served \cup {entry})
      /\ Reset(quotes).times \in {quotes.times, {}}
  <2>1. entry \in Entries /\ entry.at = now
    BY <1>2 DEF Entry, Entries
  <2>2. Reset(quotes).times \in {quotes.times, {}}
    BY NewRecords DEF Reset
  <2>3. IsFiniteSet(Reset(quotes).times)
    BY <1>2, <2>2, NewRecords
  <2>4. IsFiniteSet(times) /\ IsFiniteSet(served \cup {entry})
    BY <1>2, <2>3, WithOneMore
  <2>5. times \subseteq Entries
    BY <1>2, <2>1, <2>2 DEF Recent, Records
  <2> QED
    BY <2>1, <2>2, <2>4, <2>5, FS_CardinalityType
<1>6. \A x \in times : x.at <= now
  BY <1>2, <1>5 DEF RateInv, NotLater, Recent
<1>7. ASSUME ~(quotes.until > now), NEW x \in served, x.at > now - Window PROVE x \in times
  <2>1. x.at \in Nat /\ x.at <= now
    BY <1>2 DEF RateInv, NotLater, Entries
  <2>2. CASE quotes.until > 0
    <3>1. x.at <= quotes.until - Block
      BY <2>2 DEF RateInv, QuotesKept
    <3> QED
      BY <1>2, <1>7, <2>1, <3>1 DEF LimitsAssumption
  <2>3. CASE quotes.until <= 0
    <3>1. x \in quotes.times
      BY <1>7, <2>3 DEF RateInv, QuotesKept
    <3>2. quotes # NoRecord
      BY <3>1, NewRecords
    <3>3. quotes.until = 0
      BY <1>2, <2>3, <3>2 DEF RateInv, NotLater
    <3>4. Reset(quotes) = quotes
      BY <3>2, <3>3 DEF Reset
    <3>5. x.at >= now - Window
      BY <1>2, <1>7, <2>1 DEF LimitsAssumption
    <3> QED
      BY <3>1, <3>4, <3>5 DEF Recent
  <2> QED
    BY <1>2, <2>2, <2>3
<1> HIDE DEF entry, times
<1>8. CASE /\ ~(quotes.until > now) /\ TooMany(times)
           /\ quotes' = [times |-> times, until |-> now + Block] /\ served' = served
  <2>1. quotes'.times = times /\ quotes'.until = now + Block /\ quotes' \in Records /\ now + Block > 0
    BY <1>2, <1>5, <1>8 DEF Records, LimitsAssumption
  <2>2. RateTypes' /\ FiniteTimes'
    BY <1>1, <1>2, <1>5, <1>8, <2>1 DEF RateInv, RateTypes, FiniteTimes
  <2>3. NotLater'
    BY <1>1, <1>2, <1>6, <1>8, <2>1 DEF RateInv, NotLater, LimitsAssumption
  <2>4. QuotesKept'
    <3>1. \A x \in served : x.at \in Nat /\ x.at <= now
      BY <1>2 DEF RateInv, NotLater, Entries
    <3> QED
      BY <1>1, <1>2, <1>8, <2>1, <3>1 DEF QuotesKept, LimitsAssumption
  <2>5. QuotesWithinLimit'
    BY <1>1, <1>8 DEF RateInv, QuotesWithinLimit
  <2> QED
    BY <1>3, <2>2, <2>3, <2>4, <2>5 DEF RateInv
<1>9. CASE /\ ~(quotes.until > now) /\ ~TooMany(times)
           /\ quotes' = [times |-> times, until |-> 0] /\ served' = served \cup {entry}
  <2>1. quotes'.times = times /\ quotes'.until = 0 /\ quotes' \in Records
    BY <1>2, <1>5, <1>9 DEF Records
  <2>2. Cardinality(times) <= MaxHits
    BY <1>5, <1>9 DEF TooMany, LimitsAssumption
  <2>3. RateTypes' /\ FiniteTimes'
    BY <1>1, <1>2, <1>5, <1>9, <2>1 DEF RateInv, RateTypes, FiniteTimes
  <2>4. NotLater'
    BY <1>1, <1>2, <1>5, <1>6, <1>9, <2>1 DEF RateInv, NotLater, LimitsAssumption
  <2>5. entry \in times
    BY DEF times
  <2>6. QuotesKept'
    BY <1>1, <1>7, <1>9, <2>1, <2>2, <2>5 DEF QuotesKept
  <2>7. QuotesWithinLimit'
    <3> SUFFICES ASSUME NEW t \in 0 .. now PROVE CountIn(served \cup {entry}, t) <= MaxHits
      BY <1>1, <1>9 DEF QuotesWithinLimit
    <3>1. CASE t = now
      <4>1. InWindow(served \cup {entry}, t) \in SUBSET times
        BY <1>7, <1>9, <2>5, <3>1 DEF InWindow
      <4>2. /\ CountIn(served \cup {entry}, t) <= Cardinality(times)
            /\ CountIn(served \cup {entry}, t) \in Nat
        BY <1>5, <4>1, NotMore DEF CountIn
      <4> QED
        BY <1>5, <2>2, <4>2 DEF LimitsAssumption
    <3>2. CASE t # now
      <4>1. ~(entry.at <= t)
        BY <1>2, <1>5, <3>2
      <4>2. InWindow(served \cup {entry}, t) = InWindow(served, t)
        BY <4>1 DEF InWindow
      <4> QED
        BY <4>2 DEF CountIn, RateInv, QuotesWithinLimit
    <3> QED
      BY <3>1, <3>2
  <2> QED
    BY <1>3, <2>3, <2>4, <2>6, <2>7 DEF RateInv
<1> QED
  BY <1>1, <1>4, <1>8, <1>9

-----------------------------------------------------------------------------

LEMMA RateBegins == ASSUME LimitsAssumption, RateInit PROVE RateInv
<1>1. /\ now = 0 /\ calls = 0 /\ crashed = FALSE /\ banned \in BOOLEAN
      /\ notFound = NoRecord /\ quotes = NoRecord /\ hits = {} /\ served = {}
      /\ list = Pending(banned) /\ slot = [s \in Slots |-> Free]
  BY DEF RateInit
<1>2. Pending(banned) \in Lists /\ Free \in [pc : {"free", "list", "handled"}, list : Lists, seen : Nat, cleaned : Int]
  BY <1>1 DEF Pending, Lists, Free
<1>3. RateTypes /\ FiniteTimes
  BY <1>1, <1>2, NewRecords DEF RateTypes, FiniteTimes
<1>4. NotLater /\ NotFoundsKept /\ QuotesKept
  BY <1>1, NewRecords DEF NotLater, NotFoundsKept, QuotesKept, LimitsAssumption
<1>5. \A s \in Slots : slot[s].pc = "free"
  BY <1>1 DEF Free
<1>6. CleanedAway /\ NotFoundsStopRequests /\ RecordMissingOnlyByCleanup /\ ListsSay
  BY <1>1, <1>5 DEF CleanedAway, NotFoundsStopRequests, RecordMissingOnlyByCleanup, ListsSay, Pending, Says
<1>7. QuotesWithinLimit
  BY <1>1, NoneInWindow DEF QuotesWithinLimit, LimitsAssumption
<1> QED
  BY <1>3, <1>4, <1>6, <1>7 DEF RateInv

LEMMA RateSteps == ASSUME LimitsAssumption, RateInv, [RateNext]_rateVars PROVE RateInv'
<1>1. CASE RateNext
  <2>1. ~crashed
    BY <1>1 DEF RateNext
  <2>2. ASSUME NEW s \in Slots, Arrive(s) \/ Refused(s) \/ Limit(s) \/ Finish(s) PROVE RateInv'
    BY <2>1, <2>2, ArriveKeeps, LimitKeeps, FinishKeeps
  <2> QED
    BY <1>1, <2>1, <2>2, TickKeeps, ListKeeps, CleanNotFoundKeeps, CleanQuotesKeeps, QuoteKeeps DEF RateNext
<1>2. CASE UNCHANGED rateVars
  BY <1>2, Frames
  DEF rateVars, NotFoundFrame, QuoteFrame, SlotFrame, ListFrame, RateInv, RateTypes, FiniteTimes, NotLater
<1> QED
  BY <1>1, <1>2

LEMMA RateInvShows == ASSUME LimitsAssumption, RateInv PROVE RateLimitsHold
<1>1. RateTypeOK
  <2> SUFFICES ASSUME NEW r \in {notFound, quotes}
      PROVE  /\ r.until <= now + Block
             /\ \A x \in r.times : x.at \in 0 .. now
             /\ r.until <= 0 => Cardinality(r.times) <= MaxHits
    BY DEF RateTypeOK
  <2>1. \A x \in r.times : x.at \in Nat /\ x.at <= now
    BY DEF RateInv, RateTypes, Records, Entries, NotLater
  <2>2. now \in Nat
    BY DEF RateInv, RateTypes
  <2> QED
    BY <2>1, <2>2 DEF RateInv, NotLater, NotFoundsKept, QuotesKept
<1>2. ListedPassesOnlyByFailure
  <2> SUFFICES ASSUME NEW s \in Slots, slot[s].pc = "handled", slot[s].list.asked,
                      slot[s].list.st # "failed", ~slot[s].list.lifted
               PROVE  FALSE
    BY DEF ListedPassesOnlyByFailure
  <2>1. Says(slot[s].list) /\ slot[s].list.st # "pending" /\ ~slot[s].list.has
    BY DEF RateInv, ListsSay
  <2>2. slot[s].list.st \in {"pending", "ok", "failed"}
    BY DEF RateInv, RateTypes, Lists
  <2> QED
    BY <2>1, <2>2 DEF Says
<1> QED
  BY <1>1, <1>2 DEF RateInv, RateLimitsHold

(* Whatever is blocked, reset and cleaned up while requests are in flight, *)
(* no window holds more answered quotes than the limit, a status request   *)
(* is let through only below the limit of 404s, the listener of a response *)
(* misses its record only after a clean-up in a window without a 404, and  *)
(* a listed address passes only if the query failed or the address was     *)
(* taken out (notFoundRateLimit.ts, quoteRateLimit.ts, ipBlacklist.ts).    *)
THEOREM LimitsHold == RateSpec => []RateLimitsHold
<1>1. LimitsAssumption
  BY LimitsAssumption
<1>2. RateInit => RateInv
  BY <1>1, RateBegins
<1>3. RateInv /\ [RateNext]_rateVars => RateInv'
  BY <1>1, RateSteps
<1>4. RateInv => RateLimitsHold
  BY <1>1, RateInvShows
<1> QED
  BY <1>2, <1>3, <1>4, PTL DEF RateSpec
-----------------------------------------------------------------------------
(* The calls of the SDK.                                                   *)

Fetches == [type : Types, st : {"pending", "ok", "failed"}, at : Nat]
Pcs == {"idle", "limits", "commission", "send", "backend", "done"}

SdkTypes ==
  /\ net \in Nat /\ deployment \in Deployments /\ client \in Clients
  /\ fetches \in Seq(Fetches) /\ cached \in [Types -> Nat] /\ DOMAIN call = Calls

\* A promise of the cache is of its type, and is not known to have failed.
CachedFits ==
  \A t \in Types : cached[t] # 0 =>
    /\ cached[t] \in 1..Len(fetches) /\ fetches[cached[t]].type = t /\ fetches[cached[t]].st # "failed"

\* The state s of a call is a record, and waits for one of the fetches fs.
CallTypes(s, fs) ==
  /\ DOMAIN s = {"pc", "input", "fetch", "bps", "result"}
  /\ s.pc \in Pcs /\ s.fetch \in Nat /\ s.bps \in Nat /\ (s.pc # "idle" => s.input \in Inputs)
  /\ s.fetch # 0 <=> s.pc \in {"limits", "commission"}
  /\ s.fetch # 0 => /\ s.fetch \in 1..Len(fs)
                    /\ fs[s.fetch].type = (IF s.pc = "limits" THEN "environment" ELSE "networkInfo")

\* The result r is what a call with the state s may ask for: of whom is left open.
MadeFor(s, r, cl, dep) ==
  /\ FokValid(s.input)
  /\ \E to \in {"own", "node", "commission", "default"}, b \in {0, s.bps} :
       /\ r = Asked(s.input, to, b, s.input.affiliates)
       /\ b # s.bps => /\ cl.taker /\ ~cl.broker
                       /\ \/ s.input.op = "deposit" /\ ~dep.commissionBroker
                          \/ s.input.op = "cf" /\ ~s.input.account

Made(s) == s.pc = "done" /\ s.result.ok

\* What is known of a call of client cl at deployment dep, by how far it has come.
CallAgrees(s, cl, dep) ==
  /\ s.pc \in {"commission", "send", "backend"} \/ Made(s) => QuoteFits(s.input)
  /\ s.pc \in {"send", "backend"} /\ cl.taker => s.bps = dep.bps
  /\ s.pc = "backend" =>
       /\ ~cl.broker /\ FokValid(s.input)
       /\ s.bps # 0 => cl.taker \/ (s.input.op # "deposit" /\ s.input.account)
       /\ s.input.affiliates => s.input.op # "deposit" /\ s.input.account
  /\ Made(s) => MadeFor(s, s.result, cl, dep)

SdkInv ==
  /\ SdkTypes /\ CachedFits
  /\ \A c \in Calls : CallTypes(call[c], fetches) /\ CallAgrees(call[c], client, deployment)

\* Fetches are added and settle; none changes its type.
FetchesGrow ==
  /\ fetches' \in Seq(Fetches) /\ Len(fetches) <= Len(fetches')
  /\ \A f \in 1..Len(fetches) : fetches'[f].type = fetches[f].type

-----------------------------------------------------------------------------

\* A call waits on, whatever becomes of the fetches.
LEMMA StillWaits ==
  ASSUME SdkTypes, FetchesGrow, NEW s, CallTypes(s, fetches)
  PROVE  CallTypes(s, fetches')
<1>1. Len(fetches) \in Nat /\ Len(fetches') \in Nat
  BY DEF SdkTypes, FetchesGrow
<1> QED
  BY <1>1 DEF CallTypes, FetchesGrow

\* A step of one call, from its new state alone.
LEMMA OneCall ==
  ASSUME SdkInv, FetchesGrow, UNCHANGED <<client, deployment>>, net' \in Nat,
         cached' \in [Types -> Nat], CachedFits',
         NEW c \in Calls, NEW new, call' = [call EXCEPT ![c] = new],
         CallTypes(new, fetches'), CallAgrees(new, client, deployment)
  PROVE  SdkInv'
<1>1. SdkTypes'
  BY DEF SdkInv, SdkTypes, FetchesGrow
<1>2. ASSUME NEW d \in Calls PROVE CallTypes(call'[d], fetches') /\ CallAgrees(call'[d], client', deployment')
  <2>1. CASE d = c
    <3>1. call'[d] = new
      BY <2>1 DEF SdkInv, SdkTypes
    <3> QED
      BY <3>1
  <2>2. CASE d # c
    <3>1. call'[d] = call[d]
      BY <2>2 DEF SdkInv, SdkTypes
    <3>2. CallTypes(call[d], fetches') /\ CallAgrees(call[d], client, deployment)
      BY StillWaits DEF SdkInv
    <3> QED
      BY <3>1, <3>2
  <2> QED
    BY <2>1, <2>2
<1> QED
  BY <1>1, <1>2 DEF SdkInv

\* The fields of a call after an update.
LEMMA Updated ==
  ASSUME NEW s, DOMAIN s = {"pc", "input", "fetch", "bps", "result"}, NEW p, NEW f, NEW n,
         n = [s EXCEPT !.pc = p, !.fetch = f]
  PROVE  /\ DOMAIN n = {"pc", "input", "fetch", "bps", "result"} /\ n.pc = p /\ n.fetch = f
         /\ n.input = s.input /\ n.bps = s.bps /\ n.result = s.result
  OBVIOUS

LEMMA UpdatedBps ==
  ASSUME NEW s, DOMAIN s = {"pc", "input", "fetch", "bps", "result"}, NEW p, NEW f, NEW b, NEW n,
         n = [s EXCEPT !.pc = p, !.fetch = f, !.bps = b]
  PROVE  /\ DOMAIN n = {"pc", "input", "fetch", "bps", "result"} /\ n.pc = p /\ n.fetch = f /\ n.bps = b
         /\ n.input = s.input /\ n.result = s.result
  OBVIOUS

LEMMA UpdatedResult ==
  ASSUME NEW s, DOMAIN s = {"pc", "input", "fetch", "bps", "result"}, NEW p, NEW f, NEW r, NEW n,
         n = [s EXCEPT !.pc = p, !.fetch = f, !.result = r]
  PROVE  /\ DOMAIN n = {"pc", "input", "fetch", "bps", "result"} /\ n.pc = p /\ n.fetch = f /\ n.result = r
         /\ n.input = s.input /\ n.bps = s.bps
  OBVIOUS

\* Nothing is fetched.
LEMMA NoFetch ==
  ASSUME SdkInv, UNCHANGED <<net, cached, fetches>>
  PROVE  /\ FetchesGrow /\ net' \in Nat /\ cached' \in [Types -> Nat] /\ CachedFits'
  BY DEF SdkInv, SdkTypes, FetchesGrow, CachedFits

\* A call that fails, or whose answer is not one, is done and nothing was asked for.
LEMMA EndsKeep ==
  ASSUME SdkInv, UNCHANGED <<net, deployment, client, cached, fetches>>,
         NEW c \in Calls, NEW r, call' = Ends(c, r), call[c].pc # "idle",
         r.ok => QuoteFits(call[c].input) /\ MadeFor(call[c], r, client, deployment)
  PROVE  SdkInv'
<1> DEFINE n == [call[c] EXCEPT !.pc = "done", !.fetch = 0, !.result = r]
<1>1. CallTypes(call[c], fetches)
  BY DEF SdkInv
<1>2. /\ DOMAIN n = {"pc", "input", "fetch", "bps", "result"} /\ n.pc = "done" /\ n.fetch = 0 /\ n.result = r
      /\ n.input = call[c].input /\ n.bps = call[c].bps
  BY <1>1, UpdatedResult DEF CallTypes
<1>3. call' = [call EXCEPT ![c] = n]
  BY DEF Ends
<1> HIDE DEF n
<1>4. CallTypes(n, fetches')
  BY <1>1, <1>2 DEF CallTypes, Pcs
<1>5. CallAgrees(n, client, deployment)
  BY <1>2 DEF CallAgrees, Made, MadeFor
<1> QED
  BY <1>3, <1>4, <1>5, NoFetch, OneCall

LEMMA FailsKeep ==
  ASSUME SdkInv, UNCHANGED <<net, deployment, client, cached, fetches>>,
         NEW c \in Calls, NEW why, Fails(c, why), call[c].pc # "idle"
  PROVE  SdkInv'
<1> DEFINE r == [ok |-> FALSE, why |-> why]
<1>1. call' = Ends(c, r) /\ ~r.ok
  BY DEF Fails
<1> HIDE DEF r
<1> QED
  BY <1>1, EndsKeep

\* A call that asks for the promise of t.
LEMMA AsksKeeps ==
  ASSUME SdkInv, UNCHANGED <<net, client, deployment>>, NEW c \in Calls, NEW t \in Types, NEW at, NEW s,
         at = (IF t = "environment" THEN "limits" ELSE "commission"),
         DOMAIN s = {"pc", "input", "fetch", "bps", "result"}, s.bps \in Nat, s.input \in Inputs,
         at = "commission" => QuoteFits(s.input),
         Asks(c, t, at, s)
  PROVE  SdkInv'
<1>1. /\ fetches \in Seq(Fetches) /\ cached \in [Types -> Nat] /\ net' \in Nat /\ Len(fetches) \in Nat
      /\ CachedFits
  BY DEF SdkInv, SdkTypes
<1>2. ASSUME NEW f \in Nat \ {0}, NEW fs, f \in 1..Len(fs), fs[f].type = t,
             NEW n, n = [s EXCEPT !.pc = at, !.fetch = f]
      PROVE  CallTypes(n, fs) /\ CallAgrees(n, client, deployment)
  <2>1. /\ DOMAIN n = {"pc", "input", "fetch", "bps", "result"} /\ n.pc = at /\ n.fetch = f
        /\ n.input = s.input /\ n.bps = s.bps
    BY <1>2, Updated
  <2>2. at \in {"limits", "commission"} /\ t = (IF at = "limits" THEN "environment" ELSE "networkInfo")
    BY DEF Types
  <2>3. CallTypes(n, fs)
    BY <1>2, <2>1, <2>2 DEF CallTypes, Pcs
  <2>4. CallAgrees(n, client, deployment)
    BY <2>1, <2>2 DEF CallAgrees, Made
  <2> QED
    BY <2>3, <2>4
<1>3. CASE /\ cached[t] # 0 /\ UNCHANGED <<cached, fetches>>
           /\ call' = [call EXCEPT ![c] = [s EXCEPT !.pc = at, !.fetch = cached[t]]]
  <2> DEFINE n == [s EXCEPT !.pc = at, !.fetch = cached[t]]
  <2>1. cached[t] \in Nat \ {0} /\ cached[t] \in 1..Len(fetches) /\ fetches[cached[t]].type = t
    BY <1>1, <1>3 DEF CachedFits
  <2>2. CallTypes(n, fetches') /\ CallAgrees(n, client, deployment)
    BY <1>2, <1>3, <2>1
  <2>3. FetchesGrow
    BY <1>1, <1>3 DEF FetchesGrow
  <2>4. cached' \in [Types -> Nat] /\ CachedFits' /\ call' = [call EXCEPT ![c] = n]
    BY <1>1, <1>3 DEF CachedFits
  <2> HIDE DEF n
  <2> QED
    BY <1>1, <2>2, <2>3, <2>4, OneCall
<1>4. CASE /\ fetches' = Append(fetches, [type |-> t, st |-> "pending", at |-> 0])
           /\ cached' = [cached EXCEPT ![t] = Len(fetches')]
           /\ call' = [call EXCEPT ![c] = [s EXCEPT !.pc = at, !.fetch = Len(fetches')]]
  <2> DEFINE n == [s EXCEPT !.pc = at, !.fetch = Len(fetches')]
             new == [type |-> t, st |-> "pending", at |-> 0]
  <2>1. new \in Fetches /\ new.type = t /\ new.st = "pending"
    BY DEF Fetches
  <2> HIDE DEF new
  <2>2. /\ fetches' \in Seq(Fetches) /\ Len(fetches') = Len(fetches) + 1 /\ fetches'[Len(fetches')] = new
        /\ \A f \in 1..Len(fetches) : fetches'[f] = fetches[f]
    BY <1>1, <1>4, <2>1 DEF new
  <2>3. FetchesGrow
    BY <1>1, <2>2 DEF FetchesGrow
  <2>4. CallTypes(n, fetches') /\ CallAgrees(n, client, deployment)
    <3>1. Len(fetches') \in Nat \ {0} /\ Len(fetches') \in 1..Len(fetches')
      BY <1>1, <2>2
    <3>2. fetches'[Len(fetches')].type = t
      BY <2>1, <2>2
    <3> QED
      BY <1>2, <3>1, <3>2, Zenon
  <2>5. cached' \in [Types -> Nat] /\ call' = [call EXCEPT ![c] = n]
    BY <1>1, <1>4, <2>2
  <2>6. CachedFits'
    <3> SUFFICES ASSUME NEW u \in Types, cached'[u] # 0
        PROVE /\ cached'[u] \in 1..Len(fetches') /\ fetches'[cached'[u]].type = u
              /\ fetches'[cached'[u]].st # "failed"
      BY DEF CachedFits
    <3>1. CASE u = t
      <4>1. cached'[u] = Len(fetches')
        BY <1>1, <1>4, <3>1
      <4> QED
        BY <1>1, <2>1, <2>2, <3>1, <4>1
    <3>2. CASE u # t
      <4>1. cached'[u] = cached[u]
        BY <1>1, <1>4, <3>2
      <4> QED
        BY <1>1, <2>2, <4>1 DEF CachedFits
    <3> QED
      BY <3>1, <3>2
  <2> HIDE DEF n
  <2> QED
    BY <1>1, <2>3, <2>4, <2>5, <2>6, OneCall
<1> QED
  BY <1>3, <1>4 DEF Asks


LEMMA StartKeeps == ASSUME SdkInv, NEW c \in Calls, NEW in \in Inputs, Start(c, in) PROVE SdkInv'
<1> DEFINE s == [Idle EXCEPT !.input = in]
<1>1. DOMAIN s = {"pc", "input", "fetch", "bps", "result"} /\ s.bps = 0 /\ s.input = in
  BY DEF Idle
<1>2. Asks(c, "environment", "limits", s) /\ UNCHANGED <<net, deployment, client>>
  BY DEF Start
<1>3. "environment" \in Types /\ s.bps \in Nat
  BY <1>1 DEF Types
<1> HIDE DEF s
<1> QED
  BY <1>1, <1>2, <1>3, AsksKeeps

\* A call is ready to be sent, with the commission of the backend or with the caller's.
LEMMA SendKeeps ==
  ASSUME SdkInv, UNCHANGED <<net, deployment, client, cached, fetches>>,
         NEW c \in Calls, call[c].pc # "idle", QuoteFits(call[c].input),
         NEW b \in Nat, client.taker => b = deployment.bps,
         call' = [call EXCEPT ![c] = [call[c] EXCEPT !.pc = "send", !.fetch = 0, !.bps = b]]
  PROVE  SdkInv'
<1> DEFINE n == [call[c] EXCEPT !.pc = "send", !.fetch = 0, !.bps = b]
<1>1. CallTypes(call[c], fetches)
  BY DEF SdkInv
<1>2. /\ DOMAIN n = {"pc", "input", "fetch", "bps", "result"} /\ n.pc = "send" /\ n.fetch = 0 /\ n.bps = b
      /\ n.input = call[c].input
  BY <1>1, UpdatedBps DEF CallTypes
<1>3. call' = [call EXCEPT ![c] = n]
  OBVIOUS
<1> HIDE DEF n
<1>4. CallTypes(n, fetches')
  BY <1>1, <1>2 DEF CallTypes, Pcs
<1>5. CallAgrees(n, client, deployment)
  BY <1>2 DEF CallAgrees, Made
<1> QED
  BY <1>3, <1>4, <1>5, NoFetch, OneCall

LEMMA CheckLimitsKeeps == ASSUME InputsAssumption, SdkInv, NEW c \in Calls, CheckLimits(c) PROVE SdkInv'
<1> DEFINE in == call[c].input
           f == fetches[call[c].fetch]
<1>1. /\ call[c].pc = "limits" /\ UNCHANGED <<net, deployment, client>>
      /\ \/ Fails(c, "fetch") /\ UNCHANGED <<cached, fetches>>
         \/ Fails(c, "request") /\ UNCHANGED <<cached, fetches>>
         \/ QuoteFits(in) /\ client.taker /\ Asks(c, "networkInfo", "commission", call[c])
         \/ /\ QuoteFits(in) /\ ~client.taker /\ UNCHANGED <<cached, fetches>>
            /\ call' = [call EXCEPT ![c] = [call[c] EXCEPT !.pc = "send", !.fetch = 0,
                                             !.bps = IF in.commission = Unset THEN 0 ELSE in.commission]]
  BY DEF CheckLimits
<1>2. CallTypes(call[c], fetches)
  BY DEF SdkInv
<1>3. CASE Asks(c, "networkInfo", "commission", call[c]) /\ QuoteFits(in)
  <2>1. /\ "networkInfo" \in Types /\ in \in Inputs /\ call[c].bps \in Nat
        /\ DOMAIN call[c] = {"pc", "input", "fetch", "bps", "result"}
    BY <1>1, <1>2 DEF Types, CallTypes
  <2>2. "commission" = (IF "networkInfo" = "environment" THEN "limits" ELSE "commission")
    OBVIOUS
  <2> QED
    BY <1>1, <1>3, <2>1, <2>2, AsksKeeps
<1>4. CASE /\ QuoteFits(in) /\ ~client.taker /\ UNCHANGED <<cached, fetches>>
           /\ call' = [call EXCEPT ![c] = [call[c] EXCEPT !.pc = "send", !.fetch = 0,
                                           !.bps = IF in.commission = Unset THEN 0 ELSE in.commission]]
  <2>1. (IF in.commission = Unset THEN 0 ELSE in.commission) \in Nat
    BY <1>1, <1>2 DEF CallTypes, InputsAssumption
  <2>2. call[c].pc # "idle"
    BY <1>1
  <2> HIDE DEF in
  <2> QED
    BY <1>1, <1>4, <2>1, <2>2, SendKeeps DEF in
<1> QED
  BY <1>1, <1>3, <1>4, FailsKeep

LEMMA CommissionKeeps == ASSUME OptionsAssumption, SdkInv, NEW c \in Calls, Commission(c) PROVE SdkInv'
<1>1. /\ call[c].pc = "commission" /\ UNCHANGED <<net, deployment, client, cached, fetches>>
      /\ \/ Fails(c, "fetch")
         \/ call' = [call EXCEPT ![c] = [call[c] EXCEPT !.pc = "send", !.fetch = 0, !.bps = deployment.bps]]
  BY DEF Commission
<1>2. deployment.bps \in Nat /\ QuoteFits(call[c].input)
  BY <1>1 DEF SdkInv, SdkTypes, OptionsAssumption, CallAgrees
<1> QED
  BY <1>1, <1>2, FailsKeep, SendKeeps

\* A call is posted to the backend with what the backend will take.
LEMMA PostKeeps ==
  ASSUME SdkInv, UNCHANGED <<net, deployment, client, cached, fetches>>,
         NEW c \in Calls, call[c].pc = "send", Post(c), ~client.broker, FokValid(call[c].input),
         call[c].bps # 0 => client.taker \/ (call[c].input.op # "deposit" /\ call[c].input.account),
         call[c].input.affiliates => call[c].input.op # "deposit" /\ call[c].input.account
  PROVE  SdkInv'
<1> DEFINE n == [call[c] EXCEPT !.pc = "backend"]
<1>1. CallTypes(call[c], fetches) /\ CallAgrees(call[c], client, deployment)
  BY DEF SdkInv
<1>2. DOMAIN call[c] = {"pc", "input", "fetch", "bps", "result"}
  BY <1>1 DEF CallTypes
<1>3. /\ DOMAIN n = {"pc", "input", "fetch", "bps", "result"} /\ n.pc = "backend" /\ n.fetch = call[c].fetch
      /\ n.bps = call[c].bps /\ n.input = call[c].input
  BY <1>2
<1>4. call' = [call EXCEPT ![c] = n]
  BY DEF Post
<1> HIDE DEF n
<1>5. CallTypes(n, fetches')
  BY <1>1, <1>3 DEF CallTypes, Pcs
<1>6. CallAgrees(n, client, deployment)
  BY <1>1, <1>3 DEF CallAgrees, Made
<1> QED
  BY <1>4, <1>5, <1>6, NoFetch, OneCall

\* A broker of one's own is asked for everything, the backend only for what it can credit.
LEMMA AskBrokerKeeps ==
  ASSUME SdkInv, UNCHANGED <<net, deployment, client, cached, fetches>>,
         NEW c \in Calls, call[c].pc = "send", NEW schemaOk, AskBroker(c, schemaOk), FokValid(call[c].input)
  PROVE  SdkInv'
<1> DEFINE r == Asked(call[c].input, "own", call[c].bps, call[c].input.affiliates)
<1>1. Fails(c, "schema") \/ Fails(c, "broker") \/ call' = Ends(c, r)
  BY DEF AskBroker
<1>2. QuoteFits(call[c].input)
  BY DEF SdkInv, CallAgrees
<1>3. MadeFor(call[c], r, client, deployment)
  BY DEF MadeFor
<1> HIDE DEF r
<1> QED
  BY <1>1, <1>2, <1>3, EndsKeep, FailsKeep

\* With an account, or without what only an account is credited with.
LEMMA EncodesKeep ==
  ASSUME SdkInv, UNCHANGED <<net, deployment, client, cached, fetches>>,
         NEW c \in Calls, call[c].pc = "send", call[c].input.op # "deposit", FokValid(call[c].input),
         ~client.broker, AllowedToEncode(c, call[c].input), Post(c)
  PROVE  SdkInv'
<1>1. /\ call[c].bps # 0 => client.taker \/ (call[c].input.op # "deposit" /\ call[c].input.account)
      /\ call[c].input.affiliates => call[c].input.op # "deposit" /\ call[c].input.account
  BY DEF AllowedToEncode
<1> QED
  BY <1>1, PostKeeps

LEMMA SubmitKeeps ==
  ASSUME SdkInv, NEW c \in Calls,
         RequestDepositAddress(c) \/ EncodeVaultSwapData(c) \/ EncodeCfParameters(c)
  PROVE  SdkInv'
<1> DEFINE in == call[c].input
<1>1. /\ call[c].pc = "send" /\ call[c].pc # "idle"
      /\ UNCHANGED <<net, deployment, client, cached, fetches>>
  BY DEF RequestDepositAddress, EncodeVaultSwapData, EncodeCfParameters, Submits
<1>2. CASE RequestDepositAddress(c)
  <2>1. /\ in.op = "deposit"
        /\ \/ Fails(c, "fok") \/ Fails(c, "commission")
           \/ FokValid(in) /\ AskBroker(c, DepositSchema(in))
           \/ /\ FokValid(in) /\ ~client.broker /\ Post(c)
              /\ ~((call[c].bps # 0 /\ ~client.taker) \/ in.affiliates)
    BY <1>2 DEF RequestDepositAddress, Submits
  <2>2. CASE /\ FokValid(in) /\ ~client.broker /\ Post(c)
             /\ ~((call[c].bps # 0 /\ ~client.taker) \/ in.affiliates)
    BY <1>1, <2>2, PostKeeps
  <2> QED
    BY <1>1, <2>1, <2>2, FailsKeep, AskBrokerKeeps
<1>3. CASE EncodeVaultSwapData(c)
  <2>1. /\ in.op = "vault"
        /\ \/ Fails(c, "fok") \/ Fails(c, "account") \/ Fails(c, "commission")
           \/ FokValid(in) /\ AskBroker(c, VaultSchema(in))
           \/ FokValid(in) /\ ~client.broker /\ AllowedToEncode(c, in) /\ Post(c)
    BY <1>3 DEF EncodeVaultSwapData, Submits
  <2>2. in.op # "deposit"
    BY <2>1
  <2> QED
    BY <1>1, <2>1, <2>2, FailsKeep, AskBrokerKeeps, EncodesKeep
<1>4. CASE EncodeCfParameters(c)
  <2>1. /\ in.op = "cf"
        /\ \/ Fails(c, "account") \/ Fails(c, "commission")
           \/ AskBroker(c, CfSchema(in))
           \/ ~client.broker /\ AllowedToEncode(c, in) /\ Post(c)
    BY <1>4 DEF EncodeCfParameters, Submits
  <2>2. in.op # "deposit"
    BY <2>1
  <2>3. QuoteFits(in)
    BY <1>1 DEF SdkInv, CallAgrees
  <2>4. FokValid(in)
    BY <2>1, <2>3 DEF QuoteFits, FitsCf
  <2> QED
    BY <1>1, <2>1, <2>2, <2>4, FailsKeep, AskBrokerKeeps, EncodesKeep
<1> QED
  BY <1>2, <1>3, <1>4

\* A handler asks for what the call may ask for, or refuses.
LEMMA HandlesKeep ==
  ASSUME SdkInv, NEW c \in Calls, NEW op, NEW schemaOk, NEW r, Handles(c, op, schemaOk, r),
         r.ok => MadeFor(call[c], r, client, deployment)
  PROVE  SdkInv'
<1>1. /\ call[c].pc = "backend" /\ UNCHANGED <<net, deployment, client, cached, fetches>>
      /\ Fails(c, "request") \/ Fails(c, "broker") \/ call' = Ends(c, r)
  BY DEF Handles
<1>2. QuoteFits(call[c].input) /\ call[c].pc # "idle"
  BY <1>1 DEF SdkInv, CallAgrees
<1> QED
  BY <1>1, <1>2, EndsKeep, FailsKeep

LEMMA HandleKeeps ==
  ASSUME SdkInv, NEW c \in Calls, HandleOpenChannel(c) \/ HandleEncodeVault(c) \/ HandleEncodeCf(c)
  PROVE  SdkInv'
<1> DEFINE in == call[c].input
<1>1. /\ ~client.broker /\ FokValid(in)
      /\ call[c].bps # 0 => client.taker \/ (in.op # "deposit" /\ in.account)
      /\ in.affiliates => in.op # "deposit" /\ in.account
      /\ client.taker => call[c].bps = deployment.bps
      /\ in \in Inputs
  <2>1. call[c].pc = "backend"
    BY DEF HandleOpenChannel, HandleEncodeVault, HandleEncodeCf, Handles
  <2> QED
    BY <2>1 DEF SdkInv, CallAgrees, CallTypes
<1>2. in.affiliates \in BOOLEAN
  BY <1>1, InputsAssumption DEF InputsAssumption
<1>3. CASE HandleOpenChannel(c)
  <2> DEFINE r == IF client.taker /\ deployment.commissionBroker
                  THEN Asked(in, "commission", deployment.bps, FALSE)
                  ELSE Asked(in, "default", 0, FALSE)
  <2>1. Handles(c, "deposit", DepositSchema(in), r)
    BY <1>3 DEF HandleOpenChannel
  <2>2. in.op = "deposit"
    BY <2>1 DEF Handles
  <2>3. in.affiliates = FALSE
    BY <1>1, <1>2, <2>2
  <2>4. MadeFor(call[c], r, client, deployment)
    <3>1. CASE client.taker /\ deployment.commissionBroker
      <4>1. r = Asked(in, "commission", call[c].bps, in.affiliates)
        BY <1>1, <2>3, <3>1
      <4> QED
        BY <1>1, <4>1 DEF MadeFor
    <3>2. CASE ~(client.taker /\ deployment.commissionBroker)
      <4>1. r = Asked(in, "default", 0, in.affiliates)
        BY <2>3, <3>2
      <4>2. 0 # call[c].bps => client.taker /\ ~client.broker /\ ~deployment.commissionBroker
        BY <1>1, <2>2, <3>2
      <4> QED
        BY <1>1, <2>2, <4>1, <4>2 DEF MadeFor
    <3> QED
      BY <3>1, <3>2
  <2> HIDE DEF r
  <2> QED
    BY <2>1, <2>4, HandlesKeep
<1>4. CASE HandleEncodeVault(c)
  <2> DEFINE r == IF in.account THEN Asked(in, "node", call[c].bps, in.affiliates)
                  ELSE IF call[c].bps # 0 THEN [ok |-> FALSE, why |-> "commission"]
                  ELSE Asked(in, "default", 0, FALSE)
  <2>1. Handles(c, "vault", VaultSchema(in), r)
    BY <1>4 DEF HandleEncodeVault
  <2>2. r.ok => MadeFor(call[c], r, client, deployment)
    <3>1. CASE in.account
      <4>1. r = Asked(in, "node", call[c].bps, in.affiliates)
        BY <3>1
      <4> QED
        BY <1>1, <4>1 DEF MadeFor
    <3>2. CASE ~in.account /\ call[c].bps # 0
      <4>1. ~r.ok
        BY <3>2
      <4> QED
        BY <4>1
    <3>3. CASE ~in.account /\ call[c].bps = 0
      <4>1. r = Asked(in, "default", call[c].bps, in.affiliates)
        BY <1>1, <1>2, <3>3
      <4> QED
        BY <1>1, <4>1 DEF MadeFor
    <3> QED
      BY <3>1, <3>2, <3>3
  <2> HIDE DEF r
  <2> QED
    BY <2>1, <2>2, HandlesKeep
<1>5. CASE HandleEncodeCf(c)
  <2> DEFINE r == IF in.account THEN Asked(in, "node", call[c].bps, in.affiliates)
                  ELSE Asked(in, "default", 0, FALSE)
  <2>1. Handles(c, "cf", CfSchema(in), r)
    BY <1>5 DEF HandleEncodeCf
  <2>2. in.op = "cf"
    BY <2>1 DEF Handles
  <2>3. MadeFor(call[c], r, client, deployment)
    <3>1. CASE in.account
      <4>1. r = Asked(in, "node", call[c].bps, in.affiliates)
        BY <3>1
      <4> QED
        BY <1>1, <4>1 DEF MadeFor
    <3>2. CASE ~in.account
      <4>1. r = Asked(in, "default", 0, in.affiliates)
        BY <1>1, <1>2, <3>2
      <4>2. 0 # call[c].bps => client.taker /\ ~client.broker
        BY <1>1, <3>2
      <4> QED
        BY <1>1, <2>2, <3>2, <4>1, <4>2 DEF MadeFor
    <3> QED
      BY <3>1, <3>2
  <2> HIDE DEF r
  <2> QED
    BY <2>1, <2>3, HandlesKeep
<1> QED
  BY <1>3, <1>4, <1>5

\* A fetch settles; one that fails leaves the cache, and only a read puts one into it.
LEMMA SettleKeeps == ASSUME SdkInv, NEW f \in 1..Len(fetches), FetchSettles(f) PROVE SdkInv'
<1>1. /\ fetches \in Seq(Fetches) /\ cached \in [Types -> Nat] /\ net \in Nat /\ Len(fetches) \in Nat
      /\ fetches[f] \in Fetches /\ CachedFits /\ DOMAIN call = Calls
  BY DEF SdkInv, SdkTypes
<1>2. /\ UNCHANGED <<net, deployment, client, call>>
      /\ \/ /\ \E p \in Nat : fetches' = [fetches EXCEPT ![f].st = "ok", ![f].at = p]
            /\ UNCHANGED cached
         \/ /\ fetches' = [fetches EXCEPT ![f].st = "failed"]
            /\ cached' = [cached EXCEPT ![fetches[f].type] = 0]
  <2>1. \A p \in IF fetches[f].type = "environment" THEN {net} ELSE 1..net : p \in Nat
    BY <1>1
  <2>2. CASE \E p \in IF fetches[f].type = "environment" THEN {net} ELSE 1..net :
               fetches' = [fetches EXCEPT ![f].st = "ok", ![f].at = p]
    BY <2>1, <2>2, Zenon DEF FetchSettles, DropRejected
  <2>3. CASE fetches' = [fetches EXCEPT ![f].st = "failed"] /\ cached' = DropRejected(fetches[f].type)
    BY <2>3, Zenon DEF FetchSettles, DropRejected
  <2> QED
    BY <2>2, <2>3, Zenon DEF FetchSettles
<1> DEFINE Settled ==
             /\ fetches' \in Seq(Fetches) /\ Len(fetches') = Len(fetches)
             /\ \A g \in 1..Len(fetches) : fetches'[g].type = fetches[g].type /\ (g # f => fetches'[g] = fetches[g])
             /\ UNCHANGED cached => fetches'[f].st # "failed" \/ cached[fetches[f].type] = 0
<1>3. Settled
  <2>1. ASSUME NEW p \in Nat, fetches' = [fetches EXCEPT ![f].st = "ok", ![f].at = p], UNCHANGED cached
        PROVE  Settled
    <3> DEFINE n == [fetches[f] EXCEPT !.st = "ok", !.at = p]
    <3>1. n \in Fetches /\ n.type = fetches[f].type /\ n.st = "ok"
      BY <1>1 DEF Fetches
    <3>2. fetches' = [fetches EXCEPT ![f] = n]
      BY <1>1, <2>1
    <3> HIDE DEF n
    <3> QED
      BY <1>1, <3>1, <3>2
  <2>2. ASSUME fetches' = [fetches EXCEPT ![f].st = "failed"], cached' = [cached EXCEPT ![fetches[f].type] = 0]
        PROVE  Settled
    <3> DEFINE n == [fetches[f] EXCEPT !.st = "failed"]
    <3>1. n \in Fetches /\ n.type = fetches[f].type /\ fetches[f].type \in Types
      BY <1>1 DEF Fetches
    <3>2. fetches' = [fetches EXCEPT ![f] = n]
      BY <2>2
    <3>3. UNCHANGED cached => cached[fetches[f].type] = 0
      BY <1>1, <2>2, <3>1
    <3> HIDE DEF n
    <3>4. /\ fetches' \in Seq(Fetches) /\ Len(fetches') = Len(fetches)
          /\ \A g \in 1..Len(fetches) : fetches'[g].type = fetches[g].type /\ (g # f => fetches'[g] = fetches[g])
      BY <1>1, <3>1, <3>2
    <3> QED
      BY <3>3, <3>4
  <2> QED
    BY <1>2, <2>1, <2>2
<1>4. FetchesGrow
  BY <1>1, <1>3 DEF FetchesGrow
<1>5. cached' \in [Types -> Nat] /\ \A t \in Types : cached'[t] = cached[t] \/ cached'[t] = 0
  BY <1>1, <1>2
<1>6. CachedFits'
  <2> SUFFICES ASSUME NEW t \in Types, cached'[t] # 0
      PROVE  /\ cached'[t] \in 1..Len(fetches') /\ fetches'[cached'[t]].type = t
             /\ fetches'[cached'[t]].st # "failed"
    BY DEF CachedFits
  <2>1. /\ cached'[t] = cached[t] /\ cached[t] \in 1..Len(fetches) /\ fetches[cached[t]].type = t
        /\ fetches[cached[t]].st # "failed"
    BY <1>1, <1>5 DEF CachedFits
  <2>2. CASE cached[t] # f
    BY <1>3, <2>1, <2>2
  <2>3. CASE cached[t] = f
    <3>1. fetches'[f].st # "failed"
      <4>1. CASE UNCHANGED cached
        BY <1>3, <2>1, <2>3, <4>1
      <4>2. CASE cached' = [cached EXCEPT ![fetches[f].type] = 0]
        <5>1. cached'[t] = 0
          BY <1>1, <2>1, <2>3, <4>2
        <5> QED
          BY <5>1
      <4> QED
        BY <1>2, <4>1, <4>2
    <3> QED
      BY <1>3, <2>1, <2>3, <3>1
  <2> QED
    BY <2>2, <2>3
<1>7. ASSUME NEW c \in Calls PROVE CallTypes(call'[c], fetches') /\ CallAgrees(call'[c], client', deployment')
  <2>1. CallTypes(call[c], fetches) /\ CallAgrees(call[c], client, deployment)
    BY DEF SdkInv
  <2>2. CallTypes(call[c], fetches')
    BY <1>4, <2>1, StillWaits DEF SdkInv
  <2> QED
    BY <1>2, <2>1, <2>2
<1> QED
  BY <1>1, <1>2, <1>3, <1>5, <1>6, <1>7 DEF SdkInv, SdkTypes

LEMMA SdkBegins == ASSUME SdkInit PROVE SdkInv
<1>1. SdkTypes
  BY DEF SdkInit, SdkTypes
<1>2. CachedFits
  BY DEF SdkInit, CachedFits
<1>3. ASSUME NEW c \in Calls PROVE CallTypes(call[c], fetches) /\ CallAgrees(call[c], client, deployment)
  <2>1. call[c] = Idle
    BY DEF SdkInit
  <2>2. /\ DOMAIN Idle = {"pc", "input", "fetch", "bps", "result"} /\ Idle.pc = "idle" /\ Idle.fetch = 0
        /\ Idle.bps = 0
    BY DEF Idle
  <2>3. CallTypes(Idle, fetches)
    BY <2>2 DEF CallTypes, Pcs
  <2>4. CallAgrees(Idle, client, deployment)
    BY <2>2 DEF CallAgrees, Made
  <2> QED
    BY <2>1, <2>3, <2>4
<1> QED
  BY <1>1, <1>2, <1>3 DEF SdkInv

LEMMA SdkSteps ==
  ASSUME InputsAssumption, OptionsAssumption, SdkInv, [SdkNext]_sdkVars PROVE SdkInv'
<1>1. CASE Change
  <2>1. net' = net + 1 /\ UNCHANGED <<deployment, client, cached, fetches, call>>
    BY <1>1 DEF Change
  <2> QED
    BY <2>1 DEF SdkInv, SdkTypes, CachedFits
<1>2. CASE UNCHANGED sdkVars
  BY <1>2 DEF sdkVars, SdkInv, SdkTypes, CachedFits
<1>3. CASE \E f \in 1..Len(fetches) : FetchSettles(f)
  BY <1>3, SettleKeeps
<1>4. ASSUME NEW c \in Calls, (\E in \in Inputs : Start(c, in)) \/ Step(c) PROVE SdkInv'
  BY <1>4, StartKeeps, CheckLimitsKeeps, CommissionKeeps, SubmitKeeps, HandleKeeps DEF Step
<1> QED
  BY <1>1, <1>2, <1>3, <1>4 DEF SdkNext

\* A destination that is listed is not closed, nor is a source.
LEMMA ListedIsOpen ==
  ASSUME NEW src, NEW dest, NEW safe, Listed("destination", dest, safe),
         NEW type \in {"deposit", "depositChannel", "vaultSwap"}, Listed(type, src, safe)
  PROVE  RouteEnabled(src, dest)
<1>1. EgressEnabled(dest, safe)
  BY DEF Listed
<1>2. src \notin deployment.disabled /\ src \notin deployment.noDeposit
  <2>1. CASE type = "deposit"
    BY <2>1 DEF Listed, DepositEnabled
  <2>2. CASE type = "depositChannel"
    BY <2>2 DEF Listed, DepositEnabled
  <2>3. CASE type = "vaultSwap"
    BY <2>3 DEF Listed, DepositEnabled
  <2> QED
    BY <2>1, <2>2, <2>3
<1> QED
  BY <1>1, <1>2 DEF EgressEnabled, RouteEnabled

LEMMA SdkInvShows == ASSUME InputsAssumption, SdkInv PROVE RequestsAsAgreed
<1>1. SdkTypeOK /\ NoRejectedPromiseStays
  <2>1. ASSUME NEW c \in Calls PROVE CallTypes(call[c], fetches)
    BY DEF SdkInv
  <2> QED
    BY <2>1 DEF SdkInv, CachedFits, SdkTypeOK, NoRejectedPromiseStays, CallTypes
<1>2. ASSUME NEW c \in Calls, Done(c)
      PROVE  /\ call[c].input \in Inputs /\ QuoteFits(call[c].input)
             /\ MadeFor(call[c], call[c].result, client, deployment)
  BY <1>2 DEF SdkInv, Done, Made, CallAgrees, CallTypes
<1>3. AskedAsAgreed
  <2> SUFFICES ASSUME NEW c \in Calls, Done(c)
      PROVE LET in == call[c].input
                r == call[c].result
            IN  /\ r.dca => in.quote.dca
                /\ r.dca = (in.quote.type = "DCA") /\ r.ccm = in.quote.ccm /\ r.boost = in.quote.boost
                /\ r.affiliates = in.affiliates
                /\ r.oracle = Unset <=> in.quote.lpp = Unset
                /\ in.lpp # Unset => r.oracle = 100 * in.lpp
    BY DEF AskedAsAgreed
  <2> DEFINE in == call[c].input
             r == call[c].result
  <2>1. PICK to, b : r = Asked(in, to, b, in.affiliates)
    BY <1>2 DEF MadeFor
  <2>2. /\ r.dca = (in.quote.type = "DCA") /\ r.ccm = in.ccm /\ r.boost = in.quote.boost
        /\ r.affiliates = in.affiliates /\ r.oracle = Oracle(in)
    BY <2>1 DEF Asked
  <2>3. in \in Inputs /\ QuoteFits(in) /\ FokValid(in)
    BY <1>2 DEF MadeFor
  <2>4. (in.quote.type = "DCA" => in.quote.dca) /\ in.ccm = in.quote.ccm
    <3>1. in.op \in {"deposit", "vault", "cf"}
      BY <2>3 DEF InputsAssumption
    <3> QED
      BY <2>3, <3>1 DEF QuoteFits, QuoteValid, FitsDeposit, FitsVault, FitsCf
  <2>5. in.quote.lpp \in Nat \cup {Unset} /\ in.lpp \in Nat \cup {Unset} /\ Unset \notin Nat
    BY <2>3 DEF InputsAssumption
  <2>6. in.lpp # Unset => in.quote.lpp # Unset
    BY <2>3 DEF FokValid
  <2> HIDE DEF in, r
  <2>7. r.oracle = Unset <=> in.quote.lpp = Unset
    <3>1. in.lpp # Unset => 100 * in.lpp \in Nat
      BY <2>5
    <3>2. in.quote.lpp # Unset => 100 * in.quote.lpp \in Nat
      BY <2>5
    <3> QED
      BY <2>2, <2>5, <2>6, <3>1, <3>2 DEF Oracle
  <2>8. in.lpp # Unset => r.oracle = 100 * in.lpp
    BY <2>2 DEF Oracle
  <2> QED
    BY <2>2, <2>4, <2>7, <2>8 DEF in, r
<1>4. CommissionDroppedOnlyForTaker
  <2> SUFFICES ASSUME NEW c \in Calls, Done(c), call[c].result.commission # call[c].bps
      PROVE  /\ call[c].result.commission = 0 /\ client.taker /\ ~client.broker
             /\ \/ call[c].input.op = "deposit" /\ ~deployment.commissionBroker
                \/ call[c].input.op = "cf" /\ ~call[c].input.account
    BY DEF CommissionDroppedOnlyForTaker
  <2>1. PICK to \in {"own", "node", "commission", "default"}, b \in {0, call[c].bps} :
          /\ call[c].result = Asked(call[c].input, to, b, call[c].input.affiliates)
          /\ b # call[c].bps => /\ client.taker /\ ~client.broker
                                /\ \/ call[c].input.op = "deposit" /\ ~deployment.commissionBroker
                                   \/ call[c].input.op = "cf" /\ ~call[c].input.account
    BY <1>2 DEF MadeFor
  <2>2. call[c].result.commission = b
    BY <2>1 DEF Asked
  <2> QED
    BY <2>1, <2>2
<1>5. QuoteForItsCall
  <2> SUFFICES ASSUME NEW c \in Calls, Done(c), call[c].input.quote.onChain PROVE call[c].input.op = "cf"
    BY DEF QuoteForItsCall
  <2>1. /\ call[c].input.op \in {"deposit", "vault", "cf"}
        /\ ~(call[c].input.quote.vault /\ call[c].input.quote.onChain)
    BY <1>2 DEF InputsAssumption
  <2> QED
    BY <1>2, <2>1 DEF QuoteFits, FitsDeposit, FitsVault
<1>6. ListedIsRouted
  BY ListedIsOpen, Zenon DEF ListedIsRouted
<1> QED
  BY <1>1, <1>3, <1>4, <1>5, <1>6 DEF RequestsAsAgreed

(* Whatever the caches hold and whichever fetches fail, a broker is asked  *)
(* for what quote and caller agreed on; a commission is dropped only for   *)
(* a client that takes one itself; an on-chain quote gets no channel and   *)
(* no vault data; no promise that is known to have failed stays cached;    *)
(* and what getAssets lists is not refused as a route (sdk.ts,             *)
(* openSwapDepositChannel.ts, encodeVaultSwapData.ts, cfParameters).       *)
THEOREM RequestsAgree == SdkSpec => []RequestsAsAgreed
<1>1. InputsAssumption /\ OptionsAssumption
  BY InputsAssumption, OptionsAssumption
<1>2. SdkInit => SdkInv
  BY SdkBegins
<1>3. SdkInv /\ [SdkNext]_sdkVars => SdkInv'
  BY <1>1, SdkSteps
<1>4. SdkInv => RequestsAsAgreed
  BY <1>1, SdkInvShows
<1> QED
  BY <1>2, <1>3, <1>4, PTL DEF SdkSpec

-----------------------------------------------------------------------------
(* Recursion over the index of a sequence.                                 *)

LEMMA Least ==
  ASSUME NEW T \in SUBSET Nat, T # {}
  PROVE  \E m \in T : \A n \in T : m <= n
<1>1. PICK m \in T : \A n \in T : <<n, m>> \notin OpToRel(<, Nat)
  BY NatLessThanWellFounded, WFMin
<1>2. \A n \in T : ~(n < m)
  BY <1>1 DEF OpToRel
<1> QED
  BY <1>2

\* What holds of 0, and of a number if of the one before, holds of all.
LEMMA StepByStep ==
  ASSUME NEW N \in Nat, NEW T \in SUBSET Nat, 0 \in T, \A i \in 1..N : i - 1 \in T => i \in T
  PROVE  0..N \subseteq T
<1> SUFFICES ASSUME ~(0..N \subseteq T) PROVE FALSE
  OBVIOUS
<1> DEFINE bad == {i \in 0..N : i \notin T}
<1>1. PICK m \in bad : \A n \in bad : m <= n
  <2>1. bad \in SUBSET Nat /\ bad # {}
    OBVIOUS
  <2> HIDE DEF bad
  <2> QED
    BY <2>1, Least
<1>2. m \in 1..N
  BY <1>1
<1>3. m - 1 \in T
  <2>1. m - 1 \in 0..N /\ ~(m <= m - 1)
    BY <1>2
  <2> QED
    BY <1>1, <2>1
<1> QED
  BY <1>1, <1>2, <1>3

\* From a, by the step F at each index.
AreSteps(F, N, S) == F \in [1..N -> [S -> S]]
Follows(g, a, F, N, S) == g \in [0..N -> S] /\ g[0] = a /\ \A i \in 1..N : g[i] = F[i][g[i - 1]]

LEMMA GoesByStep ==
  ASSUME NEW N \in Nat, NEW S, NEW a \in S, NEW F, AreSteps(F, N, S)
  PROVE  \E g : Follows(g, a, F, N, S)
<1> USE DEF AreSteps, Follows
<1> DEFINE Is(n, g) == g \in [0..n -> S] /\ g[0] = a /\ \A i \in 1..n : g[i] = F[i][g[i - 1]]
           T == {n \in 0..N : \E g \in [0..n -> S] : Is(n, g)}
<1>1. 0 \in T
  <2> DEFINE h == [i \in 0..0 |-> a]
  <2>1. h \in [0..0 -> S] /\ h[0] = a /\ 1..0 = {}
    OBVIOUS
  <2> HIDE DEF h
  <2>2. Is(0, h) /\ 0 \in 0..N
    BY <2>1
  <2> QED
    BY <2>1, <2>2
<1>2. \A n \in 1..N : n - 1 \in T => n \in T
  <2> SUFFICES ASSUME NEW n \in 1..N, n - 1 \in T PROVE n \in T
    OBVIOUS
  <2>1. PICK g \in [0..(n - 1) -> S] : Is(n - 1, g)
    OBVIOUS
  <2> DEFINE h == [i \in 0..n |-> IF i = n THEN F[n][g[n - 1]] ELSE g[i]]
  <2>2. F[n][g[n - 1]] \in S
    <3>1. g[n - 1] \in S
      OBVIOUS
    <3> QED
      BY <3>1
  <2>3. h \in [0..n -> S]
    BY <2>2
  <2>4. h[0] = a
    BY <2>1
  <2>5. \A i \in 1..n : h[i] = F[i][h[i - 1]]
    <3> SUFFICES ASSUME NEW i \in 1..n PROVE h[i] = F[i][h[i - 1]]
      OBVIOUS
    <3>1. h[i - 1] = g[i - 1]
      OBVIOUS
    <3>2. CASE i = n
      BY <3>1, <3>2
    <3>3. CASE i # n
      <4>1. i \in 1..(n - 1)
        BY <3>3
      <4>2. g[i] = F[i][g[i - 1]]
        BY <2>1, <4>1
      <4> HIDE DEF h
      <4>3. h[i] = g[i]
        BY <3>3 DEF h
      <4> QED
        BY <3>1, <4>2, <4>3
    <3> QED
      BY <3>2, <3>3
  <2> HIDE DEF h
  <2>6. Is(n, h) /\ n \in 0..N
    BY <2>3, <2>4, <2>5
  <2> QED
    BY <2>3, <2>6
<1>3. T \in SUBSET Nat /\ N \in 0..N
  OBVIOUS
<1>4. N \in T
  <2> HIDE DEF T
  <2> QED
    BY <1>1, <1>2, <1>3, StepByStep
<1> QED
  BY <1>4

LEMMA SumOfIs ==
  ASSUME NEW values, Len(values) \in Nat, \A i \in 1..Len(values) : values[i] \in Nat
  PROVE  \E sum \in [0..Len(values) -> Nat] :
           /\ sum[0] = 0 /\ \A i \in 1..Len(values) : sum[i] = sum[i - 1] + values[i]
           /\ SumOf(values) = sum[Len(values)]
<1> DEFINE N == Len(values)
           F == [i \in 1..N |-> [x \in Nat |-> x + values[i]]]
           f == CHOOSE g : g = [i \in 0..N |-> IF i = 0 THEN 0 ELSE g[i - 1] + values[i]]
<1>1. F \in [1..N -> [Nat -> Nat]]
  OBVIOUS
<1>2. PICK g \in [0..N -> Nat] : g[0] = 0 /\ \A i \in 1..N : g[i] = F[i][g[i - 1]]
  <2>1. AreSteps(F, N, Nat)
    BY <1>1 DEF AreSteps
  <2> HIDE DEF F
  <2>2. \E g : Follows(g, 0, F, N, Nat)
    BY <2>1, GoesByStep
  <2> QED
    BY <2>2 DEF Follows
<1>3. \A i \in 1..N : g[i] = g[i - 1] + values[i]
  <2> SUFFICES ASSUME NEW i \in 1..N PROVE g[i] = g[i - 1] + values[i]
    OBVIOUS
  <2>1. i - 1 \in 0..N
    OBVIOUS
  <2>2. g[i - 1] \in Nat
    BY <1>2, <2>1
  <2>3. g[i] = F[i][g[i - 1]]
    BY <1>2
  <2> QED
    BY <2>2, <2>3
<1>4. g = [i \in 0..N |-> IF i = 0 THEN 0 ELSE g[i - 1] + values[i]]
  <2>1. \A i \in 0..N : g[i] = IF i = 0 THEN 0 ELSE g[i - 1] + values[i]
    BY <1>2, <1>3
  <2> QED
    BY <2>1
<1>5. f = [i \in 0..N |-> IF i = 0 THEN 0 ELSE f[i - 1] + values[i]]
  BY <1>4, Zenon
<1>6. SumOf(values) = f[N]
  BY DEF SumOf
<1> HIDE DEF f
<1>7. f[N] = g[N]
  <2> DEFINE T == {i \in 0..N : f[i] = g[i]}
  <2>1. f[0] = 0 /\ \A i \in 1..N : f[i] = f[i - 1] + values[i]
    <3>1. 0 \in 0..N /\ \A i \in 1..N : i \in 0..N /\ i # 0
      OBVIOUS
    <3> QED
      BY <1>5, <3>1
  <2>2. T \in SUBSET Nat /\ 0 \in T
    BY <1>2, <2>1
  <2>3. \A i \in 1..N : i - 1 \in T => i \in T
    BY <1>3, <2>1
  <2>4. 0..N \subseteq T
    <3> HIDE DEF T, N
    <3>1. N \in Nat
      BY DEF N
    <3> QED
      BY <2>2, <2>3, <3>1, StepByStep
  <2> QED
    BY <2>4
<1> QED
  BY <1>2, <1>3, <1>6, <1>7
-----------------------------------------------------------------------------
(* The boost.                                                              *)

Tiers == {n \in Nat : n >= SupplyPoolBps}
PoolsToBoost == [tier : Tiers, available : Nat]
Taken == [left : Nat, fee : Nat]

LEMMA TimesKeepsOrder ==
  ASSUME NEW x \in Nat, NEW y \in Nat, NEW z \in Nat, x <= y
  PROVE  x * z <= y * z /\ z * x <= z * y /\ z * x <= y * z
<1> DEFINE k == y - x
<1>1. k \in Nat /\ y = x + k
  OBVIOUS
<1> HIDE DEF k
<1>2. k * z \in Nat /\ x * z \in Nat /\ (x + k) * z = x * z + k * z
  BY <1>1
<1>3. z * x = x * z /\ z * y = y * z
  OBVIOUS
<1> QED
  BY <1>1, <1>2, <1>3

LEMMA TakeIs ==
  ASSUME NEW acc \in Taken, NEW pool \in PoolsToBoost
  PROVE  \E used \in Nat : /\ used <= acc.left /\ used <= pool.available
                           /\ Take(acc, pool) \in Taken
                           /\ Take(acc, pool).left = acc.left - used
                           /\ ONE_IN_PIP * (Take(acc, pool).fee - acc.fee) <= used * pool.tier
<1> DEFINE used == IF pool.available < acc.left THEN pool.available ELSE acc.left
           t == pool.tier
           p == used * t
           fee == p \div 10000
<1>1. used \in Nat /\ used <= acc.left /\ used <= pool.available /\ t \in Nat /\ acc.fee \in Nat /\ acc.left \in Nat
  BY DEF Taken, PoolsToBoost, Tiers
<1>2. Take(acc, pool) = [left |-> acc.left - used, fee |-> acc.fee + PipAmount(used, t)]
  BY DEF Take
<1> HIDE DEF used, t
<1>3. p \in Nat
  BY <1>1
<1>4. PipAmount(used, t) = fee
  BY <1>3 DEF PipAmount, Cut, ONE_IN_PIP
<1> HIDE DEF p
<1>5. fee \in Nat /\ 10000 * fee <= p
  BY <1>3
<1> HIDE DEF fee
<1>6. acc.left - used \in Nat /\ acc.fee + fee \in Nat
  BY <1>1, <1>5
<1>7. Take(acc, pool) \in Taken /\ Take(acc, pool).left = acc.left - used /\ Take(acc, pool).fee = acc.fee + fee
  BY <1>2, <1>4, <1>6 DEF Taken
<1>8. ONE_IN_PIP * (Take(acc, pool).fee - acc.fee) <= used * pool.tier
  BY <1>1, <1>5, <1>7 DEF p, t, ONE_IN_PIP
<1> QED
  BY <1>1, <1>7, <1>8

LEMMA TakeAllIs ==
  ASSUME NEW amount \in Nat, NEW pools \in Seq(PoolsToBoost)
  PROVE  \E acc \in [0..Len(pools) -> Taken] :
           /\ acc[0] = [left |-> amount, fee |-> 0]
           /\ \A i \in 1..Len(pools) : acc[i] = Take(acc[i - 1], pools[i])
           /\ TakeAll(amount, pools) = acc[Len(pools)]
<1> DEFINE N == Len(pools)
           a == [left |-> amount, fee |-> 0]
           F == [i \in 1..N |-> [x \in Taken |-> Take(x, pools[i])]]
           f == CHOOSE g : g = [i \in 0..N |-> IF i = 0 THEN a ELSE Take(g[i - 1], pools[i])]
<1>1. N \in Nat /\ a \in Taken /\ \A i \in 1..N : pools[i] \in PoolsToBoost
  BY DEF Taken
<1>2. AreSteps(F, N, Taken)
  <2>1. \A i \in 1..N : \A x \in Taken : Take(x, pools[i]) \in Taken
    BY <1>1, TakeIs
  <2> QED
    BY <2>1 DEF AreSteps
<1>3. TakeAll(amount, pools) = f[N]
  BY DEF TakeAll
<1> HIDE DEF a
<1>4. PICK g \in [0..N -> Taken] : g[0] = a /\ \A i \in 1..N : g[i] = F[i][g[i - 1]]
  <2> HIDE DEF F, f, N
  <2>1. \E g : Follows(g, a, F, N, Taken)
    BY <1>1, <1>2, GoesByStep
  <2> QED
    BY <2>1 DEF Follows
<1>5. \A i \in 1..N : g[i] = Take(g[i - 1], pools[i])
  <2> SUFFICES ASSUME NEW i \in 1..N PROVE g[i] = Take(g[i - 1], pools[i])
    OBVIOUS
  <2>1. i - 1 \in 0..N
    BY <1>1
  <2>2. g[i - 1] \in Taken
    BY <1>4, <2>1
  <2>3. g[i] = F[i][g[i - 1]]
    BY <1>4
  <2> QED
    BY <2>2, <2>3
<1>6. g = [i \in 0..N |-> IF i = 0 THEN a ELSE Take(g[i - 1], pools[i])]
  <2>1. \A i \in 0..N : g[i] = IF i = 0 THEN a ELSE Take(g[i - 1], pools[i])
    <3>1. \A i \in 0..N : i = 0 \/ i \in 1..N
      BY <1>1
    <3> QED
      BY <1>4, <1>5, <3>1
  <2> QED
    BY <2>1
<1>7. f = [i \in 0..N |-> IF i = 0 THEN a ELSE Take(f[i - 1], pools[i])]
  BY <1>6, Zenon
<1> HIDE DEF f, N
<1>8. f[N] = g[N]
  <2> DEFINE T == {i \in 0..N : f[i] = g[i]}
  <2>1. f[0] = a /\ \A i \in 1..N : f[i] = Take(f[i - 1], pools[i])
    <3>1. 0 \in 0..N /\ \A i \in 1..N : i \in 0..N /\ i # 0
      BY <1>1
    <3> QED
      BY <1>7, <3>1
  <2>2. T \in SUBSET Nat /\ 0 \in T
    BY <1>1, <1>4, <2>1
  <2>3. \A i \in 1..N : i - 1 \in T => i \in T
    BY <1>5, <2>1
  <2>4. 0..N \subseteq T
    <3> HIDE DEF T
    <3> QED
      BY <1>1, <2>2, <2>3, StepByStep
  <2> QED
    BY <1>1, <2>4
<1> QED
  BY <1>3, <1>4, <1>5, <1>8 DEF N, a

LEMMA MaxBoostBpsIs ==
  ASSUME NEW pools \in Seq(PoolsToBoost)
  PROVE  \E best \in [0..Len(pools) -> Nat] :
           /\ best[0] = 0
           /\ \A i \in 1..Len(pools) : best[i] = IF pools[i].tier > best[i - 1] THEN pools[i].tier ELSE best[i - 1]
           /\ MaxBoostBps(pools) = best[Len(pools)]
<1> DEFINE N == Len(pools)
           Better(x, i) == IF pools[i].tier > x THEN pools[i].tier ELSE x
           F == [i \in 1..N |-> [x \in Nat |-> Better(x, i)]]
           f == CHOOSE g : g = [i \in 0..N |-> IF i = 0 THEN 0
                                               ELSE IF pools[i].tier > g[i - 1] THEN pools[i].tier ELSE g[i - 1]]
<1>1. N \in Nat /\ \A i \in 1..N : pools[i].tier \in Nat
  <2>1. N \in Nat /\ \A i \in 1..N : pools[i] \in PoolsToBoost
    OBVIOUS
  <2> QED
    BY <2>1 DEF PoolsToBoost, Tiers
<1>2. AreSteps(F, N, Nat)
  BY <1>1 DEF AreSteps
<1>3. MaxBoostBps(pools) = f[N]
  BY DEF MaxBoostBps
<1>4. PICK g \in [0..N -> Nat] : g[0] = 0 /\ \A i \in 1..N : g[i] = F[i][g[i - 1]]
  <2> HIDE DEF F, f, N
  <2>1. \E g : Follows(g, 0, F, N, Nat)
    BY <1>1, <1>2, GoesByStep
  <2> QED
    BY <2>1 DEF Follows
<1>5. \A i \in 1..N : g[i] = Better(g[i - 1], i)
  <2> SUFFICES ASSUME NEW i \in 1..N PROVE g[i] = Better(g[i - 1], i)
    OBVIOUS
  <2>1. i - 1 \in 0..N
    BY <1>1
  <2>2. g[i - 1] \in Nat
    BY <1>4, <2>1
  <2>3. g[i] = F[i][g[i - 1]]
    BY <1>4
  <2> QED
    BY <2>2, <2>3
<1>6. g = [i \in 0..N |-> IF i = 0 THEN 0 ELSE Better(g[i - 1], i)]
  <2>1. \A i \in 0..N : g[i] = IF i = 0 THEN 0 ELSE Better(g[i - 1], i)
    <3>1. \A i \in 0..N : i = 0 \/ i \in 1..N
      BY <1>1
    <3> HIDE DEF Better
    <3> QED
      BY <1>4, <1>5, <3>1
  <2> QED
    BY <2>1
<1>7. f = [i \in 0..N |-> IF i = 0 THEN 0 ELSE Better(f[i - 1], i)]
  BY <1>6, Zenon
<1> HIDE DEF f, N, Better
<1>8. f[N] = g[N]
  <2> DEFINE T == {i \in 0..N : f[i] = g[i]}
  <2>1. f[0] = 0 /\ \A i \in 1..N : f[i] = Better(f[i - 1], i)
    <3>1. 0 \in 0..N /\ \A i \in 1..N : i \in 0..N /\ i # 0
      BY <1>1
    <3> QED
      BY <1>7, <3>1
  <2>2. T \in SUBSET Nat /\ 0 \in T
    BY <1>1, <1>4, <2>1
  <2>3. \A i \in 1..N : i - 1 \in T => i \in T
    BY <1>5, <2>1
  <2>4. 0..N \subseteq T
    <3> HIDE DEF T
    <3> QED
      BY <1>1, <2>2, <2>3, StepByStep
  <2> QED
    BY <1>1, <2>4
<1> QED
  BY <1>3, <1>4, <1>5, <1>8 DEF N, Better

\* A boost is estimated of what is covered, and costs no more than the dearest pool.
LEMMA BoostBpsIs ==
  ASSUME NEW amount \in Nat \ {0}, NEW pools \in Seq(PoolsToBoost), BoostBps(amount, pools) # None
  PROVE  /\ BoostBps(amount, pools) \in Nat /\ MaxBoostBps(pools) \in Nat
         /\ BoostBps(amount, pools) >= 5 /\ BoostBps(amount, pools) <= MaxBoostBps(pools)
         /\ SumOf([p \in DOMAIN pools |-> pools[p].available]) >= amount
<1> DEFINE N == Len(pools)
           values == [p \in DOMAIN pools |-> pools[p].available]
<1>1. /\ N \in Nat /\ DOMAIN pools = 1..N
      /\ \A i \in 1..N : pools[i] \in PoolsToBoost /\ pools[i].tier \in Nat /\ pools[i].tier >= 5
  <2>1. N \in Nat /\ DOMAIN pools = 1..N /\ \A i \in 1..N : pools[i] \in PoolsToBoost
    OBVIOUS
  <2>2. \A p \in PoolsToBoost : p.tier \in Nat /\ p.tier >= 5
    BY DEF PoolsToBoost, Tiers, SupplyPoolBps
  <2> QED
    BY <2>1, <2>2
<1>2. PICK acc \in [0..N -> Taken] :
        /\ acc[0] = [left |-> amount, fee |-> 0]
        /\ \A i \in 1..N : acc[i] = Take(acc[i - 1], pools[i])
        /\ TakeAll(amount, pools) = acc[N]
  BY TakeAllIs
<1>3. PICK best \in [0..N -> Nat] :
        /\ best[0] = 0
        /\ \A i \in 1..N : best[i] = IF pools[i].tier > best[i - 1] THEN pools[i].tier ELSE best[i - 1]
        /\ MaxBoostBps(pools) = best[N]
  BY MaxBoostBpsIs
<1>4. PICK sum \in [0..N -> Nat] :
        /\ sum[0] = 0 /\ \A i \in 1..N : sum[i] = sum[i - 1] + pools[i].available
        /\ SumOf(values) = sum[N]
  <2>1. /\ Len(values) = N /\ \A i \in 1..N : values[i] = pools[i].available /\ values[i] \in Nat
    BY <1>1 DEF PoolsToBoost
  <2> HIDE DEF values
  <2>2. PICK sum \in [0..N -> Nat] :
          /\ sum[0] = 0 /\ \A i \in 1..N : sum[i] = sum[i - 1] + values[i]
          /\ SumOf(values) = sum[N]
    BY <1>1, <2>1, SumOfIs
  <2> QED
    BY <2>1, <2>2
<1> HIDE DEF N, values
<1> DEFINE Fits(i) ==
      /\ acc[i].left <= amount /\ amount - acc[i].left <= sum[i]
      /\ acc[i].fee * 10000 <= best[i] * (amount - acc[i].left)
      /\ i = 0 \/ best[i] >= 5
    T == {i \in 0..N : Fits(i)}
<1>5. 0 \in T
  <2>1. acc[0].left = amount /\ acc[0].fee = 0 /\ sum[0] = 0 /\ best[0] = 0 /\ 0 \in 0..N
    BY <1>1, <1>2, <1>3, <1>4
  <2> QED
    BY <2>1
<1>6. \A i \in 1..N : i - 1 \in T => i \in T
  <2> SUFFICES ASSUME NEW i \in 1..N, Fits(i - 1) PROVE Fits(i)
    <3> HIDE DEF Fits
    <3> QED
      BY <1>1
  <2> DEFINE l == acc[i - 1].left
             m == acc[i].left
             e == acc[i - 1].fee
             d == acc[i].fee
             b == best[i - 1]
             c == best[i]
             t == pools[i].tier
  <2>1. i - 1 \in 0..N /\ i \in 0..N /\ i # 0
    BY <1>1
  <2>2. acc[i - 1] \in Taken /\ acc[i] \in Taken /\ pools[i] \in PoolsToBoost
    <3>1. acc \in [0..N -> Taken] /\ \A j \in 1..N : pools[j] \in PoolsToBoost
      BY <1>1, <1>2
    <3> QED
      BY ONLY <2>1, <3>1, i \in 1..N
  <2>3. PICK used \in Nat : /\ used <= l /\ used <= pools[i].available /\ m = l - used
                            /\ ONE_IN_PIP * (d - e) <= used * t
    <3>1. acc[i] = Take(acc[i - 1], pools[i])
      BY <1>2
    <3> QED
      BY ONLY <2>2, <3>1, TakeIs
  <2>4. l \in Nat /\ m \in Nat /\ e \in Nat /\ d \in Nat /\ pools[i].available \in Nat
    BY <2>2 DEF Taken, PoolsToBoost
  <2>5. b \in Nat /\ c \in Nat /\ t \in Nat /\ t >= 5 /\ c >= t /\ c >= b
    <3>1. b \in Nat /\ c \in Nat /\ c = IF t > b THEN t ELSE b
      BY <1>3, <2>1
    <3>2. t \in Nat /\ t >= 5
      BY <1>1
    <3> HIDE DEF b, c, t
    <3> QED
      BY <3>1, <3>2
  <2>6. sum[i - 1] \in Nat /\ sum[i] = sum[i - 1] + pools[i].available
    BY <1>4, <2>1
  <2>7. l <= amount /\ amount - l <= sum[i - 1] /\ e * 10000 <= b * (amount - l)
    OBVIOUS
  <2> HIDE DEF l, m, e, d, b, c, t
  <2>8. m <= amount /\ amount - m <= sum[i]
    BY <2>3, <2>4, <2>6, <2>7
  <2>9. d * 10000 <= c * (amount - m)
    <3> DEFINE x == amount - l
    <3>1. x \in Nat /\ amount - m = x + used
      BY <2>3, <2>4, <2>7
    <3> HIDE DEF x
    <3>2. b * x <= c * x
      BY <2>5, <3>1, TimesKeepsOrder
    <3>3. used * t <= c * used
      <4>1. used \in Nat /\ t \in Nat /\ c \in Nat /\ t <= c
        BY <2>5
      <4> QED
        BY ONLY <4>1, TimesKeepsOrder, Zenon
    <3>4. c * (x + used) = c * x + c * used /\ b * x \in Nat /\ c * x \in Nat /\ used * t \in Nat /\ c * used \in Nat
      BY <2>3, <2>5, <3>1
    <3>5. 10000 * (d - e) <= used * t
      BY <2>3 DEF ONE_IN_PIP
    <3>6. e * 10000 <= b * x
      BY <2>7 DEF x
    <3> DEFINE p == b * x
               q == c * x
               r == used * t
               s == c * used
    <3>7. p <= q /\ r <= s /\ 10000 * (d - e) <= r /\ e * 10000 <= p /\ p \in Nat /\ q \in Nat /\ r \in Nat /\ s \in Nat
      BY <3>2, <3>3, <3>4, <3>5, <3>6
    <3> HIDE DEF p, q, r, s
    <3>8. d * 10000 <= q + s
      BY <2>4, <3>7
    <3> QED
      BY <3>1, <3>4, <3>8 DEF q, s
  <2>10. c >= 5
    BY <2>5
  <2> QED
    BY <2>1, <2>8, <2>9, <2>10 DEF m, d, c
<1>7. Fits(N)
  <2>1. T \in SUBSET Nat
    BY <1>1
  <2>2. 0..N \subseteq T
    <3> HIDE DEF T, Fits
    <3> QED
      BY <1>1, <1>5, <1>6, <2>1, StepByStep
  <2> HIDE DEF T
  <2>3. N \in T
    BY <1>1, <2>2
  <2> QED
    BY <2>3 DEF T
<1> DEFINE all == TakeAll(amount, pools)
           bps == (all.fee * ONE_IN_PIP) \div amount
<1>8. ~(all.left > 0) /\ BoostBps(amount, pools) = IF bps > 5 THEN bps ELSE 5
  BY Zenon DEF BoostBps
<1>9. all = acc[N] /\ N \in 0..N
  BY <1>1, <1>2
<1>10. all \in Taken
  BY <1>9
<1>11. all.left = 0 /\ all.fee \in Nat
  BY <1>8, <1>10 DEF Taken
<1>12. N # 0
  BY <1>2, <1>9, <1>11
<1>13. best[N] \in Nat /\ best[N] >= 5 /\ sum[N] >= amount /\ all.fee * 10000 <= best[N] * amount
  BY <1>3, <1>4, <1>7, <1>9, <1>11, <1>12
<1>14. bps \in Nat /\ bps <= best[N]
  <2> DEFINE p == all.fee * 10000
             c == best[N]
  <2>1. bps = p \div amount /\ p \in Nat /\ c \in Nat /\ p <= c * amount
    BY <1>11, <1>13 DEF ONE_IN_PIP
  <2> HIDE DEF p, c, bps
  <2>2. bps \in Nat /\ amount * bps <= p
    BY <2>1
  <2>3. amount * bps <= c * amount
    BY <2>1, <2>2
  <2>4. bps <= c
    BY <2>1, <2>2, <2>3
  <2> QED
    BY <2>2, <2>4 DEF c
<1> HIDE DEF bps, all
<1>15. BoostBps(amount, pools) \in Nat /\ BoostBps(amount, pools) >= 5 /\ BoostBps(amount, pools) <= best[N]
  BY <1>8, <1>13, <1>14
<1> QED
  BY <1>3, <1>4, <1>13, <1>15 DEF values

-----------------------------------------------------------------------------
(* The quote: its inductive invariant.                                     *)

CachesFit ==
  /\ market \in 1..Len(Markets) /\ cache \in [Keys -> 0..market]
  /\ \A k \in Keys : cache[k] = 0 => k \in failed

\* What waits is of a kind for which the request has the parameters.
Waits(k) == (IsDca(k) => params.dca # None) /\ (IsBoosted(k) => params.boost # None)

RequestFits ==
  /\ request \in Requests /\ cfg \in Configs
  /\ pc \in {"create", "params", "quotes", "eager", "done"}
  /\ params = [dca |-> params.dca, boost |-> params.boost, maxBoost |-> params.maxBoost,
               regular |-> params.regular, dcaOrders |-> params.dcaOrders]
  /\ rate = [k \in Kinds |-> rate[k]] /\ quote = [k \in Kinds |-> quote[k]]
  /\ \A k \in Kinds : quote[k] # None => Waits(k)
  /\ pc \in {"create", "params"} => \A k \in Kinds : rate[k] = None /\ quote[k] = None
  /\ pc = "quotes" => \A k \in Kinds \cap todo : Waits(k)

\* The parameters of DCA are those of a price that was.
DcaFits == params.dca # None =>
  \E i \in 1..market : params.dca = DcaParams(request.amount, request.amount * Markets[i].usd[request.src], cfg)

\* A boost is a number, of pools that cover the deposit.
BoostFits == (params.boost # None => params.boost \in Nat) /\ BoostCovered

Rates == [ingress : Int, intermediate : Int \cup {None}, egress : Int, network : Int, egressFee : Int]

RatesFit == pc = "quotes" => \A k \in Kinds \cap todo : rate[k] \in Rates \cup {None}

\* The durations of the chunks are in it.
Settled == pc = "eager" \/ (pc = "done" /\ answer.why \in {None, "liquidity", "lookup"})

ExtraOf(k) == IF Settled /\ IsDca(k) THEN params.dca.extra ELSE 0

PartsFit(req, g, extra, k, q) ==
  LET d == Durations(req.src, req.dest, IsBoosted(k), req.onChain, g)
  IN  /\ q = [egress |-> q.egress, warning |-> q.warning, intermediate |-> q.intermediate,
              slippage |-> q.slippage, live |-> LivePriceSlippage(req.src, req.dest, g),
              durations |-> [swap |-> d.swap + extra, deposit |-> d.deposit, egress |-> d.egress],
              total |-> TotalOf(d) + extra]
      /\ q.egress \in Int /\ q.egress > 0 /\ (req.onChain \/ q.egress >= g.minEgress)

QuotesFit == \A k \in Kinds : HasQuote(k) => PartsFit(request, cfg, ExtraOf(k), k, quote[k])

Covered(k) ==
  \A leg \in Legs(request.src, request.dest) : \E i, j, n \in 1..market :
    TotalLiquidity(i, j, n, k, leg) > LegOut(quote[k], leg)

EagerFits ==
  /\ eager # None => pc \in {"eager", "done"} /\ HasQuote("dca")
  /\ eager = "v2" => ~cfg.disableLpp
  /\ eager \notin {None, "v2"} => Covered("dca")

AnswerFits ==
  /\ pc = "done" <=> answer # None
  /\ pc = "done" =>
       /\ answer.offers \subseteq {"regular", "dca"} /\ answer.why \in WhyNots \cup {None}
       /\ (answer.offers = {}) <=> (answer.why # None)
       /\ \A k \in answer.offers : HasQuote(k)
       /\ "regular" \in answer.offers => Covered("regular")
       /\ "dca" \in answer.offers => eager # None
       /\ ~Settled => ~HasQuote("dca")

QuoteInv ==
  /\ CachesFit /\ RequestFits /\ DcaFits /\ BoostFits /\ RatesFit /\ QuotesFit /\ EagerFits /\ AnswerFits
  /\ RegularWithheldOnlyByDca /\ PriceStopsOnlyTwoLegs

-----------------------------------------------------------------------------
(* Caches.                                                                 *)

LEMMA LookupFits ==
  ASSUME CachesFit, NEW keys \in SUBSET Keys, NEW c \in Lookup(keys)
  PROVE  c \in [Keys -> 0..market] /\ \A k \in Keys : c[k] = 0 => k \in keys \/ k \in failed
<1>1. PICK bad \in SUBSET keys, new \in SUBSET keys :
        c = [k \in Keys |-> IF k \in bad THEN 0 ELSE IF k \in new THEN market ELSE cache[k]]
  <2> DEFINE B == {b \in SUBSET keys : Cardinality(failed \cup b) <= MaxFailures}
             at(bad, new) == [k \in Keys |-> IF k \in bad THEN 0 ELSE IF k \in new THEN market ELSE cache[k]]
  <2>1. c \in {at(bad, new) : bad \in B, new \in SUBSET keys}
    BY DEF Lookup
  <2>2. B \subseteq SUBSET keys
    OBVIOUS
  <2> HIDE DEF B, at
  <2>3. PICK bad \in B, new \in SUBSET keys : c = at(bad, new)
    BY <2>1
  <2> QED
    BY <2>2, <2>3 DEF at
<1>2. market \in Nat \ {0} /\ cache \in [Keys -> 0..market] /\ \A k \in Keys : cache[k] = 0 => k \in failed
  BY DEF CachesFit
<1> QED
  BY <1>1, <1>2

LEMMA ReadFits ==
  ASSUME CachesFit, market' = market, NEW keys \in SUBSET Keys, NEW c, c \in [Keys -> 0..market],
         \A k \in Keys : c[k] = 0 => k \in keys \/ k \in failed, Read(keys, c)
  PROVE  CachesFit'
BY DEF CachesFit, Read

LEMMA CachesStay ==
  ASSUME CachesFit, UNCHANGED <<market, cache>>, failed \subseteq failed'
  PROVE  CachesFit'
BY DEF CachesFit

\* The positions a leg is looked up at.
LEMMA KeysOfLegs ==
  ASSUME QuoteAssumption, RequestFits
  PROVE  /\ LiquidityKeys \in SUBSET Keys /\ Prices \notin LiquidityKeys
         /\ \A leg \in Legs(request.src, request.dest) :
              <<"deployed", BaseOf(leg)>> \in LiquidityKeys /\ <<"undeployed", leg[2]>> \in LiquidityKeys
<1>1. request.src \in Quoted /\ request.dest \in Quoted
  BY DEF RequestFits, QuoteAssumption
<1>2. \A leg \in Legs(request.src, request.dest) : BaseOf(leg) \in Quoted /\ leg[2] \in Quoted
  BY <1>1 DEF Legs, BaseOf, Quoted
<1>3. \A x : <<"deployed", x>> # Prices /\ <<"undeployed", x>> # Prices
  BY DEF Prices
<1> QED
  BY <1>2, <1>3 DEF LiquidityKeys, Keys

-----------------------------------------------------------------------------
(* Before there is an answer.                                              *)

LEMMA NoAnswerYet == ASSUME QuoteInv, pc # "done" PROVE answer = None
BY DEF QuoteInv, AnswerFits

LEMMA Unfinished ==
  ASSUME pc' # "done", answer' = None
  PROVE  AnswerFits' /\ RegularWithheldOnlyByDca' /\ PriceStopsOnlyTwoLegs'
BY DEF AnswerFits, RegularWithheldOnlyByDca, PriceStopsOnlyTwoLegs

LEMMA NotEagerYet == ASSUME QuoteInv, pc \in {"create", "params", "quotes"} PROVE eager = None
BY DEF QuoteInv, EagerFits

\* An answer is not taken for a missing one.
LEMMA AnswerIs ==
  ASSUME QuoteAssumption, NEW offers \in SUBSET {"regular", "dca"}, NEW why \in WhyNots \cup {None},
         Answer(offers, why)
  PROVE  pc' = "done" /\ answer' # None /\ answer'.offers = offers /\ answer'.why = why
<1> DEFINE is == [offers |-> offers, why |-> why]
<1>1. pc' = "done" /\ answer' = is
  BY DEF Answer
<1>2. is \in [offers : SUBSET {"regular", "dca"}, why : WhyNots \cup {None}]
  OBVIOUS
<1>3. is # None
  BY <1>2 DEF QuoteAssumption
<1> QED
  BY <1>1, <1>3

LEMMA WhyNotIs ==
  ASSUME QuoteAssumption
  PROVE  None \notin WhyNots /\ None \notin Int /\ None # "v2"
BY DEF QuoteAssumption

\* While there are no quotes a request goes on or is refused.
LEMMA ParamsMove ==
  ASSUME QuoteAssumption, QuoteInv, pc \in {"create", "params"},
         UNCHANGED <<market, request, cfg, rate, quote, eager>>,
         CachesFit', DcaFits', BoostFits',
         params' = [dca |-> params'.dca, boost |-> params'.boost, maxBoost |-> params'.maxBoost,
                    regular |-> params'.regular, dcaOrders |-> params'.dcaOrders],
         \/ pc' \in {"create", "params"} /\ answer' = answer
         \/ \E why \in {"amount", "pools", "boost", "orders"} :
              /\ Answer({}, why)
              /\ why = "boost" => failed' # {Prices}
              /\ why = "orders" => ~OneLeg(request.src, request.dest)
  PROVE  QuoteInv'
<1>1. \A k \in Kinds : rate[k] = None /\ quote[k] = None
  BY DEF QuoteInv, RequestFits
<1>2. \A k \in Kinds : ~HasQuote(k)'
  BY <1>1 DEF HasQuote
<1>3. eager' = None
  BY NotEagerYet
<1>4. pc' \in {"create", "params", "done"}
  BY DEF Answer
<1>5. RequestFits'
  BY <1>1, <1>4 DEF QuoteInv, RequestFits
<1>6. RatesFit' /\ QuotesFit' /\ EagerFits'
  BY <1>2, <1>3, <1>4 DEF RatesFit, QuotesFit, EagerFits
<1>7. AnswerFits' /\ RegularWithheldOnlyByDca' /\ PriceStopsOnlyTwoLegs'
  <2>1. CASE pc' \in {"create", "params"} /\ answer' = answer
    BY <2>1, NoAnswerYet, Unfinished
  <2>2. CASE \E why \in {"amount", "pools", "boost", "orders"} :
               /\ Answer({}, why)
               /\ why = "boost" => failed' # {Prices}
               /\ why = "orders" => ~OneLeg(request.src, request.dest)
    <3>1. PICK why \in {"amount", "pools", "boost", "orders"} :
               /\ Answer({}, why)
               /\ why = "boost" => failed' # {Prices}
               /\ why = "orders" => ~OneLeg(request.src, request.dest)
      BY <2>2
    <3>2. why \in WhyNots
      BY <3>1 DEF WhyNots
    <3>3. pc' = "done" /\ answer' # None /\ answer'.offers = {} /\ answer'.why = why
      BY <3>1, <3>2, AnswerIs
    <3>4. why # None
      BY <3>2, WhyNotIs
    <3>5. "regular" \in Kinds /\ "dca" \in Kinds
      BY DEF Kinds
    <3>6. AnswerFits'
      BY <1>2, <3>2, <3>3, <3>4, <3>5 DEF AnswerFits
    <3>7. RegularWithheldOnlyByDca'
      BY <1>2, <3>5 DEF RegularWithheldOnlyByDca
    <3>8. PriceStopsOnlyTwoLegs'
      BY <3>1, <3>3 DEF PriceStopsOnlyTwoLegs
    <3> QED
      BY <3>6, <3>7, <3>8
  <2> QED
    BY <2>1, <2>2
<1> QED
  BY <1>5, <1>6, <1>7 DEF QuoteInv

\* What was true of a moment that was stays true.
LEMMA DcaStays ==
  ASSUME DcaFits, market \in Nat, market' \in Nat, market <= market', UNCHANGED <<request, cfg>>,
         params'.dca = params.dca
  PROVE  DcaFits'
<1> SUFFICES ASSUME params'.dca # None
    PROVE  \E i \in 1..market' : params'.dca = DcaParams(request.amount, request.amount * Markets[i].usd[request.src], cfg)
  BY DEF DcaFits
<1>1. PICK i \in 1..market : params.dca = DcaParams(request.amount, request.amount * Markets[i].usd[request.src], cfg)
  BY DEF DcaFits
<1>2. i \in 1..market'
  OBVIOUS
<1> QED
  BY <1>1, <1>2

LEMMA BoostStays ==
  ASSUME BoostFits, market \in Nat, market' \in Nat, market <= market', UNCHANGED request,
         params'.boost = params.boost, params'.maxBoost = params.maxBoost
  PROVE  BoostFits'
<1>1. 1..market \subseteq 1..market'
  OBVIOUS
<1> QED
  BY <1>1 DEF BoostFits, BoostCovered

LEMMA CreateKeeps == ASSUME QuoteAssumption, QuoteInv, Create PROVE QuoteInv'
<1>1. /\ pc = "create" /\ UNCHANGED <<market, cache, request, cfg, params, rate, quote, eager>>
      /\ failed \subseteq failed'
  BY DEF Create
<1>2. CachesFit'
  BY <1>1, CachesStay DEF QuoteInv
<1>3. DcaFits' /\ BoostFits'
  BY <1>1, DcaStays, BoostStays DEF QuoteInv, CachesFit
<1>4. \/ pc' = "params" /\ answer' = answer
      \/ \E why \in {"amount", "pools"} : Answer({}, why)
  BY DEF Create
<1>5. \/ pc' \in {"create", "params"} /\ answer' = answer
      \/ \E why \in {"amount", "pools", "boost", "orders"} :
           /\ Answer({}, why)
           /\ why = "boost" => failed' # {Prices}
           /\ why = "orders" => ~OneLeg(request.src, request.dest)
  BY <1>4
<1>6. params' = [dca |-> params'.dca, boost |-> params'.boost, maxBoost |-> params'.maxBoost,
                 regular |-> params'.regular, dcaOrders |-> params'.dcaOrders]
  BY <1>1 DEF QuoteInv, RequestFits
<1> QED
  BY <1>1, <1>2, <1>3, <1>5, <1>6, ParamsMove

LEMMA BoostPoolsAre ==
  ASSUME NEW m, NEW l, IsMarket(m), IsMarket(l)
  PROVE  BoostPools([boost |-> m.boost, supply |-> l.supply]) \in Seq(PoolsToBoost)
<1> DEFINE boost == m.boost
           supply == l.supply
           last == [i \in DOMAIN supply |-> [tier |-> SupplyPoolBps, available |-> supply[i]]]
<1>1. boost \in Seq(PoolsToBoost) /\ supply \in Seq(Nat)
  BY DEF IsMarket, PoolsToBoost, Tiers
<1> HIDE DEF boost, supply
<1>2. Len(supply) \in Nat /\ DOMAIN supply = 1..Len(supply) /\ \A i \in 1..Len(supply) : supply[i] \in Nat
  BY <1>1
<1>3. \A i \in 1..Len(supply) : [tier |-> SupplyPoolBps, available |-> supply[i]] \in PoolsToBoost
  BY <1>2 DEF PoolsToBoost, Tiers, SupplyPoolBps
<1>4. last \in [1..Len(supply) -> PoolsToBoost]
  BY <1>2, <1>3
<1> HIDE DEF last
<1>5. last \in Seq(PoolsToBoost)
  BY <1>2, <1>4
<1>6. boost \o last \in Seq(PoolsToBoost)
  BY <1>1, <1>5
<1> QED
  BY <1>6 DEF BoostPools, boost, supply, last

LEMMA BoostKeeps == ASSUME QuoteAssumption, QuoteInv, SetBoostQuoteParams PROVE QuoteInv'
<1> DEFINE flag == <<"flags", "all">>
           keys == IF request.src = "Btc" THEN BoostKeys ELSE {flag}
<1>1. pc = "params" /\ UNCHANGED <<market, request, cfg, rate, quote, eager>>
  BY DEF SetBoostQuoteParams, Fetching
<1>2. /\ BoostKeys \in SUBSET Keys /\ flag \in BoostKeys /\ Prices \notin BoostKeys
      /\ keys \in SUBSET Keys /\ keys \subseteq BoostKeys /\ flag \in keys
  BY DEF BoostKeys, Keys, Prices
<1>3. params = [dca |-> params.dca, boost |-> params.boost, maxBoost |-> params.maxBoost,
                regular |-> params.regular, dcaOrders |-> params.dcaOrders]
  BY DEF QuoteInv, RequestFits
<1>4. PICK c \in Lookup(keys) :
       LET flags == c[<<"flags", "all">>]
           enabled == flags # 0 => Markets[flags].boostEnabled
           pools == BoostPools([boost |-> Markets[c[<<"boost", "Btc">>]].boost,
                                supply |-> Markets[c[<<"supply", "Btc">>]].supply])
       IN  IF enabled /\ request.src = "Btc"
           THEN /\ Read(BoostKeys, c)
                /\ IF Lost(BoostKeys \ {<<"flags", "all">>}, c)
                   THEN Answer({}, "boost") /\ UNCHANGED params
                   ELSE /\ params' = [params EXCEPT !.boost = BoostBps(request.amount, pools),
                                                    !.maxBoost = MaxBoostBps(pools)]
                        /\ Fetched("boost")
           ELSE /\ Read({<<"flags", "all">>}, [cache EXCEPT ![<<"flags", "all">>] = flags])
                /\ Fetched("boost") /\ UNCHANGED params
  BY DEF SetBoostQuoteParams
<1>5. c \in [Keys -> 0..market] /\ \A k \in Keys : c[k] = 0 => k \in keys \/ k \in failed
  BY <1>2, LookupFits DEF QuoteInv
<1>6. /\ params' = [dca |-> params'.dca, boost |-> params'.boost, maxBoost |-> params'.maxBoost,
                    regular |-> params'.regular, dcaOrders |-> params'.dcaOrders]
      /\ params'.dca = params.dca
  BY <1>3, <1>4
<1>7. DcaFits' /\ market \in Nat
  BY <1>1, <1>6, DcaStays DEF QuoteInv, CachesFit
<1> DEFINE boost == c[<<"boost", "Btc">>]
           supply == c[<<"supply", "Btc">>]
           pools == BoostPools([boost |-> Markets[boost].boost, supply |-> Markets[supply].supply])
<1>8. UNCHANGED params => BoostFits'
  BY <1>1, <1>7, BoostStays DEF QuoteInv
<1>9. CASE Read(BoostKeys, c) /\ Lost(BoostKeys \ {flag}, c) /\ Answer({}, "boost") /\ UNCHANGED params
  <2>1. CachesFit'
    BY <1>1, <1>2, <1>5, <1>9, ReadFits DEF QuoteInv
  <2>2. failed' # {Prices}
    BY <1>2, <1>9 DEF Lost, Read
  <2> QED
    BY <1>1, <1>6, <1>7, <1>9, <1>8, <2>1, <2>2, ParamsMove
<1>10. CASE /\ Read(BoostKeys, c) /\ Fetched("boost") /\ ~Lost(BoostKeys \ {flag}, c)
           /\ params' = [params EXCEPT !.boost = BoostBps(request.amount, pools), !.maxBoost = MaxBoostBps(pools)]
  <2>1. CachesFit'
    BY <1>1, <1>2, <1>5, <1>10, ReadFits DEF QuoteInv
  <2>2. boost \in 1..market /\ supply \in 1..market
    <3>1. <<"boost", "Btc">> \in BoostKeys \ {flag} /\ <<"supply", "Btc">> \in BoostKeys \ {flag}
      BY DEF BoostKeys
    <3>2. boost \in 0..market /\ supply \in 0..market
      BY <1>2, <1>5, <3>1
    <3>3. boost # 0 /\ supply # 0
      BY <1>10, <3>1 DEF Lost
    <3> QED
      BY <1>7, <3>2, <3>3
  <2> HIDE DEF boost, supply
  <2>3. IsMarket(Markets[boost]) /\ IsMarket(Markets[supply])
    <3>1. market \in 1..Len(Markets) /\ Len(Markets) \in Nat
      BY DEF QuoteInv, CachesFit, QuoteAssumption
    <3>2. boost \in 1..Len(Markets) /\ supply \in 1..Len(Markets)
      BY <2>2, <3>1
    <3> QED
      BY <3>2 DEF QuoteAssumption
  <2>4. pools \in Seq(PoolsToBoost)
    BY <2>3, BoostPoolsAre
  <2>5. request.amount \in Nat \ {0}
    BY DEF QuoteInv, RequestFits, QuoteAssumption
  <2>6. params'.boost = BoostBps(request.amount, pools) /\ params'.maxBoost = MaxBoostBps(pools)
    BY <1>3, <1>10
  <2>7. BoostFits'
    <3> SUFFICES ASSUME params'.boost # None PROVE BoostFits'
      BY DEF BoostFits, BoostCovered
    <3>1. /\ params'.boost \in Nat /\ params'.boost >= 5 /\ params'.boost <= params'.maxBoost
          /\ SumOf([p \in DOMAIN pools |-> pools[p].available]) >= request.amount
      BY <2>4, <2>5, <2>6, BoostBpsIs
    <3> QED
      BY <1>1, <2>2, <3>1 DEF BoostFits, BoostCovered
  <2>8. pc' = pc /\ answer' = answer
    BY <1>10 DEF Fetched
  <2> QED
    BY <1>1, <1>6, <1>7, <2>1, <2>7, <2>8, ParamsMove
<1>11. CASE Read({flag}, [cache EXCEPT ![flag] = c[flag]]) /\ Fetched("boost") /\ UNCHANGED params
  <2> DEFINE d == [cache EXCEPT ![flag] = c[flag]]
  <2>1. d \in [Keys -> 0..market] /\ \A k \in Keys : d[k] = 0 => k \in {flag} \/ k \in failed
    BY <1>2, <1>5 DEF QuoteInv, CachesFit
  <2>2. Read({flag}, d) /\ {flag} \in SUBSET Keys
    BY <1>2, <1>11
  <2> HIDE DEF d, flag
  <2>3. CachesFit'
    BY <1>1, <2>1, <2>2, ReadFits DEF QuoteInv
  <2> QED
    BY <1>1, <1>6, <1>7, <1>11, <1>8, <2>3, ParamsMove DEF Fetched
<1> HIDE DEF keys
<1> QED
  BY <1>4, <1>9, <1>10, <1>11

LEMMA DcaKeeps == ASSUME QuoteAssumption, QuoteInv, SetDcaQuoteParams PROVE QuoteInv'
<1>1. /\ pc = "params" /\ UNCHANGED <<market, request, cfg, rate, quote, eager>>
      /\ pc' = pc /\ answer' = answer
  BY DEF SetDcaQuoteParams, Fetching
<1>2. PICK c \in Lookup({Prices}) :
        /\ Read({Prices}, c)
        /\ params' = [params EXCEPT !.dca = DcaParams(request.amount, UsdValue(c, request.src, request.amount), cfg)]
  BY DEF SetDcaQuoteParams
<1>3. {Prices} \in SUBSET Keys
  BY DEF Keys, Prices
<1>4. c \in [Keys -> 0..market] /\ \A k \in Keys : c[k] = 0 => k \in {Prices} \/ k \in failed
  BY <1>3, LookupFits DEF QuoteInv
<1>5. CachesFit'
  BY <1>1, <1>2, <1>3, <1>4, ReadFits DEF QuoteInv
<1>6. params = [dca |-> params.dca, boost |-> params.boost, maxBoost |-> params.maxBoost,
                regular |-> params.regular, dcaOrders |-> params.dcaOrders]
  BY DEF QuoteInv, RequestFits
<1>7. /\ params' = [dca |-> params'.dca, boost |-> params'.boost, maxBoost |-> params'.maxBoost,
                    regular |-> params'.regular, dcaOrders |-> params'.dcaOrders]
      /\ params'.dca = DcaParams(request.amount, UsdValue(c, request.src, request.amount), cfg)
      /\ params'.boost = params.boost /\ params'.maxBoost = params.maxBoost
  BY <1>2, <1>6
<1>8. BoostFits'
  BY <1>1, <1>7, BoostStays DEF QuoteInv, CachesFit
<1>9. DcaFits'
  <2>1. CASE c[Prices] = 0
    <3>1. params'.dca = None
      BY <1>7, <2>1 DEF UsdValue, DcaParams
    <3> QED
      BY <3>1 DEF DcaFits
  <2>2. CASE c[Prices] # 0
    <3>1. c[Prices] \in 1..market
      BY <1>3, <1>4, <2>2 DEF QuoteInv, CachesFit
    <3>2. params'.dca = DcaParams(request.amount, request.amount * Markets[c[Prices]].usd[request.src], cfg)
      BY <1>7, <2>2 DEF UsdValue
    <3> QED
      BY <1>1, <3>1, <3>2 DEF DcaFits
  <2> QED
    BY <2>1, <2>2
<1> QED
  BY <1>1, <1>5, <1>7, <1>9, <1>8, ParamsMove

LEMMA LimitOrdersKeep ==
  ASSUME QuoteAssumption, QuoteInv, NEW task \in {"orders", "dcaOrders"}, SetLimitOrders(task) PROVE QuoteInv'
<1>1. pc = "params" /\ UNCHANGED <<market, request, cfg, rate, quote, eager>>
  BY DEF SetLimitOrders, Fetching
<1>2. PICK c \in Lookup(Approximates) :
        /\ Read(Approximates, c)
        /\ IF Lost(Approximates, c)
           THEN Answer({}, "orders") /\ UNCHANGED params
           ELSE /\ \E n \in Markets[market].makers :
                     params' = [params EXCEPT ![IF task = "orders" THEN "regular" ELSE task] = n]
                /\ Fetched(task)
  BY DEF SetLimitOrders
<1>3. Approximates \in SUBSET Keys
  BY DEF Approximates, Keys, Prices
<1>4. c \in [Keys -> 0..market] /\ \A k \in Keys : c[k] = 0 => k \in Approximates \/ k \in failed
  BY <1>3, LookupFits DEF QuoteInv
<1>5. CachesFit'
  BY <1>1, <1>2, <1>3, <1>4, ReadFits DEF QuoteInv
<1>6. params = [dca |-> params.dca, boost |-> params.boost, maxBoost |-> params.maxBoost,
                regular |-> params.regular, dcaOrders |-> params.dcaOrders]
  BY DEF QuoteInv, RequestFits
<1>7. /\ params' = [dca |-> params'.dca, boost |-> params'.boost, maxBoost |-> params'.maxBoost,
                    regular |-> params'.regular, dcaOrders |-> params'.dcaOrders]
      /\ params'.dca = params.dca /\ params'.boost = params.boost /\ params'.maxBoost = params.maxBoost
  <2>1. CASE UNCHANGED params
    BY <1>6, <2>1
  <2>2. CASE \E n \in Markets[market].makers :
                params' = [params EXCEPT ![IF task = "orders" THEN "regular" ELSE task] = n]
    BY <1>6, <2>2
  <2> QED
    BY <1>2, <2>1, <2>2
<1>8. DcaFits' /\ BoostFits'
  BY <1>1, <1>7, DcaStays, BoostStays DEF QuoteInv, CachesFit
<1>9. CASE Lost(Approximates, c)
  <2>1. ~OneLeg(request.src, request.dest)
    BY <1>9 DEF Lost, Approximates
  <2>2. Answer({}, "orders")
    BY <1>2, <1>9
  <2> QED
    BY <1>1, <1>5, <1>7, <1>8, <2>1, <2>2, ParamsMove
<1>10. CASE ~Lost(Approximates, c)
  <2>1. pc' = pc /\ answer' = answer
    BY <1>2, <1>10 DEF Fetched
  <2> QED
    BY <1>1, <1>5, <1>7, <1>8, <2>1, ParamsMove
<1> QED
  BY <1>9, <1>10

LEMMA GenerateKeeps == ASSUME QuoteAssumption, QuoteInv, Generate PROVE QuoteInv'
<1>1. /\ pc = "params" /\ pc' = "quotes"
      /\ todo' = {k \in Kinds : Waits(k)}
      /\ UNCHANGED <<market, cache, failed, request, cfg, params, rate, quote, eager, answer>>
  BY DEF Generate, Waits
<1>2. \A k \in Kinds : rate[k] = None /\ quote[k] = None
  BY <1>1 DEF QuoteInv, RequestFits
<1>3. \A k \in Kinds : ~HasQuote(k)'
  BY <1>1, <1>2 DEF HasQuote
<1>4. eager' = None
  BY <1>1, NotEagerYet
<1>5. CachesFit'
  BY <1>1, CachesStay DEF QuoteInv
<1>6. DcaFits' /\ BoostFits'
  BY <1>1, DcaStays, BoostStays DEF QuoteInv, CachesFit
<1>7. RequestFits'
  BY <1>1, <1>2 DEF QuoteInv, RequestFits, Waits
<1>8. RatesFit'
  BY <1>1, <1>2 DEF RatesFit, Kinds
<1>9. QuotesFit' /\ EagerFits'
  BY <1>3, <1>4 DEF QuotesFit, EagerFits
<1>10. AnswerFits' /\ RegularWithheldOnlyByDca' /\ PriceStopsOnlyTwoLegs'
  BY <1>1, NoAnswerYet, Unfinished
<1> QED
  BY <1>5, <1>6, <1>7, <1>8, <1>9, <1>10 DEF QuoteInv

LEMMA QuotesStay ==
  ASSUME QuotesFit, UNCHANGED <<request, cfg, params, quote>>, Settled' <=> Settled
  PROVE  QuotesFit'
<1>1. \A k \in Kinds : ExtraOf(k)' = ExtraOf(k)
  BY DEF ExtraOf
<1> QED
  BY <1>1 DEF QuotesFit, HasQuote

LEMMA CoveredStays ==
  ASSUME NEW k \in Kinds, Covered(k), UNCHANGED <<request, cfg, quote>>,
         market \in Nat, market' \in Nat, market <= market'
  PROVE  Covered(k)'
<1>1. 1..market \subseteq 1..market'
  OBVIOUS
<1>2. \A leg : LegOut(quote[k], leg)' = LegOut(quote[k], leg)
  BY DEF LegOut
<1>3. \A i, j, n, leg : TotalLiquidity(i, j, n, k, leg)' = TotalLiquidity(i, j, n, k, leg)
  BY DEF TotalLiquidity
<1> QED
  BY <1>1, <1>2, <1>3 DEF Covered

LEMMA MoveKeeps == ASSUME QuoteAssumption, QuoteInv, Move PROVE QuoteInv'
<1>1. /\ pc # "done" /\ market' = market + 1 /\ market \in Nat /\ market < Len(Markets) /\ Len(Markets) \in Nat
      /\ UNCHANGED <<cache, failed, request, cfg, pc, todo, params, rate, quote, eager, answer>>
  BY DEF Move, QuoteInv, CachesFit, QuoteAssumption
<1>2. CachesFit'
  <2>1. cache \in [Keys -> 0..market]
    BY DEF QuoteInv, CachesFit
  <2>2. cache' \in [Keys -> 0..market'] /\ market' \in 1..Len(Markets)
    BY <1>1, <2>1
  <2> QED
    BY <1>1, <2>2 DEF QuoteInv, CachesFit
<1>3. DcaFits' /\ BoostFits'
  BY <1>1, DcaStays, BoostStays DEF QuoteInv
<1>4. RequestFits' /\ RatesFit'
  BY <1>1 DEF QuoteInv, RequestFits, RatesFit, Waits
<1>5. QuotesFit'
  <2>1. Settled' <=> Settled
    BY <1>1 DEF Settled
  <2> QED
    BY <1>1, <2>1, QuotesStay DEF QuoteInv
<1>6. EagerFits'
  <2>1. Covered("dca") => Covered("dca")'
    BY <1>1, CoveredStays DEF Kinds
  <2> QED
    BY <1>1, <2>1 DEF QuoteInv, EagerFits, HasQuote
<1>7. AnswerFits' /\ RegularWithheldOnlyByDca' /\ PriceStopsOnlyTwoLegs'
  BY <1>1, NoAnswerYet, Unfinished
<1> QED
  BY <1>2, <1>3, <1>4, <1>5, <1>6, <1>7 DEF QuoteInv

LEMMA RequestStays == ASSUME QuoteInv, UNCHANGED vars PROVE QuoteInv'
<1>1. /\ UNCHANGED <<market, cache, failed, request, cfg, pc, todo, params, rate, quote, eager, answer>>
      /\ market \in Nat /\ market <= market
  BY DEF vars, QuoteInv, CachesFit
<1>2. CachesFit' /\ DcaFits' /\ RequestFits' /\ RatesFit'
  BY <1>1 DEF QuoteInv, CachesFit, DcaFits, RequestFits, RatesFit, Waits
<1>3. QuotesFit'
  <2>1. Settled' <=> Settled
    BY <1>1 DEF Settled
  <2> QED
    BY <1>1, <2>1, QuotesStay DEF QuoteInv
<1>4. \A k \in Kinds : Covered(k) => Covered(k)'
  BY <1>1, CoveredStays
<1>5. "dca" \in Kinds /\ "regular" \in Kinds
  BY DEF Kinds
<1>6. EagerFits'
  BY <1>1, <1>4, <1>5 DEF QuoteInv, EagerFits, HasQuote
<1>7. AnswerFits'
  BY <1>1, <1>4, <1>5 DEF QuoteInv, AnswerFits, HasQuote, Settled
<1>8. RegularWithheldOnlyByDca' /\ PriceStopsOnlyTwoLegs'
  BY <1>1 DEF QuoteInv, RegularWithheldOnlyByDca, PriceStopsOnlyTwoLegs, HasQuote, TotalLiquidity, LegOut
<1>9. BoostFits'
  BY <1>1, BoostStays DEF QuoteInv
<1> QED
  BY <1>2, <1>3, <1>6, <1>7, <1>8, <1>9 DEF QuoteInv

-----------------------------------------------------------------------------
(* The numbers.                                                            *)

LEMMA Divides ==
  ASSUME NEW x \in Int, NEW d \in Nat \ {0}
  PROVE  x \div d \in Int /\ d * (x \div d) <= x /\ x < d * (x \div d) + d
OBVIOUS

LEMMA PipAmountIsInt == ASSUME NEW a \in Int, NEW b \in Int PROVE PipAmount(a, b) \in Int
<1> DEFINE p == a * b
<1>1. p \in Int
  OBVIOUS
<1> HIDE DEF p
<1>2. p \div 10000 \in Int /\ -((-p) \div 10000) \in Int
  BY <1>1
<1> QED
  BY <1>2 DEF PipAmount, Cut, ONE_IN_PIP, p

\* What DCA splits into, of a deposit and its value.
LEMMA DcaParamsAre ==
  ASSUME QuoteAssumption, NEW g \in Configs, NEW amount \in Nat, NEW usd \in Nat,
         DcaParams(amount, usd, g) # None
  PROVE  LET dca == DcaParams(amount, usd, g)
             gap == dca.chunks * dca.chunkSize - amount
         IN  /\ dca.chunks \in 2..g.maxChunks /\ dca.extra \in Nat
             /\ 2 * gap <= dca.chunks /\ -2 * gap <= dca.chunks
             /\ usd <= dca.chunks * g.chunkUsd /\ usd > (dca.chunks - 1) * g.chunkUsd
<1> DEFINE c == g.chunkUsd
           n == ChunksOf(usd, c)
           x == usd + c - 1
<1>1. c \in Nat \ {0} /\ g.maxChunks \in Nat /\ g.interval \in Nat
  BY DEF QuoteAssumption
<1>2. /\ DcaParams(amount, usd, g) = [chunks |-> n, chunkSize |-> HalfUp(amount, n),
                                      extra |-> g.interval * BlockSeconds * (n - 1)]
      /\ ~(usd <= c) /\ ~(n > g.maxChunks)
  <2>1. ~(usd = None \/ g.disableDca) /\ ~(usd <= c \/ n > g.maxChunks)
    BY Zenon DEF DcaParams
  <2> QED
    BY <2>1, Zenon DEF DcaParams
<1>3. n = x \div c /\ x \in Int
  BY <1>1 DEF ChunksOf, CeilDiv
<1> HIDE DEF c
<1> HIDE DEF n, x
<1>4. n \in Int /\ c * n <= x /\ x < c * n + c
  BY <1>1, <1>3, Divides
<1> DEFINE p == c * n
<1>5. p \in Int /\ n * c = p /\ (n - 1) * c = p - c
  BY <1>1, <1>4
<1>6. n \in 2..g.maxChunks
  <2>1. usd > c /\ n <= g.maxChunks
    BY <1>1, <1>2, <1>4
  <2>2. CASE n <= 1
    <3>1. p <= c /\ p \in Int
      BY <1>1, <1>4, <2>2
    <3>2. x < p + c
      BY <1>4
    <3>3. usd + c - 1 < p + c
      BY <3>2 DEF x
    <3> HIDE DEF p
    <3>4. usd <= c
      BY ONLY <1>1, <3>1, <3>3, usd \in Nat
    <3> QED
      BY ONLY <1>1, <2>1, <3>4, usd \in Nat
  <2> QED
    BY <1>1, <1>4, <2>1, <2>2
<1>7. usd <= n * c /\ usd > (n - 1) * c
  <2> HIDE DEF p
  <2>1. p <= usd + c - 1 /\ usd + c - 1 < p + c
    BY <1>4 DEF x, p
  <2> QED
    BY <1>1, <1>5, <2>1
<1>8. n \in Nat \ {0}
  BY <1>6
<1> DEFINE s == HalfUp(amount, n)
<1>9. 2 * (n * s - amount) <= n /\ -2 * (n * s - amount) <= n
  <2> DEFINE d == 2 * n
             y == 2 * amount + n
  <2>1. s = y \div d /\ y \in Int /\ d \in Nat \ {0}
    BY <1>8 DEF HalfUp
  <2> HIDE DEF d, y, s
  <2>2. s \in Int /\ d * s <= y /\ y < d * s + d
    BY <2>1, Divides
  <2> DEFINE w == n * s
  <2>3. w \in Int /\ d * s = 2 * w
    BY <1>8, <2>2 DEF d
  <2> HIDE DEF w
  <2>4. 2 * w <= 2 * amount + n /\ 2 * amount + n < 2 * w + 2 * n
    BY <2>2, <2>3 DEF y, d
  <2>5. 2 * (w - amount) <= n /\ -2 * (w - amount) <= n
    BY <1>8, <2>3, <2>4
  <2> QED
    BY <2>5 DEF w
<1>10. g.interval * BlockSeconds * (n - 1) \in Nat
  <2> DEFINE i == g.interval * BlockSeconds
             j == n - 1
  <2>1. i \in Nat
    BY <1>1 DEF BlockSeconds
  <2>2. j \in Nat
    BY <1>8
  <2> HIDE DEF i, j
  <2>3. i * j \in Nat
    BY ONLY <2>1, <2>2
  <2> QED
    BY <2>3 DEF i, j
<1> HIDE DEF s
<1>11. DcaParams(amount, usd, g) = [chunks |-> n, chunkSize |-> s, extra |-> g.interval * BlockSeconds * (n - 1)]
  BY <1>2 DEF s
<1> QED
  BY <1>6, <1>7, <1>9, <1>10, <1>11 DEF c

LEMMA RequestIs ==
  ASSUME QuoteAssumption, QuoteInv
  PROVE  /\ request.src \in Quoted /\ request.dest \in Quoted /\ request.src # request.dest
         /\ request.amount \in Nat \ {0} /\ "Usdc" \in Quoted
         /\ {cfg.interval, cfg.ingressFee, cfg.egressFee, cfg.minEgress, cfg.tightLpp,
             cfg.boostDelay, cfg.ingressDelay} \subseteq Nat
         /\ cfg \in Configs /\ {cfg.impact, cfg.blockTime} \subseteq [Quoted -> Nat]
         /\ cfg.margin \in [Quoted -> Nat \cup {None}]
         /\ \A i \in 1..market, x \in Quoted : Markets[i].usd[x] \in Nat \ {0}
         /\ market \in Nat \ {0} /\ \A i \in 1..market : IsMarket(Markets[i])
<1>1. request \in Requests /\ cfg \in Configs /\ market \in 1..Len(Markets) /\ Len(Markets) \in Nat
  BY DEF QuoteInv, RequestFits, CachesFit, QuoteAssumption
<1>2. \A i \in 1..market : IsMarket(Markets[i])
  BY <1>1 DEF QuoteAssumption
<1>3. \A i \in 1..market, x \in Quoted : Markets[i].usd[x] \in Nat \ {0}
  BY <1>2 DEF IsMarket
<1>4. {cfg.interval, cfg.ingressFee, cfg.egressFee, cfg.minEgress, cfg.tightLpp,
       cfg.boostDelay, cfg.ingressDelay} \subseteq Nat
  BY <1>1 DEF QuoteAssumption
<1>5. {cfg.impact, cfg.blockTime} \subseteq [Quoted -> Nat] /\ cfg.margin \in [Quoted -> Nat \cup {None}]
  BY <1>1 DEF QuoteAssumption
<1>6. request.src \in Quoted /\ request.dest \in Quoted /\ request.src # request.dest /\ request.amount \in Nat \ {0}
  BY <1>1 DEF QuoteAssumption
<1>7. "Usdc" \in Quoted
  BY DEF Quoted
<1>8. market \in Nat \ {0}
  BY <1>1
<1> QED
  BY <1>1, <1>2, <1>3, <1>4, <1>5, <1>6, <1>7, <1>8, Zenon

\* The parameters of DCA, once there are any.
LEMMA DcaIs ==
  ASSUME QuoteAssumption, QuoteInv, params.dca # None
  PROVE  LET gap == params.dca.chunks * params.dca.chunkSize - request.amount
         IN  /\ params.dca.chunks \in 2..cfg.maxChunks /\ params.dca.extra \in Nat
             /\ 2 * gap <= params.dca.chunks /\ -2 * gap <= params.dca.chunks
             /\ \E i \in 1..market :
                  LET u == Markets[i].usd[request.src] * request.amount
                  IN  u <= params.dca.chunks * cfg.chunkUsd /\ u > (params.dca.chunks - 1) * cfg.chunkUsd
<1>1. PICK i \in 1..market :
        params.dca = DcaParams(request.amount, request.amount * Markets[i].usd[request.src], cfg)
  BY DEF QuoteInv, DcaFits
<1> DEFINE usd == request.amount * Markets[i].usd[request.src]
<1>2. request.amount \in Nat /\ cfg \in Configs /\ Markets[i].usd[request.src] \in Nat
  BY RequestIs
<1>3. usd \in Nat /\ usd = Markets[i].usd[request.src] * request.amount
  BY <1>2
<1> HIDE DEF usd
<1>4. params.dca = DcaParams(request.amount, usd, cfg)
  BY <1>1 DEF usd
<1>5. LET dca == params.dca
          gap == dca.chunks * dca.chunkSize - request.amount
      IN  /\ dca.chunks \in 2..cfg.maxChunks /\ dca.extra \in Nat
          /\ 2 * gap <= dca.chunks /\ -2 * gap <= dca.chunks
          /\ usd <= dca.chunks * cfg.chunkUsd /\ usd > (dca.chunks - 1) * cfg.chunkUsd
  BY <1>2, <1>3, <1>4, DcaParamsAre
<1> QED
  BY <1>3, <1>5

\* What the node swaps, one chunk at a time.
PriceNow == Markets[market].usd
Worth(src, dest, x) == (x * PriceNow[src]) \div PriceNow[dest]
Middle(k) == Worth(request.src, "Usdc", (InputOf(k) - IngressFee) \div ChunksOfQuote(k))
FinalLeg(k) == Worth("Usdc", request.dest, Middle(k) - Middle(k) \div 1000)

LEMMA ChunksAre ==
  ASSUME QuoteAssumption, QuoteInv, NEW k \in Kinds, Waits(k)
  PROVE  ChunksOfQuote(k) \in Nat \ {0} /\ (~IsDca(k) => ChunksOfQuote(k) = 1)
<1>1. CASE IsDca(k)
  <2>1. params.dca # None
    BY <1>1 DEF Waits
  <2>2. params.dca.chunks \in 2..cfg.maxChunks
    BY <2>1, DcaIs
  <2> QED
    BY <1>1, <2>2 DEF ChunksOfQuote
<1>2. CASE ~IsDca(k)
  BY <1>2 DEF ChunksOfQuote
<1> QED
  BY <1>1, <1>2

LEMMA InputIs ==
  ASSUME QuoteAssumption, QuoteInv, NEW k \in Kinds, Waits(k)
  PROVE  InputOf(k) \in Int
<1>1. request.amount \in Int
  BY RequestIs
<1>2. CASE IsBoosted(k)
  <2>1. params.boost \in Int
    BY <1>2 DEF Waits, QuoteInv, BoostFits
  <2>2. PipAmount(request.amount, params.boost) \in Int
    BY <1>1, <2>1, PipAmountIsInt
  <2> QED
    BY <1>1, <1>2, <2>2 DEF InputOf
<1>3. CASE ~IsBoosted(k)
  BY <1>1, <1>3 DEF InputOf
<1> QED
  BY <1>2, <1>3

LEMMA PricesAre ==
  ASSUME QuoteAssumption, QuoteInv
  PROVE  \A x \in Quoted : PriceNow[x] \in Nat \ {0}
<1>1. \A i \in 1..market, x \in Quoted : Markets[i].usd[x] \in Nat \ {0}
  BY RequestIs
<1>2. market \in Nat \ {0}
  BY RequestIs
<1>3. market \in 1..market
  BY ONLY <1>2
<1> QED
  BY <1>1, <1>3 DEF PriceNow

LEMMA WorthIs ==
  ASSUME QuoteAssumption, QuoteInv, NEW s \in Quoted, NEW d \in Quoted, NEW x \in Int
  PROVE  Worth(s, d, x) \in Int /\ (x >= 0 => Worth(s, d, x) >= 0)
<1> DEFINE a == PriceNow[s]
           b == PriceNow[d]
           p == x * a
<1>1. a \in Nat \ {0} /\ b \in Nat \ {0}
  BY PricesAre
<1> HIDE DEF a, b
<1>2. p \in Int /\ (x >= 0 => p >= 0)
  BY <1>1
<1> HIDE DEF p
<1>3. p \div b \in Int /\ (p >= 0 => p \div b >= 0)
  BY <1>1, <1>2
<1> QED
  BY <1>2, <1>3 DEF Worth, a, b, p

LEMMA FeesAre ==
  ASSUME QuoteAssumption, QuoteInv
  PROVE  IngressFee \in Nat /\ EgressFee \in Nat
<1>1. cfg.ingressFee \in Nat /\ cfg.egressFee \in Nat
  BY RequestIs
<1> QED
  BY <1>1 DEF IngressFee, EgressFee

LEMMA MiddleIs ==
  ASSUME QuoteAssumption, QuoteInv, NEW k \in Kinds, Waits(k)
  PROVE  /\ Middle(k) \in Int /\ FinalLeg(k) \in Int
         /\ InputOf(k) > IngressFee => Middle(k) >= 0 /\ FinalLeg(k) >= 0
<1> DEFINE n == ChunksOfQuote(k)
           x == InputOf(k) - IngressFee
           m == Middle(k)
<1>1. n \in Nat \ {0} /\ x \in Int /\ InputOf(k) \in Int /\ IngressFee \in Nat
  BY ChunksAre, InputIs, FeesAre
<1>2. request.src \in Quoted /\ request.dest \in Quoted /\ "Usdc" \in Quoted
  BY RequestIs
<1>3. x > 0 <=> InputOf(k) > IngressFee
  BY <1>1
<1> HIDE DEF n, x
<1>4. x \div n \in Int /\ (x > 0 => x \div n >= 0)
  BY <1>1
<1>5. m = Worth(request.src, "Usdc", x \div n)
  BY DEF Middle, n, x
<1> DEFINE c == x \div n
           y == m - m \div 1000
<1> HIDE DEF m, c
<1>6. m = Worth(request.src, "Usdc", c) /\ c \in Int /\ (x > 0 => c >= 0)
  BY <1>4, <1>5 DEF c
<1>7. m \in Int /\ (x > 0 => m >= 0)
  BY <1>2, <1>6, WorthIs
<1>8. y \in Int /\ (m >= 0 => y >= 0)
  BY <1>7
<1>9. FinalLeg(k) = Worth("Usdc", request.dest, y)
  BY DEF FinalLeg, m
<1> HIDE DEF y
<1>10. FinalLeg(k) \in Int /\ (m >= 0 => FinalLeg(k) >= 0)
  <2>1. Worth("Usdc", request.dest, y) \in Int /\ (y >= 0 => Worth("Usdc", request.dest, y) >= 0)
    BY <1>2, <1>8, WorthIs
  <2> QED
    BY <1>8, <1>9, <2>1
<1> QED
  BY <1>3, <1>7, <1>10 DEF m

LEMMA SwapRateIs ==
  ASSUME QuoteAssumption, QuoteInv, NEW k \in Kinds, Waits(k), SwapRate(k) # Rejected
  PROVE  SwapRate(k) \in Rates
<1> DEFINE n == ChunksOfQuote(k)
           m == Middle(k)
           l == FinalLeg(k)
           small == [ingress |-> IngressFee, intermediate |-> None, egress |-> 0, network |-> 0, egressFee |-> EgressFee]
           large == [ingress |-> IngressFee, intermediate |-> IF OneLeg(request.src, request.dest) THEN None ELSE m * n,
                     egress |-> IF l * n > EgressFee THEN l * n - EgressFee ELSE 0,
                     network |-> (m \div 1000) * n, egressFee |-> EgressFee]
<1>1. SwapRate(k) = small \/ SwapRate(k) = large
  BY Zenon DEF SwapRate, Middle, FinalLeg, Worth, PriceNow
<1>2. n \in Int /\ m \in Int /\ l \in Int /\ IngressFee \in Int /\ EgressFee \in Int
  <2>1. n \in Nat \ {0} /\ IngressFee \in Nat /\ EgressFee \in Nat
    BY ChunksAre, FeesAre
  <2>2. m \in Int /\ l \in Int
    BY MiddleIs
  <2> QED
    BY <2>1, <2>2
<1> HIDE DEF n, m, l
<1>3. m * n \in Int /\ l * n \in Int /\ (m \div 1000) * n \in Int
  BY <1>2
<1>4. small \in Rates
  BY <1>2 DEF Rates
<1>5. large \in Rates
  BY <1>2, <1>3 DEF Rates
<1> QED
  BY <1>1, <1>4, <1>5

LEMMA ImpactsAre ==
  ASSUME QuoteAssumption, QuoteInv, NEW r \in Rates, NEW c \in [Keys -> 0..market]
  PROVE  LET first == cfg.impact[IF request.src = "Usdc" THEN request.dest ELSE request.src]
             second == IF r.intermediate = None THEN 0 ELSE cfg.impact[request.dest]
             usd1 == UsdValue(c, request.src, request.amount)
             usd2 == IF r.intermediate = None THEN 0 ELSE UsdValue(c, "Usdc", r.intermediate)
         IN  ~(usd1 = None \/ usd2 = None) =>
               /\ ImpactBps(first, usd1) \in Int /\ ImpactBps(second, usd2) \in Int
               /\ ~Impacted /\ (r.intermediate # None => ~OneLeg(request.src, request.dest)) =>
                     ImpactBps(first, usd1) = 0 /\ ImpactBps(second, usd2) = 0
<1> DEFINE first == cfg.impact[IF request.src = "Usdc" THEN request.dest ELSE request.src]
           second == IF r.intermediate = None THEN 0 ELSE cfg.impact[request.dest]
           usd1 == UsdValue(c, request.src, request.amount)
           usd2 == IF r.intermediate = None THEN 0 ELSE UsdValue(c, "Usdc", r.intermediate)
           impact1 == ImpactBps(first, usd1)
           impact2 == ImpactBps(second, usd2)
           plain == ~Impacted /\ (r.intermediate # None => ~OneLeg(request.src, request.dest))
<1> SUFFICES ASSUME ~(usd1 = None \/ usd2 = None)
    PROVE  impact1 \in Int /\ impact2 \in Int /\ (plain => impact1 = 0 /\ impact2 = 0)
  OBVIOUS
<1>1. c[Prices] # 0
  BY DEF UsdValue
<1>2. c[Prices] \in 1..market
  BY <1>1, RequestIs DEF Keys, Prices
<1>3. Markets[c[Prices]].usd[request.src] \in Nat /\ Markets[c[Prices]].usd["Usdc"] \in Nat
  <2>1. /\ \A i \in 1..market, x \in Quoted : Markets[i].usd[x] \in Nat \ {0}
        /\ request.src \in Quoted /\ "Usdc" \in Quoted
    BY RequestIs
  <2>2. \A x \in Quoted : Markets[c[Prices]].usd[x] \in Nat \ {0}
    BY <1>2, <2>1
  <2> QED
    BY <2>1, <2>2
<1>4. usd1 \in Int
  <2> DEFINE y == Markets[c[Prices]].usd[request.src]
  <2>1. usd1 = request.amount * y
    BY <1>1 DEF UsdValue
  <2>2. request.amount \in Nat /\ y \in Nat
    BY <1>3, RequestIs
  <2> HIDE DEF y, usd1
  <2> QED
    BY <2>1, <2>2
<1>5. usd2 \in Int
  <2> DEFINE y == Markets[c[Prices]].usd["Usdc"]
  <2>1. y \in Nat /\ r.intermediate \in Int \cup {None}
    BY <1>3 DEF Rates
  <2>2. usd2 = 0 \/ (r.intermediate # None /\ usd2 = r.intermediate * y)
    BY <1>1 DEF UsdValue
  <2> HIDE DEF y, usd2
  <2> QED
    BY <2>1, <2>2
<1>6. first \in Int /\ second \in Int
  <2>1. cfg.impact \in [Quoted -> Nat] /\ request.src \in Quoted /\ request.dest \in Quoted
    BY RequestIs
  <2> QED
    BY <2>1
<1> HIDE DEF first, second, usd1, usd2
<1>7. \A a, b \in Int : ImpactBps(a, b) \in Int
  <2> SUFFICES ASSUME NEW a \in Int, NEW b \in Int PROVE ImpactBps(a, b) \in Int
    OBVIOUS
  <2> DEFINE p == a * b
  <2>1. p \in Int
    OBVIOUS
  <2> HIDE DEF p
  <2>2. (2 * p + 1000) \div (2 * 1000) \in Int
    BY <2>1
  <2> QED
    BY <2>2 DEF ImpactBps, HalfUp, p
<1>8. impact1 \in Int /\ impact2 \in Int
  BY <1>4, <1>5, <1>6, <1>7
<1>9. \A b \in Int : ImpactBps(0, b) = 0
  BY DEF ImpactBps, HalfUp
<1>10. plain => impact1 = 0 /\ impact2 = 0
  <2> SUFFICES ASSUME plain PROVE first = 0 /\ second = 0
    BY <1>4, <1>5, <1>9
  <2>1. request.src # request.dest
    BY RequestIs
  <2>2. \A x \in {request.src, request.dest} \ {"Usdc"} : cfg.impact[x] = 0
    BY DEF Impacted, BaseAssets
  <2> QED
    BY <2>1, <2>2 DEF OneLeg, first, second
<1> QED
  BY <1>8, <1>10

LEMMA ImpactIs ==
  ASSUME QuoteAssumption, QuoteInv, NEW r \in Rates, NEW c \in [Keys -> 0..market]
  PROVE  Impact(c, r) \in Rates
<1> DEFINE first == cfg.impact[IF request.src = "Usdc" THEN request.dest ELSE request.src]
           second == IF r.intermediate = None THEN 0 ELSE cfg.impact[request.dest]
           usd1 == UsdValue(c, request.src, request.amount)
           usd2 == IF r.intermediate = None THEN 0 ELSE UsdValue(c, "Usdc", r.intermediate)
           impact1 == ImpactBps(first, usd1)
           impact2 == ImpactBps(second, usd2)
<1>1. CASE usd1 = None \/ usd2 = None
  BY <1>1 DEF Impact
<1>2. CASE ~(usd1 = None \/ usd2 = None)
  <2>1. Impact(c, r) = WithImpact(r, impact1, impact2)
    BY <1>2, Zenon DEF Impact
  <2>2. impact1 \in Int /\ impact2 \in Int
    BY <1>2, ImpactsAre
  <2> HIDE DEF impact1, impact2
  <2>3. ONE_IN_PIP - impact1 - impact2 \in Int /\ ONE_IN_PIP - impact1 \in Int
    BY <2>2 DEF ONE_IN_PIP
  <2> DEFINE both == ONE_IN_PIP - impact1 - impact2
             one == ONE_IN_PIP - impact1
             owed == PipAmount(r.network, one)
             fee == PipAmount(r.egressFee, both)
             out == PipAmount(r.egress, both)
             mid == IF r.intermediate = None THEN None ELSE PipAmount(r.intermediate, one)
  <2>4. WithImpact(r, impact1, impact2) =
           [r EXCEPT !.network = owed, !.egressFee = fee, !.intermediate = mid, !.egress = out]
    BY DEF WithImpact
  <2>5. owed \in Int /\ fee \in Int /\ out \in Int
    <3>1. r.network \in Int /\ r.egressFee \in Int /\ r.egress \in Int
      BY DEF Rates
    <3> QED
      BY <2>3, <3>1, PipAmountIsInt
  <2>6. mid \in Int \cup {None}
    <3>1. r.intermediate \in Int \cup {None}
      BY DEF Rates
    <3> QED
      BY <2>3, <3>1, PipAmountIsInt
  <2> HIDE DEF owed, fee, out, mid
  <2>7. [r EXCEPT !.network = owed, !.egressFee = fee, !.intermediate = mid, !.egress = out] \in Rates
    BY <2>5, <2>6 DEF Rates
  <2>8. WithImpact(r, impact1, impact2) \in Rates
    BY <2>4, <2>7
<2> QED
    BY <2>1, <2>8
<1> QED
  BY <1>1, <1>2

LEMMA DurationsAre ==
  ASSUME QuoteAssumption, QuoteInv, NEW k \in Kinds
  PROVE  LET d == Durations(request.src, request.dest, IsBoosted(k), request.onChain, cfg)
         IN  /\ d = [swap |-> d.swap, deposit |-> d.deposit, egress |-> d.egress]
             /\ d.swap \in Nat /\ d.deposit \in Nat /\ d.egress \in Nat
             /\ d.swap = 2 * BlockSeconds
<1>1. /\ cfg.blockTime[request.src] \in Nat /\ cfg.blockTime[request.dest] \in Nat
      /\ (cfg.margin[request.src] # None => cfg.margin[request.src] \in Nat)
      /\ cfg.boostDelay \in Nat /\ cfg.ingressDelay \in Nat
  BY RequestIs
<1> DEFINE t == cfg.blockTime[request.src]
           u == cfg.blockTime[request.dest]
           m == IF cfg.margin[request.src] = None THEN 1 ELSE cfg.margin[request.src]
           p == t * m
           b == cfg.boostDelay
           i == cfg.ingressDelay
<1>2. t \in Nat /\ u \in Nat /\ p \in Nat /\ b \in Nat /\ i \in Nat
  BY <1>1
<1> DEFINE dur == [swap |-> 2 * 6,
                   deposit |-> IF request.onChain THEN 0
                               ELSE t \div 2 + 6 + i * 6 + (IF IsBoosted(k) THEN b * 6 ELSE p),
                   egress |-> IF request.onChain THEN 0 ELSE 90 + u \div 2]
<1>3. Durations(request.src, request.dest, IsBoosted(k), request.onChain, cfg) = dur
  BY DEF Durations, BlockSeconds
<1> HIDE DEF t, u, p, b, i
<1>4. t \div 2 \in Nat /\ u \div 2 \in Nat /\ i * 6 \in Nat /\ b * 6 \in Nat
  BY <1>2
<1>5. t \div 2 + 6 + i * 6 + b * 6 \in Nat /\ t \div 2 + 6 + i * 6 + p \in Nat /\ 90 + u \div 2 \in Nat
  BY <1>2, <1>4
<1>6. dur.deposit \in Nat /\ dur.egress \in Nat /\ dur.swap \in Nat /\ dur.swap = 2 * BlockSeconds
  BY <1>5 DEF BlockSeconds
<1>7. dur = [swap |-> dur.swap, deposit |-> dur.deposit, egress |-> dur.egress]
  OBVIOUS
<1> HIDE DEF dur
<1> QED
  BY <1>3, <1>6, <1>7

\* While the node is asked, one kind of quote after another comes to be.
LEMMA QuotesMove ==
  ASSUME QuoteAssumption, QuoteInv, NEW k \in Kinds, pc = "quotes", pc' = pc, answer' = answer,
         UNCHANGED <<market, request, cfg, params, eager>>, CachesFit', k \in todo, todo' \subseteq todo,
         rate' = [rate EXCEPT ![k] = rate'[k]], quote' = [quote EXCEPT ![k] = quote'[k]],
         k \in todo' => rate'[k] \in Rates \cup {None},
         HasQuote(k)' => quote'[k] = quote[k] \/ PartsFit(request, cfg, 0, k, quote'[k])
  PROVE  QuoteInv'
<1>1. Waits(k) /\ rate = [x \in Kinds |-> rate[x]] /\ quote = [x \in Kinds |-> quote[x]]
  BY DEF QuoteInv, RequestFits
<1>2. \A x \in Kinds \ {k} : rate'[x] = rate[x] /\ quote'[x] = quote[x]
  BY <1>1
<1>3. rate' = [x \in Kinds |-> rate'[x]] /\ quote' = [x \in Kinds |-> quote'[x]]
  BY <1>1
<1>4. \A x : Waits(x)' <=> Waits(x)
  BY DEF Waits
<1>5. RequestFits'
  <2>1. \A x \in Kinds : quote'[x] # None => Waits(x)
    BY <1>1, <1>2 DEF QuoteInv, RequestFits
  <2>2. \A x \in Kinds \cap todo' : Waits(x)
    BY DEF QuoteInv, RequestFits
  <2> QED
    BY <1>3, <1>4, <2>1, <2>2 DEF QuoteInv, RequestFits
<1>6. DcaFits' /\ BoostFits'
  BY DcaStays, BoostStays DEF QuoteInv, CachesFit
<1>7. RatesFit'
  <2> SUFFICES ASSUME NEW x \in Kinds \cap todo' PROVE rate'[x] \in Rates \cup {None}
    BY DEF RatesFit
  <2>1. x \in Kinds \cap todo
    OBVIOUS
  <2>2. rate[x] \in Rates \cup {None}
    BY <2>1 DEF QuoteInv, RatesFit
  <2> QED
    BY <1>2, <2>1, <2>2
<1>8. QuotesFit'
  <2>1. ~Settled /\ ~Settled'
    BY DEF Settled
  <2>2. \A x : ExtraOf(x) = 0 /\ ExtraOf(x)' = 0
    BY <2>1 DEF ExtraOf
  <2> SUFFICES ASSUME NEW x \in Kinds, HasQuote(x)' PROVE PartsFit(request, cfg, 0, x, quote'[x])
    BY <2>2 DEF QuotesFit
  <2>3. CASE quote'[x] = quote[x]
    <3>1. HasQuote(x)
      BY <2>3 DEF HasQuote
    <3>2. PartsFit(request, cfg, 0, x, quote[x])
      BY <2>2, <3>1 DEF QuoteInv, QuotesFit
    <3> QED
      BY <2>3, <3>2
  <2>4. CASE quote'[x] # quote[x]
    <3>1. x = k
      BY <1>2, <2>4
    <3> QED
      BY <2>4, <3>1
  <2> QED
    BY <2>3, <2>4
<1>9. eager' = None
  BY NotEagerYet
<1>10. EagerFits'
  BY <1>9, WhyNotIs DEF EagerFits
<1>11. AnswerFits' /\ RegularWithheldOnlyByDca' /\ PriceStopsOnlyTwoLegs'
  BY NoAnswerYet, Unfinished
<1> QED
  BY <1>5, <1>6, <1>7, <1>8, <1>10, <1>11 DEF QuoteInv

LEMMA GetSwapRateKeeps ==
  ASSUME QuoteAssumption, QuoteInv, NEW k \in Kinds, GetSwapRate(k) PROVE QuoteInv'
<1>1. /\ pc = "quotes" /\ k \in todo /\ rate[k] = None
      /\ UNCHANGED <<market, cache, failed, request, cfg, pc, params, eager, answer>>
      /\ rate' = [rate EXCEPT ![k] = SwapRate(k)]
  BY DEF GetSwapRate
<1>2. \/ rate'[k] = Rejected /\ quote' = [quote EXCEPT ![k] = Rejected] /\ todo' = todo \ {k}
      \/ rate'[k] # Rejected /\ UNCHANGED <<quote, todo>>
  BY DEF GetSwapRate
<1>3. Waits(k) /\ rate = [x \in Kinds |-> rate[x]] /\ quote = [x \in Kinds |-> quote[x]]
  BY <1>1 DEF QuoteInv, RequestFits
<1>4. rate'[k] = SwapRate(k) /\ rate' = [rate EXCEPT ![k] = rate'[k]]
  BY <1>1, <1>3
<1>5. CachesFit'
  BY <1>1, CachesStay DEF QuoteInv
<1>6. todo' \subseteq todo
  BY <1>2
<1>7. k \in todo' => rate'[k] \in Rates \cup {None}
  BY <1>2, <1>3, <1>4, SwapRateIs
<1>8. quote' = [quote EXCEPT ![k] = quote'[k]]
  BY <1>2, <1>3
<1>9. HasQuote(k)' => quote'[k] = quote[k]
  BY <1>2, <1>3 DEF HasQuote
<1> QED
  BY <1>1, <1>4, <1>5, <1>6, <1>7, <1>8, <1>9, QuotesMove

\* What is quoted, of a rate that is high enough.
LEMMA QuoteOfFits ==
  ASSUME QuoteAssumption, QuoteInv, NEW k \in Kinds, NEW c, NEW r,
         r \in Rates, ~TooLow(r)
  PROVE  PartsFit(request, cfg, 0, k, QuoteOf(c, k, r))
<1> DEFINE d == Durations(request.src, request.dest, IsBoosted(k), request.onChain, cfg)
           q == QuoteOf(c, k, r)
<1>1. /\ d = [swap |-> d.swap, deposit |-> d.deposit, egress |-> d.egress]
      /\ d.swap \in Nat /\ d.deposit \in Nat /\ d.egress \in Nat
  BY DurationsAre
<1>2. /\ q = [egress |-> q.egress, warning |-> q.warning, intermediate |-> q.intermediate,
              slippage |-> q.slippage, live |-> LivePriceSlippage(request.src, request.dest, cfg),
              durations |-> d, total |-> TotalOf(d)]
      /\ q.egress = r.egress
  BY DEF QuoteOf
<1> HIDE DEF q
<1>3. TotalOf(d) \in Nat
  BY <1>1 DEF TotalOf
<1>4. TotalOf(d) + 0 = TotalOf(d) /\ d.swap + 0 = d.swap
  BY <1>1, <1>3
<1>5. q.egress \in Int /\ q.egress > 0 /\ (request.onChain \/ q.egress >= cfg.minEgress)
  <2>1. r.egress \in Int
    BY DEF Rates
  <2>2. cfg.minEgress \in Nat
    BY RequestIs
  <2>3. r.egress # 0 /\ ~(r.egress < (IF request.onChain THEN 0 ELSE cfg.minEgress))
    BY DEF TooLow
  <2>4. CASE request.onChain
    BY <1>2, <2>1, <2>3, <2>4
  <2>5. CASE ~request.onChain
    BY <1>2, <2>1, <2>2, <2>3, <2>5
  <2> QED
    BY <2>4, <2>5
<1> HIDE DEF d
<1>6. /\ q = [egress |-> q.egress, warning |-> q.warning, intermediate |-> q.intermediate,
              slippage |-> q.slippage, live |-> LivePriceSlippage(request.src, request.dest, cfg),
              durations |-> [swap |-> d.swap + 0, deposit |-> d.deposit, egress |-> d.egress],
              total |-> TotalOf(d) + 0]
  BY <1>1, <1>2, <1>4
<1> QED
  BY <1>5, <1>6 DEF PartsFit, d, q

LEMMA GetPoolQuoteKeeps ==
  ASSUME QuoteAssumption, QuoteInv, NEW k \in Kinds, GetPoolQuote(k) PROVE QuoteInv'
<1>1. /\ pc = "quotes" /\ k \in todo /\ rate[k] # None
      /\ UNCHANGED <<market, request, cfg, pc, params, eager, answer>>
      /\ todo' = todo \ {k} /\ rate' = [rate EXCEPT ![k] = None]
  BY DEF GetPoolQuote
<1> DEFINE R(c) == IF IsDca(k) THEN Impact(c, rate[k]) ELSE rate[k]
           Needed(c) == IF TooLow(R(c)) THEN QuoteKeys(k) \ LiquidityKeys ELSE QuoteKeys(k)
           Held(c) == [x \in Keys |-> IF x \in Needed(c) THEN c[x] ELSE cache[x]]
<1>2. PICK c \in Lookup(QuoteKeys(k)) :
        /\ Read(Needed(c), Held(c))
        /\ quote' = [quote EXCEPT ![k] =
             IF TooLow(R(c)) \/ Lost(Needed(c) \ {Prices}, c) THEN Rejected ELSE QuoteOf(c, k, R(c))]
  BY DEF GetPoolQuote
<1>3. rate = [x \in Kinds |-> rate[x]] /\ quote = [x \in Kinds |-> quote[x]]
  BY DEF QuoteInv, RequestFits
<1>4. LiquidityKeys \in SUBSET Keys
  BY KeysOfLegs DEF QuoteInv
<1>5. QuoteKeys(k) \in SUBSET Keys
  BY <1>4 DEF QuoteKeys, Keys, Prices
<1>6. c \in [Keys -> 0..market] /\ \A x \in Keys : c[x] = 0 => x \in QuoteKeys(k) \/ x \in failed
  BY <1>5, LookupFits DEF QuoteInv
<1>7. CachesFit'
  <2> DEFINE need == Needed(c)
             seen == Held(c)
  <2>1. need \in SUBSET Keys /\ Read(need, seen)
    BY <1>2, <1>5
  <2>2. seen = [x \in Keys |-> IF x \in need THEN c[x] ELSE cache[x]]
    OBVIOUS
  <2> HIDE DEF need, seen
  <2>3. seen \in [Keys -> 0..market] /\ \A x \in Keys : seen[x] = 0 => x \in need \/ x \in failed
    BY <1>6, <2>2 DEF QuoteInv, CachesFit
  <2> QED
    BY <1>1, <2>1, <2>3, ReadFits DEF QuoteInv
<1>8. R(c) \in Rates
  <2>1. rate[k] \in Rates
    BY <1>1 DEF QuoteInv, RatesFit
  <2> QED
    BY <1>6, <2>1, ImpactIs
<1> DEFINE r == R(c)
<1>9. quote'[k] = Rejected \/ (~TooLow(r) /\ quote'[k] = QuoteOf(c, k, r))
  BY <1>2, <1>3
<1>10. quote' = [quote EXCEPT ![k] = quote'[k]]
  BY <1>2, <1>3
<1> HIDE DEF R, r
<1>11. HasQuote(k)' => PartsFit(request, cfg, 0, k, quote'[k])
  BY <1>8, <1>9, QuoteOfFits DEF HasQuote, r
<1>12. rate' = [rate EXCEPT ![k] = rate'[k]] /\ todo' \subseteq todo
  BY <1>1, <1>3
<1>13. k \in todo' => rate'[k] \in Rates \cup {None}
  BY <1>1
<1> QED
  BY <1>1, <1>7, <1>10, <1>11, <1>12, <1>13, QuotesMove

LEMMA SettleMoves == ASSUME QuoteAssumption, QuoteInv, Settle PROVE QuoteInv'
<1>1. pc = "quotes" /\ UNCHANGED <<market, cache, failed, request, cfg, params, rate, eager>>
  BY DEF Settle
<1>2. CachesFit' /\ DcaFits' /\ BoostFits'
  BY <1>1, CachesStay, DcaStays, BoostStays DEF QuoteInv, CachesFit
<1>3. eager' = None
  BY <1>1, NotEagerYet
<1>4. EagerFits'
  BY <1>3, WhyNotIs DEF EagerFits
<1>5. /\ quote = [x \in Kinds |-> quote[x]] /\ rate = [x \in Kinds |-> rate[x]]
      /\ \A x \in Kinds : quote[x] # None => Waits(x)
  BY DEF QuoteInv, RequestFits
<1>6. "dca" \in Kinds /\ "regular" \in Kinds
  BY DEF Kinds
<1>7. ~Settled
  BY <1>1 DEF Settled
<1>8. \A x : Waits(x)' <=> Waits(x)
  BY <1>1 DEF Waits
<1>9. CASE \E why \in {"dca", "regular"} :
             /\ Answer({}, why) /\ UNCHANGED quote /\ ~HasQuote("dca")
             /\ quote["dca"] = Rejected \/ ~HasQuote("regular")
  <2>1. PICK why \in {"dca", "regular"} :
             /\ Answer({}, why) /\ UNCHANGED quote /\ ~HasQuote("dca")
             /\ quote["dca"] = Rejected \/ ~HasQuote("regular")
    BY <1>9
  <2>2. why \in WhyNots
    BY DEF WhyNots
  <2>3. pc' = "done" /\ answer' # None /\ answer'.offers = {} /\ answer'.why = why /\ why # None
    BY <2>1, <2>2, AnswerIs, WhyNotIs
  <2>4. ~HasQuote("dca")' /\ (quote'["dca"] = Rejected \/ ~HasQuote("regular")')
    BY <2>1 DEF HasQuote
  <2>5. ~Settled'
    BY <2>3 DEF Settled
  <2>6. QuotesFit'
    BY <1>1, <1>7, <2>1, <2>5, QuotesStay DEF QuoteInv
  <2>7. RequestFits' /\ RatesFit'
    BY <1>1, <1>8, <2>1, <2>3 DEF QuoteInv, RequestFits, RatesFit
  <2>8. AnswerFits'
    BY <2>2, <2>3, <2>4 DEF AnswerFits
  <2>9. RegularWithheldOnlyByDca'
    BY <2>4 DEF RegularWithheldOnlyByDca
  <2>10. PriceStopsOnlyTwoLegs'
    BY <2>3 DEF PriceStopsOnlyTwoLegs
  <2> QED
    BY <1>2, <1>4, <2>6, <2>7, <2>8, <2>9, <2>10 DEF QuoteInv
<1>10. CASE quote' = [k \in Kinds |-> Extended(k)] /\ pc' = "eager" /\ UNCHANGED answer
  <2>1. \A x \in Kinds : quote'[x] = Extended(x)
    BY <1>10
  <2>2. quote' = [x \in Kinds |-> quote'[x]]
    BY <1>10
  <2>3. \A x \in Kinds : ~HasQuote(x) => quote'[x] = quote[x]
    BY <2>1 DEF Extended
  <2>4. RequestFits'
    <3>1. \A x \in Kinds : quote'[x] # None => Waits(x)
      BY <1>5, <2>3 DEF HasQuote
    <3> QED
      BY <1>1, <1>5, <1>8, <1>10, <2>2, <3>1 DEF QuoteInv, RequestFits
  <2>5. QuotesFit'
    <3> SUFFICES ASSUME NEW k \in Kinds, HasQuote(k)'
        PROVE  PartsFit(request, cfg, IF IsDca(k) THEN params.dca.extra ELSE 0, k, quote'[k])
      BY <1>1, <1>10 DEF QuotesFit, ExtraOf, Settled
    <3>1. HasQuote(k)
      BY <2>3 DEF HasQuote
    <3>2. PartsFit(request, cfg, 0, k, quote[k])
      BY <1>7, <3>1 DEF QuoteInv, QuotesFit, ExtraOf
    <3>3. CASE ~IsDca(k)
      BY <2>1, <3>2, <3>3 DEF Extended
    <3>4. CASE IsDca(k)
      <4> DEFINE d == Durations(request.src, request.dest, IsBoosted(k), request.onChain, cfg)
                 q == quote[k]
                 x == params.dca.extra
      <4>1. d.swap \in Nat /\ TotalOf(d) \in Nat
        <5>1. d.swap \in Nat /\ d.deposit \in Nat /\ d.egress \in Nat
          BY DurationsAre
        <5> QED
          BY <5>1 DEF TotalOf
      <4>2. x \in Nat
        <5>1. params.dca # None
          BY <1>5, <3>1, <3>4 DEF HasQuote, Waits
        <5> QED
          BY <5>1, DcaIs
      <4>3. /\ q = [egress |-> q.egress, warning |-> q.warning, intermediate |-> q.intermediate,
                    slippage |-> q.slippage, live |-> LivePriceSlippage(request.src, request.dest, cfg),
                    durations |-> [swap |-> d.swap + 0, deposit |-> d.deposit, egress |-> d.egress],
                    total |-> TotalOf(d) + 0]
            /\ q.egress \in Int /\ q.egress > 0 /\ (request.onChain \/ q.egress >= cfg.minEgress)
        BY <3>2 DEF PartsFit
      <4>4. quote'[k] = [q EXCEPT !.durations.swap = @ + x, !.total = @ + x]
        BY <2>1, <3>1, <3>4 DEF Extended
      <4>5. (d.swap + 0) + x = d.swap + x /\ (TotalOf(d) + 0) + x = TotalOf(d) + x
        BY <4>1, <4>2
      <4> HIDE DEF d, q, x
      <4>6. quote'[k] = [egress |-> q.egress, warning |-> q.warning, intermediate |-> q.intermediate,
                    slippage |-> q.slippage, live |-> LivePriceSlippage(request.src, request.dest, cfg),
                    durations |-> [swap |-> d.swap + x, deposit |-> d.deposit, egress |-> d.egress],
                    total |-> TotalOf(d) + x]
        <5> DEFINE parts == [swap |-> d.swap + 0, deposit |-> d.deposit, egress |-> d.egress]
                   longer == [swap |-> d.swap + x, deposit |-> d.deposit, egress |-> d.egress]
                   live == LivePriceSlippage(request.src, request.dest, cfg)
        <5>1. q.durations = parts /\ q.total = TotalOf(d) + 0
          BY <4>3
        <5>2. quote'[k] = [q EXCEPT !.durations = [parts EXCEPT !.swap = (d.swap + 0) + x], !.total = (TotalOf(d) + 0) + x]
          BY <4>4, <5>1
        <5>3. [parts EXCEPT !.swap = (d.swap + 0) + x] = longer
          BY <4>5
        <5>4. quote'[k] = [q EXCEPT !.durations = longer, !.total = TotalOf(d) + x]
          BY <4>5, <5>2, <5>3
        <5>5. q = [egress |-> q.egress, warning |-> q.warning, intermediate |-> q.intermediate,
                   slippage |-> q.slippage, live |-> live, durations |-> parts, total |-> TotalOf(d) + 0]
          BY <4>3
        <5> DEFINE e == q.egress
                   w == q.warning
                   m == q.intermediate
                   s == q.slippage
                   t == TotalOf(d) + x
                   rest == [egress |-> e, warning |-> w, intermediate |-> m, slippage |-> s, live |-> live,
                            durations |-> longer, total |-> t]
        <5> HIDE DEF parts, longer, live, e, w, m, s, t
        <5>6. q = [egress |-> e, warning |-> w, intermediate |-> m, slippage |-> s, live |-> live,
                   durations |-> parts, total |-> TotalOf(d) + 0]
          BY <5>5 DEF e, w, m, s
        <5>7. quote'[k] = [q EXCEPT !.durations = longer, !.total = t]
          BY <5>4 DEF t
        <5>8. quote'[k] = rest
          BY <5>6, <5>7
        <5> QED
          BY <5>8 DEF live, longer, e, w, m, s, t
      <4>7. PartsFit(request, cfg, x, k, quote'[k])
        BY <4>3, <4>6 DEF PartsFit, d
      <4> QED
        BY <3>4, <4>7 DEF x
    <3> QED
      BY <3>3, <3>4
  <2>6. RatesFit'
    BY <1>10 DEF RatesFit
  <2>7. AnswerFits' /\ RegularWithheldOnlyByDca' /\ PriceStopsOnlyTwoLegs'
    BY <1>1, <1>10, NoAnswerYet, Unfinished
  <2> QED
    BY <1>2, <1>4, <2>4, <2>5, <2>6, <2>7 DEF QuoteInv
<1>11. quote["dca"] = Rejected => ~HasQuote("dca")
  BY DEF HasQuote
<1>12. params.dca = None => ~HasQuote("dca")
  BY <1>5, <1>6 DEF HasQuote, Waits, IsDca
<1>13. quote["regular"] = Rejected => ~HasQuote("regular")
  BY DEF HasQuote
<1>14. \/ quote["dca"] = Rejected /\ Answer({}, "dca") /\ UNCHANGED quote
       \/ params.dca = None /\ quote["regular"] = Rejected /\ Answer({}, "regular") /\ UNCHANGED quote
       \/ quote' = [k \in Kinds |-> Extended(k)] /\ pc' = "eager" /\ UNCHANGED answer
  BY DEF Settle
<1> QED
  BY <1>9, <1>10, <1>11, <1>12, <1>13, <1>14

-----------------------------------------------------------------------------
(* The offers.                                                             *)

\* What was looked up for a quote was there at moments that were.
LEMMA EagerCovers ==
  ASSUME QuoteAssumption, QuoteInv, NEW k, NEW c \in [Keys -> 0..market], EagerLiquidityExists(c, k),
         \A x \in LiquidityKeys : c[x] # 0
  PROVE  Covered(k)
<1> SUFFICES ASSUME NEW leg \in Legs(request.src, request.dest)
    PROVE  \E i, j, n \in 1..market : TotalLiquidity(i, j, n, k, leg) > LegOut(quote[k], leg)
  BY DEF Covered
<1> DEFINE x == <<"deployed", BaseOf(leg)>>
           y == <<"undeployed", leg[2]>>
<1>1. x \in LiquidityKeys /\ y \in LiquidityKeys /\ LiquidityKeys \subseteq Keys
  BY KeysOfLegs DEF QuoteInv
<1>2. TotalLiquidity(c[x], c[y], market, k, leg) > LegOut(quote[k], leg)
  BY DEF EagerLiquidityExists
<1> HIDE DEF x, y
<1>3. c[x] \in 0..market /\ c[y] \in 0..market /\ c[x] # 0 /\ c[y] # 0
  BY <1>1
<1>4. market \in Nat \ {0}
  BY RequestIs
<1>5. c[x] \in 1..market /\ c[y] \in 1..market /\ market \in 1..market
  BY <1>3, <1>4
<1> QED
  BY <1>2, <1>5

LEMMA EagerMoves ==
  ASSUME QuoteInv, pc = "eager", UNCHANGED <<market, request, cfg, params, rate, quote>>,
         CachesFit', EagerFits', AnswerFits', RegularWithheldOnlyByDca', PriceStopsOnlyTwoLegs',
         \/ pc' = "eager"
         \/ pc' = "done" /\ answer'.why \in {None, "liquidity", "lookup"}
  PROVE  QuoteInv'
<1>1. Settled /\ Settled'
  BY DEF Settled
<1>2. QuotesFit'
  BY <1>1, QuotesStay DEF QuoteInv
<1>3. DcaFits' /\ BoostFits'
  BY DcaStays, BoostStays DEF QuoteInv, CachesFit
<1>4. RequestFits' /\ RatesFit'
  BY DEF QuoteInv, RequestFits, RatesFit, Waits
<1> QED
  BY <1>2, <1>3, <1>4 DEF QuoteInv

\* A lookup that failed is not one of the prices.
LEMMA LookupFailed ==
  ASSUME QuoteAssumption, QuoteInv, pc = "eager", UNCHANGED <<market, request, cfg, params, rate, quote, eager>>,
         CachesFit', Answer({}, "lookup"), NEW x \in Keys, x # Prices, x \in failed'
  PROVE  QuoteInv'
<1>1. "lookup" \in WhyNots
  BY DEF WhyNots
<1>2. pc' = "done" /\ answer' # None /\ answer'.offers = {} /\ answer'.why = "lookup" /\ "lookup" # None
  BY <1>1, AnswerIs, WhyNotIs
<1>3. AnswerFits'
  BY <1>1, <1>2 DEF AnswerFits, Settled
<1>4. RegularWithheldOnlyByDca' /\ PriceStopsOnlyTwoLegs'
  BY DEF RegularWithheldOnlyByDca, PriceStopsOnlyTwoLegs
<1>5. Covered("dca") => Covered("dca")'
  BY CoveredStays DEF Kinds, QuoteInv, CachesFit
<1>6. EagerFits'
  BY <1>2, <1>5 DEF QuoteInv, EagerFits, HasQuote
<1> QED
  BY <1>2, <1>3, <1>4, <1>6, EagerMoves

LEMMA TestDcaKeeps == ASSUME QuoteAssumption, QuoteInv, TestDca PROVE QuoteInv'
<1> DEFINE price == IF request.v2 THEN {Prices} ELSE {}
           v2(c) == request.v2 /\ CanUseDcaV2(c)
           needed(c) == price \cup (IF v2(c) THEN {} ELSE LiquidityKeys)
           seen(c) == [x \in Keys |-> IF x \in needed(c) THEN c[x] ELSE cache[x]]
<1>1. pc = "eager" /\ UNCHANGED <<market, request, cfg, params, rate, quote>>
  BY DEF TestDca
<1>2. "dca" \in Kinds /\ \A k \in Kinds : Covered(k) => Covered(k)'
  BY <1>1, CoveredStays DEF Kinds, QuoteInv, CachesFit
<1>3. HasQuote("dca")' <=> HasQuote("dca")
  BY <1>1 DEF HasQuote
<1>4. CASE UNCHANGED <<cache, failed, eager, pc, answer>>
  <2>1. CachesFit'
    BY <1>1, <1>4, CachesStay DEF QuoteInv
  <2>2. EagerFits'
    BY <1>1, <1>2, <1>3, <1>4 DEF QuoteInv, EagerFits
  <2>3. AnswerFits' /\ RegularWithheldOnlyByDca' /\ PriceStopsOnlyTwoLegs'
    BY <1>1, <1>4, NoAnswerYet, Unfinished
  <2> QED
    BY <1>1, <1>4, <2>1, <2>2, <2>3, EagerMoves
<1>5. CASE ~(UNCHANGED <<cache, failed, eager, pc, answer>>)
  <2>1. PICK c \in Lookup(price \cup LiquidityKeys) :
          /\ Read(needed(c), seen(c))
          /\ IF Lost(needed(c) \ {Prices}, c) THEN Answer({}, "lookup") /\ UNCHANGED eager
             ELSE /\ eager' = IF v2(c) THEN "v2"
                              ELSE IF EagerLiquidityExists(c, "dca") THEN "liquidity" ELSE None
                  /\ UNCHANGED <<pc, answer>>
    BY <1>5 DEF TestDca
  <2>2. HasQuote("dca")
    BY <1>5 DEF TestDca
  <2>3. LiquidityKeys \in SUBSET Keys /\ Prices \notin LiquidityKeys
    BY KeysOfLegs DEF QuoteInv
  <2>4. price \cup LiquidityKeys \in SUBSET Keys
    BY <2>3 DEF Keys, Prices
  <2>5. c \in [Keys -> 0..market] /\ \A x \in Keys : c[x] = 0 => x \in price \cup LiquidityKeys \/ x \in failed
    BY <2>4, LookupFits DEF QuoteInv
  <2> DEFINE need == needed(c)
             see == seen(c)
  <2>6. need \in SUBSET Keys /\ Read(need, see)
    BY <2>1, <2>4
  <2>7. see = [x \in Keys |-> IF x \in need THEN c[x] ELSE cache[x]]
    OBVIOUS
  <2>8. ~v2(c) => LiquidityKeys \subseteq need
    OBVIOUS
  <2>9. IF Lost(need \ {Prices}, c) THEN Answer({}, "lookup") /\ UNCHANGED eager
             ELSE /\ eager' = IF v2(c) THEN "v2"
                              ELSE IF EagerLiquidityExists(c, "dca") THEN "liquidity" ELSE None
                  /\ UNCHANGED <<pc, answer>>
    BY <2>1
  <2>10. v2(c) => ~cfg.disableLpp
    BY DEF CanUseDcaV2
  <2> HIDE DEF needed, seen, need, see, v2, price
  <2>11. see \in [Keys -> 0..market] /\ \A x \in Keys : see[x] = 0 => x \in need \/ x \in failed
    BY <2>5, <2>7 DEF QuoteInv, CachesFit
  <2>12. CachesFit'
    BY <1>1, <2>6, <2>11, ReadFits DEF QuoteInv
  <2>13. CASE Lost(need \ {Prices}, c)
    <3>1. PICK x \in need \ {Prices} : c[x] = 0
      BY <2>13 DEF Lost
    <3>2. x \in Keys /\ x # Prices /\ see[x] = 0
      BY <2>6, <2>7, <3>1
    <3>3. x \in failed'
      BY <2>6, <3>1, <3>2 DEF Read
    <3>4. Answer({}, "lookup") /\ UNCHANGED eager
      BY <2>9, <2>13
    <3> QED
      BY <1>1, <2>12, <3>2, <3>3, <3>4, LookupFailed
  <2>14. CASE ~Lost(need \ {Prices}, c)
    <3>1. /\ eager' = IF v2(c) THEN "v2" ELSE IF EagerLiquidityExists(c, "dca") THEN "liquidity" ELSE None
          /\ UNCHANGED <<pc, answer>>
      BY <2>9, <2>14
    <3>2. eager' \notin {None, "v2"} => Covered("dca")
      <4> SUFFICES ASSUME eager' \notin {None, "v2"} PROVE Covered("dca")
        OBVIOUS
      <4>1. ~v2(c) /\ EagerLiquidityExists(c, "dca")
        BY <3>1
      <4>2. \A x \in LiquidityKeys : c[x] # 0
        BY <2>3, <2>8, <2>14, <4>1 DEF Lost
      <4> QED
        BY <2>5, <4>1, <4>2, EagerCovers
    <3>3. eager' = "v2" => ~cfg.disableLpp
      BY <2>10, <3>1, WhyNotIs
    <3>4. EagerFits'
      BY <1>1, <1>2, <1>3, <2>2, <3>1, <3>2, <3>3 DEF EagerFits
    <3>5. AnswerFits' /\ RegularWithheldOnlyByDca' /\ PriceStopsOnlyTwoLegs'
      BY <1>1, <3>1, NoAnswerYet, Unfinished
    <3> QED
      BY <1>1, <2>12, <3>1, <3>4, <3>5, EagerMoves
  <2> QED
    BY <2>13, <2>14
<1> QED
  BY <1>4, <1>5

\* What is offered in the end.
LEMMA OfferFits ==
  ASSUME QuoteAssumption, QuoteInv, pc = "eager", UNCHANGED <<market, request, cfg, params, rate, quote, eager>>,
         CachesFit', NEW regular \in BOOLEAN, Offer(regular),
         regular => HasQuote("regular") /\ Covered("regular"), RegularWithheldOnlyByDca'
  PROVE  QuoteInv'
<1> DEFINE offers == (IF regular THEN {"regular"} ELSE {}) \cup (IF eager # None THEN {"dca"} ELSE {})
           why == IF offers = {} THEN "liquidity" ELSE None
<1>1. Answer(offers, why)
  BY DEF Offer
<1>2. /\ offers \in SUBSET {"regular", "dca"}
      /\ "regular" \in offers => regular
      /\ "dca" \in offers => eager # None
  OBVIOUS
<1>3. why \in WhyNots \cup {None} /\ why \in {None, "liquidity"}
  BY DEF WhyNots
<1>4. "liquidity" # None
  BY WhyNotIs DEF WhyNots
<1>5. offers = {} <=> why # None
  BY <1>4
<1> HIDE DEF offers, why
<1>6. pc' = "done" /\ answer' # None /\ answer'.offers = offers /\ answer'.why = why
  BY <1>1, <1>2, <1>3, AnswerIs
<1>7. \A k \in Kinds : Covered(k) => Covered(k)'
  BY CoveredStays DEF QuoteInv, CachesFit
<1>8. "dca" \in Kinds /\ "regular" \in Kinds
  BY DEF Kinds
<1>9. \A k : HasQuote(k)' <=> HasQuote(k)
  BY DEF HasQuote
<1>10. EagerFits'
  BY <1>6, <1>7, <1>8, <1>9 DEF QuoteInv, EagerFits
<1>11. Settled'
  BY <1>3, <1>6 DEF Settled
<1>12. eager # None => HasQuote("dca")
  BY DEF QuoteInv, EagerFits
<1>13. AnswerFits'
  <2>1. \A k \in offers : HasQuote(k)'
    BY <1>2, <1>9, <1>12
  <2>2. "regular" \in offers => Covered("regular")'
    BY <1>2, <1>7, <1>8
  <2> QED
    BY <1>2, <1>3, <1>5, <1>6, <1>11, <2>1, <2>2 DEF AnswerFits
<1>14. PriceStopsOnlyTwoLegs'
  <2>1. why \notin {"orders", "boost", "lookup"}
    BY <1>3, WhyNotIs DEF WhyNots
  <2> QED
    BY <1>6, <2>1 DEF PriceStopsOnlyTwoLegs
<1> QED
  BY <1>3, <1>6, <1>10, <1>13, <1>14, EagerMoves

LEMMA TestRegularKeeps == ASSUME QuoteAssumption, QuoteInv, TestRegular PROVE QuoteInv'
<1>1. pc = "eager" /\ UNCHANGED <<market, request, cfg, params, rate, quote, eager>>
  BY DEF TestRegular
<1>2. CASE ~HasQuote("regular")
  <2>1. Offer(FALSE) /\ UNCHANGED <<cache, failed>>
    BY <1>2 DEF TestRegular
  <2>2. CachesFit'
    BY <1>1, <2>1, CachesStay DEF QuoteInv
  <2>3. RegularWithheldOnlyByDca'
    BY <1>1, <1>2 DEF RegularWithheldOnlyByDca, HasQuote
  <2> QED
    BY <1>1, <2>1, <2>2, <2>3, OfferFits
<1>3. CASE HasQuote("regular")
  <2>1. PICK c \in Lookup(LiquidityKeys) :
          /\ Read(LiquidityKeys, c)
          /\ IF Lost(LiquidityKeys, c) THEN Answer({}, "lookup")
             ELSE Offer(EagerLiquidityExists(c, "regular"))
    BY <1>3 DEF TestRegular
  <2>2. /\ LiquidityKeys \in SUBSET Keys /\ Prices \notin LiquidityKeys
        /\ \A leg \in Legs(request.src, request.dest) :
             <<"deployed", BaseOf(leg)>> \in LiquidityKeys /\ <<"undeployed", leg[2]>> \in LiquidityKeys
    BY KeysOfLegs DEF QuoteInv
  <2>3. c \in [Keys -> 0..market] /\ \A x \in Keys : c[x] = 0 => x \in LiquidityKeys \/ x \in failed
    BY <2>2, LookupFits DEF QuoteInv
  <2>4. CachesFit'
    BY <1>1, <2>1, <2>2, <2>3, ReadFits DEF QuoteInv
  <2>5. CASE Lost(LiquidityKeys, c)
    <3>1. PICK x \in LiquidityKeys : c[x] = 0
      BY <2>5 DEF Lost
    <3>2. x \in Keys /\ x # Prices
      BY <2>2, <3>1
    <3>3. x \in failed'
      BY <2>1, <3>1 DEF Read
    <3> QED
      BY <1>1, <2>1, <2>4, <2>5, <3>2, <3>3, LookupFailed
  <2>6. CASE ~Lost(LiquidityKeys, c)
    <3> DEFINE e == EagerLiquidityExists(c, "regular")
    <3>1. e \in BOOLEAN
      BY DEF EagerLiquidityExists
    <3>2. \A x \in LiquidityKeys : c[x] # 0
      BY <2>6 DEF Lost
    <3>3. e => Covered("regular")
      BY <2>3, <3>2, EagerCovers
    <3>4. Offer(e)
      BY <2>1, <2>6
    <3>5. RegularWithheldOnlyByDca'
      <4> SUFFICES ASSUME market' = 1, "regular" \notin answer'.offers,
                          (\A leg \in Legs(request.src, request.dest) :
                             TotalLiquidity(1, 1, 1, "regular", leg) > LegOut(quote["regular"], leg))'
          PROVE  FALSE
        BY DEF RegularWithheldOnlyByDca
      <4>1. \A leg \in Legs(request.src, request.dest) :
              c[<<"deployed", BaseOf(leg)>>] = 1 /\ c[<<"undeployed", leg[2]>>] = 1
        <5>1. market = 1
          BY <1>1
        <5>2. \A x \in LiquidityKeys : c[x] = 1
          BY <2>2, <2>3, <3>2, <5>1
        <5> QED
          BY <2>2, <5>2
      <4>2. \A leg : /\ TotalLiquidity(1, 1, 1, "regular", leg)' = TotalLiquidity(1, 1, 1, "regular", leg)
                     /\ LegOut(quote["regular"], leg)' = LegOut(quote["regular"], leg)
        BY <1>1 DEF TotalLiquidity, LegOut
      <4>3. e
        <5>1. market = 1 /\ \A leg \in Legs(request.src, request.dest) :
                TotalLiquidity(1, 1, 1, "regular", leg) > LegOut(quote["regular"], leg)
          BY <1>1, <4>2
        <5> QED
          BY <4>1, <5>1 DEF EagerLiquidityExists
      <4> DEFINE offers == (IF e THEN {"regular"} ELSE {}) \cup (IF eager # None THEN {"dca"} ELSE {})
                 why == IF offers = {} THEN "liquidity" ELSE None
      <4> HIDE DEF e
      <4>4. Answer(offers, why)
        BY <3>4 DEF Offer
      <4>5. offers \in SUBSET {"regular", "dca"} /\ why \in WhyNots \cup {None} /\ "regular" \in offers
        BY <4>3 DEF WhyNots
      <4> HIDE DEF offers, why
      <4>6. answer'.offers = offers
        BY <4>4, <4>5, AnswerIs
      <4> QED
        BY <4>5, <4>6
    <3> HIDE DEF e
    <3> QED
      BY <1>1, <1>3, <2>4, <3>1, <3>3, <3>4, <3>5, OfferFits
  <2> QED
    BY <2>5, <2>6
<1> QED
  BY <1>2, <1>3

-----------------------------------------------------------------------------
(* What the invariant gives.                                               *)

LEMMA QuoteStarts == ASSUME QuoteAssumption, Init PROVE QuoteInv
<1>1. /\ market = 1 /\ cache = [k \in Keys |-> 1] /\ request \in Requests /\ cfg \in Configs
      /\ pc = "create" /\ todo = {} /\ eager = None /\ answer = None
      /\ params = [dca |-> None, boost |-> None, maxBoost |-> 0, regular |-> 0, dcaOrders |-> 0]
      /\ rate = [k \in Kinds |-> None] /\ quote = [k \in Kinds |-> None]
  BY DEF Init
<1>2. Len(Markets) \in Nat \ {0}
  BY DEF QuoteAssumption
<1>3. CachesFit
  BY <1>1, <1>2 DEF CachesFit
<1>4. RequestFits
  BY <1>1 DEF RequestFits
<1>5. DcaFits /\ RatesFit /\ BoostFits
  BY <1>1 DEF DcaFits, RatesFit, BoostFits, BoostCovered
<1>6. QuotesFit
  BY <1>1 DEF QuotesFit, HasQuote
<1>7. EagerFits
  BY <1>1, WhyNotIs DEF EagerFits
<1>8. AnswerFits /\ RegularWithheldOnlyByDca /\ PriceStopsOnlyTwoLegs
  BY <1>1 DEF AnswerFits, RegularWithheldOnlyByDca, PriceStopsOnlyTwoLegs
<1> QED
  BY <1>3, <1>4, <1>5, <1>6, <1>7, <1>8 DEF QuoteInv

LEMMA QuoteGoesOn == ASSUME QuoteAssumption, QuoteInv, [Next]_vars PROVE QuoteInv'
<1>1. CASE Move
  BY <1>1, MoveKeeps
<1>2. CASE Create
  BY <1>2, CreateKeeps
<1>3. CASE SetBoostQuoteParams
  BY <1>3, BoostKeeps
<1>4. CASE SetDcaQuoteParams
  BY <1>4, DcaKeeps
<1>5. CASE \E task \in {"orders", "dcaOrders"} : SetLimitOrders(task)
  BY <1>5, LimitOrdersKeep
<1>6. CASE Generate
  BY <1>6, GenerateKeeps
<1>7. CASE \E k \in Kinds : GetSwapRate(k) \/ GetPoolQuote(k)
  BY <1>7, GetSwapRateKeeps, GetPoolQuoteKeeps
<1>8. CASE Settle
  BY <1>8, SettleMoves
<1>9. CASE TestDca
  BY <1>9, TestDcaKeeps
<1>10. CASE TestRegular
  BY <1>10, TestRegularKeeps
<1>11. CASE UNCHANGED vars
  BY <1>11, RequestStays
<1> QED
  BY <1>1, <1>2, <1>3, <1>4, <1>5, <1>6, <1>7, <1>8, <1>9, <1>10, <1>11 DEF Next

LEMMA ExtraIs ==
  ASSUME QuoteAssumption, QuoteInv, NEW k \in Kinds, HasQuote(k) PROVE ExtraOf(k) \in Nat
<1>1. Waits(k)
  BY DEF QuoteInv, RequestFits, HasQuote
<1>2. IsDca(k) => params.dca.extra \in Nat
  BY <1>1, DcaIs DEF Waits
<1> QED
  BY <1>2 DEF ExtraOf

LEMMA PartsAddUp == ASSUME QuoteAssumption, QuoteInv PROVE DurationsAddUp
<1>1. ASSUME NEW k \in Kinds, HasQuote(k)
      PROVE  /\ quote[k].total = TotalOf(quote[k].durations)
             /\ quote[k].durations.swap = 2 * BlockSeconds + ExtraOf(k)
  <2> DEFINE d == Durations(request.src, request.dest, IsBoosted(k), request.onChain, cfg)
             extra == ExtraOf(k)
             longer == [swap |-> d.swap + extra, deposit |-> d.deposit, egress |-> d.egress]
  <2>1. quote[k].durations = longer /\ quote[k].total = TotalOf(d) + extra
    <3>1. PartsFit(request, cfg, extra, k, quote[k])
      BY <1>1 DEF QuoteInv, QuotesFit
    <3> QED
      BY <3>1 DEF PartsFit
  <2>2. d.swap \in Nat /\ d.deposit \in Nat /\ d.egress \in Nat /\ d.swap = 2 * BlockSeconds
    BY DurationsAre
  <2>3. extra \in Nat
    BY <1>1, ExtraIs
  <2>4. TotalOf(longer) = (d.swap + extra) + d.deposit + d.egress
    BY DEF TotalOf
  <2>5. TotalOf(d) = d.swap + d.deposit + d.egress
    BY DEF TotalOf
  <2>6. longer.swap = d.swap + extra
    OBVIOUS
  <2> HIDE DEF d, extra, longer
  <2> QED
    BY <2>1, <2>2, <2>3, <2>4, <2>5, <2>6 DEF extra
<1>2. pc \in {"eager", "done"} /\ HasQuote("dca") => Settled
  BY DEF QuoteInv, AnswerFits, Settled
<1>3. Settled => ExtraOf("dca") = ExtraOf("dcaBoosted")
  BY DEF ExtraOf, IsDca
<1>4. "dca" \in Kinds /\ "dcaBoosted" \in Kinds
  BY DEF Kinds
<1> QED
  BY <1>1, <1>2, <1>3, <1>4 DEF DurationsAddUp

\* null only where an oracle is missing.
LEMMA LivePriceIs ==
  ASSUME QuoteAssumption, QuoteInv, ~cfg.disableLpp,
         LivePriceSlippage(request.src, request.dest, cfg) = None
  PROVE  \E a \in BaseAssets(request.src, request.dest) : cfg.oracle[a] = None
<1> DEFINE bases == BaseAssets(request.src, request.dest)
           n == Cardinality(bases)
           Its(a) == IF a \in bases THEN cfg.oracle[a] ELSE 0
<1> SUFFICES ASSUME \A a \in bases : cfg.oracle[a] # None PROVE FALSE
  OBVIOUS
<1>1. n \in Nat
  <2>1. IsFiniteSet({request.src, request.dest})
    <3>1. IsFiniteSet({} \cup {request.src})
      BY FS_EmptySet, FS_AddElement
    <3>2. IsFiniteSet(({} \cup {request.src}) \cup {request.dest})
      BY <3>1, FS_AddElement
    <3>3. ({} \cup {request.src}) \cup {request.dest} = {request.src, request.dest}
      OBVIOUS
    <3> QED
      BY <3>2, <3>3
  <2>2. bases \subseteq {request.src, request.dest}
    BY DEF BaseAssets
  <2> QED
    BY <2>1, <2>2, FS_Subset, FS_CardinalityType
<1>2. /\ request.src \in Quoted /\ request.dest \in Quoted /\ bases \subseteq Quoted
      /\ cfg \in Configs
  BY RequestIs DEF BaseAssets
<1>3. cfg.oracle \in [Quoted -> Nat \cup {None}] /\ cfg.defaultLpp \in Nat \cup {None} /\ cfg.tightLpp \in Nat
  BY <1>2 DEF QuoteAssumption
<1>4. \A a \in bases : cfg.oracle[a] \in Nat
  BY <1>2, <1>3
<1>5. \A a : Its(a) \in Nat
  BY <1>4
<1>6. None \notin Int
  BY WhyNotIs
<1>7. ~\E a \in bases : Its(a) = None
  OBVIOUS
<1> HIDE DEF n
<1>8. \/ None = cfg.tightLpp * n
      \/ cfg.defaultLpp # None /\ None = cfg.defaultLpp * n
      \/ None = Its(request.src) + Its(request.dest)
  BY <1>7, Zenon DEF LivePriceSlippage, n
<1>9. cfg.tightLpp * n \in Int
  BY <1>1, <1>3
<1>10. cfg.defaultLpp # None => cfg.defaultLpp * n \in Int
  BY <1>1, <1>3
<1> HIDE DEF Its
<1>11. Its(request.src) + Its(request.dest) \in Int
  <2>1. Its(request.src) \in Nat /\ Its(request.dest) \in Nat
    BY <1>5
  <2> QED
    BY <2>1
<1> QED
  BY <1>6, <1>8, <1>9, <1>10, <1>11

LEMMA MarketFollowed == ASSUME QuoteAssumption, QuoteInv PROVE OffersFollowTheMarket
<1>1. TypeOK
  <2>1. /\ market \in 1..Len(Markets)
        /\ \A k \in Keys : cache[k] <= market /\ (cache[k] = 0 => k \in failed)
    <3>1. market \in 1..Len(Markets) /\ cache \in [Keys -> 0..market] /\ \A k \in Keys : cache[k] = 0 => k \in failed
      BY DEF QuoteInv, CachesFit
    <3> QED
      BY <3>1
  <2>2. /\ pc \in {"create", "params", "quotes", "eager", "done"}
        /\ \A k \in Kinds : quote[k] # None =>
             (IsDca(k) => params.dca # None) /\ (IsBoosted(k) => params.boost # None)
    BY DEF QuoteInv, RequestFits, Waits
  <2> QED
    BY <2>1, <2>2 DEF TypeOK, QuoteInv, AnswerFits
<1>2. DcaSplitsWhole
  <2> SUFFICES ASSUME params.dca # None PROVE DcaSplitsWhole
    BY DEF DcaSplitsWhole
  <2> DEFINE usd == {Markets[i].usd[request.src] * request.amount : i \in 1..market}
             n == params.dca.chunks
             gap == n * params.dca.chunkSize - request.amount
  <2>1. n \in 2..cfg.maxChunks /\ 2 * gap <= n /\ -2 * gap <= n
    BY DcaIs
  <2>2. \E u \in usd : u <= n * cfg.chunkUsd /\ u > (n - 1) * cfg.chunkUsd
    <3>1. PICK i \in 1..market :
            LET u == Markets[i].usd[request.src] * request.amount
            IN  u <= params.dca.chunks * cfg.chunkUsd /\ u > (params.dca.chunks - 1) * cfg.chunkUsd
      BY DcaIs
    <3>2. Markets[i].usd[request.src] * request.amount \in usd
      OBVIOUS
    <3> QED
      BY <3>1, <3>2
  <2> HIDE DEF usd
  <2> QED
    BY <2>1, <2>2 DEF DcaSplitsWhole, usd
<1>3. DurationsAddUp
  BY PartsAddUp
<1>4. QuotesPayOut
  <2> SUFFICES ASSUME NEW k \in Kinds, HasQuote(k)
      PROVE  quote[k].egress > 0 /\ (request.onChain \/ quote[k].egress >= cfg.minEgress)
    BY DEF QuotesPayOut
  <2>1. PartsFit(request, cfg, ExtraOf(k), k, quote[k])
    BY DEF QuoteInv, QuotesFit
  <2> QED
    BY <2>1 DEF PartsFit
<1>5. OverOfferedOnlyByMixedCaches
  <2> SUFFICES ASSUME pc = "done", NEW k \in answer.offers, ~(k = "dca" /\ eager = "v2")
      PROVE  Covered(k)
    BY DEF OverOfferedOnlyByMixedCaches, Covered
  <2>1. k \in {"regular", "dca"} /\ ("dca" \in answer.offers => eager # None)
        /\ ("regular" \in answer.offers => Covered("regular"))
    BY DEF QuoteInv, AnswerFits
  <2>2. eager \notin {None, "v2"} => Covered("dca")
    BY DEF QuoteInv, EagerFits
  <2> QED
    BY <2>1, <2>2
<1>6. UnprotectedOnlyWithoutOracle
  <2> SUFFICES ASSUME pc = "done", eager = "v2", quote["dca"].live = None
      PROVE  \E a \in BaseAssets(request.src, request.dest) : cfg.oracle[a] = None
    BY DEF UnprotectedOnlyWithoutOracle
  <2>1. HasQuote("dca") /\ ~cfg.disableLpp
    BY WhyNotIs DEF QuoteInv, EagerFits
  <2>2. PartsFit(request, cfg, ExtraOf("dca"), "dca", quote["dca"])
    BY <2>1 DEF QuoteInv, QuotesFit, Kinds
  <2>3. quote["dca"].live = LivePriceSlippage(request.src, request.dest, cfg)
    BY <2>2 DEF PartsFit
  <2> QED
    BY <2>1, <2>3, LivePriceIs
<1> QED
  BY <1>1, <1>2, <1>3, <1>4, <1>5, <1>6 DEF OffersFollowTheMarket, QuoteInv

(* While the market moves and fetches fail in any order, what is offered   *)
(* pays out something and could be paid by what the caches held at moments *)
(* that were, DCA v2 aside; the chunks of DCA make up the deposit and      *)
(* their durations the total; a regular quote that the market can pay is   *)
(* withheld only for a DCA quote that was rejected, and a price that is    *)
(* missing stops only a request with two legs (QuoteRequest.ts).           *)
THEOREM OffersFollow == Spec => []OffersFollowTheMarket
<1>1. QuoteAssumption
  BY QuoteAssumption
<1>2. Init => QuoteInv
  BY <1>1, QuoteStarts
<1>3. QuoteInv /\ [Next]_vars => QuoteInv'
  BY <1>1, QuoteGoesOn
<1>4. QuoteInv => OffersFollowTheMarket
  BY <1>1, MarketFollowed
<1> QED
  BY <1>2, <1>3, <1>4, PTL DEF Spec

-----------------------------------------------------------------------------
(* Rounding keeps the order.                                               *)

LEMMA DividesInOrder ==
  ASSUME NEW x \in Int, NEW y \in Int, x <= y, NEW d \in Nat \ {0}
  PROVE  x \div d <= y \div d
<1> DEFINE p == x \div d
           q == y \div d
           dp == d * p
           dq == d * q
<1>1. p \in Int /\ dp \in Int /\ dp <= x /\ q \in Int /\ dq \in Int /\ y < dq + d
  BY Divides
<1>2. dp < dq + d
  BY <1>1
<1> SUFFICES ASSUME p > q PROVE FALSE
  BY <1>1 DEF p, q
<1>3. \E j \in Nat : p = q + 1 + j
  <2>1. p - q - 1 \in Nat /\ p = q + 1 + (p - q - 1)
    BY <1>1
  <2> QED
    BY <2>1
<1> HIDE DEF p, q
<1>4. PICK j \in Nat : p = q + 1 + j
  BY <1>3
<1>5. d * j \in Nat
  BY ONLY j \in Nat, d \in Nat \ {0}
<1>6. d * (q + 1 + j) = d * q + d + d * j
  BY ONLY <1>1, j \in Nat, d \in Nat \ {0}
<1>7. dp = dq + d + d * j
  BY <1>4, <1>6
<1> HIDE DEF dp, dq
<1> QED
  BY <1>1, <1>2, <1>5, <1>7

LEMMA TimesInOrder ==
  ASSUME NEW x \in Int, NEW y \in Int, x <= y, NEW z \in Nat
  PROVE  x * z <= y * z /\ x * z \in Int /\ y * z \in Int
<1> DEFINE k == y - x
<1>1. k \in Nat /\ y = x + k
  OBVIOUS
<1> HIDE DEF k
<1>2. k * z \in Nat /\ x * z \in Int /\ (x + k) * z = x * z + k * z
  BY <1>1
<1> QED
  BY <1>1, <1>2

LEMMA WholePips == ASSUME NEW x \in Int PROVE PipAmount(x, 10000) = x /\ PipAmount(0, x) = 0
<1>1. PipAmount(x, 10000) = x
  BY DEF PipAmount, Cut, ONE_IN_PIP
<1>2. 0 * x = 0
  OBVIOUS
<1>3. PipAmount(0, x) = 0
  BY <1>2 DEF PipAmount, Cut, ONE_IN_PIP
<1> QED
  BY <1>1, <1>3

LEMMA RemainsNone == ASSUME NEW x \in Int PROVE (x * 2500) % 2500 = 0 /\ x * 2500 \in Int
OBVIOUS

\* A recommendation is a multiple of 0.25 within its bounds, and follows what it is of.
LEMMA ClampIs ==
  ASSUME NEW x \in Int
  PROVE  LET s == Clamp(Quarter(x))
         IN  s \in Int /\ s % (Percent \div 4) = 0 /\ s \in MinSlippage..MaxSlippage
<1> DEFINE h == HalfUp(x, 2500)
<1>1. h \in Int
  <2>1. 2 * x + 2500 \in Int
    OBVIOUS
  <2> QED
    BY <2>1 DEF HalfUp
<1> HIDE DEF h
<1>2. Quarter(x) = h * 2500
  BY DEF Quarter, Percent, h
<1>3. h * 2500 \in Int /\ (h * 2500) % 2500 = 0
  BY <1>1, RemainsNone
<1>4. 5000 % 2500 = 0 /\ 25000 % 2500 = 0 /\ Percent \div 4 = 2500 /\ MinSlippage = 5000 /\ MaxSlippage = 25000
  BY DEF Percent, MinSlippage, MaxSlippage
<1> DEFINE q == h * 2500
<1> HIDE DEF q
<1>5. q \in Int /\ q % 2500 = 0 /\ Quarter(x) = q
  BY <1>2, <1>3 DEF q
<1>6. Clamp(q) = IF q < 5000 THEN 5000 ELSE IF q > 25000 THEN 25000 ELSE q
  BY <1>4 DEF Clamp
<1> QED
  BY <1>4, <1>5, <1>6

LEMMA ClampInOrder ==
  ASSUME NEW x \in Int, NEW y \in Int, x <= y
  PROVE  Clamp(Quarter(x)) <= Clamp(Quarter(y))
<1> DEFINE h(z) == (2 * z + 2500) \div 5000
<1>1. Quarter(x) = h(x) * 2500 /\ Quarter(y) = h(y) * 2500
  BY DEF Quarter, HalfUp, Percent
<1>2. 2 * x + 2500 \in Int /\ 2 * y + 2500 \in Int /\ 2 * x + 2500 <= 2 * y + 2500
  OBVIOUS
<1>3. h(x) \in Int /\ h(y) \in Int /\ h(x) <= h(y)
  BY <1>2
<1> HIDE DEF h
<1>4. Quarter(x) \in Int /\ Quarter(y) \in Int /\ Quarter(x) <= Quarter(y)
  BY <1>1, <1>3
<1> QED
  BY <1>4 DEF Clamp, MinSlippage, MaxSlippage, Percent

-----------------------------------------------------------------------------
(* What a quote asks for liquidity follows its amounts.                    *)

LEMMA DeployedFollows ==
  ASSUME NEW x \in Int, NEW y \in Int, x <= y, NEW d \in Nat
  PROVE  /\ DeployedAdjustment(x, d) \in Int /\ DeployedAdjustment(y, d) \in Int
         /\ DeployedAdjustment(x, d) <= DeployedAdjustment(y, d)
<1> DEFINE f(z) == (z * 5000) \div d
<1>1. \A z : DeployedAdjustment(z, d) = IF 2 * z <= d THEN 0 ELSE IF d = 0 THEN 250000 ELSE f(z)
  BY DEF DeployedAdjustment, MaxSlippage, Percent
<1>2. CASE d = 0
  BY <1>1, <1>2
<1>3. CASE d # 0
  <2>1. x * 5000 \in Int /\ y * 5000 \in Int /\ x * 5000 <= y * 5000 /\ d \in Nat \ {0}
    BY <1>3
  <2>2. f(x) \in Int /\ f(y) \in Int
    BY <2>1, Divides
  <2>3. f(x) <= f(y)
    BY <2>1, DividesInOrder
  <2>4. ~(2 * y <= d) => 0 <= y * 5000
    OBVIOUS
  <2>5. 0 \div d = 0
    BY <2>1
  <2>6. ~(2 * y <= d) => f(y) >= 0
    <3> SUFFICES ASSUME ~(2 * y <= d) PROVE f(y) >= 0
      OBVIOUS
    <3>1. 0 \div d <= (y * 5000) \div d
      BY <2>1, <2>4, DividesInOrder
    <3> QED
      BY <2>2, <2>5, <3>1
  <2> HIDE DEF f
  <2>7. CASE 2 * x <= d
    BY <1>1, <1>3, <2>2, <2>6, <2>7
  <2>8. CASE ~(2 * x <= d)
    BY <1>1, <1>3, <2>2, <2>3, <2>8
  <2> QED
    BY <2>7, <2>8
<1> QED
  BY <1>2, <1>3

LEMMA UndeployedFollows ==
  ASSUME NEW x \in Int, NEW y \in Int, x <= y, NEW u \in Nat
  PROVE  /\ UndeployedAdjustment(x, u) \in Int /\ UndeployedAdjustment(y, u) \in Int
         /\ UndeployedAdjustment(x, u) <= UndeployedAdjustment(y, u)
BY DEF UndeployedAdjustment, Percent

LEMMA UndeployedIs ==
  ASSUME NEW m, IsMarket(m), NEW asset \in Quoted, NEW g
  PROVE  Undeployed(m.lps, asset, g) \in Nat
<1> DEFINE lps == m.lps
           values == [i \in DOMAIN lps |-> IF i \in LpAccounts(lps, g) THEN lps[i].free[asset] ELSE 0]
<1>1. Len(lps) \in Nat /\ DOMAIN lps = 1..Len(lps) /\ \A i \in 1..Len(lps) : lps[i].free \in [Quoted -> Nat]
  BY DEF IsMarket
<1> DEFINE n == Len(lps)
<1> HIDE DEF lps, n
<1>2. n \in Nat /\ values \in [1..n -> Nat]
  BY <1>1 DEF n
<1> HIDE DEF values
<1>3. Len(values) \in Nat /\ \A i \in 1..Len(values) : values[i] \in Nat
  BY <1>2
<1>4. SumOf(values) \in Nat
  <2>1. PICK sum \in [0..Len(values) -> Nat] : SumOf(values) = sum[Len(values)]
    BY <1>3, SumOfIs
  <2> QED
    BY <1>3, <2>1
<1> QED
  BY <1>4 DEF Undeployed, values, lps

LEMMA MaxOfTwo ==
  ASSUME NEW x \in Int, NEW y \in Int
  PROVE  LET m == Max({x, y}) IN m \in {x, y} /\ m >= x /\ m >= y
<1>1. \E m \in {x, y} : \A z \in {x, y} : m >= z
  <2>1. CASE x >= y
    BY <2>1
  <2>2. CASE y >= x
    BY <2>2
  <2> QED
    BY <2>1, <2>2
<1> QED
  BY <1>1 DEF Max

\* What one leg asks for.
LegNeeds(c, k, r, leg) ==
  DeployedAdjustment(LegOut(r, leg) * ChunksOfQuote(k), DeployedIn(c, leg))
  + UndeployedAdjustment(LegOut(r, leg) * ChunksOfQuote(k), UndeployedIn(c, leg))

\* The outputs of a rate that is worth a quote.
Whole(r) == /\ r.intermediate # None => ~OneLeg(request.src, request.dest)
            /\ r.intermediate = None => OneLeg(request.src, request.dest) \/ r.egress = 0

LEMMA LegsAre ==
  ASSUME QuoteAssumption, QuoteInv
  PROVE  \E l, m \in Legs(request.src, request.dest) :
            /\ Legs(request.src, request.dest) = {l, m}
            /\ BaseOf(l) \in Quoted \ {"Usdc"} /\ BaseOf(m) \in Quoted \ {"Usdc"}
            /\ l[2] \in Quoted /\ m[2] \in Quoted
<1>1. request.src \in Quoted /\ request.dest \in Quoted /\ request.src # request.dest /\ "Usdc" \in Quoted
  BY RequestIs
<1> DEFINE s == request.src
           d == request.dest
<1>2. CASE OneLeg(s, d)
  <2>1. Legs(s, d) = {<<s, d>>}
    BY <1>2 DEF Legs
  <2>2. BaseOf(<<s, d>>) \in Quoted \ {"Usdc"}
    BY <1>1, <1>2 DEF OneLeg, BaseOf
  <2> QED
    BY <1>1, <2>1, <2>2
<1>3. CASE ~OneLeg(s, d)
  <2>1. Legs(s, d) = {<<s, "Usdc">>, <<"Usdc", d>>}
    BY <1>3 DEF Legs
  <2>2. BaseOf(<<s, "Usdc">>) \in Quoted \ {"Usdc"} /\ BaseOf(<<"Usdc", d>>) \in Quoted \ {"Usdc"}
    BY <1>1, <1>3 DEF OneLeg, BaseOf
  <2> QED
    BY <1>1, <2>1, <2>2
<1> QED
  BY <1>2, <1>3

\* The second leg, where there are two, ends in the destination.
LEMMA LegOutIs ==
  ASSUME QuoteAssumption, QuoteInv, NEW r \in Rates, Whole(r), r.egress # 0,
         NEW leg \in Legs(request.src, request.dest)
  PROVE  LegOut(r, leg) \in Int
<1>1. r.egress \in Int /\ r.intermediate \in Int \cup {None}
  BY DEF Rates
<1>2. CASE leg[2] = request.dest
  BY <1>1, <1>2 DEF LegOut
<1>3. CASE leg[2] # request.dest
  <2>1. ~OneLeg(request.src, request.dest)
    BY <1>3 DEF Legs
  <2> QED
    BY <1>1, <1>3, <2>1 DEF LegOut, Whole
<1> QED
  BY <1>2, <1>3

LEMMA NeedsFollow ==
  ASSUME QuoteAssumption, QuoteInv, NEW c \in [Keys -> 0..market], \A x \in LiquidityKeys : c[x] # 0,
         NEW leg \in Legs(request.src, request.dest), NEW j, NEW k, ChunksOfQuote(j) \in Nat,
         ChunksOfQuote(k) = ChunksOfQuote(j), NEW r, NEW s,
         LegOut(r, leg) \in Int, LegOut(s, leg) \in Int, LegOut(r, leg) <= LegOut(s, leg)
  PROVE  /\ LegNeeds(c, j, r, leg) \in Int /\ LegNeeds(c, k, s, leg) \in Int
         /\ LegNeeds(c, j, r, leg) <= LegNeeds(c, k, s, leg)
<1> DEFINE x == <<"deployed", BaseOf(leg)>>
           y == <<"undeployed", leg[2]>>
           n == ChunksOfQuote(j)
           a == LegOut(r, leg) * n
           b == LegOut(s, leg) * n
           d == DeployedIn(c, leg)
           u == UndeployedIn(c, leg)
<1>1. x \in LiquidityKeys /\ y \in LiquidityKeys /\ LiquidityKeys \subseteq Keys
  BY KeysOfLegs DEF QuoteInv
<1>2. c[x] \in 1..market /\ c[y] \in 1..market
  <2>1. c[x] \in 0..market /\ c[y] \in 0..market /\ c[x] # 0 /\ c[y] # 0
    BY <1>1
  <2>2. market \in Nat \ {0}
    BY RequestIs
  <2> HIDE DEF x, y
  <2> QED
    BY <2>1, <2>2
<1>3. IsMarket(Markets[c[x]]) /\ IsMarket(Markets[c[y]])
  BY <1>2, RequestIs
<1>4. BaseOf(leg) \in Quoted \ {"Usdc"} /\ leg[2] \in Quoted
  BY LegsAre
<1>5. d \in Nat
  <2>1. Markets[c[x]].pools[BaseOf(leg)].base \in Nat /\ Markets[c[x]].pools[BaseOf(leg)].quote \in Nat
    BY <1>3, <1>4 DEF IsMarket
  <2> QED
    BY <2>1 DEF DeployedIn, Deployed
<1>6. u \in Nat
  BY <1>3, <1>4, UndeployedIs DEF UndeployedIn
<1>7. a \in Int /\ b \in Int /\ a <= b
  BY TimesInOrder
<1>8. /\ LegNeeds(c, j, r, leg) = DeployedAdjustment(a, d) + UndeployedAdjustment(a, u)
      /\ LegNeeds(c, k, s, leg) = DeployedAdjustment(b, d) + UndeployedAdjustment(b, u)
  BY DEF LegNeeds
<1> HIDE DEF a, b, d, u
<1>9. /\ DeployedAdjustment(a, d) \in Int /\ DeployedAdjustment(b, d) \in Int
      /\ DeployedAdjustment(a, d) <= DeployedAdjustment(b, d)
  BY <1>5, <1>7, DeployedFollows
<1>10. /\ UndeployedAdjustment(a, u) \in Int /\ UndeployedAdjustment(b, u) \in Int
       /\ UndeployedAdjustment(a, u) <= UndeployedAdjustment(b, u)
  BY <1>6, <1>7, UndeployedFollows
<1> QED
  BY <1>8, <1>9, <1>10

\* A rate that gives no more on any leg asks for no more.
LEMMA LiquidityFollows ==
  ASSUME QuoteAssumption, QuoteInv, NEW c \in [Keys -> 0..market], \A x \in LiquidityKeys : c[x] # 0,
         NEW j, NEW k, ChunksOfQuote(j) \in Nat, ChunksOfQuote(k) = ChunksOfQuote(j), NEW r, NEW s,
         \A leg \in Legs(request.src, request.dest) :
           LegOut(r, leg) \in Int /\ LegOut(s, leg) \in Int /\ LegOut(r, leg) <= LegOut(s, leg)
  PROVE  /\ LiquidityAdjustment(c, j, r) \in Int /\ LiquidityAdjustment(c, k, s) \in Int
         /\ LiquidityAdjustment(c, j, r) <= LiquidityAdjustment(c, k, s)
<1>1. PICK l, m \in Legs(request.src, request.dest) : Legs(request.src, request.dest) = {l, m}
  BY LegsAre
<1>2. \A leg \in {l, m} : /\ LegNeeds(c, j, r, leg) \in Int /\ LegNeeds(c, k, s, leg) \in Int
                          /\ LegNeeds(c, j, r, leg) <= LegNeeds(c, k, s, leg)
  BY <1>1, NeedsFollow
<1>3. /\ LiquidityAdjustment(c, j, r) = Max({LegNeeds(c, j, r, l), LegNeeds(c, j, r, m)})
      /\ LiquidityAdjustment(c, k, s) = Max({LegNeeds(c, k, s, l), LegNeeds(c, k, s, m)})
  <2>1. /\ LiquidityAdjustment(c, j, r) = Max({LegNeeds(c, j, r, leg) : leg \in Legs(request.src, request.dest)})
        /\ LiquidityAdjustment(c, k, s) = Max({LegNeeds(c, k, s, leg) : leg \in Legs(request.src, request.dest)})
    BY DEF LiquidityAdjustment, LegNeeds
  <2>2. /\ {LegNeeds(c, j, r, leg) : leg \in {l, m}} = {LegNeeds(c, j, r, l), LegNeeds(c, j, r, m)}
        /\ {LegNeeds(c, k, s, leg) : leg \in {l, m}} = {LegNeeds(c, k, s, l), LegNeeds(c, k, s, m)}
    OBVIOUS
  <2> QED
    BY <1>1, <2>1, <2>2
<1> DEFINE a1 == LegNeeds(c, j, r, l)
           a2 == LegNeeds(c, j, r, m)
           b1 == LegNeeds(c, k, s, l)
           b2 == LegNeeds(c, k, s, m)
           p == Max({a1, a2})
           q == Max({b1, b2})
<1>4. a1 \in Int /\ a2 \in Int /\ b1 \in Int /\ b2 \in Int /\ a1 <= b1 /\ a2 <= b2
  BY <1>2
<1>5. LiquidityAdjustment(c, j, r) = p /\ LiquidityAdjustment(c, k, s) = q
  BY <1>3
<1> HIDE DEF a1, a2, b1, b2
<1>6. p \in {a1, a2} /\ q >= b1 /\ q >= b2 /\ q \in {b1, b2}
  BY <1>4, MaxOfTwo
<1> HIDE DEF p, q
<1>7. p \in Int /\ q \in Int /\ p <= q
  BY <1>4, <1>6
<1> QED
  BY <1>5, <1>7

-----------------------------------------------------------------------------
(* What the node answers follows the deposit.                              *)

\* A rate that pays out, in its parts.
LEMMA SwapRateOut ==
  ASSUME QuoteAssumption, QuoteInv, NEW k \in Kinds, Waits(k), SwapRate(k) # Rejected
  PROVE  /\ Whole(SwapRate(k))
         /\ SwapRate(k).egress # 0 =>
              /\ InputOf(k) > IngressFee /\ SwapRate(k).ingress = IngressFee /\ SwapRate(k).egressFee = EgressFee
              /\ SwapRate(k).egress + SwapRate(k).egressFee = FinalLeg(k) * ChunksOfQuote(k)
              /\ SwapRate(k).intermediate =
                   IF OneLeg(request.src, request.dest) THEN None ELSE Middle(k) * ChunksOfQuote(k)
<1> DEFINE n == ChunksOfQuote(k)
           m == Middle(k)
           l == FinalLeg(k)
           i == InputOf(k)
           s == SwapRate(k)
           small == [ingress |-> IngressFee, intermediate |-> None, egress |-> 0, network |-> 0, egressFee |-> EgressFee]
           large == [ingress |-> IngressFee, intermediate |-> IF OneLeg(request.src, request.dest) THEN None ELSE m * n,
                     egress |-> IF l * n > EgressFee THEN l * n - EgressFee ELSE 0,
                     network |-> (m \div 1000) * n, egressFee |-> EgressFee]
<1>1. IF i <= IngressFee THEN s = small ELSE s = large
  BY Zenon DEF SwapRate, Middle, FinalLeg, Worth, PriceNow
<1>2. n \in Int /\ m \in Int /\ l \in Int /\ IngressFee \in Int /\ EgressFee \in Int /\ i \in Int
  <2>1. n \in Nat \ {0} /\ IngressFee \in Nat /\ EgressFee \in Nat
    BY ChunksAre, FeesAre
  <2>2. m \in Int /\ l \in Int
    BY MiddleIs
  <2>3. i \in Int
    BY InputIs
  <2> QED
    BY <2>1, <2>2, <2>3
<1>3. None \notin Int
  BY DEF QuoteAssumption
<1> HIDE DEF n, m, l, i, s
<1> DEFINE p == m * n
           q == l * n
<1>4. p \in Int /\ q \in Int
  BY <1>2
<1> HIDE DEF p, q
<1>5. CASE i <= IngressFee
  <2>1. s = small
    BY <1>1, <1>5
  <2>2. s.egress = 0 /\ s.intermediate = None
    BY <2>1
  <2> QED
    BY <2>2 DEF s, Whole
<1>6. CASE ~(i <= IngressFee)
  <2>1. /\ s.ingress = IngressFee /\ s.egressFee = EgressFee
        /\ s.intermediate = IF OneLeg(request.src, request.dest) THEN None ELSE p
        /\ s.egress = IF q > EgressFee THEN q - EgressFee ELSE 0
    BY <1>1, <1>6 DEF p, q
  <2>2. Whole(s)
    BY <1>3, <1>4, <2>1 DEF Whole
  <2>3. s.egress # 0 => s.egress + s.egressFee = q /\ i > IngressFee
    BY <1>2, <1>4, <1>6, <2>1
  <2> QED
    BY <2>1, <2>2, <2>3 DEF s, p, q, n, m, l, i
<1> QED
  BY <1>5, <1>6

LEMMA WorthInOrder ==
  ASSUME QuoteAssumption, QuoteInv, NEW s \in Quoted, NEW d \in Quoted, NEW x \in Int, NEW y \in Int, x <= y
  PROVE  Worth(s, d, x) <= Worth(s, d, y)
<1> DEFINE a == PriceNow[s]
           b == PriceNow[d]
           p == x * a
           q == y * a
<1>1. a \in Nat \ {0} /\ b \in Nat \ {0}
  BY PricesAre
<1> HIDE DEF a, b
<1>2. p \in Int /\ q \in Int /\ p <= q
  BY <1>1, TimesInOrder
<1> HIDE DEF p, q
<1>3. p \div b <= q \div b
  BY <1>1, <1>2, DividesInOrder
<1> QED
  BY <1>3 DEF Worth, a, b, p, q

LEMMA MiddleInOrder ==
  ASSUME QuoteAssumption, QuoteInv, NEW j \in Kinds, NEW k \in Kinds, Waits(j), Waits(k),
         InputOf(j) <= InputOf(k), ChunksOfQuote(j) = ChunksOfQuote(k)
  PROVE  Middle(j) <= Middle(k) /\ FinalLeg(j) <= FinalLeg(k)
<1> DEFINE n == ChunksOfQuote(k)
           x == InputOf(j) - IngressFee
           y == InputOf(k) - IngressFee
           u == x \div n
           v == y \div n
           l == Middle(j)
           m == Middle(k)
           f == l - l \div 1000
           g == m - m \div 1000
<1>1. request.src \in Quoted /\ request.dest \in Quoted /\ "Usdc" \in Quoted
  BY RequestIs
<1>2. n \in Nat \ {0} /\ x \in Int /\ y \in Int /\ x <= y
  <2>1. InputOf(j) \in Int /\ InputOf(k) \in Int /\ IngressFee \in Nat
    BY InputIs, FeesAre
  <2>2. n \in Nat \ {0}
    BY ChunksAre
  <2> HIDE DEF n
  <2> QED
    BY <2>1, <2>2
<1>3. l = Worth(request.src, "Usdc", u) /\ m = Worth(request.src, "Usdc", v)
  BY DEF Middle
<1>4. FinalLeg(j) = Worth("Usdc", request.dest, f) /\ FinalLeg(k) = Worth("Usdc", request.dest, g)
  BY DEF FinalLeg
<1> HIDE DEF n, x, y, l, m
<1>5. u \in Int /\ v \in Int /\ u <= v
  <2>1. u \in Int /\ v \in Int
    BY <1>2, Divides
  <2>2. u <= v
    BY <1>2, DividesInOrder
  <2> QED
    BY <2>1, <2>2
<1> HIDE DEF u, v
<1>6. l <= m /\ l \in Int /\ m \in Int
  <2>1. l <= m
    BY <1>1, <1>3, <1>5, WorthInOrder
  <2>2. l \in Int /\ m \in Int
    BY <1>1, <1>3, <1>5, WorthIs
  <2> QED
    BY <2>1, <2>2
<1>7. f \in Int /\ g \in Int /\ f <= g
  BY <1>6
<1> HIDE DEF f, g
<1>8. FinalLeg(j) <= FinalLeg(k)
  BY <1>1, <1>4, <1>7, WorthInOrder
<1> QED
  BY <1>6, <1>8 DEF l, m

\* What a boost costs only makes the outputs smaller.
LEMMA BoostedRate ==
  ASSUME QuoteAssumption, QuoteInv, NEW j \in Kinds, NEW k \in Kinds, Waits(j), Waits(k),
         InputOf(j) <= InputOf(k), ChunksOfQuote(j) = ChunksOfQuote(k),
         SwapRate(j) # Rejected, SwapRate(k) # Rejected, SwapRate(j).egress # 0, SwapRate(k).egress # 0
  PROVE  /\ SwapRate(j).egress <= SwapRate(k).egress
         /\ OneLeg(request.src, request.dest) \/ SwapRate(j).intermediate <= SwapRate(k).intermediate
<1> DEFINE n == ChunksOfQuote(k)
           l == Middle(j)
           m == Middle(k)
           a == FinalLeg(j)
           b == FinalLeg(k)
           p == SwapRate(j)
           q == SwapRate(k)
<1>1. n \in Nat
  BY ChunksAre
<1>2. l \in Int /\ m \in Int /\ a \in Int /\ b \in Int
  BY MiddleIs
<1>3. l <= m /\ a <= b
  BY MiddleInOrder
<1>4. p.egressFee = EgressFee /\ p.egress + p.egressFee = a * n
      /\ p.intermediate = IF OneLeg(request.src, request.dest) THEN None ELSE l * n
  BY SwapRateOut
<1>5. q.egressFee = EgressFee /\ q.egress + q.egressFee = b * n
      /\ q.intermediate = IF OneLeg(request.src, request.dest) THEN None ELSE m * n
  BY SwapRateOut
<1>6. p.egress \in Int /\ q.egress \in Int /\ EgressFee \in Int
  <2>1. p \in Rates /\ q \in Rates
    BY SwapRateIs
  <2> QED
    BY <2>1, FeesAre DEF Rates
<1> HIDE DEF n, l, m, a, b, p, q
<1>7. a * n <= b * n /\ l * n <= m * n
  BY <1>1, <1>2, <1>3, TimesInOrder
<1>8. p.egress <= q.egress
  BY <1>4, <1>5, <1>6, <1>7
<1>9. OneLeg(request.src, request.dest) \/ p.intermediate <= q.intermediate
  BY <1>4, <1>5, <1>7
<1> QED
  BY <1>8, <1>9 DEF p, q

LEMMA InputInOrder ==
  ASSUME QuoteAssumption, QuoteInv, NEW j \in Kinds, NEW k \in Kinds, Waits(j), IsBoosted(j), ~IsBoosted(k)
  PROVE  InputOf(j) <= InputOf(k)
<1> DEFINE p == request.amount * params.boost
<1>1. request.amount \in Nat
  BY RequestIs
<1>2. params.boost \in Nat
  BY DEF Waits, QuoteInv, BoostFits
<1>3. p \in Nat
  BY <1>1, <1>2
<1> HIDE DEF p
<1>4. p \div 10000 \in Nat
  BY <1>3
<1>5. PipAmount(request.amount, params.boost) = p \div 10000
  BY <1>3 DEF PipAmount, Cut, ONE_IN_PIP, p
<1> QED
  BY <1>1, <1>4, <1>5 DEF InputOf

\* One confirmation is not waited for longer than the safety margin and one more.
LEMMA DepositTimeFollows ==
  ASSUME QuoteAssumption, QuoteInv, cfg.margin[request.src] \notin {None, 0}
  PROVE  /\ DepositTimeAdjustment(request.src, TRUE, cfg) \in Int
         /\ DepositTimeAdjustment(request.src, FALSE, cfg) \in Int
         /\ DepositTimeAdjustment(request.src, TRUE, cfg) <= DepositTimeAdjustment(request.src, FALSE, cfg)
<1> DEFINE t == cfg.blockTime[request.src]
           m == cfg.margin[request.src]
           x == 1 * t
           y == (m + 1) * t
           f(z) == IF z > 1200 THEN 10000 ELSE (z * 10000) \div 1200
<1>1. t \in Nat /\ m \in Nat
  BY RequestIs
<1>2. /\ DepositTimeAdjustment(request.src, TRUE, cfg) = f(x)
      /\ DepositTimeAdjustment(request.src, FALSE, cfg) = f(y)
  BY DEF DepositTimeAdjustment, Confirmations, Percent
<1> HIDE DEF t, m
<1>3. x \in Nat /\ y \in Nat /\ x <= y
  BY <1>1, TimesInOrder
<1> HIDE DEF x, y
<1>4. (x * 10000) \div 1200 \in Int /\ (y * 10000) \div 1200 \in Int /\ (x * 10000) \div 1200 <= (y * 10000) \div 1200
  BY <1>3
<1>5. x <= 1200 => (x * 10000) \div 1200 <= 10000
  BY <1>3
<1> DEFINE u == (x * 10000) \div 1200
           v == (y * 10000) \div 1200
<1>6. f(x) = (IF x > 1200 THEN 10000 ELSE u) /\ f(y) = (IF y > 1200 THEN 10000 ELSE v)
  OBVIOUS
<1>7. u \in Int /\ v \in Int /\ u <= v /\ (x <= 1200 => u <= 10000)
  BY <1>4, <1>5
<1> HIDE DEF u, v, f
<1>8. f(x) \in Int /\ f(y) \in Int /\ f(x) <= f(y)
  BY <1>3, <1>6, <1>7
<1> QED
  BY <1>2, <1>8

LEMMA DepositTimeIs ==
  ASSUME QuoteAssumption, QuoteInv, NEW boosted
  PROVE  DepositTimeAdjustment(request.src, boosted, cfg) \in Int
<1> DEFINE t == cfg.blockTime[request.src]
           n == Confirmations(request.src, boosted, cfg)
           z == n * t
<1>1. t \in Nat /\ n \in Nat
  <2>1. t \in Nat /\ cfg.margin[request.src] \in Nat \cup {None}
    BY RequestIs
  <2> QED
    BY <2>1 DEF Confirmations
<1> HIDE DEF t, n
<1>2. z \in Nat
  BY <1>1
<1> HIDE DEF z
<1>3. (z * 10000) \div 1200 \in Int
  BY <1>2
<1>4. DepositTimeAdjustment(request.src, boosted, cfg) = IF z > 1200 THEN 10000 ELSE (z * 10000) \div 1200
  BY DEF DepositTimeAdjustment, Percent, z, n, t
<1> QED
  BY <1>3, <1>4

\* Without a price impact the rate stays as it is.
LEMMA ImpactKeeps ==
  ASSUME QuoteAssumption, QuoteInv, NEW r \in Rates, NEW c \in [Keys -> 0..market], Whole(r)
  PROVE  Whole(Impact(c, r)) /\ (~Impacted => Impact(c, r) = r)
<1> DEFINE first == cfg.impact[IF request.src = "Usdc" THEN request.dest ELSE request.src]
           second == IF r.intermediate = None THEN 0 ELSE cfg.impact[request.dest]
           usd1 == UsdValue(c, request.src, request.amount)
           usd2 == IF r.intermediate = None THEN 0 ELSE UsdValue(c, "Usdc", r.intermediate)
           impact1 == ImpactBps(first, usd1)
           impact2 == ImpactBps(second, usd2)
<1>1. CASE usd1 = None \/ usd2 = None
  <2>1. Impact(c, r) = r
    BY <1>1 DEF Impact
  <2> QED
    BY <2>1
<1>2. CASE ~(usd1 = None \/ usd2 = None)
  <2> DEFINE a == impact1
             b == impact2
  <2>1. Impact(c, r) = WithImpact(r, a, b)
    BY <1>2, Zenon DEF Impact
  <2>2. a \in Int /\ b \in Int /\ (~Impacted => a = 0 /\ b = 0)
    <3>1. r.intermediate # None => ~OneLeg(request.src, request.dest)
      BY DEF Whole
    <3>2. /\ a \in Int /\ b \in Int
          /\ ~Impacted /\ (r.intermediate # None => ~OneLeg(request.src, request.dest)) => a = 0 /\ b = 0
      BY <1>2, ImpactsAre
    <3> HIDE DEF a, b
    <3> QED
      BY <3>1, <3>2
  <2> HIDE DEF a, b
  <2>3. None \notin Int /\ r.intermediate \in Int \cup {None} /\ r.egress \in Int /\ r.network \in Int /\ r.egressFee \in Int
    BY DEF Rates, QuoteAssumption
  <2> DEFINE both == 10000 - a - b
             one == 10000 - a
             i == IF r.intermediate = None THEN None ELSE PipAmount(r.intermediate, one)
  <2>4. both \in Int /\ one \in Int
    BY <2>2
  <2>5. WithImpact(r, a, b) = [r EXCEPT !.network = PipAmount(r.network, one), !.egressFee = PipAmount(r.egressFee, both),
                                        !.intermediate = i, !.egress = PipAmount(r.egress, both)]
    BY DEF WithImpact, ONE_IN_PIP
  <2>6. i = None <=> r.intermediate = None
    <3> HIDE DEF one
    <3>1. r.intermediate # None => PipAmount(r.intermediate, one) \in Int
      <4> SUFFICES ASSUME r.intermediate # None PROVE PipAmount(r.intermediate, one) \in Int
        OBVIOUS
      <4> DEFINE x == r.intermediate
      <4>1. x \in Int
        BY <2>3
      <4> HIDE DEF x
      <4>2. PipAmount(x, one) \in Int
        BY <2>4, <4>1, PipAmountIsInt
      <4> QED
        BY <4>2 DEF x
    <3> QED
      BY <2>3, <3>1
  <2>7. r.egress = 0 => PipAmount(r.egress, both) = 0
    BY <2>4, WholePips
  <2>8. ~Impacted => /\ PipAmount(r.network, one) = r.network /\ PipAmount(r.egressFee, both) = r.egressFee
                     /\ i = r.intermediate /\ PipAmount(r.egress, both) = r.egress
    <3> SUFFICES ASSUME ~Impacted
        PROVE  /\ PipAmount(r.network, one) = r.network /\ PipAmount(r.egressFee, both) = r.egressFee
               /\ i = r.intermediate /\ PipAmount(r.egress, both) = r.egress
      OBVIOUS
    <3>1. one = 10000 /\ both = 10000
      BY <2>2
    <3> HIDE DEF one, both
    <3>2. \A x \in Int : PipAmount(x, one) = x /\ PipAmount(x, both) = x
      BY <3>1, WholePips
    <3> QED
      BY <2>3, <3>2
  <2> DEFINE w == WithImpact(r, a, b)
             n == PipAmount(r.network, one)
             f == PipAmount(r.egressFee, both)
             e == PipAmount(r.egress, both)
  <2> HIDE DEF i, n, f, e, one, both
  <2>9. w = [r EXCEPT !.network = n, !.egressFee = f, !.intermediate = i, !.egress = e]
    BY <2>5 DEF n, f, e
  <2>10. r = [ingress |-> r.ingress, intermediate |-> r.intermediate, egress |-> r.egress,
              network |-> r.network, egressFee |-> r.egressFee]
    BY DEF Rates
  <2> HIDE DEF w
  <2>11. w = [ingress |-> r.ingress, intermediate |-> i, egress |-> e, network |-> n, egressFee |-> f]
    BY <2>9, <2>10
  <2>12. Whole(w)
    BY <2>6, <2>7, <2>11 DEF Whole, e
  <2>13. ~Impacted => w = r
    <3> SUFFICES ASSUME ~Impacted PROVE w = r
      OBVIOUS
    <3>1. i = r.intermediate /\ e = r.egress /\ n = r.network /\ f = r.egressFee
      BY <2>8 DEF e, n, f
    <3> QED
      BY <2>10, <2>11, <3>1
  <2> QED
    BY <2>1, <2>12, <2>13 DEF w
<1> QED
  BY <1>1, <1>2

-----------------------------------------------------------------------------
(* Where a quote comes from.                                               *)

\* While the market stands still a rate is what the node would answer again.
NodeFits == pc = "quotes" => \A k \in Kinds \cap todo : rate[k] # None =>
  Whole(rate[k]) /\ (market = 1 => rate[k] = SwapRate(k) /\ rate[k] # Rejected)

From(k, q, c, r) ==
  /\ r \in Rates /\ Whole(r) /\ ~TooLow(r)
  /\ c \in [Keys -> 0..market] /\ \A x \in QuoteKeys(k) \ {Prices} : c[x] # 0
  /\ market = 1 /\ ~(IsDca(k) /\ Impacted) => r = SwapRate(k) /\ r # Rejected
  /\ q.egress = r.egress /\ q.intermediate = r.intermediate
  /\ q.warning = QuoteOf(c, k, r).warning /\ q.slippage = QuoteOf(c, k, r).slippage

OriginFits == \A k \in Kinds : HasQuote(k) => \E c, r : From(k, quote[k], c, r)

OriginInv == NodeFits /\ OriginFits

LEMMA SwapRateStays ==
  ASSUME NEW k, UNCHANGED <<market, request, cfg, params>> PROVE SwapRate(k)' = SwapRate(k)
BY DEF SwapRate, InputOf, ChunksOfQuote, OrdersOf, IngressFee, EgressFee, ExcludedFees

LEMMA QuoteOfStays ==
  ASSUME NEW k, NEW c, NEW r, UNCHANGED <<request, cfg, params>>
  PROVE  QuoteOf(c, k, r)' = QuoteOf(c, k, r)
<1>1. Warning(c, k, r)' = Warning(c, k, r)
  BY DEF Warning, UsdValue, InputOf
<1>2. LiquidityAdjustment(c, k, r)' = LiquidityAdjustment(c, k, r)
  BY DEF LiquidityAdjustment, LegOut, ChunksOfQuote, DeployedIn, UndeployedIn
<1> QED
  BY <1>1, <1>2 DEF QuoteOf, IsTight, InputOf

LEMMA OriginStays ==
  ASSUME QuoteInv, OriginFits, UNCHANGED <<request, cfg, params>>, market' \in Nat, market <= market',
         \A k \in Kinds : HasQuote(k)' =>
           /\ HasQuote(k) /\ quote'[k].egress = quote[k].egress /\ quote'[k].intermediate = quote[k].intermediate
           /\ quote'[k].warning = quote[k].warning /\ quote'[k].slippage = quote[k].slippage
  PROVE  OriginFits'
<1> SUFFICES ASSUME NEW k \in Kinds, HasQuote(k)' PROVE \E c, r : From(k, quote[k], c, r)'
  BY DEF OriginFits
<1>1. PICK c, r : From(k, quote[k], c, r)
  BY DEF OriginFits
<1>2. (TooLow(r)' <=> TooLow(r)) /\ (Whole(r)' <=> Whole(r)) /\ QuoteKeys(k)' = QuoteKeys(k) /\ (Impacted' <=> Impacted)
  BY DEF TooLow, Whole, QuoteKeys, IsTight, LiquidityKeys, Impacted
<1>3. QuoteOf(c, k, r)' = QuoteOf(c, k, r)
  BY QuoteOfStays
<1>4. c \in [Keys -> 0..market']
  <2>1. c \in [Keys -> 0..market] /\ market \in Nat
    BY <1>1 DEF From, QuoteInv, CachesFit
  <2> QED
    BY <2>1
<1>5. market' = 1 => market = 1 /\ SwapRate(k)' = SwapRate(k)
  <2> SUFFICES ASSUME market' = 1 PROVE market = 1 /\ SwapRate(k)' = SwapRate(k)
    OBVIOUS
  <2>1. market \in Nat \ {0}
    BY DEF QuoteInv, CachesFit
  <2>2. market' = market
    BY <2>1
  <2> QED
    BY <2>2, SwapRateStays
<1>6. From(k, quote[k], c, r)'
  BY <1>1, <1>2, <1>3, <1>4, <1>5 DEF From
<1> QED
  BY <1>6

LEMMA RatesStay ==
  ASSUME QuoteInv, NodeFits, UNCHANGED <<request, cfg, params>>, market' \in Nat, market <= market',
         pc' = "quotes" => pc = "quotes" /\ todo' \subseteq todo /\ rate' = rate
  PROVE  NodeFits'
<1> SUFFICES ASSUME pc' = "quotes", NEW k \in Kinds \cap todo', rate'[k] # None
    PROVE  Whole(rate[k])' /\ (market' = 1 => rate'[k] = SwapRate(k)' /\ rate'[k] # Rejected)
  BY DEF NodeFits
<1>1. Whole(rate[k]) /\ (market = 1 => rate[k] = SwapRate(k) /\ rate[k] # Rejected)
  BY DEF NodeFits
<1>2. Whole(rate[k])'
  BY <1>1 DEF Whole
<1>3. market' = 1 => market = 1 /\ SwapRate(k)' = SwapRate(k)
  <2> SUFFICES ASSUME market' = 1 PROVE market = 1 /\ SwapRate(k)' = SwapRate(k)
    OBVIOUS
  <2>1. market \in Nat \ {0}
    BY DEF QuoteInv, CachesFit
  <2>2. market' = market
    BY <2>1
  <2> QED
    BY <2>2, SwapRateStays
<1> QED
  BY <1>1, <1>2, <1>3

\* Before the node is asked there is no rate and no quote.
LEMMA NothingQuoted ==
  ASSUME QuoteInv, pc \in {"create", "params"}, UNCHANGED <<rate, quote>>
  PROVE  OriginInv'
<1>1. \A k \in Kinds : rate'[k] = None /\ quote'[k] = None
  BY DEF QuoteInv, RequestFits
<1>2. NodeFits'
  BY <1>1 DEF NodeFits
<1>3. OriginFits'
  BY <1>1 DEF OriginFits, HasQuote
<1> QED
  BY <1>2, <1>3 DEF OriginInv

LEMMA RateOrigin ==
  ASSUME QuoteAssumption, QuoteInv, OriginInv, NEW k \in Kinds, GetSwapRate(k) PROVE OriginInv'
<1>1. /\ pc = "quotes" /\ k \in todo /\ rate[k] = None
      /\ UNCHANGED <<market, cache, failed, request, cfg, pc, params, eager, answer>>
      /\ rate' = [rate EXCEPT ![k] = SwapRate(k)]
  BY DEF GetSwapRate
<1>2. \/ rate'[k] = Rejected /\ quote' = [quote EXCEPT ![k] = Rejected] /\ todo' = todo \ {k}
      \/ rate'[k] # Rejected /\ UNCHANGED <<quote, todo>>
  BY DEF GetSwapRate
<1>3. Waits(k) /\ rate = [x \in Kinds |-> rate[x]] /\ quote = [x \in Kinds |-> quote[x]] /\ market \in Nat
  BY <1>1 DEF QuoteInv, RequestFits, CachesFit
<1>4. rate'[k] = SwapRate(k) /\ \A x \in Kinds \ {k} : rate'[x] = rate[x]
  BY <1>1, <1>3
<1>5. \A x \in Kinds : HasQuote(x)' => quote'[x] = quote[x] /\ HasQuote(x)
  BY <1>2, <1>3 DEF HasQuote
<1>6. OriginFits'
  BY <1>1, <1>3, <1>5, OriginStays DEF OriginInv
<1>7. NodeFits'
  <2> SUFFICES ASSUME NEW x \in Kinds \cap todo', rate'[x] # None
      PROVE  Whole(rate[x])' /\ (market' = 1 => rate'[x] = SwapRate(x)' /\ rate'[x] # Rejected)
    BY DEF NodeFits
  <2>1. SwapRate(x)' = SwapRate(x) /\ market' = market
    BY <1>1, SwapRateStays
  <2>2. CASE x = k
    <3>1. rate'[k] # Rejected
      BY <1>2, <2>2
    <3>2. Whole(SwapRate(k))
      BY <1>3, <1>4, <3>1, SwapRateOut
    <3>3. Whole(rate[k])'
      BY <1>1, <1>4, <3>2 DEF Whole
    <3> QED
      BY <1>4, <2>1, <2>2, <3>1, <3>3
  <2>3. CASE x # k
    <3>1. x \in todo /\ rate[x] = rate'[x]
      BY <1>2, <1>4, <2>3
    <3>2. Whole(rate[x]) /\ (market = 1 => rate[x] = SwapRate(x) /\ rate[x] # Rejected)
      BY <1>1, <3>1 DEF NodeFits, OriginInv
    <3>3. Whole(rate[x])'
      BY <1>1, <3>1, <3>2 DEF Whole
    <3> QED
      BY <2>1, <3>1, <3>2, <3>3
  <2> QED
    BY <2>2, <2>3
<1> QED
  BY <1>6, <1>7 DEF OriginInv

LEMMA QuoteOrigin ==
  ASSUME QuoteAssumption, QuoteInv, OriginInv, NEW k \in Kinds, GetPoolQuote(k) PROVE OriginInv'
<1>1. /\ pc = "quotes" /\ k \in todo /\ rate[k] # None
      /\ UNCHANGED <<market, request, cfg, pc, params, eager, answer>>
      /\ todo' = todo \ {k} /\ rate' = [rate EXCEPT ![k] = None]
  BY DEF GetPoolQuote
<1> DEFINE R(c) == IF IsDca(k) THEN Impact(c, rate[k]) ELSE rate[k]
           Needed(c) == IF TooLow(R(c)) THEN QuoteKeys(k) \ LiquidityKeys ELSE QuoteKeys(k)
<1>2. PICK c \in Lookup(QuoteKeys(k)) :
        quote' = [quote EXCEPT ![k] =
             IF TooLow(R(c)) \/ Lost(Needed(c) \ {Prices}, c) THEN Rejected ELSE QuoteOf(c, k, R(c))]
  BY DEF GetPoolQuote
<1>3. rate = [x \in Kinds |-> rate[x]] /\ quote = [x \in Kinds |-> quote[x]] /\ market \in Nat
  BY DEF QuoteInv, RequestFits, CachesFit
<1>4. LiquidityKeys \in SUBSET Keys
  BY KeysOfLegs DEF QuoteInv
<1>5. QuoteKeys(k) \in SUBSET Keys
  BY <1>4 DEF QuoteKeys, Keys, Prices
<1>6. c \in [Keys -> 0..market]
  BY <1>5, LookupFits DEF QuoteInv
<1>7. NodeFits'
  <2> SUFFICES ASSUME NEW x \in Kinds \cap todo', rate'[x] # None
      PROVE  Whole(rate[x])' /\ (market' = 1 => rate'[x] = SwapRate(x)' /\ rate'[x] # Rejected)
    BY DEF NodeFits
  <2>1. SwapRate(x)' = SwapRate(x) /\ market' = market
    BY <1>1, SwapRateStays
  <2>2. x \in todo /\ rate[x] = rate'[x]
    BY <1>1, <1>3
  <2>3. Whole(rate[x]) /\ (market = 1 => rate[x] = SwapRate(x) /\ rate[x] # Rejected)
    BY <1>1, <2>2 DEF NodeFits, OriginInv
  <2>4. Whole(rate[x])'
    BY <1>1, <2>2, <2>3 DEF Whole
  <2> QED
    BY <2>1, <2>2, <2>3, <2>4
<1>8. rate[k] \in Rates /\ Whole(rate[k]) /\ (market = 1 => rate[k] = SwapRate(k) /\ rate[k] # Rejected)
  BY <1>1 DEF QuoteInv, RatesFit, NodeFits, OriginInv
<1>9. PICK r : r = R(c)
  OBVIOUS
<1>10. r \in Rates /\ Whole(r) /\ (~(IsDca(k) /\ Impacted) => r = rate[k])
  <2>1. Impact(c, rate[k]) \in Rates /\ Whole(Impact(c, rate[k])) /\ (~Impacted => Impact(c, rate[k]) = rate[k])
    BY <1>6, <1>8, ImpactIs, ImpactKeeps
  <2> QED
    BY <1>8, <1>9, <2>1
<1>11. \/ quote'[k] = Rejected
       \/ ~TooLow(r) /\ ~Lost(QuoteKeys(k) \ {Prices}, c) /\ quote'[k] = QuoteOf(c, k, r)
  BY <1>2, <1>3, <1>9
<1>12. \A x \in Kinds \ {k} : quote'[x] = quote[x]
  BY <1>2, <1>3
<1> HIDE DEF R, Needed
<1>13. OriginFits'
  <2> SUFFICES ASSUME NEW x \in Kinds, HasQuote(x)' PROVE \E d, s : From(x, quote[x], d, s)'
    BY DEF OriginFits
  <2>1. \A y : SwapRate(y)' = SwapRate(y)
    BY <1>1, SwapRateStays
  <2>2. \A s : (TooLow(s)' <=> TooLow(s)) /\ (Whole(s)' <=> Whole(s))
    BY <1>1 DEF TooLow, Whole
  <2>3. (\A y : QuoteKeys(y)' = QuoteKeys(y)) /\ (Impacted' <=> Impacted)
    BY <1>1 DEF QuoteKeys, IsTight, LiquidityKeys, Impacted
  <2>4. \A d, y, s : QuoteOf(d, y, s)' = QuoteOf(d, y, s)
    BY <1>1, QuoteOfStays
  <2>5. CASE x = k
    <3>1. ~TooLow(r) /\ ~Lost(QuoteKeys(k) \ {Prices}, c) /\ quote'[k] = QuoteOf(c, k, r)
      BY <1>11, <2>5 DEF HasQuote
    <3>2. \A y \in QuoteKeys(k) \ {Prices} : c[y] # 0
      BY <3>1 DEF Lost
    <3>3. market' = 1 /\ ~(IsDca(k) /\ Impacted) => r = SwapRate(k) /\ r # Rejected
      BY <1>1, <1>8, <1>10
    <3>4. quote'[k].egress = r.egress /\ quote'[k].intermediate = r.intermediate
      BY <3>1 DEF QuoteOf
    <3>5. From(k, quote[k], c, r)'
      BY <1>1, <1>6, <1>10, <2>1, <2>2, <2>3, <2>4, <3>1, <3>2, <3>3, <3>4 DEF From
    <3> QED
      BY <2>5, <3>5
  <2>6. CASE x # k
    <3>1. quote'[x] = quote[x] /\ HasQuote(x)
      BY <1>12, <2>6 DEF HasQuote
    <3>2. PICK d, s : From(x, quote[x], d, s)
      BY <3>1 DEF OriginFits, OriginInv
    <3>3. From(x, quote[x], d, s)'
      BY <1>1, <2>1, <2>2, <2>3, <2>4, <3>1, <3>2 DEF From
    <3> QED
      BY <3>3
  <2> QED
    BY <2>5, <2>6
<1> QED
  BY <1>7, <1>13 DEF OriginInv

LEMMA SettleOrigin == ASSUME QuoteAssumption, QuoteInv, OriginInv, Settle PROVE OriginInv'
<1>1. pc = "quotes" /\ UNCHANGED <<market, request, cfg, params, rate>> /\ market \in Nat
  BY DEF Settle, QuoteInv, CachesFit
<1>2. pc' # "quotes" /\ (UNCHANGED quote \/ quote' = [k \in Kinds |-> Extended(k)])
  BY DEF Settle, Answer
<1>3. \A k \in Kinds : HasQuote(k)' =>
           /\ HasQuote(k) /\ quote'[k].egress = quote[k].egress /\ quote'[k].intermediate = quote[k].intermediate
           /\ quote'[k].warning = quote[k].warning /\ quote'[k].slippage = quote[k].slippage
  <2> SUFFICES ASSUME NEW k \in Kinds, HasQuote(k)'
      PROVE  /\ HasQuote(k) /\ quote'[k].egress = quote[k].egress /\ quote'[k].intermediate = quote[k].intermediate
             /\ quote'[k].warning = quote[k].warning /\ quote'[k].slippage = quote[k].slippage
    OBVIOUS
  <2>1. CASE quote'[k] = quote[k]
    BY <2>1 DEF HasQuote
  <2>2. CASE quote'[k] # quote[k]
    <3>1. quote'[k] = Extended(k)
      BY <1>2, <2>2
    <3>2. HasQuote(k) /\ quote'[k] = [quote[k] EXCEPT !.durations.swap = @ + params.dca.extra, !.total = @ + params.dca.extra]
      BY <2>2, <3>1 DEF Extended
    <3> DEFINE q == quote[k]
               dur == [q.durations EXCEPT !.swap = @ + params.dca.extra]
               total == q.total + params.dca.extra
    <3>3. quote'[k] = [q EXCEPT !.durations = dur, !.total = total]
      BY <3>2
    <3>4. q = [egress |-> q.egress, warning |-> q.warning, intermediate |-> q.intermediate,
               slippage |-> q.slippage, live |-> q.live, durations |-> q.durations, total |-> q.total]
      <4>1. PartsFit(request, cfg, ExtraOf(k), k, q)
        BY <3>2 DEF QuoteInv, QuotesFit
      <4> HIDE DEF q
      <4> QED
        BY <4>1 DEF PartsFit
    <3> HIDE DEF q, dur, total
    <3>5. quote'[k] = [egress |-> q.egress, warning |-> q.warning, intermediate |-> q.intermediate,
                       slippage |-> q.slippage, live |-> q.live, durations |-> dur, total |-> total]
      BY <3>3, <3>4
    <3> QED
      BY <3>2, <3>5 DEF q
  <2> QED
    BY <2>1, <2>2
<1>4. OriginFits'
  BY <1>1, <1>3, OriginStays DEF OriginInv
<1>5. NodeFits'
  BY <1>2 DEF NodeFits
<1> QED
  BY <1>4, <1>5 DEF OriginInv

LEMMA RestOrigin ==
  ASSUME QuoteInv, OriginInv, UNCHANGED <<request, cfg, params, quote, rate>>, market' \in Nat, market <= market',
         pc' = "quotes" => pc = "quotes" /\ todo' \subseteq todo
  PROVE  OriginInv'
<1>1. NodeFits'
  BY RatesStay DEF OriginInv
<1>2. OriginFits'
  BY OriginStays DEF OriginInv, HasQuote
<1> QED
  BY <1>1, <1>2 DEF OriginInv

LEMMA OriginGoesOn == ASSUME QuoteAssumption, QuoteInv, OriginInv, [Next]_vars PROVE OriginInv'
<1>1. market \in Nat
  BY DEF QuoteInv, CachesFit
<1>2. CASE Create \/ SetBoostQuoteParams \/ SetDcaQuoteParams \/ Generate
  <2>1. pc \in {"create", "params"} /\ UNCHANGED <<rate, quote>>
    BY <1>2 DEF Create, SetBoostQuoteParams, SetDcaQuoteParams, Generate, Fetching
  <2> QED
    BY <2>1, NothingQuoted
<1>3. CASE \E task \in {"orders", "dcaOrders"} : SetLimitOrders(task)
  <2>1. pc \in {"create", "params"} /\ UNCHANGED <<rate, quote>>
    BY <1>3 DEF SetLimitOrders, Fetching
  <2> QED
    BY <2>1, NothingQuoted
<1>4. CASE Move
  <2>1. UNCHANGED <<request, cfg, params, quote, rate, pc, todo>> /\ market' = market + 1
    BY <1>4 DEF Move
  <2>2. market' \in Nat /\ market <= market'
    BY <1>1, <2>1
  <2> QED
    BY <2>1, <2>2, RestOrigin
<1>5. CASE TestDca \/ TestRegular
  <2>1. UNCHANGED <<market, request, cfg, params, quote, rate>>
    BY <1>5 DEF TestDca, TestRegular
  <2>2. pc' # "quotes"
    <3>1. pc = "eager"
      BY <1>5 DEF TestDca, TestRegular
    <3>2. pc' = pc \/ pc' = "done"
      BY <1>5 DEF TestDca, TestRegular, Offer, Answer
    <3> QED
      BY <3>1, <3>2
  <2>3. market' \in Nat /\ market <= market'
    BY <1>1, <2>1
  <2> QED
    BY <2>1, <2>2, <2>3, RestOrigin
<1>6. CASE UNCHANGED vars
  <2>1. UNCHANGED <<market, request, cfg, params, quote, rate, pc, todo>>
    BY <1>6 DEF vars
  <2>2. market' \in Nat /\ market <= market'
    BY <1>1, <2>1
  <2> QED
    BY <2>1, <2>2, RestOrigin
<1>7. CASE \E k \in Kinds : GetSwapRate(k) \/ GetPoolQuote(k)
  BY <1>7, RateOrigin, QuoteOrigin
<1>8. CASE Settle
  BY <1>8, SettleOrigin
<1> QED
  BY <1>2, <1>3, <1>4, <1>5, <1>6, <1>7, <1>8 DEF Next

-----------------------------------------------------------------------------
(* What the numbers of a quote have to do with each other.                 *)

\* What a quote recommends, where the pair is not a tight one.
LEMMA SlippageIs ==
  ASSUME QuoteAssumption, QuoteInv, ~IsTight, NEW k \in Kinds, NEW c, NEW r
  PROVE  QuoteOf(c, k, r).slippage =
           Clamp(Quarter(cfg.baseSlippage + LiquidityAdjustment(c, k, r)
                   + IF request.onChain THEN 0 ELSE DepositTimeAdjustment(request.src, IsBoosted(k), cfg)))
<1>1. "Flip" \notin {request.src, request.dest}
  BY RequestIs DEF Quoted
<1>2. QuoteOf(c, k, r).slippage = Slippage(request.src, request.dest, LiquidityAdjustment(c, k, r),
                                           IsBoosted(k), request.onChain, cfg)
  BY DEF QuoteOf
<1> QED
  BY <1>1, <1>2, Zenon DEF Slippage

LEMMA LiquidityKeysSeen ==
  ASSUME QuoteAssumption, QuoteInv, ~IsTight, NEW k, NEW q, NEW c, NEW r, From(k, q, c, r)
  PROVE  \A x \in LiquidityKeys : c[x] # 0
<1>1. Prices \notin LiquidityKeys
  BY KeysOfLegs DEF QuoteInv
<1> QED
  BY <1>1 DEF From, QuoteKeys

LEMMA FromPaysOut ==
  ASSUME NEW k, NEW q, NEW c, NEW r, From(k, q, c, r) PROVE r \in Rates /\ Whole(r) /\ r.egress # 0
BY DEF From, TooLow

LEMMA SlippageFits ==
  ASSUME QuoteAssumption, QuoteInv, ~IsTight, NEW k \in Kinds, Waits(k), NEW q, NEW c, NEW r, From(k, q, c, r)
  PROVE  q.slippage % (Percent \div 4) = 0 /\ q.slippage \in MinSlippage..MaxSlippage
<1> DEFINE l == LiquidityAdjustment(c, k, r)
           t == IF request.onChain THEN 0 ELSE DepositTimeAdjustment(request.src, IsBoosted(k), cfg)
           x == cfg.baseSlippage + l + t
<1>1. \A leg \in Legs(request.src, request.dest) : LegOut(r, leg) \in Int
  BY FromPaysOut, LegOutIs
<1>2. l \in Int
  <2>1. c \in [Keys -> 0..market]
    BY DEF From
  <2>2. \A leg \in Legs(request.src, request.dest) :
          LegOut(r, leg) \in Int /\ LegOut(r, leg) \in Int /\ LegOut(r, leg) <= LegOut(r, leg)
    BY <1>1
  <2>3. ChunksOfQuote(k) \in Nat
    BY ChunksAre
  <2> QED
    BY <2>1, <2>2, <2>3, LiquidityKeysSeen, LiquidityFollows
<1>3. t \in Int
  BY DepositTimeIs
<1>4. cfg.baseSlippage \in Int
  BY RequestIs DEF QuoteAssumption
<1>5. q.slippage = Clamp(Quarter(x))
  BY SlippageIs DEF From
<1> HIDE DEF l, t
<1>6. x \in Int
  BY <1>2, <1>3, <1>4
<1> HIDE DEF x
<1> QED
  BY <1>5, <1>6, ClampIs

\* A deposit that is boosted and one that is not, quoted by the same market.
LEMMA SlippageFollows ==
  ASSUME QuoteAssumption, QuoteInv, ~IsTight, market = 1, cfg.margin[request.src] \notin {None, 0},
         NEW j \in Kinds, NEW k \in Kinds, Waits(j), Waits(k), IsBoosted(j), ~IsBoosted(k), IsDca(j) <=> IsDca(k),
         NEW p, NEW q, NEW c, NEW d, NEW r, NEW s, From(j, p, c, r), From(k, q, d, s),
         IsDca(j) /\ Impacted =>
           p.egress <= q.egress /\ (p.intermediate = None \/ p.intermediate <= q.intermediate)
  PROVE  p.slippage <= q.slippage
<1> DEFINE t(b) == IF request.onChain THEN 0 ELSE DepositTimeAdjustment(request.src, b, cfg)
           l == LiquidityAdjustment(c, j, r)
           m == LiquidityAdjustment(d, k, s)
           u == t(TRUE)
           v == t(FALSE)
           x == cfg.baseSlippage + l + u
           y == cfg.baseSlippage + m + v
<1>1. r \in Rates /\ Whole(r) /\ r.egress # 0 /\ s \in Rates /\ Whole(s) /\ s.egress # 0
  BY FromPaysOut
<1>2. ChunksOfQuote(j) = ChunksOfQuote(k) /\ ChunksOfQuote(j) \in Nat
  <2>1. ChunksOfQuote(j) = ChunksOfQuote(k)
    BY DEF ChunksOfQuote
  <2> QED
    BY <2>1, ChunksAre
<1>3. r.egress <= s.egress /\ (OneLeg(request.src, request.dest) \/ r.intermediate <= s.intermediate)
  <2>1. CASE IsDca(j) /\ Impacted
    <3>1. p.egress = r.egress /\ p.intermediate = r.intermediate /\ q.egress = s.egress /\ q.intermediate = s.intermediate
      BY DEF From
    <3>2. r.egress <= s.egress /\ (r.intermediate = None \/ r.intermediate <= s.intermediate)
      BY <2>1, <3>1
    <3> QED
      BY <1>1, <3>2 DEF Whole
  <2>2. CASE ~(IsDca(j) /\ Impacted)
    <3>1. r = SwapRate(j) /\ r # Rejected /\ s = SwapRate(k) /\ s # Rejected
      BY <2>2 DEF From
    <3>2. InputOf(j) <= InputOf(k)
      BY InputInOrder
    <3>3. SwapRate(j) # Rejected /\ SwapRate(k) # Rejected /\ SwapRate(j).egress # 0 /\ SwapRate(k).egress # 0
      BY <1>1, <3>1
    <3> QED
      BY <1>2, <3>1, <3>2, <3>3, BoostedRate
  <2> QED
    BY <2>1, <2>2
<1>4. \A leg \in Legs(request.src, request.dest) :
        LegOut(r, leg) \in Int /\ LegOut(s, leg) \in Int /\ LegOut(r, leg) <= LegOut(s, leg)
  <2> SUFFICES ASSUME NEW leg \in Legs(request.src, request.dest)
      PROVE  LegOut(r, leg) \in Int /\ LegOut(s, leg) \in Int /\ LegOut(r, leg) <= LegOut(s, leg)
    OBVIOUS
  <2>1. LegOut(r, leg) \in Int /\ LegOut(s, leg) \in Int
    BY <1>1, LegOutIs
  <2>2. CASE leg[2] = request.dest
    BY <1>3, <2>1, <2>2 DEF LegOut
  <2>3. CASE leg[2] # request.dest
    <3>1. ~OneLeg(request.src, request.dest)
      BY <2>3 DEF Legs
    <3> QED
      BY <1>3, <2>1, <2>3, <3>1 DEF LegOut
  <2> QED
    BY <2>2, <2>3
\* While the market stands still a cache that was filled holds what it is.
<1>5. c \in [Keys -> 0..market] /\ \A z \in LiquidityKeys : c[z] # 0
  BY LiquidityKeysSeen DEF From
<1>6. LiquidityAdjustment(c, k, s) = m
  <2>1. d \in [Keys -> 0..market] /\ \A z \in LiquidityKeys : d[z] # 0
    BY LiquidityKeysSeen DEF From
  <2>2. LiquidityKeys \subseteq Keys /\ \A leg \in Legs(request.src, request.dest) :
          <<"deployed", BaseOf(leg)>> \in LiquidityKeys /\ <<"undeployed", leg[2]>> \in LiquidityKeys
    BY KeysOfLegs DEF QuoteInv
  <2>3. \A z \in LiquidityKeys : c[z] = d[z]
    <3> SUFFICES ASSUME NEW z \in LiquidityKeys PROVE c[z] = d[z]
      OBVIOUS
    <3>1. c[z] \in 0..1 /\ d[z] \in 0..1 /\ c[z] # 0 /\ d[z] # 0
      BY <1>5, <2>1, <2>2
    <3> QED
      BY <3>1
  <2>4. \A leg \in Legs(request.src, request.dest) :
          DeployedIn(c, leg) = DeployedIn(d, leg) /\ UndeployedIn(c, leg) = UndeployedIn(d, leg)
    BY <2>2, <2>3 DEF DeployedIn, UndeployedIn
  <2>5. \A leg \in Legs(request.src, request.dest) : LegNeeds(c, k, s, leg) = LegNeeds(d, k, s, leg)
    BY <2>4 DEF LegNeeds
  <2>6. {LegNeeds(c, k, s, leg) : leg \in Legs(request.src, request.dest)}
          = {LegNeeds(d, k, s, leg) : leg \in Legs(request.src, request.dest)}
    BY <2>5
  <2>7. /\ LiquidityAdjustment(c, k, s) = Max({LegNeeds(c, k, s, leg) : leg \in Legs(request.src, request.dest)})
        /\ m = Max({LegNeeds(d, k, s, leg) : leg \in Legs(request.src, request.dest)})
    BY DEF LiquidityAdjustment, LegNeeds
  <2> QED
    BY <2>6, <2>7
<1>7. l \in Int /\ m \in Int /\ l <= m
  <2>1. LiquidityAdjustment(c, j, r) \in Int /\ LiquidityAdjustment(c, k, s) \in Int
        /\ LiquidityAdjustment(c, j, r) <= LiquidityAdjustment(c, k, s)
    BY <1>2, <1>4, <1>5, LiquidityFollows
  <2> QED
    BY <1>6, <2>1
<1>8. u \in Int /\ v \in Int /\ u <= v
  <2> DEFINE a == DepositTimeAdjustment(request.src, TRUE, cfg)
             b == DepositTimeAdjustment(request.src, FALSE, cfg)
  <2>1. a \in Int /\ b \in Int /\ a <= b
    BY DepositTimeFollows
  <2>2. u = (IF request.onChain THEN 0 ELSE a) /\ v = (IF request.onChain THEN 0 ELSE b)
    OBVIOUS
  <2> HIDE DEF a, b, u, v
  <2> QED
    BY <2>1, <2>2
<1>9. cfg.baseSlippage \in Int
  BY RequestIs DEF QuoteAssumption
<1>10. p.slippage = Clamp(Quarter(x)) /\ q.slippage = Clamp(Quarter(y))
  <2>1. IsBoosted(j) = TRUE /\ IsBoosted(k) = FALSE
    BY DEF IsBoosted
  <2>2. p.slippage = Clamp(Quarter(cfg.baseSlippage + l + t(IsBoosted(j))))
    <3>1. p.slippage = QuoteOf(c, j, r).slippage
      BY DEF From
    <3>2. QuoteOf(c, j, r).slippage = Clamp(Quarter(cfg.baseSlippage + l + t(IsBoosted(j))))
      BY SlippageIs
    <3> QED
      BY <3>1, <3>2
  <2>3. q.slippage = Clamp(Quarter(cfg.baseSlippage + m + t(IsBoosted(k))))
    <3>1. q.slippage = QuoteOf(d, k, s).slippage
      BY DEF From
    <3>2. QuoteOf(d, k, s).slippage = Clamp(Quarter(cfg.baseSlippage + m + t(IsBoosted(k))))
      BY SlippageIs
    <3> QED
      BY <3>1, <3>2
  <2>4. t(IsBoosted(j)) = u /\ t(IsBoosted(k)) = v
    BY <2>1
  <2> HIDE DEF t, u, v, l, m
  <2> QED
    BY <2>2, <2>3, <2>4
<1> HIDE DEF l, m, t, u, v
<1>11. x \in Int /\ y \in Int /\ x <= y
  BY <1>7, <1>8, <1>9
<1> HIDE DEF x, y
<1>12. Clamp(Quarter(x)) <= Clamp(Quarter(y))
  BY <1>11, ClampInOrder
<1> QED
  BY <1>10, <1>12

LEMMA DividesNat ==
  ASSUME NEW x \in Nat, NEW d \in Nat \ {0}, NEW q, q = x \div d
  PROVE  q \in Nat /\ d * q <= x /\ x <= d * q + d
<1>1. x \div d \in Int /\ x \div d >= 0
  OBVIOUS
<1>2. d * (x \div d) <= x /\ x < d * (x \div d) + d
  BY Divides
<1> DEFINE p == d * q
<1>3. q \in Nat /\ p <= x /\ x < p + d
  BY <1>1, <1>2
<1>4. p \in Nat
  BY <1>3
<1> HIDE DEF p
<1>5. x <= p + d
  BY <1>3, <1>4
<1> QED
  BY <1>3, <1>5 DEF p

LosesLittle(input, output, cut) == 1000 * (input - output) <= 1000 * cut + input

\* n chunks of x, at the three prices: m is what each is worth in Usdc, l what it gives.
Chunked(x, n, ps, pu, pd, m, l) ==
  /\ x \in Nat /\ {n, ps, pu, pd} \subseteq Nat \ {0}
  /\ m = ((x \div n) * ps) \div pu /\ l = ((m - m \div 1000) * pu) \div pd

\* What is lost by cutting each chunk to whole units, and to the network fee.
LEMMA LossOfChunks ==
  ASSUME NEW x, NEW n, NEW ps, NEW pu, NEW pd, NEW m, NEW l, Chunked(x, n, ps, pu, pd, m, l)
  PROVE  LosesLittle(x * ps, (l * n) * pd, n * (ps + pu + pd))
<1> DEFINE c == x \div n
           e == c * ps
           w == m \div 1000
           d == m - w
           g == d * pu
<1>1. /\ x \in Nat /\ n \in Nat \ {0} /\ ps \in Nat \ {0} /\ pu \in Nat \ {0} /\ pd \in Nat \ {0}
      /\ m = ((x \div n) * ps) \div pu /\ l = ((m - m \div 1000) * pu) \div pd
  BY DEF Chunked
<1> USE <1>1
<1>2. x \in Nat /\ n \in Nat /\ ps \in Nat /\ pu \in Nat /\ pd \in Nat
  OBVIOUS
<1>3. c \in Nat /\ n * c <= x /\ x <= n * c + n
  BY DividesNat
<1>4. e \in Nat
  BY <1>3
<1>5. m = e \div pu
  OBVIOUS
<1> HIDE DEF c, e
<1>6. m \in Nat /\ pu * m <= e /\ e <= pu * m + pu
  BY <1>4, <1>5, DividesNat
<1>7. w \in Nat /\ 1000 * w <= m
  BY <1>6
<1> HIDE DEF w
<1>8. d \in Nat /\ m = d + w
  BY <1>6, <1>7
<1> HIDE DEF d
<1>9. g \in Nat /\ l = g \div pd
  <2>1. g \in Nat
    BY <1>8
  <2>2. l = g \div pd
    BY DEF d, w
  <2> QED
    BY <2>1, <2>2
<1> HIDE DEF g
<1>10. l \in Nat /\ pd * l <= g /\ g <= pd * l + pd
  BY <1>9, DividesNat
<1> DEFINE X == x * ps
           E == n * e
           P == n * (pu * m)
           G == n * g
           W == n * (pu * w)
           Y == n * (pd * l)
           NS == n * ps
           NU == n * pu
           ND == n * pd
<1>11. X \in Nat /\ E \in Nat /\ P \in Nat /\ G \in Nat /\ W \in Nat /\ Y \in Nat /\ NS \in Nat /\ NU \in Nat /\ ND \in Nat
  <2>1. pu * m \in Nat /\ pu * w \in Nat /\ pd * l \in Nat
    BY <1>6, <1>7, <1>10
  <2> QED
    BY ONLY <1>4, <1>9, <2>1, <1>2
<1>12. X <= E + NS /\ E <= X
  <2> DEFINE h == n * c
  <2>1. h \in Nat /\ h <= x /\ x <= h + n
    BY <1>3
  <2>2. h * ps = E
    BY <1>3 DEF e
  <2>3. (h + n) * ps = h * ps + NS
    BY ONLY <1>3, <1>2
  <2> HIDE DEF h
  <2>4. x * ps <= (h + n) * ps /\ h * ps <= x * ps
    BY <2>1, TimesInOrder
  <2> QED
    BY <2>2, <2>3, <2>4
<1>13. E <= P + NU /\ P <= E
  <2> DEFINE h == pu * m
  <2>1. h \in Nat /\ h <= e /\ e <= h + pu
    BY <1>6
  <2> HIDE DEF h
  <2>2. e * n <= (h + pu) * n /\ h * n <= e * n
    BY <1>4, <2>1, TimesInOrder
  <2>3. e * n = n * e /\ h * n = n * h /\ (h + pu) * n = n * h + n * pu
    BY ONLY <1>4, <2>1, <1>2
  <2> QED
    BY <2>2, <2>3 DEF h
<1>14. P = G + W
  <2>1. g = d * pu
    BY DEF g
  <2>2. n * (pu * (d + w)) = n * (d * pu) + n * (pu * w)
    BY ONLY <1>7, <1>8, <1>2
  <2> QED
    BY <1>8, <2>1, <2>2
<1>15. G <= Y + ND
  <2> DEFINE h == pd * l
  <2>1. h \in Nat /\ g <= h + pd
    BY <1>10
  <2> HIDE DEF h
  <2>2. g * n <= (h + pd) * n
    BY <1>9, <2>1, TimesInOrder
  <2>3. g * n = n * g /\ (h + pd) * n = n * h + n * pd
    BY ONLY <1>9, <2>1, <1>2
  <2> QED
    BY <2>2, <2>3 DEF h
<1>16. 1000 * W <= P
  <2> DEFINE h == n * pu
  <2>1. h \in Nat
    BY ONLY <1>2
  <2>2. W = w * h
    BY ONLY <1>7, <1>2
  <2>3. P = m * h
    BY ONLY <1>6, <1>2
  <2> HIDE DEF h
  <2>4. (1000 * w) * h = 1000 * (w * h)
    BY ONLY <1>7, <2>1
  <2> DEFINE v == 1000 * w
  <2>5. v \in Int /\ v <= m /\ m \in Int
    BY <1>6, <1>7
  <2> HIDE DEF v
  <2>6. v * h <= m * h
    BY <2>1, <2>5, TimesInOrder
  <2>7. (1000 * w) * h <= m * h
    BY <2>6 DEF v
  <2> QED
    BY <2>2, <2>7, <2>3, <2>4
<1>17. (l * n) * pd = Y /\ n * (ps + pu + pd) = NS + NU + ND
  BY ONLY <1>10, <1>2
<1> HIDE DEF X, E, P, G, W, Y, NS, NU, ND
<1>18. 1000 * (X - Y) <= 1000 * (NS + NU + ND) + X
  BY ONLY <1>11, <1>12, <1>13, <1>14, <1>15, <1>16
<1> QED
  BY <1>17, <1>18 DEF X, LosesLittle

LEMMA WarningFits ==
  ASSUME QuoteAssumption, QuoteInv, market = 1, NEW k \in Kinds, Waits(k), NEW q, NEW c, NEW r, From(k, q, c, r),
         q.warning = TRUE, ~(IsDca(k) /\ Impacted)
  PROVE  (10 * cfg.warningPercent - 1) * ((InputOf(k) - IngressFee) * Markets[1].usd[request.src])
           <= 1000 * CutFrom(k)
<1> DEFINE ps == Markets[1].usd[request.src]
           pu == Markets[1].usd["Usdc"]
           pd == Markets[1].usd[request.dest]
           n == ChunksOfQuote(k)
           x == InputOf(k) - IngressFee
           m == Middle(k)
           l == FinalLeg(k)
           p == cfg.warningPercent
           X == x * ps
           Y == (l * n) * pd
           S == n * (ps + pu + pd)
<1>1. r = SwapRate(k) /\ r # Rejected /\ r.egress # 0
  <2>1. r.egress # 0
    BY FromPaysOut
  <2> QED
    BY <2>1 DEF From
<1>2. InputOf(k) > IngressFee /\ r.ingress = IngressFee /\ r.egress + r.egressFee = l * n
  BY <1>1, SwapRateOut
<1>3. x \in Nat /\ n \in Nat \ {0} /\ l \in Int
  <2>1. InputOf(k) \in Int /\ IngressFee \in Int
    BY InputIs, FeesAre
  <2>2. x \in Nat
    BY <1>2, <2>1
  <2> QED
    BY <2>2, ChunksAre, MiddleIs
<1>4. ps \in Nat \ {0} /\ pu \in Nat \ {0} /\ pd \in Nat \ {0}
  <2>1. request.src \in Quoted /\ request.dest \in Quoted /\ "Usdc" \in Quoted
    BY RequestIs
  <2> QED
    BY <2>1, PricesAre DEF PriceNow
<1>5. m = ((x \div n) * ps) \div pu /\ l = ((m - m \div 1000) * pu) \div pd
  BY DEF Middle, FinalLeg, Worth, PriceNow
<1>6. c[Prices] = 1
  <2>1. c[Prices] \in 0..1
    BY DEF From, Keys, Prices
  <2>2. c[Prices] # 0
    <3> SUFFICES ASSUME c[Prices] = 0 PROVE FALSE
      OBVIOUS
    <3>1. q.warning = None
      BY DEF From, QuoteOf, Warning
    <3> QED
      BY <3>1 DEF QuoteAssumption
  <2> QED
    BY <2>1, <2>2
<1>7. 100 * (X - Y) >= p * X
  <2>1. q.warning = Warns(UsdValue(c, request.src, InputOf(k) - r.ingress),
                          UsdValue(c, request.dest, r.egress + r.egressFee), cfg)
    BY <1>6 DEF From, QuoteOf, Warning
  <2>2. UsdValue(c, request.src, InputOf(k) - r.ingress) = X /\ UsdValue(c, request.dest, r.egress + r.egressFee) = Y
    BY <1>2, <1>6 DEF UsdValue
  <2>3. Warns(X, Y, cfg)
    BY <2>1, <2>2
  <2> QED
    BY <2>3 DEF Warns
<1>8. CutFrom(k) = S
  BY DEF CutFrom
<1>9. p \in Int
  BY RequestIs DEF QuoteAssumption
<1> HIDE DEF ps, pu, pd, n, x, m, l, p
<1>10. 1000 * (X - Y) <= 1000 * S + X
  <2>1. LosesLittle(X, Y, S)
    <3>1. Chunked(x, n, ps, pu, pd, m, l)
      BY <1>3, <1>4, <1>5 DEF Chunked
    <3>2. LosesLittle(x * ps, (l * n) * pd, n * (ps + pu + pd))
      BY <3>1, LossOfChunks
    <3> QED
      BY <3>2
  <2> QED
    BY <2>1 DEF LosesLittle
<1>11. X \in Nat /\ S \in Nat /\ Y \in Int
  <2>1. X \in Nat
    BY <1>3, <1>4
  <2>2. S \in Nat
    BY <1>3, <1>4
  <2>3. l * n \in Int
    BY <1>3
  <2>4. Y \in Int
    BY <1>4, <2>3
  <2> QED
    BY <2>1, <2>2, <2>4
<1> HIDE DEF X, Y, S
<1> DEFINE V == p * X
<1>12. V \in Int /\ (10 * p - 1) * X = 10 * V - X
  BY <1>9, <1>11
<1> HIDE DEF V
<1>13. 100 * (X - Y) >= V
  BY <1>7 DEF V
<1>14. 10 * V - X <= 1000 * S
  BY <1>10, <1>11, <1>12, <1>13
<1>15. (10 * p - 1) * X <= 1000 * S
  BY <1>12, <1>14
<1> QED
  BY <1>8, <1>15 DEF X, x, ps, p

-----------------------------------------------------------------------------
LEMMA NumbersFit == ASSUME QuoteAssumption, QuoteInv, OriginInv PROVE QuotesAddUp
<1>1. BoostCovered
  BY DEF QuoteInv, BoostFits
<1>2. \A k \in Kinds : HasQuote(k) => Waits(k) /\ \E c, r : From(k, quote[k], c, r)
  BY DEF QuoteInv, RequestFits, OriginInv, OriginFits, HasQuote
<1>3. BoostedAsksNoMoreSlippage
  <2> SUFFICES ASSUME ~IsTight PROVE BoostedAsksNoMoreSlippage
    BY DEF BoostedAsksNoMoreSlippage
  <2>1. ASSUME NEW k \in Kinds, HasQuote(k)
        PROVE  quote[k].slippage % (Percent \div 4) = 0 /\ quote[k].slippage \in MinSlippage..MaxSlippage
    <3>1. PICK c, r : From(k, quote[k], c, r)
      BY <1>2, <2>1
    <3> QED
      BY <1>2, <2>1, <3>1, SlippageFits
  <2>2. ASSUME market = 1, cfg.margin[request.src] \notin {None, 0},
               NEW p \in {<<"boosted", "regular">>, <<"dcaBoosted", "dca">>},
               HasQuote(p[1]), HasQuote(p[2]), IsDca(p[1]) /\ Impacted => NoLargerOut(p[1], p[2])
        PROVE  quote[p[1]].slippage <= quote[p[2]].slippage
    <3>1. PICK j, k \in Kinds : j = p[1] /\ k = p[2] /\ IsBoosted(j) /\ ~IsBoosted(k) /\ (IsDca(j) <=> IsDca(k))
      <4>1. /\ p[1] \in Kinds /\ p[2] \in Kinds /\ IsBoosted(p[1]) /\ ~IsBoosted(p[2])
            /\ IsDca(p[1]) <=> IsDca(p[2])
        BY DEF Kinds, IsBoosted, IsDca
      <4> QED
        BY <4>1
    <3>2. HasQuote(j) /\ HasQuote(k) /\ Waits(j) /\ Waits(k)
      BY <1>2, <2>2, <3>1
    <3>3. PICK c, r : From(j, quote[j], c, r)
      BY <1>2, <3>2
    <3>4. PICK d, s : From(k, quote[k], d, s)
      BY <1>2, <3>2
    <3>5. IsDca(j) /\ Impacted =>
            quote[j].egress <= quote[k].egress
            /\ (quote[j].intermediate = None \/ quote[j].intermediate <= quote[k].intermediate)
      BY <2>2, <3>1 DEF NoLargerOut
    <3>6. quote[j].slippage <= quote[k].slippage
      BY <2>2, <3>1, <3>2, <3>3, <3>4, <3>5, SlippageFollows
    <3> QED
      BY <3>1, <3>6
  <2> QED
    BY <2>1, <2>2 DEF BoostedAsksNoMoreSlippage
<1>4. OnlyImpactWarns
  <2> DEFINE Small(k) == (10 * cfg.warningPercent - 1) * ((InputOf(k) - IngressFee) * Markets[1].usd[request.src])
                           <= 1000 * CutFrom(k)
  <2>1. OnlyImpactWarns <=>
          (market = 1 => \A k \in Kinds : HasQuote(k) /\ quote[k].warning = TRUE => (IsDca(k) /\ Impacted) \/ Small(k))
    BY DEF OnlyImpactWarns
  <2> SUFFICES ASSUME market = 1, NEW k \in Kinds, HasQuote(k), quote[k].warning = TRUE, ~(IsDca(k) /\ Impacted)
      PROVE  Small(k)
    <3> HIDE DEF Small
    <3> QED
      BY <2>1
  <2>2. PICK c, r : From(k, quote[k], c, r)
    BY <1>2
  <2>3. Waits(k)
    BY <1>2
  <2> QED
    BY <2>2, <2>3, WarningFits
<1> QED
  BY <1>1, <1>3, <1>4 DEF QuotesAddUp

LEMMA OriginStarts == ASSUME Init PROVE OriginInv
<1>1. \A k \in Kinds : rate[k] = None /\ quote[k] = None
  BY DEF Init
<1> QED
  BY <1>1 DEF OriginInv, NodeFits, OriginFits, HasQuote

(* However the parts of a quote are rounded, they fit each other: a boost  *)
(* is covered by its pools, a slippage keeps its steps and bounds, a boost *)
(* never asks for more than waiting, and only a price impact, or a deposit *)
(* of few units, raises the warning, with the exceptions that the parts    *)
(* name (boost.ts, autoSlippage.ts, QuoteRequest.ts).                      *)
THEOREM QuotesAdd == Spec => []QuotesAddUp
<1>1. QuoteAssumption
  BY QuoteAssumption
<1>2. Init => QuoteInv /\ OriginInv
  BY <1>1, QuoteStarts, OriginStarts
<1>3. QuoteInv /\ OriginInv /\ [Next]_vars => (QuoteInv /\ OriginInv)'
  BY <1>1, QuoteGoesOn, OriginGoesOn
<1>4. QuoteInv /\ OriginInv => QuotesAddUp
  BY <1>1, NumbersFit
<1> QED
  BY <1>2, <1>3, <1>4, PTL DEF Spec
=============================================================================
