----------------------------- MODULE RateLimits -----------------------------
(***************************************************************************)
(* The middlewares in front of the status and the quote endpoint, for the  *)
(* requests of one address.                                                *)
(*                                                                         *)
(* The record of the address is shared by its requests and by a clean-up   *)
(* timer; the not-found limit writes to it when a response is finished,    *)
(* which may be long after the request.  The list of refused addresses is  *)
(* a promise that is replaced on a timer; a request awaits the one that is *)
(* there.  Addresses share nothing, so one stands for all.  Time is in     *)
(* ticks of Date.now().  The times of a record are a set of entries, each  *)
(* with its number: they are pushed in the order of the clock, and no code *)
(* looks at more of them than how many there are and how old.              *)
(***************************************************************************)
EXTENDS Integers, FiniteSets

CONSTANTS
  Window, Block,     \* windowMs, blockDurationMs
  MaxHits,           \* max requests, or 404s, in a window
  Slots,             \* requests that can be in flight at once
  MaxTime, MaxCalls  \* bounds: ticks, and requests altogether

\* A block is not shorter than a window (config/env.ts:174-179: 1 minute, and 5 or 10).
ASSUME LimitsAssumption ==
  /\ Window \in Nat /\ Block \in Nat \ {0} /\ Window <= Block /\ MaxHits \in Nat
  /\ MaxTime \in Nat /\ MaxCalls \in Nat

VARIABLES now, crashed, calls,
          notFound, quotes,   \* the records: NoRecord or [times, until]
          banned,             \* is the address in the table?
          list,               \* cachedIps: [st, has, asked, lifted], was it there when the query
                              \* began, and was it taken out before the answer?
          slot,               \* [pc, list, seen, cleaned] of each request in flight
          hits, served        \* history: times of the 404s and of the quotes that were let through

rateVars == <<now, crashed, calls, notFound, quotes, banned, list, slot, hits, served>>

Entry(t, n) == [at |-> t, n |-> n]
NoRecord == [times |-> {}, until |-> -1]
NewRecord == [times |-> {}, until |-> 0]
Pending(asked) == [st |-> "pending", has |-> FALSE, asked |-> asked, lifted |-> FALSE]
Free == [pc |-> "free", list |-> Pending(FALSE),
         seen |-> 0, cleaned |-> -1]

RateInit ==
  /\ now = 0 /\ crashed = FALSE /\ calls = 0
  /\ notFound = NoRecord /\ quotes = NoRecord
  /\ banned \in BOOLEAN /\ list = Pending(banned)
  /\ slot = [s \in Slots |-> Free]
  /\ hits = {} /\ served = {}

Recent(times, t) == {x \in times : x.at >= t - Window}
InWindow(times, t) == {x \in times : x.at > t - Window /\ x.at <= t}
CountIn(times, t) == Cardinality(InWindow(times, t))

Tick == /\ now < MaxTime /\ now' = now + 1
        /\ UNCHANGED <<crashed, calls, notFound, quotes, banned, list, slot, hits, served>>

-----------------------------------------------------------------------------
(* ipBlacklist.                                                            *)

Ban == /\ banned' = ~banned
       /\ list' = [list EXCEPT !.lifted = @ \/ (banned /\ list.st = "pending")]
       /\ UNCHANGED <<now, crashed, calls, notFound, quotes, slot, hits, served>>

\* A request that awaits the promise sees how it settles.
Seen(new) == [s \in Slots |-> IF slot[s].pc = "list" /\ slot[s].list.st = "pending"
                              THEN [slot[s] EXCEPT !.list = new] ELSE slot[s]]

ListSettles ==
  /\ list.st = "pending"
  /\ \E ok \in BOOLEAN :
       list' = [list EXCEPT !.st = IF ok THEN "ok" ELSE "failed", !.has = ok /\ banned]
  /\ slot' = Seen(list')
  /\ UNCHANGED <<now, crashed, calls, notFound, quotes, banned, hits, served>>

RefreshIps ==
  /\ list.st # "pending"
  /\ list' = Pending(banned)
  /\ UNCHANGED <<now, crashed, calls, notFound, quotes, banned, slot, hits, served>>

Passes(l) == l.st # "pending" /\ ~l.has
Refuses(l) == l.st # "pending" /\ l.has

-----------------------------------------------------------------------------
(* The not-found limit of /v2/swaps.                                       *)

Arrive(s) ==
  /\ slot[s].pc = "free" /\ calls < MaxCalls
  /\ calls' = calls + 1
  /\ slot' = [slot EXCEPT ![s] = [Free EXCEPT !.pc = "list", !.list = list]]
  /\ UNCHANGED <<now, crashed, notFound, quotes, banned, list, hits, served>>

Refused(s) ==
  /\ slot[s].pc = "list" /\ Refuses(slot[s].list)
  /\ slot' = [slot EXCEPT ![s] = Free]
  /\ UNCHANGED <<now, crashed, calls, notFound, quotes, banned, list, hits, served>>

\* MUTANT: whoever has a record is let through.
LimitOnce(s) ==
  /\ slot[s].pc = "list" /\ Passes(slot[s].list)
  /\ notFound' = IF notFound = NoRecord THEN NewRecord ELSE notFound
  /\ slot' = [slot EXCEPT ![s].pc = "handled", ![s].seen = CountIn(hits, now)]
  /\ UNCHANGED <<now, crashed, calls, quotes, banned, list, hits, served>>

\* The record is created; a blocked one is not touched.
Limit(s) ==
  /\ slot[s].pc = "list" /\ Passes(slot[s].list)
  /\ notFound' = IF notFound = NoRecord THEN NewRecord ELSE notFound
  /\ slot' = [slot EXCEPT ![s] = IF notFound'.until > now THEN Free
                                 ELSE [@ EXCEPT !.pc = "handled", !.seen = CountIn(hits, now)]]
  /\ UNCHANGED <<now, crashed, calls, quotes, banned, list, hits, served>>

TooMany(times) == Cardinality(times) > MaxHits

\* The listener looks the record up again; it throws if there is none.
Finish(s) ==
  /\ slot[s].pc = "handled"
  /\ \/ UNCHANGED <<notFound, hits, crashed>>
     \/ /\ notFound = NoRecord /\ crashed' = TRUE /\ UNCHANGED <<notFound, hits>>
     \/ /\ notFound # NoRecord
        /\ LET hit == Entry(now, Cardinality(hits))
               times == Recent(notFound.times, now) \cup {hit}
           IN  /\ notFound' = IF TooMany(times) THEN [times |-> {}, until |-> now + Block]
                              ELSE [notFound EXCEPT !.times = times]
               /\ hits' = hits \cup {hit}
        /\ UNCHANGED crashed
  /\ slot' = IF crashed' THEN slot ELSE [slot EXCEPT ![s] = Free]
  /\ UNCHANGED <<now, calls, quotes, banned, list, served>>

Forgotten(r) ==
  r # NoRecord /\ r.until <= now /\ \A x \in r.times : x.at < now - Window

\* Both timers; they need not fire together.
CleanNotFound ==
  /\ Forgotten(notFound)
  /\ notFound' = NoRecord
  /\ slot' = [s \in Slots |-> IF slot[s].pc = "handled" THEN [slot[s] EXCEPT !.cleaned = now] ELSE slot[s]]
  /\ UNCHANGED <<now, crashed, calls, quotes, banned, list, hits, served>>

-----------------------------------------------------------------------------
(* The limit of /v2/quote.                                                 *)

CleanQuotes ==
  /\ Forgotten(quotes)
  /\ quotes' = NoRecord
  /\ UNCHANGED <<now, crashed, calls, notFound, banned, list, slot, hits, served>>

\* A block that is over takes the times with it.
Reset(r) == IF r = NoRecord \/ r.until # 0 THEN NewRecord ELSE r

Quote ==
  /\ calls < MaxCalls
  /\ calls' = calls + 1
  /\ IF quotes.until > now THEN UNCHANGED <<quotes, served>>
     ELSE LET quote == Entry(now, calls)
              times == Recent(Reset(quotes).times, now) \cup {quote}
          IN  /\ quotes' = [times |-> times, until |-> IF TooMany(times) THEN now + Block ELSE 0]
              /\ served' = IF TooMany(times) THEN served ELSE served \cup {quote}
  /\ UNCHANGED <<now, crashed, notFound, banned, list, slot, hits>>

RateNext ==
  /\ ~crashed
  /\ \/ Tick \/ Ban \/ ListSettles \/ RefreshIps
     \/ \E s \in Slots : Arrive(s) \/ Refused(s) \/ Limit(s) \/ Finish(s)
     \/ CleanNotFound \/ CleanQuotes \/ Quote

RateSpec == RateInit /\ [][RateNext]_rateVars

-----------------------------------------------------------------------------
(* What holds.                                                             *)

(* A record holds no more times than the limit, none from the future, and  *)
(* a block ends at most one duration from now.                             *)
RateTypeOK ==
  \A r \in {notFound, quotes} :
    /\ r.until <= now + Block
    /\ \A x \in r.times : x.at \in 0..now
    /\ r.until <= 0 => Cardinality(r.times) <= MaxHits

(* No window holds more quotes that were let through than the limit,       *)
(* whatever was blocked, reset and cleaned up in between.                  *)
QuotesWithinLimit == \A t \in 0..now : CountIn(served, t) <= MaxHits

(* A status request is let through only if no more 404s than the limit     *)
(* were finished in the window before it, though requests in flight may    *)
(* add to them later.                                                      *)
NotFoundsStopRequests ==
  \A s \in Slots : slot[s].pc = "handled" => slot[s].seen <= MaxHits

(* The listener misses the record only if the clean-up ran while its       *)
(* request was being answered and no 404 had been finished in the window   *)
(* before that.                                                            *)
RecordMissingOnlyByCleanup ==
  crashed => \E s \in Slots : slot[s].cleaned >= 0 /\ CountIn(hits, slot[s].cleaned) = 0

(* A request of an address that was in the table before the list was asked *)
(* for is let through only if it was taken out meanwhile or the query      *)
(* failed.                                                                 *)
ListedPassesOnlyByFailure ==
  \A s \in Slots : slot[s].pc = "handled" /\ slot[s].list.asked =>
    slot[s].list.st = "failed" \/ slot[s].list.lifted
(* Who is let through: within the limits whatever is blocked, reset and    *)
(* cleaned up meanwhile, and off the list.                                 *)
RateLimitsHold ==
  /\ RateTypeOK /\ QuotesWithinLimit /\ NotFoundsStopRequests
  /\ RecordMissingOnlyByCleanup /\ ListedPassesOnlyByFailure
=============================================================================
