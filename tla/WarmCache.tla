----------------------------- MODULE WarmCache -----------------------------
(***************************************************************************)
(* The caches of utils/pools.ts in time: AsyncCacheMap with its timer, the *)
(* interval that refreshes the liquidity caches (warmCaches) and the       *)
(* lookups of quotes.  The interval does not wait for its last round, so   *)
(* refreshes overlap.  One asset, one cache: resets says which, the pool   *)
(* rows (every lookup restarts the timer, never warmed) or the liquidity   *)
(* (lookups leave the timer alone).                                        *)
(***************************************************************************)
EXTENDS AsyncCacheMap

CONSTANTS
    CacheTtl,      \* ttl of the pools and the liquidity
    WarmPeriod,    \* the interval of startPoolCacheWarming: half the ttl
    MaxWarmTime    \* bound: the clock

ASSUME WarmAssumption ==
    WarmPeriod \in Nat \ {0} /\ CacheTtl = 2 * WarmPeriod /\ MaxWarmTime \in Nat

VARIABLES
    resets,        \* resetExpiryOnLookup, and not warmed
    warmTime,      \* the clock
    left,          \* what is left on the entry's timer
    lookedUpAt,    \* the last lookup of a cache that resets
    life           \* for every fetch: when it started and when it came back

warmVars == <<vars, resets, warmTime, left, lookedUpAt, life>>

WarmInit ==
    /\ Init
    /\ resets \in BOOLEAN
    /\ warmTime = 0 /\ left = 0 /\ lookedUpAt = 0 /\ life = <<>>

Begun == life' = Append(life, [from |-> warmTime, back |-> MaxWarmTime + 1])

\* The fetch has come back, and its callback may have stored a value.
RestartsTimer(i) == IF entry' = i /\ entry # i THEN CacheTtl ELSE left

Returned(i) ==
    /\ life' = [life EXCEPT ![i] = [@ EXCEPT !.back = warmTime]]
    /\ left' = RestartsTimer(i)
    /\ UNCHANGED <<resets, warmTime, lookedUpAt>>

\* getPools and getTotalLiquidity.
LookupMisses ==
    /\ Get
    /\ Begun
    /\ left' = CacheTtl
    /\ lookedUpAt' = IF resets THEN warmTime ELSE lookedUpAt
    /\ UNCHANGED <<resets, warmTime>>

ResetIfAsked == IF resets THEN CacheTtl ELSE left

LookupHits ==
    /\ entry # 0
    /\ left' = ResetIfAsked
    /\ lookedUpAt' = IF resets THEN warmTime ELSE lookedUpAt
    /\ UNCHANGED <<vars, resets, warmTime, life>>

\* warmCaches, at the start and then on the interval.
WarmDue == ~resets /\ warmTime % WarmPeriod = 0

Warmed == \E i \in 1..Latest : fetches[i].kind # "get" /\ life[i].from = warmTime

Warm ==
    /\ WarmDue /\ ~Warmed
    /\ RefreshAbsent \/ RefreshPresent
    /\ Begun
    /\ left' = IF entry = 0 THEN CacheTtl ELSE left
    /\ UNCHANGED <<resets, warmTime, lookedUpAt>>

WarmFetchReturns ==
    \E i \in Pending :
        /\ \/ RefreshResolves(i) \/ MissResolves(i)
           \/ GetRejects(i) \/ FirstRejects(i) \/ RefreshRejects(i)
        /\ Returned(i)

TimerFires ==
    /\ left = 0
    /\ Expire
    /\ UNCHANGED <<resets, warmTime, left, lookedUpAt, life>>

\* The timer and the interval are not passed over.
WarmTimePasses ==
    /\ warmTime < MaxWarmTime
    /\ entry # 0 => left > 0
    /\ WarmDue => Warmed
    /\ warmTime' = warmTime + 1
    /\ left' = IF entry # 0 THEN left - 1 ELSE left
    /\ UNCHANGED <<vars, resets, lookedUpAt, life>>

WarmNext ==
    LookupMisses \/ LookupHits \/ Warm \/ WarmFetchReturns \/ TimerFires \/ WarmTimePasses

WarmSpec == WarmInit /\ [][WarmNext]_warmVars

-----------------------------------------------------------------------------

\* A value that was fetched longer ago than the ttl is served only from the pool
\* rows, and only while somebody looks it up at least once per ttl: warmed
\* liquidity is as young as its timer says plus the time its fetch took.
StaleOnlyByLookups ==
    entry \in DOMAIN life /\ life[entry].back <= MaxWarmTime /\ warmTime - life[entry].back > CacheTtl =>
        resets /\ warmTime - lookedUpAt <= CacheTtl

Ended(i) == IF life[i].back > warmTime THEN warmTime ELSE life[i].back

\* A fetch that failed or took longer than what a refresh leaves of the ttl.
Late(i) == fetches[i].state = "failed" \/ Ended(i) - life[i].from >= CacheTtl - WarmPeriod

\* Warmed liquidity is there for every quote, without a fetch on its way, unless
\* a fetch failed or was late within the last ttl.
WarmUnlessLate ==
    ~resets /\ entry = 0 /\ warmTime > 0 =>
        \E i \in 1..Latest : Late(i) /\ warmTime - Ended(i) <= CacheTtl
=============================================================================
