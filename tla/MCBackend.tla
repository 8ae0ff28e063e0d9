----------------------------- MODULE MCBackend ------------------------------
(***************************************************************************)
(* The parts of the backend that share no state: the caches, the tables    *)
(* they stand before, the event handlers of the pools and the balances of  *)
(* the makers.  In a behaviour one of them runs and the others stay as     *)
(* they began.  The warmed cache is the promise cache with a clock, and    *)
(* runs on its state.                                                      *)
(***************************************************************************)
EXTENDS WarmCache, Memoize, PriceCache, MultiCache, EventHandlers, BalanceTracker

CONSTANTS m1, m2, c1, c2,   \* the makers and the callers of BalanceTracker
          WarmFetches       \* bound: the fetches of the warmed cache

VARIABLE which

MCInit ==
    /\ which \in {"map", "warm", "memo", "prices", "reads", "handlers", "balances"}
    /\ WarmInit /\ MemoInit /\ PriceInit /\ ReadInit /\ HandlersInit /\ BalancesInit
    /\ which # "warm" => resets
    /\ which # "handlers" => \A v \in Runtimes : runtime <= v

\* bounds of the balances: the second maker stays, the second caller comes second
FewChanges ==
    /\ m2 \in monitored => m2 \in monitored'
    /\ pc'[c2] # "idle" => pc'[c1] # "idle"

\* What a step of one of them leaves as it is.
Only(name, next, others) == which = name /\ next /\ UNCHANGED others

Timers == <<resets, warmTime, left, lookedUpAt, life>>

MCNext ==
    /\ UNCHANGED which
    /\ \/ Only("map", Next, <<Timers, memoVars, priceVars, readVars, handlerVars, balanceVars>>)
       \/ Only("warm", WarmNext /\ Latest' <= WarmFetches,
               <<memoVars, priceVars, readVars, handlerVars, balanceVars>>)
       \/ Only("memo", MemoNext, <<warmVars, priceVars, readVars, handlerVars, balanceVars>>)
       \/ Only("prices", PriceNext, <<warmVars, memoVars, readVars, handlerVars, balanceVars>>)
       \/ Only("reads", ReadNext, <<warmVars, memoVars, priceVars, handlerVars, balanceVars>>)
       \/ Only("handlers", HandlersNext, <<warmVars, memoVars, priceVars, readVars, balanceVars>>)
       \/ Only("balances", BalancesNext /\ FewChanges,
               <<warmVars, memoVars, priceVars, readVars, handlerVars>>)

MCVars == <<which, warmVars, memoVars, priceVars, readVars, handlerVars, balanceVars>>

MCSpec ==
    /\ MCInit /\ [][MCNext]_MCVars
    /\ PriceFairness /\ BalancesFairness

-----------------------------------------------------------------------------

\* The type invariants of the state that is here together.
BackendTypeOK == TypeOK /\ MemoTypeOK /\ PriceTypeOK /\ BalancesTypeOK

\* How old and how mixed what a cache serves may be: the prices of one answer, no
\* promise that failed, one fetch at a time unless the older is late, and warmed
\* values within their ttl unless lookups prolong them or a fetch was late.
CachedReads ==
    /\ PricesOfOneAnswer
    /\ ReadIsLive /\ FetchesOverlapOnlyWhenLate
    /\ StaleOnlyByLookups /\ WarmUnlessLate

\* Every call of the price cache and of the balances ends.
EveryCallEnds == EveryPriceCallEnds /\ EveryCallReturns
=============================================================================
