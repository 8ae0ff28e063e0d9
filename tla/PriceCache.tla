---------------------------- MODULE PriceCache -----------------------------
(***************************************************************************)
(* PriceCache (swap/src/pricing/index.ts): the prices of all assets, asked *)
(* for in one request.  Quotes, channels and finished swaps call it at the *)
(* same time: the first call that finds the prices too old sends the       *)
(* request, the others wait for it and then look again.                    *)
(*                                                                         *)
(* Code between two awaits is one action.  A price is the number of the    *)
(* request it came with, 0 before the first.  Two assets stand for all.    *)
(***************************************************************************)
EXTENDS Integers, Sequences, FiniteSets

CONSTANTS
    PriceCallers,   \* calls of getAssetPrice that may be under way together
    PriceTTL,       \* PriceCache.TTL
    MaxPriceTime,   \* bound: the clock
    MaxRequests,    \* bound: the calls, each sends at most one request
    NoFetch         \* fetchPromise is undefined

ASSUME PriceAssumption ==
    /\ PriceTTL \in Nat \ {0} /\ MaxPriceTime \in Nat /\ MaxRequests \in Nat
    /\ IsFiniteSet(PriceCallers) /\ NoFetch \notin PriceCallers

VARIABLES
    priceTime,      \* Date.now(), which starts long after 0
    cache,          \* for each asset, the request its price came with
    lastCacheSet,
    fetchPromise,   \* the call that will resolve it
    asking,         \* where each call stands
    asked,          \* the calls made
    requests        \* when each request came back and how, in the order sent

priceVars == <<priceTime, cache, lastCacheSet, fetchPromise, asking, asked, requests>>

PricedAssets == 1..2

Request == [back : 0..(PriceTTL + MaxPriceTime), outcome : {"pending", "ok", "failed"}]

PriceInit ==
    /\ priceTime = PriceTTL
    /\ cache = [a \in PricedAssets |-> 0]
    /\ lastCacheSet = 0
    /\ fetchPromise = NoFetch
    /\ asking = [c \in PriceCallers |-> "idle"]
    /\ asked = 0
    /\ requests = <<>>

FreshEnough == priceTime - lastCacheSet < PriceTTL

AsksPrice(c) ==
    /\ asking[c] = "idle" /\ asked < MaxRequests
    /\ asking' = [asking EXCEPT ![c] = "looks"]
    /\ asked' = asked + 1
    /\ UNCHANGED <<priceTime, cache, lastCacheSet, fetchPromise, requests>>

\* The price is there.
ServedFromCache(c) ==
    /\ asking[c] = "looks" /\ FreshEnough
    /\ asking' = [asking EXCEPT ![c] = "idle"]
    /\ UNCHANGED <<priceTime, cache, lastCacheSet, fetchPromise, asked, requests>>

\* Somebody has asked already: await this.fetchPromise, then look again.
WaitsForFetch(c) ==
    /\ asking[c] = "looks" /\ ~FreshEnough /\ fetchPromise # NoFetch
    /\ asking' = [asking EXCEPT ![c] = "waits"]
    /\ UNCHANGED <<priceTime, cache, lastCacheSet, fetchPromise, asked, requests>>

SendsRequest(c) ==
    /\ asking[c] = "looks" /\ ~FreshEnough /\ fetchPromise = NoFetch
    /\ fetchPromise' = c
    /\ asking' = [asking EXCEPT ![c] = "fetches"]
    /\ requests' = Append(requests, [back |-> 0, outcome |-> "pending"])
    /\ UNCHANGED <<priceTime, cache, lastCacheSet, asked>>

ClearsPromise(c) == fetchPromise' = NoFetch

Wakes(d, outcome) == asking[d] = "waits"

\* finally: those who wait look again.
Finally(c, outcome) ==
    /\ ClearsPromise(c)
    /\ asking' = [d \in PriceCallers |->
                     IF d = c THEN "idle" ELSE IF Wakes(d, outcome) THEN "looks" ELSE asking[d]]
    /\ requests' = [requests EXCEPT ![Len(requests)] = [back |-> priceTime, outcome |-> outcome]]
    /\ UNCHANGED <<priceTime, asked>>

Forgotten == lastCacheSet

Now == priceTime

RequestAnswered(c) ==
    /\ asking[c] = "fetches"
    /\ cache' = [a \in PricedAssets |-> Len(requests)]
    /\ lastCacheSet' = Now
    /\ Finally(c, "ok")

Distrusted == 0

\* No answer, or one that lacks an asset: the prices before it are taken over.
RequestFailed(c) ==
    /\ asking[c] = "fetches"
    /\ \E upTo \in 0..1 :
          cache' = [a \in PricedAssets |-> IF a <= upTo THEN Len(requests) ELSE cache[a]]
    /\ lastCacheSet' = Distrusted
    /\ Finally(c, "failed")

PriceTimePasses ==
    /\ priceTime < PriceTTL + MaxPriceTime
    /\ priceTime' = priceTime + 1
    /\ UNCHANGED <<cache, lastCacheSet, fetchPromise, asking, asked, requests>>

PriceNext ==
    \/ \E c \in PriceCallers :
          \/ AsksPrice(c) \/ ServedFromCache(c) \/ WaitsForFetch(c)
          \/ SendsRequest(c) \/ RequestAnswered(c) \/ RequestFailed(c)
    \/ PriceTimePasses

\* A request is answered or times out, and the event loop runs what is ready.
PriceFairness ==
    \A c \in PriceCallers :
        /\ WF_priceVars(ServedFromCache(c) \/ WaitsForFetch(c) \/ SendsRequest(c))
        /\ WF_priceVars(RequestAnswered(c) \/ RequestFailed(c))

PriceSpec == PriceInit /\ [][PriceNext]_priceVars /\ PriceFairness

-----------------------------------------------------------------------------

\* Type invariant; fetchPromise is set exactly while its call fetches.
PriceTypeOK ==
    /\ cache \in [PricedAssets -> 0..Len(requests)]
    /\ lastCacheSet \in 0..priceTime
    /\ asking \in [PriceCallers -> {"idle", "looks", "waits", "fetches"}]
    /\ requests \in Seq(Request) /\ Len(requests) <= asked
    /\ \A c \in PriceCallers : asking[c] = "fetches" <=> fetchPromise = c

\* Prices that are served were all quoted in one answer, and the last one: what
\* a broken answer left behind is never mixed with older prices.
PricesOfOneAnswer ==
    FreshEnough => \A a \in PricedAssets : cache[a] > 0 /\ cache[a] = cache[1]
                      /\ requests[cache[a]].outcome = "ok"

\* However many calls overlap, the price service is asked once, and after an
\* answer not before it is too old: a request is sent when the one before it
\* is back, and a time to live after it if that was an answer.
OneRequestPerTTL ==
    [][\A n \in 1..Len(requests) :
          Len(requests') > Len(requests) =>
             /\ requests[n].outcome # "pending"
             /\ requests[n].outcome = "ok" => priceTime - requests[n].back >= PriceTTL]_priceVars

\* Every call ends, with a price or an error of its own request, also when
\* the request it waited for failed.
EveryPriceCallEnds == \A c \in PriceCallers : asking[c] = "looks" ~> asking[c] = "idle"
=============================================================================
