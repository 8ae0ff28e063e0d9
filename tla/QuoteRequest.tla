---------------------------- MODULE QuoteRequest ----------------------------
(***************************************************************************)
(* One GET /v2/quote, from QuoteRequest.create to the answer, while the    *)
(* market moves.                                                           *)
(*                                                                         *)
(* A quote is put together from the node, which answers for the market as  *)
(* it is, and from caches that were filled at different times.  The market *)
(* is a position in Markets; a cache holds the position it was filled at,  *)
(* 0 after a fetch that failed.  A lookup of a cache gives what it holds   *)
(* or, if it expired, what the market is now: that is all the timers of    *)
(* the caches (AsyncCacheMap, Memoize, PriceCache) amount to here.  What   *)
(* runs in parallel (Promise.all, Promise.allSettled) is one action each,  *)
(* in any order.                                                           *)
(***************************************************************************)
EXTENDS QuoteMath

CONSTANTS
  Markets,     \* what node, caches and makers can answer, one after another
  Requests,    \* records [src, dest, amount, onChain, vault, v2]
  Configs,     \* the environment variables
  Rejected,    \* a quote, or the node's answer to it, that failed
  MaxFailures  \* bound: fetches that fail

Quoted == {"Usdc", "Usdt", "Eth", "Btc"}
WhyNots == {"amount", "pools", "boost", "orders", "dca", "regular", "lookup", "liquidity"}

\* A position of the market: prices above zero, amounts, and no tier below the
\* fee of the supply pools.
IsMarket(m) ==
  /\ m.usd \in [Quoted -> Nat \ {0}]
  /\ \A a \in Quoted \ {"Usdc"} : m.pools[a].base \in Nat /\ m.pools[a].quote \in Nat
  /\ Len(m.lps) \in Nat /\ DOMAIN m.lps = 1..Len(m.lps)
  /\ \A i \in 1..Len(m.lps) : m.lps[i].free \in [Quoted -> Nat]
  /\ m.boost \in Seq([tier : {n \in Nat : n >= SupplyPoolBps}, available : Nat]) /\ m.supply \in Seq(Nat)

\* Whole numbers, two assets, a deposit, and a chunk that is worth something.
ASSUME QuoteAssumption ==
  /\ Len(Markets) \in Nat \ {0} /\ \A i \in 1..Len(Markets) : IsMarket(Markets[i])
  /\ \A q \in Requests : /\ q.src \in Quoted /\ q.dest \in Quoted /\ q.src # q.dest
                        /\ q.amount \in Nat \ {0}
  /\ \A g \in Configs :
       /\ {g.maxChunks, g.interval, g.ingressFee, g.egressFee, g.minEgress, g.tightLpp,
           g.boostDelay, g.ingressDelay} \subseteq Nat /\ g.chunkUsd \in Nat \ {0}
       /\ g.baseSlippage \in Int /\ g.warningPercent \in Int
       /\ {g.impact, g.blockTime} \subseteq [Quoted -> Nat] /\ g.margin \in [Quoted -> Nat \cup {None}]
       /\ g.oracle \in [Quoted -> Nat \cup {None}] /\ g.defaultLpp \in Nat \cup {None}
  /\ None \notin Int \cup BOOLEAN \cup {"v2"} \cup WhyNots
  /\ None \notin [offers : SUBSET {"regular", "dca"}, why : WhyNots \cup {None}]

VARIABLES
  market,   \* the position of the market
  cache,    \* the position each cache was filled at
  failed,   \* the fetches that failed, by the cache they were for
  request, cfg,
  pc,       \* "create", "params", "quotes", "eager", "done"
  todo,     \* what runs in parallel and has not come back
  params,   \* dcaQuoteParams, estimatedBoostFeeBps, the makers' orders
  rate,     \* what the node answered, by kind of quote
  quote,    \* the four quotes: None, Rejected or a record
  eager,    \* how the DCA quote passed the liquidity test: None, "v2" or "liquidity"
  answer    \* the kinds of quote offered, or why there is none

vars == <<market, cache, failed, request, cfg, pc, todo, params, rate, quote, eager, answer>>

Kinds == {"regular", "boosted", "dca", "dcaBoosted"}
IsDca(k) == k \in {"dca", "dcaBoosted"}
IsBoosted(k) == k \in {"boosted", "dcaBoosted"}

Keys == {<<"prices", "all">>, <<"flags", "all">>, <<"boost", "Btc">>, <<"supply", "Btc">>}
        \cup ({"deployed", "undeployed"} \X Quoted)
Prices == <<"prices", "all">>

Init ==
  /\ market = 1 /\ cache = [k \in Keys |-> 1] /\ failed = {}
  /\ request \in Requests /\ cfg \in Configs
  /\ pc = "create" /\ todo = {}
  /\ params = [dca |-> None, boost |-> None, maxBoost |-> 0, regular |-> 0, dcaOrders |-> 0]
  /\ rate = [k \in Kinds |-> None] /\ quote = [k \in Kinds |-> None]
  /\ eager = None /\ answer = None

-----------------------------------------------------------------------------
(* Reading.                                                                *)

Move ==
  /\ market < Len(Markets) /\ pc # "done"
  /\ market' = market + 1
  /\ UNCHANGED <<cache, failed, request, cfg, pc, todo, params, rate, quote, eager, answer>>

\* What the caches may hold after these were looked up: 0 where the fetch failed.
Lookup(keys) ==
  {[k \in Keys |-> IF k \in bad THEN 0 ELSE IF k \in new THEN market ELSE cache[k]] :
     bad \in {b \in SUBSET keys : Cardinality(failed \cup b) <= MaxFailures},
     new \in SUBSET keys}

Read(keys, c) ==
  /\ cache' = c
  /\ failed' = failed \cup {k \in keys : c[k] = 0}

Lost(keys, c) == \E k \in keys : c[k] = 0

UsdValue(c, asset, amount) ==
  IF c[Prices] = 0 THEN None ELSE amount * Markets[c[Prices]].usd[asset]

Answer(offers, why) == pc' = "done" /\ todo' = {} /\ answer' = [offers |-> offers, why |-> why]

-----------------------------------------------------------------------------
(* QuoteRequest.create.                                                    *)

MinAmount == cfg.minDeposit[request.src]
Accepted == /\ request.amount >= MinAmount /\ request.amount <= cfg.maxAmount
            /\ request.amount >= cfg.ingressFee

\* The limits and fees of the environment, then the pools, which must be there.
Pools == <<"pools", "all">>
Create ==
  /\ pc = "create"
  /\ \/ /\ Cardinality(failed) < MaxFailures /\ failed' = failed \cup {Pools}
        /\ Answer({}, "pools")
     \/ /\ IF Accepted
           THEN pc' = "params" /\ todo' = {"boost", "dca", "orders"} /\ UNCHANGED answer
           ELSE Answer({}, "amount")
        /\ UNCHANGED failed
  /\ UNCHANGED <<market, cache, request, cfg, params, rate, quote, eager>>

-----------------------------------------------------------------------------
(* generateQuotes: what is fetched first.                                  *)

Fetched(task) == todo' = todo \ {task} /\ UNCHANGED <<pc, answer>>
Fetching(task) == /\ pc = "params" /\ task \in todo
                  /\ UNCHANGED <<market, request, cfg, rate, quote, eager>>

\* An unknown safe mode counts as enabled; a pool that cannot be read fails
\* the request.
BoostKeys == {<<"flags", "all">>, <<"boost", "Btc">>, <<"supply", "Btc">>}

SetBoostQuoteParams ==
  /\ Fetching("boost")
  /\ \E c \in Lookup(IF request.src = "Btc" THEN BoostKeys ELSE {<<"flags", "all">>}) :
       LET flags == c[<<"flags", "all">>]
           enabled == flags # 0 => Markets[flags].boostEnabled
           pools == BoostPools([boost |-> Markets[c[<<"boost", "Btc">>]].boost,
                                supply |-> Markets[c[<<"supply", "Btc">>]].supply])
       IN  IF enabled /\ request.src = "Btc"
           THEN /\ Read(BoostKeys, c)
                /\ IF Lost(BoostKeys \ {<<"flags", "all">>}, c)
                   THEN Answer({}, "boost") /\ UNCHANGED params
                   ELSE /\ params' = [params EXCEPT !.boost = BoostBps(request.amount, pools),
                                                    !.maxBoost = MaxBoostBps(pools)]
                        /\ Fetched("boost")
           ELSE /\ Read({<<"flags", "all">>}, [cache EXCEPT ![<<"flags", "all">>] = flags])
                /\ Fetched("boost") /\ UNCHANGED params

SetDcaQuoteParams ==
  /\ Fetching("dca")
  /\ \E c \in Lookup({Prices}) :
       LET dca == DcaParams(request.amount, UsdValue(c, request.src, request.amount), cfg)
       IN  /\ Read({Prices}, c)
           /\ params' = [params EXCEPT !.dca = dca]
           /\ todo' = (todo \ {"dca"}) \cup (IF dca = None THEN {} ELSE {"dcaOrders"})
  /\ UNCHANGED <<pc, answer>>

\* approximateIntermediateOutput, for the second leg.
Approximates == IF OneLeg(request.src, request.dest) THEN {} ELSE {Prices}

\* What the makers add to each leg is theirs to say.
SetLimitOrders(task) ==
  /\ Fetching(task) /\ task \in {"orders", "dcaOrders"}
  /\ \E c \in Lookup(Approximates) :
       /\ Read(Approximates, c)
       /\ IF Lost(Approximates, c)
          THEN Answer({}, "orders") /\ UNCHANGED params
          ELSE /\ \E n \in Markets[market].makers :
                    params' = [params EXCEPT ![IF task = "orders" THEN "regular" ELSE task] = n]
               /\ Fetched(task)

Generate ==
  /\ pc = "params" /\ todo = {}
  /\ pc' = "quotes"
  /\ todo' = {k \in Kinds : /\ IsDca(k) => params.dca # None
                            /\ IsBoosted(k) => params.boost # None}
  /\ UNCHANGED <<market, cache, failed, request, cfg, params, rate, quote, eager, answer>>

-----------------------------------------------------------------------------
(* getPoolQuote.                                                           *)

InputOf(k) == request.amount
              - (IF IsBoosted(k) THEN PipAmount(request.amount, params.boost) ELSE 0)
ChunksOfQuote(k) == IF IsDca(k) THEN params.dca.chunks ELSE 1
OrdersOf(k) == IF IsDca(k) THEN params.dcaOrders ELSE params.regular

ExcludedFees == IF request.onChain THEN {"Egress", "IngressDepositChannel", "IngressVaultSwap"}
                ELSE IF request.vault THEN {"IngressDepositChannel"} ELSE {}

IngressFee == IF "IngressDepositChannel" \in ExcludedFees THEN 0 ELSE cfg.ingressFee
EgressFee == IF "Egress" \in ExcludedFees THEN 0 ELSE cfg.egressFee

\* cf_swap_rate_v3: one chunk is swapped at the price of the market against
\* the pools and the orders given, less a network fee of a thousandth in Usdc,
\* and stands for all of them.
SwapRate(k) ==
  LET m == Markets[market]
      legs == Legs(request.src, request.dest)
      n == ChunksOfQuote(k)
      Out(src, dest, x) == (x * m.usd[src]) \div m.usd[dest]
      middle == Out(request.src, "Usdc", (InputOf(k) - IngressFee) \div n)
      network == middle \div 1000
      last == Out("Usdc", request.dest, middle - network)
      Fits(leg, x) == x <= Deployed(m.pools[BaseOf(leg)], leg) + OrdersOf(k)
  IN  IF InputOf(k) <= IngressFee
      THEN [ingress |-> IngressFee, intermediate |-> None, egress |-> 0, network |-> 0, egressFee |-> EgressFee]
      ELSE IF ~\A leg \in legs : Fits(leg, IF leg[2] = request.dest THEN last ELSE middle)
      THEN Rejected
      ELSE [ingress |-> IngressFee, intermediate |-> IF OneLeg(request.src, request.dest) THEN None ELSE middle * n,
            egress |-> IF last * n > EgressFee THEN last * n - EgressFee ELSE 0,
            network |-> network * n, egressFee |-> EgressFee]

GetSwapRate(k) ==
  /\ pc = "quotes" /\ k \in todo /\ rate[k] = None
  /\ rate' = [rate EXCEPT ![k] = SwapRate(k)]
  /\ IF rate'[k] = Rejected
     THEN quote' = [quote EXCEPT ![k] = Rejected] /\ todo' = todo \ {k}
     ELSE UNCHANGED <<quote, todo>>
  /\ UNCHANGED <<market, cache, failed, request, cfg, pc, params, eager, answer>>

\* applyDcaPriceImpact: without the prices there is no impact.
Impact(c, r) ==
  LET first == cfg.impact[IF request.src = "Usdc" THEN request.dest ELSE request.src]
      second == IF r.intermediate = None THEN 0 ELSE cfg.impact[request.dest]
      usd1 == UsdValue(c, request.src, request.amount)
      usd2 == IF r.intermediate = None THEN 0 ELSE UsdValue(c, "Usdc", r.intermediate)
  IN  IF usd1 = None \/ usd2 = None THEN r
      ELSE WithImpact(r, ImpactBps(first, usd1), ImpactBps(second, usd2))

TooLow(r) == r.egress = 0 \/ r.egress < (IF request.onChain THEN 0 ELSE cfg.minEgress)

LegOut(r, leg) == IF leg[2] = request.dest THEN r.egress ELSE r.intermediate
LiquidityKeys == UNION {{<<"deployed", BaseOf(leg)>>, <<"undeployed", leg[2]>>} :
                          leg \in Legs(request.src, request.dest)}
DeployedIn(c, leg) == Deployed(Markets[c[<<"deployed", BaseOf(leg)>>]].pools[BaseOf(leg)], leg)
UndeployedIn(c, leg) == Undeployed(Markets[c[<<"undeployed", leg[2]>>]].lps, leg[2], cfg)

\* The whole output counts once for every chunk.
LiquidityAdjustment(c, k, r) ==
  Max({DeployedAdjustment(LegOut(r, leg) * ChunksOfQuote(k), DeployedIn(c, leg))
       + UndeployedAdjustment(LegOut(r, leg) * ChunksOfQuote(k), UndeployedIn(c, leg)) :
         leg \in Legs(request.src, request.dest)})

IsTight == Tight(request.src, request.dest)
QuoteKeys(k) == {Prices} \cup (IF IsTight THEN {} ELSE LiquidityKeys)

\* checkPriceWarning catches a failing price.
Warning(c, k, r) ==
  IF c[Prices] = 0 THEN None
  ELSE Warns(UsdValue(c, request.src, InputOf(k) - r.ingress),
             UsdValue(c, request.dest, r.egress + r.egressFee), cfg)

QuoteOf(c, k, r) ==
  [egress |-> r.egress, warning |-> Warning(c, k, r), intermediate |-> r.intermediate,
   slippage |-> IF IsTight THEN TightSlippage(InputOf(k) - r.ingress, r.egress + r.egressFee)
                ELSE Slippage(request.src, request.dest, LiquidityAdjustment(c, k, r),
                              IsBoosted(k), request.onChain, cfg),
   live |-> LivePriceSlippage(request.src, request.dest, cfg),
   durations |-> Durations(request.src, request.dest, IsBoosted(k), request.onChain, cfg),
   total |-> TotalOf(Durations(request.src, request.dest, IsBoosted(k), request.onChain, cfg))]

GetPoolQuote(k) ==
  /\ pc = "quotes" /\ k \in todo /\ rate[k] # None
  /\ \E c \in Lookup(QuoteKeys(k)) :
       LET r == IF IsDca(k) THEN Impact(c, rate[k]) ELSE rate[k]
           keys == IF TooLow(r) THEN QuoteKeys(k) \ LiquidityKeys ELSE QuoteKeys(k)
       IN  /\ Read(keys, [x \in Keys |-> IF x \in keys THEN c[x] ELSE cache[x]])
           /\ quote' = [quote EXCEPT ![k] =
                IF TooLow(r) \/ Lost(keys \ {Prices}, c) THEN Rejected ELSE QuoteOf(c, k, r)]
  /\ todo' = todo \ {k} /\ rate' = [rate EXCEPT ![k] = None]
  /\ UNCHANGED <<market, request, cfg, pc, params, eager, answer>>

-----------------------------------------------------------------------------
(* generateQuotes: which of the quotes are offered.                        *)

HasQuote(k) == quote[k] \notin {None, Rejected}

Extended(k) ==
  IF IsDca(k) /\ HasQuote(k)
  THEN [quote[k] EXCEPT !.durations.swap = @ + params.dca.extra, !.total = @ + params.dca.extra]
  ELSE quote[k]

\* A DCA quote that was rejected fails the request, whatever the regular one is.
Settle ==
  /\ pc = "quotes" /\ todo = {}
  /\ IF quote["dca"] = Rejected THEN Answer({}, "dca") /\ UNCHANGED quote
     ELSE IF params.dca = None /\ quote["regular"] = Rejected
     THEN Answer({}, "regular") /\ UNCHANGED quote
     ELSE /\ quote' = [k \in Kinds |-> Extended(k)]
          /\ pc' = "eager" /\ todo' = {"dca", "regular"} /\ UNCHANGED answer
  /\ UNCHANGED <<market, cache, failed, request, cfg, params, rate, eager>>

CanUseDcaV2(c) ==
  LET usd == UsdValue(c, request.src, request.amount)
  IN  ~cfg.disableLpp /\ request.v2 /\ usd # None /\ usd <= cfg.v2MaxUsd

\* Of the pools at one moment and the accounts at another, by the factor of a third.
TotalLiquidity(i, j, n, k, leg) ==
  LET factor == IF IsDca(k) THEN Markets[n].factor[leg[2]] ELSE <<1, 1>>
  IN  ((Deployed(Markets[i].pools[BaseOf(leg)], leg) + Undeployed(Markets[j].lps, leg[2], cfg))
         * factor[1]) \div factor[2]

EagerLiquidityExists(c, k) ==
  \A leg \in Legs(request.src, request.dest) :
    TotalLiquidity(c[<<"deployed", BaseOf(leg)>>], c[<<"undeployed", leg[2]>>], market, k, leg)
      > LegOut(quote[k], leg)

\* The DCA quote comes first; v2 is only asked for where it may be used.
TestDca ==
  /\ pc = "eager" /\ "dca" \in todo
  /\ IF ~HasQuote("dca") THEN todo' = {"regular"} /\ UNCHANGED <<cache, failed, eager, pc, answer>>
     ELSE \E c \in Lookup((IF request.v2 THEN {Prices} ELSE {}) \cup LiquidityKeys) :
            LET v2 == request.v2 /\ CanUseDcaV2(c)
                keys == (IF request.v2 THEN {Prices} ELSE {}) \cup (IF v2 THEN {} ELSE LiquidityKeys)
            IN  /\ Read(keys, [x \in Keys |-> IF x \in keys THEN c[x] ELSE cache[x]])
                /\ IF Lost(keys \ {Prices}, c) THEN Answer({}, "lookup") /\ UNCHANGED eager
                   ELSE /\ eager' = IF v2 THEN "v2"
                                    ELSE IF EagerLiquidityExists(c, "dca") THEN "liquidity" ELSE None
                        /\ todo' = {"regular"} /\ UNCHANGED <<pc, answer>>
  /\ UNCHANGED <<market, request, cfg, params, rate, quote>>

\* MUTANT: the DCA quote takes the place of the regular one.
OfferOne(regular) ==
  LET offers == IF eager # None THEN {"dca"} ELSE IF regular THEN {"regular"} ELSE {}
  IN  Answer(offers, IF offers = {} THEN "liquidity" ELSE None)

Offer(regular) ==
  LET offers == (IF regular THEN {"regular"} ELSE {}) \cup (IF eager # None THEN {"dca"} ELSE {})
  IN  Answer(offers, IF offers = {} THEN "liquidity" ELSE None)

TestRegular ==
  /\ pc = "eager" /\ todo = {"regular"}
  /\ IF ~HasQuote("regular") THEN Offer(FALSE) /\ UNCHANGED <<cache, failed>>
     ELSE \E c \in Lookup(LiquidityKeys) :
            /\ Read(LiquidityKeys, c)
            /\ IF Lost(LiquidityKeys, c) THEN Answer({}, "lookup")
               ELSE Offer(EagerLiquidityExists(c, "regular"))
  /\ UNCHANGED <<market, request, cfg, params, rate, quote, eager>>

Next ==
  \/ Move
  \/ Create
  \/ SetBoostQuoteParams
  \/ SetDcaQuoteParams
  \/ \E task \in {"orders", "dcaOrders"} : SetLimitOrders(task)
  \/ Generate
  \/ \E k \in Kinds : GetSwapRate(k) \/ GetPoolQuote(k)
  \/ Settle
  \/ TestDca
  \/ TestRegular

Spec == Init /\ [][Next]_vars

-----------------------------------------------------------------------------
(* What holds.                                                             *)

(* Every cache holds a position of the market that was, every quote that a *)
(* request waits for is of a kind it has the parameters for, and an answer *)
(* offers something or says why not.                                       *)
TypeOK ==
  /\ market \in 1..Len(Markets)
  /\ \A k \in Keys : cache[k] <= market /\ (cache[k] = 0 => k \in failed)
  /\ pc \in {"create", "params", "quotes", "eager", "done"}
  /\ \A k \in Kinds : quote[k] # None =>
        (IsDca(k) => params.dca # None) /\ (IsBoosted(k) => params.boost # None)
  /\ pc = "done" <=> answer # None
  /\ pc = "done" => /\ answer.offers \subseteq {"regular", "dca"} /\ answer.why \in WhyNots \cup {None}
                    /\ (answer.offers = {}) <=> (answer.why # None)
                    /\ \A k \in answer.offers : HasQuote(k)

(* The chunks of a DCA swap make up the deposit but for the rounding of    *)
(* each by half a unit, none is worth more than the configured value, and  *)
(* one chunk fewer would be.                                               *)
DcaSplitsWhole ==
  params.dca # None =>
    LET n == params.dca.chunks
        gap == n * params.dca.chunkSize - request.amount
        usd == {Markets[i].usd[request.src] * request.amount : i \in 1..market}
    IN  /\ n \in 2..cfg.maxChunks
        /\ 2 * gap <= n /\ -2 * gap <= n
        /\ \E u \in usd : u <= n * cfg.chunkUsd /\ u > (n - 1) * cfg.chunkUsd

(* A boost is estimated only where the pools of one moment, or of the two  *)
(* moments the two kinds were read at, cover the whole deposit; the fee is *)
(* then between the least and the greatest tier.                           *)
BoostCovered ==
  params.boost # None =>
    /\ params.boost >= 5 /\ params.boost <= params.maxBoost
    /\ \E i, j \in 1..market :
         LET pools == BoostPools([boost |-> Markets[i].boost, supply |-> Markets[j].supply])
         IN  SumOf([p \in DOMAIN pools |-> pools[p].available]) >= request.amount

(* What is offered can be paid, by what the pools had at one moment, the   *)
(* makers at another and the factors at a third: more than the market ever *)
(* held at once is offered only where caches were filled at different      *)
(* moments, and by DCA v2, which is not tested.                            *)
OverOfferedOnlyByMixedCaches ==
  pc = "done" => \A k \in answer.offers :
    \/ k = "dca" /\ eager = "v2"
    \/ \A leg \in Legs(request.src, request.dest) : \E i, j, n \in 1..market :
         TotalLiquidity(i, j, n, k, leg) > LegOut(quote[k], leg)

(* While the market stands still and every fetch succeeds, a regular quote *)
(* that the market can pay is withheld for one reason only: the DCA quote  *)
(* of the same request was rejected.                                       *)
RegularWithheldOnlyByDca ==
  pc = "done" /\ market = 1 /\ failed = {} /\ HasQuote("regular")
  /\ (\A leg \in Legs(request.src, request.dest) :
        TotalLiquidity(1, 1, 1, "regular", leg) > LegOut(quote["regular"], leg))
  /\ "regular" \notin answer.offers => quote["dca"] = Rejected

(* A request without a price fails for that only if it has two legs: the   *)
(* makers must be told an amount for the second one.                       *)
PriceStopsOnlyTwoLegs ==
  pc = "done" /\ answer.why \in {"orders", "boost", "lookup"} /\ failed = {Prices}
    => answer.why = "orders" /\ ~OneLeg(request.src, request.dest)

(* Every quote pays out something, boosted or not, at least the minimum    *)
(* where it leaves Chainflip: a price impact above 100 % never turns the   *)
(* sign of the output into an offer.                                       *)
QuotesPayOut ==
  \A k \in Kinds : HasQuote(k) =>
    quote[k].egress > 0 /\ (request.onChain \/ quote[k].egress >= cfg.minEgress)

(* The total duration of every quote is that of its parts, also after the  *)
(* chunks of a DCA swap were added, and the boosted quote waits for the    *)
(* same chunks as the one it hangs on.                                     *)
DurationsAddUp ==
  \A k \in Kinds : HasQuote(k) =>
    /\ quote[k].total = TotalOf(quote[k].durations)
    /\ pc \in {"eager", "done"} /\ HasQuote("dca") /\ HasQuote("dcaBoosted") =>
          quote["dca"].durations.swap = quote["dcaBoosted"].durations.swap

(* A recommendation is a multiple of 0.25 within its bounds unless the pair *)
(* is a tight one, however much or little liquidity there is.  While the   *)
(* market stands still boosting a deposit never asks for more than waiting *)
(* for it, with two exceptions that the code makes: a source chain whose   *)
(* safety margin is 0 or missing counts as no wait at all (rpc.ts:100), and *)
(* a price impact can leave the larger DCA deposit with the smaller output. *)
Impacted == \E a \in BaseAssets(request.src, request.dest) : cfg.impact[a] # 0
NoLargerOut(k, j) ==
  /\ quote[k].egress <= quote[j].egress
  /\ quote[k].intermediate = None \/ quote[k].intermediate <= quote[j].intermediate
BoostedAsksNoMoreSlippage ==
  ~IsTight =>
    /\ \A k \in Kinds : HasQuote(k) => /\ quote[k].slippage % (Percent \div 4) = 0
                                       /\ quote[k].slippage \in MinSlippage..MaxSlippage
    /\ market = 1 /\ cfg.margin[request.src] \notin {None, 0} =>
         \A p \in {<<"boosted", "regular">>, <<"dcaBoosted", "dca">>} :
           /\ HasQuote(p[1]) /\ HasQuote(p[2])
           /\ IsDca(p[1]) /\ Impacted => NoLargerOut(p[1], p[2])
           => quote[p[1]].slippage <= quote[p[2]].slippage

(* Only a price impact can raise the warning of low liquidity while the    *)
(* market stands still: the fees for ingress, egress and boost do not,     *)
(* however large a part they are, only a deposit so small that the network *)
(* fee and the unit of each asset cut from every chunk pass the threshold. *)
CutFrom(k) == ChunksOfQuote(k) * (Markets[1].usd[request.src] + Markets[1].usd["Usdc"]
                                  + Markets[1].usd[request.dest])
OnlyImpactWarns ==
  market = 1 => \A k \in Kinds : HasQuote(k) /\ quote[k].warning = TRUE =>
    \/ IsDca(k) /\ Impacted
    \/ (10 * cfg.warningPercent - 1) * ((InputOf(k) - IngressFee) * Markets[1].usd[request.src])
         <= 1000 * CutFrom(k)

(* "lpp is a requirement for dca v2" (QuoteRequest.ts:526): a quote that   *)
(* skips the liquidity test has no live price protection only if one of    *)
(* its assets has no oracle.                                               *)
UnprotectedOnlyWithoutOracle ==
  pc = "done" /\ eager = "v2" /\ quote["dca"].live = None =>
    \E a \in BaseAssets(request.src, request.dest) : cfg.oracle[a] = None

(* However the parts of a quote are rounded, they fit each other: boost    *)
(* and pools, slippages with and without boost, values and warning.        *)
QuotesAddUp == BoostCovered /\ BoostedAsksNoMoreSlippage /\ OnlyImpactWarns

(* What is offered, how it is split and what is withheld follows the       *)
(* market at the moments it was looked at, with the exceptions that the    *)
(* parts name.                                                             *)
OffersFollowTheMarket ==
  /\ TypeOK /\ DcaSplitsWhole /\ DurationsAddUp /\ QuotesPayOut
  /\ OverOfferedOnlyByMixedCaches /\ RegularWithheldOnlyByDca /\ PriceStopsOnlyTwoLegs
  /\ UnprotectedOnlyWithoutOracle
=============================================================================
