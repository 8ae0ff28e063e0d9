------------------------------ MODULE QuoteMath ------------------------------
(***************************************************************************)
(* The arithmetic of a quote, as functions of what was fetched for it.     *)
(*                                                                         *)
(* A bigint division cuts toward zero.  Percentages are whole numbers of   *)
(* ten-thousandths, so that the steps of 0.25 and the cap of 1 are exact;  *)
(* a Number that is no such multiple is cut.                               *)
(***************************************************************************)
EXTENDS Integers, SequencesExt

CONSTANT None     \* null and undefined

\* reduce, with + from 0, as a recursive function of the index.
SumOf(values) ==
  LET sum[i \in 0..Len(values)] == IF i = 0 THEN 0 ELSE sum[i - 1] + values[i]
  IN  sum[Len(values)]

ONE_IN_PIP == 10000
BlockSeconds == 6 \* CHAINFLIP_STATECHAIN_BLOCK_TIME_SECONDS
SupplyPoolBps == 5

Cut(a, b) == IF a >= 0 THEN a \div b ELSE -((-a) \div b)
CeilDiv(a, b) == (a + b - 1) \div b
HalfUp(a, b) == (2 * a + b) \div (2 * b)
PipAmount(amount, pips) == Cut(amount * pips, ONE_IN_PIP)

(* Assets and the pools between them, which all have Usdc as quote asset.  *)
OneLeg(src, dest) == "Usdc" \in {src, dest}
Legs(src, dest) == IF OneLeg(src, dest) THEN {<<src, dest>>}
                   ELSE {<<src, "Usdc">>, <<"Usdc", dest>>}
BaseAssets(src, dest) == {src, dest} \ {"Usdc"}
BaseOf(leg) == IF leg[1] = "Usdc" THEN leg[2] ELSE leg[1]
Deployed(pool, leg) == IF leg[1] = "Usdc" THEN pool.base ELSE pool.quote

\* The sum of the free balances of the liquidity providers that count.
LpAccounts(lps, cfg) == {i \in DOMAIN lps : (cfg.checkAllLps \/ lps[i].maker) /\ lps[i].isLp}
Undeployed(lps, asset, cfg) ==
  SumOf([i \in DOMAIN lps |-> IF i \in LpAccounts(lps, cfg) THEN lps[i].free[asset] ELSE 0])

\* The output is worth so much less than the input.
Warns(usdIn, usdOut, cfg) == 100 * (usdIn - usdOut) >= cfg.warningPercent * usdIn

-----------------------------------------------------------------------------
(* DCA.                                                                    *)

ChunksOf(usd, chunkUsd) == CeilDiv(usd, chunkUsd)

DcaParams(amount, usd, cfg) ==
  LET n == ChunksOf(usd, cfg.chunkUsd)
  IN  IF usd = None \/ cfg.disableDca THEN None
      ELSE IF usd <= cfg.chunkUsd \/ n > cfg.maxChunks THEN None
      ELSE [chunks |-> n, chunkSize |-> HalfUp(amount, n),
            extra |-> cfg.interval * BlockSeconds * (n - 1)]

\* The percentage is per 100k USD.
ImpactBps(percent, usd) == HalfUp(percent * usd, 1000)

WithImpact(rate, impact1, impact2) ==
  LET both == ONE_IN_PIP - impact1 - impact2
      first == ONE_IN_PIP - impact1
  IN  [rate EXCEPT !.network = PipAmount(@, first),
                   !.egressFee = PipAmount(@, both),
                   !.intermediate = IF @ = None THEN None ELSE PipAmount(@, first),
                   !.egress = PipAmount(@, both)]

-----------------------------------------------------------------------------
(* Boost.  The pools are ordered by tier, the supply pools come last.      *)

BoostPools(market) ==
  market.boost \o [i \in DOMAIN market.supply |->
                     [tier |-> SupplyPoolBps, available |-> market.supply[i]]]

Take(acc, pool) ==
  LET used == IF pool.available < acc.left THEN pool.available ELSE acc.left
  IN  [left |-> acc.left - used, fee |-> acc.fee + PipAmount(used, pool.tier)]

\* What is left to cover, and the fee so far, after all the pools.
TakeAll(amount, pools) ==
  LET after[i \in 0..Len(pools)] ==
        IF i = 0 THEN [left |-> amount, fee |-> 0] ELSE Take(after[i - 1], pools[i])
  IN  after[Len(pools)]

MaxBoostBps(pools) ==
  LET best[i \in 0..Len(pools)] ==
        IF i = 0 THEN 0 ELSE IF pools[i].tier > best[i - 1] THEN pools[i].tier ELSE best[i - 1]
  IN  best[Len(pools)]

\* MUTANT: what the pools cannot cover is left out of the test.
BoostBpsOfPart(amount, pools) ==
  LET bps == (TakeAll(amount, pools).fee * ONE_IN_PIP) \div amount
  IN  IF bps > 5 THEN bps ELSE 5

BoostBps(amount, pools) ==
  LET all == TakeAll(amount, pools)
      bps == (all.fee * ONE_IN_PIP) \div amount
  IN  IF all.left > 0 THEN None ELSE IF bps > 5 THEN bps ELSE 5

-----------------------------------------------------------------------------
(* Recommended slippage.                                                   *)

Percent == 10000
MinSlippage == Percent \div 2
MaxSlippage == (5 * Percent) \div 2

Clamp(x) == IF x < MinSlippage THEN MinSlippage ELSE IF x > MaxSlippage THEN MaxSlippage ELSE x
Quarter(x) == HalfUp(x, Percent \div 4) * (Percent \div 4)

\* A pool without liquidity gives Infinity, which the maximum takes back.
DeployedAdjustment(amount, deployed) ==
  IF 2 * amount <= deployed THEN 0
  ELSE IF deployed = 0 THEN 10 * MaxSlippage
  ELSE (amount * (Percent \div 2)) \div deployed

UndeployedAdjustment(amount, undeployed) ==
  IF amount < undeployed \div 2 THEN -(Percent \div 2) ELSE 0

\* A safety margin of 0 counts like none: no confirmation at all.
Confirmations(src, boosted, cfg) ==
  IF boosted THEN 1 ELSE IF cfg.margin[src] \in {None, 0} THEN 0 ELSE cfg.margin[src] + 1

DepositTimeAdjustment(src, boosted, cfg) ==
  LET seconds == Confirmations(src, boosted, cfg) * cfg.blockTime[src]
  IN  IF seconds > 1200 THEN Percent ELSE (seconds * Percent) \div 1200

Stable == {"Usdc", "Usdt"}
Tight(src, dest) == src \in Stable /\ dest \in Stable

\* 1 - STABLE_COIN_SLIPPAGE_MIN_PRICE / price, to two decimals of a percent.
TightSlippage(input, output) ==
  LET gap == 100 * HalfUp(10000 * output - 9950 * input, output)
  IN  IF gap > MinSlippage THEN gap ELSE MinSlippage

\* liquidity is the adjustment of the leg that needs more.
Slippage(src, dest, liquidity, boosted, onChain, cfg) ==
  IF "Flip" \in {src, dest} THEN 10 * Percent
  ELSE Clamp(Quarter(cfg.baseSlippage + liquidity
                     + IF onChain THEN 0 ELSE DepositTimeAdjustment(src, boosted, cfg)))

\* In basis points; null where one base asset has no oracle protection.
LivePriceSlippage(src, dest, cfg) ==
  LET bases == BaseAssets(src, dest)
      n == Cardinality(bases)
      Oracle(a) == IF a \in bases THEN cfg.oracle[a] ELSE 0
  IN  IF cfg.disableLpp \/ \E a \in bases : Oracle(a) = None THEN None
      ELSE IF Tight(src, dest) THEN cfg.tightLpp * n
      ELSE IF cfg.defaultLpp # None THEN cfg.defaultLpp * n
      ELSE Oracle(src) + Oracle(dest)

-----------------------------------------------------------------------------
(* Durations, in seconds.  A duration that is left out counts 0.           *)

Durations(src, dest, boosted, onChain, cfg) ==
  [swap |-> 2 * BlockSeconds,
   deposit |-> IF onChain THEN 0
               ELSE cfg.blockTime[src] \div 2 + BlockSeconds + cfg.ingressDelay * BlockSeconds
                    + (IF boosted THEN cfg.boostDelay * BlockSeconds
                       ELSE cfg.blockTime[src] * (IF cfg.margin[src] = None THEN 1 ELSE cfg.margin[src])),
   egress |-> IF onChain THEN 0 ELSE 90 + cfg.blockTime[dest] \div 2]

TotalOf(d) == d.swap + d.deposit + d.egress
=============================================================================
