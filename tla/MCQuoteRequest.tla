--------------------------- MODULE MCQuoteRequest ---------------------------
(***************************************************************************)
(* QuoteRequest on two markets that differ in everything a cache can hold, *)
(* and requests of one and of two legs, of one chunk and of several.       *)
(***************************************************************************)
EXTENDS QuoteRequest

MarketAssets == {"Usdc", "Usdt", "Eth", "Btc"}
Market(eth, btc, liq, boost, supply, on, makers, factor) ==
  [usd |-> [a \in MarketAssets |-> CASE a = "Eth" -> eth [] a = "Btc" -> btc [] OTHER -> 1],
   pools |-> [a \in {"Usdt", "Eth", "Btc"} |->
                [quote |-> liq, base |-> CASE a = "Eth" -> liq \div eth
                                           [] a = "Btc" -> liq \div btc [] OTHER -> liq]],
   lps |-> <<[id |-> "maker", maker |-> TRUE, isLp |-> TRUE,
             free |-> [a \in MarketAssets |-> CASE a = "Eth" -> 300 [] a = "Btc" -> 500 [] OTHER -> liq \div 4]],
            [id |-> "other", maker |-> FALSE, isLp |-> TRUE, free |-> [a \in MarketAssets |-> 1000]],
            [id |-> "former", maker |-> TRUE, isLp |-> FALSE, free |-> [a \in MarketAssets |-> 5000]]>>,
   boost |-> boost, supply |-> supply, boostEnabled |-> on, makers |-> makers,
   factor |-> [a \in MarketAssets |-> factor]]

MCMarkets == <<
  Market(4, 2, 6000, <<[tier |-> 5, available |-> 3000], [tier |-> 30, available |-> 1000]>>, <<500>>,
         TRUE, {2000}, <<3, 2>>),
  Market(5, 1, 3000, <<[tier |-> 10, available |-> 2000]>>, <<>>, TRUE, {0}, <<1, 1>>) >>

Config(impact, disableLpp, oracle) ==
  [checkAllLps |-> ~disableLpp /\ oracle = None, warningPercent |-> 5, chunkUsd |-> 4000, maxChunks |-> 5, interval |-> 2, disableDca |-> FALSE,
   impact |-> [a \in MarketAssets |-> IF a = "Eth" THEN impact ELSE 0],
   disableLpp |-> disableLpp, tightLpp |-> 50, defaultLpp |-> None,
   oracle |-> [a \in MarketAssets |-> IF a = "Eth" THEN oracle ELSE 50],
   v2MaxUsd |-> 9000, minDeposit |-> [a \in MarketAssets |-> 5], maxAmount |-> 20000, ingressFee |-> 10,
   egressFee |-> 20, minEgress |-> 30, baseSlippage |-> Percent,
   blockTime |-> [a \in MarketAssets |-> IF a = "Btc" THEN 600 ELSE 12],
   margin |-> [a \in MarketAssets |-> CASE a = "Btc" -> 1 [] a = "Usdt" -> None [] OTHER -> 0], boostDelay |-> 0, ingressDelay |-> 0]

\* An impact of 2000 % of 100k is 100 % of 5k, and one of 3 % is next to nothing.
Request(src, dest, amount, onChain, vault, v2) ==
  [src |-> src, dest |-> dest, amount |-> amount, onChain |-> onChain, vault |-> vault, v2 |-> v2]

BtcUsdc(n, v2) == Request("Btc", "Usdc", n, FALSE, v2, v2)
BtcEth(n) == Request("Btc", "Eth", n, FALSE, FALSE, FALSE)
UsdtEth(n) == Request("Usdt", "Eth", n, FALSE, FALSE, FALSE)
UsdcEth(n, onChain, v2) == Request("Usdc", "Eth", n, onChain, FALSE, v2)
UsdtUsdc(n) == Request("Usdt", "Usdc", n, FALSE, FALSE, FALSE)

Plain == Config(0, FALSE, 60)
NoLpp == Config(3, TRUE, 60)
NoOracle == Config(2000, FALSE, None)

\* moves: may the market move?  fails: which fetches may fail.
Instance(requests, configs, moves, fails) ==
  [requests |-> requests, configs |-> configs, moves |-> moves, fails |-> fails]

Instances == {
  \* one leg with and without boost, DCA and v2
  Instance({BtcUsdc(8, FALSE), BtcUsdc(1500, FALSE), BtcUsdc(3500, TRUE), BtcUsdc(4300, FALSE)}, {Plain}, TRUE, {}),
  Instance({BtcUsdc(n, v2) : n \in {1500, 3500, 4300, 4600}, v2 \in BOOLEAN}, {Plain, NoLpp}, FALSE, Keys),
  \* two legs
  Instance({BtcEth(1500)}, {Plain}, TRUE, {}),
  Instance({BtcEth(3500)}, {Plain, NoLpp}, FALSE, {Prices}),
  Instance({UsdtEth(5000)}, {NoLpp}, TRUE, {}),
  \* price impact, minimum, v2, the whole range of amounts
  Instance({UsdcEth(n, o, v2) : n \in {50, 300, 5000, 7001, 9500}, o \in BOOLEAN, v2 \in BOOLEAN},
           {Plain, NoLpp, NoOracle}, TRUE, {}),
  Instance({UsdcEth(7001, FALSE, v2) : v2 \in BOOLEAN}, {NoLpp, NoOracle}, TRUE, Keys),
  Instance({UsdtUsdc(3000), UsdtUsdc(9000)}, {Plain}, TRUE, Keys) }

\* the one the others stay with when no quote is asked for
Still == Instance({BtcEth(1500)}, {Plain}, TRUE, {})

MCRequests == UNION {i.requests : i \in Instances}
MCConfigs == {Plain, NoLpp, NoOracle}

VARIABLE instance
QuotesInit == Init /\ instance \in Instances /\ request \in instance.requests /\ cfg \in instance.configs
QuotesNext ==
  /\ Next /\ UNCHANGED instance
  /\ market' = 1 \/ instance.moves
  /\ failed' \subseteq instance.fails \cup {Pools}
quoteVars == <<vars, instance>>
=============================================================================
