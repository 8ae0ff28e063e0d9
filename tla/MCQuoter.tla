------------------------------ MODULE MCQuoter ------------------------------
(***************************************************************************)
(* Quoter and LimitOrders for TLC: two overlapping requests of three       *)
(* makers, one of them beta; and the data of one request to two accounts,  *)
(* the first with two clients.  In a behaviour one of them runs and the    *)
(* other stays as it began.                                                *)
(***************************************************************************)
EXTENDS Quoter, LimitOrders, TLC

CONSTANTS x, y, x1, x2, y1

MCAccountOf == (x1 :> x) @@ (x2 :> x) @@ (y1 :> y)
MCQuotedAssets == (x1 :> {"Btc", "Eth", "Usdt"}) @@ (x2 :> {"Btc"}) @@ (y1 :> {"Eth"})
MCAssets == {"Btc", "Eth", "Usdt", "Usdc"}
Factors(btc, eth) == [t \in MCAssets |-> IF t = "Btc" THEN btc ELSE IF t = "Eth" THEN eth ELSE 5]
MCRecords == {
  [beta |-> FALSE, mev |-> [buy |-> Factors(2, 0), sell |-> Factors(0, -3)], repl |-> Factors(2, 3)],
  [beta |-> TRUE, mev |-> [buy |-> Factors(0, 0), sell |-> Factors(0, 0)], repl |-> Factors(-1, 0)]}
MCSwaps == {[src |-> "Btc", dest |-> "Eth"], [src |-> "Usdc", dest |-> "Eth"], [src |-> "Usdt", dest |-> "Usdc"]}
MCBooks == {<<>>, <<12, 11>>}
MCHoldings == {[t \in MCAssets |-> IF t = "Usdc" THEN 10 ELSE 0]}

\* "clients" come, fail and go before any request; in "orders" they are as
\* good as connected and one at most leaves after it was asked.
VARIABLE which
MCInit == Init /\ OrdersInit /\ which \in {"requests", "clients", "orders"}
          /\ (which # "requests" => connected = {})
Settled == \A c \in Clients : client'[c].auth = FirstAuth(c) /\ (client'[c].st = "off" => client[c].st = "off")
MCNext ==
  /\ UNCHANGED which
  /\ IF which = "requests" THEN Next /\ UNCHANGED limitVars ELSE OrdersNext /\ UNCHANGED vars
  /\ which = "clients" => UNCHANGED orderVars
  /\ which = "orders" =>
       /\ Settled
       /\ request.pc \in {"new", "asking"} => \A c \in Clients : client[c].st = "connected" => client'[c].st = "connected"
       /\ request.pc \in {"asking", "done", "failed"} => UNCHANGED client
       /\ left # {} => left' = left
MCSpec == MCInit /\ [][MCNext]_<<vars, limitVars, which>> /\ Fairness
MCClientSpec == MCSpec /\ ClientFairness
=============================================================================
