-------------------------------- MODULE MCApi --------------------------------
(***************************************************************************)
(* The client's SDK, the middlewares and the quote behind them.  They      *)
(* share no state: in a behaviour one of them runs and the others stay as  *)
(* they began.                                                             *)
(***************************************************************************)
EXTENDS Sdk, RateLimits, MCQuoteRequest

Safe(on) == [swaps |-> TRUE, egress |-> on, creation |-> on, deposits |-> TRUE, vault |-> TRUE]
MCSettings == <<[min |-> 10, max |-> Unset, safe |-> Safe(TRUE)],
                [min |-> 30, max |-> 40, safe |-> Safe(FALSE)]>>
Deployment(off, noDeposit, noDestination, commissionBroker) ==
  [disabled |-> off, noDeposit |-> noDeposit, noDestination |-> noDestination,
   bps |-> 15, commissionBroker |-> commissionBroker]
Open(commissionBroker) == Deployment({}, {}, {}, commissionBroker)
MCDeployments == {Open(TRUE), Open(FALSE)} \cup
  {Deployment(off, d, e, FALSE) : off, d, e \in SUBSET {"Btc"}}
MCClients == [broker : BOOLEAN, taker : BOOLEAN]

PlainQuote == [type |-> "REGULAR", dca |-> FALSE, vault |-> FALSE, onChain |-> FALSE, ccm |-> FALSE,
               boost |-> Unset, lpp |-> 1]
Input(op, agreed) ==
  [op |-> op, quote |-> agreed, src |-> "Btc", dest |-> "Eth", amount |-> 20, ccm |-> FALSE,
   commission |-> Unset, affiliates |-> FALSE, account |-> FALSE, lpp |-> Unset, price |-> "slippage",
   chain |-> "Bitcoin", srcAddress |-> FALSE, bad |-> Unset]
Ops == {"deposit", "vault", "cf"}
For(op) == [PlainQuote EXCEPT !.vault = op = "vault"]

Pair == {Input("deposit", PlainQuote), [Input("cf", PlainQuote) EXCEPT !.account = TRUE]}

\* A call is made with one of these alone; two at a time with those of Pair.
AllInputs ==
  {[Input(op, For(op)) EXCEPT !.commission = c, !.affiliates = a, !.account = op # "deposit" /\ x] :
     op \in Ops, c \in {Unset, 0, 5}, a \in BOOLEAN, x \in BOOLEAN}
  \cup {[Input(op, [For(op) EXCEPT !.lpp = q]) EXCEPT !.lpp = p, !.price = price] :
     op \in Ops, q \in {Unset, 1}, p \in {Unset, 0, 2, 101}, price \in {"slippage", "both"}}
  \cup {[Input(op, [For(op) EXCEPT !.vault = v, !.onChain = o, !.ccm = m, !.type = "DCA", !.dca = d,
                                   !.boost = IF d THEN 30 ELSE Unset]) EXCEPT !.ccm = n] :
     op \in Ops, v, o, m, d, n \in BOOLEAN}
  \cup {[Input(op, For(op)) EXCEPT !.chain = x, !.srcAddress = y, !.bad = z] :
     op \in Ops, x \in {"Bitcoin", "Solana", "Assethub"}, y \in BOOLEAN, z \in {Unset, "destAddress", "srcAddress"}}
  \cup Pair
MCInputs == {in \in AllInputs :
  ~(in.quote.vault /\ in.quote.onChain) /\ (in.bad = "srcAddress" => in.srcAddress)}

VARIABLE which
Sdks == {"alone", "two", "routes"}
Limits == {"notFound", "quotes", "blacklist"}
MCInit ==
  /\ SdkInit /\ RateInit /\ QuotesInit
  /\ which \in Sdks \cup Limits \cup {"quote"}
  /\ which \notin {"alone", "routes"} => deployment = Open(TRUE)
  /\ which \notin Sdks => client = [broker |-> FALSE, taker |-> FALSE]
  /\ which = "alone" => deployment \in {Open(TRUE), Open(FALSE)}
  /\ which = "routes" => client = [broker |-> FALSE, taker |-> TRUE]
  /\ which # "blacklist" => ~banned
  /\ which # "quote" => instance = Still /\ request = CHOOSE q \in Still.requests : TRUE
Alone == \E c \in Calls : \A d \in Calls \ {c} : call'[d].pc = "idle"
MCNext ==
  /\ UNCHANGED which
  /\ \/ /\ which \in Sdks /\ SdkNext /\ UNCHANGED <<rateVars, quoteVars>>
        /\ which # "two" => Alone
        /\ which # "alone" => \A c \in Calls : call'[c].pc # "idle" => call'[c].input \in Pair
     \/ /\ which \in Limits /\ RateNext /\ UNCHANGED <<sdkVars, quoteVars>>
        /\ which = "notFound" => UNCHANGED <<banned, quotes>> /\ list' \in {list, [list EXCEPT !.st = "ok"]}
        /\ which = "quotes" => UNCHANGED <<banned, list, slot>>
        /\ which = "blacklist" => UNCHANGED <<now, quotes, hits, crashed>>
     \/ which = "quote" /\ QuotesNext /\ UNCHANGED <<sdkVars, rateVars>>
MCSpec == MCInit /\ [][MCNext]_<<sdkVars, rateVars, quoteVars, which>> /\ SdkFairness
=============================================================================
