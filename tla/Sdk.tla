--------------------------------- MODULE Sdk ---------------------------------
(***************************************************************************)
(* SwapSDK: its cached reads of the network, and the calls that turn a     *)
(* quote into a deposit channel, vault swap data or encoded parameters,    *)
(* either with a broker of one's own or through the backend's handlers.    *)
(*                                                                         *)
(* The network is a position in Settings.  The cache (MultiCache) keeps a  *)
(* promise with the time of its fetch; expiry may be noticed by any read.  *)
(* The backend has caches of its own and answers for any position up to    *)
(* the present one.  Addresses are valid or not; prices are left out.      *)
(***************************************************************************)
EXTENDS Integers, Sequences, FiniteSets

CONSTANTS
  Settings,     \* [min, max, safe]: limits and safe mode, one after another
  Deployments,  \* environment variables of the backend
  Clients,      \* [broker, taker]: options of the SDK
  Calls,        \* calls that share one SDK
  Inputs,       \* what they are called with
  Assets, Unset

\* What the schemas let a quote and its call be (shared schemas.ts:92: not on-chain
\* and a vault swap at the same time).
ASSUME InputsAssumption ==
  /\ Unset \notin Nat \cup Inputs
  /\ \A in \in Inputs :
       /\ in.quote.lpp \in Nat \cup {Unset} /\ in.lpp \in Nat \cup {Unset}
       /\ in.commission \in Nat \cup {Unset} /\ in.affiliates \in BOOLEAN
       /\ in.op \in {"deposit", "vault", "cf"}
       /\ ~(in.quote.vault /\ in.quote.onChain)
ASSUME OptionsAssumption ==
  /\ \A d \in Deployments : d.bps \in Nat
  /\ \A c \in Clients : c.taker \in BOOLEAN

VARIABLES net, deployment, client,
          cached,    \* the values of the MultiCache: a fetch, 0 if none
          fetches,   \* [type, st, at]: every fetch that was started
          call       \* [pc, input, fetch, bps, result] of each call

sdkVars == <<net, deployment, client, cached, fetches, call>>

Types == {"environment", "networkInfo"}
Idle == [pc |-> "idle", input |-> Unset, fetch |-> 0, bps |-> 0, result |-> Unset]

SdkInit ==
  /\ net = 1 /\ deployment \in Deployments /\ client \in Clients
  /\ cached = [t \in Types |-> 0] /\ fetches = <<>>
  /\ call = [c \in Calls |-> Idle]

-----------------------------------------------------------------------------
(* MultiCache.read.                                                        *)

\* The call continues at pc when the promise of t settles.
Asks(c, t, pc, state) ==
  \/ /\ cached[t] # 0
     /\ call' = [call EXCEPT ![c] = [state EXCEPT !.pc = pc, !.fetch = cached[t]]]
     /\ UNCHANGED <<cached, fetches>>
  \/ /\ fetches' = Append(fetches, [type |-> t, st |-> "pending", at |-> 0])
     /\ cached' = [cached EXCEPT ![t] = Len(fetches')]
     /\ call' = [call EXCEPT ![c] = [state EXCEPT !.pc = pc, !.fetch = Len(fetches')]]

\* Whichever promise is stored by now.
DropRejected(t) == [cached EXCEPT ![t] = 0]

\* The environment comes from the node, the network info through the backend's cache.
FetchSettles(f) ==
  /\ fetches[f].st = "pending"
  /\ \/ /\ \E p \in IF fetches[f].type = "environment" THEN {net} ELSE 1..net :
             fetches' = [fetches EXCEPT ![f].st = "ok", ![f].at = p]
        /\ UNCHANGED cached
     \/ /\ fetches' = [fetches EXCEPT ![f].st = "failed"]
        /\ cached' = DropRejected(fetches[f].type)
  /\ UNCHANGED <<net, deployment, client, call>>

Change ==
  /\ net < Len(Settings) /\ net' = net + 1
  /\ UNCHANGED <<deployment, client, cached, fetches, call>>

-----------------------------------------------------------------------------
(* networkInfo, and what the SDK lists from it.                            *)

EgressEnabled(a, safe) ==
  safe.swaps /\ a \notin deployment.disabled /\ safe.egress /\ a \notin deployment.noDestination

DepositEnabled(a, safe, flag) ==
  safe.swaps /\ a \notin deployment.disabled /\ a \notin deployment.noDeposit /\ flag

Listed(type, a, safe) ==
  LET channel == DepositEnabled(a, safe, safe.creation /\ safe.deposits)
      vault == DepositEnabled(a, safe, safe.vault)
  IN  CASE type = "deposit" -> channel /\ vault
        [] type = "destination" -> EgressEnabled(a, safe)
        [] type = "depositChannel" -> channel
        [] type = "vaultSwap" -> vault

\* assertRouteEnabled.
RouteEnabled(src, dest) ==
  /\ src \notin deployment.disabled \cup deployment.noDeposit
  /\ dest \notin deployment.disabled \cup deployment.noDestination

-----------------------------------------------------------------------------
(* The calls.                                                              *)

Ends(c, result) == [call EXCEPT ![c] = [@ EXCEPT !.pc = "done", !.fetch = 0, !.result = result]]
Fails(c, why) == call' = Ends(c, [ok |-> FALSE, why |-> why])

Within(amount, s) == amount >= s.min /\ (s.max = Unset \/ amount <= s.max)

\* parseFoKParams: the caller's tolerance, else the one of the quote.
Oracle(in) ==
  IF in.lpp # Unset THEN 100 * in.lpp
  ELSE IF in.quote.lpp # Unset THEN 100 * in.quote.lpp ELSE Unset

FokValid(in) ==
  /\ in.lpp # Unset => in.quote.lpp # Unset /\ in.lpp \in 0..100
  /\ in.price \in {"minPrice", "slippage"}

\* assertQuoteValid.
QuoteValid(in) == in.quote.type = "DCA" => in.quote.dca

FitsDeposit(in) == ~in.quote.vault /\ ~in.quote.onChain /\ in.ccm = in.quote.ccm
FitsVault(in) == in.quote.vault /\ in.ccm = in.quote.ccm
FitsCf(in) == in.ccm = in.quote.ccm /\ FokValid(in)

QuoteFits(in) ==
  /\ QuoteValid(in)
  /\ CASE in.op = "deposit" -> FitsDeposit(in) [] in.op = "vault" -> FitsVault(in) [] in.op = "cf" -> FitsCf(in)

Start(c, in) ==
  /\ call[c].pc = "idle"
  /\ Asks(c, "environment", "limits", [Idle EXCEPT !.input = in])
  /\ UNCHANGED <<net, deployment, client>>

\* Only a client that takes commission asks for it; the caller's is then ignored.
CheckLimits(c) ==
  LET in == call[c].input
      f == fetches[call[c].fetch]
  IN  /\ call[c].pc = "limits" /\ f.st # "pending"
      /\ IF f.st = "failed" THEN Fails(c, "fetch") /\ UNCHANGED <<cached, fetches>>
         ELSE IF ~Within(in.amount, Settings[f.at]) \/ ~QuoteFits(in)
         THEN Fails(c, "request") /\ UNCHANGED <<cached, fetches>>
         ELSE IF client.taker THEN Asks(c, "networkInfo", "commission", call[c])
         ELSE /\ call' = [call EXCEPT ![c] = [@ EXCEPT !.pc = "send", !.fetch = 0,
                                                       !.bps = IF in.commission = Unset THEN 0 ELSE in.commission]]
              /\ UNCHANGED <<cached, fetches>>
      /\ UNCHANGED <<net, deployment, client>>

\* MUTANT: a network info that could not be fetched is not noticed.
CommissionIfFetched(c) ==
  /\ call[c].pc = "commission" /\ fetches[call[c].fetch].st = "ok"
  /\ call' = [call EXCEPT ![c] = [@ EXCEPT !.pc = "send", !.fetch = 0, !.bps = deployment.bps]]
  /\ UNCHANGED <<net, deployment, client, cached, fetches>>

Commission(c) ==
  LET f == fetches[call[c].fetch]
  IN  /\ call[c].pc = "commission" /\ f.st # "pending"
      /\ IF f.st = "failed" THEN Fails(c, "fetch")
         ELSE call' = [call EXCEPT ![c] = [@ EXCEPT !.pc = "send", !.fetch = 0, !.bps = deployment.bps]]
      /\ UNCHANGED <<net, deployment, client, cached, fetches>>

\* What is asked of a broker or, with an account, of the node.
Asked(in, to, bps, affiliates) ==
  [ok |-> TRUE, to |-> to, commission |-> bps, affiliates |-> affiliates,
   dca |-> in.quote.type = "DCA", ccm |-> in.ccm, boost |-> in.quote.boost, oracle |-> Oracle(in)]

\* The schemas, the same for the broker and the backend.
DepositSchema(in) == in.bad \notin {"destAddress", "refundAddress"}
CfSchema(in) == in.bad = Unset
VaultSchema(in) == CfSchema(in) /\ in.chain # "Assethub" /\ (in.chain = "Solana" => in.srcAddress)

\* With a broker of one's own: it is asked for what the quote and the caller want.
AskBroker(c, schemaOk) ==
  IF ~schemaOk THEN Fails(c, "schema")
  ELSE \/ call' = Ends(c, Asked(call[c].input, "own", call[c].bps, call[c].input.affiliates))
       \/ Fails(c, "broker")

Post(c) == call' = [call EXCEPT ![c].pc = "backend"]

\* What is left of a call once the commission is known.
Submits(c, op) == call[c].pc = "send" /\ call[c].input.op = op /\ UNCHANGED <<net, deployment, client, cached, fetches>>

RequestDepositAddress(c) ==
  LET in == call[c].input
  IN  /\ Submits(c, "deposit")
      /\ IF ~FokValid(in) THEN Fails(c, "fok")
         ELSE IF client.broker THEN AskBroker(c, DepositSchema(in))
         ELSE IF (call[c].bps # 0 /\ ~client.taker) \/ in.affiliates THEN Fails(c, "commission")
         ELSE Post(c)

\* MUTANT: a commission is passed on without an account to credit.
AllowedWithoutAccountCheck(c, in) == in.affiliates => in.account

AllowedToEncode(c, in) ==
  /\ call[c].bps # 0 => in.account \/ client.taker
  /\ in.affiliates => in.account

EncodeVaultSwapData(c) ==
  LET in == call[c].input
  IN  /\ Submits(c, "vault")
      /\ IF ~FokValid(in) THEN Fails(c, "fok")
         ELSE IF client.broker /\ in.account THEN Fails(c, "account")
         ELSE IF client.broker THEN AskBroker(c, VaultSchema(in))
         ELSE IF ~AllowedToEncode(c, in) THEN Fails(c, "commission") ELSE Post(c)

EncodeCfParameters(c) ==
  LET in == call[c].input
  IN  /\ Submits(c, "cf")
      /\ IF client.broker /\ in.account THEN Fails(c, "account")
         ELSE IF client.broker THEN AskBroker(c, CfSchema(in))
         ELSE IF ~AllowedToEncode(c, in) THEN Fails(c, "commission") ELSE Post(c)

-----------------------------------------------------------------------------
(* The handlers of the backend; its node may be ahead of the SDK's cache.  *)

\* What every handler tests before it asks; answer is what it asks for.
Handles(c, op, schemaOk, answer) ==
  LET in == call[c].input
  IN  /\ call[c].pc = "backend" /\ in.op = op
      /\ \E p \in 1..net :
           IF ~schemaOk \/ ~RouteEnabled(in.src, in.dest) \/ ~Within(in.amount, Settings[p])
           THEN Fails(c, "request")
           ELSE \/ call' = Ends(c, answer)
                \/ Fails(c, "broker")
      /\ UNCHANGED <<net, deployment, client, cached, fetches>>

\* The commission of a channel is the backend's to say.
HandleOpenChannel(c) ==
  LET in == call[c].input
  IN  Handles(c, "deposit", DepositSchema(in),
        IF client.taker /\ deployment.commissionBroker
        THEN Asked(in, "commission", deployment.bps, FALSE)
        ELSE Asked(in, "default", 0, FALSE))

HandleEncodeVault(c) ==
  LET in == call[c].input
  IN  Handles(c, "vault", VaultSchema(in),
        IF in.account THEN Asked(in, "node", call[c].bps, in.affiliates)
        ELSE IF call[c].bps # 0 THEN [ok |-> FALSE, why |-> "commission"]
        ELSE Asked(in, "default", 0, FALSE))

HandleEncodeCf(c) ==
  LET in == call[c].input
  IN  Handles(c, "cf", CfSchema(in),
        IF in.account THEN Asked(in, "node", call[c].bps, in.affiliates)
        ELSE Asked(in, "default", 0, FALSE))

Step(c) ==
  \/ CheckLimits(c) \/ Commission(c)
  \/ RequestDepositAddress(c) \/ EncodeVaultSwapData(c) \/ EncodeCfParameters(c)
  \/ HandleOpenChannel(c) \/ HandleEncodeVault(c) \/ HandleEncodeCf(c)

SdkNext ==
  \/ Change
  \/ \E f \in 1..Len(fetches) : FetchSettles(f)
  \/ \E c \in Calls :
       (\E in \in Inputs : Start(c, in)) \/ Step(c)

SdkSpec == SdkInit /\ [][SdkNext]_sdkVars

SdkFairness ==
  /\ \A f \in 1..(2 * Cardinality(Calls)) : WF_sdkVars(f <= Len(fetches) /\ FetchSettles(f))
  /\ \A c \in Calls : WF_sdkVars(Step(c))

-----------------------------------------------------------------------------
(* What holds.                                                             *)

Done(c) == call[c].pc = "done" /\ call[c].result.ok

(* A call waits for a fetch of the right kind, and for none otherwise.     *)
SdkTypeOK ==
  /\ \A t \in Types : cached[t] # 0 => fetches[cached[t]].type = t
  /\ \A c \in Calls :
       /\ call[c].fetch # 0 <=> call[c].pc \in {"limits", "commission"}
       /\ call[c].fetch # 0 => fetches[call[c].fetch].type =
            (IF call[c].pc = "limits" THEN "environment" ELSE "networkInfo")

(* A read never gets a promise that was rejected before: the next read     *)
(* after a failure fetches again.                                          *)
NoRejectedPromiseStays == \A t \in Types : cached[t] # 0 => fetches[cached[t]].st # "failed"

(* What a broker is asked for is what quote and caller agreed on: chunks,  *)
(* message, boost, affiliates and live price protection.                   *)
AskedAsAgreed ==
  \A c \in Calls : Done(c) =>
    LET in == call[c].input
        r == call[c].result
    IN  /\ r.dca => in.quote.dca
        /\ r.dca = (in.quote.type = "DCA") /\ r.ccm = in.quote.ccm /\ r.boost = in.quote.boost
        /\ r.affiliates = in.affiliates
        /\ r.oracle = Unset <=> in.quote.lpp = Unset
        /\ in.lpp # Unset => r.oracle = 100 * in.lpp

(* The commission that was quoted is the one that is asked for, or none at *)
(* all, and that only for a client that takes commission on a channel of   *)
(* the default broker or on encoded parameters without an account.         *)
CommissionDroppedOnlyForTaker ==
  \A c \in Calls : Done(c) /\ call[c].result.commission # call[c].bps =>
    /\ call[c].result.commission = 0 /\ client.taker /\ ~client.broker
    /\ \/ call[c].input.op = "deposit" /\ ~deployment.commissionBroker
       \/ call[c].input.op = "cf" /\ ~call[c].input.account

(* A channel is opened only for a deposit and vault data only for a vault  *)
(* swap: an on-chain quote gets neither, at most encoded parameters.       *)
QuoteForItsCall ==
  \A c \in Calls : Done(c) =>
    LET in == call[c].input
    IN  in.quote.onChain => in.op = "cf"

(* What getAssets lists as a source or as a destination is not refused by  *)
(* the route check of the same backend, however old the list is.           *)
ListedIsRouted ==
  \A f \in 1..Len(fetches) : fetches[f].st = "ok" /\ fetches[f].type = "networkInfo" =>
    \A src, dest \in Assets :
      /\ \E type \in {"deposit", "depositChannel", "vaultSwap"} :
           Listed(type, src, Settings[fetches[f].at].safe)
      /\ Listed("destination", dest, Settings[fetches[f].at].safe)
      => RouteEnabled(src, dest)

(* What the SDK asks a broker for, of which backend, and on whose word.     *)
RequestsAsAgreed ==
  /\ SdkTypeOK /\ NoRejectedPromiseStays
  /\ AskedAsAgreed /\ CommissionDroppedOnlyForTaker /\ QuoteForItsCall /\ ListedIsRouted

(* Every call comes back, with a request made or with an error.            *)
EveryCallComesBack ==
  \A c \in Calls : call[c].pc # "idle" ~> call[c].pc = "done"
=============================================================================
