---------------------------- MODULE StatusLookup ----------------------------
(***************************************************************************)
(* A client that polls GET /v2/swaps/:id for one id, the id of a channel   *)
(* or the transaction of a vault deposit, while deposits arrive.           *)
(*                                                                         *)
(* What the client is shown comes from several reads that are not one      *)
(* snapshot: the rows the processor commits (getLatestSwapForId), then, if *)
(* there is no swap yet, what the ingress-egress tracker keeps in redis    *)
(* (getPendingDeposit, getPendingVaultSwap), then chain tracking and the   *)
(* height of the State Chain (getDepositConfirmationCount).  The tracker   *)
(* follows the chains by itself: its entries come and go at any time.      *)
(*                                                                         *)
(* SWAPPING stands for every state of a request whose swaps are scheduled  *)
(* (SwapLifecycle tells those apart).                                      *)
(***************************************************************************)
EXTENDS DepositChannels

CONSTANTS
  Deposits,
  NodeChains,   \* chains whose node the service can ask for a vault deposit
  PollIds       \* <<"channel", c>> or <<"tx", d>>

\* No two channels of a chain have the same id, and no chain is called "vault".
ASSUME ChannelsAssumption ==
  /\ \A c, e \in Channels : c[1] = e[1] /\ c[2] = e[2] => c = e
  /\ \A c \in Channels : c[1] # "vault"

VARIABLES
  dep,          \* the external chains: where a deposit went, its block
  redis,        \* the keys that the tracker holds for a deposit
  swapRequest,  \* table swapRequest, by the deposit it came from
  failedSwap,   \* table failedSwap, by deposit
  failedBoost,  \* table failedBoost: pairs of the channel meant and the one linked
  poll,         \* the poll under way
  shown         \* what the last poll showed

lookVars == <<dep, redis, swapRequest, failedSwap, failedBoost, poll, shown>>
vars == <<chanVars, lookVars>>

NoPoll == [pc |-> "idle"]

Vault(ch) == <<"vault", ch>>
Targets == Channels \cup {Vault(ch) : ch \in Chains}

DepositsMade == [to : Targets, height : 0..MaxHeight]
SwapRequests == [link : Channels \cup {None}, swaps : BOOLEAN, id : Nat]
FailedSwaps == [link : Channels \cup {None}, refund : Channels \cup {None}]

ASSUME NoRowAssumption ==
  None \notin Deposits \cup DepositsMade \cup SwapRequests \cup FailedSwaps

LookInit ==
  /\ dep = [d \in Deposits |-> None]
  /\ redis = [d \in Deposits |-> {}]
  /\ swapRequest = [d \in Deposits |-> None]
  /\ failedSwap = [d \in Deposits |-> None]
  /\ failedBoost = {}
  /\ poll = NoPoll
  /\ shown = None

Init == ChanInit /\ LookInit

-----------------------------------------------------------------------------
(* Deposits and the tracker.                                               *)

DepChain(d) == IF dep[d].to[1] = "vault" THEN dep[d].to[2] ELSE ChainOf(dep[d].to)
IsVault(d) == dep[d].to[1] = "vault"
Handled(d) == swapRequest[d] # None \/ failedSwap[d] # None

\* A transaction in the mempool, or already in a block.
Deposit(d, to) ==
  /\ dep[d] = None
  /\ to \in Channels => opened[to] # None /\ opened[to].type \in Backends
  /\ \E h \in {0} \cup (1..MaxHeight) : dep' = [dep EXCEPT ![d] = [to |-> to, height |-> h]]
  /\ UNCHANGED <<chanVars, redis, swapRequest, failedSwap, failedBoost, poll, shown>>

Included(d) ==
  /\ dep[d] # None /\ dep[d].height = 0
  /\ \E h \in 1..MaxHeight : dep' = [dep EXCEPT ![d].height = h]
  /\ UNCHANGED <<chanVars, redis, swapRequest, failedSwap, failedBoost, poll, shown>>

\* The mempool is tracked on Bitcoin; a deposit to the vault has one key.
TrackerSees(d) ==
  /\ dep[d] # None /\ redis[d] = {} /\ ~Handled(d)
  /\ \E key \in (IF dep[d].height = 0 THEN {"mempool"} ELSE {"deposit"}) :
       /\ key = "mempool" => DepChain(d) = "Bitcoin" /\ ~IsVault(d)
       /\ redis' = [redis EXCEPT ![d] = {key}]
  /\ UNCHANGED <<chanVars, dep, swapRequest, failedSwap, failedBoost, poll, shown>>

TrackerSeesBlock(d) ==
  /\ dep[d] # None /\ dep[d].height # 0 /\ redis[d] = {"mempool"}
  /\ redis' = [redis EXCEPT ![d] = {"mempool", "deposit"}]
  /\ UNCHANGED <<chanVars, dep, swapRequest, failedSwap, failedBoost, poll, shown>>

\* The tracker deletes a key of a deposit in a block, before or after the
\* processor commits the block that handles the deposit.
TrackerForgets(d, key) ==
  /\ key \in redis[d] /\ dep[d].height # 0
  /\ redis' = [redis EXCEPT ![d] = (@ \ {key}) \cup (IF key = "deposit" THEN {"gone"} ELSE {})]
  /\ UNCHANGED <<chanVars, dep, swapRequest, failedSwap, failedBoost, poll, shown>>

-----------------------------------------------------------------------------
(* The processor's handlers of a deposit. A block is committed.            *)

CommitDeposit ==
  /\ upsert = "idle"
  /\ Commit
  /\ UNCHANGED <<opened, ready, base, swapCh, accCh, tracking, request, upsert, late>>

\* A deposit is witnessed in a block after the tracking of its height, and
\* the event of its channel comes before it.
Witnessed(d) ==
  /\ dep[d] # None /\ dep[d].height # 0 /\ ~Handled(d)
  /\ dep[d].height <= tracking[DepChain(d)].height
  /\ dep[d].to \in Channels => base[dep[d].to] # None

\* getOriginInfo: the newest channel with the id of the deposit on its chain.
Origin(d) ==
  {c \in Channels : swapCh[c] # None /\ c = dep[d].to}
  \cup {c \in Channels : accCh[c] # None /\ c = dep[d].to}

SwapRequested(d, swaps) ==
  /\ Witnessed(d)
  /\ \E link \in (IF IsVault(d) THEN {None} ELSE Origin(d)) :
       /\ swapRequest' = [swapRequest EXCEPT ![d] =
            [link |-> link, swaps |-> swaps, id |-> Cardinality({e \in Deposits : Handled(e)}) + 1]]
       /\ failedSwap' = IF swaps THEN failedSwap
                        ELSE [failedSwap EXCEPT ![d] = [link |-> link, refund |-> None]]
  /\ CommitDeposit
  /\ UNCHANGED <<dep, redis, failedBoost, poll, shown>>

\* depositFailed: the deposit channel by its address, and then the swap
\* channel by issued block and id, without the chain.
FailedChannels(d) ==
  LET c == dep[d].to
      rows == IF base[c] = "SWAP" THEN swapCh ELSE accCh
  IN {e \in Channels : rows[e] # None /\ e[2] = c[2] /\ opened[e].issuedBlock = opened[c].issuedBlock}

DepositFailed(d) ==
  /\ Witnessed(d)
  /\ \E link \in (IF IsVault(d) THEN {None} ELSE FailedChannels(d)) :
       failedSwap' = [failedSwap EXCEPT ![d] = [link |-> link, refund |-> None]]
  /\ CommitDeposit
  /\ UNCHANGED <<dep, redis, swapRequest, failedBoost, poll, shown>>

\* transactionRejectedByBroker on Solana: every failed swap whose swap
\* channel has the id of the rejected one, and no refund yet.
RefundedOfAnyChannel(c) ==
  {d \in Deposits : failedSwap[d] # None /\ failedSwap[d].link # None /\ failedSwap[d].refund = None}
Refunded(c) ==
  {d \in Deposits : /\ failedSwap[d] # None /\ failedSwap[d].link # None
                    /\ failedSwap[d].refund = None
                    /\ base[failedSwap[d].link] = "SWAP"
                    /\ failedSwap[d].link[2] = c[2]}

TransactionRejectedByBroker(c) ==
  /\ ChainOf(c) = "Solana" /\ base[c] # None
  /\ Refunded(c) # {}
  /\ failedSwap' = [d \in Deposits |-> IF d \in Refunded(c) THEN [failedSwap[d] EXCEPT !.refund = c]
                                       ELSE failedSwap[d]]
  /\ CommitDeposit
  /\ UNCHANGED <<dep, redis, swapRequest, failedBoost, poll, shown>>

\* insufficientBoostLiquidity: nothing for a channel that is not for swaps.
BoostChannels(c) ==
  {e \in Channels : swapCh[e] # None /\ e[2] = c[2] /\ ChainOf(e) = ChainOf(c)}

InsufficientBoostLiquidity(c) ==
  /\ ChainOf(c) = "Bitcoin" /\ base[c] = "SWAP"
  /\ \E e \in BoostChannels(c) : <<c, e>> \notin failedBoost /\ failedBoost' = failedBoost \cup {<<c, e>>}
  /\ CommitDeposit
  /\ UNCHANGED <<dep, redis, swapRequest, failedSwap, poll, shown>>

-----------------------------------------------------------------------------
(* The poll.                                                               *)

LookFrame == UNCHANGED <<chanVars, dep, redis, swapRequest, failedSwap, failedBoost>>

\* The answer of a poll. of and ref are the deposits whose amount and whose
\* transaction it shows; by is where a deposit that is not yet a row was found.
Show(id, state, of, ref, by, confs, brokers) ==
  /\ shown' = [id |-> id, state |-> state, of |-> of, ref |-> ref, by |-> by,
               confs |-> confs, brokers |-> brokers]
  /\ poll' = NoPoll
  /\ LookFrame

ShowNotFound(id) == Show(id, "404", None, None, "none", 0, FALSE)

May(id) == poll.pc = "idle" /\ id \in PollIds /\ (shown # None => shown.id = id)

\* getLatestSwapForId on a channel: its newest request, and a failed swap if
\* there is no request or one that ended without a swap.
RequestsOf(c) == {d \in Deposits : swapRequest[d] # None /\ swapRequest[d].link = c}
FailedOf(c) == {d \in Deposits : failedSwap[d] # None /\ failedSwap[d].link = c}
Newest(S) == {d \in S : \A e \in S : swapRequest[e].id <= swapRequest[d].id}
FailedShown(c, req) ==
  IF req = None \/ ~swapRequest[req].swaps THEN FailedOf(c) ELSE {}

Channel(c) == IF accCh[c] # None THEN accCh[c] ELSE swapCh[c]

\* The brokers of the request, or else those of the channel.
Brokers(c, req, failed) == req # None \/ Channel(c).beneficiaries

\* The transaction of a request on Solana is found later than its amount.
RefOf(d) == IF DepChain(d) = "Solana" THEN {None, d} ELSE {d}

PollChannel(c) ==
  LET id == <<"channel", c>>
      reqs == Newest(RequestsOf(c))
  IN /\ May(id)
     /\ \/ Channel(c) = None /\ ShowNotFound(id)
        \/ /\ Channel(c) # None
           /\ \E req \in (IF reqs = {} THEN {None} ELSE reqs) :
              LET failed == FailedShown(c, req)
              IN \/ \E f \in failed :
                      LET of == IF req = None THEN f ELSE req
                      IN \E r \in RefOf(of) :
                           Show(id, "FAILED", of, IF r = None THEN f ELSE r, "row", 0,
                                Brokers(c, req, failed))
                 \/ /\ failed = {} /\ req # None
                    /\ Show(id, "SWAPPING", req, req, "row", 0, Brokers(c, req, failed))
                 \/ /\ failed = {} /\ req = None /\ swapCh[c] = None
                    /\ Show(id, "WAITING", None, None, "none", 0, Brokers(c, req, failed))
                 \/ /\ failed = {} /\ req = None /\ swapCh[c] # None
                    /\ poll' = [pc |-> "deposits", id |-> id, brokers |-> Brokers(c, req, failed)]
                    /\ LookFrame /\ UNCHANGED shown

\* getPendingDeposit: the deposits of the address, or else the mempool.
Keyed(c, key) == {d \in Deposits : dep[d] # None /\ dep[d].to = c /\ key \in redis[d]}

PollDeposits ==
  LET found == Keyed(poll.id[2], "deposit")
  IN /\ poll.pc = "deposits"
     /\ \/ /\ found = {}
           /\ poll' = [poll EXCEPT !.pc = "mempool"]
        \/ \E d \in found :
             poll' = [pc |-> "confirm", id |-> poll.id, brokers |-> poll.brokers, of |-> d,
                      failed |-> "none", tracking |-> None, state |-> 0]
     /\ LookFrame /\ UNCHANGED shown

PollMempool ==
  LET found == Keyed(poll.id[2], "mempool")
  IN /\ poll.pc = "mempool"
     /\ \/ /\ found = {}
           /\ Show(poll.id, "WAITING", None, None, "none", 0, poll.brokers)
        \/ \E d \in found : Show(poll.id, "RECEIVING", d, d, "mempool", 0, poll.brokers)

\* An error of redis is logged and answered as no deposit.
PollError ==
  /\ poll.pc \in {"deposits", "mempool", "confirm"} /\ poll.id[1] = "channel"
  /\ Show(poll.id, "WAITING", None, None, "error", 0, poll.brokers)

\* getDepositConfirmationCount: tracking and state are read by themselves.
\* A deposit is witnessed one block after the tracking of its height, so a
\* height counts from the next block of the State Chain on.
LastWitnessed(t, b) == IF b > t.eventWitnessedBlock THEN t.height ELSE t.previousHeight

Confirmations(t, b, h) == IF LastWitnessed(t, b) < h THEN 0 ELSE LastWitnessed(t, b) - h + 1

ReadTracking ==
  /\ poll.pc = "confirm" /\ poll.tracking = None
  /\ poll' = [poll EXCEPT !.tracking = tracking[DepChain(poll.of)]]
  /\ LookFrame /\ UNCHANGED shown

ReadState ==
  /\ poll.pc = "confirm" /\ poll.state = 0
  /\ poll' = [poll EXCEPT !.state = block]
  /\ LookFrame /\ UNCHANGED shown

\* On the transaction of a vault deposit: the request; without one the failed
\* swap and the tracker, or the node of the chain, at the same time.
PollTx(d) ==
  LET id == <<"tx", d>>
  IN /\ May(id) /\ dep[d] # None /\ IsVault(d)
     /\ \/ /\ swapRequest[d] # None
           /\ Show(id, "SWAPPING", d, d, "row", 0, TRUE)
        \/ /\ swapRequest[d] = None
           /\ poll' = [pc |-> "lookup", id |-> id, failed |-> "unread", vault |-> "unread"]
           /\ LookFrame /\ UNCHANGED shown

ReadFailed ==
  /\ poll.pc \in {"lookup", "confirm"} /\ poll.failed = "unread"
  /\ poll' = [poll EXCEPT !.failed = IF failedSwap[poll.id[2]] # None THEN "found" ELSE "none"]
  /\ LookFrame /\ UNCHANGED shown

PendingInRedis(d) == "deposit" \in redis[d]
Pending(d) == "deposit" \in redis[d] \/ (dep[d].height # 0 /\ DepChain(d) \in NodeChains)

\* getPendingVaultSwap; an error of redis or of the node is no vault swap.
ReadVault ==
  /\ poll.pc = "lookup" /\ poll.vault = "unread"
  /\ \/ /\ Pending(poll.id[2])
        /\ poll' = [pc |-> "confirm", id |-> poll.id, brokers |-> TRUE, of |-> poll.id[2],
                    failed |-> poll.failed, tracking |-> None, state |-> 0]
     \/ /\ ~Pending(poll.id[2])
        /\ poll' = [poll EXCEPT !.vault = "none"]
     \/ poll' = [poll EXCEPT !.vault = "error"]
  /\ LookFrame /\ UNCHANGED shown

ShowLookup ==
  LET d == poll.id[2]
  IN /\ poll.pc = "lookup" /\ poll.failed # "unread" /\ poll.vault # "unread"
     /\ IF poll.failed = "found" THEN Show(poll.id, "FAILED", d, d, "row", 0, FALSE)
        ELSE Show(poll.id, "404", None, None, IF poll.vault = "error" THEN "error" ELSE "none", 0, FALSE)

ShowPending ==
  /\ poll.pc = "confirm" /\ poll.tracking # None /\ poll.state # 0 /\ poll.failed # "unread"
  /\ LET confs == Confirmations(poll.tracking, poll.state, dep[poll.of].height)
     IN Show(poll.id, IF poll.failed = "found" THEN "FAILED" ELSE "RECEIVING",
             poll.of, poll.of, "deposit", confs, poll.brokers)

-----------------------------------------------------------------------------
LookNext ==
  \/ \E d \in Deposits :
       \/ \E to \in Targets : Deposit(d, to)
       \/ Included(d)
       \/ TrackerSees(d)
       \/ TrackerSeesBlock(d)
       \/ \E key \in {"mempool", "deposit"} : TrackerForgets(d, key)
       \/ \E swaps \in BOOLEAN : SwapRequested(d, swaps)
       \/ DepositFailed(d)
       \/ PollTx(d)
  \/ \E c \in Channels : TransactionRejectedByBroker(c) \/ InsufficientBoostLiquidity(c) \/ PollChannel(c)
  \/ PollDeposits
  \/ PollMempool
  \/ PollError
  \/ ReadTracking
  \/ ReadState
  \/ ReadFailed
  \/ ReadVault
  \/ ShowLookup
  \/ ShowPending

Next == (ChanNext /\ UNCHANGED lookVars) \/ LookNext

Spec == Init /\ [][Next]_vars

-----------------------------------------------------------------------------
TypeOK ==
  /\ ChanTypeOK
  /\ \A d \in Deposits :
       /\ dep[d] # None => dep[d].to \in Targets /\ dep[d].height \in 0..MaxHeight
       /\ redis[d] \subseteq {"mempool", "deposit", "gone"}
       /\ swapRequest[d] # None => swapRequest[d].link \in Channels \cup {None}
       /\ failedSwap[d] # None => failedSwap[d].refund \in Channels \cup {None}
  /\ poll.pc \in {"idle", "deposits", "mempool", "confirm", "lookup"}
  /\ shown # None => shown.state \in {"404", "WAITING", "RECEIVING", "SWAPPING", "FAILED"}

\* The rows of a deposit belong to the channel it was made to, except that a
\* failed deposit is written to a channel of another chain that has the same
\* id and was opened in the same block (depositFailed.ts:132-144).
LinkedToItsChannel ==
  /\ \A d \in Deposits : swapRequest[d] # None /\ ~IsVault(d) => swapRequest[d].link = dep[d].to
  /\ \A d \in Deposits :
       failedSwap[d] # None /\ ~IsVault(d) =>
         LET c == dep[d].to
             l == failedSwap[d].link
         IN l # c => l[2] = c[2] /\ opened[l].issuedBlock = opened[c].issuedBlock
  /\ \A p \in failedBoost : p[1] = p[2]

\* A failed deposit shows the refund of a rejected deposit of another chain
\* only when its channel has the same id (transactionRejectedByBroker.ts:102).
RefundOnlySharesId ==
  \A d \in Deposits :
    failedSwap[d] # None /\ failedSwap[d].refund # None =>
      /\ failedSwap[d].refund[2] = failedSwap[d].link[2]
      /\ base[failedSwap[d].link] = "SWAP"

\* A poll shows the amount and the transaction of one deposit, except when
\* the newest request of the channel ended without a swap and another deposit
\* of the channel has failed (getDepositInfo, utils.ts:138-140 and :232-242).
InfoOfOneDeposit ==
  shown # None /\ shown.of # shown.ref =>
    /\ shown.state = "FAILED" /\ DepChain(shown.of) = "Solana"
    /\ ~swapRequest[shown.of].swaps

\* The confirmations that are shown never count a block before the State
\* Chain had one more block to witness what is in it (ingress-egress-tracking
\* index.ts:59-65).
ConfirmationsNotAhead ==
  shown # None /\ shown.confs > 0 =>
    shown.confs + dep[shown.of].height - 1 <= earlier[DepChain(shown.of)]

\* What is kept of a deposit and what a poll shows of it is of that deposit and
\* its channel, and not ahead of the chain.
StatusOfOneDeposit ==
  TypeOK /\ LinkedToItsChannel /\ RefundOnlySharesId /\ InfoOfOneDeposit /\ ConfirmationsNotAhead

Rank(state) ==
  CASE state = "404" -> 0 [] state = "WAITING" -> 1 [] state = "RECEIVING" -> 2 [] OTHER -> 3

\* What a client sees of an id goes back only from RECEIVING, and only when
\* redis failed, when the tracker no longer holds the deposit, or when it was
\* in the mempool: between two reads of a poll it moves from one key to the
\* other. A vault deposit on a chain with a node goes back only on an error.
BackOnlyByGap ==
  [][(shown # None /\ shown' # shown /\ Rank(shown'.state) < Rank(shown.state)) =>
       /\ shown.state = "RECEIVING"
       /\ \/ shown'.by = "error"
          \/ shown.by = "mempool"
          \/ /\ "deposit" \notin redis[shown.of]
             /\ ~(IsVault(shown.of) /\ DepChain(shown.of) \in NodeChains)]_vars

\* The confirmations of a deposit never go down while its block is known.
ConfirmationsNeverGoBack ==
  [][(shown # None /\ shown' # shown /\ shown.by = "deposit" /\ shown'.by = "deposit"
      /\ shown'.of = shown.of) => shown'.confs >= shown.confs]_vars

\* The brokers of a swap disappear from what a client sees only when a vault
\* deposit has failed: its row does not keep them.
BrokersLostOnlyByFailure ==
  [][(shown # None /\ shown' # shown /\ shown.brokers /\ ~shown'.brokers) =>
       \/ shown'.id[1] = "tx" /\ shown'.state = "404"
       \/ shown'.id[1] = "tx" /\ shown'.state = "FAILED"]_vars
\* From one poll to the next, state, confirmations and brokers go forward but
\* for what the three name.
PollsGoForward == BackOnlyByGap /\ ConfirmationsNeverGoBack /\ BrokersLostOnlyByFailure
=============================================================================
