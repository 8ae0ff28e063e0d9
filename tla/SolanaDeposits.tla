--------------------------- MODULE SolanaDeposits ---------------------------
(***************************************************************************)
(* Deposits on Solana.  Their events carry no transaction signature, so    *)
(* the event handlers of the processor (swap/src/event-handlers) write a   *)
(* row of solanaPendingTxRef next to the row of the deposit, and a queue   *)
(* (swap/src/queues/solanaTxRefs.ts) asks a Solana node for the signature, *)
(* writes it and deletes the pending row.  A process has one such queue;   *)
(* several processes may run.                                              *)
(*                                                                         *)
(* The processor handles a block in one transaction (open, begun): no      *)
(* queue reads or writes between two events of a block, and a handler that *)
(* throws undoes the block, which is tried again and throws again: halted. *)
(*                                                                         *)
(* A deposit names itself, its signature, its slot and the broadcast of    *)
(* its refund.  Every deposit has at most one pending row, named by it.    *)
(* Amounts and the backoff of the queue, which only delays it, are left    *)
(* out.  A list of deposits is a function from each to its place, from 0.  *)
(***************************************************************************)
EXTENDS Integers, FiniteSets

CONSTANTS
    Deposits,
    SwapChannels,      \* open swap deposit channels
    AccountChannels,   \* open account creation deposit channels
    Workers,           \* the processes that run the queue
    None

ASSUME DepositsAssumption ==
    /\ SwapChannels \cap AccountChannels = {}
    /\ None \notin Deposits \cup SwapChannels \cup AccountChannels

VARIABLES
    rows,      \* the swapRequest or failedSwap row of a deposit
    pending,   \* the rows of solanaPendingTxRef
    open,      \* the processor is within a block
    begun,     \* rows and pending when it began that block
    halted,    \* the processor tries a block again and again
    worker     \* every queue

db == <<rows, pending>>
vars == <<rows, pending, open, begun, halted, worker>>

Channels == SwapChannels \cup AccountChannels

NoRow == [table |-> "none"]

\* event is the last one of the deposit, channel is None for a vault deposit,
\* finalised the deposit whose depositFinalised filled in the row.
Request == [table : {"request"}, event : {"requested", "finalised"}, channel : Channels \cup {None},
            index : Nat, signature : Deposits \cup {None}, finalised : Deposits \cup {None}]

Failed == [table : {"failed"}, event : {"failed", "rejected"}, channel : Channels \cup {None},
           index : Nat, signature : Deposits \cup {None},
           reason : {"Rejected", "Other"}, broadcast : Deposits \cup {None}]

Requests == {d \in Deposits : rows[d].table = "request"}

FailedSwaps == {d \in Deposits : rows[d].table = "failed"}

OnChannel(c) == {d \in Requests \cup FailedSwaps : rows[d].channel = c}

NextIndex == Cardinality(Requests \cup FailedSwaps) + 1

Idle == [at |-> "idle", entry |-> None, list |-> <<>>]

Init ==
    /\ rows = [d \in Deposits |-> NoRow]
    /\ pending = {}
    /\ open = FALSE
    /\ begun = <<>>
    /\ halted = FALSE
    /\ worker = [w \in Workers |-> Idle]

-----------------------------------------------------------------------------
(* The processor.  Every event is the last one of its block or not.        *)

Handles ==
    /\ ~halted
    /\ open' \in BOOLEAN
    /\ begun' = IF ~open' THEN <<>> ELSE IF open THEN begun ELSE db
    /\ UNCHANGED <<halted, worker>>

EndBlock ==
    /\ open
    /\ open' = FALSE
    /\ begun' = <<>>
    /\ UNCHANGED <<rows, pending, halted, worker>>

\* swapRequested for a deposit on a channel or, c = None, to the vault.
SwapRequested(d, c) ==
    /\ rows[d] = NoRow
    /\ rows' = [rows EXCEPT ![d] = [table |-> "request", event |-> "requested", channel |-> c,
                                    index |-> NextIndex, signature |-> None, finalised |-> None]]
    /\ pending' = pending \cup {d}
    /\ Handles

\* The row of a deposit that failed.
AddFailedSwap(d, c, reason) ==
    /\ rows[d] = NoRow
    /\ rows' = [rows EXCEPT ![d] = [table |-> "failed", event |-> "failed", channel |-> c,
                                    index |-> NextIndex, signature |-> None,
                                    reason |-> reason, broadcast |-> None]]
    /\ pending' = pending \cup {d}
    /\ Handles

DepositFailed(d, c, reason) == AddFailedSwap(d, c, reason)

\* depositFinalised with action Refund (to the vault) or Unrefundable.
FinalisedWithoutSwap(d, c) == AddFailedSwap(d, c, "Other")

\* What depositFinalised of d writes, into the row of e.
Finalise(d, e) ==
    rows' = [rows EXCEPT ![d] = [rows[d] EXCEPT !.event = "finalised"],
                         ![e] = [rows[e] EXCEPT !.finalised = d,
                                                !.event = IF e = d THEN "finalised" ELSE rows[e].event]]

\* depositFinalised of a swap: by the id of the request.
SwapFinalised(d) ==
    /\ rows[d].table = "request"
    /\ rows[d].event = "requested"
    /\ rows[d].channel \notin AccountChannels
    /\ Finalise(d, d)
    /\ pending' = pending
    /\ Handles

\* The requests an account creation channel waits for, by their signature.
Unfinalised(c) == {e \in OnChannel(c) \cap Requests : rows[e].signature = None}

\* depositFinalised with action LiquidityProvision: for the one request of the
\* channel that has no signature; otherwise nothing but a warning.
LiquidityProvisionFinalised(d) ==
    /\ rows[d].table = "request"
    /\ rows[d].event = "requested"
    /\ rows[d].channel \in AccountChannels
    /\ LET waiting == Unfinalised(rows[d].channel)
       IN  IF Cardinality(waiting) = 1
           THEN \E e \in waiting : Finalise(d, e)
           ELSE rows' = [rows EXCEPT ![d] = [rows[d] EXCEPT !.event = "finalised"]]
    /\ pending' = pending
    /\ Handles

\* Mutant: the newest failed swap of the channel only.
StampedNewest(d) ==
    IF rows[d].channel = None THEN {d}
    ELSE {e \in OnChannel(rows[d].channel) \cap FailedSwaps :
             /\ rows[d].channel \in SwapChannels
             /\ \A f \in OnChannel(rows[d].channel) \cap FailedSwaps : rows[f].index <= rows[e].index}

\* Every failed swap of the swap channel that has no refund broadcast gets this one.
Stamped(d) ==
    IF rows[d].channel = None THEN {d}
    ELSE {e \in OnChannel(rows[d].channel) \cap FailedSwaps :
             rows[d].channel \in SwapChannels /\ rows[e].broadcast = None}

Rejectable(d) ==
    /\ rows[d].table = "failed"
    /\ rows[d].event = "failed"
    /\ rows[d].reason = "Rejected"

\* transactionRejectedByBroker.  A failed vault deposit is found by its pending row.
TransactionRejected(d) ==
    /\ Rejectable(d)
    /\ rows[d].channel = None => d \in pending
    /\ rows' = [e \in Deposits |->
                  LET row == IF e \in Stamped(d) THEN [rows[e] EXCEPT !.broadcast = d] ELSE rows[e]
                  IN  IF e = d THEN [row EXCEPT !.event = "rejected"] ELSE row]
    /\ pending' = pending
    /\ Handles

\* Mutant: only the deposits are undone.
ThrowsKeepsPending(d) ==
    /\ ~halted
    /\ Rejectable(d)
    /\ rows[d].channel = None
    /\ d \notin pending
    /\ rows' = IF open THEN begun[1] ELSE rows
    /\ pending' = pending
    /\ open' = FALSE
    /\ begun' = <<>>
    /\ halted' = TRUE
    /\ UNCHANGED worker

TransactionRejectedThrows(d) ==
    /\ ~halted
    /\ Rejectable(d)
    /\ rows[d].channel = None
    /\ d \notin pending
    /\ rows' = IF open THEN begun[1] ELSE rows
    /\ pending' = IF open THEN begun[2] ELSE pending
    /\ open' = FALSE
    /\ begun' = <<>>
    /\ halted' = TRUE
    /\ UNCHANGED worker

-----------------------------------------------------------------------------
(* The queue.                                                              *)

MovesTo(w, state) ==
    /\ ~open
    /\ worker' = [worker EXCEPT ![w] = state]
    /\ UNCHANGED <<open, begun, halted>>

\* Mutant: oldest first.
OldestFirst(S) == [d \in S |-> Cardinality({e \in S : rows[e].index < rows[d].index})]

\* sortBlockIndexDesc: as many come first as are newer.
NewestFirst(S) == [d \in S |-> Cardinality({e \in S : rows[e].index > rows[d].index})]

\* Mutant: without those that failed.
AskedForRequests(d) ==
    NewestFirst(IF rows[d].channel = None THEN {d} ELSE OnChannel(rows[d].channel) \cap Requests)

\* The deposits to ask for: all of the channel, with those that failed; a vault
\* deposit alone.
AskedFor(d) == NewestFirst(IF rows[d].channel = None THEN {d} ELSE OnChannel(rows[d].channel))

\* findFirst, without an order, and the read of the channel.
Pick(w) ==
    /\ worker[w].at = "idle"
    /\ \E d \in pending : MovesTo(w, [at |-> "asking", entry |-> d, list |-> AskedFor(d)])
    /\ UNCHANGED db

\* The place of each transfer among those that the node finds, newest first.
Transfers(S) == [d \in S |-> Cardinality({e \in S : rows[e].index > rows[d].index})]

\* The i-th signature is the i-th deposit's.
Write(w) ==
    LET list == worker[w].list
        found == Transfers(DOMAIN list)
    IN  /\ worker[w].at = "asking"
        /\ MovesTo(w, [worker[w] EXCEPT !.at = "written", !.list = <<>>])
        /\ rows' = [d \in Deposits |->
                      IF d \in DOMAIN list
                      THEN [rows[d] EXCEPT !.signature = CHOOSE e \in DOMAIN list : found[e] = list[d]]
                      ELSE rows[d]]
        /\ pending' = pending

\* The row of another process's making is gone already: that throws, and is only logged.
Delete(w) ==
    /\ worker[w].at = "written"
    /\ MovesTo(w, Idle)
    /\ pending' = pending \ {worker[w].entry}
    /\ rows' = rows

\* The node does not answer or finds no match, or the process restarts.
GiveUp(w) ==
    /\ worker[w].at # "idle"
    /\ MovesTo(w, Idle)
    /\ UNCHANGED db

-----------------------------------------------------------------------------

HandleEvent(d) ==
    \/ \E c \in Channels \cup {None} : SwapRequested(d, c)
    \/ \E c \in Channels \cup {None}, reason \in {"Rejected", "Other"} : DepositFailed(d, c, reason)
    \/ \E c \in Channels \cup {None} : FinalisedWithoutSwap(d, c)
    \/ SwapFinalised(d)
    \/ LiquidityProvisionFinalised(d)
    \/ TransactionRejected(d)
    \/ TransactionRejectedThrows(d)

Next ==
    \/ \E d \in Deposits : HandleEvent(d)
    \/ EndBlock
    \/ \E w \in Workers : Pick(w) \/ Write(w) \/ Delete(w) \/ GiveUp(w)

\* A block ends, a queue goes on, and the node does not fail it for ever.
Fairness ==
    /\ WF_vars(EndBlock)
    /\ \A w \in Workers : /\ WF_vars(Pick(w))
                          /\ SF_vars(Write(w))
                          /\ SF_vars(Delete(w))

Spec == Init /\ [][Next]_vars /\ Fairness

-----------------------------------------------------------------------------
(* Properties.                                                             *)

\* What the rows and the queues can hold; only a
\* deposit with a row is pending.
TypeOK ==
    /\ rows \in [Deposits -> {NoRow} \cup Request \cup Failed]
    /\ pending \subseteq Requests \cup FailedSwaps
    /\ open \in BOOLEAN /\ halted \in BOOLEAN
    /\ begun # <<>> <=> open
    /\ \A w \in Workers :
          /\ worker[w].at \in {"idle", "asking", "written"}
          /\ worker[w].entry \in Deposits \cup {None}

\* A deposit has its own signature, or none and still its pending row: the queue
\* that deletes one had that deposit in the list it asked for.
NoDepositForgotten ==
    \A d \in Requests \cup FailedSwaps :
        rows[d].signature = d \/ (rows[d].signature = None /\ d \in pending)

\* The processor stops for ever only at the rejection of a failed vault deposit
\* whose signature the queue found first.
HaltedOnlyByQueue ==
    halted => \E d \in FailedSwaps : /\ Rejectable(d)
                                     /\ rows[d].channel = None
                                     /\ rows[d].signature = d
                                     /\ d \notin pending

\* After the rejection the failed deposit shows a refund broadcast: its own, or
\* that of another rejected deposit to the same swap channel.  Only on an account
\* creation channel it shows none.
RejectionShowsRefund ==
    \A d \in FailedSwaps :
        rows[d].event = "rejected" =>
            IF rows[d].channel \in AccountChannels THEN rows[d].broadcast = None
            ELSE rows[d].broadcast = d \/ /\ rows[d].channel # None
                                          /\ rows[d].broadcast \in OnChannel(rows[d].channel) \cap FailedSwaps

\* A deposit that was not rejected shows a refund only by the rejection of
\* another one to its channel.
RefundOfRejected ==
    \A d \in FailedSwaps :
        LET b == rows[d].broadcast
        IN  b # None => /\ rows[b].event = "rejected"
                        /\ b # d => rows[d].channel = rows[b].channel /\ rows[d].channel \in SwapChannels

\* A request is filled in with the amount of another deposit only on an account
\* creation channel, and only when the queue found that other one's signature
\* before its depositFinalised.
FinalisedByAnother ==
    \A e \in Requests :
        LET d == rows[e].finalised
        IN  d \notin {None, e} => /\ rows[e].channel \in AccountChannels
                                  /\ rows[d].channel = rows[e].channel
                                  /\ rows[d].signature # None

\* What becomes of rejected deposits, whatever the queue does between two events
\* of a deposit: their refunds, the rows they are written to, and the one way
\* that the processor stops.
RejectionsAreTraceable ==
    HaltedOnlyByQueue /\ RejectionShowsRefund /\ RefundOfRejected /\ FinalisedByAnother

\* Every deposit of a finished block gets its own signature, however many other
\* deposits of its channel arrive or fail while the node is asked.
SignatureFound ==
    \A d \in Deposits : (d \in pending /\ ~open) ~> (rows[d].table # "none" /\ rows[d].signature = d)
=============================================================================
