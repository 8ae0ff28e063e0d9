--------------------------- MODULE SwapLifecycle ---------------------------
(***************************************************************************)
(* The event handlers that follow a swap request through the database      *)
(* (event-handlers/swapping, ingress-egress, broadcaster) and the state    *)
(* that GET /v2/swaps/:id derives from the rows (routes/v2).               *)
(*                                                                         *)
(* One action is one event with its whole handler.  Whether the State      *)
(* Chain can emit an event is a guard over the rows, which is sound        *)
(* because events are handled in their order (module BlockProcessor): the  *)
(* rows say everything the chain said before.  A handler that throws rolls *)
(* its block back and the block is tried again for ever, so nothing        *)
(* follows it: stuck.                                                      *)
(***************************************************************************)
EXTENDS Naturals, FiniteSets, FiniteSetsExt

CONSTANTS
    Requests,     \* swap requests
    Kinds,        \* of these: "external", "onChain", "liquidation"
    MaxChunks,    \* bound: dcaNumberOfChunks, 1 for a swap without DCA
    MaxRetries,   \* bound: how often one chunk is rescheduled
    BroadcastNos, \* bound: broadcast ids of one chain
    MaxOutput,    \* bound: what one chunk brings, 1 or more
    Reasons,      \* why an egress is ignored: "Module" and other errors
    Twice,        \* may both egresses of one request be ignored?
    Unsent,       \* an egress row without a broadcast
    None

ASSUME LifecycleAssumption ==
    /\ MaxChunks \in Nat \ {0} /\ MaxRetries \in Nat /\ MaxOutput \in Nat
    /\ IsFiniteSet(Requests)
    /\ Kinds \subseteq {"external", "onChain", "liquidation"}
    /\ Twice \in BOOLEAN

VARIABLES
    request,    \* swapRequest rows, and the one-to-one rows that hang on them
    swap,       \* swap rows, by request and chunk number
    egress,     \* egress rows, by request and role: the broadcast they are in
    broadcast,  \* broadcast rows
    quote,      \* the quote of the deposit channel all external requests use
    tracked,    \* broadcasts the ingress-egress tracker holds in redis
    fellBack,   \* broadcasts whose transfer failed and fell back (the chain's)
    stuck       \* a handler throws

vars == <<request, swap, egress, broadcast, quote, tracked, fellBack, stuck>>

Roles == {"swap", "refund", "fallback", "fallbackRefund"}
ChainOf(role) == IF role \in {"swap", "fallback"} THEN "dest" ELSE "src"
Egresses == Requests \X Roles
Broadcasts == {"src", "dest"} \X BroadcastNos

ChunkNos == 1 .. MaxChunks
IgnoredTypes == {"SWAP", "REFUND"}
BroadcastStates == {"requested", "succeeded", "aborted"}
RequestRows == [kind : Kinds, chunks : ChunkNos, completed : BOOLEAN,
                output : Nat \cup {None}, ignored : SUBSET IgnoredTypes, credited : BOOLEAN,
                refunded : BOOLEAN, refundAmount : Int \cup {None}]
SwapRows == [status : {"scheduled", "executed", "aborted"}, retries : 0 .. MaxRetries,
             rescheduled : BOOLEAN, output : 0 .. MaxOutput]

(* No row is mistaken for a missing one.                                   *)
ASSUME NoneAssumption ==
    /\ None \notin RequestRows /\ None \notin SwapRows /\ None \notin Broadcasts
    /\ None \notin BroadcastStates \cup {"IGNORED", "BROADCAST_ABORTED"} \cup Roles
    /\ Unsent \notin Broadcasts /\ Unsent # None

AllChunks(r) == 1 .. request[r].chunks
InputOf(r) == request[r].chunks        \* every chunk swaps one unit of the input

Init ==
    /\ request = [r \in Requests |-> None]
    /\ swap = [c \in Requests \X ChunkNos |-> None]
    /\ egress = [e \in Egresses |-> None]
    /\ broadcast = [b \in Broadcasts |-> None]
    /\ quote = None
    /\ tracked = {} /\ fellBack = {}
    /\ stuck = FALSE

(* What the rows of a request hold.                                        *)
Chunks(r) == {n \in ChunkNos : swap[<<r, n>>] # None}
InStatus(r, st) == {n \in Chunks(r) : swap[<<r, n>>].status = st}
Executed(r) == InStatus(r, "executed")
Output(r) ==                           \* the sum of what the executed chunks brought
    Cardinality({u \in Executed(r) \X (1 .. MaxOutput) : u[2] <= swap[<<r, u[1]>>].output})
Has(r, role) == egress[<<r, role>>] # None
IsOpen(r) == request[r] # None /\ ~request[r].completed

Throws == stuck' = TRUE
          /\ UNCHANGED <<request, swap, egress, broadcast, quote, tracked, fellBack>>

----------------------------------------------------------------------------
(* Swapping pallet.                                                        *)
SwapRequested(r, kind, chunks) ==
    /\ request[r] = None
    /\ request' = [request EXCEPT ![r] =
         [kind |-> kind, chunks |-> chunks, completed |-> FALSE, output |-> None, ignored |-> {},
          credited |-> FALSE, refunded |-> FALSE, refundAmount |-> None]]
    /\ UNCHANGED <<swap, egress, broadcast, quote, tracked, fellBack, stuck>>

(* The chain schedules chunks in order, the next one while at most one is  *)
(* still open, and none after one was aborted or the outcome is settled.   *)
Settling(r) == \/ Has(r, "swap") \/ Has(r, "refund")
               \/ request[r].ignored # {} \/ request[r].credited \/ request[r].refunded

SwapScheduled(r, n) ==
    /\ IsOpen(r) /\ ~Settling(r)
    /\ n \in AllChunks(r) \ Chunks(r) /\ Chunks(r) = 1 .. n - 1
    /\ Cardinality(InStatus(r, "scheduled")) < 2 /\ InStatus(r, "aborted") = {}
    /\ swap' = [swap EXCEPT ![<<r, n>>] =
         [status |-> "scheduled", retries |-> 0, rescheduled |-> FALSE, output |-> 0]]
    /\ UNCHANGED <<request, egress, broadcast, quote, tracked, fellBack, stuck>>

SwapRescheduled(r, n) ==
    /\ IsOpen(r) /\ ~Settling(r)
    /\ n \in InStatus(r, "scheduled") /\ swap[<<r, n>>].retries < MaxRetries
    /\ swap' = [swap EXCEPT ![<<r, n>>].retries = @ + 1, ![<<r, n>>].rescheduled = TRUE]
    /\ UNCHANGED <<request, egress, broadcast, quote, tracked, fellBack, stuck>>

SwapExecuted(r, n, output) ==
    /\ IsOpen(r) /\ ~Settling(r)
    /\ n \in InStatus(r, "scheduled")
    /\ swap' = [swap EXCEPT ![<<r, n>>].status = "executed",
                            ![<<r, n>>].output = output,
                            ![<<r, n>>].rescheduled = FALSE]
    /\ UNCHANGED <<request, egress, broadcast, quote, tracked, fellBack, stuck>>

SwapAborted(r, n) ==
    /\ IsOpen(r) /\ ~Settling(r)
    /\ n \in InStatus(r, "scheduled")
    /\ swap' = [swap EXCEPT ![<<r, n>>].status = "aborted"]
    /\ UNCHANGED <<request, egress, broadcast, quote, tracked, fellBack, stuck>>

(* The chain settles a request when every chunk is executed, or refunds    *)
(* what is left; before 2.0 an expired chunk stayed scheduled in the rows. *)
OwesOutput(r) == /\ IsOpen(r) /\ Chunks(r) # {} /\ Executed(r) # {}
                 /\ Executed(r) # AllChunks(r) \/ InStatus(r, "scheduled") = {}
                 /\ ~Has(r, "swap") /\ "SWAP" \notin request[r].ignored
                 /\ ~request[r].credited
OwesRefund(r) == /\ IsOpen(r) /\ Chunks(r) # {} /\ Executed(r) # AllChunks(r)
                 /\ ~Has(r, "refund") /\ "REFUND" \notin request[r].ignored
                 /\ ~request[r].refunded

EgressScheduled(r, role) ==
    /\ egress' = [egress EXCEPT ![<<r, role>>] = Unsent]
    /\ UNCHANGED <<request, swap, broadcast, quote, tracked, fellBack, stuck>>

SwapEgressScheduled(r) == /\ OwesOutput(r) /\ request[r].kind = "external"
                          /\ EgressScheduled(r, "swap")
RefundEgressScheduled(r) == /\ OwesRefund(r) /\ request[r].kind = "external"
                            /\ EgressScheduled(r, "refund")

(* MUTANT: a request with an egress row cannot have an ignored one.        *)
IgnoresIfNoEgress(r) == ~Has(r, "swap") /\ ~Has(r, "refund")

(* ignoredEgress.swapRequestId is unique: a second row for one request     *)
(* violates the constraint, whatever its type.                             *)
IgnoresOnce(r) == request[r].ignored = {}

EgressIgnored(r, type) ==
    IF IgnoresOnce(r)
    THEN /\ request' = [request EXCEPT ![r].ignored = @ \cup {type}]
         /\ UNCHANGED <<swap, egress, broadcast, quote, tracked, fellBack, stuck>>
    ELSE Throws

(* An error that is no pallet error becomes the generic "Unknown error".   *)
SwapEgressIgnored(r, reason) ==
    /\ OwesOutput(r) /\ request[r].kind = "external"
    /\ Twice \/ request[r].ignored = {}
    /\ EgressIgnored(r, "SWAP")

(* Here the same error leaves the id to connect undefined.                 *)
RefundEgressIgnored(r, reason) ==
    /\ OwesRefund(r) /\ request[r].kind = "external"
    /\ Twice \/ request[r].ignored = {}
    /\ IF reason = "Module" THEN EgressIgnored(r, "REFUND") ELSE Throws

CreditedOnChain(r) ==
    /\ OwesOutput(r) /\ request[r].kind = "onChain"
    /\ request' = [request EXCEPT ![r].credited = TRUE]
    /\ UNCHANGED <<swap, egress, broadcast, quote, tracked, fellBack, stuck>>

RefundedOnChain(r) ==
    /\ OwesRefund(r) /\ request[r].kind = "onChain"
    /\ request' = [request EXCEPT ![r].refunded = TRUE]
    /\ UNCHANGED <<swap, egress, broadcast, quote, tracked, fellBack, stuck>>

(* The output of a liquidation goes to the loan, without an event here.    *)
Settled(r) == \/ ~OwesOutput(r) /\ ~OwesRefund(r)
              \/ request[r].kind = "liquidation"

(* swaps.reduce((acc, { swapInputAmount }) => acc.minus(swapInputAmount))  *)
LiquidationRefund(r) == InputOf(r) - Cardinality(Chunks(r))

(* Only the first completed request of a channel is put in its quote; a    *)
(* refund row decides whether the quote counts as refunded or executed.    *)
QuoteAtCompletion(r) ==
    IF request[r].kind = "external" /\ quote = None
    THEN [request |-> r, as |-> IF Has(r, "refund") THEN "refunded" ELSE "executed"]
    ELSE quote

SwapRequestCompleted(r) ==
    /\ IsOpen(r) /\ Chunks(r) # {} /\ Settled(r)
    /\ request' = [request EXCEPT ![r].completed = TRUE,
         ![r].output = Output(r),
         ![r].refundAmount = IF request[r].kind = "liquidation"
                             THEN LiquidationRefund(r) ELSE None]
    /\ quote' = QuoteAtCompletion(r)
    /\ UNCHANGED <<swap, egress, broadcast, tracked, fellBack, stuck>>

----------------------------------------------------------------------------
(* Ingress-egress pallets and broadcasters.  A batch lists egress ids of   *)
(* one chain; Other stands for the egresses of other pallets, which have   *)
(* no row.                                                                 *)
Other == <<None, "other">>

(* The chain sends an egress once, after the block's requests are settled. *)
Sendable(chain) == {e \in Egresses : /\ ChainOf(e[2]) = chain
                                     /\ egress[e] = Unsent
                                     /\ request[e[1]].completed}

(* MUTANT: no check that any egress was found. *)
BroadcastRequestedAlways(b, ids) ==
    /\ broadcast' = [broadcast EXCEPT ![b] = "requested"]
    /\ egress' = [e \in Egresses |-> IF e \in ids \ {Other} THEN b ELSE egress[e]]
    /\ UNCHANGED <<request, swap, quote, tracked, fellBack, stuck>>

BroadcastRequested(b, ids) ==
    LET rows == ids \ {Other}
    IN  IF rows = {} THEN UNCHANGED vars
        ELSE /\ broadcast' = [broadcast EXCEPT ![b] = "requested"]
             /\ egress' = [e \in Egresses |-> IF e \in rows THEN b ELSE egress[e]]
             /\ UNCHANGED <<request, swap, quote, tracked, fellBack, stuck>>

BatchBroadcastRequested(b, ids) ==
    /\ broadcast[b] = None
    /\ ids \subseteq Sendable(b[1]) \cup {Other} /\ ids # {}
    /\ BroadcastRequested(b, ids)

CcmBroadcastRequested(b, e) ==
    /\ broadcast[b] = None
    /\ e \in Sendable(b[1])
    /\ BroadcastRequested(b, {e})

(* Both handlers use updateMany: a broadcast without a row is no error.    *)
BroadcastEnds(b, how) ==
    /\ broadcast[b] = "requested"
    /\ broadcast' = [broadcast EXCEPT ![b] = how]
    /\ UNCHANGED <<request, swap, egress, quote, tracked, fellBack, stuck>>

BroadcastSuccess(b) == BroadcastEnds(b, "succeeded")
BroadcastAborted(b) == BroadcastEnds(b, "aborted")

Carried(b) == {e \in Egresses : egress[e] = b}

(* The transaction went through but the transfer in it failed, so the chain *)
(* schedules a fallback egress.  The handler gives up unless the broadcast  *)
(* carries exactly one egress, that of a swap or of a refund.               *)
FallbackRole(role) == IF role = "swap" THEN "fallback" ELSE "fallbackRefund"

TransferFallbackRequested(b) ==
    /\ broadcast[b] \in {"requested", "succeeded"} /\ b \notin fellBack
    /\ fellBack' = fellBack \cup {b}
    /\ IF Cardinality(Carried(b)) = 1
       THEN \E e \in Carried(b) :
              IF e[2] \in {"swap", "refund"}
              THEN egress' = [egress EXCEPT ![<<e[1], FallbackRole(e[2])>>] = Unsent]
              ELSE UNCHANGED egress
       ELSE UNCHANGED egress
    /\ UNCHANGED <<request, swap, broadcast, quote, tracked, stuck>>

(* The tracker puts a broadcast it has seen on its chain in redis; the key *)
(* expires whether or not the State Chain has witnessed the success.       *)
TrackerSees(b) == /\ broadcast[b] = "requested" /\ b \notin tracked
                  /\ tracked' = tracked \cup {b}
                  /\ UNCHANGED <<request, swap, egress, broadcast, quote, fellBack, stuck>>
TrackerForgets(b) == /\ b \in tracked
                     /\ tracked' = tracked \ {b}
                     /\ UNCHANGED <<request, swap, egress, broadcast, quote, fellBack, stuck>>

----------------------------------------------------------------------------
RequestEvent(r) ==
    \/ \E kind \in Kinds, chunks \in ChunkNos : SwapRequested(r, kind, chunks)
    \/ \E n \in ChunkNos : \/ SwapScheduled(r, n)
                         \/ SwapRescheduled(r, n)
                         \/ \E output \in 1 .. MaxOutput : SwapExecuted(r, n, output)
                         \/ SwapAborted(r, n)
    \/ SwapEgressScheduled(r)
    \/ RefundEgressScheduled(r)
    \/ \E reason \in Reasons : SwapEgressIgnored(r, reason) \/ RefundEgressIgnored(r, reason)
    \/ CreditedOnChain(r)
    \/ RefundedOnChain(r)
    \/ SwapRequestCompleted(r)

BroadcastEvent(b) ==
    \/ \E ids \in SUBSET (Sendable(b[1]) \cup {Other}) : BatchBroadcastRequested(b, ids)
    \/ \E e \in Sendable(b[1]) : CcmBroadcastRequested(b, e)
    \/ BroadcastSuccess(b)
    \/ BroadcastAborted(b)
    \/ TransferFallbackRequested(b)

Next ==
    \/ ~stuck /\ \E r \in Requests : RequestEvent(r)
    \/ ~stuck /\ \E b \in Broadcasts : BroadcastEvent(b)
    \/ \E b \in Broadcasts : TrackerSees(b) \/ TrackerForgets(b)

Spec == Init /\ [][Next]_vars

----------------------------------------------------------------------------
(* routes/v2: the state of a request.                                      *)
Sent(r, role) == Has(r, role) /\ egress[<<r, role>>] # Unsent
Ended(r, role, how) == Sent(r, role) /\ broadcast[egress[<<r, role>>]] = how
Pending(r, role) == Sent(r, role) /\ egress[<<r, role>>] \in tracked

(* const egress = fallbackEgress ?? swapEgress ?? refundEgress             *)
Egress(r) == IF Has(r, "fallback") THEN "fallback"
             ELSE IF Has(r, "swap") THEN "swap"
             ELSE IF Has(r, "refund") THEN "refund"
             ELSE None

Failed(r) == \/ request[r].ignored # {}
             \/ Egress(r) # None /\ Ended(r, Egress(r), "aborted")
             \/ Ended(r, "fallback", "succeeded")

SendingState(r) == IF Pending(r, "fallback") THEN "FAILED"
                   ELSE IF Pending(r, "swap") \/ Pending(r, "refund") THEN "SENT"
                   ELSE "SENDING"

(* MUTANT: looks the ignored egress up only when nothing was scheduled.    *)
FailureModeIfNoEgress(r, role) ==
    IF request[r].ignored # {} /\ Egress(r) = None THEN "IGNORED"
    ELSE IF Ended(r, role, "aborted") THEN "BROADCAST_ABORTED"
    ELSE None

TypeOf(role) == IF role = "swap" THEN "SWAP" ELSE "REFUND"

(* The failure that the fields of an output or a refund show; those of a    *)
(* fallback show none.                                                      *)
FailureMode(r, role) ==
    IF TypeOf(role) \in request[r].ignored THEN "IGNORED"
    ELSE IF Ended(r, role, "aborted") THEN "BROADCAST_ABORTED"
    ELSE None

IsSending(r) == /\ request[r] # None /\ ~Failed(r)
                /\ Egress(r) # None /\ ~Ended(r, Egress(r), "succeeded")

(* MUTANT: a request swaps only while a chunk is scheduled. *)
StateByOpenChunk(r) ==
    IF request[r] = None THEN "WAITING"
    ELSE IF Failed(r) THEN "FAILED"
    ELSE IF IsSending(r) THEN SendingState(r)
    ELSE IF Egress(r) # None \/ request[r].completed THEN "COMPLETED"
    ELSE IF InStatus(r, "scheduled") # {} THEN "SWAPPING"
    ELSE "WAITING"

State(r) ==
    IF request[r] = None THEN "WAITING"
    ELSE IF Failed(r) THEN "FAILED"
    ELSE IF IsSending(r) THEN SendingState(r)
    ELSE IF Egress(r) # None \/ request[r].completed THEN "COMPLETED"
    ELSE IF Chunks(r) # {} THEN "SWAPPING"
    ELSE "WAITING"

(* MUTANT: the chunk that was scheduled last. *)
NewestChunk(r) == Max(Chunks(r) \ Executed(r))

(* The chunk shown as current: of the unexecuted ones, ordered by id, the   *)
(* last but one, and the last if there is only one.                         *)
CurrentChunk(r) ==
    LET open == Chunks(r) \ Executed(r)
        last == Max(open)
    IN  IF Cardinality(open) > 1 THEN Max(open \ {last}) ELSE last

RemainingInput(r) == InputOf(r) - Cardinality(Executed(r))

----------------------------------------------------------------------------
(* Every row has its shape, and a broadcast row is only kept for egresses   *)
(* the database knows (batchBroadcastRequested skips the others).           *)
TypeOK ==
    /\ \A r \in Requests : request[r] # None =>
          /\ request[r].kind \in Kinds /\ request[r].completed \in BOOLEAN
          /\ request[r].ignored \subseteq {"SWAP", "REFUND"}
    /\ \A c \in Requests \X ChunkNos : swap[c] # None =>
          /\ request[c[1]] # None
          /\ swap[c].status \in {"scheduled", "executed", "aborted"}
          /\ swap[c].retries \in 0 .. MaxRetries
    /\ \A e \in Egresses : egress[e] \in Broadcasts =>
          broadcast[egress[e]] # None /\ egress[e][1] = ChainOf(e[2])
    /\ \A b \in Broadcasts : broadcast[b] # None => Carried(b) # {}
    /\ tracked \subseteq Broadcasts /\ fellBack \subseteq Broadcasts
    /\ stuck \in BOOLEAN

(* The only events that stop the processor for ever are ignored egresses: a *)
(* second one for the same request meets the unique swapRequestId, and a    *)
(* refund that is ignored for anything but a pallet error connects an       *)
(* undefined error id.  Every other handler finds its rows.                 *)
StuckOnlyByIgnored ==
    stuck => \E r \in Requests :
               /\ IsOpen(r)
               /\ \/ request[r].ignored # {} /\ (OwesOutput(r) \/ OwesRefund(r))
                  \/ Reasons # {"Module"} /\ OwesRefund(r)

(* When the chain has said all it will say of a request (it is completed    *)
(* and each of its egresses is broadcast and ended) the status is final:    *)
(* nobody polls a swap that stays SENDING.                                  *)
ChainDone(r) == /\ request[r] # None /\ request[r].completed
                /\ \A role \in Roles : Has(r, role) =>
                      Ended(r, role, "succeeded") \/ Ended(r, role, "aborted")
SettledIsFinal ==
    \A r \in Requests : ChainDone(r) => State(r) \in {"COMPLETED", "FAILED"}

(* COMPLETED hides a transfer that failed, or was ignored or aborted, in    *)
(* two cases only: it is a refund, or its broadcast carried several         *)
(* egresses, where transferFallbackRequested gives up.                      *)
WentWrong(r, role) == \/ Ended(r, role, "aborted")
                      \/ Sent(r, role) /\ egress[<<r, role>>] \in fellBack
CompletedHidesOnly ==
    \A r \in Requests : State(r) = "COMPLETED" =>
       /\ request[r].ignored = {}
       /\ \A role \in Roles : WentWrong(r, role) =>
             role \in {"refund", "fallbackRefund"} \/ Cardinality(Carried(egress[<<r, role>>])) > 1

(* A swap that is shown as FAILED shows why, unless a fallback was sent;    *)
(* a failure in another state is that of a refund next to an output, or the *)
(* one that a fallback followed.                                            *)
FailureIsExplained ==
    \A r \in Requests : request[r] # None /\ ~Has(r, "fallback") =>
       LET failing == {role \in {"swap", "refund"} : FailureMode(r, role) # None}
       IN  /\ State(r) = "FAILED" => failing # {}
           /\ State(r) # "FAILED" => failing \subseteq {"refund"}
           /\ State(r) # "FAILED" /\ failing # {} => Has(r, "swap")

(* The status tells how the transfers of a request ended: the failures that *)
(* COMPLETED hides, those that FAILED shows, and that one of them is told.  *)
FailuresShow == CompletedHidesOnly /\ FailureIsExplained /\ SettledIsFinal

(* The state a client polls never goes back, and COMPLETED never turns into *)
(* FAILED, except when a fallback is requested or redis forgets a broadcast.*)
Rank(state) == CASE state = "WAITING" -> 0 [] state = "SWAPPING" -> 1
                 [] state = "SENDING" -> 2 [] state = "SENT" -> 3
                 [] OTHER -> 4
GoesBack(r) == \/ Rank(State(r)') < Rank(State(r))
               \/ Rank(State(r)) = 4 /\ State(r)' # State(r)
StateGoesBackOnlyBy ==
    [][\A r \in Requests : GoesBack(r) =>
          \/ Has(r, "fallback")' /\ ~Has(r, "fallback")
          \/ \E role \in Roles : Pending(r, role) /\ ~Pending(r, role)']_vars

(* A quote marked as executed was for a swap that sold something, unless    *)
(* nothing was sold and the refund was too small to be sent: there is no    *)
(* refund row then, and the quote gets an executed price of nothing.        *)
ExecutedQuoteSold ==
    quote # None /\ quote.as = "executed" =>
       Executed(quote.request) # {} \/ "REFUND" \in request[quote.request].ignored

(* The refund recorded for a liquidation is what the status API computes as *)
(* remaining input, less the chunks that were scheduled and never executed: *)
(* they count as sold.                                                      *)
LiquidationRefundLeavesOut ==
    \A r \in Requests : request[r] # None /\ request[r].refundAmount # None =>
       RemainingInput(r) - request[r].refundAmount = Cardinality(Chunks(r) \ Executed(r))

(* "if we have a DCA swap with two scheduled chunks, we need to show the    *)
(* info from the chunk that was scheduled first" (routes/v2/swap.ts:206).   *)
CurrentChunkIsFirstOpen ==
    \A r \in Requests : Chunks(r) # Executed(r) =>
       CurrentChunk(r) = Min(Chunks(r) \ Executed(r))

(* What is derived from the chunks of a request agrees with what became of  *)
(* each: its quote, the refund of a liquidation, the chunk that is shown.   *)
RowsTellTheSwap ==
    ExecutedQuoteSold /\ LiquidationRefundLeavesOut /\ CurrentChunkIsFirstOpen

(* "retrieves multiple DCA swaps in FAILED status if refund egress fails    *)
(* but swap completes" (routes/v2/__tests__/swap.test.ts:1926).             *)
RefundFailureShows ==
    \A r \in Requests :
       Ended(r, "swap", "succeeded") /\ Ended(r, "refund", "aborted") => State(r) = "FAILED"

=============================================================================
