------------------------- MODULE SwapLifecycleProofs -------------------------
(***************************************************************************)
(* Proofs about SwapLifecycle: what the handlers keep between the rows of  *)
(* a swap request, for any requests, chunks, retries and broadcasts.       *)
(***************************************************************************)
EXTENDS StatusPoll, FiniteSetTheorems, TLAPS

----------------------------------------------------------------------------
(* The inductive invariant.                                                *)

(* Every row has the columns of its table.                                 *)
Types ==
    /\ request \in [Requests -> RequestRows \cup {None}]
    /\ swap \in [Requests \X ChunkNos -> SwapRows \cup {None}]
    /\ egress \in [Egresses -> Broadcasts \cup {None, Unsent}]
    /\ broadcast \in [Broadcasts -> BroadcastStates \cup {None}]
    /\ tracked \subseteq Broadcasts /\ fellBack \subseteq Broadcasts
    /\ stuck \in BOOLEAN

(* The chunks of a request are its first ones, and have their request.     *)
ChunksInOrder ==
    \A r \in Requests, n \in ChunkNos : swap[<<r, n>>] # None =>
       /\ request[r] # None /\ n <= request[r].chunks
       /\ \A m \in 1 .. n : swap[<<r, m>>] # None

(* No more than two chunks of a request are open at a time.                *)
Open(r) == Chunks(r) \ Executed(r)
TwoOpen == \A r \in Requests : \A a, b, c \in Open(r) : a = b \/ a = c \/ b = c

(* Every egress is one of a request.  An egress that is in a broadcast is   *)
(* in one of its own chain, of which there is a row, and its request is    *)
(* completed.                                                              *)
EgressOfRequest == \A e \in Egresses : egress[e] # None => request[e[1]] # None
SentWhenCompleted ==
    \A e \in Egresses : egress[e] \in Broadcasts =>
       /\ broadcast[egress[e]] # None /\ egress[e][1] = ChainOf(e[2])
       /\ request[e[1]].completed

(* A broadcast has a row only if it carries an egress.                     *)
NoEmptyBroadcast == \A b \in Broadcasts : broadcast[b] # None => Carried(b) # {}

(* Only a broadcast that was requested falls back.                         *)
FellBackWasSent == \A b \in fellBack : broadcast[b] # None

(* A fallback row follows a broadcast of its egress that fell back, and    *)
(* for the egress of a swap there is one unless the broadcast was shared.  *)
FallbackOf(role) == IF role = "fallback" THEN "swap" ELSE "refund"
FallbackFollows ==
    \A r \in Requests, role \in {"fallback", "fallbackRefund"} : Has(r, role) =>
       egress[<<r, FallbackOf(role)>>] \in fellBack
FallbackUnlessShared ==
    \A r \in Requests : egress[<<r, "swap">>] \in fellBack =>
       Has(r, "fallback") \/ Cardinality(Carried(egress[<<r, "swap">>])) > 1

(* Only what was sold on chain is refunded on chain, and a refund is only   *)
(* recorded for a liquidation that is completed.                           *)
RefundedIsOnChain ==
    \A r \in Requests : request[r] # None =>
       /\ request[r].refunded => request[r].kind = "onChain"
       /\ request[r].refundAmount # None => request[r].completed

(* The quote is that of a request of its channel.                          *)
QuoteOfCompleted ==
    quote # None => /\ quote.request \in Requests
                    /\ request[quote.request] # None /\ request[quote.request].completed

IInv == /\ Types /\ ChunksInOrder /\ TwoOpen
        /\ EgressOfRequest /\ SentWhenCompleted /\ NoEmptyBroadcast /\ FellBackWasSent
        /\ FallbackFollows /\ FallbackUnlessShared
        /\ RefundedIsOnChain /\ QuoteOfCompleted

(* An egress is a request with a role.                                     *)
LEMMA EgressPairs ==
    /\ \A r \in Requests, role \in Roles : <<r, role>> \in Egresses
    /\ \A e \in Egresses : e[1] \in Requests /\ e[2] \in Roles /\ e = <<e[1], e[2]>>
  BY DEF Egresses

(* Roles of the egresses.                                                  *)
LEMMA RoleNames ==
    /\ "swap" \in Roles /\ "refund" \in Roles /\ "fallback" \in Roles /\ "fallbackRefund" \in Roles
    /\ \A role \in Roles : role = "swap" \/ role = "refund" \/ role = "fallback"
                           \/ role = "fallbackRefund"
    /\ \A role \in {"swap", "refund"} : FallbackRole(role) \in {"fallback", "fallbackRefund"}
                                        /\ FallbackOf(FallbackRole(role)) = role
    /\ \A role \in {"fallback", "fallbackRefund"} :
          FallbackOf(role) \in {"swap", "refund"} /\ FallbackRole(FallbackOf(role)) = role
  BY DEF Roles, FallbackRole, FallbackOf

(* There are no rows in the beginning.                                     *)
LEMMA Initially == Init => IInv
  <1> SUFFICES ASSUME Init PROVE IInv
    OBVIOUS
  <1>1. Types
    BY DEF Init, Types
  <1>2. ChunksInOrder /\ TwoOpen
    BY DEF Init, ChunksInOrder, TwoOpen, Open, Chunks
  <1>3. EgressOfRequest /\ SentWhenCompleted /\ NoEmptyBroadcast /\ FellBackWasSent
    BY NoneAssumption
       DEF Init, EgressOfRequest, SentWhenCompleted, NoEmptyBroadcast, FellBackWasSent
  <1>4. FallbackFollows /\ FallbackUnlessShared
    BY EgressPairs, RoleNames DEF Init, FallbackFollows, FallbackUnlessShared, Has
  <1>5. RefundedIsOnChain /\ QuoteOfCompleted
    BY DEF Init, RefundedIsOnChain, QuoteOfCompleted
  <1> QED BY <1>1, <1>2, <1>3, <1>4, <1>5 DEF IInv


----------------------------------------------------------------------------
(* The steps.                                                              *)

(* What a requested broadcast with rows does.                              *)
Batched(b, rows) ==
    /\ broadcast[b] = None /\ rows # {}
    /\ broadcast' = [broadcast EXCEPT ![b] = "requested"]
    /\ egress' = [e \in Egresses |-> IF e \in rows THEN b ELSE egress[e]]
    /\ UNCHANGED <<request, swap, quote, tracked, fellBack, stuck>>

(* A batch of egresses without rows changes nothing.                       *)
LEMMA RequestedIsBatched ==
  ASSUME NEW b \in Broadcasts, NEW ids,
         BatchBroadcastRequested(b, ids) \/ \E e \in Sendable(b[1]) : CcmBroadcastRequested(b, e)
  PROVE  UNCHANGED vars \/ \E rows \in SUBSET Sendable(b[1]) : Batched(b, rows)
  <1>1. CASE BatchBroadcastRequested(b, ids)
    <2> DEFINE rows == ids \ {Other}
    <2>1. rows \in SUBSET Sendable(b[1])
      BY <1>1 DEF BatchBroadcastRequested
    <2>2. UNCHANGED vars \/ Batched(b, rows)
      BY <1>1 DEF BatchBroadcastRequested, BroadcastRequested, Batched, vars
    <2> QED BY <2>1, <2>2
  <1>2. ASSUME NEW e \in Sendable(b[1]), CcmBroadcastRequested(b, e)
        PROVE  UNCHANGED vars \/ \E rows \in SUBSET Sendable(b[1]) : Batched(b, rows)
    <2> DEFINE rows == {e} \ {Other}
    <2>1. rows \in SUBSET Sendable(b[1])
      OBVIOUS
    <2>2. UNCHANGED vars \/ Batched(b, rows)
      BY <1>2 DEF CcmBroadcastRequested, BroadcastRequested, Batched, vars
    <2> QED BY <2>1, <2>2
  <1> QED BY <1>1, <1>2

(* The steps of the handlers and of the tracker.                           *)
RowStep(r) ==
    \/ \E kind \in Kinds, chunks \in ChunkNos : SwapRequested(r, kind, chunks)
    \/ \E reason \in Reasons : SwapEgressIgnored(r, reason) \/ RefundEgressIgnored(r, reason)
    \/ CreditedOnChain(r) \/ RefundedOnChain(r) \/ SwapRequestCompleted(r)
ChunkStep(r, n) ==
    \/ SwapScheduled(r, n) \/ SwapRescheduled(r, n) \/ SwapAborted(r, n)
    \/ \E output \in 1 .. MaxOutput : SwapExecuted(r, n, output)

LEMMA Steps ==
  ASSUME [Next]_vars
  PROVE  \/ \E r \in Requests : RowStep(r)
         \/ \E r \in Requests, n \in ChunkNos : ChunkStep(r, n)
         \/ \E r \in Requests : SwapEgressScheduled(r) \/ RefundEgressScheduled(r)
         \/ \E b \in Broadcasts : \E rows : rows \subseteq Sendable(b[1]) /\ Batched(b, rows)
         \/ \E b \in Broadcasts, how \in {"succeeded", "aborted"} : BroadcastEnds(b, how)
         \/ \E b \in Broadcasts : TransferFallbackRequested(b)
         \/ \E b \in Broadcasts : TrackerSees(b) \/ TrackerForgets(b)
         \/ UNCHANGED vars
  <1>1. ASSUME NEW r \in Requests, RequestEvent(r)
        PROVE  \/ RowStep(r) \/ \E n \in ChunkNos : ChunkStep(r, n)
               \/ SwapEgressScheduled(r) \/ RefundEgressScheduled(r)
    BY <1>1 DEF RequestEvent, RowStep, ChunkStep
  <1>2. ASSUME NEW b \in Broadcasts, BroadcastEvent(b)
        PROVE  \/ \E rows : rows \subseteq Sendable(b[1]) /\ Batched(b, rows)
               \/ \E how \in {"succeeded", "aborted"} : BroadcastEnds(b, how)
               \/ TransferFallbackRequested(b)
               \/ UNCHANGED vars
    <2>1. ASSUME NEW ids \in SUBSET (Sendable(b[1]) \cup {Other}), BatchBroadcastRequested(b, ids)
          PROVE  UNCHANGED vars \/ \E rows : rows \subseteq Sendable(b[1]) /\ Batched(b, rows)
      BY <2>1, RequestedIsBatched
    <2>2. ASSUME NEW e \in Sendable(b[1]), CcmBroadcastRequested(b, e)
          PROVE  UNCHANGED vars \/ \E rows : rows \subseteq Sendable(b[1]) /\ Batched(b, rows)
      BY <2>2, RequestedIsBatched
    <2> QED BY <1>2, <2>1, <2>2 DEF BroadcastEvent, BroadcastSuccess, BroadcastAborted
  <1> QED BY <1>1, <1>2 DEF Next

(* A row step writes one request row and nothing else but the quote, or it *)
(* throws.  Columns that were written stay, and a completed row is final.  *)
RowWritten(r, row) ==
    /\ row \in RequestRows
    /\ request' = [request EXCEPT ![r] = row]
    /\ UNCHANGED <<swap, egress, broadcast, tracked, fellBack, stuck>>
    /\ request[r] # None =>
          /\ ~request[r].completed
          /\ row.chunks = request[r].chunks /\ row.kind = request[r].kind
          /\ request[r].ignored \subseteq row.ignored
Thrown == stuck' = TRUE /\ UNCHANGED <<request, swap, egress, broadcast, quote, tracked, fellBack>>

LEMMA OutputIsNat ==
  ASSUME Types, NEW r \in Requests PROVE Output(r) \in Nat
  <1> DEFINE U == {u \in Executed(r) \X (1 .. MaxOutput) : u[2] <= swap[<<r, u[1]>>].output}
  <1>1. IsFiniteSet(ChunkNos) /\ IsFiniteSet(1 .. MaxOutput)
    BY FS_Interval, LifecycleAssumption DEF ChunkNos
  <1>2. Executed(r) \in SUBSET ChunkNos
    BY DEF Executed, InStatus, Chunks
  <1>3. IsFiniteSet(Executed(r))
    BY <1>1, <1>2, FS_Subset
  <1>4. IsFiniteSet(Executed(r) \X (1 .. MaxOutput))
    BY <1>1, <1>3, FS_Product
  <1>5. IsFiniteSet(U)
    BY <1>4, FS_Subset
  <1> QED BY <1>5, FS_CardinalityType DEF Output

LEMMA RequestWritten ==
  ASSUME NEW r, NEW kind \in Kinds, NEW chunks \in ChunkNos, SwapRequested(r, kind, chunks)
  PROVE  \E row : /\ RowWritten(r, row) /\ request[r] = None /\ ~row.completed
                  /\ row.refundAmount = None /\ ~row.refunded /\ UNCHANGED quote
                  /\ row.ignored = {}
  <1> DEFINE row == [kind |-> kind, chunks |-> chunks, completed |-> FALSE, output |-> None,
                     ignored |-> {}, credited |-> FALSE, refunded |-> FALSE, refundAmount |-> None]
  <1>1. row \in RequestRows
    BY DEF RequestRows
  <1>2. ~row.completed /\ row.refundAmount = None /\ ~row.refunded /\ row.ignored = {}
    OBVIOUS
  <1>3. /\ request' = [request EXCEPT ![r] = row] /\ request[r] = None
        /\ UNCHANGED <<swap, egress, broadcast, quote, tracked, fellBack, stuck>>
    BY DEF SwapRequested
  <1> HIDE DEF row
  <1>4. RowWritten(r, row)
    BY <1>1, <1>3 DEF RowWritten
  <1> QED BY <1>2, <1>3, <1>4

LEMMA IgnoredWritten ==
  ASSUME Types, NEW r \in Requests, NEW reason \in Reasons,
         SwapEgressIgnored(r, reason) \/ RefundEgressIgnored(r, reason)
  PROVE  \/ /\ Thrown /\ IsOpen(r)
            /\ \/ request[r].ignored # {} /\ (OwesOutput(r) \/ OwesRefund(r))
               \/ reason # "Module" /\ OwesRefund(r)
         \/ \E row : /\ RowWritten(r, row) /\ IsOpen(r) /\ UNCHANGED quote
                     /\ row.completed = request[r].completed
                     /\ row.refundAmount = request[r].refundAmount
                     /\ row.refunded = request[r].refunded
                     /\ row.ignored # {}
  <1>0. IsOpen(r) /\ (OwesOutput(r) \/ OwesRefund(r))
    BY DEF SwapEgressIgnored, RefundEgressIgnored, OwesOutput, OwesRefund
  <1>1. CASE /\ RefundEgressIgnored(r, reason) /\ reason # "Module"
    BY <1>0, <1>1 DEF RefundEgressIgnored, Throws, Thrown
  <1>2. CASE ~(RefundEgressIgnored(r, reason) /\ reason # "Module")
    <2>1. PICK type \in {"SWAP", "REFUND"} : EgressIgnored(r, type)
      BY <1>2 DEF SwapEgressIgnored, RefundEgressIgnored
    <2>2. CASE ~IgnoresOnce(r)
      BY <1>0, <2>1, <2>2 DEF EgressIgnored, IgnoresOnce, Throws, Thrown
    <2>3. CASE IgnoresOnce(r)
      <3> DEFINE row == [request[r] EXCEPT !.ignored = @ \cup {type}]
      <3>1. request[r] \in RequestRows
        BY <1>0 DEF IsOpen, Types
      <3>2. row \in RequestRows /\ row.ignored = request[r].ignored \cup {type}
        BY <3>1 DEF RequestRows, IgnoredTypes
      <3>3. /\ row.completed = request[r].completed /\ row.chunks = request[r].chunks
            /\ row.kind = request[r].kind /\ row.refunded = request[r].refunded
            /\ row.refundAmount = request[r].refundAmount
        BY <3>1 DEF RequestRows
      <3>4. /\ request' = [request EXCEPT ![r] = row]
            /\ UNCHANGED <<swap, egress, broadcast, quote, tracked, fellBack, stuck>>
        BY <2>1, <2>3 DEF EgressIgnored, IgnoresOnce, Types
      <3> HIDE DEF row
      <3>5. RowWritten(r, row)
        BY <1>0, <3>2, <3>3, <3>4 DEF RowWritten, IsOpen
      <3> QED BY <1>0, <3>2, <3>3, <3>4, <3>5
    <2> QED BY <2>2, <2>3
  <1> QED BY <1>1, <1>2

LEMMA CreditWritten ==
  ASSUME Types, NEW r \in Requests, CreditedOnChain(r) \/ RefundedOnChain(r)
  PROVE  \E row : /\ RowWritten(r, row) /\ IsOpen(r) /\ UNCHANGED quote
                  /\ row.completed = request[r].completed
                  /\ row.refundAmount = request[r].refundAmount
                  /\ row.refunded => request[r].refunded \/ row.kind = "onChain"
                  /\ row.ignored = request[r].ignored
  <1> DEFINE row == IF CreditedOnChain(r) THEN [request[r] EXCEPT !.credited = TRUE]
                    ELSE [request[r] EXCEPT !.refunded = TRUE]
  <1>1. IsOpen(r) /\ request[r].kind = "onChain"
    BY DEF CreditedOnChain, RefundedOnChain, OwesOutput, OwesRefund
  <1>2. request[r] \in RequestRows
    BY <1>1 DEF IsOpen, Types
  <1>3. row \in RequestRows
    BY <1>2 DEF RequestRows
  <1>4. /\ row.completed = request[r].completed /\ row.chunks = request[r].chunks
        /\ row.kind = request[r].kind /\ row.refundAmount = request[r].refundAmount
        /\ row.ignored = request[r].ignored
    BY <1>2 DEF RequestRows
  <1>5. request' = [request EXCEPT ![r] = row]
    BY DEF CreditedOnChain, RefundedOnChain, Types
  <1>6. UNCHANGED <<swap, egress, broadcast, quote, tracked, fellBack, stuck>>
    BY DEF CreditedOnChain, RefundedOnChain
  <1> HIDE DEF row
  <1>7. RowWritten(r, row)
    BY <1>1, <1>3, <1>4, <1>5, <1>6 DEF RowWritten, IsOpen
  <1> QED BY <1>1, <1>4, <1>6, <1>7

LEMMA CompletionWritten ==
  ASSUME Types, NEW r \in Requests, SwapRequestCompleted(r)
  PROVE  \E row : /\ RowWritten(r, row) /\ IsOpen(r) /\ quote' = QuoteAtCompletion(r)
                  /\ Chunks(r) # {} /\ Settled(r) /\ row.completed
                  /\ row.refundAmount = IF request[r].kind = "liquidation"
                                        THEN LiquidationRefund(r) ELSE None
                  /\ row.refunded = request[r].refunded /\ row.ignored = request[r].ignored
  <1> DEFINE amount == IF request[r].kind = "liquidation" THEN LiquidationRefund(r) ELSE None
             row == [request[r] EXCEPT !.completed = TRUE, !.output = Output(r),
                                       !.refundAmount = amount]
  <1>1. IsOpen(r) /\ Chunks(r) # {} /\ Settled(r) /\ quote' = QuoteAtCompletion(r)
    BY DEF SwapRequestCompleted
  <1>2. request[r] \in RequestRows
    BY <1>1 DEF IsOpen, Types
  <1>3. amount \in Int \cup {None}
    <2>1. InputOf(r) \in Int
      BY <1>2, LifecycleAssumption DEF InputOf, RequestRows, ChunkNos
    <2>2. IsFiniteSet(ChunkNos) /\ Chunks(r) \in SUBSET ChunkNos
      BY FS_Interval, LifecycleAssumption DEF ChunkNos, Chunks
    <2>3. Cardinality(Chunks(r)) \in Nat
      BY <2>2, FS_Subset, FS_CardinalityType
    <2> QED BY <2>1, <2>3 DEF LiquidationRefund
  <1>4. Output(r) \in Nat
    BY OutputIsNat
  <1> HIDE DEF amount
  <1>5. row \in RequestRows
    BY <1>2, <1>3, <1>4 DEF RequestRows
  <1>6. /\ row.completed /\ row.chunks = request[r].chunks /\ row.kind = request[r].kind
        /\ row.refundAmount = amount /\ row.ignored = request[r].ignored
        /\ row.refunded = request[r].refunded
    BY <1>2 DEF RequestRows
  <1>7. request' = [request EXCEPT ![r] = row]
    BY DEF SwapRequestCompleted, Types, amount
  <1>8. UNCHANGED <<swap, egress, broadcast, tracked, fellBack, stuck>>
    BY DEF SwapRequestCompleted
  <1> HIDE DEF row
  <1>9. RowWritten(r, row)
    BY <1>1, <1>5, <1>6, <1>7, <1>8 DEF RowWritten, IsOpen
  <1> QED BY <1>1, <1>6, <1>9 DEF amount

LEMMA RowStepWrites ==
  ASSUME Types, NEW r \in Requests, RowStep(r)
  PROVE  Thrown \/ \E row : RowWritten(r, row)
  BY RequestWritten, IgnoredWritten, CreditWritten, CompletionWritten DEF RowStep

(* A chunk step writes the row of one chunk of an open request: that of    *)
(* its next chunk, or of one that is scheduled.                            *)
ChunkWritten(r, n, row) ==
    /\ row \in SwapRows
    /\ swap' = [swap EXCEPT ![<<r, n>>] = row]
    /\ UNCHANGED <<request, egress, broadcast, quote, tracked, fellBack, stuck>>
    /\ IsOpen(r) /\ ~Settling(r)
    /\ \/ /\ swap[<<r, n>>] = None /\ row.status = "scheduled"
          /\ n \in AllChunks(r) \ Chunks(r) /\ Chunks(r) = 1 .. n - 1
          /\ Cardinality(InStatus(r, "scheduled")) < 2 /\ InStatus(r, "aborted") = {}
       \/ swap[<<r, n>>] # None /\ swap[<<r, n>>].status = "scheduled"

LEMMA ChunkStepWrites ==
  ASSUME Types, NEW r \in Requests, NEW n \in ChunkNos, ChunkStep(r, n)
  PROVE  \E row : ChunkWritten(r, n, row)
  <1> DEFINE old == swap[<<r, n>>]
  <1>0. old \in SwapRows \cup {None}
    BY DEF Types
  <1>1. CASE SwapScheduled(r, n)
    <2> DEFINE row == [status |-> "scheduled", retries |-> 0, rescheduled |-> FALSE, output |-> 0]
    <2>1. row \in SwapRows /\ row.status = "scheduled"
      BY LifecycleAssumption DEF SwapRows
    <2>2. swap[<<r, n>>] = None
      BY <1>1 DEF SwapScheduled, Chunks
    <2> QED BY <1>1, <2>1, <2>2 DEF SwapScheduled, ChunkWritten
  <1>2. CASE ~SwapScheduled(r, n)
    <2>1. /\ IsOpen(r) /\ ~Settling(r) /\ old # None /\ old.status = "scheduled"
          /\ UNCHANGED <<request, egress, broadcast, quote, tracked, fellBack, stuck>>
      BY <1>2 DEF ChunkStep, SwapRescheduled, SwapExecuted, SwapAborted, InStatus, Chunks
    <2>2. old \in SwapRows
      BY <1>0, <2>1
    <2>3. CASE SwapRescheduled(r, n)
      <3> DEFINE again == old.retries + 1
                 row == [old EXCEPT !.retries = again, !.rescheduled = TRUE]
      <3>1. again \in 0 .. MaxRetries
        <4>1. old.retries < MaxRetries
          BY <2>3 DEF SwapRescheduled
        <4>2. old.retries \in 0 .. MaxRetries
          BY <2>2 DEF SwapRows
        <4> QED BY <4>1, <4>2, LifecycleAssumption
      <3>2. swap' = [swap EXCEPT ![<<r, n>>] = row]
        BY <2>2, <2>3 DEF SwapRescheduled, Types, SwapRows
      <3> HIDE DEF again
      <3>3. row \in SwapRows
        BY <2>2, <3>1 DEF SwapRows
      <3> HIDE DEF row
      <3> QED BY <2>1, <3>2, <3>3 DEF ChunkWritten
    <2>4. CASE SwapAborted(r, n)
      <3> DEFINE row == [old EXCEPT !.status = "aborted"]
      <3>2. row \in SwapRows
        BY <2>2 DEF SwapRows
      <3>3. swap' = [swap EXCEPT ![<<r, n>>] = row]
        BY <2>2, <2>4 DEF SwapAborted, Types, SwapRows
      <3> HIDE DEF row
      <3> QED BY <2>1, <3>2, <3>3 DEF ChunkWritten
    <2>5. ASSUME NEW output \in 1 .. MaxOutput, SwapExecuted(r, n, output)
          PROVE  \E row : ChunkWritten(r, n, row)
      <3> DEFINE row == [old EXCEPT !.status = "executed", !.output = output, !.rescheduled = FALSE]
      <3>1. output \in 0 .. MaxOutput
        BY LifecycleAssumption
      <3>2. row \in SwapRows
        BY <2>2, <3>1 DEF SwapRows
      <3>3. swap' = [swap EXCEPT ![<<r, n>>] = row]
        BY <2>2, <2>5 DEF SwapExecuted, Types, SwapRows
      <3> HIDE DEF row
      <3> QED BY <2>1, <3>2, <3>3 DEF ChunkWritten
    <2> QED BY <1>2, <2>3, <2>4, <2>5 DEF ChunkStep
  <1> QED BY <1>1, <1>2

(* The event of an egress inserts its row.                                 *)
EgressWritten(r, role) ==
    /\ role \in {"swap", "refund"} /\ ~Has(r, role) /\ IsOpen(r)
    /\ egress' = [egress EXCEPT ![<<r, role>>] = Unsent]
    /\ UNCHANGED <<request, swap, broadcast, quote, tracked, fellBack, stuck>>

LEMMA EgressStepWrites ==
  ASSUME NEW r \in Requests, SwapEgressScheduled(r) \/ RefundEgressScheduled(r)
  PROVE  \E role : EgressWritten(r, role)
  BY DEF SwapEgressScheduled, RefundEgressScheduled, EgressScheduled, EgressWritten,
         OwesOutput, OwesRefund

(* A fallback inserts a row for the egress of a swap or of a refund that   *)
(* was alone in its broadcast, or none.                                    *)
FallbackWritten(b, e) ==
    /\ e \in Carried(b) /\ Cardinality(Carried(b)) = 1 /\ e[2] \in {"swap", "refund"}
    /\ egress' = [egress EXCEPT ![<<e[1], FallbackRole(e[2])>>] = Unsent]
NoFallback(b) ==
    /\ UNCHANGED egress
    /\ Cardinality(Carried(b)) = 1 => \E e \in Carried(b) : e[2] \notin {"swap", "refund"}

LEMMA FallbackWrites ==
  ASSUME NEW b \in Broadcasts, TransferFallbackRequested(b)
  PROVE  /\ broadcast[b] \in {"requested", "succeeded"} /\ b \notin fellBack
         /\ fellBack' = fellBack \cup {b}
         /\ UNCHANGED <<request, swap, broadcast, quote, tracked, stuck>>
         /\ NoFallback(b) \/ \E e : FallbackWritten(b, e)
  BY DEF TransferFallbackRequested, NoFallback, FallbackWritten

(* Types is inductive.                                                     *)
LEMMA TypesStep ==
  ASSUME Types, [Next]_vars PROVE Types'
  <1>1. ASSUME NEW r \in Requests, RowStep(r) PROVE Types'
    BY <1>1, RowStepWrites DEF Types, RowWritten, Thrown
  <1>2. ASSUME NEW r \in Requests, NEW n \in ChunkNos, ChunkStep(r, n) PROVE Types'
    BY <1>2, ChunkStepWrites DEF Types, ChunkWritten
  <1>3. ASSUME NEW r \in Requests, SwapEgressScheduled(r) \/ RefundEgressScheduled(r)
        PROVE  Types'
    <2>1. PICK role : EgressWritten(r, role)
      BY <1>3, EgressStepWrites
    <2> QED BY <2>1 DEF Types, EgressWritten
  <1>4. ASSUME NEW b \in Broadcasts, NEW rows, rows \subseteq Sendable(b[1]), Batched(b, rows)
        PROVE  Types'
    BY <1>4 DEF Types, Batched, BroadcastStates
  <1>5. ASSUME NEW b \in Broadcasts, NEW how \in {"succeeded", "aborted"}, BroadcastEnds(b, how)
        PROVE  Types'
    BY <1>5 DEF Types, BroadcastEnds, BroadcastStates
  <1>6. ASSUME NEW b \in Broadcasts, TransferFallbackRequested(b) PROVE Types'
    <2>0. /\ fellBack' = fellBack \cup {b} /\ UNCHANGED <<request, swap, broadcast, tracked, stuck>>
          /\ NoFallback(b) \/ \E e : FallbackWritten(b, e)
      BY <1>6, FallbackWrites
    <2>1. /\ fellBack' \subseteq Broadcasts /\ UNCHANGED <<request, swap, broadcast, tracked, stuck>>
          /\ UNCHANGED egress \/ \E e : egress' = [egress EXCEPT ![e] = Unsent]
      <3>1. fellBack' \subseteq Broadcasts
        BY <2>0 DEF Types
      <3>2. UNCHANGED egress \/ \E e : egress' = [egress EXCEPT ![e] = Unsent]
        BY <2>0, Zenon DEF NoFallback, FallbackWritten
      <3> QED BY <2>0, <3>1, <3>2
    <2>2. egress' \in [Egresses -> Broadcasts \cup {None, Unsent}]
      <3>1. ASSUME NEW e, egress' = [egress EXCEPT ![e] = Unsent]
            PROVE  egress' \in [Egresses -> Broadcasts \cup {None, Unsent}]
        BY <3>1 DEF Types
      <3> QED BY <2>1, <3>1 DEF Types
    <2> QED BY <2>1, <2>2 DEF Types
  <1>7. ASSUME NEW b \in Broadcasts, TrackerSees(b) \/ TrackerForgets(b) PROVE Types'
    BY <1>7 DEF Types, TrackerSees, TrackerForgets
  <1>8. CASE UNCHANGED vars
    BY <1>8 DEF Types, vars
  <1> QED BY <1>1, <1>2, <1>3, <1>4, <1>5, <1>6, <1>7, <1>8, Steps

----------------------------------------------------------------------------
(* What was written stays.                                                 *)

(* A request row keeps its columns, and is final once it is completed.     *)
LEMMA RequestStays ==
  ASSUME Types, [Next]_vars, NEW r \in Requests, request[r] # None
  PROVE  /\ request'[r] # None
         /\ request'[r].kind = request[r].kind /\ request'[r].chunks = request[r].chunks
         /\ request[r].ignored \subseteq request'[r].ignored
         /\ request[r].completed => request'[r] = request[r]
  <1>1. ASSUME NEW q \in Requests, RowStep(q)
        PROVE  UNCHANGED request \/ \E row : RowWritten(q, row)
    BY <1>1, RowStepWrites DEF Thrown
  <1>2. CASE UNCHANGED request
    BY <1>2
  <1>3. ASSUME NEW q \in Requests, NEW row, RowWritten(q, row)
        PROVE  /\ request'[r] # None
               /\ request'[r].kind = request[r].kind /\ request'[r].chunks = request[r].chunks
               /\ request[r].ignored \subseteq request'[r].ignored
               /\ request[r].completed => request'[r] = request[r]
    <2>1. CASE q = r
      BY <1>3, <2>1, NoneAssumption DEF RowWritten, Types
    <2>2. CASE q # r
      BY <1>3, <2>2 DEF RowWritten, Types
    <2> QED BY <2>1, <2>2
  <1>4. ASSUME NEW q \in Requests, NEW n \in ChunkNos, ChunkStep(q, n) PROVE UNCHANGED request
    BY <1>4, ChunkStepWrites DEF ChunkWritten
  <1>5. ASSUME NEW q \in Requests, SwapEgressScheduled(q) \/ RefundEgressScheduled(q)
        PROVE  UNCHANGED request
    BY <1>5, EgressStepWrites DEF EgressWritten
  <1>6. ASSUME NEW b \in Broadcasts, TransferFallbackRequested(b) PROVE UNCHANGED request
    BY <1>6, FallbackWrites
  <1> QED BY <1>1, <1>2, <1>3, <1>4, <1>5, <1>6, Steps
          DEF Batched, BroadcastEnds, TrackerSees, TrackerForgets, vars

(* A chunk row changes by a step of its own, while its request is open;    *)
(* once executed it stays as it is.                                        *)
LEMMA OnlyChunkSteps ==
  ASSUME Types, [Next]_vars, NEW r \in Requests, NEW n \in ChunkNos,
         swap'[<<r, n>>] # swap[<<r, n>>]
  PROVE  \E row : ChunkWritten(r, n, row)
  <1>1. ASSUME NEW q \in Requests, RowStep(q) PROVE UNCHANGED swap
    BY <1>1, RowStepWrites DEF Thrown, RowWritten
  <1>2. ASSUME NEW q \in Requests, NEW m \in ChunkNos, ChunkStep(q, m)
        PROVE  \E row : ChunkWritten(r, n, row)
    <2>1. PICK row : ChunkWritten(q, m, row)
      BY <1>2, ChunkStepWrites
    <2>2. CASE <<q, m>> = <<r, n>>
      BY <2>1, <2>2
    <2>3. CASE <<q, m>> # <<r, n>>
      BY <2>1, <2>3 DEF ChunkWritten, Types
    <2> QED BY <2>2, <2>3
  <1>3. ASSUME NEW q \in Requests, SwapEgressScheduled(q) \/ RefundEgressScheduled(q)
        PROVE  UNCHANGED swap
    BY <1>3, EgressStepWrites DEF EgressWritten
  <1>4. ASSUME NEW b \in Broadcasts, TransferFallbackRequested(b) PROVE UNCHANGED swap
    BY <1>4, FallbackWrites
  <1> QED BY <1>1, <1>2, <1>3, <1>4, Steps
          DEF Batched, BroadcastEnds, TrackerSees, TrackerForgets, vars

LEMMA ChunksStay ==
  ASSUME Types, [Next]_vars, NEW r \in Requests, NEW n \in ChunkNos
  PROVE  /\ swap[<<r, n>>] # None =>
               /\ swap'[<<r, n>>] # None
               /\ swap[<<r, n>>].status = "executed" => swap'[<<r, n>>] = swap[<<r, n>>]
         /\ ~IsOpen(r) => swap'[<<r, n>>] = swap[<<r, n>>]
  <1>1. CASE swap'[<<r, n>>] = swap[<<r, n>>]
    BY <1>1
  <1>2. CASE swap'[<<r, n>>] # swap[<<r, n>>]
    <2>1. PICK row : ChunkWritten(r, n, row)
      BY <1>2, OnlyChunkSteps
    <2> QED BY <2>1, NoneAssumption DEF ChunkWritten, Types
  <1> QED BY <1>1, <1>2

(* A fallback row is new.                                                  *)
LEMMA FallbackIsNew ==
  ASSUME Types, FallbackFollows, NEW b \in Broadcasts, b \notin fellBack, NEW e, FallbackWritten(b, e)
  PROVE  /\ e \in Egresses /\ egress[e] = b
         /\ <<e[1], FallbackRole(e[2])>> \in Egresses /\ egress[<<e[1], FallbackRole(e[2])>>] = None
         /\ FallbackOf(FallbackRole(e[2])) = e[2]
         /\ FallbackRole(e[2]) \in {"fallback", "fallbackRefund"}
  <1> DEFINE role == FallbackRole(e[2])
  <1>1. e \in Egresses /\ egress[e] = b /\ e[2] \in {"swap", "refund"}
    BY DEF FallbackWritten, Carried
  <1>2. e[1] \in Requests /\ e = <<e[1], e[2]>>
    BY <1>1, EgressPairs
  <1>3. role \in {"fallback", "fallbackRefund"} /\ FallbackOf(role) = e[2] /\ role \in Roles
    BY <1>1, RoleNames
  <1> HIDE DEF role
  <1>4. <<e[1], role>> \in Egresses
    BY <1>2, <1>3, EgressPairs
  <1>5. ASSUME egress[<<e[1], role>>] # None PROVE FALSE
    <2>1. egress[<<e[1], FallbackOf(role)>>] \in fellBack
      BY <1>2, <1>3, <1>5 DEF FallbackFollows, Has
    <2>2. egress[e] \in fellBack
      BY <1>2, <1>3, <2>1
    <2> QED BY <1>1, <2>2
  <1> QED BY <1>1, <1>3, <1>4, <1>5 DEF role

(* An egress row stays, and with it the broadcast it is in.                *)
LEMMA EgressStays ==
  ASSUME Types, FallbackFollows, [Next]_vars, NEW e \in Egresses
  PROVE  /\ egress[e] # None => egress'[e] # None
         /\ egress[e] \in Broadcasts => egress'[e] = egress[e]
         /\ egress'[e] # egress[e] =>
               \/ egress[e] = None /\ egress'[e] = Unsent
               \/ /\ egress[e] = Unsent /\ egress'[e] \in Broadcasts
                  /\ broadcast[egress'[e]] = None /\ broadcast'[egress'[e]] = "requested"
                  /\ egress'[e][1] = ChainOf(e[2]) /\ request[e[1]].completed
  <1> DEFINE Q == /\ egress[e] # None => egress'[e] # None
                  /\ egress[e] \in Broadcasts => egress'[e] = egress[e]
                  /\ egress'[e] # egress[e] =>
                        \/ egress[e] = None /\ egress'[e] = Unsent
                        \/ /\ egress[e] = Unsent /\ egress'[e] \in Broadcasts
                           /\ broadcast[egress'[e]] = None /\ broadcast'[egress'[e]] = "requested"
                           /\ egress'[e][1] = ChainOf(e[2]) /\ request[e[1]].completed
  <1>1. CASE UNCHANGED egress
    BY <1>1
  <1>2. ASSUME NEW d \in Egresses, egress[d] = None, egress' = [egress EXCEPT ![d] = Unsent]
        PROVE  Q
    BY <1>2, NoneAssumption DEF Types
  <1>3. ASSUME NEW r \in Requests, SwapEgressScheduled(r) \/ RefundEgressScheduled(r) PROVE Q
    <2>1. PICK role : EgressWritten(r, role)
      BY <1>3, EgressStepWrites
    <2>2. <<r, role>> \in Egresses
      BY <2>1, RoleNames, EgressPairs DEF EgressWritten
    <2> QED BY <1>2, <2>1, <2>2 DEF EgressWritten, Has
  <1>4. ASSUME NEW b \in Broadcasts, NEW rows, rows \subseteq Sendable(b[1]), Batched(b, rows)
        PROVE  Q
    <2>1. egress'[e] = IF e \in rows THEN b ELSE egress[e]
      BY <1>4 DEF Batched
    <2>2. CASE e \in rows
      <3>1. /\ ChainOf(e[2]) = b[1] /\ egress[e] = Unsent /\ request[e[1]].completed
        BY <1>4, <2>2 DEF Sendable
      <3>2. broadcast'[b] = "requested" /\ broadcast[b] = None
        BY <1>4 DEF Batched, Types
      <3> QED BY <2>1, <2>2, <3>1, <3>2, NoneAssumption
    <2> QED BY <2>1, <2>2
  <1>5. ASSUME NEW b \in Broadcasts, TransferFallbackRequested(b) PROVE Q
    <2>1. b \notin fellBack /\ (UNCHANGED egress \/ \E d : FallbackWritten(b, d))
      BY <1>5, FallbackWrites DEF NoFallback
    <2>2. ASSUME NEW d, FallbackWritten(b, d) PROVE Q
      <3> DEFINE new == <<d[1], FallbackRole(d[2])>>
      <3>1. new \in Egresses /\ egress[new] = None
        BY <2>1, <2>2, FallbackIsNew
      <3>2. egress' = [egress EXCEPT ![new] = Unsent]
        BY <2>2 DEF FallbackWritten
      <3> HIDE DEF new
      <3> QED BY <1>2, <3>1, <3>2
    <2> QED BY <1>1, <2>1, <2>2
  <1>6. ASSUME NEW r \in Requests, RowStep(r) PROVE UNCHANGED egress
    BY <1>6, RowStepWrites DEF Thrown, RowWritten
  <1>7. ASSUME NEW r \in Requests, NEW n \in ChunkNos, ChunkStep(r, n) PROVE UNCHANGED egress
    BY <1>7, ChunkStepWrites DEF ChunkWritten
  <1> HIDE DEF Q
  <1>8. Q
    BY <1>1, <1>3, <1>4, <1>5, <1>6, <1>7, Steps DEF BroadcastEnds, TrackerSees, TrackerForgets, vars, Q
  <1> QED BY <1>8 DEF Q

(* A broadcast row stays, ends once, and carries what it carried.          *)
LEMMA BroadcastStays ==
  ASSUME Types, FallbackFollows, SentWhenCompleted, [Next]_vars, NEW b \in Broadcasts, broadcast[b] # None
  PROVE  /\ broadcast'[b] # None
         /\ broadcast[b] # "requested" => broadcast'[b] = broadcast[b]
         /\ Carried(b)' = Carried(b)
  <1>1. /\ broadcast'[b] # None
        /\ broadcast[b] # "requested" => broadcast'[b] = broadcast[b]
    <2>1. CASE UNCHANGED broadcast
      BY <2>1
    <2>2. ASSUME NEW c \in Broadcasts, NEW rows, Batched(c, rows)
          PROVE  broadcast'[b] = broadcast[b]
      BY <2>2 DEF Batched, Types
    <2>3. ASSUME NEW c \in Broadcasts, NEW how \in {"succeeded", "aborted"}, BroadcastEnds(c, how)
          PROVE  /\ broadcast'[b] # None
                 /\ broadcast[b] # "requested" => broadcast'[b] = broadcast[b]
      BY <2>3, NoneAssumption DEF BroadcastEnds, Types, BroadcastStates
    <2>4. ASSUME NEW r \in Requests, RowStep(r) PROVE UNCHANGED broadcast
      BY <2>4, RowStepWrites DEF Thrown, RowWritten
    <2>5. ASSUME NEW r \in Requests, NEW n \in ChunkNos, ChunkStep(r, n) PROVE UNCHANGED broadcast
      BY <2>5, ChunkStepWrites DEF ChunkWritten
    <2>6. ASSUME NEW r \in Requests, SwapEgressScheduled(r) \/ RefundEgressScheduled(r)
          PROVE  UNCHANGED broadcast
      BY <2>6, EgressStepWrites DEF EgressWritten
    <2>7. ASSUME NEW c \in Broadcasts, TransferFallbackRequested(c) PROVE UNCHANGED broadcast
      BY <2>7, FallbackWrites
    <2> QED BY <2>1, <2>2, <2>3, <2>4, <2>5, <2>6, <2>7, Steps DEF TrackerSees, TrackerForgets, vars
  <1>2. ASSUME NEW e \in Egresses PROVE egress'[e] = b <=> egress[e] = b
    BY EgressStays, NoneAssumption
  <1>3. Carried(b)' = {e \in Egresses : egress'[e] = b}
    BY DEF Carried
  <1> QED BY <1>1, <1>2, <1>3 DEF Carried

----------------------------------------------------------------------------
(* The conjuncts of the invariant are inductive.                           *)

LEMMA ChunksInOrderStep ==
  ASSUME Types, ChunksInOrder, [Next]_vars PROVE ChunksInOrder'
  <1> SUFFICES ASSUME NEW r \in Requests, NEW n \in ChunkNos, swap'[<<r, n>>] # None
               PROVE  /\ request'[r] # None /\ n <= request'[r].chunks
                      /\ \A m \in 1 .. n : swap'[<<r, m>>] # None
    BY DEF ChunksInOrder
  <1>0. \A m \in 1 .. n : m \in ChunkNos
    BY LifecycleAssumption DEF ChunkNos
  <1>1. CASE swap[<<r, n>>] # None
    <2>1. /\ request[r] # None /\ n <= request[r].chunks
          /\ \A m \in 1 .. n : swap[<<r, m>>] # None
      BY <1>1 DEF ChunksInOrder
    <2>2. request'[r] # None /\ request'[r].chunks = request[r].chunks
      BY <2>1, RequestStays
    <2> QED BY <1>0, <2>1, <2>2, ChunksStay
  <1>2. CASE swap[<<r, n>>] = None
    <2>1. PICK row : ChunkWritten(r, n, row)
      BY <1>2, OnlyChunkSteps
    <2>2. /\ UNCHANGED request /\ request[r] # None
          /\ n \in AllChunks(r) /\ Chunks(r) = 1 .. n - 1
      BY <1>2, <2>1 DEF ChunkWritten, IsOpen
    <2>3. n <= request[r].chunks
      BY <2>2 DEF AllChunks
    <2>4. ASSUME NEW m \in 1 .. n PROVE swap'[<<r, m>>] # None
      <3>1. CASE m = n
        BY <3>1
      <3>2. CASE m # n
        <4>1. m \in 1 .. n - 1
          BY <3>2, LifecycleAssumption DEF ChunkNos
        <4>2. swap[<<r, m>>] # None
          BY <2>2, <4>1 DEF Chunks
        <4> QED BY <1>0, <4>2, ChunksStay
      <3> QED BY <3>1, <3>2
    <2> QED BY <2>2, <2>3, <2>4
  <1> QED BY <1>1, <1>2

(* A set with fewer than two elements.                                     *)
LEMMA AtMostOne ==
  ASSUME NEW S, IsFiniteSet(S), Cardinality(S) < 2, NEW x \in S, NEW y \in S
  PROVE  x = y
  <1>1. Cardinality(S) \in Nat /\ Cardinality(S) # 0
    BY FS_CardinalityType, FS_EmptySet
  <1>2. Cardinality(S) = 1
    BY <1>1
  <1>3. \E z : S = {z}
    BY <1>2, FS_Singleton, Zenon
  <1> QED BY <1>3

LEMMA ChunksFinite ==
  ASSUME NEW r \in Requests
  PROVE  /\ IsFiniteSet(ChunkNos) /\ ChunkNos \subseteq Nat
         /\ Chunks(r) \subseteq ChunkNos /\ Executed(r) \subseteq Chunks(r)
         /\ IsFiniteSet(Chunks(r)) /\ IsFiniteSet(Executed(r)) /\ IsFiniteSet(Open(r))
         /\ \A st : InStatus(r, st) \subseteq Chunks(r) /\ IsFiniteSet(InStatus(r, st))
  <1>1. IsFiniteSet(ChunkNos) /\ ChunkNos \subseteq Nat
    BY FS_Interval, LifecycleAssumption DEF ChunkNos
  <1>2. Chunks(r) \subseteq ChunkNos /\ \A st : InStatus(r, st) \subseteq Chunks(r)
    BY DEF Chunks, InStatus
  <1>3. Executed(r) \subseteq Chunks(r) /\ Open(r) \subseteq Chunks(r)
    BY <1>2 DEF Executed, Open
  <1>4. IsFiniteSet(Chunks(r))
    BY <1>1, <1>2, FS_Subset
  <1> QED BY <1>1, <1>2, <1>3, <1>4, FS_Subset

LEMMA TwoOpenStep ==
  ASSUME Types, TwoOpen, [Next]_vars PROVE TwoOpen'
  <1> SUFFICES ASSUME NEW r \in Requests,
                      NEW a \in Open(r)', NEW b \in Open(r)', NEW c \in Open(r)'
               PROVE  a = b \/ a = c \/ b = c
    BY DEF TwoOpen
  <1>1. ASSUME NEW n \in Open(r)'
        PROVE  /\ n \in ChunkNos /\ swap'[<<r, n>>] # None /\ swap'[<<r, n>>].status # "executed"
               /\ swap[<<r, n>>] # None => n \in Open(r)
    <2>1. n \in ChunkNos /\ swap'[<<r, n>>] # None /\ swap'[<<r, n>>].status # "executed"
      BY DEF Open, Chunks, Executed, InStatus
    <2>2. swap[<<r, n>>] # None => swap[<<r, n>>].status # "executed"
      BY <2>1, ChunksStay
    <2> QED BY <2>1, <2>2 DEF Open, Chunks, Executed, InStatus
  <1>2. CASE a \in Open(r) /\ b \in Open(r) /\ c \in Open(r)
    BY <1>2 DEF TwoOpen
  <1>3. ASSUME NEW n \in Open(r)', n \notin Open(r)
        PROVE  a = b \/ a = c \/ b = c
    <2>1. PICK row : ChunkWritten(r, n, row)
      BY <1>1, <1>3, OnlyChunkSteps
    <2>2. swap[<<r, n>>] = None
      BY <1>1, <1>3
    <2>3. Cardinality(InStatus(r, "scheduled")) < 2 /\ InStatus(r, "aborted") = {}
      BY <2>1, <2>2 DEF ChunkWritten
    <2>4. Open(r) \subseteq InStatus(r, "scheduled")
      BY <2>3 DEF Open, Chunks, Executed, InStatus, Types, SwapRows
    <2>5. \A x, y \in Open(r) : x = y
      BY <2>3, <2>4, AtMostOne, ChunksFinite
    <2>6. ASSUME NEW m \in Open(r)', m # n PROVE m \in Open(r)
      <3>1. <<r, m>> # <<r, n>>
        BY <2>6
      <3>2. swap'[<<r, m>>] = swap[<<r, m>>]
        BY <1>1, <2>1, <3>1 DEF ChunkWritten, Types
      <3> QED BY <1>1, <3>2
    <2> QED BY <2>5, <2>6
  <1> QED BY <1>2, <1>3

LEMMA EgressOfRequestStep ==
  ASSUME IInv, [Next]_vars PROVE EgressOfRequest'
  <1> SUFFICES ASSUME NEW e \in Egresses, egress'[e] # None PROVE request'[e[1]] # None
    BY DEF EgressOfRequest
  <1> USE DEF IInv
  <1>0. e[1] \in Requests
    BY EgressPairs
  <1>1. CASE egress[e] # None
    BY <1>0, <1>1, RequestStays DEF EgressOfRequest
  <1>2. CASE egress[e] = None
    <2> SUFFICES request[e[1]] # None
      BY <1>0, RequestStays
    <2>1. ASSUME NEW r \in Requests, SwapEgressScheduled(r) \/ RefundEgressScheduled(r)
          PROVE  request[e[1]] # None
      <3>1. PICK role : EgressWritten(r, role)
        BY <2>1, EgressStepWrites
      <3>2. e = <<r, role>>
        BY <1>2, <3>1 DEF EgressWritten, Types
      <3> QED BY <3>1, <3>2 DEF EgressWritten, IsOpen
    <2>2. ASSUME NEW b \in Broadcasts, TransferFallbackRequested(b) PROVE request[e[1]] # None
      <3>1. PICK d : FallbackWritten(b, d)
        BY <1>2, <2>2, FallbackWrites DEF NoFallback
      <3>2. d \in Egresses /\ egress[d] = b
        BY <3>1, <2>2, FallbackIsNew, FallbackWrites
      <3>3. e = <<d[1], FallbackRole(d[2])>>
        BY <1>2, <3>1 DEF FallbackWritten, Types
      <3>4. egress[d] # None
        BY <3>2, NoneAssumption
      <3> QED BY <3>2, <3>3, <3>4 DEF EgressOfRequest
    <2>3. ASSUME NEW b \in Broadcasts, NEW rows, rows \subseteq Sendable(b[1]), Batched(b, rows)
          PROVE  FALSE
      <3>1. e \in rows
        BY <1>2, <2>3 DEF Batched
      <3> QED BY <1>2, <2>3, <3>1, NoneAssumption DEF Sendable
    <2>4. ASSUME NEW r \in Requests, RowStep(r) PROVE FALSE
      BY <1>2, <2>4, RowStepWrites DEF Thrown, RowWritten
    <2>5. ASSUME NEW r \in Requests, NEW n \in ChunkNos, ChunkStep(r, n) PROVE FALSE
      BY <1>2, <2>5, ChunkStepWrites DEF ChunkWritten
    <2> QED BY <1>2, <2>1, <2>2, <2>3, <2>4, <2>5, Steps
            DEF BroadcastEnds, TrackerSees, TrackerForgets, vars
  <1> QED BY <1>1, <1>2

LEMMA SentWhenCompletedStep ==
  ASSUME IInv, [Next]_vars PROVE SentWhenCompleted'
  <1> SUFFICES ASSUME NEW e \in Egresses, egress'[e] \in Broadcasts
               PROVE  /\ broadcast'[egress'[e]] # None /\ egress'[e][1] = ChainOf(e[2])
                      /\ request'[e[1]].completed
    BY DEF SentWhenCompleted
  <1> USE DEF IInv
  <1>0. e[1] \in Requests /\ request[e[1]] # None
    <2>1. egress[e] # None
      BY EgressStays, NoneAssumption
    <2> QED BY <2>1, EgressPairs DEF EgressOfRequest
  <1>1. CASE egress'[e] = egress[e]
    BY <1>0, <1>1, BroadcastStays, RequestStays DEF SentWhenCompleted
  <1>2. CASE egress'[e] # egress[e]
    BY <1>0, <1>2, EgressStays, RequestStays, NoneAssumption DEF BroadcastStates
  <1> QED BY <1>1, <1>2

LEMMA NoEmptyBroadcastStep ==
  ASSUME IInv, [Next]_vars PROVE NoEmptyBroadcast'
  <1> SUFFICES ASSUME NEW b \in Broadcasts, broadcast'[b] # None PROVE Carried(b)' # {}
    BY DEF NoEmptyBroadcast
  <1> USE DEF IInv
  <1>1. CASE broadcast[b] # None
    BY <1>1, BroadcastStays DEF NoEmptyBroadcast
  <1>2. CASE broadcast[b] = None
    <2>1. PICK c, rows : c \in Broadcasts /\ rows \subseteq Sendable(c[1]) /\ Batched(c, rows)
      <3>1. ASSUME NEW r \in Requests, RowStep(r) PROVE FALSE
        BY <1>2, <3>1, RowStepWrites DEF Thrown, RowWritten
      <3>2. ASSUME NEW r \in Requests, NEW n \in ChunkNos, ChunkStep(r, n) PROVE FALSE
        BY <1>2, <3>2, ChunkStepWrites DEF ChunkWritten
      <3>3. ASSUME NEW r \in Requests, SwapEgressScheduled(r) \/ RefundEgressScheduled(r)
            PROVE  FALSE
        BY <1>2, <3>3, EgressStepWrites DEF EgressWritten
      <3>4. ASSUME NEW c \in Broadcasts, TransferFallbackRequested(c) PROVE FALSE
        BY <1>2, <3>4, FallbackWrites
      <3>5. ASSUME NEW c \in Broadcasts, NEW how \in {"succeeded", "aborted"}, BroadcastEnds(c, how)
            PROVE  FALSE
        BY <1>2, <3>5, NoneAssumption DEF BroadcastEnds, Types, BroadcastStates
      <3> QED BY <1>2, <3>1, <3>2, <3>3, <3>4, <3>5, Steps DEF TrackerSees, TrackerForgets, vars
    <2>2. b = c
      BY <1>2, <2>1 DEF Batched, Types
    <2>3. PICK e : e \in rows
      BY <2>1 DEF Batched
    <2>4. e \in Egresses /\ egress'[e] = b
      BY <2>1, <2>2, <2>3 DEF Batched, Sendable
    <2> QED BY <2>4 DEF Carried
  <1> QED BY <1>1, <1>2

(* Only a fallback adds to the broadcasts that fell back.                  *)
LEMMA OnlyFallbacks ==
  ASSUME Types, [Next]_vars
  PROVE  /\ fellBack \subseteq fellBack'
         /\ \A b \in fellBack' \ fellBack : b \in Broadcasts /\ TransferFallbackRequested(b)
  <1>1. ASSUME NEW r \in Requests, RowStep(r) PROVE UNCHANGED fellBack
    BY <1>1, RowStepWrites DEF Thrown, RowWritten
  <1>2. ASSUME NEW r \in Requests, NEW n \in ChunkNos, ChunkStep(r, n) PROVE UNCHANGED fellBack
    BY <1>2, ChunkStepWrites DEF ChunkWritten
  <1>3. ASSUME NEW r \in Requests, SwapEgressScheduled(r) \/ RefundEgressScheduled(r)
        PROVE  UNCHANGED fellBack
    BY <1>3, EgressStepWrites DEF EgressWritten
  <1>4. ASSUME NEW b \in Broadcasts, TransferFallbackRequested(b)
        PROVE  /\ fellBack \subseteq fellBack'
               /\ \A c \in fellBack' \ fellBack : c \in Broadcasts /\ TransferFallbackRequested(c)
    BY <1>4, FallbackWrites
  <1> QED BY <1>1, <1>2, <1>3, <1>4, Steps
          DEF Batched, BroadcastEnds, TrackerSees, TrackerForgets, vars

LEMMA FellBackWasSentStep ==
  ASSUME IInv, [Next]_vars PROVE FellBackWasSent'
  <1> SUFFICES ASSUME NEW b \in fellBack' PROVE broadcast'[b] # None
    BY DEF FellBackWasSent
  <1> USE DEF IInv
  <1>1. CASE b \in fellBack
    BY <1>1, BroadcastStays DEF FellBackWasSent, Types
  <1>2. CASE b \notin fellBack
    <2>1. b \in Broadcasts /\ TransferFallbackRequested(b)
      BY <1>2, OnlyFallbacks
    <2> QED BY <2>1, FallbackWrites, NoneAssumption DEF BroadcastStates
  <1> QED BY <1>1, <1>2

LEMMA FallbackFollowsStep ==
  ASSUME IInv, [Next]_vars PROVE FallbackFollows'
  <1> SUFFICES ASSUME NEW r \in Requests, NEW role \in {"fallback", "fallbackRefund"},
                      egress'[<<r, role>>] # None
               PROVE  egress'[<<r, FallbackOf(role)>>] \in fellBack'
    BY DEF FallbackFollows, Has
  <1> USE DEF IInv
  <1> DEFINE e == <<r, role>>
             of == <<r, FallbackOf(role)>>
  <1>0. e \in Egresses /\ of \in Egresses
    BY RoleNames, EgressPairs
  <1>1. CASE egress[e] # None
    <2>1. egress[of] \in fellBack
      BY <1>1 DEF FallbackFollows, Has
    <2>2. egress[of] \in Broadcasts
      BY <2>1 DEF Types
    <2>3. egress'[of] = egress[of]
      BY <1>0, <2>2, EgressStays
    <2> QED BY <2>1, <2>3, OnlyFallbacks
  <1>2. CASE egress[e] = None
    <2>1. ASSUME NEW q \in Requests, SwapEgressScheduled(q) \/ RefundEgressScheduled(q)
          PROVE  FALSE
      <3>1. PICK other : EgressWritten(q, other)
        BY <2>1, EgressStepWrites
      <3>2. <<q, other>> # e
        BY <3>1 DEF EgressWritten
      <3> QED BY <1>2, <3>1, <3>2 DEF EgressWritten, Types
    <2>2. ASSUME NEW b \in Broadcasts, TransferFallbackRequested(b)
          PROVE  egress'[of] \in fellBack'
      <3>0. b \notin fellBack /\ b \in fellBack'
        BY <2>2, FallbackWrites
      <3>1. PICK d : FallbackWritten(b, d)
        BY <1>2, <2>2, FallbackWrites DEF NoFallback
      <3>2. /\ d \in Egresses /\ egress[d] = b /\ FallbackOf(FallbackRole(d[2])) = d[2]
            /\ FallbackRole(d[2]) \in {"fallback", "fallbackRefund"}
        BY <3>0, <3>1, FallbackIsNew
      <3>3. e = <<d[1], FallbackRole(d[2])>>
        BY <1>2, <3>1 DEF FallbackWritten, Types
      <3>4. d[1] = r /\ FallbackRole(d[2]) = role
        BY <3>3
      <3>5. of = d
        BY <3>2, <3>4, EgressPairs
      <3>6. egress'[of] = b
        BY <3>2, <3>5, EgressStays
      <3> QED BY <3>0, <3>6
    <2>3. ASSUME NEW b \in Broadcasts, NEW rows, rows \subseteq Sendable(b[1]), Batched(b, rows)
          PROVE  FALSE
      <3>1. e \in rows
        BY <1>0, <1>2, <2>3 DEF Batched
      <3> QED BY <1>2, <2>3, <3>1, NoneAssumption DEF Sendable
    <2>4. ASSUME NEW q \in Requests, RowStep(q) PROVE FALSE
      BY <1>2, <2>4, RowStepWrites DEF Thrown, RowWritten
    <2>5. ASSUME NEW q \in Requests, NEW n \in ChunkNos, ChunkStep(q, n) PROVE FALSE
      BY <1>2, <2>5, ChunkStepWrites DEF ChunkWritten
    <2>6. ~ UNCHANGED egress
      BY <1>2
    <2> HIDE DEF e, of
    <2> QED BY <2>1, <2>2, <2>3, <2>4, <2>5, <2>6, Steps
            DEF BroadcastEnds, TrackerSees, TrackerForgets, vars, of
  <1> QED BY <1>1, <1>2

LEMMA CarriedFinite ==
  ASSUME NEW b PROVE IsFiniteSet(Carried(b)) /\ Cardinality(Carried(b)) \in Nat
  <1>1. IsFiniteSet(Roles)
    <2>1. Roles = {"swap"} \cup {"refund"} \cup {"fallback"} \cup {"fallbackRefund"}
      BY DEF Roles
    <2> QED BY <2>1, FS_Singleton, FS_Union
  <1>2. IsFiniteSet(Egresses)
    BY <1>1, LifecycleAssumption, FS_Product DEF Egresses
  <1> QED BY <1>2, FS_Subset, FS_CardinalityType DEF Carried

LEMMA FallbackUnlessSharedStep ==
  ASSUME IInv, [Next]_vars PROVE FallbackUnlessShared'
  <1> DEFINE e(r) == <<r, "swap">>
             Carrying(b) == {d \in Egresses : egress'[d] = b}
  <1> SUFFICES ASSUME NEW r \in Requests, NEW b \in fellBack', egress'[e(r)] = b
               PROVE  \/ egress'[<<r, "fallback">>] # None
                      \/ Cardinality(Carrying(b)) > 1
    BY DEF FallbackUnlessShared, Has, Carried
  <1> USE DEF IInv
  <1>0. /\ e(r) \in Egresses /\ <<r, "fallback">> \in Egresses /\ b \in Broadcasts
        /\ broadcast[b] # None
    <2>1. e(r) \in Egresses /\ <<r, "fallback">> \in Egresses
      BY EgressPairs, RoleNames
    <2>2. b \in Broadcasts
      BY TypesStep DEF Types
    <2>3. broadcast[b] # None
      BY OnlyFallbacks, FallbackWrites, NoneAssumption DEF FellBackWasSent, BroadcastStates
    <2> QED BY <2>1, <2>2, <2>3
  <1>1. egress[e(r)] = b
    BY <1>0, EgressStays, NoneAssumption
  <1>2. Carrying(b) = Carried(b)
    BY <1>0, BroadcastStays DEF Carried
  <1> HIDE DEF e, Carrying
  <1>3. CASE b \in fellBack
    <2>1. egress[<<r, "fallback">>] # None \/ Cardinality(Carried(b)) > 1
      BY <1>1, <1>3 DEF FallbackUnlessShared, Has, e
    <2>2. CASE egress[<<r, "fallback">>] # None
      BY <1>0, <2>2, EgressStays
    <2>3. CASE Cardinality(Carried(b)) > 1
      BY <1>2, <2>3
    <2> QED BY <2>1, <2>2, <2>3
  <1>4. CASE b \notin fellBack
    <2>1. TransferFallbackRequested(b)
      BY <1>4, OnlyFallbacks
    <2>2. e(r) \in Carried(b)
      BY <1>0, <1>1 DEF Carried
    <2>3. CASE Cardinality(Carried(b)) = 1
      <3>1. PICK d : Carried(b) = {d}
        BY <2>3, CarriedFinite, FS_Singleton, Zenon
      <3>2. d = <<r, "swap">>
        BY <2>2, <3>1 DEF e
      <3>3. ~ NoFallback(b)
        BY <2>3, <3>1, <3>2 DEF NoFallback
      <3>4. FallbackWritten(b, d)
        <4>1. PICK x : FallbackWritten(b, x)
          BY <1>0, <2>1, <3>3, FallbackWrites
        <4>2. x = d
          BY <3>1, <4>1 DEF FallbackWritten
        <4> QED BY <4>1, <4>2
      <3>5. egress' = [egress EXCEPT ![<<r, "fallback">>] = Unsent]
        BY <3>2, <3>4 DEF FallbackWritten, FallbackRole
      <3> QED BY <1>0, <3>5, NoneAssumption DEF Types
    <2>4. CASE Cardinality(Carried(b)) # 1
      <3>1. Cardinality(Carried(b)) # 0
        BY <2>2, CarriedFinite, FS_EmptySet
      <3>2. Cardinality(Carried(b)) > 1
        BY <2>4, <3>1, CarriedFinite
      <3> QED BY <1>2, <3>2
    <2> QED BY <2>3, <2>4
  <1> QED BY <1>3, <1>4

(* A request row changes by a step of its own.                             *)
LEMMA OnlyRowSteps ==
  ASSUME Types, [Next]_vars, NEW r \in Requests, request'[r] # request[r]
  PROVE  RowStep(r) /\ \E row : RowWritten(r, row) /\ request'[r] = row
  <1>1. ASSUME NEW q \in Requests, RowStep(q)
        PROVE  RowStep(r) /\ \E row : RowWritten(r, row) /\ request'[r] = row
    <2>1. PICK row : RowWritten(q, row)
      BY <1>1, RowStepWrites DEF Thrown
    <2>2. q = r /\ request'[r] = row
      BY <2>1 DEF RowWritten, Types
    <2> QED BY <1>1, <2>1, <2>2
  <1>2. ASSUME NEW q \in Requests, NEW n \in ChunkNos, ChunkStep(q, n) PROVE UNCHANGED request
    BY <1>2, ChunkStepWrites DEF ChunkWritten
  <1>3. ASSUME NEW q \in Requests, SwapEgressScheduled(q) \/ RefundEgressScheduled(q)
        PROVE  UNCHANGED request
    BY <1>3, EgressStepWrites DEF EgressWritten
  <1>4. ASSUME NEW b \in Broadcasts, TransferFallbackRequested(b) PROVE UNCHANGED request
    BY <1>4, FallbackWrites
  <1>5. ~ UNCHANGED request
    OBVIOUS
  <1> QED BY <1>1, <1>2, <1>3, <1>4, <1>5, Steps
          DEF Batched, BroadcastEnds, TrackerSees, TrackerForgets, vars

LEMMA RefundedIsOnChainStep ==
  ASSUME IInv, [Next]_vars PROVE RefundedIsOnChain'
  <1> SUFFICES ASSUME NEW r \in Requests, request'[r] # None
               PROVE  /\ request'[r].refunded => request'[r].kind = "onChain"
                      /\ request'[r].refundAmount # None => request'[r].completed
    BY DEF RefundedIsOnChain
  <1> USE DEF IInv
  <1> DEFINE Good(row) == /\ row.refunded => row.kind = "onChain"
                          /\ row.refundAmount # None => row.completed
  <1>0. request[r] # None => Good(request[r])
    BY DEF RefundedIsOnChain
  <1>1. CASE request'[r] = request[r]
    BY <1>0, <1>1
  <1>2. CASE request'[r] # request[r]
    <2>1. RowStep(r)
      BY <1>2, OnlyRowSteps
    <2>2. ASSUME NEW row, RowWritten(r, row) PROVE request'[r] = row
      BY <2>2 DEF RowWritten, Types
    <2>3. ASSUME NEW row, RowWritten(r, row), request[r] # None
          PROVE  row.kind = request[r].kind
      BY <2>3 DEF RowWritten
    <2>4. ASSUME NEW kind \in Kinds, NEW chunks \in ChunkNos, SwapRequested(r, kind, chunks)
          PROVE  Good(request'[r])
      BY <2>2, <2>4, RequestWritten
    <2>5. ASSUME NEW reason \in Reasons,
                 SwapEgressIgnored(r, reason) \/ RefundEgressIgnored(r, reason)
          PROVE  Good(request'[r])
      <3>1. ~Thrown
        BY <1>2 DEF Thrown
      <3> QED BY <1>0, <2>2, <2>3, <2>5, <3>1, IgnoredWritten DEF IsOpen
    <2>6. CASE CreditedOnChain(r) \/ RefundedOnChain(r)
      BY <1>0, <2>2, <2>3, <2>6, CreditWritten DEF IsOpen
    <2>7. CASE SwapRequestCompleted(r)
      BY <1>0, <2>2, <2>3, <2>7, CompletionWritten DEF IsOpen
    <2> QED BY <2>1, <2>4, <2>5, <2>6, <2>7 DEF RowStep
  <1> QED BY <1>1, <1>2

(* The quote changes only by the completion of the first request.          *)
LEMMA OnlyCompletion ==
  ASSUME Types, [Next]_vars, quote' # quote
  PROVE  \E r \in Requests :
            /\ SwapRequestCompleted(r) /\ quote = None /\ request[r].kind = "external"
            /\ quote' = [request |-> r, as |-> IF Has(r, "refund") THEN "refunded" ELSE "executed"]
  <1>1. ASSUME NEW r \in Requests, RowStep(r) PROVE SwapRequestCompleted(r)
    <2>1. ASSUME NEW kind \in Kinds, NEW chunks \in ChunkNos, SwapRequested(r, kind, chunks)
          PROVE  FALSE
      BY <2>1 DEF SwapRequested
    <2>2. ASSUME NEW reason \in Reasons,
                 SwapEgressIgnored(r, reason) \/ RefundEgressIgnored(r, reason)
          PROVE  FALSE
      BY <2>2, IgnoredWritten DEF Thrown
    <2>3. CASE CreditedOnChain(r) \/ RefundedOnChain(r)
      BY <2>3, CreditWritten
    <2> QED BY <1>1, <2>1, <2>2, <2>3 DEF RowStep
  <1>2. ASSUME NEW r \in Requests, SwapRequestCompleted(r)
        PROVE  /\ quote = None /\ request[r].kind = "external"
               /\ quote' = [request |-> r, as |-> IF Has(r, "refund") THEN "refunded" ELSE "executed"]
    BY <1>2 DEF SwapRequestCompleted, QuoteAtCompletion
  <1>3. ASSUME NEW q \in Requests, NEW n \in ChunkNos, ChunkStep(q, n) PROVE UNCHANGED quote
    BY <1>3, ChunkStepWrites DEF ChunkWritten
  <1>4. ASSUME NEW q \in Requests, SwapEgressScheduled(q) \/ RefundEgressScheduled(q)
        PROVE  UNCHANGED quote
    BY <1>4, EgressStepWrites DEF EgressWritten
  <1>5. ASSUME NEW b \in Broadcasts, TransferFallbackRequested(b) PROVE UNCHANGED quote
    BY <1>5, FallbackWrites
  <1> QED BY <1>1, <1>2, <1>3, <1>4, <1>5, Steps
          DEF Batched, BroadcastEnds, TrackerSees, TrackerForgets, vars

LEMMA QuoteOfCompletedStep ==
  ASSUME IInv, [Next]_vars PROVE QuoteOfCompleted'
  <1> USE DEF IInv
  <1>1. CASE quote' = quote
    <2>1. quote # None => /\ quote.request \in Requests /\ request[quote.request] # None
                          /\ request[quote.request].completed
      BY DEF QuoteOfCompleted
    <2>2. quote # None => request'[quote.request] = request[quote.request]
      BY <2>1, RequestStays
    <2> QED BY <1>1, <2>1, <2>2 DEF QuoteOfCompleted
  <1>2. CASE quote' # quote
    <2>1. PICK r \in Requests : SwapRequestCompleted(r) /\ quote'.request = r
      BY <1>2, OnlyCompletion
    <2>2. PICK row : RowWritten(r, row) /\ row.completed
      BY <2>1, CompletionWritten
    <2>3. request'[r] = row /\ row # None
      BY <2>2, NoneAssumption DEF RowWritten, Types
    <2> QED BY <2>1, <2>2, <2>3 DEF QuoteOfCompleted
  <1> QED BY <1>1, <1>2

(* Every step keeps the invariant.                                         *)
LEMMA StepKeeps == IInv /\ [Next]_vars => IInv'
  <1> SUFFICES ASSUME IInv, [Next]_vars PROVE IInv'
    OBVIOUS
  <1>1. Types' /\ ChunksInOrder' /\ TwoOpen'
    BY TypesStep, ChunksInOrderStep, TwoOpenStep DEF IInv
  <1>2. EgressOfRequest' /\ SentWhenCompleted' /\ NoEmptyBroadcast' /\ FellBackWasSent'
    BY EgressOfRequestStep, SentWhenCompletedStep, NoEmptyBroadcastStep, FellBackWasSentStep
  <1>3. FallbackFollows' /\ FallbackUnlessShared' /\ RefundedIsOnChain' /\ QuoteOfCompleted'
    BY FallbackFollowsStep, FallbackUnlessSharedStep, RefundedIsOnChainStep, QuoteOfCompletedStep
  <1> QED BY <1>1, <1>2, <1>3 DEF IInv

LEMMA Invariance == Spec => []IInv
  BY Initially, StepKeeps, PTL DEF Spec

----------------------------------------------------------------------------
(* The theorems.                                                           *)

(* The rows of any number of requests, chunks and broadcasts have their    *)
(* shape, and every broadcast row carries an egress of its chain.          *)
THEOREM LifecycleTypes == Spec => []TypeOK
  <1>1. IInv => TypeOK
    <2> SUFFICES ASSUME IInv PROVE TypeOK
      OBVIOUS
    <2> USE DEF IInv
    <2>1. ASSUME NEW r \in Requests, request[r] # None
          PROVE  /\ request[r].kind \in Kinds /\ request[r].completed \in BOOLEAN
                 /\ request[r].ignored \subseteq {"SWAP", "REFUND"}
      BY <2>1 DEF Types, RequestRows, IgnoredTypes
    <2>2. ASSUME NEW c \in Requests \X ChunkNos, swap[c] # None
          PROVE  /\ request[c[1]] # None
                 /\ swap[c].status \in {"scheduled", "executed", "aborted"}
                 /\ swap[c].retries \in 0 .. MaxRetries
      <3>1. c[1] \in Requests /\ c[2] \in ChunkNos /\ c = <<c[1], c[2]>>
        OBVIOUS
      <3>2. request[c[1]] # None
        BY <2>2, <3>1 DEF ChunksInOrder
      <3>3. swap[c] \in SwapRows
        BY <2>2 DEF Types
      <3> QED BY <3>2, <3>3 DEF SwapRows
    <2> QED BY <2>1, <2>2 DEF TypeOK, SentWhenCompleted, NoEmptyBroadcast, Types
  <1> QED BY <1>1, Invariance, PTL

(* The processor stops for ever only at an ignored egress.                 *)
THEOREM StuckByIgnored == Spec => []StuckOnlyByIgnored
  <1> DEFINE Cause(r) ==
        /\ IsOpen(r)
        /\ \/ request[r].ignored # {} /\ (OwesOutput(r) \/ OwesRefund(r))
           \/ Reasons # {"Module"} /\ OwesRefund(r)
  <1>1. Init => StuckOnlyByIgnored
    BY DEF Init, StuckOnlyByIgnored
  <1>2. ASSUME IInv, StuckOnlyByIgnored, [Next]_vars PROVE StuckOnlyByIgnored'
    <2>1. CASE stuck
      <3>1. UNCHANGED <<request, swap, egress>>
        BY <1>2, <2>1 DEF Next, vars, TrackerSees, TrackerForgets
      <3> QED BY <1>2, <2>1, <3>1
              DEF StuckOnlyByIgnored, IsOpen, OwesOutput, OwesRefund, Chunks, Executed, InStatus,
                  AllChunks, Has
    <2>2. CASE ~stuck /\ stuck'
      <3>1. PICK r \in Requests, reason \in Reasons :
              SwapEgressIgnored(r, reason) \/ RefundEgressIgnored(r, reason)
        <4>1. ASSUME NEW r \in Requests, NEW n \in ChunkNos, ChunkStep(r, n) PROVE FALSE
          BY <1>2, <2>2, <4>1, ChunkStepWrites DEF ChunkWritten, IInv
        <4>2. ASSUME NEW r \in Requests, SwapEgressScheduled(r) \/ RefundEgressScheduled(r)
              PROVE  FALSE
          BY <2>2, <4>2, EgressStepWrites DEF EgressWritten
        <4>3. ASSUME NEW b \in Broadcasts, TransferFallbackRequested(b) PROVE FALSE
          BY <2>2, <4>3, FallbackWrites
        <4>4. PICK r \in Requests : RowStep(r)
          BY <1>2, <2>2, <4>1, <4>2, <4>3, Steps
             DEF Batched, BroadcastEnds, TrackerSees, TrackerForgets, vars
        <4> QED BY <2>2, <4>4 DEF RowStep, SwapRequested, CreditedOnChain, RefundedOnChain,
                                  SwapRequestCompleted
      <3>2. ~ \E row : RowWritten(r, row)
        BY <2>2 DEF RowWritten
      <3>3. /\ UNCHANGED <<request, swap, egress>> /\ Cause(r)
        BY <1>2, <3>1, <3>2, IgnoredWritten DEF Thrown, IInv
      <3> QED BY <3>3 DEF StuckOnlyByIgnored, IsOpen, OwesOutput, OwesRefund, Chunks, Executed,
                          InStatus, AllChunks, Has
    <2> QED BY <2>1, <2>2 DEF StuckOnlyByIgnored
  <1> QED BY <1>1, <1>2, Invariance, PTL DEF Spec

(* The chunk that is shown.                                                *)
LEMMA MaxMinOfPair ==
  ASSUME NEW a \in Nat, NEW b \in Nat, a < b
  PROVE  Max({a, b}) = b /\ Min({a, b}) = a
  <1>1. Max({a, b}) = b
    BY DEF Max
  <1>2. Min({a, b}) = a
    BY DEF Min
  <1> QED BY <1>1, <1>2

LEMMA MaxMinOfOne ==
  ASSUME NEW a \in Nat PROVE Max({a}) = a /\ Min({a}) = a
  BY DEF Max, Min

LEMMA CurrentIsFirst == IInv => CurrentChunkIsFirstOpen
  <1> SUFFICES ASSUME IInv, NEW r \in Requests, Chunks(r) # Executed(r)
               PROVE  CurrentChunk(r) = Min(Open(r))
    BY DEF CurrentChunkIsFirstOpen, Open
  <1>1. IsFiniteSet(Open(r)) /\ Open(r) \subseteq Nat /\ Open(r) # {}
    BY ChunksFinite DEF Open
  <1>2. Cardinality(Open(r)) \in Nat /\ Cardinality(Open(r)) # 0
    BY <1>1, FS_CardinalityType, FS_EmptySet
  <1>3. CASE Cardinality(Open(r)) > 1
    <2>1. PICK a \in Open(r), b \in Open(r) : a < b
      <3>1. PICK a \in Open(r) : TRUE
        BY <1>1
      <3>2. Open(r) # {a}
        <4>1. Cardinality({a}) = 1
          BY FS_Singleton, Zenon
        <4>2. Open(r) = {a} => Cardinality(Open(r)) = 1
          BY <4>1, Zenon
        <4> QED BY <1>3, <4>2
      <3>3. PICK b \in Open(r) : b # a
        BY <3>1, <3>2
      <3> QED BY <1>1, <3>3
    <2>2. Open(r) = {a, b}
      BY <2>1, <1>1 DEF IInv, TwoOpen
    <2>3. a \in Nat /\ b \in Nat
      BY <1>1
    <2>4. Max(Open(r)) = b /\ Min(Open(r)) = a
      BY <2>1, <2>2, <2>3, MaxMinOfPair
    <2>5. Open(r) \ {b} = {a}
      BY <2>1, <2>2, <2>3
    <2>6. Max(Open(r) \ {b}) = a
      BY <2>3, <2>5, MaxMinOfOne
    <2> QED BY <1>3, <2>4, <2>6 DEF CurrentChunk, Open
  <1>4. CASE ~(Cardinality(Open(r)) > 1)
    <2>1. Cardinality(Open(r)) = 1
      BY <1>2, <1>4
    <2>2. PICK a : Open(r) = {a}
      BY <1>1, <2>1, FS_Singleton, Zenon
    <2>3. a \in Nat
      BY <1>1, <2>2
    <2>4. Max(Open(r)) = Min(Open(r))
      BY <2>2, <2>3, MaxMinOfOne
    <2> QED BY <1>4, <2>4 DEF CurrentChunk, Open
  <1> QED BY <1>3, <1>4

(* What is recorded at completion stays true, as nothing is executed later. *)
LEMMA ExecutedQuoteStep ==
  ASSUME IInv, ExecutedQuoteSold, [Next]_vars PROVE ExecutedQuoteSold'
  <1> USE DEF IInv
  <1> DEFINE Sold(r) == Executed(r) # {} \/ "REFUND" \in request[r].ignored
  <1>1. ASSUME NEW r \in Requests, request[r] # None, Sold(r) PROVE Sold(r)'
    <2>1. ASSUME NEW n \in Executed(r) PROVE n \in Executed(r)'
      <3>1. n \in ChunkNos /\ swap[<<r, n>>] # None /\ swap[<<r, n>>].status = "executed"
        BY <2>1 DEF Executed, InStatus, Chunks
      <3>2. swap'[<<r, n>>] = swap[<<r, n>>]
        BY <3>1, ChunksStay
      <3> QED BY <3>1, <3>2 DEF Executed, InStatus, Chunks
    <2>2. request[r].ignored \subseteq request'[r].ignored
      BY <1>1, RequestStays
    <2> QED BY <1>1, <2>1, <2>2
  <1> SUFFICES ASSUME quote' # None, quote'.as = "executed"
               PROVE  \E r : r = quote'.request /\ Sold(r)'
    BY DEF ExecutedQuoteSold, Executed, InStatus, Chunks
  <1>2. CASE quote' = quote
    <2>1. /\ quote.request \in Requests /\ request[quote.request] # None /\ Sold(quote.request)
      BY <1>2 DEF QuoteOfCompleted, ExecutedQuoteSold
    <2>2. PICK r : r = quote.request
      OBVIOUS
    <2>3. Sold(r)'
      BY <1>1, <2>1, <2>2
    <2> QED BY <1>2, <2>2, <2>3
  <1>3. CASE quote' # quote
    <2>1. PICK r \in Requests :
            /\ SwapRequestCompleted(r) /\ request[r].kind = "external"
            /\ quote' = [request |-> r, as |-> IF Has(r, "refund") THEN "refunded" ELSE "executed"]
      BY <1>3, OnlyCompletion
    <2>2. ~Has(r, "refund") /\ quote'.request = r
      BY <2>1
    <2>3. IsOpen(r) /\ Chunks(r) # {} /\ ~OwesRefund(r) /\ request[r] \in RequestRows
      BY <2>1 DEF SwapRequestCompleted, Settled, IsOpen, Types
    <2>4. ~request[r].refunded
      BY <2>1, <2>3 DEF RefundedIsOnChain, IsOpen
    <2>5. AllChunks(r) # {}
      BY <2>3, LifecycleAssumption DEF AllChunks, RequestRows, ChunkNos
    <2>6. Sold(r)
      BY <2>2, <2>3, <2>4, <2>5 DEF OwesRefund
    <2>7. Sold(r)'
      BY <1>1, <2>3, <2>6 DEF IsOpen
    <2> QED BY <2>2, <2>7
  <1> QED BY <1>2, <1>3

LEMMA LiquidationStep ==
  ASSUME IInv, LiquidationRefundLeavesOut, [Next]_vars PROVE LiquidationRefundLeavesOut'
  <1> SUFFICES ASSUME NEW r \in Requests, request'[r] # None, request'[r].refundAmount # None
               PROVE  (RemainingInput(r) - request[r].refundAmount)' = Cardinality(Open(r))'
    BY DEF LiquidationRefundLeavesOut, Open
  <1> USE DEF IInv
  <1>1. CASE request'[r] = request[r]
    <2>1. request[r].completed /\ request[r] # None /\ request[r].refundAmount # None
      BY <1>1 DEF RefundedIsOnChain
    <2>2. \A n \in ChunkNos : swap'[<<r, n>>] = swap[<<r, n>>]
      BY <2>1, ChunksStay DEF IsOpen
    <2>3. Chunks(r)' = Chunks(r) /\ Executed(r)' = Executed(r)
      BY <2>2 DEF Chunks, Executed, InStatus
    <2>4. Open(r)' = Open(r)
      BY <2>3 DEF Open
    <2>5. Cardinality(Executed(r))' = Cardinality(Executed(r))
      BY <2>3
    <2>6. Cardinality(Open(r))' = Cardinality(Open(r))
      BY <2>4
    <2>7. RemainingInput(r) - request[r].refundAmount = Cardinality(Open(r))
      BY <2>1 DEF LiquidationRefundLeavesOut, Open
    <2> QED BY <1>1, <2>5, <2>6, <2>7 DEF RemainingInput, InputOf
  <1>2. CASE request'[r] # request[r]
    <2>1. RowStep(r) /\ UNCHANGED swap
      <3>1. PICK row : RowWritten(r, row)
        BY <1>2, OnlyRowSteps
      <3> QED BY <1>2, <3>1, OnlyRowSteps DEF RowWritten
    <2>2. Chunks(r)' = Chunks(r) /\ Executed(r)' = Executed(r)
      BY <2>1 DEF Chunks, Executed, InStatus
    <2>3. Cardinality(Executed(r))' = Cardinality(Executed(r)) /\ Cardinality(Open(r))' = Cardinality(Open(r))
      BY <2>2 DEF Open
    <2>4. ASSUME NEW row, RowWritten(r, row) PROVE request'[r] = row
      BY <2>4 DEF RowWritten, Types
    <2>5. CASE SwapRequestCompleted(r)
      <3>1. /\ request'[r].refundAmount = LiquidationRefund(r) /\ request[r] # None
            /\ request'[r].chunks = request[r].chunks
        BY <2>4, <2>5, CompletionWritten DEF IsOpen, RowWritten
      <3>2. request[r].chunks \in Nat
        BY <3>1, LifecycleAssumption DEF Types, RequestRows, ChunkNos
      <3>3. Cardinality(Open(r)) = Cardinality(Chunks(r)) - Cardinality(Executed(r))
        <4>1. Chunks(r) \cap Executed(r) = Executed(r)
          BY ChunksFinite
        <4>2. Cardinality(Chunks(r) \ Executed(r))
                = Cardinality(Chunks(r)) - Cardinality(Chunks(r) \cap Executed(r))
          BY ChunksFinite, FS_Difference
        <4> QED BY <4>1, <4>2 DEF Open
      <3>4. Cardinality(Chunks(r)) \in Nat /\ Cardinality(Executed(r)) \in Nat
        BY ChunksFinite, FS_CardinalityType
      <3> QED BY <2>3, <3>1, <3>2, <3>3, <3>4 DEF RemainingInput, InputOf, LiquidationRefund
    <2>6. CASE ~SwapRequestCompleted(r)
      <3>1. /\ request[r] # None /\ request'[r].refundAmount = request[r].refundAmount
            /\ request'[r].chunks = request[r].chunks
        <4>1. ASSUME NEW kind \in Kinds, NEW chunks \in ChunkNos, SwapRequested(r, kind, chunks)
              PROVE  FALSE
          BY <2>4, <4>1, RequestWritten
        <4>2. ASSUME NEW reason \in Reasons,
                     SwapEgressIgnored(r, reason) \/ RefundEgressIgnored(r, reason)
              PROVE  /\ request[r] # None /\ request'[r].refundAmount = request[r].refundAmount
                     /\ request'[r].chunks = request[r].chunks
          <5>1. ~Thrown
            BY <1>2 DEF Thrown
          <5> QED BY <2>4, <4>2, <5>1, IgnoredWritten DEF IsOpen, RowWritten
        <4>3. ASSUME CreditedOnChain(r) \/ RefundedOnChain(r)
              PROVE  /\ request[r] # None /\ request'[r].refundAmount = request[r].refundAmount
                     /\ request'[r].chunks = request[r].chunks
          BY <2>4, <4>3, CreditWritten DEF IsOpen, RowWritten
        <4> QED BY <2>1, <2>6, <4>1, <4>2, <4>3 DEF RowStep
      <3>2. RemainingInput(r) - request[r].refundAmount = Cardinality(Open(r))
        BY <3>1 DEF LiquidationRefundLeavesOut, Open
      <3> QED BY <2>3, <3>1, <3>2 DEF RemainingInput, InputOf
    <2> QED BY <2>5, <2>6
  <1> QED BY <1>1, <1>2

(* What the API, the quote and the row of a liquidation derive from the     *)
(* chunks agrees with what became of each.                                 *)
THEOREM RowsTell == Spec => []RowsTellTheSwap
  <1> DEFINE Told == ExecutedQuoteSold /\ LiquidationRefundLeavesOut
  <1>1. Init => Told
    BY DEF Init, ExecutedQuoteSold, LiquidationRefundLeavesOut
  <1>2. IInv /\ Told /\ [Next]_vars => Told'
    BY ExecutedQuoteStep, LiquidationStep
  <1>3. IInv /\ Told => RowsTellTheSwap
    BY CurrentIsFirst DEF RowsTellTheSwap
  <1> HIDE DEF Told
  <1> QED BY <1>1, <1>2, <1>3, Invariance, PTL DEF Spec

----------------------------------------------------------------------------
(* The state of a request.                                                 *)

(* The egress that decides the state.                                      *)
LEMMA EgressShown ==
  ASSUME NEW r \in Requests
  PROVE  /\ Has(r, "fallback") => Egress(r) = "fallback"
         /\ ~Has(r, "fallback") /\ Has(r, "swap") => Egress(r) = "swap"
         /\ ~Has(r, "fallback") /\ ~Has(r, "swap") /\ Has(r, "refund") => Egress(r) = "refund"
         /\ ~Has(r, "fallback") /\ ~Has(r, "swap") /\ ~Has(r, "refund") => Egress(r) = None
         /\ Egress(r) # None => Has(r, Egress(r)) /\ Egress(r) \in {"swap", "refund", "fallback"}
  BY NoneAssumption DEF Egress, Roles

(* When a state is what it is.                                             *)
LEMMA States ==
  ASSUME NEW r \in Requests, request[r] # None
  PROVE  /\ Failed(r) => State(r) = "FAILED"
         /\ IsSending(r) => /\ ~Failed(r) /\ State(r) = SendingState(r)
                            /\ State(r) \in {"FAILED", "SENT", "SENDING"}
         /\ ~Failed(r) /\ ~IsSending(r) =>
               /\ Egress(r) # None \/ request[r].completed => State(r) = "COMPLETED"
               /\ Egress(r) = None /\ ~request[r].completed =>
                     State(r) = IF Chunks(r) # {} THEN "SWAPPING" ELSE "WAITING"
  <1>1. IsSending(r) => ~Failed(r)
    BY DEF IsSending
  <1>2. SendingState(r) \in {"FAILED", "SENT", "SENDING"}
    BY DEF SendingState
  <1> QED BY <1>1, <1>2 DEF State

(* Nothing has ended for an egress that is not sent.                       *)
LEMMA EndedIsSent ==
  ASSUME IInv, NEW r \in Requests, NEW role \in Roles, Sent(r, role)
  PROVE  /\ egress[<<r, role>>] \in Broadcasts /\ request[r] # None /\ request[r].completed
         /\ \/ broadcast[egress[<<r, role>>]] = "requested"
            \/ Ended(r, role, "succeeded") \/ Ended(r, role, "aborted")
  <1> USE DEF IInv
  <1>1. <<r, role>> \in Egresses
    BY EgressPairs
  <1>2. egress[<<r, role>>] \in Broadcasts
    BY <1>1 DEF Sent, Has, Types
  <1>3. broadcast[egress[<<r, role>>]] \in BroadcastStates
    BY <1>1, <1>2 DEF SentWhenCompleted, Types
  <1>4. request[r] # None /\ request[r].completed
    BY <1>1, <1>2 DEF SentWhenCompleted, EgressOfRequest, Sent, Has
  <1> QED BY <1>2, <1>3, <1>4 DEF Ended, BroadcastStates

(* A request whose fallback is on its way or ended is not COMPLETED.       *)
LEMMA FallbackShows ==
  ASSUME IInv, NEW r \in Requests, Has(r, "fallback")
  PROVE  State(r) # "COMPLETED"
  <1>1. Egress(r) = "fallback" /\ Egress(r) # None
    BY EgressShown, RoleNames, NoneAssumption
  <1>2. request[r] # None
    BY EgressPairs, RoleNames DEF IInv, EgressOfRequest, Has
  <1>3. CASE Ended(r, "fallback", "succeeded")
    BY <1>2, <1>3, States DEF Failed
  <1>4. CASE ~Ended(r, "fallback", "succeeded")
    BY <1>1, <1>2, <1>4, States DEF IsSending
  <1> QED BY <1>3, <1>4

LEMMA CompletedHides == IInv => CompletedHidesOnly
  <1> SUFFICES ASSUME IInv, NEW r \in Requests, State(r) = "COMPLETED"
               PROVE  /\ request[r].ignored = {}
                      /\ \A role \in Roles : WentWrong(r, role) =>
                            \/ role \in {"refund", "fallbackRefund"}
                            \/ Cardinality(Carried(egress[<<r, role>>])) > 1
    BY DEF CompletedHidesOnly
  <1>1. request[r] # None
    BY DEF State
  <1>2. ~Failed(r) /\ ~Has(r, "fallback")
    BY <1>1, States, FallbackShows
  <1>3. request[r].ignored = {}
    BY <1>2 DEF Failed
  <1>4. ASSUME WentWrong(r, "swap") PROVE Cardinality(Carried(egress[<<r, "swap">>])) > 1
    <2>1. Sent(r, "swap") /\ Has(r, "swap")
      BY <1>4 DEF WentWrong, Ended, Sent
    <2>2. Egress(r) = "swap" /\ Egress(r) # None
      BY <1>2, <2>1, EgressShown, RoleNames, NoneAssumption
    <2>3. ~Ended(r, "swap", "aborted")
      BY <1>2, <2>2 DEF Failed
    <2>4. egress[<<r, "swap">>] \in fellBack
      BY <1>4, <2>3 DEF WentWrong
    <2> QED BY <1>2, <2>4 DEF IInv, FallbackUnlessShared
  <1>5. ~WentWrong(r, "fallback")
    BY <1>2 DEF WentWrong, Ended, Sent
  <1> QED BY <1>3, <1>4, <1>5, RoleNames

LEMMA FailureExplained == IInv => FailureIsExplained
  <1> SUFFICES ASSUME IInv, NEW r \in Requests, request[r] # None, ~Has(r, "fallback")
               PROVE  LET failing == {role \in {"swap", "refund"} : FailureMode(r, role) # None}
                      IN  /\ State(r) = "FAILED" => failing # {}
                          /\ State(r) # "FAILED" => failing \subseteq {"refund"}
                          /\ State(r) # "FAILED" /\ failing # {} => Has(r, "swap")
    BY DEF FailureIsExplained
  <1> DEFINE fails(role) == FailureMode(r, role) # None
  <1>1. /\ fails("swap") <=> "SWAP" \in request[r].ignored \/ Ended(r, "swap", "aborted")
        /\ fails("refund") <=> "REFUND" \in request[r].ignored \/ Ended(r, "refund", "aborted")
    BY NoneAssumption DEF FailureMode, TypeOf
  <1>2. request[r].ignored # {} <=> "SWAP" \in request[r].ignored \/ "REFUND" \in request[r].ignored
    <2>1. request[r] \in RequestRows
      BY DEF IInv, Types
    <2> QED BY <2>1 DEF RequestRows, IgnoredTypes
  <1>3. ~Pending(r, "fallback") /\ ~Ended(r, "fallback", "succeeded")
    BY DEF Pending, Ended, Sent
  <1>4. ASSUME State(r) = "FAILED" PROVE Failed(r)
    <2>1. SendingState(r) # "FAILED"
      BY <1>3 DEF SendingState
    <2> QED BY <1>4, <2>1, States
  <1>5. Failed(r) => State(r) = "FAILED"
    BY States
  <1>6. Failed(r) <=> request[r].ignored # {} \/ (Egress(r) # None /\ Ended(r, Egress(r), "aborted"))
    BY <1>3 DEF Failed
  <1>7. Ended(r, "swap", "aborted") => Has(r, "swap") /\ Egress(r) = "swap" /\ Egress(r) # None
    BY EgressShown, RoleNames, NoneAssumption DEF Ended, Sent
  <1>8. Ended(r, "refund", "aborted") /\ ~Has(r, "swap") => Egress(r) = "refund" /\ Egress(r) # None
    BY EgressShown, RoleNames, NoneAssumption DEF Ended, Sent
  <1>9. Egress(r) # None => Egress(r) = "swap" \/ Egress(r) = "refund"
    BY EgressShown
  <1> HIDE DEF fails
  <1>10. /\ State(r) = "FAILED" => fails("swap") \/ fails("refund")
         /\ State(r) # "FAILED" => ~fails("swap")
         /\ State(r) # "FAILED" /\ fails("refund") => Has(r, "swap")
    BY <1>1, <1>2, <1>4, <1>5, <1>6, <1>7, <1>8, <1>9
  <1> QED BY <1>10 DEF fails

LEMMA SettledFinal == IInv => SettledIsFinal
  <1> SUFFICES ASSUME IInv, NEW r \in Requests, ChainDone(r)
               PROVE  State(r) \in {"COMPLETED", "FAILED"}
    BY DEF SettledIsFinal
  <1>1. request[r] # None /\ request[r].completed
    BY DEF ChainDone
  <1>2. CASE Failed(r)
    BY <1>1, <1>2, States
  <1>3. CASE ~Failed(r)
    <2>1. Egress(r) # None => Ended(r, Egress(r), "succeeded")
      <3> SUFFICES ASSUME Egress(r) # None PROVE Ended(r, Egress(r), "succeeded")
        OBVIOUS
      <3>1. Has(r, Egress(r)) /\ Egress(r) \in Roles
        BY EgressShown, RoleNames
      <3>2. ~Ended(r, Egress(r), "aborted")
        BY <1>3 DEF Failed
      <3> QED BY <3>1, <3>2 DEF ChainDone
    <2>2. ~IsSending(r)
      BY <2>1 DEF IsSending
    <2> QED BY <1>1, <1>3, <2>2, States
  <1> QED BY <1>2, <1>3

(* The status of a request shows how its transfers ended: a failure that    *)
(* COMPLETED hides is that of a refund or of a shared broadcast, one that  *)
(* is FAILED shows why, and the status of what has ended is final.         *)
THEOREM FailuresAreShown == Spec => []FailuresShow
  <1>1. IInv => FailuresShow
    BY CompletedHides, FailureExplained, SettledFinal DEF FailuresShow
  <1> QED BY <1>1, Invariance, PTL

----------------------------------------------------------------------------
(* The state a client polls.                                               *)

(* The egress of a swap or of a refund is inserted while its request is    *)
(* open.                                                                   *)
LEMMA OnlyEgressSteps ==
  ASSUME IInv, [Next]_vars, NEW r \in Requests, NEW role \in {"swap", "refund"},
         ~Has(r, role), Has(r, role)'
  PROVE  IsOpen(r)
  <1> USE DEF IInv
  <1> DEFINE e == <<r, role>>
  <1>0. e \in Egresses /\ egress[e] = None /\ egress'[e] # None
    BY EgressPairs, RoleNames DEF Has
  <1>1. ASSUME NEW q \in Requests, SwapEgressScheduled(q) \/ RefundEgressScheduled(q)
        PROVE  IsOpen(r)
    <2>1. PICK other : EgressWritten(q, other)
      BY <1>1, EgressStepWrites
    <2>2. e = <<q, other>>
      BY <1>0, <2>1 DEF EgressWritten, Types
    <2> QED BY <2>1, <2>2 DEF EgressWritten
  <1>2. ASSUME NEW b \in Broadcasts, TransferFallbackRequested(b) PROVE FALSE
    <2>1. PICK d : FallbackWritten(b, d)
      BY <1>0, <1>2, FallbackWrites DEF NoFallback
    <2>2. FallbackRole(d[2]) \in {"fallback", "fallbackRefund"}
      BY <1>2, <2>1, FallbackIsNew, FallbackWrites
    <2>3. <<d[1], FallbackRole(d[2])>> # e
      BY <2>2
    <2> QED BY <1>0, <2>1, <2>3 DEF FallbackWritten, Types
  <1>3. ASSUME NEW b \in Broadcasts, NEW rows, rows \subseteq Sendable(b[1]), Batched(b, rows)
        PROVE  FALSE
    <2>1. e \in rows
      BY <1>0, <1>3 DEF Batched
    <2> QED BY <1>0, <1>3, <2>1, NoneAssumption DEF Sendable
  <1>4. ASSUME NEW q \in Requests, RowStep(q) PROVE FALSE
    BY <1>0, <1>4, RowStepWrites DEF Thrown, RowWritten
  <1>5. ASSUME NEW q \in Requests, NEW n \in ChunkNos, ChunkStep(q, n) PROVE FALSE
    BY <1>0, <1>5, ChunkStepWrites DEF ChunkWritten
  <1>6. ~ UNCHANGED egress
    BY <1>0
  <1> HIDE DEF e
  <1> QED BY <1>1, <1>2, <1>3, <1>4, <1>5, <1>6, Steps
          DEF BroadcastEnds, TrackerSees, TrackerForgets, vars

(* What was sent stays sent, in the same broadcast, and what ended stays    *)
(* ended.                                                                  *)
LEMMA SentStays ==
  ASSUME IInv, [Next]_vars, NEW r \in Requests, NEW role \in Roles
  PROVE  /\ Has(r, role) => Has(r, role)'
         /\ Sent(r, role) => Sent(r, role)' /\ egress'[<<r, role>>] = egress[<<r, role>>]
         /\ Ended(r, role, "succeeded") => Ended(r, role, "succeeded")'
         /\ Ended(r, role, "aborted") => Ended(r, role, "aborted")'
  <1> USE DEF IInv
  <1>0. <<r, role>> \in Egresses
    BY EgressPairs
  <1>1. Has(r, role) => Has(r, role)'
    BY <1>0, EgressStays DEF Has
  <1>2. ASSUME Sent(r, role)
        PROVE  /\ egress[<<r, role>>] \in Broadcasts /\ egress'[<<r, role>>] = egress[<<r, role>>]
               /\ Sent(r, role)'
    <2>1. egress[<<r, role>>] \in Broadcasts
      BY <1>2, EndedIsSent
    <2>2. egress'[<<r, role>>] = egress[<<r, role>>]
      BY <1>0, <2>1, EgressStays
    <2> QED BY <1>2, <2>1, <2>2 DEF Sent, Has
  <1>3. ASSUME NEW how \in {"succeeded", "aborted"}, Ended(r, role, how) PROVE Ended(r, role, how)'
    <2>1. Sent(r, role) /\ broadcast[egress[<<r, role>>]] = how
      BY <1>3 DEF Ended
    <2>2. broadcast[egress[<<r, role>>]] # None
      BY <2>1, NoneAssumption DEF BroadcastStates
    <2>3. broadcast'[egress[<<r, role>>]] = how
      BY <1>2, <2>1, <2>2, BroadcastStays
    <2> QED BY <1>2, <2>1, <2>3 DEF Ended
  <1> QED BY <1>1, <1>2, <1>3

(* Once a request is completed no egress decides its state in place of      *)
(* another, except a new fallback.                                         *)
LEMMA EgressShownStays ==
  ASSUME IInv, [Next]_vars, NEW r \in Requests, ~(Has(r, "fallback")' /\ ~Has(r, "fallback"))
  PROVE  /\ Egress(r) # None => Egress(r)' # None
         /\ request[r] # None /\ request[r].completed => Egress(r)' = Egress(r)
         /\ Egress(r) = "fallback" => Egress(r)' = "fallback"
  <1>1. \A role \in {"swap", "refund", "fallback"} : Has(r, role) => Has(r, role)'
    BY SentStays, RoleNames
  <1>2. Has(r, "fallback")' => Has(r, "fallback")
    OBVIOUS
  <1>3. request[r] # None /\ request[r].completed =>
           \A role \in {"swap", "refund"} : Has(r, role)' => Has(r, role)
    BY OnlyEgressSteps DEF IsOpen
  <1>4. /\ Egress(r) = IF Has(r, "fallback") THEN "fallback"
                       ELSE IF Has(r, "swap") THEN "swap"
                       ELSE IF Has(r, "refund") THEN "refund" ELSE None
        /\ Egress(r)' = IF Has(r, "fallback")' THEN "fallback"
                       ELSE IF Has(r, "swap")' THEN "swap"
                       ELSE IF Has(r, "refund")' THEN "refund" ELSE None
    BY DEF Egress
  <1>5. None \notin {"swap", "refund", "fallback"}
    BY NoneAssumption, RoleNames
  <1> QED BY <1>1, <1>2, <1>3, <1>4, <1>5

(* The same facts after a step.                                            *)
StateCases(r) ==
    /\ Failed(r) => State(r) = "FAILED"
    /\ IsSending(r) => ~Failed(r) /\ State(r) = SendingState(r)
    /\ ~Failed(r) /\ ~IsSending(r) =>
          /\ Egress(r) # None \/ request[r].completed => State(r) = "COMPLETED"
          /\ Egress(r) = None /\ ~request[r].completed =>
                State(r) = IF Chunks(r) # {} THEN "SWAPPING" ELSE "WAITING"
EndsOrWaits(r) ==
    \A role \in Roles : Sent(r, role) =>
       /\ request[r].completed
       /\ \/ broadcast[egress[<<r, role>>]] = "requested"
          \/ Ended(r, role, "succeeded") \/ Ended(r, role, "aborted")
Shown ==
    \A r \in Requests : request[r] # None =>
       /\ StateCases(r) /\ EndsOrWaits(r)
       /\ Egress(r) # None => Has(r, Egress(r)) /\ Egress(r) \in {"swap", "refund", "fallback"}

LEMMA ShownAlways == (IInv => Shown) /\ (IInv' => Shown')
  <1>1. IInv => Shown
    BY States, EndedIsSent, EgressShown DEF Shown, StateCases, EndsOrWaits
  <1> QED BY <1>1, PTL

LEMMA RankOf ==
  /\ Rank("WAITING") = 0 /\ Rank("SWAPPING") = 1 /\ Rank("SENDING") = 2 /\ Rank("SENT") = 3
  /\ Rank("COMPLETED") = 4 /\ Rank("FAILED") = 4
  BY DEF Rank

(* No step takes a state back, unless it adds a fallback or forgets a       *)
(* broadcast.                                                              *)
LEMMA StateStays ==
  ASSUME IInv, [Next]_vars, NEW r \in Requests, request[r] # None,
         ~(Has(r, "fallback")' /\ ~Has(r, "fallback")),
         \A role \in Roles : Pending(r, role) => Pending(r, role)'
  PROVE  /\ Failed(r) => Failed(r)'
         /\ State(r) \in {"COMPLETED", "FAILED"} => State(r)' = State(r)
         /\ State(r) = "SENT" => State(r)' \in {"SENT", "COMPLETED", "FAILED"}
         /\ State(r) = "SENDING" => State(r)' \in {"SENDING", "SENT", "COMPLETED", "FAILED"}
         /\ State(r) = "SWAPPING" =>
               State(r)' \in {"SWAPPING", "SENDING", "SENT", "COMPLETED", "FAILED"}
  <1>0. /\ request'[r] # None /\ request[r].ignored \subseteq request'[r].ignored
        /\ request[r].completed => request'[r] = request[r]
    BY RequestStays DEF IInv
  <1>1. /\ StateCases(r) /\ EndsOrWaits(r) /\ StateCases(r)' /\ EndsOrWaits(r)'
        /\ Egress(r) # None => Has(r, Egress(r)) /\ Egress(r) \in {"swap", "refund", "fallback"}
        /\ Egress(r)' # None => Has(r, Egress(r))' /\ Egress(r)' \in {"swap", "refund", "fallback"}
    BY <1>0, ShownAlways, StepKeeps DEF Shown
  <1>2. ASSUME NEW role \in Roles, NEW how \in {"succeeded", "aborted"}, Ended(r, role, how)
        PROVE  Ended(r, role, how)' /\ request[r].completed
    BY <1>1, <1>2, SentStays DEF Ended, EndsOrWaits
  <1>3. ASSUME Failed(r) PROVE Failed(r)'
    <2>1. CASE request[r].ignored # {}
      BY <1>0, <2>1 DEF Failed
    <2>2. CASE Egress(r) # None /\ Ended(r, Egress(r), "aborted")
      <3>1. PICK role \in {"swap", "refund", "fallback"} : role = Egress(r)
        BY <1>1, <2>2
      <3>2. Ended(r, role, "aborted")' /\ request[r].completed
        BY <1>2, <2>2, <3>1, RoleNames
      <3>3. Egress(r)' = role
        BY <1>0, <3>1, <3>2, EgressShownStays
      <3>4. role # None
        BY NoneAssumption, RoleNames
      <3> QED BY <3>2, <3>3, <3>4 DEF Failed
    <2>3. CASE Ended(r, "fallback", "succeeded")
      BY <1>2, <2>3, RoleNames DEF Failed
    <2> QED BY <1>3, <2>1, <2>2, <2>3 DEF Failed
  <1>4. ASSUME Pending(r, "fallback"), ~Failed(r) PROVE State(r)' = "FAILED"
    <2>1. Pending(r, "fallback")' /\ Has(r, "fallback")'
      BY <1>4, RoleNames DEF Pending, Sent
    <2>2. Egress(r)' = "fallback" /\ Egress(r)' # None
      BY <2>1, RoleNames, NoneAssumption DEF Egress
    <2>3. CASE Failed(r)'
      BY <1>1, <2>3 DEF StateCases
    <2>4. CASE ~Failed(r)'
      <3>1. IsSending(r)'
        BY <1>0, <2>2, <2>4 DEF IsSending, Failed
      <3> QED BY <1>1, <2>1, <3>1 DEF StateCases, SendingState
    <2> QED BY <2>3, <2>4
  <1>5. ASSUME State(r) = "COMPLETED" PROVE State(r)' = "COMPLETED"
    <2>1. ~Failed(r) /\ ~IsSending(r)
      BY <1>1, <1>5 DEF StateCases, SendingState
    <2>2. Egress(r) # None \/ request[r].completed
      BY <1>1, <1>5, <2>1 DEF StateCases
    <2>3. Egress(r) # None => Ended(r, Egress(r), "succeeded")
      BY <1>0, <2>1 DEF IsSending
    <2>4. request[r].completed
      BY <1>1, <1>2, <2>2, <2>3, RoleNames
    <2>5. Egress(r)' = Egress(r)
      BY <1>0, <2>4, EgressShownStays
    <2>6. ~Has(r, "fallback") /\ ~Has(r, "fallback")'
      BY <1>5, FallbackShows
    <2>7. CASE Egress(r) = None
      <3>1. ~Failed(r)'
        BY <1>0, <2>1, <2>4, <2>5, <2>6, <2>7 DEF Failed, Ended, Sent
      <3>2. ~IsSending(r)'
        BY <2>5, <2>7 DEF IsSending
      <3> QED BY <1>0, <1>1, <2>4, <3>1, <3>2 DEF StateCases
    <2>8. CASE Egress(r) # None
      <3>1. PICK role \in {"swap", "refund", "fallback"} : role = Egress(r)
        BY <1>1, <2>8
      <3>2. Ended(r, role, "succeeded")'
        BY <1>2, <2>3, <2>8, <3>1, RoleNames
      <3>3. ~Ended(r, role, "aborted")'
        BY <3>2 DEF Ended
      <3>4. ~Failed(r)'
        BY <1>0, <2>1, <2>4, <2>5, <2>6, <3>1, <3>3 DEF Failed, Ended, Sent
      <3>5. ~IsSending(r)'
        BY <2>5, <3>1, <3>2 DEF IsSending
      <3> QED BY <1>1, <2>5, <2>8, <3>4, <3>5 DEF StateCases
    <2> QED BY <2>7, <2>8
  <1>6. ASSUME State(r) = "FAILED" PROVE State(r)' = "FAILED"
    <2>1. CASE Failed(r)
      BY <1>1, <1>3, <2>1 DEF StateCases
    <2>2. CASE ~Failed(r)
      <3>1. Pending(r, "fallback")
        BY <1>1, <1>6, <2>2 DEF StateCases, SendingState
      <3> QED BY <1>4, <2>2, <3>1
    <2> QED BY <2>1, <2>2
  <1>7. State(r)' \in {"WAITING", "SWAPPING", "SENDING", "SENT", "COMPLETED", "FAILED"}
    BY <1>1 DEF StateCases, SendingState
  <1>8. ASSUME Egress(r)' # None
        PROVE  State(r)' \in {"SENDING", "SENT", "COMPLETED", "FAILED"}
    BY <1>1, <1>8 DEF StateCases, SendingState
  <1>9. ASSUME State(r) \in {"SENDING", "SENT"} PROVE Egress(r)' # None
    <2>1. Egress(r) # None
      BY <1>1, <1>9 DEF StateCases, IsSending
    <2> QED BY <2>1, EgressShownStays
  <1>10. ASSUME State(r) = "SENT" PROVE State(r)' # "SENDING"
    <2>1. Pending(r, "swap") \/ Pending(r, "refund")
      BY <1>1, <1>10 DEF StateCases, SendingState
    <2>2. Pending(r, "swap")' \/ Pending(r, "refund")'
      BY <2>1, RoleNames
    <2> QED BY <1>1, <2>2 DEF StateCases, SendingState
  <1>11. ASSUME State(r) = "SWAPPING" PROVE State(r)' # "WAITING"
    <2>1. Chunks(r) # {}
      BY <1>1, <1>11 DEF StateCases, SendingState
    <2>2. Chunks(r)' # {}
      <3>1. PICK n \in ChunkNos : swap[<<r, n>>] # None
        BY <2>1 DEF Chunks
      <3>2. swap'[<<r, n>>] # None
        BY <3>1, ChunksStay DEF IInv
      <3> QED BY <3>2 DEF Chunks
    <2> QED BY <1>1, <2>2 DEF StateCases, SendingState
  <1> QED BY <1>3, <1>5, <1>6, <1>7, <1>8, <1>9, <1>10, <1>11

(* The state that a client polls never goes back, and COMPLETED and FAILED  *)
(* are left, only when a fallback is requested or redis forgets.           *)
THEOREM StateGoesBack == Spec => StateGoesBackOnlyBy
  <1> DEFINE Excused(r) == \/ Has(r, "fallback")' /\ ~Has(r, "fallback")
                           \/ \E role \in Roles : Pending(r, role) /\ ~Pending(r, role)'
             Holds == \A r \in Requests : GoesBack(r) => Excused(r)
  <1>1. IInv /\ [Next]_vars => Holds
    <2> SUFFICES ASSUME IInv, [Next]_vars, NEW r \in Requests, ~Excused(r), GoesBack(r)
                 PROVE  FALSE
      OBVIOUS
    <2>0. State(r)' \in {"WAITING", "SWAPPING", "SENDING", "SENT", "COMPLETED", "FAILED"}
      BY DEF State, SendingState
    <2>1. CASE request[r] = None
      <3>1. State(r) = "WAITING"
        BY <2>1 DEF State
      <3> QED BY <2>0, <3>1, RankOf DEF GoesBack
    <2>2. CASE request[r] # None
      <3>0. \A role \in Roles : Pending(r, role) => Pending(r, role)'
        OBVIOUS
      <3>1. State(r) \in {"WAITING", "SWAPPING", "SENDING", "SENT", "COMPLETED", "FAILED"}
        BY DEF State, SendingState
      <3>2. /\ State(r) \in {"COMPLETED", "FAILED"} => State(r)' = State(r)
            /\ State(r) = "SENT" => State(r)' \in {"SENT", "COMPLETED", "FAILED"}
            /\ State(r) = "SENDING" => State(r)' \in {"SENDING", "SENT", "COMPLETED", "FAILED"}
            /\ State(r) = "SWAPPING" =>
                  State(r)' \in {"SWAPPING", "SENDING", "SENT", "COMPLETED", "FAILED"}
        BY <2>2, <3>0, StateStays
      <3> QED BY <2>0, <3>1, <3>2, RankOf DEF GoesBack
    <2> QED BY <2>1, <2>2
  <1>2. IInv /\ [Next]_vars => [Holds]_vars
    BY <1>1
  <1> HIDE DEF Holds
  <1>3. Spec => [][Holds]_vars
    BY <1>2, Invariance, PTL DEF Spec
  <1> QED BY <1>3, PTL DEF StateGoesBackOnlyBy, Holds

----------------------------------------------------------------------------
(* A poll.                                                                 *)

AllStates == {"WAITING", "SWAPPING", "SENDING", "SENT", "COMPLETED", "FAILED"}
Polls == [r : Requests, pc : Fields \cup {"answered"}, answer : AllStates,
          rows : [Fields -> Broadcasts \cup {None, Unsent}],
          seen : SUBSET AllStates, behind : BOOLEAN]
Reading == poll.pc \in Fields

(* The broadcasts that the poll has still to ask redis for.                *)
ToRead(pc) == CASE pc = "swap" -> Fields [] pc = "refund" -> {"refund", "fallback"}
                [] pc = "fallback" -> {"fallback"}

(* The poll saw every state from its first read on.  A broadcast that it   *)
(* read is still that of its egress.                                       *)
PollSees ==
    Reading => /\ request[poll.r] # None /\ State(poll.r) \in poll.seen
               /\ poll.answer \in {"SENDING", "SENT"}
               /\ \A role \in Fields : poll.rows[role] \in Broadcasts =>
                     egress[<<poll.r, role>>] = poll.rows[role]

(* A poll that nothing left behind has read the rows that are there; it is *)
(* SENT only while a broadcast is pending, and it is SENDING only if it    *)
(* was, or else the broadcast that says more is still to be read.          *)
PollKeepsUp ==
    Reading /\ ~poll.behind =>
       /\ \A role \in Fields : poll.rows[role] = egress[<<poll.r, role>>]
       /\ (\E role \in Fields : poll.rows[role] \in Broadcasts) => IsSending(poll.r)
       /\ poll.answer = "SENT" => Pending(poll.r, "swap") \/ Pending(poll.r, "refund")
       /\ poll.answer = "SENDING" =>
             "SENDING" \in poll.seen \/ \E role \in ToRead(poll.pc) : Pending(poll.r, role)

PollInv == /\ IInv /\ (poll = NoPoll \/ poll \in Polls)
           /\ PollSees /\ PollKeepsUp /\ AnswerWasTrue

LEMMA PollSteps == [PollNext]_pollVars => [Next]_vars
  BY DEF PollNext, Step, ReadRows, ReadRedis, RedisFails, pollVars, vars

LEMMA FieldRoles ==
  /\ Fields \subseteq Roles
  /\ \A role \in Fields : role = "swap" \/ role = "refund" \/ role = "fallback"
  /\ "swap" \in Fields /\ "refund" \in Fields /\ "fallback" \in Fields
  /\ "idle" \notin Fields /\ "answered" \notin Fields
  BY DEF Fields, Roles

LEMMA StateIsOne == \A r \in Requests : State(r) \in AllStates
  BY DEF State, SendingState, AllStates

(* When the rows are read.                                                 *)
LEMMA ReadRowsKeeps ==
  ASSUME PollInv, NEW r \in Requests, ReadRows(r) PROVE PollInv'
  <1> DEFINE rows == [role \in Fields |-> egress[<<r, role>>]]
             pc == IF IsSending(r) THEN "swap" ELSE "answered"
             answer == IF IsSending(r) THEN "SENDING" ELSE State(r)
  <1>1. /\ poll' = [r |-> r, pc |-> pc, answer |-> answer, rows |-> rows,
                    seen |-> {State(r)}, behind |-> FALSE]
        /\ UNCHANGED vars
    BY DEF ReadRows
  <1>2. rows \in [Fields -> Broadcasts \cup {None, Unsent}]
    BY FieldRoles, EgressPairs DEF PollInv, IInv, Types
  <1>3. answer \in AllStates /\ State(r) \in AllStates
    BY StateIsOne DEF AllStates
  <1>4. pc \in Fields \cup {"answered"} /\ (pc \in Fields <=> IsSending(r))
    BY FieldRoles
  <1>5. IInv'
    BY <1>1, StepKeeps DEF PollInv
  <1>6. /\ \A role \in Fields : rows[role] = egress[<<r, role>>]
        /\ IsSending(r) => request[r] # None /\ answer = "SENDING" /\ pc = "swap"
        /\ ~IsSending(r) => answer = State(r)
        /\ ToRead("swap") = Fields
    BY DEF IsSending, ToRead
  <1>7. IsSending(r) => State(r) = "SENDING" \/ \E role \in Fields : Pending(r, role)
    BY States, FieldRoles DEF IsSending, SendingState
  <1>8. UNCHANGED <<egress, request>> /\ State(r)' = State(r) /\ IsSending(r)' = IsSending(r)
        /\ \A role \in Fields : Pending(r, role)' = Pending(r, role)
    BY <1>1 DEF vars, State, IsSending, SendingState, Failed, Egress, Has, Ended, Sent, Pending,
                Chunks
  <1> HIDE DEF rows, pc, answer
  <1>9. poll' \in Polls
    BY <1>1, <1>2, <1>3, <1>4 DEF Polls
  <1>10. /\ poll'.r = r /\ poll'.pc = pc /\ poll'.answer = answer /\ poll'.rows = rows
         /\ poll'.seen = {State(r)} /\ poll'.behind = FALSE
    BY <1>1
  <1>11. PollSees'
    BY <1>4, <1>6, <1>8, <1>10 DEF PollSees, Reading
  <1>12. PollKeepsUp'
    BY <1>4, <1>6, <1>7, <1>8, <1>10 DEF PollKeepsUp, Reading
  <1>13. AnswerWasTrue'
    BY <1>4, <1>6, <1>10 DEF AnswerWasTrue
  <1> QED BY <1>5, <1>9, <1>11, <1>12, <1>13 DEF PollInv

(* What a read of redis leaves as it is.                                   *)
LEMMA ReadMovesOn ==
  ASSUME PollInv, NEW role \in Fields, poll.pc = role, NEW answer \in AllStates, NEW b \in BOOLEAN,
         poll' = [poll EXCEPT !.pc = After(role), !.answer = answer, !.behind = b],
         UNCHANGED vars
  PROVE  /\ IInv' /\ poll' \in Polls /\ poll \in Polls /\ Reading
         /\ poll'.r = poll.r /\ poll'.pc = After(role) /\ poll'.answer = answer
         /\ poll'.rows = poll.rows /\ poll'.seen = poll.seen /\ poll'.behind = b
         /\ UNCHANGED <<egress, request>> /\ poll.r \in Requests
         /\ \A r \in Requests : /\ State(r)' = State(r) /\ IsSending(r)' = IsSending(r)
                                /\ \A f \in Fields : Pending(r, f)' = Pending(r, f)
  <1>1. IInv'
    BY StepKeeps DEF PollInv
  <1>2. Reading /\ poll \in Polls
    BY FieldRoles DEF PollInv, NoPoll, Reading
  <1>3. After(role) \in Fields \cup {"answered"}
    BY FieldRoles DEF After
  <1>4. /\ poll' \in Polls /\ poll'.r = poll.r /\ poll'.pc = After(role) /\ poll'.answer = answer
        /\ poll'.rows = poll.rows /\ poll'.seen = poll.seen /\ poll'.behind = b
        /\ poll.r \in Requests
    BY <1>2, <1>3 DEF Polls
  <1>5. UNCHANGED <<egress, request>>
        /\ \A r \in Requests : /\ State(r)' = State(r) /\ IsSending(r)' = IsSending(r)
                               /\ \A f \in Fields : Pending(r, f)' = Pending(r, f)
    BY DEF vars, State, IsSending, SendingState, Failed, Egress, Has, Ended, Sent, Pending, Chunks
  <1> QED BY <1>1, <1>2, <1>4, <1>5

LEMMA AfterFields ==
  /\ After("swap") = "refund" /\ After("refund") = "fallback" /\ After("fallback") = "answered"
  /\ ToRead("swap") = {"swap"} \cup ToRead("refund")
  /\ ToRead("refund") = {"refund"} \cup ToRead("fallback") /\ ToRead("fallback") = {"fallback"}
  BY DEF After, ToRead, Fields

LEMMA ReadRedisKeeps ==
  ASSUME PollInv, NEW role \in Fields, ReadRedis(role) PROVE PollInv'
  <1> DEFINE known == poll.rows[role] \in tracked
             answer == IF known THEN OnItsWay(role) ELSE poll.answer
  <1>1. /\ poll.pc = role /\ UNCHANGED vars
        /\ poll' = [poll EXCEPT !.pc = After(role), !.answer = answer]
    BY DEF ReadRedis
  <1>2. poll \in Polls /\ Reading
    BY <1>1, FieldRoles DEF PollInv, NoPoll, Reading
  <1>3. answer \in AllStates
    BY <1>2 DEF Polls, OnItsWay, AllStates
  <1>4. poll' = [poll EXCEPT !.pc = After(role), !.answer = answer, !.behind = poll.behind]
    BY <1>1, <1>2 DEF Polls
  <1>5. poll.behind \in BOOLEAN
    BY <1>2 DEF Polls
  <1> HIDE DEF answer
  <1>0. PICK r \in Requests : r = poll.r
    BY <1>2 DEF Polls
  <1>6. /\ IInv' /\ poll' \in Polls
        /\ poll'.r = r /\ poll'.pc = After(role) /\ poll'.answer = answer
        /\ poll'.rows = poll.rows /\ poll'.seen = poll.seen /\ poll'.behind = poll.behind
        /\ UNCHANGED <<egress, request>> /\ State(r)' = State(r) /\ IsSending(r)' = IsSending(r)
        /\ \A f \in Fields : Pending(r, f)' = Pending(r, f)
    BY <1>0, <1>1, <1>3, <1>4, <1>5, ReadMovesOn
  <1>7. /\ request[r] # None /\ State(r) \in poll.seen /\ poll.answer \in {"SENDING", "SENT"}
        /\ \A f \in Fields : poll.rows[f] \in Broadcasts => egress[<<r, f>>] = poll.rows[f]
    BY <1>0, <1>2 DEF PollInv, PollSees
  <1>8. known => Pending(r, role)
    <2>1. known => poll.rows[role] \in Broadcasts
      BY DEF PollInv, IInv, Types
    <2> QED BY <1>7, <2>1, NoneAssumption DEF Pending, Sent, Has
  <1>9. ~poll.behind =>
           /\ \A f \in Fields : poll.rows[f] = egress[<<r, f>>]
           /\ (\E f \in Fields : poll.rows[f] \in Broadcasts) => IsSending(r)
           /\ poll.answer = "SENT" => Pending(r, "swap") \/ Pending(r, "refund")
           /\ poll.answer = "SENDING" =>
                 "SENDING" \in poll.seen \/ \E f \in ToRead(role) : Pending(r, f)
    BY <1>0, <1>1, <1>2 DEF PollInv, PollKeepsUp
  <1>10. ~poll.behind => (known <=> Pending(r, role))
    BY <1>8, <1>9 DEF Pending, Sent
  <1> HIDE DEF known
  <1>11. PollSees'
    <2>1. ASSUME After(role) \in Fields PROVE answer \in {"SENDING", "SENT"}
      BY <1>7, <2>1, FieldRoles, AfterFields DEF answer, OnItsWay
    <2> QED BY <1>6, <1>7, <2>1 DEF PollSees, Reading
  <1>12. PollKeepsUp'
    <2>1. CASE role = "fallback"
      BY <1>6, <2>1, AfterFields, FieldRoles DEF PollKeepsUp, Reading
    <2>2. CASE role # "fallback"
      <3>1. answer = IF known THEN "SENT" ELSE poll.answer
        BY <2>2 DEF answer, OnItsWay
      <3>2. role = "swap" \/ role = "refund"
        BY <2>2, FieldRoles
      <3>3. ToRead(role) = {role} \cup ToRead(After(role))
        BY <3>2, AfterFields
      <3>4. ToRead(After(role)) \subseteq Fields
        BY <3>2, AfterFields, FieldRoles
      <3>5. ~poll.behind =>
              /\ answer = "SENT" => Pending(r, "swap") \/ Pending(r, "refund")
              /\ answer = "SENDING" =>
                    "SENDING" \in poll.seen \/ \E f \in ToRead(After(role)) : Pending(r, f)
        BY <1>8, <1>9, <1>10, <3>1, <3>2, <3>3
      <3> QED BY <1>6, <1>9, <3>4, <3>5, FieldRoles DEF PollKeepsUp, Reading
    <2> QED BY <2>1, <2>2
  <1>13. AnswerWasTrue'
    <2>1. CASE role # "fallback"
      BY <1>6, <2>1, AfterFields, FieldRoles DEF AnswerWasTrue
    <2>2. CASE role = "fallback" /\ known
      <3>1. answer = "FAILED"
        BY <2>2 DEF answer, OnItsWay
      <3>2. Has(r, "fallback") /\ Pending(r, "fallback")
        BY <1>8, <2>2 DEF Pending, Sent
      <3>3. Egress(r) = "fallback" /\ Egress(r) # None
        BY <3>2, RoleNames, NoneAssumption DEF Egress
      <3>4. State(r) = "FAILED"
        <4>1. CASE Failed(r)
          BY <1>6, <1>7, <4>1, States
        <4>2. CASE ~Failed(r)
          <5>1. IsSending(r)
            BY <1>7, <3>3, <4>2 DEF IsSending, Failed
          <5> QED BY <1>6, <1>7, <3>2, <5>1, States DEF SendingState
        <4> QED BY <4>1, <4>2
      <3> QED BY <1>6, <1>7, <3>1, <3>4 DEF AnswerWasTrue
    <2>3. CASE role = "fallback" /\ ~known
      <3>1. answer = poll.answer
        BY <2>3 DEF answer
      <3>2. CASE poll.behind
        BY <1>6, <1>7, <3>1, <3>2 DEF AnswerWasTrue
      <3>3. CASE ~poll.behind
        <4>1. ~Pending(r, "fallback")
          BY <1>10, <2>3, <3>3
        <4>2. CASE poll.answer = "SENDING"
          <5>1. "SENDING" \in poll.seen
            BY <1>9, <2>3, <3>3, <4>1, <4>2, AfterFields
          <5> QED BY <1>6, <3>1, <4>2, <5>1 DEF AnswerWasTrue
        <4>3. CASE poll.answer = "SENT"
          <5>1. PICK f \in {"swap", "refund"} : Pending(r, f)
            BY <1>9, <3>3, <4>3
          <5>2. poll.rows[f] \in Broadcasts
            BY <1>9, <3>3, <5>1, FieldRoles DEF Pending, PollInv, IInv, Types
          <5>3. IsSending(r)
            BY <1>9, <3>3, <5>2, FieldRoles
          <5>4. State(r) = "SENT"
            BY <1>6, <1>7, <4>1, <5>1, <5>3, States DEF SendingState
          <5> QED BY <1>6, <1>7, <3>1, <4>3, <5>4 DEF AnswerWasTrue
        <4> QED BY <1>7, <4>2, <4>3
      <3> QED BY <3>2, <3>3
    <2> QED BY <2>1, <2>2, <2>3
  <1> QED BY <1>6, <1>11, <1>12, <1>13 DEF PollInv

LEMMA RedisFailsKeeps ==
  ASSUME PollInv, NEW role \in Fields, RedisFails(role) PROVE PollInv'
  <1>1. /\ poll.pc = role /\ UNCHANGED vars
        /\ poll' = [poll EXCEPT !.pc = After(role), !.behind = TRUE]
    BY DEF RedisFails
  <1>2. poll \in Polls /\ Reading
    BY <1>1, FieldRoles DEF PollInv, NoPoll, Reading
  <1>3. poll' = [poll EXCEPT !.pc = After(role), !.answer = poll.answer, !.behind = TRUE]
    BY <1>1, <1>2 DEF Polls
  <1>4. poll.answer \in AllStates
    BY <1>2 DEF Polls
  <1>5. /\ IInv' /\ poll' \in Polls /\ poll.r \in Requests
        /\ poll'.r = poll.r /\ poll'.pc = After(role) /\ poll'.answer = poll.answer
        /\ poll'.rows = poll.rows /\ poll'.seen = poll.seen /\ poll'.behind = TRUE
        /\ UNCHANGED <<egress, request>> /\ \A r \in Requests : State(r)' = State(r)
    BY <1>1, <1>3, <1>4, ReadMovesOn
  <1>6. PollSees'
    BY <1>2, <1>5 DEF PollInv, PollSees, Reading
  <1>7. PollKeepsUp' /\ AnswerWasTrue'
    BY <1>2, <1>5 DEF PollInv, PollSees, PollKeepsUp, AnswerWasTrue
  <1> QED BY <1>5, <1>6, <1>7 DEF PollInv

(* A handler or the tracker moves on while the poll reads.                 *)
LEMMA StepKeepsPoll ==
  ASSUME PollInv, Step PROVE PollInv'
  <1>1. IInv /\ [Next]_vars /\ IInv'
    BY StepKeeps DEF PollInv, Step
  <1>2. CASE poll.pc \in {"idle", "answered"}
    <2>1. UNCHANGED poll
      BY <1>2 DEF Step
    <2>2. ~Reading
      BY <1>2, FieldRoles DEF Reading
    <2> QED BY <1>1, <2>1, <2>2 DEF PollInv, PollSees, PollKeepsUp, Reading, AnswerWasTrue
  <1>3. CASE poll.pc \notin {"idle", "answered"}
    <2>1. poll \in Polls /\ Reading
      BY <1>3 DEF PollInv, NoPoll, Polls, Reading
    <2>2. PICK r \in Requests : r = poll.r
      BY <2>1 DEF Polls
    <2>3. poll' = Watched(r)
      BY <1>3, <2>2 DEF Step
    <2> DEFINE left == Leaves(r) \/ Rows(r)' # Rows(r)
    <2>4. poll' = [poll EXCEPT !.seen = @ \cup {State(r)'}, !.behind = @ \/ left]
      BY <2>3 DEF Watched
    <2>5. State(r)' \in AllStates
      BY DEF State, SendingState, AllStates
    <2>6. /\ poll'.r = r /\ poll'.pc = poll.pc /\ poll'.answer = poll.answer
          /\ poll'.rows = poll.rows /\ poll'.seen = poll.seen \cup {State(r)'}
          /\ poll'.behind = (poll.behind \/ left)
      BY <2>1, <2>2, <2>4 DEF Polls
    <2>7. poll' \in Polls
      <3>1. (poll.behind \/ left) \in BOOLEAN
        OBVIOUS
      <3>2. poll.seen \cup {State(r)'} \in SUBSET AllStates
        BY <2>1, <2>5 DEF Polls
      <3> HIDE DEF left
      <3> QED BY <2>1, <2>4, <3>1, <3>2 DEF Polls
    <2>8. /\ request[r] # None /\ State(r) \in poll.seen /\ poll.answer \in {"SENDING", "SENT"}
          /\ \A f \in Fields : poll.rows[f] \in Broadcasts => egress[<<r, f>>] = poll.rows[f]
      BY <2>1, <2>2 DEF PollInv, PollSees
    <2>9. request'[r] # None
      BY <1>1, <2>8, RequestStays DEF IInv
    <2>10. ASSUME NEW f \in Fields, poll.rows[f] \in Broadcasts
           PROVE  egress'[<<r, f>>] = poll.rows[f]
      <3>1. <<r, f>> \in Egresses
        BY EgressPairs, FieldRoles
      <3> QED BY <1>1, <2>8, <2>10, <3>1, EgressStays DEF IInv
    <2>11. PollSees'
      BY <2>6, <2>8, <2>9, <2>10 DEF PollSees, Reading
    <2>12. PollKeepsUp'
      <3>1. ASSUME ~poll.behind, ~left
            PROVE  /\ \A f \in Fields : poll.rows[f] = egress'[<<r, f>>]
                   /\ (\E f \in Fields : poll.rows[f] \in Broadcasts) => IsSending(r)'
                   /\ poll.answer = "SENT" => Pending(r, "swap")' \/ Pending(r, "refund")'
                   /\ poll.answer = "SENDING" =>
                         "SENDING" \in poll.seen \/ \E f \in ToRead(poll.pc) : Pending(r, f)'
        <4>1. /\ \A f \in Fields : poll.rows[f] = egress[<<r, f>>]
              /\ (\E f \in Fields : poll.rows[f] \in Broadcasts) => IsSending(r)
              /\ poll.answer = "SENT" => Pending(r, "swap") \/ Pending(r, "refund")
              /\ poll.answer = "SENDING" =>
                    "SENDING" \in poll.seen \/ \E f \in ToRead(poll.pc) : Pending(r, f)
          BY <2>1, <2>2, <3>1 DEF PollInv, PollKeepsUp
        <4>2. \A f \in Fields : Pending(r, f) => Pending(r, f)'
          BY <3>1 DEF Leaves
        <4>3. Rows(r)' = Rows(r)
          BY <3>1
        <4>4. ASSUME NEW f \in Fields
              PROVE  /\ egress'[<<r, f>>] = egress[<<r, f>>]
                     /\ egress[<<r, f>>] \in Broadcasts =>
                           broadcast'[egress[<<r, f>>]] = broadcast[egress[<<r, f>>]]
          <5> DEFINE Row(b) == <<b, IF b \in Broadcasts THEN broadcast[b] ELSE None>>
          <5>1. Rows(r)[f] = Row(egress[<<r, f>>])
            BY DEF Rows
          <5>2. Rows(r)'[f] = <<egress'[<<r, f>>], IF egress'[<<r, f>>] \in Broadcasts
                                                   THEN broadcast'[egress'[<<r, f>>]] ELSE None>>
            BY DEF Rows
          <5> QED BY <4>3, <5>1, <5>2
        <4>5. ASSUME NEW f \in Fields, poll.rows[f] \in Broadcasts PROVE IsSending(r)'
          <5>1. egress[<<r, f>>] \in Broadcasts /\ IsSending(r)
            BY <4>1, <4>5
          <5>2. request[r].completed
            <6>1. <<r, f>> \in Egresses
              BY EgressPairs, FieldRoles
            <6> QED BY <1>1, <5>1, <6>1 DEF IInv, SentWhenCompleted
          <5>3. request'[r] = request[r]
            BY <1>1, <2>8, <5>2, RequestStays DEF IInv
          <5>4. ASSUME NEW g \in Fields, NEW how
                PROVE  /\ Has(r, g)' <=> Has(r, g)
                       /\ Ended(r, g, how)' <=> Ended(r, g, how)
            <6>1. egress[<<r, g>>] \in Broadcasts \cup {None, Unsent}
              BY <1>1, EgressPairs, FieldRoles DEF IInv, Types
            <6> QED BY <4>4, <6>1 DEF Has, Ended, Sent
          <5>5. Egress(r)' = Egress(r)
            BY <5>4, FieldRoles DEF Egress
          <5>6. Egress(r) # None => Egress(r) \in Fields
            BY EgressShown, FieldRoles
          <5> QED BY <5>1, <5>3, <5>4, <5>5, <5>6, FieldRoles DEF IsSending, Failed
        <4>6. poll.pc \in Fields /\ ToRead(poll.pc) \subseteq Fields
          BY <2>1, FieldRoles, AfterFields DEF Reading
        <4> QED BY <4>1, <4>2, <4>4, <4>5, <4>6, FieldRoles
      <3>2. ~poll'.behind => ~poll.behind /\ ~left
        BY <2>6
      <3> HIDE DEF left
      <3> QED BY <2>6, <3>1, <3>2 DEF PollKeepsUp, Reading
    <2>13. AnswerWasTrue'
      BY <2>1, <2>6, FieldRoles DEF AnswerWasTrue, Reading
    <2> QED BY <1>1, <2>7, <2>11, <2>12, <2>13 DEF PollInv
  <1> QED BY <1>2, <1>3

(* A poll answers a state that the request had while it was polled, or one *)
(* that is only behind: for any handlers between its reads.                *)
THEOREM PollAnswersTruly == PollSpec => []AnswerWasTrue
  <1>1. PollInit => PollInv
    BY Initially, FieldRoles
       DEF PollInit, PollInv, NoPoll, PollSees, PollKeepsUp, Reading, AnswerWasTrue
  <1>2. PollInv /\ [PollNext]_pollVars => PollInv'
    <2> SUFFICES ASSUME PollInv, [PollNext]_pollVars PROVE PollInv'
      OBVIOUS
    <2>1. CASE UNCHANGED pollVars
      <3>1. IInv' /\ UNCHANGED poll /\ UNCHANGED vars
        BY <2>1, StepKeeps DEF PollInv, pollVars
      <3> QED BY <3>1 DEF PollInv, PollSees, PollKeepsUp, Reading, AnswerWasTrue, vars, State,
                          IsSending, SendingState, Failed, Egress, Has, Ended, Sent, Pending, Chunks
    <2> QED BY <2>1, StepKeepsPoll, ReadRowsKeeps, ReadRedisKeeps, RedisFailsKeeps DEF PollNext
  <1>3. PollInv => AnswerWasTrue
    BY DEF PollInv
  <1> QED BY <1>1, <1>2, <1>3, PTL DEF PollSpec

=============================================================================
