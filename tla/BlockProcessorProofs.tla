------------------------- MODULE BlockProcessorProofs -------------------------
(***************************************************************************)
(* Theorems about BlockProcessor, for any number of instances, any batch   *)
(* size and any chain.                                                     *)
(***************************************************************************)
EXTENDS BlockProcessor, SequenceTheorems, TLAPS

(***************************************************************************)
(* What every instance knows is true: its lastBlock is committed, its      *)
(* batch and the batch it fetches are blocks of the chain, a pending fetch *)
(* continues where the batch ends, and a block inside a transaction is the *)
(* one after lastBlock.                                                    *)
(***************************************************************************)
InstanceInv(i) ==
  /\ -1 <= lastBlock[i] /\ lastBlock[i] <= stateHeight
  /\ \A k \in DOMAIN batch[i] : batch[i][k] <= tip
  /\ \A k \in DOMAIN fetch[i].blocks : fetch[i].blocks[k] <= tip
  /\ pc[i] \notin {"check", "tx"} => batch[i] = << >>
  /\ pc[i] = "tx" => Head(batch[i]) = lastBlock[i] + 1
  /\ (pc[i] = "tx" /\ handled[i] > 0) => Head(batch[i]) \notin BadBlocks
  /\ pc[i] \in {"down", "resume", "sleep", "stopped"} => fetch[i].status = "none"
  /\ pc[i] = "await" => fetch[i].status # "none"
  /\ fetch[i].status # "none" => fetch[i].from = lastBlock[i] + Len(batch[i]) + 1
  /\ (fetch[i].status = "ok" /\ fetch[i].blocks # << >>)
       => \/ Head(fetch[i].blocks) = fetch[i].from
          \/ Head(fetch[i].blocks) <= hotFrom

DatabaseInv ==
  /\ -1 <= stateHeight /\ stateHeight <= tip
  /\ ExactlyOnceInOrder

IInv == TypeOK /\ DatabaseInv /\ \A i \in Instances : InstanceInv(i)

-------------------------------------------------------------------------------
(* Facts about sequences and rows.                                         *)

\* getBlocks returns existing blocks; the first is the requested one unless
\* the archiver has dropped it.
LEMMA RowsFacts ==
  ASSUME TypeOK, BatchSize \in Nat, NEW from \in Int
  PROVE  /\ Rows(from) \in Seq(Int)
         /\ \A k \in DOMAIN Rows(from) : Rows(from)[k] <= tip
         /\ Rows(from) # << >> =>
              Head(Rows(from)) = from \/ Head(Rows(from)) <= hotFrom
<1> DEFINE first == IF from < hotFrom THEN hotFrom ELSE from
           n == IF tip < first THEN 0
                ELSE IF tip - first + 1 < BatchSize THEN tip - first + 1
                ELSE BatchSize
<1>1. first \in Int /\ (first = from \/ first <= hotFrom)
  BY DEF TypeOK
<1>2. n \in Nat /\ (n > 0 => first + n - 1 <= tip)
  BY <1>1 DEF TypeOK
<1>3. Rows(from) = [k \in 1 .. n |-> first + k - 1]
  BY DEF Rows
<1> HIDE DEF first, n
<1>4. Rows(from) \in Seq(Int) /\ Len(Rows(from)) = n
  BY <1>1, <1>2, <1>3
<1>5. ASSUME NEW k \in DOMAIN Rows(from) PROVE Rows(from)[k] <= tip
  BY <1>1, <1>2, <1>3, <1>5 DEF TypeOK
<1>6. Rows(from) # << >> => Head(Rows(from)) = first
  <2> SUFFICES ASSUME Rows(from) # << >> PROVE Head(Rows(from)) = first
    OBVIOUS
  <2>1. 1 \in 1 .. n
    BY <1>2, <1>4
  <2> QED
    BY <2>1, <1>1, <1>3, <1>4
<1> QED
  BY <1>1, <1>4, <1>5, <1>6

\* Appending the next height keeps the log the initial segment of the chain.
LEMMA AppendNext ==
  ASSUME NEW h \in Int, h >= -1, NEW s,
         s = [k \in 1 .. h + 1 |-> k - 1]
  PROVE  /\ s \in Seq(Int) /\ Len(s) = h + 1
         /\ Append(s, h + 1) = [k \in 1 .. (h + 1) + 1 |-> k - 1]
<1>1. h + 1 \in Nat /\ s \in Seq(Int) /\ Len(s) = h + 1
  OBVIOUS
<1>2. Append(s, h + 1) \in Seq(Int) /\ Len(Append(s, h + 1)) = h + 2
  BY <1>1
<1>3. ASSUME NEW k \in 1 .. h + 2 PROVE Append(s, h + 1)[k] = k - 1
  BY <1>1, <1>3
<1>4. Append(s, h + 1) = [k \in 1 .. h + 2 |-> Append(s, h + 1)[k]]
  BY <1>2
<1> QED
  BY <1>1, <1>3, <1>4

\* What is left of a non-empty batch.
LEMMA TailFacts ==
  ASSUME NEW s \in Seq(Int), s # << >>, NEW bound \in Int,
         \A k \in DOMAIN s : s[k] <= bound
  PROVE  /\ Head(s) \in Int /\ Head(s) <= bound
         /\ Tail(s) \in Seq(Int) /\ Len(Tail(s)) = Len(s) - 1
         /\ Len(s) \in Nat \ {0}
         /\ \A k \in DOMAIN Tail(s) : Tail(s)[k] <= bound
<1>1. Len(s) \in Nat \ {0}
  OBVIOUS
<1>2. Tail(s) \in Seq(Int) /\ Len(Tail(s)) = Len(s) - 1
  OBVIOUS
<1>3. ASSUME NEW k \in DOMAIN Tail(s) PROVE Tail(s)[k] <= bound
  <2>1. k \in 1 .. Len(s) - 1 /\ Tail(s)[k] = s[k + 1]
    BY <1>1, <1>2, <1>3
  <2>2. k + 1 \in DOMAIN s
    BY <1>1, <2>1
  <2> QED
    BY <2>1, <2>2
<1>4. 1 \in DOMAIN s /\ Head(s) = s[1]
  BY <1>1
<1> QED
  BY <1>1, <1>2, <1>3, <1>4

-------------------------------------------------------------------------------
(* The inductive invariant.                                                *)

LEMMA InitInv == Init => IInv
<1> SUFFICES ASSUME Init PROVE IInv
  OBVIOUS
<1>1. TypeOK
  BY ProcessorAssumption DEF Init, TypeOK, PCs, FetchStatus, NoFetch, NoCache
<1>2. DatabaseInv
  BY DEF Init, DatabaseInv, ExactlyOnceInOrder
<1>3. ASSUME NEW i \in Instances PROVE InstanceInv(i)
  BY DEF Init, InstanceInv, NoFetch
<1> QED
  BY <1>1, <1>2, <1>3 DEF IInv

\* A process that ends, for whatever reason, leaves nothing behind.
LEMMA EndProcessKeeps ==
  ASSUME IInv, NEW i \in Instances, NEW how \in {"down", "stopped"},
         EndProcess(i, how), UNCHANGED <<indexer, database>>,
         faults' \in 0 .. MaxFaults
  PROVE  IInv'
<1>1. TypeOK'
  <2>1. TypeOK /\ UNCHANGED <<indexer, database>>
    BY DEF IInv
  <2>2. /\ NoFetch \in [status: FetchStatus, from: Int,
                        tries: 0 .. FetchAttempts - 1, blocks: Seq(Int)]
        /\ NoCache \in [read: BOOLEAN, mark: Int]
        /\ 0 \in 0 .. EventsPerBlock /\ how \in PCs
    BY ProcessorAssumption DEF NoFetch, NoCache, FetchStatus, PCs
  <2>3. /\ tip' \in Int /\ watermark' \in Int /\ hotFrom' \in Nat
        /\ stateHeight' \in Int /\ applied' \in Seq(Int)
    BY <2>1 DEF TypeOK, indexer, database
  <2>4. /\ pc' \in [Instances -> PCs]
        /\ run' \in [Instances -> BOOLEAN]
        /\ lastBlock' \in [Instances -> Int]
        /\ batch' \in [Instances -> Seq(Int)]
        /\ handled' \in [Instances -> 0 .. EventsPerBlock]
    BY <2>1, <2>2 DEF TypeOK, EndProcess
  <2>5. /\ fetch' \in [Instances -> [status: FetchStatus, from: Int,
                                     tries: 0 .. FetchAttempts - 1,
                                     blocks: Seq(Int)]]
        /\ cache' \in [Instances -> [read: BOOLEAN, mark: Int]]
    BY <2>1, <2>2 DEF TypeOK, EndProcess
  <2>6. ASSUME NEW j \in Instances, pc'[j] \in {"check", "tx"}
        PROVE  batch'[j] # << >>
    BY <2>1, <2>6 DEF TypeOK, EndProcess
  <2> QED
    BY <2>3, <2>4, <2>5, <2>6 DEF TypeOK
<1>2. DatabaseInv'
  BY DEF IInv, DatabaseInv, ExactlyOnceInOrder, indexer, database
<1>3. ASSUME NEW j \in Instances PROVE InstanceInv(j)'
  <2>1. CASE j = i
    BY <2>1 DEF IInv, TypeOK, DatabaseInv, InstanceInv, EndProcess, NoFetch,
                indexer, database
  <2>2. CASE j # i
    BY <2>2 DEF IInv, TypeOK, InstanceInv, EndProcess, indexer, database
  <2> QED
    BY <2>1, <2>2
<1> QED
  BY <1>1, <1>2, <1>3 DEF IInv

LEMMA FaultType == ASSUME TypeOK, Fault PROVE faults' \in 0 .. MaxFaults
  BY ProcessorAssumption DEF TypeOK, Fault

\* The chain grows and the archiver moves: nothing that was true of blocks
\* of the chain stops being true.
LEMMA IndexerKeeps == IInv /\ (Produce \/ Archive \/ Prune) => IInv'
<1> SUFFICES ASSUME IInv, Produce \/ Archive \/ Prune PROVE IInv'
  OBVIOUS
<1>1. /\ tip' \in Int /\ tip <= tip' /\ watermark' \in Int
      /\ hotFrom' \in Nat /\ hotFrom <= hotFrom'
      /\ UNCHANGED <<database, process, faults>>
  BY ProcessorAssumption DEF IInv, TypeOK, Produce, Archive, Prune
<1>2. TypeOK'
  BY <1>1 DEF IInv, TypeOK, database, process
<1>3. DatabaseInv'
  BY <1>1 DEF IInv, TypeOK, DatabaseInv, ExactlyOnceInOrder, database
<1>4. ASSUME NEW j \in Instances PROVE InstanceInv(j)'
  <2>1. UNCHANGED <<pc[j], lastBlock[j], batch[j], handled[j], fetch[j],
                    stateHeight>>
    BY <1>1 DEF process, database
  <2>2. InstanceInv(j) /\ TypeOK
    BY DEF IInv
  <2>3. /\ batch[j] \in Seq(Int) /\ fetch[j].blocks \in Seq(Int)
        /\ tip \in Int /\ tip' \in Int /\ tip <= tip'
        /\ \A k \in DOMAIN batch[j] : batch[j][k] \in Int
        /\ \A k \in DOMAIN fetch[j].blocks : fetch[j].blocks[k] \in Int
    BY <1>1, <2>2 DEF TypeOK
  <2>4. \A k \in DOMAIN batch[j] : batch[j][k] <= tip'
    BY <2>2, <2>3 DEF InstanceInv
  <2>5. \A k \in DOMAIN fetch[j].blocks : fetch[j].blocks[k] <= tip'
    BY <2>2, <2>3 DEF InstanceInv
  <2>6. (fetch[j].status = "ok" /\ fetch[j].blocks # << >>)
           => \/ Head(fetch[j].blocks) = fetch[j].from
              \/ Head(fetch[j].blocks) <= hotFrom'
    <3> SUFFICES ASSUME fetch[j].blocks # << >>, 
                        Head(fetch[j].blocks) <= hotFrom
                 PROVE  Head(fetch[j].blocks) <= hotFrom'
      BY <2>2 DEF InstanceInv
    <3>1. Head(fetch[j].blocks) \in Int
      BY <2>3
    <3> QED
      BY <1>1, <2>2, <3>1 DEF TypeOK
  <2> QED
    BY <2>1, <2>2, <2>4, <2>5, <2>6 DEF InstanceInv
<1> QED
  BY <1>2, <1>3, <1>4 DEF IInv

\* A step of one instance that commits nothing: only its own part of the
\* invariant has to be looked at.
LEMMA LocalStep ==
  ASSUME IInv, NEW i \in Instances, UNCHANGED <<indexer, database>>,
         TypeOK', InstanceInv(i)',
         \A j \in Instances \ {i} :
           UNCHANGED <<pc[j], lastBlock[j], batch[j], handled[j], fetch[j]>>
  PROVE  IInv'
<1>1. DatabaseInv'
  BY DEF IInv, DatabaseInv, ExactlyOnceInOrder, indexer, database
<1>2. ASSUME NEW j \in Instances \ {i} PROVE InstanceInv(j)'
  BY DEF IInv, InstanceInv, indexer, database
<1> QED
  BY <1>1, <1>2 DEF IInv

\* Steps outside the transaction that change pc, run or the cache.
LEMMA ControlKeeps ==
  ASSUME IInv, NEW i \in Instances,
         \/ Start(i) \/ Redeploy(i) \/ Resume(i) \/ Wake(i)
         \/ Sigterm(i) \/ WatermarkExpires(i) \/ AboveWatermark(i)
  PROVE  IInv'
<1>0. TypeOK /\ DatabaseInv /\ InstanceInv(i)
  BY DEF IInv
<1> USE DEF PCs, FetchStatus, NoCache
<1>1. CASE Start(i)
  <2>1. TypeOK'
    BY <1>0, <1>1 DEF TypeOK, Start, indexer, database
  <2>2. InstanceInv(i)'
    BY <1>0, <1>1 DEF TypeOK, InstanceInv, Start, indexer, database
  <2> QED
    BY <1>0, <1>1, <2>1, <2>2, LocalStep DEF Start, TypeOK
<1>2. CASE Redeploy(i)
  <2>1. TypeOK'
    BY <1>0, <1>2 DEF TypeOK, Redeploy, indexer, database
  <2>2. InstanceInv(i)'
    BY <1>0, <1>2 DEF TypeOK, InstanceInv, Redeploy, indexer, database
  <2> QED
    BY <1>0, <1>2, <2>1, <2>2, LocalStep DEF Redeploy, TypeOK
<1>3. CASE Resume(i)
  <2>1. TypeOK'
    BY <1>0, <1>3 DEF TypeOK, Resume, indexer, database
  <2>2. InstanceInv(i)'
    BY <1>0, <1>3
    DEF TypeOK, DatabaseInv, InstanceInv, Resume, indexer, database
  <2> QED
    BY <1>0, <1>3, <2>1, <2>2, LocalStep DEF Resume, TypeOK
<1>4. CASE Wake(i)
  <2>1. TypeOK'
    BY <1>0, <1>4 DEF TypeOK, Wake, indexer, database
  <2>2. InstanceInv(i)'
    BY <1>0, <1>4 DEF TypeOK, InstanceInv, Wake, indexer, database
  <2> QED
    BY <1>0, <1>4, <2>1, <2>2, LocalStep DEF Wake, TypeOK
<1>5. CASE Sigterm(i)
  <2>1. TypeOK'
    BY <1>0, <1>5, FaultType DEF TypeOK, Sigterm, indexer, database
  <2>2. InstanceInv(i)'
    BY <1>0, <1>5 DEF TypeOK, InstanceInv, Sigterm, indexer, database
  <2> QED
    BY <1>0, <1>5, <2>1, <2>2, LocalStep DEF Sigterm, TypeOK
<1>6. CASE WatermarkExpires(i)
  <2>1. TypeOK'
    <3>1. NoCache \in [read: BOOLEAN, mark: Int]
      OBVIOUS
    <3> HIDE DEF NoCache
    <3>2. cache' \in [Instances -> [read: BOOLEAN, mark: Int]]
      BY <1>0, <1>6, <3>1 DEF TypeOK, WatermarkExpires
    <3> QED
      BY <1>0, <1>6, <3>2 DEF TypeOK, WatermarkExpires, indexer, database
  <2>2. InstanceInv(i)'
    BY <1>0, <1>6 DEF TypeOK, InstanceInv, WatermarkExpires, indexer, database
  <2> QED
    BY <1>0, <1>6, <2>1, <2>2, LocalStep DEF WatermarkExpires, TypeOK
<1>7. CASE AboveWatermark(i)
  <2>1. ArchiveState(i) \in [read: BOOLEAN, mark: Int]
    <3>1. cache[i] \in [read: BOOLEAN, mark: Int] /\ watermark \in Int
      BY <1>0 DEF TypeOK
    <3>2. [read |-> TRUE, mark |-> watermark] \in [read: BOOLEAN, mark: Int]
      BY <3>1
    <3> QED
      BY <3>1, <3>2 DEF ArchiveState
  <2>2. TypeOK'
    BY <1>0, <1>7, <2>1
    DEF TypeOK, AboveWatermark, Querying, indexer, database
  <2>3. InstanceInv(i)'
    BY <1>0, <1>7
    DEF TypeOK, InstanceInv, AboveWatermark, Querying, indexer, database
  <2> QED
    BY <1>0, <1>7, <2>2, <2>3, LocalStep DEF AboveWatermark, TypeOK
<1> QED
  BY <1>1, <1>2, <1>3, <1>4, <1>5, <1>6, <1>7

\* An attempt that throws is retried, or ends the process.
LEMMA AttemptFailsKeeps ==
  ASSUME IInv, NEW i \in Instances, NEW c \in [read: BOOLEAN, mark: Int],
         fetch[i].status \in {"watermark", "query"},
         AttemptFails(i, c), UNCHANGED <<indexer, database>>,
         faults' \in 0 .. MaxFaults
  PROVE  IInv'
<1>0. TypeOK /\ DatabaseInv /\ InstanceInv(i)
  BY DEF IInv
<1>1. CASE fetch[i].tries + 1 = FetchAttempts
  BY <1>1, EndProcessKeeps DEF AttemptFails, Throw
<1>2. CASE fetch[i].tries + 1 # FetchAttempts
  <2>1. /\ fetch' = [fetch EXCEPT ![i] = Retried(fetch[i])]
        /\ cache' = [cache EXCEPT ![i] = c]
        /\ UNCHANGED <<pc, run, lastBlock, batch, handled>>
    BY <1>2 DEF AttemptFails
  <2>2. fetch[i].tries + 1 \in 0 .. FetchAttempts - 1
    <3>1. fetch[i].tries \in 0 .. FetchAttempts - 1
      BY <1>0 DEF TypeOK
    <3> QED
      BY <1>2, <3>1, ProcessorAssumption
  <2>3. Retried(fetch[i]) \in [status: FetchStatus, from: Int,
                               tries: 0 .. FetchAttempts - 1, blocks: Seq(Int)]
    BY <1>0, <2>2 DEF TypeOK, Retried, FetchStatus
  <2>4. TypeOK'
    <3>1. cache' \in [Instances -> [read: BOOLEAN, mark: Int]]
      BY <1>0, <2>1 DEF TypeOK
    <3>2. fetch' \in [Instances -> [status: FetchStatus, from: Int,
                                    tries: 0 .. FetchAttempts - 1,
                                    blocks: Seq(Int)]]
      BY <1>0, <2>1, <2>3 DEF TypeOK
    <3> QED
      BY <1>0, <2>1, <3>1, <3>2 DEF TypeOK, indexer, database
  <2>5. InstanceInv(i)'
    <3>1. /\ fetch'[i].status = "watermark" /\ fetch'[i].from = fetch[i].from
          /\ fetch'[i].blocks = << >>
      BY <1>0, <2>1 DEF TypeOK, Retried
    <3> QED
      BY <1>0, <2>1, <3>1 DEF InstanceInv, indexer, database
  <2> QED
    BY <1>0, <2>1, <2>4, <2>5, LocalStep DEF TypeOK
<1> QED
  BY <1>1, <1>2

LEMMA FetchKeeps ==
  ASSUME IInv, NEW i \in Instances,
         BelowWatermark(i) \/ QueryBlocks(i) \/ QueryOnEndedPool(i) \/ QueryFails(i)
  PROVE  IInv'
<1>0. TypeOK /\ DatabaseInv /\ InstanceInv(i) /\ faults \in 0 .. MaxFaults
  BY DEF IInv, TypeOK
<1>1. CASE BelowWatermark(i)
  <2>1. ArchiveState(i) \in [read: BOOLEAN, mark: Int]
    <3>1. cache[i] \in [read: BOOLEAN, mark: Int] /\ watermark \in Int
      BY <1>0 DEF TypeOK
    <3>2. [read |-> TRUE, mark |-> watermark] \in [read: BOOLEAN, mark: Int]
      BY <3>1
    <3> QED
      BY <3>1, <3>2 DEF ArchiveState
  <2> QED
    BY <1>0, <1>1, <2>1, AttemptFailsKeeps DEF BelowWatermark
<1>2. CASE QueryOnEndedPool(i)
  <2>1. cache[i] \in [read: BOOLEAN, mark: Int]
    BY <1>0 DEF TypeOK
  <2> QED
    BY <1>0, <1>2, <2>1, AttemptFailsKeeps DEF QueryOnEndedPool
<1>3. CASE QueryFails(i)
  <2>1. cache[i] \in [read: BOOLEAN, mark: Int] /\ faults' \in 0 .. MaxFaults
    BY <1>0, <1>3, FaultType DEF TypeOK, QueryFails
  <2> QED
    BY <1>0, <1>3, <2>1, AttemptFailsKeeps DEF QueryFails
<1>4. CASE QueryBlocks(i)
  <2> DEFINE rows == Rows(fetch[i].from)
  <2>1. /\ rows \in Seq(Int)
        /\ \A k \in DOMAIN rows : rows[k] <= tip
        /\ rows # << >> => Head(rows) = fetch[i].from \/ Head(rows) <= hotFrom
    <3>1. fetch[i].from \in Int
      BY <1>0 DEF TypeOK
    <3> QED
      BY <1>0, <3>1, RowsFacts, ProcessorAssumption
  <2>2. /\ fetch' = [fetch EXCEPT ![i] = Answered(fetch[i], rows)]
        /\ fetch[i].status = "query"
        /\ UNCHANGED <<indexer, database, pc, run, lastBlock, batch, handled,
                       cache, faults>>
    BY <1>4 DEF QueryBlocks
  <2> HIDE DEF rows
  <2>3. Answered(fetch[i], rows) \in [status: FetchStatus, from: Int,
                               tries: 0 .. FetchAttempts - 1, blocks: Seq(Int)]
    BY <1>0, <2>1 DEF TypeOK, Answered, FetchStatus
  <2>4. TypeOK'
    BY <1>0, <2>2, <2>3 DEF TypeOK, indexer, database
  <2>5. InstanceInv(i)'
    BY <1>0, <2>1, <2>2 DEF TypeOK, InstanceInv, Answered, indexer, database
  <2> QED
    BY <1>0, <2>2, <2>4, <2>5, LocalStep DEF TypeOK
<1> QED
  BY <1>1, <1>2, <1>3, <1>4

LEMMA LoopKeeps ==
  ASSUME IInv, NEW i \in Instances, LoopHead(i) \/ NoBlocks(i) \/ TakeBatch(i)
  PROVE  IInv'
<1>0. TypeOK /\ DatabaseInv /\ InstanceInv(i) /\ faults \in 0 .. MaxFaults
  BY DEF IInv, TypeOK
<1>1. CASE LoopHead(i) /\ ~run[i]
  BY <1>0, <1>1, EndProcessKeeps DEF LoopHead
<1>2. CASE LoopHead(i) /\ run[i]
  <2> DEFINE f == IF fetch[i].status = "none" THEN NewFetch(lastBlock[i] + 1)
                  ELSE fetch[i]
  <2>1. /\ pc[i] = "loop" /\ pc' = [pc EXCEPT ![i] = "await"]
        /\ fetch' = [fetch EXCEPT ![i] = f]
        /\ UNCHANGED <<indexer, database, run, lastBlock, batch, handled, cache,
                       faults>>
    BY <1>2 DEF LoopHead
  <2>2. f \in [status: FetchStatus, from: Int,
               tries: 0 .. FetchAttempts - 1, blocks: Seq(Int)]
    BY <1>0, ProcessorAssumption DEF TypeOK, NewFetch, FetchStatus
  <2>3. /\ f.status # "none" /\ f.from = lastBlock[i] + 1
        /\ f.blocks = << >> \/ f = fetch[i]
        /\ f.status = "ok" => f = fetch[i]
    BY <1>0, <2>1 DEF TypeOK, InstanceInv, NewFetch
  <2> HIDE DEF f
  <2>4. TypeOK'
    BY <1>0, <2>1, <2>2, SMTT(20) DEF TypeOK, PCs, indexer, database
  <2>5. InstanceInv(i)'
    BY <1>0, <2>1, <2>3, SMTT(20) DEF TypeOK, InstanceInv, indexer, database
  <2> QED
    BY <1>0, <2>1, <2>4, <2>5, LocalStep DEF TypeOK
<1>3. CASE NoBlocks(i)
  <2>1. TypeOK'
    BY <1>0, <1>3, ProcessorAssumption, SMTT(20)
    DEF TypeOK, NoBlocks, NoFetch, PCs, FetchStatus, indexer, database
  <2>2. InstanceInv(i)'
    BY <1>0, <1>3 DEF TypeOK, InstanceInv, NoBlocks, NoFetch, indexer, database
  <2> QED
    BY <1>0, <1>3, <2>1, <2>2, LocalStep DEF NoBlocks, TypeOK
<1>4. CASE TakeBatch(i)
  <2> DEFINE blocks == fetch[i].blocks
             f == IF Len(blocks) = BatchSize
                  THEN NewFetch(lastBlock[i] + Len(blocks) + 1) ELSE NoFetch
  <2>1. /\ pc[i] = "await" /\ blocks # << >>
        /\ batch' = [batch EXCEPT ![i] = blocks]
        /\ fetch' = [fetch EXCEPT ![i] = f]
        /\ pc' = [pc EXCEPT ![i] = "check"]
        /\ UNCHANGED <<indexer, database, run, lastBlock, handled, cache, faults>>
    BY <1>4 DEF TakeBatch
  <2>2. /\ blocks \in Seq(Int) /\ Len(blocks) \in Nat
        /\ \A k \in DOMAIN blocks : blocks[k] <= tip
        /\ lastBlock[i] \in Int
    BY <1>0 DEF TypeOK, InstanceInv
  <2> HIDE DEF blocks
  <2>3. f \in [status: FetchStatus, from: Int,
               tries: 0 .. FetchAttempts - 1, blocks: Seq(Int)]
    BY <2>2, ProcessorAssumption DEF NewFetch, NoFetch, FetchStatus
  <2>4. /\ f.status # "ok" /\ f.blocks = << >>
        /\ f.status # "none" => f.from = lastBlock[i] + Len(blocks) + 1
    BY <2>2 DEF NewFetch, NoFetch
  <2> HIDE DEF f
  <2>5. TypeOK'
    BY <1>0, <2>1, <2>2, <2>3 DEF TypeOK, PCs, indexer, database
  <2>6. InstanceInv(i)'
    BY <1>0, <2>1, <2>2, <2>4 DEF TypeOK, InstanceInv, indexer, database
  <2> QED
    BY <1>0, <2>1, <2>5, <2>6, LocalStep DEF TypeOK
<1> QED
  BY <1>1, <1>2, <1>3, <1>4

\* Before and inside the transaction, as long as nothing is committed.
LEMMA TransactionKeeps ==
  ASSUME IInv, NEW i \in Instances,
         \/ CheckBlock(i) \/ HandleEvent(i) \/ TxTimeout(i) \/ CommitLost(i)
         \/ Crash(i)
  PROVE  IInv'
<1>0. TypeOK /\ DatabaseInv /\ InstanceInv(i) /\ faults \in 0 .. MaxFaults
  BY DEF IInv, TypeOK
<1>1. CASE Throw(i) /\ UNCHANGED <<indexer, database>> /\ faults' \in 0 .. MaxFaults
  BY <1>1, EndProcessKeeps DEF Throw
<1>2. CASE TxTimeout(i) \/ Crash(i)
  BY <1>0, <1>1, <1>2, FaultType DEF TxTimeout, Crash
<1>3. CASE CommitLost(i)
  BY <1>0, <1>1, <1>3 DEF CommitLost
<1>4. CASE CheckBlock(i)
  <2>1. CASE ~(stateHeight = lastBlock[i] /\ lastBlock[i] + 1 = Head(batch[i]))
    BY <1>0, <1>1, <1>4, <2>1 DEF CheckBlock
  <2>2. CASE stateHeight = lastBlock[i] /\ lastBlock[i] + 1 = Head(batch[i])
    <3>1. /\ pc[i] = "check" /\ pc' = [pc EXCEPT ![i] = "tx"]
          /\ handled' = [handled EXCEPT ![i] = 0]
          /\ UNCHANGED <<indexer, database, run, lastBlock, batch, fetch, cache,
                         faults>>
      BY <1>4, <2>2 DEF CheckBlock
    <3>2. TypeOK'
      BY <1>0, <3>1, ProcessorAssumption, SMTT(20)
      DEF TypeOK, PCs, indexer, database
    <3>3. InstanceInv(i)'
      BY <1>0, <2>2, <3>1 DEF TypeOK, InstanceInv, indexer, database
    <3> QED
      BY <1>0, <3>1, <3>2, <3>3, LocalStep DEF TypeOK
  <2> QED
    BY <2>1, <2>2
<1>5. CASE HandleEvent(i)
  <2>1. CASE Head(batch[i]) \in BadBlocks
    BY <1>0, <1>1, <1>5, <2>1 DEF HandleEvent
  <2>2. CASE Head(batch[i]) \notin BadBlocks
    <3>1. /\ pc[i] = "tx" /\ handled[i] < EventsPerBlock
          /\ handled' = [handled EXCEPT ![i] = @ + 1]
          /\ UNCHANGED <<indexer, database, pc, run, lastBlock, batch, fetch,
                         cache, faults>>
      BY <1>5, <2>2 DEF HandleEvent
    <3>2. handled[i] + 1 \in 0 .. EventsPerBlock
      BY <1>0, <3>1, ProcessorAssumption DEF TypeOK
    <3>3. TypeOK'
      BY <1>0, <3>1, <3>2 DEF TypeOK, indexer, database
    <3>4. InstanceInv(i)'
      BY <1>0, <2>2, <3>1 DEF TypeOK, InstanceInv, indexer, database
    <3> QED
      BY <1>0, <3>1, <3>3, <3>4, LocalStep DEF TypeOK
  <2> QED
    BY <2>1, <2>2
<1> QED
  BY <1>2, <1>3, <1>4, <1>5

\* The writes of a block are committed: the log grows by the next block of
\* the chain.
LEMMA CommitWritesFacts ==
  ASSUME IInv, NEW i \in Instances, CommitWrites(i)
  PROVE  /\ stateHeight' = stateHeight + 1 /\ stateHeight' \in Int
         /\ stateHeight' <= tip
         /\ stateHeight = lastBlock[i]
         /\ Len(applied) = stateHeight + 1
         /\ applied' = Append(applied, stateHeight + 1)
         /\ applied' \in Seq(Int)
         /\ ExactlyOnceInOrder'
         /\ stateHeight' = Head(batch[i]) /\ stateHeight' \notin BadBlocks
<1>0. TypeOK /\ DatabaseInv /\ InstanceInv(i)
  BY DEF IInv
<1>1. /\ pc[i] = "tx" /\ handled[i] = EventsPerBlock
      /\ stateHeight = Head(batch[i]) - 1
      /\ stateHeight' = Head(batch[i])
      /\ applied' = Append(applied, Head(batch[i]))
  BY DEF CommitWrites
<1>2. batch[i] \in Seq(Int) /\ batch[i] # << >> /\ tip \in Int
  BY <1>0, <1>1 DEF TypeOK
<1>3. Head(batch[i]) \in Int /\ Head(batch[i]) <= tip
  <2>1. \A k \in DOMAIN batch[i] : batch[i][k] <= tip
    BY <1>0 DEF InstanceInv
  <2> QED
    BY <1>2, <2>1, TailFacts
<1>4. /\ stateHeight \in Int /\ stateHeight >= -1
      /\ applied = [k \in 1 .. stateHeight + 1 |-> k - 1]
  BY <1>0 DEF TypeOK, DatabaseInv, ExactlyOnceInOrder
<1>5. Head(batch[i]) = stateHeight + 1 /\ stateHeight' = stateHeight + 1
  BY <1>1, <1>3, <1>4
<1>6. /\ Append(applied, stateHeight + 1) = [k \in 1 .. (stateHeight + 1) + 1 |-> k - 1]
      /\ Len(applied) = stateHeight + 1 /\ applied \in Seq(Int)
  BY <1>4, AppendNext
<1>7. stateHeight = lastBlock[i]
  <2>1. lastBlock[i] \in Int /\ Head(batch[i]) = lastBlock[i] + 1
    BY <1>0, <1>1 DEF TypeOK, InstanceInv
  <2> QED
    BY <1>4, <1>5, <2>1
<1>8. Head(batch[i]) \notin BadBlocks
  <2>1. handled[i] > 0
    BY <1>1, ProcessorAssumption
  <2> QED
    BY <1>0, <1>1, <2>1 DEF InstanceInv
<1>9. applied' \in Seq(Int)
  BY <1>1, <1>3, <1>6
<1> QED
  BY <1>1, <1>3, <1>4, <1>5, <1>6, <1>7, <1>8, <1>9 DEF ExactlyOnceInOrder

LEMMA CommitKeeps ==
  ASSUME IInv, NEW i \in Instances, Commit(i) \/ CommitUnacknowledged(i)
  PROVE  IInv'
<1>0. /\ TypeOK /\ DatabaseInv /\ InstanceInv(i) /\ CommitWrites(i)
      /\ UNCHANGED indexer
  BY DEF IInv, Commit, CommitUnacknowledged
<1>1. /\ stateHeight' = stateHeight + 1 /\ stateHeight' \in Int
      /\ stateHeight' <= tip /\ stateHeight \in Int /\ -1 <= stateHeight
      /\ applied' \in Seq(Int) /\ ExactlyOnceInOrder'
      /\ stateHeight' = Head(batch[i])
  BY <1>0, CommitWritesFacts DEF TypeOK, DatabaseInv
<1>2. DatabaseInv'
  BY <1>0, <1>1 DEF DatabaseInv, indexer
<1>3. ASSUME NEW j \in Instances \ {i},
             UNCHANGED <<pc[j], lastBlock[j], batch[j], handled[j], fetch[j]>>
      PROVE  InstanceInv(j)'
  <2>1. InstanceInv(j) /\ lastBlock[j] \in Int
    BY DEF IInv, TypeOK
  <2>2. lastBlock[j] <= stateHeight'
    BY <1>1, <2>1 DEF InstanceInv
  <2>3. tip' = tip /\ hotFrom' = hotFrom
    BY <1>0 DEF indexer
  <2> QED
    BY <1>3, <2>1, <2>2, <2>3 DEF InstanceInv
<1>4. CASE Commit(i)
  <2>1. /\ pc[i] = "tx" /\ batch[i] \in Seq(Int) /\ batch[i] # << >>
        /\ lastBlock' = [lastBlock EXCEPT ![i] = Head(batch[i])]
        /\ batch' = [batch EXCEPT ![i] = Tail(batch[i])]
        /\ handled' = [handled EXCEPT ![i] = 0]
        /\ pc' = [pc EXCEPT ![i] = IF Len(batch[i]) = 1 THEN "loop" ELSE "check"]
        /\ UNCHANGED <<indexer, run, fetch, cache, faults>>
    BY <1>0, <1>4 DEF Commit, CommitWrites, TypeOK
  <2>2. /\ Tail(batch[i]) \in Seq(Int) /\ Len(batch[i]) \in Nat \ {0}
        /\ Len(Tail(batch[i])) = Len(batch[i]) - 1
        /\ \A k \in DOMAIN Tail(batch[i]) : Tail(batch[i])[k] <= tip
    <3>1. tip \in Int /\ \A k \in DOMAIN batch[i] : batch[i][k] <= tip
      BY <1>0 DEF TypeOK, InstanceInv
    <3> QED
      BY <2>1, <3>1, TailFacts
  <2>3. /\ Len(batch[i]) = 1 => Tail(batch[i]) = << >>
        /\ Len(batch[i]) # 1 => Tail(batch[i]) # << >>
    <3> DEFINE rest == Tail(batch[i])
    <3>1. rest \in Seq(Int) /\ Len(rest) = Len(batch[i]) - 1 /\ Len(batch[i]) \in Nat
      BY <2>2
    <3> HIDE DEF rest
    <3>2. rest # << >> => Len(rest) \in Nat \ {0}
      BY <3>1, EmptySeq
    <3>3. rest = << >> => Len(rest) = 0
      BY EmptySeq
    <3>4. (Len(batch[i]) = 1 => rest = << >>) /\ (Len(batch[i]) # 1 => rest # << >>)
      BY <3>1, <3>2, <3>3
    <3> QED
      BY <3>4 DEF rest
  <2>4. TypeOK'
    <3>1. /\ tip' \in Int /\ watermark' \in Int /\ hotFrom' \in Nat
          /\ stateHeight' \in Int /\ applied' \in Seq(Int)
          /\ faults' \in 0 .. MaxFaults
      BY <1>0, <1>1, <2>1 DEF TypeOK, indexer
    <3>2. 0 \in 0 .. EventsPerBlock /\ Head(batch[i]) \in Int
      BY <1>1, ProcessorAssumption
    <3>3. /\ pc' \in [Instances -> PCs]
          /\ run' \in [Instances -> BOOLEAN]
          /\ lastBlock' \in [Instances -> Int]
          /\ batch' \in [Instances -> Seq(Int)]
          /\ handled' \in [Instances -> 0 .. EventsPerBlock]
      BY <1>0, <2>1, <2>2, <3>2 DEF TypeOK, PCs
    <3>4. /\ fetch' \in [Instances -> [status: FetchStatus, from: Int,
                                       tries: 0 .. FetchAttempts - 1,
                                       blocks: Seq(Int)]]
          /\ cache' \in [Instances -> [read: BOOLEAN, mark: Int]]
      BY <1>0, <2>1 DEF TypeOK
    <3>5. ASSUME NEW j \in Instances, pc'[j] \in {"check", "tx"}
          PROVE  batch'[j] # << >>
      BY <1>0, <2>1, <2>3, <3>5 DEF TypeOK
    <3> QED
      BY <3>1, <3>3, <3>4, <3>5 DEF TypeOK
  <2>5. InstanceInv(i)'
    <3>1. /\ lastBlock'[i] = stateHeight' /\ batch'[i] = Tail(batch[i])
          /\ pc'[i] = IF Len(batch[i]) = 1 THEN "loop" ELSE "check"
          /\ fetch'[i] = fetch[i] /\ tip' = tip /\ hotFrom' = hotFrom
      BY <1>0, <1>1, <2>1 DEF TypeOK, indexer
    <3>2. pc'[i] \in {"loop", "check"}
      BY <3>1
    <3>3. pc'[i] \notin {"check", "tx"} => batch'[i] = << >>
      BY <2>3, <3>1
    <3>4. lastBlock[i] \in Int /\ stateHeight = lastBlock[i]
      BY <1>0, CommitWritesFacts DEF TypeOK
    <3>5. fetch'[i].status # "none"
            => fetch'[i].from = lastBlock'[i] + Len(batch'[i]) + 1
      <4>1. fetch[i].status # "none"
              => fetch[i].from = lastBlock[i] + Len(batch[i]) + 1
        BY <1>0 DEF InstanceInv
      <4> QED
        BY <1>1, <2>2, <3>1, <3>4, <4>1
    <3>6. /\ -1 <= lastBlock'[i] /\ lastBlock'[i] <= stateHeight'
      BY <1>1, <3>1
    <3> QED
      BY <1>0, <2>2, <3>1, <3>2, <3>3, <3>5, <3>6 DEF InstanceInv
  <2>6. ASSUME NEW j \in Instances \ {i} PROVE InstanceInv(j)'
    BY <1>0, <1>3, <2>1 DEF TypeOK
  <2> QED
    BY <1>2, <2>4, <2>5, <2>6 DEF IInv
<1>5. CASE CommitUnacknowledged(i)
  <2>1. EndProcess(i, "down") /\ faults' \in 0 .. MaxFaults
    BY <1>0, <1>5, FaultType DEF CommitUnacknowledged, Throw
  <2>2. TypeOK'
    <3>1. /\ NoFetch \in [status: FetchStatus, from: Int,
                          tries: 0 .. FetchAttempts - 1, blocks: Seq(Int)]
          /\ NoCache \in [read: BOOLEAN, mark: Int]
          /\ 0 \in 0 .. EventsPerBlock /\ "down" \in PCs
      BY ProcessorAssumption DEF NoFetch, NoCache, FetchStatus, PCs
    <3>2. /\ tip' \in Int /\ watermark' \in Int /\ hotFrom' \in Nat
          /\ stateHeight' \in Int /\ applied' \in Seq(Int)
      BY <1>0, <1>1 DEF TypeOK, indexer
    <3>3. /\ pc' \in [Instances -> PCs]
          /\ run' \in [Instances -> BOOLEAN]
          /\ lastBlock' \in [Instances -> Int]
          /\ batch' \in [Instances -> Seq(Int)]
          /\ handled' \in [Instances -> 0 .. EventsPerBlock]
      BY <1>0, <2>1, <3>1 DEF TypeOK, EndProcess
    <3>4. /\ fetch' \in [Instances -> [status: FetchStatus, from: Int,
                                       tries: 0 .. FetchAttempts - 1,
                                       blocks: Seq(Int)]]
          /\ cache' \in [Instances -> [read: BOOLEAN, mark: Int]]
      BY <1>0, <2>1, <3>1 DEF TypeOK, EndProcess
    <3>5. ASSUME NEW j \in Instances, pc'[j] \in {"check", "tx"}
          PROVE  batch'[j] # << >>
      BY <1>0, <2>1, <3>5 DEF TypeOK, EndProcess
    <3> QED
      BY <2>1, <3>2, <3>3, <3>4, <3>5 DEF TypeOK
  <2>3. InstanceInv(i)'
    BY <1>0, <1>1, <2>1 DEF TypeOK, InstanceInv, EndProcess, NoFetch, indexer
  <2>4. ASSUME NEW j \in Instances \ {i} PROVE InstanceInv(j)'
    BY <1>0, <1>3, <2>1 DEF TypeOK, EndProcess
  <2> QED
    BY <1>2, <2>2, <2>3, <2>4 DEF IInv
<1> QED
  BY <1>4, <1>5

-------------------------------------------------------------------------------
(* The theorems.                                                           *)

LEMMA StepKeeps == IInv /\ [Next]_vars => IInv'
<1> SUFFICES ASSUME IInv, [Next]_vars PROVE IInv'
  OBVIOUS
<1>1. CASE Produce \/ Archive \/ Prune
  BY <1>1, IndexerKeeps
<1>2. ASSUME NEW i \in Instances, Instance(i) PROVE IInv'
  <2>1. CASE Progress(i)
    BY <2>1, ControlKeeps, LoopKeeps, TransactionKeeps, CommitKeeps DEF Progress
  <2>2. CASE Fetching(i)
    BY <2>2, ControlKeeps, FetchKeeps DEF Fetching
  <2>3. CASE Faulty(i)
    BY <2>3, ControlKeeps, FetchKeeps, TransactionKeeps, CommitKeeps DEF Faulty
  <2>4. CASE Start(i) \/ Redeploy(i) \/ WatermarkExpires(i)
    BY <2>4, ControlKeeps
  <2> QED
    BY <1>2, <2>1, <2>2, <2>3, <2>4 DEF Instance
<1>3. CASE UNCHANGED vars
  <2>1. /\ UNCHANGED <<indexer, database, process, faults>>
    BY <1>3 DEF vars
  <2>2. TypeOK'
    BY <2>1 DEF IInv, TypeOK, indexer, database, process
  <2>3. DatabaseInv'
    BY <2>1 DEF IInv, DatabaseInv, ExactlyOnceInOrder, indexer, database
  <2>4. ASSUME NEW j \in Instances PROVE InstanceInv(j)'
    BY <2>1 DEF IInv, InstanceInv, indexer, database, process
  <2> QED
    BY <2>2, <2>3, <2>4 DEF IInv
<1> QED
  BY <1>1, <1>2, <1>3 DEF Next

\* The inductive invariant holds in every reachable state.
THEOREM Invariance == Spec => []IInv
BY InitInv, StepKeeps, PTL DEF Spec

\* Every variable keeps its type, and an instance that checks or applies a
\* block has one.
THEOREM TypeCorrectness == Spec => []TypeOK
<1>1. IInv => TypeOK
  BY DEF IInv
<1> QED
  BY <1>1, Invariance, PTL

\* Whatever instances race, crash and restart, and whatever the archiver
\* does: the events of each block from 0 to State.height took effect exactly
\* once, in height order, and of no other block.
THEOREM ExactlyOnce == Spec => []ExactlyOnceInOrder
<1>1. IInv => ExactlyOnceInOrder
  BY DEF IInv, DatabaseInv
<1> QED
  BY <1>1, Invariance, PTL

\* No instance is ahead of the database, and it only holds blocks of the
\* chain.
THEOREM InstancesBehind == Spec => []NoInstanceAhead
<1>1. IInv => NoInstanceAhead
  BY DEF IInv, InstanceInv, NoInstanceAhead
<1> QED
  BY <1>1, Invariance, PTL

\* A prefetched batch is only ever taken at the position it was asked for.
THEOREM PrefetchFits == Spec => []PrefetchFitsLoop
<1>1. IInv => PrefetchFitsLoop
  <2> SUFFICES ASSUME IInv, NEW i \in Instances, pc[i] = "await"
               PROVE  /\ fetch[i].status # "none"
                      /\ fetch[i].from = lastBlock[i] + 1
                      /\ (fetch[i].status = "ok" /\ fetch[i].blocks # << >>)
                            => \/ Head(fetch[i].blocks) = lastBlock[i] + 1
                               \/ Head(fetch[i].blocks) <= hotFrom
    BY DEF PrefetchFitsLoop
  <2>1. InstanceInv(i) /\ lastBlock[i] \in Int
    BY DEF IInv, TypeOK
  <2>2. batch[i] = << >> /\ fetch[i].status # "none"
    BY <2>1 DEF InstanceInv
  <2>3. fetch[i].from = lastBlock[i] + 1
    BY <2>1, <2>2 DEF InstanceInv
  <2> QED
    BY <2>1, <2>2, <2>3 DEF InstanceInv
<1> QED
  BY <1>1, Invariance, PTL

LEMMA InitImplements == Init => Log!Init
  BY DEF Init, Log!Init

LEMMA StepImplements == IInv /\ [Next]_vars => [Log!Next]_(Log!vars)
<1> SUFFICES ASSUME IInv, [Next]_vars PROVE [Log!Next]_(Log!vars)
  OBVIOUS
<1> USE DEF Log!Next, Log!vars
<1>1. CASE Produce
  BY <1>1 DEF Produce, Log!Produce, database
<1>2. CASE Archive \/ Prune
  BY <1>2 DEF Archive, Prune, database
<1>3. ASSUME NEW i \in Instances, CommitWrites(i), UNCHANGED indexer
      PROVE  Log!Apply
  <2>1. /\ stateHeight' = stateHeight + 1 /\ stateHeight' <= tip
        /\ Len(applied) = stateHeight + 1
        /\ applied' = Append(applied, stateHeight + 1)
    BY <1>3, CommitWritesFacts
  <2> QED
    BY <1>3, <2>1 DEF Log!Apply, indexer
<1>4. ASSUME NEW i \in Instances, Instance(i) PROVE [Log!Next]_(Log!vars)
  <2>1. CASE Commit(i) \/ CommitUnacknowledged(i)
    BY <1>3, <2>1 DEF Commit, CommitUnacknowledged
  <2>2. CASE ~(Commit(i) \/ CommitUnacknowledged(i))
    <3>1. UNCHANGED <<indexer, database>>
      BY <1>4, <2>2
      DEF Instance, Start, Redeploy, Progress, Resume, LoopHead, NoBlocks, Wake,
          TakeBatch, CheckBlock, HandleEvent, CommitLost, Fetching,
          BelowWatermark, AboveWatermark, QueryBlocks, QueryOnEndedPool,
          WatermarkExpires, Faulty, Crash, Sigterm, QueryFails, TxTimeout
    <3> QED
      BY <3>1 DEF indexer, database
  <2> QED
    BY <2>1, <2>2
<1>5. CASE UNCHANGED vars
  BY <1>5 DEF vars, indexer, database
<1> QED
  BY <1>1, <1>2, <1>4, <1>5 DEF Next

\* The processor, with its batches, prefetches, races, crashes and archive,
\* implements the log of blocks that BlockLog promises.
THEOREM Refinement == Spec => ImplementsBlockLog
<1>1. Spec => []IInv
  BY Invariance
<1> QED
  BY <1>1, InitImplements, StepImplements, PTL
  DEF Spec, ImplementsBlockLog, Log!Spec

LEMMA StepUpToDate == IInv /\ [Next]_vars => [UNCHANGED database \/ UpToDateCommit]_vars
<1> SUFFICES ASSUME IInv, [Next]_vars
             PROVE  [UNCHANGED database \/ UpToDateCommit]_vars
  OBVIOUS
<1>1. CASE Produce \/ Archive \/ Prune
  BY <1>1 DEF Produce, Archive, Prune, database
<1>2. ASSUME NEW i \in Instances, Commit(i) \/ CommitUnacknowledged(i)
      PROVE  UpToDateCommit
  <2>1. CommitWrites(i) /\ TypeOK
    BY <1>2 DEF Commit, CommitUnacknowledged, IInv
  <2>2. /\ pc[i] = "tx" /\ handled[i] = EventsPerBlock
        /\ lastBlock[i] = stateHeight /\ stateHeight' = lastBlock[i] + 1
        /\ stateHeight' \notin BadBlocks
    BY <2>1, CommitWritesFacts DEF CommitWrites
  <2>3. ASSUME NEW j \in Instances \ {i} PROVE UNCHANGED <<pc[j], lastBlock[j]>>
    BY <1>2, <2>1
    DEF TypeOK, Commit, CommitUnacknowledged, Throw, EndProcess
  <2> QED
    BY <2>2, <2>3 DEF UpToDateCommit
<1>3. ASSUME NEW i \in Instances, Instance(i),
             ~(Commit(i) \/ CommitUnacknowledged(i))
      PROVE  UNCHANGED database
  BY <1>3
  DEF Instance, Start, Redeploy, Progress, Resume, LoopHead, NoBlocks, Wake,
      TakeBatch, CheckBlock, HandleEvent, CommitLost, Fetching, BelowWatermark,
      AboveWatermark, QueryBlocks, QueryOnEndedPool, WatermarkExpires, Faulty,
      Crash, Sigterm, QueryFails, TxTimeout
<1> QED
  BY <1>1, <1>2, <1>3 DEF Next

\* Only an instance that is up to date, and whose block went through all of
\* its handlers, ever changes the swap database.
THEOREM CommitsAreUpToDate == Spec => OnlyUpToDateCommits
BY Invariance, StepUpToDate, PTL DEF Spec, OnlyUpToDateCommits

\* Both: what an instance holds and takes fits the database and itself.
THEOREM InstancesAreFit == Spec => []InstancesFit
<1>1. NoInstanceAhead /\ PrefetchFitsLoop => InstancesFit
  BY DEF InstancesFit
<1> QED
  BY <1>1, InstancesBehind, PrefetchFits, PTL
===============================================================================
