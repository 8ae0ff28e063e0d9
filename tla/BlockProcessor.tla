---------------------------- MODULE BlockProcessor ----------------------------
(***************************************************************************)
(* The block processor of the swap backend (packages/swap):                *)
(* processBlocks.ts, processor.ts and the IndexerClient of indexer.ts.     *)
(*                                                                         *)
(* An instance resumes at the height stored in the State row, fetches      *)
(* batches of blocks from the indexer's hot database, and applies the      *)
(* events of each block in one database transaction that also advances the *)
(* State row.  While it applies a full batch it prefetches the next one.   *)
(* Any error ends the process; the platform starts it again.  Several      *)
(* instances may run on the same database (a rolling deployment, a         *)
(* misconfiguration).  The indexer's archiver moves old blocks out of the  *)
(* hot database; the client caches the archive watermark.                  *)
(***************************************************************************)
EXTENDS Integers, Sequences

CONSTANTS
  Instances,      \* the processes that run processBlocks
  BatchSize,      \* env.PROCESSOR_BATCH_SIZE
  FetchAttempts,  \* attempts of fetchBlocks before it throws (5 in the code)
  EventsPerBlock, \* events of a block that have a handler
  BadBlocks,      \* heights with an event whose handler always throws
  MaxHeight,      \* bound: height at which the modelled chain ends
  Archivable,     \* bound: how many blocks the archiver may move
  MaxFaults       \* bound: crashes, timeouts, lost answers and signals

ASSUME ProcessorAssumption ==
  /\ BatchSize \in Nat \ {0}
  /\ FetchAttempts \in Nat \ {0}
  /\ EventsPerBlock \in Nat \ {0}
  /\ MaxHeight \in Nat
  /\ Archivable \in Nat
  /\ MaxFaults \in Nat

VARIABLES
  tip,         \* newest block in the indexer's database, -1 when it is empty
  watermark,   \* archive_progress.last_archived_block, -1 for null
  hotFrom,     \* lowest height the hot database still holds
  stateHeight, \* State.height of the swap database, -1 before the first block
  applied,     \* heights whose handlers' writes are committed, in commit order
  pc,          \* where the while loop of each instance stands
  run,         \* the flag the exit handler clears
  lastBlock,   \* the local lastBlock
  batch,       \* heights of the blocks of the batch that are left to apply
  handled,     \* events handled inside the open transaction
  fetch,       \* the pending fetchBlocks call (awaited, or the prefetch)
  cache,       \* IndexerClient.cachedState
  faults       \* faults that have happened

database == <<stateHeight, applied>>
indexer  == <<tip, watermark, hotFrom>>
process  == <<pc, run, lastBlock, batch, handled, fetch, cache>>
vars     == <<indexer, database, process, faults>>

PCs == {"down", "resume", "loop", "await", "sleep", "check", "tx", "stopped"}

FetchStatus == {"none", "watermark", "query", "ok"}
NoFetch == [status |-> "none", from |-> 0, tries |-> 0, blocks |-> << >>]
NewFetch(height) ==
  [status |-> "watermark", from |-> height, tries |-> 0, blocks |-> << >>]
Retried(f) ==
  [status |-> "watermark", from |-> f.from, tries |-> f.tries + 1, blocks |-> << >>]
Querying(f) ==
  [status |-> "query", from |-> f.from, tries |-> f.tries, blocks |-> << >>]
Answered(f, rows) ==
  [status |-> "ok", from |-> f.from, tries |-> f.tries, blocks |-> rows]

NoCache == [read |-> FALSE, mark |-> -1]

Alive(i) == pc[i] \notin {"down", "stopped"}

Fault == faults < MaxFaults /\ faults' = faults + 1

TypeOK ==
  /\ tip \in Int /\ watermark \in Int /\ hotFrom \in Nat
  /\ stateHeight \in Int
  /\ applied \in Seq(Int)
  /\ pc \in [Instances -> PCs]
  /\ run \in [Instances -> BOOLEAN]
  /\ lastBlock \in [Instances -> Int]
  /\ batch \in [Instances -> Seq(Int)]
  /\ handled \in [Instances -> 0 .. EventsPerBlock]
  /\ fetch \in [Instances -> [status: FetchStatus, from: Int,
                              tries: 0 .. FetchAttempts - 1,
                              blocks: Seq(Int)]]
  /\ cache \in [Instances -> [read: BOOLEAN, mark: Int]]
  /\ faults \in 0 .. MaxFaults
  /\ \A i \in Instances : pc[i] \in {"check", "tx"} => batch[i] # << >>

Init ==
  /\ tip = -1 /\ watermark = -1 /\ hotFrom = 0
  /\ stateHeight = -1 /\ applied = << >>
  /\ pc = [i \in Instances |-> "down"]
  /\ run = [i \in Instances |-> TRUE]
  /\ lastBlock = [i \in Instances |-> -1]
  /\ batch = [i \in Instances |-> << >>]
  /\ handled = [i \in Instances |-> 0]
  /\ fetch = [i \in Instances |-> NoFetch]
  /\ cache = [i \in Instances |-> NoCache]
  /\ faults = 0

-------------------------------------------------------------------------------
(* The indexer and its archiver (not part of the repository).              *)

Produce ==
  /\ tip < MaxHeight
  /\ tip' = tip + 1
  /\ UNCHANGED <<watermark, hotFrom, database, process, faults>>

\* Blocks are copied to the archive, and the watermark says so ...
Archive ==
  /\ watermark < tip /\ watermark + 1 < Archivable
  /\ watermark' = watermark + 1
  /\ UNCHANGED <<tip, hotFrom, database, process, faults>>

\* ... before they are dropped from the hot database.
Prune ==
  /\ hotFrom <= watermark
  /\ hotFrom' = watermark + 1
  /\ UNCHANGED <<tip, watermark, database, process, faults>>

-------------------------------------------------------------------------------
(* The life of a process.                                                  *)

\* All that the process held in memory is gone; an open transaction is
\* rolled back with it.
EndProcess(i, how) ==
  /\ pc' = [pc EXCEPT ![i] = how]
  /\ run' = [run EXCEPT ![i] = TRUE]
  /\ lastBlock' = [lastBlock EXCEPT ![i] = -1]
  /\ batch' = [batch EXCEPT ![i] = << >>]
  /\ handled' = [handled EXCEPT ![i] = 0]
  /\ fetch' = [fetch EXCEPT ![i] = NoFetch]
  /\ cache' = [cache EXCEPT ![i] = NoCache]

\* processBlocks throws, or a prefetch that nobody awaits yet is rejected:
\* the process exits with code 1.
Throw(i) == EndProcess(i, "down")

Start(i) ==
  /\ pc[i] = "down"
  /\ pc' = [pc EXCEPT ![i] = "resume"]
  /\ UNCHANGED <<indexer, database, run, lastBlock, batch, handled, fetch,
                 cache, faults>>

\* An instance that was stopped by a signal is deployed again.
Redeploy(i) ==
  /\ pc[i] = "stopped"
  /\ pc' = [pc EXCEPT ![i] = "down"]
  /\ UNCHANGED <<indexer, database, run, lastBlock, batch, handled, fetch,
                 cache, faults>>

Crash(i) ==
  /\ Alive(i)
  /\ Fault
  /\ Throw(i)
  /\ UNCHANGED <<indexer, database>>

\* SIGTERM: run is cleared, and the indexer's pool is ended as well.
Sigterm(i) ==
  /\ Alive(i) /\ run[i]
  /\ Fault
  /\ run' = [run EXCEPT ![i] = FALSE]
  /\ UNCHANGED <<indexer, database, pc, lastBlock, batch, handled, fetch,
                 cache>>

\* prisma.state.upsert: the row is created at -1 or read as it is.
Resume(i) ==
  /\ pc[i] = "resume"
  /\ pc' = [pc EXCEPT ![i] = "loop"]
  /\ lastBlock' = [lastBlock EXCEPT ![i] = stateHeight]
  /\ UNCHANGED <<indexer, database, run, batch, handled, fetch, cache, faults>>

-------------------------------------------------------------------------------
(* fetchBlocks and IndexerClient.getBlocks; they run beside the loop when  *)
(* the call is a prefetch.                                                 *)

\* The blocks `SELECT ... WHERE height >= from ORDER BY height LIMIT n` finds.
Rows(from) ==
  LET first == IF from < hotFrom THEN hotFrom ELSE from
      n == IF tip < first THEN 0
           ELSE IF tip - first + 1 < BatchSize THEN tip - first + 1
           ELSE BatchSize
  IN  [k \in 1 .. n |-> first + k - 1]

\* getArchiveState: the cached watermark while its TTL lasts, or a new read;
\* once run is cleared the pool has ended and nothing can be read.
ArchiveStateKnown(i) == cache[i].read \/ run[i]
ArchiveState(i) ==
  IF cache[i].read THEN cache[i] ELSE [read |-> TRUE, mark |-> watermark]

\* Mutant: the attempts are counted one too far.
AttemptFailsOneMore(i, archiveState) ==
  IF fetch[i].tries = FetchAttempts
  THEN Throw(i)
  ELSE /\ fetch' = [fetch EXCEPT ![i] = Retried(@)]
       /\ cache' = [cache EXCEPT ![i] = archiveState]
       /\ UNCHANGED <<pc, run, lastBlock, batch, handled>>

\* An attempt throws: the next one starts over, the last one rejects.
AttemptFails(i, archiveState) ==
  IF fetch[i].tries + 1 = FetchAttempts
  THEN Throw(i)
  ELSE /\ fetch' = [fetch EXCEPT ![i] = Retried(@)]
       /\ cache' = [cache EXCEPT ![i] = archiveState]
       /\ UNCHANGED <<pc, run, lastBlock, batch, handled>>

\* The requested height is only in the archive: getBlocks throws.
BelowWatermark(i) ==
  /\ fetch[i].status = "watermark" /\ ArchiveStateKnown(i)
  /\ fetch[i].from <= ArchiveState(i).mark
  /\ AttemptFails(i, ArchiveState(i))
  /\ UNCHANGED <<indexer, database, faults>>

AboveWatermark(i) ==
  /\ fetch[i].status = "watermark" /\ ArchiveStateKnown(i)
  /\ fetch[i].from > ArchiveState(i).mark
  /\ fetch' = [fetch EXCEPT ![i] = Querying(@)]
  /\ cache' = [cache EXCEPT ![i] = ArchiveState(i)]
  /\ UNCHANGED <<indexer, database, pc, run, lastBlock, batch, handled, faults>>

QueryBlocks(i) ==
  /\ fetch[i].status = "query" /\ run[i]
  /\ fetch' = [fetch EXCEPT ![i] = Answered(@, Rows(@.from))]
  /\ UNCHANGED <<indexer, database, pc, run, lastBlock, batch, handled, cache,
                 faults>>

\* A query of the indexer fails: a timeout, a lost connection ...
QueryFails(i) ==
  /\ \/ fetch[i].status = "watermark" /\ ~cache[i].read
     \/ fetch[i].status = "query"
  /\ Fault
  /\ AttemptFails(i, cache[i])
  /\ UNCHANGED <<indexer, database>>

\* ... or, after the exit handler, the pool has ended.
QueryOnEndedPool(i) ==
  /\ ~run[i]
  /\ \/ fetch[i].status = "watermark" /\ ~cache[i].read
     \/ fetch[i].status = "query"
  /\ AttemptFails(i, cache[i])
  /\ UNCHANGED <<indexer, database, faults>>

\* Mutant: the cached watermark has no TTL.
WatermarkNeverExpires(i) ==
  /\ cache[i].read
  /\ UNCHANGED vars

\* watermarkCacheTtl has passed since the watermark was read.
WatermarkExpires(i) ==
  /\ cache[i].read
  /\ cache' = [cache EXCEPT ![i] = NoCache]
  /\ UNCHANGED <<indexer, database, pc, run, lastBlock, batch, handled, fetch,
                 faults>>

-------------------------------------------------------------------------------
(* The while loop of processBlocks.                                        *)

\* `while (run)`, then the prefetched batch or a new fetch.
LoopHead(i) ==
  /\ pc[i] = "loop"
  /\ IF ~run[i]
     THEN EndProcess(i, "stopped")
     ELSE /\ pc' = [pc EXCEPT ![i] = "await"]
          /\ fetch' = [fetch EXCEPT ![i] =
                         IF @.status = "none" THEN NewFetch(lastBlock[i] + 1) ELSE @]
          /\ UNCHANGED <<run, lastBlock, batch, handled, cache>>
  /\ UNCHANGED <<indexer, database, faults>>

\* Mutant: nextBatch keeps the empty batch.
NoBlocksKept(i) ==
  /\ pc[i] = "await"
  /\ fetch[i].status = "ok" /\ fetch[i].blocks = << >>
  /\ pc' = [pc EXCEPT ![i] = "sleep"]
  /\ UNCHANGED <<indexer, database, run, lastBlock, batch, handled, fetch,
                 cache, faults>>

\* The awaited batch is empty: sleep.
NoBlocks(i) ==
  /\ pc[i] = "await"
  /\ fetch[i].status = "ok" /\ fetch[i].blocks = << >>
  /\ fetch' = [fetch EXCEPT ![i] = NoFetch]
  /\ pc' = [pc EXCEPT ![i] = "sleep"]
  /\ UNCHANGED <<indexer, database, run, lastBlock, batch, handled, cache, faults>>

Wake(i) ==
  /\ pc[i] = "sleep"
  /\ pc' = [pc EXCEPT ![i] = "loop"]
  /\ UNCHANGED <<indexer, database, run, lastBlock, batch, handled, fetch,
                 cache, faults>>

\* Mutant: the prefetch starts at the last block of this batch.
TakeBatchOverlap(i) ==
  LET blocks == fetch[i].blocks
  IN  /\ pc[i] = "await"
      /\ fetch[i].status = "ok" /\ blocks # << >>
      /\ batch' = [batch EXCEPT ![i] = blocks]
      /\ fetch' = [fetch EXCEPT ![i] =
                     IF Len(blocks) = BatchSize
                     THEN NewFetch(lastBlock[i] + Len(blocks))
                     ELSE NoFetch]
      /\ pc' = [pc EXCEPT ![i] = "check"]
      /\ UNCHANGED <<indexer, database, run, lastBlock, handled, cache, faults>>

\* The awaited batch has arrived: the next one is prefetched iff it is full.
TakeBatch(i) ==
  LET blocks == fetch[i].blocks
  IN  /\ pc[i] = "await"
      /\ fetch[i].status = "ok" /\ blocks # << >>
      /\ batch' = [batch EXCEPT ![i] = blocks]
      /\ fetch' = [fetch EXCEPT ![i] =
                     IF Len(blocks) = BatchSize
                     THEN NewFetch(lastBlock[i] + Len(blocks) + 1)
                     ELSE NoFetch]
      /\ pc' = [pc EXCEPT ![i] = "check"]
      /\ UNCHANGED <<indexer, database, run, lastBlock, handled, cache, faults>>

\* The State row is read again before every block, and two assertions guard
\* the transaction: nobody else moved the row, and no block is missing.
CheckBlock(i) ==
  /\ pc[i] = "check"
  /\ IF stateHeight = lastBlock[i] /\ lastBlock[i] + 1 = Head(batch[i])
     THEN /\ pc' = [pc EXCEPT ![i] = "tx"]
          /\ handled' = [handled EXCEPT ![i] = 0]
          /\ UNCHANGED <<run, lastBlock, batch, fetch, cache>>
     ELSE Throw(i)
  /\ UNCHANGED <<indexer, database, faults>>

\* The handler of the next event writes inside the transaction; an event
\* without a handler and a failing handler abort it.
HandleEvent(i) ==
  /\ pc[i] = "tx" /\ handled[i] < EventsPerBlock
  /\ IF Head(batch[i]) \in BadBlocks
     THEN Throw(i)
     ELSE /\ handled' = [handled EXCEPT ![i] = @ + 1]
          /\ UNCHANGED <<pc, run, lastBlock, batch, fetch, cache>>
  /\ UNCHANGED <<indexer, database, faults>>

\* The transaction outlives PROCESSOR_TRANSACTION_TIMEOUT: rolled back.
TxTimeout(i) ==
  /\ pc[i] = "tx"
  /\ Fault
  /\ Throw(i)
  /\ UNCHANGED <<indexer, database>>

\* Mutant: the State row is updated whatever its height.
CommitWritesUnguarded(i) ==
  LET block == Head(batch[i])
  IN  /\ pc[i] = "tx" /\ handled[i] = EventsPerBlock
      /\ stateHeight' = block
      /\ applied' = Append(applied, block)

\* state.updateMany(where height = block.height - 1) found the row, and the
\* transaction commits: the handlers' writes and the new height together.
CommitWrites(i) ==
  LET block == Head(batch[i])
  IN  /\ pc[i] = "tx" /\ handled[i] = EventsPerBlock
      /\ stateHeight = block - 1
      /\ stateHeight' = block
      /\ applied' = Append(applied, block)

Commit(i) ==
  /\ CommitWrites(i)
  /\ lastBlock' = [lastBlock EXCEPT ![i] = Head(batch[i])]
  /\ batch' = [batch EXCEPT ![i] = Tail(@)]
  /\ handled' = [handled EXCEPT ![i] = 0]
  /\ pc' = [pc EXCEPT ![i] = IF Len(batch[i]) = 1 THEN "loop" ELSE "check"]
  /\ UNCHANGED <<indexer, run, fetch, cache, faults>>

\* Mutant: the State row is updated after the transaction, not inside it.
CommitWithoutHeight(i) ==
  LET block == Head(batch[i])
  IN  /\ pc[i] = "tx" /\ handled[i] = EventsPerBlock
      /\ stateHeight = block - 1
      /\ applied' = Append(applied, block)
      /\ UNCHANGED stateHeight
      /\ Fault
      /\ Throw(i)
      /\ UNCHANGED indexer

\* The database commits, but the process never learns it.
CommitUnacknowledged(i) ==
  /\ CommitWrites(i)
  /\ Fault
  /\ Throw(i)
  /\ UNCHANGED indexer

\* updateMany found no row: `failed to update state`, everything rolled back.
CommitLost(i) ==
  /\ pc[i] = "tx" /\ handled[i] = EventsPerBlock
  /\ stateHeight # Head(batch[i]) - 1
  /\ Throw(i)
  /\ UNCHANGED <<indexer, database, faults>>

-------------------------------------------------------------------------------

\* The steps an instance takes by itself, without a fault.
Progress(i) ==
  \/ Resume(i) \/ LoopHead(i) \/ NoBlocks(i) \/ Wake(i) \/ TakeBatch(i)
  \/ CheckBlock(i) \/ HandleEvent(i) \/ Commit(i) \/ CommitLost(i)

Fetching(i) ==
  \/ BelowWatermark(i) \/ AboveWatermark(i) \/ QueryBlocks(i)
  \/ QueryOnEndedPool(i)

Faulty(i) ==
  \/ Crash(i) \/ Sigterm(i) \/ QueryFails(i) \/ TxTimeout(i)
  \/ CommitUnacknowledged(i)

Instance(i) ==
  \/ Start(i) \/ Redeploy(i) \/ Progress(i) \/ Fetching(i)
  \/ WatermarkExpires(i) \/ Faulty(i)

Next ==
  \/ Produce \/ Archive \/ Prune
  \/ \E i \in Instances : Instance(i)

Spec == Init /\ [][Next]_vars

(***************************************************************************)
(* A running process takes its next step, a pending call is answered, the  *)
(* cached watermark reaches its TTL and the platform restarts a process    *)
(* that exited with an error.  Nothing makes faults, new blocks, archiving *)
(* or a redeployment happen.                                               *)
(***************************************************************************)
Fairness ==
  \A i \in Instances :
    /\ WF_vars(Start(i)) /\ WF_vars(Progress(i))
    /\ WF_vars(Fetching(i)) /\ WF_vars(WatermarkExpires(i))

FairSpec == Spec /\ Fairness

-------------------------------------------------------------------------------
(* Properties.                                                             *)

\* Exactly once, in order, nothing skipped: the blocks whose events took
\* effect are those from 0 to the height of the State row, whichever
\* instances applied them and however they ended.
ExactlyOnceInOrder == applied = [k \in 1 .. stateHeight + 1 |-> k - 1]

\* No instance believes in a block that is not committed, and while it works
\* through a batch each remaining block is one the chain has.
NoInstanceAhead ==
  \A i \in Instances :
    Alive(i) => /\ lastBlock[i] <= stateHeight
                /\ \A k \in DOMAIN batch[i] : batch[i][k] <= tip

\* A prefetch is never used for another position than it was made for: the
\* rows the loop is about to take start where lastBlock stands, unless the
\* archiver removed the first of them under a stale watermark.
PrefetchFitsLoop ==
  \A i \in Instances :
    pc[i] = "await" =>
      /\ fetch[i].status # "none"
      /\ fetch[i].from = lastBlock[i] + 1
      /\ (fetch[i].status = "ok" /\ fetch[i].blocks # << >>)
           => \/ Head(fetch[i].blocks) = lastBlock[i] + 1
              \/ Head(fetch[i].blocks) <= hotFrom

\* What an instance holds fits where the database stands, and what it is about
\* to take fits what it holds.
InstancesFit == NoInstanceAhead /\ PrefetchFitsLoop

\* A step that commits writes is a step of an instance that was up to date
\* and whose whole block went through its handlers; an instance that lost a
\* race, was told of a gap or met a failing handler changes nothing.
UpToDateCommit ==
  \E i \in Instances :
    /\ pc[i] = "tx" /\ lastBlock[i] = stateHeight
    /\ handled[i] = EventsPerBlock
    /\ stateHeight' = lastBlock[i] + 1
    /\ stateHeight' \notin BadBlocks
    /\ \A j \in Instances \ {i} : UNCHANGED <<pc[j], lastBlock[j]>>
OnlyUpToDateCommits == [][UNCHANGED database \/ UpToDateCommit]_vars

\* The processor refines the log of blocks every reader relies on.
Log == INSTANCE BlockLog WITH tip <- tip, applied <- applied
ImplementsBlockLog == Log!Spec

\* The next block cannot be applied by any number of restarts: its handler
\* always throws, or only the archive holds it.
NextIsStuck ==
  \/ stateHeight + 1 \in BadBlocks
  \/ stateHeight + 1 < hotFrom
  \/ stateHeight + 1 <= watermark

AllStopped == \A i \in Instances : pc[i] = "stopped"

\* Every block of the chain is applied in the end, by whichever instance is
\* first: instances that race for each block kill each other's attempts but
\* never stop each other for good.
EveryBlockApplied ==
  \A h \in 0 .. MaxHeight :
    (tip >= h) ~> (stateHeight >= h \/ NextIsStuck \/ AllStopped)

\* A processor that needs an archived block reports it by exiting; it does
\* not idle at an apparent tip because of the cached watermark.
ArchivedBlockIsReported ==
  \A i \in Instances :
    (pc[i] = "sleep" /\ stateHeight + 1 <= watermark)
      ~> (pc[i] \in {"down", "stopped"} \/ stateHeight + 1 > watermark)
===============================================================================
