---------------------------- MODULE BackendProofs ----------------------------
(***************************************************************************)
(* The event handlers of the pools, the balances of the makers, and the    *)
(* parts of the backend side by side, as MCBackend runs them: what holds   *)
(* of each by itself holds of all.                                         *)
(***************************************************************************)
EXTENDS MCBackend, CacheProofs


-----------------------------------------------------------------------------
(* EventHandlers.                                                          *)

\* Every pool has Usdc on one side, one way round only, and its row has it second.
PoolsHaveUsdc ==
    /\ \A pair \in DOMAIN chainPools : \E a \in Unstable : pair = <<a, Usdc>> \/ pair = <<Usdc, a>>
    /\ \A a \in Unstable : ~(<<a, Usdc>> \in DOMAIN chainPools /\ <<Usdc, a>> \in DOMAIN chainPools)
    /\ \A row \in DOMAIN pools : \E a \in Unstable : row = <<a, Usdc>>

\* What is kept under a version is the metadata of that version.
MetadataOfItsVersion == \A m \in metadata : m.of = m.version

HandlersInv ==
    /\ runtime \in Runtimes
    /\ PoolsHaveUsdc /\ MetadataOfItsVersion /\ HandlersFollowTheChain

-----------------------------------------------------------------------------

LEMMA HandlersInitially == HandlersInit => HandlersInv
<1> SUFFICES ASSUME HandlersInit PROVE HandlersInv
  OBVIOUS
<1>1. DOMAIN chainPools = {} /\ DOMAIN pools = {}
  BY DEF HandlersInit
<1> QED
  BY <1>1 DEF HandlersInit, HandlersInv, PoolsHaveUsdc, MetadataOfItsVersion, HandlersFollowTheChain,
     FeesFollowTheChain, StoppedOnlyByOldOrReversed, ErrorsNamedByTheirRuntime

\* Fees is stated of the rows of both ways round.
Row(pair) == IF pair[1] = Usdc THEN <<pair[2], pair[1]>> ELSE pair

\* A new pool: its row is new, or the pool of the other way round would be there.
LEMMA NewPoolKeeps ==
  ASSUME HandlersAssumption, HandlersInv, NEW a \in Unstable, NEW fee \in Fees,
         NEW base, NEW quote,
         (base = a /\ quote = Usdc) \/ (base = Usdc /\ quote = a),
         NewPoolCreated(base, quote, fee)
  PROVE  HandlersInv'
<1> DEFINE pair == <<base, quote>>  row == <<a, Usdc>>
<1>1. /\ <<a, Usdc>> \notin DOMAIN chainPools /\ <<Usdc, a>> \notin DOMAIN chainPools
      /\ chainPools' = With(chainPools, pair, fee) /\ pools' = With(pools, Oriented(base, quote), fee)
      /\ stoppedBy = None /\ UNCHANGED <<stoppedBy, runtime, boostPools, errors, metadata>>
  BY DEF NewPoolCreated, Event, Writes
<1>2. Oriented(base, quote) = row /\ Row(pair) = row
  BY DEF Oriented, Row, HandlersAssumption
<1>3. /\ DOMAIN chainPools' = DOMAIN chainPools \cup {pair} /\ chainPools'[pair] = fee
      /\ \A k \in DOMAIN chainPools : k # pair => chainPools'[k] = chainPools[k]
  BY <1>1 DEF With
<1>4. /\ DOMAIN pools' = DOMAIN pools \cup {row} /\ pools'[row] = fee
      /\ \A k \in DOMAIN pools : k # row => pools'[k] = pools[k]
  BY <1>1, <1>2 DEF With
<1>5. PoolsHaveUsdc'
  BY <1>1, <1>3, <1>4 DEF HandlersInv, PoolsHaveUsdc, HandlersAssumption
<1>6. FeesFollowTheChain'
  <2> SUFFICES ASSUME NEW p \in DOMAIN chainPools'
               PROVE  Row(p) \in DOMAIN pools' /\ pools'[Row(p)] = chainPools'[p]
    BY DEF FeesFollowTheChain, Row
  <2>1. CASE p = pair
    BY <2>1, <1>2, <1>3, <1>4
  <2>2. CASE p \in DOMAIN chainPools /\ p # pair
    <3>1. Row(p) \in DOMAIN pools /\ pools[Row(p)] = chainPools[p]
      BY <2>2, <1>1 DEF HandlersInv, HandlersFollowTheChain, FeesFollowTheChain, Row
    <3>2. Row(p) # row
      BY <2>2, <1>1 DEF HandlersInv, PoolsHaveUsdc, Row, HandlersAssumption
    <3> QED
      BY <2>2, <3>1, <3>2, <1>3, <1>4
  <2> QED
    BY <2>1, <2>2, <1>3
<1> QED
  BY <1>1, <1>5, <1>6 DEF HandlersInv, MetadataOfItsVersion, HandlersFollowTheChain,
     StoppedOnlyByOldOrReversed, ErrorsNamedByTheirRuntime

\* A new fee of a pool as the rows have it.
LEMMA FeeSetKeeps ==
  ASSUME HandlersAssumption, NoneAssumption, HandlersInv, NEW a \in Unstable, NEW fee \in Fees,
         PoolFeeSet(a, Usdc, fee)
  PROVE  HandlersInv'
<1> DEFINE pair == <<a, Usdc>>
<1>1. /\ pair \in DOMAIN chainPools /\ chainPools' = With(chainPools, pair, fee)
      /\ stoppedBy = None /\ UNCHANGED runtime
  BY DEF PoolFeeSet, Event
<1>2. Row(pair) = pair
  BY DEF Row, HandlersAssumption
<1>3. pair \in DOMAIN pools
  BY <1>1, <1>2 DEF HandlersInv, HandlersFollowTheChain, FeesFollowTheChain, Row
<1>4. /\ pools' = With(pools, pair, fee)
      /\ UNCHANGED <<stoppedBy, boostPools, errors, metadata>>
  BY <1>3 DEF PoolFeeSet, Writes
<1>5. /\ DOMAIN chainPools' = DOMAIN chainPools /\ chainPools'[pair] = fee
      /\ \A k \in DOMAIN chainPools : k # pair => chainPools'[k] = chainPools[k]
  BY <1>1 DEF With
<1>6. /\ DOMAIN pools' = DOMAIN pools /\ pools'[pair] = fee
      /\ \A k \in DOMAIN pools : k # pair => pools'[k] = pools[k]
  BY <1>3, <1>4 DEF With
<1>7. PoolsHaveUsdc'
  BY <1>5, <1>6 DEF HandlersInv, PoolsHaveUsdc
<1>8. FeesFollowTheChain'
  <2> SUFFICES ASSUME NEW p \in DOMAIN chainPools
               PROVE  Row(p) \in DOMAIN pools' /\ pools'[Row(p)] = chainPools'[p]
    BY <1>5 DEF FeesFollowTheChain, Row
  <2>1. CASE p = pair
    BY <2>1, <1>2, <1>3, <1>5, <1>6
  <2>2. CASE p # pair
    <3>1. Row(p) \in DOMAIN pools /\ pools[Row(p)] = chainPools[p]
      BY <1>1 DEF HandlersInv, HandlersFollowTheChain, FeesFollowTheChain, Row
    <3>2. Row(p) # pair
      BY <2>2, <1>1 DEF HandlersInv, PoolsHaveUsdc, Row, HandlersAssumption
    <3> QED
      BY <2>2, <3>1, <3>2, <1>5, <1>6
  <2> QED
    BY <2>1, <2>2
<1> QED
  BY <1>1, <1>4, <1>7, <1>8 DEF HandlersInv, MetadataOfItsVersion, HandlersFollowTheChain,
     StoppedOnlyByOldOrReversed, ErrorsNamedByTheirRuntime

\* A new fee of a pool that the chain has the other way round stops the processor.
LEMMA ReversedFeeKeeps ==
  ASSUME HandlersAssumption, NoneAssumption, HandlersInv, NEW a \in Unstable, NEW fee \in Fees,
         PoolFeeSet(Usdc, a, fee)
  PROVE  HandlersInv'
<1> DEFINE pair == <<Usdc, a>>
<1>1. pair \in DOMAIN chainPools /\ chainPools' = With(chainPools, pair, fee) /\ UNCHANGED runtime
  BY DEF PoolFeeSet
<1>2. pair \notin DOMAIN pools
  BY DEF HandlersInv, PoolsHaveUsdc, HandlersAssumption
<1>3. stoppedBy' = "PoolFeeSet" /\ UNCHANGED <<pools, boostPools, errors, metadata>>
  BY <1>2 DEF PoolFeeSet, Stops
<1>4. stoppedBy' # None
  BY <1>3 DEF NoneAssumption, SwapEventNames
<1>5. DOMAIN chainPools' = DOMAIN chainPools
  BY <1>1 DEF With
<1>6. PoolsHaveUsdc' /\ MetadataOfItsVersion'
  BY <1>3, <1>5 DEF HandlersInv, PoolsHaveUsdc, MetadataOfItsVersion
<1>7. FeesFollowTheChain' /\ ErrorsNamedByTheirRuntime'
  BY <1>3, <1>4, <1>5 DEF HandlersInv, HandlersFollowTheChain, FeesFollowTheChain, ErrorsNamedByTheirRuntime
<1>8. StoppedOnlyByOldOrReversed'
  BY <1>1, <1>3, <1>5 DEF StoppedOnlyByOldOrReversed
<1> QED
  BY <1>1, <1>6, <1>7, <1>8 DEF HandlersInv, HandlersFollowTheChain

\* The name of a new error comes from metadata of the runtime of the block.
LEMMA EgressIgnoredKeeps ==
  ASSUME HandlersInv, NEW name, NEW code, EgressIgnored(name, code)
  PROVE  HandlersInv'
<1>1. UNCHANGED <<runtime, chainPools, pools, boostPools, stoppedBy>>
  BY DEF EgressIgnored
<1>2. MetadataOf(runtime).of = runtime /\ MetadataOf(runtime).version = runtime
  <2>1. CASE OfVersion(runtime) = {}
    BY <2>1 DEF MetadataOf
  <2>2. CASE OfVersion(runtime) # {}
    <3>1. MetadataOf(runtime) \in OfVersion(runtime)
      BY <2>2 DEF MetadataOf
    <3> QED
      BY <3>1 DEF OfVersion, HandlersInv, MetadataOfItsVersion
  <2> QED
    BY <2>1, <2>2
<1>3. MetadataOfItsVersion' /\ ErrorsNamedByTheirRuntime'
  BY <1>2 DEF EgressIgnored, HandlersInv, MetadataOfItsVersion, HandlersFollowTheChain, ErrorsNamedByTheirRuntime
<1> QED
  BY <1>1, <1>3 DEF HandlersInv, PoolsHaveUsdc, HandlersFollowTheChain, FeesFollowTheChain, StoppedOnlyByOldOrReversed

\* Each name the processor asks for has a handler from some version on.
LEMMA EveryNameHasAHandler ==
  ASSUME NEW name \in SwapEventNames
  PROVE  \E group \in Handlers : name \in group.names /\ group.version \in Nat
<1> DEFINE Has(group) == name \in group.names /\ group.version \in Nat
<1>1. CASE name \in {"NewPoolCreated", "PoolFeeSet", "BatchBroadcastRequested",
                   "CcmBroadcastRequested", "BroadcastSuccess", "BroadcastAborted",
                   "TransactionBroadcastRequest", "ChainStateUpdated"}
  BY <1>1 DEF Handlers, Since
<1>2. CASE name = "InsufficientBoostLiquidity"
  BY <1>2 DEF Handlers, Since
<1>3. CASE name = "SwapRescheduled"
  BY <1>3 DEF Handlers, Since, Rescheduled
<1>4. CASE name = "SwapRequestCompleted"
  BY <1>4 DEF Handlers, Since
<1>5. CASE name \in {"RefundEgressIgnored", "SwapExecuted", "SwapDepositAddressReady",
                   "SwapEgressIgnored", "SwapEgressScheduled", "LiquidityDepositAddressReady",
                   "DepositFinalised", "DepositBoosted", "TransactionRejectedByBroker"}
  BY <1>5 DEF Handlers, Since
<1>6. CASE name \in {"SwapScheduled", "TransferFallbackRequested"}
  BY <1>6 DEF Handlers, Since
<1>7. CASE name = "CreditedOnChain"
  BY <1>7 DEF Handlers, Since
<1>8. CASE name \in {"SwapRequested", "BoostPoolCreated", "RefundEgressScheduled",
                   "RefundedOnChain", "DepositFailed"}
  BY <1>8 DEF Handlers, Since
<1>9. CASE name = "SwapAborted"
  BY <1>9 DEF Handlers, Since
<1>10. CASE name = "AccountCreationDepositAddressReady"
  BY <1>10 DEF Handlers, Since
<1> QED
  BY <1>1, <1>2, <1>3, <1>4, <1>5, <1>6, <1>7, <1>8, <1>9, <1>10 DEF SwapEventNames, OncePerChain

\* Any other event stops the processor only before its handler's version.
LEMMA OtherEventKeeps ==
  ASSUME HandlersAssumption, NoneAssumption, HandlersInv, NEW name \in SwapEventNames, OtherEvent(name)
  PROVE  HandlersInv'
<1>1. /\ stoppedBy' = name /\ name # None /\ ~HasHandler(name)
      /\ UNCHANGED <<runtime, chainPools, pools, boostPools, errors, metadata>>
  BY DEF OtherEvent, Stops, NoneAssumption
<1>2. PICK group \in Handlers : name \in group.names /\ group.version \in Nat
  BY EveryNameHasAHandler
<1>3. ~(group.version <= runtime)
  BY <1>1, <1>2 DEF HasHandler
<1>4. runtime < group.version
  BY <1>2, <1>3 DEF HandlersInv, HandlersAssumption
<1>5. StoppedOnlyByOldOrReversed'
  BY <1>1, <1>2, <1>4 DEF StoppedOnlyByOldOrReversed
<1>6. FeesFollowTheChain'
  BY <1>1 DEF HandlersInv, HandlersFollowTheChain, FeesFollowTheChain
<1> QED
  BY <1>1, <1>5, <1>6 DEF HandlersInv, PoolsHaveUsdc, MetadataOfItsVersion, HandlersFollowTheChain,
     ErrorsNamedByTheirRuntime

LEMMA HandlersStepKeeps == HandlersAssumption /\ NoneAssumption /\ HandlersInv /\ [HandlersNext]_handlerVars => HandlersInv'
<1> SUFFICES ASSUME HandlersAssumption, NoneAssumption, HandlersInv, [HandlersNext]_handlerVars PROVE HandlersInv'
  OBVIOUS
<1>1. ASSUME NEW a \in Unstable, NEW fee \in Fees,
             NewPoolCreated(a, Usdc, fee) \/ NewPoolCreated(Usdc, a, fee)
      PROVE  HandlersInv'
  BY <1>1, NewPoolKeeps
<1>2. ASSUME NEW a \in Unstable, NEW fee \in Fees, PoolFeeSet(a, Usdc, fee) PROVE HandlersInv'
  BY <1>2, FeeSetKeeps
<1>3. ASSUME NEW a \in Unstable, NEW fee \in Fees, PoolFeeSet(Usdc, a, fee) PROVE HandlersInv'
  BY <1>3, ReversedFeeKeeps
<1>4. ASSUME UNCHANGED <<runtime, chainPools, pools, errors, stoppedBy>>, metadata' \subseteq metadata
      PROVE  HandlersInv'
  BY <1>4 DEF HandlersInv, PoolsHaveUsdc, MetadataOfItsVersion, HandlersFollowTheChain,
     FeesFollowTheChain, StoppedOnlyByOldOrReversed, ErrorsNamedByTheirRuntime
<1>5. ASSUME NEW a \in Unstable, BoostPoolCreated(a) PROVE HandlersInv'
  BY <1>4, <1>5 DEF BoostPoolCreated, Writes
<1>6. ASSUME NEW m \in metadata, MetadataExpires(m) PROVE HandlersInv'
  BY <1>4, <1>6 DEF MetadataExpires
<1>7. CASE UNCHANGED handlerVars
  BY <1>4, <1>7 DEF handlerVars
<1>8. ASSUME NEW name \in {"SwapEgressIgnored", "RefundEgressIgnored"}, NEW code \in ErrorCodes,
             EgressIgnored(name, code)
      PROVE  HandlersInv'
  BY <1>8, EgressIgnoredKeeps
<1>9. ASSUME NEW name \in SwapEventNames, OtherEvent(name) PROVE HandlersInv'
  BY <1>9, OtherEventKeeps
<1>10. ASSUME NEW version \in Runtimes, RuntimeUpgrade(version) PROVE HandlersInv'
  BY <1>10 DEF RuntimeUpgrade, HandlersInv, PoolsHaveUsdc, MetadataOfItsVersion, HandlersFollowTheChain,
     FeesFollowTheChain, StoppedOnlyByOldOrReversed, ErrorsNamedByTheirRuntime
<1> QED
  BY <1>1, <1>2, <1>3, <1>5, <1>6, <1>7, <1>8, <1>9, <1>10 DEF HandlersNext

-----------------------------------------------------------------------------

\* For any assets, fees and upgrades: the pool rows follow the chain, errors have
\* the name of their own runtime, and the processor stops in two cases only.
THEOREM FollowTheChain == HandlersSpec => []HandlersFollowTheChain
<1> QED
  BY HandlersAssumption, NoneAssumption, HandlersInitially, HandlersStepKeeps, PTL DEF HandlersSpec, HandlersInv

-----------------------------------------------------------------------------
(* BalanceTracker.                                                         *)

\* The newest refresh asks for every maker connected, finished or not.
NewestAsksForAll == current # 0 => monitored \subseteq refreshes[current].asked

BalancesInv == BalancesTypeOK /\ CountIsExact /\ NewestAsksForAll

-----------------------------------------------------------------------------

\* The next refresh follows the current one.
LEMMA NewRefreshFollows ==
  ASSUME BalancesTypeOK, TrackerAssumption
  PROVE  NewRefresh = current + 1
<1>1. current \in Nat
  BY DEF BalancesTypeOK, TrackerAssumption
<1>2. Cardinality(1 .. current) = current
  BY <1>1, FS_Interval, SMT
<1> QED
  BY <1>2 DEF NewRefresh, BalancesTypeOK

\* What runs is finitely many refreshes, no more than were started.
LEMMA RunningBounded ==
  ASSUME BalancesTypeOK, TrackerAssumption
  PROVE  /\ IsFiniteSet(Running)
         /\ Cardinality(Running) \in 0 .. MaxRefreshes
<1>1. MaxRefreshes \in Nat /\ Running \subseteq 1 .. MaxRefreshes
  BY DEF Running, Refreshes, TrackerAssumption
<1>2. IsFiniteSet(1 .. MaxRefreshes) /\ Cardinality(1 .. MaxRefreshes) = MaxRefreshes
  BY <1>1, FS_Interval, SMT
<1>3. IsFiniteSet(Running) /\ Cardinality(Running) <= Cardinality(1 .. MaxRefreshes)
  BY <1>1, <1>2, FS_Subset
<1>4. Cardinality(Running) \in Nat
  BY <1>3, FS_CardinalityType
<1> QED
  BY <1>1, <1>2, <1>3, <1>4

\* Starting a refresh, as Add and getBalances do.
LEMMA StartKeeps ==
  ASSUME BalancesInv, TrackerAssumption, NEW accounts \in SUBSET Makers, StartRefresh(accounts)
  PROVE  /\ current' = current + 1 /\ current' \in Refreshes
         /\ refreshes' \in [Refreshes -> Refresh]
         /\ refreshes'[current'].asked = accounts
         /\ Started' = 1 .. current'
         /\ CountIsExact'
         /\ inflightCount' \in 0 .. MaxRefreshes
<1> DEFINE new == NewRefresh
           started == [outcome |-> "running", attempts |-> 1, asked |-> accounts]
<1>1. new = current + 1
  BY NewRefreshFollows DEF BalancesInv
<1>2. new \in Refreshes /\ new \in Nat
  BY <1>1 DEF StartRefresh, BalancesInv, BalancesTypeOK, Refreshes, TrackerAssumption
<1>3. new \notin Started
  <2>1. Started = 1 .. current /\ current \in Nat
    BY DEF BalancesInv, BalancesTypeOK, TrackerAssumption
  <2> QED
    BY <2>1, <1>1
<1>4. refreshes[new].outcome = "none"
  BY <1>2, <1>3 DEF Started
<1>5. started \in Refresh
  BY DEF Refresh, TrackerAssumption
<1>6. refreshes \in [Refreshes -> Refresh] /\ refreshes' = [refreshes EXCEPT ![new] = started]
  BY DEF BalancesInv, BalancesTypeOK, StartRefresh
<1>7. refreshes' \in [Refreshes -> Refresh] /\ refreshes'[new] = started
  BY <1>2, <1>5, <1>6
<1>8. Running' = Running \cup {new}
  BY <1>2, <1>6, <1>7 DEF Running
<1>9. Started' = Started \cup {new}
  BY <1>2, <1>6, <1>7 DEF Started
<1>10. Started' = 1 .. (current + 1)
  <2>1. Started = 1 .. current /\ current \in Nat
    BY DEF BalancesInv, BalancesTypeOK, TrackerAssumption
  <2> QED
    BY <2>1, <1>1, <1>9
<1>11. new \notin Running
  BY <1>4 DEF Running
<1>12. IsFiniteSet(Running) /\ Cardinality(Running) \in Nat
  BY RunningBounded DEF BalancesInv, TrackerAssumption
<1>13. Cardinality(Running \cup {new}) = Cardinality(Running) + 1
  BY <1>11, <1>12, FS_AddElement
<1>14. CountIsExact'
  BY <1>8, <1>13 DEF CountIsExact, BalancesInv, StartRefresh
<1>15. Running' \subseteq 1 .. MaxRefreshes /\ MaxRefreshes \in Nat
  BY DEF Running, Refreshes, TrackerAssumption
<1>16. IsFiniteSet(1 .. MaxRefreshes) /\ Cardinality(1 .. MaxRefreshes) = MaxRefreshes
  BY <1>15, FS_Interval, SMT
<1>17. Cardinality(Running') <= MaxRefreshes
  BY <1>15, <1>16, FS_Subset
<1>18. inflightCount' \in 0 .. MaxRefreshes
  BY <1>8, <1>12, <1>13, <1>14, <1>15, <1>17 DEF CountIsExact
<1>19. current' = new
  BY DEF StartRefresh
<1> HIDE DEF new
<1> QED
  BY <1>1, <1>2, <1>7, <1>10, <1>14, <1>18, <1>19

\* A refresh that ends leaves the count by one and keeps what it asked for.
LEMMA FinishKeeps ==
  ASSUME BalancesInv, TrackerAssumption, NEW k \in Running, NEW outcome \in {"balances", "empty"},
         Finish(k, outcome)
  PROVE  /\ refreshes' \in [Refreshes -> Refresh]
         /\ \A j \in Refreshes : refreshes'[j].asked = refreshes[j].asked
         /\ Started' = Started
         /\ CountIsExact'
         /\ inflightCount' \in 0 .. MaxRefreshes
<1>1. k \in Refreshes /\ refreshes[k].outcome = "running"
  BY DEF Running
<1>2. refreshes \in [Refreshes -> Refresh]
      /\ refreshes' = [refreshes EXCEPT ![k] = [refreshes[k] EXCEPT !.outcome = outcome]]
  BY DEF BalancesInv, BalancesTypeOK, Finish
<1>3. refreshes[k] \in Refresh
  BY <1>1, <1>2
<1>4. [refreshes[k] EXCEPT !.outcome = outcome] \in Refresh
  BY <1>3 DEF Refresh
<1>5. refreshes' \in [Refreshes -> Refresh]
  BY <1>1, <1>2, <1>4
<1>6. refreshes'[k].outcome = outcome /\ refreshes'[k].asked = refreshes[k].asked
  BY <1>1, <1>2, <1>3 DEF Refresh
<1>7. \A j \in Refreshes : j # k => refreshes'[j] = refreshes[j]
  BY <1>1, <1>2
<1>8. \A j \in Refreshes : refreshes'[j].asked = refreshes[j].asked
  BY <1>6, <1>7
<1>9. Started' = Started
  BY <1>1, <1>6, <1>7 DEF Started
<1>10. Running' = Running \ {k}
  BY <1>1, <1>6, <1>7 DEF Running
<1>11. IsFiniteSet(Running) /\ Cardinality(Running) \in 0 .. MaxRefreshes
  BY RunningBounded DEF BalancesInv
<1>12. Cardinality(Running \ {k}) = Cardinality(Running) - 1
  BY <1>11, FS_RemoveElement
<1>13. IsFiniteSet(Running \ {k})
  BY <1>11, FS_RemoveElement
<1>14. Cardinality(Running \ {k}) \in Nat
  BY <1>13, FS_CardinalityType
<1>15. inflightCount' = inflightCount - 1
  BY DEF Finish, CountDownOf, CountDown
<1>16. CountIsExact'
  BY <1>10, <1>12, <1>15 DEF BalancesInv, CountIsExact
<1>17. MaxRefreshes \in Nat
  BY DEF TrackerAssumption
<1>18. inflightCount' \in 0 .. MaxRefreshes
  BY <1>10, <1>11, <1>12, <1>14, <1>16, <1>17 DEF CountIsExact
<1> QED
  BY <1>5, <1>8, <1>9, <1>16, <1>18

-----------------------------------------------------------------------------

LEMMA BalancesInitially ==
  ASSUME BalancesInit, TrackerAssumption
  PROVE  BalancesInv
<1>1. NotStarted \in Refresh
  BY DEF NotStarted, Refresh, TrackerAssumption
<1>2. BalancesTypeOK
  <2>1. Started = {}
    BY DEF BalancesInit, Started, NotStarted
  <2>2. Started = 1 .. current
    BY <2>1 DEF BalancesInit
  <2>3. refreshes \in [Refreshes -> Refresh]
    BY <1>1 DEF BalancesInit
  <2>4. /\ inflightCount \in 0 .. MaxRefreshes /\ current \in 0 .. MaxRefreshes
        /\ waitsFor \in [Callers -> 0 .. MaxRefreshes]
        /\ pc \in [Callers -> {"idle", "waiting", "checking", "returned"}]
    BY DEF BalancesInit, TrackerAssumption
  <2> QED
    BY <2>2, <2>3, <2>4 DEF BalancesInit, BalancesTypeOK
<1>3. Running = {}
  BY DEF BalancesInit, Running, NotStarted
<1>4. CountIsExact
  BY <1>3, FS_EmptySet DEF BalancesInit, CountIsExact
<1>5. NewestAsksForAll
  BY DEF BalancesInit, NewestAsksForAll
<1> QED
  BY <1>2, <1>4, <1>5 DEF BalancesInv

LEMMA AddKeeps ==
  ASSUME BalancesInv, TrackerAssumption, NEW m \in Makers, Add(m)
  PROVE  BalancesInv'
<1> DEFINE accounts == monitored \cup {m}
<1>1. accounts \in SUBSET Makers
  BY DEF BalancesInv, BalancesTypeOK
<1>2. StartRefresh(accounts) /\ monitored' = accounts
  BY DEF Add, RefreshOnAdd
<1> HIDE DEF accounts
<1>3. /\ current' \in Refreshes
      /\ refreshes' \in [Refreshes -> Refresh]
      /\ refreshes'[current'].asked = accounts
      /\ Started' = 1 .. current'
      /\ CountIsExact'
      /\ inflightCount' \in 0 .. MaxRefreshes
  BY <1>1, <1>2, StartKeeps
<1>4. current' \in 0 .. MaxRefreshes
  BY <1>3 DEF Refreshes, TrackerAssumption
<1>5. BalancesTypeOK'
  BY <1>1, <1>2, <1>3, <1>4 DEF BalancesTypeOK, BalancesInv, Add
<1>6. NewestAsksForAll'
  BY <1>2, <1>3 DEF NewestAsksForAll
<1> QED
  BY <1>3, <1>5, <1>6 DEF BalancesInv

LEMMA CallAndRefreshKeeps ==
  ASSUME BalancesInv, TrackerAssumption, NEW c \in Callers, CallAndRefresh(c)
  PROVE  BalancesInv'
<1>1. monitored \in SUBSET Makers
  BY DEF BalancesInv, BalancesTypeOK
<1>2. StartRefresh(monitored) /\ monitored' = monitored
  BY DEF CallAndRefresh
<1>3. /\ current' \in Refreshes
      /\ refreshes' \in [Refreshes -> Refresh]
      /\ refreshes'[current'].asked = monitored
      /\ Started' = 1 .. current'
      /\ CountIsExact'
      /\ inflightCount' \in 0 .. MaxRefreshes
  BY <1>1, <1>2, StartKeeps
<1>4. current' \in 0 .. MaxRefreshes
  BY <1>3 DEF Refreshes, TrackerAssumption
<1>5. /\ pc' \in [Callers -> {"idle", "waiting", "checking", "returned"}]
      /\ waitsFor' \in [Callers -> 0 .. MaxRefreshes]
  BY <1>4 DEF CallAndRefresh, BalancesInv, BalancesTypeOK
<1>6. BalancesTypeOK'
  BY <1>1, <1>2, <1>3, <1>4, <1>5 DEF BalancesTypeOK, BalancesInv, CallAndRefresh
<1>7. NewestAsksForAll'
  BY <1>2, <1>3 DEF NewestAsksForAll
<1> QED
  BY <1>3, <1>6, <1>7 DEF BalancesInv

\* Succeed and GiveUp.
LEMMA EndKeeps ==
  ASSUME BalancesInv, TrackerAssumption, NEW k \in Running, NEW outcome \in {"balances", "empty"},
         Finish(k, outcome), fresh' \in BOOLEAN
  PROVE  BalancesInv'
<1>1. /\ refreshes' \in [Refreshes -> Refresh]
      /\ \A j \in Refreshes : refreshes'[j].asked = refreshes[j].asked
      /\ Started' = Started
      /\ CountIsExact'
      /\ inflightCount' \in 0 .. MaxRefreshes
  BY FinishKeeps
<1>2. monitored' = monitored /\ current' = current /\ waitsFor' = waitsFor
  BY DEF Finish
<1>3. pc' \in [Callers -> {"idle", "waiting", "checking", "returned"}]
  BY DEF Finish, BalancesInv, BalancesTypeOK
<1>4. BalancesTypeOK'
  BY <1>1, <1>2, <1>3 DEF BalancesTypeOK, BalancesInv
<1>5. current # 0 => current \in Refreshes
  BY DEF BalancesInv, BalancesTypeOK, Refreshes, TrackerAssumption
<1>6. NewestAsksForAll'
  BY <1>1, <1>2, <1>5 DEF NewestAsksForAll, BalancesInv
<1> QED
  BY <1>1, <1>4, <1>6 DEF BalancesInv

LEMMA RetryKeeps ==
  ASSUME BalancesInv, TrackerAssumption, NEW k \in Refreshes, Retry(k)
  PROVE  BalancesInv'
<1> DEFINE again == [refreshes[k] EXCEPT !.attempts = refreshes[k].attempts + 1, !.asked = monitored]
<1>1. refreshes \in [Refreshes -> Refresh] /\ refreshes' = [refreshes EXCEPT ![k] = again]
  BY DEF BalancesInv, BalancesTypeOK, Retry
<1>2. refreshes[k] \in Refresh
  BY <1>1
<1>3. refreshes[k].attempts + 1 \in 0 .. Attempts /\ monitored \in SUBSET Makers
  BY <1>2 DEF Retry, Refresh, BalancesInv, BalancesTypeOK, TrackerAssumption
<1>4. again \in Refresh /\ again.outcome = refreshes[k].outcome /\ again.asked = monitored
  BY <1>2, <1>3 DEF Refresh
<1> HIDE DEF again
<1>5. refreshes' \in [Refreshes -> Refresh] /\ refreshes'[k] = again
  BY <1>1, <1>4
<1>6. \A j \in Refreshes : j # k => refreshes'[j] = refreshes[j]
  BY <1>1
<1>7. \A j \in Refreshes : refreshes'[j].outcome = refreshes[j].outcome
  BY <1>4, <1>5, <1>6
<1>8. Started' = Started /\ Running' = Running
  BY <1>7 DEF Started, Running
<1>9. BalancesTypeOK'
  BY <1>5, <1>8 DEF BalancesTypeOK, BalancesInv, Retry
<1>10. CountIsExact'
  BY <1>8 DEF CountIsExact, BalancesInv, Retry
<1>11. NewestAsksForAll'
  <2>1. CASE current = k
    BY <2>1, <1>4, <1>5 DEF NewestAsksForAll, Retry
  <2>2. CASE current # k
    <3>1. current # 0 => current \in Refreshes
      BY DEF BalancesInv, BalancesTypeOK, Refreshes, TrackerAssumption
    <3> QED
      BY <2>2, <3>1, <1>6 DEF NewestAsksForAll, BalancesInv, Retry
  <2> QED
    BY <2>1, <2>2
<1> QED
  BY <1>9, <1>10, <1>11 DEF BalancesInv

\* The steps that neither start nor end a refresh.
LEMMA OtherKeeps ==
  ASSUME BalancesInv, UNCHANGED <<inflightCount, current, refreshes>>,
         monitored' \subseteq monitored, fresh' \in BOOLEAN,
         pc' \in [Callers -> {"idle", "waiting", "checking", "returned"}],
         waitsFor' \in [Callers -> 0 .. MaxRefreshes]
  PROVE  BalancesInv'
<1>1. Started' = Started /\ Running' = Running
  BY DEF Started, Running
<1>2. BalancesTypeOK'
  BY <1>1 DEF BalancesTypeOK, BalancesInv
<1>3. CountIsExact' /\ NewestAsksForAll'
  BY <1>1 DEF CountIsExact, NewestAsksForAll, BalancesInv
<1> QED
  BY <1>2, <1>3 DEF BalancesInv

LEMMA BalancesStepKeeps ==
  ASSUME BalancesInv, TrackerAssumption, [BalancesNext]_balanceVars
  PROVE  BalancesInv'
<1>1. ASSUME NEW m \in Makers, Add(m) PROVE BalancesInv'
  BY <1>1, AddKeeps
<1>2. ASSUME NEW m \in Makers, Remove(m) PROVE BalancesInv'
  BY <1>2, OtherKeeps DEF Remove, BalancesInv, BalancesTypeOK
<1>3. ASSUME NEW c \in Callers, CallAndRefresh(c) PROVE BalancesInv'
  BY <1>3, CallAndRefreshKeeps
<1>4. ASSUME NEW c \in Callers, Call(c) PROVE BalancesInv'
  BY <1>4, OtherKeeps DEF Call, BalancesInv, BalancesTypeOK
<1>5. ASSUME NEW c \in Callers, Check(c) PROVE BalancesInv'
  <2>1. /\ UNCHANGED <<inflightCount, current, refreshes>>
        /\ monitored' \subseteq monitored /\ fresh' \in BOOLEAN
    BY <1>5 DEF Check, BalancesInv, BalancesTypeOK
  <2>2. pc' \in [Callers -> {"idle", "waiting", "checking", "returned"}]
    BY <1>5 DEF Check, BalancesInv, BalancesTypeOK
  <2>3. waitsFor' \in [Callers -> 0 .. MaxRefreshes]
    BY <1>5 DEF Check, BalancesInv, BalancesTypeOK
  <2> QED
    BY <2>1, <2>2, <2>3, OtherKeeps
<1>6. ASSUME NEW k \in Refreshes, Succeed(k) PROVE BalancesInv'
  BY <1>6, EndKeeps DEF Succeed, MayFinish
<1>7. ASSUME NEW k \in Refreshes, Retry(k) PROVE BalancesInv'
  BY <1>7, RetryKeeps
<1>8. ASSUME NEW k \in Refreshes, GiveUp(k) PROVE BalancesInv'
  <2>1. fresh' \in BOOLEAN
    BY <1>8 DEF GiveUp, BalancesInv, BalancesTypeOK
  <2> QED
    BY <1>8, <2>1, EndKeeps DEF GiveUp, MayFinish
<1>9. CASE Age
  BY <1>9, OtherKeeps DEF Age, BalancesInv, BalancesTypeOK
<1>10. ASSUME UNCHANGED balanceVars PROVE BalancesInv'
  BY <1>10, OtherKeeps DEF balanceVars, BalancesInv, BalancesTypeOK
<1> QED
  BY <1>1, <1>2, <1>3, <1>4, <1>5, <1>6, <1>7, <1>8, <1>9, <1>10 DEF BalancesNext, Spin

-----------------------------------------------------------------------------

\* The inductive invariant holds in every state of every execution.
THEOREM BalancesInvariance == BalancesSpec => []BalancesInv
<1>1. BalancesInit => BalancesInv
  BY BalancesInitially, TrackerAssumption
<1>2. BalancesInv /\ [BalancesNext]_balanceVars => BalancesInv'
  BY BalancesStepKeeps, TrackerAssumption
<1> QED
  BY <1>1, <1>2, PTL DEF BalancesSpec

\* The variables keep their types, and refreshes are numbered without gaps.
THEOREM BalancesTypeCorrectness == BalancesSpec => []BalancesTypeOK
<1>1. BalancesInv => BalancesTypeOK
  BY DEF BalancesInv
<1> QED
  BY <1>1, BalancesInvariance, PTL

\* The counter that getBalances loops on counts the refreshes under way, for any
\* number of overlapping refreshes that succeed, are retried or fail.
THEOREM CountExactness == BalancesSpec => []CountIsExact
<1>1. BalancesInv => CountIsExact
  BY DEF BalancesInv
<1> QED
  BY <1>1, BalancesInvariance, PTL

\* Balances that are complete leave out no connected market maker.
THEOREM Coverage == BalancesSpec => []BalancesCoverMonitored
<1>1. BalancesInv => BalancesCoverMonitored
  BY DEF BalancesInv, NewestAsksForAll, BalancesCoverMonitored
<1> QED
  BY <1>1, BalancesInvariance, PTL

\* Both: the counter and the balances agree with what ran.
THEOREM Exactness == BalancesSpec => []BalancesExact
<1>1. CountIsExact /\ BalancesCoverMonitored => BalancesExact
  BY DEF BalancesExact
<1> QED
  BY <1>1, CountExactness, Coverage, PTL

-----------------------------------------------------------------------------
(* The parts side by side.                                                 *)

\* Only where the warmed cache runs has it a clock; elsewhere its fetches have no times.
BackendInv ==
    /\ CacheInv /\ MemoInv /\ PriceInv /\ ReadInv /\ HandlersInv /\ BalancesInv
    /\ which = "warm" => WarmInv
    /\ which # "warm" => resets /\ life = <<>>

-----------------------------------------------------------------------------

LEMMA BackendInitially == MCInit => BackendInv
<1> SUFFICES ASSUME MCInit PROVE BackendInv
  OBVIOUS
<1>1. CacheInv /\ (which = "warm" => WarmInv) /\ (which # "warm" => resets /\ life = <<>>)
  BY CacheInitially, WarmInitially, FetchesAssumption DEF MCInit, WarmInit
<1>2. MemoInv /\ PriceInv
  BY MemoInitially, PriceInitially, MemoizeAssumption, PriceAssumption DEF MCInit
<1>3. ReadInv /\ HandlersInv
  BY ReadInitially, HandlersInitially DEF MCInit
<1>4. BalancesInv
  BY BalancesInitially, TrackerAssumption DEF MCInit
<1> QED
  BY <1>1, <1>2, <1>3, <1>4 DEF BackendInv

\* The step of one part is a step of that part and leaves the others.
LEMMA BackendSteps ==
  ASSUME [MCNext]_MCVars
  PROVE  /\ which' = which
         /\ \/ which = "warm" /\ [WarmNext]_warmVars
            \/ which # "warm" /\ [Next]_vars /\ resets' = resets /\ life' = life
            \/ UNCHANGED warmVars
         /\ [MemoNext]_memoVars /\ [PriceNext]_priceVars /\ [ReadNext]_readVars
         /\ [HandlersNext]_handlerVars /\ [BalancesNext]_balanceVars
<1>1. CASE Only("map", Next, <<Timers, memoVars, priceVars, readVars, handlerVars, balanceVars>>) /\ which' = which
  BY <1>1 DEF Only, Timers
<1>2. CASE Only("warm", WarmNext /\ Latest' <= WarmFetches,
                <<memoVars, priceVars, readVars, handlerVars, balanceVars>>) /\ which' = which
  BY <1>2 DEF Only
<1>3. CASE Only("memo", MemoNext, <<warmVars, priceVars, readVars, handlerVars, balanceVars>>) /\ which' = which
  BY <1>3 DEF Only
<1>4. CASE Only("prices", PriceNext, <<warmVars, memoVars, readVars, handlerVars, balanceVars>>) /\ which' = which
  BY <1>4 DEF Only
<1>5. CASE Only("reads", ReadNext, <<warmVars, memoVars, priceVars, handlerVars, balanceVars>>) /\ which' = which
  BY <1>5 DEF Only
<1>6. CASE Only("handlers", HandlersNext, <<warmVars, memoVars, priceVars, readVars, balanceVars>>) /\ which' = which
  BY <1>6 DEF Only
<1>7. CASE Only("balances", BalancesNext /\ FewChanges,
                <<warmVars, memoVars, priceVars, readVars, handlerVars>>) /\ which' = which
  BY <1>7 DEF Only
<1>8. CASE UNCHANGED MCVars
  BY <1>8 DEF MCVars
<1> QED
  BY <1>1, <1>2, <1>3, <1>4, <1>5, <1>6, <1>7, <1>8 DEF MCNext

LEMMA BackendStepKeeps == BackendInv /\ [MCNext]_MCVars => BackendInv'
<1> SUFFICES ASSUME BackendInv, [MCNext]_MCVars PROVE BackendInv'
  OBVIOUS
<1>1. /\ which' = which
      /\ \/ which = "warm" /\ [WarmNext]_warmVars
         \/ which # "warm" /\ [Next]_vars /\ resets' = resets /\ life' = life
         \/ UNCHANGED warmVars
      /\ [MemoNext]_memoVars /\ [PriceNext]_priceVars /\ [ReadNext]_readVars
      /\ [HandlersNext]_handlerVars /\ [BalancesNext]_balanceVars
  BY BackendSteps
<1>2. MemoInv'
  BY <1>1, MemoStepKeeps, MemoizeAssumption DEF BackendInv
<1>3. PriceInv'
  BY <1>1, PriceStepKeeps, PriceAssumption DEF BackendInv
<1>4. ReadInv'
  BY <1>1, ReadStepKeeps DEF BackendInv
<1>5. HandlersInv'
  BY <1>1, HandlersStepKeeps, HandlersAssumption, NoneAssumption DEF BackendInv
<1>6. BalancesInv'
  BY <1>1, BalancesStepKeeps, TrackerAssumption DEF BackendInv
<1>7. UNCHANGED warmVars => [Next]_vars /\ [WarmNext]_warmVars /\ resets' = resets /\ life' = life
  BY DEF warmVars
<1>8. CacheInv'
  BY <1>1, <1>7, WarmStepIsCacheStep, CacheStepKeeps, FetchesAssumption DEF BackendInv
<1>9. which = "warm" => WarmInv'
  BY <1>1, <1>7, WarmStepKeeps DEF BackendInv
<1>10. which # "warm" => resets' /\ life' = <<>>
  BY <1>1, <1>7 DEF BackendInv
<1> QED
  BY <1>1, <1>2, <1>3, <1>4, <1>5, <1>6, <1>8, <1>9, <1>10 DEF BackendInv

LEMMA BackendInvariance == MCSpec => []BackendInv
BY BackendInitially, BackendStepKeeps, PTL DEF MCSpec

-----------------------------------------------------------------------------

\* Every part keeps its types while any of them runs.
THEOREM BackendTypes == MCSpec => []BackendTypeOK
<1>1. BackendInv => BackendTypeOK
  BY DEF BackendInv, BackendTypeOK, CacheInv, MemoInv, PriceInv, BalancesInv
<1> QED
  BY <1>1, BackendInvariance, PTL

\* What a cache serves: no promise that failed, prices of one answer, one fetch at a time
\* unless the older is late, and warmed values within their ttl unless lookups prolong
\* them or a fetch was late.
THEOREM ReadsOfTheCaches == MCSpec => []CachedReads
<1>1. BackendInv => PricesOfOneAnswer
  BY PricesTogether, PriceAssumption DEF BackendInv
<1>2. BackendInv => ReadIsLive /\ FetchesOverlapOnlyWhenLate
  BY DEF BackendInv, ReadInv
<1>3. BackendInv => StaleOnlyByLookups
  BY WarmIsYoung DEF BackendInv, StaleOnlyByLookups
<1>4. BackendInv => WarmUnlessLate
  BY WarmIsThere DEF BackendInv, WarmUnlessLate
<1>5. BackendInv => CachedReads
  BY <1>1, <1>2, <1>3, <1>4 DEF CachedReads
<1> QED
  BY <1>5, BackendInvariance, PTL
=============================================================================
