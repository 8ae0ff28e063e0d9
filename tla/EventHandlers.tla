--------------------------- MODULE EventHandlers ---------------------------
(***************************************************************************)
(* The table of event handlers (swap/src/event-handlers/index.ts) and the  *)
(* handlers of configuration: pools, boost pools and the errors of the     *)
(* state chain.  The processor asks the table for a handler by the name of *)
(* the event and the runtime of the block, and stops at an event without   *)
(* one or whose handler throws; BlockProcessor models how it then tries    *)
(* again for ever.                                                         *)
(*                                                                         *)
(* The events of a pallet that exists once per chain are named once.  A    *)
(* runtime is its version as a number: 11000 is 1.10.0.                    *)
(***************************************************************************)
EXTENDS Integers, FiniteSets

CONSTANTS
    Unstable,      \* the assets that have a pool with Usdc
    Usdc,
    Runtimes,      \* the versions the chain runs through
    ErrorCodes,    \* pallet and error index
    Fees,          \* liquidityFeeHundredthPips
    None           \* the processor runs

ASSUME HandlersAssumption == Usdc \notin Unstable /\ Runtimes \subseteq Nat /\ Fees \subseteq Nat

VARIABLES
    runtime,       \* specId of the blocks
    chainPools,    \* the chain's own pools: base and quote asset to fee
    pools,         \* table pool
    boostPools,    \* table boostPool
    errors,        \* table stateChainError: version, code, and whose metadata named it
    metadata,      \* metadataCache: version and the metadata kept under it
    stoppedBy      \* the event the processor stands at

handlerVars == <<runtime, chainPools, pools, boostPools, errors, metadata, stoppedBy>>

\* events
OncePerChain ==
    {"BatchBroadcastRequested", "CcmBroadcastRequested", "DepositFinalised", "DepositBoosted",
     "InsufficientBoostLiquidity", "TransactionRejectedByBroker", "DepositFailed",
     "TransferFallbackRequested", "BroadcastSuccess", "BroadcastAborted",
     "TransactionBroadcastRequest", "ChainStateUpdated"}

SwapEventNames ==
    OncePerChain \cup
    {"BoostPoolCreated", "NewPoolCreated", "PoolFeeSet", "LiquidityDepositAddressReady",
     "SwapScheduled", "SwapRescheduled", "SwapExecuted", "SwapEgressIgnored",
     "RefundEgressIgnored", "SwapEgressScheduled", "RefundEgressScheduled",
     "SwapDepositAddressReady", "SwapRequested", "SwapRequestCompleted", "CreditedOnChain",
     "RefundedOnChain", "SwapAborted", "AccountCreationDepositAddressReady"}

ASSUME NoneAssumption == None \notin SwapEventNames

\* handlers, by the version they are for
Since(version, names) == [version |-> version, names |-> names]

WithoutRescheduled == {}

Rescheduled == {"SwapRescheduled"}

Handlers ==
    {Since(10000, {"NewPoolCreated", "PoolFeeSet", "BatchBroadcastRequested",
                   "CcmBroadcastRequested", "BroadcastSuccess", "BroadcastAborted",
                   "TransactionBroadcastRequest", "ChainStateUpdated"}),
     Since(10400, {"InsufficientBoostLiquidity"}),
     Since(10500, Rescheduled),
     Since(10600, {"SwapRequestCompleted"}),
     Since(10700, {"RefundEgressIgnored", "SwapExecuted", "SwapDepositAddressReady",
                   "SwapEgressIgnored", "SwapEgressScheduled", "LiquidityDepositAddressReady",
                   "DepositFinalised", "DepositBoosted", "TransactionRejectedByBroker"}),
     Since(10800, {"SwapScheduled", "TransferFallbackRequested"}),
     Since(10900, {"CreditedOnChain"}),
     Since(11000, {"SwapRequested", "BoostPoolCreated", "RefundEgressScheduled",
                   "RefundedOnChain", "DepositFailed"}),
     Since(11100, {"SwapAborted"}),
     Since(20000, {"AccountCreationDepositAddressReady"})}

\* handlerMap.getHandler: the newest that is not newer than the block.
HasHandler(name) == \E group \in Handlers : name \in group.names /\ group.version <= runtime

-----------------------------------------------------------------------------

HandlersInit ==
    /\ runtime \in Runtimes
    /\ chainPools = <<>> /\ pools = <<>> /\ boostPools = {}
    /\ errors = {} /\ metadata = {}
    /\ stoppedBy = None

Event(name) == stoppedBy = None

Stops(name) == stoppedBy' = name /\ UNCHANGED <<pools, boostPools, errors, metadata>>

\* A handler that writes these and returns.
Writes(name, table) == HasHandler(name) /\ table /\ UNCHANGED stoppedBy

With(table, key, fee) == [k \in DOMAIN table \cup {key} |-> IF k = key THEN fee ELSE table[k]]

\* Stored with Usdc as the quote asset, whichever side the event has it on.
Oriented(base, quote) == IF base = Usdc THEN <<quote, base>> ELSE <<base, quote>>

NewPoolCreated(base, quote, fee) ==
    /\ Event("NewPoolCreated")
    /\ {<<base, quote>>, <<quote, base>>} \cap DOMAIN chainPools = {}
    /\ chainPools' = With(chainPools, <<base, quote>>, fee)
    /\ Writes("NewPoolCreated", pools' = With(pools, Oriented(base, quote), fee))
    /\ UNCHANGED <<runtime, boostPools, errors, metadata>>

\* The row is looked for as the event names it.
PoolFeeSet(base, quote, fee) ==
    /\ Event("PoolFeeSet")
    /\ <<base, quote>> \in DOMAIN chainPools
    /\ chainPools' = With(chainPools, <<base, quote>>, fee)
    /\ UNCHANGED runtime
    /\ IF <<base, quote>> \in DOMAIN pools
       THEN /\ Writes("PoolFeeSet", pools' = With(pools, <<base, quote>>, fee))
            /\ UNCHANGED <<boostPools, errors, metadata>>
       ELSE Stops("PoolFeeSet")

BoostPoolCreated(asset) ==
    /\ Event("BoostPoolCreated")
    /\ Writes("BoostPoolCreated", boostPools' = boostPools \cup {asset})
    /\ UNCHANGED <<runtime, chainPools, pools, errors, metadata>>

\* getMetadata: of the block, kept under its specId.
OfVersion(version) == {m \in metadata : m.version = version}

MetadataOf(version) ==
    IF OfVersion(version) # {} THEN CHOOSE m \in OfVersion(version) : TRUE
    ELSE [version |-> version, of |-> runtime]

\* getStateChainError, for the reason of SwapEgressIgnored and RefundEgressIgnored.
EgressIgnored(name, code) ==
    /\ Event(name)
    /\ HasHandler(name)
    /\ IF \E e \in errors : e.version = runtime /\ e.code = code
       THEN UNCHANGED <<errors, metadata>>
       ELSE /\ metadata' = metadata \cup {MetadataOf(runtime)}
            /\ errors' = errors \cup
                  {[version |-> runtime, code |-> code, of |-> MetadataOf(runtime).of]}
    /\ UNCHANGED <<runtime, chainPools, pools, boostPools, stoppedBy>>

MetadataExpires(m) ==
    /\ metadata' = metadata \ {m}
    /\ UNCHANGED <<runtime, chainPools, pools, boostPools, errors, stoppedBy>>

\* Every other event: what its handler does is modelled elsewhere.
OtherEvent(name) ==
    /\ Event(name)
    /\ ~HasHandler(name)
    /\ Stops(name)
    /\ UNCHANGED <<runtime, chainPools>>

RuntimeUpgrade(version) ==
    /\ stoppedBy = None /\ version > runtime
    /\ runtime' = version
    /\ UNCHANGED <<chainPools, pools, boostPools, errors, metadata, stoppedBy>>

HandlersNext ==
    \/ \E a \in Unstable, fee \in Fees :
          \/ NewPoolCreated(a, Usdc, fee) \/ NewPoolCreated(Usdc, a, fee)
          \/ PoolFeeSet(a, Usdc, fee) \/ PoolFeeSet(Usdc, a, fee)
    \/ \E a \in Unstable : BoostPoolCreated(a)
    \/ \E name \in {"SwapEgressIgnored", "RefundEgressIgnored"}, code \in ErrorCodes :
          EgressIgnored(name, code)
    \/ \E m \in metadata : MetadataExpires(m)
    \/ \E name \in SwapEventNames : OtherEvent(name)
    \/ \E version \in Runtimes : RuntimeUpgrade(version)

HandlersSpec == HandlersInit /\ [][HandlersNext]_handlerVars

-----------------------------------------------------------------------------

\* A quote looks for the pool of an asset with Usdc as the quote asset, and finds
\* it with the fee the chain takes, whichever way round the chain has the pool.
FeesFollowTheChain ==
    \A pair \in DOMAIN chainPools :
        LET row == IF pair[1] = Usdc THEN <<pair[2], pair[1]>> ELSE pair
        IN  row \in DOMAIN pools /\ (stoppedBy = None => pools[row] = chainPools[pair])

\* The processor is stopped by nothing the table and the configuration handlers
\* do but two things: an event from before its handler's version, or a new fee
\* of a pool the chain has the other way round, whose row is not found.
StoppedOnlyByOldOrReversed ==
    stoppedBy # None =>
        \/ stoppedBy = "PoolFeeSet" /\ \E a \in Unstable : <<Usdc, a>> \in DOMAIN chainPools
        \/ \E group \in Handlers : stoppedBy \in group.names /\ runtime < group.version

\* A stored error carries the name its own runtime gives it, whatever runtime
\* the metadata was last asked for.
ErrorsNamedByTheirRuntime == \A e \in errors : e.of = e.version

\* The tables say what the chain said, each of its own version, or the processor
\* stands at an event it cannot handle.
HandlersFollowTheChain ==
    FeesFollowTheChain /\ StoppedOnlyByOldOrReversed /\ ErrorsNamedByTheirRuntime
=============================================================================
