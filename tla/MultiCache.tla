---------------------------- MODULE MultiCache -----------------------------
(***************************************************************************)
(* MultiCache (shared/src/dataStructures.ts), which the network info and   *)
(* the liquidity providers are read through: no timers, the time of the    *)
(* fetch is kept with its promise, and a promise that is too old is left   *)
(* to itself while another takes its place.  Its types share nothing, so   *)
(* there is one.  A fetch is named by its place in the order of starts.    *)
(***************************************************************************)
EXTENDS Integers, Sequences

CONSTANTS
    ReadTTL,        \* ttl of the type
    MaxReadTime,    \* bound: the clock
    MaxReads        \* bound: the fetches

ASSUME ReadAssumption == ReadTTL \in Nat /\ MaxReadTime \in Nat /\ MaxReads \in Nat

VARIABLES
    readTime,       \* Date.now()
    slot,           \* this.values[type].value, 0 when undefined
    timestamp,      \* this.values[type].timestamp
    reads           \* every fetch: when it was started and how it stands

readVars == <<readTime, slot, timestamp, reads>>

Read == [at : 0..MaxReadTime, state : {"pending", "ok", "failed"}]

ReadInit == readTime = 0 /\ slot = 0 /\ timestamp = 0 /\ reads = <<>>

Outdated == slot = 0 \/ timestamp + ReadTTL < readTime

\* read; one that finds a value changes nothing.
ReadFetches ==
    /\ Outdated /\ Len(reads) < MaxReads
    /\ reads' = Append(reads, [at |-> readTime, state |-> "pending"])
    /\ slot' = Len(reads) + 1
    /\ timestamp' = readTime
    /\ UNCHANGED readTime

ReadResolves(i) ==
    /\ reads[i].state = "pending"
    /\ reads' = [reads EXCEPT ![i] = [@ EXCEPT !.state = "ok"]]
    /\ UNCHANGED <<readTime, slot, timestamp>>

KeptIfYoung(i) == IF timestamp = readTime THEN slot ELSE 0

Cleared(i) == 0

\* The catch clears the value, whoever's it is by now.
ReadRejects(i) ==
    /\ reads[i].state = "pending"
    /\ reads' = [reads EXCEPT ![i] = [@ EXCEPT !.state = "failed"]]
    /\ slot' = Cleared(i)
    /\ UNCHANGED <<readTime, timestamp>>

ReadTimePasses ==
    /\ readTime < MaxReadTime
    /\ readTime' = readTime + 1
    /\ UNCHANGED <<slot, timestamp, reads>>

ReadNext ==
    \/ ReadFetches \/ ReadTimePasses
    \/ \E i \in 1..Len(reads) : ReadResolves(i) \/ ReadRejects(i)

ReadSpec == ReadInit /\ [][ReadNext]_readVars

-----------------------------------------------------------------------------

\* No reader is handed a promise that is known to have failed, whatever failed
\* or was replaced in between.
ReadIsLive == slot # 0 => reads[slot].state # "failed"

\* Two fetches are under way together only if the older has outlived its ttl or
\* a still older one failed meanwhile and cleared what was not its own.
FetchesOverlapOnlyWhenLate ==
    \A i, j \in 1..Len(reads) :
        i < j /\ reads[i].state = "pending" =>
           \/ reads[j].at - reads[i].at > ReadTTL
           \/ \E k \in 1..(i - 1) : reads[k].state = "failed"
=============================================================================
