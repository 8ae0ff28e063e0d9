--------------------------- MODULE BalanceTracker ---------------------------
(***************************************************************************)
(* BalanceTracker (swap/src/quoting/BalanceTracker.ts): the balances of    *)
(* the connected market makers, refreshed when one connects and when a     *)
(* quote finds them older than ten seconds.  getBalances waits until no    *)
(* refresh is under way.                                                   *)
(*                                                                         *)
(* The process runs one JavaScript thread.  An await of a promise that is  *)
(* settled goes on before the event loop takes anything else, so while a   *)
(* caller is between two awaits (its pc is "checking") no answer of the    *)
(* node, no call and no timer can come in: that is Idle below.             *)
(*                                                                         *)
(* A refresh is named by its place in the order of starts.                 *)
(***************************************************************************)
EXTENDS Integers, FiniteSets

CONSTANTS
    Makers,        \* market maker accounts
    Callers,       \* calls of getBalances
    Attempts,      \* requests of one refresh; the code has 5
    MaxRefreshes   \* bound: the refreshes of a behaviour

ASSUME TrackerAssumption ==
    /\ Attempts \in Nat \ {0}
    /\ MaxRefreshes \in Nat

Refreshes == 1..MaxRefreshes

VARIABLES
    monitored,     \* monitoredAccounts
    fresh,         \* lastUpdate is at most ten seconds ago
    inflightCount,
    current,       \* the refresh whose promise this.balances is; 0: the initial one
    refreshes,     \* state of every refresh: outcome, attempts made, accounts asked for
    pc,            \* where each call of getBalances is
    waitsFor       \* the refresh whose promise it awaits

balanceVars == <<monitored, fresh, inflightCount, current, refreshes, pc, waitsFor>>

Refresh == [outcome : {"none", "running", "balances", "empty"}, attempts : 0..Attempts, asked : SUBSET Makers]

NotStarted == [outcome |-> "none", attempts |-> 0, asked |-> {}]

Running == {k \in Refreshes : refreshes[k].outcome = "running"}

Started == {k \in Refreshes : refreshes[k].outcome # "none"}

Idle == \A c \in Callers : pc[c] # "checking"

-----------------------------------------------------------------------------

BalancesInit ==
    /\ monitored = {}
    /\ fresh = FALSE
    /\ inflightCount = 0
    /\ current = 0
    /\ refreshes = [k \in Refreshes |-> NotStarted]
    /\ pc = [c \in Callers |-> "idle"]
    /\ waitsFor = [c \in Callers |-> 0]

NewRefresh == Cardinality(Started) + 1

\* The promise of the refresh that runs already is kept.
\* refresh up to its first await; accounts is monitoredAccounts by then.
StartRefresh(accounts) ==
    /\ NewRefresh <= MaxRefreshes
    /\ inflightCount' = inflightCount + 1
    /\ current' = NewRefresh
    /\ refreshes' = [refreshes EXCEPT ![NewRefresh] =
                        [outcome |-> "running", attempts |-> 1, asked |-> accounts]]

NoRefresh == UNCHANGED <<inflightCount, current, refreshes>>

RefreshOnAdd(accounts) == StartRefresh(accounts)

\* A market maker connects.
Add(m) ==
    /\ Idle
    /\ m \notin monitored
    /\ monitored' = monitored \cup {m}
    /\ RefreshOnAdd(monitored')
    /\ UNCHANGED <<fresh, pc, waitsFor>>

\* A market maker disconnects.
Remove(m) ==
    /\ Idle
    /\ m \in monitored
    /\ monitored' = monitored \ {m}
    /\ UNCHANGED <<fresh, inflightCount, current, refreshes, pc, waitsFor>>

\* getBalances awaits a refresh of its own ...
CallAndRefresh(c) ==
    /\ Idle
    /\ pc[c] = "idle"
    /\ ~fresh /\ inflightCount = 0 /\ monitored # {}
    /\ StartRefresh(monitored)
    /\ pc' = [pc EXCEPT ![c] = "waiting"]
    /\ waitsFor' = [waitsFor EXCEPT ![c] = current']
    /\ UNCHANGED <<monitored, fresh>>

\* ... or goes on to the loop.
Call(c) ==
    /\ Idle
    /\ pc[c] = "idle"
    /\ fresh \/ inflightCount > 0 \/ monitored = {}
    /\ pc' = [pc EXCEPT ![c] = "checking"]
    /\ UNCHANGED <<monitored, fresh, inflightCount, current, refreshes, waitsFor>>

\* while (inflightCount > 0) await this.balances;
Check(c) ==
    /\ pc[c] = "checking"
    /\ \/ /\ inflightCount = 0
          /\ pc' = [pc EXCEPT ![c] = "returned"]
          /\ UNCHANGED waitsFor
       \/ /\ inflightCount > 0
          /\ current \in Running
          /\ pc' = [pc EXCEPT ![c] = "waiting"]
          /\ waitsFor' = [waitsFor EXCEPT ![c] = current]
    /\ UNCHANGED <<monitored, fresh, inflightCount, current, refreshes>>

\* The promise is settled and the count is not 0: the caller is back at once,
\* and so is the next turn of the loop.
Spin(c) ==
    /\ pc[c] = "checking"
    /\ inflightCount > 0
    /\ current \notin Running
    /\ UNCHANGED balanceVars

\* The answer of the node may overtake that of an older refresh.
MayFinish(k) ==
    /\ Idle
    /\ k \in Running

CountDown == inflightCount' = inflightCount - 1

CountDownOfCurrent(k) ==
    inflightCount' = IF k = current THEN inflightCount - 1 ELSE inflightCount

CountDownOf(k) == CountDown

\* Only those who await this.balances as it is now go on.
FinishOfCurrent(k, outcome) ==
    /\ refreshes' = [refreshes EXCEPT ![k] = [@ EXCEPT !.outcome = outcome]]
    /\ CountDownOf(k)
    /\ pc' = [c \in Callers |-> IF pc[c] = "waiting" /\ waitsFor[c] = k /\ k = current
                                THEN "checking" ELSE pc[c]]
    /\ UNCHANGED <<monitored, current, waitsFor>>

\* The promise of refresh k resolves; finally takes it out of the count before
\* the callers that await it go on.
Finish(k, outcome) ==
    /\ refreshes' = [refreshes EXCEPT ![k] = [@ EXCEPT !.outcome = outcome]]
    /\ CountDownOf(k)
    /\ pc' = [c \in Callers |-> IF pc[c] = "waiting" /\ waitsFor[c] = k THEN "checking" ELSE pc[c]]
    /\ UNCHANGED <<monitored, current, waitsFor>>

Succeed(k) ==
    /\ MayFinish(k)
    /\ Finish(k, "balances")
    /\ fresh' = TRUE

\* A failed request is made again, for the accounts monitored by now ...
Retry(k) ==
    /\ Idle
    /\ k \in Running
    /\ refreshes[k].attempts < Attempts
    /\ refreshes' = [refreshes EXCEPT ![k] =
                        [refreshes[k] EXCEPT !.attempts = refreshes[k].attempts + 1, !.asked = monitored]]
    /\ UNCHANGED <<monitored, fresh, inflightCount, current, pc, waitsFor>>

\* ... and after the last one the balances are empty.
GiveUp(k) ==
    /\ MayFinish(k)
    /\ refreshes[k].attempts = Attempts
    /\ Finish(k, "empty")
    /\ UNCHANGED fresh

\* Ten seconds pass.
Age ==
    /\ Idle
    /\ fresh
    /\ fresh' = FALSE
    /\ UNCHANGED <<monitored, inflightCount, current, refreshes, pc, waitsFor>>

BalancesNext ==
    \/ \E m \in Makers : Add(m) \/ Remove(m)
    \/ \E c \in Callers : CallAndRefresh(c) \/ Call(c) \/ Check(c) \/ Spin(c)
    \/ \E k \in Refreshes : Succeed(k) \/ Retry(k) \/ GiveUp(k)
    \/ Age

\* Every request to the node succeeds or fails, and a caller that can go on does.
BalancesFairness ==
    /\ \A k \in Refreshes : WF_balanceVars(Succeed(k) \/ Retry(k) \/ GiveUp(k))
    /\ \A c \in Callers : WF_balanceVars(Check(c))

BalancesSpec == BalancesInit /\ [][BalancesNext]_balanceVars /\ BalancesFairness

-----------------------------------------------------------------------------

\* Type invariant; refreshes are numbered without gaps, the newest is current.
BalancesTypeOK ==
    /\ monitored \subseteq Makers
    /\ fresh \in BOOLEAN
    /\ inflightCount \in 0..MaxRefreshes
    /\ current \in 0..MaxRefreshes
    /\ Started = 1..current
    /\ refreshes \in [Refreshes -> Refresh]
    /\ pc \in [Callers -> {"idle", "waiting", "checking", "returned"}]
    /\ waitsFor \in [Callers -> 0..MaxRefreshes]

\* The counter that getBalances waits for counts what is under way, also when
\* this.balances has been replaced meanwhile.
CountIsExact == inflightCount = Cardinality(Running)

\* When nothing is under way, the balances callers get are those of every maker
\* connected, unless all attempts of the last refresh failed: a maker that
\* connected during a refresh is not missed.
BalancesCoverMonitored ==
    inflightCount = 0 /\ current # 0 /\ refreshes[current].outcome = "balances"
        => monitored \subseteq refreshes[current].asked

\* A call of getBalances returns, unless a later refresh finished before an
\* older one: the caller then awaits a settled promise in a loop, and the
\* event loop never takes the answer that would end it.
Overtaken == \E k \in Running : k < current /\ current \notin Running
EveryCallReturns ==
    \A c \in Callers :
        pc[c] \in {"waiting", "checking"} ~> (pc[c] = "returned" \/ (~Idle /\ Overtaken))
\* The counter and the balances agree with what ran, for callers of any order.
BalancesExact == CountIsExact /\ BalancesCoverMonitored
=============================================================================
