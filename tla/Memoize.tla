------------------------------ MODULE Memoize ------------------------------
(***************************************************************************)
(* memoize (swap/src/utils/function.ts) around an asynchronous function,   *)
(* as getEnvironment, getRuntimeVersion and the polkadot api are wrapped:  *)
(* the first call's promise is kept whatever it turns into, a later call   *)
(* is asked for in the background and replaces the value when it is done.  *)
(*                                                                         *)
(* A call of the wrapped function is named by its place in the order of    *)
(* calls.  Time is abstracted to "the value is older than the ttl", which  *)
(* may become true whenever there is a value; HasTtl is FALSE where the    *)
(* code passes no ttl.                                                     *)
(***************************************************************************)
EXTENDS Integers, Sequences

CONSTANTS
    HasTtl,        \* whether memoize was given a ttl
    MaxCalls       \* bound: the calls of the wrapped function

ASSUME MemoizeAssumption == HasTtl \in BOOLEAN /\ MaxCalls \in Nat

VARIABLES
    value,         \* the call whose promise callers get, 0 when not initialized
    aged,          \* Date.now() - setAt > ttl
    revision,      \* revalidations started
    pending,       \* revalidations under way
    revalidating,  \* a lookup starts no further one
    calls          \* every call: its revision (0 for the first) and its outcome

memoVars == <<value, aged, revision, pending, revalidating, calls>>

MemoCall == [revision : 0..MaxCalls, state : {"pending", "ok", "failed"}]

LastCall == Len(calls)

Unsettled == {i \in 1..LastCall : calls[i].state = "pending"}

-----------------------------------------------------------------------------

MemoInit ==
    /\ value = 0
    /\ aged = FALSE
    /\ revision = 0
    /\ pending = 0
    /\ revalidating = FALSE
    /\ calls = <<>>

\* newValue = fn(...args)
Calls(rev) ==
    /\ LastCall < MaxCalls
    /\ calls' = Append(calls, [revision |-> rev, state |-> "pending"])

CallSettles(i, state) == calls' = [calls EXCEPT ![i] = [@ EXCEPT !.state = state]]

\* The first call, by a lookup or by refresh: kept before it is known.
FirstCall ==
    /\ value = 0
    /\ Calls(0)
    /\ value' = LastCall + 1
    /\ aged' = FALSE
    /\ UNCHANGED <<revision, pending, revalidating>>

\* revalidate
NextRevision == revision + 1

Revalidates ==
    /\ revision' = NextRevision
    /\ Calls(revision')
    /\ pending' = pending + 1
    /\ revalidating' = TRUE
    /\ UNCHANGED <<value, aged>>

\* A lookup that finds the value too old still returns it.
LookupOfAged ==
    /\ value # 0
    /\ aged
    /\ ~revalidating
    /\ Revalidates

\* memoized.refresh asks again at any time.
MemoRefresh ==
    /\ value # 0
    /\ Revalidates

OneDone ==
    /\ pending' = pending - 1
    /\ revalidating' = (pending' > 0)

\* expected === revision: nothing was asked for since.
IsAny(i) == TRUE

IsAlone(i) == calls[i].revision = revision /\ pending = 1

IsNewest(i) == calls[i].revision = revision

RevalidationResolves(i) ==
    /\ calls[i].revision # 0
    /\ CallSettles(i, "ok")
    /\ OneDone
    /\ IF IsNewest(i) THEN value' = i /\ aged' = FALSE ELSE UNCHANGED <<value, aged>>
    /\ UNCHANGED revision

RevalidationRejects(i) ==
    /\ calls[i].revision # 0
    /\ CallSettles(i, "failed")
    /\ OneDone
    /\ UNCHANGED <<value, aged, revision>>

\* Nobody listens to the first promise but the callers it is handed to.
FirstSettles(i) ==
    /\ calls[i].revision = 0
    /\ \E state \in {"ok", "failed"} : CallSettles(i, state)
    /\ UNCHANGED <<value, aged, revision, pending, revalidating>>

MemoAges ==
    /\ HasTtl
    /\ value # 0
    /\ ~aged
    /\ aged' = TRUE
    /\ UNCHANGED <<value, revision, pending, revalidating, calls>>

MemoNext ==
    \/ FirstCall \/ LookupOfAged \/ MemoRefresh \/ MemoAges
    \/ \E i \in Unsettled :
          RevalidationResolves(i) \/ RevalidationRejects(i) \/ FirstSettles(i)

MemoSpec == MemoInit /\ [][MemoNext]_memoVars

-----------------------------------------------------------------------------

\* Type invariant; the one call without a revision is the first.
MemoTypeOK ==
    /\ calls \in Seq(MemoCall)
    /\ LastCall <= MaxCalls
    /\ value \in 0..LastCall
    /\ aged \in BOOLEAN
    /\ revision \in 0..MaxCalls
    /\ pending \in 0..MaxCalls
    /\ revalidating \in BOOLEAN
    /\ \A i \in 1..LastCall : calls[i].revision = 0 <=> i = 1

\* A value is only ever replaced by a call that was made later, and only by one
\* that resolved: once callers get a resolved promise they always will.
NewestResolvedWins ==
    [][value # 0 /\ value' # value => value' > value /\ calls'[value'].state = "ok"]_memoVars

\* revalidating says that a revalidation is under way, so a lookup of an aged
\* value joins it: nothing that is still pending is forgotten, and nothing that
\* settled keeps the value from being asked for again.
RevalidatingWhilePending ==
    revalidating <=> \E i \in Unsettled : calls[i].revision # 0

\* When everything asked for has come back, the last call that was made is the
\* value or it failed: a newer answer is never lost to an older one.
LastAnswerIsServed ==
    Unsettled = {} /\ LastCall > 0 => value = LastCall \/ calls[LastCall].state = "failed"
\* The two parts of what callers of a memoized function rely on.
MemoAnswers == RevalidatingWhilePending /\ LastAnswerIsServed
=============================================================================
