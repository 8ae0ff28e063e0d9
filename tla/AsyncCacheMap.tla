--------------------------- MODULE AsyncCacheMap ---------------------------
(***************************************************************************)
(* AsyncCacheMap (shared/src/dataStructures.ts): a map from a key to the   *)
(* promise of a value.  A miss stores the promise of a new fetch, a        *)
(* refresh of a present entry replaces it only when its fetch is done.     *)
(* Fetches overlap, and settle in any order, long after the entry they     *)
(* were started for is gone.                                               *)
(*                                                                         *)
(* Keys share nothing, so there is one key.  A fetch is named by its place *)
(* in the order of starts: a larger number saw later data.  The entry is   *)
(* the fetch whose promise the store holds.  The timer is an action that   *)
(* may fire whenever an entry is there, which covers every ttl and both    *)
(* values of resetExpiryOnLookup; a lookup that hits then changes nothing  *)
(* and is not an action.                                                   *)
(***************************************************************************)
EXTENDS Integers, Sequences

CONSTANT MaxFetches   \* bound: the fetches of a behaviour

ASSUME FetchesAssumption == MaxFetches \in Nat

VARIABLES
    entry,     \* this.store: the fetch whose promise is stored, 0 when none is
    token,     \* this.refreshTokens: the last token handed out, 0 when none is
    fetches    \* every fetch started: who asked, with which token, its outcome

vars == <<entry, token, fetches>>

Kinds == {"get", "first", "refresh"}

Fetch == [kind : Kinds, token : 0..MaxFetches, state : {"pending", "ok", "failed"}]

Latest == Len(fetches)

Pending == {i \in 1..Latest : fetches[i].state = "pending"}

-----------------------------------------------------------------------------

Init ==
    /\ entry = 0
    /\ token = 0
    /\ fetches = <<>>

\* this.fetch(key), with what its callbacks will know.
Starts(kind, tok) ==
    /\ Latest < MaxFetches
    /\ fetches' = Append(fetches, [kind |-> kind, token |-> tok, state |-> "pending"])

Settles(i, state) == fetches' = [fetches EXCEPT ![i] = [@ EXCEPT !.state = state]]

\* set: the delete it begins with is the overridden one, so tokens go too.
Stores(i) ==
    /\ entry' = i
    /\ token' = 0

\* delete
Deletes ==
    /\ entry' = 0
    /\ token' = 0

\* get of an absent key; a present one is returned as it is.
Get ==
    /\ entry = 0
    /\ Starts("get", 0)
    /\ Stores(Latest + 1)

\* refresh of an absent key.
RefreshAbsent ==
    /\ entry = 0
    /\ Starts("first", 0)
    /\ Stores(Latest + 1)

\* refresh of a present key: the entry stays while the fetch is under way.
SameToken == token

NextToken == token + 1

RefreshPresent ==
    /\ entry # 0
    /\ Starts("refresh", NextToken)
    /\ token' = NextToken
    /\ UNCHANGED entry

\* The callback of a refresh stores its value if its token is the current one.
HoldsAnyToken(i) == TRUE

HoldsToken(i) == fetches[i].token = token

RefreshResolves(i) ==
    /\ fetches[i].kind = "refresh"
    /\ Settles(i, "ok")
    /\ IF HoldsToken(i) THEN Stores(i) ELSE UNCHANGED <<entry, token>>

\* The promise is in the store already.
MissResolves(i) ==
    /\ fetches[i].kind # "refresh"
    /\ Settles(i, "ok")
    /\ UNCHANGED <<entry, token>>

\* get's catch deletes the key, whatever is stored under it by now.
GetRejects(i) ==
    /\ fetches[i].kind = "get"
    /\ Settles(i, "failed")
    /\ Deletes

\* refresh's catch deletes its own promise only ...
NoOwnEntry(i) == FALSE

OwnEntry(i) == entry = i

FirstRejects(i) ==
    /\ fetches[i].kind = "first"
    /\ Settles(i, "failed")
    /\ IF OwnEntry(i) THEN Deletes ELSE UNCHANGED <<entry, token>>

\* ... and a refresh of a present key leaves the stale value.
RefreshRejects(i) ==
    /\ fetches[i].kind = "refresh"
    /\ Settles(i, "failed")
    /\ UNCHANGED <<entry, token>>

\* The timer of the entry: store.delete, which leaves the tokens.
Expire ==
    /\ entry # 0
    /\ entry' = 0
    /\ UNCHANGED <<token, fetches>>

Next ==
    \/ Get \/ RefreshAbsent \/ RefreshPresent \/ Expire
    \/ \E i \in Pending :
          \/ RefreshResolves(i) \/ MissResolves(i)
          \/ GetRejects(i) \/ FirstRejects(i) \/ RefreshRejects(i)

Spec == Init /\ [][Next]_vars

-----------------------------------------------------------------------------

\* Type invariant; a token is handed to the refreshes of a present key, from 1.
TypeOK ==
    /\ fetches \in Seq(Fetch)
    /\ Latest <= MaxFetches
    /\ entry \in 0..Latest
    /\ token \in 0..MaxFetches
    /\ \A i \in 1..Latest : fetches[i].kind = "refresh" <=> fetches[i].token > 0

\* A lookup never finds a promise that has been rejected: the failure of a
\* fetch takes its own entry away, whatever happened in between.
NoRejectedEntry == entry # 0 => fetches[entry].state # "failed"

Fails(i) == fetches[i].state = "pending" /\ fetches'[i].state = "failed"

\* The late failure of a refresh never takes away what another fetch stored.
FailedRefreshKeepsOthers ==
    [][\A i \in 1..Latest :
          Fails(i) /\ fetches[i].kind # "get" => entry' \in {entry, 0} /\ (entry' = 0 => entry \in {0, i})]_vars

\* A cached value is replaced by one that was asked for later.
NewestRefreshStays == [][entry # 0 /\ entry' # 0 => entry' >= entry]_vars

\* The one way an older fetch replaces a newer one: its token was handed out a
\* second time, after the newer value had been stored and the tokens cleared.
OlderWinsOnlyByReusedToken ==
    [][entry # 0 /\ entry' # 0 /\ entry' < entry =>
          \E k \in (entry + 1)..Latest : fetches[k].token = fetches[entry'].token]_vars
\* What a fetch may do to the answer of another one: a late failure takes none
\* away, and an older answer takes the place of a newer one only by such a token.
RefreshesKeepNewer == FailedRefreshKeepsOthers /\ OlderWinsOnlyByReusedToken
=============================================================================
