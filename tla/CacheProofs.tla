----------------------------- MODULE CacheProofs -----------------------------
(***************************************************************************)
(* What the caches of the backend promise, for any number of fetches,      *)
(* calls and callers.  One section for each: the promise cache, with its   *)
(* clock and without, memoize, the price cache and MultiCache.             *)
(***************************************************************************)
EXTENDS WarmCache, Memoize, PriceCache, MultiCache, SequenceTheorems, FiniteSetTheorems, TLAPS


-----------------------------------------------------------------------------
(* AsyncCacheMap.                                                          *)

\* The value of a refresh is stored when it is known, never before.
RefreshStoredWhenKnown ==
    entry # 0 /\ fetches[entry].kind = "refresh" => fetches[entry].state = "ok"

\* Tokens count the refreshes since the entry was stored, so the last one
\* handed out belongs to a fetch that was started after the entry's.
TokenIsLater ==
    /\ token <= Latest
    /\ token > 0 => \E k \in (entry + 1) .. Latest : fetches[k].token = token

CacheInv == TypeOK /\ NoRejectedEntry /\ RefreshStoredWhenKnown /\ TokenIsLater

-----------------------------------------------------------------------------

\* A new fetch is the last one and leaves the others as they are.
LEMMA StartFacts ==
  ASSUME TypeOK, FetchesAssumption, NEW kind \in Kinds, NEW tok \in 0 .. MaxFetches,
         (kind = "refresh") <=> (tok > 0), Starts(kind, tok)
  PROVE  /\ fetches' \in Seq(Fetch) /\ Latest' = Latest + 1 /\ Latest' <= MaxFetches
         /\ Latest \in Nat
         /\ \A i \in 1 .. Latest : fetches'[i] = fetches[i]
         /\ fetches'[Latest + 1] = [kind |-> kind, token |-> tok, state |-> "pending"]
         /\ \A i \in 1 .. Latest' : fetches'[i].kind = "refresh" <=> fetches'[i].token > 0
<1> DEFINE new == [kind |-> kind, token |-> tok, state |-> "pending"]
<1>1. new \in Fetch /\ new.kind = kind /\ new.token = tok
  BY DEF Fetch
<1>2. fetches \in Seq(Fetch) /\ fetches' = Append(fetches, new) /\ Latest = Len(fetches)
  BY DEF TypeOK, Starts, Latest
<1> HIDE DEF new
<1>3. /\ fetches' \in Seq(Fetch) /\ Len(fetches') = Len(fetches) + 1 /\ Len(fetches) \in Nat
      /\ \A i \in 1 .. Len(fetches) : fetches'[i] = fetches[i]
      /\ fetches'[Len(fetches) + 1] = new
  BY <1>1, <1>2, AppendProperties
<1>4. Latest' = Latest + 1 /\ Latest' <= MaxFetches
  BY <1>2, <1>3 DEF Latest, Starts, FetchesAssumption
<1>5. ASSUME NEW i \in 1 .. Latest' PROVE fetches'[i].kind = "refresh" <=> fetches'[i].token > 0
  <2>1. CASE i \in 1 .. Latest
    BY <2>1, <1>2, <1>3 DEF TypeOK
  <2>2. CASE i = Latest + 1
    BY <2>2, <1>1, <1>2, <1>3
  <2> QED
    BY <2>1, <2>2, <1>2, <1>3, <1>4
<1> QED
  BY <1>2, <1>3, <1>4, <1>5 DEF new

\* A fetch that settles changes nothing else.
LEMMA FetchSettles ==
  ASSUME TypeOK, NEW i \in Pending, NEW state \in {"ok", "failed"}, Settles(i, state)
  PROVE  /\ fetches' \in Seq(Fetch) /\ Latest' = Latest /\ Latest \in Nat
         /\ i \in 1 .. Latest /\ fetches[i].state = "pending"
         /\ fetches'[i].state = state
         /\ \A j \in 1 .. Latest : j # i => fetches'[j] = fetches[j]
         /\ \A j \in 1 .. Latest : fetches'[j].kind = fetches[j].kind
         /\ \A j \in 1 .. Latest : fetches'[j].token = fetches[j].token
<1>1. i \in 1 .. Latest /\ fetches[i].state = "pending" /\ Latest = Len(fetches)
  BY DEF Pending, Latest
<1>2. fetches \in Seq(Fetch) /\ Len(fetches) \in Nat /\ fetches[i] \in Fetch
  BY <1>1 DEF TypeOK
<1> DEFINE new == [fetches[i] EXCEPT !.state = state]
<1>3. new \in Fetch /\ new.state = state /\ new.kind = fetches[i].kind /\ new.token = fetches[i].token
  BY <1>2 DEF Fetch
<1>4. fetches' = [fetches EXCEPT ![i] = new]
  BY DEF Settles
<1> HIDE DEF new
<1>5. /\ fetches' \in Seq(Fetch) /\ Len(fetches') = Len(fetches)
      /\ \A j \in 1 .. Len(fetches) : fetches'[j] = IF j = i THEN new ELSE fetches[j]
  BY <1>1, <1>2, <1>3, <1>4, ExceptSeq
<1> QED
  BY <1>1, <1>2, <1>3, <1>5 DEF Latest

LEMMA CacheInitially ==
  ASSUME Init, FetchesAssumption
  PROVE  CacheInv
<1>1. Latest = 0 /\ fetches \in Seq(Fetch)
  BY DEF Init, Latest
<1> QED
  BY <1>1 DEF Init, CacheInv, TypeOK, NoRejectedEntry, RefreshStoredWhenKnown, TokenIsLater, FetchesAssumption

\* get and refresh of an absent key.
LEMMA MissKeeps ==
  ASSUME CacheInv, FetchesAssumption, NEW kind \in {"get", "first"}, Starts(kind, 0), Stores(Latest + 1)
  PROVE  CacheInv'
<1>1. TypeOK
  BY DEF CacheInv
<1>2. kind \in Kinds /\ kind # "refresh" /\ 0 \in 0 .. MaxFetches
  BY DEF Kinds, FetchesAssumption
<1>3. /\ fetches' \in Seq(Fetch) /\ Latest' = Latest + 1 /\ Latest' <= MaxFetches /\ Latest \in Nat
      /\ fetches'[Latest + 1] = [kind |-> kind, token |-> 0, state |-> "pending"]
      /\ \A i \in 1 .. Latest' : fetches'[i].kind = "refresh" <=> fetches'[i].token > 0
  BY <1>1, <1>2, StartFacts
<1>4. entry' = Latest + 1 /\ token' = 0
  BY DEF Stores
<1>5. TypeOK'
  BY <1>3, <1>4 DEF TypeOK, FetchesAssumption
<1>6. NoRejectedEntry' /\ RefreshStoredWhenKnown'
  BY <1>2, <1>3, <1>4 DEF NoRejectedEntry, RefreshStoredWhenKnown
<1>7. TokenIsLater'
  BY <1>3, <1>4 DEF TokenIsLater
<1> QED
  BY <1>5, <1>6, <1>7 DEF CacheInv

LEMMA RefreshPresentKeeps ==
  ASSUME CacheInv, FetchesAssumption, RefreshPresent
  PROVE  CacheInv'
<1>1. TypeOK /\ Latest \in Nat /\ token \in Nat /\ token <= Latest /\ Latest < MaxFetches
  BY DEF CacheInv, TypeOK, TokenIsLater, RefreshPresent, Starts, Latest
<1>2. /\ NextToken = token + 1 /\ NextToken \in 0 .. MaxFetches /\ NextToken > 0
      /\ "refresh" \in Kinds
  BY <1>1 DEF NextToken, Kinds, FetchesAssumption
<1>3. Starts("refresh", NextToken)
  BY DEF RefreshPresent
<1>4. /\ fetches' \in Seq(Fetch) /\ Latest' = Latest + 1 /\ Latest' <= MaxFetches
      /\ \A i \in 1 .. Latest : fetches'[i] = fetches[i]
      /\ fetches'[Latest + 1] = [kind |-> "refresh", token |-> NextToken, state |-> "pending"]
      /\ \A i \in 1 .. Latest' : fetches'[i].kind = "refresh" <=> fetches'[i].token > 0
  BY <1>1, <1>2, <1>3, StartFacts
<1>5. token' = token + 1 /\ entry' = entry
  BY <1>2 DEF RefreshPresent
<1>6. entry \in 1 .. Latest
  BY <1>1 DEF RefreshPresent, TypeOK
<1>7. TypeOK'
  <2>1. entry' \in 0 .. Latest' /\ token' \in 0 .. MaxFetches
    BY <1>1, <1>2, <1>4, <1>5, <1>6
  <2> QED
    BY <1>4, <2>1 DEF TypeOK
<1>8. NoRejectedEntry' /\ RefreshStoredWhenKnown'
  BY <1>4, <1>5, <1>6 DEF CacheInv, NoRejectedEntry, RefreshStoredWhenKnown
<1>9. TokenIsLater'
  <2>1. token' <= Latest'
    BY <1>1, <1>4, <1>5
  <2>2. Latest + 1 \in (entry' + 1) .. Latest' /\ fetches'[Latest + 1].token = token'
    BY <1>1, <1>2, <1>4, <1>5, <1>6
  <2> QED
    BY <2>1, <2>2 DEF TokenIsLater
<1> QED
  BY <1>7, <1>8, <1>9 DEF CacheInv

\* A fetch settles; the entry stays, is deleted, or becomes the fetch.
LEMMA SettleKeeps ==
  ASSUME CacheInv, FetchesAssumption, NEW i \in Pending, NEW state \in {"ok", "failed"}, Settles(i, state),
         \/ entry' = entry /\ token' = token /\ (state = "failed" => entry # i)
         \/ entry' = 0 /\ token' = 0
         \/ entry' = i /\ token' = 0 /\ state = "ok"
  PROVE  CacheInv'
<1>1. TypeOK
  BY DEF CacheInv
<1>2. /\ fetches' \in Seq(Fetch) /\ Latest' = Latest /\ Latest \in Nat
      /\ i \in 1 .. Latest /\ fetches[i].state = "pending"
      /\ fetches'[i].state = state
      /\ \A j \in 1 .. Latest : j # i => fetches'[j] = fetches[j]
      /\ \A j \in 1 .. Latest : fetches'[j].kind = fetches[j].kind
      /\ \A j \in 1 .. Latest : fetches'[j].token = fetches[j].token
  BY <1>1, FetchSettles
<1>3. entry \in 0 .. Latest /\ entry' \in 0 .. Latest /\ token' \in 0 .. MaxFetches
  BY <1>1, <1>2 DEF TypeOK, FetchesAssumption
<1>4. TypeOK'
  BY <1>1, <1>2, <1>3 DEF TypeOK
<1>5. NoRejectedEntry' /\ RefreshStoredWhenKnown'
  <2>1. CASE entry' = entry /\ entry # i
    BY <2>1, <1>2, <1>3 DEF CacheInv, NoRejectedEntry, RefreshStoredWhenKnown
  <2>2. CASE entry' = i /\ state = "ok"
    BY <2>2, <1>2 DEF NoRejectedEntry, RefreshStoredWhenKnown
  <2>3. CASE entry' = 0
    BY <2>3 DEF NoRejectedEntry, RefreshStoredWhenKnown
  <2> QED
    BY <2>1, <2>2, <2>3
<1>6. TokenIsLater'
  <2>1. CASE token' = 0
    BY <2>1, <1>2 DEF TokenIsLater
  <2>2. CASE entry' = entry /\ token' = token
    BY <2>2, <1>2, <1>3 DEF TokenIsLater, CacheInv
  <2> QED
    BY <2>1, <2>2
<1> QED
  BY <1>4, <1>5, <1>6 DEF CacheInv

LEMMA ExpireKeeps ==
  ASSUME CacheInv, FetchesAssumption, Expire
  PROVE  CacheInv'
<1>1. Latest' = Latest /\ Latest \in Nat /\ entry \in 0 .. Latest
  BY DEF Expire, Latest, CacheInv, TypeOK
<1>2. TypeOK' /\ NoRejectedEntry' /\ RefreshStoredWhenKnown'
  BY <1>1 DEF Expire, CacheInv, TypeOK, NoRejectedEntry, RefreshStoredWhenKnown
<1>3. TokenIsLater'
  BY <1>1 DEF Expire, CacheInv, TokenIsLater
<1> QED
  BY <1>2, <1>3 DEF CacheInv

LEMMA CacheStepKeeps ==
  ASSUME CacheInv, FetchesAssumption, [Next]_vars
  PROVE  CacheInv'
<1>1. CASE Get
  BY <1>1, MissKeeps DEF Get
<1>2. CASE RefreshAbsent
  BY <1>2, MissKeeps DEF RefreshAbsent
<1>3. CASE RefreshPresent
  BY <1>3, RefreshPresentKeeps
<1>4. CASE Expire
  BY <1>4, ExpireKeeps
<1>5. ASSUME NEW i \in Pending, RefreshResolves(i) PROVE CacheInv'
  <2>1. "ok" \in {"ok", "failed"} /\ Settles(i, "ok")
    BY <1>5 DEF RefreshResolves
  <2>2. \/ entry' = entry /\ token' = token
        \/ entry' = i /\ token' = 0
    BY <1>5 DEF RefreshResolves, Stores
  <2> QED
    BY <2>1, <2>2, SettleKeeps
<1>6. ASSUME NEW i \in Pending, MissResolves(i) PROVE CacheInv'
  BY <1>6, SettleKeeps DEF MissResolves
<1>7. ASSUME NEW i \in Pending, GetRejects(i) PROVE CacheInv'
  BY <1>7, SettleKeeps DEF GetRejects, Deletes
<1>8. ASSUME NEW i \in Pending, FirstRejects(i) PROVE CacheInv'
  <2>1. Settles(i, "failed")
    BY <1>8 DEF FirstRejects
  <2>2. \/ entry' = entry /\ token' = token /\ entry # i
        \/ entry' = 0 /\ token' = 0
    BY <1>8 DEF FirstRejects, OwnEntry, Deletes
  <2> QED
    BY <2>1, <2>2, SettleKeeps
<1>9. ASSUME NEW i \in Pending, RefreshRejects(i) PROVE CacheInv'
  <2>1. Settles(i, "failed") /\ entry' = entry /\ token' = token
    BY <1>9 DEF RefreshRejects
  <2>2. entry # i
    <3>1. i \in 1 .. Latest /\ fetches[i].kind = "refresh" /\ fetches[i].state = "pending"
      BY <1>9 DEF RefreshRejects, Pending
    <3> QED
      BY <3>1 DEF CacheInv, RefreshStoredWhenKnown
  <2> QED
    BY <2>1, <2>2, SettleKeeps
<1>10. CASE UNCHANGED vars
  <2>1. Latest' = Latest
    BY <1>10 DEF vars, Latest
  <2> QED
    BY <1>10, <2>1 DEF vars, CacheInv, TypeOK, NoRejectedEntry, RefreshStoredWhenKnown, TokenIsLater
<1> QED
  BY <1>1, <1>2, <1>3, <1>4, <1>5, <1>6, <1>7, <1>8, <1>9, <1>10 DEF Next

-----------------------------------------------------------------------------

\* The inductive invariant holds in every state of every execution.
THEOREM CacheInvariance == Spec => []CacheInv
<1>1. Init => CacheInv
  BY CacheInitially, FetchesAssumption
<1>2. CacheInv /\ [Next]_vars => CacheInv'
  BY CacheStepKeeps, FetchesAssumption
<1> QED
  BY <1>1, <1>2, PTL DEF Spec

\* Fetches, entry and tokens have their types.
THEOREM CacheTypes == Spec => []TypeOK
<1>1. CacheInv => TypeOK
  BY DEF CacheInv
<1> QED
  BY <1>1, CacheInvariance, PTL

\* A lookup never finds a promise that has been rejected.
THEOREM NoRejection == Spec => []NoRejectedEntry
<1>1. CacheInv => NoRejectedEntry
  BY DEF CacheInv
<1> QED
  BY <1>1, CacheInvariance, PTL

\* An older value replaces a newer one only by a token handed out twice.
THEOREM OlderByReusedToken == Spec => OlderWinsOnlyByReusedToken
<1> DEFINE Step == entry # 0 /\ entry' # 0 /\ entry' < entry =>
                     \E k \in (entry + 1) .. Latest : fetches[k].token = fetches[entry'].token
<1>1. CacheInv /\ [Next]_vars => [Step]_vars
  <2> SUFFICES ASSUME CacheInv, [Next]_vars, entry # 0, entry' # 0, entry' < entry
               PROVE  \E k \in (entry + 1) .. Latest : fetches[k].token = fetches[entry'].token
    OBVIOUS
  <2>1. entry \in Nat
    BY DEF CacheInv, TypeOK, Latest
  <2>2. PICK i \in Pending : RefreshResolves(i) /\ HoldsToken(i) /\ entry' = i
    BY <2>1 DEF Next, vars, Get, RefreshAbsent, RefreshPresent, Expire, RefreshResolves, MissResolves,
       GetRejects, FirstRejects, RefreshRejects, Stores, Deletes
  <2>3. i \in 1 .. Latest /\ fetches[i].kind = "refresh" /\ fetches[i].token = token
    BY <2>2 DEF Pending, RefreshResolves, HoldsToken
  <2>4. token > 0
    BY <2>3 DEF CacheInv, TypeOK
  <2> QED
    BY <2>2, <2>3, <2>4 DEF CacheInv, TokenIsLater
<1> QED
  BY <1>1, CacheInvariance, PTL DEF Spec, OlderWinsOnlyByReusedToken

\* The late failure of a refresh takes no other answer away.
THEOREM FailedKeeps == Spec => FailedRefreshKeepsOthers
<1> DEFINE Step == \A i \in 1 .. Latest :
          Fails(i) /\ fetches[i].kind # "get" => entry' \in {entry, 0} /\ (entry' = 0 => entry \in {0, i})
<1>1. CacheInv /\ [Next]_vars => [Step]_vars
  <2> SUFFICES ASSUME CacheInv, Next, NEW i \in 1 .. Latest, Fails(i), fetches[i].kind # "get"
               PROVE  entry' \in {entry, 0} /\ (entry' = 0 => entry \in {0, i})
    BY DEF vars
  <2>1. TypeOK /\ Latest \in Nat
    BY DEF CacheInv, TypeOK, Latest
  <2>2. ASSUME NEW kind \in {"get", "first", "refresh"}, NEW tok, Starts(kind, tok) PROVE fetches'[i] = fetches[i]
    BY <2>1, <2>2, AppendProperties DEF Starts, Latest, TypeOK
  <2>3. ~Get /\ ~RefreshAbsent /\ ~RefreshPresent /\ ~Expire
    BY <2>2 DEF Get, RefreshAbsent, RefreshPresent, Expire, Fails
  <2>4. ASSUME NEW j \in Pending, NEW state \in {"ok", "failed"}, Settles(j, state)
        PROVE  j = i /\ state = "failed"
    <3>1. j \in 1 .. Latest /\ fetches'[j].state = state /\ (j # i => fetches'[i] = fetches[i])
      BY <2>1, <2>4, FetchSettles
    <3> QED
      BY <3>1 DEF Fails
  <2>5. PICK j \in Pending : \/ RefreshResolves(j) \/ MissResolves(j)
                            \/ GetRejects(j) \/ FirstRejects(j) \/ RefreshRejects(j)
    BY <2>3 DEF Next
  <2>6. ~RefreshResolves(j) /\ ~MissResolves(j)
    BY <2>4 DEF RefreshResolves, MissResolves
  <2>7. ~GetRejects(j)
    BY <2>4 DEF GetRejects
  <2>8. FirstRejects(j) => j = i
    BY <2>4 DEF FirstRejects
  <2> QED
    BY <2>5, <2>6, <2>7, <2>8 DEF FirstRejects, RefreshRejects, OwnEntry, Deletes
<1> QED
  BY <1>1, CacheInvariance, PTL DEF Spec, FailedRefreshKeepsOthers

\* Both: what a fetch may do to the answer of another one.
THEOREM RefreshOrder == Spec => RefreshesKeepNewer
<1> QED
  BY FailedKeeps, OlderByReusedToken DEF RefreshesKeepNewer

-----------------------------------------------------------------------------
(* WarmCache.                                                              *)

\* What is known of a fetch besides its kind and its outcome.
Life == [from : Nat, back : Nat]

WarmTypes ==
    /\ resets \in BOOLEAN
    /\ warmTime \in 0 .. MaxWarmTime
    /\ left \in 0 .. CacheTtl
    /\ lookedUpAt \in Nat
    /\ life \in Seq(Life)
    /\ Len(life) = Latest
    /\ \A i \in 1 .. Latest :
          /\ life[i].from <= warmTime
          /\ fetches[i].state = "pending" => life[i].back = MaxWarmTime + 1
          /\ fetches[i].state # "pending" => life[i].from <= life[i].back /\ life[i].back <= warmTime

\* When the timer of the entry was started: the entry is as old, or was looked up then.
StartedAt == warmTime + left - CacheTtl

TimerTells ==
    entry # 0 =>
        /\ StartedAt >= 0
        /\ \/ life[entry].back >= StartedAt
           \/ resets /\ lookedUpAt >= StartedAt

\* The fetches of warmCaches are made on the interval, and no round is left out.
Rounds == {i \in 1 .. Latest : fetches[i].kind # "get"}

RoundsOnTime ==
    ~resets =>
        /\ \A i \in Rounds : life[i].from % WarmPeriod = 0
        /\ \A t \in Nat : t < warmTime /\ t % WarmPeriod = 0 => \E i \in Rounds : life[i].from = t

\* A round that found the entry there and has not replaced it is under way or late:
\* another token means another round, a period later.
RoundsSince ==
    ~resets /\ entry # 0 =>
        \A i \in Rounds : life[i].from > StartedAt =>
            /\ fetches[i].kind = "refresh"
            /\ fetches[i].state = "pending" \/ Late(i)
            /\ fetches[i].token = token \/ warmTime - life[i].from >= WarmPeriod

\* A round that has not been made and is at most a ttl away from a late fetch: it
\* comes before that fetch is forgotten, and brings the entry back.
GapEnds ==
    ~resets /\ entry = 0 /\ Latest > 0 =>
        \E i \in 1 .. Latest, t \in Nat :
            /\ Late(i)
            /\ t % WarmPeriod = 0 /\ warmTime <= t /\ t - Ended(i) <= CacheTtl
            /\ \A j \in Rounds : life[j].from # t

WarmInv == WarmTypes /\ TimerTells /\ RoundsOnTime /\ RoundsSince /\ GapEnds

-----------------------------------------------------------------------------

\* Within every period there is a round ...
LEMMA NextRound ==
  ASSUME NEW period \in Nat \ {0}, NEW t \in Nat
  PROVE  \E u \in (t + 1) .. (t + period) : u % period = 0
<1>1. PICK q \in Nat : period * q <= t /\ t < period * q + period
  <2>1. period * (t \div period) <= t /\ t < period * (t \div period) + period /\ t \div period \in Nat
    BY SMT
  <2> QED
    BY <2>1
<1>2. (period * (q + 1)) % period = 0
  BY SMT
<1>3. period * (q + 1) = period * q + period /\ period * q \in Nat
  BY SMT
<1>4. period * q + period \in (t + 1) .. (t + period)
  BY <1>1, <1>3
<1> QED
  BY <1>2, <1>3, <1>4

\* ... and two rounds are a period apart.
LEMMA RoundsApart ==
  ASSUME NEW period \in Nat \ {0}, NEW t \in Nat, NEW u \in Nat, t % period = 0, u % period = 0, t < u
  PROVE  u - t >= period
<1>1. PICK q \in Nat : t = period * q
  <2>1. t = period * (t \div period) /\ t \div period \in Nat
    BY SMT
  <2> QED
    BY <2>1
<1>2. PICK k \in Nat : u = period * k
  <2>1. u = period * (u \div period) /\ u \div period \in Nat
    BY SMT
  <2> QED
    BY <2>1
<1>3. k > q
  BY <1>1, <1>2, SMT
<1>4. period * k = period * q + period * (k - q)
  BY <1>1, <1>2, SMT
<1>5. period * (k - q) >= period
  BY <1>3, SMT
<1> QED
  BY <1>1, <1>2, <1>4, <1>5, SMT

\* When a fetch has ended, or would have ended if it came back now.
LEMMA EndsAt ==
  WarmTypes => \A i \in 1 .. Latest :
      /\ life[i] \in Life
      /\ Ended(i) = IF fetches[i].state = "pending" THEN warmTime ELSE life[i].back
      /\ life[i].from <= Ended(i) /\ Ended(i) <= warmTime
<1> SUFFICES ASSUME WarmTypes, NEW i \in 1 .. Latest
             PROVE  /\ life[i] \in Life
                    /\ Ended(i) = IF fetches[i].state = "pending" THEN warmTime ELSE life[i].back
                    /\ life[i].from <= Ended(i) /\ Ended(i) <= warmTime
  OBVIOUS
<1>1. life[i] \in Life
  BY DEF WarmTypes
<1>2. MaxWarmTime \in Nat /\ warmTime \in Nat /\ warmTime <= MaxWarmTime
  BY WarmAssumption DEF WarmTypes, WarmAssumption
<1>3. CASE fetches[i].state = "pending"
  BY <1>1, <1>2, <1>3 DEF WarmTypes, Ended, Life
<1>4. CASE fetches[i].state # "pending"
  BY <1>1, <1>2, <1>4 DEF WarmTypes, Ended, Life
<1> QED
  BY <1>1, <1>3, <1>4

LEMMA LateIs ==
  WarmTypes => \A i \in 1 .. Latest :
      /\ Ended(i) = IF fetches[i].state = "pending" THEN warmTime ELSE life[i].back
      /\ Late(i) <=> fetches[i].state = "failed" \/ Ended(i) - life[i].from >= WarmPeriod
BY EndsAt, WarmAssumption DEF Late, WarmAssumption

\* A fetch starts; everything else of the fetches stays as it is.
Began(kind) ==
    /\ resets' = resets /\ warmTime' = warmTime
    /\ Latest \in Nat /\ Latest' = Latest + 1
    /\ \A i \in 1 .. Latest : fetches'[i] = fetches[i] /\ life'[i] = life[i]
    /\ fetches'[Latest + 1].kind = kind /\ fetches'[Latest + 1].state = "pending"
    /\ life'[Latest + 1] = [from |-> warmTime, back |-> MaxWarmTime + 1]
    /\ life' \in Seq(Life) /\ Len(life') = Latest'

LEMMA Beginning ==
  ASSUME TypeOK, WarmTypes, NEW kind \in Kinds, NEW tok \in 0 .. MaxFetches,
         (kind = "refresh") <=> (tok > 0), Starts(kind, tok), Begun, UNCHANGED <<resets, warmTime>>
  PROVE  Began(kind) /\ fetches'[Latest + 1].token = tok
<1>1. /\ Latest' = Latest + 1 /\ Latest \in Nat
      /\ \A i \in 1 .. Latest : fetches'[i] = fetches[i]
      /\ fetches'[Latest + 1] = [kind |-> kind, token |-> tok, state |-> "pending"]
  BY StartFacts, FetchesAssumption
<1> DEFINE new == [from |-> warmTime, back |-> MaxWarmTime + 1]
<1>2. life \in Seq(Life) /\ Len(life) = Latest /\ new \in Life
  BY WarmAssumption DEF WarmTypes, WarmAssumption, Life
<1>3. life' = Append(life, new)
  BY DEF Begun
<1> HIDE DEF new
<1>4. /\ life' \in Seq(Life) /\ Len(life') = Latest + 1
      /\ \A i \in 1 .. Latest : life'[i] = life[i]
      /\ life'[Latest + 1] = new
  BY <1>1, <1>2, <1>3, AppendProperties
<1> QED
  BY <1>1, <1>4 DEF Began, new

\* A fetch comes back: the entry stays, is deleted, or becomes the fetch, and only then
\* its timer is started again.
CameBack(i) ==
    /\ resets' = resets /\ warmTime' = warmTime /\ lookedUpAt' = lookedUpAt
    /\ Latest \in Nat /\ Latest' = Latest /\ i \in 1 .. Latest
    /\ fetches[i].state = "pending" /\ fetches'[i].state # "pending"
    /\ \A j \in 1 .. Latest : j # i => fetches'[j] = fetches[j] /\ life'[j] = life[j]
    /\ \A j \in 1 .. Latest : /\ fetches'[j].kind = fetches[j].kind
                              /\ fetches'[j].token = fetches[j].token
                              /\ life'[j].from = life[j].from
    /\ life'[i].back = warmTime
    /\ life' \in Seq(Life) /\ Len(life') = Latest
    /\ \/ /\ entry' = entry /\ token' = token /\ left' = left
          /\ \/ fetches'[i].state = "failed"
             \/ fetches[i].kind # "refresh"
             \/ fetches[i].token # token
       \/ entry' = 0 /\ token' = 0 /\ left' = left /\ fetches'[i].state = "failed"
       \/ entry' = i /\ token' = 0 /\ left' = CacheTtl

LEMMA ComingBack ==
  ASSUME CacheInv, WarmTypes, NEW i \in Pending, Returned(i),
         \/ RefreshResolves(i) \/ MissResolves(i)
         \/ GetRejects(i) \/ FirstRejects(i) \/ RefreshRejects(i)
  PROVE  CameBack(i)
<1>1. PICK state \in {"ok", "failed"} : /\ Settles(i, state)
                                        /\ \/ /\ entry' = entry /\ token' = token
                                              /\ \/ state = "failed"
                                                 \/ fetches[i].kind # "refresh"
                                                 \/ fetches[i].token # token
                                           \/ entry' = 0 /\ token' = 0 /\ state = "failed"
                                           \/ /\ entry' = i /\ token' = 0
                                              /\ fetches[i].kind = "refresh"
  <2>1. CASE RefreshResolves(i)
    BY <2>1 DEF RefreshResolves, HoldsToken, Stores
  <2>2. CASE MissResolves(i)
    BY <2>2 DEF MissResolves
  <2>3. CASE GetRejects(i)
    BY <2>3 DEF GetRejects, Deletes
  <2>4. CASE FirstRejects(i)
    BY <2>4 DEF FirstRejects, Deletes
  <2>5. CASE RefreshRejects(i)
    BY <2>5 DEF RefreshRejects
  <2> QED
    BY <2>1, <2>2, <2>3, <2>4, <2>5
<1>2. TypeOK
  BY DEF CacheInv
<1>3. /\ Latest' = Latest /\ Latest \in Nat
      /\ i \in 1 .. Latest /\ fetches[i].state = "pending"
      /\ fetches'[i].state = state
      /\ \A j \in 1 .. Latest : j # i => fetches'[j] = fetches[j]
      /\ \A j \in 1 .. Latest : fetches'[j].kind = fetches[j].kind
      /\ \A j \in 1 .. Latest : fetches'[j].token = fetches[j].token
  BY <1>1, <1>2, FetchSettles
<1> DEFINE new == [life[i] EXCEPT !.back = warmTime]
<1>4. life \in Seq(Life) /\ Len(life) = Latest /\ life[i] \in Life /\ warmTime \in Nat
  BY <1>3, WarmAssumption DEF WarmTypes, WarmAssumption
<1>5. new \in Life /\ new.from = life[i].from /\ new.back = warmTime
  BY <1>4 DEF Life
<1>6. life' = [life EXCEPT ![i] = new]
  BY DEF Returned
<1> HIDE DEF new
<1>7. /\ life' \in Seq(Life) /\ Len(life') = Latest
      /\ \A j \in 1 .. Latest : life'[j] = IF j = i THEN new ELSE life[j]
  BY <1>3, <1>4, <1>5, <1>6, ExceptSeq
<1>8. /\ resets' = resets /\ warmTime' = warmTime /\ lookedUpAt' = lookedUpAt
      /\ left' = IF entry' = i /\ entry # i THEN CacheTtl ELSE left
  BY DEF Returned, RestartsTimer
<1>9. fetches[i].kind = "refresh" => entry # i
  BY <1>3 DEF CacheInv, RefreshStoredWhenKnown
<1>10. entry \in 0 .. Latest
  BY <1>2 DEF TypeOK
<1>11. \/ /\ entry' = entry /\ token' = token /\ left' = left
          /\ \/ fetches'[i].state = "failed"
             \/ fetches[i].kind # "refresh"
             \/ fetches[i].token # token
       \/ entry' = 0 /\ token' = 0 /\ left' = left /\ fetches'[i].state = "failed"
       \/ entry' = i /\ token' = 0 /\ left' = CacheTtl
  BY <1>1, <1>3, <1>8, <1>9, <1>10
<1> QED
  BY <1>1, <1>3, <1>5, <1>7, <1>8, <1>11 DEF CameBack

LEMMA RoundAfter ==
  ASSUME NEW period \in Nat \ {0}, NEW t \in Nat, t % period = 0
  PROVE  (t + 2 * period) % period = 0
<1>1. PICK q \in Nat : t = period * q
  <2>1. t = period * (t \div period) /\ t \div period \in Nat
    BY SMT
  <2> QED
    BY <2>1
<1>2. t + 2 * period = period * (q + 2)
  BY <1>1, SMT
<1>3. (period * (q + 2)) % period = 0
  BY SMT
<1> QED
  BY <1>2, <1>3

LEMMA EndsNat == WarmTypes => \A i \in 1 .. Latest : Ended(i) \in Nat
<1> SUFFICES ASSUME WarmTypes, NEW i \in 1 .. Latest PROVE Ended(i) \in Nat
  OBVIOUS
<1>1. life[i].back \in Nat /\ Ended(i) = IF fetches[i].state = "pending" THEN warmTime ELSE life[i].back
  BY EndsAt DEF Life
<1>2. warmTime \in Nat
  BY WarmAssumption DEF WarmTypes, WarmAssumption
<1> QED
  BY <1>1, <1>2

LEMMA ThenLateIs ==
  WarmTypes' =>
    (\A i \in 1 .. Latest :
      /\ Ended(i) = IF fetches[i].state = "pending" THEN warmTime ELSE life[i].back
      /\ Late(i) <=> fetches[i].state = "failed" \/ Ended(i) - life[i].from >= WarmPeriod)'
BY LateIs, PTL

LEMMA ThenEndsNat == WarmTypes' => (\A i \in 1 .. Latest : Ended(i) \in Nat)'
BY EndsNat, PTL

\* A fetch that is late stays so, and its end does not move back.
LEMMA LateStays ==
  ASSUME WarmTypes, WarmTypes', NEW j \in 1 .. Latest, j \in 1 .. Latest',
         warmTime' >= warmTime, life'[j].from = life[j].from,
         \/ fetches'[j].state = fetches[j].state /\ life'[j].back = life[j].back
         \/ /\ fetches[j].state = "pending" /\ fetches'[j].state # "pending"
            /\ life'[j].back = warmTime /\ warmTime' = warmTime
  PROVE  Ended(j)' >= Ended(j) /\ (Late(j) => Late(j)')
<1>1. /\ life[j] \in Life
      /\ Ended(j) = IF fetches[j].state = "pending" THEN warmTime ELSE life[j].back
      /\ Ended(j) <= warmTime
      /\ Late(j) <=> fetches[j].state = "failed" \/ Ended(j) - life[j].from >= WarmPeriod
  BY EndsAt, LateIs
<1>2. (\A i \in 1 .. Latest : /\ Ended(i) = IF fetches[i].state = "pending" THEN warmTime ELSE life[i].back
                              /\ Late(i) <=> fetches[i].state = "failed" \/ Ended(i) - life[i].from >= WarmPeriod)'
  BY ThenLateIs
<1>3. /\ Ended(j)' = IF fetches'[j].state = "pending" THEN warmTime' ELSE life'[j].back
      /\ Late(j)' <=> fetches'[j].state = "failed" \/ Ended(j)' - life'[j].from >= WarmPeriod
  BY <1>2
<1>4. warmTime \in Nat /\ warmTime' \in Nat /\ WarmPeriod \in Nat
  BY WarmAssumption DEF WarmTypes, WarmAssumption
<1>5. Ended(j) \in Nat /\ Ended(j)' \in Nat /\ life[j].from \in Nat /\ Ended(j)' >= Ended(j)
  BY <1>1, <1>3, <1>4 DEF Life
<1> QED
  BY <1>1, <1>3, <1>4, <1>5

LEMMA WarmInitially == WarmInit => WarmInv
<1> SUFFICES ASSUME WarmInit PROVE WarmInv
  OBVIOUS
<1>1. entry = 0 /\ Latest = 0 /\ warmTime = 0 /\ left = 0 /\ lookedUpAt = 0 /\ life = <<>>
  BY DEF WarmInit, Init, Latest
<1>2. WarmTypes
  BY <1>1, WarmAssumption DEF WarmTypes, WarmAssumption, WarmInit, Life
<1>3. RoundsOnTime
  BY <1>1 DEF RoundsOnTime, Rounds
<1> QED
  BY <1>1, <1>2, <1>3 DEF WarmInv, TimerTells, RoundsSince, GapEnds

\* What a fetch that starts leaves of the types and of the rounds.
LEMMA BeganTypes ==
  ASSUME WarmTypes, NEW kind \in Kinds, Began(kind), left' \in 0 .. CacheTtl, lookedUpAt' \in Nat
  PROVE  WarmTypes'
<1>1. warmTime \in 0 .. MaxWarmTime /\ resets \in BOOLEAN
  BY DEF WarmTypes
<1>2. ASSUME NEW i \in 1 .. Latest'
      PROVE  /\ life'[i].from <= warmTime'
             /\ fetches'[i].state = "pending" => life'[i].back = MaxWarmTime + 1
             /\ fetches'[i].state # "pending" => life'[i].from <= life'[i].back /\ life'[i].back <= warmTime'
  <2>1. CASE i \in 1 .. Latest
    BY <2>1 DEF WarmTypes, Began
  <2>2. CASE i = Latest + 1
    BY <1>1, <2>2 DEF Began
  <2> QED
    BY <2>1, <2>2 DEF Began
<1> QED
  BY <1>1, <1>2 DEF WarmTypes, Began

LEMMA BeganRounds ==
  ASSUME WarmTypes, RoundsOnTime, NEW kind \in Kinds, Began(kind), kind # "get" => warmTime % WarmPeriod = 0
  PROVE  RoundsOnTime'
<1>1. ASSUME ~resets, NEW i \in Rounds' PROVE life'[i].from % WarmPeriod = 0
  <2>1. CASE i \in 1 .. Latest
    BY <1>1, <2>1 DEF RoundsOnTime, Rounds, Began
  <2>2. CASE i = Latest + 1
    BY <1>1, <2>2 DEF Rounds, Began
  <2> QED
    BY <2>1, <2>2 DEF Rounds, Began
<1>2. ASSUME ~resets, NEW t \in Nat, t < warmTime, t % WarmPeriod = 0
      PROVE  \E i \in Rounds' : life'[i].from = t
  <2>1. PICK i \in Rounds : life[i].from = t
    BY <1>2 DEF RoundsOnTime
  <2>2. i \in Rounds' /\ life'[i] = life[i]
    BY <2>1 DEF Rounds, Began
  <2> QED
    BY <2>1, <2>2
<1> QED
  BY <1>1, <1>2 DEF RoundsOnTime, Began

\* get and refresh of an absent key: the entry is the fetch, its timer starts.
LEMMA EntryMadeKeeps ==
  ASSUME WarmInv, NEW kind \in {"get", "first"}, Began(kind), kind # "get" => warmTime % WarmPeriod = 0,
         entry' = Latest + 1, left' = CacheTtl, lookedUpAt' \in Nat
  PROVE  WarmInv'
<1>1. kind \in Kinds /\ left' \in 0 .. CacheTtl /\ warmTime \in 0 .. MaxWarmTime /\ CacheTtl \in Nat
  BY WarmAssumption DEF Kinds, WarmAssumption, WarmInv, WarmTypes
<1>2. WarmTypes' /\ RoundsOnTime'
  BY <1>1, BeganTypes, BeganRounds DEF WarmInv
<1>3. StartedAt' = warmTime /\ entry' # 0
  BY <1>1 DEF StartedAt, Began
<1>4. TimerTells'
  BY <1>1, <1>3, WarmAssumption DEF TimerTells, Began, WarmAssumption
<1>5. RoundsSince'
  <2>1. \A i \in Rounds' : life'[i].from <= warmTime /\ life'[i].from \in Nat
    <3>1. \A i \in 1 .. Latest' : life'[i] \in Life /\ life'[i].from <= warmTime'
      BY <1>2 DEF WarmTypes
    <3> QED
      BY <3>1 DEF Rounds, Began, Life
  <2>2. \A i \in Rounds' : ~(life'[i].from > StartedAt')
    BY <1>1, <1>3, <2>1
  <2> QED
    BY <2>2 DEF RoundsSince
<1> QED
  BY <1>2, <1>3, <1>4, <1>5 DEF WarmInv, GapEnds

\* A round that finds the entry there.
LEMMA RoundKeeps ==
  ASSUME CacheInv, WarmInv, Began("refresh"), WarmDue, ~Warmed, entry # 0,
         entry' = entry, left' = left, lookedUpAt' = lookedUpAt,
         token' = token + 1, fetches'[Latest + 1].token = token + 1
  PROVE  WarmInv'
<1>1. "refresh" \in Kinds /\ left' \in 0 .. CacheTtl /\ lookedUpAt' \in Nat
      /\ warmTime % WarmPeriod = 0 /\ warmTime \in Nat /\ ~resets
  BY DEF Kinds, WarmInv, WarmTypes, WarmDue
<1>2. WarmTypes' /\ RoundsOnTime' /\ WarmTypes
  BY <1>1, BeganTypes, BeganRounds DEF WarmInv
<1>3. StartedAt' = StartedAt /\ entry \in 1 .. Latest
  BY DEF StartedAt, Began, CacheInv, TypeOK
<1>4. TimerTells'
  BY <1>3 DEF TimerTells, WarmInv, Began
<1>5. ASSUME NEW i \in Rounds', life'[i].from > StartedAt
      PROVE  /\ fetches'[i].kind = "refresh"
             /\ fetches'[i].state = "pending" \/ Late(i)'
             /\ fetches'[i].token = token' \/ warmTime' - life'[i].from >= WarmPeriod
  <2>1. CASE i = Latest + 1
    BY <2>1 DEF Began
  <2>2. CASE i \in 1 .. Latest
    <3>1. fetches'[i] = fetches[i] /\ life'[i] = life[i] /\ i \in 1 .. Latest' /\ i \in Rounds
      BY <2>2 DEF Began, Rounds
    <3>2. fetches[i].kind = "refresh" /\ (fetches[i].state = "pending" \/ Late(i))
      BY <1>1, <1>5, <3>1 DEF WarmInv, RoundsSince
    <3>3. Late(i) => Late(i)'
      BY <1>1, <1>2, <2>2, <3>1, LateStays DEF Began
    <3>4. life[i].from # warmTime /\ life[i].from <= warmTime /\ life[i].from \in Nat
      <4>1. life[i] \in Life /\ life[i].from <= warmTime
        BY <1>2, <2>2, EndsAt DEF WarmTypes
      <4> QED
        BY <3>1, <4>1 DEF Warmed, Rounds, Life
    <3>5. life[i].from % WarmPeriod = 0
      BY <1>1, <3>1 DEF WarmInv, RoundsOnTime
    <3>6. warmTime - life[i].from >= WarmPeriod
      BY <1>1, <3>4, <3>5, RoundsApart, WarmAssumption DEF WarmAssumption
    <3> QED
      BY <3>1, <3>2, <3>3, <3>6 DEF Began
  <2> QED
    BY <2>1, <2>2 DEF Rounds, Began
<1>6. RoundsSince'
  BY <1>3, <1>5 DEF RoundsSince
<1> QED
  BY <1>2, <1>4, <1>6 DEF WarmInv, GapEnds

\* A lookup that finds the entry.
LEMMA LookupKeeps ==
  ASSUME WarmInv, LookupHits
  PROVE  WarmInv'
<1>1. /\ entry' = entry /\ token' = token /\ fetches' = fetches /\ life' = life
      /\ resets' = resets /\ warmTime' = warmTime /\ Latest' = Latest
      /\ left' \in 0 .. CacheTtl /\ lookedUpAt' \in Nat /\ entry # 0
      /\ warmTime \in Nat
  BY WarmAssumption DEF WarmAssumption, LookupHits, ResetIfAsked, vars, Latest, WarmInv, WarmTypes
<1>2. WarmTypes'
  BY <1>1 DEF WarmInv, WarmTypes
<1>3. TimerTells'
  <2>1. CASE resets
    BY <1>1, <2>1, WarmAssumption DEF LookupHits, ResetIfAsked, TimerTells, StartedAt, WarmAssumption
  <2>2. CASE ~resets
    BY <1>1, <2>2 DEF LookupHits, ResetIfAsked, TimerTells, StartedAt, WarmInv
  <2> QED
    BY <2>1, <2>2
<1>4. RoundsOnTime'
  BY <1>1 DEF WarmInv, RoundsOnTime, Rounds
<1>5. RoundsSince'
  <2>1. CASE ~resets
    BY <1>1, <2>1 DEF LookupHits, ResetIfAsked, StartedAt, WarmInv, RoundsSince, Rounds, Late, Ended
  <2> QED
    BY <1>1, <2>1 DEF RoundsSince
<1> QED
  BY <1>1, <1>2, <1>3, <1>4, <1>5 DEF WarmInv, GapEnds

\* A fetch comes back.
LEMMA ComingBackKeeps ==
  ASSUME CacheInv, WarmInv, NEW i \in Pending, CameBack(i)
  PROVE  WarmInv'
<1>1. /\ warmTime \in 0 .. MaxWarmTime /\ warmTime \in Nat /\ MaxWarmTime \in Nat /\ resets \in BOOLEAN
      /\ WarmPeriod \in Nat \ {0} /\ CacheTtl = 2 * WarmPeriod /\ CacheTtl \in Nat
      /\ left \in 0 .. CacheTtl /\ WarmTypes /\ entry \in 0 .. Latest
  BY WarmAssumption DEF WarmAssumption, WarmInv, WarmTypes, CacheInv, TypeOK
<1>2. \A j \in 1 .. Latest : life[j] \in Life /\ life[j].from <= warmTime
  BY <1>1, EndsAt DEF WarmTypes
<1>3. WarmTypes'
  <2>1. ASSUME NEW j \in 1 .. Latest
        PROVE  /\ life'[j].from <= warmTime'
               /\ fetches'[j].state = "pending" => life'[j].back = MaxWarmTime + 1
               /\ fetches'[j].state # "pending" => life'[j].from <= life'[j].back /\ life'[j].back <= warmTime'
    <3>1. CASE j = i
      <4>1. /\ fetches'[i].state # "pending" /\ life'[i].back = warmTime /\ warmTime' = warmTime
            /\ life'[i].from = life[i].from
        BY DEF CameBack
      <4> QED
        BY <1>1, <1>2, <3>1, <4>1 DEF Life
    <3>2. CASE j # i
      BY <1>1, <3>2 DEF CameBack, WarmTypes
    <3> QED
      BY <3>1, <3>2
  <2>2. left' \in 0 .. CacheTtl /\ Latest' = Latest
    BY <1>1 DEF CameBack
  <2> QED
    BY <1>1, <2>1, <2>2 DEF WarmTypes, CameBack
<1>4. TimerTells'
  <2>1. CASE entry' = entry /\ left' = left /\ entry # 0
    <3>1. life'[entry].back >= StartedAt \/ (resets /\ lookedUpAt >= StartedAt)
      <4>1. CASE entry = i
        BY <1>1, <4>1 DEF CameBack, StartedAt
      <4>2. CASE entry # i
        BY <1>1, <2>1, <4>2 DEF CameBack, WarmInv, TimerTells
      <4> QED
        BY <4>1, <4>2
    <3>2. StartedAt' = StartedAt /\ StartedAt >= 0
      BY <2>1 DEF CameBack, StartedAt, WarmInv, TimerTells
    <3> QED
      BY <2>1, <3>1, <3>2 DEF TimerTells, CameBack
  <2>2. CASE entry' = 0
    BY <2>2 DEF TimerTells
  <2>3. CASE entry' = i /\ left' = CacheTtl
    <3>1. StartedAt' = warmTime
      BY <1>1, <2>3 DEF StartedAt, CameBack
    <3> QED
      BY <1>1, <2>3, <3>1 DEF TimerTells, CameBack
  <2> QED
    BY <2>1, <2>2, <2>3 DEF CameBack
<1>5. Rounds' = Rounds /\ \A j \in Rounds : life'[j].from = life[j].from
  BY DEF Rounds, CameBack
<1>6. RoundsOnTime'
  BY <1>5 DEF WarmInv, RoundsOnTime, CameBack
<1>7. ASSUME NEW j \in 1 .. Latest PROVE Ended(j)' >= Ended(j) /\ (Late(j) => Late(j)')
  <2>1. /\ j \in 1 .. Latest' /\ warmTime' >= warmTime /\ life'[j].from = life[j].from
        /\ \/ fetches'[j].state = fetches[j].state /\ life'[j].back = life[j].back
           \/ /\ fetches[j].state = "pending" /\ fetches'[j].state # "pending"
              /\ life'[j].back = warmTime /\ warmTime' = warmTime
    BY <1>1 DEF CameBack
  <2> QED
    BY <1>1, <1>3, <2>1, LateStays
<1>8. /\ Ended(i)' = warmTime
      /\ Late(i)' <=> fetches'[i].state = "failed" \/ warmTime - life[i].from >= WarmPeriod
  <2>1. (\A j \in 1 .. Latest :
            /\ Ended(j) = IF fetches[j].state = "pending" THEN warmTime ELSE life[j].back
            /\ Late(j) <=> fetches[j].state = "failed" \/ Ended(j) - life[j].from >= WarmPeriod)'
    BY <1>3, ThenLateIs
  <2> QED
    BY <2>1 DEF CameBack
<1>9. RoundsSince'
  <2>1. CASE ~resets /\ entry' = entry /\ token' = token /\ left' = left /\ entry # 0
    <3>1. StartedAt' = StartedAt
      BY <2>1 DEF CameBack, StartedAt
    <3>2. ASSUME NEW j \in Rounds, life[j].from > StartedAt
          PROVE  /\ fetches'[j].kind = "refresh"
                 /\ fetches'[j].state = "pending" \/ Late(j)'
                 /\ fetches'[j].token = token \/ warmTime' - life'[j].from >= WarmPeriod
      <4>1. /\ fetches[j].kind = "refresh"
            /\ fetches[j].state = "pending" \/ Late(j)
            /\ fetches[j].token = token \/ warmTime - life[j].from >= WarmPeriod
        BY <2>1, <3>2 DEF WarmInv, RoundsSince
      <4>2. j \in 1 .. Latest /\ fetches'[j].kind = "refresh" /\ fetches'[j].token = fetches[j].token
            /\ warmTime' - life'[j].from = warmTime - life[j].from
        BY <4>1 DEF Rounds, CameBack
      <4>3. CASE j # i
        BY <1>7, <4>1, <4>2, <4>3 DEF CameBack
      <4>4. CASE j = i
        <5>1. fetches'[i].state = "failed" \/ fetches[i].token # token
          BY <1>1, <2>1, <4>1, <4>4 DEF CameBack, CacheInv, RefreshStoredWhenKnown
        <5> QED
          BY <1>8, <4>1, <4>2, <4>4, <5>1
      <4> QED
        BY <4>3, <4>4
    <3> QED
      BY <1>5, <2>1, <3>1, <3>2 DEF RoundsSince
  <2>2. CASE resets \/ entry' = 0
    BY <2>2 DEF RoundsSince, CameBack
  <2>3. CASE entry' = i /\ left' = CacheTtl
    <3>1. StartedAt' = warmTime
      BY <1>1, <2>3 DEF StartedAt, CameBack
    <3>2. \A j \in Rounds : ~(life'[j].from > StartedAt')
      BY <1>1, <1>2, <1>5, <3>1 DEF Rounds, Life
    <3> QED
      BY <1>5, <3>2 DEF RoundsSince
  <2> QED
    BY <1>1, <2>1, <2>2, <2>3 DEF CameBack
<1>10. GapEnds'
  <2>1. CASE ~resets /\ entry' = 0 /\ entry = 0 /\ Latest > 0
    <3>1. PICK j \in 1 .. Latest, t \in Nat :
              /\ Late(j)
              /\ t % WarmPeriod = 0 /\ warmTime <= t /\ t - Ended(j) <= CacheTtl
              /\ \A k \in Rounds : life[k].from # t
      BY <2>1 DEF WarmInv, GapEnds
    <3>2. Late(j)' /\ Ended(j)' >= Ended(j) /\ Ended(j) \in Nat /\ Ended(j)' \in Nat
      <4>1. \A k \in 1 .. Latest : Ended(k) \in Nat
        BY <1>1, EndsNat
      <4>2. (\A k \in 1 .. Latest : Ended(k) \in Nat)'
        BY <1>3, ThenEndsNat
      <4> QED
        BY <1>7, <3>1, <4>1, <4>2 DEF CameBack
    <3>3. t - Ended(j)' <= CacheTtl /\ j \in 1 .. Latest' /\ warmTime' <= t
      BY <1>1, <3>1, <3>2 DEF CameBack
    <3>4. \A k \in Rounds' : life'[k].from # t
      BY <1>5, <3>1
    <3> QED
      BY <3>1, <3>2, <3>3, <3>4 DEF GapEnds
  <2>2. CASE ~resets /\ entry' = 0 /\ fetches'[i].state = "failed"
    <3>1. PICK t \in (warmTime + 1) .. (warmTime + WarmPeriod) : t % WarmPeriod = 0
      BY <1>1, NextRound
    <3>2. Late(i)' /\ t - Ended(i)' <= CacheTtl /\ i \in 1 .. Latest' /\ warmTime' <= t /\ t \in Nat
      BY <1>1, <1>8, <2>2, <3>1 DEF CameBack
    <3>3. \A k \in Rounds' : life'[k].from # t
      BY <1>1, <1>2, <1>5, <3>1 DEF Rounds, Life
    <3> QED
      BY <3>1, <3>2, <3>3 DEF GapEnds
  <2>3. CASE resets \/ entry' # 0
    BY <2>3 DEF GapEnds, CameBack
  <2> QED
    BY <1>1, <2>1, <2>2, <2>3 DEF CameBack
<1> QED
  BY <1>3, <1>4, <1>6, <1>9, <1>10 DEF WarmInv

\* The timer fires: a round that was made since it started is late by now.
LEMMA TimerKeeps ==
  ASSUME CacheInv, WarmInv, TimerFires
  PROVE  WarmInv'
<1>1. /\ warmTime \in Nat /\ WarmPeriod \in Nat \ {0} /\ CacheTtl = 2 * WarmPeriod
      /\ left = 0 /\ entry # 0 /\ WarmTypes /\ resets \in BOOLEAN
  BY WarmAssumption DEF WarmAssumption, WarmInv, WarmTypes, TimerFires, Expire
<1>2. /\ entry' = 0 /\ fetches' = fetches /\ life' = life /\ resets' = resets
      /\ warmTime' = warmTime /\ left' = left /\ lookedUpAt' = lookedUpAt /\ Latest' = Latest
  BY DEF TimerFires, Expire, Latest
<1>3. WarmTypes'
  BY <1>2 DEF WarmInv, WarmTypes
<1>4. RoundsOnTime' /\ TimerTells' /\ RoundsSince'
  BY <1>2 DEF WarmInv, RoundsOnTime, TimerTells, RoundsSince, Rounds
<1>5. GapEnds'
  <2> SUFFICES ASSUME ~resets
               PROVE  \E i \in 1 .. Latest, t \in Nat :
                         /\ Late(i)
                         /\ t % WarmPeriod = 0 /\ warmTime <= t /\ t - Ended(i) <= CacheTtl
                         /\ \A j \in Rounds : life[j].from # t
    BY <1>2 DEF GapEnds, Late, Ended, Rounds
  <2>1. StartedAt \in Nat /\ StartedAt = warmTime - CacheTtl
    BY <1>1 DEF StartedAt, WarmInv, TimerTells
  <2>2. PICK t \in (StartedAt + 1) .. (StartedAt + WarmPeriod) : t % WarmPeriod = 0
    BY <1>1, <2>1, NextRound
  <2>3. t \in Nat /\ t < warmTime /\ warmTime - t >= WarmPeriod /\ warmTime < t + 2 * WarmPeriod
    BY <1>1, <2>1, <2>2
  <2>4. PICK i \in Rounds : life[i].from = t
    BY <2>2, <2>3 DEF WarmInv, RoundsOnTime
  <2>5. fetches[i].state = "pending" \/ Late(i)
    BY <1>1, <2>1, <2>2, <2>4 DEF WarmInv, RoundsSince
  <2>6. /\ i \in 1 .. Latest /\ Ended(i) \in Nat /\ t <= Ended(i)
        /\ fetches[i].state = "pending" => Ended(i) = warmTime
        /\ Late(i) <=> fetches[i].state = "failed" \/ Ended(i) - t >= WarmPeriod
    BY <1>1, <2>4, EndsAt, EndsNat, LateIs DEF Rounds
  <2>7. Late(i)
    BY <2>3, <2>5, <2>6
  <2>8. (t + 2 * WarmPeriod) % WarmPeriod = 0
    BY <1>1, <2>2, <2>3, RoundAfter
  <2>9. /\ t + 2 * WarmPeriod \in Nat /\ warmTime <= t + 2 * WarmPeriod
        /\ (t + 2 * WarmPeriod) - Ended(i) <= CacheTtl
    BY <1>1, <2>3, <2>6
  <2>10. \A j \in Rounds : life[j].from # t + 2 * WarmPeriod
    <3>1. \A j \in Rounds : life[j] \in Life /\ life[j].from <= warmTime
      BY <1>1, EndsAt DEF WarmTypes, Rounds
    <3> QED
      BY <1>1, <2>3, <3>1 DEF Life
  <2> QED
    BY <2>6, <2>7, <2>8, <2>9, <2>10
<1> QED
  BY <1>3, <1>4, <1>5 DEF WarmInv

\* The clock: a round that is due is made first.
LEMMA ClockKeeps ==
  ASSUME CacheInv, WarmInv, WarmTimePasses
  PROVE  WarmInv'
<1>1. /\ warmTime \in 0 .. MaxWarmTime /\ warmTime \in Nat /\ MaxWarmTime \in Nat
      /\ WarmPeriod \in Nat \ {0} /\ CacheTtl = 2 * WarmPeriod
      /\ left \in 0 .. CacheTtl /\ WarmTypes /\ resets \in BOOLEAN /\ Latest \in Nat
  BY WarmAssumption DEF WarmAssumption, WarmInv, WarmTypes, CacheInv, TypeOK, Latest
<1>2. /\ entry' = entry /\ token' = token /\ fetches' = fetches /\ life' = life /\ resets' = resets
      /\ warmTime' = warmTime + 1 /\ lookedUpAt' = lookedUpAt /\ Latest' = Latest
      /\ warmTime < MaxWarmTime
      /\ entry # 0 => left > 0 /\ left' = left - 1
      /\ entry = 0 => left' = left
  BY DEF WarmTimePasses, vars, Latest
<1>3. ~resets /\ warmTime % WarmPeriod = 0 => \E j \in Rounds : life[j].from = warmTime
  BY DEF WarmTimePasses, WarmDue, Warmed, Rounds
<1>4. \A j \in 1 .. Latest : life[j] \in Life /\ life[j].from <= warmTime
  BY <1>1, EndsAt DEF WarmTypes
<1>5. WarmTypes'
  <2>1. ASSUME NEW j \in 1 .. Latest
        PROVE  /\ life'[j].from <= warmTime'
               /\ fetches'[j].state = "pending" => life'[j].back = MaxWarmTime + 1
               /\ fetches'[j].state # "pending" => life'[j].from <= life'[j].back /\ life'[j].back <= warmTime'
    BY <1>1, <1>2, <1>4 DEF WarmTypes, Life
  <2>2. left' \in 0 .. CacheTtl /\ warmTime' \in 0 .. MaxWarmTime
    BY <1>1, <1>2
  <2> QED
    BY <1>1, <1>2, <2>1, <2>2 DEF WarmTypes
<1>6. entry # 0 => StartedAt' = StartedAt
  BY <1>1, <1>2 DEF StartedAt
<1>7. TimerTells'
  BY <1>2, <1>6 DEF WarmInv, TimerTells
<1>8. Rounds' = Rounds
  BY <1>2 DEF Rounds
<1>9. RoundsOnTime'
  <2>1. ASSUME ~resets, NEW t \in Nat, t < warmTime + 1, t % WarmPeriod = 0
        PROVE  \E j \in Rounds : life[j].from = t
    <3>1. CASE t < warmTime
      BY <2>1, <3>1 DEF WarmInv, RoundsOnTime
    <3>2. CASE t = warmTime
      BY <1>3, <2>1, <3>2
    <3> QED
      BY <1>1, <2>1, <3>1, <3>2
  <2> QED
    BY <1>2, <1>8, <2>1 DEF WarmInv, RoundsOnTime
<1>10. ASSUME NEW j \in 1 .. Latest PROVE Ended(j)' >= Ended(j) /\ (Late(j) => Late(j)')
  BY <1>1, <1>2, <1>5, LateStays
<1>11. RoundsSince'
  <2> SUFFICES ASSUME ~resets, entry # 0, NEW j \in Rounds', life'[j].from > StartedAt'
               PROVE  /\ fetches'[j].kind = "refresh"
                      /\ fetches'[j].state = "pending" \/ Late(j)'
                      /\ fetches'[j].token = token' \/ warmTime' - life'[j].from >= WarmPeriod
    BY <1>2 DEF RoundsSince
  <2>1. j \in Rounds /\ life[j].from > StartedAt
    BY <1>2, <1>6, <1>8
  <2>2. /\ fetches[j].kind = "refresh"
        /\ fetches[j].state = "pending" \/ Late(j)
        /\ fetches[j].token = token \/ warmTime - life[j].from >= WarmPeriod
    BY <2>1 DEF WarmInv, RoundsSince
  <2>3. j \in 1 .. Latest /\ life[j].from \in Nat
    BY <1>4, <2>1 DEF Rounds, Life
  <2>4. Late(j) => Late(j)'
    BY <1>10, <2>3
  <2>5. fetches[j].token = token \/ (warmTime + 1) - life[j].from >= WarmPeriod
    BY <1>1, <2>2, <2>3
  <2>6. fetches'[j] = fetches[j] /\ life'[j] = life[j] /\ token' = token /\ warmTime' = warmTime + 1
    BY <1>2
  <2>7. fetches'[j].state = "pending" \/ Late(j)'
    BY <2>2, <2>4, <2>6
  <2> QED
    BY <2>2, <2>5, <2>6, <2>7
<1>12. GapEnds'
  <2> SUFFICES ASSUME ~resets, entry = 0, Latest > 0
               PROVE  \E i \in 1 .. Latest, t \in Nat :
                         /\ Late(i)'
                         /\ t % WarmPeriod = 0 /\ warmTime + 1 <= t /\ t - Ended(i)' <= CacheTtl
                         /\ \A j \in Rounds : life[j].from # t
    BY <1>2, <1>8 DEF GapEnds
  <2>1. PICK i \in 1 .. Latest, t \in Nat :
            /\ Late(i)
            /\ t % WarmPeriod = 0 /\ warmTime <= t /\ t - Ended(i) <= CacheTtl
            /\ \A j \in Rounds : life[j].from # t
    BY DEF WarmInv, GapEnds
  <2>2. t # warmTime
    BY <1>3, <2>1
  <2>3. (\A j \in 1 .. Latest : Ended(j) \in Nat)'
    BY <1>5, ThenEndsNat
  <2>4. Ended(i) \in Nat /\ Ended(i)' \in Nat
    BY <1>1, <1>2, <2>3, EndsNat
  <2>5. Late(i)' /\ warmTime + 1 <= t /\ t - Ended(i)' <= CacheTtl
    BY <1>1, <1>10, <2>1, <2>2, <2>4
  <2> QED
    BY <2>1, <2>5
<1> QED
  BY <1>5, <1>7, <1>9, <1>11, <1>12 DEF WarmInv

\* Every step of the warmed cache is one of the cache, or leaves it as it is.
LEMMA WarmStepIsCacheStep == [WarmNext]_warmVars => [Next]_vars
BY DEF WarmNext, warmVars, LookupMisses, LookupHits, Warm, WarmFetchReturns, TimerFires, WarmTimePasses, Next

LEMMA WarmStepKeeps ==
  ASSUME CacheInv, WarmInv, [WarmNext]_warmVars
  PROVE  WarmInv'
<1>1. /\ TypeOK /\ WarmTypes /\ Latest \in Nat /\ warmTime \in Nat /\ lookedUpAt \in Nat
      /\ 0 \in 0 .. MaxFetches /\ {"get", "first", "refresh"} = Kinds /\ entry \in 0 .. Latest
  BY WarmAssumption, FetchesAssumption
     DEF WarmAssumption, FetchesAssumption, CacheInv, TypeOK, WarmInv, WarmTypes, Latest, Kinds
<1>2. CASE LookupMisses
  <2>1. Began("get")
    BY <1>1, <1>2, Beginning DEF LookupMisses, Get
  <2>2. entry' = Latest + 1 /\ left' = CacheTtl /\ lookedUpAt' \in Nat
    BY <1>1, <1>2 DEF LookupMisses, Get, Stores
  <2> QED
    BY <2>1, <2>2, EntryMadeKeeps
<1>3. CASE LookupHits
  BY <1>3, LookupKeeps
<1>4. CASE Warm /\ RefreshAbsent
  <2>1. Began("first") /\ warmTime % WarmPeriod = 0
    BY <1>1, <1>4, Beginning DEF Warm, RefreshAbsent, WarmDue
  <2>2. entry' = Latest + 1 /\ left' = CacheTtl /\ lookedUpAt' \in Nat
    BY <1>1, <1>4 DEF Warm, RefreshAbsent, Stores
  <2> QED
    BY <2>1, <2>2, EntryMadeKeeps
<1>5. CASE Warm /\ RefreshPresent
  <2>1. token \in Nat /\ token + 1 \in 0 .. MaxFetches /\ token + 1 > 0
    <3>1. token \in Nat /\ token <= Latest /\ Latest < MaxFetches /\ MaxFetches \in Nat
      BY <1>5, FetchesAssumption DEF CacheInv, TypeOK, TokenIsLater, RefreshPresent, Starts, FetchesAssumption
    <3> QED
      BY <1>1, <3>1
  <2>2. Began("refresh") /\ fetches'[Latest + 1].token = token + 1
    BY <1>1, <1>5, <2>1, Beginning DEF Warm, RefreshPresent, NextToken
  <2>3. /\ WarmDue /\ ~Warmed /\ entry # 0 /\ entry' = entry /\ left' = left
        /\ lookedUpAt' = lookedUpAt /\ token' = token + 1
    BY <1>5 DEF Warm, RefreshPresent, NextToken
  <2> QED
    BY <2>2, <2>3, RoundKeeps
<1>6. CASE WarmFetchReturns
  <2>1. PICK i \in Pending :
            /\ \/ RefreshResolves(i) \/ MissResolves(i)
               \/ GetRejects(i) \/ FirstRejects(i) \/ RefreshRejects(i)
            /\ Returned(i)
    BY <1>6 DEF WarmFetchReturns
  <2>2. CameBack(i)
    BY <1>1, <2>1, ComingBack
  <2> QED
    BY <2>2, ComingBackKeeps
<1>7. CASE TimerFires
  BY <1>7, TimerKeeps
<1>8. CASE WarmTimePasses
  BY <1>8, ClockKeeps
<1>9. CASE UNCHANGED warmVars
  <2>1. /\ entry' = entry /\ token' = token /\ fetches' = fetches /\ life' = life /\ resets' = resets
        /\ warmTime' = warmTime /\ left' = left /\ lookedUpAt' = lookedUpAt /\ Latest' = Latest
    BY <1>9 DEF warmVars, vars, Latest
  <2> QED
    BY <2>1 DEF WarmInv, WarmTypes, TimerTells, RoundsOnTime, RoundsSince, GapEnds, StartedAt, Rounds, Late, Ended
<1> QED
  BY <1>2, <1>3, <1>4, <1>5, <1>6, <1>7, <1>8, <1>9 DEF WarmNext, Warm

LEMMA WarmInvariance == WarmSpec => [](CacheInv /\ WarmInv)
<1>1. WarmInit => CacheInv /\ WarmInv
  BY WarmInitially, CacheInitially, FetchesAssumption DEF WarmInit
<1>2. CacheInv /\ WarmInv /\ [WarmNext]_warmVars => (CacheInv /\ WarmInv)'
  BY WarmStepIsCacheStep, CacheStepKeeps, WarmStepKeeps, FetchesAssumption
<1> QED
  BY <1>1, <1>2, PTL DEF WarmSpec

LEMMA WarmIsYoung == CacheInv /\ WarmInv => StaleOnlyByLookups
<1> SUFFICES ASSUME CacheInv, WarmInv, entry \in DOMAIN life, life[entry].back <= MaxWarmTime,
                    warmTime - life[entry].back > CacheTtl
             PROVE  resets /\ warmTime - lookedUpAt <= CacheTtl
  BY DEF StaleOnlyByLookups
<1>1. /\ entry \in 1 .. Latest /\ life[entry] \in Life /\ warmTime \in Nat /\ CacheTtl \in Nat
      /\ left \in 0 .. CacheTtl /\ lookedUpAt \in Nat /\ Latest \in Nat
  BY WarmAssumption DEF WarmAssumption, WarmInv, WarmTypes, Latest, CacheInv, TypeOK
<1>2. life[entry].back >= StartedAt \/ (resets /\ lookedUpAt >= StartedAt)
  BY <1>1 DEF WarmInv, TimerTells
<1> QED
  BY <1>1, <1>2 DEF StartedAt, Life

\* What is served from the pool rows or from the liquidity is older than its ttl only
\* where lookups prolong it, and only while they do.
THEOREM OldOnlyByLookups == WarmSpec => []StaleOnlyByLookups
BY WarmInvariance, WarmIsYoung, PTL

LEMMA WarmIsThere == CacheInv /\ WarmInv => WarmUnlessLate
<1> SUFFICES ASSUME CacheInv, WarmInv, ~resets, entry = 0, warmTime > 0
             PROVE  \E i \in 1 .. Latest : Late(i) /\ warmTime - Ended(i) <= CacheTtl
  BY DEF WarmUnlessLate
<1>1. WarmTypes /\ warmTime \in Nat /\ CacheTtl \in Nat /\ WarmPeriod \in Nat \ {0}
  BY WarmAssumption DEF WarmAssumption, WarmInv, WarmTypes
<1>2. 0 % WarmPeriod = 0
  BY <1>1, SMT
<1>3. \E i \in Rounds : life[i].from = 0
  BY <1>1, <1>2 DEF WarmInv, RoundsOnTime
<1>4. Latest > 0
  <2>1. Latest \in Nat
    BY DEF Latest, CacheInv, TypeOK
  <2> QED
    BY <1>3, <2>1 DEF Rounds
<1>5. PICK i \in 1 .. Latest, t \in Nat :
          Late(i) /\ warmTime <= t /\ t - Ended(i) <= CacheTtl
  BY <1>4 DEF WarmInv, GapEnds
<1>6. Ended(i) \in Nat
  BY <1>1, EndsNat
<1> QED
  BY <1>1, <1>5, <1>6

\* Warmed liquidity is there, whatever the lookups do between two rounds, unless a fetch
\* failed or took a period or more within the last ttl.
THEOREM ThereUnlessLate == WarmSpec => []WarmUnlessLate
BY WarmInvariance, WarmIsThere, PTL

-----------------------------------------------------------------------------
(* MultiCache.                                                             *)

\* The value is that of the last fetch, with its time, and fetches are in order.
ReadTypes ==
    /\ readTime \in 0 .. MaxReadTime
    /\ reads \in Seq(Read)
    /\ slot \in {0, Len(reads)}
    /\ slot # 0 => timestamp = reads[slot].at
    /\ timestamp \in Nat
    /\ \A i \in 1 .. Len(reads) : reads[i].at <= readTime

\* A fetch that is under way is the value's, or was replaced when it was too old, or
\* was left alone when a still older one failed.
PendingIsAccountedFor ==
    \A i \in 1 .. Len(reads) : reads[i].state = "pending" =>
        \/ slot = i
        \/ \E k \in 1 .. (i - 1) : reads[k].state = "failed"
        \/ \E j \in (i + 1) .. Len(reads) : reads[j].at - reads[i].at > ReadTTL

ReadInv ==
    ReadTypes /\ ReadIsLive /\ FetchesOverlapOnlyWhenLate /\ PendingIsAccountedFor

LEMMA ReadInitially == ReadInit => ReadInv
<1> SUFFICES ASSUME ReadInit PROVE ReadInv
  OBVIOUS
<1>1. reads = <<>> /\ slot = 0 /\ timestamp = 0 /\ readTime = 0 /\ Len(reads) = 0
  BY DEF ReadInit
<1>2. reads \in Seq(Read) /\ 0 \in 0 .. MaxReadTime
  BY <1>1, ReadAssumption DEF ReadAssumption
<1>3. ReadTypes
  BY <1>1, <1>2 DEF ReadTypes
<1> QED
  BY <1>1, <1>3 DEF ReadInv, ReadIsLive, FetchesOverlapOnlyWhenLate, PendingIsAccountedFor

LEMMA ReadFetchesKeeps ==
  ASSUME ReadInv, ReadFetches
  PROVE  ReadInv'
<1> DEFINE n == Len(reads)
           new == [at |-> readTime, state |-> "pending"]
<1>1. /\ reads \in Seq(Read) /\ n \in Nat /\ readTime \in Nat /\ readTime \in 0 .. MaxReadTime
      /\ slot \in {0, n} /\ timestamp \in Nat /\ ReadTTL \in Nat /\ new \in Read
  BY ReadAssumption DEF ReadAssumption, ReadInv, ReadTypes, Read
<1>2. reads' = Append(reads, new) /\ slot' = n + 1 /\ timestamp' = readTime /\ readTime' = readTime
  BY DEF ReadFetches
<1>3. slot = 0 \/ timestamp + ReadTTL < readTime
  BY DEF ReadFetches, Outdated
<1>4. new.at = readTime /\ new.state = "pending"
  OBVIOUS
<1> HIDE DEF new
<1>5. /\ reads' \in Seq(Read) /\ Len(reads') = n + 1
      /\ \A i \in 1 .. n : reads'[i] = reads[i]
      /\ reads'[n + 1] = new
  BY <1>1, <1>2, AppendProperties
<1> HIDE DEF n
<1>6. \A i \in 1 .. n : reads[i].at <= readTime /\ reads[i] \in Read
  BY <1>1 DEF ReadInv, ReadTypes, n
<1>7. ReadTypes'
  <2>1. \A i \in 1 .. (n + 1) : reads'[i].at <= readTime
    <3>1. ASSUME NEW i \in 1 .. (n + 1) PROVE reads'[i].at <= readTime
      <4>1. CASE i = n + 1
        BY <1>1, <1>4, <1>5, <4>1
      <4>2. CASE i \in 1 .. n
        BY <1>5, <1>6, <4>2
      <4> QED
        BY <1>1, <4>1, <4>2
    <3> QED
      BY <3>1
  <2> QED
    BY <1>1, <1>2, <1>4, <1>5, <2>1 DEF ReadTypes
<1>8. ReadIsLive'
  BY <1>2, <1>4, <1>5 DEF ReadIsLive
<1>9. ASSUME NEW i \in 1 .. n, reads[i].state = "pending"
      PROVE  \/ \E k \in 1 .. (i - 1) : reads[k].state = "failed"
             \/ readTime - reads[i].at > ReadTTL
  <2>1. CASE slot = i
    <3>1. timestamp = reads[i].at
      BY <1>1, <2>1 DEF ReadInv, ReadTypes
    <3> QED
      BY <1>1, <1>3, <2>1, <3>1
  <2>2. CASE \E k \in 1 .. (i - 1) : reads[k].state = "failed"
    BY <2>2
  <2>3. ASSUME NEW j \in (i + 1) .. n, reads[j].at - reads[i].at > ReadTTL
        PROVE  readTime - reads[i].at > ReadTTL
    <3>1. j \in 1 .. n
      BY <1>1
    <3>2. reads[i].at \in Int /\ reads[j].at \in Int /\ reads[j].at <= readTime
      BY <1>6, <3>1 DEF Read
    <3> QED
      BY <1>1, <2>3, <3>2
  <2> QED
    BY <1>9, <2>1, <2>2, <2>3 DEF ReadInv, PendingIsAccountedFor, n
<1>10. FetchesOverlapOnlyWhenLate'
  <2> SUFFICES ASSUME NEW i \in 1 .. (n + 1), NEW j \in 1 .. (n + 1), i < j, reads'[i].state = "pending"
               PROVE  \/ reads'[j].at - reads'[i].at > ReadTTL
                      \/ \E k \in 1 .. (i - 1) : reads'[k].state = "failed"
    BY <1>5 DEF FetchesOverlapOnlyWhenLate
  <2>1. i \in 1 .. n /\ reads'[i] = reads[i] /\ \A k \in 1 .. (i - 1) : reads'[k] = reads[k]
    BY <1>1, <1>5
  <2>2. CASE j = n + 1
    BY <1>4, <1>5, <1>9, <2>1, <2>2
  <2>3. CASE j \in 1 .. n
    BY <1>5, <2>1, <2>3 DEF ReadInv, FetchesOverlapOnlyWhenLate, n
  <2> QED
    BY <1>1, <2>2, <2>3
<1>11. PendingIsAccountedFor'
  <2> SUFFICES ASSUME NEW i \in 1 .. (n + 1), reads'[i].state = "pending"
               PROVE  \/ slot' = i
                      \/ \E k \in 1 .. (i - 1) : reads'[k].state = "failed"
                      \/ \E j \in (i + 1) .. (n + 1) : reads'[j].at - reads'[i].at > ReadTTL
    BY <1>5 DEF PendingIsAccountedFor
  <2>1. CASE i = n + 1
    BY <1>2, <2>1
  <2>2. CASE i \in 1 .. n
    <3>1. reads'[i] = reads[i] /\ (\A k \in 1 .. (i - 1) : reads'[k] = reads[k]) /\ n + 1 \in (i + 1) .. (n + 1)
      BY <1>1, <1>5, <2>2
    <3> QED
      BY <1>4, <1>5, <1>9, <2>2, <3>1
  <2> QED
    BY <1>1, <2>1, <2>2
<1> QED
  BY <1>7, <1>8, <1>10, <1>11 DEF ReadInv

\* A fetch settles; when it fails, the value is cleared.
LEMMA ReadSettlesKeeps ==
  ASSUME ReadInv, NEW i \in 1 .. Len(reads), reads[i].state = "pending", NEW state \in {"ok", "failed"},
         reads' = [reads EXCEPT ![i] = [@ EXCEPT !.state = state]], UNCHANGED <<readTime, timestamp>>,
         slot' = IF state = "ok" THEN slot ELSE 0
  PROVE  ReadInv'
<1> DEFINE n == Len(reads)
           new == [reads[i] EXCEPT !.state = state]
<1>1. reads \in Seq(Read) /\ n \in Nat /\ slot \in {0, n} /\ reads[i] \in Read
  BY DEF ReadInv, ReadTypes
<1>2. new \in Read /\ new.state = state /\ new.at = reads[i].at
  BY <1>1 DEF Read
<1>3. reads' = [reads EXCEPT ![i] = new]
  OBVIOUS
<1> HIDE DEF new
<1>4. /\ reads' \in Seq(Read) /\ Len(reads') = n
      /\ \A j \in 1 .. n : reads'[j] = IF j = i THEN new ELSE reads[j]
  BY <1>1, <1>2, <1>3, ExceptSeq
<1> HIDE DEF n
<1>5. \A j \in 1 .. n : /\ reads'[j].at = reads[j].at
                        /\ reads'[j].state = "pending" => reads[j].state = "pending"
                        /\ reads[j].state = "failed" => reads'[j].state = "failed"
  BY <1>2, <1>4
<1>6. i \in 1 .. n
  BY DEF n
<1>7. ReadTypes'
  BY <1>1, <1>4, <1>5 DEF ReadInv, ReadTypes, n
<1>8. ReadIsLive'
  <2>1. CASE state = "ok" /\ slot # 0
    BY <1>1, <1>2, <1>4, <2>1 DEF ReadInv, ReadIsLive, n
  <2>2. CASE slot' = 0
    BY <2>2 DEF ReadIsLive
  <2> QED
    BY <2>1, <2>2
<1>9. FetchesOverlapOnlyWhenLate'
  <2> SUFFICES ASSUME NEW j \in 1 .. n, NEW l \in 1 .. n, j < l, reads'[j].state = "pending"
               PROVE  \/ reads'[l].at - reads'[j].at > ReadTTL
                      \/ \E k \in 1 .. (j - 1) : reads'[k].state = "failed"
    BY <1>4 DEF FetchesOverlapOnlyWhenLate
  <2>1. \/ reads[l].at - reads[j].at > ReadTTL
        \/ \E k \in 1 .. (j - 1) : reads[k].state = "failed"
    BY <1>5 DEF ReadInv, FetchesOverlapOnlyWhenLate, n
  <2>2. \A k \in 1 .. (j - 1) : k \in 1 .. n
    BY <1>1
  <2> QED
    BY <1>5, <2>1, <2>2
<1>10. PendingIsAccountedFor'
  <2> SUFFICES ASSUME NEW j \in 1 .. n, reads'[j].state = "pending"
               PROVE  \/ slot' = j
                      \/ \E k \in 1 .. (j - 1) : reads'[k].state = "failed"
                      \/ \E l \in (j + 1) .. n : reads'[l].at - reads'[j].at > ReadTTL
    BY <1>4 DEF PendingIsAccountedFor
  <2>1. \/ slot = j
        \/ \E k \in 1 .. (j - 1) : reads[k].state = "failed"
        \/ \E l \in (j + 1) .. n : reads[l].at - reads[j].at > ReadTTL
    BY <1>5 DEF ReadInv, PendingIsAccountedFor, n
  <2>2. CASE \E k \in 1 .. (j - 1) : reads[k].state = "failed"
    <3>1. PICK k \in 1 .. (j - 1) : reads[k].state = "failed"
      BY <2>2
    <3>2. k \in 1 .. n
      BY <1>1
    <3> QED
      BY <1>5, <3>1, <3>2
  <2>3. CASE \E l \in (j + 1) .. n : reads[l].at - reads[j].at > ReadTTL
    <3>1. PICK l \in (j + 1) .. n : reads[l].at - reads[j].at > ReadTTL
      BY <2>3
    <3>2. l \in 1 .. n
      BY <1>1
    <3> QED
      BY <1>5, <3>1, <3>2
  <2>4. CASE slot = j
    <3>1. CASE state = "ok"
      BY <2>4, <3>1
    <3>2. CASE state = "failed"
      <4>1. j = n /\ j # i /\ i \in 1 .. (j - 1)
        <5>1. j = n
          BY <1>1, <2>4
        <5>2. reads'[i].state = "failed"
          BY <1>2, <1>4, <1>6, <3>2
        <5> QED
          BY <1>1, <1>6, <5>1, <5>2
      <4>2. reads'[i].state = "failed"
        BY <1>2, <1>4, <1>6, <3>2
      <4> QED
        BY <4>1, <4>2
    <3> QED
      BY <3>1, <3>2
  <2> QED
    BY <2>1, <2>2, <2>3, <2>4
<1> QED
  BY <1>7, <1>8, <1>9, <1>10 DEF ReadInv

LEMMA ReadStepKeeps ==
  ASSUME ReadInv, [ReadNext]_readVars
  PROVE  ReadInv'
<1>1. CASE ReadFetches
  BY <1>1, ReadFetchesKeeps
<1>2. CASE ReadTimePasses
  <2>1. ReadTypes'
    <3>1. \A i \in 1 .. Len(reads) : reads[i] \in Read /\ reads[i].at <= readTime
      BY DEF ReadInv, ReadTypes
    <3>2. readTime \in 0 .. MaxReadTime /\ MaxReadTime \in Nat
      BY ReadAssumption DEF ReadAssumption, ReadInv, ReadTypes
    <3> QED
      BY <1>2, <3>1, <3>2 DEF ReadTimePasses, ReadInv, ReadTypes, Read
  <2> QED
    BY <1>2, <2>1
       DEF ReadTimePasses, ReadInv, ReadIsLive, FetchesOverlapOnlyWhenLate, PendingIsAccountedFor
<1>3. ASSUME NEW i \in 1 .. Len(reads), ReadResolves(i) PROVE ReadInv'
  BY <1>3, ReadSettlesKeeps DEF ReadResolves
<1>4. ASSUME NEW i \in 1 .. Len(reads), ReadRejects(i) PROVE ReadInv'
  BY <1>4, ReadSettlesKeeps DEF ReadRejects, Cleared
<1>5. CASE UNCHANGED readVars
  BY <1>5 DEF readVars, ReadInv, ReadTypes, ReadIsLive, FetchesOverlapOnlyWhenLate, PendingIsAccountedFor
<1> QED
  BY <1>1, <1>2, <1>3, <1>4, <1>5 DEF ReadNext

LEMMA ReadInvariance == ReadSpec => []ReadInv
BY ReadInitially, ReadStepKeeps, PTL DEF ReadSpec

\* No reader is handed a promise that is known to have failed.
THEOREM ReadsAreLive == ReadSpec => []ReadIsLive
<1>1. ReadInv => ReadIsLive
  BY DEF ReadInv
<1> QED
  BY <1>1, ReadInvariance, PTL

\* Two fetches are under way together only if the older has outlived its ttl or a still
\* older one failed.
THEOREM OverlapOnlyWhenLate == ReadSpec => []FetchesOverlapOnlyWhenLate
<1>1. ReadInv => FetchesOverlapOnlyWhenLate
  BY DEF ReadInv
<1> QED
  BY <1>1, ReadInvariance, PTL

-----------------------------------------------------------------------------
(* Memoize.                                                                *)

Revalidations == {i \in Unsettled : calls[i].revision # 0}

\* Revisions number the calls after the first, and the last one is expected.
RevisionsInOrder ==
    /\ value = 0 <=> LastCall = 0
    /\ \A i \in 1 .. LastCall : calls[i].revision = i - 1
    /\ revision = IF LastCall = 0 THEN 0 ELSE LastCall - 1

\* pending counts, and revalidating says whether there are any.
PendingIsExact ==
    /\ pending = Cardinality(Revalidations)
    /\ revalidating <=> pending > 0

NewestIsServed == LastCall > 0 /\ calls[LastCall].state = "ok" => value = LastCall

MemoInv == MemoTypeOK /\ RevisionsInOrder /\ PendingIsExact /\ NewestIsServed

-----------------------------------------------------------------------------

LEMMA LatestFacts ==
  ASSUME MemoTypeOK, MemoizeAssumption
  PROVE  /\ LastCall = Len(calls) /\ LastCall \in Nat /\ MaxCalls \in Nat
         /\ IsFiniteSet(Revalidations)
         /\ Cardinality(Revalidations) \in Nat
         /\ Cardinality(Revalidations) > 0 <=> Revalidations # {}
<1>1. LastCall = Len(calls) /\ LastCall \in Nat /\ MaxCalls \in Nat
  BY DEF MemoTypeOK, LastCall, MemoizeAssumption
<1>2. IsFiniteSet(1 .. LastCall)
  BY <1>1, FS_Interval, SMT
<1>3. Revalidations \subseteq 1 .. LastCall
  BY DEF Revalidations, Unsettled
<1>4. IsFiniteSet(Revalidations)
  BY <1>2, <1>3, FS_Subset
<1>5. Cardinality(Revalidations) \in Nat
  BY <1>4, FS_CardinalityType
<1>6. Cardinality(Revalidations) = 0 <=> Revalidations = {}
  BY <1>4, FS_EmptySet
<1> QED
  BY <1>1, <1>4, <1>5, <1>6

\* A new call is the last one and leaves the others as they are.
LEMMA CallFacts ==
  ASSUME MemoTypeOK, MemoizeAssumption, NEW rev \in 0 .. MaxCalls, Calls(rev)
  PROVE  /\ calls' \in Seq(MemoCall) /\ LastCall' = LastCall + 1 /\ LastCall' <= MaxCalls
         /\ \A i \in 1 .. LastCall : calls'[i] = calls[i]
         /\ calls'[LastCall + 1] = [revision |-> rev, state |-> "pending"]
<1> DEFINE new == [revision |-> rev, state |-> "pending"]
<1>1. new \in MemoCall
  BY DEF MemoCall
<1>2. calls \in Seq(MemoCall) /\ calls' = Append(calls, new) /\ LastCall = Len(calls) /\ LastCall \in Nat
      /\ MaxCalls \in Nat
  BY LatestFacts DEF MemoTypeOK, Calls
<1> HIDE DEF new
<1>3. /\ calls' \in Seq(MemoCall) /\ Len(calls') = Len(calls) + 1
      /\ \A i \in 1 .. Len(calls) : calls'[i] = calls[i]
      /\ calls'[Len(calls) + 1] = new
  BY <1>1, <1>2, AppendProperties
<1>4. LastCall' = LastCall + 1 /\ LastCall' <= MaxCalls
  BY <1>2, <1>3 DEF LastCall, Calls
<1> QED
  BY <1>2, <1>3, <1>4 DEF new

\* A call that settles changes nothing else.
LEMMA CallSettled ==
  ASSUME MemoTypeOK, MemoizeAssumption, NEW i \in Unsettled, NEW state \in {"ok", "failed"}, CallSettles(i, state)
  PROVE  /\ calls' \in Seq(MemoCall) /\ LastCall' = LastCall
         /\ i \in 1 .. LastCall /\ calls[i].state = "pending"
         /\ calls'[i].state = state
         /\ \A j \in 1 .. LastCall : j # i => calls'[j] = calls[j]
         /\ \A j \in 1 .. LastCall : calls'[j].revision = calls[j].revision
         /\ Unsettled' = Unsettled \ {i}
<1>1. i \in 1 .. LastCall /\ calls[i].state = "pending" /\ LastCall = Len(calls) /\ LastCall \in Nat
  BY LatestFacts DEF Unsettled
<1>2. calls \in Seq(MemoCall) /\ calls[i] \in MemoCall
  BY <1>1 DEF MemoTypeOK
<1> DEFINE new == [calls[i] EXCEPT !.state = state]
<1>3. new \in MemoCall /\ new.state = state /\ new.revision = calls[i].revision
  BY <1>2 DEF MemoCall
<1>4. calls' = [calls EXCEPT ![i] = new]
  BY DEF CallSettles
<1> HIDE DEF new
<1>5. /\ calls' \in Seq(MemoCall) /\ Len(calls') = Len(calls)
      /\ \A j \in 1 .. Len(calls) : calls'[j] = IF j = i THEN new ELSE calls[j]
  BY <1>1, <1>2, <1>3, <1>4, ExceptSeq
<1>6. LastCall' = LastCall
  BY <1>5 DEF LastCall
<1>7. Unsettled' = Unsettled \ {i}
  BY <1>1, <1>3, <1>5, <1>6 DEF Unsettled
<1> QED
  BY <1>1, <1>3, <1>5, <1>6, <1>7

LEMMA MemoInitially ==
  ASSUME MemoInit, MemoizeAssumption
  PROVE  MemoInv
<1>1. LastCall = 0 /\ calls \in Seq(MemoCall)
  BY DEF MemoInit, LastCall
<1>2. MemoTypeOK
  <2>1. 1 .. LastCall = {} /\ LastCall <= MaxCalls /\ 0 \in 0 .. LastCall /\ 0 \in 0 .. MaxCalls
    BY <1>1 DEF MemoizeAssumption
  <2>2. /\ value = 0 /\ revision = 0 /\ pending = 0
        /\ aged \in BOOLEAN /\ revalidating \in BOOLEAN
    BY DEF MemoInit
  <2> QED
    BY <2>1, <2>2, <1>1, Zenon DEF MemoTypeOK
<1>3. Revalidations = {}
  BY <1>1 DEF Revalidations, Unsettled
<1>4. PendingIsExact
  BY <1>3, FS_EmptySet DEF MemoInit, PendingIsExact
<1> QED
  BY <1>1, <1>2, <1>4 DEF MemoInit, MemoInv, RevisionsInOrder, NewestIsServed

LEMMA FirstCallKeeps ==
  ASSUME MemoInv, MemoizeAssumption, FirstCall
  PROVE  MemoInv'
<1>1. MemoTypeOK /\ LastCall = 0 /\ revision = 0
  BY DEF MemoInv, RevisionsInOrder, FirstCall
<1>2. 0 \in 0 .. MaxCalls /\ MaxCalls \in Nat
  BY DEF MemoizeAssumption
<1>3. /\ calls' \in Seq(MemoCall) /\ LastCall' = 1 /\ LastCall' <= MaxCalls
      /\ calls'[1] = [revision |-> 0, state |-> "pending"]
  BY <1>1, <1>2, CallFacts DEF FirstCall
<1>4. value' = 1 /\ aged' = FALSE /\ revision' = revision /\ pending' = pending /\ revalidating' = revalidating
  BY <1>1 DEF FirstCall
<1>5. MemoTypeOK'
  <2>1. aged' \in BOOLEAN /\ revalidating' \in BOOLEAN
    BY <1>1, <1>4, Zenon DEF MemoTypeOK
  <2>2. revision' \in 0 .. MaxCalls /\ pending' \in 0 .. MaxCalls
    BY <1>1, <1>4, Zenon DEF MemoTypeOK
  <2>3. value' \in 0 .. LastCall'
    BY <1>3, <1>4
  <2>4. \A i \in 1 .. LastCall' : calls'[i].revision = 0 <=> i = 1
    BY <1>3
  <2> QED
    BY <2>1, <2>2, <2>3, <2>4, <1>3, Zenon DEF MemoTypeOK
<1>6. RevisionsInOrder'
  BY <1>1, <1>3, <1>4 DEF RevisionsInOrder
<1>7. Revalidations = {} /\ Revalidations' = {}
  BY <1>1, <1>3 DEF Revalidations, Unsettled
<1>8. PendingIsExact'
  BY <1>4, <1>7 DEF PendingIsExact, MemoInv
<1>9. NewestIsServed'
  BY <1>3, <1>4 DEF NewestIsServed
<1> QED
  BY <1>5, <1>6, <1>8, <1>9 DEF MemoInv

LEMMA RevalidatesKeeps ==
  ASSUME MemoInv, MemoizeAssumption, value # 0, Revalidates
  PROVE  MemoInv'
<1>1. /\ MemoTypeOK /\ LastCall \in Nat /\ LastCall > 0 /\ LastCall < MaxCalls /\ MaxCalls \in Nat
      /\ revision = LastCall - 1
  BY LatestFacts DEF MemoInv, RevisionsInOrder, Revalidates, Calls
<1>2. revision' = LastCall /\ LastCall \in 0 .. MaxCalls /\ Calls(LastCall)
  BY <1>1 DEF Revalidates, NextRevision
<1>3. /\ calls' \in Seq(MemoCall) /\ LastCall' = LastCall + 1 /\ LastCall' <= MaxCalls
      /\ \A i \in 1 .. LastCall : calls'[i] = calls[i]
      /\ calls'[LastCall + 1] = [revision |-> LastCall, state |-> "pending"]
  BY <1>1, <1>2, CallFacts
<1>4. value' = value /\ aged' = aged /\ pending' = pending + 1 /\ revalidating' = TRUE
  BY DEF Revalidates
<1>5. RevisionsInOrder'
  <2>1. \A i \in 1 .. LastCall' : calls'[i].revision = i - 1
    BY <1>1, <1>3 DEF MemoInv, RevisionsInOrder
  <2> QED
    BY <2>1, <1>1, <1>2, <1>3, <1>4 DEF RevisionsInOrder
<1>6. Unsettled' = Unsettled \cup {LastCall + 1} /\ LastCall + 1 \notin Unsettled
  BY <1>1, <1>3 DEF Unsettled
<1>7. Revalidations' = Revalidations \cup {LastCall + 1} /\ LastCall + 1 \notin Revalidations
  <2>1. \A i \in Unsettled : calls'[i] = calls[i]
    BY <1>3 DEF Unsettled
  <2> QED
    BY <2>1, <1>1, <1>3, <1>6 DEF Revalidations
<1>8. IsFiniteSet(Revalidations) /\ Cardinality(Revalidations) \in Nat
  BY <1>1, LatestFacts
<1>9. Cardinality(Revalidations \cup {LastCall + 1}) = Cardinality(Revalidations) + 1
  BY <1>7, <1>8, FS_AddElement
<1>10. pending = Cardinality(Revalidations)
  BY DEF MemoInv, PendingIsExact
<1>11. PendingIsExact'
  BY <1>4, <1>7, <1>8, <1>9, <1>10 DEF PendingIsExact
<1>12. pending' \in 0 .. MaxCalls
  <2>1. IsFiniteSet(1 .. MaxCalls) /\ Cardinality(1 .. MaxCalls) = MaxCalls
    BY <1>1, FS_Interval, SMT
  <2>2. Revalidations' \subseteq 1 .. MaxCalls
    BY <1>1, <1>3 DEF Revalidations, Unsettled
  <2>3. Cardinality(Revalidations') <= MaxCalls
    BY <2>1, <2>2, FS_Subset
  <2> QED
    BY <2>3, <1>1, <1>7, <1>8, <1>9, <1>10, <1>4
<1>13. MemoTypeOK'
  <2>1. \A i \in 1 .. LastCall' : calls'[i].revision = 0 <=> i = 1
    BY <1>1, <1>3, <1>5 DEF RevisionsInOrder
  <2> QED
    BY <2>1, <1>1, <1>2, <1>3, <1>4, <1>12 DEF MemoTypeOK
<1>14. NewestIsServed'
  BY <1>3 DEF NewestIsServed
<1> QED
  BY <1>5, <1>11, <1>13, <1>14 DEF MemoInv

\* A call settles: the first one changes nothing but itself, a revalidation is
\* counted off and becomes the value if it resolved and is the newest.
LEMMA CallSettleKeeps ==
  ASSUME MemoInv, MemoizeAssumption, NEW i \in Unsettled, NEW state \in {"ok", "failed"}, CallSettles(i, state),
         revision' = revision,
         \/ calls[i].revision = 0 /\ UNCHANGED <<pending, revalidating>>
         \/ calls[i].revision # 0 /\ OneDone,
         \/ UNCHANGED <<value, aged>> /\ (state = "ok" => i # LastCall \/ value = LastCall)
         \/ value' = i /\ aged' = FALSE /\ state = "ok" /\ i = LastCall
  PROVE  MemoInv'
<1>1. MemoTypeOK
  BY DEF MemoInv
<1>2. /\ calls' \in Seq(MemoCall) /\ LastCall' = LastCall
      /\ i \in 1 .. LastCall /\ calls[i].state = "pending"
      /\ calls'[i].state = state
      /\ \A j \in 1 .. LastCall : j # i => calls'[j] = calls[j]
      /\ \A j \in 1 .. LastCall : calls'[j].revision = calls[j].revision
      /\ Unsettled' = Unsettled \ {i}
  BY <1>1, CallSettled
<1>3. LastCall \in Nat /\ LastCall > 0 /\ LastCall <= MaxCalls /\ MaxCalls \in Nat
  BY <1>1, <1>2, LatestFacts DEF MemoTypeOK
<1>4. RevisionsInOrder'
  BY <1>2, <1>3 DEF MemoInv, RevisionsInOrder
<1>5. Revalidations' = Revalidations \ {i}
  <2>1. Unsettled \subseteq 1 .. LastCall
    BY DEF Unsettled
  <2> QED
    BY <2>1, <1>2 DEF Revalidations
<1>6. /\ IsFiniteSet(Revalidations) /\ Cardinality(Revalidations) \in Nat
      /\ pending = Cardinality(Revalidations)
      /\ revalidating <=> pending > 0
  BY <1>1, LatestFacts DEF MemoInv, PendingIsExact
<1>7. PendingIsExact' /\ pending' \in 0 .. MaxCalls
  <2>1. CASE calls[i].revision = 0 /\ UNCHANGED <<pending, revalidating>>
    <3>1. i \notin Revalidations
      BY <2>1 DEF Revalidations
    <3>2. Revalidations' = Revalidations
      BY <3>1, <1>5
    <3> QED
      BY <2>1, <3>2, <1>6, <1>1 DEF PendingIsExact, MemoTypeOK
  <2>2. CASE calls[i].revision # 0 /\ OneDone
    <3>1. i \in Revalidations
      BY <2>2 DEF Revalidations
    <3>2. Cardinality(Revalidations \ {i}) = Cardinality(Revalidations) - 1
      BY <3>1, <1>6, FS_RemoveElement
    <3>3. Cardinality(Revalidations \ {i}) \in Nat
      <4>1. IsFiniteSet(Revalidations \ {i})
        BY <1>6, FS_RemoveElement
      <4> QED
        BY <4>1, FS_CardinalityType
    <3>4. pending' = pending - 1 /\ (revalidating' <=> pending' > 0)
      BY <2>2 DEF OneDone
    <3>5. pending' = Cardinality(Revalidations')
      BY <3>2, <3>4, <1>5, <1>6
    <3>6. pending' \in 0 .. MaxCalls
      <4>1. pending \in 0 .. MaxCalls
        BY <1>1 DEF MemoTypeOK
      <4> QED
        BY <4>1, <3>2, <3>3, <3>4, <1>3, <1>6
    <3> QED
      BY <3>4, <3>5, <3>6 DEF PendingIsExact
  <2> QED
    BY <2>1, <2>2
<1>8. value' \in 0 .. LastCall /\ aged' \in BOOLEAN /\ revalidating' \in BOOLEAN
  <2>1. value \in 0 .. LastCall /\ aged \in BOOLEAN /\ revalidating \in BOOLEAN
    BY <1>1 DEF MemoTypeOK
  <2>2. value' = value \/ value' = i
    BY Zenon
  <2>3. i \in 0 .. LastCall
    BY <1>2, <1>3
  <2>4. aged' = aged \/ aged' = FALSE
    BY Zenon
  <2>5. revalidating' = revalidating \/ revalidating' = (pending' > 0)
    BY Zenon DEF OneDone
  <2>6. (pending' > 0) \in BOOLEAN
    OBVIOUS
  <2>7. value' \in 0 .. LastCall
    BY <2>1, <2>2, <2>3, Zenon
  <2>8. aged' \in BOOLEAN
    BY <2>1, <2>4, Zenon
  <2>9. revalidating' \in BOOLEAN
    BY <2>1, <2>5, <2>6, Zenon
  <2> QED
    BY <2>7, <2>8, <2>9
<1>9. (value' = 0) <=> (LastCall' = 0)
  BY <1>2, <1>3, <1>8 DEF MemoInv, RevisionsInOrder
<1>10. MemoTypeOK'
  BY <1>1, <1>2, <1>7, <1>8 DEF MemoTypeOK
<1>11. NewestIsServed'
  <2>1. CASE i = LastCall
    BY <2>1, <1>2 DEF NewestIsServed
  <2>2. CASE i # LastCall
    BY <2>2, <1>2, <1>3 DEF NewestIsServed, MemoInv
  <2> QED
    BY <2>1, <2>2
<1> QED
  BY <1>4, <1>7, <1>10, <1>11 DEF MemoInv

LEMMA MemoStepKeeps ==
  ASSUME MemoInv, MemoizeAssumption, [MemoNext]_memoVars
  PROVE  MemoInv'
<1>0. LastCall \in Nat
  BY LatestFacts DEF MemoInv
<1>1. CASE FirstCall
  BY <1>1, FirstCallKeeps
<1>2. CASE LookupOfAged
  BY <1>2, RevalidatesKeeps DEF LookupOfAged
<1>3. CASE MemoRefresh
  BY <1>3, RevalidatesKeeps DEF MemoRefresh
<1>4. CASE MemoAges \/ UNCHANGED memoVars
  <2>1. /\ calls' = calls /\ value' = value /\ revision' = revision /\ pending' = pending
        /\ revalidating' = revalidating /\ aged' \in BOOLEAN
    BY <1>4 DEF MemoAges, memoVars, MemoInv, MemoTypeOK
  <2>2. LastCall' = LastCall /\ Unsettled' = Unsettled
    BY <2>1 DEF LastCall, Unsettled
  <2>3. Revalidations' = Revalidations
    BY <2>1, <2>2 DEF Revalidations
  <2> QED
    BY <2>1, <2>2, <2>3 DEF MemoInv, MemoTypeOK, RevisionsInOrder, PendingIsExact, NewestIsServed
<1>5. ASSUME NEW i \in Unsettled, RevalidationResolves(i) PROVE MemoInv'
  <2>1. CallSettles(i, "ok") /\ revision' = revision /\ calls[i].revision # 0 /\ OneDone
    BY <1>5 DEF RevalidationResolves
  <2>2. i \in 1 .. LastCall /\ calls[i].revision = i - 1 /\ revision = LastCall - 1
    BY <1>0 DEF Unsettled, MemoInv, RevisionsInOrder
  <2>3. IsNewest(i) <=> i = LastCall
    BY <2>2, <1>0 DEF IsNewest
  <2>4. \/ UNCHANGED <<value, aged>> /\ i # LastCall
        \/ value' = i /\ aged' = FALSE /\ i = LastCall
    BY <1>5, <2>3 DEF RevalidationResolves
  <2> QED
    BY <2>1, <2>4, CallSettleKeeps
<1>6. ASSUME NEW i \in Unsettled, RevalidationRejects(i) PROVE MemoInv'
  BY <1>6, CallSettleKeeps DEF RevalidationRejects
<1>7. ASSUME NEW i \in Unsettled, FirstSettles(i) PROVE MemoInv'
  <2>1. PICK state \in {"ok", "failed"} : CallSettles(i, state)
    BY <1>7 DEF FirstSettles
  <2>2. UNCHANGED <<value, aged, revision, pending, revalidating>> /\ calls[i].revision = 0
    BY <1>7 DEF FirstSettles
  <2>3. i \in 1 .. LastCall /\ i = 1
    BY <2>2, <1>0 DEF Unsettled, MemoInv, MemoTypeOK
  <2>4. i = LastCall => value = LastCall
    BY <2>3, <1>0 DEF MemoInv, MemoTypeOK, RevisionsInOrder
  <2> QED
    BY <2>1, <2>2, <2>4, CallSettleKeeps
<1> QED
  BY <1>1, <1>2, <1>3, <1>4, <1>5, <1>6, <1>7 DEF MemoNext

-----------------------------------------------------------------------------

\* The inductive invariant holds in every state of every execution.
THEOREM MemoInvariance == MemoSpec => []MemoInv
<1>1. MemoInit => MemoInv
  BY MemoInitially, MemoizeAssumption
<1>2. MemoInv /\ [MemoNext]_memoVars => MemoInv'
  BY MemoStepKeeps, MemoizeAssumption
<1> QED
  BY <1>1, <1>2, PTL DEF MemoSpec

\* revalidating holds exactly while a revalidation is under way.
THEOREM RevalidatingExactness == MemoSpec => []RevalidatingWhilePending
<1>1. MemoInv => RevalidatingWhilePending
  <2> SUFFICES ASSUME MemoInv PROVE RevalidatingWhilePending
    OBVIOUS
  <2>1. revalidating <=> Revalidations # {}
    BY LatestFacts, MemoizeAssumption DEF MemoInv, PendingIsExact
  <2> QED
    BY <2>1 DEF Revalidations, RevalidatingWhilePending
<1> QED
  BY <1>1, MemoInvariance, PTL

\* When all calls have come back, the last one is the value or has failed.
THEOREM LastAnswer == MemoSpec => []LastAnswerIsServed
<1>1. MemoInv => LastAnswerIsServed
  <2> SUFFICES ASSUME MemoInv, Unsettled = {}, LastCall > 0, calls[LastCall].state # "failed"
               PROVE  value = LastCall
    BY DEF LastAnswerIsServed
  <2>1. LastCall = Len(calls) /\ LastCall \in Nat
    BY LatestFacts, MemoizeAssumption DEF MemoInv
  <2>2. calls[LastCall] \in MemoCall
    BY <2>1 DEF MemoInv, MemoTypeOK
  <2>3. calls[LastCall].state # "pending"
    BY <2>1 DEF Unsettled
  <2> QED
    BY <2>2, <2>3 DEF MemoCall, MemoInv, NewestIsServed
<1> QED
  BY <1>1, MemoInvariance, PTL

\* A value is replaced only by one that was asked for later and has resolved.
THEOREM NewestWins == MemoSpec => NewestResolvedWins
<1> DEFINE Step == value # 0 /\ value' # value => value' > value /\ calls'[value'].state = "ok"
<1>1. MemoInv /\ [MemoNext]_memoVars => [Step]_memoVars
  <2> SUFFICES ASSUME MemoInv, [MemoNext]_memoVars, value # 0, value' # value
               PROVE  value' > value /\ calls'[value'].state = "ok"
    OBVIOUS
  <2>1. PICK i \in Unsettled : RevalidationResolves(i) /\ IsNewest(i) /\ value' = i
    BY DEF MemoNext, memoVars, FirstCall, LookupOfAged, MemoRefresh, MemoAges, Revalidates, RevalidationResolves,
       RevalidationRejects, FirstSettles
  <2>2. LastCall \in Nat
    BY LatestFacts, MemoizeAssumption DEF MemoInv
  <2>3. i \in 1 .. LastCall /\ i = LastCall
    BY <2>1, <2>2 DEF Unsettled, IsNewest, MemoInv, RevisionsInOrder
  <2>4. value \in 0 .. LastCall
    BY DEF MemoInv, MemoTypeOK
  <2>5. calls'[i].state = "ok"
    BY <2>1, CallSettled, MemoizeAssumption DEF RevalidationResolves, MemoInv
  <2> QED
    BY <2>1, <2>2, <2>3, <2>4, <2>5
<1> QED
  BY <1>1, MemoInvariance, PTL DEF MemoSpec, NewestResolvedWins

\* Both: what callers of a memoized function rely on.
THEOREM Answers == MemoSpec => []MemoAnswers
<1>1. RevalidatingWhilePending /\ LastAnswerIsServed => MemoAnswers
  BY DEF MemoAnswers
<1> QED
  BY <1>1, RevalidatingExactness, LastAnswer, PTL

-----------------------------------------------------------------------------
(* PriceCache.                                                             *)

Clock ==
    /\ priceTime \in PriceTTL .. (PriceTTL + MaxPriceTime)
    /\ asked \in 0 .. MaxRequests
    /\ fetchPromise \in PriceCallers \cup {NoFetch}

\* The request that is under way is the last one.
LastIsPending ==
    /\ fetchPromise # NoFetch => requests # <<>>
    /\ \A n \in 1 .. Len(requests) :
          requests[n].outcome = "pending" <=> n = Len(requests) /\ fetchPromise # NoFetch

\* Until an answer is too old it is the last request and lastCacheSet is its time.
AnswersAreApart == \A n \in 1 .. Len(requests) :
    requests[n].outcome = "ok" =>
       \/ n = Len(requests) /\ lastCacheSet = requests[n].back
       \/ priceTime - requests[n].back >= PriceTTL

\* Prices are trusted only when they are all of one answer.
TrustedIsWhole == lastCacheSet # 0 => \A a \in PricedAssets :
    cache[a] > 0 /\ cache[a] = cache[1] /\ requests[cache[a]].outcome = "ok"

\* The calls that may still send a request.
Waiting == {c \in PriceCallers : asking[c] \in {"looks", "waits"}}

\* A call sends one request at most.
RequestsAreOfCalls == Len(requests) + Cardinality(Waiting) <= asked

PriceInv ==
    /\ PriceTypeOK /\ Clock /\ RequestsAreOfCalls
    /\ LastIsPending /\ AnswersAreApart /\ TrustedIsWhole

-----------------------------------------------------------------------------

LEMMA PriceTypes ==
  ASSUME PriceAssumption, PriceInv
  PROVE  /\ PriceTTL \in Nat \ {0} /\ MaxPriceTime \in Nat /\ MaxRequests \in Nat
         /\ priceTime \in Nat /\ priceTime >= PriceTTL /\ lastCacheSet \in 0 .. priceTime
         /\ requests \in Seq(Request) /\ Len(requests) \in Nat /\ asked \in Nat
         /\ \A n \in 1 .. Len(requests) : requests[n].back \in Nat
         /\ IsFiniteSet(Waiting) /\ Cardinality(Waiting) \in Nat
<1>1. PriceTTL \in Nat \ {0} /\ MaxPriceTime \in Nat /\ MaxRequests \in Nat
  BY DEF PriceAssumption
<1>2. priceTime \in Nat /\ priceTime >= PriceTTL /\ lastCacheSet \in 0 .. priceTime /\ asked \in Nat
  BY <1>1 DEF PriceInv, PriceTypeOK, Clock
<1>3. requests \in Seq(Request) /\ Len(requests) \in Nat
  BY DEF PriceInv, PriceTypeOK
<1>4. ASSUME NEW n \in 1 .. Len(requests) PROVE requests[n].back \in Nat
  <2>1. requests[n] \in Request
    BY <1>3, ElementOfSeq
  <2> QED
    BY <2>1, <1>1 DEF Request
<1>5. IsFiniteSet(Waiting)
  BY FS_Subset DEF Waiting, PriceAssumption
<1> QED
  BY <1>1, <1>2, <1>3, <1>4, <1>5, FS_CardinalityType

LEMMA PriceInitially == PriceAssumption /\ PriceInit => PriceInv
<1> SUFFICES ASSUME PriceAssumption, PriceInit PROVE PriceInv
  OBVIOUS
<1>1. requests \in Seq(Request) /\ Len(requests) = 0 /\ asked = 0
  BY EmptySeq DEF PriceInit
<1>2. PriceTypeOK /\ Clock
  BY <1>1 DEF PriceInit, PriceTypeOK, Clock, PriceAssumption, PricedAssets
<1>3. LastIsPending /\ AnswersAreApart /\ TrustedIsWhole
  BY <1>1 DEF PriceInit, LastIsPending, AnswersAreApart, TrustedIsWhole
<1>4. Waiting = {}
  BY DEF PriceInit, Waiting
<1>5. RequestsAreOfCalls
  BY <1>1, <1>4, FS_EmptySet DEF RequestsAreOfCalls
<1> QED
  BY <1>2, <1>3, <1>5 DEF PriceInv

\* A caller that looks or waits changes nothing but where it stands.
LEMMA CallersKeep ==
  ASSUME PriceAssumption, PriceInv, NEW c \in PriceCallers, NEW to \in {"idle", "looks", "waits"},
         asking[c] # "fetches", asking' = [asking EXCEPT ![c] = to],
         asked' \in 0 .. MaxRequests, asked <= asked', RequestsAreOfCalls',
         UNCHANGED <<priceTime, cache, lastCacheSet, fetchPromise, requests>>
  PROVE  PriceInv'
<1>1. PriceTypeOK'
  <2>1. Len(requests) <= asked'
    BY PriceTypes DEF PriceInv, PriceTypeOK
  <2> QED
    BY <2>1 DEF PriceInv, PriceTypeOK
<1>2. Clock' /\ LastIsPending' /\ AnswersAreApart' /\ TrustedIsWhole'
  BY DEF PriceInv, Clock, LastIsPending, AnswersAreApart, TrustedIsWhole
<1> QED
  BY <1>1, <1>2 DEF PriceInv

LEMMA AsksKeeps ==
  ASSUME PriceAssumption, PriceInv, NEW c \in PriceCallers, AsksPrice(c)
  PROVE  PriceInv'
<1>1. /\ asking[c] = "idle" /\ asking' = [asking EXCEPT ![c] = "looks"] /\ asked' = asked + 1
      /\ UNCHANGED <<priceTime, cache, lastCacheSet, fetchPromise, requests>>
  BY DEF AsksPrice
<1>2. asked' \in 0 .. MaxRequests /\ asked <= asked'
  BY PriceTypes DEF AsksPrice
<1>3. Waiting' = Waiting \cup {c} /\ c \notin Waiting
  BY <1>1 DEF Waiting, PriceInv, PriceTypeOK
<1>4. Cardinality(Waiting') = Cardinality(Waiting) + 1
  BY <1>3, PriceTypes, FS_AddElement
<1>5. RequestsAreOfCalls'
  BY <1>1, <1>4, PriceTypes DEF PriceInv, RequestsAreOfCalls
<1> QED
  BY <1>1, <1>2, <1>5, CallersKeep

LEMMA ServedKeeps ==
  ASSUME PriceAssumption, PriceInv, NEW c \in PriceCallers, ServedFromCache(c)
  PROVE  PriceInv'
<1>1. /\ asking[c] = "looks" /\ asking' = [asking EXCEPT ![c] = "idle"] /\ asked' = asked
      /\ UNCHANGED <<priceTime, cache, lastCacheSet, fetchPromise, requests>>
  BY DEF ServedFromCache
<1>2. Waiting' = Waiting \ {c} /\ c \in Waiting
  BY <1>1 DEF Waiting, PriceInv, PriceTypeOK
<1>3. Cardinality(Waiting') = Cardinality(Waiting) - 1
  BY <1>2, PriceTypes, FS_RemoveElement
<1>4. RequestsAreOfCalls'
  BY <1>1, <1>3, PriceTypes DEF PriceInv, RequestsAreOfCalls
<1>5. asked' \in 0 .. MaxRequests /\ asked <= asked'
  BY <1>1, PriceTypes DEF PriceInv, Clock
<1> QED
  BY <1>1, <1>4, <1>5, CallersKeep

LEMMA WaitsKeeps ==
  ASSUME PriceAssumption, PriceInv, NEW c \in PriceCallers, WaitsForFetch(c)
  PROVE  PriceInv'
<1>1. /\ asking[c] = "looks" /\ asking' = [asking EXCEPT ![c] = "waits"] /\ asked' = asked
      /\ UNCHANGED <<priceTime, cache, lastCacheSet, fetchPromise, requests>>
  BY DEF WaitsForFetch
<1>2. Waiting' = Waiting
  BY <1>1 DEF Waiting, PriceInv, PriceTypeOK
<1>3. RequestsAreOfCalls' /\ asked' \in 0 .. MaxRequests /\ asked <= asked'
  BY <1>1, <1>2, PriceTypes DEF PriceInv, RequestsAreOfCalls, Clock
<1> QED
  BY <1>1, <1>3, CallersKeep

LEMMA TimeKeeps ==
  ASSUME PriceAssumption, PriceInv, PriceTimePasses
  PROVE  PriceInv'
<1>1. /\ priceTime' = priceTime + 1 /\ priceTime < PriceTTL + MaxPriceTime
      /\ UNCHANGED <<cache, lastCacheSet, fetchPromise, asking, asked, requests>>
  BY DEF PriceTimePasses
<1>2. lastCacheSet' \in 0 .. priceTime'
  BY <1>1, PriceTypes
<1>3. PriceTypeOK'
  BY <1>1, <1>2 DEF PriceInv, PriceTypeOK
<1>4. Clock'
  BY <1>1, PriceTypes DEF PriceInv, Clock
<1>5. LastIsPending' /\ TrustedIsWhole'
  BY <1>1 DEF PriceInv, LastIsPending, TrustedIsWhole
<1>6. AnswersAreApart'
  <2> SUFFICES ASSUME NEW n \in 1 .. Len(requests), requests[n].outcome = "ok"
               PROVE  \/ n = Len(requests) /\ lastCacheSet = requests[n].back
                      \/ priceTime' - requests[n].back >= PriceTTL
    BY <1>1 DEF AnswersAreApart
  <2>1. requests[n].back \in Nat /\ priceTime \in Nat /\ PriceTTL \in Nat
    BY PriceTypes
  <2>2. priceTime - requests[n].back >= PriceTTL => priceTime' - requests[n].back >= PriceTTL
    BY <1>1, <2>1
  <2> QED
    BY <2>2 DEF PriceInv, AnswersAreApart
<1>7. RequestsAreOfCalls'
  BY <1>1 DEF PriceInv, RequestsAreOfCalls, Waiting
<1> QED
  BY <1>3, <1>4, <1>5, <1>6, <1>7 DEF PriceInv

\* A request is sent when the one before it is back, and no answer is young.
LEMMA SendFacts ==
  ASSUME PriceAssumption, PriceInv, NEW c \in PriceCallers, SendsRequest(c),
         NEW n \in 1 .. Len(requests)
  PROVE  /\ requests[n].outcome # "pending"
         /\ requests[n].outcome = "ok" => priceTime - requests[n].back >= PriceTTL
<1>1. requests[n].outcome # "pending"
  BY DEF PriceInv, LastIsPending, SendsRequest
<1>2. priceTime - lastCacheSet >= PriceTTL
  BY PriceTypes DEF SendsRequest, FreshEnough
<1> QED
  BY <1>1, <1>2 DEF PriceInv, AnswersAreApart

LEMMA SendKeeps ==
  ASSUME PriceAssumption, PriceInv, NEW c \in PriceCallers, SendsRequest(c)
  PROVE  PriceInv'
<1> DEFINE new == [back |-> 0, outcome |-> "pending"]
           last == Len(requests) + 1
<1>1. new \in Request /\ new.outcome = "pending"
  BY DEF Request, PriceAssumption
<1>2. requests' = Append(requests, new) /\ UNCHANGED <<priceTime, cache, lastCacheSet, asked>>
  BY DEF SendsRequest
<1>3. /\ fetchPromise = NoFetch /\ fetchPromise' = c /\ c # NoFetch
      /\ asking[c] = "looks" /\ asking' = [asking EXCEPT ![c] = "fetches"]
  BY DEF SendsRequest, PriceAssumption
<1> HIDE DEF new
<1>4. /\ requests' \in Seq(Request) /\ Len(requests') = last /\ Len(requests) \in Nat
      /\ \A n \in 1 .. Len(requests) : requests'[n] = requests[n]
      /\ requests'[last] = new
  BY <1>1, <1>2, PriceTypes, AppendProperties
<1>5. Waiting' = Waiting \ {c} /\ c \in Waiting
  BY <1>3 DEF Waiting, PriceInv, PriceTypeOK
<1>6. Cardinality(Waiting') = Cardinality(Waiting) - 1 /\ Cardinality(Waiting') \in Nat
  BY <1>5, PriceTypes, FS_RemoveElement, FS_CardinalityType
<1>7. RequestsAreOfCalls' /\ Len(requests') <= asked'
  BY <1>2, <1>4, <1>6, PriceTypes DEF PriceInv, RequestsAreOfCalls
<1>8. PriceTypeOK'
  <2>1. cache' \in [PricedAssets -> 0 .. Len(requests')]
    BY <1>2, <1>4 DEF PriceInv, PriceTypeOK
  <2>2. \A d \in PriceCallers : asking'[d] = "fetches" <=> fetchPromise' = d
    BY <1>3 DEF PriceInv, PriceTypeOK
  <2>3. asking' \in [PriceCallers -> {"idle", "looks", "waits", "fetches"}] /\ lastCacheSet' \in 0 .. priceTime'
    BY <1>2, <1>3 DEF PriceInv, PriceTypeOK
  <2> QED
    BY <2>1, <2>2, <2>3, <1>4, <1>7 DEF PriceTypeOK
<1>9. Clock'
  BY <1>2, <1>3 DEF PriceInv, Clock
<1>10. LastIsPending'
  <2>1. requests' # <<>>
    BY <1>4
  <2>2. ASSUME NEW n \in 1 .. Len(requests')
        PROVE  requests'[n].outcome = "pending" <=> n = Len(requests')
    <3>1. CASE n = last
      BY <3>1, <1>1, <1>4
    <3>2. CASE n \in 1 .. Len(requests)
      BY <3>2, <1>4, SendFacts
    <3> QED
      BY <3>1, <3>2, <1>4
  <2> QED
    BY <2>1, <2>2, <1>3 DEF LastIsPending
<1>11. AnswersAreApart'
  <2> SUFFICES ASSUME NEW n \in 1 .. Len(requests'), requests'[n].outcome = "ok"
               PROVE  priceTime' - requests'[n].back >= PriceTTL
    BY DEF AnswersAreApart
  <2>1. n \in 1 .. Len(requests)
    BY <1>1, <1>4
  <2> QED
    BY <2>1, <1>2, <1>4, SendFacts
<1>12. TrustedIsWhole'
  <2> SUFFICES ASSUME lastCacheSet # 0, NEW a \in PricedAssets
               PROVE  cache[a] > 0 /\ cache[a] = cache[1] /\ requests'[cache[a]].outcome = "ok"
    BY <1>2 DEF TrustedIsWhole
  <2>1. cache[a] > 0 /\ cache[a] = cache[1] /\ requests[cache[a]].outcome = "ok" /\ cache[a] \in 0 .. Len(requests)
    BY DEF PriceInv, TrustedIsWhole, PriceTypeOK
  <2> QED
    BY <2>1, <1>4
<1> QED
  BY <1>7, <1>8, <1>9, <1>10, <1>11, <1>12 DEF PriceInv

\* The request that is back is the last one; the others stay as they are.
LEMMA FinallyFacts ==
  ASSUME PriceAssumption, PriceInv, NEW c \in PriceCallers, NEW outcome \in {"ok", "failed"},
         asking[c] = "fetches", Finally(c, outcome)
  PROVE  /\ Len(requests) \in Nat \ {0} /\ requests' \in Seq(Request) /\ Len(requests') = Len(requests)
         /\ \A n \in 1 .. Len(requests) : n # Len(requests) => requests'[n] = requests[n]
         /\ requests'[Len(requests)].back = priceTime /\ requests'[Len(requests)].outcome = outcome
         /\ requests[Len(requests)].outcome = "pending"
         /\ fetchPromise' = NoFetch /\ UNCHANGED <<priceTime, asked>>
         /\ asking' \in [PriceCallers -> {"idle", "looks", "waits"}]
         /\ RequestsAreOfCalls' /\ LastIsPending' /\ Clock'
<1> DEFINE new == [back |-> priceTime, outcome |-> outcome]
           last == Len(requests)
<1>1. new \in Request /\ new.back = priceTime /\ new.outcome = outcome
  BY PriceTypes DEF PriceInv, Clock, Request
<1>2. fetchPromise = c /\ c # NoFetch
  BY DEF PriceInv, PriceTypeOK, PriceAssumption
<1>3. requests # <<>> /\ requests \in Seq(Request)
  BY <1>2, PriceTypes DEF PriceInv, LastIsPending
<1>4. last \in Nat \ {0} /\ requests[last].outcome = "pending"
  BY <1>2, <1>3, EmptySeq DEF PriceInv, LastIsPending
<1>5. requests' = [requests EXCEPT ![last] = new] /\ UNCHANGED <<priceTime, asked>> /\ fetchPromise' = NoFetch
  BY DEF Finally, ClearsPromise
<1> HIDE DEF new
<1>6. /\ requests' \in Seq(Request) /\ Len(requests') = last
      /\ \A n \in 1 .. last : n # last => requests'[n] = requests[n]
      /\ requests'[last] = new
  BY <1>1, <1>3, <1>4, <1>5, ExceptSeq
<1>7. \A d \in PriceCallers : d # c => asking[d] # "fetches"
  BY <1>2 DEF PriceInv, PriceTypeOK
<1>8. /\ asking' \in [PriceCallers -> {"idle", "looks", "waits"}]
      /\ \A d \in PriceCallers : asking'[d] \in {"looks", "waits"} <=> asking[d] \in {"looks", "waits"}
  BY <1>7 DEF Finally, Wakes, PriceInv, PriceTypeOK
<1>9. Waiting' = Waiting
  BY <1>8 DEF Waiting
<1>10. RequestsAreOfCalls'
  BY <1>5, <1>6, <1>9 DEF PriceInv, RequestsAreOfCalls
<1>11. LastIsPending'
  BY <1>1, <1>2, <1>5, <1>6 DEF PriceInv, LastIsPending
<1>12. Clock'
  BY <1>5 DEF PriceInv, Clock
<1> QED
  BY <1>1, <1>4, <1>5, <1>6, <1>8, <1>10, <1>11, <1>12

\* An older answer is too old by the time a later request is under way.
LEMMA OthersAreOld ==
  ASSUME PriceAssumption, PriceInv, NEW c \in PriceCallers, asking[c] = "fetches",
         NEW n \in 1 .. Len(requests), requests[n].outcome = "ok", n # Len(requests)
  PROVE  priceTime - requests[n].back >= PriceTTL
<1> QED
  BY DEF PriceInv, AnswersAreApart

LEMMA AnsweredKeeps ==
  ASSUME PriceAssumption, PriceInv, NEW c \in PriceCallers, RequestAnswered(c)
  PROVE  PriceInv'
<1>1. /\ asking[c] = "fetches" /\ Finally(c, "ok")
      /\ cache' = [a \in PricedAssets |-> Len(requests)] /\ lastCacheSet' = priceTime
  BY DEF RequestAnswered, Now
<1>2. /\ Len(requests) \in Nat \ {0} /\ requests' \in Seq(Request) /\ Len(requests') = Len(requests)
      /\ \A n \in 1 .. Len(requests) : n # Len(requests) => requests'[n] = requests[n]
      /\ requests'[Len(requests)].back = priceTime /\ requests'[Len(requests)].outcome = "ok"
      /\ fetchPromise' = NoFetch /\ UNCHANGED <<priceTime, asked>>
      /\ asking' \in [PriceCallers -> {"idle", "looks", "waits"}]
      /\ RequestsAreOfCalls' /\ LastIsPending' /\ Clock'
  BY <1>1, FinallyFacts
<1>3. PriceTypeOK'
  <2>1. Len(requests') <= asked' /\ lastCacheSet' \in 0 .. priceTime'
    BY <1>1, <1>2, PriceTypes DEF PriceInv, PriceTypeOK
  <2>2. cache' \in [PricedAssets -> 0 .. Len(requests')]
    BY <1>1, <1>2
  <2>3. \A d \in PriceCallers : asking'[d] # "fetches" /\ fetchPromise' # d
    BY <1>2 DEF PriceAssumption
  <2> QED
    BY <2>1, <2>2, <2>3, <1>2 DEF PriceTypeOK
<1>4. AnswersAreApart'
  <2> SUFFICES ASSUME NEW n \in 1 .. Len(requests), n # Len(requests), requests[n].outcome = "ok"
               PROVE  priceTime - requests[n].back >= PriceTTL
    BY <1>1, <1>2 DEF AnswersAreApart
  <2> QED
    BY <1>1, OthersAreOld
<1>5. TrustedIsWhole'
  BY <1>1, <1>2 DEF TrustedIsWhole, PricedAssets
<1> QED
  BY <1>2, <1>3, <1>4, <1>5 DEF PriceInv

LEMMA PriceFailedKeeps ==
  ASSUME PriceAssumption, PriceInv, NEW c \in PriceCallers, RequestFailed(c)
  PROVE  PriceInv'
<1>1. /\ asking[c] = "fetches" /\ Finally(c, "failed") /\ lastCacheSet' = 0
      /\ \E upTo \in 0 .. 1 :
            cache' = [a \in PricedAssets |-> IF a <= upTo THEN Len(requests) ELSE cache[a]]
  BY DEF RequestFailed, Distrusted
<1>2. /\ Len(requests) \in Nat \ {0} /\ requests' \in Seq(Request) /\ Len(requests') = Len(requests)
      /\ \A n \in 1 .. Len(requests) : n # Len(requests) => requests'[n] = requests[n]
      /\ requests'[Len(requests)].outcome = "failed"
      /\ fetchPromise' = NoFetch /\ UNCHANGED <<priceTime, asked>>
      /\ asking' \in [PriceCallers -> {"idle", "looks", "waits"}]
      /\ RequestsAreOfCalls' /\ LastIsPending' /\ Clock'
  BY <1>1, FinallyFacts
<1>3. PriceTypeOK'
  <2>1. Len(requests') <= asked' /\ lastCacheSet' \in 0 .. priceTime'
    BY <1>1, <1>2, PriceTypes DEF PriceInv, PriceTypeOK
  <2>2. cache' \in [PricedAssets -> 0 .. Len(requests')]
    BY <1>1, <1>2 DEF PriceInv, PriceTypeOK
  <2>3. \A d \in PriceCallers : asking'[d] # "fetches" /\ fetchPromise' # d
    BY <1>2 DEF PriceAssumption
  <2> QED
    BY <2>1, <2>2, <2>3, <1>2 DEF PriceTypeOK
<1>4. AnswersAreApart'
  <2> SUFFICES ASSUME NEW n \in 1 .. Len(requests), n # Len(requests), requests[n].outcome = "ok"
               PROVE  priceTime - requests[n].back >= PriceTTL
    BY <1>2 DEF AnswersAreApart
  <2> QED
    BY <1>1, OthersAreOld
<1>5. TrustedIsWhole'
  BY <1>1 DEF TrustedIsWhole
<1> QED
  BY <1>2, <1>3, <1>4, <1>5 DEF PriceInv

LEMMA PriceStepKeeps == PriceAssumption /\ PriceInv /\ [PriceNext]_priceVars => PriceInv'
<1> SUFFICES ASSUME PriceAssumption, PriceInv, [PriceNext]_priceVars PROVE PriceInv'
  OBVIOUS
<1>1. ASSUME NEW c \in PriceCallers,
             \/ AsksPrice(c) \/ ServedFromCache(c) \/ WaitsForFetch(c)
             \/ SendsRequest(c) \/ RequestAnswered(c) \/ RequestFailed(c)
      PROVE  PriceInv'
  BY <1>1, AsksKeeps, ServedKeeps, WaitsKeeps, SendKeeps, AnsweredKeeps, PriceFailedKeeps
<1>2. CASE PriceTimePasses
  BY <1>2, TimeKeeps
<1>3. CASE UNCHANGED priceVars
  <2>1. PriceTypeOK' /\ Clock' /\ RequestsAreOfCalls'
    BY <1>3 DEF priceVars, PriceInv, PriceTypeOK, Clock, RequestsAreOfCalls, Waiting
  <2>2. LastIsPending' /\ AnswersAreApart' /\ TrustedIsWhole'
    BY <1>3 DEF priceVars, PriceInv, LastIsPending, AnswersAreApart, TrustedIsWhole
  <2> QED
    BY <2>1, <2>2 DEF PriceInv
<1> QED
  BY <1>1, <1>2, <1>3 DEF PriceNext

LEMMA PriceInvariance == PriceSpec => []PriceInv
<1> QED
  BY PriceAssumption, PriceInitially, PriceStepKeeps, PTL DEF PriceSpec

-----------------------------------------------------------------------------

\* fetchPromise is set exactly while its call waits for the answer, and no call
\* sends more than one request.
THEOREM PriceTypeCorrectness == PriceSpec => []PriceTypeOK
<1> QED
  BY PriceInvariance, PTL DEF PriceInv

LEMMA PricesTogether == PriceAssumption /\ PriceInv => PricesOfOneAnswer
<1> SUFFICES ASSUME PriceAssumption, PriceInv, FreshEnough PROVE lastCacheSet # 0
  BY DEF PricesOfOneAnswer, PriceInv, TrustedIsWhole
<1> QED
  BY PriceTypes DEF FreshEnough

\* Prices that are served are all of the last answer, whatever a broken answer
\* left behind.
THEOREM OneAnswer == PriceSpec => []PricesOfOneAnswer
BY PricesTogether, PriceAssumption, PriceInvariance, PTL

\* However many calls overlap, one request is under way, and an answer spares the
\* price service for a time to live.
THEOREM OneRequest == PriceSpec => OneRequestPerTTL
<1> DEFINE Step == \A n \in 1 .. Len(requests) :
          Len(requests') > Len(requests) =>
             /\ requests[n].outcome # "pending"
             /\ requests[n].outcome = "ok" => priceTime - requests[n].back >= PriceTTL
<1>1. PriceAssumption /\ PriceInv /\ [PriceNext]_priceVars => [Step]_priceVars
  <2> SUFFICES ASSUME PriceAssumption, PriceInv, PriceNext, NEW n \in 1 .. Len(requests),
                      Len(requests') > Len(requests)
               PROVE  /\ requests[n].outcome # "pending"
                      /\ requests[n].outcome = "ok" => priceTime - requests[n].back >= PriceTTL
    BY DEF priceVars
  <2>1. requests' # requests
    BY PriceTypes
  <2>2. ASSUME NEW c \in PriceCallers PROVE ~RequestAnswered(c) /\ ~RequestFailed(c)
    BY PriceTypes, FinallyFacts DEF RequestAnswered, RequestFailed
  <2>3. PICK c \in PriceCallers : SendsRequest(c)
    BY <2>1, <2>2 DEF PriceNext, AsksPrice, ServedFromCache, WaitsForFetch, PriceTimePasses
  <2> QED
    BY <2>3, SendFacts
<1> QED
  BY <1>1, PriceAssumption, PriceInvariance, PTL DEF PriceSpec, OneRequestPerTTL
=============================================================================
