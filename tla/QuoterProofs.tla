---------------------------- MODULE QuoterProofs ----------------------------
(***************************************************************************)
(* Theorems about Quoter, for any makers, requests and invalid answers,    *)
(* and about LimitOrders, for any accounts, clients, swaps and books.      *)
(***************************************************************************)
EXTENDS Quoter, LimitOrders, FiniteSetTheorems, FunctionTheorems, TLAPS

\* A request that was not sent has nothing to wait for.
NotAskedYet == \A r \in Requests :
    phase[r] \in {"new", "asking"} => asked[r] = {} /\ lowered[r] = 0

\* A collecting request expects the makers it asked but for the invalid answers.
ExpectsTheRest == \A r \in Requests :
    /\ phase[r] = "collecting" => expected[r] = Cardinality(asked[r]) - lowered[r]
    /\ lowered[r] <= invalid

\* What is published about a maker and a request agrees with whether it answered.
VerdictsAgree ==
    /\ \A v \in verdicts :
         IF v.kind = "timeout"
         THEN phase[v.request] = "timeout" /\ v.maker \notin responders[v.request]
         ELSE v.maker \in responders[v.request]
    /\ \A r \in Requests, m \in Makers \ Beta :
         m \in responders[r] \/ (phase[r] = "timeout" /\ m \in asked[r]) =>
            \E v \in verdicts : v.request = r /\ v.maker = m

IInv ==
    /\ TypeOK /\ InflightIsUnderWay /\ NotAskedYet
    /\ ExpectsTheRest /\ ShortByTheInvalidAnswers /\ VerdictsAgree

-----------------------------------------------------------------------------

LEMMA Initially == QuoterAssumption /\ Init => IInv
<1> SUFFICES ASSUME QuoterAssumption, Init PROVE IInv
  OBVIOUS
<1>1. TypeOK
  BY SMT DEF Init, TypeOK, QuoterAssumption, Verdicts
<1>2. InflightIsUnderWay /\ NotAskedYet /\ ShortByTheInvalidAnswers
  BY SMT DEF Init, InflightIsUnderWay, NotAskedYet, ShortByTheInvalidAnswers
<1>3. ExpectsTheRest /\ VerdictsAgree
  BY SMT DEF Init, ExpectsTheRest, VerdictsAgree
<1> QED
  BY <1>1, <1>2, <1>3 DEF IInv

\* Makers come and go, and nothing of a request changes.
LEMMA ConnectionsKeep ==
  ASSUME IInv, UNCHANGED <<inflight, phase, asked, expected, quotes, responders, verdicts, lowered, spoilers, invalid>>,
         connected' \subseteq Makers
  PROVE  IInv'
<1>1. TypeOK'
  BY DEF IInv, TypeOK
<1>2. InflightIsUnderWay' /\ NotAskedYet' /\ ExpectsTheRest' /\ ShortByTheInvalidAnswers' /\ VerdictsAgree'
  BY DEF IInv, InflightIsUnderWay, NotAskedYet, ExpectsTheRest, ShortByTheInvalidAnswers, VerdictsAgree
<1> QED
  BY <1>1, <1>2 DEF IInv

\* A step that answers nothing and times nothing out leaves the verdicts right.
LEMMA VerdictsStay ==
  ASSUME IInv, UNCHANGED <<asked, responders, verdicts>>,
         \A r \in Requests : phase'[r] = "timeout" <=> phase[r] = "timeout"
  PROVE  VerdictsAgree'
<1>1. \A v \in verdicts : v.request \in Requests
  BY DEF IInv, TypeOK, Verdicts
<1> QED
  BY <1>1 DEF IInv, VerdictsAgree

LEMMA BeginKeeps ==
  ASSUME IInv, NEW r \in Requests, Begin(r)
  PROVE  IInv'
<1>1. TypeOK'
  BY DEF IInv, TypeOK, Begin, Ended
<1>2. InflightIsUnderWay' /\ NotAskedYet' /\ ShortByTheInvalidAnswers'
  BY DEF IInv, TypeOK, InflightIsUnderWay, NotAskedYet, ShortByTheInvalidAnswers, Begin
<1>3. ExpectsTheRest'
  BY DEF IInv, TypeOK, ExpectsTheRest, Begin
<1>4. \A q \in Requests : phase'[q] = "timeout" <=> phase[q] = "timeout"
  BY DEF IInv, TypeOK, Begin
<1>5. VerdictsAgree'
  BY <1>4, VerdictsStay DEF Begin
<1> QED
  BY <1>1, <1>2, <1>3, <1>5 DEF IInv

LEMMA NobodyAskedKeeps ==
  ASSUME IInv, NEW r \in Requests, NobodyAsked(r)
  PROVE  IInv'
<1>1. TypeOK'
  BY DEF IInv, TypeOK, NobodyAsked, Ended
<1>2. InflightIsUnderWay' /\ NotAskedYet' /\ ShortByTheInvalidAnswers'
  BY DEF IInv, TypeOK, InflightIsUnderWay, NotAskedYet, ShortByTheInvalidAnswers, NobodyAsked
<1>3. ExpectsTheRest'
  BY DEF IInv, TypeOK, ExpectsTheRest, NobodyAsked
<1>4. \A q \in Requests : phase'[q] = "timeout" <=> phase[q] = "timeout"
  BY DEF IInv, TypeOK, NobodyAsked
<1>5. VerdictsAgree'
  BY <1>4, VerdictsStay DEF NobodyAsked
<1> QED
  BY <1>1, <1>2, <1>3, <1>5 DEF IInv

\* Before it is sent, nobody answered a request, so its counts begin exact.
LEMMA AskKeeps ==
  ASSUME QuoterAssumption, IInv, NEW r \in Requests, NEW ms \in SUBSET connected, Ask(r, ms)
  PROVE  IInv'
<1>1. IsFiniteSet(ms) /\ Cardinality(ms) \in Nat /\ ms \subseteq Makers
  <2>1. ms \subseteq Makers
    BY DEF IInv, TypeOK
  <2> QED
    BY <2>1, FS_Subset, FS_CardinalityType DEF QuoterAssumption
<1>2. asked[r] = {} /\ lowered[r] = 0 /\ responders[r] = {} /\ quotes[r] = {}
  BY DEF IInv, TypeOK, NotAskedYet, Ask
<1>3. TypeOK'
  BY <1>1, <1>2 DEF IInv, TypeOK, Ask
<1>4. InflightIsUnderWay' /\ NotAskedYet' /\ ShortByTheInvalidAnswers'
  BY DEF IInv, TypeOK, InflightIsUnderWay, NotAskedYet, ShortByTheInvalidAnswers, Ask
<1>5. ExpectsTheRest'
  BY <1>1, <1>2 DEF IInv, TypeOK, ExpectsTheRest, Ask
<1>6. VerdictsAgree'
  BY DEF IInv, TypeOK, VerdictsAgree, Ask, Verdicts
<1> QED
  BY <1>3, <1>4, <1>5, <1>6 DEF IInv

\* A request is complete when the quotes are as many as it expects: those that
\* are missing are as many as the invalid answers.
LEMMA ReceiveQuoteKeeps ==
  ASSUME QuoterAssumption, IInv, NEW r \in Requests, NEW m \in Makers, ReceiveQuote(m, r)
  PROVE  IInv'
<1>1. m \in asked[r] /\ phase[r] = "collecting"
  BY DEF ReceiveQuote, MayAnswer, Collecting
<1>2. /\ quotes' = [quotes EXCEPT ![r] = @ \cup {m}]
      /\ responders' = [responders EXCEPT ![r] = @ \cup {m}]
      /\ UNCHANGED <<connected, asked, expected, lowered, spoilers, invalid>>
  BY DEF ReceiveQuote
<1>3. \/ phase' = phase /\ inflight' = inflight
      \/ phase' = [phase EXCEPT ![r] = "all-received"] /\ inflight' = inflight \ {r}
  BY DEF ReceiveQuote
<1>4. quotes'[r] \subseteq asked[r]
  BY <1>1, <1>2 DEF IInv, TypeOK
<1>5. verdicts' = verdicts \/ (m \notin Beta /\ verdicts' = verdicts \cup {[request |-> r, maker |-> m, kind |-> "received"]})
  BY DEF ReceiveQuote, Publishes
<1>6. m \notin Beta => [request |-> r, maker |-> m, kind |-> "received"] \in verdicts'
  BY DEF ReceiveQuote, Publishes
<1>7. TypeOK'
  <2>1. verdicts' \subseteq Verdicts
    BY <1>5 DEF IInv, TypeOK, Verdicts
  <2>2. phase' \in [Requests -> {"new", "asking", "collecting"} \cup Ended] /\ inflight' \subseteq Requests
    BY <1>3 DEF IInv, TypeOK, Ended
  <2> QED
    BY <1>1, <1>2, <2>1, <2>2 DEF IInv, TypeOK
<1>8. InflightIsUnderWay' /\ NotAskedYet'
  BY <1>1, <1>2, <1>3 DEF IInv, TypeOK, InflightIsUnderWay, NotAskedYet
<1>9. ExpectsTheRest'
  BY <1>2, <1>3 DEF IInv, TypeOK, ExpectsTheRest
<1>10. ShortByTheInvalidAnswers'
  <2> SUFFICES ASSUME NEW q \in Requests, phase'[q] = "all-received"
               PROVE  Cardinality(asked'[q] \ quotes'[q]) = lowered'[q]
    BY DEF ShortByTheInvalidAnswers
  <2>1. CASE q # r
    BY <2>1, <1>2, <1>3 DEF IInv, TypeOK, ShortByTheInvalidAnswers
  <2>2. CASE q = r
    <3>1. Cardinality(quotes'[r]) = expected[r]
      BY <1>1, <1>3, <2>2 DEF ReceiveQuote, Enough, IInv, TypeOK
    <3>2. expected[r] = Cardinality(asked[r]) - lowered[r]
      BY <1>1 DEF IInv, ExpectsTheRest
    <3>3. IsFiniteSet(asked[r])
      BY FS_Subset DEF QuoterAssumption, IInv, TypeOK
    <3>4. asked[r] \cap quotes'[r] = quotes'[r]
      BY <1>4
    <3>5. Cardinality(asked[r] \ quotes'[r]) = Cardinality(asked[r]) - Cardinality(asked[r] \cap quotes'[r])
      BY <3>3, FS_Difference
    <3>6. Cardinality(asked[r]) \in Nat /\ lowered[r] \in Int
      BY <3>3, FS_CardinalityType DEF IInv, TypeOK
    <3>7. Cardinality(asked[r] \cap quotes'[r]) = Cardinality(quotes'[r])
      BY <3>4, Zenon
    <3>8. Cardinality(asked[r] \ quotes'[r]) = lowered[r]
      BY <3>1, <3>2, <3>5, <3>6, <3>7
    <3>9. asked' = asked /\ lowered' = lowered
      BY <1>2
    <3> QED
      BY <2>2, <3>8, <3>9, Zenon
  <2> QED
    BY <2>1, <2>2
<1>11. VerdictsAgree'
  <2>1. ASSUME NEW v \in verdicts'
        PROVE  IF v.kind = "timeout"
               THEN phase'[v.request] = "timeout" /\ v.maker \notin responders'[v.request]
               ELSE v.maker \in responders'[v.request]
    <3>1. CASE v \in verdicts
      BY <3>1, <1>1, <1>2, <1>3 DEF IInv, TypeOK, VerdictsAgree, Verdicts
    <3>2. CASE v = [request |-> r, maker |-> m, kind |-> "received"]
      BY <3>2, <1>2 DEF IInv, TypeOK
    <3> QED
      BY <3>1, <3>2, <1>5
  <2>2. ASSUME NEW q \in Requests, NEW n \in Makers \ Beta,
               n \in responders'[q] \/ (phase'[q] = "timeout" /\ n \in asked'[q])
        PROVE  \E v \in verdicts' : v.request = q /\ v.maker = n
    <3>1. CASE q = r /\ n = m
      BY <3>1, <1>6
    <3>2. CASE ~(q = r /\ n = m)
      BY <3>2, <2>2, <1>2, <1>3, <1>5 DEF IInv, TypeOK, VerdictsAgree
    <3> QED
      BY <3>1, <3>2
  <2> QED
    BY <2>1, <2>2 DEF VerdictsAgree
<1> QED
  BY <1>7, <1>8, <1>9, <1>10, <1>11 DEF IInv

\* Every collecting request expects one less, and counts it.
LEMMA ExpectOneLessKeeps ==
  ASSUME IInv, QuoterAssumption, NEW m \in Makers, Spoils(m), ExpectOneLess,
         UNCHANGED <<connected, inflight, phase, asked, quotes>>
  PROVE  /\ expected' \in [Requests -> Int] /\ lowered' \in [Requests -> 0 .. MaxInvalid]
         /\ spoilers' \subseteq Makers /\ invalid' \in 0 .. MaxInvalid
         /\ InflightIsUnderWay' /\ NotAskedYet' /\ ExpectsTheRest' /\ ShortByTheInvalidAnswers'
<1>1. /\ invalid \in 0 .. MaxInvalid /\ MaxInvalid \in Nat /\ invalid < MaxInvalid
      /\ invalid' = invalid + 1 /\ spoilers' = spoilers \cup {m}
  BY DEF IInv, TypeOK, QuoterAssumption, Spoils
<1>2. ASSUME NEW r \in Requests
      PROVE  /\ lowered[r] \in 0 .. MaxInvalid /\ lowered[r] <= invalid /\ expected[r] \in Int
             /\ phase[r] = "collecting" => expected'[r] = expected[r] - 1 /\ lowered'[r] = lowered[r] + 1
             /\ phase[r] # "collecting" => expected'[r] = expected[r] /\ lowered'[r] = lowered[r]
  BY DEF IInv, TypeOK, ExpectsTheRest, ExpectOneLess, Collecting
<1>3. expected' \in [Requests -> Int] /\ lowered' \in [Requests -> 0 .. MaxInvalid]
  <2>1. ASSUME NEW r \in Requests PROVE expected'[r] \in Int /\ lowered'[r] \in 0 .. MaxInvalid
    BY <1>1, <1>2
  <2> QED
    BY <2>1 DEF ExpectOneLess
<1>4. spoilers' \subseteq Makers /\ invalid' \in 0 .. MaxInvalid
  BY <1>1 DEF IInv, TypeOK
<1>5. InflightIsUnderWay' /\ NotAskedYet'
  BY <1>2 DEF IInv, InflightIsUnderWay, NotAskedYet
<1>6. ShortByTheInvalidAnswers'
  BY <1>2 DEF IInv, ShortByTheInvalidAnswers
<1>7. ExpectsTheRest'
  <2> SUFFICES ASSUME NEW r \in Requests
               PROVE  /\ phase[r] = "collecting" => expected'[r] = Cardinality(asked[r]) - lowered'[r]
                      /\ lowered'[r] <= invalid'
    BY DEF ExpectsTheRest
  <2>1. lowered'[r] <= invalid'
    BY <1>1, <1>2
  <2>2. CASE phase[r] = "collecting"
    <3>1. IsFiniteSet(asked[r])
      BY FS_Subset DEF QuoterAssumption, IInv, TypeOK
    <3>2. Cardinality(asked[r]) \in Nat
      BY <3>1, FS_CardinalityType
    <3>3. expected[r] = Cardinality(asked[r]) - lowered[r]
      BY <2>2 DEF IInv, ExpectsTheRest
    <3> QED
      BY <2>1, <2>2, <3>2, <3>3, <1>2
  <2> QED
    BY <2>1, <2>2
<1> QED
  BY <1>3, <1>4, <1>5, <1>6, <1>7

LEMMA ReceiveInvalidKeeps ==
  ASSUME QuoterAssumption, IInv, NEW r \in Requests, NEW m \in Makers, ReceiveInvalid(m, r)
  PROVE  IInv'
<1>1. /\ Spoils(m) /\ ExpectOneLess /\ m \in asked[r]
      /\ UNCHANGED <<connected, inflight, phase, asked, quotes>>
  BY DEF ReceiveInvalid, MayAnswer
<1>2. /\ expected' \in [Requests -> Int] /\ lowered' \in [Requests -> 0 .. MaxInvalid]
      /\ spoilers' \subseteq Makers /\ invalid' \in 0 .. MaxInvalid
      /\ InflightIsUnderWay' /\ NotAskedYet' /\ ExpectsTheRest' /\ ShortByTheInvalidAnswers'
  BY <1>1, ExpectOneLessKeeps
<1>3. CASE r \notin inflight
  <2>1. responders' = responders /\ verdicts' = verdicts
    BY <1>3 DEF ReceiveInvalid
  <2>2. TypeOK' /\ VerdictsAgree'
    BY <1>1, <1>2, <2>1 DEF IInv, TypeOK, VerdictsAgree
  <2> QED
    BY <1>2, <2>2 DEF IInv
<1>4. CASE r \in inflight
  <2>1. responders' = [responders EXCEPT ![r] = @ \cup {m}] /\ phase[r] # "timeout"
    BY <1>4 DEF ReceiveInvalid, NoteResponder, IInv, InflightIsUnderWay
  <2>2. verdicts' = verdicts \/ (m \notin Beta /\ verdicts' = verdicts \cup {[request |-> r, maker |-> m, kind |-> "error"]})
    BY <1>4 DEF ReceiveInvalid, Publishes
  <2>3. m \notin Beta => [request |-> r, maker |-> m, kind |-> "error"] \in verdicts'
    BY <1>4 DEF ReceiveInvalid, Publishes
  <2>4. TypeOK'
    <3>1. verdicts' \subseteq Verdicts
      BY <2>2 DEF IInv, TypeOK, Verdicts
    <3> QED
      BY <1>1, <1>2, <2>1, <3>1 DEF IInv, TypeOK
  <2>5. ASSUME NEW v \in verdicts'
        PROVE  IF v.kind = "timeout"
               THEN phase'[v.request] = "timeout" /\ v.maker \notin responders'[v.request]
               ELSE v.maker \in responders'[v.request]
    <3>1. CASE v \in verdicts
      BY <3>1, <1>1, <2>1 DEF IInv, TypeOK, VerdictsAgree, Verdicts
    <3>2. CASE v = [request |-> r, maker |-> m, kind |-> "error"]
      BY <3>2, <2>1 DEF IInv, TypeOK
    <3> QED
      BY <3>1, <3>2, <2>2
  <2>6. ASSUME NEW q \in Requests, NEW n \in Makers \ Beta,
               n \in responders'[q] \/ (phase'[q] = "timeout" /\ n \in asked'[q])
        PROVE  \E v \in verdicts' : v.request = q /\ v.maker = n
    <3>1. CASE q = r /\ n = m
      BY <3>1, <2>3
    <3>2. CASE ~(q = r /\ n = m)
      BY <3>2, <2>6, <1>1, <2>1, <2>2 DEF IInv, TypeOK, VerdictsAgree
    <3> QED
      BY <3>1, <3>2
  <2>7. VerdictsAgree'
    BY <2>5, <2>6 DEF VerdictsAgree
  <2> QED
    BY <1>2, <2>4, <2>7 DEF IInv
<1> QED
  BY <1>3, <1>4

LEMMA ReceiveUnreadableKeeps ==
  ASSUME QuoterAssumption, IInv, NEW m \in Makers, ReceiveUnreadable(m)
  PROVE  IInv'
<1>1. /\ Spoils(m) /\ ExpectOneLess
      /\ UNCHANGED <<connected, inflight, phase, asked, quotes>>
      /\ UNCHANGED <<responders, verdicts>>
  BY DEF ReceiveUnreadable
<1>2. /\ expected' \in [Requests -> Int] /\ lowered' \in [Requests -> 0 .. MaxInvalid]
      /\ spoilers' \subseteq Makers /\ invalid' \in 0 .. MaxInvalid
      /\ InflightIsUnderWay' /\ NotAskedYet' /\ ExpectsTheRest' /\ ShortByTheInvalidAnswers'
  BY <1>1, ExpectOneLessKeeps
<1>3. TypeOK' /\ VerdictsAgree'
  BY <1>1, <1>2 DEF IInv, TypeOK, VerdictsAgree
<1> QED
  BY <1>2, <1>3 DEF IInv

\* Whoever did not answer is reported, so everybody who was asked has a verdict.
LEMMA TimeoutKeeps ==
  ASSUME IInv, NEW r \in Requests, Timeout(r)
  PROVE  IInv'
<1> DEFINE late == {[request |-> r, maker |-> m, kind |-> "timeout"] : m \in Silent(r)}
<1>1. /\ phase[r] = "collecting" /\ phase' = [phase EXCEPT ![r] = "timeout"]
      /\ inflight' = inflight \ {r} /\ verdicts' = verdicts \cup late
      /\ UNCHANGED <<connected, asked, expected, quotes, responders, lowered, spoilers, invalid>>
  BY DEF Timeout
<1>2. Silent(r) \subseteq asked[r] \ responders[r] /\ asked[r] \subseteq Makers
  BY DEF Silent, IInv, TypeOK
<1>3. \A m \in asked[r] \ Beta : m \in responders[r] \/ m \in Silent(r)
  BY DEF Silent, KnownBeta
<1>4. TypeOK'
  <2>1. verdicts' \subseteq Verdicts
    BY <1>1, <1>2 DEF IInv, TypeOK, Verdicts
  <2> QED
    BY <1>1, <2>1 DEF IInv, TypeOK, Ended
<1>5. InflightIsUnderWay' /\ NotAskedYet' /\ ShortByTheInvalidAnswers'
  BY <1>1 DEF IInv, TypeOK, InflightIsUnderWay, NotAskedYet, ShortByTheInvalidAnswers
<1>6. ExpectsTheRest'
  BY <1>1 DEF IInv, TypeOK, ExpectsTheRest
<1>7. VerdictsAgree'
  <2>1. ASSUME NEW v \in verdicts'
        PROVE  IF v.kind = "timeout"
               THEN phase'[v.request] = "timeout" /\ v.maker \notin responders'[v.request]
               ELSE v.maker \in responders'[v.request]
    <3>1. CASE v \in verdicts
      BY <3>1, <1>1 DEF IInv, TypeOK, VerdictsAgree, Verdicts
    <3>2. CASE v \in late
      BY <3>2, <1>1, <1>2 DEF IInv, TypeOK
    <3> QED
      BY <3>1, <3>2, <1>1
  <2>2. ASSUME NEW q \in Requests, NEW n \in Makers \ Beta,
               n \in responders'[q] \/ (phase'[q] = "timeout" /\ n \in asked'[q])
        PROVE  \E v \in verdicts' : v.request = q /\ v.maker = n
    <3>1. CASE n \in responders[q]
      BY <3>1, <1>1 DEF IInv, VerdictsAgree
    <3>2. CASE n \notin responders[q] /\ q = r
      <4>1. n \in Silent(r)
        BY <3>2, <2>2, <1>1, <1>3
      <4>2. [request |-> r, maker |-> n, kind |-> "timeout"] \in verdicts'
        BY <4>1, <1>1
      <4> QED
        BY <4>2, <3>2
    <3>3. CASE n \notin responders[q] /\ q # r
      BY <3>3, <2>2, <1>1 DEF IInv, TypeOK, VerdictsAgree
    <3> QED
      BY <3>1, <3>2, <3>3
  <2> QED
    BY <2>1, <2>2 DEF VerdictsAgree
<1> QED
  BY <1>4, <1>5, <1>6, <1>7 DEF IInv

LEMMA StepKeeps == QuoterAssumption /\ IInv /\ [Next]_vars => IInv'
<1> SUFFICES ASSUME QuoterAssumption, IInv, [Next]_vars PROVE IInv'
  OBVIOUS
<1>1. ASSUME NEW m \in Makers, Connect(m) \/ Disconnect(m) PROVE IInv'
  <2>1. connected' \subseteq Makers
    BY <1>1 DEF Connect, Disconnect, IInv, TypeOK
  <2> QED
    BY <1>1, <2>1, ConnectionsKeep DEF Connect, Disconnect
<1>2. CASE UNCHANGED vars
  <2>1. connected' \subseteq Makers
    BY <1>2 DEF vars, IInv, TypeOK
  <2> QED
    BY <1>2, <2>1, ConnectionsKeep DEF vars
<1>3. ASSUME NEW m \in Makers, ReceiveUnreadable(m) PROVE IInv'
  BY <1>3, ReceiveUnreadableKeeps
<1>4. ASSUME NEW m \in Makers, NEW r \in Requests, ReceiveQuote(m, r) PROVE IInv'
  BY <1>4, ReceiveQuoteKeeps
<1>5. ASSUME NEW m \in Makers, NEW r \in Requests, ReceiveInvalid(m, r) PROVE IInv'
  BY <1>5, ReceiveInvalidKeeps
<1>6. ASSUME NEW r \in Requests, Begin(r) PROVE IInv'
  BY <1>6, BeginKeeps
<1>7. ASSUME NEW r \in Requests, NobodyAsked(r) PROVE IInv'
  BY <1>7, NobodyAskedKeeps
<1>8. ASSUME NEW r \in Requests, Timeout(r) PROVE IInv'
  BY <1>8, TimeoutKeeps
<1>9. ASSUME NEW r \in Requests, NEW ms \in SUBSET connected, Ask(r, ms) PROVE IInv'
  BY <1>9, AskKeeps
<1> QED
  BY <1>1, <1>2, <1>3, <1>4, <1>5, <1>6, <1>7, <1>8, <1>9 DEF Next

LEMMA Invariance == Spec => []IInv
<1> QED
  BY QuoterAssumption, Initially, StepKeeps, PTL DEF Spec

-----------------------------------------------------------------------------

\* Every variable of the Quoter keeps its type: in particular a quote that is
\* used is of a maker that answered, and that was asked.
THEOREM TypeCorrectness == Spec => []TypeOK
<1> QED
  BY Invariance, PTL DEF IInv

\* A verdict about a maker that was asked is there when the request times out,
\* and a timeout is reported of nobody who answered.
LEMMA OneVerdict == IInv => OneVerdictAtTimeout
<1> SUFFICES ASSUME IInv, NEW r \in Requests, NEW m \in Makers \ Beta,
                    phase[r] = "timeout", m \in asked[r]
             PROVE  LET kinds == {v.kind : v \in {w \in verdicts : w.request = r /\ w.maker = m}}
                    IN  kinds # {} /\ ("timeout" \in kinds => kinds = {"timeout"})
  BY DEF OneVerdictAtTimeout
<1> DEFINE kinds == {v.kind : v \in {w \in verdicts : w.request = r /\ w.maker = m}}
<1>1. kinds # {}
  <2>1. PICK v \in verdicts : v.request = r /\ v.maker = m
    BY DEF IInv, VerdictsAgree
  <2> QED
    BY <2>1
<1>2. ASSUME "timeout" \in kinds PROVE kinds = {"timeout"}
  <2>1. PICK v \in verdicts : v.request = r /\ v.maker = m /\ v.kind = "timeout"
    BY <1>2
  <2>2. m \notin responders[r]
    BY <2>1 DEF IInv, VerdictsAgree
  <2>3. \A w \in verdicts : w.request = r /\ w.maker = m => w.kind = "timeout"
    BY <2>2 DEF IInv, VerdictsAgree
  <2> QED
    BY <1>2, <2>3
<1> QED
  BY <1>1, <1>2

\* No request leaks or is dropped, and each maker has one verdict at a timeout.
THEOREM Accounted == Spec => []RequestsAreAccountedFor
<1>1. IInv => RequestsAreAccountedFor
  BY OneVerdict DEF IInv, RequestsAreAccountedFor
<1> QED
  BY <1>1, Invariance, PTL

\* A request that is complete lacks as many makers as there were invalid answers
\* while it collected, for any number of requests, makers and answers.
THEOREM ShortOnlyByInvalid == Spec => []ShortByTheInvalidAnswers
<1> QED
  BY Invariance, PTL DEF IInv

-----------------------------------------------------------------------------
(* LimitOrders: its inductive invariant.                                   *)

ClientTypes ==
    /\ client \in [Clients -> [st : {"off", "retrying", "connected"},
                               auth : [version : {"1", "2"}, assets : SUBSET Assets]]]
    /\ accountIdToSocket \in [Accounts -> Sockets \cup {None}]

RequestTypes ==
    /\ requested \in [Accounts -> Asked \cup {None}]
    /\ answers \in [Accounts -> Answers \cup {None}]
    /\ balances \in [Accounts -> Holdings \cup {None}]
    /\ request.pc \in {"new", "asking", "collecting", "collected", "done", "failed"}
    /\ DOMAIN request = {"pc", "swap", "legs"}
    /\ request.pc \notin {"new", "failed"} => request.swap \in Swaps /\ request.legs = Legs(request.swap)
    /\ request.pc \in {"new", "asking"} => \A m \in Accounts : requested[m] = None

OneClientEach ==
    \A m \in Accounts :
       {c \in Clients : AccountOf[c] = m /\ client[c].st = "connected"} =
         IF accountIdToSocket[m] = None THEN {} ELSE {accountIdToSocket[m].client}

\* A maker was asked in the format for its assets.
AskedForItsAssets ==
    \A m \in Accounts : requested[m] # None => requested[m].format = FormatFor(request.legs, requested[m].data)

\* What is in the place of a leg was meant for it, by a maker that quotes it.
AnswersMeetTheirLegs ==
    \A m \in Accounts : answers[m] # None =>
       /\ requested[m] # None
       /\ \A i \in DOMAIN request.legs \cap DOMAIN answers[m].legs : \A k \in DOMAIN answers[m].legs[i] :
             answers[m].legs[i][k].for = i /\ QuotesLeg(request.legs, requested[m].data, i)

\* A maker that has not left is there by the same socket.
StillThere ==
    \A m \in Accounts : requested[m] # None /\ m \notin left =>
       accountIdToSocket[m] # None /\ accountIdToSocket[m].data = requested[m].data

OrdersComeLast ==
    /\ request.pc # "done" => orders = {}
    /\ \A o \in orders : o.maker \in Accounts /\ o.leg \in DOMAIN request.legs

OrdersInv ==
    /\ ClientTypes /\ RequestTypes /\ OneClientEach /\ factors = ReplenishmentFactors(accountIdToSocket)
    /\ AskedForItsAssets /\ AnswersMeetTheirLegs /\ StillThere /\ OrdersComeLast
    /\ OrdersMeetTheirLeg /\ OrdersCovered /\ MovedByFactorsUnlessLeft /\ BetaIsNotUsed

-----------------------------------------------------------------------------
(* The replenishment factors.                                              *)

\* The units of one maker for an asset.
LEMMA UnitsOf ==
  ASSUME NEW m, NEW n \in Nat
  PROVE  IsFiniteSet({m} \X (1 .. n)) /\ Cardinality({m} \X (1 .. n)) = n
<1>1. IsFiniteSet({m}) /\ Cardinality({m}) = 1
  BY FS_Singleton
<1>2. IsFiniteSet(1 .. n) /\ Cardinality(1 .. n) = n
  BY FS_Interval
<1>3. /\ IsFiniteSet({m} \X (1 .. n))
      /\ Cardinality({m} \X (1 .. n)) = Cardinality({m}) * Cardinality(1 .. n)
  BY <1>1, <1>2, FS_Product
<1>4. Cardinality({m}) * Cardinality(1 .. n) = n
  BY <1>1, <1>2
<1> QED
  BY <1>3, <1>4

LEMMA FactorsFollow ==
  ASSUME OrdersAssumption, ClientTypes, factors = ReplenishmentFactors(accountIdToSocket)
  PROVE  FactorsOfConnected
<1> SUFFICES ASSUME NEW x \in Assets
    PROVE  LET at == {m \in Accounts : accountIdToSocket[m] # None}
               of(m) == accountIdToSocket[m].data.repl[x]
           IN  /\ factors[x] >= 1 /\ \A m \in at : factors[x] >= of(m)
               /\ (\A m \in at : of(m) = 0) => factors[x] = 1
               /\ \A m, n \in at : m # n /\ at = {m, n} => factors[x] = Max2(1, of(m) + of(n))
  BY DEF FactorsOfConnected
<1> DEFINE at == {m \in Accounts : accountIdToSocket[m] # None}
           of(m) == accountIdToSocket[m].data.repl[x]
           U(m) == {m} \X (1 .. of(m))
           all == Units(accountIdToSocket, x)
<1>1. \A m \in at : of(m) \in Nat
  BY DEF ClientTypes, Sockets, Data
<1>2. all = UNION {U(m) : m \in at}
  BY DEF Units
<1>3. \A m \in at : IsFiniteSet(U(m)) /\ Cardinality(U(m)) = of(m) /\ U(m) \in SUBSET all
  <2> SUFFICES ASSUME NEW m \in at PROVE IsFiniteSet(U(m)) /\ Cardinality(U(m)) = of(m) /\ U(m) \in SUBSET all
    OBVIOUS
  <2>1. of(m) \in Nat
    BY <1>1
  <2>2. U(m) \in SUBSET all
    BY <1>2
  <2> HIDE DEF of
  <2> QED
    BY <2>1, <2>2, UnitsOf
<1>4. IsFiniteSet(all)
  <2>1. IsFiniteSet(at)
    BY FS_Subset DEF OrdersAssumption
  <2> DEFINE f == [m \in at |-> U(m)]
  <2>2. IsFiniteSet({U(m) : m \in at})
    <3>1. f \in [at -> {U(m) : m \in at}] /\ \A T \in {U(m) : m \in at} : \E m \in at : f[m] = T
      OBVIOUS
    <3> HIDE DEF f, U, at
    <3>2. f \in Surjection(at, {U(m) : m \in at})
      BY <3>1, Fun_IsSurj
    <3> QED
      BY <2>1, <3>2, FS_Surjection
  <2> HIDE DEF at, U, f
  <2>3. \A T \in {U(m) : m \in at} : IsFiniteSet(T)
    BY <1>3
  <2> QED
    BY <1>2, <2>2, <2>3, FS_UNION
<1>5. Cardinality(all) \in Nat
  BY <1>4, FS_CardinalityType
<1>6. factors[x] = Max2(1, Cardinality(all))
  BY DEF ReplenishmentFactors
<1>7. factors[x] >= 1 /\ factors[x] >= Cardinality(all)
  BY <1>5, <1>6 DEF Max2
<1>8. ASSUME NEW m \in at PROVE factors[x] >= of(m)
  <2> HIDE DEF at, of, U, all
  <2>1. Cardinality(U(m)) <= Cardinality(all)
    BY <1>3, <1>4, FS_Subset
  <2>2. Cardinality(U(m)) = of(m) /\ of(m) \in Nat
    BY <1>1, <1>3
  <2>3. factors[x] \in Nat
    BY <1>5, <1>6 DEF Max2
  <2> QED
    BY <1>5, <1>7, <2>1, <2>2, <2>3
<1>9. ASSUME \A m \in at : of(m) = 0 PROVE factors[x] = 1
  <2>1. \A m \in at : U(m) = {}
    BY <1>9
  <2>2. all = {}
    BY <1>2, <2>1
  <2>3. Cardinality(all) = 0
    BY <2>2, FS_EmptySet
  <2> QED
    BY <1>6, <2>3 DEF Max2
<1>10. ASSUME NEW m \in at, NEW n \in at, m # n, at = {m, n} PROVE factors[x] = Max2(1, of(m) + of(n))
  <2>1. all = U(m) \cup U(n)
    BY <1>2, <1>10
  <2>2. U(m) \cap U(n) = {}
    BY <1>10
  <2>3. Cardinality(U(m)) = of(m) /\ Cardinality(U(n)) = of(n) /\ of(m) \in Nat /\ of(n) \in Nat
    BY <1>1, <1>3
  <2> HIDE DEF at, of, U, all
  <2>8. IsFiniteSet(U(m)) /\ IsFiniteSet(U(n))
    BY <1>3
  <2>4. Cardinality(U(m) \cup U(n)) = Cardinality(U(m)) + Cardinality(U(n)) - Cardinality(U(m) \cap U(n))
    BY <2>8, FS_Union
  <2>5. Cardinality({}) = 0
    BY FS_EmptySet
  <2>6. Cardinality(U(m) \cup U(n)) = of(m) + of(n)
    <3>1. Cardinality(U(m) \cup U(n)) = of(m) + of(n) - 0
      BY <2>2, <2>3, <2>4, <2>5, Zenon
    <3> QED
      BY <2>3, <3>1
  <2>7. Cardinality(all) = of(m) + of(n)
    BY <2>1, <2>6, Zenon
  <2> QED
    BY <1>6, <2>7, Zenon
<1> QED
  BY <1>7, <1>8, <1>9, <1>10

-----------------------------------------------------------------------------
(* The clients come and go.                                                *)

\* What is known of the request as long as only sockets change.
LEMMA ClientsMove ==
  ASSUME OrdersInv, UNCHANGED orderVars, left \subseteq left',
         ClientTypes', OneClientEach', factors' = ReplenishmentFactors(accountIdToSocket'),
         \A m \in Accounts : accountIdToSocket'[m] = accountIdToSocket[m] \/ m \in left' \/ requested[m] = None
  PROVE  OrdersInv'
<1>1. /\ request' = request /\ requested' = requested /\ answers' = answers /\ balances' = balances
      /\ orders' = orders
  BY DEF orderVars
<1>2. RequestTypes' /\ AskedForItsAssets' /\ AnswersMeetTheirLegs' /\ OrdersComeLast'
  BY <1>1 DEF OrdersInv, RequestTypes, AskedForItsAssets, AnswersMeetTheirLegs, OrdersComeLast, FormatFor, QuotesLeg
<1>3. StillThere'
  BY <1>1 DEF OrdersInv, StillThere
<1>4. OrdersMeetTheirLeg' /\ OrdersCovered' /\ BetaIsNotUsed'
  BY <1>1 DEF OrdersInv, OrdersMeetTheirLeg, OrdersCovered, BetaIsNotUsed
<1>5. MovedByFactorsUnlessLeft'
  BY <1>1 DEF OrdersInv, MovedByFactorsUnlessLeft
<1> QED
  BY <1>2, <1>3, <1>4, <1>5 DEF OrdersInv

\* A client that is not connected, before and after.
LEMMA AloneMoves ==
  ASSUME OrdersInv, NEW c \in Clients, client[c].st # "connected",
         NEW new \in [st : {"off", "retrying"}, auth : [version : {"1", "2"}, assets : SUBSET Assets]],
         client' = [client EXCEPT ![c] = new],
         UNCHANGED <<accountIdToSocket, factors, orderVars, left>>
  PROVE  OrdersInv'
<1>1. /\ client \in [Clients -> [st : {"off", "retrying", "connected"},
                                 auth : [version : {"1", "2"}, assets : SUBSET Assets]]]
      /\ accountIdToSocket \in [Accounts -> Sockets \cup {None}]
      /\ factors = ReplenishmentFactors(accountIdToSocket) /\ OneClientEach
      /\ accountIdToSocket' = accountIdToSocket /\ factors' = factors
  BY DEF OrdersInv, ClientTypes
<1>2. ClientTypes'
  BY <1>1 DEF ClientTypes
<1>3. \A d \in Clients : client'[d].st = "connected" <=> client[d].st = "connected"
  BY <1>1
<1>4. OneClientEach'
  BY <1>1, <1>3 DEF OneClientEach
<1> QED
  BY <1>1, <1>2, <1>4, ClientsMove

LEMMA OpenKeeps ==
  ASSUME OrdersAssumption, OrdersInv, NEW c \in Clients, Open(c) PROVE OrdersInv'
<1>1. FirstAuth(c) \in [version : {"1", "2"}, assets : SUBSET Assets]
  BY DEF FirstAuth, OrdersAssumption
<1>2. [st |-> "retrying", auth |-> FirstAuth(c)]
        \in [st : {"off", "retrying"}, auth : [version : {"1", "2"}, assets : SUBSET Assets]]
  BY <1>1
<1> QED
  BY <1>2, AloneMoves DEF Open

LEMMA ConnectErrorKeeps ==
  ASSUME OrdersInv, NEW c \in Clients, ConnectError(c) PROVE OrdersInv'
<1>1. client[c] \in [st : {"off", "retrying", "connected"},
                     auth : [version : {"1", "2"}, assets : SUBSET Assets]]
  BY DEF OrdersInv, ClientTypes
<1> DEFINE new == [client[c] EXCEPT !.auth = RetryAuth]
<1>2. client[c].st = "retrying" /\ client' = [client EXCEPT ![c] = new]
  BY DEF ConnectError
<1>3. new \in [st : {"off", "retrying"}, auth : [version : {"1", "2"}, assets : SUBSET Assets]]
  BY <1>1, <1>2 DEF RetryAuth
<1> HIDE DEF new
<1> QED
  BY <1>2, <1>3, AloneMoves DEF ConnectError

\* A factor of the handshake that is below 0 counts as 0.
LEMMA SocketDataTypes ==
  ASSUME OrdersAssumption, NEW r \in Records, NEW a \in [version : {"1", "2"}, assets : SUBSET Assets]
  PROVE  SocketData(r, a) \in Data
<1>1. \A x \in Assets : r.repl[x] \in Int
  BY DEF OrdersAssumption
<1>2. [x \in Assets |-> IF x \in a.assets THEN Max2(r.repl[x], 0) ELSE 0] \in [Assets -> Nat]
  BY <1>1 DEF Max2
<1> QED
  BY <1>2 DEF SocketData, Data, OrdersAssumption

LEMMA JoinKeeps ==
  ASSUME OrdersAssumption, OrdersInv, NEW c \in Clients, Join(c) PROVE OrdersInv'
<1> DEFINE m == AccountOf[c]
<1>1. /\ client \in [Clients -> [st : {"off", "retrying", "connected"},
                                 auth : [version : {"1", "2"}, assets : SUBSET Assets]]]
      /\ accountIdToSocket \in [Accounts -> Sockets \cup {None}] /\ OneClientEach
      /\ client[c].st = "retrying" /\ m \in Accounts /\ orderVars' = orderVars /\ left' = left
      /\ client[c] \in [st : {"off", "retrying", "connected"},
                         auth : [version : {"1", "2"}, assets : SUBSET Assets]]
  BY DEF OrdersInv, ClientTypes, Join, OrdersAssumption
<1>2. CASE Refuses(m)
  <2> DEFINE new == [client[c] EXCEPT !.st = "off"]
  <2>1. client' = [client EXCEPT ![c] = new] /\ UNCHANGED <<accountIdToSocket, factors>>
    BY <1>2 DEF Join
  <2>2. new \in [st : {"off", "retrying"}, auth : [version : {"1", "2"}, assets : SUBSET Assets]]
    BY <1>1
  <2> HIDE DEF new
  <2>3. UNCHANGED <<accountIdToSocket, factors, orderVars, left>> /\ client[c].st # "connected"
    BY <1>1, <2>1
  <2> QED
    BY <2>1, <2>2, <2>3, AloneMoves
<1>3. CASE ~Refuses(m)
  <2>1. PICK r \in Records : accountIdToSocket' = [accountIdToSocket EXCEPT ![m] =
                                                    [client |-> c, data |-> SocketData(r, client[c].auth)]]
    BY <1>3 DEF Join
  <2>2. /\ client' = [client EXCEPT ![c].st = "connected"]
        /\ factors' = ReplenishmentFactors(accountIdToSocket')
        /\ accountIdToSocket[m] = None
    BY <1>3 DEF Join, Refuses
  <2> DEFINE new == [client |-> c, data |-> SocketData(r, client[c].auth)]
  <2>3. new \in Sockets /\ new.client = c
    BY <1>1, SocketDataTypes DEF Sockets
  <2>4. new # None
    BY <2>3 DEF OrdersAssumption
  <2> HIDE DEF new
  <2>5. accountIdToSocket' = [accountIdToSocket EXCEPT ![m] = new]
    BY <2>1 DEF new
  <2>6. ClientTypes'
    <3> DEFINE is == [client[c] EXCEPT !.st = "connected"]
    <3>1. is \in [st : {"off", "retrying", "connected"}, auth : [version : {"1", "2"}, assets : SUBSET Assets]]
      BY <1>1
    <3>2. client' = [client EXCEPT ![c] = is]
      BY <2>2
    <3> HIDE DEF is
    <3>3. client' \in [Clients -> [st : {"off", "retrying", "connected"},
                                   auth : [version : {"1", "2"}, assets : SUBSET Assets]]]
      BY <1>1, <3>1, <3>2
    <3>4. accountIdToSocket' \in [Accounts -> Sockets \cup {None}]
      BY <1>1, <2>3, <2>5
    <3> QED
      BY <3>3, <3>4 DEF ClientTypes
  <2>7. client'[c].st = "connected" /\ \A d \in Clients : d # c => client'[d] = client[d]
    BY <1>1, <2>2
  <2>8. OneClientEach'
    <3> SUFFICES ASSUME NEW n \in Accounts
        PROVE  {d \in Clients : AccountOf[d] = n /\ client'[d].st = "connected"} =
                 IF accountIdToSocket'[n] = None THEN {} ELSE {accountIdToSocket'[n].client}
      BY DEF OneClientEach
    <3>1. {d \in Clients : AccountOf[d] = n /\ client[d].st = "connected"} =
            IF accountIdToSocket[n] = None THEN {} ELSE {accountIdToSocket[n].client}
      BY <1>1 DEF OneClientEach
    <3>2. CASE n = m
      <4>1. accountIdToSocket'[n] = new
        BY <1>1, <2>5, <3>2
      <4>2. {d \in Clients : AccountOf[d] = n /\ client[d].st = "connected"} = {}
        BY <2>2, <3>1, <3>2
      <4>3. {d \in Clients : AccountOf[d] = n /\ client'[d].st = "connected"} = {c}
        BY <2>7, <3>2, <4>2
      <4> QED
        BY <2>3, <2>4, <4>1, <4>3
    <3>3. CASE n # m
      <4>1. accountIdToSocket'[n] = accountIdToSocket[n]
        BY <1>1, <2>5, <3>3
      <4>2. {d \in Clients : AccountOf[d] = n /\ client'[d].st = "connected"} =
              {d \in Clients : AccountOf[d] = n /\ client[d].st = "connected"}
        BY <2>7, <3>3
      <4> QED
        BY <3>1, <4>1, <4>2
    <3> QED
      BY <3>2, <3>3
  <2>9. \A n \in Accounts : accountIdToSocket'[n] = accountIdToSocket[n] \/ n \in left' \/ requested[n] = None
    BY <1>1, <2>2, <2>5 DEF OrdersInv, StillThere
  <2> QED
    BY <1>1, <2>2, <2>6, <2>8, <2>9, ClientsMove
<1> QED
  BY <1>2, <1>3

LEMMA LeaveKeeps ==
  ASSUME OrdersAssumption, OrdersInv, NEW c \in Clients, Leave(c) PROVE OrdersInv'
<1> DEFINE m == AccountOf[c]
<1>1. /\ client \in [Clients -> [st : {"off", "retrying", "connected"},
                                 auth : [version : {"1", "2"}, assets : SUBSET Assets]]]
      /\ accountIdToSocket \in [Accounts -> Sockets \cup {None}] /\ OneClientEach
      /\ client[c].st = "connected" /\ m \in Accounts /\ orderVars' = orderVars /\ left' = left \cup {m}
      /\ accountIdToSocket' = [accountIdToSocket EXCEPT ![m] = None]
      /\ factors' = ReplenishmentFactors(accountIdToSocket')
  BY DEF OrdersInv, ClientTypes, Leave, OrdersAssumption
<1>2. PICK st \in {"off", "retrying"} : client' = [client EXCEPT ![c].st = st]
  BY DEF Leave
<1>3. ClientTypes'
  <2> DEFINE is == [client[c] EXCEPT !.st = st]
  <2>1. is \in [st : {"off", "retrying", "connected"}, auth : [version : {"1", "2"}, assets : SUBSET Assets]]
    BY <1>1
  <2>2. client' = [client EXCEPT ![c] = is]
    BY <1>2
  <2> HIDE DEF is
  <2>3. client' \in [Clients -> [st : {"off", "retrying", "connected"},
                                 auth : [version : {"1", "2"}, assets : SUBSET Assets]]]
    BY <1>1, <2>1, <2>2
  <2>4. accountIdToSocket' \in [Accounts -> Sockets \cup {None}]
    BY <1>1
  <2> QED
    BY <2>3, <2>4 DEF ClientTypes
<1>4. client'[c].st # "connected" /\ \A d \in Clients : d # c => client'[d] = client[d]
  BY <1>1, <1>2
<1>5. OneClientEach'
  <2> SUFFICES ASSUME NEW n \in Accounts
      PROVE  {d \in Clients : AccountOf[d] = n /\ client'[d].st = "connected"} =
               IF accountIdToSocket'[n] = None THEN {} ELSE {accountIdToSocket'[n].client}
    BY DEF OneClientEach
  <2>1. {d \in Clients : AccountOf[d] = n /\ client[d].st = "connected"} =
          IF accountIdToSocket[n] = None THEN {} ELSE {accountIdToSocket[n].client}
    BY <1>1 DEF OneClientEach
  <2>2. CASE n = m
    <3>1. accountIdToSocket'[n] = None
      BY <1>1, <2>2
    <3>2. c \in {d \in Clients : AccountOf[d] = n /\ client[d].st = "connected"}
      BY <1>1, <2>2
    <3>3. {d \in Clients : AccountOf[d] = n /\ client[d].st = "connected"} = {c}
      <4>1. CASE accountIdToSocket[n] = None
        BY <2>1, <3>2, <4>1
      <4>2. CASE accountIdToSocket[n] # None
        BY <2>1, <3>2, <4>2
      <4> QED
        BY <4>1, <4>2
    <3>4. {d \in Clients : AccountOf[d] = n /\ client'[d].st = "connected"} = {}
      BY <1>4, <3>3
    <3> QED
      BY <3>1, <3>4
  <2>3. CASE n # m
    <3>1. accountIdToSocket'[n] = accountIdToSocket[n]
      BY <1>1, <2>3
    <3>2. {d \in Clients : AccountOf[d] = n /\ client'[d].st = "connected"} =
            {d \in Clients : AccountOf[d] = n /\ client[d].st = "connected"}
      BY <1>4, <2>3
    <3> QED
      BY <2>1, <3>1, <3>2
  <2> QED
    BY <2>2, <2>3
<1>6. \A n \in Accounts : accountIdToSocket'[n] = accountIdToSocket[n] \/ n \in left' \/ requested[n] = None
  BY <1>1
<1> QED
  BY <1>1, <1>3, <1>5, <1>6, ClientsMove

-----------------------------------------------------------------------------
(* The call of getLimitOrders.                                             *)

LegSet == [base : Assets, side : {"buy", "sell"}, sells : Assets]

\* A swap has one leg or two.
LEMMA LegsAre ==
  ASSUME OrdersAssumption, NEW swap \in Swaps
  PROVE  /\ Legs(swap) \in Seq(LegSet)
         /\ Len(Legs(swap)) \in {1, 2} /\ DOMAIN Legs(swap) = 1 .. Len(Legs(swap))
<1>1. swap.src \in Assets /\ swap.dest \in Assets /\ "Usdc" \in Assets
  BY DEF OrdersAssumption
<1>2. \A s, d \in Assets : Leg(s, d) \in LegSet
  BY DEF Leg, LegSet
<1>3. /\ Leg(swap.src, swap.dest) \in LegSet
      /\ Leg(swap.src, "Usdc") \in LegSet /\ Leg("Usdc", swap.dest) \in LegSet
  BY <1>1, <1>2
<1>4. CASE "Usdc" \in {swap.src, swap.dest}
  <2> DEFINE l == Leg(swap.src, swap.dest)
  <2>1. Legs(swap) = <<l>> /\ l \in LegSet
    BY <1>3, <1>4 DEF Legs
  <2> HIDE DEF l
  <2> QED
    BY <2>1
<1>5. CASE "Usdc" \notin {swap.src, swap.dest}
  <2> DEFINE l == Leg(swap.src, "Usdc")
             n == Leg("Usdc", swap.dest)
  <2>1. Legs(swap) = <<l, n>> /\ l \in LegSet /\ n \in LegSet
    BY <1>3, <1>5 DEF Legs
  <2> HIDE DEF l, n
  <2> QED
    BY <2>1
<1> QED
  BY <1>4, <1>5

LEMMA FormatIs ==
  ASSUME NEW legs, NEW data PROVE FormatFor(legs, data) \in Formats \cup {None}
BY DEF FormatFor, Formats

\* The legs a maker is asked for are legs it quotes.
LEMMA FormatMeans ==
  ASSUME OrdersAssumption, NEW legs, NEW data, Len(legs) \in {1, 2}, DOMAIN legs = 1 .. Len(legs)
  PROVE  /\ FormatFor(legs, data) = "singleOrBothLegs" =>
              \A i \in DOMAIN legs : QuotesLeg(legs, data, i)
         /\ FormatFor(legs, data) = "padSecondLeg" => QuotesLeg(legs, data, 1)
         /\ FormatFor(legs, data) = "padFirstLeg" => QuotesLeg(legs, data, 2)
<1>1. None \notin {"singleOrBothLegs", "padSecondLeg", "padFirstLeg"}
  BY DEF OrdersAssumption, Formats
<1>2. QuotesLeg(legs, data, 1) \in BOOLEAN /\ QuotesLeg(legs, data, 2) \in BOOLEAN
  BY DEF QuotesLeg
<1>3. FormatFor(legs, data) = "singleOrBothLegs" =>
        QuotesLeg(legs, data, 1) /\ (Len(legs) = 2 => QuotesLeg(legs, data, 2))
  BY <1>1, <1>2 DEF FormatFor
<1>4. FormatFor(legs, data) = "padSecondLeg" => QuotesLeg(legs, data, 1)
  BY <1>1, <1>2 DEF FormatFor
<1>5. FormatFor(legs, data) = "padFirstLeg" => QuotesLeg(legs, data, 2)
  BY <1>1, <1>2 DEF FormatFor
<1>6. DOMAIN legs = {1} \/ (Len(legs) = 2 /\ DOMAIN legs = {1, 2})
  OBVIOUS
<1> QED
  BY <1>3, <1>4, <1>5, <1>6

\* Before the makers are asked nothing is known of them.
LEMMA NobodyAskedYet ==
  ASSUME OrdersInv, request.pc \in {"new", "asking"}
  PROVE  \A m \in Accounts : requested[m] = None /\ answers[m] = None
BY DEF OrdersInv, RequestTypes, AnswersMeetTheirLegs

\* What is known of the sockets as long as only the request changes, and of
\* the orders as long as there are none.
LEMMA RequestMoves ==
  ASSUME OrdersInv, UNCHANGED <<client, accountIdToSocket, factors>>, orders' = {},
         RequestTypes', AskedForItsAssets', AnswersMeetTheirLegs', StillThere'
  PROVE  OrdersInv'
<1>1. ClientTypes' /\ OneClientEach' /\ factors' = ReplenishmentFactors(accountIdToSocket')
  BY DEF OrdersInv, ClientTypes, OneClientEach
<1>2. OrdersComeLast' /\ OrdersMeetTheirLeg' /\ OrdersCovered' /\ MovedByFactorsUnlessLeft' /\ BetaIsNotUsed'
  BY DEF OrdersComeLast, OrdersMeetTheirLeg, OrdersCovered, MovedByFactorsUnlessLeft, BetaIsNotUsed
<1> QED
  BY <1>1, <1>2 DEF OrdersInv

LEMMA GetLimitOrdersKeeps ==
  ASSUME OrdersAssumption, OrdersInv, NEW swap \in Swaps, GetLimitOrders(swap) PROVE OrdersInv'
<1>1. /\ request.pc = "new" /\ \A m \in Accounts : requested[m] = None /\ answers[m] = None
      /\ UNCHANGED <<client, accountIdToSocket, factors, requested, answers, balances, orders, left>>
      /\ RequestTypes
  BY NobodyAskedYet DEF GetLimitOrders, OrdersInv
<1>2. orders' = {}
  BY <1>1 DEF OrdersInv, OrdersComeLast
<1>3. \/ request' = [pc |-> "asking", swap |-> swap, legs |-> Legs(swap)]
      \/ request' = [pc |-> "failed", swap |-> swap, legs |-> <<>>]
  BY DEF GetLimitOrders
<1>4. RequestTypes'
  BY <1>1, <1>3 DEF RequestTypes
<1>5. AskedForItsAssets' /\ AnswersMeetTheirLegs' /\ StillThere'
  BY <1>1 DEF AskedForItsAssets, AnswersMeetTheirLegs, StillThere
<1> QED
  BY <1>1, <1>2, <1>4, <1>5, RequestMoves

LEMMA SendRequestsKeeps ==
  ASSUME OrdersAssumption, OrdersInv, SendRequests PROVE OrdersInv'
<1>1. /\ request.pc = "asking" /\ \A m \in Accounts : answers[m] = None
      /\ UNCHANGED <<client, accountIdToSocket, factors, answers, balances, orders>>
      /\ RequestTypes /\ accountIdToSocket \in [Accounts -> Sockets \cup {None}]
  BY NobodyAskedYet DEF SendRequests, OrdersInv, ClientTypes
<1>2. orders' = {}
  BY <1>1 DEF OrdersInv, OrdersComeLast
<1>3. /\ request'.pc = "collecting" /\ request'.legs = request.legs /\ request'.swap = request.swap
      /\ DOMAIN request' = {"pc", "swap", "legs"}
  BY <1>1 DEF SendRequests, RequestTypes
<1>5. ASSUME NEW m \in Accounts, requested'[m] # None
      PROVE  /\ accountIdToSocket[m] # None
             /\ requested'[m].format = FormatFor(request.legs, accountIdToSocket[m].data)
             /\ requested'[m].data = accountIdToSocket[m].data
             /\ requested'[m] \in Asked
  <2> DEFINE data == accountIdToSocket[m].data
             format == FormatFor(request.legs, data)
  <2>1. accountIdToSocket[m] # None /\ format # None /\ requested'[m] = [format |-> format, data |-> data]
    BY <1>5 DEF SendRequests
  <2>2. format \in Formats
    BY <2>1, FormatIs
  <2>3. data \in Data
    BY <1>1, <2>1 DEF Sockets
  <2> HIDE DEF format, data
  <2>4. requested'[m] \in Asked
    BY <2>1, <2>2, <2>3 DEF Asked
  <2> QED
    BY <2>1, <2>4 DEF format, data
<1>6. requested' \in [Accounts -> Asked \cup {None}]
  <2>1. DOMAIN requested' = Accounts /\ requested' = [m \in Accounts |-> requested'[m]]
    BY DEF SendRequests
  <2> QED
    BY <1>5, <2>1
<1>7. RequestTypes'
  BY <1>1, <1>3, <1>6 DEF RequestTypes
<1>8. AskedForItsAssets'
  <2> SUFFICES ASSUME NEW m \in Accounts, requested'[m] # None
      PROVE  requested'[m].format = FormatFor(request.legs, requested'[m].data)
    BY <1>3 DEF AskedForItsAssets
  <2> QED
    BY <1>5
<1>9. StillThere'
  <2> SUFFICES ASSUME NEW m \in Accounts, requested'[m] # None
      PROVE  accountIdToSocket[m] # None /\ accountIdToSocket[m].data = requested'[m].data
    BY <1>1 DEF StillThere
  <2> QED
    BY <1>5
<1>10. AnswersMeetTheirLegs'
  BY <1>1 DEF AnswersMeetTheirLegs
<1> QED
  BY <1>1, <1>2, <1>7, <1>8, <1>9, <1>10, RequestMoves

LEMMA CollectedKeeps ==
  ASSUME OrdersInv, Collected PROVE OrdersInv'
<1>1. /\ request.pc = "collecting"
      /\ UNCHANGED <<client, accountIdToSocket, factors, requested, answers, orders, left>>
      /\ balances' \in [Accounts -> {None} \cup Holdings] /\ RequestTypes
  BY DEF Collected, OrdersInv
<1>2. orders' = {}
  BY <1>1 DEF OrdersInv, OrdersComeLast
<1>3. /\ request'.pc = "collected" /\ request'.legs = request.legs /\ request'.swap = request.swap
      /\ DOMAIN request' = {"pc", "swap", "legs"}
  BY <1>1 DEF Collected, RequestTypes
<1>4. RequestTypes'
  BY <1>1, <1>3 DEF RequestTypes
<1>5. AskedForItsAssets' /\ AnswersMeetTheirLegs' /\ StillThere'
  BY <1>1, <1>3 DEF OrdersInv, AskedForItsAssets, AnswersMeetTheirLegs, StillThere, FormatFor, QuotesLeg
<1> QED
  BY <1>1, <1>2, <1>4, <1>5, RequestMoves

\* What a valid answer becomes: each leg is in the place of the leg it was
\* asked for, and that is one the maker quotes.
LEMMA AnswerMeetsItsLegs ==
  ASSUME OrdersAssumption, OrdersInv, request.pc = "collecting",
         NEW m \in Accounts, requested[m] # None, NEW legs \in ValidAnswers(requested[m].format)
  PROVE  LET is == Format(requested[m].format, legs)
         IN  /\ is \in Seq(Seq(Offer))
             /\ \A i \in DOMAIN request.legs \cap DOMAIN is : \A k \in DOMAIN is[i] :
                  is[i][k].for = i /\ QuotesLeg(request.legs, requested[m].data, i)
<1> DEFINE format == requested[m].format
           meantFor == LegsOf(format)
           meant(i) == IF i <= Len(meantFor) THEN meantFor[i] ELSE 0
           leg(book, i) == [k \in DOMAIN book |-> [tick |-> k, amount |-> book[k], for |-> meant(i)]]
<1>1. /\ request.legs = Legs(request.swap) /\ request.swap \in Swaps
      /\ format = FormatFor(request.legs, requested[m].data) /\ format \in Formats
  BY DEF OrdersInv, RequestTypes, AskedForItsAssets, Asked
<1>2. Len(request.legs) \in {1, 2} /\ DOMAIN request.legs = 1 .. Len(request.legs)
  BY <1>1, LegsAre
<1>3. /\ format = "singleOrBothLegs" =>
           /\ Len(meantFor) = Len(request.legs) /\ \A i \in DOMAIN request.legs : meantFor[i] = i
           /\ \A i \in DOMAIN request.legs : QuotesLeg(request.legs, requested[m].data, i)
      /\ format = "padSecondLeg" => meantFor = <<1>> /\ QuotesLeg(request.legs, requested[m].data, 1)
      /\ format = "padFirstLeg" => meantFor = <<2>> /\ QuotesLeg(request.legs, requested[m].data, 2)
  <2> DEFINE data == requested[m].data
             asks == request.legs
  <2>4. /\ FormatFor(asks, data) = "singleOrBothLegs" => \A i \in DOMAIN asks : QuotesLeg(asks, data, i)
        /\ FormatFor(asks, data) = "padSecondLeg" => QuotesLeg(asks, data, 1)
        /\ FormatFor(asks, data) = "padFirstLeg" => QuotesLeg(asks, data, 2)
    <3> HIDE DEF data, asks
    <3> QED
      BY ONLY <1>2, OrdersAssumption, FormatMeans DEF asks
  <2>1. CASE format = "singleOrBothLegs"
    <3>1. meantFor = [i \in 1 .. Len(request.legs) |-> i]
      BY <1>2, <2>1 DEF LegsOf
    <3>2. Len(meantFor) = Len(request.legs) /\ \A i \in DOMAIN request.legs : meantFor[i] = i
      BY <1>2, <3>1
    <3>3. \A i \in DOMAIN request.legs : QuotesLeg(request.legs, requested[m].data, i)
      BY <1>1, <2>1, <2>4
    <3> QED
      BY <2>1, <3>2, <3>3
  <2>2. CASE format = "padSecondLeg"
    <3>1. meantFor = <<1>>
      BY <2>2 DEF LegsOf
    <3>2. QuotesLeg(request.legs, requested[m].data, 1)
      BY <1>1, <2>2, <2>4
    <3> QED
      BY <2>2, <3>1, <3>2
  <2>3. CASE format = "padFirstLeg"
    <3>1. meantFor = <<2>>
      BY <2>3 DEF LegsOf
    <3>2. QuotesLeg(request.legs, requested[m].data, 2)
      BY <1>1, <2>3, <2>4
    <3> QED
      BY <2>3, <3>1, <3>2
  <2> QED
    BY <1>1, <2>1, <2>2, <2>3 DEF Formats
<1>4. legs \in {<<leg(b, 1)>> : b \in Books} \cup {<<leg(b, 1), leg(d, 2)>> : b, d \in Books}
  BY DEF ValidAnswers
<1>5. meant(1) \in 0 .. 2 /\ meant(2) \in 0 .. 2
  <2>1. CASE format = "singleOrBothLegs"
    <3>1. Len(meantFor) = Len(request.legs) /\ \A i \in DOMAIN request.legs : meantFor[i] = i
      BY <1>3, <2>1
    <3> HIDE DEF meantFor
    <3> QED
      BY <1>2, <3>1
  <2>2. CASE format \in {"padSecondLeg", "padFirstLeg"}
    <3>1. meantFor = <<1>> \/ meantFor = <<2>>
      BY <1>3, <2>2
    <3> HIDE DEF meantFor
    <3> QED
      BY <3>1
  <2> QED
    BY <1>1, <2>1, <2>2 DEF Formats
<1>6. \A b \in Books : \A i \in {1, 2} :
        leg(b, i) \in Seq(Offer) /\ \A k \in DOMAIN leg(b, i) : leg(b, i)[k].for = meant(i)
  <2> SUFFICES ASSUME NEW b \in Books, NEW i \in {1, 2}
      PROVE  leg(b, i) \in Seq(Offer) /\ \A k \in DOMAIN leg(b, i) : leg(b, i)[k].for = meant(i)
    OBVIOUS
  <2>1. b \in Seq(Nat) /\ meant(i) \in 0 .. 2
    BY <1>5 DEF OrdersAssumption
  <2> HIDE DEF meant
  <2>2. leg(b, i) \in Seq(Offer)
    <3>1. DOMAIN b = 1 .. Len(b) /\ Len(b) \in Nat /\ \A k \in 1 .. Len(b) : b[k] \in Nat
      BY <2>1
    <3>2. leg(b, i) \in [1 .. Len(b) -> Offer]
      BY <2>1, <3>1 DEF Offer
    <3> HIDE DEF leg
    <3> QED
      BY <3>1, <3>2
  <2> QED
    BY <2>2
<1> HIDE DEF leg
<1>7. /\ Len(legs) \in {1, 2} /\ DOMAIN legs = 1 .. Len(legs) /\ legs \in Seq(Seq(Offer))
      /\ \A i \in 1 .. Len(legs) : legs[i] \in Seq(Offer) /\ \A k \in DOMAIN legs[i] : legs[i][k].for = meant(i)
  <2>1. CASE \E b \in Books : legs = <<leg(b, 1)>>
    <3>1. PICK b \in Books : legs = <<leg(b, 1)>>
      BY <2>1
    <3> DEFINE one == leg(b, 1)
    <3>2. one \in Seq(Offer) /\ (\A k \in DOMAIN one : one[k].for = meant(1)) /\ legs = <<one>>
      BY <1>6, <3>1
    <3> HIDE DEF one, meant
    <3> QED
      BY <3>2
  <2>2. CASE \E b, d \in Books : legs = <<leg(b, 1), leg(d, 2)>>
    <3>1. PICK b \in Books, d \in Books : legs = <<leg(b, 1), leg(d, 2)>>
      BY <2>2
    <3> DEFINE one == leg(b, 1)
               two == leg(d, 2)
    <3>2. /\ one \in Seq(Offer) /\ \A k \in DOMAIN one : one[k].for = meant(1)
          /\ two \in Seq(Offer) /\ \A k \in DOMAIN two : two[k].for = meant(2)
          /\ legs = <<one, two>>
      BY <1>6, <3>1
    <3> HIDE DEF one, two, meant
    <3> QED
      BY <3>2
  <2> QED
    BY <1>4, <2>1, <2>2
<1> DEFINE is == Format(format, legs)
<1> SUFFICES /\ is \in Seq(Seq(Offer))
             /\ \A i \in DOMAIN request.legs \cap DOMAIN is : \A k \in DOMAIN is[i] :
                  is[i][k].for = i /\ QuotesLeg(request.legs, requested[m].data, i)
  OBVIOUS
<1>8. CASE format = "singleOrBothLegs"
  <2>1. is = legs
    BY <1>8 DEF Format
  <2>2. \A i \in DOMAIN request.legs : meant(i) = i /\ QuotesLeg(request.legs, requested[m].data, i)
    <3>1. /\ Len(meantFor) = Len(request.legs) /\ \A i \in DOMAIN request.legs : meantFor[i] = i
          /\ \A i \in DOMAIN request.legs : QuotesLeg(request.legs, requested[m].data, i)
      BY <1>3, <1>8
    <3> HIDE DEF meantFor
    <3> QED
      BY <1>2, <3>1
  <2> HIDE DEF is, meant, format
  <2>3. is \in Seq(Seq(Offer))
    BY <1>7, <2>1
  <2> QED
    BY <1>7, <2>1, <2>2, <2>3
<1>9. CASE format = "padSecondLeg"
  <2>1. is = <<legs[1], <<>>>>
    BY <1>9 DEF Format
  <2>2. meant(1) = 1 /\ QuotesLeg(request.legs, requested[m].data, 1)
    <3>1. meantFor = <<1>> /\ QuotesLeg(request.legs, requested[m].data, 1)
      BY <1>3, <1>9
    <3> HIDE DEF meantFor
    <3> QED
      BY <3>1
  <2> DEFINE one == legs[1]
  <2>3. one \in Seq(Offer) /\ \A k \in DOMAIN one : one[k].for = 1
    BY <1>7, <2>2
  <2> HIDE DEF is, meant, format
  <2>4. is = <<one, <<>>>>
    BY <2>1
  <2> HIDE DEF one
  <2> QED
    BY <2>2, <2>3, <2>4
<1>10. CASE format = "padFirstLeg"
  <2>1. is = <<<<>>, legs[1]>>
    BY <1>10 DEF Format
  <2>2. meant(1) = 2 /\ QuotesLeg(request.legs, requested[m].data, 2)
    <3>1. meantFor = <<2>> /\ QuotesLeg(request.legs, requested[m].data, 2)
      BY <1>3, <1>10
    <3> HIDE DEF meantFor
    <3> QED
      BY <3>1
  <2> DEFINE one == legs[1]
  <2>3. one \in Seq(Offer) /\ \A k \in DOMAIN one : one[k].for = 2
    BY <1>7, <2>2
  <2> HIDE DEF is, meant, format
  <2>4. is = <<<<>>, one>>
    BY <2>1
  <2> HIDE DEF one
  <2> QED
    BY <2>2, <2>3, <2>4
<1> QED
  BY <1>1, <1>8, <1>9, <1>10 DEF Formats

LEMMA ReceiveAnswerKeeps ==
  ASSUME OrdersAssumption, OrdersInv, NEW m \in Accounts, ReceiveAnswer(m) PROVE OrdersInv'
<1>1. /\ request.pc = "collecting" /\ requested[m] # None /\ accountIdToSocket[m] # None
      /\ UNCHANGED <<client, accountIdToSocket, factors, request, requested, balances, orders, left>>
      /\ RequestTypes /\ accountIdToSocket \in [Accounts -> Sockets \cup {None}]
  BY DEF ReceiveAnswer, OrdersInv, ClientTypes
<1>2. PICK legs \in ValidAnswers(requested[m].format) :
        answers' = [answers EXCEPT ![m] = [beta |-> accountIdToSocket[m].data.beta,
                                           legs |-> Format(requested[m].format, legs)]]
  BY DEF ReceiveAnswer
<1> DEFINE is == Format(requested[m].format, legs)
           new == [beta |-> accountIdToSocket[m].data.beta, legs |-> is]
<1>3. /\ is \in Seq(Seq(Offer))
      /\ \A i \in DOMAIN request.legs \cap DOMAIN is : \A k \in DOMAIN is[i] :
           is[i][k].for = i /\ QuotesLeg(request.legs, requested[m].data, i)
  BY <1>1, AnswerMeetsItsLegs
<1>4. answers' = [answers EXCEPT ![m] = new]
  BY <1>2
<1> HIDE DEF is
<1>5. accountIdToSocket[m].data.beta \in BOOLEAN
  BY <1>1 DEF Sockets, Data
<1>6. new \in Answers /\ new.legs = is
  BY <1>3, <1>5 DEF Answers
<1> HIDE DEF new
<1>7. answers' \in [Accounts -> Answers \cup {None}]
  BY <1>1, <1>4, <1>6 DEF RequestTypes
<1>8. RequestTypes'
  BY <1>1, <1>7 DEF RequestTypes
<1>9. AskedForItsAssets' /\ StillThere'
  BY <1>1 DEF OrdersInv, AskedForItsAssets, StillThere
<1>10. answers'[m] = new /\ \A n \in Accounts : n # m => answers'[n] = answers[n]
  BY <1>1, <1>4 DEF RequestTypes
<1>11. AnswersMeetTheirLegs'
  <2> SUFFICES ASSUME NEW n \in Accounts, answers'[n] # None
      PROVE  /\ requested[n] # None
             /\ \A i \in DOMAIN request.legs \cap DOMAIN answers'[n].legs : \A k \in DOMAIN answers'[n].legs[i] :
                  answers'[n].legs[i][k].for = i /\ QuotesLeg(request.legs, requested[n].data, i)
    BY <1>1 DEF AnswersMeetTheirLegs
  <2>1. CASE n = m
    BY <1>1, <1>3, <1>6, <1>10, <2>1
  <2>2. CASE n # m
    BY <1>10, <2>2 DEF OrdersInv, AnswersMeetTheirLegs
  <2> QED
    BY <2>1, <2>2
<1>12. orders' = {}
  BY <1>1 DEF OrdersInv, OrdersComeLast
<1> QED
  BY <1>1, <1>8, <1>9, <1>11, <1>12, RequestMoves

\* What isBalanceWithinTolerance means, without rounding.
LEMMA CoversMeans ==
  ASSUME OrdersAssumption, NEW b \in Nat, NEW a \in Nat, Covers(b, a)
  PROVE  100 * a <= (100 + Tolerance) * b
<1> DEFINE p == b * Tolerance
<1>1. Tolerance \in Nat
  BY DEF OrdersAssumption
<1>2. p \in Nat /\ (100 + Tolerance) * b = 100 * b + p
  BY <1>1
<1>3. b + p \div 100 >= a
  BY DEF Covers
<1> HIDE DEF p
<1>4. 100 * (p \div 100) <= p /\ p \div 100 \in Nat
  BY <1>2
<1>5. 100 * a <= 100 * b + p
  BY <1>2, <1>3, <1>4
<1> QED
  BY <1>2, <1>5

\* Each order is one that its maker offered for the leg.
LEMMA OrdersAreOffers ==
  ASSUME OrdersAssumption, OrdersInv, request.pc = "collected", NEW m \in Accounts, Used(m),
         NEW i \in DOMAIN request.legs, NEW o \in OrdersFor(m, i)
  PROVE  /\ o.maker = m /\ o.leg = i /\ o.for = i /\ requested[m] # None
         /\ QuotesLeg(request.legs, requested[m].data, i)
         /\ o.amount \in Nat /\ o.offered \in Nat
         /\ WithinBalance(m, request.legs[i], o.amount)
         /\ o.tick = o.offered + MevFactor(m, request.legs[i])
<1> DEFINE leg == request.legs[i]
           offered == IF i \in DOMAIN answers[m].legs THEN answers[m].legs[i] ELSE <<>>
<1>1. PICK k \in DOMAIN offered :
        /\ WithinBalance(m, leg, offered[k].amount)
        /\ o = [maker |-> m, leg |-> i, k |-> k, for |-> offered[k].for, amount |-> offered[k].amount,
                offered |-> offered[k].tick, tick |-> offered[k].tick + MevFactor(m, leg)]
  BY DEF OrdersFor
<1>2. i \in DOMAIN answers[m].legs /\ offered = answers[m].legs[i]
  BY <1>1
<1>3. answers[m] # None /\ answers[m] \in Answers
  BY DEF Used, OrdersInv, RequestTypes
<1>4. offered[k].for = i /\ requested[m] # None /\ QuotesLeg(request.legs, requested[m].data, i)
  BY <1>1, <1>2, <1>3 DEF OrdersInv, AnswersMeetTheirLegs
<1>5. offered[k] \in Offer
  <2>1. answers[m].legs \in Seq(Seq(Offer))
    BY <1>3 DEF Answers
  <2>2. offered \in Seq(Offer)
    BY <1>2, <2>1
  <2> HIDE DEF offered
  <2> QED
    BY <1>1, <2>2
<1>6. offered[k].amount \in Nat /\ offered[k].tick \in Nat
  BY <1>5 DEF Offer
<1> HIDE DEF offered, leg
<1>7. /\ o.maker = m /\ o.leg = i /\ o.for = i /\ requested[m] # None
      /\ o.amount = offered[k].amount /\ o.offered = offered[k].tick
      /\ o.tick = offered[k].tick + MevFactor(m, leg)
  BY <1>1, <1>4
<1> QED
  BY <1>1, <1>4, <1>6, <1>7 DEF leg

LEMMA FormatLimitOrdersKeeps ==
  ASSUME OrdersAssumption, OrdersInv, FormatLimitOrders PROVE OrdersInv'
<1>1. /\ request.pc = "collected"
      /\ UNCHANGED <<client, accountIdToSocket, factors, requested, answers, balances, left>>
      /\ RequestTypes /\ accountIdToSocket \in [Accounts -> Sockets \cup {None}]
  BY DEF FormatLimitOrders, OrdersInv, ClientTypes
<1>2. /\ request'.pc = "done" /\ request'.legs = request.legs /\ request'.swap = request.swap
      /\ DOMAIN request' = {"pc", "swap", "legs"}
  BY <1>1 DEF FormatLimitOrders, RequestTypes
<1>3. RequestTypes' /\ ClientTypes' /\ OneClientEach' /\ factors' = ReplenishmentFactors(accountIdToSocket')
  BY <1>1, <1>2 DEF OrdersInv, RequestTypes, ClientTypes, OneClientEach
<1>4. AskedForItsAssets' /\ AnswersMeetTheirLegs' /\ StillThere'
  BY <1>1, <1>2 DEF OrdersInv, AskedForItsAssets, AnswersMeetTheirLegs, StillThere
<1>5. request.legs = Legs(request.swap) /\ request.swap \in Swaps
  BY <1>1 DEF RequestTypes
<1>6. ASSUME NEW o \in orders'
      PROVE  /\ o.maker \in Accounts /\ Used(o.maker) /\ o.leg \in DOMAIN request.legs
             /\ o \in OrdersFor(o.maker, o.leg)
  <2>1. PICK m \in Accounts, i \in DOMAIN request.legs : Used(m) /\ o \in OrdersFor(m, i)
    BY DEF FormatLimitOrders
  <2>2. o.maker = m /\ o.leg = i
    BY <1>1, <2>1, OrdersAreOffers
  <2> QED
    BY <2>1, <2>2
<1>7. OrdersComeLast'
  BY <1>2, <1>6 DEF OrdersComeLast
<1>8. ASSUME NEW o \in orders'
      PROVE  /\ o.leg = o.for /\ requested[o.maker] # None
             /\ QuotesLeg(request.legs, requested[o.maker].data, o.leg)
             /\ o.amount \in Nat /\ o.offered \in Nat
             /\ WithinBalance(o.maker, request.legs[o.leg], o.amount)
             /\ o.tick = o.offered + MevFactor(o.maker, request.legs[o.leg])
  BY <1>1, <1>6, <1>8, OrdersAreOffers
<1>9. OrdersMeetTheirLeg'
  BY <1>1, <1>2, <1>8 DEF OrdersMeetTheirLeg, QuotesLeg
<1>10. ASSUME NEW o \in orders' PROVE request.legs[o.leg] \in LegSet
  BY <1>5, <1>6, <1>10, LegsAre
<1>11. OrdersCovered'
  <2> SUFFICES ASSUME NEW o \in orders', balances[o.maker] # None
      PROVE  100 * o.amount <= (100 + Tolerance) * balances[o.maker][request.legs[o.leg].sells]
    BY <1>1, <1>2 DEF OrdersCovered
  <2> DEFINE b == balances[o.maker][request.legs[o.leg].sells]
  <2>1. b \in Nat
    BY <1>1, <1>6, <1>10 DEF RequestTypes, LegSet, OrdersAssumption
  <2>2. o.amount \in Nat /\ Covers(b, o.amount)
    BY <1>8 DEF WithinBalance
  <2> HIDE DEF b
  <2>3. 100 * o.amount <= (100 + Tolerance) * b
    BY <2>1, <2>2, CoversMeans
  <2> QED
    BY <2>3 DEF b
<1>12. MovedByFactorsUnlessLeft'
  <2> SUFFICES ASSUME NEW o \in orders'
      PROVE  LET moved == o.tick - o.offered
                 leg == request.legs[o.leg]
             IN  IF {request.swap.src, request.swap.dest} \subseteq Stablecoins THEN moved = 0
                 ELSE moved # requested[o.maker].data.mev[leg.side][leg.base] => o.maker \in left
    BY <1>1, <1>2 DEF MovedByFactorsUnlessLeft
  <2> DEFINE leg == request.legs[o.leg]
             by == MevFactor(o.maker, leg)
  <2>1. leg.side \in {"buy", "sell"} /\ leg.base \in Assets
    BY <1>10 DEF LegSet
  <2>2. o.offered \in Nat /\ o.tick = o.offered + by /\ requested[o.maker] # None /\ o.maker \in Accounts
    BY <1>6, <1>8
  <2>3. CASE {request.swap.src, request.swap.dest} \subseteq Stablecoins
    <3>1. by = 0
      BY <2>3 DEF MevFactor
    <3> HIDE DEF by
    <3> QED
      BY <2>2, <2>3, <3>1
  <2>4. CASE ~({request.swap.src, request.swap.dest} \subseteq Stablecoins) /\ o.maker \notin left
    <3>1. accountIdToSocket[o.maker] # None /\ accountIdToSocket[o.maker].data = requested[o.maker].data
      BY <2>2, <2>4 DEF OrdersInv, StillThere
    <3>2. by = requested[o.maker].data.mev[leg.side][leg.base]
      BY <2>4, <3>1 DEF MevFactor
    <3>3. requested[o.maker].data \in Data
      BY <1>1, <2>2 DEF RequestTypes, Asked
    <3>4. requested[o.maker].data.mev[leg.side][leg.base] \in Int
      <4>1. requested[o.maker].data.mev \in [{"buy", "sell"} -> [Assets -> Int]]
        BY <3>3 DEF Data
      <4> DEFINE mev == requested[o.maker].data.mev
      <4> HIDE DEF leg, mev
      <4>2. mev[leg.side] \in [Assets -> Int]
        BY <2>1, <4>1 DEF mev
      <4>3. mev[leg.side][leg.base] \in Int
        BY <2>1, <4>2
      <4> QED
        BY <4>3 DEF mev
    <3> HIDE DEF by, leg
    <3>5. o.tick - o.offered = by
      BY <2>2, <3>2, <3>4
    <3> QED
      BY <2>4, <3>2, <3>5 DEF leg
  <2> QED
    BY <2>3, <2>4
<1>13. BetaIsNotUsed'
  BY <1>1, <1>6 DEF BetaIsNotUsed, Used
<1> QED
  BY <1>3, <1>4, <1>7, <1>9, <1>11, <1>12, <1>13 DEF OrdersInv

-----------------------------------------------------------------------------

LEMMA OrdersInitially == ASSUME OrdersAssumption, OrdersInit PROVE OrdersInv
<1>1. /\ client = [c \in Clients |-> [st |-> "off", auth |-> FirstAuth(c)]]
      /\ accountIdToSocket = [m \in Accounts |-> None] /\ factors = [x \in Assets |-> 1]
      /\ request = [pc |-> "new", swap |-> None, legs |-> <<>>]
      /\ requested = [m \in Accounts |-> None] /\ answers = [m \in Accounts |-> None]
      /\ balances = [m \in Accounts |-> None] /\ orders = {} /\ left = {}
  BY DEF OrdersInit
<1>2. ClientTypes
  <2>1. \A c \in Clients : FirstAuth(c) \in [version : {"1", "2"}, assets : SUBSET Assets]
    BY DEF FirstAuth, OrdersAssumption
  <2> QED
    BY <1>1, <2>1 DEF ClientTypes
<1>3. RequestTypes
  BY <1>1 DEF RequestTypes
<1>4. OneClientEach
  BY <1>1 DEF OneClientEach
<1>5. factors = ReplenishmentFactors(accountIdToSocket)
  <2>1. \A x : Units(accountIdToSocket, x) = {}
    BY <1>1 DEF Units
  <2>2. \A x : Cardinality(Units(accountIdToSocket, x)) = 0
    BY <2>1, FS_EmptySet
  <2>3. \A x : Max2(1, Cardinality(Units(accountIdToSocket, x))) = 1
    BY <2>2 DEF Max2
  <2> QED
    BY <1>1, <2>3 DEF ReplenishmentFactors
<1>6. /\ AskedForItsAssets /\ AnswersMeetTheirLegs /\ StillThere /\ OrdersComeLast
      /\ OrdersMeetTheirLeg /\ OrdersCovered /\ MovedByFactorsUnlessLeft /\ BetaIsNotUsed
  BY <1>1 DEF AskedForItsAssets, AnswersMeetTheirLegs, StillThere, OrdersComeLast,
              OrdersMeetTheirLeg, OrdersCovered, MovedByFactorsUnlessLeft, BetaIsNotUsed
<1> QED
  BY <1>2, <1>3, <1>4, <1>5, <1>6 DEF OrdersInv

LEMMA OrdersNextKeeps ==
  ASSUME OrdersAssumption, OrdersInv, [OrdersNext]_limitVars PROVE OrdersInv'
<1>1. CASE \E c \in Clients : Open(c) \/ ConnectError(c) \/ Join(c) \/ Leave(c)
  BY <1>1, OpenKeeps, ConnectErrorKeeps, JoinKeeps, LeaveKeeps
<1>2. CASE \E swap \in Swaps : GetLimitOrders(swap)
  BY <1>2, GetLimitOrdersKeeps
<1>3. CASE \E m \in Accounts : ReceiveAnswer(m)
  BY <1>3, ReceiveAnswerKeeps
<1>4. CASE SendRequests
  BY <1>4, SendRequestsKeeps
<1>5. CASE Collected
  BY <1>5, CollectedKeeps
<1>6. CASE FormatLimitOrders
  BY <1>6, FormatLimitOrdersKeeps
<1>7. CASE UNCHANGED limitVars
  <2>1. UNCHANGED orderVars /\ left \subseteq left' /\ UNCHANGED <<client, accountIdToSocket, factors>>
    BY <1>7 DEF limitVars
  <2>2. ClientTypes' /\ OneClientEach' /\ factors' = ReplenishmentFactors(accountIdToSocket')
    BY <2>1 DEF OrdersInv, ClientTypes, OneClientEach
  <2>3. \A m \in Accounts : accountIdToSocket'[m] = accountIdToSocket[m]
    BY <2>1
  <2> QED
    BY <2>1, <2>2, <2>3, ClientsMove
<1> QED
  BY <1>1, <1>2, <1>3, <1>4, <1>5, <1>6, <1>7 DEF OrdersNext

LEMMA OrdersInvSuffices == ASSUME OrdersAssumption, OrdersInv PROVE OrdersAreSound
<1>1. FactorsOfConnected
  BY FactorsFollow DEF OrdersInv
<1>2. SocketsTypeOK
  BY DEF OrdersInv, OneClientEach, AnswersMeetTheirLegs, SocketsTypeOK
<1> QED
  BY <1>1, <1>2 DEF OrdersInv, OrdersAreSound

(* However makers connect, are refused, leave and come back while a request *)
(* is under way (authenticate.ts, the connection handlers and               *)
(* getLimitOrders of Quoter.ts): each account has one socket at most, the   *)
(* factors are those of the connected, and every order is for the leg its   *)
(* maker was asked for, covered, moved by its factors unless it left, and   *)
(* of no beta maker.                                                        *)
THEOREM OrdersSound == OrdersSpec => []OrdersAreSound
<1>1. OrdersInit => OrdersInv
  BY OrdersAssumption, OrdersInitially
<1>2. OrdersInv /\ [OrdersNext]_limitVars => OrdersInv'
  BY OrdersAssumption, OrdersNextKeeps
<1>3. OrdersInv => OrdersAreSound
  BY OrdersAssumption, OrdersInvSuffices
<1> QED
  BY <1>1, <1>2, <1>3, PTL DEF OrdersSpec

=============================================================================
