------------------------------- MODULE Quoter -------------------------------
(***************************************************************************)
(* Quoter (swap/src/quoting/Quoter.ts): requests for limit orders that are *)
(* broadcast to the connected market makers, each collecting the answers   *)
(* until every expected one is there or QUOTE_TIMEOUT has passed.  All     *)
(* requests under way listen to one stream of answers, quotes$.            *)
(*                                                                         *)
(* An answer is valid or not for the schema; one that is not carries no    *)
(* request id on the stream.  A valid answer to a request that is not in   *)
(* flight, and a second connection of a maker, change nothing here and are *)
(* not actions.  A maker only knows the ids of requests it was sent, so    *)
(* the branch for a missing format function is out of reach.               *)
(***************************************************************************)
EXTENDS Integers, FiniteSets

CONSTANTS
    Makers,       \* market maker accounts
    Beta,         \* those whose quotes are not used and not reported
    Requests,     \* the ids createId returns, one for each getLimitOrders
    MaxInvalid    \* bound: answers that fail the schema

ASSUME QuoterAssumption ==
    /\ IsFiniteSet(Makers)
    /\ Beta \subseteq Makers
    /\ MaxInvalid \in Nat

VARIABLES
    connected,    \* keys of accountIdToSocket, the makers io knows
    inflight,     \* keys of inflightRequests
    phase,        \* where collectMakerQuotes is, or how it ended
    asked,        \* quotedLegsMap: the makers a request was sent to
    expected,     \* expectedResponses
    quotes,       \* clientsReceivedQuotes: the makers whose quote is used
    responders,   \* the makers that answered a request in flight
    verdicts,     \* what was published about a maker and a request
    lowered,      \* history: how often a collecting request expected one less
    spoilers,     \* history: the makers that sent an answer that fails the schema
    invalid       \* counter behind MaxInvalid

vars == <<connected, inflight, phase, asked, expected, quotes, responders,
          verdicts, lowered, spoilers, invalid>>

Ended == {"nobody asked", "all-received", "timeout"}

Collecting == {r \in Requests : phase[r] = "collecting"}

Verdicts == [request : Requests, maker : Makers, kind : {"received", "error", "timeout"}]

-----------------------------------------------------------------------------

Init ==
    /\ connected \in SUBSET Makers
    /\ inflight = {}
    /\ phase = [r \in Requests |-> "new"]
    /\ asked = [r \in Requests |-> {}]
    /\ expected = [r \in Requests |-> 0]
    /\ quotes = [r \in Requests |-> {}]
    /\ responders = [r \in Requests |-> {}]
    /\ verdicts = {}
    /\ lowered = [r \in Requests |-> 0]
    /\ spoilers = {}
    /\ invalid = 0

Publishes(r, m, kind) ==
    verdicts' = verdicts \cup
        (IF m \in Beta THEN {} ELSE {[request |-> r, maker |-> m, kind |-> kind]})

Connect(m) ==
    /\ m \notin connected
    /\ connected' = connected \cup {m}
    /\ UNCHANGED <<inflight, phase, asked, expected, quotes, responders, verdicts, lowered, spoilers, invalid>>

Disconnect(m) ==
    /\ m \in connected
    /\ connected' = connected \ {m}
    /\ UNCHANGED <<inflight, phase, asked, expected, quotes, responders, verdicts, lowered, spoilers, invalid>>

\* collectMakerQuotes up to the await of fetchSockets.
Begin(r) ==
    /\ phase[r] = "new"
    /\ IF connected = {}
       THEN /\ phase' = [phase EXCEPT ![r] = "nobody asked"]
            /\ UNCHANGED inflight
       ELSE /\ phase' = [phase EXCEPT ![r] = "asking"]
            /\ inflight' = inflight \cup {r}
    /\ UNCHANGED <<connected, asked, expected, quotes, responders, verdicts, lowered, spoilers, invalid>>

\* The return without the delete.
NobodyAskedKeepsEntry(r) ==
    /\ phase[r] = "asking"
    /\ phase' = [phase EXCEPT ![r] = "nobody asked"]
    /\ UNCHANGED <<connected, inflight, asked, expected, quotes, responders, verdicts, lowered, spoilers, invalid>>

\* Nobody who is connected quotes a leg of this swap.
NobodyAsked(r) ==
    /\ phase[r] = "asking"
    /\ phase' = [phase EXCEPT ![r] = "nobody asked"]
    /\ inflight' = inflight \ {r}
    /\ UNCHANGED <<connected, asked, expected, quotes, responders, verdicts, lowered, spoilers, invalid>>

\* One message to each maker that quotes a leg, then the subscription.
Ask(r, ms) ==
    /\ phase[r] = "asking"
    /\ ms # {}
    /\ phase' = [phase EXCEPT ![r] = "collecting"]
    /\ asked' = [asked EXCEPT ![r] = ms]
    /\ expected' = [expected EXCEPT ![r] = Cardinality(ms)]
    /\ UNCHANGED <<connected, inflight, quotes, responders, verdicts, lowered, spoilers, invalid>>

AnyConnected(m, r) == m \in connected

\* A quote_request reaches the makers it was sent to.
MayAnswer(m, r) == m \in connected \cap asked[r]

EnoughOrMore(r, n) == n >= expected[r]

Enough(r, n) == n = expected[r]

\* A maker may answer a request any number of times; the last quote counts.
ReceiveQuote(m, r) ==
    /\ MayAnswer(m, r)
    /\ r \in Collecting
    /\ responders' = [responders EXCEPT ![r] = @ \cup {m}]
    /\ Publishes(r, m, "received")
    /\ quotes' = [quotes EXCEPT ![r] = @ \cup {m}]
    /\ IF Enough(r, Cardinality(quotes'[r]))
       THEN /\ phase' = [phase EXCEPT ![r] = "all-received"]
            /\ inflight' = inflight \ {r}
       ELSE UNCHANGED <<phase, inflight>>
    /\ UNCHANGED <<connected, asked, expected, lowered, spoilers, invalid>>

\* Every subscriber of quotes$ takes the null quote for one of its own.
ExpectOneLess ==
    /\ expected' = [r \in Requests |-> IF r \in Collecting THEN expected[r] - 1 ELSE expected[r]]
    /\ lowered' = [r \in Requests |-> IF r \in Collecting THEN lowered[r] + 1 ELSE lowered[r]]

Spoils(m) ==
    /\ invalid < MaxInvalid
    /\ invalid' = invalid + 1
    /\ spoilers' = spoilers \cup {m}

NoteResponder(m, r) == responders' = [responders EXCEPT ![r] = @ \cup {m}]

\* An answer that fails the schema, its request_id readable ...
ReceiveInvalid(m, r) ==
    /\ MayAnswer(m, r)
    /\ Spoils(m)
    /\ IF r \in inflight
       THEN NoteResponder(m, r) /\ Publishes(r, m, "error")
       ELSE UNCHANGED <<responders, verdicts>>
    /\ ExpectOneLess
    /\ UNCHANGED <<connected, inflight, phase, asked, quotes>>

\* ... or not.
ReceiveUnreadable(m) ==
    /\ m \in connected
    /\ Spoils(m)
    /\ ExpectOneLess
    /\ UNCHANGED <<connected, inflight, phase, asked, quotes, responders, verdicts>>

\* A maker that left is not in accountIdToSocket: it is not known to be beta.
KnownBeta == Beta \cap connected

Silent(r) == asked[r] \ (responders[r] \cup KnownBeta)

TimeoutIfQuoted(r) ==
    /\ phase[r] = "collecting"
    /\ quotes[r] # {}
    /\ verdicts' = verdicts \cup {[request |-> r, maker |-> m, kind |-> "timeout"] : m \in Silent(r)}
    /\ phase' = [phase EXCEPT ![r] = "timeout"]
    /\ inflight' = inflight \ {r}
    /\ UNCHANGED <<connected, asked, expected, quotes, responders, lowered, spoilers, invalid>>

Timeout(r) ==
    /\ phase[r] = "collecting"
    /\ verdicts' = verdicts \cup {[request |-> r, maker |-> m, kind |-> "timeout"] : m \in Silent(r)}
    /\ phase' = [phase EXCEPT ![r] = "timeout"]
    /\ inflight' = inflight \ {r}
    /\ UNCHANGED <<connected, asked, expected, quotes, responders, lowered, spoilers, invalid>>

Next ==
    \/ \E m \in Makers :
          \/ Connect(m) \/ Disconnect(m) \/ ReceiveUnreadable(m)
          \/ \E r \in Requests : ReceiveQuote(m, r) \/ ReceiveInvalid(m, r)
    \/ \E r \in Requests :
          \/ Begin(r) \/ NobodyAsked(r) \/ Timeout(r)
          \/ \E ms \in SUBSET connected : Ask(r, ms)

\* fetchSockets answers and the timer of a request fires; no maker has to answer.
Fairness == \A r \in Requests :
    /\ WF_vars(NobodyAsked(r) \/ \E ms \in SUBSET connected : Ask(r, ms))
    /\ WF_vars(Timeout(r))

Spec == Init /\ [][Next]_vars /\ Fairness

-----------------------------------------------------------------------------

\* Type invariant.
TypeOK ==
    /\ connected \subseteq Makers
    /\ inflight \subseteq Requests
    /\ phase \in [Requests -> {"new", "asking", "collecting"} \cup Ended]
    /\ asked \in [Requests -> SUBSET Makers]
    /\ expected \in [Requests -> Int]
    /\ quotes \in [Requests -> SUBSET Makers]
    /\ responders \in [Requests -> SUBSET Makers]
    /\ verdicts \subseteq Verdicts
    /\ lowered \in [Requests -> 0..MaxInvalid]
    /\ spoilers \subseteq Makers
    /\ invalid \in 0..MaxInvalid
    /\ \A r \in Requests : quotes[r] \subseteq responders[r] /\ responders[r] \subseteq asked[r]

\* Every way out of collectMakerQuotes takes the request out of the map, and
\* none takes out one that still waits: nothing leaks, no answer in time is
\* turned away as unknown.
InflightIsUnderWay == inflight = {r \in Requests : phase[r] \in {"asking", "collecting"}}

\* A request that ends with all-received lacks exactly as many makers as there
\* were invalid answers, to whatever request, while it was collecting.
ShortByTheInvalidAnswers == \A r \in Requests :
    phase[r] = "all-received" => Cardinality(asked[r] \ quotes[r]) = lowered[r]

\* When a request times out, each maker it was sent to has one verdict: it
\* answered in time, or it is reported as timed out, never both or neither.
OneVerdictAtTimeout == \A r \in Requests, m \in Makers \ Beta :
    LET kinds == {v.kind : v \in {w \in verdicts : w.request = r /\ w.maker = m}}
    IN  phase[r] = "timeout" /\ m \in asked[r] =>
            /\ kinds # {}
            /\ "timeout" \in kinds => kinds = {"timeout"}

\* Nothing that a request or a maker of it did is lost or counted twice.
RequestsAreAccountedFor == InflightIsUnderWay /\ OneVerdictAtTimeout

\* Whatever makers do, a request that began comes back.
EveryRequestEnds == \A r \in Requests : phase[r] = "asking" ~> phase[r] \in Ended

\* "eagerly returns after all expected quotes are received": a request that
\* ends before its timeout lacks nobody who did nothing wrong.
EndsEarlyWithAllWhoMay == \A r \in Requests :
    phase[r] = "all-received" => asked[r] \ quotes[r] \subseteq spoilers
=============================================================================
