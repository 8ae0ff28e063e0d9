----------------------------- MODULE LimitOrders -----------------------------
(***************************************************************************)
(* From the connection of a market maker to the limit orders of a quote:   *)
(* the handshake, the sockets the Quoter knows, the legs each maker is     *)
(* asked for, its answer, its balance and its factors.                     *)
(*                                                                         *)
(* Quoter models when a request ends; here one request is followed through *)
(* its data and may end at any time.  A socket carries what the database   *)
(* and the handshake said when it was opened, and is gone when it closes.  *)
(* An order of an answer remembers the leg it was made for.                *)
(***************************************************************************)
EXTENDS Integers, Sequences, FiniteSets

CONSTANTS
  Accounts,        \* accounts in the database
  Clients,       \* processes that run QuotingClient
  AccountOf,     \* the account of each client
  QuotedAssets,  \* the assets each client quotes
  Records,       \* [beta, mev, repl]: what the database may say of an account
  Swaps,         \* [src, dest]
  Stablecoins, Assets,
  Books,         \* what a maker may offer for a leg: amounts, the best tick first
  Holdings,      \* what an account may hold: amounts by asset
  Tolerance,     \* QUOTER_BALANCE_TOLERANCE_PERCENT
  None

Formats == {"singleOrBothLegs", "padSecondLeg", "padFirstLeg"}
Data == [beta : BOOLEAN, mev : [{"buy", "sell"} -> [Assets -> Int]],
         quotedAssets : SUBSET Assets, repl : [Assets -> Nat]]
Sockets == [client : Clients, data : Data]
Asked == [format : Formats, data : Data]
Offer == [tick : Nat, amount : Nat, for : 0..2]
Answers == [beta : BOOLEAN, legs : Seq(Seq(Offer))]

\* A swap is from one asset to another; nothing that is there is taken for missing.
ASSUME OrdersAssumption ==
  /\ IsFiniteSet(Accounts) /\ AccountOf \in [Clients -> Accounts]
  /\ QuotedAssets \in [Clients -> SUBSET Assets] /\ "Usdc" \in Assets
  /\ \A r \in Records : /\ r.beta \in BOOLEAN /\ r.repl \in [Assets -> Int]
                        /\ r.mev \in [{"buy", "sell"} -> [Assets -> Int]]
  /\ \A s \in Swaps : s.src \in Assets /\ s.dest \in Assets /\ s.src # s.dest
  /\ Books \subseteq Seq(Nat) /\ Holdings \subseteq [Assets -> Nat] /\ Tolerance \in Nat
  /\ None \notin Sockets \cup Asked \cup Answers \cup Holdings \cup Formats

VARIABLES
  client,             \* [st, auth] of each client
  accountIdToSocket,  \* [client, data] of each account, None if there is none
  factors,            \* replenishmentFactors
  request,            \* [pc, swap, legs]: the call of getLimitOrders
  requested,          \* [format, data] of each maker that was asked, None for the others
  answers,            \* [beta, legs] of each maker that answered, None for the others
  balances,           \* what getBalances said: None for an account it did not know
  orders,             \* what is returned
  left                \* history: the makers that disconnected since they were asked

orderVars == <<request, requested, answers, balances, orders>>
limitVars == <<client, accountIdToSocket, factors, orderVars, left>>

Max2(x, y) == IF x > y THEN x ELSE y

-----------------------------------------------------------------------------
(* QuotingClient and authenticate.                                         *)

FirstAuth(c) == [version |-> "2", assets |-> QuotedAssets[c]]

\* What the handler of connect_error sets: a new signature, and no assets.
RetryAuth == [version |-> "1", assets |-> {}]

OrdersInit ==
  /\ client = [c \in Clients |-> [st |-> "off", auth |-> FirstAuth(c)]]
  /\ accountIdToSocket = [m \in Accounts |-> None]
  /\ factors = [x \in Assets |-> 1]
  /\ request = [pc |-> "new", swap |-> None, legs |-> <<>>]
  /\ requested = [m \in Accounts |-> None] /\ answers = [m \in Accounts |-> None]
  /\ balances = [m \in Accounts |-> None]
  /\ orders = {} /\ left = {}

\* connect.
Open(c) ==
  /\ client[c].st = "off"
  /\ client' = [client EXCEPT ![c] = [st |-> "retrying", auth |-> FirstAuth(c)]]
  /\ UNCHANGED <<accountIdToSocket, factors, orderVars, left>>

\* The service is not reachable, or refuses the timestamp or the signature.
ConnectError(c) ==
  /\ client[c].st = "retrying"
  /\ client' = [client EXCEPT ![c].auth = RetryAuth]
  /\ UNCHANGED <<accountIdToSocket, factors, orderVars, left>>

\* authSchema.
ValidAuth(auth) == auth.version = "2" /\ auth.assets # {}

\* A factor below 0 or of an asset that is not quoted is left out.
SocketData(record, auth) ==
  [beta |-> record.beta, mev |-> record.mev, quotedAssets |-> auth.assets,
   repl |-> [x \in Assets |-> IF x \in auth.assets THEN Max2(record.repl[x], 0) ELSE 0]]

\* The sum of what the makers add for an asset: as many as their units together.
Units(sockets, x) ==
  UNION {{m} \X (1 .. sockets[m].data.repl[x]) : m \in {a \in Accounts : sockets[a] # None}}

ReplenishmentFactors(sockets) == [x \in Assets |-> Max2(1, Cardinality(Units(sockets, x)))]

-----------------------------------------------------------------------------
(* The connection and disconnect handlers of the Quoter.                   *)

Refuses(m) == accountIdToSocket[m] # None

Join(c) ==
  LET m == AccountOf[c]
  IN  /\ client[c].st = "retrying" /\ ValidAuth(client[c].auth)
      /\ IF Refuses(m)
         THEN client' = [client EXCEPT ![c].st = "off"] /\ UNCHANGED <<accountIdToSocket, factors>>
         ELSE /\ \E record \in Records :
                   accountIdToSocket' = [accountIdToSocket EXCEPT ![m] =
                                           [client |-> c, data |-> SocketData(record, client[c].auth)]]
              /\ client' = [client EXCEPT ![c].st = "connected"]
              /\ factors' = ReplenishmentFactors(accountIdToSocket')
      /\ UNCHANGED <<orderVars, left>>

\* The client closes the socket, or loses it and connects again as before.
Leave(c) ==
  LET m == AccountOf[c]
  IN  /\ client[c].st = "connected"
      /\ \E st \in {"off", "retrying"} : client' = [client EXCEPT ![c].st = st]
      /\ accountIdToSocket' = [accountIdToSocket EXCEPT ![m] = None]
      /\ factors' = ReplenishmentFactors(accountIdToSocket')
      /\ left' = left \cup {m}
      /\ UNCHANGED orderVars

-----------------------------------------------------------------------------
(* getLimitOrders.                                                         *)

\* Side and asset are the maker's: it takes the opposite side of the swapper.
Leg(src, dest) ==
  IF dest # "Usdc" THEN [base |-> dest, side |-> "sell", sells |-> dest]
  ELSE [base |-> src, side |-> "buy", sells |-> "Usdc"]

Legs(swap) ==
  IF "Usdc" \in {swap.src, swap.dest} THEN <<Leg(swap.src, swap.dest)>>
  ELSE <<Leg(swap.src, "Usdc"), Leg("Usdc", swap.dest)>>

\* Two legs need the price of the source asset.
GetLimitOrders(swap) ==
  /\ request.pc = "new"
  /\ \/ request' = [pc |-> "asking", swap |-> swap, legs |-> Legs(swap)]
     \/ Len(Legs(swap)) = 2 /\ request' = [pc |-> "failed", swap |-> swap, legs |-> <<>>]
  /\ UNCHANGED <<client, accountIdToSocket, factors, requested, answers, balances, orders, left>>

QuotesLeg(legs, data, i) == i \in DOMAIN legs /\ legs[i].base \in data.quotedAssets

\* padSecondLeg and padFirstLeg are named for the leg that is left empty.
FormatFor(legs, data) ==
  CASE QuotesLeg(legs, data, 1) /\ (Len(legs) = 2 => QuotesLeg(legs, data, 2)) -> "singleOrBothLegs"
    [] QuotesLeg(legs, data, 1) /\ Len(legs) = 2 /\ ~QuotesLeg(legs, data, 2) -> "padSecondLeg"
    [] ~QuotesLeg(legs, data, 1) /\ QuotesLeg(legs, data, 2) -> "padFirstLeg"
    [] OTHER -> None

\* The legs of the message, by their number in the request.
LegsOf(format) ==
  CASE format = "singleOrBothLegs" -> [i \in DOMAIN request.legs |-> i]
    [] format = "padSecondLeg" -> <<1>>
    [] format = "padFirstLeg" -> <<2>>

SendRequests ==
  /\ request.pc = "asking"
  /\ requested' = [m \in Accounts |->
       LET data == accountIdToSocket[m].data
           format == FormatFor(request.legs, data)
       IN  IF accountIdToSocket[m] = None \/ format = None THEN None
           ELSE [format |-> format, data |-> data]]
  /\ request' = [request EXCEPT !.pc = "collecting"]
  /\ left' = {}
  /\ UNCHANGED <<client, accountIdToSocket, factors, answers, balances, orders>>

Format(format, legs) ==
  CASE format = "singleOrBothLegs" -> legs
    [] format = "padSecondLeg" -> <<legs[1], <<>>>>
    [] format = "padFirstLeg" -> <<<<>>, legs[1]>>

\* A valid answer has one leg or two, however many were asked for.
ValidAnswers(format) ==
  LET meant(i) == IF i <= Len(LegsOf(format)) THEN LegsOf(format)[i] ELSE 0
      leg(book, i) == [k \in DOMAIN book |-> [tick |-> k, amount |-> book[k], for |-> meant(i)]]
  IN  {<<leg(b, 1)>> : b \in Books} \cup {<<leg(b, 1), leg(d, 2)>> : b, d \in Books}

\* Through the socket of the moment, which may not be the one that was asked.
ReceiveAnswer(m) ==
  /\ request.pc = "collecting" /\ requested[m] # None /\ accountIdToSocket[m] # None
  /\ \E legs \in ValidAnswers(requested[m].format) :
       answers' = [answers EXCEPT ![m] = [beta |-> accountIdToSocket[m].data.beta,
                                        legs |-> Format(requested[m].format, legs)]]
  /\ UNCHANGED <<client, accountIdToSocket, factors, request, requested, balances, orders, left>>

\* All answered or the time is over, and getBalances has returned; which
\* accounts it knew and when it asked is up to the BalanceTracker.
Collected ==
  /\ request.pc = "collecting"
  /\ request' = [request EXCEPT !.pc = "collected"]
  /\ balances' \in [Accounts -> {None} \cup Holdings]
  /\ UNCHANGED <<client, accountIdToSocket, factors, requested, answers, orders, left>>

\* isBalanceWithinTolerance.
Covers(balance, amount) == balance + (balance * Tolerance) \div 100 >= amount

\* MUTANT: the maker's balance of what it buys.
WithinBoughtBalance(m, leg, amount) ==
  balances[m] # None =>
    Covers(balances[m][IF leg.side = "sell" THEN "Usdc" ELSE leg.base], amount)

WithinBalance(m, leg, amount) ==
  balances[m] # None => Covers(balances[m][leg.sells], amount)

MevFactor(m, leg) ==
  IF {request.swap.src, request.swap.dest} \subseteq Stablecoins \/ accountIdToSocket[m] = None THEN 0
  ELSE accountIdToSocket[m].data.mev[leg.side][leg.base]

Used(m) == answers[m] # None /\ ~answers[m].beta

\* The orders of maker m for a leg: k of quote.legs[leg], if there is such a leg.
OrdersFor(m, i) ==
  LET leg == request.legs[i]
      offered == IF i \in DOMAIN answers[m].legs THEN answers[m].legs[i] ELSE <<>>
  IN  {[maker |-> m, leg |-> i, k |-> k, for |-> offered[k].for, amount |-> offered[k].amount,
        offered |-> offered[k].tick, tick |-> offered[k].tick + MevFactor(m, leg)] :
         k \in {x \in DOMAIN offered : WithinBalance(m, leg, offered[x].amount)}}

FormatLimitOrders ==
  /\ request.pc = "collected"
  /\ orders' = UNION {OrdersFor(m, i) : m \in {x \in Accounts : Used(x)}, i \in DOMAIN request.legs}
  /\ request' = [request EXCEPT !.pc = "done"]
  /\ UNCHANGED <<client, accountIdToSocket, factors, requested, answers, balances, left>>

OrdersNext ==
  \/ \E c \in Clients : Open(c) \/ ConnectError(c) \/ Join(c) \/ Leave(c)
  \/ \E swap \in Swaps : GetLimitOrders(swap)
  \/ \E m \in Accounts : ReceiveAnswer(m)
  \/ SendRequests \/ Collected \/ FormatLimitOrders

\* A client that tries goes on trying; the service is reachable.
ClientFairness == \A c \in Clients : WF_limitVars(Join(c))

OrdersSpec == OrdersInit /\ [][OrdersNext]_limitVars /\ ClientFairness

-----------------------------------------------------------------------------
(* What holds.                                                             *)

(* A maker is known to the Quoter exactly while one client is connected as *)
(* it, by the socket of that client.                                       *)
SocketsTypeOK ==
  /\ \A m \in Accounts :
       {c \in Clients : AccountOf[c] = m /\ client[c].st = "connected"} =
         IF accountIdToSocket[m] = None THEN {} ELSE {accountIdToSocket[m].client}
  /\ \A m \in Accounts : answers[m] # None => requested[m] # None

(* The replenishment factors are those of the makers that are connected:   *)
(* nothing of one that left is kept, and no asset falls below 1.           *)
FactorsOfConnected ==
  \A x \in Assets :
    LET at == {m \in Accounts : accountIdToSocket[m] # None}
        of(m) == accountIdToSocket[m].data.repl[x]
    IN  /\ factors[x] >= 1 /\ \A m \in at : factors[x] >= of(m)
        /\ (\A m \in at : of(m) = 0) => factors[x] = 1
        /\ \A m, n \in at : m # n /\ at = {m, n} => factors[x] = Max2(1, of(m) + of(n))

(* An order is used for the leg its maker was asked for it, and only if it *)
(* was asked: whatever else an answer carries never becomes an order.      *)
OrdersMeetTheirLeg ==
  \A o \in orders :
    /\ o.leg = o.for
    /\ request.legs[o.leg].base \in requested[o.maker].data.quotedAssets

(* No order sells more than its maker holds and the tolerance, as far as   *)
(* the balance is known; together they may, as each is compared alone.     *)
OrdersCovered ==
  \A o \in orders : balances[o.maker] # None =>
    100 * o.amount <= (100 + Tolerance) * balances[o.maker][request.legs[o.leg].sells]

(* A tick is moved by what the maker's factors were when it was asked,     *)
(* unless the maker disconnected since: then it may be by other factors,   *)
(* or not at all.  Swaps between stablecoins are never moved.              *)
MovedByFactorsUnlessLeft ==
  \A o \in orders :
    LET moved == o.tick - o.offered
        leg == request.legs[o.leg]
    IN  IF {request.swap.src, request.swap.dest} \subseteq Stablecoins THEN moved = 0
        ELSE moved # requested[o.maker].data.mev[leg.side][leg.base] => o.maker \in left

(* The quote of a maker that was beta when it answered is not used, though *)
(* it may have left or come back otherwise since.                          *)
BetaIsNotUsed == \A o \in orders : ~answers[o.maker].beta

(* Orders are those of the makers that were asked, with what these hold    *)
(* and had set when they were, however sockets come and go meanwhile.      *)
OrdersAreSound ==
  /\ SocketsTypeOK /\ FactorsOfConnected
  /\ OrdersMeetTheirLeg /\ OrdersCovered /\ MovedByFactorsUnlessLeft /\ BetaIsNotUsed

(* "retry with a new signature" (QuotingClient.ts:75): a client that goes  *)
(* on trying is let in.                                                    *)
RetryGetsIn == \A c \in Clients : client[c].st = "retrying" ~> client[c].st # "retrying"
=============================================================================
