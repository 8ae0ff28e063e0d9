-------------------------- MODULE DepositChannels --------------------------
(***************************************************************************)
(* The deposit channels of the swap service.  A channel is opened on the   *)
(* State Chain, by an HTTP request through the service's broker or by      *)
(* someone else.  Its row is written twice, in either order: by the        *)
(* request (openSwapDepositChannel, openAccountCreationDepositChannel) and *)
(* by the processor when it reaches the event of the opening.  The         *)
(* processor also expires the rows when the height of the external chain   *)
(* passes them (chainStateUpdated).                                        *)
(*                                                                         *)
(* A Prisma upsert with nested writes reads the row, and then inserts or   *)
(* updates it: of two that race, the second insert fails on the unique     *)
(* key.  The request then fails; the processor rolls its block back and    *)
(* tries it again.  The processor's block is one step, its commit, after   *)
(* the step in which its upsert reads.                                     *)
(***************************************************************************)
EXTENDS Naturals, Sequences, FiniteSets

CONSTANTS
  Channels,      \* channels: pairs <<chain, id>>; ids start again on each chain
  Requests,      \* HTTP requests that open a channel
  Messages,      \* CCM messages; None is a swap without one
  MaxOpen,       \* MAX_CHANNELS_OPEN_PER_ADDRESS
  MaxHeight,     \* bound: heights of the external chains
  MaxBlock,      \* bound: blocks of the State Chain
  None

ASSUME MaxOpenAssumption == MaxOpen \in Nat \ {0}
ASSUME BoundsAssumption == IsFiniteSet(Channels) /\ MaxHeight \in Nat /\ MaxBlock \in Nat \ {0}

VARIABLES
  opened,    \* State Chain: what was opened, with the height it expires at
  ready,     \* opening events the processor has not reached, oldest first
  base,      \* table depositChannel: the type of a channel
  swapCh,    \* table swapDepositChannel
  accCh,     \* table accountCreationDepositChannel
  tracking,  \* table chainTracking
  block,     \* table state: the height of the last committed block
  earlier,   \* history: the heights one block before `block`
  request,   \* the HTTP requests
  upsert,    \* the upsert of the processor: what it has read
  late       \* history: channels asked for while another was not yet stored

chanVars == <<opened, ready, base, swapCh, accCh, tracking, block, earlier, request, upsert, late>>

ChainOf(c) == c[1]
Chains == {ChainOf(c) : c \in Channels}
Backends == {"SWAP", "ACCOUNT_CREATION"}

Types == Backends \cup {"LIQUIDITY"}
Opening == [type : Types, by : Requests \cup {None},
            msg : Messages \cup {None}, expiry : Nat, issuedBlock : Nat]
Rows == [backend : BOOLEAN, beneficiaries : BOOLEAN, msg : Messages \cup {None},
         quote : BOOLEAN, isExpired : BOOLEAN]

ASSUME NoneAssumption ==
  None \notin Requests /\ None \notin Opening /\ None \notin Rows /\ None \notin Types

Row(backend, bens, msg, quote) ==
  [backend |-> backend, beneficiaries |-> bens, msg |-> msg, quote |-> quote,
   isExpired |-> FALSE]

ChanInit ==
  /\ opened = [c \in Channels |-> None]
  /\ ready = <<>>
  /\ base = [c \in Channels |-> None]
  /\ swapCh = [c \in Channels |-> None]
  /\ accCh = [c \in Channels |-> None]
  /\ tracking = [ch \in Chains |-> [height |-> 1, previousHeight |-> 1, eventWitnessedBlock |-> 0]]
  /\ block = 1
  /\ earlier = [ch \in Chains |-> 1]
  /\ request = [q \in Requests |-> [pc |-> "idle", chain |-> None, type |-> None, msg |-> None,
                                    quote |-> FALSE, late |-> FALSE, found |-> FALSE]]
  /\ upsert = "idle"
  /\ late = {}

-----------------------------------------------------------------------------
(* The State Chain opens the next channel of a chain.  The processor has   *)
(* not reached the event, so the channel expires above every height that   *)
(* the processor has seen.  A block may open several (same).               *)
Open(c, type, by, msg) ==
  /\ opened[c] = None
  /\ \A d \in Channels : ChainOf(d) = ChainOf(c) /\ d[2] < c[2] => opened[d] # None
  /\ \E e \in (tracking[ChainOf(c)].height + 1)..MaxHeight, same \in BOOLEAN :
       /\ same => ready # <<>>
       /\ opened' = [opened EXCEPT ![c] =
            [type |-> type, by |-> by, msg |-> msg, expiry |-> e,
             issuedBlock |-> IF same THEN opened[ready[Len(ready)]].issuedBlock
                             ELSE 1 + Cardinality({d \in Channels : opened[d] # None})]]
  /\ ready' = Append(ready, c)

\* A channel of another broker, or of a liquidity provider.
OpenedElsewhere(c, type, msg) ==
  /\ Open(c, type, None, msg)
  /\ UNCHANGED <<base, swapCh, accCh, tracking, block, earlier, request, upsert, late>>

-----------------------------------------------------------------------------
(* The HTTP requests.                                                      *)

\* The open channels to the address: a request without a message counts
\* those of every message.
OpenChannelsOfBackend(ch, msg) ==
  {c \in Channels : /\ ChainOf(c) = ch /\ swapCh[c] # None
                    /\ ~swapCh[c].isExpired /\ swapCh[c].backend
                    /\ msg # None => swapCh[c].msg = msg}
OpenChannels(ch, msg) ==
  {c \in Channels : /\ ChainOf(c) = ch /\ swapCh[c] # None
                    /\ ~swapCh[c].isExpired
                    /\ msg # None => swapCh[c].msg = msg}

\* What a count cannot see: requests under way, and channels without a row.
Unstored(ch) ==
  \/ \E q \in Requests : /\ request[q].pc \in {"counted", "opened", "reading"}
                         /\ request[q].chain = ch /\ request[q].type = "SWAP"
  \/ \E c \in Channels : /\ ChainOf(c) = ch /\ opened[c] # None
                         /\ opened[c].type = "SWAP" /\ swapCh[c] = None

\* openSwapDepositChannel up to the count.
CountOpen(q, ch, msg, quote) ==
  /\ request[q].pc = "idle"
  /\ request' = [request EXCEPT ![q] =
       [@ EXCEPT !.pc = IF Cardinality(OpenChannels(ch, msg)) >= MaxOpen THEN "refused" ELSE "counted",
                 !.chain = ch, !.type = "SWAP", !.msg = msg, !.quote = quote, !.late = Unstored(ch)]]
  /\ UNCHANGED <<opened, ready, base, swapCh, accCh, tracking, block, earlier, upsert, late>>

\* openAccountCreationDepositChannel has no limit.
RequestAccountCreation(q, ch) ==
  /\ request[q].pc = "idle"
  /\ request' = [request EXCEPT ![q] =
       [@ EXCEPT !.pc = "counted", !.chain = ch, !.type = "ACCOUNT_CREATION"]]
  /\ UNCHANGED <<opened, ready, base, swapCh, accCh, tracking, block, earlier, upsert, late>>

\* Promise.all of the broker and the two prices: a price that is not there
\* fails the request although the broker has opened the channel.
AskBroker(q, c) ==
  /\ request[q].pc = "counted" /\ request[q].chain = ChainOf(c)
  /\ Open(c, request[q].type, q, request[q].msg)
  /\ \E pc \in {"opened"} \cup (IF request[q].type = "SWAP" THEN {"failed"} ELSE {}) :
       request' = [request EXCEPT ![q].pc = pc]
  /\ late' = IF request[q].late THEN late \cup {c} ELSE late
  /\ UNCHANGED <<base, swapCh, accCh, tracking, block, earlier, upsert>>

ChannelOf(q) == CHOOSE c \in Channels : opened[c] # None /\ opened[c].by = q

\* With a quote to create beside it the upsert reads first; without one it
\* is a single INSERT ... ON CONFLICT.
ReadChannel(q) ==
  /\ request[q].pc = "opened" /\ request[q].type = "SWAP" /\ request[q].quote
  /\ request' = [request EXCEPT ![q] =
       [@ EXCEPT !.pc = "reading", !.found = swapCh[ChannelOf(q)] # None]]
  /\ UNCHANGED <<opened, ready, base, swapCh, accCh, tracking, block, earlier, upsert, late>>

\* What the update branch of the request leaves in a row.
Marked(row, q) == [row EXCEPT !.backend = TRUE, !.quote = @ \/ request[q].quote]

StoreChannel(q) ==
  LET c == ChannelOf(q)
      conflict == request[q].pc = "reading" /\ ~request[q].found /\ swapCh[c] # None
  IN /\ request[q].type = "SWAP"
     /\ request[q].pc = (IF request[q].quote THEN "reading" ELSE "opened")
     /\ request' = [request EXCEPT ![q].pc = IF conflict THEN "failed" ELSE "done"]
     /\ swapCh' = [swapCh EXCEPT ![c] =
          IF conflict THEN @
          ELSE IF @ = None THEN Row(TRUE, FALSE, request[q].msg, request[q].quote)
          ELSE Marked(@, q)]
     /\ UNCHANGED <<opened, ready, base, accCh, tracking, block, earlier, upsert, late>>

StoreAccountCreation(q) ==
  LET c == ChannelOf(q)
  IN /\ request[q].pc = "opened" /\ request[q].type = "ACCOUNT_CREATION"
     /\ request' = [request EXCEPT ![q].pc = "done"]
     /\ accCh' = [accCh EXCEPT ![c] =
          IF @ = None THEN Row(TRUE, FALSE, None, FALSE) ELSE [@ EXCEPT !.backend = TRUE]]
     /\ UNCHANGED <<opened, ready, base, swapCh, tracking, block, earlier, upsert, late>>

-----------------------------------------------------------------------------
(* The processor.                                                          *)

Commit ==
  /\ block < MaxBlock
  /\ block' = block + 1
  /\ earlier' = [ch \in Chains |-> tracking[ch].height]

Stored(c) == IF opened[c].type = "SWAP" THEN swapCh[c] ELSE accCh[c]

\* The upsert of the event at the head reads.
ReadyRead ==
  /\ ready # <<>> /\ upsert = "idle"
  /\ opened[Head(ready)].type \in Backends
  /\ upsert' = IF Stored(Head(ready)) # None THEN "found" ELSE "missing"
  /\ UNCHANGED <<opened, ready, base, swapCh, accCh, tracking, block, earlier, request, late>>

\* A request has inserted the row in between: the block is rolled back.
ReadyConflict ==
  /\ upsert = "missing" /\ Stored(Head(ready)) # None
  /\ upsert' = "idle"
  /\ UNCHANGED <<opened, ready, base, swapCh, accCh, tracking, block, earlier, request, late>>

\* The type of the row in depositChannel, which each handler writes.
BaseType(c) == opened[c].type

ReadyDone ==
  /\ Commit
  /\ base' = [base EXCEPT ![Head(ready)] = BaseType(Head(ready))]
  /\ ready' = Tail(ready)
  /\ upsert' = "idle"
  /\ UNCHANGED <<opened, tracking, request, late>>

\* The update branch writes the event's data over the row, but neither the
\* beneficiaries nor the CCM parameters.
SwapDepositAddressReady ==
  LET c == Head(ready)
  IN /\ upsert # "idle" /\ opened[c].type = "SWAP"
     /\ upsert = "missing" => swapCh[c] = None
     /\ swapCh' = [swapCh EXCEPT ![c] = IF upsert = "found" THEN @
                                        ELSE Row(FALSE, TRUE, opened[c].msg, FALSE)]
     /\ UNCHANGED accCh
     /\ ReadyDone

\* The update branch of an account creation channel writes its brokers.
UpdatedLosingBrokers(row) == row
Updated(row) == [row EXCEPT !.beneficiaries = TRUE]

AccountCreationDepositAddressReady ==
  LET c == Head(ready)
  IN /\ upsert # "idle" /\ opened[c].type = "ACCOUNT_CREATION"
     /\ upsert = "missing" => accCh[c] = None
     /\ accCh' = [accCh EXCEPT ![c] = IF upsert = "found" THEN Updated(@)
                                      ELSE Row(FALSE, TRUE, None, FALSE)]
     /\ UNCHANGED swapCh
     /\ ReadyDone

LiquidityDepositAddressReady ==
  /\ ready # <<>> /\ opened[Head(ready)].type = "LIQUIDITY"
  /\ UNCHANGED <<swapCh, accCh>>
  /\ ReadyDone

\* One chain state event: previousHeight keeps the last height of the
\* previous block, also when a block has several events.
PreviousHeight(t, b) == IF t.eventWitnessedBlock = b THEN t.previousHeight ELSE t.height
Track(t, h, b) == [height |-> h, previousHeight |-> PreviousHeight(t, b), eventWitnessedBlock |-> b]

Expired(rows, ch, h) ==
  [c \in Channels |-> IF rows[c] # None /\ ChainOf(c) = ch /\ opened[c].expiry <= h
                      THEN [rows[c] EXCEPT !.isExpired = TRUE] ELSE rows[c]]

\* A block with one or two chain state events of a chain. The height of the
\* State Chain only grows, and an opening event that is still to come is
\* older than the height its channel expires at.
ChainStateUpdated(ch, h1, h2) ==
  LET t1 == Track(tracking[ch], h1, block + 1)
      t2 == IF h2 = h1 THEN t1 ELSE Track(t1, h2, block + 1)
  IN /\ upsert = "idle"
     /\ tracking[ch].height <= h1 /\ h1 <= h2 /\ tracking[ch].height < h2
     /\ \A i \in DOMAIN ready : ChainOf(ready[i]) = ch => h2 < opened[ready[i]].expiry
     /\ Commit
     /\ tracking' = [tracking EXCEPT ![ch] = t2]
     /\ swapCh' = Expired(swapCh, ch, h2)
     /\ accCh' = Expired(accCh, ch, h2)
     /\ UNCHANGED <<opened, ready, base, request, upsert, late>>

-----------------------------------------------------------------------------
HttpNext ==
  \E q \in Requests :
    \/ \E ch \in Chains, msg \in Messages \cup {None}, quote \in BOOLEAN : CountOpen(q, ch, msg, quote)
    \/ \E ch \in Chains : RequestAccountCreation(q, ch)
    \/ \E c \in Channels : AskBroker(q, c)
    \/ ReadChannel(q)
    \/ StoreChannel(q)
    \/ StoreAccountCreation(q)

ProcessorNext ==
  \/ \E c \in Channels, type \in Types, msg \in Messages \cup {None} :
       OpenedElsewhere(c, type, msg)
  \/ ReadyRead
  \/ ReadyConflict
  \/ SwapDepositAddressReady
  \/ AccountCreationDepositAddressReady
  \/ LiquidityDepositAddressReady
  \/ \E ch \in Chains, h1, h2 \in 1..MaxHeight : ChainStateUpdated(ch, h1, h2)

ChanNext == HttpNext \/ ProcessorNext

ChanSpec == ChanInit /\ [][ChanNext]_chanVars

-----------------------------------------------------------------------------
ChanTypeOK ==
  /\ \A c \in Channels : base[c] # None => opened[c] # None /\ base[c] = opened[c].type
  /\ \A c \in Channels : swapCh[c] # None => opened[c] # None /\ opened[c].type = "SWAP"
  /\ \A c \in Channels : accCh[c] # None => opened[c] # None /\ opened[c].type = "ACCOUNT_CREATION"
  /\ \A q \in Requests : request[q].pc \in
       {"idle", "refused", "counted", "opened", "reading", "failed", "done"}
  /\ upsert \in {"idle", "found", "missing"}
  /\ late \subseteq Channels
  /\ block \in 1..MaxBlock

\* The limit of open channels holds, for each message, for the channels
\* whose request counted when every channel before it was stored: more are
\* open only after requests that overlapped, or that counted while a channel
\* was without its row (openSwapDepositChannel.ts:42-57 and :129).
LimitExceededOnlyByRace ==
  \A ch \in Chains, msg \in Messages \cup {None} :
    Cardinality({c \in Channels : /\ ChainOf(c) = ch /\ c \notin late
                                  /\ swapCh[c] # None /\ ~swapCh[c].isExpired
                                  /\ opened[c].by # None /\ swapCh[c].msg = msg}) <= MaxOpen

\* Whichever of the request and the event comes first, a request that was
\* answered has left its mark and its quote in the row, and a channel of the
\* backend is without the mark only if its request failed or is not done.
AnsweredIsMarked ==
  \A c \in Channels :
    swapCh[c] # None /\ opened[c].by # None =>
      LET q == opened[c].by
      IN /\ request[q].pc = "done" => swapCh[c].backend /\ (request[q].quote => swapCh[c].quote)
         /\ swapCh[c].backend => request[q].pc = "done"

\* A channel whose event was processed shows its brokers, except a swap
\* channel whose row was inserted by the request: the update branch of the
\* event leaves the beneficiaries out (swapDepositAddressReady.ts:109).
BrokersMissingOnlyIfRequestFirst ==
  \A c \in Channels :
    base[c] \in Backends =>
      \/ Stored(c).beneficiaries
      \/ base[c] = "SWAP" /\ opened[c].by # None /\ request[opened[c].by].pc = "done"

\* A row is expired exactly when the height of its chain has reached its
\* expiry: no insert comes after the height that should have expired it.
ExpiredIffPassed ==
  \A c \in Channels :
    opened[c] # None /\ Stored(c) # None =>
      (Stored(c).isExpired <=> opened[c].expiry <= tracking[ChainOf(c)].height)

\* Chain tracking remembers the height as of the block before the last one
\* that changed it, also when one block has several chain state events
\* (chainStateUpdated.ts:32-37).
PreviousIsOfEarlierBlock ==
  \A ch \in Chains :
    tracking[ch].eventWitnessedBlock = block => tracking[ch].previousHeight = earlier[ch]
\* The rows of a channel and of its chain are what request, event and blocks
\* made of them, in whichever order they came.
ChannelRows ==
  /\ AnsweredIsMarked /\ BrokersMissingOnlyIfRequestFirst
  /\ ExpiredIffPassed /\ PreviousIsOfEarlierBlock
=============================================================================
