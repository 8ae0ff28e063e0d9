-------------------------- MODULE StatusLookupProofs --------------------------
(***************************************************************************)
(* Theorems about the deposit channels, and about the deposits to them and *)
(* the polls of their status, for any channels, requests, messages,        *)
(* deposits and heights.                                                   *)
(***************************************************************************)
EXTENDS StatusLookup, SequenceTheorems, FiniteSetTheorems, TLAPS

(* The deposit channels.                                                   *)

Asker == {r \in [pc : {"idle", "refused", "counted", "opened", "reading", "failed", "done"},
                 chain : Chains \cup {None}, type : Backends \cup {None},
                 msg : Messages \cup {None}, quote : BOOLEAN, late : BOOLEAN, found : BOOLEAN] :
            r.pc = "counted" => r.type \in Backends}
Tracked == [height : Nat, previousHeight : Nat, eventWitnessedBlock : Nat]

Typed ==
  /\ opened \in [Channels -> Opening \cup {None}]
  /\ ready \in Seq(Channels)
  /\ base \in [Channels -> Types \cup {None}]
  /\ swapCh \in [Channels -> Rows \cup {None}]
  /\ accCh \in [Channels -> Rows \cup {None}]
  /\ tracking \in [Chains -> Tracked]
  /\ earlier \in [Chains -> Nat] /\ block \in Nat
  /\ request \in [Requests -> Asker]
  /\ upsert \in {"idle", "found", "missing"}
  /\ late \subseteq Channels

\* The queue holds, each once, the channels that the processor has not reached.
Queue ==
  /\ \A i \in 1 .. Len(ready) : opened[ready[i]] # None /\ base[ready[i]] = None
  /\ \A i, j \in 1 .. Len(ready) : ready[i] = ready[j] => i = j
  /\ \A c \in Channels : opened[c] # None =>
        base[c] # None \/ \E i \in 1 .. Len(ready) : ready[i] = c

\* A channel that was not reached has not expired.
NotPassed == \A c \in Channels :
  opened[c] # None /\ base[c] = None => opened[c].expiry > tracking[ChainOf(c)].height

\* A channel that was reached has its row.
Processed == \A c \in Channels :
  base[c] # None => /\ opened[c] # None /\ base[c] = opened[c].type
                    /\ base[c] \in Backends => Stored(c) # None

RowsOfOpened == \A c \in Channels :
  /\ swapCh[c] # None => /\ opened[c] # None /\ opened[c].type = "SWAP"
                         /\ swapCh[c].msg = opened[c].msg
  /\ accCh[c] # None => opened[c] # None /\ opened[c].type = "ACCOUNT_CREATION"

\* A request has one channel once the broker has answered.
ChannelOfRequest ==
  /\ \A c \in Channels : opened[c] # None /\ opened[c].by # None =>
        LET r == request[opened[c].by]
        IN  /\ r.pc \in {"opened", "reading", "failed", "done"}
            /\ r.type = opened[c].type /\ r.msg = opened[c].msg
            /\ r.pc = "done" /\ r.type = "SWAP" => swapCh[c] # None
  /\ \A c, d \in Channels :
        opened[c] # None /\ opened[d] # None /\ opened[c].by # None /\ opened[c].by = opened[d].by => c = d
  /\ \A q \in Requests : request[q].pc \in {"opened", "reading"} =>
        \E c \in Channels : opened[c] # None /\ opened[c].by = q

\* Before the event is reached a row is the answered request's.
EarlyRows == \A c \in Channels :
  swapCh[c] # None /\ base[c] = None => opened[c].by # None /\ request[opened[c].by].pc = "done"

UpsertOfHead ==
  /\ upsert # "idle" => ready # <<>>
  /\ upsert = "found" => Stored(Head(ready)) # None

NotAhead == \A ch \in Chains : tracking[ch].eventWitnessedBlock <= block

IInv ==
  /\ Typed /\ Queue /\ NotPassed /\ Processed /\ RowsOfOpened /\ ChannelOfRequest
  /\ EarlyRows /\ UpsertOfHead /\ NotAhead /\ ChannelRows

Assumptions == MaxOpenAssumption /\ BoundsAssumption /\ NoneAssumption

-----------------------------------------------------------------------------

LEMMA ChainOfChannel == \A c \in Channels : ChainOf(c) \in Chains
  BY DEF Chains

LEMMA Initially == Assumptions /\ ChanInit => IInv
<1> SUFFICES ASSUME Assumptions, ChanInit PROVE IInv
  OBVIOUS
<1>1. Typed
  <2>1. ready \in Seq(Channels)
    BY DEF ChanInit
  <2>2. request \in [Requests -> Asker]
    BY DEF ChanInit, Asker
  <2>3. tracking \in [Chains -> Tracked] /\ earlier \in [Chains -> Nat]
    BY DEF ChanInit, Tracked
  <2> QED
    BY <2>1, <2>2, <2>3 DEF ChanInit, Typed
<1>2. Queue /\ NotPassed /\ Processed /\ RowsOfOpened /\ EarlyRows
  BY DEF ChanInit, Queue, NotPassed, Processed, RowsOfOpened, EarlyRows
<1>3. ChannelOfRequest
  BY DEF ChanInit, ChannelOfRequest
<1>4. UpsertOfHead /\ NotAhead
  BY DEF ChanInit, UpsertOfHead, NotAhead
<1>5. AnsweredIsMarked /\ BrokersMissingOnlyIfRequestFirst /\ ExpiredIffPassed
  BY DEF ChanInit, AnsweredIsMarked, BrokersMissingOnlyIfRequestFirst, ExpiredIffPassed,
     Assumptions, NoneAssumption, Types
<1>6. PreviousIsOfEarlierBlock
  BY DEF ChanInit, PreviousIsOfEarlierBlock
<1> QED
  BY <1>1, <1>2, <1>3, <1>4, <1>5, <1>6 DEF IInv, ChannelRows

\* A queue that grows keeps its head; the channel of a request is its own.
LEMMA TheHead ==
  ASSUME Assumptions, IInv, ready # <<>>
  PROVE  /\ Head(ready) \in Channels /\ Head(ready) = ready[1] /\ Len(ready) \in Nat \ {0}
         /\ opened[Head(ready)] \in Opening /\ base[Head(ready)] = None
<1>1. ready \in Seq(Channels)
  BY DEF IInv, Typed
<1>2. Len(ready) \in Nat \ {0} /\ Head(ready) = ready[1]
  BY <1>1, EmptySeq
<1>3. 1 \in 1 .. Len(ready) /\ ready[1] \in Channels
  BY <1>1, <1>2, ElementOfSeq
<1> QED
  BY <1>2, <1>3 DEF IInv, Queue, Typed

LEMMA OwnChannel ==
  ASSUME Assumptions, IInv, NEW q \in Requests, request[q].pc \in {"opened", "reading"}
  PROVE  /\ ChannelOf(q) \in Channels /\ opened[ChannelOf(q)] \in Opening
         /\ opened[ChannelOf(q)].by = q /\ opened[ChannelOf(q)].type = request[q].type
         /\ opened[ChannelOf(q)].msg = request[q].msg
<1>1. \E c \in Channels : opened[c] # None /\ opened[c].by = q
  BY DEF IInv, ChannelOfRequest
<1>2. ChannelOf(q) \in Channels /\ opened[ChannelOf(q)] # None /\ opened[ChannelOf(q)].by = q
  BY <1>1 DEF ChannelOf
<1>3. q # None
  BY DEF Assumptions, NoneAssumption
<1> QED
  BY <1>2, <1>3 DEF IInv, ChannelOfRequest, Typed

-----------------------------------------------------------------------------

\* A request that counts, or that reads its row, changes nothing else.
LEMMA AskerKeeps ==
  ASSUME Assumptions, IInv, NEW q \in Requests, NEW r \in Asker,
         request' = [request EXCEPT ![q] = r],
         \/ request[q].pc = "idle" /\ r.pc \in {"refused", "counted"}
         \/ /\ request[q].pc = "opened" /\ request[q].type = "SWAP" /\ r.pc = "reading"
            /\ r.type = request[q].type /\ r.msg = request[q].msg,
         UNCHANGED <<opened, ready, base, swapCh, accCh, tracking, block, earlier, upsert, late>>
  PROVE  IInv'
<1>1. /\ request'[q] = r /\ request' \in [Requests -> Asker]
      /\ \A p \in Requests : p # q => request'[p] = request[p]
  BY DEF IInv, Typed
<1>2. \A c \in Channels : opened[c] # None /\ opened[c].by # None =>
        /\ opened[c].by \in Requests
        /\ opened[c].by = q => request[q].pc = "opened"
  BY DEF IInv, ChannelOfRequest, Typed, Opening
<1>3. \A c \in Channels : opened[c] # None /\ opened[c].by # None =>
        request'[opened[c].by].pc = "done" <=> request[opened[c].by].pc = "done"
  BY <1>1, <1>2
<1>4. Typed'
  BY <1>1 DEF IInv, Typed
<1>5. Queue' /\ NotPassed' /\ Processed' /\ RowsOfOpened' /\ UpsertOfHead' /\ NotAhead'
  BY DEF IInv, Queue, NotPassed, Processed, RowsOfOpened, UpsertOfHead, NotAhead, Stored
<1>6. ChannelOfRequest'
  <2>1. \A c \in Channels : opened[c] # None /\ opened[c].by # None =>
          /\ request'[opened[c].by].pc \in {"opened", "reading", "failed", "done"}
          /\ request'[opened[c].by].type = opened[c].type
          /\ request'[opened[c].by].msg = opened[c].msg
          /\ request'[opened[c].by].pc = "done" /\ request'[opened[c].by].type = "SWAP" =>
               swapCh[c] # None
    BY <1>1, <1>2 DEF IInv, ChannelOfRequest
  <2>2. \A p \in Requests : request'[p].pc \in {"opened", "reading"} =>
          request[p].pc \in {"opened", "reading"}
    BY <1>1
  <2> QED
    BY <2>1, <2>2 DEF IInv, ChannelOfRequest
<1>7. EarlyRows'
  BY <1>3 DEF IInv, EarlyRows, RowsOfOpened
<1>8. AnsweredIsMarked'
  <2> SUFFICES ASSUME NEW c \in Channels, swapCh[c] # None, opened[c].by # None
               PROVE  LET p == opened[c].by
                      IN  /\ request'[p].pc = "done" => swapCh[c].backend /\ (request'[p].quote => swapCh[c].quote)
                          /\ swapCh[c].backend => request'[p].pc = "done"
    BY DEF AnsweredIsMarked
  <2>1. opened[c] # None
    BY DEF IInv, RowsOfOpened
  <2> QED
    BY <2>1, <1>1, <1>2, <1>3 DEF IInv, ChannelRows, AnsweredIsMarked
<1>9. BrokersMissingOnlyIfRequestFirst'
  BY <1>3, None \notin Backends DEF IInv, ChannelRows, BrokersMissingOnlyIfRequestFirst, Processed, Stored,
     Assumptions, NoneAssumption, Types
<1>10. ExpiredIffPassed' /\ PreviousIsOfEarlierBlock'
  BY DEF IInv, ChannelRows, ExpiredIffPassed, PreviousIsOfEarlierBlock, Stored
<1> QED
  BY <1>4, <1>5, <1>6, <1>7, <1>8, <1>9, <1>10 DEF IInv, ChannelRows

\* The State Chain opens a channel, of a request that waits for it or of nobody.
LEMMA OpenKeeps ==
  ASSUME Assumptions, IInv, NEW c \in Channels, NEW type \in Types,
         NEW by \in Requests \cup {None}, NEW msg \in Messages \cup {None}, Open(c, type, by, msg),
         \/ by = None /\ UNCHANGED request
         \/ /\ by # None /\ request[by].pc = "counted"
            /\ request[by].type = type /\ request[by].msg = msg
            /\ \E pc \in {"opened", "failed"} : request' = [request EXCEPT ![by].pc = pc],
         late' \subseteq Channels,
         UNCHANGED <<base, swapCh, accCh, tracking, block, earlier, upsert>>
  PROVE  IInv'
<1>1. opened[c] = None /\ base[c] = None /\ swapCh[c] = None /\ accCh[c] = None
  BY DEF Open, IInv, Processed, RowsOfOpened
<1>2. PICK e \in (tracking[ChainOf(c)].height + 1) .. MaxHeight, same \in BOOLEAN :
        /\ same => ready # <<>>
        /\ opened' = [opened EXCEPT ![c] =
             [type |-> type, by |-> by, msg |-> msg, expiry |-> e,
              issuedBlock |-> IF same THEN opened[ready[Len(ready)]].issuedBlock
                              ELSE 1 + Cardinality({d \in Channels : opened[d] # None})]]
  BY DEF Open
<1>3. ChainOf(c) \in Chains /\ tracking[ChainOf(c)].height \in Nat
  BY ChainOfChannel DEF IInv, Typed, Tracked
<1>4. e \in Nat /\ e > tracking[ChainOf(c)].height
  BY <1>2, <1>3 DEF Assumptions, BoundsAssumption
<1> DEFINE b == IF same THEN opened[ready[Len(ready)]].issuedBlock
                ELSE 1 + Cardinality({d \in Channels : opened[d] # None})
<1>5. b \in Nat
  <2>1. CASE same
    <3>1. ready \in Seq(Channels) /\ Len(ready) \in 1 .. Len(ready)
      BY <2>1, <1>2, EmptySeq DEF IInv, Typed
    <3>2. ready[Len(ready)] \in Channels /\ opened[ready[Len(ready)]] # None
      BY <3>1, ElementOfSeq DEF IInv, Queue
    <3> QED
      BY <2>1, <3>2 DEF IInv, Typed, Opening
  <2>2. CASE ~same
    <3>1. {d \in Channels : opened[d] # None} \in SUBSET Channels
      OBVIOUS
    <3>2. IsFiniteSet({d \in Channels : opened[d] # None})
      BY <3>1, FS_Subset, Zenon DEF Assumptions, BoundsAssumption
    <3>3. Cardinality({d \in Channels : opened[d] # None}) \in Nat
      BY <3>2, FS_CardinalityType, Zenon
    <3> QED
      BY <2>2, <3>3
  <2> QED
    BY <2>1, <2>2
<1> DEFINE o == [type |-> type, by |-> by, msg |-> msg, expiry |-> e, issuedBlock |-> b]
<1>6. o \in Opening
  BY <1>4, <1>5 DEF Opening
<1>7. o # None
  BY <1>6 DEF Assumptions, NoneAssumption
<1>8. /\ opened'[c] = o /\ opened' \in [Channels -> Opening \cup {None}]
      /\ \A d \in Channels : d # c => opened'[d] = opened[d]
  BY <1>2, <1>6 DEF IInv, Typed
<1>9. o.type = type /\ o.by = by /\ o.msg = msg /\ o.expiry = e
  OBVIOUS
<1> HIDE DEF b, o
<1>10. ready \in Seq(Channels) /\ ready' = Append(ready, c)
  BY DEF Open, IInv, Typed
<1>11. /\ ready' \in Seq(Channels) /\ Len(ready') = Len(ready) + 1 /\ Len(ready) \in Nat
       /\ ready'[Len(ready) + 1] = c
       /\ \A i \in 1 .. Len(ready) : ready'[i] = ready[i] /\ ready[i] \in Channels
  BY <1>10, AppendProperties, ElementOfSeq, LenProperties
<1>12. request' \in [Requests -> Asker]
  <2>1. CASE by = None /\ UNCHANGED request
    BY <2>1 DEF IInv, Typed
  <2>2. CASE by # None
    <3>1. PICK pc \in {"opened", "failed"} : request' = [request EXCEPT ![by].pc = pc]
      BY <2>2
    <3>2. by \in Requests /\ request[by] \in Asker
      BY <2>2 DEF IInv, Typed
    <3>3. [request[by] EXCEPT !.pc = pc] \in Asker
      BY <3>2 DEF Asker
    <3> QED
      BY <3>1, <3>3 DEF IInv, Typed
  <2> QED
    BY <2>1, <2>2
<1>13. Typed'
  BY <1>8, <1>11, <1>12 DEF IInv, Typed
<1>14. Queue'
  <2>1. \A i \in 1 .. Len(ready) : ready[i] # c
    BY <1>1 DEF IInv, Queue
  <2>2. \A i \in 1 .. Len(ready') : opened'[ready'[i]] # None /\ base[ready'[i]] = None
    BY <2>1, <1>1, <1>7, <1>8, <1>11 DEF IInv, Queue
  <2>3. \A i, j \in 1 .. Len(ready') : ready'[i] = ready'[j] => i = j
    BY <2>1, <1>11 DEF IInv, Queue
  <2>4. ASSUME NEW d \in Channels, opened'[d] # None, base[d] = None
        PROVE  \E i \in 1 .. Len(ready') : ready'[i] = d
    <3>1. CASE d = c
      BY <3>1, <1>11
    <3>2. CASE d # c
      <4>1. \E i \in 1 .. Len(ready) : ready[i] = d
        BY <2>4, <3>2, <1>8 DEF IInv, Queue
      <4> QED
        BY <4>1, <1>11
    <3> QED
      BY <3>1, <3>2
  <2> QED
    BY <2>2, <2>3, <2>4 DEF Queue
<1>15. NotPassed'
  BY <1>4, <1>8, <1>9 DEF IInv, NotPassed
<1>16. Processed' /\ RowsOfOpened'
  BY <1>1, <1>8 DEF IInv, Processed, RowsOfOpened, Stored
<1>17. by # None => request'[by].pc \in {"opened", "failed"} /\ request'[by].type = type
                     /\ request'[by].msg = msg /\ by \in Requests
  BY DEF IInv, Typed, Asker
<1>18. \A d \in Channels : opened[d] # None /\ opened[d].by # None =>
         opened[d].by # by /\ opened[d].by \in Requests /\ request'[opened[d].by] = request[opened[d].by]
  <2> SUFFICES ASSUME NEW d \in Channels, opened[d] # None, opened[d].by # None
               PROVE  /\ opened[d].by # by /\ opened[d].by \in Requests
                      /\ request'[opened[d].by] = request[opened[d].by]
    OBVIOUS
  <2>1. opened[d].by \in Requests
    BY DEF IInv, Typed, Opening
  <2>2. request[opened[d].by].pc # "counted"
    BY DEF IInv, ChannelOfRequest
  <2>3. opened[d].by # by
    BY <2>2
  <2> QED
    BY <2>1, <2>3 DEF IInv, Typed
<1>19. ChannelOfRequest'
  <2>1. ASSUME NEW d \in Channels, opened'[d] # None, opened'[d].by # None
        PROVE  LET r == request'[opened'[d].by]
               IN  /\ r.pc \in {"opened", "reading", "failed", "done"}
                   /\ r.type = opened'[d].type /\ r.msg = opened'[d].msg
                   /\ r.pc = "done" /\ r.type = "SWAP" => swapCh[d] # None
    <3>1. CASE d = c
      BY <2>1, <3>1, <1>8, <1>9, <1>17
    <3>2. CASE d # c
      BY <2>1, <3>2, <1>8, <1>18 DEF IInv, ChannelOfRequest
    <3> QED
      BY <3>1, <3>2
  <2>2. ASSUME NEW d \in Channels, NEW f \in Channels, opened'[d] # None, opened'[f] # None,
               opened'[d].by # None, opened'[d].by = opened'[f].by
        PROVE  d = f
    BY <2>2, <1>8, <1>9, <1>18 DEF IInv, ChannelOfRequest
  <2>3. ASSUME NEW q \in Requests, request'[q].pc \in {"opened", "reading"}
        PROVE  \E d \in Channels : opened'[d] # None /\ opened'[d].by = q
    <3>1. CASE q = by
      BY <3>1, <1>7, <1>8, <1>9
    <3>2. CASE q # by
      <4>1. request'[q] = request[q]
        BY <3>2 DEF IInv, Typed
      <4>2. PICK d \in Channels : opened[d] # None /\ opened[d].by = q
        BY <2>3, <4>1 DEF IInv, ChannelOfRequest
      <4> QED
        BY <4>2, <1>1, <1>8
    <3> QED
      BY <3>1, <3>2
  <2> QED
    BY <2>1, <2>2, <2>3 DEF ChannelOfRequest
<1>20. EarlyRows' /\ AnsweredIsMarked'
  BY <1>1, <1>8, <1>18 DEF IInv, EarlyRows, ChannelRows, AnsweredIsMarked, RowsOfOpened
<1>21. BrokersMissingOnlyIfRequestFirst'
  BY <1>1, <1>8, <1>18 DEF IInv, ChannelRows, BrokersMissingOnlyIfRequestFirst, Stored, Processed,
     Assumptions, NoneAssumption, Types
<1>22. ExpiredIffPassed'
  BY <1>1, <1>8 DEF IInv, ChannelRows, ExpiredIffPassed, Stored
<1>23. UpsertOfHead'
  <2>1. ASSUME ready # <<>>
        PROVE  ready' # <<>> /\ Head(ready') = Head(ready) /\ Head(ready) # c /\ Head(ready) \in Channels
    <3>1. ready[1] # c /\ ready[1] \in Channels /\ Len(ready) \in Nat \ {0}
      BY <2>1, TheHead, <1>1 DEF Assumptions, NoneAssumption
    <3>2. ready'[1] = ready[1] /\ ready' # <<>> /\ Head(ready') = ready'[1]
      BY <3>1, <1>11, EmptySeq
    <3> QED
      BY <3>1, <3>2, <2>1, TheHead
  <2> QED
    BY <2>1, <1>8 DEF IInv, UpsertOfHead, Stored
<1>24. NotAhead' /\ PreviousIsOfEarlierBlock'
  BY DEF IInv, NotAhead, ChannelRows, PreviousIsOfEarlierBlock
<1> QED
  BY <1>13, <1>14, <1>15, <1>16, <1>19, <1>20, <1>21, <1>22, <1>23, <1>24 DEF IInv, ChannelRows

-----------------------------------------------------------------------------

\* The answered request writes its row: what was there stays but for its marks.
LEMMA StoreChannelKeeps ==
  ASSUME Assumptions, IInv, NEW q \in Requests, StoreChannel(q)
  PROVE  IInv'
<1> DEFINE c == ChannelOf(q)
           conflict == request[q].pc = "reading" /\ ~request[q].found /\ swapCh[c] # None
           row == IF swapCh[c] = None THEN Row(TRUE, FALSE, request[q].msg, request[q].quote)
                  ELSE Marked(swapCh[c], q)
<1>1. request[q].pc \in {"opened", "reading"} /\ request[q].type = "SWAP" /\ request[q] \in Asker
  BY DEF StoreChannel, IInv, Typed
<1>2. /\ c \in Channels /\ opened[c] \in Opening /\ opened[c].by = q
      /\ opened[c].type = "SWAP" /\ opened[c].msg = request[q].msg
  BY <1>1, OwnChannel
<1>3. opened[c] # None /\ q # None
  BY <1>2 DEF Assumptions, NoneAssumption
<1>4. request' = [request EXCEPT ![q].pc = IF conflict THEN "failed" ELSE "done"]
  BY DEF StoreChannel
<1>5. swapCh' = [swapCh EXCEPT ![c] = IF conflict THEN swapCh[c] ELSE row]
  BY DEF StoreChannel
<1>6. UNCHANGED <<opened, ready, base, accCh, tracking, block, earlier, upsert, late>>
  BY DEF StoreChannel
<1>7. /\ request' \in [Requests -> Asker] /\ request'[q].pc = IF conflict THEN "failed" ELSE "done"
      /\ request'[q].type = request[q].type /\ request'[q].msg = request[q].msg
      /\ request'[q].quote = request[q].quote
      /\ \A p \in Requests : p # q => request'[p] = request[p]
  BY <1>1, <1>4 DEF IInv, Typed, Asker
<1>8. row \in Rows /\ row.msg = opened[c].msg
  <2>1. CASE swapCh[c] = None
    BY <2>1, <1>1, <1>2 DEF Row, Rows, Asker
  <2>2. CASE swapCh[c] # None
    <3>1. swapCh[c] \in Rows /\ swapCh[c].msg = opened[c].msg
      BY <2>2, <1>2 DEF IInv, Typed, RowsOfOpened
    <3>2. Marked(swapCh[c], q) \in Rows /\ Marked(swapCh[c], q).msg = swapCh[c].msg
      BY <3>1, <1>1 DEF Marked, Rows, Asker
    <3> QED
      BY <2>2, <3>1, <3>2
  <2> QED
    BY <2>1, <2>2
<1>9. row.backend /\ (request[q].quote => row.quote)
  <2>1. CASE swapCh[c] = None
    BY <2>1 DEF Row
  <2>2. CASE swapCh[c] # None
    <3>1. swapCh[c] \in Rows
      BY <2>2, <1>2 DEF IInv, Typed
    <3> QED
      BY <2>2, <3>1 DEF Marked, Rows
  <2> QED
    BY <2>1, <2>2
<1>10. swapCh[c] # None => row.isExpired = swapCh[c].isExpired /\ row.beneficiaries = swapCh[c].beneficiaries
  <2> SUFFICES ASSUME swapCh[c] # None
               PROVE  row.isExpired = swapCh[c].isExpired /\ row.beneficiaries = swapCh[c].beneficiaries
    OBVIOUS
  <2>1. swapCh[c] \in Rows
    BY <1>2 DEF IInv, Typed
  <2> QED
    BY <2>1 DEF Marked, Rows
<1>11. swapCh[c] = None => ~row.isExpired /\ base[c] = None
  BY <1>2 DEF Row, IInv, Processed, Stored, Backends
<1>12. row # None
  BY <1>8 DEF Assumptions, NoneAssumption
<1> HIDE DEF c, row
<1>13. /\ swapCh' \in [Channels -> Rows \cup {None}]
       /\ swapCh'[c] = IF conflict THEN swapCh[c] ELSE row
       /\ \A d \in Channels : d # c => swapCh'[d] = swapCh[d]
       /\ \A d \in Channels : swapCh[d] # None => swapCh'[d] # None
  BY <1>2, <1>5, <1>8, <1>12 DEF IInv, Typed
<1>14. conflict => swapCh[c] # None /\ ~swapCh[c].backend
  BY <1>1, <1>2, <1>3 DEF IInv, ChannelRows, AnsweredIsMarked
<1>15. swapCh'[c] # None
  BY <1>12, <1>13, <1>14
<1>16. \A d \in Channels : opened[d] # None /\ opened[d].by # None =>
         /\ opened[d].by \in Requests
         /\ d # c => opened[d].by # q
  BY <1>2, <1>3 DEF IInv, Typed, Opening, ChannelOfRequest
<1> HIDE DEF conflict
<1>17. Typed' /\ Queue' /\ NotPassed' /\ NotAhead' /\ PreviousIsOfEarlierBlock'
  BY <1>6, <1>7, <1>13 DEF IInv, Typed, Queue, NotPassed, NotAhead, ChannelRows, PreviousIsOfEarlierBlock
<1>18. Processed' /\ RowsOfOpened'
  BY <1>2, <1>3, <1>6, <1>8, <1>13 DEF IInv, Processed, RowsOfOpened, Stored
<1>19. ChannelOfRequest'
  <2>1. ASSUME NEW d \in Channels, opened[d] # None, opened[d].by # None
        PROVE  LET r == request'[opened[d].by]
               IN  /\ r.pc \in {"opened", "reading", "failed", "done"}
                   /\ r.type = opened[d].type /\ r.msg = opened[d].msg
                   /\ r.pc = "done" /\ r.type = "SWAP" => swapCh'[d] # None
    <3>1. CASE d = c
      BY <3>1, <1>1, <1>2, <1>7, <1>15
    <3>2. CASE d # c
      BY <2>1, <3>2, <1>7, <1>13, <1>16 DEF IInv, ChannelOfRequest
    <3> QED
      BY <3>1, <3>2
  <2>2. \A p \in Requests : request'[p].pc \in {"opened", "reading"} => request[p].pc \in {"opened", "reading"}
    BY <1>7
  <2> QED
    BY <2>1, <2>2, <1>6 DEF IInv, ChannelOfRequest
<1>20. EarlyRows'
  <2> SUFFICES ASSUME NEW d \in Channels, swapCh'[d] # None, base[d] = None
               PROVE  opened[d].by # None /\ request'[opened[d].by].pc = "done"
    BY <1>6 DEF EarlyRows
  <2>1. CASE d = c
    <3>1. CASE conflict
      BY <2>1, <3>1, <1>1, <1>2, <1>14 DEF IInv, EarlyRows
    <3>2. CASE ~conflict
      BY <2>1, <3>2, <1>2, <1>3, <1>7
    <3> QED
      BY <3>1, <3>2
  <2>2. CASE d # c
    BY <2>2, <1>7, <1>13, <1>16 DEF IInv, EarlyRows, RowsOfOpened
  <2> QED
    BY <2>1, <2>2
<1>21. AnsweredIsMarked'
  <2> SUFFICES ASSUME NEW d \in Channels, swapCh'[d] # None, opened[d].by # None
               PROVE  LET p == opened[d].by
                      IN  /\ request'[p].pc = "done" =>
                               swapCh'[d].backend /\ (request'[p].quote => swapCh'[d].quote)
                          /\ swapCh'[d].backend => request'[p].pc = "done"
    BY <1>6 DEF AnsweredIsMarked
  <2>1. CASE d = c
    BY <2>1, <1>2, <1>7, <1>9, <1>13, <1>14
  <2>2. CASE d # c
    BY <2>2, <1>7, <1>13, <1>16 DEF IInv, ChannelRows, AnsweredIsMarked, RowsOfOpened
  <2> QED
    BY <2>1, <2>2
<1>22. BrokersMissingOnlyIfRequestFirst'
  <2> SUFFICES ASSUME NEW d \in Channels, base[d] \in Backends
               PROVE  \/ Stored(d)'.beneficiaries
                      \/ base[d] = "SWAP" /\ opened[d].by # None /\ request'[opened[d].by].pc = "done"
    BY <1>6 DEF BrokersMissingOnlyIfRequestFirst
  <2>1. opened[d] # None /\ base[d] # None /\ base[d] = opened[d].type
    BY DEF IInv, Processed, Assumptions, NoneAssumption, Types
  <2>2. CASE d = c
    <3>1. swapCh[c] # None
      BY <2>1, <2>2, <1>11
    <3>2. Stored(d)'.beneficiaries = Stored(d).beneficiaries
      BY <2>2, <3>1, <1>2, <1>6, <1>10, <1>13 DEF Stored
    <3>3. ~(request[q].pc = "done")
      BY <1>1
    <3> QED
      BY <2>2, <3>2, <3>3, <1>2 DEF IInv, ChannelRows, BrokersMissingOnlyIfRequestFirst
  <2>3. CASE d # c
    BY <2>1, <2>3, <1>6, <1>7, <1>13, <1>16 DEF IInv, ChannelRows, BrokersMissingOnlyIfRequestFirst, Stored
  <2> QED
    BY <2>2, <2>3
<1>23. ExpiredIffPassed'
  <2> SUFFICES ASSUME NEW d \in Channels, opened[d] # None, Stored(d)' # None
               PROVE  Stored(d)'.isExpired <=> opened[d].expiry <= tracking[ChainOf(d)].height
    BY <1>6 DEF ExpiredIffPassed
  <2>1. CASE d = c
    <3>1. Stored(d) = swapCh[c] /\ Stored(d)' = swapCh'[c]
      BY <2>1, <1>2, <1>6 DEF Stored
    <3>2. CASE swapCh[c] = None
      <4>1. ~swapCh'[c].isExpired
        BY <3>2, <1>11, <1>13, <1>14
      <4>2. opened[c].expiry > tracking[ChainOf(c)].height
        BY <3>2, <1>2, <1>3, <1>11 DEF IInv, NotPassed
      <4>3. opened[c].expiry \in Nat /\ tracking[ChainOf(c)].height \in Nat
        BY <1>2, ChainOfChannel DEF IInv, Typed, Opening, Tracked
      <4> QED
        BY <2>1, <3>1, <4>1, <4>2, <4>3
    <3>3. CASE swapCh[c] # None
      <4>1. swapCh'[c].isExpired = swapCh[c].isExpired
        BY <3>3, <1>10, <1>13
      <4> QED
        BY <2>1, <3>1, <3>3, <4>1 DEF IInv, ChannelRows, ExpiredIffPassed
    <3> QED
      BY <3>2, <3>3
  <2>2. CASE d # c
    BY <2>2, <1>6, <1>13 DEF IInv, ChannelRows, ExpiredIffPassed, Stored
  <2> QED
    BY <2>1, <2>2
<1>24. UpsertOfHead'
  <2>1. ready # <<>> => Head(ready) \in Channels
    BY TheHead
  <2> QED
    BY <2>1, <1>6, <1>13 DEF IInv, UpsertOfHead, Stored
<1> QED
  BY <1>17, <1>18, <1>19, <1>20, <1>21, <1>22, <1>23, <1>24 DEF IInv, ChannelRows

\* The same for an account creation channel, which has no marks to compare.
LEMMA StoreAccountCreationKeeps ==
  ASSUME Assumptions, IInv, NEW q \in Requests, StoreAccountCreation(q)
  PROVE  IInv'
<1> DEFINE c == ChannelOf(q)
           row == IF accCh[c] = None THEN Row(TRUE, FALSE, None, FALSE)
                  ELSE [accCh[c] EXCEPT !.backend = TRUE]
<1>1. request[q].pc = "opened" /\ request[q].type = "ACCOUNT_CREATION" /\ request[q] \in Asker
  BY DEF StoreAccountCreation, IInv, Typed
<1>2. /\ c \in Channels /\ opened[c] \in Opening /\ opened[c].by = q
      /\ opened[c].type = "ACCOUNT_CREATION"
  BY <1>1, OwnChannel
<1>3. opened[c] # None /\ q # None
  BY <1>2 DEF Assumptions, NoneAssumption
<1>4. /\ request' = [request EXCEPT ![q].pc = "done"]
      /\ accCh' = [accCh EXCEPT ![c] = row]
      /\ UNCHANGED <<opened, ready, base, swapCh, tracking, block, earlier, upsert, late>>
  BY DEF StoreAccountCreation
<1>5. /\ request' \in [Requests -> Asker] /\ request'[q].pc = "done"
      /\ request'[q].type = request[q].type /\ request'[q].msg = request[q].msg
      /\ \A p \in Requests : p # q => request'[p] = request[p]
  BY <1>1, <1>4 DEF IInv, Typed, Asker
<1>6. row \in Rows
  <2>1. accCh[c] # None => accCh[c] \in Rows
    BY <1>2 DEF IInv, Typed
  <2> QED
    BY <2>1 DEF Row, Rows
<1>7. accCh[c] # None => row.isExpired = accCh[c].isExpired /\ row.beneficiaries = accCh[c].beneficiaries
  BY <1>2 DEF IInv, Typed, Rows
<1>8. accCh[c] = None => ~row.isExpired /\ base[c] = None
  BY <1>2 DEF Row, IInv, Processed, Stored, Backends
<1>9. row # None
  BY <1>6 DEF Assumptions, NoneAssumption
<1> HIDE DEF c, row
<1>10. /\ accCh' \in [Channels -> Rows \cup {None}] /\ accCh'[c] = row
       /\ \A d \in Channels : d # c => accCh'[d] = accCh[d]
       /\ \A d \in Channels : accCh[d] # None => accCh'[d] # None
  BY <1>2, <1>4, <1>6, <1>9 DEF IInv, Typed
<1>11. \A d \in Channels : opened[d] # None /\ opened[d].by # None =>
         /\ opened[d].by \in Requests
         /\ d # c => opened[d].by # q
  BY <1>2, <1>3 DEF IInv, Typed, Opening, ChannelOfRequest
<1>12. swapCh[c] = None
  BY <1>2 DEF IInv, RowsOfOpened
<1>13. Typed' /\ Queue' /\ NotPassed' /\ NotAhead' /\ PreviousIsOfEarlierBlock'
  BY <1>4, <1>5, <1>10 DEF IInv, Typed, Queue, NotPassed, NotAhead, ChannelRows, PreviousIsOfEarlierBlock
<1>14. Processed' /\ RowsOfOpened'
  BY <1>2, <1>3, <1>4, <1>10 DEF IInv, Processed, RowsOfOpened, Stored
<1>15. ChannelOfRequest'
  <2>1. ASSUME NEW d \in Channels, opened[d] # None, opened[d].by # None
        PROVE  LET r == request'[opened[d].by]
               IN  /\ r.pc \in {"opened", "reading", "failed", "done"}
                   /\ r.type = opened[d].type /\ r.msg = opened[d].msg
                   /\ r.pc = "done" /\ r.type = "SWAP" => swapCh[d] # None
    <3>1. CASE d = c
      BY <2>1, <3>1, <1>1, <1>2, <1>5 DEF IInv, ChannelOfRequest
    <3>2. CASE d # c
      BY <2>1, <3>2, <1>5, <1>11 DEF IInv, ChannelOfRequest
    <3> QED
      BY <3>1, <3>2
  <2>2. \A p \in Requests : request'[p].pc \in {"opened", "reading"} => request[p].pc \in {"opened", "reading"}
    BY <1>5
  <2> QED
    BY <2>1, <2>2, <1>4 DEF IInv, ChannelOfRequest
<1>16. \A d \in Channels : swapCh[d] # None => opened[d] # None /\ d # c
  BY <1>12 DEF IInv, RowsOfOpened
<1>17. EarlyRows' /\ AnsweredIsMarked'
  BY <1>4, <1>5, <1>11, <1>16 DEF IInv, EarlyRows, ChannelRows, AnsweredIsMarked
<1>18. BrokersMissingOnlyIfRequestFirst'
  <2> SUFFICES ASSUME NEW d \in Channels, base[d] \in Backends
               PROVE  \/ Stored(d)'.beneficiaries
                      \/ base[d] = "SWAP" /\ opened[d].by # None /\ request'[opened[d].by].pc = "done"
    BY <1>4 DEF BrokersMissingOnlyIfRequestFirst
  <2>1. opened[d] # None /\ base[d] # None /\ base[d] = opened[d].type
    BY DEF IInv, Processed, Assumptions, NoneAssumption, Types
  <2>2. CASE d = c
    <3>1. accCh[c] # None
      BY <2>1, <2>2, <1>8
    <3>2. Stored(d)'.beneficiaries = Stored(d).beneficiaries
      BY <2>2, <3>1, <1>2, <1>4, <1>7, <1>10 DEF Stored
    <3> QED
      BY <2>1, <2>2, <3>2, <1>2 DEF IInv, ChannelRows, BrokersMissingOnlyIfRequestFirst
  <2>3. CASE d # c
    BY <2>1, <2>3, <1>4, <1>5, <1>10, <1>11 DEF IInv, ChannelRows, BrokersMissingOnlyIfRequestFirst, Stored
  <2> QED
    BY <2>2, <2>3
<1>19. ExpiredIffPassed'
  <2> SUFFICES ASSUME NEW d \in Channels, opened[d] # None, Stored(d)' # None
               PROVE  Stored(d)'.isExpired <=> opened[d].expiry <= tracking[ChainOf(d)].height
    BY <1>4 DEF ExpiredIffPassed
  <2>1. CASE d = c
    <3>1. Stored(d) = accCh[c] /\ Stored(d)' = accCh'[c]
      BY <2>1, <1>2, <1>4 DEF Stored
    <3>2. CASE accCh[c] = None
      <4>1. ~accCh'[c].isExpired
        BY <3>2, <1>8, <1>10
      <4>2. opened[c].expiry > tracking[ChainOf(c)].height
        BY <3>2, <1>2, <1>3, <1>8 DEF IInv, NotPassed
      <4>3. opened[c].expiry \in Nat /\ tracking[ChainOf(c)].height \in Nat
        BY <1>2, ChainOfChannel DEF IInv, Typed, Opening, Tracked
      <4> QED
        BY <2>1, <3>1, <4>1, <4>2, <4>3
    <3>3. CASE accCh[c] # None
      <4>1. accCh'[c].isExpired = accCh[c].isExpired
        BY <3>3, <1>7, <1>10
      <4> QED
        BY <2>1, <3>1, <3>3, <4>1 DEF IInv, ChannelRows, ExpiredIffPassed
    <3> QED
      BY <3>2, <3>3
  <2>2. CASE d # c
    BY <2>2, <1>4, <1>10 DEF IInv, ChannelRows, ExpiredIffPassed, Stored
  <2> QED
    BY <2>1, <2>2
<1>20. UpsertOfHead'
  <2>1. ready # <<>> => Head(ready) \in Channels
    BY TheHead
  <2> QED
    BY <2>1, <1>4, <1>10 DEF IInv, UpsertOfHead, Stored
<1> QED
  BY <1>13, <1>14, <1>15, <1>17, <1>18, <1>19, <1>20 DEF IInv, ChannelRows

-----------------------------------------------------------------------------

\* An upsert that reads, or that meets a conflict, changes no row.
LEMMA UpsertKeeps ==
  ASSUME Assumptions, IInv, ready # <<>>, upsert' \in {"idle", "found", "missing"},
         upsert' = "found" => Stored(Head(ready)) # None,
         UNCHANGED <<opened, ready, base, swapCh, accCh, tracking, block, earlier, request, late>>
  PROVE  IInv'
<1>1. Typed' /\ Queue' /\ NotPassed' /\ NotAhead' /\ PreviousIsOfEarlierBlock'
  BY DEF IInv, Typed, Queue, NotPassed, NotAhead, ChannelRows, PreviousIsOfEarlierBlock
<1>2. Processed' /\ RowsOfOpened' /\ ChannelOfRequest' /\ EarlyRows' /\ UpsertOfHead'
  BY DEF IInv, Processed, RowsOfOpened, ChannelOfRequest, EarlyRows, UpsertOfHead, Stored
<1>3. AnsweredIsMarked' /\ BrokersMissingOnlyIfRequestFirst' /\ ExpiredIffPassed'
  BY DEF IInv, ChannelRows, AnsweredIsMarked, BrokersMissingOnlyIfRequestFirst, ExpiredIffPassed, Stored
<1> QED
  BY <1>1, <1>2, <1>3 DEF IInv, ChannelRows

\* The rest of the queue, when the head has been reached.
LEMMA TheRest ==
  ASSUME Assumptions, IInv, ready # <<>>
  PROVE  /\ Tail(ready) \in Seq(Channels) /\ Len(Tail(ready)) = Len(ready) - 1
         /\ \A i \in 1 .. Len(Tail(ready)) : Tail(ready)[i] = ready[i + 1] /\ i + 1 \in 1 .. Len(ready)
  BY TheHead, HeadTailProperties, LenProperties DEF IInv, Typed

\* The event of the head is handled: its row is there and shows its brokers,
\* unless the request was first.
LEMMA ReachedKeeps ==
  ASSUME Assumptions, IInv, ready # <<>>, ReadyDone,
         swapCh' \in [Channels -> Rows \cup {None}], accCh' \in [Channels -> Rows \cup {None}],
         \A d \in Channels :
           /\ d # Head(ready) \/ opened[d].type # "SWAP" => swapCh'[d] = swapCh[d]
           /\ d # Head(ready) \/ opened[d].type # "ACCOUNT_CREATION" => accCh'[d] = accCh[d],
         opened[Head(ready)].type = "SWAP" =>
           swapCh'[Head(ready)] = IF swapCh[Head(ready)] # None THEN swapCh[Head(ready)]
                                  ELSE Row(FALSE, TRUE, opened[Head(ready)].msg, FALSE),
         opened[Head(ready)].type = "ACCOUNT_CREATION" =>
           /\ accCh'[Head(ready)] # None /\ accCh'[Head(ready)].beneficiaries
           /\ IF accCh[Head(ready)] # None
              THEN accCh'[Head(ready)].isExpired = accCh[Head(ready)].isExpired
              ELSE ~accCh'[Head(ready)].isExpired
  PROVE  IInv'
<1> DEFINE c == Head(ready)
<1>1. /\ c \in Channels /\ c = ready[1] /\ Len(ready) \in Nat \ {0}
      /\ opened[c] \in Opening /\ base[c] = None
  BY TheHead
<1>2. opened[c] # None
  BY <1>1 DEF Assumptions, NoneAssumption
<1>3. /\ block' = block + 1 /\ earlier' = [ch \in Chains |-> tracking[ch].height]
      /\ base' = [base EXCEPT ![c] = opened[c].type] /\ ready' = Tail(ready) /\ upsert' = "idle"
      /\ UNCHANGED <<opened, tracking, request, late>>
  BY DEF ReadyDone, Commit, BaseType
<1>4. /\ base' \in [Channels -> Types \cup {None}] /\ base'[c] = opened[c].type
      /\ \A d \in Channels : d # c => base'[d] = base[d]
  BY <1>1, <1>3 DEF IInv, Typed, Opening
<1>5. opened[c].type # None /\ opened[c].type \in Types
  BY <1>1 DEF Opening, Assumptions, NoneAssumption
<1>6. opened[c].type = "SWAP" =>
        /\ swapCh'[c] # None /\ swapCh'[c].msg = opened[c].msg
        /\ swapCh[c] = None => /\ ~swapCh'[c].isExpired /\ swapCh'[c].beneficiaries
                               /\ ~swapCh'[c].backend
        /\ swapCh[c] # None => swapCh'[c] = swapCh[c]
  <2> SUFFICES ASSUME opened[c].type = "SWAP"
               PROVE  /\ swapCh'[c] # None /\ swapCh'[c].msg = opened[c].msg
                      /\ swapCh[c] = None => /\ ~swapCh'[c].isExpired /\ swapCh'[c].beneficiaries
                                             /\ ~swapCh'[c].backend
                      /\ swapCh[c] # None => swapCh'[c] = swapCh[c]
    OBVIOUS
  <2> DEFINE new == Row(FALSE, TRUE, opened[c].msg, FALSE)
  <2>1. new \in Rows
    BY <1>1 DEF Row, Rows, Opening
  <2>2. new # None
    BY <2>1 DEF Assumptions, NoneAssumption
  <2>3. new.msg = opened[c].msg /\ ~new.isExpired /\ new.beneficiaries /\ ~new.backend
    BY DEF Row
  <2>4. swapCh[c] # None => swapCh[c].msg = opened[c].msg
    BY <1>1 DEF IInv, RowsOfOpened
  <2> HIDE DEF new
  <2> QED
    BY <2>2, <2>3, <2>4 DEF new
<1> HIDE DEF c
<1>7. \A d \in Channels :
        /\ d # c \/ opened[d].type # "SWAP" => swapCh'[d] = swapCh[d]
        /\ d # c \/ opened[d].type # "ACCOUNT_CREATION" => accCh'[d] = accCh[d]
  BY DEF c
<1>8. opened[c].type = "ACCOUNT_CREATION" =>
        /\ accCh'[c] # None /\ accCh'[c].beneficiaries
        /\ accCh[c] # None => accCh'[c].isExpired = accCh[c].isExpired
        /\ accCh[c] = None => ~accCh'[c].isExpired
  BY DEF c
<1>9. Typed'
  <2>1. ready' \in Seq(Channels)
    BY <1>3, TheRest
  <2>2. earlier' \in [Chains -> Nat] /\ block' \in Nat
    BY <1>3 DEF IInv, Typed, Tracked
  <2> QED
    BY <2>1, <2>2, <1>3, <1>4 DEF IInv, Typed
<1>10. Queue'
  <2>1. /\ Len(ready') = Len(ready) - 1
        /\ \A i \in 1 .. Len(ready') : /\ i + 1 \in 1 .. Len(ready) /\ ready'[i] = ready[i + 1]
                                       /\ ready[i + 1] # c /\ ready[i + 1] \in Channels
    <3>1. \A i \in 1 .. Len(ready') : i + 1 \in 1 .. Len(ready) /\ ready'[i] = ready[i + 1]
      BY <1>3, TheRest
    <3>2. \A j \in 1 .. Len(ready) : ready[j] \in Channels /\ (ready[j] = c => j = 1)
      BY <1>1, ElementOfSeq DEF IInv, Typed, Queue
    <3>3. \A i \in 1 .. Len(ready') : i + 1 # 1
      OBVIOUS
    <3> QED
      BY <3>1, <3>2, <3>3, <1>3, TheRest
  <2>2. \A i \in 1 .. Len(ready') : opened[ready'[i]] # None /\ base'[ready'[i]] = None
    BY <2>1, <1>4 DEF IInv, Queue
  <2>3. \A i, j \in 1 .. Len(ready') : ready'[i] = ready'[j] => i = j
    <3> SUFFICES ASSUME NEW i \in 1 .. Len(ready'), NEW j \in 1 .. Len(ready'), ready'[i] = ready'[j]
                 PROVE  i = j
      OBVIOUS
    <3>1. i + 1 = j + 1
      BY <2>1 DEF IInv, Queue
    <3> QED
      BY <3>1
  <2>4. ASSUME NEW d \in Channels, opened[d] # None, base'[d] = None
        PROVE  \E i \in 1 .. Len(ready') : ready'[i] = d
    <3>1. d # c /\ base[d] = None
      BY <2>4, <1>4, <1>5
    <3>2. PICK j \in 1 .. Len(ready) : ready[j] = d
      BY <2>4, <3>1 DEF IInv, Queue
    <3>3. j # 1 /\ j - 1 \in 1 .. Len(ready') /\ (j - 1) + 1 = j
      BY <3>1, <3>2, <1>1, <2>1
    <3> QED
      BY <3>2, <3>3, <2>1
  <2> QED
    BY <2>2, <2>3, <2>4, <1>3 DEF Queue
<1>11. NotPassed' /\ NotAhead'
  BY <1>3, <1>4, <1>5 DEF IInv, NotPassed, NotAhead, Typed, Tracked
<1>12. Processed'
  <2> SUFFICES ASSUME NEW d \in Channels, base'[d] # None
               PROVE  /\ opened[d] # None /\ base'[d] = opened[d].type
                      /\ base'[d] \in Backends => Stored(d)' # None
    BY <1>3 DEF Processed
  <2>1. CASE d = c
    BY <2>1, <1>2, <1>3, <1>4, <1>6, <1>8 DEF Stored, Backends
  <2>2. CASE d # c
    BY <2>2, <1>3, <1>4, <1>7 DEF IInv, Processed, Stored
  <2> QED
    BY <2>1, <2>2
<1>13. RowsOfOpened'
  <2> SUFFICES ASSUME NEW d \in Channels
               PROVE  /\ swapCh'[d] # None => /\ opened[d] # None /\ opened[d].type = "SWAP"
                                              /\ swapCh'[d].msg = opened[d].msg
                      /\ accCh'[d] # None => opened[d] # None /\ opened[d].type = "ACCOUNT_CREATION"
    BY <1>3 DEF RowsOfOpened
  <2>1. CASE d = c
    BY <2>1, <1>1, <1>2, <1>6, <1>7 DEF IInv, RowsOfOpened
  <2>2. CASE d # c
    BY <2>2, <1>7 DEF IInv, RowsOfOpened
  <2> QED
    BY <2>1, <2>2
<1>14. \A d \in Channels : swapCh[d] # None => swapCh'[d] # None
  BY <1>6, <1>7
<1>15. ChannelOfRequest'
  <2>1. \A d \in Channels : opened[d] # None /\ opened[d].by # None =>
          LET r == request[opened[d].by]
          IN  /\ r.pc \in {"opened", "reading", "failed", "done"}
              /\ r.type = opened[d].type /\ r.msg = opened[d].msg
              /\ r.pc = "done" /\ r.type = "SWAP" => swapCh'[d] # None
    BY <1>14 DEF IInv, ChannelOfRequest
  <2> QED
    BY <2>1, <1>3 DEF IInv, ChannelOfRequest
<1>16. EarlyRows'
  BY <1>3, <1>4, <1>5, <1>7 DEF IInv, EarlyRows
<1>17. AnsweredIsMarked'
  <2> SUFFICES ASSUME NEW d \in Channels, swapCh'[d] # None, opened[d].by # None
               PROVE  LET p == opened[d].by
                      IN  /\ request[p].pc = "done" =>
                               swapCh'[d].backend /\ (request[p].quote => swapCh'[d].quote)
                          /\ swapCh'[d].backend => request[p].pc = "done"
    BY <1>3 DEF AnsweredIsMarked
  <2>1. CASE swapCh[d] = None
    <3>1. d = c /\ opened[c].type = "SWAP"
      BY <2>1, <1>7
    <3>2. request[opened[c].by].type = "SWAP" /\ (request[opened[c].by].pc = "done" => swapCh[c] # None)
      BY <3>1, <1>1, <1>2 DEF IInv, ChannelOfRequest
    <3> QED
      BY <2>1, <3>1, <3>2, <1>6
  <2>2. CASE swapCh[d] # None
    <3>1. swapCh'[d] = swapCh[d]
      BY <2>2, <1>6, <1>7
    <3> QED
      BY <2>2, <3>1 DEF IInv, ChannelRows, AnsweredIsMarked
  <2> QED
    BY <2>1, <2>2
<1>18. BrokersMissingOnlyIfRequestFirst'
  <2> SUFFICES ASSUME NEW d \in Channels, base'[d] \in Backends
               PROVE  \/ Stored(d)'.beneficiaries
                      \/ base'[d] = "SWAP" /\ opened[d].by # None /\ request[opened[d].by].pc = "done"
    BY <1>3 DEF BrokersMissingOnlyIfRequestFirst
  <2>1. CASE d # c
    <3>1. Stored(d)' = Stored(d) /\ base'[d] = base[d]
      BY <2>1, <1>3, <1>4, <1>7 DEF Stored
    <3> QED
      BY <3>1 DEF IInv, ChannelRows, BrokersMissingOnlyIfRequestFirst
  <2>2. CASE d = c /\ opened[c].type = "SWAP"
    <3>1. Stored(d)' = swapCh'[c]
      BY <2>2, <1>3 DEF Stored
    <3>2. swapCh[c] # None => opened[c].by # None /\ request[opened[c].by].pc = "done"
      BY <1>1 DEF IInv, EarlyRows
    <3> QED
      BY <2>2, <3>1, <3>2, <1>4, <1>6
  <2>3. CASE d = c /\ opened[c].type = "ACCOUNT_CREATION"
    BY <2>3, <1>3, <1>8 DEF Stored
  <2> QED
    BY <2>1, <2>2, <2>3, <1>4 DEF Backends
<1>19. ExpiredIffPassed'
  <2> SUFFICES ASSUME NEW d \in Channels, opened[d] # None, Stored(d)' # None
               PROVE  Stored(d)'.isExpired <=> opened[d].expiry <= tracking[ChainOf(d)].height
    BY <1>3 DEF ExpiredIffPassed
  <2>1. CASE Stored(d) = None
    <3>1. d = c
      BY <2>1, <1>3, <1>7 DEF Stored
    <3>2. ~Stored(d)'.isExpired
      BY <2>1, <3>1, <1>1, <1>3, <1>6, <1>7, <1>8 DEF Stored
    <3>3. opened[d].expiry > tracking[ChainOf(d)].height
      BY <3>1, <1>1 DEF IInv, NotPassed
    <3>4. opened[d].expiry \in Nat /\ tracking[ChainOf(d)].height \in Nat
      BY ChainOfChannel DEF IInv, Typed, Opening, Tracked
    <3> QED
      BY <3>2, <3>3, <3>4
  <2>2. CASE Stored(d) # None
    <3>1. Stored(d)'.isExpired = Stored(d).isExpired
      BY <2>2, <1>1, <1>3, <1>6, <1>7, <1>8 DEF Stored
    <3> QED
      BY <2>2, <3>1 DEF IInv, ChannelRows, ExpiredIffPassed
  <2> QED
    BY <2>1, <2>2
<1>20. PreviousIsOfEarlierBlock' /\ UpsertOfHead'
  BY <1>3 DEF IInv, Typed, Tracked, NotAhead, PreviousIsOfEarlierBlock, UpsertOfHead
<1> QED
  BY <1>9, <1>10, <1>11, <1>12, <1>13, <1>15, <1>16, <1>17, <1>18, <1>19, <1>20 DEF IInv, ChannelRows

LEMMA SwapReadyKeeps == Assumptions /\ IInv /\ SwapDepositAddressReady => IInv'
<1> SUFFICES ASSUME Assumptions, IInv, SwapDepositAddressReady PROVE IInv'
  OBVIOUS
<1> DEFINE c == Head(ready)
<1>1. /\ upsert # "idle" /\ opened[c].type = "SWAP" /\ accCh' = accCh /\ ReadyDone
      /\ upsert = "missing" => swapCh[c] = None
      /\ swapCh' = [swapCh EXCEPT ![c] = IF upsert = "found" THEN swapCh[c]
                                         ELSE Row(FALSE, TRUE, opened[c].msg, FALSE)]
  BY DEF SwapDepositAddressReady
<1>2. ready # <<>> /\ upsert \in {"found", "missing"}
  BY <1>1 DEF IInv, UpsertOfHead, Typed
<1>3. c \in Channels /\ opened[c] \in Opening
  BY <1>2, TheHead
<1>4. upsert = "found" <=> swapCh[c] # None
  BY <1>1, <1>2 DEF IInv, UpsertOfHead, Stored
<1>5. Row(FALSE, TRUE, opened[c].msg, FALSE) \in Rows
  BY <1>3 DEF Row, Rows, Opening
<1> HIDE DEF c
<1>6. /\ swapCh' \in [Channels -> Rows \cup {None}]
      /\ swapCh'[c] = IF swapCh[c] # None THEN swapCh[c] ELSE Row(FALSE, TRUE, opened[c].msg, FALSE)
      /\ \A d \in Channels : d # c => swapCh'[d] = swapCh[d]
  BY <1>1, <1>3, <1>4, <1>5 DEF IInv, Typed
<1>7. accCh' \in [Channels -> Rows \cup {None}]
  BY <1>1 DEF IInv, Typed
<1> QED
  BY <1>1, <1>2, <1>6, <1>7, ReachedKeeps DEF c

LEMMA AccountCreationReadyKeeps ==
  Assumptions /\ IInv /\ AccountCreationDepositAddressReady => IInv'
<1> SUFFICES ASSUME Assumptions, IInv, AccountCreationDepositAddressReady PROVE IInv'
  OBVIOUS
<1> DEFINE c == Head(ready)
           row == IF upsert = "found" THEN Updated(accCh[c]) ELSE Row(FALSE, TRUE, None, FALSE)
<1>1. /\ upsert # "idle" /\ opened[c].type = "ACCOUNT_CREATION" /\ swapCh' = swapCh /\ ReadyDone
      /\ upsert = "missing" => accCh[c] = None
      /\ accCh' = [accCh EXCEPT ![c] = row]
  BY DEF AccountCreationDepositAddressReady
<1>2. ready # <<>> /\ upsert \in {"found", "missing"}
  BY <1>1 DEF IInv, UpsertOfHead, Typed
<1>3. c \in Channels
  BY <1>2, TheHead
<1>4. upsert = "found" <=> accCh[c] # None
  BY <1>1, <1>2 DEF IInv, UpsertOfHead, Stored
<1>5. /\ row \in Rows /\ row.beneficiaries
      /\ IF accCh[c] # None THEN row.isExpired = accCh[c].isExpired ELSE ~row.isExpired
  <2>1. CASE upsert = "found"
    <3>1. accCh[c] \in Rows
      BY <2>1, <1>3, <1>4 DEF IInv, Typed
    <3> QED
      BY <2>1, <3>1, <1>4 DEF Updated, Rows
  <2>2. CASE upsert # "found"
    BY <2>2, <1>4 DEF Row, Rows
  <2> QED
    BY <2>1, <2>2
<1>6. row # None
  BY <1>5 DEF Assumptions, NoneAssumption
<1> HIDE DEF c, row
<1>7. /\ accCh' \in [Channels -> Rows \cup {None}] /\ accCh'[c] = row
      /\ \A d \in Channels : d # c => accCh'[d] = accCh[d]
  BY <1>1, <1>3, <1>5 DEF IInv, Typed
<1>8. swapCh' \in [Channels -> Rows \cup {None}]
  BY <1>1 DEF IInv, Typed
<1> QED
  BY <1>1, <1>2, <1>5, <1>6, <1>7, <1>8, ReachedKeeps DEF c

LEMMA LiquidityReadyKeeps == Assumptions /\ IInv /\ LiquidityDepositAddressReady => IInv'
<1> SUFFICES ASSUME Assumptions, IInv, LiquidityDepositAddressReady PROVE IInv'
  OBVIOUS
<1>1. /\ ready # <<>> /\ opened[Head(ready)].type = "LIQUIDITY"
      /\ swapCh' = swapCh /\ accCh' = accCh /\ ReadyDone
  BY DEF LiquidityDepositAddressReady
<1>2. swapCh' \in [Channels -> Rows \cup {None}] /\ accCh' \in [Channels -> Rows \cup {None}]
  BY <1>1 DEF IInv, Typed
<1> QED
  BY <1>1, <1>2, ReachedKeeps

-----------------------------------------------------------------------------

\* What expiring the rows of a chain does to one table.
LEMMA ExpiredRows ==
  ASSUME Assumptions, NEW rows \in [Channels -> Rows \cup {None}], NEW ch, NEW h
  PROVE  /\ Expired(rows, ch, h) \in [Channels -> Rows \cup {None}]
         /\ \A c \in Channels : rows[c] = None <=> Expired(rows, ch, h)[c] = None
         /\ \A c \in Channels : rows[c] # None =>
              LET new == Expired(rows, ch, h)[c]
              IN  /\ new.backend = rows[c].backend /\ new.beneficiaries = rows[c].beneficiaries
                  /\ new.msg = rows[c].msg /\ new.quote = rows[c].quote
                  /\ IF ChainOf(c) = ch /\ opened[c].expiry <= h
                     THEN new.isExpired ELSE new.isExpired = rows[c].isExpired
<1> DEFINE new(c) == IF rows[c] # None /\ ChainOf(c) = ch /\ opened[c].expiry <= h
                     THEN [rows[c] EXCEPT !.isExpired = TRUE] ELSE rows[c]
<1>1. \A c \in Channels : rows[c] # None =>
        /\ new(c) \in Rows /\ new(c).backend = rows[c].backend
        /\ new(c).beneficiaries = rows[c].beneficiaries
        /\ new(c).msg = rows[c].msg /\ new(c).quote = rows[c].quote
        /\ IF ChainOf(c) = ch /\ opened[c].expiry <= h
           THEN new(c).isExpired ELSE new(c).isExpired = rows[c].isExpired
  <2> SUFFICES ASSUME NEW c \in Channels, rows[c] # None
               PROVE  /\ new(c) \in Rows /\ new(c).backend = rows[c].backend
                      /\ new(c).beneficiaries = rows[c].beneficiaries
                      /\ new(c).msg = rows[c].msg /\ new(c).quote = rows[c].quote
                      /\ IF ChainOf(c) = ch /\ opened[c].expiry <= h
                         THEN new(c).isExpired ELSE new(c).isExpired = rows[c].isExpired
    OBVIOUS
  <2>1. rows[c] \in Rows
    OBVIOUS
  <2>2. CASE ChainOf(c) = ch /\ opened[c].expiry <= h
    <3>1. new(c) = [rows[c] EXCEPT !.isExpired = TRUE]
      BY <2>2
    <3> HIDE DEF new
    <3> QED
      BY <2>1, <2>2, <3>1 DEF Rows
  <2>3. CASE ~(ChainOf(c) = ch /\ opened[c].expiry <= h)
    <3>1. new(c) = rows[c]
      BY <2>3
    <3> HIDE DEF new
    <3> QED
      BY <2>1, <2>3, <3>1
  <2> QED
    BY <2>2, <2>3
<1>2. \A c \in Channels : rows[c] = None => new(c) = None
  OBVIOUS
<1>3. \A c \in Channels : rows[c] # None => new(c) # None
  BY <1>1 DEF Assumptions, NoneAssumption
<1>4. Expired(rows, ch, h) = [c \in Channels |-> new(c)]
  BY DEF Expired
<1> HIDE DEF new
<1> QED
  BY <1>1, <1>2, <1>3, <1>4

\* A block of chain state events: rows expire with the height of their chain.
LEMMA ChainStateKeeps ==
  ASSUME Assumptions, IInv, NEW ch \in Chains, NEW h1 \in 1 .. MaxHeight, NEW h2 \in 1 .. MaxHeight,
         ChainStateUpdated(ch, h1, h2)
  PROVE  IInv'
<1> DEFINE t1 == Track(tracking[ch], h1, block + 1)
           t2 == IF h2 = h1 THEN t1 ELSE Track(t1, h2, block + 1)
<1>1. /\ upsert = "idle" /\ tracking[ch].height < h2
      /\ \A i \in DOMAIN ready : ChainOf(ready[i]) = ch => h2 < opened[ready[i]].expiry
      /\ block' = block + 1 /\ earlier' = [k \in Chains |-> tracking[k].height]
      /\ tracking' = [tracking EXCEPT ![ch] = t2]
      /\ swapCh' = Expired(swapCh, ch, h2) /\ accCh' = Expired(accCh, ch, h2)
      /\ UNCHANGED <<opened, ready, base, request, upsert, late>>
  BY DEF ChainStateUpdated, Commit
<1>2. /\ block \in Nat /\ tracking[ch] \in Tracked /\ tracking[ch].eventWitnessedBlock <= block
      /\ h1 \in Nat /\ h2 \in Nat
  BY DEF IInv, Typed, NotAhead, Assumptions, BoundsAssumption
<1>3. t2 \in Tracked /\ t2.height = h2 /\ t2.eventWitnessedBlock = block + 1
      /\ t2.previousHeight = tracking[ch].height
  BY <1>2 DEF Track, PreviousHeight, Tracked
<1> HIDE DEF t2
<1>4. /\ tracking' \in [Chains -> Tracked] /\ tracking'[ch] = t2
      /\ \A k \in Chains : k # ch => tracking'[k] = tracking[k]
  BY <1>1, <1>3 DEF IInv, Typed
<1>5. /\ swapCh' \in [Channels -> Rows \cup {None}]
      /\ \A c \in Channels : swapCh[c] = None <=> swapCh'[c] = None
      /\ \A c \in Channels : swapCh[c] # None =>
           /\ swapCh'[c].backend = swapCh[c].backend /\ swapCh'[c].beneficiaries = swapCh[c].beneficiaries
           /\ swapCh'[c].msg = swapCh[c].msg /\ swapCh'[c].quote = swapCh[c].quote
           /\ IF ChainOf(c) = ch /\ opened[c].expiry <= h2
              THEN swapCh'[c].isExpired ELSE swapCh'[c].isExpired = swapCh[c].isExpired
  <2>1. swapCh \in [Channels -> Rows \cup {None}] /\ swapCh' = Expired(swapCh, ch, h2)
    BY <1>1 DEF IInv, Typed
  <2> QED
    BY <2>1, ExpiredRows
<1>6. /\ accCh' \in [Channels -> Rows \cup {None}]
      /\ \A c \in Channels : accCh[c] = None <=> accCh'[c] = None
      /\ \A c \in Channels : accCh[c] # None =>
           /\ accCh'[c].backend = accCh[c].backend /\ accCh'[c].beneficiaries = accCh[c].beneficiaries
           /\ accCh'[c].msg = accCh[c].msg /\ accCh'[c].quote = accCh[c].quote
           /\ IF ChainOf(c) = ch /\ opened[c].expiry <= h2
              THEN accCh'[c].isExpired ELSE accCh'[c].isExpired = accCh[c].isExpired
  <2>1. accCh \in [Channels -> Rows \cup {None}] /\ accCh' = Expired(accCh, ch, h2)
    BY <1>1 DEF IInv, Typed
  <2> QED
    BY <2>1, ExpiredRows
<1>7. \A c \in Channels :
        /\ Stored(c) = None <=> Stored(c)' = None
        /\ Stored(c) # None =>
             /\ Stored(c)'.beneficiaries = Stored(c).beneficiaries
             /\ IF ChainOf(c) = ch /\ opened[c].expiry <= h2
                THEN Stored(c)'.isExpired ELSE Stored(c)'.isExpired = Stored(c).isExpired
  BY <1>1, <1>5, <1>6 DEF Stored
<1>8. Typed'
  <2>1. earlier' \in [Chains -> Nat] /\ block' \in Nat
    BY <1>1 DEF IInv, Typed, Tracked
  <2> QED
    BY <2>1, <1>1, <1>4, <1>5, <1>6 DEF IInv, Typed
<1>9. NotPassed'
  <2> SUFFICES ASSUME NEW c \in Channels, opened[c] # None, base[c] = None
               PROVE  opened[c].expiry > tracking'[ChainOf(c)].height
    BY <1>1 DEF NotPassed
  <2>1. CASE ChainOf(c) = ch
    <3>1. PICK i \in 1 .. Len(ready) : ready[i] = c
      BY DEF IInv, Queue
    <3>2. i \in DOMAIN ready
      BY LenProperties DEF IInv, Typed
    <3>3. h2 < opened[c].expiry
      BY <2>1, <3>1, <3>2, <1>1
    <3> QED
      BY <2>1, <3>3, <1>2, <1>3, <1>4 DEF IInv, Typed, Opening
  <2>2. CASE ChainOf(c) # ch
    BY <2>2, <1>4, ChainOfChannel DEF IInv, NotPassed
  <2> QED
    BY <2>1, <2>2
<1>10. Queue' /\ Processed'
  BY <1>1, <1>7 DEF IInv, Queue, Processed
<1>11. RowsOfOpened' /\ EarlyRows'
  BY <1>1, <1>5, <1>6 DEF IInv, RowsOfOpened, EarlyRows
<1>12. ChannelOfRequest'
  <2>1. \A d \in Channels : opened[d] # None /\ opened[d].by # None =>
          LET r == request[opened[d].by]
          IN  /\ r.pc \in {"opened", "reading", "failed", "done"}
              /\ r.type = opened[d].type /\ r.msg = opened[d].msg
              /\ r.pc = "done" /\ r.type = "SWAP" => swapCh'[d] # None
    BY <1>5 DEF IInv, ChannelOfRequest
  <2> QED
    BY <2>1, <1>1 DEF IInv, ChannelOfRequest
<1>13. UpsertOfHead'
  BY <1>1 DEF UpsertOfHead
<1>14. NotAhead' /\ PreviousIsOfEarlierBlock'
  <2> SUFFICES ASSUME NEW k \in Chains
               PROVE  /\ tracking'[k].eventWitnessedBlock <= block'
                      /\ tracking'[k].eventWitnessedBlock = block' => tracking'[k].previousHeight = earlier'[k]
    BY DEF NotAhead, PreviousIsOfEarlierBlock
  <2>1. CASE k = ch
    BY <2>1, <1>1, <1>2, <1>3, <1>4
  <2>2. CASE k # ch
    <3>1. tracking'[k] = tracking[k] /\ tracking[k].eventWitnessedBlock <= block
      BY <2>2, <1>4 DEF IInv, NotAhead
    <3>2. tracking[k].eventWitnessedBlock \in Nat
      BY DEF IInv, Typed, Tracked
    <3> QED
      BY <3>1, <3>2, <1>1, <1>2
  <2> QED
    BY <2>1, <2>2
<1>15. AnsweredIsMarked'
  BY <1>1, <1>5 DEF IInv, ChannelRows, AnsweredIsMarked
<1>16. BrokersMissingOnlyIfRequestFirst'
  <2>1. \A c \in Channels : base[c] \in Backends => Stored(c) # None
    BY DEF IInv, Processed, Assumptions, NoneAssumption, Types
  <2> QED
    BY <2>1, <1>1, <1>7 DEF IInv, ChannelRows, BrokersMissingOnlyIfRequestFirst
<1>17. ExpiredIffPassed'
  <2> SUFFICES ASSUME NEW c \in Channels, opened[c] # None, Stored(c)' # None
               PROVE  Stored(c)'.isExpired <=> opened[c].expiry <= tracking'[ChainOf(c)].height
    BY <1>1 DEF ExpiredIffPassed
  <2>1. /\ Stored(c) # None
        /\ Stored(c).isExpired <=> opened[c].expiry <= tracking[ChainOf(c)].height
    BY <1>7 DEF IInv, ChannelRows, ExpiredIffPassed
  <2>2. opened[c].expiry \in Nat /\ tracking[ChainOf(c)].height \in Nat
    BY ChainOfChannel DEF IInv, Typed, Opening, Tracked
  <2>3. CASE ChainOf(c) = ch
    <3>1. tracking'[ChainOf(c)].height = h2
      BY <2>3, <1>3, <1>4
    <3>2. CASE opened[c].expiry <= h2
      BY <2>1, <2>3, <3>1, <3>2, <1>7
    <3>3. CASE ~(opened[c].expiry <= h2)
      <4>1. ~(opened[c].expiry <= tracking[ch].height)
        BY <2>2, <2>3, <3>3, <1>1, <1>2
      <4>2. Stored(c)'.isExpired = Stored(c).isExpired
        BY <2>1, <3>3, <1>7
      <4> QED
        BY <2>1, <2>3, <3>1, <3>3, <4>1, <4>2
    <3> QED
      BY <3>2, <3>3
  <2>4. CASE ChainOf(c) # ch
    BY <2>1, <2>4, <1>4, <1>7, ChainOfChannel
  <2> QED
    BY <2>3, <2>4
<1> QED
  BY <1>8, <1>9, <1>10, <1>11, <1>12, <1>13, <1>14, <1>15, <1>16, <1>17 DEF IInv, ChannelRows

-----------------------------------------------------------------------------

LEMMA CountOpenKeeps ==
  ASSUME Assumptions, IInv, NEW q \in Requests, NEW ch \in Chains,
         NEW msg \in Messages \cup {None}, NEW quote \in BOOLEAN, CountOpen(q, ch, msg, quote)
  PROVE  IInv'
<1> DEFINE pc == IF Cardinality(OpenChannels(ch, msg)) >= MaxOpen THEN "refused" ELSE "counted"
           r == [request[q] EXCEPT !.pc = pc, !.chain = ch, !.type = "SWAP", !.msg = msg,
                                   !.quote = quote, !.late = Unstored(ch)]
<1>1. /\ request[q].pc = "idle" /\ request' = [request EXCEPT ![q] = r]
      /\ UNCHANGED <<opened, ready, base, swapCh, accCh, tracking, block, earlier, upsert, late>>
  BY DEF CountOpen
<1>2. Unstored(ch) \in BOOLEAN
  BY DEF Unstored
<1>3. pc \in {"refused", "counted"} /\ request[q] \in Asker
  BY DEF IInv, Typed
<1> HIDE DEF pc
<1>4. r \in Asker /\ r.pc = pc
  BY <1>2, <1>3 DEF Asker, Backends
<1> HIDE DEF r
<1> QED
  BY <1>1, <1>3, <1>4, AskerKeeps

LEMMA RequestAccountCreationKeeps ==
  ASSUME Assumptions, IInv, NEW q \in Requests, NEW ch \in Chains, RequestAccountCreation(q, ch)
  PROVE  IInv'
<1> DEFINE r == [request[q] EXCEPT !.pc = "counted", !.chain = ch, !.type = "ACCOUNT_CREATION"]
<1>1. /\ request[q].pc = "idle" /\ request' = [request EXCEPT ![q] = r]
      /\ UNCHANGED <<opened, ready, base, swapCh, accCh, tracking, block, earlier, upsert, late>>
  BY DEF RequestAccountCreation
<1>2. request[q] \in Asker
  BY DEF IInv, Typed
<1>3. r \in Asker /\ r.pc = "counted"
  BY <1>2 DEF Asker, Backends
<1> HIDE DEF r
<1> QED
  BY <1>1, <1>3, AskerKeeps

LEMMA AskBrokerKeeps ==
  ASSUME Assumptions, IInv, NEW q \in Requests, NEW c \in Channels, AskBroker(q, c)
  PROVE  IInv'
<1>1. /\ request[q].pc = "counted" /\ Open(c, request[q].type, q, request[q].msg)
      /\ late' = IF request[q].late THEN late \cup {c} ELSE late
      /\ UNCHANGED <<base, swapCh, accCh, tracking, block, earlier, upsert>>
  BY DEF AskBroker
<1>2. \E pc \in {"opened", "failed"} : request' = [request EXCEPT ![q].pc = pc]
  BY DEF AskBroker
<1>3. request[q] \in Asker
  BY DEF IInv, Typed
<1>4. request[q].type \in Types /\ request[q].msg \in Messages \cup {None}
  BY <1>1, <1>3 DEF Asker, Types
<1>5. late' \subseteq Channels /\ q # None
  BY <1>1 DEF IInv, Typed, Assumptions, NoneAssumption
<1> QED
  BY <1>1, <1>2, <1>4, <1>5, OpenKeeps

LEMMA ReadChannelKeeps ==
  ASSUME Assumptions, IInv, NEW q \in Requests, ReadChannel(q)
  PROVE  IInv'
<1> DEFINE found == swapCh[ChannelOf(q)] # None
           r == [request[q] EXCEPT !.pc = "reading", !.found = found]
<1>1. /\ request[q].pc = "opened" /\ request[q].type = "SWAP" /\ request' = [request EXCEPT ![q] = r]
      /\ UNCHANGED <<opened, ready, base, swapCh, accCh, tracking, block, earlier, upsert, late>>
  BY DEF ReadChannel
<1>2. request[q] \in Asker /\ found \in BOOLEAN
  BY DEF IInv, Typed
<1> HIDE DEF found
<1>3. r \in Asker /\ r.pc = "reading" /\ r.type = request[q].type /\ r.msg = request[q].msg
  BY <1>2 DEF Asker
<1> HIDE DEF r
<1> QED
  BY <1>1, <1>3, AskerKeeps

LEMMA StepKeeps == Assumptions /\ IInv /\ [ChanNext]_chanVars => IInv'
<1> SUFFICES ASSUME Assumptions, IInv, [ChanNext]_chanVars PROVE IInv'
  OBVIOUS
<1>1. ASSUME NEW q \in Requests, NEW ch \in Chains, NEW msg \in Messages \cup {None},
             NEW quote \in BOOLEAN, CountOpen(q, ch, msg, quote)
      PROVE  IInv'
  BY <1>1, CountOpenKeeps
<1>2. ASSUME NEW q \in Requests, NEW ch \in Chains, RequestAccountCreation(q, ch) PROVE IInv'
  BY <1>2, RequestAccountCreationKeeps
<1>3. ASSUME NEW q \in Requests, NEW c \in Channels, AskBroker(q, c) PROVE IInv'
  BY <1>3, AskBrokerKeeps
<1>4. ASSUME NEW q \in Requests, ReadChannel(q) PROVE IInv'
  BY <1>4, ReadChannelKeeps
<1>5. ASSUME NEW q \in Requests, StoreChannel(q) PROVE IInv'
  BY <1>5, StoreChannelKeeps
<1>6. ASSUME NEW q \in Requests, StoreAccountCreation(q) PROVE IInv'
  BY <1>6, StoreAccountCreationKeeps
<1>7. ASSUME NEW c \in Channels, NEW type \in Types, NEW msg \in Messages \cup {None},
             OpenedElsewhere(c, type, msg)
      PROVE  IInv'
  <2>1. /\ Open(c, type, None, msg)
        /\ UNCHANGED <<base, swapCh, accCh, tracking, block, earlier, request, upsert, late>>
    BY <1>7 DEF OpenedElsewhere
  <2>2. late' \subseteq Channels
    BY <2>1 DEF IInv, Typed
  <2> QED
    BY <2>1, <2>2, OpenKeeps
<1>8. CASE ReadyRead
  BY <1>8, UpsertKeeps DEF ReadyRead
<1>9. CASE ReadyConflict
  <2>1. ready # <<>>
    BY <1>9 DEF ReadyConflict, IInv, UpsertOfHead
  <2> QED
    BY <2>1, <1>9, UpsertKeeps DEF ReadyConflict
<1>10. CASE SwapDepositAddressReady
  BY <1>10, SwapReadyKeeps
<1>11. CASE AccountCreationDepositAddressReady
  BY <1>11, AccountCreationReadyKeeps
<1>12. CASE LiquidityDepositAddressReady
  BY <1>12, LiquidityReadyKeeps
<1>13. ASSUME NEW ch \in Chains, NEW h1 \in 1 .. MaxHeight, NEW h2 \in 1 .. MaxHeight,
              ChainStateUpdated(ch, h1, h2)
       PROVE  IInv'
  BY <1>13, ChainStateKeeps
<1>14. CASE UNCHANGED chanVars
  <2>1. Typed' /\ Queue' /\ NotPassed' /\ NotAhead' /\ PreviousIsOfEarlierBlock'
    BY <1>14 DEF chanVars, IInv, Typed, Queue, NotPassed, NotAhead, ChannelRows, PreviousIsOfEarlierBlock
  <2>2. Processed' /\ RowsOfOpened' /\ ChannelOfRequest' /\ EarlyRows' /\ UpsertOfHead'
    BY <1>14 DEF chanVars, IInv, Processed, RowsOfOpened, ChannelOfRequest, EarlyRows, UpsertOfHead, Stored
  <2>3. AnsweredIsMarked' /\ BrokersMissingOnlyIfRequestFirst' /\ ExpiredIffPassed'
    BY <1>14 DEF chanVars, IInv, ChannelRows, AnsweredIsMarked, BrokersMissingOnlyIfRequestFirst,
       ExpiredIffPassed, Stored
  <2> QED
    BY <2>1, <2>2, <2>3 DEF IInv, ChannelRows
<1> QED
  BY <1>1, <1>2, <1>3, <1>4, <1>5, <1>6, <1>7, <1>8, <1>9, <1>10, <1>11, <1>12, <1>13, <1>14
     DEF ChanNext, HttpNext, ProcessorNext

\* The rows of a channel are what request, event and blocks made of them, in
\* whichever order they came: marks of answered requests, brokers, expiry, and the
\* tracked heights (openSwapDepositChannel.ts:129, swapDepositAddressReady.ts:109,
\* chainStateUpdated.ts:32).
THEOREM RowsInAnyOrder == ChanSpec => []ChannelRows
<1>1. Assumptions
  BY MaxOpenAssumption, BoundsAssumption, NoneAssumption DEF Assumptions
<1>2. IInv => ChannelRows
  BY DEF IInv
<1> QED
  BY <1>1, <1>2, Initially, StepKeeps, PTL DEF ChanSpec

-----------------------------------------------------------------------------
(* The limit of open channels.                                             *)

\* The channels of a chain and a message that were asked for in time, counted from
\* the moment they are opened until the height of the chain passes them.
Counted(ch, msg) ==
  {c \in Channels : /\ ChainOf(c) = ch /\ c \notin late /\ opened[c] # None
                    /\ opened[c].type = "SWAP" /\ opened[c].by # None /\ opened[c].msg = msg
                    /\ opened[c].expiry > tracking[ch].height}

\* A request that has counted when every channel before it was stored.
InTime(q) == request[q].pc = "counted" /\ request[q].type = "SWAP" /\ ~request[q].late

LimitInv ==
  /\ \A ch \in Chains, msg \in Messages \cup {None} : Cardinality(Counted(ch, msg)) <= MaxOpen
  /\ \A ch \in Chains, msg \in Messages \cup {None}, q \in Requests :
        InTime(q) /\ request[q].chain = ch /\ request[q].msg = msg => Cardinality(Counted(ch, msg)) < MaxOpen
  /\ \A p, q \in Requests : InTime(p) /\ InTime(q) /\ request[p].chain = request[q].chain => p = q

LEMMA CountedIsFinite ==
  ASSUME Assumptions, NEW ch, NEW msg
  PROVE  IsFiniteSet(Counted(ch, msg)) /\ Cardinality(Counted(ch, msg)) \in Nat
<1>1. Counted(ch, msg) \in SUBSET Channels
  BY DEF Counted
<1>2. IsFiniteSet(Counted(ch, msg))
  BY <1>1, FS_Subset, Zenon DEF Assumptions, BoundsAssumption
<1> QED
  BY <1>2, FS_CardinalityType, Zenon

\* Fewer channels in a set of channels.
LEMMA Fewer ==
  ASSUME Assumptions, NEW A \in SUBSET Channels, NEW B \in SUBSET A
  PROVE  /\ IsFiniteSet(A) /\ IsFiniteSet(B) /\ Cardinality(A) \in Nat /\ Cardinality(B) \in Nat
         /\ Cardinality(B) <= Cardinality(A)
<1>1. IsFiniteSet(A)
  BY FS_Subset, Zenon DEF Assumptions, BoundsAssumption
<1>2. IsFiniteSet(B) /\ Cardinality(B) <= Cardinality(A)
  BY <1>1, FS_Subset, Zenon
<1> QED
  BY <1>1, <1>2, FS_CardinalityType, Zenon

\* Steps that open no channel and let nobody count in time.
LEMMA NobodyCounts ==
  ASSUME Assumptions, LimitInv,
         \A ch \in Chains, msg \in Messages \cup {None} : Counted(ch, msg)' \subseteq Counted(ch, msg),
         \A q \in Requests : InTime(q)' =>
           /\ InTime(q) /\ request'[q].chain = request[q].chain /\ request'[q].msg = request[q].msg
  PROVE  LimitInv'
<1>1. ASSUME NEW ch \in Chains, NEW msg \in Messages \cup {None}
      PROVE  /\ Cardinality(Counted(ch, msg)') <= Cardinality(Counted(ch, msg))
             /\ Cardinality(Counted(ch, msg)') \in Nat /\ Cardinality(Counted(ch, msg)) \in Nat
  <2>1. Counted(ch, msg) \in SUBSET Channels /\ Counted(ch, msg)' \in SUBSET Counted(ch, msg)
    BY DEF Counted
  <2> QED
    BY <2>1, Fewer
<1>2. MaxOpen \in Nat
  BY DEF Assumptions, MaxOpenAssumption
<1>3. ASSUME NEW ch \in Chains, NEW msg \in Messages \cup {None}
      PROVE  /\ Cardinality(Counted(ch, msg)') <= MaxOpen
             /\ \A q \in Requests : InTime(q)' /\ request'[q].chain = ch /\ request'[q].msg = msg =>
                  Cardinality(Counted(ch, msg)') < MaxOpen
  <2>1. Cardinality(Counted(ch, msg)) <= MaxOpen
    BY DEF LimitInv
  <2>2. \A q \in Requests : InTime(q)' /\ request'[q].chain = ch /\ request'[q].msg = msg =>
          Cardinality(Counted(ch, msg)) < MaxOpen
    BY DEF LimitInv
  <2> QED
    BY <2>1, <2>2, <1>1, <1>2
<1>4. \A p, q \in Requests : InTime(p)' /\ InTime(q)' /\ request'[p].chain = request'[q].chain => p = q
  BY DEF LimitInv
<1> QED
  BY <1>3, <1>4 DEF LimitInv

\* A request that counts while everything is stored sees every channel that counts.
LEMMA CountOpenLimits ==
  ASSUME Assumptions, IInv, LimitInv, NEW q \in Requests, NEW ch \in Chains,
         NEW msg \in Messages \cup {None}, NEW quote \in BOOLEAN, CountOpen(q, ch, msg, quote)
  PROVE  LimitInv'
<1> DEFINE full == Cardinality(OpenChannels(ch, msg)) >= MaxOpen
<1>1. /\ request[q].pc = "idle" /\ UNCHANGED <<opened, tracking, late, swapCh>>
      /\ request' = [request EXCEPT ![q] =
           [request[q] EXCEPT !.pc = IF full THEN "refused" ELSE "counted", !.chain = ch, !.type = "SWAP",
                              !.msg = msg, !.quote = quote, !.late = Unstored(ch)]]
  BY DEF CountOpen
<1> HIDE DEF full
<1>2. /\ request'[q].pc = (IF full THEN "refused" ELSE "counted") /\ request'[q].chain = ch
      /\ request'[q].msg = msg /\ request'[q].late = Unstored(ch)
      /\ \A p \in Requests : p # q => request'[p] = request[p]
  BY <1>1 DEF IInv, Typed, Asker
<1>3. \A k \in Chains, m \in Messages \cup {None} : Counted(k, m)' = Counted(k, m)
  BY <1>1 DEF Counted
<1>4. CASE full \/ Unstored(ch)
  <2>1. ~InTime(q)'
    BY <1>2, <1>4 DEF InTime
  <2>2. \A p \in Requests : InTime(p)' =>
          InTime(p) /\ request'[p].chain = request[p].chain /\ request'[p].msg = request[p].msg
    BY <2>1, <1>2 DEF InTime
  <2> QED
    BY <2>2, <1>3, NobodyCounts
<1>5. CASE ~full /\ ~Unstored(ch)
  <2>1. \A c \in Channels : ChainOf(c) = ch /\ opened[c] # None /\ opened[c].type = "SWAP" => swapCh[c] # None
    BY <1>5 DEF Unstored
  <2>2. Counted(ch, msg) \subseteq OpenChannels(ch, msg)
    <3> SUFFICES ASSUME NEW c \in Counted(ch, msg) PROVE c \in OpenChannels(ch, msg)
      OBVIOUS
    <3>1. /\ c \in Channels /\ ChainOf(c) = ch /\ opened[c] # None /\ opened[c].type = "SWAP"
          /\ opened[c].msg = msg /\ opened[c].expiry > tracking[ch].height
      BY DEF Counted
    <3>2. swapCh[c] # None /\ swapCh[c].msg = msg
      BY <2>1, <3>1 DEF IInv, RowsOfOpened
    <3>3. opened[c].expiry \in Nat /\ tracking[ch].height \in Nat
      BY <3>1 DEF IInv, Typed, Opening, Tracked
    <3>4. ~swapCh[c].isExpired
      BY <3>1, <3>2, <3>3 DEF IInv, ChannelRows, ExpiredIffPassed, Stored
    <3> QED
      BY <3>1, <3>2, <3>4 DEF OpenChannels
  <2>3. OpenChannels(ch, msg) \in SUBSET Channels /\ Counted(ch, msg) \in SUBSET OpenChannels(ch, msg)
    BY <2>2 DEF OpenChannels
  <2>4. /\ Cardinality(Counted(ch, msg)) <= Cardinality(OpenChannels(ch, msg))
        /\ Cardinality(Counted(ch, msg)) \in Nat /\ Cardinality(OpenChannels(ch, msg)) \in Nat
    BY <2>3, Fewer
  <2>5. Cardinality(Counted(ch, msg)) < MaxOpen
    BY <2>4, <1>5 DEF full, Assumptions, MaxOpenAssumption
  <2>6. \A p \in Requests : InTime(p) => request[p].chain # ch
    BY <1>5 DEF Unstored, InTime
  <2>7. \A p \in Requests : p # q /\ InTime(p)' =>
          /\ InTime(p) /\ request'[p].chain = request[p].chain /\ request'[p].msg = request[p].msg
    BY <1>2 DEF InTime
  <2>8. \A k \in Chains, m \in Messages \cup {None} : Cardinality(Counted(k, m)') = Cardinality(Counted(k, m))
    BY <1>3, Zenon
  <2>9. \A k \in Chains, m \in Messages \cup {None}, p \in Requests :
          InTime(p)' /\ request'[p].chain = k /\ request'[p].msg = m => Cardinality(Counted(k, m)') < MaxOpen
    BY <2>5, <2>7, <2>8, <1>2 DEF LimitInv
  <2>10. \A p, r \in Requests : InTime(p)' /\ InTime(r)' /\ request'[p].chain = request'[r].chain => p = r
    BY <2>6, <2>7, <1>2 DEF LimitInv
  <2> QED
    BY <2>8, <2>9, <2>10 DEF LimitInv
<1> QED
  BY <1>4, <1>5

\* The broker opens the channel of a request: one that counted in time takes the
\* place that was left when it counted.
LEMMA AskBrokerLimits ==
  ASSUME Assumptions, IInv, LimitInv, NEW q \in Requests, NEW c \in Channels, AskBroker(q, c)
  PROVE  LimitInv'
<1>1. /\ request[q].pc = "counted" /\ request[q].chain = ChainOf(c) /\ opened[c] = None
      /\ late' = IF request[q].late THEN late \cup {c} ELSE late
      /\ UNCHANGED tracking
  BY DEF AskBroker, Open
<1>2. \A d \in Channels : d # c => opened'[d] = opened[d]
  BY DEF AskBroker, Open, IInv, Typed
<1>3. /\ opened'[c].type = request[q].type /\ opened'[c].msg = request[q].msg
  BY DEF AskBroker, Open, IInv, Typed
<1>4. \A p \in Requests : InTime(p)' =>
        p # q /\ InTime(p) /\ request'[p].chain = request[p].chain /\ request'[p].msg = request[p].msg
  BY DEF AskBroker, IInv, Typed, InTime, Asker
<1>5. ASSUME NEW ch \in Chains, NEW msg \in Messages \cup {None},
             ~(InTime(q) /\ ch = request[q].chain /\ msg = request[q].msg)
      PROVE  Counted(ch, msg)' \subseteq Counted(ch, msg)
  <2> SUFFICES ASSUME NEW d \in Counted(ch, msg)' PROVE d \in Counted(ch, msg)
    OBVIOUS
  <2>1. /\ d \in Channels /\ ChainOf(d) = ch /\ d \notin late' /\ opened'[d] # None
        /\ opened'[d].type = "SWAP" /\ opened'[d].by # None /\ opened'[d].msg = msg
        /\ opened'[d].expiry > tracking[ch].height
    BY <1>1 DEF Counted
  <2>2. d # c
    BY <1>1, <1>3, <1>5, <2>1 DEF InTime
  <2> QED
    BY <2>1, <2>2, <1>1, <1>2 DEF Counted
<1>6. CASE ~InTime(q)
  BY <1>4, <1>5, <1>6, NobodyCounts
<1>7. CASE InTime(q)
  <2>1. PICK ch \in Chains, msg \in Messages \cup {None} : ch = request[q].chain /\ msg = request[q].msg
    BY <1>1, ChainOfChannel DEF IInv, Typed, Asker
  <2>2. Counted(ch, msg)' \subseteq Counted(ch, msg) \cup {c}
    BY <1>1, <1>2 DEF Counted
  <2>3. IsFiniteSet(Counted(ch, msg)) /\ Cardinality(Counted(ch, msg)) \in Nat
    BY CountedIsFinite
  <2>4. /\ IsFiniteSet(Counted(ch, msg) \cup {c})
        /\ Cardinality(Counted(ch, msg) \cup {c}) <= Cardinality(Counted(ch, msg)) + 1
    <3>1. /\ IsFiniteSet(Counted(ch, msg) \cup {c})
          /\ Cardinality(Counted(ch, msg) \cup {c}) =
               IF c \in Counted(ch, msg) THEN Cardinality(Counted(ch, msg)) ELSE Cardinality(Counted(ch, msg)) + 1
      BY <2>3, FS_AddElement, Zenon
    <3> QED
      BY <2>3, <3>1
  <2>5. Counted(ch, msg) \cup {c} \in SUBSET Channels /\ Counted(ch, msg)' \in SUBSET (Counted(ch, msg) \cup {c})
    BY <2>2 DEF Counted
  <2>6. /\ Cardinality(Counted(ch, msg)') <= Cardinality(Counted(ch, msg) \cup {c})
        /\ Cardinality(Counted(ch, msg)') \in Nat /\ Cardinality(Counted(ch, msg) \cup {c}) \in Nat
    BY <2>5, Fewer
  <2>7. Cardinality(Counted(ch, msg)) < MaxOpen
    BY <1>7, <2>1 DEF LimitInv
  <2>8. Cardinality(Counted(ch, msg)') <= MaxOpen
    BY <2>3, <2>4, <2>6, <2>7 DEF Assumptions, MaxOpenAssumption
  <2>9. \A p \in Requests : InTime(p)' => request'[p].chain # ch
    BY <2>1, <1>4, <1>7 DEF LimitInv
  <2>10. ASSUME NEW k \in Chains, NEW m \in Messages \cup {None}
         PROVE  /\ Cardinality(Counted(k, m)') <= MaxOpen
                /\ \A p \in Requests : InTime(p)' /\ request'[p].chain = k /\ request'[p].msg = m =>
                     Cardinality(Counted(k, m)') < MaxOpen
    <3>1. CASE k = ch /\ m = msg
      BY <3>1, <2>8, <2>9
    <3>2. CASE ~(k = ch /\ m = msg)
      <4>1. Counted(k, m)' \in SUBSET Counted(k, m) /\ Counted(k, m) \in SUBSET Channels
        BY <3>2, <2>1, <1>5 DEF Counted
      <4>2. /\ Cardinality(Counted(k, m)') <= Cardinality(Counted(k, m))
            /\ Cardinality(Counted(k, m)') \in Nat /\ Cardinality(Counted(k, m)) \in Nat
        BY <4>1, Fewer
      <4>3. /\ Cardinality(Counted(k, m)) <= MaxOpen
            /\ \A p \in Requests : InTime(p)' /\ request'[p].chain = k /\ request'[p].msg = m =>
                 Cardinality(Counted(k, m)) < MaxOpen
        BY <1>4 DEF LimitInv
      <4> QED
        BY <4>2, <4>3 DEF Assumptions, MaxOpenAssumption
    <3> QED
      BY <3>1, <3>2
  <2>11. \A p, r \in Requests : InTime(p)' /\ InTime(r)' /\ request'[p].chain = request'[r].chain => p = r
    BY <1>4 DEF LimitInv
  <2> QED
    BY <2>10, <2>11 DEF LimitInv
<1> QED
  BY <1>6, <1>7

\* The heights only grow.
LEMMA ChainStateLimits ==
  ASSUME Assumptions, IInv, LimitInv, NEW ch \in Chains, NEW h1 \in 1 .. MaxHeight,
         NEW h2 \in 1 .. MaxHeight, ChainStateUpdated(ch, h1, h2)
  PROVE  LimitInv'
<1>1. /\ tracking[ch].height < h2 /\ UNCHANGED <<opened, request, late>>
      /\ \A k \in Chains : tracking'[k].height = IF k = ch THEN h2 ELSE tracking[k].height
  BY DEF ChainStateUpdated, Track, IInv, Typed
<1>2. ASSUME NEW k \in Chains, NEW msg \in Messages \cup {None}
      PROVE  Counted(k, msg)' \subseteq Counted(k, msg)
  <2> SUFFICES ASSUME NEW d \in Counted(k, msg)' PROVE d \in Counted(k, msg)
    OBVIOUS
  <2>1. /\ d \in Channels /\ ChainOf(d) = k /\ d \notin late /\ opened[d] # None
        /\ opened[d].type = "SWAP" /\ opened[d].by # None /\ opened[d].msg = msg
        /\ opened[d].expiry > tracking'[k].height
    BY <1>1 DEF Counted
  <2>2. opened[d].expiry \in Nat /\ tracking[k].height \in Nat /\ h2 \in Nat
    BY <2>1 DEF IInv, Typed, Opening, Tracked, Assumptions, BoundsAssumption
  <2>3. opened[d].expiry > tracking[k].height
    BY <2>1, <2>2, <1>1
  <2> QED
    BY <2>1, <2>3 DEF Counted
<1>3. \A q \in Requests : InTime(q)' =>
        InTime(q) /\ request'[q].chain = request[q].chain /\ request'[q].msg = request[q].msg
  BY <1>1 DEF InTime
<1> QED
  BY <1>2, <1>3, NobodyCounts

LEMMA StepLimits == Assumptions /\ IInv /\ LimitInv /\ [ChanNext]_chanVars => LimitInv'
<1> SUFFICES ASSUME Assumptions, IInv, LimitInv, [ChanNext]_chanVars PROVE LimitInv'
  OBVIOUS
<1>1. ASSUME NEW q \in Requests, NEW ch \in Chains, NEW msg \in Messages \cup {None},
             NEW quote \in BOOLEAN, CountOpen(q, ch, msg, quote)
      PROVE  LimitInv'
  BY <1>1, CountOpenLimits
<1>2. ASSUME NEW q \in Requests, NEW c \in Channels, AskBroker(q, c) PROVE LimitInv'
  BY <1>2, AskBrokerLimits
<1>3. ASSUME NEW c \in Channels, NEW type \in Types, NEW msg \in Messages \cup {None},
             OpenedElsewhere(c, type, msg)
      PROVE  LimitInv'
  <2>1. /\ opened'[c].by = None /\ UNCHANGED <<tracking, request, late>>
        /\ \A d \in Channels : d # c => opened'[d] = opened[d]
    BY <1>3 DEF OpenedElsewhere, Open, IInv, Typed
  <2>2. \A ch \in Chains, m \in Messages \cup {None} : Counted(ch, m)' \subseteq Counted(ch, m)
    BY <2>1 DEF Counted
  <2>3. \A q \in Requests : InTime(q)' =>
          InTime(q) /\ request'[q].chain = request[q].chain /\ request'[q].msg = request[q].msg
    BY <2>1 DEF InTime
  <2> QED
    BY <2>2, <2>3, NobodyCounts
<1>4. ASSUME NEW ch \in Chains, NEW h1 \in 1 .. MaxHeight, NEW h2 \in 1 .. MaxHeight,
             ChainStateUpdated(ch, h1, h2)
      PROVE  LimitInv'
  BY <1>4, ChainStateLimits
<1>5. ASSUME UNCHANGED <<opened, tracking, late>>,
             \A q \in Requests : InTime(q)' => request'[q] = request[q]
      PROVE  LimitInv'
  <2>1. \A ch \in Chains, m \in Messages \cup {None} : Counted(ch, m)' \subseteq Counted(ch, m)
    BY <1>5 DEF Counted
  <2>2. \A q \in Requests : InTime(q)' =>
          InTime(q) /\ request'[q].chain = request[q].chain /\ request'[q].msg = request[q].msg
    BY <1>5 DEF InTime
  <2> QED
    BY <2>1, <2>2, NobodyCounts
<1>6. ASSUME NEW q \in Requests, NEW ch \in Chains, RequestAccountCreation(q, ch) PROVE LimitInv'
  <2>1. \A p \in Requests : InTime(p)' => request'[p] = request[p]
    BY <1>6 DEF RequestAccountCreation, InTime, IInv, Typed, Asker
  <2> QED
    BY <2>1, <1>5, <1>6 DEF RequestAccountCreation
<1>7. ASSUME NEW q \in Requests, ReadChannel(q) \/ StoreChannel(q) \/ StoreAccountCreation(q)
      PROVE  LimitInv'
  <2>1. /\ request'[q].pc # "counted" /\ \A p \in Requests : p # q => request'[p] = request[p]
        /\ UNCHANGED <<opened, tracking, late>>
    <3>1. CASE ReadChannel(q)
      BY <3>1 DEF ReadChannel, IInv, Typed, Asker
    <3>2. CASE StoreChannel(q)
      BY <3>2 DEF StoreChannel, IInv, Typed, Asker
    <3>3. CASE StoreAccountCreation(q)
      BY <3>3 DEF StoreAccountCreation, IInv, Typed, Asker
    <3> QED
      BY <1>7, <3>1, <3>2, <3>3
  <2> QED
    BY <2>1, <1>5 DEF InTime
<1>8. CASE ReadyRead \/ ReadyConflict
  BY <1>5, <1>8 DEF ReadyRead, ReadyConflict
<1>9. CASE SwapDepositAddressReady \/ AccountCreationDepositAddressReady \/ LiquidityDepositAddressReady
  BY <1>5, <1>9 DEF SwapDepositAddressReady, AccountCreationDepositAddressReady,
     LiquidityDepositAddressReady, ReadyDone
<1>10. CASE UNCHANGED chanVars
  BY <1>5, <1>10 DEF chanVars
<1> QED
  BY <1>1, <1>2, <1>3, <1>4, <1>6, <1>7, <1>8, <1>9, <1>10 DEF ChanNext, HttpNext, ProcessorNext

LEMMA LimitAtFirst == Assumptions /\ ChanInit => LimitInv
<1> SUFFICES ASSUME Assumptions, ChanInit PROVE LimitInv
  OBVIOUS
<1>1. \A ch \in Chains, msg \in Messages \cup {None} : Counted(ch, msg) = {}
  BY DEF Counted, ChanInit
<1>2. \A ch \in Chains, msg \in Messages \cup {None} : Cardinality(Counted(ch, msg)) = 0
  BY <1>1, FS_EmptySet, Zenon
<1>3. \A q \in Requests : ~InTime(q)
  BY DEF ChanInit, InTime
<1> QED
  BY <1>2, <1>3 DEF LimitInv, Assumptions, MaxOpenAssumption

LEMMA LimitFollows == Assumptions /\ IInv /\ LimitInv => LimitExceededOnlyByRace
<1> SUFFICES ASSUME Assumptions, IInv, LimitInv, NEW ch \in Chains, NEW msg \in Messages \cup {None}
             PROVE  Cardinality({c \in Channels : /\ ChainOf(c) = ch /\ c \notin late
                                                  /\ swapCh[c] # None /\ ~swapCh[c].isExpired
                                                  /\ opened[c].by # None /\ swapCh[c].msg = msg}) <= MaxOpen
  BY DEF LimitExceededOnlyByRace
<1> DEFINE Live == {c \in Channels : /\ ChainOf(c) = ch /\ c \notin late
                                     /\ swapCh[c] # None /\ ~swapCh[c].isExpired
                                     /\ opened[c].by # None /\ swapCh[c].msg = msg}
<1>1. ASSUME NEW c \in Live PROVE c \in Counted(ch, msg)
  <2>1. /\ c \in Channels /\ ChainOf(c) = ch /\ c \notin late /\ swapCh[c] # None
        /\ ~swapCh[c].isExpired /\ opened[c].by # None /\ swapCh[c].msg = msg
    OBVIOUS
  <2>2. opened[c] # None /\ opened[c].type = "SWAP" /\ opened[c].msg = msg
    BY <2>1 DEF IInv, RowsOfOpened
  <2>3. ~(opened[c].expiry <= tracking[ch].height)
    BY <2>1, <2>2 DEF IInv, ChannelRows, ExpiredIffPassed, Stored
  <2>4. opened[c].expiry \in Nat /\ tracking[ch].height \in Nat
    BY <2>1, <2>2 DEF IInv, Typed, Opening, Tracked
  <2>5. opened[c].expiry > tracking[ch].height
    BY <2>3, <2>4
  <2> QED
    BY <2>1, <2>2, <2>5 DEF Counted
<1>2. Counted(ch, msg) \in SUBSET Channels /\ Live \in SUBSET Counted(ch, msg)
  BY <1>1 DEF Counted
<1>3. /\ Cardinality(Live) <= Cardinality(Counted(ch, msg))
      /\ Cardinality(Live) \in Nat /\ Cardinality(Counted(ch, msg)) \in Nat
  BY <1>2, Fewer
<1>4. Cardinality(Counted(ch, msg)) <= MaxOpen /\ MaxOpen \in Nat
  BY DEF LimitInv, Assumptions, MaxOpenAssumption
<1> HIDE DEF Live
<1>5. Cardinality(Live) <= MaxOpen
  BY <1>3, <1>4
<1> QED
  BY <1>5 DEF Live

\* More channels are open to an address, of one chain and message, than the limit
\* allows only if a request overlapped another or counted while a channel was
\* without its row (openSwapDepositChannel.ts:42-57).
THEOREM LimitOfOpenChannels == ChanSpec => []LimitExceededOnlyByRace
<1>1. Assumptions
  BY MaxOpenAssumption, BoundsAssumption, NoneAssumption DEF Assumptions
<1> QED
  BY <1>1, LimitAtFirst, LimitFollows, Initially, StepKeeps, StepLimits, PTL DEF ChanSpec


-----------------------------------------------------------------------------
(* Deposits, and the polls for them.                                       *)

(* What is known of the rows that the poll reads.                          *)

Keys == {"mempool", "deposit", "gone"}

DepositTypes ==
  /\ dep \in [Deposits -> DepositsMade \cup {None}]
  /\ redis \in [Deposits -> SUBSET Keys]
  /\ swapRequest \in [Deposits -> SwapRequests \cup {None}]
  /\ failedSwap \in [Deposits -> FailedSwaps \cup {None}]

\* A key of a deposit in a block goes once, and then stays away.
TrackedOnce == \A d \in Deposits :
  /\ redis[d] # {} => dep[d] # None
  /\ "deposit" \in redis[d] \/ "gone" \in redis[d] => dep[d] # None /\ dep[d].height # 0
  /\ "deposit" \in redis[d] => "gone" \notin redis[d]

\* A row is of a deposit that was made, and is linked to a channel that was opened.
RowsOfDeposits == \A d \in Deposits :
  /\ swapRequest[d] # None => dep[d] # None
  /\ failedSwap[d] # None => dep[d] # None
  /\ swapRequest[d] # None /\ ~IsVault(d) => swapRequest[d].link = dep[d].to
  /\ failedSwap[d] # None /\ failedSwap[d].refund # None => failedSwap[d].link # None
  /\ failedSwap[d] # None /\ ~IsVault(d) =>
       LET c == dep[d].to
           l == failedSwap[d].link
       IN  /\ c \in Channels /\ l \in Channels /\ opened[c] # None /\ opened[l] # None
           /\ l # c => l[2] = c[2] /\ opened[l].issuedBlock = opened[c].issuedBlock

BoostsOfChannels == \A p \in failedBoost : p[1] = p[2]

\* A request that comes has a higher id than those before it, so the requests of a
\* channel have a newest.
HandledOnes == {d \in Deposits : Handled(d)}
NewestExists ==
  /\ IsFiniteSet(HandledOnes)
  /\ \A d \in Deposits : swapRequest[d] # None => swapRequest[d].id <= Cardinality(HandledOnes)
  /\ \A c \in Channels : RequestsOf(c) # {} => Newest(RequestsOf(c)) # {}

\* The heights one block ago are what the State Chain has witnessed by now.
EarlierIsWitnessed == \A ch \in Chains :
  /\ tracking[ch].previousHeight <= tracking[ch].height
  /\ LastWitnessed(tracking[ch], block) = earlier[ch]

DepositInv ==
  /\ DepositTypes /\ TrackedOnce /\ RowsOfDeposits /\ BoostsOfChannels
  /\ RefundOnlySharesId /\ NewestExists

-----------------------------------------------------------------------------
(* What is known of the poll and of what was shown last.                   *)

Ids == ({"channel"} \X Channels) \cup ({"tx"} \X Deposits)
Answers ==
  [id : Ids, state : {"404", "WAITING", "RECEIVING", "SWAPPING", "FAILED"},
   of : Deposits \cup {None}, ref : Deposits \cup {None},
   by : {"none", "row", "mempool", "deposit", "error"}, confs : Nat, brokers : BOOLEAN]
Asking == [pc : {"deposits", "mempool"}, id : {"channel"} \X Channels, brokers : BOOLEAN]
Confirming ==
  [pc : {"confirm"}, id : Ids, brokers : BOOLEAN, of : Deposits,
   failed : {"unread", "found", "none"}, tracking : Tracked \cup {None}, state : Nat]
LookingUp ==
  [pc : {"lookup"}, id : {"tx"} \X Deposits, failed : {"unread", "found", "none"},
   vault : {"unread", "none", "error"}]

PollTypes ==
  /\ poll \in {NoPoll} \cup Asking \cup Confirming \cup LookingUp
  /\ shown \in Answers \cup {None}

HasRow(c) == RequestsOf(c) # {} \/ FailedOf(c) # {}
HasBrokers(c) == RequestsOf(c) # {} \/ Channel(c).beneficiaries
OnNode(d) == IsVault(d) /\ DepChain(d) \in NodeChains
Backed(d) ==
  dep[d] # None /\ dep[d].height # 0 /\ ("deposit" \in redis[d] \/ "gone" \in redis[d] \/ OnNode(d))

\* What was shown of a channel stays true of its rows.
ShownOfChannel == \A c \in Channels : shown # None /\ shown.id = <<"channel", c>> =>
  /\ shown.state # "404" => Channel(c) # None
  /\ shown.state = "404" => ~shown.brokers
  /\ shown.state = "RECEIVING" =>
       swapCh[c] # None /\ \A d \in Deposits : shown.of = d => dep[d] # None /\ dep[d].to = c
  /\ shown.state \in {"SWAPPING", "FAILED"} => HasRow(c)
  /\ shown.brokers => HasBrokers(c)

ShownOfTx == \A d \in Deposits : shown # None /\ shown.id = <<"tx", d>> =>
  /\ dep[d] # None /\ IsVault(d) /\ shown.state # "WAITING"
  /\ shown.state = "RECEIVING" => shown.of = d
  /\ shown.state = "SWAPPING" => swapRequest[d] # None
  /\ shown.state = "FAILED" => failedSwap[d] # None

ShownRoles == shown # None =>
  /\ shown.state = "RECEIVING" => shown.by \in {"mempool", "deposit"} /\ shown.of \in Deposits
  /\ shown.by = "mempool" => shown.id[1] = "channel"
  /\ shown.by = "deposit" => shown.of \in Deposits
  /\ shown.confs > 0 => shown.by = "deposit"
  /\ shown.of # shown.ref => shown.of \in Deposits /\ shown.state = "FAILED"

ShownDeposit == \A d \in Deposits : shown # None /\ shown.of = d =>
  /\ shown.by = "deposit" => Backed(d)
  /\ shown.confs > 0 => shown.confs + dep[d].height <= earlier[DepChain(d)] + 1
  /\ shown.ref # d =>
       /\ dep[d] # None /\ DepChain(d) = "Solana"
       /\ swapRequest[d] # None /\ ~swapRequest[d].swaps

\* A poll of a channel goes on only while the channel has shown no row.
PollOfChannel == \A c \in Channels :
  poll.pc \in {"deposits", "mempool", "confirm"} /\ poll.id = <<"channel", c>> =>
    /\ swapCh[c] # None
    /\ poll.brokers => HasBrokers(c)
    /\ shown # None => /\ shown.id = poll.id /\ shown.state \notin {"SWAPPING", "FAILED"}
                       /\ shown.brokers => poll.brokers

MempoolIsNext == \A d \in Deposits :
  /\ poll.pc = "mempool" /\ shown # None
  /\ shown.state = "RECEIVING" /\ shown.by = "deposit" /\ shown.of = d
  => "gone" \in redis[d]

PollOfTx == \A d \in Deposits :
  poll.pc \in {"lookup", "confirm"} /\ poll.id = <<"tx", d>> =>
    /\ dep[d] # None /\ IsVault(d)
    /\ poll.failed = "found" => failedSwap[d] # None
    /\ shown # None => /\ shown.id = poll.id /\ shown.state # "SWAPPING"
                       /\ shown.state = "FAILED" => poll.failed # "none"

VaultIsGone == \A d \in Deposits :
  /\ poll.pc = "lookup" /\ poll.vault = "none" /\ poll.id = <<"tx", d>>
  /\ shown # None /\ shown.state = "RECEIVING"
  => "gone" \in redis[d] /\ ~OnNode(d)

\* The readings of a poll are not newer than the chain, and not older than what was shown.
Then(t, u) == t = u \/ t.height <= u.previousHeight
ReadT(d) == IF poll.tracking = None THEN tracking[DepChain(d)] ELSE poll.tracking
ReadB == IF poll.state = 0 THEN block ELSE poll.state

Readings == \A d \in Deposits : poll.pc = "confirm" /\ poll.of = d =>
  /\ Backed(d)
  /\ \A c \in Channels : poll.id = <<"channel", c>> => dep[d].to = c /\ poll.failed = "none"
  /\ \A e \in Deposits : poll.id = <<"tx", e>> => e = d /\ poll.brokers
  /\ poll.tracking # None => /\ Then(poll.tracking, tracking[DepChain(d)])
                             /\ poll.tracking.previousHeight <= poll.tracking.height
  /\ poll.state <= block
  /\ shown # None /\ shown.of = d /\ shown.confs > 0 =>
       shown.confs + dep[d].height <= LastWitnessed(ReadT(d), ReadB) + 1

PollInv ==
  /\ PollTypes /\ ShownOfChannel /\ ShownOfTx /\ ShownRoles /\ ShownDeposit
  /\ PollOfChannel /\ MempoolIsNext /\ PollOfTx /\ VaultIsGone /\ Readings

LookInv == DepositInv /\ EarlierIsWitnessed /\ PollInv

-----------------------------------------------------------------------------
(* The channels while deposits arrive.                                     *)

LookAssumptions == Assumptions /\ ChannelsAssumption /\ NoRowAssumption

\* A deposit that is handled moves the block, and none of the rows of the channels.
LEMMA CommitKeeps ==
  ASSUME Assumptions, IInv, LimitInv, CommitDeposit PROVE IInv' /\ LimitInv'
<1>1. /\ block' = block + 1 /\ earlier' = [ch \in Chains |-> tracking[ch].height]
      /\ UNCHANGED <<opened, ready, base, swapCh, accCh, tracking, request, upsert, late>>
  BY DEF CommitDeposit, Commit
<1>2. block \in Nat /\ \A ch \in Chains : tracking[ch] \in Tracked
  BY DEF IInv, Typed
<1>3. Typed'
  BY <1>1, <1>2 DEF IInv, Typed, Tracked
<1>4. NotAhead' /\ \A ch \in Chains : tracking'[ch].eventWitnessedBlock # block'
  BY <1>1, <1>2 DEF IInv, NotAhead, Tracked
<1>5. Queue' /\ NotPassed' /\ Processed' /\ RowsOfOpened' /\ ChannelOfRequest' /\ EarlyRows' /\ UpsertOfHead'
  BY <1>1 DEF IInv, Queue, NotPassed, Processed, RowsOfOpened, ChannelOfRequest, EarlyRows, UpsertOfHead,
     Stored
<1>6. AnsweredIsMarked' /\ BrokersMissingOnlyIfRequestFirst' /\ ExpiredIffPassed'
  BY <1>1 DEF IInv, ChannelRows, AnsweredIsMarked, BrokersMissingOnlyIfRequestFirst, ExpiredIffPassed, Stored
<1>7. PreviousIsOfEarlierBlock'
  BY <1>4 DEF PreviousIsOfEarlierBlock
<1>8. LimitInv'
  <2>1. \A ch \in Chains, msg \in Messages \cup {None} : Counted(ch, msg)' \subseteq Counted(ch, msg)
    BY <1>1 DEF Counted
  <2>2. \A q \in Requests : InTime(q)' =>
          InTime(q) /\ request'[q].chain = request[q].chain /\ request'[q].msg = request[q].msg
    BY <1>1 DEF InTime
  <2> QED
    BY <2>1, <2>2, NobodyCounts
<1> QED
  BY <1>3, <1>4, <1>5, <1>6, <1>7, <1>8 DEF IInv, ChannelRows

\* What the other steps of deposits do to the channels: a block, or nothing.
LEMMA LookChannels == LookNext => CommitDeposit \/ UNCHANGED chanVars
<1> SUFFICES ASSUME LookNext PROVE CommitDeposit \/ UNCHANGED chanVars
  OBVIOUS
<1> USE DEF LookFrame, Show, ShowNotFound
<1>1. ASSUME NEW d \in Deposits, NEW to \in Targets, Deposit(d, to) PROVE UNCHANGED chanVars
  BY <1>1 DEF Deposit
<1>2. ASSUME NEW d \in Deposits, Included(d) \/ TrackerSees(d) \/ TrackerSeesBlock(d) PROVE UNCHANGED chanVars
  BY <1>2 DEF Included, TrackerSees, TrackerSeesBlock
<1>3. ASSUME NEW d \in Deposits, NEW key \in {"mempool", "deposit"}, TrackerForgets(d, key)
      PROVE  UNCHANGED chanVars
  BY <1>3 DEF TrackerForgets
<1>4. ASSUME NEW d \in Deposits, NEW swaps \in BOOLEAN, SwapRequested(d, swaps) PROVE CommitDeposit
  BY <1>4 DEF SwapRequested
<1>5. ASSUME NEW d \in Deposits, DepositFailed(d) PROVE CommitDeposit
  BY <1>5 DEF DepositFailed
<1>6. ASSUME NEW d \in Deposits, PollTx(d) PROVE UNCHANGED chanVars
  BY <1>6 DEF PollTx
<1>7. ASSUME NEW c \in Channels, TransactionRejectedByBroker(c) \/ InsufficientBoostLiquidity(c)
      PROVE  CommitDeposit
  BY <1>7 DEF TransactionRejectedByBroker, InsufficientBoostLiquidity
<1>8. ASSUME NEW c \in Channels, PollChannel(c) PROVE UNCHANGED chanVars
  BY <1>8 DEF PollChannel
<1>9. CASE PollDeposits \/ PollMempool \/ PollError
  BY <1>9 DEF PollDeposits, PollMempool, PollError
<1>10. CASE ReadTracking \/ ReadState \/ ReadFailed \/ ReadVault
  BY <1>10 DEF ReadTracking, ReadState, ReadFailed, ReadVault
<1>11. CASE ShowLookup \/ ShowPending
  BY <1>11 DEF ShowLookup, ShowPending
<1> QED
  BY <1>1, <1>2, <1>3, <1>4, <1>5, <1>6, <1>7, <1>8, <1>9, <1>10, <1>11 DEF LookNext

LEMMA ChannelsKeep == Assumptions /\ IInv /\ LimitInv /\ [Next]_vars => IInv' /\ LimitInv'
<1> SUFFICES ASSUME Assumptions, IInv, LimitInv, [Next]_vars PROVE IInv' /\ LimitInv'
  OBVIOUS
<1>1. CommitDeposit \/ [ChanNext]_chanVars
  BY LookChannels DEF Next, vars
<1> QED
  BY <1>1, CommitKeeps, StepKeeps, StepLimits

\* What a step of the channels leaves: what was opened stays so, with its rows and its
\* type, and brokers that a row has stay in it.
ChannelsGoOn == \A c \in Channels :
  /\ opened[c] # None => opened'[c] = opened[c]
  /\ base[c] # None => base'[c] = base[c]
  /\ swapCh[c] # None => swapCh'[c] # None /\ (swapCh[c].beneficiaries => swapCh'[c].beneficiaries)
  /\ accCh[c] # None => accCh'[c] # None /\ (accCh[c].beneficiaries => accCh'[c].beneficiaries)

\* Time stands still, or it is one block later: a height that is new is of that block.
NewHeight(ch) ==
  /\ tracking'[ch].eventWitnessedBlock = block + 1
  /\ tracking'[ch].previousHeight = tracking[ch].height
  /\ tracking[ch].height <= tracking'[ch].height
TimeGoesOn ==
  \/ UNCHANGED <<block, earlier, tracking>>
  \/ /\ block < MaxBlock /\ block' = block + 1
     /\ earlier' = [ch \in Chains |-> tracking[ch].height]
     /\ \A ch \in Chains : tracking'[ch] = tracking[ch] \/ NewHeight(ch)

LEMMA RowsStay ==
  ASSUME IInv, NEW c \in Channels,
         \/ UNCHANGED <<swapCh, accCh>>
         \/ \E row \in Rows : /\ swapCh' = [swapCh EXCEPT ![c] = row] /\ UNCHANGED accCh
                              /\ swapCh[c] # None /\ swapCh[c].beneficiaries => row.beneficiaries
         \/ \E row \in Rows : /\ accCh' = [accCh EXCEPT ![c] = row] /\ UNCHANGED swapCh
                              /\ accCh[c] # None /\ accCh[c].beneficiaries => row.beneficiaries,
         NoneAssumption,
         \A e \in Channels : opened[e] # None => opened'[e] = opened[e],
         \A e \in Channels : base[e] # None => base'[e] = base[e]
  PROVE  ChannelsGoOn
<1> SUFFICES ASSUME NEW e \in Channels
             PROVE  /\ swapCh[e] # None =>
                         swapCh'[e] # None /\ (swapCh[e].beneficiaries => swapCh'[e].beneficiaries)
                    /\ accCh[e] # None =>
                         accCh'[e] # None /\ (accCh[e].beneficiaries => accCh'[e].beneficiaries)
  BY DEF ChannelsGoOn
<1>1. CASE UNCHANGED <<swapCh, accCh>>
  BY <1>1
<1>2. ASSUME NEW row \in Rows, swapCh' = [swapCh EXCEPT ![c] = row], UNCHANGED accCh,
             swapCh[c] # None /\ swapCh[c].beneficiaries => row.beneficiaries
      PROVE  /\ swapCh[e] # None =>
                  swapCh'[e] # None /\ (swapCh[e].beneficiaries => swapCh'[e].beneficiaries)
             /\ accCh'[e] = accCh[e]
  <2>1. row # None /\ swapCh'[e] = IF e = c THEN row ELSE swapCh[e]
    BY <1>2 DEF IInv, Typed, NoneAssumption
  <2> QED BY <1>2, <2>1
<1>3. ASSUME NEW row \in Rows, accCh' = [accCh EXCEPT ![c] = row], UNCHANGED swapCh,
             accCh[c] # None /\ accCh[c].beneficiaries => row.beneficiaries
      PROVE  /\ accCh[e] # None =>
                  accCh'[e] # None /\ (accCh[e].beneficiaries => accCh'[e].beneficiaries)
             /\ swapCh'[e] = swapCh[e]
  <2>1. row # None /\ accCh'[e] = IF e = c THEN row ELSE accCh[e]
    BY <1>3 DEF IInv, Typed, NoneAssumption
  <2> QED BY <1>3, <2>1
<1> QED
  BY <1>1, <1>2, <1>3

LEMMA ChannelsStay ==
  ASSUME Assumptions, IInv, ChanNext PROVE ChannelsGoOn
<1> USE DEF Assumptions
<1>1. ASSUME NEW c \in Channels, NEW type, NEW by, NEW msg, Open(c, type, by, msg),
             UNCHANGED <<base, swapCh, accCh>>
      PROVE  ChannelsGoOn
  BY <1>1, RowsStay DEF Open, IInv, Typed
<1>2. ASSUME UNCHANGED <<opened, base, swapCh, accCh>> PROVE ChannelsGoOn
  BY <1>2 DEF ChannelsGoOn
<1>3. ASSUME NEW q \in Requests, StoreChannel(q) PROVE ChannelsGoOn
  <2> DEFINE c == ChannelOf(q)
  <2>1. c \in Channels
    BY <1>3, OwnChannel DEF StoreChannel
  <2>2. UNCHANGED <<opened, base, accCh>> /\ request[q] \in Asker /\ swapCh[c] \in Rows \cup {None}
    BY <1>3, <2>1 DEF StoreChannel, IInv, Typed
  <2>3. \/ UNCHANGED swapCh
        \/ swapCh' = [swapCh EXCEPT ![c] = Row(TRUE, FALSE, request[q].msg, request[q].quote)] /\ swapCh[c] = None
        \/ swapCh' = [swapCh EXCEPT ![c] = Marked(swapCh[c], q)] /\ swapCh[c] # None
    BY <1>3, <2>1 DEF StoreChannel, IInv, Typed
  <2>4. Row(TRUE, FALSE, request[q].msg, request[q].quote) \in Rows
    BY <2>2 DEF Row, Rows, Asker
  <2>5. swapCh[c] # None => Marked(swapCh[c], q) \in Rows /\ Marked(swapCh[c], q).beneficiaries = swapCh[c].beneficiaries
    BY <2>2 DEF Marked, Rows, Asker
  <2> HIDE DEF c
  <2> QED
    BY <2>1, <2>2, <2>3, <2>4, <2>5, RowsStay
<1>4. ASSUME NEW q \in Requests, StoreAccountCreation(q) PROVE ChannelsGoOn
  <2> DEFINE c == ChannelOf(q)
  <2>1. c \in Channels
    BY <1>4, OwnChannel DEF StoreAccountCreation
  <2>2. UNCHANGED <<opened, base, swapCh>> /\ accCh[c] \in Rows \cup {None}
    BY <1>4, <2>1 DEF StoreAccountCreation, IInv, Typed
  <2>3. \/ accCh' = [accCh EXCEPT ![c] = Row(TRUE, FALSE, None, FALSE)] /\ accCh[c] = None
        \/ accCh' = [accCh EXCEPT ![c] = [accCh[c] EXCEPT !.backend = TRUE]] /\ accCh[c] # None
    BY <1>4, <2>1 DEF StoreAccountCreation, IInv, Typed
  <2>4. Row(TRUE, FALSE, None, FALSE) \in Rows
    BY DEF Row, Rows
  <2>5. accCh[c] # None => /\ [accCh[c] EXCEPT !.backend = TRUE] \in Rows
                           /\ [accCh[c] EXCEPT !.backend = TRUE].beneficiaries = accCh[c].beneficiaries
    BY <2>2 DEF Rows
  <2> HIDE DEF c
  <2> QED
    BY <2>1, <2>2, <2>3, <2>4, <2>5, RowsStay
<1>5. ASSUME ReadyDone, ready # <<>> PROVE UNCHANGED opened /\ \A e \in Channels : base[e] # None => base'[e] = base[e]
  BY <1>5, TheHead DEF ReadyDone, IInv, Typed
<1>6. ASSUME SwapDepositAddressReady PROVE ChannelsGoOn
  <2> DEFINE c == Head(ready)
  <2>1. ready # <<>> /\ c \in Channels /\ opened[c] \in Opening
    BY <1>6, TheHead DEF SwapDepositAddressReady, IInv, UpsertOfHead
  <2>2. \/ UNCHANGED swapCh
        \/ swapCh' = [swapCh EXCEPT ![c] = Row(FALSE, TRUE, opened[c].msg, FALSE)]
    BY <1>6, <2>1 DEF SwapDepositAddressReady, IInv, Typed
  <2>3. Row(FALSE, TRUE, opened[c].msg, FALSE) \in Rows /\ Row(FALSE, TRUE, opened[c].msg, FALSE).beneficiaries
    BY <2>1 DEF Row, Rows, Opening
  <2>4. ReadyDone /\ UNCHANGED accCh
    BY <1>6 DEF SwapDepositAddressReady
  <2> HIDE DEF c
  <2> QED
    BY <2>1, <2>2, <2>3, <2>4, <1>5, RowsStay
<1>7. ASSUME AccountCreationDepositAddressReady PROVE ChannelsGoOn
  <2> DEFINE c == Head(ready)
  <2>1. ready # <<>> /\ c \in Channels /\ accCh[c] \in Rows \cup {None}
    BY <1>7, TheHead DEF AccountCreationDepositAddressReady, IInv, UpsertOfHead, Typed
  <2>2. \/ accCh' = [accCh EXCEPT ![c] = Updated(accCh[c])] /\ upsert = "found"
        \/ accCh' = [accCh EXCEPT ![c] = Row(FALSE, TRUE, None, FALSE)]
    BY <1>7, <2>1 DEF AccountCreationDepositAddressReady, IInv, Typed
  <2>3. Row(FALSE, TRUE, None, FALSE) \in Rows /\ Row(FALSE, TRUE, None, FALSE).beneficiaries
    BY DEF Row, Rows
  <2>4. opened[c].type = "ACCOUNT_CREATION" /\ (upsert = "found" => accCh[c] # None)
    BY <1>7, <2>1 DEF AccountCreationDepositAddressReady, IInv, UpsertOfHead, Stored
  <2>5. accCh[c] # None => Updated(accCh[c]) \in Rows /\ Updated(accCh[c]).beneficiaries
    BY <2>1 DEF Updated, Rows
  <2>6. ReadyDone /\ UNCHANGED swapCh
    BY <1>7 DEF AccountCreationDepositAddressReady
  <2> HIDE DEF c
  <2> QED
    BY <2>1, <2>2, <2>3, <2>4, <2>5, <2>6, <1>5, RowsStay
<1>8. ASSUME LiquidityDepositAddressReady PROVE ChannelsGoOn
  BY <1>8, <1>5, TheHead, RowsStay DEF LiquidityDepositAddressReady
<1>9. ASSUME NEW ch \in Chains, NEW h1 \in 1 .. MaxHeight, NEW h2 \in 1 .. MaxHeight,
             ChainStateUpdated(ch, h1, h2)
      PROVE  ChannelsGoOn
  <2>1. UNCHANGED <<opened, base>> /\ swapCh' = Expired(swapCh, ch, h2) /\ accCh' = Expired(accCh, ch, h2)
    BY <1>9 DEF ChainStateUpdated
  <2>2. ASSUME NEW rows \in [Channels -> Rows \cup {None}], NEW c \in Channels, rows[c] # None
        PROVE  /\ Expired(rows, ch, h2)[c] # None
               /\ Expired(rows, ch, h2)[c].beneficiaries = rows[c].beneficiaries
    <3>1. rows[c] \in Rows
      BY <2>2
    <3>2. [rows[c] EXCEPT !.isExpired = TRUE] \in Rows
          /\ [rows[c] EXCEPT !.isExpired = TRUE].beneficiaries = rows[c].beneficiaries
      BY <3>1 DEF Rows
    <3> QED
      BY <2>2, <3>2 DEF Expired, NoneAssumption
  <2> QED
    BY <2>1, <2>2 DEF ChannelsGoOn, IInv, Typed
<1> QED
  BY <1>1, <1>2, <1>3, <1>4, <1>6, <1>7, <1>8, <1>9 DEF ChanNext, HttpNext, ProcessorNext, CountOpen,
     RequestAccountCreation, AskBroker, ReadChannel, OpenedElsewhere, ReadyRead, ReadyConflict

LEMMA TimeStays ==
  ASSUME Assumptions, IInv, ChanNext PROVE TimeGoesOn
<1>1. ASSUME NEW ch \in Chains, NEW h1 \in 1 .. MaxHeight, NEW h2 \in 1 .. MaxHeight,
             ChainStateUpdated(ch, h1, h2)
      PROVE  TimeGoesOn
  <2> DEFINE b == block + 1
             t == tracking[ch]
             t1 == Track(t, h1, b)
             t2 == IF h2 = h1 THEN t1 ELSE Track(t1, h2, b)
  <2>1. /\ block < MaxBlock /\ block' = b /\ earlier' = [k \in Chains |-> tracking[k].height]
        /\ tracking' = [tracking EXCEPT ![ch] = t2] /\ t.height < h2
    BY <1>1 DEF ChainStateUpdated, Commit
  <2>2. t \in Tracked /\ block \in Nat /\ t.eventWitnessedBlock <= block
    BY DEF IInv, Typed, NotAhead
  <2>3. t.eventWitnessedBlock # b
    BY <2>2 DEF Tracked
  <2>4. t1 = [height |-> h1, previousHeight |-> t.height, eventWitnessedBlock |-> b]
    BY <2>3 DEF Track, PreviousHeight
  <2>5. t2 = [height |-> h2, previousHeight |-> t.height, eventWitnessedBlock |-> b]
    BY <2>4 DEF Track, PreviousHeight
  <2>6. t.height <= h2
    BY <2>1, <2>2 DEF Tracked, Assumptions, BoundsAssumption
  <2> HIDE DEF t1, t2, b
  <2>7. tracking'[ch] = t2 /\ \A k \in Chains : k # ch => tracking'[k] = tracking[k]
    BY <2>1 DEF IInv, Typed
  <2> QED
    BY <2>1, <2>5, <2>6, <2>7 DEF TimeGoesOn, NewHeight, b
<1>2. ASSUME ReadyDone PROVE TimeGoesOn
  BY <1>2 DEF ReadyDone, Commit, TimeGoesOn
<1> QED
  BY <1>1, <1>2 DEF TimeGoesOn, ChanNext, HttpNext, ProcessorNext, CountOpen,
     RequestAccountCreation, AskBroker, ReadChannel, StoreChannel, StoreAccountCreation, OpenedElsewhere,
     ReadyRead, ReadyConflict, SwapDepositAddressReady, AccountCreationDepositAddressReady,
     LiquidityDepositAddressReady

LEMMA GoesOn == Assumptions /\ IInv /\ [Next]_vars => ChannelsGoOn /\ TimeGoesOn
<1> SUFFICES ASSUME Assumptions, IInv, [Next]_vars PROVE ChannelsGoOn /\ TimeGoesOn
  OBVIOUS
<1>1. CASE CommitDeposit
  BY <1>1 DEF CommitDeposit, Commit, ChannelsGoOn, TimeGoesOn
<1>2. CASE UNCHANGED chanVars
  BY <1>2 DEF chanVars, ChannelsGoOn, TimeGoesOn
<1> QED
  BY <1>1, <1>2, LookChannels, ChannelsStay, TimeStays DEF Next, vars

\* What is witnessed by now is what was tracked one block ago, whatever came in this block.
LEMMA EarlierKeeps ==
  ASSUME Assumptions, IInv, EarlierIsWitnessed, TimeGoesOn
  PROVE  /\ EarlierIsWitnessed'
         /\ block' \in Nat /\ block <= block'
         /\ \A ch \in Chains : earlier[ch] <= earlier'[ch] /\ Then(tracking[ch], tracking'[ch])
<1>1. block \in Nat /\ earlier \in [Chains -> Nat] /\ tracking \in [Chains -> Tracked]
  BY DEF IInv, Typed
<1>2. CASE UNCHANGED <<block, earlier, tracking>>
  <2>1. EarlierIsWitnessed'
    BY <1>2 DEF EarlierIsWitnessed
  <2> QED
    BY <1>1, <1>2, <2>1 DEF Then
<1>3. CASE /\ block' = block + 1 /\ earlier' = [ch \in Chains |-> tracking[ch].height]
           /\ \A ch \in Chains : tracking'[ch] = tracking[ch] \/ NewHeight(ch)
  <2> SUFFICES ASSUME NEW ch \in Chains
               PROVE  /\ tracking'[ch].previousHeight <= tracking'[ch].height
                      /\ LastWitnessed(tracking'[ch], block') = earlier'[ch]
                      /\ earlier[ch] <= earlier'[ch] /\ Then(tracking[ch], tracking'[ch])
    BY <1>1, <1>3 DEF EarlierIsWitnessed
  <2>1. /\ tracking[ch] \in Tracked /\ tracking[ch].eventWitnessedBlock <= block
        /\ tracking[ch].previousHeight <= tracking[ch].height
        /\ LastWitnessed(tracking[ch], block) = earlier[ch] /\ earlier'[ch] = tracking[ch].height
    BY <1>1, <1>3 DEF IInv, NotAhead, EarlierIsWitnessed
  <2>2. earlier[ch] <= earlier'[ch]
    BY <2>1 DEF LastWitnessed, Tracked
  <2>3. CASE tracking'[ch] = tracking[ch]
    BY <1>1, <1>3, <2>1, <2>2, <2>3 DEF LastWitnessed, Tracked, Then
  <2>4. CASE NewHeight(ch)
    BY <1>1, <1>3, <2>1, <2>2, <2>4 DEF LastWitnessed, Tracked, Then, NewHeight
  <2> QED
    BY <1>3, <2>3, <2>4
<1> QED
  BY <1>2, <1>3 DEF TimeGoesOn

-----------------------------------------------------------------------------
(* The rows of deposits.                                                   *)

\* What a step leaves of a deposit: where it went, its block, its rows, and that the
\* tracker has had it.
DepositsGoOn == \A d \in Deposits :
  /\ dep[d] # None => /\ dep'[d] # None /\ dep'[d].to = dep[d].to
                      /\ dep[d].height # 0 => dep'[d].height = dep[d].height
  /\ swapRequest[d] # None => swapRequest'[d] = swapRequest[d]
  /\ failedSwap[d] # None => failedSwap'[d] # None /\ failedSwap'[d].link = failedSwap[d].link
  /\ "gone" \in redis[d] => "gone" \in redis'[d]
  /\ "deposit" \in redis[d] => "deposit" \in redis'[d] \/ "gone" \in redis'[d]

\* A deposit is to the vault or to a channel, as its address says.
LEMMA Addresses ==
  ASSUME LookAssumptions, DepositInv, NEW d \in Deposits, dep[d] # None
  PROVE  /\ dep[d] \in DepositsMade /\ dep[d].to \in Targets /\ dep[d].height \in Nat
         /\ DepChain(d) \in Chains
         /\ IsVault(d) <=> dep[d].to \notin Channels
<1>1. dep[d] \in DepositsMade /\ dep[d].to \in Targets /\ dep[d].height \in Nat
  BY DEF DepositInv, DepositTypes, DepositsMade, LookAssumptions, Assumptions, BoundsAssumption
<1>2. CASE dep[d].to \in Channels
  BY <1>1, <1>2, ChainOfChannel DEF LookAssumptions, ChannelsAssumption, IsVault, DepChain
<1>3. CASE dep[d].to \notin Channels
  <2>1. PICK ch \in Chains : dep[d].to = <<"vault", ch>>
    BY <1>1, <1>3 DEF Targets, Vault
  <2> QED
    BY <1>1, <1>3, <2>1 DEF IsVault, DepChain
<1> QED
  BY <1>2, <1>3

\* Requests and failures stay as they are.
RequestsFrame == UNCHANGED <<swapRequest, failedSwap, failedBoost>>

LEMMA RequestsStay ==
  ASSUME LookAssumptions, DepositInv, RequestsFrame, ChannelsGoOn, DepositsGoOn
  PROVE  RowsOfDeposits' /\ BoostsOfChannels' /\ RefundOnlySharesId' /\ NewestExists'
<1>1. BoostsOfChannels'
  BY DEF RequestsFrame, DepositInv, BoostsOfChannels
<1>2. RowsOfDeposits'
  BY DEF RequestsFrame, DepositInv, RowsOfDeposits, ChannelsGoOn, DepositsGoOn, IsVault
<1>3. RefundOnlySharesId'
  <2>1. "SWAP" # None
    BY DEF LookAssumptions, Assumptions, NoneAssumption, Types, Backends
  <2> SUFFICES ASSUME NEW d \in Deposits, failedSwap[d] # None, failedSwap[d].refund # None
               PROVE  /\ failedSwap[d].refund[2] = failedSwap[d].link[2]
                      /\ base'[failedSwap[d].link] = "SWAP"
    BY DEF RequestsFrame, RefundOnlySharesId
  <2>2. /\ failedSwap[d].refund[2] = failedSwap[d].link[2]
        /\ base[failedSwap[d].link] = "SWAP" /\ failedSwap[d].link \in Channels
    BY DEF DepositInv, RefundOnlySharesId, RowsOfDeposits, DepositTypes, FailedSwaps
  <2> QED
    BY <2>1, <2>2 DEF ChannelsGoOn
<1>4. NewestExists'
  BY DEF RequestsFrame, DepositInv, NewestExists, HandledOnes, Handled, RequestsOf, Newest
<1> QED
  BY <1>1, <1>2, <1>3, <1>4

LEMMA ChannelStepKeeps ==
  ASSUME LookAssumptions, DepositInv, ChannelsGoOn, RequestsFrame, UNCHANGED <<dep, redis>>
  PROVE  DepositInv' /\ DepositsGoOn
<1>1. DepositsGoOn
  BY DEF RequestsFrame, DepositsGoOn
<1>2. DepositTypes' /\ TrackedOnce'
  BY DEF RequestsFrame, DepositInv, DepositTypes, TrackedOnce
<1> QED
  BY <1>1, <1>2, RequestsStay DEF DepositInv

LEMMA DepositKeeps ==
  ASSUME LookAssumptions, DepositInv, ChannelsGoOn, NEW d \in Deposits, NEW made \in DepositsMade,
         \/ dep[d] = None
         \/ dep[d] # None /\ dep[d].height = 0 /\ made.to = dep[d].to,
         dep' = [dep EXCEPT ![d] = made], UNCHANGED redis, RequestsFrame
  PROVE  DepositInv' /\ DepositsGoOn
<1>1. made # None /\ \A e \in Deposits : dep'[e] = IF e = d THEN made ELSE dep[e]
  BY DEF LookAssumptions, NoRowAssumption, DepositInv, DepositTypes
<1>2. DepositsGoOn
  BY <1>1 DEF RequestsFrame, DepositsGoOn
<1>3. DepositTypes'
  BY DEF RequestsFrame, DepositInv, DepositTypes
<1>4. TrackedOnce'
  BY <1>1 DEF DepositInv, TrackedOnce
<1> QED
  BY <1>2, <1>3, <1>4, RequestsStay DEF DepositInv

LEMMA TrackerKeeps ==
  ASSUME LookAssumptions, DepositInv, ChannelsGoOn, NEW d \in Deposits, NEW keys \in SUBSET Keys,
         dep[d] # None,
         "deposit" \in keys \/ "gone" \in keys => dep[d].height # 0,
         "deposit" \in keys => "gone" \notin keys,
         "gone" \in redis[d] => "gone" \in keys,
         "deposit" \in redis[d] => "deposit" \in keys \/ "gone" \in keys,
         redis' = [redis EXCEPT ![d] = keys], UNCHANGED dep, RequestsFrame
  PROVE  DepositInv' /\ DepositsGoOn
<1>1. \A e \in Deposits : redis'[e] = IF e = d THEN keys ELSE redis[e]
  BY DEF DepositInv, DepositTypes
<1>2. DepositsGoOn
  BY <1>1 DEF RequestsFrame, DepositsGoOn
<1>3. DepositTypes'
  BY DEF RequestsFrame, DepositInv, DepositTypes
<1>4. TrackedOnce'
  BY <1>1 DEF DepositInv, TrackedOnce
<1> QED
  BY <1>2, <1>3, <1>4, RequestsStay DEF DepositInv

\* A deposit is handled once: its request gets the highest id so far.
LEMMA HandledKeeps ==
  ASSUME LookAssumptions, DepositInv, ChannelsGoOn, NEW d \in Deposits, dep[d] # None, ~Handled(d),
         NEW row \in SwapRequests \cup {None}, NEW fail \in FailedSwaps \cup {None},
         row # None \/ fail # None,
         row # None => /\ row.id = Cardinality(HandledOnes) + 1
                       /\ ~IsVault(d) => row.link = dep[d].to,
         fail # None =>
           /\ fail.refund = None
           /\ ~IsVault(d) =>
                LET c == dep[d].to
                    l == fail.link
                IN  /\ c \in Channels /\ l \in Channels /\ opened[c] # None /\ opened[l] # None
                    /\ l # c => l[2] = c[2] /\ opened[l].issuedBlock = opened[c].issuedBlock,
         swapRequest' = [swapRequest EXCEPT ![d] = row], failedSwap' = [failedSwap EXCEPT ![d] = fail],
         UNCHANGED <<dep, redis, failedBoost>>
  PROVE  DepositInv' /\ DepositsGoOn
<1>1. /\ \A e \in Deposits : swapRequest'[e] = IF e = d THEN row ELSE swapRequest[e]
      /\ \A e \in Deposits : failedSwap'[e] = IF e = d THEN fail ELSE failedSwap[e]
      /\ swapRequest[d] = None /\ failedSwap[d] = None
  BY DEF DepositInv, DepositTypes, Handled
<1>2. DepositsGoOn
  BY <1>1 DEF DepositsGoOn
<1>3. DepositTypes' /\ TrackedOnce'
  BY DEF DepositInv, DepositTypes, TrackedOnce
<1>4. BoostsOfChannels'
  BY DEF DepositInv, BoostsOfChannels
<1>5. RowsOfDeposits'
  <2> SUFFICES ASSUME NEW e \in Deposits
      PROVE  /\ swapRequest'[e] # None => dep[e] # None
             /\ failedSwap'[e] # None => dep[e] # None
             /\ swapRequest'[e] # None /\ ~IsVault(e) => swapRequest'[e].link = dep[e].to
             /\ failedSwap'[e] # None /\ failedSwap'[e].refund # None => failedSwap'[e].link # None
             /\ failedSwap'[e] # None /\ ~IsVault(e) =>
                  LET c == dep[e].to
                      l == failedSwap'[e].link
                  IN  /\ c \in Channels /\ l \in Channels /\ opened'[c] # None /\ opened'[l] # None
                      /\ l # c => l[2] = c[2] /\ opened'[l].issuedBlock = opened'[c].issuedBlock
    BY DEF RowsOfDeposits, IsVault
  <2>1. CASE e = d
    BY <2>1, <1>1 DEF ChannelsGoOn
  <2>2. CASE e # d
    BY <2>2, <1>1 DEF ChannelsGoOn, DepositInv, RowsOfDeposits
  <2> QED BY <2>1, <2>2
<1>6. RefundOnlySharesId'
  <2>1. "SWAP" # None
    BY DEF LookAssumptions, Assumptions, NoneAssumption, Types, Backends
  <2> SUFFICES ASSUME NEW e \in Deposits, failedSwap'[e] # None, failedSwap'[e].refund # None
               PROVE  /\ failedSwap'[e].refund[2] = failedSwap'[e].link[2]
                      /\ base'[failedSwap'[e].link] = "SWAP"
    BY DEF RefundOnlySharesId
  <2>2. failedSwap'[e] = failedSwap[e]
    BY <1>1
  <2>3. /\ failedSwap[e].refund[2] = failedSwap[e].link[2]
        /\ base[failedSwap[e].link] = "SWAP" /\ failedSwap[e].link \in Channels
    BY <2>2 DEF DepositInv, RefundOnlySharesId, RowsOfDeposits, DepositTypes, FailedSwaps
  <2> QED
    BY <2>1, <2>2, <2>3 DEF ChannelsGoOn
<1>7. NewestExists'
  <2> DEFINE N == Cardinality(HandledOnes)
  <2>1. HandledOnes' = HandledOnes \cup {d} /\ d \notin HandledOnes
    BY <1>1 DEF HandledOnes, Handled
  <2>2. IsFiniteSet(HandledOnes)
    BY DEF DepositInv, NewestExists
  <2>3. /\ IsFiniteSet(HandledOnes \cup {d})
        /\ Cardinality(HandledOnes \cup {d}) = N + 1
    BY <2>1, <2>2, FS_AddElement, Zenon
  <2>4. N \in Nat
    BY <2>2, FS_CardinalityType, Zenon
  <2>5. IsFiniteSet(HandledOnes)' /\ Cardinality(HandledOnes)' = N + 1
    BY <2>1, <2>3, Zenon
  <2>6. \A e \in Deposits : swapRequest[e] # None => swapRequest[e].id \in Nat /\ swapRequest[e].id <= N
    BY DEF DepositInv, NewestExists, DepositTypes, SwapRequests
  <2> HIDE DEF N
  <2>7. \A e \in Deposits : swapRequest'[e] # None => swapRequest'[e].id \in Nat /\ swapRequest'[e].id <= N + 1
    <3> SUFFICES ASSUME NEW e \in Deposits, swapRequest'[e] # None
                 PROVE  swapRequest'[e].id \in Nat /\ swapRequest'[e].id <= N + 1
      OBVIOUS
    <3>1. CASE e = d
      <4>1. swapRequest'[e].id = N + 1
        BY <3>1, <1>1 DEF N
      <4> QED
        BY <4>1, <2>4
    <3>2. CASE e # d
      <4>1. swapRequest[e].id \in Nat /\ swapRequest[e].id <= N /\ swapRequest'[e] = swapRequest[e]
        BY <3>2, <1>1, <2>6
      <4> QED
        BY <4>1, <2>4
    <3> QED
      BY <3>1, <3>2
  <2>8. ASSUME NEW c \in Channels, RequestsOf(c)' # {} PROVE Newest(RequestsOf(c))' # {}
    <3>1. CASE row # None /\ row.link = c
      <4>1. d \in RequestsOf(c)' /\ swapRequest'[d].id = N + 1
        BY <3>1, <1>1 DEF RequestsOf, N
      <4>2. d \in Newest(RequestsOf(c))'
        BY <4>1, <2>7 DEF Newest, RequestsOf
      <4> QED
        BY <4>2
    <3>2. CASE ~(row # None /\ row.link = c)
      <4>1. RequestsOf(c)' = RequestsOf(c)
        BY <3>2, <1>1 DEF RequestsOf
      <4>2. \A e \in RequestsOf(c) : e \in Deposits /\ swapRequest'[e] = swapRequest[e]
        BY <1>1 DEF RequestsOf
      <4>3. PICK e \in RequestsOf(c) : \A f \in RequestsOf(c) : swapRequest[f].id <= swapRequest[e].id
        BY <2>8, <4>1 DEF DepositInv, NewestExists, Newest
      <4>4. e \in Newest(RequestsOf(c))'
        BY <4>1, <4>2, <4>3 DEF Newest
      <4> QED
        BY <4>4
    <3> QED
      BY <3>1, <3>2
  <2> QED
    BY <2>5, <2>7, <2>8 DEF NewestExists
<1> QED
  BY <1>2, <1>3, <1>4, <1>5, <1>6, <1>7 DEF DepositInv

LEMMA SwapRequestedKeeps ==
  ASSUME LookAssumptions, IInv, DepositInv, ChannelsGoOn, NEW d \in Deposits, NEW swaps \in BOOLEAN,
         SwapRequested(d, swaps)
  PROVE  DepositInv' /\ DepositsGoOn
<1>1. PICK link \in (IF IsVault(d) THEN {None} ELSE Origin(d)) :
        /\ swapRequest' = [swapRequest EXCEPT ![d] =
             [link |-> link, swaps |-> swaps, id |-> Cardinality({e \in Deposits : Handled(e)}) + 1]]
        /\ failedSwap' = IF swaps THEN failedSwap
                         ELSE [failedSwap EXCEPT ![d] = [link |-> link, refund |-> None]]
  BY DEF SwapRequested
<1>2. /\ dep[d] # None /\ ~Handled(d) /\ UNCHANGED <<dep, redis, failedBoost>>
      /\ dep[d].to \in Channels => base[dep[d].to] # None
  BY DEF SwapRequested, Witnessed
<1>3. link \in Channels \cup {None}
  BY <1>1 DEF Origin
<1>4. ~IsVault(d) => link = dep[d].to /\ link \in Channels /\ opened[link] # None
  BY <1>1, <1>2 DEF Origin, IInv, Processed
<1>5. Cardinality(HandledOnes) \in Nat
  <2>1. IsFiniteSet(HandledOnes)
    BY DEF DepositInv, NewestExists
  <2> QED
    BY <2>1, FS_CardinalityType, Zenon
<1> DEFINE row == [link |-> link, swaps |-> swaps, id |-> Cardinality(HandledOnes) + 1]
           fail == IF swaps THEN None ELSE [link |-> link, refund |-> None]
<1>6. row \in SwapRequests /\ row.link = link /\ row.id = Cardinality(HandledOnes) + 1
  BY <1>3, <1>5 DEF SwapRequests
<1>7. fail \in FailedSwaps \cup {None} /\ (fail # None => fail.link = link /\ fail.refund = None)
  BY <1>3 DEF FailedSwaps
<1>8. row # None
  BY <1>6 DEF LookAssumptions, NoRowAssumption
<1>9. swapRequest' = [swapRequest EXCEPT ![d] = row]
  BY <1>1 DEF HandledOnes
<1>10. failedSwap' = [failedSwap EXCEPT ![d] = fail]
  BY <1>1, <1>2 DEF Handled, DepositInv, DepositTypes
<1> HIDE DEF row, fail
<1> QED
  BY <1>2, <1>4, <1>6, <1>7, <1>8, <1>9, <1>10, HandledKeeps

LEMMA DepositFailedKeeps ==
  ASSUME LookAssumptions, IInv, DepositInv, ChannelsGoOn, NEW d \in Deposits, DepositFailed(d)
  PROVE  DepositInv' /\ DepositsGoOn
<1>1. PICK link \in (IF IsVault(d) THEN {None} ELSE FailedChannels(d)) :
        failedSwap' = [failedSwap EXCEPT ![d] = [link |-> link, refund |-> None]]
  BY DEF DepositFailed
<1>2. /\ dep[d] # None /\ ~Handled(d) /\ UNCHANGED <<dep, redis, swapRequest, failedBoost>>
      /\ dep[d].to \in Channels => base[dep[d].to] # None
  BY DEF DepositFailed, Witnessed
<1>3. link \in Channels \cup {None}
  BY <1>1 DEF FailedChannels
<1>4. ~IsVault(d) =>
        LET c == dep[d].to
        IN  /\ c \in Channels /\ link \in Channels /\ opened[c] # None /\ opened[link] # None
            /\ link[2] = c[2] /\ opened[link].issuedBlock = opened[c].issuedBlock
  <2> SUFFICES ASSUME ~IsVault(d)
               PROVE  LET c == dep[d].to
                      IN  /\ c \in Channels /\ link \in Channels /\ opened[c] # None /\ opened[link] # None
                          /\ link[2] = c[2] /\ opened[link].issuedBlock = opened[c].issuedBlock
    OBVIOUS
  <2>1. dep[d].to \in Channels
    BY <1>2, Addresses
  <2>2. opened[dep[d].to] # None
    BY <1>2, <2>1 DEF IInv, Processed
  <2>3. link \in FailedChannels(d)
    BY <1>1
  <2> QED
    BY <2>1, <2>2, <2>3 DEF FailedChannels, IInv, RowsOfOpened
<1> DEFINE fail == [link |-> link, refund |-> None]
<1>5. fail \in FailedSwaps /\ fail.link = link /\ fail.refund = None
  BY <1>3 DEF FailedSwaps
<1>6. fail # None
  BY <1>5 DEF LookAssumptions, NoRowAssumption
<1>7. swapRequest' = [swapRequest EXCEPT ![d] = None]
  BY <1>2 DEF Handled, DepositInv, DepositTypes
<1>8. failedSwap' = [failedSwap EXCEPT ![d] = fail]
  BY <1>1
<1> HIDE DEF fail
<1> QED
  BY <1>2, <1>4, <1>5, <1>6, <1>7, <1>8, HandledKeeps

\* A refund is written into the failed swaps whose channel has the id of its own.
LEMMA RejectedKeeps ==
  ASSUME LookAssumptions, IInv, DepositInv, ChannelsGoOn, NEW c \in Channels, TransactionRejectedByBroker(c)
  PROVE  DepositInv' /\ DepositsGoOn
<1>1. /\ failedSwap' = [d \in Deposits |-> IF d \in Refunded(c) THEN [failedSwap[d] EXCEPT !.refund = c]
                                          ELSE failedSwap[d]]
      /\ UNCHANGED <<dep, redis, swapRequest, failedBoost>>
  BY DEF TransactionRejectedByBroker
<1>2. \A d \in Deposits :
        d \in Refunded(c) =>
          /\ failedSwap[d] \in FailedSwaps /\ [failedSwap[d] EXCEPT !.refund = c] \in FailedSwaps
          /\ [failedSwap[d] EXCEPT !.refund = c].link = failedSwap[d].link
          /\ [failedSwap[d] EXCEPT !.refund = c].refund = c
          /\ failedSwap[d] # None /\ failedSwap[d].link \in Channels
          /\ base[failedSwap[d].link] = "SWAP" /\ failedSwap[d].link[2] = c[2]
          /\ failedSwap[d].link # None
  BY DEF Refunded, DepositInv, DepositTypes, FailedSwaps
<1>3. \A d \in Deposits :
        /\ failedSwap'[d] \in FailedSwaps \cup {None}
        /\ failedSwap'[d] # None <=> failedSwap[d] # None
        /\ failedSwap[d] # None => failedSwap'[d].link = failedSwap[d].link
        /\ failedSwap'[d] # failedSwap[d] =>
             /\ failedSwap'[d].refund = c /\ failedSwap[d].link \in Channels /\ failedSwap[d].link # None
             /\ base[failedSwap[d].link] = "SWAP" /\ failedSwap[d].link[2] = c[2]
  <2> SUFFICES ASSUME NEW d \in Deposits
      PROVE /\ failedSwap'[d] \in FailedSwaps \cup {None}
            /\ failedSwap'[d] # None <=> failedSwap[d] # None
            /\ failedSwap[d] # None => failedSwap'[d].link = failedSwap[d].link
            /\ failedSwap'[d] # failedSwap[d] =>
                 /\ failedSwap'[d].refund = c /\ failedSwap[d].link \in Channels /\ failedSwap[d].link # None
                 /\ base[failedSwap[d].link] = "SWAP" /\ failedSwap[d].link[2] = c[2]
    OBVIOUS
  <2>1. CASE d \in Refunded(c)
    <3>1. failedSwap'[d] = [failedSwap[d] EXCEPT !.refund = c]
      BY <1>1, <2>1
    <3> QED
      BY <1>2, <2>1, <3>1 DEF LookAssumptions, NoRowAssumption
  <2>2. CASE d \notin Refunded(c)
    BY <1>1, <2>2 DEF DepositInv, DepositTypes
  <2> QED BY <2>1, <2>2
<1>4. DepositsGoOn
  BY <1>1, <1>3 DEF DepositsGoOn
<1>5. DepositTypes' /\ TrackedOnce' /\ BoostsOfChannels'
  <2>1. failedSwap' \in [Deposits -> FailedSwaps \cup {None}]
    BY <1>1, <1>3
  <2> QED
    BY <1>1, <2>1 DEF DepositInv, DepositTypes, TrackedOnce, BoostsOfChannels
<1>6. RowsOfDeposits'
  <2> SUFFICES ASSUME NEW e \in Deposits
      PROVE  /\ swapRequest[e] # None => dep[e] # None
             /\ failedSwap'[e] # None => dep[e] # None
             /\ swapRequest[e] # None /\ ~IsVault(e) => swapRequest[e].link = dep[e].to
             /\ failedSwap'[e] # None /\ failedSwap'[e].refund # None => failedSwap'[e].link # None
             /\ failedSwap'[e] # None /\ ~IsVault(e) =>
                  LET k == dep[e].to
                      l == failedSwap'[e].link
                  IN  /\ k \in Channels /\ l \in Channels /\ opened'[k] # None /\ opened'[l] # None
                      /\ l # k => l[2] = k[2] /\ opened'[l].issuedBlock = opened'[k].issuedBlock
    BY <1>1 DEF RowsOfDeposits, IsVault
  <2>1. failedSwap'[e] # None => failedSwap'[e].link = failedSwap[e].link /\ failedSwap[e] # None
    BY <1>3
  <2>2. failedSwap'[e] # None /\ failedSwap'[e].refund # None => failedSwap'[e].link # None
    BY <1>3, <2>1 DEF DepositInv, RowsOfDeposits
  <2> QED
    BY <2>1, <2>2 DEF ChannelsGoOn, DepositInv, RowsOfDeposits
<1>7. RefundOnlySharesId'
  <2>1. "SWAP" # None
    BY DEF LookAssumptions, Assumptions, NoneAssumption, Types, Backends
  <2> SUFFICES ASSUME NEW e \in Deposits, failedSwap'[e] # None, failedSwap'[e].refund # None
               PROVE  /\ failedSwap'[e].refund[2] = failedSwap'[e].link[2]
                      /\ base'[failedSwap'[e].link] = "SWAP"
    BY DEF RefundOnlySharesId
  <2>2. failedSwap'[e].link = failedSwap[e].link /\ failedSwap[e] # None
    BY <1>3
  <2>3. /\ failedSwap'[e].refund[2] = failedSwap[e].link[2]
        /\ base[failedSwap[e].link] = "SWAP" /\ failedSwap[e].link \in Channels
    BY <1>3, <2>2 DEF DepositInv, RefundOnlySharesId, RowsOfDeposits, DepositTypes, FailedSwaps
  <2> QED
    BY <2>1, <2>2, <2>3 DEF ChannelsGoOn
<1>8. NewestExists'
  <2>1. HandledOnes' = HandledOnes
    BY <1>1, <1>3 DEF HandledOnes, Handled
  <2> QED
    BY <1>1, <2>1 DEF DepositInv, NewestExists, RequestsOf, Newest
<1> QED
  BY <1>4, <1>5, <1>6, <1>7, <1>8 DEF DepositInv

LEMMA BoostKeeps ==
  ASSUME LookAssumptions, IInv, DepositInv, ChannelsGoOn, NEW c \in Channels, InsufficientBoostLiquidity(c)
  PROVE  DepositInv' /\ DepositsGoOn
<1>1. PICK e \in BoostChannels(c) : failedBoost' = failedBoost \cup {<<c, e>>}
  BY DEF InsufficientBoostLiquidity
<1>2. UNCHANGED <<dep, redis, swapRequest, failedSwap>>
  BY DEF InsufficientBoostLiquidity
<1>3. e = c
  BY DEF BoostChannels, ChainOf, LookAssumptions, ChannelsAssumption
<1>4. BoostsOfChannels'
  BY <1>1, <1>3 DEF DepositInv, BoostsOfChannels
<1>5. DepositsGoOn
  BY <1>2 DEF DepositsGoOn
<1>6. DepositTypes' /\ TrackedOnce' /\ NewestExists'
  BY <1>2 DEF DepositInv, DepositTypes, TrackedOnce, NewestExists, HandledOnes, Handled, RequestsOf, Newest
<1>7. RowsOfDeposits'
  BY <1>2 DEF DepositInv, RowsOfDeposits, ChannelsGoOn, IsVault
<1>8. RefundOnlySharesId'
  <2>1. "SWAP" # None
    BY DEF LookAssumptions, Assumptions, NoneAssumption, Types, Backends
  <2> SUFFICES ASSUME NEW d \in Deposits, failedSwap[d] # None, failedSwap[d].refund # None
               PROVE  /\ failedSwap[d].refund[2] = failedSwap[d].link[2]
                      /\ base'[failedSwap[d].link] = "SWAP"
    BY <1>2 DEF RefundOnlySharesId
  <2>2. /\ failedSwap[d].refund[2] = failedSwap[d].link[2]
        /\ base[failedSwap[d].link] = "SWAP" /\ failedSwap[d].link \in Channels
    BY DEF DepositInv, RefundOnlySharesId, RowsOfDeposits, DepositTypes, FailedSwaps
  <2> QED
    BY <2>1, <2>2 DEF ChannelsGoOn
<1> QED
  BY <1>4, <1>5, <1>6, <1>7, <1>8 DEF DepositInv

LEMMA EnvironmentKeeps ==
  ASSUME LookAssumptions, DepositInv, ChannelsGoOn, NEW d \in Deposits,
         \/ \E to \in Targets : Deposit(d, to)
         \/ Included(d) \/ TrackerSees(d) \/ TrackerSeesBlock(d)
         \/ \E key \in {"mempool", "deposit"} : TrackerForgets(d, key)
  PROVE  DepositInv' /\ DepositsGoOn
<1> USE DEF RequestsFrame
<1>1. ASSUME NEW to \in Targets, Deposit(d, to) PROVE DepositInv' /\ DepositsGoOn
  <2>1. PICK h \in {0} \cup (1 .. MaxHeight) : dep' = [dep EXCEPT ![d] = [to |-> to, height |-> h]]
    BY <1>1 DEF Deposit
  <2>2. [to |-> to, height |-> h] \in DepositsMade
    BY <2>1 DEF DepositsMade, LookAssumptions, Assumptions, BoundsAssumption
  <2>3. dep[d] = None /\ UNCHANGED redis /\ RequestsFrame
    BY <1>1 DEF Deposit
  <2> QED
    BY <2>1, <2>2, <2>3, DepositKeeps
<1>2. ASSUME Included(d) PROVE DepositInv' /\ DepositsGoOn
  <2>1. PICK h \in 1 .. MaxHeight : dep' = [dep EXCEPT ![d] = [dep[d] EXCEPT !.height = h]]
    BY <1>2 DEF Included
  <2>2. dep[d] # None /\ dep[d].height = 0 /\ UNCHANGED redis /\ RequestsFrame
    BY <1>2 DEF Included
  <2>3. dep[d] \in DepositsMade
    BY <2>2, Addresses
  <2>4. [dep[d] EXCEPT !.height = h] \in DepositsMade /\ [dep[d] EXCEPT !.height = h].to = dep[d].to
    BY <2>1, <2>3 DEF DepositsMade, LookAssumptions, Assumptions, BoundsAssumption
  <2> QED
    BY <2>1, <2>2, <2>4, DepositKeeps
<1>3. ASSUME TrackerSees(d) PROVE DepositInv' /\ DepositsGoOn
  <2>1. PICK key \in (IF dep[d].height = 0 THEN {"mempool"} ELSE {"deposit"}) : redis' = [redis EXCEPT ![d] = {key}]
    BY <1>3 DEF TrackerSees
  <2>2. dep[d] # None /\ redis[d] = {} /\ UNCHANGED dep /\ RequestsFrame
    BY <1>3 DEF TrackerSees
  <2>3. {key} \in SUBSET Keys /\ ("deposit" \in {key} => dep[d].height # 0) /\ "gone" \notin {key}
    BY <2>1 DEF Keys
  <2> QED
    BY <2>1, <2>2, <2>3, TrackerKeeps
<1>4. ASSUME TrackerSeesBlock(d) PROVE DepositInv' /\ DepositsGoOn
  <2>1. /\ dep[d] # None /\ dep[d].height # 0 /\ redis[d] = {"mempool"}
        /\ redis' = [redis EXCEPT ![d] = {"mempool", "deposit"}]
        /\ UNCHANGED dep /\ RequestsFrame
    BY <1>4 DEF TrackerSeesBlock
  <2>2. {"mempool", "deposit"} \in SUBSET Keys
    BY DEF Keys
  <2> QED
    BY <2>1, <2>2, TrackerKeeps
<1>5. ASSUME NEW key \in {"mempool", "deposit"}, TrackerForgets(d, key) PROVE DepositInv' /\ DepositsGoOn
  <2> DEFINE keys == (redis[d] \ {key}) \cup (IF key = "deposit" THEN {"gone"} ELSE {})
  <2>1. /\ key \in redis[d] /\ dep[d].height # 0 /\ redis' = [redis EXCEPT ![d] = keys]
        /\ UNCHANGED dep /\ RequestsFrame
    BY <1>5 DEF TrackerForgets
  <2>2. /\ dep[d] # None /\ redis[d] \in SUBSET Keys
        /\ "deposit" \in redis[d] => "gone" \notin redis[d]
    BY <2>1 DEF DepositInv, DepositTypes, TrackedOnce
  <2>3. /\ keys \in SUBSET Keys /\ ("deposit" \in keys => "gone" \notin keys)
        /\ "gone" \in redis[d] => "gone" \in keys
        /\ "deposit" \in redis[d] => "deposit" \in keys \/ "gone" \in keys
    BY <2>2 DEF Keys
  <2> HIDE DEF keys
  <2> QED
    BY <2>1, <2>2, <2>3, TrackerKeeps
<1> QED
  BY <1>1, <1>2, <1>3, <1>4, <1>5

\* Every step keeps what is known of the rows, and what was known of a deposit.
PollStep ==
  \/ \E d \in Deposits : PollTx(d)
  \/ \E c \in Channels : PollChannel(c)
  \/ PollDeposits \/ PollMempool \/ PollError
  \/ ReadTracking \/ ReadState \/ ReadFailed \/ ReadVault \/ ShowLookup \/ ShowPending

LEMMA PollFrame == PollStep => LookFrame
<1> SUFFICES ASSUME PollStep PROVE LookFrame
  OBVIOUS
<1> USE DEF Show, ShowNotFound
<1>1. ASSUME NEW d \in Deposits, PollTx(d) PROVE LookFrame
  BY <1>1 DEF PollTx
<1>2. ASSUME NEW c \in Channels, PollChannel(c) PROVE LookFrame
  BY <1>2 DEF PollChannel
<1>3. CASE PollDeposits \/ PollMempool \/ PollError
  BY <1>3 DEF PollDeposits, PollMempool, PollError
<1>4. CASE ReadTracking \/ ReadState \/ ReadFailed
  BY <1>4 DEF ReadTracking, ReadState, ReadFailed
<1>5. CASE ReadVault
  BY <1>5 DEF ReadVault
<1>6. CASE ShowLookup \/ ShowPending
  BY <1>6 DEF ShowLookup, ShowPending
<1> QED
  BY <1>1, <1>2, <1>3, <1>4, <1>5, <1>6 DEF PollStep

LEMMA Steps ==
  ASSUME [Next]_vars
  PROVE  \/ UNCHANGED lookVars
         \/ \E d \in Deposits :
              /\ \/ \E to \in Targets : Deposit(d, to)
                 \/ Included(d) \/ TrackerSees(d) \/ TrackerSeesBlock(d)
                 \/ \E key \in {"mempool", "deposit"} : TrackerForgets(d, key)
              /\ UNCHANGED <<poll, shown>>
         \/ (\E d \in Deposits, swaps \in BOOLEAN : SwapRequested(d, swaps)) /\ UNCHANGED <<poll, shown>>
         \/ (\E d \in Deposits : DepositFailed(d)) /\ UNCHANGED <<poll, shown>>
         \/ (\E c \in Channels : TransactionRejectedByBroker(c)) /\ UNCHANGED <<poll, shown>>
         \/ (\E c \in Channels : InsufficientBoostLiquidity(c)) /\ UNCHANGED <<poll, shown>>
         \/ PollStep
<1>1. ASSUME NEW d \in Deposits, NEW to \in Targets, Deposit(d, to) PROVE UNCHANGED <<poll, shown>>
  BY <1>1 DEF Deposit
<1>2. ASSUME NEW d \in Deposits, Included(d) \/ TrackerSees(d) \/ TrackerSeesBlock(d)
      PROVE  UNCHANGED <<poll, shown>>
  BY <1>2 DEF Included, TrackerSees, TrackerSeesBlock
<1>3. ASSUME NEW d \in Deposits, NEW key \in {"mempool", "deposit"}, TrackerForgets(d, key)
      PROVE  UNCHANGED <<poll, shown>>
  BY <1>3 DEF TrackerForgets
<1>4. ASSUME NEW d \in Deposits, NEW swaps \in BOOLEAN, SwapRequested(d, swaps) PROVE UNCHANGED <<poll, shown>>
  BY <1>4 DEF SwapRequested
<1>5. ASSUME NEW d \in Deposits, DepositFailed(d) PROVE UNCHANGED <<poll, shown>>
  BY <1>5 DEF DepositFailed
<1>6. ASSUME NEW c \in Channels, TransactionRejectedByBroker(c) \/ InsufficientBoostLiquidity(c)
      PROVE  UNCHANGED <<poll, shown>>
  BY <1>6 DEF TransactionRejectedByBroker, InsufficientBoostLiquidity
<1>7. CASE UNCHANGED lookVars
  BY <1>7
<1>8. CASE LookNext
  BY <1>1, <1>2, <1>3, <1>4, <1>5, <1>6, <1>8 DEF LookNext, PollStep
<1> QED
  BY <1>7, <1>8 DEF Next, vars

LEMMA DepositsKeep ==
  ASSUME LookAssumptions, IInv, DepositInv, [Next]_vars
  PROVE  DepositInv' /\ DepositsGoOn /\ (UNCHANGED <<poll, shown>> \/ (PollStep /\ LookFrame))
<1>1. ChannelsGoOn
  BY GoesOn DEF LookAssumptions
<1>2. CASE UNCHANGED lookVars
  BY <1>1, <1>2, ChannelStepKeeps DEF lookVars, RequestsFrame
<1>3. CASE PollStep
  BY <1>1, <1>3, PollFrame, ChannelStepKeeps DEF LookFrame, RequestsFrame
<1>4. ASSUME NEW d \in Deposits,
             \/ \E to \in Targets : Deposit(d, to)
             \/ Included(d) \/ TrackerSees(d) \/ TrackerSeesBlock(d)
             \/ \E key \in {"mempool", "deposit"} : TrackerForgets(d, key)
      PROVE  DepositInv' /\ DepositsGoOn
  BY <1>1, <1>4, EnvironmentKeeps
<1>5. ASSUME NEW d \in Deposits, NEW swaps \in BOOLEAN, SwapRequested(d, swaps)
      PROVE  DepositInv' /\ DepositsGoOn
  BY <1>1, <1>5, SwapRequestedKeeps
<1>6. ASSUME NEW d \in Deposits, DepositFailed(d) PROVE DepositInv' /\ DepositsGoOn
  BY <1>1, <1>6, DepositFailedKeeps
<1>7. ASSUME NEW c \in Channels, TransactionRejectedByBroker(c) PROVE DepositInv' /\ DepositsGoOn
  BY <1>1, <1>7, RejectedKeeps
<1>8. ASSUME NEW c \in Channels, InsufficientBoostLiquidity(c) PROVE DepositInv' /\ DepositsGoOn
  BY <1>1, <1>8, BoostKeeps
<1> QED
  BY <1>2, <1>3, <1>4, <1>5, <1>6, <1>7, <1>8, Steps, PollFrame

-----------------------------------------------------------------------------
(* A poll while the rows go on.                                            *)

LEMMA LastWitnessedGrows ==
  \A t, u \in Tracked, b, k \in Nat :
    b <= k /\ t.previousHeight <= t.height /\ u.previousHeight <= u.height /\ Then(t, u) =>
      /\ LastWitnessed(t, b) \in Nat /\ LastWitnessed(u, k) \in Nat
      /\ LastWitnessed(t, b) <= LastWitnessed(u, k)
  BY DEF LastWitnessed, Then, Tracked

LEMMA ChannelStays ==
  ASSUME IInv', ChannelsGoOn, NEW c \in Channels, Channel(c) # None
  PROVE  Channel(c)' # None /\ (Channel(c).beneficiaries => Channel(c)'.beneficiaries)
<1>1. CASE accCh[c] # None
  BY <1>1 DEF Channel, ChannelsGoOn
<1>2. CASE accCh[c] = None
  <2>1. swapCh[c] # None /\ swapCh'[c] # None
    BY <1>2 DEF Channel, ChannelsGoOn
  <2>2. accCh'[c] = None
    BY <2>1 DEF IInv, RowsOfOpened
  <2> QED
    BY <1>2, <2>1, <2>2 DEF Channel, ChannelsGoOn
<1> QED
  BY <1>1, <1>2

LEMMA RowsOfChannelStay ==
  ASSUME IInv', ChannelsGoOn, DepositsGoOn, NEW c \in Channels
  PROVE  /\ HasRow(c) => HasRow(c)'
         /\ Channel(c) # None /\ HasBrokers(c) => HasBrokers(c)'
<1>1. RequestsOf(c) # {} => RequestsOf(c)' # {}
  BY DEF RequestsOf, DepositsGoOn
<1>2. FailedOf(c) # {} => FailedOf(c)' # {}
  BY DEF FailedOf, DepositsGoOn
<1> QED
  BY <1>1, <1>2, ChannelStays DEF HasRow, HasBrokers

LEMMA BackingStays ==
  ASSUME DepositsGoOn, NEW d \in Deposits, dep[d] # None
  PROVE  /\ IsVault(d)' <=> IsVault(d)
         /\ DepChain(d)' = DepChain(d)
         /\ OnNode(d)' <=> OnNode(d)
         /\ Backed(d) => Backed(d)' /\ dep'[d].height = dep[d].height
  BY DEF DepositsGoOn, IsVault, DepChain, OnNode, Backed

LEMMA ReadingsStay ==
  ASSUME LookAssumptions, IInv, DepositInv, EarlierIsWitnessed, PollInv, IInv', DepositsGoOn,
         EarlierIsWitnessed', UNCHANGED <<poll, shown>>,
         block <= block',
         \A ch \in Chains : earlier[ch] <= earlier'[ch] /\ Then(tracking[ch], tracking'[ch])
  PROVE  Readings'
<1> SUFFICES ASSUME NEW d \in Deposits, poll.pc = "confirm", poll.of = d
    PROVE  /\ Backed(d)'
           /\ \A c \in Channels : poll.id = <<"channel", c>> => dep'[d].to = c /\ poll.failed = "none"
           /\ \A e \in Deposits : poll.id = <<"tx", e>> => e = d /\ poll.brokers
           /\ poll.tracking # None => /\ Then(poll.tracking, tracking'[DepChain(d)'])
                                      /\ poll.tracking.previousHeight <= poll.tracking.height
           /\ poll.state <= block'
           /\ shown # None /\ shown.of = d /\ shown.confs > 0 =>
                shown.confs + dep'[d].height <= LastWitnessed(ReadT(d)', ReadB') + 1
  BY DEF Readings, LastWitnessed
<1> DEFINE ch == DepChain(d)
<1>1. /\ Backed(d)
      /\ \A c \in Channels : poll.id = <<"channel", c>> => dep[d].to = c /\ poll.failed = "none"
      /\ \A e \in Deposits : poll.id = <<"tx", e>> => e = d /\ poll.brokers
      /\ poll.tracking # None => /\ Then(poll.tracking, tracking[ch])
                                 /\ poll.tracking.previousHeight <= poll.tracking.height
      /\ poll.state <= block
      /\ shown # None /\ shown.of = d /\ shown.confs > 0 =>
           shown.confs + dep[d].height <= LastWitnessed(ReadT(d), ReadB) + 1
  BY DEF PollInv, Readings
<1>2. dep[d] # None /\ DepChain(d)' = ch /\ Backed(d)' /\ dep'[d].height = dep[d].height /\ dep'[d].to = dep[d].to
  BY <1>1, BackingStays DEF Backed, DepositsGoOn
<1>3. ch \in Chains /\ dep[d].height \in Nat
  BY <1>2, Addresses
<1>4. /\ poll.tracking \in Tracked \cup {None} /\ poll.state \in Nat
  BY DEF PollInv, PollTypes, Confirming, NoPoll, Asking, LookingUp
<1>5. /\ tracking[ch] \in Tracked /\ tracking'[ch] \in Tracked /\ block \in Nat /\ block' \in Nat
      /\ tracking[ch].previousHeight <= tracking[ch].height
      /\ tracking'[ch].previousHeight <= tracking'[ch].height
      /\ Then(tracking[ch], tracking'[ch])
  BY <1>3 DEF IInv, Typed, EarlierIsWitnessed
<1>6. poll.tracking # None => Then(poll.tracking, tracking'[ch])
  BY <1>1, <1>4, <1>5 DEF Then, Tracked
<1>7. poll.state <= block'
  BY <1>1, <1>4, <1>5
<1>8. LastWitnessed(ReadT(d), ReadB) <= LastWitnessed(ReadT(d)', ReadB')
      /\ LastWitnessed(ReadT(d), ReadB) \in Nat /\ LastWitnessed(ReadT(d)', ReadB') \in Nat
  <2>1. /\ ReadT(d) = IF poll.tracking = None THEN tracking[ch] ELSE poll.tracking
        /\ ReadT(d)' = IF poll.tracking = None THEN tracking'[ch] ELSE poll.tracking
        /\ ReadB = IF poll.state = 0 THEN block ELSE poll.state
        /\ ReadB' = IF poll.state = 0 THEN block' ELSE poll.state
    BY <1>2 DEF ReadT, ReadB
  <2> HIDE DEF ch
  <2>2. ReadB \in Nat /\ ReadB' \in Nat /\ ReadB <= ReadB'
    BY <2>1, <1>4, <1>5
  <2>3. /\ ReadT(d) \in Tracked /\ ReadT(d)' \in Tracked
        /\ ReadT(d).previousHeight <= ReadT(d).height /\ ReadT(d)'.previousHeight <= ReadT(d)'.height
        /\ Then(ReadT(d), ReadT(d)')
    BY <2>1, <1>1, <1>4, <1>5 DEF Then
  <2> QED
    BY <2>2, <2>3, LastWitnessedGrows
<1>9. shown # None /\ shown.of = d /\ shown.confs > 0 =>
        shown.confs + dep'[d].height <= LastWitnessed(ReadT(d)', ReadB') + 1
  <2>1. shown # None => shown.confs \in Nat
    BY DEF PollInv, PollTypes, Answers
  <2> QED
    BY <2>1, <1>1, <1>2, <1>3, <1>8
<1> QED
  BY <1>1, <1>2, <1>6, <1>7, <1>9

LEMMA PollStands ==
  ASSUME LookAssumptions, IInv, DepositInv, EarlierIsWitnessed, PollInv, IInv', ChannelsGoOn, DepositsGoOn,
         EarlierIsWitnessed', UNCHANGED <<poll, shown>>,
         block <= block',
         \A ch \in Chains : earlier[ch] <= earlier'[ch] /\ Then(tracking[ch], tracking'[ch])
  PROVE  PollInv'
<1>1. PollTypes' /\ ShownRoles'
  BY DEF PollInv, PollTypes, ShownRoles
<1>2. ShownOfChannel'
  <2> SUFFICES ASSUME NEW c \in Channels, shown # None, shown.id = <<"channel", c>>
      PROVE  /\ shown.state # "404" => Channel(c)' # None
             /\ shown.state = "404" => ~shown.brokers
             /\ shown.state = "RECEIVING" =>
                  swapCh'[c] # None /\ \A d \in Deposits : shown.of = d => dep'[d] # None /\ dep'[d].to = c
             /\ shown.state \in {"SWAPPING", "FAILED"} => HasRow(c)'
             /\ shown.brokers => HasBrokers(c)'
    BY DEF ShownOfChannel
  <2>1. /\ shown.state # "404" => Channel(c) # None
        /\ shown.state = "404" => ~shown.brokers
        /\ shown.state = "RECEIVING" =>
             swapCh[c] # None /\ \A d \in Deposits : shown.of = d => dep[d] # None /\ dep[d].to = c
        /\ shown.state \in {"SWAPPING", "FAILED"} => HasRow(c)
        /\ shown.brokers => HasBrokers(c)
    BY DEF PollInv, ShownOfChannel
  <2>2. shown.state = "RECEIVING" =>
          swapCh'[c] # None /\ \A d \in Deposits : shown.of = d => dep'[d] # None /\ dep'[d].to = c
    BY <2>1 DEF ChannelsGoOn, DepositsGoOn
  <2> QED
    BY <2>1, <2>2, ChannelStays, RowsOfChannelStay
<1>3. ShownOfTx'
  <2> SUFFICES ASSUME NEW d \in Deposits, shown # None, shown.id = <<"tx", d>>
      PROVE  /\ dep'[d] # None /\ IsVault(d)' /\ shown.state # "WAITING"
             /\ shown.state = "RECEIVING" => shown.of = d
             /\ shown.state = "SWAPPING" => swapRequest'[d] # None
             /\ shown.state = "FAILED" => failedSwap'[d] # None
    BY DEF ShownOfTx
  <2>1. dep[d] # None /\ IsVault(d)
    BY DEF PollInv, ShownOfTx
  <2> QED
    BY <2>1, BackingStays DEF PollInv, ShownOfTx, DepositsGoOn
<1>4. ShownDeposit'
  <2> SUFFICES ASSUME NEW d \in Deposits, shown # None, shown.of = d
      PROVE  /\ shown.by = "deposit" => Backed(d)'
             /\ shown.confs > 0 => shown.confs + dep'[d].height <= earlier'[DepChain(d)'] + 1
             /\ shown.ref # d =>
                  /\ dep'[d] # None /\ DepChain(d)' = "Solana"
                  /\ swapRequest'[d] # None /\ ~swapRequest'[d].swaps
    BY DEF ShownDeposit
  <2>1. /\ shown.by = "deposit" => Backed(d)
        /\ shown.confs > 0 => shown.confs + dep[d].height <= earlier[DepChain(d)] + 1 /\ shown.by = "deposit"
        /\ shown.ref # d =>
             /\ dep[d] # None /\ DepChain(d) = "Solana"
             /\ swapRequest[d] # None /\ ~swapRequest[d].swaps
    BY DEF PollInv, ShownDeposit, ShownRoles
  <2>2. shown.ref # d => /\ dep'[d] # None /\ DepChain(d)' = "Solana"
                         /\ swapRequest'[d] # None /\ ~swapRequest'[d].swaps
    BY <2>1, BackingStays DEF DepositsGoOn
  <2>3. shown.by = "deposit" => Backed(d)' /\ dep'[d].height = dep[d].height /\ DepChain(d)' = DepChain(d)
                                /\ DepChain(d) \in Chains /\ dep[d].height \in Nat
    BY <2>1, BackingStays, Addresses DEF Backed
  <2>4. shown.confs \in Nat
    BY DEF PollInv, PollTypes, Answers
  <2>5. ASSUME shown.confs > 0 PROVE shown.confs + dep'[d].height <= earlier'[DepChain(d)'] + 1
    <3>1. PICK ch \in Chains : ch = DepChain(d)
      BY <2>1, <2>3, <2>5
    <3>2. earlier[ch] \in Nat /\ earlier'[ch] \in Nat /\ earlier[ch] <= earlier'[ch]
      BY DEF IInv, Typed
    <3> QED
      BY <2>1, <2>3, <2>4, <2>5, <3>1, <3>2
  <2> QED
    BY <2>2, <2>3, <2>5
<1>5. PollOfChannel'
  <2> SUFFICES ASSUME NEW c \in Channels, poll.pc \in {"deposits", "mempool", "confirm"},
                      poll.id = <<"channel", c>>
      PROVE  /\ swapCh'[c] # None
             /\ poll.brokers => HasBrokers(c)'
             /\ shown # None => /\ shown.id = poll.id /\ shown.state \notin {"SWAPPING", "FAILED"}
                                /\ shown.brokers => poll.brokers
    BY DEF PollOfChannel
  <2>1. swapCh[c] # None /\ (poll.brokers => HasBrokers(c))
    BY DEF PollInv, PollOfChannel
  <2>2. Channel(c) # None
    BY <2>1 DEF Channel
  <2> QED
    BY <2>1, <2>2, RowsOfChannelStay DEF PollInv, PollOfChannel, ChannelsGoOn
<1>6. MempoolIsNext'
  BY DEF PollInv, MempoolIsNext, DepositsGoOn
<1>7. PollOfTx'
  <2> SUFFICES ASSUME NEW d \in Deposits, poll.pc \in {"lookup", "confirm"}, poll.id = <<"tx", d>>
      PROVE  /\ dep'[d] # None /\ IsVault(d)'
             /\ poll.failed = "found" => failedSwap'[d] # None
             /\ shown # None => /\ shown.id = poll.id /\ shown.state # "SWAPPING"
                                /\ shown.state = "FAILED" => poll.failed # "none"
    BY DEF PollOfTx
  <2>1. dep[d] # None /\ IsVault(d)
    BY DEF PollInv, PollOfTx
  <2> QED
    BY <2>1, BackingStays DEF PollInv, PollOfTx, DepositsGoOn
<1>8. VaultIsGone'
  <2> SUFFICES ASSUME NEW d \in Deposits, poll.pc = "lookup", poll.vault = "none", poll.id = <<"tx", d>>,
                      shown # None, shown.state = "RECEIVING"
               PROVE  "gone" \in redis'[d] /\ ~OnNode(d)'
    BY DEF VaultIsGone
  <2>1. dep[d] # None
    BY DEF PollInv, PollOfTx
  <2> QED
    BY <2>1, BackingStays DEF PollInv, VaultIsGone, DepositsGoOn
<1>9. Readings'
  BY ReadingsStay
<1> QED
  BY <1>1, <1>2, <1>3, <1>4, <1>5, <1>6, <1>7, <1>8, <1>9 DEF PollInv

-----------------------------------------------------------------------------
(* The steps of a poll.                                                    *)

\* While the rows stand still, so does what they say.
LEMMA RowsStand ==
  ASSUME LookFrame
  PROVE  /\ \A c \in Channels : /\ Channel(c)' = Channel(c) /\ HasRow(c)' = HasRow(c)
                                /\ HasBrokers(c)' = HasBrokers(c)
         /\ \A d \in Deposits : /\ IsVault(d)' = IsVault(d) /\ DepChain(d)' = DepChain(d)
                                /\ OnNode(d)' = OnNode(d) /\ Backed(d)' = Backed(d)
         /\ UNCHANGED <<opened, base, swapCh, accCh, tracking, block, earlier, dep, redis, swapRequest,
                        failedSwap>>
<1>1. UNCHANGED <<opened, base, swapCh, accCh, tracking, block, earlier, dep, redis, swapRequest, failedSwap>>
  BY DEF LookFrame, chanVars
<1>2. \A c \in Channels : RequestsOf(c)' = RequestsOf(c) /\ FailedOf(c)' = FailedOf(c) /\ Channel(c)' = Channel(c)
  BY <1>1 DEF RequestsOf, FailedOf, Channel
<1>3. \A d \in Deposits : IsVault(d)' = IsVault(d) /\ DepChain(d)' = DepChain(d)
  BY <1>1 DEF IsVault, DepChain
<1> QED
  BY <1>1, <1>2, <1>3 DEF HasRow, HasBrokers, OnNode, Backed

LEMMA ShownStands ==
  ASSUME PollInv, LookFrame, UNCHANGED shown
  PROVE  ShownOfChannel' /\ ShownOfTx' /\ ShownRoles' /\ ShownDeposit'
<1>1. ShownOfChannel'
  BY RowsStand DEF PollInv, ShownOfChannel
<1>2. ShownOfTx'
  BY RowsStand DEF PollInv, ShownOfTx
<1>3. ShownRoles'
  BY DEF PollInv, ShownRoles
<1>4. ShownDeposit'
  BY RowsStand DEF PollInv, ShownDeposit
<1> QED
  BY <1>1, <1>2, <1>3, <1>4

LEMMA PollEnds ==
  ASSUME poll' = NoPoll, shown' \in Answers, ShownOfChannel', ShownOfTx', ShownRoles', ShownDeposit'
  PROVE  PollInv'
<1>1. poll'.pc = "idle"
  BY DEF NoPoll
<1>2. PollTypes'
  BY DEF PollTypes
<1>3. PollOfChannel' /\ MempoolIsNext'
  BY <1>1 DEF PollOfChannel, MempoolIsNext
<1>4. PollOfTx' /\ VaultIsGone'
  BY <1>1 DEF PollOfTx, VaultIsGone
<1>5. Readings'
  BY <1>1 DEF Readings
<1> QED
  BY <1>2, <1>3, <1>4, <1>5 DEF PollInv

States == {"404", "WAITING", "RECEIVING", "SWAPPING", "FAILED"}
Ways == {"none", "row", "mempool", "deposit", "error"}

LEMMA ShowChannelKeeps ==
  ASSUME PollInv, NEW c \in Channels, NEW state \in States, NEW of \in Deposits \cup {None},
         NEW ref \in Deposits \cup {None}, NEW by \in Ways, NEW confs \in Nat, NEW brokers \in BOOLEAN,
         Show(<<"channel", c>>, state, of, ref, by, confs, brokers),
         state # "404" => Channel(c) # None,
         state = "404" => ~brokers,
         state = "RECEIVING" =>
           swapCh[c] # None /\ of \in Deposits /\ dep[of] # None /\ dep[of].to = c /\ by \in {"mempool", "deposit"},
         state \in {"SWAPPING", "FAILED"} => HasRow(c),
         brokers => HasBrokers(c),
         by = "deposit" => of \in Deposits /\ Backed(of),
         confs > 0 => by = "deposit" /\ confs + dep[of].height <= earlier[DepChain(of)] + 1,
         of # ref => /\ of \in Deposits /\ state = "FAILED" /\ dep[of] # None /\ DepChain(of) = "Solana"
                     /\ swapRequest[of] # None /\ ~swapRequest[of].swaps
  PROVE  PollInv'
<1>1. /\ LookFrame /\ poll' = NoPoll
      /\ shown' = [id |-> <<"channel", c>>, state |-> state, of |-> of, ref |-> ref, by |-> by,
                   confs |-> confs, brokers |-> brokers]
  BY DEF Show
<1>2. /\ shown'.id = <<"channel", c>> /\ shown'.state = state /\ shown'.of = of /\ shown'.ref = ref
      /\ shown'.by = by /\ shown'.confs = confs /\ shown'.brokers = brokers
  BY <1>1
<1>3. shown' \in Answers
  BY <1>1 DEF Answers, Ids, States, Ways
<1>4. ShownOfChannel'
  BY <1>1, <1>2, RowsStand DEF ShownOfChannel
<1>5. ShownOfTx'
  BY <1>2 DEF ShownOfTx
<1>6. ShownRoles'
  BY <1>2 DEF ShownRoles
<1>7. ShownDeposit'
  <2> SUFFICES ASSUME NEW d \in Deposits, of = d
      PROVE  /\ by = "deposit" => Backed(d)'
             /\ confs > 0 => confs + dep'[d].height <= earlier'[DepChain(d)'] + 1
             /\ ref # d =>
                  /\ dep'[d] # None /\ DepChain(d)' = "Solana"
                  /\ swapRequest'[d] # None /\ ~swapRequest'[d].swaps
    BY <1>2 DEF ShownDeposit
  <2>1. Backed(d)' = Backed(d) /\ DepChain(d)' = DepChain(d) /\ UNCHANGED <<dep, earlier, swapRequest>>
    BY <1>1, RowsStand
  <2> QED
    BY <2>1
<1> QED
  BY <1>1, <1>3, <1>4, <1>5, <1>6, <1>7, PollEnds

LEMMA ShowWaitingKeeps ==
  ASSUME PollInv, NEW c \in Channels, NEW by \in {"none", "error"}, NEW brokers \in BOOLEAN,
         Show(<<"channel", c>>, "WAITING", None, None, by, 0, brokers),
         Channel(c) # None, brokers => HasBrokers(c)
  PROVE  PollInv' /\ shown'.state = "WAITING" /\ shown'.by = by /\ shown'.brokers = brokers
<1>1. /\ "WAITING" \in States /\ by \in Ways /\ 0 \in Nat /\ None \in Deposits \cup {None}
  BY DEF States, Ways
<1>2. /\ "WAITING" # "404" /\ "WAITING" # "RECEIVING" /\ "WAITING" \notin {"SWAPPING", "FAILED"}
      /\ by # "deposit" /\ ~(0 > 0)
  OBVIOUS
<1>3. PollInv'
  BY <1>1, <1>2, ShowChannelKeeps, SMTT(30)
<1>4. shown'.state = "WAITING" /\ shown'.by = by /\ shown'.brokers = brokers
  BY DEF Show
<1> QED
  BY <1>3, <1>4

LEMMA ShowTxKeeps ==
  ASSUME PollInv, NEW t \in Deposits, NEW state \in States, NEW of \in Deposits \cup {None},
         NEW by \in Ways, NEW confs \in Nat, NEW brokers \in BOOLEAN,
         Show(<<"tx", t>>, state, of, of, by, confs, brokers),
         dep[t] # None, IsVault(t), state # "WAITING", by # "mempool",
         state = "RECEIVING" => of = t /\ by = "deposit",
         state = "SWAPPING" => swapRequest[t] # None,
         state = "FAILED" => failedSwap[t] # None,
         by = "deposit" => of \in Deposits /\ Backed(of),
         confs > 0 => by = "deposit" /\ confs + dep[of].height <= earlier[DepChain(of)] + 1
  PROVE  PollInv'
<1>1. /\ LookFrame /\ poll' = NoPoll
      /\ shown' = [id |-> <<"tx", t>>, state |-> state, of |-> of, ref |-> of, by |-> by,
                   confs |-> confs, brokers |-> brokers]
  BY DEF Show
<1>2. /\ shown'.id = <<"tx", t>> /\ shown'.state = state /\ shown'.of = of /\ shown'.ref = of
      /\ shown'.by = by /\ shown'.confs = confs /\ shown'.brokers = brokers
  BY <1>1
<1>3. shown' \in Answers
  BY <1>1 DEF Answers, Ids, States, Ways
<1>4. ShownOfChannel'
  BY <1>2 DEF ShownOfChannel
<1>5. ShownOfTx'
  BY <1>1, <1>2, RowsStand DEF ShownOfTx
<1>6. ShownRoles'
  BY <1>2 DEF ShownRoles
<1>7. ShownDeposit'
  <2> SUFFICES ASSUME NEW d \in Deposits, of = d
      PROVE  /\ by = "deposit" => Backed(d)'
             /\ confs > 0 => confs + dep'[d].height <= earlier'[DepChain(d)'] + 1
    BY <1>2 DEF ShownDeposit
  <2>1. Backed(d)' = Backed(d) /\ DepChain(d)' = DepChain(d) /\ UNCHANGED <<dep, earlier, swapRequest>>
    BY <1>1, RowsStand
  <2> QED
    BY <2>1
<1> QED
  BY <1>1, <1>3, <1>4, <1>5, <1>6, <1>7, PollEnds

\* What a client sees goes forward, but for the three exceptions of PollsGoForward.
Forward == shown # None /\ shown' # shown =>
  /\ Rank(shown'.state) < Rank(shown.state) =>
       /\ shown.state = "RECEIVING"
       /\ \/ shown'.by = "error"
          \/ shown.by = "mempool"
          \/ "deposit" \notin redis[shown.of] /\ ~(IsVault(shown.of) /\ DepChain(shown.of) \in NodeChains)
  /\ shown.by = "deposit" /\ shown'.by = "deposit" /\ shown'.of = shown.of => shown'.confs >= shown.confs
  /\ shown.brokers /\ ~shown'.brokers =>
       \/ shown'.id[1] = "tx" /\ shown'.state = "404"
       \/ shown'.id[1] = "tx" /\ shown'.state = "FAILED"

LEMMA Ranks ==
  /\ Rank("404") = 0 /\ Rank("WAITING") = 1 /\ Rank("RECEIVING") = 2
  /\ Rank("SWAPPING") = 3 /\ Rank("FAILED") = 3
  BY DEF Rank

LEMMA PollShapes ==
  ASSUME PollInv
  PROVE  /\ poll.pc \in {"deposits", "mempool"} => poll \in Asking
         /\ poll.pc = "confirm" => poll \in Confirming
         /\ poll.pc = "lookup" => poll \in LookingUp
         /\ shown # None => shown \in Answers /\ shown.state \in States
  BY DEF PollInv, PollTypes, Asking, Confirming, LookingUp, NoPoll, Answers, States

LEMMA IdShapes ==
  ASSUME PollInv
  PROVE  /\ poll.pc \in {"deposits", "mempool"} => \E c \in Channels : poll.id = <<"channel", c>>
         /\ poll.pc = "lookup" => \E d \in Deposits : poll.id = <<"tx", d>>
         /\ poll.pc = "confirm" => \/ \E c \in Channels : poll.id = <<"channel", c>>
                                   \/ \E d \in Deposits : poll.id = <<"tx", d>>
  BY PollShapes DEF Asking, Confirming, LookingUp, Ids

\* The newest request of a channel is there if there is a request.
LEMMA TheRequest ==
  ASSUME LookAssumptions, DepositInv, NEW c \in Channels, NEW req,
         LET reqs == Newest(RequestsOf(c)) IN req \in (IF reqs = {} THEN {None} ELSE reqs)
  PROVE  /\ req = None <=> RequestsOf(c) = {}
         /\ req # None => req \in Deposits /\ swapRequest[req] # None /\ dep[req] # None
<1>1. Newest(RequestsOf(c)) \subseteq RequestsOf(c) /\ (RequestsOf(c) # {} => Newest(RequestsOf(c)) # {})
  BY DEF Newest, DepositInv, NewestExists
<1>2. \A d \in RequestsOf(c) : d \in Deposits /\ d # None /\ swapRequest[d] # None /\ dep[d] # None
  BY DEF RequestsOf, LookAssumptions, NoRowAssumption, DepositInv, RowsOfDeposits
<1> QED
  BY <1>1, <1>2

LEMMA PollChannelKeeps ==
  ASSUME LookAssumptions, IInv, DepositInv, PollInv, NEW c \in Channels, PollChannel(c)
  PROVE  PollInv' /\ Forward
<1> DEFINE id == <<"channel", c>>
<1>1. shown # None => shown.id = id
  BY DEF PollChannel, May
<1>2. shown # None =>
        /\ shown.state # "404" => Channel(c) # None
        /\ shown.state = "404" => ~shown.brokers
        /\ shown.state = "RECEIVING" => swapCh[c] # None
        /\ shown.state \in {"SWAPPING", "FAILED"} => HasRow(c)
        /\ shown.brokers => HasBrokers(c)
        /\ shown.state \in States
  BY <1>1, PollShapes DEF PollInv, ShownOfChannel
<1>3. CASE Channel(c) = None
  <2>1. Show(id, "404", None, None, "none", 0, FALSE)
    BY <1>3 DEF PollChannel, ShowNotFound
  <2>2. /\ "404" \in States /\ "none" \in Ways /\ FALSE \in BOOLEAN /\ 0 \in Nat
        /\ "404" \notin {"RECEIVING", "SWAPPING", "FAILED"} /\ "none" # "deposit" /\ ~(0 > 0)
        /\ None \in Deposits \cup {None}
    BY DEF States, Ways
  <2>5. PollInv'
    BY <2>1, <2>2, ShowChannelKeeps
  <2>3. shown'.state = "404" /\ shown'.by = "none"
    BY <2>1 DEF Show
  <2>4. Forward
    BY <1>2, <1>3, <2>3, Ranks DEF Forward
  <2> QED
    BY <2>4, <2>5
<1>4. CASE Channel(c) # None
  <2>1. PICK req \in (IF Newest(RequestsOf(c)) = {} THEN {None} ELSE Newest(RequestsOf(c))) :
          LET failed == FailedShown(c, req)
          IN \/ \E f \in failed :
                  LET of == IF req = None THEN f ELSE req
                  IN \E r \in RefOf(of) :
                       Show(id, "FAILED", of, IF r = None THEN f ELSE r, "row", 0, Brokers(c, req, failed))
             \/ /\ failed = {} /\ req # None
                /\ Show(id, "SWAPPING", req, req, "row", 0, Brokers(c, req, failed))
             \/ /\ failed = {} /\ req = None /\ swapCh[c] = None
                /\ Show(id, "WAITING", None, None, "none", 0, Brokers(c, req, failed))
             \/ /\ failed = {} /\ req = None /\ swapCh[c] # None
                /\ poll' = [pc |-> "deposits", id |-> id, brokers |-> Brokers(c, req, failed)]
                /\ LookFrame /\ UNCHANGED shown
    BY <1>4 DEF PollChannel
  <2> DEFINE failed == FailedShown(c, req)
             brokers == Brokers(c, req, failed)
  <2>2. /\ req = None <=> RequestsOf(c) = {}
        /\ req # None => req \in Deposits /\ swapRequest[req] # None /\ dep[req] # None
    BY <2>1, TheRequest
  <2>3. brokers \in BOOLEAN /\ (brokers <=> HasBrokers(c))
    <3>1. Channel(c).beneficiaries \in BOOLEAN
      BY <1>4 DEF Channel, IInv, Typed, Rows
    <3>2. brokers = (req # None \/ Channel(c).beneficiaries)
      BY DEF Brokers
    <3>3. HasBrokers(c) <=> (req # None \/ Channel(c).beneficiaries)
      BY <2>2 DEF HasBrokers
    <3> HIDE DEF brokers
    <3> QED
      BY <3>1, <3>2, <3>3
  <2>4. /\ failed \subseteq FailedOf(c)
        /\ failed # {} /\ req # None => ~swapRequest[req].swaps
        /\ failed = {} /\ req = None => FailedOf(c) = {}
    BY DEF FailedShown
  <2> HIDE DEF failed, brokers
  <2>5. ASSUME NEW f \in failed, NEW r,
               LET of == IF req = None THEN f ELSE req
               IN  r \in RefOf(of) /\ Show(id, "FAILED", of, IF r = None THEN f ELSE r, "row", 0, brokers)
        PROVE  PollInv' /\ Forward
    <3> DEFINE of == IF req = None THEN f ELSE req
               ref == IF r = None THEN f ELSE r
    <3>1. f \in Deposits /\ of \in Deposits /\ of # None /\ HasRow(c)
      BY <2>2, <2>4 DEF FailedOf, HasRow, LookAssumptions, NoRowAssumption
    <3>2. r \in {None, of} /\ (r = None => DepChain(of) = "Solana")
      BY <2>5, <3>1 DEF RefOf
    <3>3. ref \in Deposits
      BY <3>1, <3>2
    <3>4. of # ref => /\ req # None /\ of = req /\ DepChain(of) = "Solana" /\ dep[of] # None
                      /\ swapRequest[of] # None /\ ~swapRequest[of].swaps
      BY <2>2, <2>4, <3>1, <3>2
    <3>5. Show(id, "FAILED", of, ref, "row", 0, brokers)
      BY <2>5
    <3> HIDE DEF of, ref
    <3>6. PollInv'
      BY <1>4, <2>3, <3>1, <3>3, <3>4, <3>5, ShowChannelKeeps DEF States, Ways
    <3>7. shown'.state = "FAILED" /\ shown'.by = "row" /\ shown'.brokers = brokers
      BY <3>5 DEF Show
    <3>8. Forward
      BY <1>2, <2>3, <3>7, Ranks DEF Forward, States
    <3> QED
      BY <3>6, <3>8
  <2>6. ASSUME req # None, Show(id, "SWAPPING", req, req, "row", 0, brokers)
        PROVE  PollInv' /\ Forward
    <3>1. HasRow(c)
      BY <2>2, <2>6 DEF HasRow
    <3>2. PollInv'
      BY <1>4, <2>2, <2>3, <2>6, <3>1, ShowChannelKeeps DEF States, Ways
    <3>3. shown'.state = "SWAPPING" /\ shown'.by = "row" /\ shown'.brokers = brokers
      BY <2>6 DEF Show
    <3>4. Forward
      BY <1>2, <2>3, <3>3, Ranks DEF Forward, States
    <3> QED
      BY <3>2, <3>4
  <2>7. ASSUME failed = {}, req = None, swapCh[c] = None, Show(id, "WAITING", None, None, "none", 0, brokers)
        PROVE  PollInv' /\ Forward
    <3>1. ~HasRow(c)
      BY <2>2, <2>4, <2>7 DEF HasRow
    <3>2. /\ "WAITING" \in States /\ "none" \in Ways /\ brokers \in BOOLEAN /\ 0 \in Nat
          /\ "WAITING" \notin {"404", "RECEIVING", "SWAPPING", "FAILED"} /\ "none" # "deposit" /\ ~(0 > 0)
          /\ None \in Deposits \cup {None}
      BY <2>3 DEF States, Ways
    <3>9. PollInv'
      BY <1>4, <2>3, <2>7, <3>2, ShowChannelKeeps
    <3>3. shown'.state = "WAITING" /\ shown'.by = "none" /\ shown'.brokers = brokers
      BY <2>7 DEF Show
    <3>4. Forward
      BY <1>2, <2>3, <2>7, <3>1, <3>3, Ranks DEF Forward, States
    <3> QED
      BY <3>9, <3>4
  <2>8. ASSUME failed = {}, req = None, swapCh[c] # None, LookFrame, UNCHANGED shown,
               poll' = [pc |-> "deposits", id |-> id, brokers |-> brokers]
        PROVE  PollInv' /\ Forward
    <3>1. ~HasRow(c)
      BY <2>2, <2>4, <2>8 DEF HasRow
    <3>2. poll'.pc = "deposits" /\ poll'.id = id /\ poll'.brokers = brokers
      BY <2>8
    <3>3. PollTypes'
      <4>1. poll' \in Asking
        BY <2>3, <2>8 DEF Asking
      <4> QED
        BY <4>1, <2>8 DEF PollTypes, PollInv
    <3>4. PollOfChannel'
      BY <1>1, <1>2, <2>3, <2>8, <3>1, <3>2, RowsStand DEF PollOfChannel
    <3>5. MempoolIsNext' /\ PollOfTx' /\ VaultIsGone'
      BY <3>2 DEF MempoolIsNext, PollOfTx, VaultIsGone
    <3>6. Readings'
      BY <3>2 DEF Readings
    <3> QED
      BY <2>8, <3>3, <3>4, <3>5, <3>6, ShownStands DEF PollInv, Forward
  <2> QED
    BY <2>1, <2>5, <2>6, <2>7, <2>8 DEF failed, brokers
<1> QED
  BY <1>3, <1>4

\* A client that waits for deposits was last shown no row of the channel.
LEMMA WaitingShown ==
  ASSUME PollInv, NEW c \in Channels, poll.pc \in {"deposits", "mempool", "confirm"},
         poll.id = <<"channel", c>>, shown # None
  PROVE  /\ shown.state \in {"404", "WAITING", "RECEIVING"} /\ shown.id = <<"channel", c>>
         /\ shown.brokers => poll.brokers
         /\ shown.state = "RECEIVING" =>
              /\ shown.of \in Deposits /\ shown.by \in {"mempool", "deposit"}
              /\ dep[shown.of] # None /\ dep[shown.of].to = c
              /\ shown.by = "deposit" => Backed(shown.of)
<1>1. /\ shown.id = poll.id /\ shown.state \notin {"SWAPPING", "FAILED"}
      /\ shown.brokers => poll.brokers
  BY DEF PollInv, PollOfChannel
<1>2. shown.state \in States
  BY PollShapes
<1>3. shown.state = "RECEIVING" => shown.of \in Deposits /\ shown.by \in {"mempool", "deposit"}
  BY DEF PollInv, ShownRoles
<1>4. shown.state = "RECEIVING" => dep[shown.of] # None /\ dep[shown.of].to = c
  BY <1>1, <1>3 DEF PollInv, ShownOfChannel
<1>5. shown.state = "RECEIVING" /\ shown.by = "deposit" => Backed(shown.of)
  BY <1>3 DEF PollInv, ShownDeposit
<1> QED
  BY <1>1, <1>2, <1>3, <1>4, <1>5 DEF States

LEMMA PollErrorKeeps ==
  ASSUME LookAssumptions, DepositInv, PollInv, PollError PROVE PollInv' /\ Forward
<1>1. poll.pc \in {"deposits", "mempool", "confirm"} /\ poll.id[1] = "channel"
  BY DEF PollError
<1>2. PICK c \in Channels : poll.id = <<"channel", c>>
  BY <1>1, IdShapes
<1>3. swapCh[c] # None /\ (poll.brokers => HasBrokers(c))
  BY <1>1, <1>2 DEF PollInv, PollOfChannel
<1>4. Channel(c) # None
  BY <1>3 DEF Channel
<1>5. Show(<<"channel", c>>, "WAITING", None, None, "error", 0, poll.brokers)
  BY <1>2 DEF PollError
<1>6. poll.brokers \in BOOLEAN
  BY <1>1, PollShapes DEF Asking, Confirming
<1>7. PollInv' /\ shown'.state = "WAITING" /\ shown'.by = "error" /\ shown'.brokers = poll.brokers
  BY <1>3, <1>4, <1>5, <1>6, ShowWaitingKeeps
<1>8. Forward
  BY <1>1, <1>2, <1>7, WaitingShown, Ranks DEF Forward
<1> QED
  BY <1>7, <1>8

\* A poll that found a deposit in a block has read nothing of the chain yet.
LEMMA FreshReadings ==
  ASSUME LookAssumptions, IInv, DepositInv, EarlierIsWitnessed, PollInv, LookFrame, UNCHANGED shown,
         NEW d \in Deposits, Backed(d),
         poll'.of = d, poll'.tracking = None, poll'.state = 0,
         \A k \in Channels : poll'.id = <<"channel", k>> => dep[d].to = k /\ poll'.failed = "none",
         \A x \in Deposits : poll'.id = <<"tx", x>> => x = d /\ poll'.brokers
  PROVE  Readings'
<1>1. dep[d] # None /\ block \in Nat
  BY DEF Backed, IInv, Typed
<1>2. DepChain(d) \in Chains
  BY <1>1, Addresses
<1>3. LastWitnessed(tracking[DepChain(d)], block) = earlier[DepChain(d)]
  BY <1>2 DEF EarlierIsWitnessed
<1>4. shown # None /\ shown.of = d /\ shown.confs > 0 =>
        shown.confs + dep[d].height <= LastWitnessed(tracking[DepChain(d)], block) + 1
  BY <1>3 DEF PollInv, ShownDeposit
<1>5. ReadT(d)' = tracking[DepChain(d)] /\ ReadB' = block
  BY RowsStand DEF ReadT, ReadB
<1>6. LastWitnessed(ReadT(d)', ReadB') = LastWitnessed(tracking[DepChain(d)], block)
  BY <1>5
<1>7. Backed(d)' /\ dep' = dep /\ block' = block
  BY RowsStand
<1> SUFFICES ASSUME NEW e \in Deposits, e = d
    PROVE  /\ Backed(e)'
           /\ \A k \in Channels : poll'.id = <<"channel", k>> => dep'[e].to = k /\ poll'.failed = "none"
           /\ \A x \in Deposits : poll'.id = <<"tx", x>> => x = e /\ poll'.brokers
           /\ poll'.tracking # None => /\ Then(poll'.tracking, tracking'[DepChain(e)'])
                                       /\ poll'.tracking.previousHeight <= poll'.tracking.height
           /\ poll'.state <= block'
           /\ shown # None /\ shown.of = e /\ shown.confs > 0 =>
                shown.confs + dep'[e].height <= LastWitnessed(ReadT(e)', ReadB') + 1
  BY DEF Readings, LastWitnessed
<1>8. poll'.state <= block'
  BY <1>1, <1>7
<1> QED
  BY <1>4, <1>6, <1>7, <1>8

\* The tracker has no deposit of the channel: one that was shown is gone.
LEMMA PollDepositsKeeps ==
  ASSUME LookAssumptions, IInv, DepositInv, EarlierIsWitnessed, PollInv, PollDeposits
  PROVE  PollInv' /\ Forward
<1>1. poll.pc = "deposits" /\ poll \in Asking /\ LookFrame /\ UNCHANGED shown
  BY PollShapes DEF PollDeposits
<1>2. PICK c \in Channels : poll.id = <<"channel", c>>
  BY <1>1, IdShapes
<1> DEFINE found == Keyed(c, "deposit")
<1>3. /\ swapCh[c] # None /\ (poll.brokers => HasBrokers(c))
      /\ shown # None => /\ shown.id = poll.id /\ shown.state \notin {"SWAPPING", "FAILED"}
                         /\ shown.brokers => poll.brokers
  BY <1>1, <1>2 DEF PollInv, PollOfChannel
<1>4. Forward
  BY <1>1 DEF Forward
<1>5. ASSUME found = {}, poll' = [poll EXCEPT !.pc = "mempool"] PROVE PollInv'
  <2>1. poll' \in Asking /\ poll'.pc = "mempool" /\ poll'.id = poll.id /\ poll'.brokers = poll.brokers
    BY <1>1, <1>5 DEF Asking
  <2>2. PollTypes'
    BY <1>1, <2>1 DEF PollInv, PollTypes
  <2>3. PollOfChannel'
    BY <1>1, <1>2, <1>3, <2>1, RowsStand DEF PollOfChannel
  <2>4. MempoolIsNext'
    <3> SUFFICES ASSUME NEW d \in Deposits, shown # None, shown.state = "RECEIVING", shown.by = "deposit",
                        shown.of = d
                 PROVE  "gone" \in redis[d]
      BY <1>1, RowsStand DEF MempoolIsNext
    <3>1. dep[d] # None /\ dep[d].to = c /\ Backed(d)
      BY <1>1, <1>2, WaitingShown
    <3>2. ~IsVault(d)
      BY <3>1, Addresses
    <3>3. "deposit" \notin redis[d]
      BY <1>5, <3>1 DEF Keyed
    <3> QED
      BY <3>1, <3>2, <3>3 DEF Backed, OnNode
  <2>5. PollOfTx' /\ VaultIsGone' /\ Readings'
    BY <2>1 DEF PollOfTx, VaultIsGone, Readings
  <2> QED
    BY <1>1, <2>2, <2>3, <2>4, <2>5, ShownStands DEF PollInv
<1>6. ASSUME NEW d \in found,
             poll' = [pc |-> "confirm", id |-> poll.id, brokers |-> poll.brokers, of |-> d,
                      failed |-> "none", tracking |-> None, state |-> 0]
      PROVE  PollInv'
  <2>1. /\ poll'.pc = "confirm" /\ poll'.id = poll.id /\ poll'.brokers = poll.brokers /\ poll'.of = d
        /\ poll'.failed = "none" /\ poll'.tracking = None /\ poll'.state = 0
    BY <1>6
  <2>2. d \in Deposits /\ dep[d] # None /\ dep[d].to = c /\ "deposit" \in redis[d]
    BY <1>6 DEF Keyed
  <2>3. Backed(d)
    BY <2>2 DEF DepositInv, TrackedOnce, Backed
  <2>4. PollTypes'
    <3>1. poll' \in Confirming
      BY <1>1, <1>2, <1>6, <2>2 DEF Asking, Confirming, Ids
    <3> QED
      BY <1>1, <3>1 DEF PollInv, PollTypes
  <2>5. PollOfChannel'
    BY <1>1, <1>2, <1>3, <2>1, RowsStand DEF PollOfChannel
  <2>6. MempoolIsNext' /\ VaultIsGone'
    BY <2>1 DEF MempoolIsNext, VaultIsGone
  <2>7. PollOfTx'
    BY <1>2, <2>1 DEF PollOfTx
  <2>8. Readings'
    <3>1. /\ \A k \in Channels : poll'.id = <<"channel", k>> => dep[d].to = k /\ poll'.failed = "none"
          /\ \A x \in Deposits : poll'.id = <<"tx", x>> => x = d /\ poll'.brokers
      BY <1>2, <2>1, <2>2
    <3> QED
      BY <1>1, <2>1, <2>2, <2>3, <3>1, FreshReadings
  <2> QED
    BY <1>1, <2>4, <2>5, <2>6, <2>7, <2>8, ShownStands DEF PollInv
<1>7. \/ found = {} /\ poll' = [poll EXCEPT !.pc = "mempool"]
      \/ \E d \in found : poll' = [pc |-> "confirm", id |-> poll.id, brokers |-> poll.brokers, of |-> d,
                                   failed |-> "none", tracking |-> None, state |-> 0]
  BY <1>2 DEF PollDeposits
<1> QED
  BY <1>4, <1>5, <1>6, <1>7

LEMMA PollMempoolKeeps ==
  ASSUME LookAssumptions, DepositInv, PollInv, PollMempool PROVE PollInv' /\ Forward
<1>1. poll.pc = "mempool" /\ poll \in Asking
  BY PollShapes DEF PollMempool
<1>2. PICK c \in Channels : poll.id = <<"channel", c>>
  BY <1>1, IdShapes
<1>3. swapCh[c] # None /\ (poll.brokers => HasBrokers(c)) /\ poll.brokers \in BOOLEAN
  BY <1>1, <1>2 DEF PollInv, PollOfChannel, Asking
<1>4. Channel(c) # None
  BY <1>3 DEF Channel
<1>5. ASSUME Show(<<"channel", c>>, "WAITING", None, None, "none", 0, poll.brokers)
      PROVE  PollInv' /\ Forward
  <2>1. PollInv' /\ shown'.state = "WAITING" /\ shown'.by = "none" /\ shown'.brokers = poll.brokers
    BY <1>3, <1>4, <1>5, ShowWaitingKeeps
  <2>2. shown # None /\ shown.state = "RECEIVING" /\ shown.by = "deposit" =>
          "deposit" \notin redis[shown.of] /\ ~IsVault(shown.of)
    <3> SUFFICES ASSUME shown # None, shown.state = "RECEIVING", shown.by = "deposit"
                 PROVE  "deposit" \notin redis[shown.of] /\ ~IsVault(shown.of)
      OBVIOUS
    <3>1. shown.of \in Deposits /\ dep[shown.of] # None /\ dep[shown.of].to = c
      BY <1>1, <1>2, WaitingShown
    <3>2. "gone" \in redis[shown.of]
      BY <1>1, <3>1 DEF PollInv, MempoolIsNext
    <3> QED
      BY <3>1, <3>2, Addresses DEF DepositInv, TrackedOnce
  <2>3. Forward
    BY <1>1, <1>2, <2>1, <2>2, WaitingShown, Ranks DEF Forward
  <2> QED
    BY <2>1, <2>3
<1>6. ASSUME NEW d \in Keyed(c, "mempool"),
             Show(<<"channel", c>>, "RECEIVING", d, d, "mempool", 0, poll.brokers)
      PROVE  PollInv' /\ Forward
  <2>1. /\ "RECEIVING" \in States /\ "mempool" \in Ways /\ 0 \in Nat
        /\ "RECEIVING" \notin {"404", "SWAPPING", "FAILED"} /\ "mempool" # "deposit" /\ ~(0 > 0)
    BY DEF States, Ways
  <2>2. d \in Deposits /\ dep[d] # None /\ dep[d].to = c
    BY <1>6 DEF Keyed
  <2>3. PollInv'
    BY <1>3, <1>4, <1>6, <2>1, <2>2, ShowChannelKeeps
  <2>4. shown'.state = "RECEIVING" /\ shown'.by = "mempool" /\ shown'.brokers = poll.brokers
    BY <1>6 DEF Show
  <2>5. Forward
    BY <1>1, <1>2, <2>4, WaitingShown, Ranks DEF Forward
  <2> QED
    BY <2>3, <2>5
<1>7. \/ Show(<<"channel", c>>, "WAITING", None, None, "none", 0, poll.brokers)
      \/ \E d \in Keyed(c, "mempool") :
           Show(<<"channel", c>>, "RECEIVING", d, d, "mempool", 0, poll.brokers)
  BY <1>2 DEF PollMempool
<1> QED
  BY <1>5, <1>6, <1>7

-----------------------------------------------------------------------------
(* What is read of the height of a chain and of the State Chain.           *)

LEMMA ReadingKeeps ==
  ASSUME LookAssumptions, IInv, DepositInv, EarlierIsWitnessed, PollInv,
         poll.pc = "confirm", LookFrame, UNCHANGED shown,
         \/ poll' = [poll EXCEPT !.tracking = ReadT(poll.of)]
         \/ poll' = [poll EXCEPT !.state = ReadB]
  PROVE  PollInv' /\ Forward
<1> DEFINE d == poll.of
           ch == DepChain(d)
           t == poll'.tracking
           b == poll'.state
<1>1. poll \in Confirming
  BY PollShapes
<1>2. /\ poll'.pc = "confirm" /\ poll'.id = poll.id /\ poll'.brokers = poll.brokers /\ poll'.of = poll.of
      /\ poll'.failed = poll.failed /\ t \in {poll.tracking, ReadT(d)} /\ b \in {poll.state, ReadB}
      /\ poll' = [poll EXCEPT !.tracking = t, !.state = b]
  BY <1>1 DEF Confirming
<1> HIDE DEF t, b
<1>3. d \in Deposits /\ poll.tracking \in Tracked \cup {None} /\ poll.state \in Nat
  BY <1>1 DEF Confirming
<1>4. /\ Backed(d)
      /\ \A c \in Channels : poll.id = <<"channel", c>> => dep[d].to = c /\ poll.failed = "none"
      /\ \A e \in Deposits : poll.id = <<"tx", e>> => e = d /\ poll.brokers
      /\ poll.tracking # None => /\ Then(poll.tracking, tracking[ch])
                                 /\ poll.tracking.previousHeight <= poll.tracking.height
      /\ poll.state <= block
      /\ shown # None /\ shown.of = d /\ shown.confs > 0 =>
           shown.confs + dep[d].height <= LastWitnessed(ReadT(d), ReadB) + 1
  BY <1>3 DEF PollInv, Readings
<1>5. ch \in Chains /\ block \in Nat /\ tracking[ch] \in Tracked
  BY <1>3, <1>4, Addresses DEF Backed, IInv, Typed
<1>6. t \in {poll.tracking, tracking[ch]} /\ t \in Tracked \cup {None}
  BY <1>2, <1>3, <1>5 DEF ReadT
<1>7. b \in {poll.state, block} /\ b \in Nat /\ b <= block
  BY <1>2, <1>3, <1>4, <1>5 DEF ReadB
<1>8. UNCHANGED <<tracking, block, dep, redis>> /\ ch' = ch /\ Backed(d)' = Backed(d)
  BY <1>2, <1>3, RowsStand
<1>9. PollTypes'
  <2>1. poll' \in Confirming
    BY <1>1, <1>2, <1>6, <1>7 DEF Confirming
  <2> QED
    BY <2>1 DEF PollInv, PollTypes
<1>10. PollOfChannel'
  BY <1>2, RowsStand DEF PollInv, PollOfChannel
<1>11. MempoolIsNext' /\ VaultIsGone'
  BY <1>2 DEF MempoolIsNext, VaultIsGone
<1>12. PollOfTx'
  BY <1>2, RowsStand DEF PollInv, PollOfTx
<1>13. Readings'
  <2>1. /\ (IF t = None THEN tracking[ch] ELSE t) = ReadT(d)
        /\ (IF b = 0 THEN block ELSE b) = ReadB
    BY <1>2 DEF ReadT, ReadB
  <2>2. t # None => Then(t, tracking[ch]) /\ t.previousHeight <= t.height
    BY <1>4, <1>5, <1>6 DEF Then, EarlierIsWitnessed
  <2> SUFFICES ASSUME NEW e \in Deposits, e = d
      PROVE  /\ Backed(e)'
             /\ \A k \in Channels : poll'.id = <<"channel", k>> => dep'[e].to = k /\ poll'.failed = "none"
             /\ \A x \in Deposits : poll'.id = <<"tx", x>> => x = e /\ poll'.brokers
             /\ poll'.tracking # None => /\ Then(poll'.tracking, tracking'[DepChain(e)'])
                                         /\ poll'.tracking.previousHeight <= poll'.tracking.height
             /\ poll'.state <= block'
             /\ shown # None /\ shown.of = e /\ shown.confs > 0 =>
                  shown.confs + dep'[e].height <= LastWitnessed(ReadT(e)', ReadB') + 1
    BY <1>2 DEF Readings, LastWitnessed
  <2>3. DepChain(e)' = ch /\ Backed(e)'
    BY <1>3, <1>4, RowsStand
  <2>4. ReadT(e)' = ReadT(d) /\ ReadB' = ReadB
    BY <1>2, <1>8, <2>1, <2>3 DEF ReadT, ReadB
  <2> QED
    BY <1>2, <1>4, <1>7, <1>8, <2>2, <2>3, <2>4
<1>14. Forward
  BY DEF Forward
<1> QED
  BY <1>9, <1>10, <1>11, <1>12, <1>13, <1>14, ShownStands DEF PollInv

LEMMA ReadTrackingKeeps ==
  ASSUME LookAssumptions, IInv, DepositInv, EarlierIsWitnessed, PollInv, ReadTracking
  PROVE  PollInv' /\ Forward
<1>1. /\ poll.pc = "confirm" /\ LookFrame /\ UNCHANGED shown
      /\ poll' = [poll EXCEPT !.tracking = ReadT(poll.of)]
  BY DEF ReadTracking, ReadT
<1> QED
  BY <1>1, ReadingKeeps

LEMMA ReadStateKeeps ==
  ASSUME LookAssumptions, IInv, DepositInv, EarlierIsWitnessed, PollInv, ReadState
  PROVE  PollInv' /\ Forward
<1>1. /\ poll.pc = "confirm" /\ LookFrame /\ UNCHANGED shown
      /\ poll' = [poll EXCEPT !.state = ReadB]
  BY DEF ReadState, ReadB
<1> QED
  BY <1>1, ReadingKeeps

-----------------------------------------------------------------------------
(* The polls of the transaction of a vault deposit.                        *)

\* A poll of a transaction looks on only while there is no request of the deposit.
LEMMA PollTxKeeps ==
  ASSUME LookAssumptions, DepositInv, PollInv, NEW d \in Deposits, PollTx(d)
  PROVE  PollInv' /\ Forward
<1>1. /\ May(<<"tx", d>>) /\ dep[d] # None /\ IsVault(d)
      /\ \/ /\ swapRequest[d] # None
            /\ Show(<<"tx", d>>, "SWAPPING", d, d, "row", 0, TRUE)
         \/ /\ swapRequest[d] = None
            /\ poll' = [pc |-> "lookup", id |-> <<"tx", d>>, failed |-> "unread", vault |-> "unread"]
            /\ LookFrame /\ UNCHANGED shown
  BY DEF PollTx
<1>2. shown # None => shown.id = <<"tx", d>> /\ shown.state \in States
  BY <1>1, PollShapes DEF May
<1>3. CASE swapRequest[d] # None
  <2>1. Show(<<"tx", d>>, "SWAPPING", d, d, "row", 0, TRUE)
    BY <1>1, <1>3
  <2>2. /\ "SWAPPING" \in States /\ "row" \in Ways /\ 0 \in Nat /\ TRUE \in BOOLEAN
        /\ "SWAPPING" \notin {"WAITING", "RECEIVING", "FAILED"} /\ "row" \notin {"mempool", "deposit"} /\ ~(0 > 0)
        /\ d \in Deposits \cup {None}
    BY DEF States, Ways
  <2>3. PollInv'
    BY <1>1, <1>3, <2>1, <2>2, ShowTxKeeps
  <2>4. shown'.state = "SWAPPING" /\ shown'.by = "row" /\ shown'.brokers = TRUE
    BY <2>1 DEF Show
  <2>5. Forward
    BY <1>2, <2>4, Ranks DEF Forward, States
  <2> QED
    BY <2>3, <2>5
<1>4. CASE swapRequest[d] = None
  <2>1. /\ poll' = [pc |-> "lookup", id |-> <<"tx", d>>, failed |-> "unread", vault |-> "unread"]
        /\ LookFrame /\ UNCHANGED shown
    BY <1>1, <1>4
  <2>2. /\ poll'.pc = "lookup" /\ poll'.id = <<"tx", d>> /\ poll'.failed = "unread" /\ poll'.vault = "unread"
        /\ poll' \in LookingUp
    BY <2>1 DEF LookingUp
  <2>3. PollTypes'
    BY <2>1, <2>2 DEF PollInv, PollTypes
  <2>4. PollOfChannel' /\ MempoolIsNext' /\ Readings' /\ VaultIsGone'
    BY <2>2 DEF PollOfChannel, MempoolIsNext, Readings, VaultIsGone
  <2>5. shown # None => shown.state # "SWAPPING"
    BY <1>2, <1>4 DEF PollInv, ShownOfTx
  <2>6. PollOfTx'
    BY <1>1, <1>2, <2>1, <2>2, <2>5, RowsStand DEF PollOfTx
  <2>7. Forward
    BY <2>1 DEF Forward
  <2> QED
    BY <2>1, <2>3, <2>4, <2>6, <2>7, ShownStands DEF PollInv
<1> QED
  BY <1>3, <1>4

\* A poll of a channel has no failed swap to read.
LEMMA ReadFailedKeeps ==
  ASSUME LookAssumptions, DepositInv, PollInv, ReadFailed
  PROVE  PollInv' /\ Forward
<1>1. /\ poll.pc \in {"lookup", "confirm"} /\ poll.failed = "unread" /\ LookFrame /\ UNCHANGED shown
      /\ poll' = [poll EXCEPT !.failed = IF failedSwap[poll.id[2]] # None THEN "found" ELSE "none"]
  BY DEF ReadFailed
<1>2. poll \in Confirming \cup LookingUp /\ (poll.pc = "confirm" => poll \in Confirming /\ poll.of \in Deposits)
      /\ (poll.pc = "lookup" => poll \in LookingUp)
  BY <1>1, PollShapes DEF Confirming
<1>3. PICK d \in Deposits : poll.id = <<"tx", d>>
  <2>1. poll.pc = "confirm" => \A c \in Channels : poll.id # <<"channel", c>>
    BY <1>1, <1>2 DEF PollInv, Readings
  <2> QED
    BY <1>1, <2>1, IdShapes
<1>4. poll' = [poll EXCEPT !.failed = IF failedSwap[d] # None THEN "found" ELSE "none"]
  BY <1>1, <1>3
<1>5. poll'.pc = poll.pc /\ poll'.id = poll.id /\ (poll'.failed = "found" <=> failedSwap[d] # None)
      /\ poll'.failed \in {"found", "none"}
  BY <1>2, <1>4 DEF Confirming, LookingUp
<1>6. PollTypes'
  <2>1. poll' \in Confirming \cup LookingUp
    BY <1>2, <1>4 DEF Confirming, LookingUp
  <2> QED
    BY <1>1, <2>1 DEF PollInv, PollTypes
<1>7. PollOfChannel' /\ MempoolIsNext'
  BY <1>1, <1>3, <1>5 DEF PollOfChannel, MempoolIsNext
<1>8. PollOfTx'
  <2>1. dep[d] # None /\ IsVault(d) /\ (shown # None => shown.id = poll.id /\ shown.state # "SWAPPING")
    BY <1>1, <1>3 DEF PollInv, PollOfTx
  <2>2. shown # None /\ shown.state = "FAILED" => failedSwap[d] # None
    BY <1>3, <2>1 DEF PollInv, ShownOfTx
  <2> QED
    BY <1>1, <1>3, <1>5, <2>1, <2>2, RowsStand DEF PollOfTx
<1>9. VaultIsGone'
  <2>1. poll.pc = "lookup" => poll'.vault = poll.vault
    BY <1>2, <1>4 DEF LookingUp
  <2> QED
    BY <1>1, <1>5, <2>1, RowsStand DEF PollInv, VaultIsGone
<1>10. Readings'
  <2> SUFFICES ASSUME poll.pc = "confirm" PROVE Readings'
    BY <1>5 DEF Readings
  <2>1. poll'.of = poll.of /\ poll'.brokers = poll.brokers /\ poll'.tracking = poll.tracking
        /\ poll'.state = poll.state
    BY <1>2, <1>4 DEF Confirming
  <2> SUFFICES ASSUME NEW e \in Deposits, e = poll.of
      PROVE  /\ Backed(e)'
             /\ \A x \in Deposits : poll'.id = <<"tx", x>> => x = e /\ poll'.brokers
             /\ poll'.tracking # None => /\ Then(poll'.tracking, tracking'[DepChain(e)'])
                                         /\ poll'.tracking.previousHeight <= poll'.tracking.height
             /\ poll'.state <= block'
             /\ shown # None /\ shown.of = e /\ shown.confs > 0 =>
                  shown.confs + dep'[e].height <= LastWitnessed(ReadT(e)', ReadB') + 1
    BY <1>1, <1>3, <1>5, <2>1 DEF Readings, LastWitnessed
  <2>2. /\ Backed(e)
        /\ \A x \in Deposits : poll.id = <<"tx", x>> => x = e /\ poll.brokers
        /\ poll.tracking # None => /\ Then(poll.tracking, tracking[DepChain(e)])
                                   /\ poll.tracking.previousHeight <= poll.tracking.height
        /\ poll.state <= block
        /\ shown # None /\ shown.of = e /\ shown.confs > 0 =>
             shown.confs + dep[e].height <= LastWitnessed(ReadT(e), ReadB) + 1
    BY DEF PollInv, Readings
  <2>3. DepChain(e)' = DepChain(e) /\ Backed(e)' = Backed(e) /\ UNCHANGED <<tracking, block, dep>>
    BY <1>1, RowsStand
  <2>4. ReadT(e)' = ReadT(e) /\ ReadB' = ReadB
    BY <2>1, <2>3 DEF ReadT, ReadB
  <2> QED
    BY <1>5, <2>1, <2>2, <2>3, <2>4
<1>11. Forward
  BY <1>1 DEF Forward
<1> QED
  BY <1>1, <1>6, <1>7, <1>8, <1>9, <1>10, <1>11, ShownStands DEF PollInv

\* A vault deposit that was shown and is not pending any more is gone.
LEMMA ReadVaultKeeps ==
  ASSUME LookAssumptions, IInv, DepositInv, EarlierIsWitnessed, PollInv, ReadVault
  PROVE  PollInv' /\ Forward
<1>1. poll.pc = "lookup" /\ poll \in LookingUp /\ LookFrame /\ UNCHANGED shown
  BY PollShapes DEF ReadVault
<1>2. PICK d \in Deposits : poll.id = <<"tx", d>>
  BY <1>1, IdShapes
<1>3. /\ dep[d] # None /\ IsVault(d)
      /\ poll.failed = "found" => failedSwap[d] # None
      /\ shown # None => /\ shown.id = poll.id /\ shown.state # "SWAPPING"
                         /\ shown.state = "FAILED" => poll.failed # "none"
  BY <1>1, <1>2 DEF PollInv, PollOfTx
<1>4. Forward
  BY <1>1 DEF Forward
<1>5. ASSUME Pending(d),
             poll' = [pc |-> "confirm", id |-> poll.id, brokers |-> TRUE, of |-> d,
                      failed |-> poll.failed, tracking |-> None, state |-> 0]
      PROVE  PollInv'
  <2>1. /\ poll'.pc = "confirm" /\ poll'.id = <<"tx", d>> /\ poll'.brokers = TRUE /\ poll'.of = d
        /\ poll'.failed = poll.failed /\ poll'.tracking = None /\ poll'.state = 0
    BY <1>2, <1>5
  <2>2. Backed(d)
    BY <1>3, <1>5 DEF Pending, DepositInv, TrackedOnce, Backed, OnNode
  <2>3. PollTypes'
    <3>1. poll' \in Confirming
      BY <1>1, <1>2, <1>5 DEF LookingUp, Confirming, Ids
    <3> QED
      BY <1>1, <3>1 DEF PollInv, PollTypes
  <2>4. PollOfChannel' /\ MempoolIsNext' /\ VaultIsGone'
    BY <2>1 DEF PollOfChannel, MempoolIsNext, VaultIsGone
  <2>5. PollOfTx'
    BY <1>1, <1>2, <1>3, <2>1, RowsStand DEF PollOfTx
  <2>6. Readings'
    <3>1. /\ \A k \in Channels : poll'.id = <<"channel", k>> => dep[d].to = k /\ poll'.failed = "none"
          /\ \A x \in Deposits : poll'.id = <<"tx", x>> => x = d /\ poll'.brokers
      BY <2>1
    <3> QED
      BY <1>1, <2>1, <2>2, <3>1, FreshReadings
  <2> QED
    BY <1>1, <2>3, <2>4, <2>5, <2>6, ShownStands DEF PollInv
<1>6. ASSUME NEW found \in {"none", "error"}, found = "none" => ~Pending(d),
             poll' = [poll EXCEPT !.vault = found]
      PROVE  PollInv'
  <2>1. /\ poll' \in LookingUp /\ poll'.pc = "lookup" /\ poll'.id = poll.id /\ poll'.failed = poll.failed
        /\ poll'.vault = found
    BY <1>1, <1>6 DEF LookingUp
  <2>2. PollTypes'
    BY <1>1, <2>1 DEF PollInv, PollTypes
  <2>3. PollOfChannel' /\ MempoolIsNext' /\ Readings'
    BY <2>1 DEF PollOfChannel, MempoolIsNext, Readings
  <2>4. PollOfTx'
    BY <1>1, <1>2, <1>3, <2>1, RowsStand DEF PollOfTx
  <2>5. VaultIsGone'
    <3> SUFFICES ASSUME found = "none", shown # None, shown.state = "RECEIVING"
                 PROVE  "gone" \in redis[d] /\ ~OnNode(d)
      BY <1>1, <1>2, <2>1, RowsStand DEF VaultIsGone
    <3>1. shown.of = d
      BY <1>2, <1>3 DEF PollInv, ShownOfTx
    <3>2. shown.by = "deposit"
      BY <1>2, <1>3 DEF PollInv, ShownRoles
    <3>3. Backed(d)
      BY <3>1, <3>2 DEF PollInv, ShownDeposit
    <3> QED
      BY <1>6, <3>3 DEF Backed, Pending, OnNode
  <2> QED
    BY <1>1, <2>2, <2>3, <2>4, <2>5, ShownStands DEF PollInv
<1>7. \/ /\ Pending(d)
         /\ poll' = [pc |-> "confirm", id |-> poll.id, brokers |-> TRUE, of |-> d,
                     failed |-> poll.failed, tracking |-> None, state |-> 0]
      \/ ~Pending(d) /\ poll' = [poll EXCEPT !.vault = "none"]
      \/ poll' = [poll EXCEPT !.vault = "error"]
  BY <1>2 DEF ReadVault
<1> QED
  BY <1>4, <1>5, <1>6, <1>7

LEMMA ShowLookupKeeps ==
  ASSUME LookAssumptions, DepositInv, PollInv, ShowLookup
  PROVE  PollInv' /\ Forward
<1>1. poll.pc = "lookup" /\ poll \in LookingUp /\ poll.failed # "unread" /\ poll.vault # "unread"
  BY PollShapes DEF ShowLookup
<1>2. PICK d \in Deposits : poll.id = <<"tx", d>>
  BY <1>1, IdShapes
<1>3. /\ dep[d] # None /\ IsVault(d)
      /\ poll.failed = "found" => failedSwap[d] # None
      /\ shown # None => /\ shown.id = poll.id /\ shown.state # "SWAPPING"
                         /\ shown.state = "FAILED" => poll.failed # "none"
  BY <1>1, <1>2 DEF PollInv, PollOfTx
<1>4. CASE poll.failed = "found"
  <2>1. Show(<<"tx", d>>, "FAILED", d, d, "row", 0, FALSE)
    <3>1. Show(poll.id, "FAILED", poll.id[2], poll.id[2], "row", 0, FALSE)
      BY <1>4 DEF ShowLookup
    <3>2. poll.id[2] = d
      BY <1>2
    <3> QED
      BY <1>2, <3>1, <3>2
  <2>2. /\ "FAILED" \in States /\ "row" \in Ways /\ 0 \in Nat /\ FALSE \in BOOLEAN
        /\ "FAILED" \notin {"WAITING", "RECEIVING", "SWAPPING"} /\ "row" \notin {"mempool", "deposit"} /\ ~(0 > 0)
        /\ d \in Deposits \cup {None}
    BY DEF States, Ways
  <2>3. PollInv'
    BY <1>3, <1>4, <2>1, <2>2, ShowTxKeeps
  <2>4. shown'.state = "FAILED" /\ shown'.by = "row" /\ shown'.id = <<"tx", d>>
    BY <2>1 DEF Show
  <2>5. Forward
    BY <2>4, PollShapes, Ranks DEF Forward, States
  <2> QED
    BY <2>3, <2>5
<1>5. CASE poll.failed # "found"
  <2> DEFINE by == IF poll.vault = "error" THEN "error" ELSE "none"
  <2>1. poll.failed = "none" /\ poll.vault \in {"none", "error"} /\ by \in {"none", "error"}
    BY <1>1, <1>5 DEF LookingUp
  <2>2. Show(<<"tx", d>>, "404", None, None, by, 0, FALSE)
    BY <1>2, <1>5 DEF ShowLookup
  <2>3. /\ "404" \in States /\ by \in Ways /\ 0 \in Nat /\ FALSE \in BOOLEAN
        /\ "404" \notin {"WAITING", "RECEIVING", "SWAPPING", "FAILED"} /\ by \notin {"mempool", "deposit"} /\ ~(0 > 0)
        /\ None \in Deposits \cup {None}
    BY <2>1 DEF States, Ways
  <2>4. shown'.state = "404" /\ shown'.by = by /\ shown'.id = <<"tx", d>>
    BY <2>2 DEF Show
  <2>5. shown # None /\ Rank("404") < Rank(shown.state) => shown.state = "RECEIVING"
    <3>1. shown # None => shown.state \in States \ {"SWAPPING", "FAILED", "WAITING"}
      BY <1>2, <1>3, <2>1, PollShapes DEF PollInv, ShownOfTx
    <3> QED
      BY <3>1, Ranks DEF States
  <2>6. shown # None /\ shown.state = "RECEIVING" /\ by # "error" =>
          "deposit" \notin redis[shown.of] /\ ~(IsVault(shown.of) /\ DepChain(shown.of) \in NodeChains)
    <3> SUFFICES ASSUME shown # None, shown.state = "RECEIVING", poll.vault = "none"
                 PROVE  "deposit" \notin redis[shown.of] /\ ~OnNode(shown.of)
      BY <2>1 DEF OnNode
    <3>1. shown.of = d
      BY <1>2, <1>3 DEF PollInv, ShownOfTx
    <3>2. "gone" \in redis[d] /\ ~OnNode(d)
      BY <1>1, <1>2 DEF PollInv, VaultIsGone
    <3> QED
      BY <3>1, <3>2 DEF DepositInv, TrackedOnce
  <2> HIDE DEF by
  <2>7. PollInv'
    BY <1>3, <2>2, <2>3, ShowTxKeeps
  <2>8. /\ shown'.by # "deposit" /\ shown'.id[1] = "tx"
        /\ Rank(shown'.state) = Rank("404")
    BY <2>3, <2>4
  <2>9. Forward
    BY <2>4, <2>5, <2>6, <2>8 DEF Forward
  <2> QED
    BY <2>7, <2>9
<1> QED
  BY <1>4, <1>5

\* The answer counts no block that the State Chain has not witnessed, and not fewer than
\* the answer before it.
LEMMA ShowPendingKeeps ==
  ASSUME LookAssumptions, IInv, DepositInv, EarlierIsWitnessed, PollInv, ShowPending
  PROVE  PollInv' /\ Forward
<1> DEFINE d == poll.of
           h == dep[d].height
           confs == Confirmations(poll.tracking, poll.state, h)
<1>1. poll.pc = "confirm" /\ poll \in Confirming /\ poll.tracking # None /\ poll.state # 0 /\ poll.failed # "unread"
  BY PollShapes DEF ShowPending
<1>2. /\ d \in Deposits /\ poll.tracking \in Tracked /\ poll.state \in Nat /\ poll.brokers \in BOOLEAN
      /\ poll.failed \in {"found", "none"} /\ d \in Deposits \cup {None}
  BY <1>1 DEF Confirming
<1>3. /\ Backed(d)
      /\ \A c \in Channels : poll.id = <<"channel", c>> => dep[d].to = c /\ poll.failed = "none"
      /\ \A e \in Deposits : poll.id = <<"tx", e>> => e = d /\ poll.brokers
      /\ Then(poll.tracking, tracking[DepChain(d)]) /\ poll.tracking.previousHeight <= poll.tracking.height
      /\ poll.state <= block
      /\ shown # None /\ shown.of = d /\ shown.confs > 0 =>
           shown.confs + h <= LastWitnessed(ReadT(d), ReadB) + 1
  BY <1>1, <1>2 DEF PollInv, Readings
<1>4. dep[d] # None /\ h \in Nat /\ h # 0 /\ DepChain(d) \in Chains
  BY <1>2, <1>3, Addresses DEF Backed
<1>5. block \in Nat /\ tracking[DepChain(d)] \in Tracked /\ earlier[DepChain(d)] \in Nat
  BY <1>4 DEF IInv, Typed
<1> DEFINE w == LastWitnessed(poll.tracking, poll.state)
<1>6. w \in Nat /\ w <= earlier[DepChain(d)]
  BY <1>2, <1>3, <1>4, <1>5, LastWitnessedGrows DEF EarlierIsWitnessed
<1>7. confs = (IF w < h THEN 0 ELSE w - h + 1)
  BY DEF Confirmations
<1>8. shown # None /\ shown.of = d /\ shown.confs > 0 => shown.confs + h <= w + 1
  BY <1>1, <1>3 DEF ReadT, ReadB
<1>9. shown # None => shown.confs \in Nat
  BY PollShapes DEF Answers
<1> HIDE DEF confs, w, h
<1>10. /\ confs \in Nat /\ (confs > 0 => confs + h <= earlier[DepChain(d)] + 1)
       /\ shown # None /\ shown.of = d => confs >= shown.confs
  BY <1>4, <1>5, <1>6, <1>7, <1>8, <1>9
<1>11. confs > 0 => confs + dep[d].height <= earlier[DepChain(d)] + 1
  BY <1>10 DEF h
<1>12. /\ "RECEIVING" \in States /\ "FAILED" \in States /\ "deposit" \in Ways
       /\ "RECEIVING" \notin {"404", "SWAPPING", "FAILED", "WAITING"}
       /\ "FAILED" \notin {"WAITING", "RECEIVING", "SWAPPING"} /\ "deposit" # "mempool"
  BY DEF States, Ways
<1>13. ASSUME NEW c \in Channels, poll.id = <<"channel", c>> PROVE PollInv' /\ Forward
  <2>1. /\ swapCh[c] # None /\ dep[d].to = c /\ poll.failed = "none"
        /\ poll.brokers => HasBrokers(c)
    BY <1>1, <1>3, <1>13 DEF PollInv, PollOfChannel
  <2>2. Channel(c) # None
    BY <2>1 DEF Channel
  <2>3. Show(<<"channel", c>>, "RECEIVING", d, d, "deposit", confs, poll.brokers)
    BY <1>13, <2>1 DEF ShowPending, confs, h
  <2>4. PollInv'
    BY <1>2, <1>3, <1>4, <1>10, <1>11, <1>12, <2>1, <2>2, <2>3, ShowChannelKeeps
  <2>5. /\ shown'.state = "RECEIVING" /\ shown'.by = "deposit" /\ shown'.of = d /\ shown'.confs = confs
        /\ shown'.brokers = poll.brokers
    BY <2>3 DEF Show
  <2>6. shown # None => /\ shown.state \in {"404", "WAITING", "RECEIVING"}
                        /\ shown.brokers => poll.brokers
    BY <1>1, <1>13, WaitingShown
  <2>7. shown # None => ~(Rank("RECEIVING") < Rank(shown.state))
    BY <2>6, Ranks
  <2>8. Forward
    BY <1>10, <2>5, <2>6, <2>7 DEF Forward
  <2> QED
    BY <2>4, <2>8
<1>14. ASSUME NEW t \in Deposits, poll.id = <<"tx", t>> PROVE PollInv' /\ Forward
  <2> DEFINE state == IF poll.failed = "found" THEN "FAILED" ELSE "RECEIVING"
  <2>1. /\ t = d /\ poll.brokers /\ IsVault(d)
        /\ poll.failed = "found" => failedSwap[d] # None
        /\ shown # None => /\ shown.id = poll.id /\ shown.state # "SWAPPING"
                           /\ shown.state = "FAILED" => poll.failed # "none"
    BY <1>1, <1>3, <1>14 DEF PollInv, PollOfTx
  <2>2. Show(<<"tx", d>>, state, d, d, "deposit", confs, poll.brokers)
    BY <1>14, <2>1 DEF ShowPending, confs, h
  <2>3. /\ state \in States /\ state # "WAITING" /\ state # "SWAPPING"
        /\ state = "FAILED" <=> poll.failed = "found"
    BY <1>12
  <2>4. shown # None => ~(Rank(state) < Rank(shown.state))
    <3>1. shown # None => shown.state \in States \ {"WAITING", "SWAPPING"}
      BY <1>14, <2>1, PollShapes DEF PollInv, ShownOfTx
    <3> QED
      BY <1>2, <2>1, <3>1, Ranks DEF States
  <2> HIDE DEF state
  <2>5. PollInv'
    <3>1. /\ d \in Deposits /\ state \in States /\ d \in Deposits \cup {None} /\ "deposit" \in Ways
          /\ confs \in Nat /\ poll.brokers \in BOOLEAN
      BY <1>2, <1>10, <1>12, <2>3
    <3>2. /\ dep[d] # None /\ IsVault(d) /\ state # "WAITING" /\ "deposit" # "mempool" /\ state # "SWAPPING"
          /\ state = "FAILED" => failedSwap[d] # None
          /\ Backed(d)
      BY <1>3, <1>4, <1>12, <2>1, <2>3
    <3> HIDE DEF d
    <3> QED
      BY <1>11, <2>2, <3>1, <3>2, ShowTxKeeps
  <2>6. /\ shown'.state = state /\ shown'.by = "deposit" /\ shown'.of = d /\ shown'.confs = confs
        /\ shown'.brokers = poll.brokers
    BY <2>2 DEF Show
  <2>7. Forward
    BY <1>10, <2>1, <2>4, <2>6 DEF Forward
  <2> QED
    BY <2>5, <2>7
<1> QED
  BY <1>1, <1>13, <1>14, IdShapes

-----------------------------------------------------------------------------
(* All steps.                                                              *)

BlockInBounds == block \in 1..MaxBlock

LEMMA PollStepKeeps ==
  ASSUME LookAssumptions, IInv, DepositInv, EarlierIsWitnessed, PollInv, PollStep
  PROVE  PollInv' /\ Forward
<1>1. ASSUME NEW d \in Deposits, PollTx(d) PROVE PollInv' /\ Forward
  BY <1>1, PollTxKeeps
<1>2. ASSUME NEW c \in Channels, PollChannel(c) PROVE PollInv' /\ Forward
  BY <1>2, PollChannelKeeps
<1>3. CASE PollDeposits
  BY <1>3, PollDepositsKeeps
<1>4. CASE PollMempool
  BY <1>4, PollMempoolKeeps
<1>5. CASE PollError
  BY <1>5, PollErrorKeeps
<1>6. CASE ReadTracking
  BY <1>6, ReadTrackingKeeps
<1>7. CASE ReadState
  BY <1>7, ReadStateKeeps
<1>8. CASE ReadFailed
  BY <1>8, ReadFailedKeeps
<1>9. CASE ReadVault
  BY <1>9, ReadVaultKeeps
<1>10. CASE ShowLookup
  BY <1>10, ShowLookupKeeps
<1>11. CASE ShowPending
  BY <1>11, ShowPendingKeeps
<1> QED
  BY <1>1, <1>2, <1>3, <1>4, <1>5, <1>6, <1>7, <1>8, <1>9, <1>10, <1>11 DEF PollStep

AllInv == IInv /\ LimitInv /\ LookInv /\ BlockInBounds

LEMMA LookAtFirst == LookAssumptions /\ Init => AllInv
<1> SUFFICES ASSUME LookAssumptions, Init PROVE AllInv
  OBVIOUS
<1>1. IInv /\ LimitInv
  BY Initially, LimitAtFirst DEF LookAssumptions, Init
<1>2. /\ dep = [d \in Deposits |-> None] /\ redis = [d \in Deposits |-> {}]
      /\ swapRequest = [d \in Deposits |-> None] /\ failedSwap = [d \in Deposits |-> None]
      /\ failedBoost = {} /\ poll.pc = "idle" /\ poll = NoPoll /\ shown = None
  BY DEF Init, LookInit, NoPoll
<1>3. DepositTypes
  BY <1>2 DEF DepositTypes
<1>4. TrackedOnce /\ RowsOfDeposits /\ BoostsOfChannels /\ RefundOnlySharesId
  BY <1>2 DEF TrackedOnce, RowsOfDeposits, BoostsOfChannels, RefundOnlySharesId
<1>5. NewestExists
  <2>1. HandledOnes = {} /\ \A c \in Channels : RequestsOf(c) = {}
    BY <1>2 DEF HandledOnes, Handled, RequestsOf
  <2> QED
    BY <1>2, <2>1, FS_EmptySet, Zenon DEF NewestExists
<1>6. EarlierIsWitnessed /\ BlockInBounds
  BY DEF Init, ChanInit, EarlierIsWitnessed, LastWitnessed, BlockInBounds, LookAssumptions, Assumptions,
     BoundsAssumption
<1>7. PollTypes
  BY <1>2 DEF PollTypes
<1>8. ShownOfChannel /\ ShownOfTx /\ ShownRoles /\ ShownDeposit
  BY <1>2 DEF ShownOfChannel, ShownOfTx, ShownRoles, ShownDeposit
<1>9. PollOfChannel /\ MempoolIsNext /\ PollOfTx /\ VaultIsGone /\ Readings
  BY <1>2 DEF PollOfChannel, MempoolIsNext, PollOfTx, VaultIsGone, Readings
<1> QED
  BY <1>1, <1>3, <1>4, <1>5, <1>6, <1>7, <1>8, <1>9 DEF AllInv, LookInv, DepositInv, PollInv

LEMMA LookKeeps ==
  ASSUME LookAssumptions, AllInv, [Next]_vars
  PROVE  AllInv' /\ Forward
<1>1. /\ IInv /\ LimitInv /\ DepositInv /\ EarlierIsWitnessed /\ PollInv /\ BlockInBounds /\ Assumptions
  BY DEF AllInv, LookInv, LookAssumptions
<1>2. IInv' /\ LimitInv'
  BY <1>1, ChannelsKeep
<1>3. ChannelsGoOn /\ TimeGoesOn
  BY <1>1, GoesOn
<1>4. /\ EarlierIsWitnessed' /\ block <= block'
      /\ \A ch \in Chains : earlier[ch] <= earlier'[ch] /\ Then(tracking[ch], tracking'[ch])
  BY <1>1, <1>3, EarlierKeeps
<1>5. DepositInv' /\ DepositsGoOn /\ (UNCHANGED <<poll, shown>> \/ PollStep)
  BY <1>1, DepositsKeep
<1>6. BlockInBounds'
  BY <1>1, <1>3 DEF BlockInBounds, TimeGoesOn, Assumptions, BoundsAssumption
<1>7. CASE UNCHANGED <<poll, shown>>
  <2>1. PollInv'
    BY <1>1, <1>2, <1>3, <1>4, <1>5, <1>7, PollStands
  <2>2. Forward
    BY <1>7 DEF Forward
  <2> QED
    BY <1>2, <1>4, <1>5, <1>6, <2>1, <2>2 DEF AllInv, LookInv
<1>8. CASE PollStep
  <2>1. PollInv' /\ Forward
    BY <1>1, <1>8, PollStepKeeps
  <2> QED
    BY <1>2, <1>4, <1>5, <1>6, <2>1 DEF AllInv, LookInv
<1> QED
  BY <1>5, <1>7, <1>8

LEMMA LookAlways == Spec => []AllInv
<1>1. LookAssumptions
  BY MaxOpenAssumption, BoundsAssumption, NoneAssumption, ChannelsAssumption, NoRowAssumption
     DEF LookAssumptions, Assumptions
<1>2. Init => AllInv
  BY <1>1, LookAtFirst
<1>3. AllInv /\ [Next]_vars => AllInv'
  BY <1>1, LookKeeps
<1> QED
  BY <1>2, <1>3, PTL DEF Spec

-----------------------------------------------------------------------------
(* What it gives.                                                          *)

\* While deposits come in, the rows of the channels stay what request, event and blocks
\* made of them, and the limit of open channels holds: a deposit that is handled moves
\* the block and no row of a channel (openSwapDepositChannel.ts:42-57,
\* swapDepositAddressReady.ts:109, processor.ts).
THEOREM ChannelsWhileDepositsCome == Spec => [](ChannelRows /\ LimitExceededOnlyByRace)
<1>1. Assumptions
  BY MaxOpenAssumption, BoundsAssumption, NoneAssumption DEF Assumptions
<1>2. AllInv => ChannelRows /\ LimitExceededOnlyByRace
  BY <1>1, LimitFollows DEF AllInv, IInv
<1> QED
  BY <1>2, LookAlways, PTL

\* The rows of a deposit are of its own channel, the refund of a failed one is of a channel
\* with its id, and a poll shows the amount and the transaction of one deposit with no
\* more confirmations than the State Chain has witnessed, at any height and for any
\* number of channels and deposits (depositFailed.ts:132-144,
\* transactionRejectedByBroker.ts:102, utils.ts:138-140 and :232-242,
\* ingress-egress-tracking index.ts:59-65).
THEOREM StatusesOfOneDeposit == Spec => []StatusOfOneDeposit
<1>1. LookAssumptions
  BY MaxOpenAssumption, BoundsAssumption, NoneAssumption, ChannelsAssumption, NoRowAssumption
     DEF LookAssumptions, Assumptions
<1>2. AllInv => StatusOfOneDeposit
  <2> SUFFICES ASSUME AllInv PROVE StatusOfOneDeposit
    OBVIOUS
  <2>1. IInv /\ DepositInv /\ PollInv /\ BlockInBounds
    BY DEF AllInv, LookInv
  <2>2. ChanTypeOK
    <3>1. \A q \in Requests : request[q] \in Asker
      BY <2>1 DEF IInv, Typed
    <3>2. \A q \in Requests : request[q].pc \in {"idle", "refused", "counted", "opened", "reading", "failed", "done"}
      BY <3>1 DEF Asker
    <3> QED
      BY <2>1, <3>2 DEF ChanTypeOK, IInv, Typed, Processed, RowsOfOpened, BlockInBounds
  <2>3. \A d \in Deposits :
          /\ dep[d] # None => dep[d].to \in Targets /\ dep[d].height \in 0..MaxHeight
          /\ redis[d] \subseteq {"mempool", "deposit", "gone"}
          /\ swapRequest[d] # None => swapRequest[d].link \in Channels \cup {None}
          /\ failedSwap[d] # None => failedSwap[d].refund \in Channels \cup {None}
    BY <2>1 DEF DepositInv, DepositTypes, DepositsMade, SwapRequests, FailedSwaps, Keys
  <2>4. poll.pc \in {"idle", "deposits", "mempool", "confirm", "lookup"}
    BY <2>1 DEF PollInv, PollTypes, NoPoll, Asking, Confirming, LookingUp
  <2>5. shown # None => shown.state \in {"404", "WAITING", "RECEIVING", "SWAPPING", "FAILED"}
    BY <2>1 DEF PollInv, PollTypes, Answers
  <2>6. TypeOK
    BY <2>2, <2>3, <2>4, <2>5 DEF TypeOK
  <2>7. LinkedToItsChannel
    BY <2>1 DEF DepositInv, RowsOfDeposits, BoostsOfChannels, LinkedToItsChannel
  <2>8. InfoOfOneDeposit
    BY <2>1 DEF PollInv, ShownRoles, ShownDeposit, InfoOfOneDeposit
  <2>9. ConfirmationsNotAhead
    <3> SUFFICES ASSUME shown # None, shown.confs > 0
                 PROVE  shown.confs + dep[shown.of].height - 1 <= earlier[DepChain(shown.of)]
      BY DEF ConfirmationsNotAhead
    <3>1. shown.by = "deposit" /\ shown.of \in Deposits /\ shown.confs \in Nat
      BY <2>1 DEF PollInv, PollTypes, ShownRoles, Answers
    <3>2. dep[shown.of] # None /\ shown.confs + dep[shown.of].height <= earlier[DepChain(shown.of)] + 1
      BY <2>1, <3>1 DEF PollInv, ShownDeposit, Backed
    <3>3. dep[shown.of].height \in Nat /\ DepChain(shown.of) \in Chains
      BY <1>1, <2>1, <3>1, <3>2, Addresses
    <3>4. earlier[DepChain(shown.of)] \in Nat
      BY <2>1, <3>3 DEF IInv, Typed
    <3> QED
      BY <3>1, <3>2, <3>3, <3>4
  <2> QED
    BY <2>1, <2>6, <2>7, <2>8, <2>9 DEF StatusOfOneDeposit, DepositInv
<1> QED
  BY <1>2, LookAlways, PTL

\* From one poll to the next an id goes back only from RECEIVING, by an error, out of the
\* mempool or when the tracker has dropped the deposit; the confirmations of a deposit never
\* go down; and the brokers are lost only with a failed vault deposit, whatever the
\* tracker and the processor do between the reads of a poll (utils.ts, getPendingDeposit,
\* getPendingVaultSwap, getDepositConfirmationCount).
THEOREM PollsOnlyGoForward == Spec => PollsGoForward
<1>1. LookAssumptions
  BY MaxOpenAssumption, BoundsAssumption, NoneAssumption, ChannelsAssumption, NoRowAssumption
     DEF LookAssumptions, Assumptions
<1>2. AllInv /\ [Next]_vars => Forward
  BY <1>1, LookKeeps
<1> DEFINE Back ==
      shown # None /\ shown' # shown /\ Rank(shown'.state) < Rank(shown.state) =>
        /\ shown.state = "RECEIVING"
        /\ \/ shown'.by = "error"
           \/ shown.by = "mempool"
           \/ /\ "deposit" \notin redis[shown.of]
              /\ ~(IsVault(shown.of) /\ DepChain(shown.of) \in NodeChains)
    Confs ==
      shown # None /\ shown' # shown /\ shown.by = "deposit" /\ shown'.by = "deposit"
      /\ shown'.of = shown.of => shown'.confs >= shown.confs
    Lost ==
      shown # None /\ shown' # shown /\ shown.brokers /\ ~shown'.brokers =>
        \/ shown'.id[1] = "tx" /\ shown'.state = "404"
        \/ shown'.id[1] = "tx" /\ shown'.state = "FAILED"
<1>3. Forward => Back /\ Confs /\ Lost
  BY DEF Forward
<1>4. AllInv /\ [Next]_vars => [Back]_vars /\ [Confs]_vars /\ [Lost]_vars
  BY <1>2, <1>3
<1>5. []AllInv /\ [][Next]_vars => [][Back]_vars /\ [][Confs]_vars /\ [][Lost]_vars
  BY <1>4, PTL
<1>6. Spec => [][Back]_vars /\ [][Confs]_vars /\ [][Lost]_vars
  BY <1>5, LookAlways, PTL DEF Spec
<1> QED
  BY <1>6 DEF PollsGoForward, BackOnlyByGap, ConfirmationsNeverGoBack, BrokersLostOnlyByFailure

=============================================================================
