------------------------- MODULE SolanaDepositsProofs -------------------------
(***************************************************************************)
(* Theorems about SolanaDeposits, for any deposits, channels and queues.   *)
(*                                                                         *)
(* What is known of the rows holds of those of the last block as well: a   *)
(* handler that throws brings them back.                                   *)
(***************************************************************************)
EXTENDS SolanaDeposits, FiniteSetTheorems, TLAPS

RowTypes == {NoRow} \cup Request \cup Failed
Have(r) == {d \in Deposits : r[d].table # "none"}

\* The rows r are numbered in the order in which they came.
Numbered(r) ==
  /\ IsFiniteSet(Have(r))
  /\ \A d \in Have(r) : r[d].index <= Cardinality(Have(r))
  /\ \A d, e \in Have(r) : r[d].index = r[e].index => d = e

Signed(r, p) == \A d \in Have(r) : r[d].signature = d \/ (r[d].signature = None /\ d \in p)

\* A refund is that of a rejected deposit, of the same swap channel if of another one.
Refunds(r) == \A d \in Deposits : r[d].table = "failed" =>
  /\ r[d].broadcast # None =>
       /\ r[d].channel \notin AccountChannels
       /\ r[r[d].broadcast].table = "failed" /\ r[r[d].broadcast].event = "rejected"
       /\ r[d].broadcast # d => r[d].channel \in SwapChannels /\ r[r[d].broadcast].channel = r[d].channel
  /\ r[d].event = "rejected" /\ r[d].channel \notin AccountChannels => r[d].broadcast # None

\* The deposit of another one fills in a request only when it has its signature.
Finalisations(r) == \A e \in Deposits : r[e].table = "request" /\ r[e].finalised \notin {None, e} =>
  /\ r[e].channel \in AccountChannels
  /\ r[r[e].finalised].table = "request" /\ r[r[e].finalised].channel = r[e].channel
  /\ r[r[e].finalised].signature # None

\* The tables of deposits r and of pending rows p.
DbOK(r, p) ==
  /\ r \in [Deposits -> RowTypes] /\ p \subseteq Have(r)
  /\ Numbered(r) /\ Signed(r, p) /\ Refunds(r) /\ Finalisations(r)

\* What a handler may do to them.
Grows(r, p, r2, p2) ==
  /\ \A d \in Have(r) :
       /\ r2[d].table = r[d].table /\ r2[d].channel = r[d].channel
       /\ r2[d].index = r[d].index /\ r2[d].signature = r[d].signature
       /\ r[d].table = "failed" => /\ r2[d].reason = r[d].reason
                                   /\ r2[d].event = "failed" => r[d].event = "failed"
  /\ p \subseteq p2 /\ Have(r2) \ Have(r) \subseteq p2

Ranks(r, S) == [d \in S |-> Cardinality({e \in S : r[e].index > r[d].index})]

\* A queue with state s knows deposits of r, the rows of the last block.
QueueOK(s, r) ==
  /\ DOMAIN s = {"at", "entry", "list"}
  /\ s.at \in {"idle", "asking", "written"} /\ s.entry \in Deposits \cup {None}
  /\ s.at = "asking" => /\ s.entry \in DOMAIN s.list /\ DOMAIN s.list \subseteq Have(r)
                        /\ s.list = Ranks(r, DOMAIN s.list)
  /\ s.at = "written" => s.entry \in Have(r) /\ r[s.entry].signature = s.entry

Base == IF open THEN begun[1] ELSE rows

SolanaInv ==
  /\ DbOK(rows, pending) /\ open \in BOOLEAN /\ halted \in BOOLEAN
  /\ open => /\ begun = <<begun[1], begun[2]>> /\ ~halted
             /\ DbOK(begun[1], begun[2]) /\ Grows(begun[1], begun[2], rows, pending)
  /\ ~open => begun = <<>>
  /\ DOMAIN worker = Workers /\ \A w \in Workers : QueueOK(worker[w], Base)
  /\ HaltedOnlyByQueue

-----------------------------------------------------------------------------

\* The table tells what a row is.
LEMMA Kinds ==
  ASSUME NEW x \in RowTypes
  PROVE  /\ x.table = "none" <=> x = NoRow
         /\ x.table = "request" <=> x \in Request
         /\ x.table = "failed" <=> x \in Failed
         /\ x.table \in {"none", "request", "failed"}
         /\ x # NoRow => /\ x.index \in Nat /\ x.signature \in Deposits \cup {None}
                         /\ x.channel \in Channels \cup {None}
         /\ x \in Request => x.finalised \in Deposits \cup {None}
         /\ x \in Failed => x.broadcast \in Deposits \cup {None}
<1>1. NoRow.table = "none"
  BY DEF NoRow
<1>2. CASE x = NoRow
  BY <1>1, <1>2 DEF Request, Failed
<1>3. CASE x \in Request
  BY <1>1, <1>3 DEF Request, Failed
<1>4. CASE x \in Failed
  BY <1>1, <1>4 DEF Request, Failed
<1> QED
  BY <1>2, <1>3, <1>4 DEF RowTypes

\* No two deposits of a list are in the same place.
LEMMA PlacesDiffer ==
  ASSUME NEW r, NEW S, IsFiniteSet(S), \A d \in S : r[d].index \in Nat,
         NEW d \in S, NEW e \in S, r[d].index < r[e].index
  PROVE  Ranks(r, S)[d] # Ranks(r, S)[e]
<1> DEFINE After(x) == {z \in S : r[z].index > r[x].index}
<1>1. After(d) \in SUBSET S /\ After(e) \in SUBSET After(d)
  BY DEF After
<1>2. e \in After(d) /\ e \notin After(e)
  BY DEF After
<1>3. IsFiniteSet(After(d))
  BY <1>1, FS_Subset
<1>4. Cardinality(After(d)) # Cardinality(After(e))
  <2> HIDE DEF After
  <2> QED
    BY <1>1, <1>2, <1>3, FS_Subset
<1> QED
  BY <1>4 DEF Ranks

\* So the place tells the deposit.
LEMMA PlaceTells ==
  ASSUME NEW r, NEW S, IsFiniteSet(S), \A x \in S : r[x].index \in Nat,
         \A x, y \in S : r[x].index = r[y].index => x = y, NEW d \in S
  PROVE  (CHOOSE e \in S : Ranks(r, S)[e] = Ranks(r, S)[d]) = d
<1>1. ASSUME NEW e \in S, Ranks(r, S)[e] = Ranks(r, S)[d] PROVE e = d
  <2>1. ~(r[d].index < r[e].index) /\ ~(r[e].index < r[d].index)
    BY <1>1, PlacesDiffer
  <2> QED
    BY <2>1
<1> QED
  BY <1>1

-----------------------------------------------------------------------------
(* What the handlers do to rows r and pending rows p.                      *)

\* The deposits of a table with the same rows, but for what a handler fills in.
LEMMA SameNumbers ==
  ASSUME NEW r, NEW q, Numbered(r), \A d \in Deposits : q[d].table = r[d].table,
         \A d \in Have(r) : q[d].index = r[d].index
  PROVE  Have(q) = Have(r) /\ Numbered(q)
<1>1. Have(q) = Have(r)
  BY DEF Have
<1> QED
  BY <1>1 DEF Numbered

LEMMA Changed ==
  ASSUME NEW r, NEW p, DbOK(r, p), NEW q, q \in [Deposits -> RowTypes], Refunds(q), Finalisations(q),
         \A d \in Deposits :
           /\ q[d].table = r[d].table
           /\ d \in Have(r) => /\ q[d].channel = r[d].channel /\ q[d].index = r[d].index
                               /\ q[d].signature = r[d].signature
           /\ r[d].table = "failed" => /\ q[d].reason = r[d].reason
                                       /\ q[d].event = "failed" => r[d].event = "failed"
  PROVE  DbOK(q, p) /\ Grows(r, p, q, p)
<1>1. Have(q) = Have(r) /\ Numbered(q) /\ Have(r) \subseteq Deposits
  BY SameNumbers DEF DbOK, Have
<1>2. Signed(q, p)
  BY <1>1 DEF DbOK, Signed
<1>3. DbOK(q, p)
  BY <1>1, <1>2 DEF DbOK
<1>4. Grows(r, p, q, p)
  BY <1>1 DEF Grows
<1> QED
  BY <1>3, <1>4

\* A new row, and its pending row.
LEMMA Added ==
  ASSUME DepositsAssumption, NEW r, NEW p, DbOK(r, p), NEW d \in Deposits, r[d] = NoRow, NEW new \in Request \cup Failed,
         new.index = Cardinality(Have(r)) + 1, new.signature = None,
         new \in Request => new.finalised = None,
         new \in Failed => new.event = "failed" /\ new.broadcast = None,
         NEW q, q = [r EXCEPT ![d] = new], NEW b, b = p \cup {d}
  PROVE  DbOK(q, b) /\ Grows(r, p, q, b)
<1>1. /\ r \in [Deposits -> RowTypes] /\ p \subseteq Have(r) /\ IsFiniteSet(Have(r))
      /\ new \in RowTypes /\ new.table \in {"request", "failed"} /\ new.table # "none"
      /\ (new.table = "request" <=> new \in Request) /\ (new.table = "failed" <=> new \in Failed)
      /\ Cardinality(Have(r)) \in Nat /\ r[d].table = "none"
  BY Kinds, FS_CardinalityType DEF DbOK, Numbered, RowTypes, NoRow, Request, Failed
<1>2. q \in [Deposits -> RowTypes] /\ q[d] = new /\ \A e \in Deposits : e # d => q[e] = r[e]
  BY <1>1
<1>3. Have(q) = Have(r) \cup {d} /\ d \notin Have(r)
  BY <1>1, <1>2 DEF Have
<1>4. IsFiniteSet(Have(q)) /\ Cardinality(Have(q)) = Cardinality(Have(r)) + 1
  <2>1. IsFiniteSet(Have(r) \cup {d}) /\ Cardinality(Have(r) \cup {d}) = Cardinality(Have(r)) + 1
    <3>1. d \notin Have(r) /\ IsFiniteSet(Have(r))
      BY <1>1, <1>3
    <3> QED
      BY <3>1, FS_AddElement
  <2> QED
    BY <1>3, <2>1, Zenon
<1>5. \A e \in Have(r) : /\ e \in Deposits /\ e # d /\ q[e] = r[e] /\ r[e].index \in Nat
                         /\ r[e].index <= Cardinality(Have(r))
  BY <1>1, <1>2, <1>3, Kinds DEF Have, DbOK, Numbered
<1>6. Numbered(q)
  <2>1. \A e \in Have(q) : q[e].index <= Cardinality(Have(q))
    <3>1. q[d].index <= Cardinality(Have(q))
      BY <1>1, <1>2, <1>4
    <3>2. ASSUME NEW e \in Have(r) PROVE q[e].index <= Cardinality(Have(q))
      BY <1>1, <1>4, <1>5
    <3> QED
      BY <1>3, <3>1, <3>2
  <2>2. ASSUME NEW e \in Have(q), NEW f \in Have(q), q[e].index = q[f].index PROVE e = f
    <3>1. CASE e \in Have(r) /\ f \in Have(r)
      BY <1>5, <2>2, <3>1 DEF DbOK, Numbered
    <3>2. CASE e = d /\ f \in Have(r)
      BY <1>1, <1>2, <1>5, <2>2, <3>2
    <3>3. CASE e \in Have(r) /\ f = d
      BY <1>1, <1>2, <1>5, <2>2, <3>3
    <3> QED
      BY <1>3, <3>1, <3>2, <3>3
  <2> QED
    BY <1>4, <2>1, <2>2 DEF Numbered
<1>7. Signed(q, b)
  BY <1>2, <1>3, <1>5 DEF DbOK, Signed
<1>8. Refunds(q)
  <2> SUFFICES ASSUME NEW e \in Deposits, q[e].table = "failed"
      PROVE  /\ q[e].broadcast # None =>
                  /\ q[e].channel \notin AccountChannels
                  /\ q[q[e].broadcast].table = "failed" /\ q[q[e].broadcast].event = "rejected"
                  /\ q[e].broadcast # e =>
                       q[e].channel \in SwapChannels /\ q[q[e].broadcast].channel = q[e].channel
             /\ q[e].event = "rejected" /\ q[e].channel \notin AccountChannels => q[e].broadcast # None
    BY DEF Refunds
  <2>1. CASE e = d
    <3>1. q[e].broadcast = None /\ q[e].event = "failed"
      BY <1>1, <1>2, <2>1
    <3> QED
      BY <3>1
  <2>2. CASE e # d
    <3>1. q[e] = r[e] /\ r[e] \in Failed
      BY <1>1, <1>2, <2>2, Kinds
    <3>2. r[e].broadcast \in Deposits \cup {None}
      BY <1>1, <3>1, Kinds
    <3>3. r[e].broadcast # None => r[e].broadcast # d /\ q[r[e].broadcast] = r[r[e].broadcast]
      BY <1>1, <1>2, <3>1, <3>2 DEF DbOK, Refunds
    <3> QED
      BY <3>1, <3>3 DEF DbOK, Refunds
  <2> QED
    BY <2>1, <2>2
<1>9. Finalisations(q)
  <2> SUFFICES ASSUME NEW e \in Deposits, q[e].table = "request", q[e].finalised \notin {None, e}
      PROVE  /\ q[e].channel \in AccountChannels
             /\ q[q[e].finalised].table = "request" /\ q[q[e].finalised].channel = q[e].channel
             /\ q[q[e].finalised].signature # None
    BY DEF Finalisations
  <2>1. e # d
    BY <1>1, <1>2
  <2>2. q[e] = r[e] /\ r[e] \in Request
    BY <1>1, <1>2, <2>1, Kinds
  <2>3. r[e].finalised \in Deposits
    BY <1>1, <2>2, Kinds
  <2>4. r[e].finalised # d /\ q[r[e].finalised] = r[r[e].finalised]
    BY <1>1, <1>2, <2>2, <2>3 DEF DbOK, Finalisations
  <2> QED
    BY <2>2, <2>4 DEF DbOK, Finalisations
<1>10. DbOK(q, b)
  BY <1>1, <1>2, <1>3, <1>6, <1>7, <1>8, <1>9 DEF DbOK
<1>11. Grows(r, p, q, b)
  BY <1>3, <1>5 DEF Grows
<1> QED
  BY <1>10, <1>11

\* A handler that changes requests only, and in what no later event depends on.
LEMMA RequestsOnly ==
  ASSUME NEW r, NEW p, DbOK(r, p), NEW q, q \in [Deposits -> RowTypes], Finalisations(q),
         \A d \in Deposits : r[d].table # "request" => q[d] = r[d],
         \A d \in Deposits : r[d].table = "request" =>
           /\ q[d].table = "request" /\ q[d].channel = r[d].channel
           /\ q[d].index = r[d].index /\ q[d].signature = r[d].signature
  PROVE  DbOK(q, p) /\ Grows(r, p, q, p)
<1>1. \A d \in Deposits :
        /\ q[d].table = r[d].table
        /\ d \in Have(r) => /\ q[d].channel = r[d].channel /\ q[d].index = r[d].index
                            /\ q[d].signature = r[d].signature
        /\ r[d].table = "failed" => q[d] = r[d]
  BY DEF Have
<1>2. Refunds(q)
  <2> SUFFICES ASSUME NEW e \in Deposits, q[e].table = "failed"
      PROVE  /\ q[e].broadcast # None =>
                  /\ q[e].channel \notin AccountChannels
                  /\ q[q[e].broadcast].table = "failed" /\ q[q[e].broadcast].event = "rejected"
                  /\ q[e].broadcast # e =>
                       q[e].channel \in SwapChannels /\ q[q[e].broadcast].channel = q[e].channel
             /\ q[e].event = "rejected" /\ q[e].channel \notin AccountChannels => q[e].broadcast # None
    BY DEF Refunds
  <2>1. q[e] = r[e] /\ r[e].table = "failed" /\ r[e] \in RowTypes
    BY <1>1 DEF DbOK
  <2>2. r[e].broadcast \in Deposits \cup {None}
    BY <2>1, Kinds
  <2>3. r[e].broadcast # None => q[r[e].broadcast] = r[r[e].broadcast]
    BY <1>1, <2>1, <2>2 DEF DbOK, Refunds
  <2> QED
    BY <2>1, <2>3 DEF DbOK, Refunds
<1> QED
  BY <1>1, <1>2, Changed

\* The deposit d fills in the request e, its own or one that waits in its place.
LEMMA FinaliseGrows ==
  ASSUME NEW r, NEW p, DbOK(r, p), NEW d \in Deposits, NEW e \in Deposits,
         r[d].table = "request", r[e].table = "request",
         e # d => /\ r[e].channel \in AccountChannels /\ r[d].channel = r[e].channel
                  /\ r[d].signature # None,
         NEW q, q = [r EXCEPT ![d] = [r[d] EXCEPT !.event = "finalised"],
                              ![e] = [r[e] EXCEPT !.finalised = d,
                                                  !.event = IF e = d THEN "finalised" ELSE r[e].event]]
  PROVE  DbOK(q, p) /\ Grows(r, p, q, p)
<1> DEFINE mine == [r[d] EXCEPT !.event = "finalised"]
           filled == [r[e] EXCEPT !.finalised = d, !.event = IF e = d THEN "finalised" ELSE r[e].event]
<1>1. r \in [Deposits -> RowTypes] /\ r[d] \in Request /\ r[e] \in Request
  BY Kinds DEF DbOK
<1>2. /\ mine \in Request /\ mine.channel = r[d].channel /\ mine.index = r[d].index
      /\ mine.signature = r[d].signature /\ mine.finalised = r[d].finalised
  BY <1>1 DEF Request
<1>3. /\ filled \in Request /\ filled.channel = r[e].channel /\ filled.index = r[e].index
      /\ filled.signature = r[e].signature /\ filled.finalised = d
  BY <1>1 DEF Request
<1>4. mine \in RowTypes /\ filled \in RowTypes /\ mine.table = "request" /\ filled.table = "request"
  BY <1>2, <1>3 DEF RowTypes, Request
<1>5. q = [r EXCEPT ![d] = mine, ![e] = filled]
  OBVIOUS
<1> HIDE DEF mine, filled
<1>6. /\ q \in [Deposits -> RowTypes] /\ q[e] = filled /\ (d # e => q[d] = mine)
      /\ \A x \in Deposits : x \notin {d, e} => q[x] = r[x]
  BY <1>1, <1>4, <1>5
<1>7. /\ \A x \in Deposits : r[x].table # "request" => q[x] = r[x]
      /\ \A x \in Deposits : r[x].table = "request" =>
           /\ q[x].table = "request" /\ q[x].channel = r[x].channel
           /\ q[x].index = r[x].index /\ q[x].signature = r[x].signature
           /\ q[x].finalised = IF x = e THEN d ELSE r[x].finalised
  <2> SUFFICES ASSUME NEW x \in Deposits
      PROVE  /\ r[x].table # "request" => q[x] = r[x]
             /\ r[x].table = "request" =>
                  /\ q[x].table = "request" /\ q[x].channel = r[x].channel
                  /\ q[x].index = r[x].index /\ q[x].signature = r[x].signature
                  /\ q[x].finalised = IF x = e THEN d ELSE r[x].finalised
    OBVIOUS
  <2>1. CASE x = e
    BY <1>3, <1>4, <1>6, <2>1
  <2>2. CASE x # e /\ x = d
    BY <1>2, <1>4, <1>6, <2>2
  <2>3. CASE x \notin {d, e}
    BY <1>6, <2>3
  <2> QED
    BY <2>1, <2>2, <2>3
<1>8. Finalisations(q)
  <2> SUFFICES ASSUME NEW x \in Deposits, q[x].table = "request", q[x].finalised \notin {None, x}
      PROVE  /\ q[x].channel \in AccountChannels
             /\ q[q[x].finalised].table = "request" /\ q[q[x].finalised].channel = q[x].channel
             /\ q[q[x].finalised].signature # None
    BY DEF Finalisations
  <2>1. r[x].table = "request"
    BY <1>7
  <2>2. CASE x = e
    BY <1>7, <2>1, <2>2
  <2>3. CASE x # e
    <3>1. q[x].finalised = r[x].finalised /\ q[x].channel = r[x].channel
      BY <1>7, <2>1, <2>3
    <3>2. r[x].finalised \in Deposits
      BY <1>1, <2>1, <3>1, Kinds
    <3>3. /\ r[x].channel \in AccountChannels
          /\ r[r[x].finalised].table = "request" /\ r[r[x].finalised].channel = r[x].channel
          /\ r[r[x].finalised].signature # None
      BY <2>1, <3>1 DEF DbOK, Finalisations
    <3> QED
      BY <1>7, <3>1, <3>2, <3>3
  <2> QED
    BY <2>2, <2>3
<1>9. \A x \in Deposits : r[x].table = "request" =>
        /\ q[x].table = "request" /\ q[x].channel = r[x].channel
        /\ q[x].index = r[x].index /\ q[x].signature = r[x].signature
  BY <1>7
<1>10. q \in [Deposits -> RowTypes] /\ \A x \in Deposits : r[x].table # "request" => q[x] = r[x]
  BY <1>6, <1>7
<1>11. DbOK(r, p)
  OBVIOUS
<1> QED
  BY ONLY <1>8, <1>9, <1>10, <1>11, RequestsOnly

\* The rejection of d, which stamps the failed swaps T.
LEMMA RejectedGrows ==
  ASSUME DepositsAssumption, NEW r, NEW p, DbOK(r, p), NEW d \in Deposits, r[d].table = "failed",
         NEW T \in SUBSET Deposits,
         \A e \in T : /\ r[e].table = "failed" /\ r[e].channel = r[d].channel
                      /\ e # d => r[e].channel \in SwapChannels
                      /\ r[e].channel \notin AccountChannels,
         r[d].channel \in AccountChannels \/ d \in T \/ r[d].broadcast # None,
         NEW q, q = [e \in Deposits |->
                       LET row == IF e \in T THEN [r[e] EXCEPT !.broadcast = d] ELSE r[e]
                       IN  IF e = d THEN [row EXCEPT !.event = "rejected"] ELSE row]
  PROVE  DbOK(q, p) /\ Grows(r, p, q, p)
<1>1. r \in [Deposits -> RowTypes] /\ None \notin Deposits
  BY DEF DbOK, DepositsAssumption
<1>2. ASSUME NEW e \in Deposits
      PROVE  /\ r[e].table # "failed" => q[e] = r[e]
             /\ r[e].table = "failed" =>
                  /\ q[e] \in Failed /\ q[e].table = "failed" /\ q[e].channel = r[e].channel
                  /\ q[e].index = r[e].index /\ q[e].signature = r[e].signature /\ q[e].reason = r[e].reason
                  /\ q[e].event = (IF e = d THEN "rejected" ELSE r[e].event)
                  /\ q[e].broadcast = (IF e \in T THEN d ELSE r[e].broadcast)
  <2> DEFINE row == IF e \in T THEN [r[e] EXCEPT !.broadcast = d] ELSE r[e]
  <2>1. q[e] = IF e = d THEN [row EXCEPT !.event = "rejected"] ELSE row
    OBVIOUS
  <2>2. CASE r[e].table # "failed"
    <3>1. e \notin T /\ e # d
      BY <2>2
    <3> QED
      BY <2>1, <2>2, <3>1
  <2>3. CASE r[e].table = "failed"
    <3>1. r[e] \in Failed
      BY <1>1, <2>3, Kinds
    <3>2. /\ row \in Failed /\ row.table = "failed" /\ row.channel = r[e].channel
          /\ row.index = r[e].index /\ row.signature = r[e].signature /\ row.reason = r[e].reason
          /\ row.event = r[e].event /\ row.broadcast = (IF e \in T THEN d ELSE r[e].broadcast)
      <4>1. CASE e \in T
        BY <3>1, <4>1 DEF Failed
      <4>2. CASE e \notin T
        BY <3>1, <4>2 DEF Failed
      <4> QED
        BY <4>1, <4>2
    <3> HIDE DEF row
    <3>3. CASE e = d
      <4>1. q[e] = [row EXCEPT !.event = "rejected"]
        BY <2>1, <3>3
      <4> QED
        BY <2>3, <3>2, <3>3, <4>1 DEF Failed
    <3>4. CASE e # d
      BY <2>1, <2>3, <3>2, <3>4
    <3> QED
      BY <3>3, <3>4
  <2> QED
    BY <2>2, <2>3
<1>3. q \in [Deposits -> RowTypes]
  <2>1. \A e \in Deposits : q[e] \in RowTypes
    BY <1>1, <1>2 DEF RowTypes
  <2> QED
    BY <2>1
<1>4. Refunds(q)
  <2> SUFFICES ASSUME NEW e \in Deposits, q[e].table = "failed"
      PROVE  /\ q[e].broadcast # None =>
                  /\ q[e].channel \notin AccountChannels
                  /\ q[q[e].broadcast].table = "failed" /\ q[q[e].broadcast].event = "rejected"
                  /\ q[e].broadcast # e =>
                       q[e].channel \in SwapChannels /\ q[q[e].broadcast].channel = q[e].channel
             /\ q[e].event = "rejected" /\ q[e].channel \notin AccountChannels => q[e].broadcast # None
    BY DEF Refunds
  <2>1. r[e].table = "failed" /\ r[e] \in RowTypes
    BY <1>1, <1>2
  <2>2. q[d].table = "failed" /\ q[d].event = "rejected" /\ q[d].channel = r[d].channel
    BY <1>2
  <2>3. CASE e \in T
    <3>1. q[e].broadcast = d /\ q[e].channel = r[d].channel /\ q[e].channel = r[e].channel
      BY <1>2, <2>1, <2>3
    <3> QED
      BY <1>1, <2>2, <2>3, <3>1
  <2>4. CASE e \notin T
    <3>1. q[e].broadcast = r[e].broadcast /\ q[e].channel = r[e].channel
      BY <1>2, <2>1, <2>4
    <3>2. ASSUME r[e].broadcast # None
          PROVE  /\ q[e].channel \notin AccountChannels
                 /\ q[q[e].broadcast].table = "failed" /\ q[q[e].broadcast].event = "rejected"
                 /\ q[e].broadcast # e =>
                      q[e].channel \in SwapChannels /\ q[q[e].broadcast].channel = q[e].channel
      <4>1. r[e].broadcast \in Deposits
        BY <2>1, <3>2, Kinds
      <4>2. /\ r[r[e].broadcast].table = "failed" /\ r[r[e].broadcast].event = "rejected"
            /\ r[e].channel \notin AccountChannels
            /\ r[e].broadcast # e =>
                 r[e].channel \in SwapChannels /\ r[r[e].broadcast].channel = r[e].channel
        BY <2>1, <3>2 DEF DbOK, Refunds
      <4>3. /\ q[r[e].broadcast].table = "failed" /\ q[r[e].broadcast].event = "rejected"
            /\ q[r[e].broadcast].channel = r[r[e].broadcast].channel
        BY <1>2, <4>1, <4>2
      <4> QED
        BY <3>1, <4>2, <4>3
    <3>3. q[e].event = "rejected" /\ q[e].channel \notin AccountChannels => q[e].broadcast # None
      <4>1. CASE e = d
        BY <2>4, <3>1, <4>1
      <4>2. CASE e # d
        <5>1. q[e].event = r[e].event
          BY <1>2, <2>1, <4>2
        <5> QED
          BY <2>1, <3>1, <5>1 DEF DbOK, Refunds
      <4> QED
        BY <4>1, <4>2
    <3> QED
      BY <3>1, <3>2, <3>3
  <2> QED
    BY <2>3, <2>4
<1>5. Finalisations(q)
  <2> SUFFICES ASSUME NEW x \in Deposits, q[x].table = "request", q[x].finalised \notin {None, x}
      PROVE  /\ q[x].channel \in AccountChannels
             /\ q[q[x].finalised].table = "request" /\ q[q[x].finalised].channel = q[x].channel
             /\ q[q[x].finalised].signature # None
    BY DEF Finalisations
  <2>1. q[x] = r[x] /\ r[x].table = "request"
    BY <1>2
  <2>2. r[x].finalised \in Deposits
    BY <1>1, <2>1, Kinds
  <2>3. /\ r[x].channel \in AccountChannels
        /\ r[r[x].finalised].table = "request" /\ r[r[x].finalised].channel = r[x].channel
        /\ r[r[x].finalised].signature # None
    BY <2>1 DEF DbOK, Finalisations
  <2>4. q[r[x].finalised] = r[r[x].finalised]
    BY <1>2, <2>2, <2>3
  <2> QED
    BY <2>1, <2>3, <2>4
<1>6. \A e \in Deposits :
        /\ q[e].table = r[e].table
        /\ e \in Have(r) => /\ q[e].channel = r[e].channel /\ q[e].index = r[e].index
                            /\ q[e].signature = r[e].signature
        /\ r[e].table = "failed" => /\ q[e].reason = r[e].reason
                                    /\ q[e].event = "failed" => r[e].event = "failed"
  <2> SUFFICES ASSUME NEW e \in Deposits
      PROVE  /\ q[e].table = r[e].table
             /\ q[e].channel = r[e].channel /\ q[e].index = r[e].index /\ q[e].signature = r[e].signature
             /\ r[e].table = "failed" => /\ q[e].reason = r[e].reason
                                         /\ q[e].event = "failed" => r[e].event = "failed"
    OBVIOUS
  <2>1. CASE r[e].table = "failed"
    BY <1>2, <2>1
  <2>2. CASE r[e].table # "failed"
    BY <1>2, <2>2
  <2> QED
    BY <2>1, <2>2
<1> QED
  BY <1>3, <1>4, <1>5, <1>6, Changed

-----------------------------------------------------------------------------
(* The handlers, one after another.                                        *)

\* The two tables of the code are the rows that there are.
LEMMA RowsThere ==
  ASSUME rows \in [Deposits -> RowTypes]
  PROVE  /\ Requests \cup FailedSwaps = Have(rows)
         /\ NextIndex = Cardinality(Have(rows)) + 1
<1>1. Requests \cup FailedSwaps = Have(rows)
  BY Kinds DEF Requests, FailedSwaps, Have
<1> QED
  BY <1>1 DEF NextIndex

Grown == DbOK(rows', pending') /\ Grows(rows, pending, rows', pending')

LEMMA RequestedGrows ==
  ASSUME DepositsAssumption, SolanaInv, NEW d \in Deposits, NEW c \in Channels \cup {None}, SwapRequested(d, c)
  PROVE  Grown
<1> DEFINE new == [table |-> "request", event |-> "requested", channel |-> c,
                   index |-> NextIndex, signature |-> None, finalised |-> None]
<1>1. rows[d] = NoRow /\ rows' = [rows EXCEPT ![d] = new] /\ pending' = pending \cup {d}
  BY DEF SwapRequested
<1>2. DbOK(rows, pending) /\ NextIndex = Cardinality(Have(rows)) + 1 /\ Cardinality(Have(rows)) \in Nat
  BY RowsThere, FS_CardinalityType DEF SolanaInv, DbOK, Numbered
<1>3. /\ new \in Request /\ new \notin Failed /\ new.index = Cardinality(Have(rows)) + 1
      /\ new.signature = None /\ new.finalised = None
  BY <1>2 DEF Request, Failed
<1> HIDE DEF new
<1> QED
  BY <1>1, <1>2, <1>3, Added DEF Grown

LEMMA FailedGrows ==
  ASSUME DepositsAssumption, SolanaInv, NEW d \in Deposits, NEW c \in Channels \cup {None},
         NEW reason \in {"Rejected", "Other"}, AddFailedSwap(d, c, reason)
  PROVE  Grown
<1> DEFINE new == [table |-> "failed", event |-> "failed", channel |-> c,
                   index |-> NextIndex, signature |-> None, reason |-> reason, broadcast |-> None]
<1>1. rows[d] = NoRow /\ rows' = [rows EXCEPT ![d] = new] /\ pending' = pending \cup {d}
  BY DEF AddFailedSwap
<1>2. DbOK(rows, pending) /\ NextIndex = Cardinality(Have(rows)) + 1 /\ Cardinality(Have(rows)) \in Nat
  BY RowsThere, FS_CardinalityType DEF SolanaInv, DbOK, Numbered
<1>3. /\ new \in Failed /\ new \notin Request /\ new.index = Cardinality(Have(rows)) + 1
      /\ new.signature = None /\ new.event = "failed" /\ new.broadcast = None
  BY <1>2 DEF Request, Failed
<1> HIDE DEF new
<1> QED
  BY <1>1, <1>2, <1>3, Added DEF Grown

LEMMA SwapFinalisedGrows ==
  ASSUME SolanaInv, NEW d \in Deposits, SwapFinalised(d) PROVE Grown
<1>1. rows[d].table = "request" /\ Finalise(d, d) /\ pending' = pending /\ DbOK(rows, pending)
  BY DEF SwapFinalised, SolanaInv
<1>2. rows' = [rows EXCEPT ![d] = [rows[d] EXCEPT !.event = "finalised"],
                           ![d] = [rows[d] EXCEPT !.finalised = d,
                                                  !.event = IF d = d THEN "finalised" ELSE rows[d].event]]
  BY <1>1 DEF Finalise
<1> QED
  BY <1>1, <1>2, FinaliseGrows DEF Grown

\* The one request that waits is d, or d has its signature.
LEMMA LiquidityGrows ==
  ASSUME SolanaInv, NEW d \in Deposits, LiquidityProvisionFinalised(d) PROVE Grown
<1> DEFINE waiting == Unfinalised(rows[d].channel)
<1>1. /\ rows[d].table = "request" /\ rows[d].channel \in AccountChannels /\ pending' = pending
      /\ DbOK(rows, pending)
  BY DEF LiquidityProvisionFinalised, SolanaInv
<1>2. waiting = {e \in Deposits : /\ rows[e].table = "request" /\ rows[e].channel = rows[d].channel
                                  /\ rows[e].signature = None}
  BY DEF Unfinalised, OnChannel, Requests, FailedSwaps
<1>3. CASE Cardinality(waiting) = 1
  <2>1. PICK e \in waiting : Finalise(d, e)
    BY <1>3 DEF LiquidityProvisionFinalised
  <2>2. rows[e].table = "request" /\ rows[e].channel = rows[d].channel /\ rows[e].signature = None /\ e \in Deposits
    BY <1>2, <2>1
  <2>3. e # d => rows[d].signature # None
    <3>1. waiting \in SUBSET Have(rows) /\ IsFiniteSet(Have(rows))
      BY <1>1, <1>2 DEF Have, DbOK, Numbered
    <3>2. IsFiniteSet(waiting)
      BY <3>1, FS_Subset
    <3>3. \E x : waiting = {x}
      <4> HIDE DEF waiting
      <4> QED
        BY <1>3, <3>2, FS_Singleton
    <3>4. e # d => d \notin waiting
      BY <2>1, <3>3
    <3> QED
      BY <1>1, <1>2, <3>4
  <2>4. rows' = [rows EXCEPT ![d] = [rows[d] EXCEPT !.event = "finalised"],
                             ![e] = [rows[e] EXCEPT !.finalised = d,
                                                    !.event = IF e = d THEN "finalised" ELSE rows[e].event]]
    BY <2>1 DEF Finalise
  <2> HIDE DEF waiting
  <2> QED
    BY <1>1, <2>2, <2>3, <2>4, FinaliseGrows DEF Grown
<1>4. CASE Cardinality(waiting) # 1
  <2> DEFINE mine == [rows[d] EXCEPT !.event = "finalised"]
  <2>1. rows' = [rows EXCEPT ![d] = mine]
    BY <1>4 DEF LiquidityProvisionFinalised
  <2>2. rows \in [Deposits -> RowTypes] /\ rows[d] \in Request
    BY <1>1, Kinds DEF DbOK
  <2>3. /\ mine \in Request /\ mine.table = "request" /\ mine.channel = rows[d].channel
        /\ mine.index = rows[d].index /\ mine.signature = rows[d].signature /\ mine.finalised = rows[d].finalised
    BY <2>2 DEF Request
  <2> HIDE DEF mine
  <2>4. /\ rows' \in [Deposits -> RowTypes] /\ rows'[d] = mine
        /\ \A x \in Deposits : x # d => rows'[x] = rows[x]
    BY <2>1, <2>2, <2>3 DEF RowTypes
  <2>5. \A x \in Deposits : rows[x].table # "request" => rows'[x] = rows[x]
    BY <1>1, <2>4
  <2>6. \A x \in Deposits : rows[x].table = "request" =>
          /\ rows'[x].table = "request" /\ rows'[x].channel = rows[x].channel
          /\ rows'[x].index = rows[x].index /\ rows'[x].signature = rows[x].signature
    BY <2>3, <2>4
  <2>7. Finalisations(rows')
    <3> SUFFICES ASSUME NEW x \in Deposits, rows'[x].table = "request", rows'[x].finalised \notin {None, x}
        PROVE  /\ rows'[x].channel \in AccountChannels
               /\ rows'[rows'[x].finalised].table = "request"
               /\ rows'[rows'[x].finalised].channel = rows'[x].channel
               /\ rows'[rows'[x].finalised].signature # None
      BY DEF Finalisations
    <3>1. /\ rows[x].table = "request" /\ rows'[x].finalised = rows[x].finalised
          /\ rows'[x].channel = rows[x].channel
      BY <1>1, <2>3, <2>4
    <3>2. rows[x].finalised \in Deposits
      BY <2>2, <3>1, Kinds
    <3>3. /\ rows[x].channel \in AccountChannels
          /\ rows[rows[x].finalised].table = "request" /\ rows[rows[x].finalised].channel = rows[x].channel
          /\ rows[rows[x].finalised].signature # None
      BY <1>1, <3>1 DEF DbOK, Finalisations
    <3> QED
      BY <2>6, <3>1, <3>2, <3>3
  <2> QED
    BY <1>1, <2>4, <2>5, <2>6, <2>7, RequestsOnly DEF Grown
<1> QED
  BY <1>3, <1>4

LEMMA RejectionGrows ==
  ASSUME DepositsAssumption, SolanaInv, NEW d \in Deposits, TransactionRejected(d) PROVE Grown
<1>1. rows[d].table = "failed" /\ pending' = pending /\ DbOK(rows, pending) /\ rows[d] \in RowTypes
  BY DEF TransactionRejected, Rejectable, SolanaInv, DbOK
<1>2. rows' = [e \in Deposits |->
                 LET row == IF e \in Stamped(d) THEN [rows[e] EXCEPT !.broadcast = d] ELSE rows[e]
                 IN  IF e = d THEN [row EXCEPT !.event = "rejected"] ELSE row]
  BY DEF TransactionRejected
<1>3. rows[d].channel \in Channels \cup {None} /\ None \notin Channels /\ SwapChannels \cap AccountChannels = {}
  BY <1>1, Kinds DEF DepositsAssumption, Channels, NoRow
<1>4. /\ Stamped(d) \in SUBSET Deposits
      /\ \A e \in Stamped(d) : /\ rows[e].table = "failed" /\ rows[e].channel = rows[d].channel
                               /\ e # d => rows[e].channel \in SwapChannels
                               /\ rows[e].channel \notin AccountChannels
      /\ rows[d].channel \in AccountChannels \/ d \in Stamped(d) \/ rows[d].broadcast # None
  <2>1. CASE rows[d].channel = None
    <3>1. Stamped(d) = {d}
      BY <2>1 DEF Stamped
    <3> QED
      BY <1>1, <1>3, <2>1, <3>1 DEF Channels
  <2>2. CASE rows[d].channel # None
    <3>1. Stamped(d) = {e \in Deposits : /\ rows[e].table = "failed" /\ rows[e].channel = rows[d].channel
                                         /\ rows[d].channel \in SwapChannels /\ rows[e].broadcast = None}
      BY <2>2 DEF Stamped, OnChannel, FailedSwaps, Requests
    <3> QED
      BY <1>1, <1>3, <2>2, <3>1 DEF Channels
  <2> QED
    BY <2>1, <2>2
<1> QED
  BY <1>1, <1>2, <1>4, RejectedGrows DEF Grown

-----------------------------------------------------------------------------
(* A block, from its first event to its last or to one that throws.        *)

LEMMA GrowsOn ==
  ASSUME NEW r, NEW p, NEW q, NEW b, NEW z, NEW c, Grows(r, p, q, b), Grows(q, b, z, c)
  PROVE  Grows(r, p, z, c)
<1>1. \A d \in Have(r) : d \in Have(q)
  BY DEF Grows, Have
<1> QED
  BY <1>1 DEF Grows

\* A queue still knows the deposits that it asks for.
LEMMA QueueGrows ==
  ASSUME NEW s, NEW r, NEW p, NEW q, NEW b, Grows(r, p, q, b), QueueOK(s, r)
  PROVE  QueueOK(s, q)
<1>1. \A d \in Have(r) : d \in Have(q) /\ q[d].index = r[d].index /\ q[d].signature = r[d].signature
  BY DEF Grows, Have
<1>2. ASSUME NEW S \in SUBSET Have(r) PROVE Ranks(q, S) = Ranks(r, S)
  <2>1. \A d \in S : {e \in S : q[e].index > q[d].index} = {e \in S : r[e].index > r[d].index}
    BY <1>1
  <2> QED
    BY <2>1 DEF Ranks
<1>3. s.at = "asking" => /\ s.entry \in DOMAIN s.list /\ DOMAIN s.list \subseteq Have(q)
                         /\ s.list = Ranks(q, DOMAIN s.list)
  BY <1>1, <1>2 DEF QueueOK
<1>4. s.at = "written" => s.entry \in Have(q) /\ q[s.entry].signature = s.entry
  BY <1>1 DEF QueueOK
<1> QED
  BY <1>3, <1>4 DEF QueueOK

BasePending == IF open THEN begun[2] ELSE pending

\* What has happened since the end of the last block.
LEMMA SinceBase ==
  ASSUME SolanaInv
  PROVE  /\ DbOK(Base, BasePending) /\ Grows(Base, BasePending, rows, pending)
         /\ \A w \in Workers : QueueOK(worker[w], Base) /\ QueueOK(worker[w], rows)
<1>1. DbOK(Base, BasePending)
  BY DEF SolanaInv, Base, BasePending
<1>2. Grows(Base, BasePending, rows, pending)
  <2>1. CASE open
    BY <2>1 DEF SolanaInv, Base, BasePending
  <2>2. CASE ~open
    <3>1. Grows(rows, pending, rows, pending)
      BY DEF Grows
    <3> QED
      BY <2>2, <3>1 DEF Base, BasePending
  <2> QED
    BY <2>1, <2>2
<1>3. ASSUME NEW w \in Workers PROVE QueueOK(worker[w], Base) /\ QueueOK(worker[w], rows)
  <2>1. QueueOK(worker[w], Base)
    BY DEF SolanaInv
  <2> QED
    BY <1>2, <2>1, QueueGrows
<1> QED
  BY <1>1, <1>2, <1>3

LEMMA HandlesKeeps ==
  ASSUME SolanaInv, Handles, Grown PROVE SolanaInv'
<1>1. /\ ~halted' /\ open' \in BOOLEAN /\ worker' = worker /\ DOMAIN worker = Workers
      /\ open \in BOOLEAN /\ halted' \in BOOLEAN
  BY DEF Handles, SolanaInv
<1>2. DbOK(rows', pending') /\ Grows(rows, pending, rows', pending')
  BY DEF Grown
<1>3. HaltedOnlyByQueue'
  BY <1>1 DEF HaltedOnlyByQueue
<1>4. Grows(Base, BasePending, rows', pending')
  BY <1>2, SinceBase, GrowsOn
<1>5. CASE open'
  <2>1. begun' = <<Base, BasePending>>
    <3>1. CASE open
      <4>1. begun' = begun /\ begun = <<begun[1], begun[2]>>
        BY <1>5, <3>1 DEF Handles, SolanaInv
      <4> QED
        BY <3>1, <4>1 DEF Base, BasePending
    <3>2. CASE ~open
      BY <1>5, <3>2 DEF Handles, Base, BasePending, db
    <3> QED
      BY <3>1, <3>2
  <2>2. begun'[1] = Base /\ begun'[2] = BasePending /\ begun' = <<begun'[1], begun'[2]>>
    BY <2>1
  <2>3. Base' = Base
    BY <1>5, <2>2 DEF Base
  <2>4. DbOK(begun'[1], begun'[2]) /\ Grows(begun'[1], begun'[2], rows', pending')
    BY <1>4, <2>2, SinceBase
  <2>5. \A w \in Workers : QueueOK(worker'[w], Base')
    BY <1>1, <2>3, SinceBase
  <2> QED
    BY <1>1, <1>2, <1>3, <1>5, <2>2, <2>4, <2>5 DEF SolanaInv
<1>6. CASE ~open'
  <2>1. begun' = <<>> /\ Base' = rows'
    BY <1>6 DEF Handles, Base
  <2>2. \A w \in Workers : QueueOK(worker'[w], Base')
    BY <1>1, <1>4, <2>1, SinceBase, QueueGrows
  <2> QED
    BY <1>1, <1>2, <1>3, <1>6, <2>1, <2>2 DEF SolanaInv
<1> QED
  BY <1>5, <1>6

LEMMA EndBlockKeeps ==
  ASSUME SolanaInv, EndBlock PROVE SolanaInv'
<1>1. /\ open /\ ~open' /\ open' \in BOOLEAN /\ begun' = <<>> /\ rows' = rows /\ pending' = pending
      /\ halted' = halted /\ worker' = worker /\ Base' = rows
  BY DEF EndBlock, Base
<1>2. ~halted /\ DbOK(rows, pending) /\ DOMAIN worker = Workers
  BY <1>1 DEF SolanaInv
<1>3. HaltedOnlyByQueue'
  BY <1>1, <1>2 DEF HaltedOnlyByQueue
<1>4. \A w \in Workers : QueueOK(worker'[w], Base')
  BY <1>1, SinceBase
<1>5. DbOK(rows', pending')
  BY <1>1, <1>2
<1>6. halted' \in BOOLEAN
  BY <1>1 DEF SolanaInv
<1> QED
  BY <1>1, <1>2, <1>3, <1>4, <1>5, <1>6 DEF SolanaInv

\* The vault deposit without a pending row came before this block and has its signature.
LEMMA ThrowsKeeps ==
  ASSUME SolanaInv, NEW d \in Deposits, TransactionRejectedThrows(d) PROVE SolanaInv'
<1>1. /\ ~open' /\ open' \in BOOLEAN /\ halted' \in BOOLEAN /\ begun' = <<>> /\ worker' = worker
      /\ rows' = Base /\ pending' = BasePending /\ Base' = Base
  BY DEF TransactionRejectedThrows, Base, BasePending
<1>2. DbOK(Base, BasePending) /\ Grows(Base, BasePending, rows, pending)
  BY SinceBase
<1>3. /\ rows[d].table = "failed" /\ rows[d].event = "failed" /\ rows[d].reason = "Rejected"
      /\ rows[d].channel = None /\ d \notin pending /\ d \in Have(rows)
  BY DEF TransactionRejectedThrows, Rejectable, Have
<1>4. d \in Have(Base) /\ d \notin BasePending
  BY <1>2, <1>3 DEF Grows
<1>5. /\ Base[d].table = "failed" /\ Base[d].event = "failed" /\ Base[d].reason = "Rejected"
      /\ Base[d].channel = None
  BY <1>2, <1>3, <1>4 DEF Grows
<1>6. Base[d].signature = d
  BY <1>2, <1>4 DEF DbOK, Signed
<1>7. HaltedOnlyByQueue'
  BY <1>1, <1>4, <1>5, <1>6 DEF HaltedOnlyByQueue, FailedSwaps, Rejectable
<1>8. DbOK(rows', pending') /\ DOMAIN worker' = Workers
  BY <1>1, <1>2 DEF SolanaInv
<1>9. \A w \in Workers : QueueOK(worker'[w], Base')
  BY <1>1, SinceBase
<1> QED
  BY <1>1, <1>7, <1>8, <1>9 DEF SolanaInv

-----------------------------------------------------------------------------
(* The queue, between two blocks.                                          *)

LEMMA InitHolds == Init => SolanaInv
<1> SUFFICES ASSUME Init PROVE SolanaInv
  OBVIOUS
<1>1. \A d \in Deposits : rows[d] = NoRow /\ rows[d].table = "none"
  BY DEF Init, NoRow
<1>2. Have(rows) = {} /\ pending = {} /\ rows \in [Deposits -> RowTypes]
  BY <1>1 DEF Init, Have, RowTypes
<1>3. Numbered(rows) /\ Signed(rows, pending)
  <2>1. IsFiniteSet({})
    BY FS_EmptySet
  <2> QED
    BY <1>2, <2>1 DEF Numbered, Signed
<1>4. Refunds(rows) /\ Finalisations(rows)
  BY <1>1 DEF Refunds, Finalisations
<1>5. DbOK(rows, pending)
  BY <1>2, <1>3, <1>4 DEF DbOK
<1>6. ~open /\ ~halted /\ begun = <<>> /\ open \in BOOLEAN /\ halted \in BOOLEAN
  BY DEF Init
<1>7. DOMAIN worker = Workers /\ \A w \in Workers : QueueOK(worker[w], Base)
  BY DEF Init, QueueOK, Idle
<1>8. HaltedOnlyByQueue
  BY <1>6 DEF HaltedOnlyByQueue
<1> QED
  BY <1>5, <1>6, <1>7, <1>8 DEF SolanaInv

\* A move of one queue to state s, with the tables r of deposits and p of pending rows.
LEMMA QueueMoves ==
  ASSUME SolanaInv, NEW w \in Workers, NEW s, MovesTo(w, s), QueueOK(s, rows'),
         DbOK(rows', pending'),
         \A x \in Workers : QueueOK(worker[x], rows) => QueueOK(worker[x], rows'),
         HaltedOnlyByQueue'
  PROVE  SolanaInv'
<1>1. /\ ~open /\ ~open' /\ begun' = begun /\ begun = <<>> /\ halted' = halted /\ open' \in BOOLEAN
      /\ halted \in BOOLEAN /\ worker' = [worker EXCEPT ![w] = s] /\ DOMAIN worker = Workers /\ Base' = rows'
  BY DEF MovesTo, SolanaInv, Base
<1>2. DOMAIN worker' = Workers /\ worker'[w] = s /\ \A x \in Workers : x # w => worker'[x] = worker[x]
  BY <1>1
<1>3. ASSUME NEW x \in Workers PROVE QueueOK(worker'[x], Base')
  <2>1. QueueOK(worker[x], rows)
    BY SinceBase
  <2>2. CASE x = w
    BY <1>1, <1>2, <2>2
  <2>3. CASE x # w
    BY <1>1, <1>2, <2>1, <2>3
  <2> QED
    BY <2>2, <2>3
<1> QED
  BY <1>1, <1>2, <1>3 DEF SolanaInv

\* Tables that a queue leaves alone, but for pending rows.
LEMMA StillHalted ==
  ASSUME SolanaInv, halted' = halted, rows' = rows, pending' \subseteq pending PROVE HaltedOnlyByQueue'
<1>1. HaltedOnlyByQueue
  BY DEF SolanaInv
<1> QED
  BY <1>1 DEF HaltedOnlyByQueue, FailedSwaps, Rejectable

LEMMA PickKeeps ==
  ASSUME SolanaInv, NEW w \in Workers, Pick(w) PROVE SolanaInv'
<1>1. PICK d \in pending : MovesTo(w, [at |-> "asking", entry |-> d, list |-> AskedFor(d)])
  BY DEF Pick
<1> DEFINE s == [at |-> "asking", entry |-> d, list |-> AskedFor(d)]
<1>2. rows' = rows /\ pending' = pending /\ halted' = halted /\ DbOK(rows, pending)
  BY <1>1 DEF Pick, db, MovesTo, SolanaInv
<1>3. Requests \cup FailedSwaps = Have(rows) /\ d \in Have(rows) /\ Have(rows) \subseteq Deposits
  BY <1>2, RowsThere DEF DbOK, Have
<1>4. PICK S \in SUBSET Have(rows) : d \in S /\ AskedFor(d) = Ranks(rows, S)
  <2>1. CASE rows[d].channel = None
    <3>1. AskedFor(d) = Ranks(rows, {d})
      BY <2>1 DEF AskedFor, NewestFirst, Ranks
    <3> QED
      BY <1>3, <3>1
  <2>2. CASE rows[d].channel # None
    <3>1. AskedFor(d) = Ranks(rows, OnChannel(rows[d].channel))
      BY <2>2 DEF AskedFor, NewestFirst, Ranks
    <3>2. OnChannel(rows[d].channel) \in SUBSET Have(rows) /\ d \in OnChannel(rows[d].channel)
      BY <1>3 DEF OnChannel
    <3> QED
      BY <3>1, <3>2
  <2> QED
    BY <2>1, <2>2
<1>5. DOMAIN AskedFor(d) = S
  BY <1>4 DEF Ranks
<1>6. DOMAIN s = {"at", "entry", "list"} /\ s.at = "asking" /\ s.entry = d /\ s.list = AskedFor(d)
  OBVIOUS
<1> HIDE DEF s
<1>7. QueueOK(s, rows')
  BY <1>2, <1>3, <1>4, <1>5, <1>6 DEF QueueOK
<1>8. MovesTo(w, s)
  BY <1>1 DEF s
<1> QED
  BY <1>2, <1>7, <1>8, StillHalted, QueueMoves

LEMMA GiveUpKeeps ==
  ASSUME SolanaInv, NEW w \in Workers, GiveUp(w) PROVE SolanaInv'
<1>1. MovesTo(w, Idle) /\ rows' = rows /\ pending' = pending /\ halted' = halted /\ DbOK(rows, pending)
  BY DEF GiveUp, db, MovesTo, SolanaInv
<1>2. QueueOK(Idle, rows')
  BY DEF QueueOK, Idle
<1> QED
  BY <1>1, <1>2, StillHalted, QueueMoves

\* The pending row of a deposit goes after its signature has been written.
LEMMA DeleteKeeps ==
  ASSUME SolanaInv, NEW w \in Workers, Delete(w) PROVE SolanaInv'
<1>1. /\ MovesTo(w, Idle) /\ rows' = rows /\ pending' = pending \ {worker[w].entry} /\ halted' = halted
      /\ DbOK(rows, pending) /\ worker[w].at = "written"
  BY DEF Delete, MovesTo, SolanaInv
<1>2. QueueOK(Idle, rows')
  BY DEF QueueOK, Idle
<1>3. rows[worker[w].entry].signature = worker[w].entry
  BY <1>1, SinceBase DEF QueueOK
<1>4. Signed(rows, pending')
  BY <1>1, <1>3 DEF DbOK, Signed
<1>5. DbOK(rows', pending')
  BY <1>1, <1>4 DEF DbOK
<1> QED
  BY <1>1, <1>2, <1>5, StillHalted, QueueMoves

\* The state of a queue that has written signatures.
LEMMA Wrote ==
  ASSUME NEW s, DOMAIN s = {"at", "entry", "list"}, NEW n, n = [s EXCEPT !.at = "written", !.list = <<>>]
  PROVE  DOMAIN n = {"at", "entry", "list"} /\ n.at = "written" /\ n.entry = s.entry
<1>1. DOMAIN n = DOMAIN s
  OBVIOUS
<1>2. n.at = "written" /\ n.entry = s.entry
  OBVIOUS
<1> QED
  BY <1>1, <1>2

\* Every deposit of a list that is asked for gets its own signature.
LEMMA WriteKeeps ==
  ASSUME DepositsAssumption, SolanaInv, NEW w \in Workers, Write(w) PROVE SolanaInv'
<1> DEFINE S == DOMAIN worker[w].list
           n == [worker[w] EXCEPT !.at = "written", !.list = <<>>]
<1>1. worker[w].at = "asking" /\ MovesTo(w, n) /\ pending' = pending /\ halted' = halted
  BY DEF Write, MovesTo
<1>2. DbOK(rows, pending) /\ QueueOK(worker[w], rows)
  BY SinceBase DEF SolanaInv
<1>3. /\ worker[w].entry \in S /\ S \in SUBSET Have(rows) /\ Have(rows) \subseteq Deposits
      /\ worker[w].list = Ranks(rows, S) /\ None \notin Deposits
  BY <1>1, <1>2 DEF QueueOK, Have, DepositsAssumption
<1>4. /\ IsFiniteSet(S) /\ \A d \in S : rows[d].index \in Nat /\ rows[d] # NoRow /\ rows[d] \in RowTypes
      /\ \A d, e \in S : rows[d].index = rows[e].index => d = e
  <2>1. IsFiniteSet(S)
    BY <1>2, <1>3, FS_Subset DEF DbOK, Numbered
  <2>2. \A d \in S : rows[d] # NoRow /\ rows[d] \in RowTypes
    BY <1>2, <1>3 DEF DbOK, Have, NoRow
  <2>3. \A d \in S : rows[d].index \in Nat
    BY <2>2, Kinds
  <2>4. \A d, e \in S : rows[d].index = rows[e].index => d = e
    BY <1>2, <1>3 DEF DbOK, Numbered
  <2> QED
    BY <2>1, <2>2, <2>3, <2>4
<1>5. \A d \in S : (CHOOSE e \in S : Transfers(S)[e] = worker[w].list[d]) = d
  <2>1. Transfers(S) = Ranks(rows, S)
    BY DEF Transfers, Ranks
  <2> HIDE DEF S
  <2>2. ASSUME NEW d \in S PROVE (CHOOSE e \in S : Ranks(rows, S)[e] = Ranks(rows, S)[d]) = d
    BY <1>4, PlaceTells
  <2> QED
    BY <1>3, <2>1, <2>2
<1>6. rows' = [d \in Deposits |-> IF d \in S THEN [rows[d] EXCEPT !.signature = d] ELSE rows[d]]
  <2>1. rows' = [d \in Deposits |->
                   IF d \in S
                   THEN [rows[d] EXCEPT !.signature = CHOOSE e \in S : Transfers(S)[e] = worker[w].list[d]]
                   ELSE rows[d]]
    BY DEF Write
  <2> QED
    BY <1>5, <2>1
<1>7. DOMAIN n = {"at", "entry", "list"} /\ n.at = "written" /\ n.entry = worker[w].entry
  BY <1>2, Wrote DEF QueueOK
<1> HIDE DEF S, n
<1>8. ASSUME NEW d \in Deposits
      PROVE  /\ d \notin S => rows'[d] = rows[d]
             /\ d \in S => rows'[d].signature = d
             /\ rows'[d] \in RowTypes /\ rows'[d].table = rows[d].table
             /\ d \in Have(rows) => rows'[d].index = rows[d].index /\ rows'[d].channel = rows[d].channel
             /\ rows[d].table = "request" => rows'[d].finalised = rows[d].finalised
             /\ rows[d].table = "failed" => /\ rows'[d].event = rows[d].event
                                            /\ rows'[d].reason = rows[d].reason
                                            /\ rows'[d].broadcast = rows[d].broadcast
  <2>1. CASE d \notin S
    BY <1>2, <1>6, <2>1 DEF DbOK
  <2>2. CASE d \in S
    <3>1. rows'[d] = [rows[d] EXCEPT !.signature = d]
      BY <1>6, <2>2
    <3>2. rows[d] \in Request \/ rows[d] \in Failed
      BY <1>4, <2>2 DEF RowTypes
    <3>3. CASE rows[d] \in Request
      <4>1. rows'[d] \in Request
        BY <3>1, <3>3 DEF Request
      <4> QED
        BY <2>2, <3>1, <3>3, <4>1 DEF Request, RowTypes
    <3>4. CASE rows[d] \in Failed
      <4>1. rows'[d] \in Failed
        BY <3>1, <3>4 DEF Failed
      <4> QED
        BY <2>2, <3>1, <3>4, <4>1 DEF Failed, RowTypes
    <3> QED
      BY <3>2, <3>3, <3>4
  <2> QED
    BY <2>1, <2>2
<1>9. Have(rows') = Have(rows) /\ Numbered(rows')
  <2>1. Numbered(rows)
    BY <1>2 DEF DbOK
  <2>2. \A d \in Deposits : rows'[d].table = rows[d].table
    BY <1>8
  <2>3. \A d \in Have(rows) : rows'[d].index = rows[d].index
    BY <1>3, <1>8
  <2> QED
    BY <2>1, <2>2, <2>3, SameNumbers
<1>10. rows' \in [Deposits -> RowTypes]
  <2>1. \A d \in Deposits : rows'[d] \in RowTypes
    BY <1>8
  <2>2. rows' = [d \in Deposits |-> rows'[d]]
    BY <1>6
  <2> QED
    BY <2>1, <2>2
<1>11. Signed(rows', pending')
  <2>1. \A d \in Have(rows) : rows[d].signature = d \/ (rows[d].signature = None /\ d \in pending)
    BY <1>2 DEF DbOK, Signed
  <2> QED
    BY <1>1, <1>3, <1>8, <1>9, <2>1 DEF Signed
<1>12. Refunds(rows')
  <2> SUFFICES ASSUME NEW e \in Deposits, rows'[e].table = "failed"
      PROVE  /\ rows'[e].broadcast # None =>
                  /\ rows'[e].channel \notin AccountChannels
                  /\ rows'[rows'[e].broadcast].table = "failed" /\ rows'[rows'[e].broadcast].event = "rejected"
                  /\ rows'[e].broadcast # e =>
                       /\ rows'[e].channel \in SwapChannels
                       /\ rows'[rows'[e].broadcast].channel = rows'[e].channel
             /\ rows'[e].event = "rejected" /\ rows'[e].channel \notin AccountChannels
                  => rows'[e].broadcast # None
    BY DEF Refunds
  <2>1. /\ rows[e].table = "failed" /\ e \in Have(rows) /\ rows[e] \in RowTypes
        /\ rows'[e].event = rows[e].event /\ rows'[e].broadcast = rows[e].broadcast
        /\ rows'[e].channel = rows[e].channel
    BY <1>2, <1>8 DEF Have, DbOK
  <2>2. rows[e].broadcast \in Deposits \cup {None}
    BY <2>1, Kinds
  <2>3. /\ rows[e].broadcast # None =>
             /\ rows[e].channel \notin AccountChannels
             /\ rows[rows[e].broadcast].table = "failed" /\ rows[rows[e].broadcast].event = "rejected"
             /\ rows[e].broadcast # e =>
                  rows[e].channel \in SwapChannels /\ rows[rows[e].broadcast].channel = rows[e].channel
        /\ rows[e].event = "rejected" /\ rows[e].channel \notin AccountChannels => rows[e].broadcast # None
    BY <1>2, <2>1 DEF DbOK, Refunds
  <2>4. rows[e].broadcast # None =>
          /\ rows'[rows[e].broadcast].table = "failed" /\ rows'[rows[e].broadcast].event = "rejected"
          /\ rows'[rows[e].broadcast].channel = rows[rows[e].broadcast].channel
    <3> SUFFICES ASSUME rows[e].broadcast # None
        PROVE  /\ rows'[rows[e].broadcast].table = "failed" /\ rows'[rows[e].broadcast].event = "rejected"
               /\ rows'[rows[e].broadcast].channel = rows[rows[e].broadcast].channel
      OBVIOUS
    <3>1. rows[e].broadcast \in Have(rows)
      BY <2>2, <2>3 DEF Have
    <3> QED
      BY <1>3, <1>8, <2>3, <3>1
  <2> QED
    BY <2>1, <2>3, <2>4
<1>13. Finalisations(rows')
  <2> SUFFICES ASSUME NEW x \in Deposits, rows'[x].table = "request", rows'[x].finalised \notin {None, x}
      PROVE  /\ rows'[x].channel \in AccountChannels
             /\ rows'[rows'[x].finalised].table = "request"
             /\ rows'[rows'[x].finalised].channel = rows'[x].channel
             /\ rows'[rows'[x].finalised].signature # None
    BY DEF Finalisations
  <2>1. /\ rows[x].table = "request" /\ x \in Have(rows) /\ rows[x] \in RowTypes
        /\ rows'[x].finalised = rows[x].finalised /\ rows'[x].channel = rows[x].channel
    BY <1>2, <1>8 DEF Have, DbOK
  <2>2. /\ rows[x].channel \in AccountChannels
        /\ rows[rows[x].finalised].table = "request" /\ rows[rows[x].finalised].channel = rows[x].channel
        /\ rows[rows[x].finalised].signature # None
    BY <1>2, <2>1 DEF DbOK, Finalisations
  <2>3. rows[x].finalised \in Have(rows)
    <3>1. rows[x].finalised \in Deposits
      BY <2>1, Kinds
    <3> QED
      BY <2>2, <3>1 DEF Have
  <2>4. /\ rows'[rows[x].finalised].table = "request"
        /\ rows'[rows[x].finalised].channel = rows[rows[x].finalised].channel
        /\ rows'[rows[x].finalised].signature # None
    BY <1>3, <1>8, <2>2, <2>3
  <2> QED
    BY <2>1, <2>2, <2>4
<1>14. DbOK(rows', pending')
  BY <1>1, <1>2, <1>9, <1>10, <1>11, <1>12, <1>13 DEF DbOK
<1>15. ASSUME NEW x \in Workers, QueueOK(worker[x], rows) PROVE QueueOK(worker[x], rows')
  <2>1. ASSUME NEW Q \in SUBSET Have(rows) PROVE Ranks(rows', Q) = Ranks(rows, Q)
    <3>1. \A d \in Q : rows'[d].index = rows[d].index
      BY <1>3, <1>8
    <3>2. \A d \in Q : {e \in Q : rows'[e].index > rows'[d].index} = {e \in Q : rows[e].index > rows[d].index}
      BY <3>1
    <3> QED
      BY <3>2 DEF Ranks
  <2>2. worker[x].at = "asking" => /\ worker[x].entry \in DOMAIN worker[x].list
                                   /\ DOMAIN worker[x].list \subseteq Have(rows')
                                   /\ worker[x].list = Ranks(rows', DOMAIN worker[x].list)
    BY <1>9, <1>15, <2>1 DEF QueueOK
  <2>3. worker[x].at = "written" => /\ worker[x].entry \in Have(rows')
                                    /\ rows'[worker[x].entry].signature = worker[x].entry
    BY <1>3, <1>8, <1>9, <1>15 DEF QueueOK
  <2> QED
    BY <1>15, <2>2, <2>3 DEF QueueOK
<1>16. QueueOK(n, rows')
  <2>1. rows'[worker[w].entry].signature = worker[w].entry /\ worker[w].entry \in Have(rows')
    BY <1>3, <1>8, <1>9
  <2>2. n.entry \in Deposits \cup {None}
    BY <1>2, <1>7 DEF QueueOK
  <2> QED
    BY <1>7, <2>1, <2>2 DEF QueueOK
<1>17. HaltedOnlyByQueue'
  <2> SUFFICES ASSUME halted PROVE \E d \in FailedSwaps' : /\ Rejectable(d)'
                                                           /\ rows'[d].channel = None
                                                           /\ rows'[d].signature = d
                                                           /\ d \notin pending'
    BY <1>1 DEF HaltedOnlyByQueue
  <2>1. PICK d \in FailedSwaps : Rejectable(d) /\ rows[d].channel = None /\ rows[d].signature = d /\ d \notin pending
    BY DEF SolanaInv, HaltedOnlyByQueue
  <2>2. d \in Deposits /\ rows[d].table = "failed" /\ d \in Have(rows)
    BY <2>1 DEF FailedSwaps, Have
  <2>3. /\ rows'[d].table = "failed" /\ rows'[d].event = rows[d].event /\ rows'[d].reason = rows[d].reason
        /\ rows'[d].channel = None /\ rows'[d].signature = d
    BY <1>8, <2>1, <2>2
  <2> QED
    BY <1>1, <2>1, <2>2, <2>3 DEF FailedSwaps, Rejectable
<1> QED
  BY <1>1, <1>14, <1>15, <1>16, <1>17, QueueMoves

LEMMA InvHolds == DepositsAssumption => (Spec => []SolanaInv)
<1> SUFFICES ASSUME DepositsAssumption PROVE Spec => []SolanaInv
  OBVIOUS
<1>1. Init => SolanaInv
  BY InitHolds
<1>2. SolanaInv /\ [Next]_vars => SolanaInv'
  <2> SUFFICES ASSUME SolanaInv, [Next]_vars PROVE SolanaInv'
    OBVIOUS
  <2>1. CASE UNCHANGED vars
    BY <2>1 DEF vars, SolanaInv, Base, HaltedOnlyByQueue, FailedSwaps, Rejectable
  <2>2. CASE Next
    <3>1. ASSUME NEW d \in Deposits, NEW c \in Channels \cup {None}, SwapRequested(d, c) PROVE SolanaInv'
      <4>1. Handles
        BY <3>1 DEF SwapRequested
      <4> QED
        BY <3>1, <4>1, RequestedGrows, HandlesKeeps
    <3>2. ASSUME NEW d \in Deposits, NEW c \in Channels \cup {None}, NEW reason \in {"Rejected", "Other"},
                 AddFailedSwap(d, c, reason)
          PROVE  SolanaInv'
      <4>1. Handles
        BY <3>2 DEF AddFailedSwap
      <4> QED
        BY <3>2, <4>1, FailedGrows, HandlesKeeps
    <3>3. ASSUME NEW d \in Deposits, SwapFinalised(d) PROVE SolanaInv'
      <4>1. Handles
        BY <3>3 DEF SwapFinalised
      <4> QED
        BY <3>3, <4>1, SwapFinalisedGrows, HandlesKeeps
    <3>4. ASSUME NEW d \in Deposits, LiquidityProvisionFinalised(d) PROVE SolanaInv'
      <4>1. Handles
        BY <3>4 DEF LiquidityProvisionFinalised
      <4> QED
        BY <3>4, <4>1, LiquidityGrows, HandlesKeeps
    <3>5. ASSUME NEW d \in Deposits, TransactionRejected(d) PROVE SolanaInv'
      <4>1. Handles
        BY <3>5 DEF TransactionRejected
      <4> QED
        BY <3>5, <4>1, RejectionGrows, HandlesKeeps
    <3>6. ASSUME NEW d \in Deposits, HandleEvent(d) PROVE SolanaInv'
      <4>1. CASE \E c \in Channels \cup {None} : SwapRequested(d, c)
        BY <3>1, <4>1
      <4>2. CASE \E c \in Channels \cup {None}, reason \in {"Rejected", "Other"} : DepositFailed(d, c, reason)
        BY <3>2, <4>2 DEF DepositFailed
      <4>3. CASE \E c \in Channels \cup {None} : FinalisedWithoutSwap(d, c)
        BY <3>2, <4>3 DEF FinalisedWithoutSwap
      <4>4. CASE TransactionRejectedThrows(d)
        BY <4>4, ThrowsKeeps
      <4> QED
        BY <3>3, <3>4, <3>5, <3>6, <4>1, <4>2, <4>3, <4>4 DEF HandleEvent
    <3>7. CASE \E w \in Workers : Pick(w) \/ Write(w) \/ Delete(w) \/ GiveUp(w)
      BY <3>7, PickKeeps, WriteKeeps, DeleteKeeps, GiveUpKeeps
    <3>8. CASE EndBlock
      BY <3>8, EndBlockKeeps
    <3> QED
      BY <2>2, <3>6, <3>7, <3>8 DEF Next
  <2> QED
    BY <2>1, <2>2
<1> QED
  BY <1>1, <1>2, PTL DEF Spec

-----------------------------------------------------------------------------

\* The handlers of depositFinalised.ts, transactionRejectedByBroker.ts and the
\* others, one event after another and undone by one that throws, and the queues
\* of solanaTxRefs.ts keep the rows and the pending rows that they may have, and
\* only a deposit with a row is pending.
THEOREM TypeCorrect == Spec => []TypeOK
<1>1. SolanaInv => TypeOK
  <2> SUFFICES ASSUME SolanaInv PROVE TypeOK
    OBVIOUS
  <2>1. DbOK(rows, pending) /\ open \in BOOLEAN /\ halted \in BOOLEAN
    BY DEF SolanaInv
  <2>2. rows \in [Deposits -> {NoRow} \cup Request \cup Failed]
    BY <2>1 DEF DbOK, RowTypes
  <2>3. pending \subseteq Requests \cup FailedSwaps
    BY <2>1, RowsThere DEF DbOK
  <2>4. begun # <<>> <=> open
    BY DEF SolanaInv
  <2>5. \A w \in Workers : worker[w].at \in {"idle", "asking", "written"} /\ worker[w].entry \in Deposits \cup {None}
    BY DEF SolanaInv, QueueOK
  <2> QED
    BY <2>1, <2>2, <2>3, <2>4, <2>5 DEF TypeOK
<1> QED
  BY <1>1, InvHolds, DepositsAssumption, PTL

\* Whatever the processor does between the queue's reads and writes, and however
\* many queues ask for the same channel at once: a deposit has its own signature,
\* never another one's, or none and then its pending row still asks for it.
THEOREM EveryDepositRemembered == Spec => []NoDepositForgotten
<1>1. SolanaInv => NoDepositForgotten
  <2> SUFFICES ASSUME SolanaInv PROVE NoDepositForgotten
    OBVIOUS
  <2>1. DbOK(rows, pending)
    BY DEF SolanaInv
  <2> QED
    BY <2>1, RowsThere DEF DbOK, Signed, NoDepositForgotten
<1> QED
  BY <1>1, InvHolds, DepositsAssumption, PTL

\* What transactionRejectedByBroker and depositFinalised write, into the row of
\* their deposit or of another one on the channel: a refund is that of a rejected
\* deposit to the same swap channel, a rejected deposit shows one unless it was to
\* open an account, a request filled in by another deposit's event waits on that
\* one's channel, and the processor stops for ever only where the queue was faster
\* than the rejection of a vault deposit.
THEOREM RejectionsTraced == Spec => []RejectionsAreTraceable
<1>1. DepositsAssumption /\ SolanaInv => RejectionsAreTraceable
  <2> SUFFICES ASSUME DepositsAssumption, SolanaInv PROVE RejectionsAreTraceable
    OBVIOUS
  <2>1. DbOK(rows, pending) /\ HaltedOnlyByQueue /\ None \notin Deposits
    BY DEF SolanaInv, DepositsAssumption
  <2>2. \A d \in Deposits : rows[d] \in RowTypes
    BY <2>1 DEF DbOK
  <2>3. ASSUME NEW d \in Deposits, rows[d].table = "failed"
        PROVE  /\ rows[d].broadcast \in Deposits \cup {None} /\ rows[d].channel \in Channels \cup {None}
               /\ rows[d].broadcast # None =>
                    /\ rows[d].channel \notin AccountChannels /\ rows[d].broadcast \in Deposits
                    /\ rows[rows[d].broadcast].table = "failed" /\ rows[rows[d].broadcast].event = "rejected"
                    /\ rows[d].broadcast # d =>
                         rows[d].channel \in SwapChannels /\ rows[rows[d].broadcast].channel = rows[d].channel
               /\ rows[d].event = "rejected" /\ rows[d].channel \notin AccountChannels => rows[d].broadcast # None
    <3>1. rows[d].broadcast \in Deposits \cup {None} /\ rows[d].channel \in Channels \cup {None}
      <4>1. rows[d] \in Failed
        BY <2>2, <2>3, Kinds
      <4> QED
        BY <4>1 DEF Failed
    <3> QED
      BY <2>1, <2>3, <3>1 DEF DbOK, Refunds
  <2>4. None \notin SwapChannels
    BY DEF DepositsAssumption
  <2>5. RejectionShowsRefund
    <3> SUFFICES ASSUME NEW d \in Deposits, rows[d].table = "failed", rows[d].event = "rejected"
        PROVE  IF rows[d].channel \in AccountChannels THEN rows[d].broadcast = None
               ELSE rows[d].broadcast = d
                    \/ /\ rows[d].channel # None
                       /\ rows[d].broadcast \in OnChannel(rows[d].channel) \cap FailedSwaps
      BY DEF RejectionShowsRefund, FailedSwaps
    <3>1. CASE rows[d].channel \in AccountChannels
      BY <2>3, <3>1
    <3>2. CASE rows[d].channel \notin AccountChannels /\ rows[d].broadcast # d
      <4>1. /\ rows[d].broadcast \in Deposits /\ rows[rows[d].broadcast].table = "failed"
            /\ rows[d].channel \in SwapChannels /\ rows[rows[d].broadcast].channel = rows[d].channel
        BY <2>3, <3>2
      <4> QED
        BY <2>4, <3>2, <4>1 DEF OnChannel, FailedSwaps
    <3> QED
      BY <3>1, <3>2
  <2>6. RefundOfRejected
    <3> SUFFICES ASSUME NEW d \in Deposits, rows[d].table = "failed", rows[d].broadcast # None
        PROVE  /\ rows[rows[d].broadcast].event = "rejected"
               /\ rows[d].broadcast # d =>
                    rows[d].channel = rows[rows[d].broadcast].channel /\ rows[d].channel \in SwapChannels
      BY DEF RefundOfRejected, FailedSwaps
    <3> QED
      BY <2>3
  <2>7. FinalisedByAnother
    <3> SUFFICES ASSUME NEW e \in Deposits, rows[e].table = "request", rows[e].finalised \notin {None, e}
        PROVE  /\ rows[e].channel \in AccountChannels
               /\ rows[rows[e].finalised].channel = rows[e].channel
               /\ rows[rows[e].finalised].signature # None
      BY DEF FinalisedByAnother, Requests
    <3> QED
      BY <2>1 DEF DbOK, Finalisations
  <2> QED
    BY <2>1, <2>5, <2>6, <2>7 DEF RejectionsAreTraceable
<1> QED
  BY <1>1, InvHolds, DepositsAssumption, PTL

=============================================================================
