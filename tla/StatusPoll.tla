----------------------------- MODULE StatusPoll -----------------------------
(***************************************************************************)
(* One poll of GET /v2/swaps/:id as it really reads (getSwapState): the    *)
(* rows of the request in one query and then, while an egress is being     *)
(* sent, redis for each of its broadcasts in turn.  The handlers and the   *)
(* tracker go on between the reads.  SwapLifecycle!State is the answer of  *)
(* a poll that reads everything at once.                                   *)
(***************************************************************************)
EXTENDS SwapLifecycle

VARIABLE poll   \* the poll, with the states and the keys it could have seen

pollVars == <<vars, poll>>

Fields == {"swap", "refund", "fallback"}
NoPoll == [pc |-> "idle"]

PollInit == Init /\ poll = NoPoll

(* The states of the polled request, and what may leave the poll behind.   *)
Rows(r) == [role \in Fields |->
              LET b == egress[<<r, role>>]
              IN  <<b, IF b \in Broadcasts THEN broadcast[b] ELSE None>>]
Leaves(r) == \E role \in Fields : Pending(r, role) /\ ~Pending(r, role)'
Watched(r) == [poll EXCEPT !.seen = @ \cup {State(r)'}, 
                              !.behind = @ \/ Leaves(r) \/ Rows(r)' # Rows(r)]

Step == /\ Next
        /\ IF poll.pc \in {"idle", "answered"} THEN UNCHANGED poll
           ELSE \E r \in {poll.r} : poll' = Watched(r)

(* One query reads the request with its egresses and their broadcasts.     *)
ReadRows(r) ==
    /\ poll.pc = "idle"
    /\ poll' = [r |-> r, pc |-> IF IsSending(r) THEN "swap" ELSE "answered",
                answer |-> IF IsSending(r) THEN "SENDING" ELSE State(r),
                rows |-> [role \in Fields |-> egress[<<r, role>>]],
                seen |-> {State(r)}, behind |-> FALSE]
    /\ UNCHANGED vars

(* MUTANT: a fallback on its way is shown like any other egress. *)
OnItsWayAny(role) == "SENT"

OnItsWay(role) == IF role = "fallback" THEN "FAILED" ELSE "SENT"
After(role) == CASE role = "swap" -> "refund" [] role = "refund" -> "fallback"
                 [] role = "fallback" -> "answered"

ReadRedis(role) ==
    /\ poll.pc = role
    /\ poll' = [poll EXCEPT !.pc = After(role),
                            !.answer = IF poll.rows[role] \in tracked THEN OnItsWay(role) ELSE @]
    /\ UNCHANGED vars

(* An error of redis is logged and taken for a broadcast it does not know. *)
RedisFails(role) ==
    /\ poll.pc = role
    /\ poll' = [poll EXCEPT !.pc = After(role), !.behind = TRUE]
    /\ UNCHANGED vars

PollNext == \/ Step
            \/ \E r \in Requests : ReadRows(r)
            \/ \E role \in Fields : ReadRedis(role) \/ RedisFails(role)

PollSpec == PollInit /\ [][PollNext]_pollVars

----------------------------------------------------------------------------
(* A poll answers a state that the request had while it was polled.  When  *)
(* its rows changed after they were read, a broadcast left redis or redis   *)
(* failed, the answer may be behind, SENDING or SENT; an end that it        *)
(* answers was always reached.                                              *)
AnswerWasTrue ==
    poll.pc = "answered" =>
       \/ poll.answer \in poll.seen
       \/ poll.behind /\ poll.answer \in {"SENDING", "SENT"}
=============================================================================
