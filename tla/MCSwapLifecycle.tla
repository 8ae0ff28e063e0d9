-------------------------- MODULE MCSwapLifecycle --------------------------
(***************************************************************************)
(* SwapLifecycle on three instances: requests of one chunk whose egresses  *)
(* may share broadcasts; a single request of every kind, of one chunk or   *)
(* two, which may be rescheduled and whose egresses may be ignored for any *)
(* reason; and a single request that is polled while it is sent.           *)
(***************************************************************************)
EXTENDS StatusPoll, TLC

VARIABLE instance

Requested == {r \in Requests : request[r] # None}
NoRetries == \A c \in DOMAIN swap : swap[c] # None => swap[c].retries = 0

Within ==
    /\ instance = "shared" =>
         /\ NoRetries
         /\ \A r \in Requested : request[r].kind = "external" /\ request[r].chunks = 1
    /\ instance # "shared" => Cardinality(Requested) <= 1
    /\ \A c \in DOMAIN swap : swap[c] # None /\ swap[c].retries > 0 => c[2] = 1
    /\ instance # "polled" => poll = NoPoll
    /\ instance = "polled" =>
         /\ NoRetries /\ ~stuck
         /\ \A r \in Requested : /\ request[r].kind = "external" /\ request[r].ignored = {}
                                 /\ Has(r, "fallback") => request[r].chunks = 1
                                 /\ ~Has(r, "fallbackRefund")
         /\ poll # NoPoll => poll.r \in Requested /\ Egress(poll.r) # None

MCInit == PollInit /\ instance \in {"shared", "single", "polled"}
MCNext == UNCHANGED instance /\ PollNext /\ Within'
MCSpec == MCInit /\ [][MCNext]_<<pollVars, instance>>

Symmetry == Permutations(Requests)
=============================================================================
