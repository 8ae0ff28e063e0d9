--------------------------- MODULE MCStatusLookup ---------------------------
(***************************************************************************)
(* StatusLookup on instances that each leave out what the others vary:     *)
(* together they reach every action of a poll, and each stays small.  One  *)
(* is of the deposit channels alone: two channels of a chain, two requests *)
(* and a limit of one open channel to the address, so that the second      *)
(* request meets the limit, overlaps the first, or counts while a channel  *)
(* has no row yet.                                                         *)
(***************************************************************************)
EXTENDS StatusLookup, TLC
CONSTANTS d1, d2

B1 == <<"Bitcoin", 1>>
B2 == <<"Bitcoin", 2>>
S1 == <<"Solana", 1>>
MCChannels == {B1, B2, S1}
MCPollIds == {<<"channel", B1>>, <<"channel", S1>>, <<"tx", d1>>}

\* height bounds the external chains of the instance, blocks the State Chain.
Instance(chs, types, deps, tos, ids, height, blocks) ==
  [channels |-> chs, types |-> types, deposits |-> deps, to |-> tos, ids |-> ids,
   height |-> height, blocks |-> blocks]

Instances == {
  \* one deposit to a channel is polled, with its tracking
  Instance({B1}, {"SWAP", "ACCOUNT_CREATION"}, {d1}, {B1}, {<<"channel", B1>>}, 3, 6),
  \* a vault deposit is polled, on a chain with a node or without
  Instance({}, {}, {d1}, {Vault("Bitcoin")}, {<<"tx", d1>>}, 3, 5),
  Instance({}, {}, {d1}, {Vault("Solana")}, {<<"tx", d1>>}, 3, 5),
  \* two deposits to one channel are polled
  Instance({S1}, {"SWAP"}, {d1, d2}, {S1}, {<<"channel", S1>>}, 1, 4),
  \* deposits to channels of two chains fail
  Instance({B1, S1}, {"SWAP", "ACCOUNT_CREATION", "LIQUIDITY"}, {d1, d2}, {B1, S1}, {}, 1, 6),
  \* channels, by requests and by others, without deposits
  Instance({B1, B2}, {"SWAP", "ACCOUNT_CREATION"}, {}, {}, {}, 3, 4) }

VARIABLE instance

Within(i) ==
  /\ block' <= i.blocks
  /\ \A c \in Channels : opened'[c] # None => c \in i.channels /\ opened'[c].type \in i.types
  /\ \A d \in Deposits :
       dep'[d] # None => d \in i.deposits /\ dep'[d].to \in i.to /\ dep'[d].height <= i.height
  /\ \A ch \in Chains : tracking'[ch].height <=
       (IF Vault(ch) \in i.to \/ \E c \in i.channels : ChainOf(c) = ch THEN i.height ELSE 1)
  /\ IF i.deposits = {}
     THEN \A c \in Channels : opened'[c] # None => opened'[c].expiry <= i.height
     ELSE \A c \in Channels : opened'[c] # None => opened'[c].msg = None
  /\ i.ids = {} => \A d \in Deposits : redis'[d] = {}
  /\ poll' # NoPoll => poll'.id \in i.ids
  /\ shown' # None => shown'.id \in i.ids

MCInit == Init /\ instance \in Instances
MCNext ==
  /\ \/ instance.deposits = {} /\ ChanNext /\ UNCHANGED lookVars
     \/ instance.deposits # {} /\ ProcessorNext /\ UNCHANGED lookVars
     \/ instance.deposits # {} /\ LookNext
  /\ Within(instance)
  /\ UNCHANGED instance
MCSymmetry == Permutations(Requests)
MCSpec == MCInit /\ [][MCNext]_<<vars, instance>>
=============================================================================
