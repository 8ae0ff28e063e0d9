------------------------------- MODULE BlockLog -------------------------------
(***************************************************************************)
(* What the block processor promises to everything that reads the swap     *)
(* database: the events of the State Chain's blocks take effect block by   *)
(* block, each block exactly once and in height order, and only once the   *)
(* block exists.  Nothing is said here of processes, batches, fetches,     *)
(* crashes or the archive.                                                 *)
(***************************************************************************)
EXTENDS Integers, Sequences

VARIABLES
  tip,      \* height of the newest block of the chain, -1 before the first
  applied   \* heights of the blocks whose events took effect, in order

vars == <<tip, applied>>

Init == tip = -1 /\ applied = << >>

\* The chain grows by one block.
Produce == tip' = tip + 1 /\ UNCHANGED applied

\* The next block of the chain takes effect, as a whole.
Apply ==
  /\ Len(applied) <= tip
  /\ applied' = Append(applied, Len(applied))
  /\ UNCHANGED tip

Next == Produce \/ Apply

Spec == Init /\ [][Next]_vars
===============================================================================
