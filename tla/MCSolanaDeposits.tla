-------------------------- MODULE MCSolanaDeposits --------------------------
(* SolanaDeposits for TLC: two deposits, two channels, two processes. *)
EXTENDS SolanaDeposits
=============================================================================
