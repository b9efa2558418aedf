------------------------------- MODULE MCMint -------------------------------
(* Small instances of Mint for TLC. *)
EXTENDS Mint, TLC

\* Workers are interchangeable, and so are withdrawals.
MintSymmetry == Permutations(Workers) \cup Permutations(Withdrawals)
=============================================================================
