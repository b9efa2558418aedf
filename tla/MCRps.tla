------------------------------- MODULE MCRps -------------------------------
(* Small instances of Rps for TLC. *)
EXTENDS Rps, TLC

Poor == [q \in Players |-> 1]    \* a player who has lost or spent it has none

=============================================================================
