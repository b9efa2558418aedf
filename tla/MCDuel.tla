------------------------------- MODULE MCDuel -------------------------------
(* Small instances of Duel for TLC. *)
EXTENDS Duel, TLC

\* The hands differ: the visitor wins the first round, and the host the second.
Differing == [r \in Rounds |-> [q \in Players |->
                IF q = "host" THEN {"rock"} ELSE IF r = 1 THEN {"paper"} ELSE {"scissors"}]]
=============================================================================
