----------------------------- MODULE MCSession -----------------------------
(* Small instances of Session for TLC. *)
EXTENDS Session

Budget(calls, asks, crashes) == [tools |-> calls, requests |-> asks, faults |-> crashes]

\* Reviews, cancels and a crash without tool calls; tool calls of one turn or two.
Behaviours == {Budget(0, 6, 1), Budget(1, 2, 1), Budget(2, 1, 0)}
=============================================================================
