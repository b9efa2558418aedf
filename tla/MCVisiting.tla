----------------------------- MODULE MCVisiting -----------------------------
(* Small instances of Visiting for TLC. *)
EXTENDS Visiting, TLC

Budget(who, visits, messages, faults) ==
    [who |-> who, visits |-> visits, messages |-> messages, faults |-> faults]

\* Two visitors at once; one visitor twice with a fault; a chat with a fault.
Behaviours == {Budget({"a", "b"}, 2, 0, 0), Budget({"a"}, 2, 1, 1),
               Budget({"a"}, 1, 2, 1)}
=============================================================================
