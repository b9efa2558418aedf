------------------------------ MODULE MCSidebar ------------------------------
(* Small instances of Sidebar for TLC. *)
EXTENDS Sidebar

Session(phase, stored, coming) ==
    [phase |-> phase, stored |-> stored, stream |-> <<>>, coming |-> coming, votes |-> {}]
Over == Session("over", 1, <<>>)
Fresh(coming) == Session("none", 0, coming)
Active(coming) == Session("active", 0, coming)

Life(s, t, hunts, asks, faults) ==
    [session |-> [s |-> s, t |-> t],
     searches |-> hunts, calls |-> asks, faults |-> faults]
Outlay(picks, mine, theirs, faults) ==
    [picks |-> picks, mine |-> mine, theirs |-> theirs, faults |-> faults]

Scene(life, outgo) == [life |-> life, outlay |-> outgo]
Idle == Outlay(0, 0, 0, 0)
Quiet == Life(Fresh(<<>>), Fresh(<<>>), 0, 0, 0)

\* One request of the owner in each kind of session, and two that overlap; three
\* lost connections; new sessions, one of which fails; chats in a sidebar that
\* comes and goes; a chat beside sessions.
Scenarios == {
    Scene(Life(Active(<<"turn", "check", "turn">>), Over, 0, 1, 0), Idle),
    Scene(Life(Active(<<"turn", "final", "ended">>), Active(<<"turn">>), 0, 1, 0), Idle),
    Scene(Life(Active(<<"check">>), Over, 0, 2, 0), Idle),
    Scene(Life(Active(<<"turn", "pending", "turn">>), Over, 0, 1, 0), Idle),
    Scene(Life(Active(<<"turn", "turn">>), Over, 0, 0, 3), Idle),
    Scene(Life(Fresh(<<"turn">>), Fresh(<<>>), 2, 0, 1), Idle),
    Scene(Quiet, Outlay(3, 1, 1, 0)),
    Scene(Quiet, Outlay(2, 0, 2, 1)),
    Scene(Quiet, Outlay(1, 1, 1, 1)),
    Scene(Life(Over, Active(<<"turn">>), 0, 0, 0), Outlay(2, 0, 1, 0))}

\* A room with more messages than a poll returns.
LongRoom == {Scene(Quiet, Outlay(1, 0, 3, 1))}
=============================================================================
