---------------------------- MODULE MCPlatformer ----------------------------
(* An instance of Platformer for TLC: an island of two small stages, one   *)
(* with a frog that fires, one with a boss.                                *)
EXTENDS Platformer, TLC

MCOrder == <<"shell", "frog", "drop", "bear", "block", "heart", "nut">>
MCKind == [a \in Range(MCOrder) |-> IF a = "nut" THEN "coconut" ELSE a]
MCStage == <<{"shell", "frog"}, {"bear", "block", "heart"}>>
=============================================================================
