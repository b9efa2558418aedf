------------------------------ MODULE History ------------------------------
(***************************************************************************)
(* What an undo history promises, without its two stacks: one timeline of  *)
(* versions and a position on it.  Undo and redo only move the position;   *)
(* a new version is written after the position and cuts off what followed, *)
(* the oldest version is forgotten beyond Cap, and the version shown may   *)
(* be amended in place (the tiles of one drag are a single version).       *)
(* Editor.tla implements it: see Timeline there.                           *)
(***************************************************************************)
EXTENDS Naturals, Sequences

CONSTANT Cap

VARIABLES timeline, pos

histVars == <<timeline, pos>>

Fresh(line, at) == at = 1 /\ Len(line) = 1

Init == Fresh(timeline, pos)

\* The versions that stay before a new one.
Kept == SubSeq(timeline, IF pos > Cap THEN 2 ELSE 1, pos)

Commit ==
    /\ pos' = Len(Kept) + 1
    /\ Len(timeline') = pos'
    /\ SubSeq(timeline', 1, Len(Kept)) = Kept

\* Everything but the version at the position is as it was.
Amend ==
    /\ pos' = pos
    /\ DOMAIN timeline' = DOMAIN timeline
    /\ \A i \in DOMAIN timeline \ {pos} : timeline'[i] = timeline[i]

Back == pos > 1 /\ pos' = pos - 1 /\ UNCHANGED timeline

Forward == pos < Len(timeline) /\ pos' = pos + 1 /\ UNCHANGED timeline

\* Another document is opened.
Restart == Fresh(timeline', pos')

Next == Commit \/ Amend \/ Back \/ Forward \/ Restart

Spec == Init /\ [][Next]_histVars
=============================================================================
