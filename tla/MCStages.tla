------------------------------ MODULE MCStages ------------------------------
(* Instances of Stages for TLC.                                            *)
EXTENDS Stages
=============================================================================
