------------------------------ MODULE MCEditor ------------------------------
(* Instances of Editor for TLC: strings stand for the palette's tiles.     *)
EXTENDS Editor
=============================================================================
