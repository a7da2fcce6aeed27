------------------------------ MODULE MCMirror ------------------------------
(* An instance of Mirror for TLC: the room is in one of two children.      *)
EXTENDS Mirror

CONSTANTS c1, c2

Children2 == {c1, c2}
=============================================================================
