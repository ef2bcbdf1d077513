------------------------------ MODULE MCPanel ------------------------------
(* Panel for TLC: two threads of the pose stream, one of which may be late.  *)
EXTENDS Panel

CONSTANTS s1, s2
=============================================================================
