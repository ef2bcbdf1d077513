------------------------------- MODULE MCHub -------------------------------
(* Hub for TLC: two arms and their windows, and one arm with two scripts.    *)
EXTENDS Hub
=============================================================================
