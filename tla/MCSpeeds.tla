------------------------------ MODULE MCSpeeds ------------------------------
(* Speeds for TLC: one script drives the window's arm, the other another.   *)
EXTENDS Speeds

CONSTANTS a1, a2, s1, s2

Drives == [s \in {s1, s2} |-> IF s = s1 THEN a1 ELSE a2]
Few == {40, 150}
=============================================================================
