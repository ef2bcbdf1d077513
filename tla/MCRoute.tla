------------------------------ MODULE MCRoute ------------------------------
EXTENDS Route, TLC

CONSTANTS t1, t2, p1, p2

\* One program that names its port, one that takes the first arm it finds.
Asked == t1 :> p1 @@ t2 :> None
=============================================================================
