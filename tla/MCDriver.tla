------------------------------ MODULE MCDriver ------------------------------
(* Driver for TLC: who uses the arm, and how.                               *)
EXTENDS Driver, TLC

CONSTANTS script, other, robot, panel, m1, m2, b1, s1, h1

\* One thread with one Dobot, or two programs.
SoloThreads == {script}
SoloDobots == {robot}
SoloDobotOf == [t \in {script} |-> robot]

PairThreads == {script, other}
PairDobots == {robot, panel}
PairDobotOf == [t \in PairThreads |-> IF t = script THEN robot ELSE panel]

-----------------------------------------------------------------------------
\* A program that has the arm for itself, and keeps to the documentation.
SoloSpec == Init /\ [][DocumentedNext(script)]_vars
SoloFairSpec == SoloSpec /\ Fairness

\* No batches, and no control of the queue.
PlainNext ==
    \/ \E t \in Threads :
          \/ Continue(t) \/ Fail(t) \/ WaitIdle(t) \/ ClearAlarm(t)
          \/ \E c \in Commands : SendCommand(t, c)
    \/ ArmMoves

PlainFairSpec == Init /\ [][PlainNext]_vars /\ Fairness

\* A script, and a panel window that opens, reconnects and jogs.
PanelSpec == Init /\ [][DrivenNext(script)]_vars
=============================================================================
