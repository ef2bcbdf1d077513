------------------------------- MODULE Calls -------------------------------
(* What a link to the arm promises its callers: a call is answered with the *)
(* arm's answer to that very request, after the arm has executed it once,   *)
(* or it fails, and then the request may still be executed later or never.  *)
(* Link implements this.                                                    *)
EXTENDS Naturals

CONSTANT Callers

VARIABLES
    asked,      \* how many requests there have been: the last one's number
    pending,    \* each caller's request under way, or 0
    executed,   \* the requests the arm has executed
    answer      \* the request whose answer each caller got last, or 0

vars == <<asked, pending, executed, answer>>

Init ==
    /\ asked = 0
    /\ pending = [c \in Callers |-> 0]
    /\ executed = {}
    /\ answer = [c \in Callers |-> 0]

Ask(c) ==
    /\ pending[c] = 0
    /\ asked' = asked + 1
    /\ pending' = [pending EXCEPT ![c] = asked + 1]
    /\ UNCHANGED <<executed, answer>>

Execute ==
    /\ \E r \in 1..asked \ executed : executed' = executed \cup {r}
    /\ UNCHANGED <<asked, pending, answer>>

Answered(c) ==
    /\ pending[c] \in executed
    /\ answer' = [answer EXCEPT ![c] = pending[c]]
    /\ pending' = [pending EXCEPT ![c] = 0]
    /\ UNCHANGED <<asked, executed>>

Failed(c) ==
    /\ pending[c] # 0
    /\ pending' = [pending EXCEPT ![c] = 0]
    /\ UNCHANGED <<asked, executed, answer>>

Next == Execute \/ \E c \in Callers : Ask(c) \/ Answered(c) \/ Failed(c)

Spec == Init /\ [][Next]_vars
=============================================================================
