------------------------------ MODULE MCBroker ------------------------------
(* Broker for TLC: the connection slots and the transports are              *)
(* interchangeable.                                                         *)
EXTENDS Broker, TLC

Symmetry == Permutations(Clients) \cup Permutations(Transports)

\* The control panel's use of the broker: it starts and stops it, and never
\* attaches a port itself.
PanelNext ==
    \/ \E c \in Clients : HandlerStep(c) \/ ClientStep(c)
    \/ Start
    \/ Stop
    \/ StopStep

PanelSpec == Init /\ [][PanelNext]_vars

PanelFairSpec == PanelSpec /\ Fairness
=============================================================================
