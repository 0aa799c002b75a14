------------------------------ MODULE MCPorts ------------------------------
(* Instances of Ports for TLC: two controller ports, and an expansion port that *)
(* lists the same directory after the user chose it (PortConnector::eventBrowse). *)
EXTENDS Ports, TLC

CONSTANTS p1, p2, exp, pad, mouse, modem

\* What ControllerPort::allocate and ExpansionPort::allocate know.
MCSupports == [p \in Port |-> IF p = exp THEN {modem} ELSE {pad, mouse}]

AnyDir == Permutations(Dir)
=============================================================================
