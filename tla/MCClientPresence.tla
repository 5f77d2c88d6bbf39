-------------------------- MODULE MCClientPresence --------------------------
(* Two robots for TLC: one that connects three times, so that a newcomer    *)
(* replaces a connection that is itself still closing the first one, and    *)
(* one that shares the registry with it.                                    *)
EXTENDS ClientPresence, TLC

CONSTANTS robot, other, k1, k2, k3, k4

MCClients == {robot, other}
MCConnections == {k1, k2, k3, k4}
MCClientOf == [k \in MCConnections |-> IF k = k4 THEN other ELSE robot]
=============================================================================
