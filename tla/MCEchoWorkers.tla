--------------------------- MODULE MCEchoWorkers ---------------------------
(* Two workers and three clients: a worker's buffer is used again and two  *)
(* workers race in accept().  In server models/4 each client has a port of *)
(* its own, so that both workers can sleep while a client waits.           *)
EXTENDS EchoWorkers

CONSTANTS k1, k2, k3, w1, w2

MCClients == {k1, k2, k3}
MCWorkers == {w1, w2}
MCPorts == {0, 1, 2}
MCPortOf == [c \in MCClients |-> CASE c = k1 -> 0 [] c = k2 -> 1 [] c = k3 -> 2]
============================================================================
