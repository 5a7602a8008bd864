--------------------------- MODULE MCEchoThreads ---------------------------
(* Three clients, a thread for each, and room for two. *)
EXTENDS EchoThreads

CONSTANTS k1, k2, k3

MCClients == {k1, k2, k3}
MCWorkers == 1..3
============================================================================
