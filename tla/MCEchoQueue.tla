---------------------------- MODULE MCEchoQueue ----------------------------
(* Four clients and one worker.  CharHalf is as small as QueueAssumption    *)
(* allows, so that one descriptor more than the queue, the worker and main  *)
(* account for would be cut to a negative char.                             *)
EXTENDS EchoQueue

CONSTANTS k1, k2, k3, k4, w1

MCClients == {k1, k2, k3, k4}
MCWorkers == {w1}
============================================================================
