---------------------------- MODULE EchoService ----------------------------
(***************************************************************************)
(* What an echo server promises its clients, whatever its threads: a       *)
(* client that has sent a request is answered at most once, and the answer *)
(* is made of its own bytes in upper case, at the places where it sent     *)
(* them.  A server reads a request with one recv(): the bytes of a request *)
(* that recv() did not return are missing from the answer, which then ends *)
(* in what the server's buffer held: zeroes, or the stack's garbage when   *)
(* the buffer was not used before, never the bytes of another client.      *)
(***************************************************************************)
EXTENDS Naturals, Sequences

CONSTANTS
  Clients,  \* the client processes
  None,     \* no client
  Size      \* SIZE, the bytes of a request, of a buffer and of an answer

VARIABLES
  client,  \* where each client process is
  reply    \* the bytes the server has sent to each client

\* The bytes of client c's string, and what toupper() makes of them.
Raw(c, i) == <<c, i, "raw">>
Upper(c, i) == <<c, i, "upper">>
Zero == <<None, 0, "zero">>
Junk == <<None, 0, "junk">>

Echoes(c) ==
  {[i \in 1..Size |-> IF i <= n THEN Upper(c, i) ELSE rest[i]] :
     n \in 1..Size, rest \in [1..Size -> {Zero, Junk}]}

Init ==
  /\ client = [c \in Clients |-> "start"]
  /\ reply = [c \in Clients |-> <<>>]

Step(c, from, to) ==
  /\ client[c] \in from
  /\ client' = [client EXCEPT ![c] = to]
  /\ UNCHANGED reply

Answer(c) ==
  /\ client[c] = "sent"
  /\ reply[c] = <<>>
  /\ \E r \in Echoes(c) : reply' = [reply EXCEPT ![c] = r]
  /\ UNCHANGED client

Next ==
  \E c \in Clients :
    \/ Step(c, {"start"}, "connected")
    \/ Step(c, {"connected"}, "sent")
    \/ Step(c, {"connected", "sent"}, "closed")
    \/ Answer(c)

Spec == Init /\ [][Next]_<<client, reply>>
============================================================================
