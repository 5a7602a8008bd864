------------------------------ MODULE EchoCore ------------------------------
(***************************************************************************)
(* The part the echo servers have in common: the client program and the    *)
(* body of customer_service(), recv() - toupper() - send() - memset() -    *)
(* close().  How a worker gets its connection is the business of the       *)
(* modules that extend this one.                                           *)
(*                                                                         *)
(* A connection is named by its client.  TCP keeps the bytes' order and    *)
(* may hand a request to recv() in parts; recv() returns 0 when the client *)
(* has closed and nothing is left, and -1 for a descriptor that is not     *)
(* open (the connection None).  Neither is tested by the code.             *)
(***************************************************************************)
EXTENDS Naturals, Sequences

CONSTANTS
  Clients,  \* the client processes
  Workers,  \* the threads that run customer_service()
  None,     \* no connection
  Size      \* SIZE

ASSUME CoreAssumption == None \notin Clients /\ Size \in Nat \ {0}

VARIABLES
  client,  \* where each client process is: start, connected, sent, closed
  up,      \* the bytes of each connection on their way to the server
  reply,   \* the bytes the server has sent on each connection
  wpc,     \* where each worker is
  buf      \* buf[SIZE] of each worker

coreVars == <<client, up, reply, wpc, buf>>

\* The contents of a byte: see EchoService.
Service == INSTANCE EchoService

\* buf is on the worker's stack and not initialised.
CoreInit(start) ==
  /\ client = [c \in Clients |-> "start"]
  /\ up = [c \in Clients |-> <<>>]
  /\ reply = [c \in Clients |-> <<>>]
  /\ wpc = [w \in Workers |-> start]
  /\ buf = [w \in Workers |-> [i \in 1..Size |-> Service!Junk]]
----------------------------------------------------------------------------
(* client.c *)

\* The kernel puts the connection in the accept queue of the port.
Connect(c) ==
  /\ client[c] = "start"
  /\ client' = [client EXCEPT ![c] = "connected"]
  /\ UNCHANGED <<up, reply, wpc, buf>>

\* All SIZE bytes of string[] are sent, whatever the length of the line.
ClientSend(c) ==
  /\ client[c] = "connected"
  /\ client' = [client EXCEPT ![c] = "sent"]
  /\ up' = [up EXCEPT ![c] = [i \in 1..Size |-> Service!Raw(c, i)]]
  /\ UNCHANGED <<reply, wpc, buf>>

ClientRecv(c) ==
  /\ client[c] = "sent"
  /\ reply[c] # <<>>
  /\ client' = [client EXCEPT ![c] = "closed"]
  /\ UNCHANGED <<up, reply, wpc, buf>>

\* The user kills the client, or its recv() returns 0 because the connection
\* was closed without an answer.
ClientQuit(c) ==
  /\ client[c] \in {"connected", "sent"}
  /\ client' = [client EXCEPT ![c] = "closed"]
  /\ UNCHANGED <<up, reply, wpc, buf>>
----------------------------------------------------------------------------
(* customer_service(), once the worker has a connection *)

\* The first n bytes under way are copied to buf and put in upper case.
RecvInto(w, c, n) ==
  buf' = [buf EXCEPT ![w] = [i \in 1..Size |->
            IF i <= n THEN Service!Upper(up[c][i][1], up[c][i][2]) ELSE @[i]]]

\* recv() of n bytes, n > 0, and toupper() of these bytes.
RecvSome(w, c) ==
  \E n \in 1..Len(up[c]) :
    /\ RecvInto(w, c, n)
    /\ up' = [up EXCEPT ![c] = SubSeq(@, n + 1, Len(@))]

\* recv() returns 0 or -1: the buffer stays as it is.
RecvNothing(c) ==
  /\ c # None => client[c] = "closed" /\ up[c] = <<>>
  /\ UNCHANGED <<up, buf>>

Recv(w, c) ==
  /\ wpc[w] = "recv"
  /\ (c # None /\ RecvSome(w, c)) \/ RecvNothing(c)
  /\ wpc' = [wpc EXCEPT ![w] = "send"]
  /\ UNCHANGED <<client, reply>>

\* All SIZE bytes of buf are sent; a client that is gone does not get them.
SendTo(w, c) ==
  /\ wpc[w] = "send"
  /\ reply' = IF c # None /\ client[c] # "closed"
              THEN [reply EXCEPT ![c] = @ \o buf[w]]
              ELSE reply
  /\ wpc' = [wpc EXCEPT ![w] = "close"]
  /\ UNCHANGED <<client, up, buf>>

\* A worker that goes on without memset().
ClearKeepsBuf(w, next) ==
  /\ wpc[w] = "close"
  /\ wpc' = [wpc EXCEPT ![w] = next]
  /\ UNCHANGED <<client, up, reply, buf>>

\* memset(), and close() as far as the worker is concerned.
Clear(w, next) ==
  /\ wpc[w] = "close"
  /\ buf' = [buf EXCEPT ![w] = [i \in 1..Size |-> Service!Zero]]
  /\ wpc' = [wpc EXCEPT ![w] = next]
  /\ UNCHANGED <<client, up, reply>>
============================================================================
