---------------------------- MODULE EchoWorkers ----------------------------
(***************************************************************************)
(* server models/2, server models/4 and echo_TCP.  Which of the three      *)
(* servers runs is chosen at the start.  In the first two main creates the *)
(* workers and waits for a key; when it returns the process ends with      *)
(* whatever its workers are doing.                                         *)
(*                                                                         *)
(* In server models/2 every worker calls accept() on the one socket.       *)
(* In server models/4 every worker waits with select() for connections on  *)
(* several ports and then calls accept(), which blocks, on each port of    *)
(* the set select() returned, in the order of the ports.  Between select() *)
(* and accept() another worker may take the connection: the set is stale   *)
(* and the worker sleeps in accept() until the port's next client comes.   *)
(* A timeout of select() starts the loop again and changes nothing.        *)
(*                                                                         *)
(* In echo_TCP main itself is the only worker, and never returns.          *)
(***************************************************************************)
EXTENDS EchoCore, FiniteSets, SequencesExt, FiniteSetsExt

CONSTANTS
  Ports,   \* the indices of fd[] in server models/4
  PortOf,  \* the port each client of server models/4 connects to (client.c is
           \* written for the first of them, the server listens on five)
  Lone,    \* the only port of the other two
  Backlog  \* BACKLOG of listen()

ASSUME WorkersAssumption ==
  /\ Ports \subseteq Nat
  /\ PortOf \in [Clients -> Ports]
  /\ Lone \in Ports
  /\ Backlog \in Nat

VARIABLES
  server,  \* the server that runs: "models/2", "models/4" or "echo_TCP"
  queue,   \* for each port, the connections not yet handed to accept()
  ready,   \* the part of readfds each worker still has to look at
  cfd,     \* the connection each worker serves
  running, \* the server process exists
  closed   \* history: the connections that the server has closed

serverVars == <<server, queue, ready, cfd, running, closed>>
vars == <<coreVars, serverVars>>

selects == server = "models/4"

\* In echo_TCP there is one of them.
Hands == IF server = "echo_TCP" THEN {CHOOSE w \in Workers : TRUE} ELSE Workers

Init ==
  /\ server \in {"models/2", "models/4", "echo_TCP"}
  /\ CoreInit(IF selects THEN "select" ELSE "accept")
  /\ queue = [p \in Ports |-> <<>>]
  /\ ready = [w \in Workers |-> {}]
  /\ cfd = [w \in Workers |-> None]
  /\ running = TRUE
  /\ closed = {}

\* The port a client connects to.
PortTo(c) == IF selects THEN PortOf[c] ELSE Lone

\* client.c: Linux queues BACKLOG + 1 connections, the next client waits.
ClientConnect(c) ==
  /\ running
  /\ Len(queue[PortTo(c)]) <= Backlog
  /\ Connect(c)
  /\ queue' = [queue EXCEPT ![PortTo(c)] = Append(@, c)]
  /\ UNCHANGED <<server, ready, cfd, running, closed>>

ClientStep(c) ==
  \/ ClientConnect(c)
  \/ (ClientSend(c) \/ ClientRecv(c) \/ ClientQuit(c)) /\ UNCHANGED serverVars
----------------------------------------------------------------------------
(* customer_service(), or the loop of main() *)

Pending == {p \in Ports : queue[p] # <<>>}

Select(w) ==
  /\ wpc[w] = "select"
  /\ Pending # {}
  /\ ready' = [ready EXCEPT ![w] = Pending]
  /\ wpc' = [wpc EXCEPT ![w] = "accept"]
  /\ UNCHANGED <<client, up, reply, buf, server, queue, cfd, running, closed>>

\* The port the worker is at: the one the loop over i has come to.
Port(w) == IF selects THEN Min(ready[w]) ELSE Lone

\* accept() into a cfd that is global, as fd is: a worker that is serving a
\* connection goes on with the new one.
AcceptShared(w) ==
  /\ wpc[w] = "accept"
  /\ queue[Port(w)] # <<>>
  /\ cfd' = [v \in Workers |-> IF v = w \/ cfd[v] # None THEN Head(queue[Port(w)]) ELSE None]
  /\ queue' = [queue EXCEPT ![Port(w)] = Tail(@)]
  /\ wpc' = [wpc EXCEPT ![w] = "recv"]
  /\ UNCHANGED <<client, up, reply, buf, server, ready, running, closed>>

Accept(w) ==
  /\ wpc[w] = "accept"
  /\ queue[Port(w)] # <<>>
  /\ cfd' = [cfd EXCEPT ![w] = Head(queue[Port(w)])]
  /\ queue' = [queue EXCEPT ![Port(w)] = Tail(@)]
  /\ wpc' = [wpc EXCEPT ![w] = "recv"]
  /\ UNCHANGED <<client, up, reply, buf, server, ready, running, closed>>

RecvSend(w) ==
  (Recv(w, cfd[w]) \/ SendTo(w, cfd[w])) /\ UNCHANGED serverVars

\* A thread that ends with its first client.
CloseEnds(w) ==
  /\ Clear(w, "ended")
  /\ cfd' = [cfd EXCEPT ![w] = None]
  /\ closed' = closed \cup {cfd[w]}
  /\ UNCHANGED <<server, queue, ready, running>>

\* server models/2, echo_TCP: close(), and back to accept().
Close(w) ==
  /\ Clear(w, "accept")
  /\ cfd' = [cfd EXCEPT ![w] = None]
  /\ closed' = closed \cup {cfd[w]}
  /\ UNCHANGED <<server, queue, ready, running>>

\* server models/4: close(), and on to the next port of the set or to select().
CloseNext(w) ==
  LET rest == ready[w] \ {Port(w)}
  IN  /\ Clear(w, IF rest = {} THEN "select" ELSE "accept")
      /\ ready' = [ready EXCEPT ![w] = rest]
      /\ cfd' = [cfd EXCEPT ![w] = None]
      /\ closed' = closed \cup {cfd[w]}
      /\ UNCHANGED <<server, queue, running>>

\* The worker of server models/2, and main of echo_TCP.
AcceptLoop(w) ==
  /\ ~selects
  /\ Accept(w) \/ RecvSend(w) \/ Close(w)

\* The worker of server models/4.
SelectLoop(w) ==
  /\ selects
  /\ Select(w) \/ Accept(w) \/ RecvSend(w) \/ CloseNext(w)

customer_service(w) == running /\ w \in Hands /\ (AcceptLoop(w) \/ SelectLoop(w))

\* getchar() returns and main with it: the threads are gone with their memory,
\* and the kernel closes all connections.
MainReturns ==
  /\ running
  /\ server # "echo_TCP"
  /\ running' = FALSE
  /\ queue' = [p \in Ports |-> <<>>]
  /\ up' = [c \in Clients |-> <<>>]
  /\ wpc' = [w \in Workers |-> "ended"]
  /\ buf' = [w \in Workers |-> <<>>]
  /\ ready' = [w \in Workers |-> {}]
  /\ cfd' = [w \in Workers |-> None]
  /\ closed' = {c \in Clients : client[c] # "start"}
  /\ UNCHANGED <<client, reply, server>>

Next ==
  \/ \E c \in Clients : ClientStep(c)
  \/ \E w \in Workers : customer_service(w)
  \/ MainReturns

Spec == Init /\ [][Next]_vars

\* Threads are scheduled, and a client that has connected sends at once
\* (client.c:27-29): nothing blocks it.  Nobody has to press the key.
Fairness ==
  /\ \A w \in Workers : WF_vars(customer_service(w))
  /\ \A c \in Clients : WF_vars(ClientSend(c) /\ UNCHANGED serverVars)

FairSpec == Spec /\ Fairness
----------------------------------------------------------------------------
Busy == {w \in Workers : cfd[w] # None}

\* Where a connection may be: with a worker, or in a queue.
Held == {cfd[w] : w \in Busy}
Queued == UNION {Range(queue[p]) : p \in Ports}

\* The workers of server models/4 that sleep in accept() on a port where
\* nobody waits.
Asleep == {w \in Workers : selects /\ wpc[w] = "accept" /\ queue[Port(w)] = <<>>}

\* Types: what is on its way to a server, or was sent by it, fits a buffer, and
\* a worker looks at ports only where select() was called.
TypeOK ==
  /\ client \in [Clients -> {"start", "connected", "sent", "closed"}]
  /\ \A c \in Clients : Len(up[c]) <= Size /\ Len(reply[c]) <= Size
  /\ wpc \in [Workers -> {"select", "accept", "recv", "send", "close", "ended"}]
  /\ server \in {"models/2", "models/4", "echo_TCP"}
  /\ queue \in [Ports -> Seq(Clients)]
  /\ ready \in [Workers -> SUBSET Ports]
  /\ \A w \in Workers : ready[w] # {} <=> selects /\ wpc[w] \notin {"select", "ended"}
  /\ cfd \in [Workers -> Clients \cup {None}]
  /\ running \in BOOLEAN
  /\ closed \subseteq Clients

\* However many workers one connection wakes, only one of them serves it, as
\* a connection of the port that was being looked at, and no connection is
\* forgotten: every one that was made waits in a queue, is with a worker or has
\* been closed, one of the three (2/server.c:27-39, 4/server.c:49-62).
OneServerEach ==
  /\ \A v, w \in Busy : cfd[v] = cfd[w] => v = w
  /\ \A w \in Busy : PortTo(cfd[w]) = Port(w)
  /\ Queued \cap Held = {} /\ Queued \cap closed = {} /\ Held \cap closed = {}
  /\ {c \in Clients : client[c] # "start"} = Queued \cup Held \cup closed

\* The servers keep the promise of EchoService (2/server.c:25-41,
\* 4/server.c:29-66), stale sets included: the buffers are reused from client
\* to client and no byte of one reaches another.
KeepsPromise == Service!Spec

\* Every request is answered unless its client or the server goes away, with
\* one exception: in server models/4 a request is left lying when every single
\* worker sleeps in accept() on some other port (4/server.c:47-50).
AnsweredUnlessAllAsleep ==
  \A c \in Clients :
    client[c] = "sent" ~>
      (reply[c] # <<>> \/ client[c] = "closed" \/ ~running \/ Asleep = Workers)
============================================================================
