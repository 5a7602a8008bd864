------------------------- MODULE EchoWorkersProofs -------------------------
(***************************************************************************)
(* Proofs about server models/2, server models/4 and echo_TCP for any      *)
(* numbers of clients, workers and ports.                                  *)
(***************************************************************************)
EXTENDS EchoWorkers, WellFoundedInduction, TLAPS

\* What the variables hold; a worker has a connection from accept() to close()
\* and a set of ports from select() to the last of them.
WorkerTypes ==
  /\ client \in [Clients -> {"start", "connected", "sent", "closed"}]
  /\ DOMAIN up = Clients /\ DOMAIN reply = Clients /\ DOMAIN buf = Workers
  /\ wpc \in [Workers -> {"select", "accept", "recv", "send", "close", "ended"}]
  /\ server \in {"models/2", "models/4", "echo_TCP"}
  /\ queue \in [Ports -> Seq(Clients)]
  /\ ready \in [Workers -> SUBSET Ports]
  /\ cfd \in [Workers -> Clients \cup {None}]
  /\ running \in BOOLEAN
  /\ closed \in SUBSET Clients
  /\ \A w \in Workers :
       /\ cfd[w] # None <=> wpc[w] \in {"recv", "send", "close"}
       /\ selects /\ wpc[w] \notin {"select", "ended"} => ready[w] # {}

\* What a client sends, and what a buffer holds that nobody wrote to.
Request(c) == [i \in 1..Size |-> Service!Raw(c, i)]
Blank == [1..Size -> {Service!Zero, Service!Junk}]

\* Nobody has read from the connection or written to it.
Untouched(c) == reply[c] = <<>> /\ up[c] \in {<<>>, Request(c)}

\* A connection waits once, at the port of its client.
QueuedOnce ==
  \A p \in Ports : \A i \in 1..Len(queue[p]) :
    /\ PortTo(queue[p][i]) = p
    /\ client[queue[p][i]] # "start"
    /\ Untouched(queue[p][i])
    /\ \A j \in 1..Len(queue[p]) : queue[p][i] = queue[p][j] => i = j

\* A connection that is served has left the queues, for one worker alone.
ServedOnce ==
  /\ \A v, w \in Workers : cfd[v] = cfd[w] /\ cfd[v] # None => v = w
  /\ \A w \in Workers : cfd[w] # None =>
       /\ PortTo(cfd[w]) = Port(w)
       /\ client[cfd[w]] # "start"
       /\ \A p \in Ports : \A i \in 1..Len(queue[p]) : queue[p][i] # cfd[w]

\* A connection that was made is at the server until it is closed.
AtServer(c) ==
  \/ \E w \in Workers : cfd[w] = c
  \/ \E p \in Ports : \E i \in 1..Len(queue[p]) : queue[p][i] = c

Accounted ==
  \A c \in Clients :
    /\ c \in closed => client[c] # "start" /\ ~AtServer(c)
    /\ client[c] # "start" => c \in closed \/ AtServer(c)

\* A buffer holds nobody's bytes before recv() and an echo of the client to be
\* answered behind it; a connection is untouched until recv() was called.
BufferOwn ==
  /\ \A c \in Clients : client[c] \in {"start", "connected"} => reply[c] = <<>> /\ up[c] = <<>>
  /\ \A w \in Workers :
       /\ wpc[w] \in {"select", "accept", "recv"} => buf[w] \in Blank
       /\ wpc[w] = "recv" => Untouched(cfd[w])
       /\ wpc[w] = "send" /\ client[cfd[w]] # "closed" =>
            client[cfd[w]] = "sent" /\ reply[cfd[w]] = <<>> /\ buf[w] \in Service!Echoes(cfd[w])

WorkersInv == WorkerTypes /\ QueuedOnce /\ ServedOnce /\ Accounted /\ BufferOwn
----------------------------------------------------------------------------
\* A set of ports that is not empty has a first one.
LEMMA FirstPort ==
  ASSUME NEW S \in SUBSET Ports, S # {}
  PROVE  Min(S) \in S
<1>1. S \in SUBSET Nat
  BY WorkersAssumption
<1>2. PICK x \in S : \A y \in S : ~(<<y, x>> \in OpToRel(<, Nat))
  BY <1>1, NatLessThanWellFounded, WFMin
<1>3. ASSUME NEW y \in S PROVE x <= y
  <2>1. x \in Nat /\ y \in Nat /\ <<y, x>> \in Nat \X Nat
    BY <1>1
  <2>2. ~(y < x)
    BY <1>2, <2>1 DEF OpToRel
  <2> QED
    BY <2>1, <2>2
<1> QED
  BY <1>3 DEF Min

\* A worker between select() and the next one is at a port.
LEMMA AtPort ==
  ASSUME WorkerTypes, NEW w \in Workers, wpc[w] \in {"accept", "recv", "send", "close"}
  PROVE  Port(w) \in Ports
BY FirstPort, WorkersAssumption DEF WorkerTypes, Port

\* The invariant contains what the runs check.
LEMMA InvServes == WorkersInv => OneServerEach
<1> SUFFICES ASSUME WorkersInv PROVE OneServerEach
  OBVIOUS
<1>1. \A p \in Ports : DOMAIN queue[p] = 1..Len(queue[p])
  BY DEF WorkersInv, WorkerTypes
<1>2. /\ \A c : c \in Held <=> c # None /\ \E w \in Workers : cfd[w] = c
      /\ \A c : c \in Queued <=> \E p \in Ports : \E i \in 1..Len(queue[p]) : queue[p][i] = c
  BY <1>1 DEF Held, Queued, Busy, Range
<1>3. Held \subseteq Clients /\ Queued \subseteq Clients /\ closed \subseteq Clients
  BY <1>2 DEF WorkersInv, WorkerTypes
<1>4. \A c \in Clients : AtServer(c) <=> c \in Queued \cup Held
  BY <1>2, CoreAssumption DEF AtServer
<1>5. Queued \cap Held = {}
  BY <1>2 DEF WorkersInv, ServedOnce
<1>6. Queued \cap closed = {} /\ Held \cap closed = {}
  BY <1>3, <1>4 DEF WorkersInv, Accounted
<1>7. \A c \in Clients : client[c] # "start" <=> c \in Queued \cup Held \cup closed
  <2>1. \A c \in Queued : client[c] # "start"
    BY <1>2 DEF WorkersInv, QueuedOnce
  <2>2. \A c \in Held : client[c] # "start"
    BY <1>2 DEF WorkersInv, ServedOnce
  <2> QED
    BY <1>4, <2>1, <2>2 DEF WorkersInv, Accounted
<1>8. /\ \A v, w \in Busy : cfd[v] = cfd[w] => v = w
      /\ \A w \in Busy : PortTo(cfd[w]) = Port(w)
  BY DEF WorkersInv, ServedOnce, Busy
<1> QED
  BY <1>3, <1>5, <1>6, <1>7, <1>8 DEF OneServerEach

\* A step that moves no connection in or out of the server.
LEMMA StillAccounted ==
  ASSUME Accounted, closed' = closed,
         \A d \in Clients : client'[d] = "start" <=> client[d] = "start",
         \A d \in Clients : AtServer(d)' <=> AtServer(d)
  PROVE  Accounted'
BY DEF Accounted

\* At the start nobody waits and all buffers are blank.
LEMMA WorkersInitInv == Init => WorkersInv
<1> SUFFICES ASSUME Init PROVE WorkersInv
  OBVIOUS
<1>1. WorkerTypes
  BY DEF Init, CoreInit, WorkerTypes, selects
<1>2. \A p \in Ports : Len(queue[p]) = 0
  BY DEF Init
<1>3. QueuedOnce /\ ServedOnce
  BY <1>2 DEF Init, QueuedOnce, ServedOnce
<1>4. BufferOwn
  BY DEF Init, CoreInit, BufferOwn, Blank
<1>5. Accounted
  BY DEF Init, CoreInit, Accounted
<1> QED
  BY <1>1, <1>3, <1>4, <1>5 DEF WorkersInv
----------------------------------------------------------------------------
(* The clients *)

\* connect(): the connection is new in every place.
LEMMA ConnectInv ==
  ASSUME WorkersInv, NEW c \in Clients, ClientConnect(c)
  PROVE  WorkersInv'
<1> DEFINE p == PortTo(c)
<1> USE DEF ClientConnect, Connect
<1>1. p \in Ports /\ queue[p] \in Seq(Clients)
  BY WorkersAssumption DEF WorkersInv, WorkerTypes, PortTo
<1>2. queue' \in [Ports -> Seq(Clients)]
  <2>1. Append(queue[p], c) \in Seq(Clients)
    BY <1>1
  <2> QED
    BY <2>1 DEF WorkersInv, WorkerTypes
<1>3. WorkerTypes'
  BY <1>2 DEF WorkersInv, WorkerTypes, selects
<1>4. /\ Len(queue'[p]) = Len(queue[p]) + 1 /\ Len(queue[p]) \in Nat
      /\ \A i \in 1..Len(queue'[p]) :
           queue'[p][i] = IF i <= Len(queue[p]) THEN queue[p][i] ELSE c
      /\ \A q \in Ports \ {p} : queue'[q] = queue[q]
  BY <1>1 DEF WorkersInv, WorkerTypes
<1>5. /\ \A q \in Ports : \A i \in 1..Len(queue[q]) : queue[q][i] \in Clients \ {c}
      /\ \A w \in Workers : cfd[w] # c
  BY CoreAssumption DEF WorkersInv, WorkerTypes, QueuedOnce, ServedOnce
<1>6. /\ \A d : PortTo(d)' = PortTo(d) /\ (Untouched(d)' <=> Untouched(d))
      /\ \A w : Port(w)' = Port(w)
      /\ \A d \in Clients \ {c} : client'[d] = client[d]
      /\ client'[c] = "connected" /\ Untouched(c)
  BY DEF PortTo, Port, selects, Untouched, Request, WorkersInv, WorkerTypes, BufferOwn
<1> HIDE DEF p
<1>7. QueuedOnce'
  <2> SUFFICES ASSUME NEW q \in Ports, NEW i \in 1..Len(queue'[q])
               PROVE  /\ PortTo(queue'[q][i]) = q
                      /\ client'[queue'[q][i]] # "start"
                      /\ Untouched(queue'[q][i])
                      /\ \A j \in 1..Len(queue'[q]) : queue'[q][i] = queue'[q][j] => i = j
    BY <1>6 DEF QueuedOnce
  <2>1. CASE q # p
    BY <1>4, <1>5, <1>6, <2>1 DEF WorkersInv, QueuedOnce
  <2>2. CASE q = p
    BY <1>4, <1>5, <1>6, <2>2 DEF WorkersInv, QueuedOnce, p
  <2> QED
    BY <2>1, <2>2
<1>8. ServedOnce'
  BY <1>4, <1>5, <1>6 DEF WorkersInv, WorkerTypes, ServedOnce
<1>9. BufferOwn'
  BY <1>5, <1>6 DEF WorkersInv, WorkerTypes, BufferOwn, Blank
<1>10. Accounted'
  <2>1. \A d \in Clients : AtServer(d)' <=> AtServer(d) \/ d = c
    <3>1. \A i \in 1..Len(queue[p]) : i \in 1..Len(queue'[p]) /\ queue'[p][i] = queue[p][i]
      BY <1>4
    <3>2. Len(queue'[p]) \in 1..Len(queue'[p]) /\ queue'[p][Len(queue'[p])] = c
      BY <1>4
    <3>3. ASSUME NEW d \in Clients, AtServer(d) PROVE AtServer(d)'
      BY <1>4, <3>1, <3>3 DEF AtServer
    <3>4. AtServer(c)'
      BY <1>1, <3>2 DEF AtServer, p
    <3>5. ASSUME NEW d \in Clients, AtServer(d)', d # c PROVE AtServer(d)
      <4>1. CASE \E w \in Workers : cfd[w] = d
        BY <4>1 DEF AtServer
      <4>2. CASE \E q \in Ports : \E i \in 1..Len(queue'[q]) : queue'[q][i] = d
        BY <1>4, <3>5, <4>2 DEF AtServer
      <4> QED
        BY <3>5, <4>1, <4>2 DEF AtServer
    <3> QED
      BY <3>3, <3>4, <3>5
  <2>2. c \notin closed /\ closed' = closed
    BY DEF WorkersInv, Accounted
  <2> QED
    BY <1>6, <2>1, <2>2 DEF WorkersInv, Accounted
<1> QED
  BY <1>3, <1>7, <1>8, <1>9, <1>10 DEF WorkersInv

\* send(): the whole request of this client is under way.
LEMMA ClientSendInv ==
  ASSUME WorkersInv, NEW c \in Clients, ClientSend(c), UNCHANGED serverVars
  PROVE  WorkersInv'
<1> USE DEF ClientSend, serverVars
<1>1. WorkerTypes'
  BY DEF WorkersInv, WorkerTypes, selects
<1>2. /\ reply[c] = <<>> /\ up' = [up EXCEPT ![c] = Request(c)]
      /\ \A d : PortTo(d)' = PortTo(d) /\ \A w : Port(w)' = Port(w)
  BY DEF WorkersInv, WorkerTypes, BufferOwn, Request, PortTo, Port, selects
<1>3. \A d \in Clients : Untouched(d) => Untouched(d)'
  BY <1>2 DEF WorkersInv, WorkerTypes, Untouched, Request
<1>4. \A q \in Ports : \A i \in 1..Len(queue[q]) : queue[q][i] \in Clients
  BY DEF WorkersInv, WorkerTypes
<1>5. QueuedOnce' /\ ServedOnce'
  BY <1>2, <1>3, <1>4 DEF WorkersInv, WorkerTypes, QueuedOnce, ServedOnce
<1>6. BufferOwn'
  BY <1>2, <1>3 DEF WorkersInv, WorkerTypes, BufferOwn, Blank
<1>7. Accounted'
  BY StillAccounted DEF WorkersInv, WorkerTypes, AtServer
<1> QED
  BY <1>1, <1>5, <1>6, <1>7 DEF WorkersInv

\* A client that ends leaves its connection as it is.
LEMMA ClientEndInv ==
  ASSUME WorkersInv, NEW c \in Clients, ClientRecv(c) \/ ClientQuit(c), UNCHANGED serverVars
  PROVE  WorkersInv'
<1> USE DEF ClientRecv, ClientQuit, serverVars
<1>1. WorkerTypes' /\ client' = [client EXCEPT ![c] = "closed"]
  BY DEF WorkersInv, WorkerTypes, selects
<1>2. /\ \A d : PortTo(d)' = PortTo(d) /\ (Untouched(d)' <=> Untouched(d))
      /\ \A w : Port(w)' = Port(w)
  BY DEF PortTo, Port, selects, Untouched, Request
<1>3. \A q \in Ports : \A i \in 1..Len(queue[q]) : queue[q][i] \in Clients
  BY DEF WorkersInv, WorkerTypes
<1>4. QueuedOnce' /\ ServedOnce'
  BY <1>1, <1>2, <1>3 DEF WorkersInv, WorkerTypes, QueuedOnce, ServedOnce
<1>5. BufferOwn'
  BY <1>1, <1>2 DEF WorkersInv, WorkerTypes, BufferOwn, Blank
<1>6. Accounted'
  BY <1>1, StillAccounted DEF WorkersInv, WorkerTypes, AtServer
<1> QED
  BY <1>1, <1>4, <1>5, <1>6 DEF WorkersInv
----------------------------------------------------------------------------
(* The workers *)

\* A step that leaves the server, the queues and the ports of the workers.
LEMMA SameNames ==
  ASSUME UNCHANGED server
  PROVE  /\ selects' = selects
         /\ \A d : PortTo(d)' = PortTo(d)
         /\ \A w : ready'[w] = ready[w] => Port(w)' = Port(w)
BY DEF selects, PortTo, Port

\* select() only fills the worker's set of ports.
LEMMA SelectInv ==
  ASSUME WorkersInv, NEW w \in Workers, Select(w), selects
  PROVE  WorkersInv'
<1> USE DEF Select
<1>1. Pending \in SUBSET Ports /\ Pending # {}
  BY DEF Pending
<1>2. WorkerTypes'
  BY <1>1 DEF WorkersInv, WorkerTypes, selects
<1>3. /\ \A d : PortTo(d)' = PortTo(d) /\ (Untouched(d)' <=> Untouched(d))
      /\ \A v \in Workers : cfd[v] # None => v # w /\ ready'[v] = ready[v] /\ Port(v)' = Port(v)
  BY SameNames DEF WorkersInv, WorkerTypes, Untouched, Request
<1>4. QueuedOnce' /\ ServedOnce'
  BY <1>3 DEF WorkersInv, QueuedOnce, ServedOnce
<1>5. BufferOwn'
  BY <1>3 DEF WorkersInv, WorkerTypes, BufferOwn, Blank
<1>6. Accounted'
  BY StillAccounted DEF WorkersInv, AtServer
<1> QED
  BY <1>2, <1>4, <1>5, <1>6 DEF WorkersInv

\* accept() moves the oldest connection of the port to this worker.
LEMMA AcceptInv ==
  ASSUME WorkersInv, NEW w \in Workers, Accept(w)
  PROVE  WorkersInv'
<1> DEFINE p == Port(w)
           c == queue[p][1]
<1> USE DEF Accept
<1>1. p \in Ports /\ queue[p] \in Seq(Clients) /\ queue[p] # <<>>
  BY AtPort DEF WorkersInv, WorkerTypes
<1>2. /\ Len(queue[p]) \in Nat \ {0} /\ Head(queue[p]) = c /\ c \in Clients /\ c # None
      /\ Tail(queue[p]) \in Seq(Clients) /\ Len(Tail(queue[p])) = Len(queue[p]) - 1
      /\ \A i \in 1..Len(Tail(queue[p])) : Tail(queue[p])[i] = queue[p][i + 1]
  BY <1>1, CoreAssumption
<1>3. queue' \in [Ports -> Seq(Clients)] /\ queue'[p] = Tail(queue[p])
      /\ \A q \in Ports \ {p} : queue'[q] = queue[q]
  BY <1>1, <1>2 DEF WorkersInv, WorkerTypes
<1>3a. /\ \A i \in 1..Len(queue'[p]) : i + 1 \in 2..Len(queue[p]) /\ queue'[p][i] = queue[p][i + 1]
       /\ 2..Len(queue[p]) \subseteq 1..Len(queue[p])
  <2>1. Len(queue'[p]) = Len(queue[p]) - 1
    BY <1>2, <1>3
  <2> QED
    BY <1>2, <1>3, <2>1
<1>4. cfd' = [cfd EXCEPT ![w] = c] /\ wpc' = [wpc EXCEPT ![w] = "recv"]
  BY <1>2
<1>5. WorkerTypes'
  BY <1>2, <1>3, <1>4 DEF WorkersInv, WorkerTypes, selects
<1>6. /\ \A d : PortTo(d)' = PortTo(d) /\ (Untouched(d)' <=> Untouched(d))
      /\ \A v \in Workers : Port(v)' = Port(v)
  BY SameNames DEF WorkersInv, WorkerTypes, Untouched, Request
<1>7. /\ PortTo(c) = p /\ client[c] # "start" /\ Untouched(c)
      /\ \A j \in 2..Len(queue[p]) : queue[p][j] # c
      /\ \A q \in Ports \ {p} : \A j \in 1..Len(queue[q]) : queue[q][j] # c
      /\ \A v \in Workers : cfd[v] # c
  BY <1>1, <1>2 DEF WorkersInv, QueuedOnce, ServedOnce
<1> HIDE DEF p, c
<1>8. QueuedOnce'
  <2> SUFFICES ASSUME NEW q \in Ports, NEW i \in 1..Len(queue'[q])
               PROVE  /\ PortTo(queue'[q][i]) = q
                      /\ client[queue'[q][i]] # "start"
                      /\ Untouched(queue'[q][i])
                      /\ \A j \in 1..Len(queue'[q]) : queue'[q][i] = queue'[q][j] => i = j
    BY <1>6 DEF QueuedOnce
  <2>1. CASE q # p
    BY <1>3, <2>1 DEF WorkersInv, QueuedOnce
  <2>2. CASE q = p
    <3>1. i + 1 \in 1..Len(queue[p]) /\ queue'[p][i] = queue[p][i + 1]
      BY <1>3a, <2>2
    <3>2. \A j \in 1..Len(queue'[p]) : j + 1 \in 1..Len(queue[p]) /\ queue'[p][j] = queue[p][j + 1]
      BY <1>3a
    <3>3. \A k \in 1..Len(queue[p]) : queue[p][i + 1] = queue[p][k] => i + 1 = k
      BY <1>1, <3>1 DEF WorkersInv, QueuedOnce
    <3>4. /\ PortTo(queue[p][i + 1]) = p
          /\ client[queue[p][i + 1]] # "start"
          /\ Untouched(queue[p][i + 1])
      BY <1>1, <3>1 DEF WorkersInv, QueuedOnce
    <3>5. ASSUME NEW j \in 1..Len(queue'[p]), queue'[p][i] = queue'[p][j] PROVE i = j
      <4>1. i + 1 = j + 1
        BY <3>1, <3>2, <3>3, <3>5
      <4> QED
        BY <4>1, <2>2
    <3> QED
      BY <2>2, <3>1, <3>4, <3>5
  <2> QED
    BY <2>1, <2>2
<1>9. /\ \A q \in Ports : \A i \in 1..Len(queue'[q]) : queue'[q][i] # c
      /\ \A q \in Ports : \A i \in 1..Len(queue'[q]) : \E j \in 1..Len(queue[q]) : queue'[q][i] = queue[q][j]
  <2> SUFFICES ASSUME NEW q \in Ports, NEW i \in 1..Len(queue'[q])
               PROVE  queue'[q][i] # c /\ \E j \in 1..Len(queue[q]) : queue'[q][i] = queue[q][j]
    OBVIOUS
  <2>1. CASE q # p
    BY <1>3, <1>7, <2>1
  <2>2. CASE q = p
    <3>1. i + 1 \in 2..Len(queue[p]) /\ queue'[q][i] = queue[p][i + 1]
      BY <1>3a, <2>2
    <3> QED
      BY <1>3a, <1>7, <2>2, <3>1
  <2> QED
    BY <2>1, <2>2
<1>10. ServedOnce'
  BY <1>4, <1>6, <1>7, <1>9 DEF WorkersInv, WorkerTypes, ServedOnce, p
<1>11. BufferOwn'
  BY <1>4, <1>6, <1>7 DEF WorkersInv, WorkerTypes, BufferOwn, Blank
<1>12. Accounted'
  <2>1. ASSUME NEW d \in Clients, AtServer(d) PROVE AtServer(d)'
    <3>1. CASE d = c
      BY <1>4, <3>1 DEF AtServer, WorkersInv, WorkerTypes
    <3>2. CASE \E v \in Workers : cfd[v] = d
      <4>1. PICK v \in Workers : cfd[v] = d
        BY <3>2
      <4>2. v # w
        BY <4>1, CoreAssumption DEF WorkersInv, WorkerTypes
      <4> QED
        BY <1>4, <4>1, <4>2 DEF AtServer
    <3>3. CASE d # c /\ \E q \in Ports : \E i \in 1..Len(queue[q]) : queue[q][i] = d
      <4>0. PICK q \in Ports : \E i \in 1..Len(queue[q]) : queue[q][i] = d
        BY <3>3
      <4>1. PICK i \in 1..Len(queue[q]) : queue[q][i] = d
        BY <4>0
      <4>2. CASE q # p
        BY <1>3, <4>1, <4>2 DEF AtServer
      <4>3. CASE q = p
        <5>1. i # 1
          BY <3>3, <4>1, <4>3 DEF c
        <5>2. i - 1 \in 1..Len(queue'[p]) /\ (i - 1) + 1 = i
          <6>1. Len(queue'[p]) = Len(queue[p]) - 1 /\ i \in 1..Len(queue[p])
            BY <1>2, <1>3, <4>3
          <6> QED
            BY <1>2, <5>1, <6>1
        <5>3. queue'[p][i - 1] = d
          BY <1>3a, <4>1, <4>3, <5>2
        <5> QED
          BY <4>3, <5>2, <5>3 DEF AtServer
      <4> QED
        BY <4>2, <4>3
    <3> QED
      BY <2>1, <3>1, <3>2, <3>3 DEF AtServer
  <2>2. ASSUME NEW d \in Clients, AtServer(d)' PROVE AtServer(d)
    <3>1. AtServer(c)
      BY <1>1, <1>2 DEF AtServer, c, p
    <3>2. CASE \E v \in Workers : cfd'[v] = d
      BY <1>4, <3>1, <3>2 DEF AtServer, WorkersInv, WorkerTypes
    <3>3. CASE \E q \in Ports : \E i \in 1..Len(queue'[q]) : queue'[q][i] = d
      BY <1>9, <3>3 DEF AtServer
    <3> QED
      BY <2>2, <3>2, <3>3 DEF AtServer
  <2> QED
    BY <2>1, <2>2, StillAccounted DEF WorkersInv
<1> QED
  BY <1>5, <1>8, <1>10, <1>11, <1>12 DEF WorkersInv

\* The buffer of a worker that has received n bytes of an untouched request.
LEMMA ReceivedIsEcho ==
  ASSUME NEW c \in Clients, NEW w \in Workers, NEW n \in 1..Size,
         DOMAIN buf = Workers, buf[w] \in Blank, up[c] = Request(c), RecvInto(w, c, n)
  PROVE  buf'[w] \in Service!Echoes(c)
<1>1. \A i \in 1..Size : up[c][i][1] = c /\ up[c][i][2] = i
  BY DEF Request, Service!Raw
<1>2. buf'[w] = [i \in 1..Size |-> IF i <= n THEN Service!Upper(c, i) ELSE buf[w][i]]
  BY <1>1 DEF RecvInto
<1> DEFINE Mixed(m, rest) == [i \in 1..Size |-> IF i <= m THEN Service!Upper(c, i) ELSE rest[i]]
<1>3. Service!Echoes(c) = {Mixed(m, rest) : m \in 1..Size, rest \in Blank}
  BY DEF Service!Echoes, Blank
<1>4. buf'[w] = Mixed(n, buf[w])
  BY <1>2
<1> HIDE DEF Mixed
<1> QED
  BY <1>3, <1>4

\* recv(): afterwards the worker's buffer is its client's.
LEMMA RecvInv ==
  ASSUME WorkersInv, NEW w \in Workers, Recv(w, cfd[w]), UNCHANGED serverVars
  PROVE  WorkersInv'
<1> DEFINE c == cfd[w]
<1> USE DEF Recv, serverVars
<1>1. c \in Clients /\ c # None /\ Untouched(c) /\ buf[w] \in Blank
  BY DEF WorkersInv, WorkerTypes, BufferOwn
<1>2. /\ \A v \in Workers : v # w => wpc'[v] = wpc[v] /\ buf'[v] = buf[v] /\ cfd[v] # c
      /\ wpc'[w] = "send"
      /\ \A d \in Clients \ {c} : up'[d] = up[d]
  BY <1>1 DEF WorkersInv, WorkerTypes, ServedOnce, RecvSome, RecvInto, RecvNothing
<1>3. WorkerTypes'
  <2>1. DOMAIN up' = Clients /\ DOMAIN buf' = Workers
    BY DEF RecvSome, RecvInto, RecvNothing, WorkersInv, WorkerTypes
  <2> QED
    BY <2>1 DEF WorkersInv, WorkerTypes, selects
<1>4. /\ \A d : PortTo(d)' = PortTo(d) /\ \A v : Port(v)' = Port(v)
      /\ \A d \in Clients \ {c} : Untouched(d)' <=> Untouched(d)
  BY <1>2 DEF PortTo, Port, selects, Untouched, Request
<1>5. \A q \in Ports : \A i \in 1..Len(queue[q]) : queue[q][i] \in Clients \ {c}
  BY <1>1 DEF WorkersInv, WorkerTypes, ServedOnce
<1>6. QueuedOnce' /\ ServedOnce'
  BY <1>4, <1>5 DEF WorkersInv, QueuedOnce, ServedOnce
<1>7. client[c] = "closed" \/ (client[c] = "sent" /\ buf'[w] \in Service!Echoes(c))
  <2>1. CASE RecvNothing(c)
    BY <1>1, <2>1 DEF RecvNothing
  <2>2. CASE RecvSome(w, c)
    <3>1. PICK n \in 1..Len(up[c]) : RecvInto(w, c, n)
      BY <2>2 DEF RecvSome
    <3>2. up[c] = Request(c) /\ n \in 1..Size
      BY <1>1, <3>1, CoreAssumption DEF Untouched, Request
    <3>3. client[c] \in {"sent", "closed"}
      BY <1>1, <3>2, CoreAssumption DEF WorkersInv, WorkerTypes, BufferOwn, Request
    <3> QED
      BY <1>1, <3>1, <3>2, <3>3, ReceivedIsEcho DEF WorkersInv, WorkerTypes
  <2> QED
    BY <2>1, <2>2
<1>8. BufferOwn'
  <2>1. ASSUME NEW d \in Clients, client[d] \in {"start", "connected"}
        PROVE  reply[d] = <<>> /\ up'[d] = <<>>
    BY <1>2, <1>7, <2>1 DEF WorkersInv, BufferOwn
  <2> QED
    BY <1>1, <1>2, <1>4, <1>7, <2>1 DEF WorkersInv, WorkerTypes, BufferOwn, Blank, Untouched
<1>9. Accounted'
  BY StillAccounted DEF WorkersInv, AtServer
<1> QED
  BY <1>3, <1>6, <1>8, <1>9 DEF WorkersInv

\* send() answers the one connection the worker has.
LEMMA SendToInv ==
  ASSUME WorkersInv, NEW w \in Workers, SendTo(w, cfd[w]), UNCHANGED serverVars
  PROVE  WorkersInv'
<1> DEFINE c == cfd[w]
<1> USE DEF SendTo, serverVars
<1>1. c \in Clients /\ c # None /\ \A v \in Workers \ {w} : cfd[v] # c
  BY DEF WorkersInv, WorkerTypes, ServedOnce
<1>2. WorkerTypes'
  BY DEF WorkersInv, WorkerTypes, selects
<1>3. /\ \A d : PortTo(d)' = PortTo(d) /\ \A v : Port(v)' = Port(v)
      /\ \A d \in Clients \ {c} : reply'[d] = reply[d] /\ (Untouched(d)' <=> Untouched(d))
  BY DEF PortTo, Port, selects, Untouched, Request
<1>4. \A q \in Ports : \A i \in 1..Len(queue[q]) : queue[q][i] \in Clients \ {c}
  BY <1>1 DEF WorkersInv, WorkerTypes, ServedOnce
<1>5. QueuedOnce' /\ ServedOnce'
  BY <1>3, <1>4 DEF WorkersInv, QueuedOnce, ServedOnce
<1>6. reply'[c] = reply[c] \/ client[c] = "sent"
  BY DEF WorkersInv, BufferOwn
<1>7. BufferOwn'
  BY <1>1, <1>3, <1>6 DEF WorkersInv, WorkerTypes, BufferOwn, Blank
<1>8. Accounted'
  BY StillAccounted DEF WorkersInv, AtServer
<1> QED
  BY <1>2, <1>5, <1>7, <1>8 DEF WorkersInv

\* memset() and close(), in both loops: the buffer is blank again.
LEMMA CloseInv ==
  ASSUME WorkersInv, NEW w \in Workers,
         (Close(w) /\ ~selects) \/ (CloseNext(w) /\ selects)
  PROVE  WorkersInv'
<1> USE DEF Close, CloseNext, Clear
<1>1. WorkerTypes'
  <2>1. /\ cfd' = [cfd EXCEPT ![w] = None] /\ UNCHANGED <<client, up, reply, server, queue, running>>
        /\ DOMAIN buf' = Workers /\ closed' \in SUBSET Clients
    BY DEF WorkersInv, WorkerTypes
  <2>2. CASE Close(w) /\ ~selects
    BY <2>1, <2>2 DEF WorkersInv, WorkerTypes, selects
  <2>3. CASE CloseNext(w) /\ selects
    <3> DEFINE rest == ready[w] \ {Port(w)}
    <3>1. /\ wpc' = [wpc EXCEPT ![w] = IF rest = {} THEN "select" ELSE "accept"]
          /\ ready' = [ready EXCEPT ![w] = rest]
          /\ rest \in SUBSET Ports
      BY <2>3 DEF WorkersInv, WorkerTypes
    <3> HIDE DEF rest, Close, CloseNext, Clear
    <3>2. ready' \in [Workers -> SUBSET Ports]
      BY <3>1 DEF WorkersInv, WorkerTypes
    <3>3. \A v \in Workers : wpc'[v] \notin {"select", "ended"} => ready'[v] # {}
      BY <2>3, <3>1 DEF WorkersInv, WorkerTypes
    <3> QED
      BY <2>1, <3>1, <3>2, <3>3 DEF WorkersInv, WorkerTypes, selects
  <2> QED
    BY <2>2, <2>3
<1>2. /\ cfd' = [cfd EXCEPT ![w] = None] /\ UNCHANGED <<client, up, reply, queue, server>>
      /\ wpc'[w] \in {"select", "accept"} /\ buf'[w] \in Blank
      /\ \A v \in Workers \ {w} : wpc'[v] = wpc[v] /\ buf'[v] = buf[v] /\ ready'[v] = ready[v]
  BY DEF WorkersInv, WorkerTypes, Blank
<1>3. /\ \A d : PortTo(d)' = PortTo(d) /\ (Untouched(d)' <=> Untouched(d))
      /\ \A v \in Workers \ {w} : Port(v)' = Port(v)
  BY <1>2, SameNames DEF Untouched, Request
<1>4. QueuedOnce' /\ ServedOnce'
  BY <1>2, <1>3 DEF WorkersInv, WorkerTypes, QueuedOnce, ServedOnce
<1>5. BufferOwn'
  BY <1>2, <1>3 DEF WorkersInv, WorkerTypes, BufferOwn, Blank
<1>6. Accounted'
  <2> DEFINE c == cfd[w]
  <2>1. closed' = closed \cup {c} /\ c \in Clients /\ c # None /\ client[c] # "start"
    BY DEF WorkersInv, WorkerTypes, ServedOnce
  <2>2. \A d \in Clients : AtServer(d)' <=> AtServer(d) /\ d # c
    BY <1>2, <2>1, CoreAssumption DEF WorkersInv, WorkerTypes, ServedOnce, AtServer
  <2> HIDE DEF c
  <2> QED
    BY <1>2, <2>1, <2>2 DEF WorkersInv, Accounted
<1> QED
  BY <1>1, <1>4, <1>5, <1>6 DEF WorkersInv

\* main returns: nothing is queued or served any more.
LEMMA MainReturnsInv == ASSUME WorkersInv, MainReturns PROVE WorkersInv'
<1> USE DEF MainReturns
<1>1. WorkerTypes'
  <2>1. /\ queue' \in [Ports -> Seq(Clients)]
        /\ DOMAIN up' = Clients /\ DOMAIN buf' = Workers
        /\ ready' \in [Workers -> SUBSET Ports]
    OBVIOUS
  <2>2. /\ wpc' \in [Workers -> {"select", "accept", "recv", "send", "close", "ended"}]
        /\ cfd' \in [Workers -> Clients \cup {None}]
        /\ \A w \in Workers : cfd'[w] = None /\ wpc'[w] = "ended"
    OBVIOUS
  <2> HIDE DEF MainReturns
  <2>3. UNCHANGED <<client, reply, server>> /\ running' = FALSE /\ closed' \in SUBSET Clients
    BY DEF MainReturns
  <2> QED
    BY <2>1, <2>2, <2>3 DEF WorkersInv, WorkerTypes
<1>2. \A p \in Ports : Len(queue'[p]) = 0
  OBVIOUS
<1>3. QueuedOnce' /\ ServedOnce'
  BY <1>2 DEF QueuedOnce, ServedOnce
<1>4. BufferOwn'
  BY DEF WorkersInv, BufferOwn
<1>5. Accounted'
  BY <1>2, CoreAssumption DEF Accounted, AtServer
<1> QED
  BY <1>1, <1>3, <1>4, <1>5 DEF WorkersInv
----------------------------------------------------------------------------
\* Every step preserves the invariant.
LEMMA WorkersStepInv == WorkersInv /\ [Next]_vars => WorkersInv'
<1> SUFFICES ASSUME WorkersInv, [Next]_vars PROVE WorkersInv'
  OBVIOUS
<1>1. ASSUME NEW c \in Clients, ClientStep(c) PROVE WorkersInv'
  BY <1>1, ConnectInv, ClientSendInv, ClientEndInv DEF ClientStep
<1>2. ASSUME NEW w \in Workers, customer_service(w) PROVE WorkersInv'
  <2>1. CASE RecvSend(w)
    BY <2>1, RecvInv, SendToInv DEF RecvSend
  <2>2. CASE Select(w) /\ selects
    BY <2>2, SelectInv
  <2>3. CASE Accept(w)
    BY <2>3, AcceptInv
  <2>4. CASE (Close(w) /\ ~selects) \/ (CloseNext(w) /\ selects)
    BY <2>4, CloseInv
  <2> QED
    BY <1>2, <2>1, <2>2, <2>3, <2>4 DEF customer_service, AcceptLoop, SelectLoop
<1>3. CASE MainReturns
  BY <1>3, MainReturnsInv
<1>4. CASE UNCHANGED vars
  <2> USE <1>4 DEF vars, coreVars, serverVars
  <2>1. WorkerTypes'
    BY DEF WorkersInv, WorkerTypes, selects
  <2>2. \A d : PortTo(d)' = PortTo(d) /\ (Untouched(d)' <=> Untouched(d))
        /\ \A w : Port(w)' = Port(w)
    BY DEF PortTo, Port, selects, Untouched, Request
  <2>3. QueuedOnce' /\ ServedOnce' /\ Accounted' /\ BufferOwn'
    BY <2>2 DEF Accounted, AtServer, WorkersInv, QueuedOnce, ServedOnce, BufferOwn, Blank
  <2> QED
    BY <2>1, <2>3 DEF WorkersInv
<1> QED
  BY <1>1, <1>2, <1>3, <1>4 DEF Next

\* Only one worker serves a connection, at the port it was looking at, however
\* many one connection wakes, and a connection that was made waits, is served or
\* has been closed (2/server.c:27-39, 4/server.c:49-62).
THEOREM WorkersServeOnce == Spec => []OneServerEach
BY InvServes, WorkersInitInv, WorkersStepInv, PTL DEF Spec

\* The servers keep the promise of EchoService, stale sets of select() and the
\* end of main included: a step is a client's step, an answer made of the
\* client's own bytes, or invisible to the clients.
THEOREM WorkersEcho == Spec => KeepsPromise
<1>1. Init => Service!Init
  BY DEF Init, CoreInit, Service!Init
<1>2. ASSUME WorkersInv, [Next]_vars PROVE [Service!Next]_<<client, reply>>
  <2>1. ASSUME NEW c \in Clients, ClientStep(c) PROVE Service!Next
    BY <2>1 DEF ClientStep, ClientConnect, Connect, ClientSend, ClientRecv, ClientQuit,
       Service!Next, Service!Step
  <2>2. ASSUME NEW w \in Workers, SendTo(w, cfd[w])
        PROVE  [Service!Next]_<<client, reply>>
    <3> DEFINE c == cfd[w]
    <3>1. CASE c # None /\ client[c] # "closed"
      <4>1. c \in Clients /\ client[c] = "sent" /\ reply[c] = <<>> /\ buf[w] \in Service!Echoes(c)
        BY <1>2, <2>2, <3>1 DEF SendTo, WorkersInv, WorkerTypes, BufferOwn
      <4>2. <<>> \o buf[w] = buf[w]
        BY <4>1 DEF Service!Echoes
      <4>3. Service!Answer(c)
        BY <2>2, <3>1, <4>1, <4>2 DEF SendTo, Service!Answer
      <4> QED
        BY <4>1, <4>3 DEF Service!Next
    <3>2. CASE ~(c # None /\ client[c] # "closed")
      BY <2>2, <3>2 DEF SendTo
    <3> QED
      BY <3>1, <3>2
  <2>3. ASSUME NEW w \in Workers,
               Select(w) \/ Accept(w) \/ Recv(w, cfd[w]) \/ Close(w) \/ CloseNext(w)
        PROVE  UNCHANGED <<client, reply>>
    BY <2>3 DEF Select, Accept, Recv, Close, CloseNext, Clear
  <2>4. CASE MainReturns \/ UNCHANGED vars
    BY <2>4 DEF MainReturns, vars, coreVars
  <2> QED
    BY <1>2, <2>1, <2>2, <2>3, <2>4
       DEF Next, customer_service, AcceptLoop, SelectLoop, RecvSend
<1> QED
  BY <1>1, <1>2, WorkersInitInv, WorkersStepInv, PTL DEF Spec, KeepsPromise, Service!Spec
============================================================================
