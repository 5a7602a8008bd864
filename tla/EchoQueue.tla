----------------------------- MODULE EchoQueue -----------------------------
(***************************************************************************)
(* server models/3: main accepts the connections and posts their file      *)
(* descriptors, each cut to a char, to a POSIX message queue; the workers  *)
(* take a descriptor from the queue, widen it to an int and serve it.      *)
(*                                                                         *)
(* The kernel gives out the lowest free descriptor.  The length argument   *)
(* of main's accept() is not initialised (server.c:55,88): when the        *)
(* garbage is negative every accept() drops its connection and returns -1, *)
(* when it is not, the first accept() puts it right.                       *)
(***************************************************************************)
EXTENDS EchoCore, Integers, FiniteSets

CONSTANTS
  Backlog,   \* BACKLOG of listen()
  Capacity,  \* mq_maxmsg
  Base,      \* the descriptors below Base are open before the first accept()
  CharHalf,  \* 2^7: a char holds -CharHalf .. CharHalf - 1
  FdLimit    \* bound of the model: no descriptor reaches it

ASSUME QueueAssumption ==
  /\ IsFiniteSet(Workers)
  /\ Backlog \in Nat
  /\ Capacity \in Nat
  /\ Base \in Nat
  /\ CharHalf \in Nat
  /\ FdLimit \in Nat
  /\ Base + Capacity + Cardinality(Workers) < CharHalf
  /\ CharHalf <= FdLimit

VARIABLES
  queue,    \* the connections the kernel has not handed to accept() yet
  lenOk,    \* main's len is not negative
  table,    \* the descriptors accept() gave out: their connections or None
  mpc,      \* where main is in its loop
  mfd,      \* main's cfd
  mqueue,   \* the message queue /clients, a sequence of chars
  cfd       \* the cfd of each worker

serverVars == <<queue, lenOk, table, mpc, mfd, mqueue, cfd>>
vars == <<coreVars, serverVars>>

Fds == Base..(FdLimit - 1)
Open == {f \in Fds : table[f] # None}

\* (char) x and back to int: reduction to a signed byte.
ToChar(x) == ((x + CharHalf) % (2 * CharHalf)) - CharHalf

\* What a descriptor number refers to.
ConnOf(f) == IF f \in Fds THEN table[f] ELSE None

Init ==
  /\ CoreInit("receive")
  /\ queue = <<>>
  /\ lenOk \in BOOLEAN
  /\ table = [f \in Fds |-> None]
  /\ mpc = "accept"
  /\ mfd = -1
  /\ mqueue = <<>>
  /\ cfd = [w \in Workers |-> -1]

ClientConnect(c) ==
  /\ Len(queue) <= Backlog
  /\ Connect(c)
  /\ queue' = Append(queue, c)
  /\ UNCHANGED <<lenOk, table, mpc, mfd, mqueue, cfd>>

ClientStep(c) ==
  \/ ClientConnect(c)
  \/ (ClientSend(c) \/ ClientRecv(c) \/ ClientQuit(c)) /\ UNCHANGED serverVars
----------------------------------------------------------------------------
(* main() *)

IsLowestFree(f) == f \notin Open /\ \A g \in Fds : g < f => g \in Open

MainAccepts(f) ==
  /\ lenOk
  /\ IsLowestFree(f)
  /\ table' = [table EXCEPT ![f] = Head(queue)]
  /\ mfd' = f

MainDrops ==
  /\ ~lenOk
  /\ mfd' = -1
  /\ table' = table

MainAccept ==
  /\ mpc = "accept"
  /\ queue # <<>>
  /\ queue' = Tail(queue)
  /\ (\E f \in Fds : MainAccepts(f)) \/ MainDrops
  /\ mpc' = "send"
  /\ UNCHANGED <<coreVars, lenOk, mqueue, cfd>>

\* mq_send() with O_NONBLOCK: a full queue drops the message.
MainSendDrops ==
  /\ mpc = "send"
  /\ mqueue' = IF Len(mqueue) < Capacity THEN Append(mqueue, ToChar(mfd)) ELSE mqueue
  /\ mpc' = "accept"
  /\ UNCHANGED <<coreVars, queue, lenOk, table, mfd, cfd>>

\* A main that closes its descriptor once it is posted.
MainSendCloses ==
  /\ mpc = "send"
  /\ Len(mqueue) < Capacity
  /\ mqueue' = Append(mqueue, ToChar(mfd))
  /\ mpc' = "accept"
  /\ table' = [f \in Fds |-> IF f = mfd THEN None ELSE table[f]]
  /\ UNCHANGED <<coreVars, queue, lenOk, mfd, cfd>>

\* mq_send() blocks while the queue is full.
MainSend ==
  /\ mpc = "send"
  /\ Len(mqueue) < Capacity
  /\ mqueue' = Append(mqueue, ToChar(mfd))
  /\ mpc' = "accept"
  /\ UNCHANGED <<coreVars, queue, lenOk, table, mfd, cfd>>

MainLoop == MainAccept \/ MainSend
----------------------------------------------------------------------------
(* customer_service() *)

\* mq_receive() blocks while the queue is empty.
Receive(w) ==
  /\ wpc[w] = "receive"
  /\ mqueue # <<>>
  /\ cfd' = [cfd EXCEPT ![w] = Head(mqueue)]
  /\ mqueue' = Tail(mqueue)
  /\ wpc' = [wpc EXCEPT ![w] = "recv"]
  /\ UNCHANGED <<client, up, reply, buf, queue, lenOk, table, mpc, mfd>>

\* A worker that forgets to close the descriptor.
CloseForgets(w) ==
  /\ Clear(w, "receive")
  /\ UNCHANGED serverVars

Close(w) ==
  /\ Clear(w, "receive")
  /\ table' = IF cfd[w] \in Fds THEN [table EXCEPT ![cfd[w]] = None] ELSE table
  /\ UNCHANGED <<queue, lenOk, mpc, mfd, mqueue, cfd>>

customer_service(w) ==
  \/ Receive(w)
  \/ (Recv(w, ConnOf(cfd[w])) \/ SendTo(w, ConnOf(cfd[w]))) /\ UNCHANGED serverVars
  \/ Close(w)

Next ==
  \/ \E c \in Clients : ClientStep(c)
  \/ MainLoop
  \/ \E w \in Workers : customer_service(w)

Spec == Init /\ [][Next]_vars

\* Threads are scheduled; a client that has connected sends at once.
Fairness ==
  /\ WF_vars(MainLoop)
  /\ \A w \in Workers : WF_vars(customer_service(w))
  /\ \A c \in Clients : WF_vars(ClientSend(c) /\ UNCHANGED serverVars)

FairSpec == Spec /\ Fairness
----------------------------------------------------------------------------
\* Types: what is on its way to a server, or was sent by it, fits a buffer, and
\* the descriptors stay within the model's table.
TypeOK ==
  /\ client \in [Clients -> {"start", "connected", "sent", "closed"}]
  /\ \A c \in Clients : Len(up[c]) <= Size /\ Len(reply[c]) <= Size
  /\ wpc \in [Workers -> {"receive", "recv", "send", "close"}]
  /\ queue \in Seq(Clients)
  /\ lenOk \in BOOLEAN
  /\ table \in [Fds -> Clients \cup {None}]
  /\ mpc \in {"accept", "send"}
  /\ mfd \in Int
  /\ mqueue \in Seq(Int)
  /\ cfd \in [Workers -> Int]

\* The workers that have taken a descriptor and not closed it.
Serving == {w \in Workers : wpc[w] # "receive"}

\* The char the descriptor travels in is wide enough (server.c:33,90): at any
\* time main, the full queue and the workers hold so few connections that the
\* lowest free descriptor is below CharHalf, and every message names an open
\* connection.
FdsFitChar ==
  /\ \A f \in Open : f < CharHalf
  /\ lenOk => /\ \A i \in 1..Len(mqueue) : mqueue[i] \in Open
              /\ \A w \in Serving : cfd[w] \in Open
              /\ mpc = "send" => mfd \in Open

\* A descriptor has one holder: main, one place in the queue or one worker.
\* It is not given out again while somebody still holds it, so no worker
\* reads from, answers to or closes a connection that another one serves.
OneHolder ==
  lenOk =>
    /\ \A i, j \in 1..Len(mqueue) : mqueue[i] = mqueue[j] => i = j
    /\ \A v, w \in Serving : cfd[v] = cfd[w] => v = w
    /\ \A w \in Serving, i \in 1..Len(mqueue) : cfd[w] # mqueue[i]
    /\ mpc = "send" => /\ \A w \in Serving : cfd[w] # mfd
                       /\ \A i \in 1..Len(mqueue) : mqueue[i] # mfd

\* The numbers that travel through the queue stay good (server.c:33,88-93): each
\* fits its char, names an open connection and has one holder.
FdsSafe == FdsFitChar /\ OneHolder

\* The server keeps the promise of EchoService (server.c:21-50,86-94), also
\* when accept() fails: then nobody is answered.
KeepsPromise == Service!Spec

\* Every request is answered unless its client goes away, if len was good.
Answered ==
  \A c \in Clients :
    (lenOk /\ client[c] = "sent") ~> (reply[c] # <<>> \/ client[c] = "closed")
============================================================================
