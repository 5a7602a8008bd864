---------------------------- MODULE EchoThreads ----------------------------
(***************************************************************************)
(* server models/1: main accepts a connection, stores its descriptor in    *)
(* cfds[client_count - 1] and starts a thread with a pointer to that       *)
(* place.  The counter is incremented by main and decremented by every     *)
(* thread without a lock, and a thread reads its descriptor through the    *)
(* pointer three times, so the steps here are single memory accesses       *)
(* (the build has no optimisation: every use of client_count is a read).   *)
(***************************************************************************)
EXTENDS EchoCore, Integers, FiniteSets

CONSTANTS
  Backlog,     \* BACKLOG of listen()
  MaxClients,  \* the 10 of cfds[10], t[10] and server.c:66
  Base,        \* the descriptors below Base are open before the first accept()
  FdLimit      \* bound of the model: no descriptor reaches it

\* Workers are numbered in the order of pthread_create().
ASSUME ThreadsAssumption ==
  /\ Workers \subseteq Nat
  /\ Backlog \in Nat
  /\ MaxClients \in Nat \ {0}
  /\ Base \in Nat
  /\ FdLimit \in Nat

VARIABLES
  queue,         \* the connections not yet handed to accept()
  table,         \* the descriptors accept() gave out: their connections
  client_count,  \* the shared counter
  cfds,          \* cfds[10]
  mpc, mfd,      \* where main is, and its cfd
  mreg,          \* the index or counter value main has read
  slot,          \* the param of each thread: an index of cfds
  sock,          \* the connection a thread's recv() is waiting on
  reg,           \* the counter value a thread has read
  overlap        \* history: a connection was accepted before the last ended

serverVars == <<queue, table, client_count, cfds, mpc, mfd, mreg, slot, sock, reg,
                overlap>>
vars == <<coreVars, serverVars>>

Fds == Base..(FdLimit - 1)
ConnOf(f) == IF f \in Fds THEN table[f] ELSE None
Unborn == {w \in Workers : wpc[w] = "unborn"}
Live == {w \in Workers : wpc[w] \notin {"unborn", "ended"}}

Init ==
  /\ CoreInit("unborn")
  /\ queue = <<>>
  /\ table = [f \in Fds |-> None]
  /\ client_count = 0
  /\ cfds = [i \in 0..(MaxClients - 1) |-> -1]
  /\ mpc = "accept" /\ mfd = -1 /\ mreg = 0
  /\ slot = [w \in Workers |-> 0]
  /\ sock = [w \in Workers |-> None]
  /\ reg = [w \in Workers |-> 0]
  /\ overlap = FALSE

Running == mpc # "exited"

ClientConnect(c) ==
  /\ Running
  /\ Len(queue) <= Backlog
  /\ Connect(c)
  /\ queue' = Append(queue, c)
  /\ UNCHANGED <<table, client_count, cfds, mpc, mfd, mreg, slot, sock, reg, overlap>>

ClientStep(c) ==
  \/ ClientConnect(c)
  \/ (ClientSend(c) \/ ClientRecv(c) \/ ClientQuit(c)) /\ UNCHANGED serverVars
----------------------------------------------------------------------------
(* main() *)

IsLowestFree(f) == table[f] = None /\ \A g \in Fds : g < f => table[g] # None

MainAccept ==
  /\ mpc = "accept"
  /\ queue # <<>>
  /\ \E f \in Fds : IsLowestFree(f) /\ mfd' = f /\ table' = [table EXCEPT ![f] = Head(queue)]
  /\ queue' = Tail(queue)
  /\ overlap' = (overlap \/ Live # {})
  /\ mpc' = "count"
  /\ UNCHANGED <<coreVars, client_count, cfds, mreg, slot, sock, reg>>

\* client_count++
MainCount ==
  \/ /\ mpc = "count" /\ mpc' = "inc"
     /\ mreg' = client_count
     /\ UNCHANGED client_count
  \/ /\ mpc = "inc" /\ mpc' = "test"
     /\ client_count' = mreg + 1
     /\ UNCHANGED mreg

\* A test that lets one client too many pass.
MainTestLate ==
  /\ mpc = "test"
  /\ mpc' = IF client_count > MaxClients + 1 THEN "exited" ELSE "store"
  /\ UNCHANGED <<client_count, mreg>>

MainTest ==
  /\ mpc = "test"
  /\ mpc' = IF client_count > MaxClients THEN "exited" ELSE "store"
  /\ UNCHANGED <<client_count, mreg>>

\* cfds[client_count - 1] = cfd.  With a negative index the program's behaviour
\* is undefined: main takes no further step in the model.
MainStore ==
  /\ mpc = "store"
  /\ mpc' = IF client_count <= 0 THEN "undefined" ELSE "param"
  /\ cfds' = IF client_count - 1 \in DOMAIN cfds
             THEN [cfds EXCEPT ![client_count - 1] = mfd] ELSE cfds
  /\ UNCHANGED <<client_count, mreg>>

\* The arguments of pthread_create(): &cfds[client_count - 1], then
\* &t[client_count - 1], which is written to.
MainParam ==
  /\ mpc = "param"
  /\ mpc' = IF client_count <= 0 THEN "undefined" ELSE "create"
  /\ mreg' = client_count - 1
  /\ UNCHANGED client_count

MainCreate ==
  /\ mpc = "create"
  /\ IF client_count <= 0
     THEN mpc' = "undefined" /\ UNCHANGED <<wpc, slot>>
     ELSE \E w \in Unborn :
            /\ \A v \in Unborn : w <= v
            /\ slot' = [slot EXCEPT ![w] = mreg]
            /\ wpc' = [wpc EXCEPT ![w] = "start"]
            /\ mpc' = "accept"
  /\ UNCHANGED <<client, up, reply, buf, queue, table, client_count, cfds, mfd, mreg,
                 sock, reg, overlap>>

MainLoop ==
  \/ MainAccept
  \/ (MainCount \/ MainTest \/ MainParam) /\ cfds' = cfds
     /\ UNCHANGED <<coreVars, queue, table, mfd, slot, sock, reg, overlap>>
  \/ MainStore /\ UNCHANGED <<coreVars, queue, table, mfd, slot, sock, reg, overlap>>
  \/ MainCreate
----------------------------------------------------------------------------
(* customer_service() *)

\* The descriptor behind the thread's pointer, now.
Cfd(w) == IF slot[w] \in DOMAIN cfds THEN cfds[slot[w]] ELSE -1

\* recv(*cfd, ...) is called: from here on it waits on this connection.
CallRecv(w) ==
  /\ wpc[w] = "start"
  /\ sock' = [sock EXCEPT ![w] = ConnOf(Cfd(w))]
  /\ wpc' = [wpc EXCEPT ![w] = "recv"]
  /\ UNCHANGED <<client, up, reply, buf, queue, table, client_count, cfds, mpc, mfd,
                 mreg, slot, reg, overlap>>

Close(w) ==
  /\ Clear(w, "count")
  /\ table' = IF Cfd(w) \in Fds THEN [table EXCEPT ![Cfd(w)] = None] ELSE table
  /\ UNCHANGED <<queue, client_count, cfds, mpc, mfd, mreg, slot, sock, reg, overlap>>

\* A thread that ends without client_count--.
UncountForgets(w) ==
  /\ wpc[w] = "count"
  /\ wpc' = [wpc EXCEPT ![w] = "ended"]
  /\ UNCHANGED <<reg, client_count>>
  /\ UNCHANGED <<client, up, reply, buf, queue, table, cfds, mpc, mfd, mreg, slot,
                 sock, overlap>>

\* client_count--
Uncount(w) ==
  /\ \/ /\ wpc[w] = "count"
        /\ wpc' = [wpc EXCEPT ![w] = "dec"]
        /\ reg' = [reg EXCEPT ![w] = client_count]
        /\ UNCHANGED client_count
     \/ /\ wpc[w] = "dec"
        /\ wpc' = [wpc EXCEPT ![w] = "ended"]
        /\ client_count' = reg[w] - 1
        /\ UNCHANGED reg
  /\ UNCHANGED <<client, up, reply, buf, queue, table, cfds, mpc, mfd, mreg, slot,
                 sock, overlap>>

customer_service(w) ==
  /\ Running
  /\ \/ CallRecv(w)
     \/ Recv(w, sock[w]) /\ UNCHANGED serverVars
     \/ SendTo(w, ConnOf(Cfd(w))) /\ UNCHANGED serverVars
     \/ Close(w)
     \/ Uncount(w)

Next ==
  \/ \E c \in Clients : ClientStep(c)
  \/ MainLoop
  \/ \E w \in Workers : customer_service(w)

Spec == Init /\ [][Next]_vars
----------------------------------------------------------------------------
\* Types: a thread's pointer stays within cfds[10], whatever the races do to
\* client_count.
TypeOK ==
  /\ client \in [Clients -> {"start", "connected", "sent", "closed"}]
  /\ table \in [Fds -> Clients \cup {None}]
  /\ client_count \in Int
  /\ cfds \in [0..(MaxClients - 1) -> Int]
  /\ mpc \in {"accept", "count", "inc", "test", "exited", "store", "param", "create",
              "undefined"}
  /\ mfd \in Int /\ mreg \in Int
  /\ slot \in [Workers -> 0..(MaxClients - 1)]
  /\ wpc \in [Workers -> {"unborn", "start", "recv", "send", "close", "count", "dec",
                          "ended"}]
  /\ reg \in [Workers -> Int]

\* Main tests the counter once and reads it three times more while threads
\* change it (server.c:66-73).  Whatever they do, cfds[10] and t[10] are never
\* overrun: no pending client_count-- can raise the counter above the limit.
\* (The other end is not safe: lost increments can make the index negative.)
NeverOverrun == mpc \in {"store", "param", "create"} => client_count <= MaxClients

\* The place main stores the descriptor in and the place it passes to the
\* thread may differ (server.c:72-73), and a thread may find another thread's
\* descriptor there, but never a place that was not written at all.
NoGarbageRead ==
  \A w \in Workers : wpc[w] \in {"start", "send", "close"} => Cfd(w) # -1

\* The unlocked counter is a safe index upwards: main writes within cfds[10]
\* and no thread reads a place of it that nobody wrote (server.c:66-73,17).
SlotsSafe == NeverOverrun /\ NoGarbageRead

\* As long as no connection is accepted before the previous thread has ended,
\* the sharing does no harm: every answer is an echo of its own client's
\* request, and between two clients the counter is 0 and nothing is open.
AloneIsSafe ==
  ~overlap =>
    /\ \A c \in Clients : reply[c] = <<>> \/ reply[c] \in Service!Echoes(c)
    /\ mpc = "accept" /\ Live = {} =>
         client_count = 0 /\ \A f \in Fds : table[f] = None
============================================================================
