-------------------------- MODULE EchoQueueProofs --------------------------
(***************************************************************************)
(* Proofs about server models/3 for any numbers of clients, workers and    *)
(* places in the queue.                                                    *)
(***************************************************************************)
EXTENDS EchoQueue, FiniteSetTheorems, TLAPS

\* What the variables hold.
QueueTypes ==
  /\ client \in [Clients -> {"start", "connected", "sent", "closed"}]
  /\ DOMAIN up = Clients /\ DOMAIN reply = Clients /\ DOMAIN buf = Workers
  /\ wpc \in [Workers -> {"receive", "recv", "send", "close"}]
  /\ queue \in Seq(Clients)
  /\ lenOk \in BOOLEAN
  /\ table \in [Fds -> Clients \cup {None}]
  /\ mpc \in {"accept", "send"}
  /\ mfd \in Int
  /\ mqueue \in Seq(Int) /\ Len(mqueue) <= Capacity
  /\ cfd \in [Workers -> Int]

\* Every open descriptor is main's, in the queue or a worker's: none is lost.
AllHeld ==
  lenOk => \A f \in Open :
    \/ mpc = "send" /\ mfd = f
    \/ \E i \in 1..Len(mqueue) : mqueue[i] = f
    \/ \E w \in Serving : cfd[w] = f

\* With a bad len nothing is ever open.
NothingOpen == ~lenOk => \A f \in Fds : table[f] = None

FdInv == QueueTypes /\ FdsSafe /\ AllHeld /\ NothingOpen
----------------------------------------------------------------------------
\* A number that fits a char comes out of it as it was.
LEMMA ToCharFits ==
  ASSUME NEW x \in Int, -CharHalf <= x, x < CharHalf
  PROVE  ToChar(x) = x
<1>1. CharHalf \in Nat
  BY QueueAssumption
<1>2. x + CharHalf \in 0..(2 * CharHalf - 1)
  BY <1>1
<1>3. \A a \in Nat, b \in Nat : a < b => a % b = a
  OBVIOUS
<1>4. (x + CharHalf) % (2 * CharHalf) = x + CharHalf
  BY <1>1, <1>2, <1>3
<1> QED
  BY <1>1, <1>4 DEF ToChar

\* A char is a number.
LEMMA ToCharType == ASSUME NEW x \in Int PROVE ToChar(x) \in Int
<1>1. CharHalf \in Nat \ {0}
  BY QueueAssumption, FS_CardinalityType
<1> QED
  BY <1>1 DEF ToChar

\* While main waits in accept(), the queue and the workers hold all open
\* descriptors, so the lowest free one fits a char.
LEMMA LowestFreeFits ==
  ASSUME FdInv, lenOk, mpc = "accept", NEW f \in Fds, IsLowestFree(f)
  PROVE  f < CharHalf
<1> DEFINE I == 1..Len(mqueue)
           A == {mqueue[i] : i \in I}
           B == {cfd[w] : w \in Workers}
<1>1. IsFiniteSet(A) /\ Cardinality(A) <= Len(mqueue)
  <2>1. [i \in I |-> mqueue[i]] \in Surjection(I, A)
    BY DEF Surjection
  <2>2. IsFiniteSet(I) /\ Cardinality(I) = Len(mqueue)
    <3>1. Len(mqueue) \in Nat
      BY DEF FdInv, QueueTypes
    <3>2. /\ IsFiniteSet(I)
          /\ Cardinality(I) = IF 1 > Len(mqueue) THEN 0 ELSE Len(mqueue) - 1 + 1
      BY <3>1, FS_Interval, SMTT(60)
    <3> QED
      BY <3>1, <3>2
  <2> QED
    BY <2>1, <2>2, FS_Surjection
<1>2. IsFiniteSet(B) /\ Cardinality(B) <= Cardinality(Workers)
  <2>1. [w \in Workers |-> cfd[w]] \in Surjection(Workers, B)
    BY DEF Surjection
  <2> QED
    BY <2>1, QueueAssumption, FS_Surjection
<1>3. Base..(f - 1) \subseteq A \cup B
  <2> SUFFICES ASSUME NEW g \in Base..(f - 1) PROVE g \in A \cup B
    OBVIOUS
  <2>1. g \in Open
    BY QueueAssumption DEF IsLowestFree, Fds
  <2> QED
    BY <2>1 DEF FdInv, AllHeld, Serving
<1>4. /\ IsFiniteSet(A \cup B)
      /\ Cardinality(A \cup B) <= Len(mqueue) + Cardinality(Workers)
  <2>1. Cardinality(A \cap B) \in Nat
    BY <1>1, FS_Intersection, FS_CardinalityType
  <2>2. Cardinality(A) \in Nat /\ Cardinality(B) \in Nat /\ Cardinality(Workers) \in Nat
    BY <1>1, <1>2, QueueAssumption, FS_CardinalityType
  <2>3. IsFiniteSet(A \cup B)
        /\ Cardinality(A \cup B) = Cardinality(A) + Cardinality(B) - Cardinality(A \cap B)
    BY <1>1, <1>2, FS_Union
  <2>4. Len(mqueue) \in Nat
    BY DEF FdInv, QueueTypes
  <2> HIDE DEF A, B
  <2> QED
    BY <1>1, <1>2, <2>1, <2>2, <2>3, <2>4
<1>5. Cardinality(Base..(f - 1)) <= Cardinality(A \cup B)
  BY <1>3, <1>4, FS_Subset
<1>6. f \in Int /\ f >= Base /\ Cardinality(Base..(f - 1)) = f - Base
  <2>1. f \in Int /\ f >= Base /\ Base \in Int
    BY QueueAssumption DEF Fds
  <2>2. Cardinality(Base..(f - 1)) = IF Base > f - 1 THEN 0 ELSE (f - 1) - Base + 1
    BY <2>1, FS_Interval
  <2> QED
    BY <2>1, <2>2
<1>7. Len(mqueue) \in Nat /\ Len(mqueue) <= Capacity /\ Cardinality(Workers) \in Nat
      /\ Cardinality(A \cup B) \in Nat
  BY <1>4, QueueAssumption, FS_CardinalityType DEF FdInv, QueueTypes
<1> HIDE DEF A, B
<1> QED
  BY <1>4, <1>5, <1>6, <1>7, QueueAssumption
----------------------------------------------------------------------------
\* At the start nothing is open.
LEMMA FdInitInv == Init => FdInv
<1> USE QueueAssumption DEF Init, CoreInit
<1>1. Init => QueueTypes
  BY DEF QueueTypes
<1>2. Init => Open = {} /\ Serving = {}
  BY DEF Open, Serving
<1> QED
  BY <1>1, <1>2 DEF FdInv, FdsSafe, FdsFitChar, OneHolder, AllHeld, NothingOpen, Fds

\* Steps that leave main, the descriptors and the workers' places alone.
LEMMA FdKept ==
  ASSUME FdInv, QueueTypes',
         UNCHANGED <<lenOk, table, mpc, mfd, mqueue, cfd>>, Serving' = Serving
  PROVE  FdInv'
<1>1. Open' = Open
  BY DEF Open, Fds
<1> QED
  BY <1>1 DEF FdInv, FdsSafe, FdsFitChar, OneHolder, AllHeld, NothingOpen

\* main takes a connection from accept(): the number is new and fits a char.
LEMMA MainAcceptFd == ASSUME FdInv, MainAccept PROVE FdInv'
<1>1. QueueTypes'
  <2>1. queue \in Seq(Clients) /\ queue # <<>>
    BY DEF MainAccept, FdInv, QueueTypes
  <2>2. Head(queue) \in Clients /\ Tail(queue) \in Seq(Clients)
    BY <2>1
  <2>3. table' \in [Fds -> Clients \cup {None}] /\ mfd' \in Int
    <3>1. table \in [Fds -> Clients \cup {None}] /\ \A f \in Fds : f \in Int
      BY QueueAssumption DEF FdInv, QueueTypes, Fds
    <3>2. CASE MainDrops
      BY <3>1, <3>2 DEF MainDrops
    <3>3. ASSUME NEW f \in Fds, MainAccepts(f)
          PROVE  table' \in [Fds -> Clients \cup {None}] /\ mfd' \in Int
      BY <2>2, <3>1, <3>3 DEF MainAccepts
    <3> QED
      BY <3>2, <3>3 DEF MainAccept
  <2>4. mpc' = "send" /\ queue' = Tail(queue)
        /\ UNCHANGED <<client, up, reply, wpc, buf, lenOk, mqueue, cfd>>
    BY DEF MainAccept, coreVars
  <2> QED
    BY <2>2, <2>3, <2>4 DEF FdInv, QueueTypes, Fds
<1>2. CASE ~lenOk
  BY <1>1, <1>2 DEF MainAccept, MainAccepts, MainDrops, FdInv, FdsSafe, FdsFitChar,
     OneHolder, AllHeld, NothingOpen, Open, Serving, coreVars
<1>3. CASE lenOk
  <2>1. PICK f \in Fds : MainAccepts(f)
    BY <1>3 DEF MainAccept, MainDrops
  <2>2. f < CharHalf /\ f \notin Open
    BY <1>3, <2>1, LowestFreeFits DEF MainAccept, MainAccepts, IsLowestFree
  <2>3. Head(queue) \in Clients /\ Head(queue) # None
    BY CoreAssumption DEF MainAccept, FdInv, QueueTypes
  <2>4. Open' = Open \cup {f} /\ Serving' = Serving
    BY <2>1, <2>3 DEF MainAccept, MainAccepts, Open, Serving, Fds, FdInv, QueueTypes, coreVars
  <2> QED
    BY <1>1, <1>3, <2>1, <2>2, <2>4 DEF MainAccept, MainAccepts, FdInv, FdsSafe, FdsFitChar,
       OneHolder, AllHeld, NothingOpen
<1> QED
  BY <1>2, <1>3

\* main posts its descriptor: the char in the queue is the number.
LEMMA MainSendFd == ASSUME FdInv, MainSend PROVE FdInv'
<1>1. ToChar(mfd) \in Int /\ mqueue \in Seq(Int)
  BY ToCharType DEF FdInv, QueueTypes
<1>2. mqueue' \in Seq(Int) /\ Len(mqueue') = Len(mqueue) + 1
      /\ \A i \in 1..Len(mqueue') :
           mqueue'[i] = IF i <= Len(mqueue) THEN mqueue[i] ELSE ToChar(mfd)
  BY <1>1 DEF MainSend
<1>3. QueueTypes'
  BY <1>2, QueueAssumption DEF MainSend, FdInv, QueueTypes, coreVars, Fds
<1>4. Open' = Open /\ Serving' = Serving /\ lenOk' = lenOk
  BY DEF MainSend, Open, Serving, Fds, coreVars
<1>5. lenOk => ToChar(mfd) = mfd
  <2>1. lenOk => mfd \in Open
    BY DEF MainSend, FdInv, FdsSafe, FdsFitChar
  <2>2. mfd \in Open => -CharHalf <= mfd /\ mfd < CharHalf
    BY QueueAssumption DEF Open, Fds, FdInv, FdsSafe, FdsFitChar
  <2> QED
    BY <2>1, <2>2, ToCharFits DEF FdInv, QueueTypes
<1>6. FdsFitChar'
  BY <1>2, <1>4, <1>5 DEF MainSend, FdInv, FdsSafe, FdsFitChar
<1>7. OneHolder'
  BY <1>1, <1>2, <1>4, <1>5 DEF MainSend, FdInv, FdsSafe, OneHolder
<1>8. AllHeld'
  BY <1>1, <1>2, <1>4, <1>5 DEF MainSend, FdInv, AllHeld
<1>9. NothingOpen'
  BY DEF MainSend, FdInv, NothingOpen, Fds
<1> QED
  BY <1>3, <1>6, <1>7, <1>8, <1>9 DEF FdInv, FdsSafe

\* A worker takes the oldest descriptor of the queue.
LEMMA ReceiveFd == ASSUME FdInv, NEW w \in Workers, Receive(w) PROVE FdInv'
<1>1. mqueue \in Seq(Int) /\ mqueue # <<>>
  BY DEF Receive, FdInv, QueueTypes
<1>2. Head(mqueue) \in Int /\ Head(mqueue) = mqueue[1] /\ Len(mqueue) \in Nat \ {0}
      /\ mqueue' \in Seq(Int) /\ Len(mqueue') = Len(mqueue) - 1
      /\ \A i \in 1..Len(mqueue') : mqueue'[i] = mqueue[i + 1]
  BY <1>1 DEF Receive
<1>3. QueueTypes'
  BY <1>2, QueueAssumption DEF Receive, FdInv, QueueTypes, Fds
<1>4. Open' = Open /\ Serving' = Serving \cup {w} /\ w \notin Serving /\ lenOk' = lenOk
  BY DEF Receive, Open, Serving, Fds, FdInv, QueueTypes
<1>5. cfd' = [cfd EXCEPT ![w] = mqueue[1]] /\ cfd \in [Workers -> Int]
  BY <1>2 DEF Receive, FdInv, QueueTypes
<1>6. FdsFitChar'
  BY <1>2, <1>4, <1>5 DEF Receive, FdInv, FdsSafe, FdsFitChar, Serving
<1>7. OneHolder'
  BY <1>2, <1>4, <1>5 DEF Receive, FdInv, FdsSafe, OneHolder, Serving
<1>8. AllHeld'
  <2> SUFFICES ASSUME lenOk, NEW f \in Open,
                      ~(mpc = "send" /\ mfd = f),
                      ~\E v \in Serving' : cfd'[v] = f
               PROVE  \E i \in 1..Len(mqueue') : mqueue'[i] = f
    BY <1>4 DEF AllHeld, Receive
  <2>1. \A v \in Serving : cfd[v] # f
    BY <1>4, <1>5 DEF Serving
  <2>2. PICK i \in 1..Len(mqueue) : mqueue[i] = f
    BY <2>1 DEF FdInv, AllHeld
  <2>3. i # 1
    BY <1>4, <1>5, <2>2
  <2>4. i - 1 \in 1..Len(mqueue') /\ mqueue'[i - 1] = f
    BY <1>2, <2>2, <2>3
  <2> QED
    BY <2>4
<1>9. NothingOpen'
  BY DEF Receive, FdInv, NothingOpen, Fds
<1> QED
  BY <1>3, <1>6, <1>7, <1>8, <1>9 DEF FdInv, FdsSafe

\* A worker closes the descriptor that it alone holds.
LEMMA CloseFd == ASSUME FdInv, NEW w \in Workers, Close(w) PROVE FdInv'
<1> USE DEF Close, Clear
<1>1. QueueTypes'
  BY QueueAssumption DEF FdInv, QueueTypes, Fds
<1>2. Serving' = Serving \ {w} /\ w \in Serving
  BY DEF Serving, FdInv, QueueTypes
<1>3. Open' = Open \ {cfd[w]}
  BY DEF Open, Fds, FdInv, QueueTypes
<1>4. FdsFitChar' /\ OneHolder'
  BY <1>2, <1>3 DEF FdInv, FdsSafe, FdsFitChar, OneHolder
<1>5. AllHeld' /\ NothingOpen'
  BY <1>2, <1>3 DEF FdInv, AllHeld, NothingOpen, Fds
<1> QED
  BY <1>1, <1>4, <1>5 DEF FdInv, FdsSafe

\* The client's steps and the workers' recv() and send() touch no descriptor.
LEMMA FdStepInv == FdInv /\ [Next]_vars => FdInv'
<1> SUFFICES ASSUME FdInv, [Next]_vars PROVE FdInv'
  OBVIOUS
<1>1. ASSUME NEW c \in Clients, ClientStep(c) PROVE FdInv'
  <2>1. UNCHANGED <<lenOk, table, mpc, mfd, mqueue, cfd, wpc>> /\ Serving' = Serving
    BY <1>1 DEF ClientStep, ClientConnect, Connect, ClientSend, ClientRecv, ClientQuit,
       serverVars, Serving
  <2>2. queue' \in Seq(Clients)
    <3>1. queue \in Seq(Clients) /\ Append(queue, c) \in Seq(Clients)
      BY DEF FdInv, QueueTypes
    <3>2. queue' = queue \/ queue' = Append(queue, c)
      BY <1>1 DEF ClientStep, ClientConnect, serverVars
    <3> QED
      BY <3>1, <3>2
  <2>3. /\ DOMAIN up' = Clients /\ DOMAIN reply' = Clients /\ buf' = buf
        /\ client' \in [Clients -> {"start", "connected", "sent", "closed"}]
    BY <1>1 DEF ClientStep, ClientConnect, Connect, ClientSend, ClientRecv, ClientQuit,
       FdInv, QueueTypes
  <2>4. QueueTypes'
    BY <2>1, <2>2, <2>3 DEF FdInv, QueueTypes, Fds
  <2> QED
    BY <2>1, <2>4, FdKept
<1>2. CASE MainLoop
  BY <1>2, MainAcceptFd, MainSendFd DEF MainLoop
<1>3. ASSUME NEW w \in Workers, customer_service(w) PROVE FdInv'
  <2>1. CASE Receive(w) \/ Close(w)
    BY <2>1, ReceiveFd, CloseFd
  <2>2. CASE (Recv(w, ConnOf(cfd[w])) \/ SendTo(w, ConnOf(cfd[w]))) /\ UNCHANGED serverVars
    <3>1. Serving' = Serving
      BY <2>2 DEF Recv, SendTo, Serving, FdInv, QueueTypes
    <3>2. DOMAIN up' = Clients /\ DOMAIN reply' = Clients /\ DOMAIN buf' = Workers
      BY <2>2 DEF Recv, RecvSome, RecvInto, RecvNothing, SendTo, FdInv, QueueTypes
    <3>3. QueueTypes'
      BY <2>2, <3>2 DEF Recv, SendTo, serverVars, FdInv, QueueTypes, Fds
    <3> QED
      BY <2>2, <3>1, <3>3, FdKept DEF serverVars
  <2> QED
    BY <1>3, <2>1, <2>2 DEF customer_service
<1>4. CASE UNCHANGED vars
  <2>1. QueueTypes' /\ Serving' = Serving
    BY <1>4 DEF vars, coreVars, serverVars, FdInv, QueueTypes, Fds, Serving
  <2> QED
    BY <1>4, <2>1, FdKept DEF vars, serverVars
<1> QED
  BY <1>1, <1>2, <1>3, <1>4 DEF Next

\* The numbers that travel through the queue stay good, for any number of
\* workers, places and clients, as long as queue and workers together hold
\* fewer descriptors than a char has values (server.c:33,88-93).
THEOREM FdsAreSafe == Spec => []FdsSafe
<1>1. FdInv => FdsSafe
  BY DEF FdInv
<1> QED
  BY <1>1, FdInitInv, FdStepInv, PTL DEF Spec
----------------------------------------------------------------------------
(* The server implements EchoService. *)

\* What a client sends, and what a buffer holds that nobody wrote to.
Request(c) == [i \in 1..Size |-> Service!Raw(c, i)]
Blank == [1..Size -> {Service!Zero, Service!Junk}]

\* Nobody has read from the connection or written to it.
Untouched(c) == reply[c] = <<>> /\ up[c] \in {<<>>, Request(c)}

\* A connection is in one place: the kernel's queue or one descriptor.
OnePlace ==
  /\ \A i, j \in 1..Len(queue) : queue[i] = queue[j] => i = j
  /\ \A i \in 1..Len(queue), f \in Fds : queue[i] # table[f]
  /\ \A f, g \in Open : table[f] = table[g] => f = g
  /\ \A i \in 1..Len(queue) : client[queue[i]] # "start"
  /\ \A f \in Open : client[table[f]] # "start"

\* Connections stay untouched until a worker has called recv() on them.
FirstTouch ==
  /\ \A c \in Clients : client[c] \in {"start", "connected"} => reply[c] = <<>> /\ up[c] = <<>>
  /\ \A i \in 1..Len(queue) : Untouched(queue[i])
  /\ \A f \in Open :
       (\A w \in Workers : wpc[w] \in {"send", "close"} => cfd[w] # f) => Untouched(table[f])

\* A buffer holds nobody's bytes before recv() and an echo of the client to be
\* answered behind it.
BufferOwn ==
  \A w \in Workers :
    /\ wpc[w] \in {"receive", "recv"} => buf[w] \in Blank
    /\ wpc[w] = "send" =>
         LET c == ConnOf(cfd[w])
         IN  c # None /\ client[c] # "closed" =>
               client[c] = "sent" /\ reply[c] = <<>> /\ buf[w] \in Service!Echoes(c)

EchoInv == FdInv /\ OnePlace /\ FirstTouch /\ BufferOwn

\* At the start all buffers are blank and there are no connections.
LEMMA EchoInitInv == Init => EchoInv
<1> SUFFICES ASSUME Init PROVE EchoInv
  OBVIOUS
<1>1. FdInv /\ Open = {} /\ Len(queue) = 0
  BY FdInitInv DEF Init, Open
<1>2. OnePlace /\ FirstTouch
  BY <1>1 DEF Init, CoreInit, OnePlace, FirstTouch
<1>3. BufferOwn
  BY DEF Init, CoreInit, BufferOwn, Blank
<1> QED
  BY <1>1, <1>2, <1>3 DEF EchoInv

\* connect(): the connection is new in every place.
LEMMA ConnectEcho ==
  ASSUME EchoInv, FdInv', NEW c \in Clients, ClientConnect(c)
  PROVE  EchoInv'
<1> USE DEF ClientConnect, Connect
<1>1. /\ Len(queue') = Len(queue) + 1 /\ Len(queue) \in Nat
      /\ \A i \in 1..Len(queue') : queue'[i] = IF i <= Len(queue) THEN queue[i] ELSE c
  BY DEF EchoInv, FdInv, QueueTypes
<1>2. /\ \A i \in 1..Len(queue) : queue[i] \in Clients /\ queue[i] # c
      /\ \A f \in Fds : table[f] # c
      /\ Open' = Open /\ Fds' = Fds
  BY CoreAssumption DEF EchoInv, FdInv, QueueTypes, OnePlace, Open, Fds
<1>3. OnePlace'
  BY <1>1, <1>2 DEF EchoInv, FdInv, QueueTypes, OnePlace, Open
<1>4. FirstTouch'
  BY <1>1, <1>2 DEF EchoInv, FdInv, QueueTypes, FirstTouch, Untouched
<1>5. BufferOwn'
  BY <1>2 DEF EchoInv, FdInv, QueueTypes, BufferOwn, ConnOf, Blank
<1> QED
  BY <1>3, <1>4, <1>5 DEF EchoInv

\* send(): the whole request of this client is under way.
LEMMA ClientSendEcho ==
  ASSUME EchoInv, FdInv', NEW c \in Clients, ClientSend(c), UNCHANGED serverVars
  PROVE  EchoInv'
<1> USE DEF ClientSend, serverVars
<1>1. Open' = Open /\ Fds' = Fds /\ \A f \in Open : table[f] \in Clients
  BY DEF EchoInv, FdInv, QueueTypes, Open, Fds
<1>2. /\ \A i \in 1..Len(queue) : queue[i] \in Clients
      /\ reply[c] = <<>> /\ up' = [up EXCEPT ![c] = Request(c)]
  BY DEF EchoInv, FdInv, QueueTypes, FirstTouch, Request
<1>3. OnePlace'
  BY <1>1, <1>2 DEF EchoInv, FdInv, QueueTypes, OnePlace
<1>4. \A d \in Clients : Untouched(d) => Untouched(d)'
  BY <1>2 DEF EchoInv, FdInv, QueueTypes, Untouched, Request
<1>5. FirstTouch'
  BY <1>1, <1>2, <1>4 DEF EchoInv, FdInv, QueueTypes, FirstTouch
<1>6. BufferOwn'
  BY <1>1 DEF EchoInv, FdInv, QueueTypes, BufferOwn, ConnOf, Blank
<1> QED
  BY <1>3, <1>5, <1>6 DEF EchoInv

\* A client that ends leaves its connection as it is.
LEMMA ClientEndEcho ==
  ASSUME EchoInv, FdInv', NEW c \in Clients, ClientRecv(c) \/ ClientQuit(c),
         UNCHANGED serverVars
  PROVE  EchoInv'
<1> USE DEF ClientRecv, ClientQuit, serverVars
<1>1. /\ Open' = Open /\ Fds' = Fds /\ UNCHANGED <<up, reply, wpc, buf>>
      /\ client' = [client EXCEPT ![c] = "closed"]
  BY DEF Open, Fds
<1>2. OnePlace'
  <2>1. queue' = queue /\ table' = table
    BY DEF serverVars
  <2>2. \A d \in Clients : client[d] # "start" => client'[d] # "start"
    BY <1>1 DEF EchoInv, FdInv, QueueTypes
  <2>3. /\ \A i \in 1..Len(queue) : queue[i] \in Clients
        /\ \A f \in Open : table[f] \in Clients
    BY DEF EchoInv, FdInv, QueueTypes, Open
  <2> QED
    BY <1>1, <2>1, <2>2, <2>3 DEF EchoInv, OnePlace
<1>3. \A d : Untouched(d)' <=> Untouched(d)
  BY <1>1 DEF Untouched, Request
<1>4. FirstTouch'
  BY <1>1, <1>3 DEF EchoInv, FdInv, QueueTypes, FirstTouch
<1>5. BufferOwn'
  BY <1>1 DEF EchoInv, FdInv, QueueTypes, BufferOwn, ConnOf, Blank
<1> QED
  BY <1>2, <1>4, <1>5 DEF EchoInv

\* accept() moves a connection from the kernel's queue to a descriptor.
LEMMA AcceptEcho == ASSUME EchoInv, FdInv', MainAccept PROVE EchoInv'
<1> USE DEF MainAccept, coreVars
<1>1. /\ queue \in Seq(Clients) /\ queue # <<>> /\ Len(queue) \in Nat \ {0}
      /\ Head(queue) = queue[1] /\ queue[1] \in Clients /\ queue[1] # None
      /\ Len(queue') = Len(queue) - 1
      /\ \A i \in 1..Len(queue') : queue'[i] = queue[i + 1]
  BY CoreAssumption DEF EchoInv, FdInv, QueueTypes
<1>0. \A d : Untouched(d)' <=> Untouched(d)
  BY DEF Untouched, Request
<1>2. CASE MainDrops
  <2>1. Open' = Open /\ Fds' = Fds
    BY <1>2 DEF MainDrops, Open, Fds
  <2>2. OnePlace' /\ FirstTouch'
    BY <1>0, <1>1, <1>2, <2>1 DEF MainDrops, EchoInv, OnePlace, FirstTouch
  <2>3. BufferOwn'
    BY <1>2 DEF MainDrops, EchoInv, BufferOwn, ConnOf, Blank, Fds
  <2> QED
    BY <2>2, <2>3 DEF EchoInv
<1>3. ASSUME NEW f \in Fds, MainAccepts(f) PROVE EchoInv'
  <2>1. f \notin Open /\ Open' = Open \cup {f} /\ Fds' = Fds
    BY <1>1, <1>3 DEF MainAccepts, IsLowestFree, Open, Fds, EchoInv, FdInv, QueueTypes
  <2>2. table' = [table EXCEPT ![f] = queue[1]]
    BY <1>1, <1>3 DEF MainAccepts
  <2>3. OnePlace'
    BY <1>1, <2>1, <2>2 DEF EchoInv, FdInv, QueueTypes, OnePlace, Open
  <2>4. FirstTouch'
    BY <1>0, <1>1, <2>1, <2>2 DEF EchoInv, FdInv, QueueTypes, FirstTouch, Open
  <2>5. \A w \in Workers : wpc[w] = "send" => cfd[w] # f
    BY <1>3, <2>1 DEF MainAccepts, EchoInv, FdInv, FdsSafe, FdsFitChar, Serving
  <2>6. BufferOwn'
    BY <2>1, <2>2, <2>5 DEF EchoInv, FdInv, QueueTypes, BufferOwn, ConnOf, Blank
  <2> QED
    BY <2>3, <2>4, <2>6 DEF EchoInv
<1> QED
  BY <1>2, <1>3
\* main posts a descriptor, or a worker takes one: no connection is touched.
LEMMA PostEcho ==
  ASSUME EchoInv, FdInv', MainSend \/ \E w \in Workers : Receive(w)
  PROVE  EchoInv'
<1>1. /\ Open' = Open /\ Fds' = Fds /\ UNCHANGED <<client, up, reply, buf, queue, table>>
  BY DEF MainSend, Receive, coreVars, Open, Fds
<1>2. \A d : Untouched(d)' <=> Untouched(d)
  BY <1>1 DEF Untouched, Request
<1>3. \A v \in Workers :
        /\ wpc'[v] \in {"send", "close"} <=> wpc[v] \in {"send", "close"}
        /\ wpc'[v] \in {"receive", "recv"} <=> wpc[v] \in {"receive", "recv"}
        /\ wpc[v] \in {"send", "close"} => cfd'[v] = cfd[v] /\ wpc'[v] = wpc[v]
  BY DEF MainSend, Receive, coreVars, EchoInv, FdInv, QueueTypes
<1>4. OnePlace'
  BY <1>1 DEF EchoInv, OnePlace
<1>5. FirstTouch'
  BY <1>1, <1>2, <1>3 DEF EchoInv, FirstTouch
<1>6. BufferOwn'
  BY <1>1, <1>3 DEF EchoInv, BufferOwn, ConnOf, Blank
<1> QED
  BY <1>4, <1>5, <1>6 DEF EchoInv

\* The buffer of a worker that has received n bytes of an untouched request.
LEMMA ReceivedIsEcho ==
  ASSUME NEW c \in Clients, NEW w \in Workers, NEW n \in 1..Size,
         DOMAIN buf = Workers, buf[w] \in Blank, up[c] = Request(c), RecvInto(w, c, n)
  PROVE  buf'[w] \in Service!Echoes(c)
<1>1. \A i \in 1..Size : up[c][i][1] = c /\ up[c][i][2] = i
  BY DEF Request, Service!Raw
<1>2. buf'[w] = [i \in 1..Size |-> IF i <= n THEN Service!Upper(c, i) ELSE buf[w][i]]
  BY <1>1 DEF RecvInto
<1> DEFINE Mixed(m, rest) == [i \in 1..Size |-> IF i <= m THEN Service!Upper(c, i) ELSE rest[i]]
<1>3. Service!Echoes(c) = {Mixed(m, rest) : m \in 1..Size, rest \in Blank}
  BY DEF Service!Echoes, Blank
<1>4. buf'[w] = Mixed(n, buf[w])
  BY <1>2
<1> HIDE DEF Mixed
<1> QED
  BY <1>3, <1>4

\* recv() on a descriptor: afterwards the worker's buffer is its client's.
LEMMA RecvEcho ==
  ASSUME EchoInv, FdInv', NEW w \in Workers, Recv(w, ConnOf(cfd[w])), UNCHANGED serverVars
  PROVE  EchoInv'
<1> DEFINE c == ConnOf(cfd[w])
<1> USE DEF Recv, serverVars
<1>1. Open' = Open /\ Fds' = Fds /\ UNCHANGED <<client, reply, queue, table, cfd>>
      /\ w \in Serving
  BY DEF Open, Fds, Serving
<1>2. \A v \in Workers : v # w => wpc'[v] = wpc[v] /\ buf'[v] = buf[v]
  BY DEF EchoInv, FdInv, QueueTypes, RecvSome, RecvInto, RecvNothing
<1>3. wpc'[w] = "send"
  BY DEF EchoInv, FdInv, QueueTypes
<1>4. OnePlace'
  BY <1>1 DEF EchoInv, OnePlace
<1>5. CASE c = None \/ RecvNothing(c)
  <2>1. UNCHANGED <<up, buf>> /\ (c # None => client[c] = "closed")
    BY <1>5 DEF RecvNothing
  <2>2. \A d : Untouched(d)' <=> Untouched(d)
    BY <1>1, <2>1 DEF Untouched, Request
  <2>3. FirstTouch'
    BY <1>1, <1>2, <2>1, <2>2 DEF EchoInv, FirstTouch
  <2>4. BufferOwn'
    BY <1>1, <1>2, <1>3, <2>1 DEF EchoInv, BufferOwn, ConnOf, Blank
  <2> QED
    BY <1>4, <2>3, <2>4 DEF EchoInv
<1>6. CASE c # None /\ RecvSome(w, c)
  <2>1. cfd[w] \in Open /\ c = table[cfd[w]] /\ c \in Clients /\ lenOk
    BY <1>6 DEF ConnOf, Open, EchoInv, FdInv, QueueTypes, NothingOpen
  <2>2. \A v \in Workers : wpc[v] \in {"send", "close"} => cfd[v] # cfd[w]
    BY <1>1, <2>1 DEF EchoInv, FdInv, FdsSafe, OneHolder, Serving
  <2>3. Untouched(c)
    BY <2>1, <2>2 DEF EchoInv, FirstTouch
  <2>4. PICK n \in 1..Len(up[c]) :
          RecvInto(w, c, n) /\ up' = [up EXCEPT ![c] = SubSeq(@, n + 1, Len(@))]
    BY <1>6 DEF RecvSome
  <2>5. up[c] = Request(c) /\ n \in 1..Size
    BY <2>3, <2>4, CoreAssumption DEF Untouched, Request
  <2>6. buf'[w] \in Service!Echoes(c)
    BY <2>1, <2>4, <2>5, ReceivedIsEcho DEF EchoInv, FdInv, QueueTypes, BufferOwn
  <2>7. client[c] \in {"sent", "closed"}
    BY <2>1, <2>5, CoreAssumption DEF EchoInv, FdInv, QueueTypes, FirstTouch, Request
  <2>8. \A d \in Clients : d # c => (Untouched(d)' <=> Untouched(d)) /\ up'[d] = up[d]
    BY <1>1, <2>4 DEF Untouched, Request, EchoInv, FdInv, QueueTypes
  <2>9. FirstTouch'
    <3>1. \A i \in 1..Len(queue) : queue[i] \in Clients /\ queue[i] # c
      BY <2>1 DEF EchoInv, FdInv, QueueTypes, OnePlace, Open
    <3>2. \A f \in Open : table[f] \in Clients /\ (f # cfd[w] => table[f] # c)
      BY <2>1 DEF EchoInv, FdInv, QueueTypes, OnePlace, Open
    <3>3. \A f \in Open :
            (\A v \in Workers : wpc'[v] \in {"send", "close"} => cfd[v] # f)
              => f # cfd[w] /\ (\A v \in Workers : wpc[v] \in {"send", "close"} => cfd[v] # f)
      BY <1>2, <1>3
    <3> QED
      BY <1>1, <2>7, <2>8, <3>1, <3>2, <3>3 DEF EchoInv, FirstTouch
  <2>10. BufferOwn'
    BY <1>1, <1>2, <1>3, <2>3, <2>6, <2>7 DEF EchoInv, BufferOwn, ConnOf, Blank, Untouched
  <2> QED
    BY <1>4, <2>9, <2>10 DEF EchoInv
<1> QED
  BY <1>5, <1>6

\* send() on a descriptor answers the one connection it names.
LEMMA SendToEcho ==
  ASSUME EchoInv, FdInv', NEW w \in Workers, SendTo(w, ConnOf(cfd[w])), UNCHANGED serverVars
  PROVE  EchoInv'
<1> DEFINE c == ConnOf(cfd[w])
<1> USE DEF SendTo, serverVars
<1>1. Open' = Open /\ Fds' = Fds /\ UNCHANGED <<client, up, buf, queue, table, cfd>>
      /\ w \in Serving
  BY DEF Open, Fds, Serving
<1>2. wpc' = [wpc EXCEPT ![w] = "close"] /\ wpc \in [Workers -> {"receive", "recv", "send", "close"}]
  BY DEF EchoInv, FdInv, QueueTypes
<1>3. OnePlace'
  BY <1>1 DEF EchoInv, OnePlace
<1>4. CASE ~(c # None /\ client[c] # "closed")
  <2>1. reply' = reply /\ \A d : Untouched(d)' <=> Untouched(d)
    BY <1>1, <1>4 DEF Untouched, Request
  <2>2. FirstTouch'
    BY <1>1, <1>2, <2>1 DEF EchoInv, FirstTouch
  <2>3. BufferOwn'
    BY <1>1, <1>2, <2>1 DEF EchoInv, BufferOwn, ConnOf, Blank
  <2> QED
    BY <1>3, <2>2, <2>3 DEF EchoInv
<1>5. CASE c # None /\ client[c] # "closed"
  <2>1. cfd[w] \in Open /\ c = table[cfd[w]] /\ c \in Clients /\ lenOk /\ client[c] = "sent"
    BY <1>5 DEF ConnOf, Open, EchoInv, FdInv, QueueTypes, NothingOpen, BufferOwn
  <2>2. \A d \in Clients : d # c => (Untouched(d)' <=> Untouched(d)) /\ reply'[d] = reply[d]
    BY <1>1, <1>5, <2>1 DEF Untouched, Request, EchoInv, FdInv, QueueTypes
  <2>3. /\ \A i \in 1..Len(queue) : queue[i] \in Clients /\ queue[i] # c
        /\ \A f \in Open : table[f] \in Clients /\ (f # cfd[w] => table[f] # c)
    BY <2>1 DEF EchoInv, FdInv, QueueTypes, OnePlace, Open
  <2>4. FirstTouch'
    BY <1>1, <1>2, <2>1, <2>2, <2>3 DEF EchoInv, FirstTouch
  <2>5. \A v \in Workers : v # w /\ wpc[v] = "send" => ConnOf(cfd[v]) # c
    BY <1>1, <1>5, <2>1, <2>3 DEF EchoInv, FdInv, FdsSafe, OneHolder, Serving, ConnOf, Open
  <2>6. \A v \in Workers : ConnOf(cfd[v]) \in Clients \cup {None}
    BY DEF EchoInv, FdInv, QueueTypes, ConnOf
  <2>7. BufferOwn'
    BY <1>1, <1>2, <2>2, <2>5, <2>6 DEF EchoInv, BufferOwn, ConnOf, Blank
  <2> QED
    BY <1>3, <2>4, <2>7 DEF EchoInv
<1> QED
  BY <1>4, <1>5

\* memset() and close(): the buffer is blank again.
LEMMA CloseEcho ==
  ASSUME EchoInv, FdInv', NEW w \in Workers, Close(w)
  PROVE  EchoInv'
<1> USE DEF Close, Clear
<1>1. /\ Open' = Open \ {cfd[w]} /\ Fds' = Fds /\ UNCHANGED <<client, up, reply, queue, cfd>>
      /\ \A f \in Open' : table'[f] = table[f]
      /\ \A f \in Fds : table'[f] = table[f] \/ table'[f] = None
  BY DEF Open, Fds, EchoInv, FdInv, QueueTypes
<1>2. wpc' = [wpc EXCEPT ![w] = "receive"] /\ wpc \in [Workers -> {"receive", "recv", "send", "close"}]
  BY DEF EchoInv, FdInv, QueueTypes
<1>3. \A d : Untouched(d)' <=> Untouched(d)
  BY <1>1 DEF Untouched, Request
<1>4. OnePlace'
  BY <1>1, CoreAssumption DEF EchoInv, FdInv, QueueTypes, OnePlace
<1>5. FirstTouch'
  BY <1>1, <1>2, <1>3 DEF EchoInv, FirstTouch
<1>6. \A v \in Workers : ConnOf(cfd[v])' \in {ConnOf(cfd[v]), None}
  BY <1>1 DEF ConnOf
<1>7. BufferOwn'
  BY <1>1, <1>2, <1>6 DEF EchoInv, FdInv, QueueTypes, BufferOwn, Blank
<1> QED
  BY <1>4, <1>5, <1>7 DEF EchoInv
\* Every step preserves the invariant.
LEMMA EchoStepInv == EchoInv /\ [Next]_vars => EchoInv'
<1> SUFFICES ASSUME EchoInv, [Next]_vars PROVE EchoInv'
  OBVIOUS
<1>1. FdInv'
  BY FdStepInv DEF EchoInv
<1>2. ASSUME NEW c \in Clients, ClientStep(c) PROVE EchoInv'
  BY <1>1, <1>2, ConnectEcho, ClientSendEcho, ClientEndEcho DEF ClientStep
<1>3. CASE MainLoop
  BY <1>1, <1>3, AcceptEcho, PostEcho DEF MainLoop
<1>4. ASSUME NEW w \in Workers, customer_service(w) PROVE EchoInv'
  BY <1>1, <1>4, PostEcho, RecvEcho, SendToEcho, CloseEcho DEF customer_service
<1>5. CASE UNCHANGED vars
  <2> USE <1>5 DEF vars, coreVars, serverVars
  <2>1. Open' = Open /\ Fds' = Fds /\ \A d : Untouched(d)' <=> Untouched(d)
    BY DEF Open, Fds, Untouched, Request
  <2>2. OnePlace' /\ FirstTouch' /\ BufferOwn'
    BY <2>1 DEF EchoInv, OnePlace, FirstTouch, BufferOwn, ConnOf, Blank
  <2> QED
    BY <1>1, <2>2 DEF EchoInv
<1> QED
  BY <1>2, <1>3, <1>4, <1>5 DEF Next

\* The server keeps the promise of EchoService: a step is a client's step, an
\* answer made of the client's own bytes, or invisible to the clients.
THEOREM QueueServerEchoes == Spec => KeepsPromise
<1>1. Init => Service!Init
  BY DEF Init, CoreInit, Service!Init
<1>2. ASSUME EchoInv, [Next]_vars PROVE [Service!Next]_<<client, reply>>
  <2>1. ASSUME NEW c \in Clients, ClientStep(c) PROVE Service!Next
    BY <2>1 DEF ClientStep, ClientConnect, Connect, ClientSend, ClientRecv, ClientQuit,
       Service!Next, Service!Step
  <2>2. CASE MainLoop
    BY <2>2 DEF MainLoop, MainAccept, MainSend, coreVars
  <2>3. ASSUME NEW w \in Workers, customer_service(w)
        PROVE  [Service!Next]_<<client, reply>>
    <3> DEFINE c == ConnOf(cfd[w])
    <3>1. CASE SendTo(w, c) /\ c # None /\ client[c] # "closed"
      <4>1. c \in Clients /\ client[c] = "sent" /\ reply[c] = <<>> /\ buf[w] \in Service!Echoes(c)
        BY <1>2, <3>1 DEF SendTo, EchoInv, FdInv, QueueTypes, BufferOwn, ConnOf
      <4>2. <<>> \o buf[w] = buf[w]
        BY <4>1 DEF Service!Echoes
      <4>3. Service!Answer(c)
        BY <3>1, <4>1, <4>2 DEF SendTo, Service!Answer
      <4> QED
        BY <4>1, <4>3 DEF Service!Next
    <3>2. CASE SendTo(w, c) /\ ~(c # None /\ client[c] # "closed")
      BY <3>2 DEF SendTo
    <3>3. CASE Receive(w) \/ Recv(w, c) \/ Close(w)
      BY <3>3 DEF Receive, Recv, Close, Clear
    <3> QED
      BY <2>3, <3>1, <3>2, <3>3 DEF customer_service
  <2>4. CASE UNCHANGED vars
    BY <2>4 DEF vars, coreVars
  <2> QED
    BY <1>2, <2>1, <2>2, <2>3, <2>4 DEF Next
<1> QED
  BY <1>1, <1>2, EchoInitInv, EchoStepInv, PTL DEF Spec, KeepsPromise, Service!Spec
============================================================================
