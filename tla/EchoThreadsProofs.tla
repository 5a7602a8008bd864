------------------------- MODULE EchoThreadsProofs -------------------------
(***************************************************************************)
(* Proofs about server models/1 for any numbers of clients, threads,       *)
(* places and descriptors.                                                 *)
(***************************************************************************)
EXTENDS EchoThreads, TLAPS

(* The counter as an index *)

CountTypes ==
  /\ client_count \in Int
  /\ cfds \in [0..(MaxClients - 1) -> Int]
  /\ mpc \in {"accept", "count", "inc", "test", "exited", "store", "param", "create",
              "undefined"}
  /\ mfd \in Int
  /\ mreg \in Int
  /\ slot \in [Workers -> Int]
  /\ wpc \in [Workers -> {"unborn", "start", "recv", "send", "close", "count", "dec",
                          "ended"}]
  /\ reg \in [Workers -> Int]

\* The places below v are in cfds and were written.
Written(v) == \A i \in 0..(v - 1) : i < MaxClients /\ cfds[i] # -1

\* What main has read, and where the counter may be: at most one place above
\* the written ones from client_count++ until the descriptor is stored.
MainWritten ==
  /\ IF mpc \in {"test", "store", "exited"} THEN Written(client_count - 1)
     ELSE Written(client_count)
  /\ mpc = "store" => client_count <= MaxClients
  /\ mpc = "inc" => Written(mreg)
  /\ mpc = "create" => mreg >= 0 /\ Written(mreg + 1)
  /\ mpc # "accept" => mfd # -1

\* What the threads have read: a counter value may be one too high, and a
\* place was written.
ThreadsWritten ==
  \A w \in Workers :
    /\ wpc[w] = "dec" => Written(reg[w] - 1)
    /\ wpc[w] # "unborn" => slot[w] >= 0 /\ Written(slot[w] + 1)

SlotInv == CountTypes /\ MainWritten /\ ThreadsWritten
slotVars == <<client_count, cfds, mpc, mfd, mreg, slot, wpc, reg>>

\* The invariant contains what the runs check.
LEMMA SlotsFromInv == SlotInv => SlotsSafe
<1> SUFFICES ASSUME SlotInv PROVE SlotsSafe
  OBVIOUS
<1> USE ThreadsAssumption DEF SlotInv, CountTypes
<1>1. NeverOverrun
  <2> SUFFICES ASSUME mpc \in {"store", "param", "create"}, client_count > MaxClients
               PROVE  FALSE
    BY DEF NeverOverrun
  <2>1. Written(client_count)
    BY DEF MainWritten
  <2>2. client_count - 1 \in 0..(client_count - 1) /\ ~(client_count - 1 < MaxClients)
    OBVIOUS
  <2> QED
    BY <2>1, <2>2 DEF Written
<1>2. NoGarbageRead
  <2> SUFFICES ASSUME NEW w \in Workers, wpc[w] # "unborn" PROVE Cfd(w) # -1
    BY DEF NoGarbageRead
  <2>1. slot[w] \in Int /\ slot[w] >= 0 /\ Written(slot[w] + 1)
    BY DEF ThreadsWritten
  <2>2. slot[w] \in 0..(slot[w] + 1 - 1)
    BY <2>1
  <2>3. slot[w] < MaxClients /\ cfds[slot[w]] # -1
    BY <2>1, <2>2 DEF Written
  <2> QED
    BY <2>1, <2>3 DEF Cfd
<1> QED
  BY <1>1, <1>2 DEF SlotsSafe

\* The counter starts at 0 and no thread has been created.
LEMMA SlotInit == Init => SlotInv
BY ThreadsAssumption
DEF Init, CoreInit, SlotInv, CountTypes, MainWritten, ThreadsWritten, Written

\* accept(): main has a descriptor.
LEMMA AcceptSlot ==
  ASSUME SlotInv, MainAccept
  PROVE  SlotInv'
BY ThreadsAssumption
DEF MainAccept, coreVars, Fds, SlotInv, CountTypes, MainWritten, ThreadsWritten, Written

\* client_count++, its test, and the argument of pthread_create().
LEMMA CountSlot ==
  ASSUME SlotInv, MainCount \/ MainTest \/ MainParam,
         UNCHANGED <<cfds, mfd, slot, wpc, reg>>
  PROVE  SlotInv'
<1> USE ThreadsAssumption
        DEF SlotInv, CountTypes, MainWritten, ThreadsWritten, Written
<1>1. CASE MainCount
  BY <1>1, SMTT(60) DEF MainCount
<1>2. CASE MainTest
  <2>1. CASE client_count > MaxClients
    BY <1>2, <2>1 DEF MainTest
  <2>2. CASE ~(client_count > MaxClients)
    BY <1>2, <2>2 DEF MainTest
  <2> QED
    BY <2>1, <2>2
<1>3. CASE MainParam
  <2>1. CASE client_count <= 0
    BY <1>3, <2>1 DEF MainParam
  <2>2. CASE ~(client_count <= 0)
    BY <1>3, <2>2 DEF MainParam
  <2> QED
    BY <2>1, <2>2
<1> QED
  BY <1>1, <1>2, <1>3

\* cfds[client_count - 1] = cfd: the place above the written ones, or one of them.
LEMMA StoreSlot ==
  ASSUME SlotInv, MainStore, UNCHANGED <<mfd, slot, wpc, reg>>
  PROVE  SlotInv'
<1> USE ThreadsAssumption DEF SlotInv, CountTypes
<1>1. /\ client_count' = client_count /\ mreg' = mreg /\ mpc = "store"
      /\ Written(client_count - 1) /\ client_count <= MaxClients /\ mfd # -1
  BY DEF MainStore, MainWritten
<1>2. CASE client_count <= 0
  <2>1. mpc' = "undefined" /\ cfds' = cfds
    BY <1>2 DEF MainStore
  <2> QED
    BY <1>1, <1>2, <2>1 DEF MainWritten, ThreadsWritten, Written
<1>3. CASE ~(client_count <= 0)
  <2>1. /\ mpc' = "param" /\ client_count - 1 \in 0..(MaxClients - 1)
        /\ cfds' = [cfds EXCEPT ![client_count - 1] = mfd]
    BY <1>1, <1>3 DEF MainStore
  <2>2. \A i \in 0..(MaxClients - 1) : cfds[i] # -1 => cfds'[i] # -1
    BY <1>1, <2>1
  <2>3. \A v \in Int : Written(v) => \A i \in 0..(v - 1) : i < MaxClients /\ cfds'[i] # -1
    BY <2>2 DEF Written
  <2>4. \A i \in 0..(client_count - 1) : i < MaxClients /\ cfds'[i] # -1
    <3> TAKE i \in 0..(client_count - 1)
    <3>1. CASE i = client_count - 1
      BY <1>1, <2>1, <3>1
    <3>2. CASE i # client_count - 1
      <4>1. i \in 0..(client_count - 1 - 1) /\ client_count - 1 \in Int
        BY <3>2
      <4> QED
        BY <1>1, <2>3, <4>1
    <3> QED
      BY <3>1, <3>2
  <2>5. MainWritten'
    BY <1>1, <2>1, <2>4 DEF MainWritten, Written
  <2>6. ThreadsWritten'
    <3> SUFFICES ASSUME NEW w \in Workers
                 PROVE  /\ wpc[w] = "dec" =>
                             \A i \in 0..(reg[w] - 1 - 1) : i < MaxClients /\ cfds'[i] # -1
                        /\ wpc[w] # "unborn" => slot[w] >= 0 /\
                             \A i \in 0..(slot[w] + 1 - 1) : i < MaxClients /\ cfds'[i] # -1
      BY DEF ThreadsWritten, Written
    <3>1. reg[w] - 1 \in Int /\ slot[w] + 1 \in Int
      OBVIOUS
    <3> QED
      BY <2>3, <3>1 DEF ThreadsWritten
  <2>7. CountTypes'
    BY <1>1, <2>1
  <2> QED
    BY <2>5, <2>6, <2>7
<1> QED
  BY <1>2, <1>3

\* pthread_create(): the thread gets a place that was written.
LEMMA CreateSlot ==
  ASSUME SlotInv, MainCreate
  PROVE  SlotInv'
<1> USE ThreadsAssumption DEF SlotInv, CountTypes
<1>1. UNCHANGED <<client_count, cfds, mfd, mreg, reg>> /\ mpc = "create"
  BY DEF MainCreate
<1>2. CASE client_count <= 0
  BY <1>1, <1>2 DEF MainCreate, MainWritten, ThreadsWritten, Written
<1>3. CASE ~(client_count <= 0)
  <2>1. PICK w \in Workers : /\ slot' = [slot EXCEPT ![w] = mreg]
                             /\ wpc' = [wpc EXCEPT ![w] = "start"]
                             /\ mpc' = "accept"
    BY <1>3 DEF MainCreate, Unborn
  <2>2. CountTypes' /\ MainWritten'
    BY <1>1, <2>1 DEF MainWritten, Written
  <2>3. ThreadsWritten'
    BY <1>1, <2>1 DEF MainWritten, ThreadsWritten, Written
  <2> QED
    BY <2>2, <2>3
<1> QED
  BY <1>2, <1>3

\* A step of a thread that is not about the counter.
LEMMA ServeSlot ==
  ASSUME SlotInv, NEW w \in Workers, UNCHANGED <<client_count, cfds, mpc, mfd, mreg, slot, reg>>,
         wpc[w] # "unborn", NEW l \in {"recv", "send", "close", "count"},
         wpc' = [wpc EXCEPT ![w] = l]
  PROVE  SlotInv'
BY DEF SlotInv, CountTypes, MainWritten, ThreadsWritten, Written

\* client_count--: what is written back was below a value the counter had.
LEMMA UncountSlot ==
  ASSUME SlotInv, NEW w \in Workers, Uncount(w)
  PROVE  SlotInv'
<1> USE ThreadsAssumption DEF SlotInv, CountTypes
<1>1. UNCHANGED <<cfds, mpc, mfd, mreg, slot>>
  BY DEF Uncount
<1>2. CASE wpc[w] = "count"
  <2>1. /\ wpc' = [wpc EXCEPT ![w] = "dec"] /\ reg' = [reg EXCEPT ![w] = client_count]
        /\ client_count' = client_count
    BY <1>2 DEF Uncount
  <2>2. CountTypes' /\ MainWritten'
    BY <1>1, <2>1 DEF MainWritten, Written
  <2>3. \A i \in 0..(client_count - 1 - 1) : i < MaxClients /\ cfds[i] # -1
    BY DEF MainWritten, Written
  <2>4. ThreadsWritten'
    BY <1>1, <1>2, <2>1, <2>3 DEF ThreadsWritten, Written
  <2> QED
    BY <2>2, <2>4
<1>3. CASE wpc[w] = "dec"
  <2>1. /\ wpc' = [wpc EXCEPT ![w] = "ended"] /\ reg' = reg /\ client_count' = reg[w] - 1
    BY <1>3 DEF Uncount
  <2>2. CountTypes' /\ ThreadsWritten'
    BY <1>1, <1>3, <2>1, SMTT(60) DEF ThreadsWritten, Written
  <2>3. Written(reg[w] - 1) /\ reg[w] - 1 \in Int
    BY <1>3 DEF ThreadsWritten
  <2>4. reg[w] - 1 <= MaxClients
    <3> SUFFICES ASSUME reg[w] - 1 > MaxClients PROVE FALSE
      BY <2>3
    <3>1. MaxClients \in 0..(reg[w] - 1 - 1) /\ ~(MaxClients < MaxClients)
      BY <2>3
    <3> QED
      BY <2>3, <3>1 DEF Written
  <2>5. MainWritten'
    BY <1>1, <2>1, <2>3, <2>4, SMTT(60) DEF MainWritten, Written
  <2> QED
    BY <2>2, <2>5
<1> QED
  BY <1>2, <1>3 DEF Uncount

\* Every step preserves the invariant.
LEMMA SlotStep == SlotInv /\ [Next]_vars => SlotInv'
<1> SUFFICES ASSUME SlotInv, [Next]_vars PROVE SlotInv'
  OBVIOUS
<1>1. CASE UNCHANGED slotVars
  BY <1>1 DEF slotVars, SlotInv, CountTypes, MainWritten, ThreadsWritten, Written
<1>2. ASSUME NEW c \in Clients, ClientStep(c) PROVE UNCHANGED slotVars
  BY <1>2 DEF ClientStep, ClientConnect, Connect, ClientSend, ClientRecv, ClientQuit,
              serverVars, slotVars
<1>3. CASE MainLoop
  BY <1>3, AcceptSlot, CountSlot, StoreSlot, CreateSlot DEF MainLoop, coreVars
<1>4. ASSUME NEW w \in Workers, customer_service(w) PROVE SlotInv'
  <2>1. CASE CallRecv(w)
    BY <2>1, ServeSlot DEF CallRecv
  <2>2. CASE Recv(w, sock[w]) /\ UNCHANGED serverVars
    BY <2>2, ServeSlot DEF Recv, serverVars
  <2>3. CASE SendTo(w, ConnOf(Cfd(w))) /\ UNCHANGED serverVars
    BY <2>3, ServeSlot DEF SendTo, serverVars
  <2>4. CASE Close(w)
    BY <2>4, ServeSlot DEF Close, Clear
  <2> QED
    BY <1>4, <2>1, <2>2, <2>3, <2>4, UncountSlot DEF customer_service
<1>5. CASE UNCHANGED vars
  BY <1>5, <1>1 DEF vars, coreVars, serverVars, slotVars
<1> QED
  BY <1>1, <1>2, <1>3, <1>4, <1>5 DEF Next

\* Whatever the unlocked counter does, main writes within cfds[10] and t[10]
\* and no thread reads a place that nobody wrote (server.c:66-73,17).
THEOREM ThreadsSlotsSafe == Spec => []SlotsSafe
BY SlotInit, SlotStep, SlotsFromInv, PTL DEF Spec
----------------------------------------------------------------------------
(* One client at a time *)

\* What a client sends, and what a buffer holds that nobody wrote to.
Request(c) == [i \in 1..Size |-> Service!Raw(c, i)]
Blank == [1..Size -> {Service!Zero, Service!Junk}]

\* Nobody has read from the connection or written to it.
Untouched(c) == reply[c] = <<>> /\ up[c] \in {<<>>, Request(c)}

ConnTypes ==
  /\ client \in [Clients -> {"start", "connected", "sent", "closed"}]
  /\ DOMAIN up = Clients /\ DOMAIN reply = Clients /\ DOMAIN buf = Workers
  /\ queue \in Seq(Clients)
  /\ table \in [Fds -> Clients \cup {None}]
  /\ DOMAIN sock = Workers

\* A connection is open: main has it, or a thread.
Serving ==
  mpc # "accept" \/ \E w \in Workers : wpc[w] \in {"start", "recv", "send", "close"}

\* Main and the threads take turns: there is one connection, at the place 0, and
\* the counter tells whether somebody is served.
Turns ==
  /\ mpc \notin {"exited", "undefined"}
  /\ mpc # "accept" => Live = {}
  /\ \A v, w \in Live : v = w
  /\ client_count =
       IF mpc \in {"test", "store", "param", "create"} \/ Live # {} THEN 1 ELSE 0
  /\ mpc \in {"inc", "create"} => mreg = 0
  /\ mpc \in {"param", "create"} \/ Live # {} => cfds[0] = mfd
  /\ \A w \in Live : /\ slot[w] = 0
                     /\ wpc[w] = "dec" => reg[w] = 1
                     /\ wpc[w] = "recv" => sock[w] = table[mfd]

OneConnection ==
  /\ \A f \in Fds : table[f] # None => f = mfd
  /\ IF Serving THEN mfd \in Fds /\ table[mfd] # None
     ELSE \A f \in Fds : table[f] = None

\* A connection waits once and is untouched until the thread has called recv();
\* the thread's buffer holds nobody's bytes before and an echo of its client
\* behind it.
Fresh ==
  /\ \A c \in Clients : client[c] \in {"start", "connected"} => reply[c] = <<>> /\ up[c] = <<>>
  /\ \A i \in 1..Len(queue) :
       /\ client[queue[i]] # "start"
       /\ Untouched(queue[i])
       /\ \A j \in 1..Len(queue) : queue[i] = queue[j] => i = j
  /\ \A f \in Fds : table[f] # None =>
       /\ client[table[f]] # "start"
       /\ \A i \in 1..Len(queue) : queue[i] # table[f]
       /\ (\A w \in Workers : wpc[w] \notin {"send", "close"}) => Untouched(table[f])

OwnBuffer ==
  /\ \A w \in Workers : wpc[w] \in {"unborn", "start", "recv"} => buf[w] \in Blank
  /\ \A w \in Workers, c \in Clients :
       wpc[w] = "send" /\ table[mfd] = c /\ client[c] # "closed" =>
         client[c] = "sent" /\ reply[c] = <<>> /\ buf[w] \in Service!Echoes(c)
  /\ \A c \in Clients : reply[c] = <<>> \/ reply[c] \in Service!Echoes(c)

OneAtATime == Turns /\ OneConnection /\ Fresh /\ OwnBuffer

AloneInv == SlotInv /\ ConnTypes /\ (~overlap => OneAtATime)

controlVars == <<table, client_count, cfds, mpc, mfd, mreg, slot, sock, reg, wpc>>

\* The invariant contains what the runs check.
LEMMA AloneFromInv == AloneInv => AloneIsSafe
<1> SUFFICES ASSUME AloneInv, ~overlap PROVE AloneIsSafe
  BY DEF AloneIsSafe
<1>1. OneAtATime
  BY DEF AloneInv
<1>2. \A c \in Clients : reply[c] = <<>> \/ reply[c] \in Service!Echoes(c)
  BY <1>1 DEF OneAtATime, OwnBuffer
<1>3. ASSUME mpc = "accept", Live = {}
      PROVE  client_count = 0 /\ \A f \in Fds : table[f] = None
  BY <1>1, <1>3 DEF OneAtATime, Turns, OneConnection, Serving, Live
<1> QED
  BY <1>2, <1>3 DEF AloneIsSafe

\* Nobody is there at the start.
LEMMA AloneInit == Init => AloneInv
<1> SUFFICES ASSUME Init PROVE AloneInv
  OBVIOUS
<1>1. ConnTypes
  BY DEF Init, CoreInit, ConnTypes
<1>2. Live = {} /\ ~Serving /\ Len(queue) = 0
  BY DEF Init, CoreInit, Live, Serving
<1>3. Turns /\ OneConnection
  BY <1>2 DEF Init, Turns, OneConnection
<1>4. Fresh
  BY <1>2 DEF Init, CoreInit, Fresh
<1>5. OwnBuffer
  BY DEF Init, CoreInit, OwnBuffer, Blank
<1> QED
  BY <1>1, <1>3, <1>4, <1>5, SlotInit DEF AloneInv, OneAtATime

\* What the variables hold, whatever step is taken.
LEMMA ConnTypesStep ==
  ASSUME ConnTypes, Next
  PROVE  ConnTypes'
<1> USE DEF ConnTypes, serverVars, coreVars
<1>1. ASSUME NEW c \in Clients, ClientStep(c) PROVE ConnTypes'
  <2>1. CASE ClientConnect(c)
    <3>1. Append(queue, c) \in Seq(Clients)
      OBVIOUS
    <3> QED
      BY <2>1, <3>1 DEF ClientConnect, Connect, Fds
  <2>2. CASE ClientSend(c) /\ UNCHANGED serverVars
    BY <2>2 DEF ClientSend, Fds
  <2>3. CASE (ClientRecv(c) \/ ClientQuit(c)) /\ UNCHANGED serverVars
    BY <2>3 DEF ClientRecv, ClientQuit, Fds
  <2> QED
    BY <1>1, <2>1, <2>2, <2>3 DEF ClientStep
<1>2. CASE MainAccept
  <2>1. queue \in Seq(Clients) /\ queue # <<>>
    BY <1>2 DEF MainAccept
  <2>2. Head(queue) \in Clients /\ Tail(queue) \in Seq(Clients)
    BY <2>1
  <2> QED
    BY <1>2, <2>2 DEF MainAccept, Fds
<1>3. CASE MainLoop /\ ~MainAccept
  BY <1>3 DEF MainLoop, MainStore, MainCreate, Fds
<1>4. ASSUME NEW w \in Workers, customer_service(w) PROVE ConnTypes'
  <2>1. CASE CallRecv(w) \/ Uncount(w)
    BY <2>1 DEF CallRecv, Uncount, Fds
  <2>2. CASE Recv(w, sock[w]) /\ UNCHANGED serverVars
    BY <2>2 DEF Recv, RecvSome, RecvInto, RecvNothing, Fds
  <2>3. CASE SendTo(w, ConnOf(Cfd(w))) /\ UNCHANGED serverVars
    BY <2>3 DEF SendTo, Fds
  <2>4. CASE Close(w)
    BY <2>4 DEF Close, Clear, Fds
  <2> QED
    BY <1>4, <2>1, <2>2, <2>3, <2>4 DEF customer_service
<1> QED
  BY <1>1, <1>2, <1>3, <1>4 DEF Next

\* A step of a client changes nothing of main and the threads.
LEMMA ControlStays ==
  ASSUME Turns, OneConnection, UNCHANGED controlVars
  PROVE  Turns' /\ OneConnection'
BY DEF controlVars, Turns, OneConnection, Serving, Live, Fds

\* connect(): the connection is new.
LEMMA ConnectAlone ==
  ASSUME ConnTypes, OneAtATime, NEW c \in Clients, ClientConnect(c)
  PROVE  OneAtATime'
<1> USE DEF ClientConnect, Connect, ConnTypes, OneAtATime
<1>1. UNCHANGED <<up, reply, wpc, buf>> /\ UNCHANGED controlVars
      /\ client[c] = "start" /\ client' = [client EXCEPT ![c] = "connected"]
  BY DEF controlVars
<1>2. /\ Len(queue') = Len(queue) + 1 /\ queue'[Len(queue) + 1] = c
      /\ \A i \in 1..Len(queue) : queue'[i] = queue[i]
      /\ \A i \in 1..Len(queue) : queue[i] \in Clients
      /\ Len(queue) \in Nat
  OBVIOUS
<1>3. \A d \in Clients : Untouched(d)' <=> Untouched(d)
  BY <1>1 DEF Untouched, Request
<1>4. Untouched(c) /\ \A i \in 1..Len(queue) : queue[i] # c
  BY <1>1 DEF Fresh, Untouched
<1>5. \A f \in Fds : table[f] # None => table[f] \in Clients /\ table[f] # c
  BY <1>1 DEF Fresh
<1>6. Fresh'
  <2>1. \A d \in Clients : client'[d] \in {"start", "connected"} => reply'[d] = <<>> /\ up'[d] = <<>>
    BY <1>1 DEF Fresh
  <2>2. \A i \in 1..Len(queue') :
          /\ client'[queue'[i]] # "start"
          /\ Untouched(queue'[i])
          /\ \A j \in 1..Len(queue') : queue'[i] = queue'[j] => i = j
    BY <1>1, <1>2, <1>4 DEF Fresh
  <2>3. \A f \in Fds : table[f] # None =>
          /\ client'[table[f]] # "start"
          /\ \A i \in 1..Len(queue') : queue'[i] # table[f]
          /\ (\A w \in Workers : wpc[w] \notin {"send", "close"}) => Untouched(table[f])
    BY <1>1, <1>2, <1>5 DEF Fresh
  <2> QED
    BY <1>1, <1>2, <2>1, <2>2, <2>3 DEF Fresh, Untouched, Request, Fds, controlVars
<1>7. OwnBuffer'
  <2>1. \A w \in Workers : wpc[w] = "send" => mfd \in Fds /\ table[mfd] # None
    BY DEF OneConnection, Serving
  <2> QED
    BY <1>1, <1>5, <2>1, CoreAssumption DEF OwnBuffer, controlVars, Blank
<1> QED
  BY <1>1, <1>6, <1>7, ControlStays

\* send() of a client, and its end.
LEMMA ClientAlone ==
  ASSUME ConnTypes, OneAtATime, NEW c \in Clients,
         ClientSend(c) \/ ClientRecv(c) \/ ClientQuit(c), UNCHANGED serverVars
  PROVE  OneAtATime'
<1> USE DEF ConnTypes, OneAtATime
<1>1. UNCHANGED <<reply, wpc, buf, queue>> /\ UNCHANGED controlVars
  BY DEF ClientSend, ClientRecv, ClientQuit, serverVars, controlVars
<1>2. /\ client[c] # "start"
      /\ \A d \in Clients : d # c => client'[d] = client[d] /\ up'[d] = up[d]
      /\ \/ client[c] = "connected" /\ client'[c] = "sent" /\ up'[c] = Request(c)
         \/ client'[c] = "closed" /\ up'[c] = up[c]
  BY DEF ClientSend, ClientRecv, ClientQuit, Request
<1>3. \A d \in Clients : Untouched(d) => Untouched(d)'
  BY <1>1, <1>2 DEF Untouched, Request, Fresh
<1>4. \A i \in 1..Len(queue) : queue[i] \in Clients
  OBVIOUS
<1>5. \A f \in Fds : table[f] # None => table[f] \in Clients
  OBVIOUS
<1>6. Fresh'
  <2>1. \A d \in Clients : client'[d] \in {"start", "connected"} => reply'[d] = <<>> /\ up'[d] = <<>>
    BY <1>1, <1>2 DEF Fresh
  <2>2. \A i \in 1..Len(queue) : client'[queue[i]] # "start"
    BY <1>2, <1>4 DEF Fresh
  <2>3. \A d \in Clients : \A i \in 1..Len(queue) : queue[i] = d => Untouched(d)'
    BY <1>3 DEF Fresh
  <2>4. \A f \in Fds : table[f] # None => client'[table[f]] # "start"
    BY <1>2, <1>5 DEF Fresh
  <2>5. \A d \in Clients : \A f \in Fds :
          table[f] = d /\ (\A w \in Workers : wpc[w] \notin {"send", "close"}) => Untouched(d)'
    BY <1>3, CoreAssumption DEF Fresh
  <2> QED
    BY <1>1, <1>4, <1>5, <2>1, <2>2, <2>3, <2>4, <2>5, ZenonT(60) DEF Fresh, Untouched, Request, Fds, controlVars
<1>7. OwnBuffer'
  BY <1>1, <1>2 DEF OwnBuffer, controlVars, Blank
<1> QED
  BY <1>1, <1>6, <1>7, ControlStays

\* accept() while no thread is alive.
LEMMA AcceptAlone ==
  ASSUME ConnTypes, OneAtATime, MainAccept, Live = {}
  PROVE  OneAtATime'
<1> USE DEF ConnTypes, OneAtATime
<1>1. /\ mpc = "accept" /\ mpc' = "count" /\ queue # <<>> /\ queue' = Tail(queue)
      /\ UNCHANGED <<client, up, reply, wpc, buf, client_count, cfds, mreg, slot, sock, reg>>
  BY DEF MainAccept, coreVars
<1>2. PICK f \in Fds : mfd' = f /\ table' = [table EXCEPT ![f] = Head(queue)]
  BY DEF MainAccept
<1>3. Live' = {} /\ \A w \in Workers : wpc[w] \in {"unborn", "ended"}
  BY <1>1 DEF Live
<1>4. \A g \in Fds : table[g] = None
  BY <1>1, <1>3 DEF OneConnection, Serving
<1>5. /\ 1 \in 1..Len(queue) /\ Head(queue) = queue[1] /\ Head(queue) \in Clients
      /\ \A i \in 1..Len(queue') : i + 1 \in 1..Len(queue) /\ queue'[i] = queue[i + 1]
                                   /\ i + 1 # 1
  BY <1>1
<1>6. Turns'
  BY <1>1, <1>3 DEF Turns
<1>7. OneConnection'
  BY <1>1, <1>2, <1>4, <1>5, CoreAssumption DEF OneConnection, Serving, Fds
<1>8. Fresh'
  <2>1. \A d : Untouched(d)' <=> Untouched(d)
    BY <1>1 DEF Untouched, Request
  <2>2. \A i \in 1..Len(queue') :
          /\ client[queue'[i]] # "start"
          /\ Untouched(queue'[i])
          /\ queue'[i] # Head(queue)
          /\ \A j \in 1..Len(queue') : queue'[i] = queue'[j] => i = j
    BY <1>5 DEF Fresh
  <2>3. client[Head(queue)] # "start" /\ Untouched(Head(queue))
    BY <1>5 DEF Fresh
  <2>4. \A g \in Fds : table'[g] # None => table'[g] = Head(queue)
    BY <1>2, <1>4
  <2> QED
    BY <1>1, <2>2, <2>3, <2>4, ZenonT(60) DEF Fresh, Untouched, Request, Fds
<1>9. OwnBuffer'
  BY <1>1, <1>3 DEF OwnBuffer, Blank
<1> QED
  BY <1>6, <1>7, <1>8, <1>9

\* What main does between accept() and pthread_create() is not seen by the
\* clients.
LEMMA DataStays ==
  ASSUME Fresh, OwnBuffer, UNCHANGED <<client, up, reply, buf, queue, table, mfd>>,
         \A w \in Workers : wpc'[w] = wpc[w] \/ (wpc[w] = "unborn" /\ wpc'[w] = "start")
                            \/ (wpc[w] = "start" /\ wpc'[w] = "recv")
                            \/ (wpc[w] = "count" /\ wpc'[w] = "dec")
                            \/ (wpc[w] = "dec" /\ wpc'[w] = "ended")
  PROVE  Fresh' /\ OwnBuffer'
<1>1. (\A w \in Workers : wpc'[w] \notin {"send", "close"}) =>
      (\A w \in Workers : wpc[w] \notin {"send", "close"})
  OBVIOUS
<1>2. Fresh'
  BY <1>1 DEF Fresh, Untouched, Request, Fds
<1>3. OwnBuffer'
  BY DEF OwnBuffer, Blank
<1> QED
  BY <1>2, <1>3

\* Main's own steps leave the turn with main.
LEMMA CountOnly ==
  ASSUME Turns, Live = {}, Live' = {}, mpc # "accept", mpc' # "accept",
         mpc' \notin {"exited", "undefined"}, UNCHANGED <<cfds, mfd>>,
         client_count' = IF mpc' \in {"test", "store", "param", "create"} THEN 1 ELSE 0,
         mpc' \in {"inc", "create"} => mreg' = 0,
         mpc' \in {"param", "create"} => mpc \in {"param", "create"}
  PROVE  Turns'
BY DEF Turns

\* Main goes on to pthread_create() with its one connection.
LEMMA MainAlone ==
  ASSUME SlotInv, ConnTypes, OneAtATime, MainLoop, ~MainAccept
  PROVE  OneAtATime'
<1> USE ThreadsAssumption DEF ConnTypes, OneAtATime
<1>1. mpc # "accept" /\ Live = {} /\ \A w \in Workers : wpc[w] \in {"unborn", "ended"}
  BY DEF MainLoop, MainAccept, MainCount, MainTest, MainStore, MainParam, MainCreate, Turns, Live
<1>2. UNCHANGED <<client, up, reply, buf, queue, table, mfd, sock, reg>>
  BY DEF MainLoop, MainAccept, MainCreate, coreVars
<1>3. CASE /\ \/ (MainCount \/ MainTest \/ MainParam) /\ cfds' = cfds
              \/ MainStore
           /\ UNCHANGED <<wpc, slot>>
  <2>1. Live' = Live
    BY <1>3 DEF Live
  <2>2. mpc' # "accept"
    BY <1>3 DEF MainCount, MainTest, MainParam, MainStore
  <2>3. OneConnection'
    BY <1>1, <1>2, <2>2 DEF OneConnection, Serving, Fds
  <2>4. UNCHANGED <<slot, sock, reg>> /\ client_count \in Int /\ mreg \in Int
    BY <1>2, <1>3 DEF SlotInv, CountTypes
  <2>5. Turns'
    <3> USE <1>1, <1>2, <1>3, <2>1, <2>2, <2>4
    <3>1. CASE MainCount /\ cfds' = cfds
      BY <3>1, CountOnly DEF MainCount, Turns
    <3>2. CASE MainTest /\ cfds' = cfds
      BY <3>2, CountOnly DEF MainTest, Turns
    <3>3. CASE MainParam /\ cfds' = cfds
      BY <3>3, CountOnly DEF MainParam, Turns
    <3>4. CASE MainStore
      <4>1. client_count = 1 /\ mpc' = "param" /\ UNCHANGED <<client_count, mreg>>
        BY <3>4 DEF MainStore, Turns
      <4>2. 0 \in DOMAIN cfds /\ client_count - 1 = 0
        BY <4>1 DEF SlotInv, CountTypes
      <4>3. cfds'[0] = mfd
        BY <3>4, <4>2 DEF MainStore
      <4> QED
        BY <4>1, <4>3 DEF Turns
    <3> QED
      BY <3>1, <3>2, <3>3, <3>4
  <2> QED
    BY <1>2, <1>3, <2>3, <2>5, DataStays
<1>4. CASE MainCreate
  <2>1. /\ mpc = "create" /\ mreg = 0 /\ client_count = 1 /\ cfds[0] = mfd
        /\ UNCHANGED <<client_count, cfds, mreg>>
    BY <1>4 DEF MainCreate, Turns
  <2>2. PICK w \in Workers : /\ wpc[w] = "unborn"
                             /\ slot' = [slot EXCEPT ![w] = mreg]
                             /\ wpc' = [wpc EXCEPT ![w] = "start"]
                             /\ mpc' = "accept"
    BY <1>4, <2>1 DEF MainCreate, Unborn
  <2>3. /\ wpc'[w] = "start" /\ slot'[w] = 0
        /\ \A v \in Workers : v # w => wpc'[v] = wpc[v]
    BY <2>1, <2>2 DEF SlotInv, CountTypes
  <2>4. Live' = {w}
    BY <1>1, <2>3 DEF Live
  <2>5. Turns'
    BY <1>2, <2>1, <2>2, <2>3, <2>4 DEF Turns
  <2>6. OneConnection'
    BY <1>1, <1>2, <2>2, <2>3 DEF OneConnection, Serving, Fds
  <2> QED
    BY <1>2, <2>2, <2>3, <2>5, <2>6, DataStays
<1> QED
  BY <1>3, <1>4 DEF MainLoop, coreVars

\* A thread that is alive is the only one, and its pointer leads to the one open
\* descriptor.
LEMMA OnlyThread ==
  ASSUME SlotInv, ConnTypes, OneAtATime, NEW w \in Workers, w \in Live
  PROVE  /\ mpc = "accept" /\ client_count = 1 /\ Cfd(w) = mfd /\ Live = {w}
         /\ \A v \in Workers : v # w => wpc[v] \in {"unborn", "ended"}
         /\ wpc[w] \in {"start", "recv", "send", "close"} =>
              mfd \in Fds /\ table[mfd] \in Clients /\ ConnOf(Cfd(w)) = table[mfd]
<1> USE ThreadsAssumption DEF OneAtATime
<1>1. /\ mpc = "accept" /\ client_count = 1 /\ Live = {w} /\ slot[w] = 0 /\ cfds[0] = mfd
  BY DEF Turns
<1>2. Cfd(w) = mfd
  BY <1>1 DEF Cfd, SlotInv, CountTypes
<1>3. \A v \in Workers : v # w => wpc[v] \in {"unborn", "ended"}
  BY <1>1 DEF Live
<1>4. ASSUME wpc[w] \in {"start", "recv", "send", "close"}
      PROVE  mfd \in Fds /\ table[mfd] \in Clients /\ ConnOf(Cfd(w)) = table[mfd]
  BY <1>2, <1>4 DEF OneConnection, Serving, ConnOf, ConnTypes
<1> QED
  BY <1>1, <1>2, <1>3, <1>4

\* recv() is called on that connection, and the thread's end is counted.
LEMMA CountedAlone ==
  ASSUME SlotInv, ConnTypes, OneAtATime, NEW w \in Workers, CallRecv(w) \/ Uncount(w)
  PROVE  OneAtATime'
<1> USE DEF OneAtATime
<1>1. w \in Live
  BY DEF CallRecv, Uncount, Live
<1>2. /\ mpc = "accept" /\ client_count = 1 /\ Cfd(w) = mfd /\ Live = {w}
      /\ \A v \in Workers : v # w => wpc[v] \in {"unborn", "ended"}
  BY <1>1, OnlyThread
<1>3. UNCHANGED <<client, up, reply, buf, queue, table, cfds, mpc, mfd, mreg, slot>>
  BY DEF CallRecv, Uncount
<1>4. DOMAIN wpc = Workers /\ DOMAIN sock = Workers /\ DOMAIN reg = Workers
  BY DEF SlotInv, CountTypes, ConnTypes
<1>5. CASE CallRecv(w)
  <2>1. /\ wpc[w] = "start" /\ UNCHANGED <<client_count, reg>>
        /\ wpc' = [wpc EXCEPT ![w] = "recv"] /\ sock'[w] = table[mfd]
    BY <1>1, <1>4, <1>5, OnlyThread DEF CallRecv
  <2>2. Live' = {w}
    BY <1>2, <1>4, <2>1 DEF Live
  <2>3. Turns'
    BY <1>2, <1>3, <1>4, <2>1, <2>2 DEF Turns
  <2>4. OneConnection'
    BY <1>2, <1>3, <1>4, <2>1 DEF OneConnection, Serving, Fds
  <2> QED
    BY <1>3, <1>4, <2>1, <2>3, <2>4, DataStays
<1>6. CASE Uncount(w) /\ wpc[w] = "count"
  <2>1. /\ wpc' = [wpc EXCEPT ![w] = "dec"] /\ reg' = [reg EXCEPT ![w] = client_count]
        /\ UNCHANGED <<client_count, sock>>
    BY <1>6 DEF Uncount
  <2>2. Live' = {w}
    BY <1>2, <1>4, <2>1 DEF Live
  <2>3. Turns'
    BY <1>2, <1>3, <1>4, <2>1, <2>2 DEF Turns
  <2>4. OneConnection'
    BY <1>2, <1>3, <1>4, <1>6, <2>1 DEF OneConnection, Serving, Fds
  <2> QED
    BY <1>3, <1>4, <1>6, <2>1, <2>3, <2>4, DataStays
<1>7. CASE Uncount(w) /\ wpc[w] = "dec"
  <2>1. /\ wpc' = [wpc EXCEPT ![w] = "ended"] /\ client_count' = reg[w] - 1
        /\ UNCHANGED <<reg, sock>>
    BY <1>7 DEF Uncount
  <2>2. Live' = {}
    BY <1>2, <1>4, <2>1 DEF Live
  <2>3. reg[w] = 1
    BY <1>1, <1>7 DEF Turns
  <2>4. Turns'
    BY <1>2, <1>3, <2>1, <2>2, <2>3 DEF Turns
  <2>5. OneConnection'
    BY <1>2, <1>3, <1>4, <1>7, <2>1 DEF OneConnection, Serving, Fds
  <2> QED
    BY <1>3, <1>4, <1>7, <2>1, <2>4, <2>5, DataStays
<1> QED
  BY <1>5, <1>6, <1>7 DEF Uncount

\* What recv() leaves in the buffer of a thread that has read nothing before.
LEMMA ReceivedIsEcho ==
  ASSUME NEW c \in Clients, NEW w \in Workers, NEW n \in 1..Size,
         DOMAIN buf = Workers, buf[w] \in Blank, up[c] = Request(c), RecvInto(w, c, n)
  PROVE  buf'[w] \in Service!Echoes(c)
<1>1. \A i \in 1..Size : up[c][i][1] = c /\ up[c][i][2] = i
  BY DEF Request, Service!Raw
<1>2. buf'[w] = [i \in 1..Size |-> IF i <= n THEN Service!Upper(c, i) ELSE buf[w][i]]
  BY <1>1 DEF RecvInto
<1> DEFINE Mixed(m, rest) == [i \in 1..Size |-> IF i <= m THEN Service!Upper(c, i) ELSE rest[i]]
<1>3. Service!Echoes(c) = {Mixed(m, rest) : m \in 1..Size, rest \in Blank}
  BY DEF Service!Echoes, Blank
<1>4. buf'[w] = Mixed(n, buf[w])
  BY <1>2
<1> HIDE DEF Mixed
<1> QED
  BY <1>3, <1>4

\* A thread that goes on serving keeps the turn and the connection.
LEMMA KeepsTurn ==
  ASSUME SlotInv, ConnTypes, OneAtATime, NEW w \in Workers, w \in Live,
         wpc[w] \in {"recv", "send"}, NEW l \in {"send", "close"},
         wpc' = [wpc EXCEPT ![w] = l], UNCHANGED serverVars
  PROVE  Turns' /\ OneConnection'
<1> USE DEF OneAtATime, serverVars
<1>1. DOMAIN wpc = Workers /\ mpc = "accept" /\ Live = {w}
      /\ \A v \in Workers : v # w => wpc[v] \in {"unborn", "ended"}
  BY OnlyThread DEF SlotInv, CountTypes
<1>2. Live' = {w}
  BY <1>1 DEF Live
<1>3. Turns'
  BY <1>1, <1>2 DEF Turns
<1>4. OneConnection'
  BY <1>1 DEF OneConnection, Serving, Fds
<1> QED
  BY <1>3, <1>4

\* recv(): the thread's buffer now holds its own client's bytes.
LEMMA RecvAlone ==
  ASSUME SlotInv, ConnTypes, OneAtATime, NEW w \in Workers, Recv(w, sock[w]),
         UNCHANGED serverVars
  PROVE  OneAtATime'
<1> USE DEF OneAtATime
<1> DEFINE c == table[mfd]
<1>1. w \in Live /\ wpc[w] = "recv"
  BY DEF Recv, Live
<1>2. sock[w] = c /\ mfd \in Fds /\ c \in Clients /\ c # None
      /\ \A v \in Workers : v # w => wpc[v] \in {"unborn", "ended"}
  BY <1>1, OnlyThread, CoreAssumption DEF Turns
<1>3. /\ UNCHANGED <<client, reply, queue, table, mfd>>
      /\ wpc' = [wpc EXCEPT ![w] = "send"] /\ wpc'[w] = "send"
      /\ \A v \in Workers : v # w => wpc'[v] = wpc[v] /\ buf'[v] = buf[v]
  BY DEF Recv, serverVars, RecvSome, RecvInto, RecvNothing, ConnTypes, SlotInv, CountTypes
<1>4. Turns' /\ OneConnection'
  BY <1>1, <1>3, KeepsTurn
<1>5. Untouched(c) /\ buf[w] \in Blank
  BY <1>1, <1>2 DEF Fresh, OwnBuffer
<1>6. \A f \in Fds : table[f] # None => f = mfd
  BY DEF OneConnection
<1>7. \A i \in 1..Len(queue) : queue[i] \in Clients /\ queue[i] # c
  BY <1>2 DEF Fresh, ConnTypes
<1>8. \A d \in Clients : d # c => (Untouched(d)' <=> Untouched(d)) /\ up'[d] = up[d]
  BY <1>2, <1>3 DEF Recv, RecvSome, RecvNothing, Untouched, Request, ConnTypes
<1>9. CASE RecvNothing(c)
  <2>1. UNCHANGED <<up, buf>> /\ client[c] = "closed"
    BY <1>2, <1>9 DEF RecvNothing
  <2>2. Fresh'
    BY <1>2, <1>3, <1>6, <1>7, <1>8, <2>1 DEF Fresh, Fds
  <2>3. OwnBuffer'
    BY <1>2, <1>3, <2>1 DEF OwnBuffer, Blank
  <2> QED
    BY <1>4, <2>2, <2>3
<1>10. CASE RecvSome(w, c)
  <2>1. PICK n \in 1..Len(up[c]) :
          RecvInto(w, c, n) /\ up' = [up EXCEPT ![c] = SubSeq(@, n + 1, Len(@))]
    BY <1>10 DEF RecvSome
  <2>2. up[c] = Request(c) /\ n \in 1..Size
    BY <1>5, <2>1, CoreAssumption DEF Untouched, Request
  <2>3. buf'[w] \in Service!Echoes(c)
    BY <1>2, <1>5, <2>1, <2>2, ReceivedIsEcho DEF ConnTypes
  <2>4. client[c] \in {"sent", "closed"} /\ reply[c] = <<>>
    BY <1>2, <1>5, <2>2, CoreAssumption DEF Fresh, Request, Untouched, ConnTypes
  <2>5. Fresh'
    BY <1>2, <1>3, <1>6, <1>7, <1>8, <2>4 DEF Fresh, Fds
  <2>6. OwnBuffer'
    BY <1>2, <1>3, <2>3, <2>4 DEF OwnBuffer, Blank
  <2> QED
    BY <1>4, <2>5, <2>6
<1> HIDE DEF c
<1> QED
  BY <1>2, <1>9, <1>10 DEF Recv

\* send(): the one connection is answered, with its own client's bytes.
LEMMA SendAlone ==
  ASSUME SlotInv, ConnTypes, OneAtATime, NEW w \in Workers, SendTo(w, ConnOf(Cfd(w))),
         UNCHANGED serverVars
  PROVE  OneAtATime'
<1> USE DEF OneAtATime
<1> DEFINE c == table[mfd]
<1>1. w \in Live /\ wpc[w] = "send"
  BY DEF SendTo, Live
<1>2. ConnOf(Cfd(w)) = c /\ mfd \in Fds /\ c \in Clients /\ c # None
      /\ \A v \in Workers : v # w => wpc[v] \in {"unborn", "ended"}
  BY <1>1, OnlyThread, CoreAssumption
<1>3. /\ UNCHANGED <<client, up, buf, queue, table, mfd>>
      /\ wpc' = [wpc EXCEPT ![w] = "close"] /\ wpc'[w] = "close"
      /\ \A v \in Workers : v # w => wpc'[v] = wpc[v]
  BY DEF SendTo, serverVars, SlotInv, CountTypes
<1>4. Turns' /\ OneConnection'
  BY <1>1, <1>3, KeepsTurn
<1>5. \A f \in Fds : table[f] # None => f = mfd
  BY DEF OneConnection
<1>6. \A i \in 1..Len(queue) : queue[i] \in Clients /\ queue[i] # c
  BY <1>2 DEF Fresh, ConnTypes
<1>7. \A d \in Clients : d # c => (Untouched(d)' <=> Untouched(d)) /\ reply'[d] = reply[d]
  BY <1>2, <1>3 DEF SendTo, Untouched, Request, ConnTypes
<1>8. reply'[c] = reply[c] \/ (client[c] = "sent" /\ reply'[c] \in Service!Echoes(c))
  <2>1. CASE client[c] = "closed"
    BY <1>2, <2>1 DEF SendTo
  <2>2. CASE client[c] # "closed"
    <3>1. client[c] = "sent" /\ reply[c] = <<>> /\ buf[w] \in Service!Echoes(c)
      BY <1>1, <1>2, <2>2 DEF OwnBuffer
    <3>2. <<>> \o buf[w] = buf[w]
      BY <3>1 DEF Service!Echoes
    <3> QED
      BY <1>2, <2>2, <3>1, <3>2 DEF SendTo, ConnTypes
  <2> QED
    BY <2>1, <2>2
<1>9. client[c] \notin {"start", "connected"} \/ reply'[c] = reply[c]
  BY <1>8
<1>10. Fresh'
  BY <1>2, <1>3, <1>5, <1>6, <1>7, <1>9 DEF Fresh, Fds
<1>11. OwnBuffer'
  BY <1>2, <1>3, <1>7, <1>8 DEF OwnBuffer, Blank
<1> QED
  BY <1>4, <1>10, <1>11

\* memset() and close(): nothing is open any more.
LEMMA CloseAlone ==
  ASSUME SlotInv, ConnTypes, OneAtATime, NEW w \in Workers, Close(w)
  PROVE  OneAtATime'
<1> USE DEF OneAtATime
<1>1. w \in Live /\ wpc[w] = "close"
  BY DEF Close, Clear, Live
<1>2. /\ mpc = "accept" /\ Cfd(w) = mfd /\ Live = {w} /\ mfd \in Fds
      /\ \A v \in Workers : v # w => wpc[v] \in {"unborn", "ended"}
  BY <1>1, OnlyThread
<1>3. /\ UNCHANGED <<client, up, reply, queue, client_count, cfds, mpc, mfd, mreg, slot, sock, reg>>
      /\ table' = [table EXCEPT ![mfd] = None]
      /\ wpc' = [wpc EXCEPT ![w] = "count"] /\ wpc'[w] = "count"
      /\ \A v \in Workers : v # w => wpc'[v] = wpc[v] /\ buf'[v] = buf[v]
  BY <1>2 DEF Close, Clear, SlotInv, CountTypes, ConnTypes
<1>4. \A f \in Fds : table'[f] = None
  BY <1>2, <1>3 DEF OneConnection, ConnTypes
<1>5. Live' = {w}
  BY <1>2, <1>3 DEF Live
<1>6. Turns'
  BY <1>1, <1>2, <1>3, <1>5 DEF Turns
<1>7. OneConnection'
  BY <1>2, <1>3, <1>4 DEF OneConnection, Serving, Fds
<1>8. Fresh'
  <2>1. \A d : Untouched(d)' <=> Untouched(d)
    BY <1>3 DEF Untouched, Request
  <2> QED
    BY <1>3, <1>4, <2>1 DEF Fresh, Fds
<1>9. OwnBuffer'
  BY <1>2, <1>3 DEF OwnBuffer, Blank
<1> QED
  BY <1>6, <1>7, <1>8, <1>9

\* Every step preserves the invariant: only accept() can end the time in which
\* there is one connection at a time.
LEMMA AloneStep == AloneInv /\ [Next]_vars => AloneInv'
<1> SUFFICES ASSUME AloneInv, [Next]_vars PROVE AloneInv'
  OBVIOUS
<1>1. SlotInv' /\ SlotInv /\ ConnTypes
  BY SlotStep DEF AloneInv
<1>2. CASE UNCHANGED vars
  <2>1. ConnTypes'
    BY <1>1, <1>2 DEF vars, coreVars, serverVars, ConnTypes, Fds
  <2>2. ASSUME OneAtATime PROVE OneAtATime'
    BY <1>2, <2>2, ControlStays, DataStays
    DEF vars, coreVars, serverVars, controlVars, OneAtATime
  <2> QED
    BY <1>1, <1>2, <2>1, <2>2 DEF AloneInv, vars, serverVars
<1>3. CASE Next
  <2>1. ConnTypes'
    BY <1>1, <1>3, ConnTypesStep
  <2> SUFFICES ASSUME ~overlap' PROVE OneAtATime'
    BY <1>1, <2>1 DEF AloneInv
  <2>2. ~overlap /\ (MainAccept => Live = {})
    <3>1. CASE MainAccept
      BY <3>1, Zenon DEF MainAccept
    <3>2. CASE ~MainAccept
      <4>1. overlap' = overlap
        BY <1>3, <3>2 DEF Next, ClientStep, ClientConnect, MainLoop, MainCreate,
           customer_service, CallRecv, Close, Uncount, serverVars
      <4> QED
        BY <3>2, <4>1, Zenon
    <3> QED
      BY <3>1, <3>2
  <2>3. OneAtATime
    BY <2>2 DEF AloneInv
  <2>4. ASSUME NEW c \in Clients, ClientStep(c) PROVE OneAtATime'
    BY <1>1, <2>3, <2>4, ConnectAlone, ClientAlone DEF ClientStep
  <2>5. CASE MainLoop
    BY <1>1, <2>2, <2>3, <2>5, AcceptAlone, MainAlone
  <2>6. ASSUME NEW w \in Workers, customer_service(w) PROVE OneAtATime'
    BY <1>1, <2>3, <2>6, CountedAlone, RecvAlone, SendAlone, CloseAlone DEF customer_service
  <2> QED
    BY <1>3, <2>4, <2>5, <2>6 DEF Next
<1> QED
  BY <1>2, <1>3

\* As long as no connection is accepted before the previous thread has ended,
\* every answer is an echo of its own client's request, and between two clients
\* the counter is 0 and no descriptor is open (server.c:14-34,62-74).
THEOREM ThreadsAloneSafe == Spec => []AloneIsSafe
BY AloneInit, AloneStep, AloneFromInv, PTL DEF Spec
============================================================================
