---------------------------- MODULE DatagramEcho ----------------------------
(***************************************************************************)
(* The echo servers over datagrams: echo_UDP, RAW/IP, whose client builds  *)
(* its own headers on a raw socket, and unix_sockets/s1 and c1.  All run   *)
(* on one host.  A UDP datagram for a full socket is dropped, a sender to  *)
(* a full unix socket waits; a datagram for nobody is dropped.  Nobody     *)
(* repeats a request or stops waiting for an answer.                       *)
(*                                                                         *)
(* A client of echo_UDP or c1 has an address of its own.  The raw clients  *)
(* share port 7777, and each raw socket gets a copy of every answer: they  *)
(* take the first one for port 7777, whoever asked for it.                 *)
(***************************************************************************)
EXTENDS Naturals, Sequences

CONSTANTS
  Owners,      \* clients with an address of their own: echo_UDP, or c1
  RawClients,  \* clients of RAW/IP
  None,        \* no client
  Size,        \* SIZE, the bytes of a buffer
  TextLengths, \* how many characters a user may type
  RcvQueue     \* datagrams that fit in the server's socket

ASSUME DatagramAssumption ==
  /\ Owners \cap RawClients = {}
  /\ None \notin Owners \cup RawClients
  /\ Size \in Nat \ {0}
  /\ TextLengths \subseteq 0..Size
  /\ RcvQueue \in Nat \ {0}

VARIABLES
  family,   \* "inet" or "unix": which of the servers is run
  client,   \* where each client is
  typed,    \* how many characters its user has typed
  reply,    \* its buffer, once recvfrom() has returned
  requests, \* the queue of the server's socket: [from, bytes]
  server,   \* where the server is
  buf,      \* its buffer, the numBytes bytes that count
  caddr,    \* the address it answers to
  answers,  \* the queue of each client's socket
  dropped,  \* history: the clients whose request or whose answer was dropped
  crossed   \* history: raw clients that waited while another's answer was due

dgramVars ==
  <<family, client, typed, reply, requests, server, buf, caddr, answers, dropped, crossed>>

Everybody == Owners \cup RawClients

\* What the servers promise a client with an address of its own.  A user who
\* types nothing has c1 send an empty datagram: that is no request.
Promise == INSTANCE EchoService WITH
  Clients <- Owners,
  client <- [c \in Owners |-> client[c]],
  reply <- [c \in Owners |-> IF typed[c] = 0 THEN <<>> ELSE reply[c]]

Raw(c, i) == Promise!Raw(c, i)
Zero == Promise!Zero
Junk == Promise!Junk
Filled(bytes, rest) == [i \in 1..Size |-> IF i <= Len(bytes) THEN bytes[i] ELSE rest]

toupper(b) == IF b[3] = "raw" THEN Promise!Upper(b[1], b[2]) ELSE b

DgramInit ==
  /\ family \in {"inet", "unix"}
  /\ client = [c \in Everybody |-> "start"]
  /\ typed = [c \in Everybody |-> 0]
  /\ reply = [c \in Everybody |-> <<>>]
  /\ requests = <<>>
  /\ server = "off"
  /\ buf = <<>>
  /\ caddr = None
  /\ answers = [c \in Everybody |-> <<>>]
  /\ dropped = {}
  /\ crossed = {}
----------------------------------------------------------------------------
(* The servers *)

\* socket() and bind()
ServerBinds ==
  /\ server = "off"
  /\ server' = "recv"
  /\ UNCHANGED <<family, client, typed, reply, requests, buf, caddr, answers, dropped, crossed>>

\* recvfrom() and the loop over numBytes bytes.  What lies behind them in the
\* buffer, garbage or zeroes, is never sent.
ServerReceives ==
  /\ server = "recv"
  /\ requests # <<>>
  /\ LET m == Head(requests)
     IN  /\ caddr' = m.from
         /\ buf' = [i \in 1..Len(m.bytes) |-> toupper(m.bytes[i])]
  /\ requests' = Tail(requests)
  /\ server' = "send"
  /\ UNCHANGED <<family, client, typed, reply, answers, dropped, crossed>>

\* Raw clients that do not look at the port.
TakesAll(c, to) == client[c] \in {"connected", "sent"} /\ (c = to \/ c \in RawClients)

\* A socket takes what is for its address.  The raw sockets get copies of all
\* UDP datagrams, the requests too; a raw client skips the ones that are not
\* for port 7777.
Takes(c, to) == client[c] \in {"connected", "sent"} /\ (c = to \/ {c, to} \subseteq RawClients)

\* The datagram buf goes to the sockets that take what is for the address to.
\* A raw socket may be full of the other datagrams of the host just then, and
\* loses its copy; nothing else comes to the socket of an owner.
Answered(to, lost) ==
  /\ answers' = [c \in Everybody |->
       IF Takes(c, to) /\ c \notin lost THEN Append(answers[c], buf) ELSE answers[c]]
  /\ dropped' = dropped \cup {c \in lost : Takes(c, to)}

\* A server that answers to the sender of the next request.
ServerSendsStale ==
  /\ server = "send"
  /\ \E lost \in SUBSET RawClients :
       Answered(IF requests = <<>> THEN caddr ELSE Head(requests).from, lost)
  /\ buf' = <<>>
  /\ caddr' = None
  /\ server' = "recv"
  /\ UNCHANGED <<family, client, typed, reply, requests, crossed>>

\* A server that serves one client.
ServerSendsOnce ==
  /\ server = "send"
  /\ \E lost \in SUBSET RawClients : Answered(caddr, lost)
  /\ buf' = <<>>
  /\ caddr' = None
  /\ server' = "ended"
  /\ UNCHANGED <<family, client, typed, reply, requests, crossed>>

\* sendto() numBytes bytes to caddr, and memset(); caddr is not used again.
ServerSends ==
  /\ server = "send"
  /\ \E lost \in SUBSET RawClients : Answered(caddr, lost)
  /\ buf' = <<>>
  /\ caddr' = None
  /\ server' = "recv"
  /\ UNCHANGED <<family, client, typed, reply, requests, crossed>>
----------------------------------------------------------------------------
(* The clients *)

\* socket(), and bind() in c1
Opens(c) ==
  /\ client[c] = "start"
  /\ family = "unix" => c \in Owners
  /\ client' = [client EXCEPT ![c] = "connected"]
  /\ UNCHANGED <<family, typed, reply, requests, server, buf, caddr, answers, dropped, crossed>>

\* The datagram for a text of n characters: the whole array, garbage included,
\* with echo_UDP, a zeroed one with RAW/IP, and the characters alone with c1.
Datagram(c, n) ==
  LET text == [i \in 1..n |-> Raw(c, i)]
  IN  CASE family = "unix" -> text
        [] family # "unix" /\ c \in RawClients -> Filled(text, Zero)
        [] OTHER -> Filled(text, Junk)

\* The clients whose answers are due.
Owed == {requests[i].from : i \in 1..Len(requests)} \cup {caddr}

\* sendto()
Sends(c, n) ==
  LET lostHere == server = "off" \/ (family = "inet" /\ Len(requests) = RcvQueue)
      others == {d \in RawClients \ {c} : client[d] = "sent"}
  IN  /\ client[c] = "connected"
      /\ n = 0 => family = "unix" \/ c \in RawClients
      /\ family = "unix" /\ server # "off" => Len(requests) < RcvQueue
      /\ client' = [client EXCEPT ![c] = "sent"]
      /\ typed' = [typed EXCEPT ![c] = n]
      /\ requests' = IF lostHere THEN requests
                     ELSE Append(requests, [from |-> c, bytes |-> Datagram(c, n)])
      /\ dropped' = IF lostHere THEN dropped \cup {c} ELSE dropped
      /\ crossed' = IF c \notin RawClients THEN crossed
                    ELSE crossed \cup others
                           \cup (IF others \cup (Owed \cap RawClients) # {} \/ answers[c] # <<>>
                                 THEN {c} ELSE {})
      /\ UNCHANGED <<family, reply, server, buf, caddr, answers>>

\* recvfrom(): the bytes that came, and behind them what the array held.  A raw
\* client copies the headers too and looks at the port: it is 7777.
Gets(c) ==
  /\ client[c] = "sent"
  /\ answers[c] # <<>>
  /\ reply[c] = <<>>
  /\ reply' = [reply EXCEPT ![c] =
       Filled(Head(answers[c]), IF c \in RawClients THEN Zero ELSE Junk)]
  /\ answers' = [answers EXCEPT ![c] = Tail(@)]
  /\ UNCHANGED <<family, client, typed, requests, server, buf, caddr, dropped, crossed>>

\* printf() and the end
Prints(c) ==
  /\ client[c] = "sent"
  /\ reply[c] # <<>>
  /\ client' = [client EXCEPT ![c] = "closed"]
  /\ answers' = [answers EXCEPT ![c] = <<>>]
  /\ UNCHANGED <<family, typed, reply, requests, server, buf, caddr, dropped, crossed>>

ServerNext == ServerReceives \/ ServerSends
ClientNext(c) == Gets(c) \/ Prints(c)

DgramNext ==
  \/ ServerBinds \/ ServerNext
  \/ \E c \in Everybody : ClientNext(c) \/ Opens(c) \/ \E n \in TextLengths : Sends(c, n)

\* A running server and a waiting client are scheduled; nobody has to start.
DgramFairness ==
  WF_dgramVars(ServerNext) /\ \A c \in Everybody : WF_dgramVars(ClientNext(c))

DgramSpec == DgramInit /\ [][DgramNext]_dgramVars /\ DgramFairness
----------------------------------------------------------------------------
\* For clients with an address of their own the servers implement EchoService:
\* one answer, made of the client's own bytes, whoever else is served between.
DatagramPromise == Promise!Spec

\* A raw client (RAW/IP/client.c:79) shows an answer of the server to a raw
\* client, and its own one if at no time of its waiting the answer to another
\* one was due.  (Clients that ran before it count: one that took somebody
\* else's answer is gone when its own comes.)
RawAnswers ==
  \A c \in RawClients :
    reply[c] # <<>> =>
      /\ \E d \in RawClients : reply[c] = Filled([i \in 1..typed[d] |-> Promise!Upper(d, i)], Zero)
      /\ c \notin crossed => reply[c] = Filled([i \in 1..typed[c] |-> Promise!Upper(c, i)], Zero)

\* A client gets an answer unless its request was dropped, because the server
\* was not there or its socket full, or the answer was, at a full raw socket:
\* recvfrom() (echo_UDP/client.c:32) has no timeout and nothing is sent again.
AnsweredUnlessDropped ==
  \A c \in Everybody : client[c] = "sent" ~> client[c] = "closed" \/ c \in dropped
============================================================================
