----------------------------- MODULE Traceroute -----------------------------
(***************************************************************************)
(* traceroute: probes with growing time to live, and ONE packet read per   *)
(* probe from a raw ICMP socket.  Such a socket gets a copy of every ICMP  *)
(* packet that reaches the host: the answers to other traceroutes and      *)
(* whatever else comes in.  The program does not compare a packet with its *)
(* probe and has no timeout.  Each probe opens a new socket; what arrives  *)
(* at the old ones, which are never closed, is not read any more.          *)
(*                                                                         *)
(* The network is external: the router where a probe's time to live ends   *)
(* answers with type 11, the destination, whose port is closed, with type  *)
(* 3; a probe or its answer may be lost, and answers overtake each other.  *)
(***************************************************************************)
EXTENDS Naturals, Sequences

CONSTANTS
  Traces,      \* the traceroute processes on the host
  Route,       \* the addresses on the way of each; the last is its target
  BeginsWith,  \* pairs <<source, target>>: the text of source begins with target
  Foreign,     \* ICMP packets that answer no traceroute: [type, from]
  MaxForeign,  \* bound of the model: how many of them come in
  MaxTtl       \* bound of the model: probes of a process

\* A route comes to no address twice.  "*" is what is printed for no address.
ASSUME TracerouteAssumption ==
  /\ \A p \in Traces : Route[p] \in Seq(STRING) /\ Route[p] # <<>>
  /\ \A p \in Traces : \A i, j \in 1..Len(Route[p]) :
       Route[p][i] # "*" /\ (Route[p][i] = Route[p][j] => i = j)
  /\ Foreign \subseteq [type : Nat, from : STRING]
  /\ \A p \in Traces : <<Route[p][Len(Route[p])], Route[p][Len(Route[p])]>> \in BeginsWith
  /\ MaxForeign \in Nat /\ MaxTtl \in Nat

VARIABLES
  time_to_live,
  lines,    \* what each process has printed: the address shown, "*", and "!"
  inbox,    \* the first packet at its newest socket, the only one it reads
  flight,   \* answers under way: [for, nr, packet]
  foreign,  \* how many foreign packets came in
  lost      \* the processes that had an answer lost

traceVars == <<time_to_live, lines, inbox, flight, foreign, lost>>

Target(p) == Route[p][Len(Route[p])]
Ended(p) == lines[p] # <<>> /\ lines[p][Len(lines[p])].last
Waiting(p) == Len(lines[p]) < time_to_live[p]

\* What comes back for a probe.
Reply(p, ttl) ==
  IF ttl < Len(Route[p]) THEN [type |-> 11, from |-> Route[p][IF ttl = 0 THEN 1 ELSE ttl]]
  ELSE [type |-> 3, from |-> Target(p)]

TraceInit ==
  /\ time_to_live = [p \in Traces |-> 0]
  /\ lines = [p \in Traces |-> <<>>]
  /\ inbox = [p \in Traces |-> <<>>]
  /\ flight = {}
  /\ foreign = 0
  /\ lost = {}

\* A probe that is built before time_to_live is incremented.
ProbeLate(p) ==
  /\ ~Ended(p) /\ ~Waiting(p)
  /\ time_to_live[p] < MaxTtl
  /\ time_to_live' = [time_to_live EXCEPT ![p] = @ + 1]
  /\ inbox' = [inbox EXCEPT ![p] = <<>>]
  /\ flight' = flight \cup
       {[for |-> p, nr |-> time_to_live[p], packet |-> Reply(p, time_to_live[p])]}
  /\ UNCHANGED <<lines, foreign, lost>>

\* The loop up to sendto(): a new socket, a new probe.
Probe(p) ==
  /\ ~Ended(p) /\ ~Waiting(p)
  /\ time_to_live[p] < MaxTtl
  /\ time_to_live' = [time_to_live EXCEPT ![p] = @ + 1]
  /\ inbox' = [inbox EXCEPT ![p] = <<>>]
  /\ flight' = flight \cup
       {[for |-> p, nr |-> time_to_live'[p], packet |-> Reply(p, time_to_live'[p])]}
  /\ UNCHANGED <<lines, foreign, lost>>

\* A packet reaches the host: every socket that is still read gets a copy.
Arrives(packet) ==
  inbox' = [p \in Traces |->
              IF Waiting(p) /\ inbox[p] = <<>> THEN <<packet>> ELSE inbox[p]]

Deliver(m) ==
  /\ m \in flight
  /\ flight' = flight \ {m}
  /\ Arrives(m.packet)
  /\ UNCHANGED <<time_to_live, lines, foreign, lost>>

LoseAnswer(m) ==
  /\ m \in flight
  /\ flight' = flight \ {m}
  /\ lost' = lost \cup {m.for}
  /\ UNCHANGED <<time_to_live, lines, inbox, foreign>>

ForeignArrives(packet) ==
  /\ foreign < MaxForeign
  /\ foreign' = foreign + 1
  /\ Arrives(packet)
  /\ UNCHANGED <<time_to_live, lines, flight, lost>>

\* A test that lacks its "== 0": any other address ends the trace.
MatchesNot(source, target) == <<source, target>> \notin BeginsWith

\* strncmp(source, argv[1], strlen(argv[1])) == 0
Matches(source, target) == <<source, target>> \in BeginsWith

\* recvfrom() and the line it leads to.  After a type 3 that is not taken for
\* the target's the line says nothing, but the next probe is sent all the same.
Receive(p) ==
  /\ inbox[p] # <<>> /\ Waiting(p)
  /\ LET packet == Head(inbox[p])
         end == packet.type = 3 /\ Matches(packet.from, Target(p))
         shown == IF packet.type = 11 \/ end THEN packet.from ELSE "*"
     IN  lines' = [lines EXCEPT ![p] = Append(@, [shows |-> shown, last |-> end])]
  /\ inbox' = [inbox EXCEPT ![p] = <<>>]
  /\ UNCHANGED <<time_to_live, flight, foreign, lost>>

TraceNext ==
  \/ \E p \in Traces : Probe(p) \/ Receive(p)
  \/ \E m \in flight : Deliver(m) \/ LoseAnswer(m)
  \/ \E packet \in Foreign : ForeignArrives(packet)

\* A process that was started runs on, and an answer that is not lost arrives
\* some day.
TraceFairness ==
  /\ \A p \in Traces :
       WF_traceVars(time_to_live[p] > 0 /\ Probe(p)) /\ WF_traceVars(Receive(p))
  /\ WF_traceVars(\E m \in flight : Deliver(m))

TraceSpec == TraceInit /\ [][TraceNext]_traceVars /\ TraceFairness
----------------------------------------------------------------------------
\* Nothing but the answers to its own probes has reached the host.
Undisturbed(p) ==
  foreign = 0 /\ \A q \in Traces \ {p} : time_to_live[q] = 0

\* An address that only p's own probes can bring back.
OnlyBy(p, a) ==
  /\ \A q \in Traces \ {p} : \A i \in 1..Len(Route[q]) : Route[q][i] # a
  /\ \A packet \in Foreign : packet.from # a

\* Undisturbed, the lines are the route, place by place, and the trace ends at
\* its target, though no answer is compared with its probe (traceroute.c:92-113).
\* Disturbed, late answers show routers further away than they are, never
\* nearer: the line of an address is at least its distance.
RouteRight ==
  \A p \in Traces :
    /\ Undisturbed(p) =>
         lines[p] = [i \in 1..Len(lines[p]) |->
                       [shows |-> Route[p][i], last |-> i = Len(Route[p])]]
    /\ \A i \in 1..Len(lines[p]), d \in 1..Len(Route[p]) :
         lines[p][i].shows = Route[p][d] /\ OnlyBy(p, Route[p][d]) => d <= i

\* A trace ends, whatever foreign packets its lines are spent on, if none of
\* its answers is lost and no other traceroute runs: recvfrom() (line 92) would
\* wait for ever for a lost answer, and two traces can take each other's
\* answers for ever.
TraceEnds ==
  \A p \in Traces :
    time_to_live[p] > 0 ~>
      (Ended(p) \/ p \in lost \/ \E q \in Traces \ {p} : time_to_live[q] > 0)
============================================================================
