------------------------------- MODULE MCNet -------------------------------
(* The programs that talk over datagrams, one at a time: `program` chooses.  *)
(* Two traces to targets of which one begins like the other; two clients     *)
(* with their own address and two raw ones, and room for two requests.       *)
EXTENDS Traceroute, DatagramEcho, TLC

CONSTANTS k1, k2, k3, k4

VARIABLE program

MCTraces == {"p1", "p2"}
MCRoute == "p1" :> <<"r1", "t1">> @@ "p2" :> <<"r2", "t12">>
MCBeginsWith == {<<"t1", "t1">>, <<"t12", "t12">>, <<"t12", "t1">>}
MCForeign == {[type |-> 11, from |-> "x"]}
MCOwners == {k1, k2}
MCRawClients == {k3, k4}
MCTextLengths == {0, 1}

MCInit ==
  /\ program \in {"traceroute", "echo"}
  /\ TraceInit /\ DgramInit
  /\ program = "traceroute" => family = "inet"

MCNext ==
  \/ program = "traceroute" /\ TraceNext /\ UNCHANGED <<program, dgramVars>>
  \/ program = "echo" /\ DgramNext /\ UNCHANGED <<program, traceVars>>

MCSpec ==
  MCInit /\ [][MCNext]_<<program, traceVars, dgramVars>> /\ TraceFairness /\ DgramFairness
============================================================================
