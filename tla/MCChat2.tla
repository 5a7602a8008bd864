------------------------------ MODULE MCChat2 ------------------------------
(* chat 2, the name list or the chat: `part` chooses.  Three users, one of   *)
(* them without a name, and a server that is restarted; two senders of two   *)
(* messages each of one or two bytes, and room for all of them.              *)
EXTENDS ChatShmNames, ChatShmChat, TLC

CONSTANTS k1, k2, k3

VARIABLE part

MCClients == {k1, k2, k3}
MCLetters == {"a", "b", "~"}
MCNameOf == k1 :> <<"a">> @@ k2 :> <<"a", "b">> @@ k3 :> <<>>
MCGarbage == {<<>>, <<"~">>}
MCGhostLines == {<<>>, << <<"~">> >>}
MCSenders == {k1, k2}
MCLengths == {1, 2}

\* The instance satisfies what the theorems ask of the names and of the room.
ASSUME MCNamesAndRoom == NamesApart /\ RoomFor(2)

MCInit == part \in {"names", "chat"} /\ Init /\ StrcatInit

MCNext ==
  \/ part = "names" /\ Next /\ UNCHANGED <<part, strcatVars>>
  \/ part = "chat" /\ StrcatNext /\ UNCHANGED <<part, vars>>

MCSpec == MCInit /\ [][MCNext]_<<part, vars, strcatVars>> /\ Fairness
============================================================================
