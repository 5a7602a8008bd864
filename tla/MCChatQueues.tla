---------------------------- MODULE MCChatQueues ----------------------------
(* The instance of ChatQueues.  Texts of one and of two letters make the   *)
(* rest of an older text visible; "~" is the garbage.                      *)
EXTENDS ChatQueues, TLC

CONSTANTS k1, k2

MCClients == {k1, k2}
MCLetters == {"a", "b", "x", "y", "~"}
MCNameOf == k1 :> <<"a">> @@ k2 :> <<"b", "b">>
MCTextsOf == k1 :> {<<"x">>} @@ k2 :> {<<"y", "y">>}
MCNameGarbage == {<<>>, <<"~">>}
MCChatGarbage == {<<>>}
============================================================================
