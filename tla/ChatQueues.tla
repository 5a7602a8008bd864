----------------------------- MODULE ChatQueues -----------------------------
(***************************************************************************)
(* chat: clients and a server that talk through five POSIX message queues, *)
(* all of them non-blocking: a send to a full queue is lost and nobody     *)
(* tests it, a receive from an empty queue returns -1.                     *)
(*                                                                         *)
(* The server runs one loop: take all names, post copies of the name list, *)
(* take all messages, post copies of the chat, and delete one name.  A     *)
(* received text has no terminating zero and its buffer is cleared once    *)
(* per call only (server.c:17,65), so a text that is shorter than the one  *)
(* before it keeps the end of that one.  name_list and chat are never      *)
(* initialised (server.c:138,140): they may start with garbage.            *)
(*                                                                         *)
(* A text is a sequence of letters; a list of terminated lines is a        *)
(* sequence of texts.                                                      *)
(*                                                                         *)
(* name_list[4096] and chat[8192] (server.c:138,140) are appended to       *)
(* without a test.  A server that writes past one of them is in            *)
(* "overrun": nothing is claimed from there on.  While they fit, so does   *)
(* every copy of them: the queues take 4096 and 8192 bytes, and mq_send()  *)
(* never fails with EMSGSIZE.  What is typed is taken to fit the arrays of *)
(* the client and of get_name() and get_message() (20, 300, 350).          *)
(***************************************************************************)
EXTENDS Naturals, Sequences, FiniteSets, SequencesExt

CONSTANTS
  Clients,      \* the client processes
  Letters,      \* the characters of texts
  NameOf,       \* the text each user enters as a name
  TextsOf,      \* the texts each user enters as messages
  NameGarbage,  \* what the uninitialised name_list may start with
  ChatGarbage,  \* what the uninitialised chat may start with
  NameCapacity, \* mq_maxmsg of the three queues of names
  Capacity,     \* mq_maxmsg of the queues of messages and of the chat
  ListSize,     \* of name_list[]
  ChatSize,     \* of chat[]
  MaxMessages   \* bound of the model: messages sent by all clients

ASSUME ChatAssumption ==
  /\ NameOf \in [Clients -> Seq(Letters)]
  /\ \A c \in Clients : TextsOf[c] \subseteq Seq(Letters)
  /\ NameGarbage \subseteq Seq(Letters) /\ ChatGarbage \subseteq Seq(Letters)
  /\ NameCapacity \in Nat \ {0} /\ Capacity \in Nat \ {0}
  /\ ListSize \in Nat /\ ChatSize \in Nat
  /\ MaxMessages \in Nat

VARIABLES
  name_q, message_q, chat_q, delete_q,  \* four of the five queues
  name_list_q,  \* the fifth: how many lists it holds, they are only shown
  spc,      \* the function the server is in
  buf,      \* its buf, cleared on entry
  left,     \* copies the function still has to post
  users,    \* the users of main()
  name_list,  \* its lines
  name_junk,  \* the garbage in front of them, until a line is glued to it
  chat,     \* the garbage, then the lines
  client,   \* where each client is: out, in, gone
  name,     \* the name each client entered
  view,     \* the chat each client shows
  accepted, \* history: the messages that message_q took
  leaves    \* history: clients that were on the list when they said goodbye

serverVars == <<spc, buf, left, users, name_list, name_junk, chat>>
clientVars == <<client, name, view>>
queues == <<name_q, name_list_q, message_q, chat_q, delete_q>>
vars == <<queues, serverVars, clientVars, accepted, leaves>>

Init ==
  /\ name_q = <<>> /\ name_list_q = 0 /\ message_q = <<>>
  /\ chat_q = <<>> /\ delete_q = <<>>
  /\ spc = "get_name" /\ buf = <<>> /\ left = 0 /\ users = 0
  /\ name_list = <<>>
  /\ name_junk \in NameGarbage
  /\ chat \in {<<g>> : g \in ChatGarbage}
  /\ client = [c \in Clients |-> "out"]
  /\ name = [c \in Clients |-> <<>>]
  /\ view = [c \in Clients |-> <<>>]
  /\ accepted = <<>>
  /\ leaves = {}

Full(q, max) == Len(q) = max

\* mq_send() with O_NONBLOCK.
Post(q, m, max) == IF Full(q, max) THEN q ELSE Append(q, m)

\* A text that is received into a buffer which still holds another one.
Overlay(old, new) == new \o SubSeq(old, Len(new) + 1, Len(old))
\* The bytes of terminated lines.
Bytes(lines) == Len(FlattenSeq(lines)) + Len(lines)

\* Where the server goes on when its list, or its chat, has become this: the
\* terminating zero needs a place too, and the garbage that the chat begins
\* with has no newline.
ListOr(lines, place) == IF Bytes(lines) < ListSize THEN place ELSE "overrun"
ChatOr(lines, place) == IF Bytes(lines) - 1 < ChatSize THEN place ELSE "overrun"
----------------------------------------------------------------------------
(* server.c *)

\* get_name(): one mq_receive(), and users_number() when there is no more.
GetName ==
  /\ spc = "get_name"
  /\ \/ /\ name_q # <<>>
        /\ name_q' = Tail(name_q)
        /\ buf' = Overlay(buf, Head(name_q))
        /\ name_list' = Append(name_list, name_junk \o buf')
        /\ name_junk' = <<>>
        /\ spc' = ListOr(name_list', spc)
        /\ UNCHANGED <<left, users>>
     \/ /\ name_q = <<>>
        /\ users' = Len(name_list)
        /\ left' = users'
        /\ buf' = <<>>
        /\ spc' = "send_name_list"
        /\ UNCHANGED <<name_q, name_list, name_junk>>
  /\ UNCHANGED <<name_list_q, message_q, chat_q, delete_q, chat, clientVars, accepted,
                 leaves>>

\* send_name_list(): one mq_send().
SendNameList ==
  /\ spc = "send_name_list"
  /\ \/ /\ left > 0
        /\ name_list_q' = IF name_list_q = NameCapacity THEN NameCapacity ELSE name_list_q + 1
        /\ left' = left - 1
        /\ UNCHANGED spc
     \/ /\ left = 0
        /\ spc' = "get_message"
        /\ UNCHANGED <<left, name_list_q>>
  /\ UNCHANGED <<name_q, message_q, chat_q, delete_q, buf, users, name_list, name_junk,
                 chat, clientVars, accepted, leaves>>

\* A get_message() that puts a new message in front of the chat.
GetMessageInFront ==
  /\ spc = "get_message"
  /\ \/ /\ message_q # <<>>
        /\ message_q' = Tail(message_q)
        /\ buf' = Overlay(buf, Head(message_q))
        /\ chat' = <<Head(chat), buf'>> \o Tail(chat)
        /\ spc' = ChatOr(chat', spc)
        /\ UNCHANGED left
     \/ /\ message_q = <<>>
        /\ left' = IF chat = << <<>> >> THEN 0 ELSE users
        /\ buf' = <<>>
        /\ spc' = "send_chat"
        /\ UNCHANGED <<message_q, chat>>
  /\ UNCHANGED <<name_q, name_list_q, chat_q, delete_q, users, name_list, name_junk,
                 clientVars, accepted, leaves>>

\* get_message(): one mq_receive(), and on to send_chat(), which posts
\* nothing when the chat is empty.
GetMessage ==
  /\ spc = "get_message"
  /\ \/ /\ message_q # <<>>
        /\ message_q' = Tail(message_q)
        /\ buf' = Overlay(buf, Head(message_q))
        /\ chat' = Append(chat, buf')
        /\ spc' = ChatOr(chat', spc)
        /\ UNCHANGED left
     \/ /\ message_q = <<>>
        /\ left' = IF chat = << <<>> >> THEN 0 ELSE users
        /\ buf' = <<>>
        /\ spc' = "send_chat"
        /\ UNCHANGED <<message_q, chat>>
  /\ UNCHANGED <<name_q, name_list_q, chat_q, delete_q, users, name_list, name_junk,
                 clientVars, accepted, leaves>>

\* A send_chat() that posts one copy too few.
SendChatOneLess ==
  /\ spc = "send_chat"
  /\ \/ /\ left > 1
        /\ chat_q' = Post(chat_q, chat, Capacity)
        /\ left' = left - 1
        /\ UNCHANGED spc
     \/ /\ left <= 1
        /\ spc' = "delete_name"
        /\ UNCHANGED <<left, chat_q>>
  /\ UNCHANGED <<name_q, name_list_q, message_q, delete_q, buf, users, name_list,
                 name_junk, chat, clientVars, accepted, leaves>>

\* send_chat(): one mq_send().
SendChat ==
  /\ spc = "send_chat"
  /\ \/ /\ left > 0
        /\ chat_q' = Post(chat_q, chat, Capacity)
        /\ left' = left - 1
        /\ UNCHANGED spc
     \/ /\ left = 0
        /\ spc' = "delete_name"
        /\ UNCHANGED <<left, chat_q>>
  /\ UNCHANGED <<name_q, name_list_q, message_q, delete_q, buf, users, name_list,
                 name_junk, chat, clientVars, accepted, leaves>>

\* The tokens strtok() finds in the name list: garbage counts as one, empty
\* lines do not.
Tokens ==
  SelectSeq(IF name_junk = <<>> THEN name_list ELSE <<name_junk>> \o name_list,
            LAMBDA n : n # <<>>)

\* A delete_name() that looks at the first token only.
DeleteNameFirst ==
  /\ spc = "delete_name"
  /\ \/ /\ delete_q = <<>>
        /\ name_list' = Tokens
        /\ UNCHANGED delete_q
     \/ /\ delete_q # <<>>
        /\ name_list' = IF Tokens # <<>> /\ Head(Tokens) = Head(delete_q)
                        THEN Tail(Tokens) ELSE Tokens
        /\ delete_q' = Tail(delete_q)
  /\ name_junk' = <<>>
  /\ spc' = ListOr(name_list', "get_name")
  /\ UNCHANGED <<name_q, name_list_q, message_q, chat_q, buf, left, users, chat,
                 clientVars, accepted, leaves>>

\* delete_name(): the list is rebuilt without the name of one request, or
\* as it was when there is no request.
DeleteName ==
  /\ spc = "delete_name"
  /\ \/ /\ delete_q = <<>>
        /\ name_list' = Tokens
        /\ UNCHANGED delete_q
     \/ /\ delete_q # <<>>
        /\ name_list' = SelectSeq(Tokens, LAMBDA n : n # Head(delete_q))
        /\ delete_q' = Tail(delete_q)
  /\ name_junk' = <<>>
  /\ spc' = ListOr(name_list', "get_name")
  /\ UNCHANGED <<name_q, name_list_q, message_q, chat_q, buf, left, users, chat,
                 clientVars, accepted, leaves>>

ServerLoop ==
  GetName \/ SendNameList \/ GetMessage \/ SendChat \/ DeleteName
----------------------------------------------------------------------------
(* client.c *)

\* send_name()
SendName(c, n) ==
  /\ client[c] = "out"
  /\ client' = [client EXCEPT ![c] = "in"]
  /\ name' = [name EXCEPT ![c] = n]
  /\ name_q' = Post(name_q, n, NameCapacity)
  /\ UNCHANGED <<name_list_q, message_q, chat_q, delete_q, serverVars, view, accepted,
                 leaves>>

\* get_name_list(): a list is taken and shown.
GetNameList(c) ==
  /\ client[c] = "in"
  /\ name_list_q > 0
  /\ name_list_q' = name_list_q - 1
  /\ UNCHANGED <<name_q, message_q, chat_q, delete_q, serverVars, clientVars, accepted,
                 leaves>>

\* A get_chat() that appends to its array.
GetChatGlues(c) ==
  /\ client[c] = "in"
  /\ chat_q # <<>>
  /\ chat_q' = Tail(chat_q)
  /\ view' = [view EXCEPT ![c] = @ \o Head(chat_q)]
  /\ UNCHANGED <<name_q, name_list_q, message_q, delete_q, serverVars, client, name,
                 accepted, leaves>>

\* get_chat(): the array is not cleared.
GetChat(c) ==
  /\ client[c] = "in"
  /\ chat_q # <<>>
  /\ chat_q' = Tail(chat_q)
  /\ view' = [view EXCEPT ![c] = Overlay(@, Head(chat_q))]
  /\ UNCHANGED <<name_q, name_list_q, message_q, delete_q, serverVars, client, name,
                 accepted, leaves>>

\* send_message()
SendMessage(c, m) ==
  /\ client[c] = "in"
  /\ Len(accepted) < MaxMessages
  /\ message_q' = Post(message_q, m, Capacity)
  /\ accepted' = IF Full(message_q, Capacity) THEN accepted ELSE Append(accepted, m)
  /\ UNCHANGED <<name_q, name_list_q, chat_q, delete_q, serverVars, clientVars, leaves>>

\* F2: the request to be deleted, and exit().
Exit(c) ==
  /\ client[c] = "in"
  /\ client' = [client EXCEPT ![c] = "gone"]
  /\ delete_q' = Post(delete_q, name[c], NameCapacity)
  /\ leaves' = IF ~Full(delete_q, NameCapacity) /\ name[c] \in Range(name_list)
               THEN leaves \cup {c} ELSE leaves
  /\ UNCHANGED <<name_q, name_list_q, message_q, chat_q, serverVars, name, view,
                 accepted>>

ClientStep(c) ==
  \/ SendName(c, NameOf[c])
  \/ GetNameList(c)
  \/ GetChat(c)
  \/ \E m \in TextsOf[c] : SendMessage(c, m)
  \/ Exit(c)

Next == ServerLoop \/ \E c \in Clients : ClientStep(c)

Spec == Init /\ [][Next]_vars

(***************************************************************************)
(* Fairness.  The server polls without pause.  The threads of a client     *)
(* poll too, and a client that got something sleeps for a second while the *)
(* others poll on: a client for which something lies in a queue again and  *)
(* again gets it (strong fairness).  Nobody has to write or to leave.      *)
(***************************************************************************)
Fairness ==
  /\ WF_vars(ServerLoop)
  /\ \A c \in Clients : SF_vars(GetChat(c))

FairSpec == Spec /\ Fairness
----------------------------------------------------------------------------
\* Types: no queue exceeds mq_maxmsg, and the chat always has its first line.
TypeOK ==
  /\ Len(name_q) <= NameCapacity /\ name_list_q \in 0..NameCapacity
  /\ Len(delete_q) <= NameCapacity
  /\ Len(message_q) <= Capacity /\ Len(chat_q) <= Capacity
  /\ spc \in {"get_name", "send_name_list", "get_message", "send_chat", "delete_name",
             "overrun"}
  /\ left \in Nat /\ users \in Nat
  /\ chat # <<>>
  /\ client \in [Clients -> {"out", "in", "gone"}]
  /\ \A c \in Clients : name[c] \in {<<>>, NameOf[c]}

\* Messages that were accepted are neither lost, doubled nor reordered: the
\* lines of the chat, then those still queued, are the accepted messages.  A
\* line may go on with the end of an older message (server.c:65-73), but it
\* begins with its own.  All of this as long as the list and the chat fit
\* their arrays.
MessagesKept == spc # "overrun" =>
  /\ Len(chat) - 1 + Len(message_q) = Len(accepted)
  /\ \A i \in 1..(Len(chat) - 1) : IsPrefix(accepted[i], chat[i + 1])
  /\ \A i \in 1..Len(message_q) : message_q[i] = accepted[Len(chat) - 1 + i]

\* get_chat() never clears its array (client.c:91-98).  It need not: what
\* arrives is never shorter than what is there, so every client shows a
\* beginning of the server's chat, without a trace of another state, as long
\* as the list and the chat fit their arrays.
ViewsTrue == spc # "overrun" => \A c \in Clients : IsPrefix(view[c], chat)

\* The arrays of the server hold what is put into them.
ArraysHold == [](spc # "overrun")

\* Whoever was on the name list and could post his goodbye (client.c:202) is
\* taken off it for good: if his name is listed again it is another's name.
\* (Who leaves before get_name() has listed him is listed for ever.)
LeaversVanish == ArraysHold =>
  \A c \in Clients :
    c \in leaves ~>
      [](name[c] \in Range(name_list) => \E d \in Clients \ {c} : name[d] = name[c])

\* A client that stays while the list is not empty sees the whole chat in the
\* end, although copies are posted into one queue for all and stale copies
\* clog it, as long as the chat fits chat[].
AllSeeChat == ArraysHold =>
  \A c \in Clients :
    (<>[](client[c] = "in") /\ <>[](name_list # <<>>) /\ <>[](Len(accepted) > 0))
      => <>(Len(view[c]) = Len(accepted) + 1)
============================================================================
