-------------------------- MODULE ChatQueuesProofs --------------------------
(***************************************************************************)
(* Proofs about chat: what becomes of the messages, for any number of      *)
(* clients, any texts and garbage, any capacity of the queues and any size *)
(* of the server's arrays, as long as these are not overrun.               *)
(***************************************************************************)
EXTENDS ChatQueues, SequenceTheorems, TLAPS

Texts == Seq(Letters)
Chats == Seq(Texts)

\* What the variables that messages pass through hold.
ChatTypes ==
  /\ name_q \in Seq(Texts) /\ message_q \in Seq(Texts)
  /\ buf \in Texts
  /\ chat \in Chats /\ chat # <<>>
  /\ accepted \in Seq(Texts)
  /\ chat_q \in Seq(Chats)
  /\ view \in [Clients -> Chats]

\* s is the beginning of t, place by place.
Begins(s, t) == Len(s) <= Len(t) /\ \A i \in 1..Len(s) : s[i] = t[i]

\* Message by message: MessagesKept.
Kept ==
  /\ Len(chat) - 1 + Len(message_q) = Len(accepted)
  /\ \A i \in 1..(Len(chat) - 1) : Begins(accepted[i], chat[i + 1])
  /\ \A i \in 1..Len(message_q) : message_q[i] = accepted[Len(chat) - 1 + i]

\* The copies of the chat that are under way are beginnings of it, the older
\* ones the shorter ones, and nobody shows more than the oldest of them.
CopiesGrow ==
  /\ \A i \in 1..Len(chat_q) : Begins(chat_q[i], chat)
  /\ \A i, j \in 1..Len(chat_q) : i <= j => Len(chat_q[i]) <= Len(chat_q[j])
  /\ \A c \in Clients : Begins(view[c], chat)
  /\ \A c \in Clients : \A i \in 1..Len(chat_q) : Len(view[c]) <= Len(chat_q[i])

ChatInv == ChatTypes /\ Kept /\ CopiesGrow
----------------------------------------------------------------------------
\* The two ways to say that one sequence begins another.
LEMMA PrefixByPlaces ==
  ASSUME NEW S, NEW s \in Seq(S), NEW t \in Seq(S)
  PROVE  IsPrefix(s, t) <=> Begins(s, t)
<1>1. Len(s) \in Nat /\ Len(t) \in Nat
  OBVIOUS
<1>2. SubSeq(s, 1, Len(s)) = s
  BY SubSeqFull
<1> DEFINE cut == SubSeq(t, 1, Len(s))
<1>3. ASSUME Len(s) <= Len(t)
      PROVE  cut \in Seq(S) /\ Len(cut) = Len(s) /\ \A i \in 1..Len(s) : cut[i] = t[i]
  <2>1. \A i \in 1..Len(s) : t[i] \in S
    BY <1>1, <1>3, ElementOfSeq
  <2>2. /\ cut \in Seq(S) /\ Len(cut) = (IF 1 <= Len(s) THEN Len(s) - 1 + 1 ELSE 0)
        /\ \A i \in 1..(Len(s) - 1 + 1) : cut[i] = t[1 + i - 1]
    BY <1>1, <2>1, SubSeqProperties
  <2> QED
    BY <1>1, <2>2
<1> HIDE DEF cut
<1>4. ASSUME Len(s) <= Len(t) PROVE s = cut <=> \A i \in 1..Len(s) : s[i] = t[i]
  BY <1>3, <1>4, SeqEqual
<1> QED
  BY <1>2, <1>4 DEF IsPrefix, Begins, cut

\* A text received into a buffer begins with itself, and leaves nothing of the
\* older one if it is not shorter.
LEMMA OverlayBegins ==
  ASSUME NEW S, NEW old \in Seq(S), NEW new \in Seq(S)
  PROVE  /\ Overlay(old, new) \in Seq(S)
         /\ Begins(new, Overlay(old, new))
         /\ Len(old) <= Len(new) => Overlay(old, new) = new
<1> DEFINE rest == SubSeq(old, Len(new) + 1, Len(old))
<1>1. Len(new) \in Nat /\ Len(old) \in Nat
  OBVIOUS
<1>2. rest \in Seq(S)
  <2>1. \A i \in (Len(new) + 1)..Len(old) : old[i] \in S
    BY <1>1, ElementOfSeq
  <2> QED
    BY <1>1, <2>1, SubSeqProperties
<1>3. Len(old) <= Len(new) => rest = <<>>
  BY <1>1, SubSeqEmpty
<1>4. Overlay(old, new) = new \o rest
  BY DEF Overlay
<1> HIDE DEF rest
<1>5. /\ new \o rest \in Seq(S) /\ Len(new \o rest) = Len(new) + Len(rest) /\ Len(rest) \in Nat
      /\ \A i \in 1..(Len(new) + Len(rest)) : (new \o rest)[i] = IF i <= Len(new) THEN new[i] ELSE rest[i - Len(new)]
  BY <1>2, ConcatProperties
<1>6. Begins(new, new \o rest)
  BY <1>1, <1>5 DEF Begins
<1>7. rest = <<>> => new \o rest = new
  BY ConcatEmptySeq
<1> QED
  BY <1>3, <1>4, <1>5, <1>6, <1>7

\* A sequence that begins a chat begins every longer one.
LEMMA BeginsAppend ==
  ASSUME NEW S, NEW s \in Seq(S), NEW t \in Seq(S), NEW e \in S, Begins(s, t)
  PROVE  Begins(s, Append(t, e))
BY DEF Begins

\* mq_send(): the message is in the queue, or it is lost.
LEMMA Posted ==
  ASSUME NEW S, NEW q \in Seq(S), NEW m \in S, NEW max
  PROVE  /\ Post(q, m, max) \in Seq(S)
         /\ Post(q, m, max) \in {q, Append(q, m)}
         /\ ~Full(q, max) => Post(q, m, max) = Append(q, m)
         /\ Full(q, max) => Post(q, m, max) = q
BY DEF Post

\* The invariant contains what the runs check.
LEMMA ChatInvMeans == ChatInv => MessagesKept /\ ViewsTrue
<1> SUFFICES ASSUME ChatInv PROVE MessagesKept /\ ViewsTrue
  OBVIOUS
<1>1. ASSUME NEW i \in 1..(Len(chat) - 1) PROVE IsPrefix(accepted[i], chat[i + 1])
  <2>1. /\ i + 1 \in 1..Len(chat) /\ i \in 1..Len(accepted)
        /\ accepted \in Seq(Texts) /\ chat \in Seq(Texts)
    BY DEF ChatInv, ChatTypes, Kept, Chats
  <2>2. accepted[i] \in Texts /\ chat[i + 1] \in Texts
    BY <2>1, ElementOfSeq
  <2>3. Begins(accepted[i], chat[i + 1])
    BY DEF ChatInv, Kept
  <2> QED
    BY <2>2, <2>3, PrefixByPlaces DEF Texts
<1>2. ASSUME NEW c \in Clients PROVE IsPrefix(view[c], chat)
  <2>1. view[c] \in Chats /\ chat \in Chats /\ Begins(view[c], chat)
    BY DEF ChatInv, ChatTypes, CopiesGrow
  <2> QED
    BY <2>1, PrefixByPlaces DEF Chats
<1> QED
  BY <1>1, <1>2 DEF ChatInv, Kept, MessagesKept, ViewsTrue
----------------------------------------------------------------------------
\* The variables that messages pass through.
messageVars == <<message_q, chat, accepted, chat_q, view>>

\* A step that none of them is touched by.
LEMMA Elsewhere ==
  ASSUME ChatInv, UNCHANGED messageVars, name_q' \in Seq(Texts), buf' \in Texts
  PROVE  ChatInv'
BY DEF ChatInv, ChatTypes, Kept, CopiesGrow, Begins, messageVars, Texts, Chats

\* Names, lists of names and goodbyes do not meet the messages.
LEMMA NamesElsewhere ==
  ASSUME ChatInv,
         \/ GetName \/ SendNameList \/ DeleteName
         \/ \E c \in Clients : SendName(c, NameOf[c]) \/ GetNameList(c) \/ Exit(c)
  PROVE  ChatInv'
<1>1. UNCHANGED messageVars
  BY DEF GetName, SendNameList, DeleteName, SendName, GetNameList, Exit, messageVars,
         serverVars, clientVars
<1>2. name_q \in Seq(Texts) /\ buf \in Texts
  BY DEF ChatInv, ChatTypes
<1>3. name_q' \in Seq(Texts)
  <2>1. CASE \E c \in Clients : SendName(c, NameOf[c])
    <3>1. PICK c \in Clients : name_q' = Post(name_q, NameOf[c], NameCapacity)
      BY <2>1 DEF SendName
    <3>2. NameOf[c] \in Texts
      BY ChatAssumption DEF Texts
    <3> QED
      BY <1>2, <3>1, <3>2, Posted
  <2>2. CASE name_q' = name_q \/ (name_q # <<>> /\ name_q' = Tail(name_q))
    BY <1>2, <2>2
  <2> QED
    BY <2>1, <2>2 DEF GetName, SendNameList, DeleteName, GetNameList, Exit
<1>4. buf' \in Texts
  <2>1. CASE name_q # <<>> /\ buf' = Overlay(buf, Head(name_q))
    <3>1. Head(name_q) \in Texts
      BY <1>2, <2>1
    <3> QED
      BY <1>2, <2>1, <3>1, OverlayBegins DEF Texts
  <2>2. CASE buf' = buf \/ buf' = <<>>
    <3>1. <<>> \in Texts
      BY DEF Texts
    <3> QED
      BY <1>2, <2>2, <3>1
  <2> QED
    BY <2>1, <2>2 DEF GetName, SendNameList, DeleteName, SendName, GetNameList, Exit, serverVars
<1> QED
  BY <1>1, <1>3, <1>4, Elsewhere

\* mq_receive() of a message: the oldest one becomes the last line of the chat.
LEMMA GetMessageInv == ASSUME ChatInv, GetMessage PROVE ChatInv'
<1>1. /\ message_q \in Seq(Texts) /\ buf \in Texts /\ chat \in Seq(Texts) /\ chat # <<>>
      /\ accepted \in Seq(Texts) /\ chat_q \in Seq(Chats) /\ view \in [Clients -> Chats]
      /\ name_q \in Seq(Texts)
      /\ UNCHANGED <<name_q, accepted, chat_q, view>>
  BY DEF ChatInv, ChatTypes, Chats, GetMessage, clientVars
<1>2. CASE message_q = <<>>
  <2>1. UNCHANGED messageVars /\ buf' = <<>>
    BY <1>1, <1>2 DEF GetMessage, messageVars
  <2>2. buf' \in Texts
    BY <2>1 DEF Texts
  <2> QED
    BY <1>1, <2>1, <2>2, Elsewhere
<1>3. CASE message_q # <<>>
  <2> DEFINE m == Head(message_q)
             n == Len(chat)
  <2>1. /\ message_q' = Tail(message_q) /\ buf' = Overlay(buf, m) /\ chat' = Append(chat, buf')
    BY <1>3 DEF GetMessage
  <2>2. m \in Texts /\ m = message_q[1] /\ Len(message_q) \in Nat \ {0}
        /\ Tail(message_q) \in Seq(Texts) /\ Len(Tail(message_q)) = Len(message_q) - 1
        /\ \A i \in 1..(Len(message_q) - 1) : Tail(message_q)[i] = message_q[i + 1]
    BY <1>1, <1>3
  <2>3. buf' \in Texts /\ Begins(m, buf')
    BY <1>1, <2>1, <2>2, OverlayBegins DEF Texts
  <2> HIDE DEF m
  <2>4. /\ chat' \in Seq(Texts) /\ Len(chat') = n + 1 /\ n \in Nat \ {0}
        /\ \A i \in 1..n : chat'[i] = chat[i]
        /\ chat'[n + 1] = buf'
    BY <1>1, <2>1, <2>3
  <2>5. ChatTypes'
    <3>1. chat' # <<>> /\ message_q' \in Seq(Texts)
      BY <2>1, <2>2, <2>4
    <3> QED
      BY <1>1, <2>3, <2>4, <3>1 DEF ChatTypes, Chats
  <2>6. /\ n - 1 + Len(message_q) = Len(accepted)
        /\ \A i \in 1..(n - 1) : Begins(accepted[i], chat[i + 1])
        /\ \A i \in 1..Len(message_q) : message_q[i] = accepted[n - 1 + i]
    BY DEF ChatInv, Kept
  <2>7. Kept'
    <3>1. Len(chat') - 1 + Len(message_q') = Len(accepted)
      <4>1. Len(chat') = n + 1 /\ Len(message_q') = Len(message_q) - 1
        BY <2>1, <2>2, <2>4
      <4>2. n - 1 + Len(message_q) = Len(accepted) /\ n \in Nat /\ Len(message_q) \in Nat
        BY <2>2, <2>4, <2>6
      <4> HIDE DEF n
      <4> QED
        BY <4>1, <4>2
    <3>2. ASSUME NEW i \in 1..(Len(chat') - 1) PROVE Begins(accepted[i], chat'[i + 1])
      <4>1. CASE i = n
        <5>1. accepted[n] = m
          <6>1. message_q[1] = accepted[n - 1 + 1] /\ n - 1 + 1 = n
            BY <2>2, <2>4, <2>6
          <6> QED
            BY <2>2, <6>1
        <5> QED
          BY <2>3, <2>4, <4>1, <5>1
      <4>2. CASE i # n
        <5>1. i \in 1..(n - 1) /\ chat'[i + 1] = chat[i + 1]
          BY <2>4, <4>2
        <5> QED
          BY <2>6, <5>1
      <4> QED
        BY <4>1, <4>2
    <3>3. ASSUME NEW i \in 1..Len(message_q') PROVE message_q'[i] = accepted[Len(chat') - 1 + i]
      <4>1. /\ i + 1 \in 1..Len(message_q) /\ message_q'[i] = message_q[i + 1]
            /\ Len(chat') - 1 + i = n - 1 + (i + 1)
        BY <2>1, <2>2, <2>4
      <4> QED
        BY <2>6, <4>1
    <3> QED
      BY <1>1, <3>1, <3>2, <3>3 DEF Kept, Begins
  <2>8. CopiesGrow'
    <3>1. ASSUME NEW t \in Chats, Begins(t, chat) PROVE Begins(t, chat')
      BY <1>1, <2>1, <2>3, <3>1, BeginsAppend DEF Chats
    <3>2. \A i \in 1..Len(chat_q) : chat_q[i] \in Chats
      BY <1>1, ElementOfSeq
    <3>3. \A i \in 1..Len(chat_q) : Begins(chat_q[i], chat')
      BY <3>1, <3>2 DEF ChatInv, CopiesGrow
    <3>4. \A c \in Clients : Begins(view[c], chat')
      BY <1>1, <3>1 DEF ChatInv, CopiesGrow
    <3> QED
      BY <1>1, <3>3, <3>4 DEF ChatInv, CopiesGrow, Begins
  <2> QED
    BY <2>5, <2>7, <2>8 DEF ChatInv
<1> QED
  BY <1>2, <1>3

\* mq_send() of the chat: the newest copy is the longest one.
LEMMA SendChatInv == ASSUME ChatInv, SendChat PROVE ChatInv'
<1>1. /\ chat \in Chats /\ chat_q \in Seq(Chats) /\ view \in [Clients -> Chats] /\ buf \in Texts
      /\ name_q \in Seq(Texts)
      /\ UNCHANGED <<name_q, message_q, buf, chat, accepted, view>>
  BY DEF ChatInv, ChatTypes, SendChat, clientVars
<1>2. chat_q' = chat_q \/ chat_q' = Append(chat_q, chat)
  <2>1. Post(chat_q, chat, Capacity) \in {chat_q, Append(chat_q, chat)}
    BY <1>1, Posted
  <2>2. chat_q' = chat_q \/ chat_q' = Post(chat_q, chat, Capacity)
    BY DEF SendChat
  <2> QED
    BY <2>1, <2>2
<1>3. CASE chat_q' = chat_q
  BY <1>1, <1>3, Elsewhere DEF messageVars
<1>4. CASE chat_q' = Append(chat_q, chat)
  <2>1. /\ chat_q' \in Seq(Chats) /\ Len(chat_q') = Len(chat_q) + 1 /\ Len(chat_q) \in Nat
        /\ \A i \in 1..Len(chat_q') : chat_q'[i] = IF i <= Len(chat_q) THEN chat_q[i] ELSE chat
    BY <1>1, <1>4
  <2>2. ChatTypes' /\ Kept'
    BY <1>1, <2>1 DEF ChatInv, ChatTypes, Kept, Begins, Texts, Chats
  <2>3. Len(chat) \in Nat /\ Begins(chat, chat)
    BY <1>1 DEF Begins, Chats
  <2>4. \A i \in 1..Len(chat_q) : Begins(chat_q[i], chat) /\ Len(chat_q[i]) <= Len(chat)
    BY DEF ChatInv, CopiesGrow, Begins
  <2>5. /\ \A i \in 1..Len(chat_q') : Begins(chat_q'[i], chat)
        /\ \A i, j \in 1..Len(chat_q') : i <= j => Len(chat_q'[i]) <= Len(chat_q'[j])
    <3>1. ASSUME NEW i \in 1..Len(chat_q') PROVE Begins(chat_q'[i], chat)
      BY <2>1, <2>3, <2>4
    <3>2. ASSUME NEW i \in 1..Len(chat_q'), NEW j \in 1..Len(chat_q'), i <= j
          PROVE  Len(chat_q'[i]) <= Len(chat_q'[j])
      <4>1. CASE j <= Len(chat_q)
        <5>1. i \in 1..Len(chat_q) /\ j \in 1..Len(chat_q)
          BY <2>1, <3>2, <4>1
        <5> QED
          BY <2>1, <3>2, <5>1 DEF ChatInv, CopiesGrow
      <4>2. CASE ~(j <= Len(chat_q))
        BY <2>1, <2>3, <2>4, <4>2
      <4> QED
        BY <4>1, <4>2
    <3> QED
      BY <3>1, <3>2
  <2>6. \A c \in Clients : Begins(view[c], chat) /\ \A i \in 1..Len(chat_q') : Len(view[c]) <= Len(chat_q'[i])
    BY <2>1 DEF ChatInv, CopiesGrow, Begins
  <2>7. CopiesGrow'
    BY <1>1, <2>5, <2>6 DEF CopiesGrow, Begins
  <2> QED
    BY <2>2, <2>7 DEF ChatInv
<1> QED
  BY <1>2, <1>3, <1>4

\* get_chat(): the client's array holds less than what arrives.
LEMMA GetChatInv == ASSUME ChatInv, NEW c \in Clients, GetChat(c) PROVE ChatInv'
<1> DEFINE h == Head(chat_q)
<1>1. /\ chat \in Chats /\ chat_q \in Seq(Chats) /\ chat_q # <<>> /\ view \in [Clients -> Chats]
      /\ UNCHANGED <<name_q, message_q, buf, chat, accepted>>
      /\ chat_q' = Tail(chat_q) /\ view' = [view EXCEPT ![c] = Overlay(@, h)]
  BY DEF ChatInv, ChatTypes, GetChat, serverVars
<1>2. /\ Len(chat_q) \in Nat \ {0} /\ h \in Chats /\ h = chat_q[1]
      /\ chat_q' \in Seq(Chats) /\ Len(chat_q') = Len(chat_q) - 1
      /\ \A i \in 1..Len(chat_q') : chat_q'[i] = chat_q[i + 1] /\ i + 1 \in 1..Len(chat_q)
      /\ 1 \in 1..Len(chat_q)
  BY <1>1
<1> HIDE DEF h
<1>3. Len(view[c]) <= Len(h) /\ Begins(h, chat)
  BY <1>2 DEF ChatInv, CopiesGrow
<1>4. view' = [view EXCEPT ![c] = h]
  BY <1>1, <1>2, <1>3, OverlayBegins, ZenonT(60) DEF Chats
<1>5. ChatTypes'
  BY <1>1, <1>2, <1>4 DEF ChatInv, ChatTypes
<1>6. Kept'
  BY <1>1 DEF ChatInv, Kept, Begins
<1>7. ASSUME NEW i \in 1..Len(chat_q')
      PROVE  /\ Begins(chat_q'[i], chat)
             /\ Len(h) <= Len(chat_q'[i])
             /\ \A j \in 1..Len(chat_q') : i <= j => Len(chat_q'[i]) <= Len(chat_q'[j])
             /\ \A d \in Clients : Len(view[d]) <= Len(chat_q'[i])
  <2>1. chat_q'[i] = chat_q[i + 1] /\ i + 1 \in 1..Len(chat_q) /\ 1 <= i + 1
    BY <1>2
  <2>2. /\ Begins(chat_q[i + 1], chat) /\ Len(chat_q[1]) <= Len(chat_q[i + 1])
        /\ \A d \in Clients : Len(view[d]) <= Len(chat_q[i + 1])
    BY <1>2, <2>1 DEF ChatInv, CopiesGrow
  <2>3. ASSUME NEW j \in 1..Len(chat_q'), i <= j PROVE Len(chat_q'[i]) <= Len(chat_q'[j])
    <3>1. chat_q'[j] = chat_q[j + 1] /\ j + 1 \in 1..Len(chat_q) /\ i + 1 <= j + 1
      BY <1>2, <2>3
    <3> QED
      BY <2>1, <3>1 DEF ChatInv, CopiesGrow
  <2> QED
    BY <1>2, <2>1, <2>2, <2>3
<1>8. \A d \in Clients : Begins(view'[d], chat) /\ \A i \in 1..Len(chat_q') : Len(view'[d]) <= Len(chat_q'[i])
  BY <1>1, <1>3, <1>4, <1>7 DEF ChatInv, CopiesGrow
<1>9. CopiesGrow'
  BY <1>1, <1>7, <1>8 DEF CopiesGrow, Begins
<1> QED
  BY <1>5, <1>6, <1>9 DEF ChatInv

\* mq_send() of a message: it is accepted, or it is lost.
LEMMA SendMessageInv ==
  ASSUME ChatInv, NEW c \in Clients, NEW m \in TextsOf[c], SendMessage(c, m)
  PROVE  ChatInv'
<1>1. /\ message_q \in Seq(Texts) /\ accepted \in Seq(Texts) /\ m \in Texts
      /\ chat \in Seq(Texts) /\ chat # <<>>
      /\ UNCHANGED <<name_q, buf, chat, chat_q, view>>
  BY ChatAssumption DEF ChatInv, ChatTypes, SendMessage, serverVars, clientVars, Texts, Chats
<1>2. CASE Full(message_q, Capacity)
  <2>1. UNCHANGED messageVars
    BY <1>1, <1>2, Posted DEF SendMessage, messageVars
  <2>2. name_q' \in Seq(Texts) /\ buf' \in Texts
    BY <1>1 DEF ChatInv, ChatTypes
  <2> QED
    BY <2>1, <2>2, Elsewhere
<1>3. CASE ~Full(message_q, Capacity)
  <2>1. message_q' = Append(message_q, m) /\ accepted' = Append(accepted, m)
    BY <1>1, <1>3, Posted DEF SendMessage
  <2>2. /\ message_q' \in Seq(Texts) /\ Len(message_q') = Len(message_q) + 1 /\ Len(message_q) \in Nat
        /\ \A i \in 1..Len(message_q') : message_q'[i] = IF i <= Len(message_q) THEN message_q[i] ELSE m
        /\ accepted' \in Seq(Texts) /\ Len(accepted') = Len(accepted) + 1 /\ Len(accepted) \in Nat
        /\ \A i \in 1..Len(accepted') : accepted'[i] = IF i <= Len(accepted) THEN accepted[i] ELSE m
        /\ Len(chat) \in Nat \ {0}
    BY <1>1, <2>1
  <2>3. ChatTypes'
    BY <1>1, <2>2 DEF ChatInv, ChatTypes
  <2>4. /\ Len(chat) - 1 + Len(message_q) = Len(accepted)
        /\ \A i \in 1..(Len(chat) - 1) : Begins(accepted[i], chat[i + 1])
        /\ \A i \in 1..Len(message_q) : message_q[i] = accepted[Len(chat) - 1 + i]
    BY DEF ChatInv, Kept
  <2>5. Kept'
    <3>1. Len(chat) - 1 + Len(message_q') = Len(accepted')
      <4>1. /\ Len(message_q') = Len(message_q) + 1 /\ Len(accepted') = Len(accepted) + 1
            /\ Len(message_q) \in Nat /\ Len(accepted) \in Nat /\ Len(chat) \in Nat
        BY <2>2
      <4>2. Len(chat) - 1 + Len(message_q) = Len(accepted)
        BY <2>4
      <4> QED
        BY <4>1, <4>2
    <3>2. ASSUME NEW i \in 1..(Len(chat) - 1) PROVE Begins(accepted'[i], chat[i + 1])
      <4>1. accepted'[i] = accepted[i]
        BY <2>2, <2>4
      <4> QED
        BY <2>4, <4>1
    <3>3. ASSUME NEW i \in 1..Len(message_q') PROVE message_q'[i] = accepted'[Len(chat) - 1 + i]
      <4>1. CASE i <= Len(message_q)
        <5>1. i \in 1..Len(message_q) /\ Len(chat) - 1 + i \in 1..Len(accepted)
          BY <2>2, <2>4, <4>1
        <5> QED
          BY <2>2, <2>4, <5>1, SMTT(60)
      <4>2. CASE ~(i <= Len(message_q))
        <5>1. i = Len(message_q) + 1 /\ message_q'[i] = m
          BY <2>2, <4>2
        <5>2. Len(accepted) \in Nat /\ accepted'[Len(accepted) + 1] = m
          BY <2>2
        <5>3. Len(chat) - 1 + i = Len(accepted) + 1
          BY <2>2, <2>4, <5>1
        <5> QED
          BY <5>1, <5>2, <5>3
      <4> QED
        BY <4>1, <4>2
    <3> QED
      BY <1>1, <3>1, <3>2, <3>3 DEF Kept, Begins
  <2>6. CopiesGrow'
    BY <1>1 DEF ChatInv, CopiesGrow, Begins
  <2> QED
    BY <2>3, <2>5, <2>6 DEF ChatInv
<1> QED
  BY <1>2, <1>3
----------------------------------------------------------------------------
\* At the start there is only garbage in the chat.
LEMMA ChatInitInv == Init => ChatInv
<1> SUFFICES ASSUME Init PROVE ChatInv
  OBVIOUS
<1>1. PICK g \in ChatGarbage : chat = <<g>>
  BY DEF Init
<1>2. g \in Texts /\ chat \in Chats /\ Len(chat) = 1
  BY <1>1, ChatAssumption DEF Texts, Chats
<1>3. ChatTypes
  BY <1>1, <1>2 DEF Init, ChatTypes, Texts, Chats
<1>4. Kept
  BY <1>2 DEF Init, Kept
<1>5. CopiesGrow
  BY <1>2 DEF Init, CopiesGrow, Begins
<1> QED
  BY <1>3, <1>4, <1>5 DEF ChatInv

\* Every step preserves the invariant.
LEMMA ChatStepInv == ChatInv /\ [Next]_vars => ChatInv'
<1> SUFFICES ASSUME ChatInv, [Next]_vars PROVE ChatInv'
  OBVIOUS
<1>1. CASE UNCHANGED vars
  <2>1. UNCHANGED messageVars /\ name_q' = name_q /\ buf' = buf
    BY <1>1 DEF vars, queues, serverVars, clientVars, messageVars
  <2> QED
    BY <2>1, Elsewhere DEF ChatInv, ChatTypes
<1> QED
  BY <1>1, NamesElsewhere, GetMessageInv, SendChatInv, GetChatInv, SendMessageInv
     DEF Next, ServerLoop, ClientStep

\* Accepted messages are neither lost, doubled nor reordered on their way into
\* the chat, whatever becomes of the copies of it, until the list or the chat
\* outgrows its array (server.c:65-73,138,140).
THEOREM AcceptedAreKept == Spec => []MessagesKept
<1>1. ChatInv => MessagesKept
  BY ChatInvMeans
<1> QED
  BY <1>1, ChatInitInv, ChatStepInv, PTL DEF Spec

\* Every client shows a beginning of the server's chat although get_chat() does
\* not clear its array and stale copies wait in the queue, until the list or
\* the chat outgrows its array (client.c:91-98).
THEOREM ClientsShowTheChat == Spec => []ViewsTrue
<1>1. ChatInv => ViewsTrue
  BY ChatInvMeans
<1> QED
  BY <1>1, ChatInitInv, ChatStepInv, PTL DEF Spec
============================================================================
