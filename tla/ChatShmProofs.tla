--------------------------- MODULE ChatShmProofs ---------------------------
(***************************************************************************)
(* Proofs about chat 2: the semaphores that guard the name list, for any   *)
(* number of clients and of restarts of the server, and the messages that  *)
(* strcat() appends to the chat, for any number of clients and messages.   *)
(***************************************************************************)
EXTENDS ChatShmNames, ChatShmChat, FiniteSetTheorems, SequenceTheorems, TLAPS

\* Everybody who has opened a semaphore has opened one that was created.
Opened ==
  /\ gen \in 0..Starts
  /\ sem \in [Gens -> {0, 1}]
  /\ pc \in [Clients -> InSection \cup {"out", "enter", "in", "leave", "gone", "dead",
                                        "dead_in_section"}]
  /\ semOf \in [Clients -> 0..Starts]
  /\ linked => gen # 0
  /\ \A c \in Clients : pc[c] \notin {"out", "dead"} => semOf[c] \in 1..gen

NamesInv == Opened /\ OnePerSemaphore

\* The numbers the guards are about.
LEMMA StartsAndClients == Starts \in Nat /\ IsFiniteSet(Clients)
BY NamesAssumption

\* How many clients hold a semaphore is a number, and one more or one less when
\* one of them comes or goes.
LEMMA HoldersFinite ==
  ASSUME NEW g
  PROVE  IsFiniteSet(Holders(g)) /\ Cardinality(Holders(g)) \in Nat
<1>1. Holders(g) \subseteq Clients
  BY DEF Holders
<1> QED
  BY <1>1, StartsAndClients, FS_Subset, FS_CardinalityType

\* A step that changes neither a semaphore nor who holds it.
LEMMA SameHolders ==
  ASSUME OnePerSemaphore, UNCHANGED <<sem, gen>>, \A g \in Gens : Holders(g)' = Holders(g)
  PROVE  OnePerSemaphore'
BY DEF OnePerSemaphore

\* The server creates a semaphore that nobody holds yet.
LEMMA ServerStartsInv == ASSUME NamesInv, ServerStarts PROVE NamesInv'
<1> USE DEF NamesInv, Opened, ServerStarts
<1>1. gen + 1 \in Gens /\ gen' = gen + 1
  BY StartsAndClients DEF Gens
<1>2. Opened'
  BY <1>1, StartsAndClients DEF Gens
<1>3. \A g \in Gens : Holders(g)' = Holders(g)
  BY DEF Holders
<1>4. Holders(gen + 1) = {} /\ Cardinality(Holders(gen + 1)) = 0
  <2>1. Holders(gen + 1) = {}
    BY DEF Holders, InSection
  <2> QED
    BY <2>1, FS_EmptySet
<1>5. OnePerSemaphore'
  <2> SUFFICES ASSUME NEW g \in Gens
               PROVE  sem'[g] + Cardinality(Holders(g)') = IF g <= gen' THEN 1 ELSE 0
    BY DEF OnePerSemaphore
  <2>1. CASE g = gen + 1
    BY <1>1, <1>3, <1>4, <2>1
  <2>2. CASE g # gen + 1
    <3>1. (g <= gen') <=> (g <= gen)
      BY <1>1, <2>2 DEF Gens
    <3> QED
      BY <1>1, <1>3, <2>2, <3>1 DEF OnePerSemaphore
  <2> QED
    BY <2>1, <2>2
<1> QED
  BY <1>2, <1>5

\* sem_wait() makes one holder of a semaphore that had none.
LEMMA SemWaitInv ==
  ASSUME NamesInv, NEW c \in Clients,
         SemWait(c, "enter", "open_to_add") \/ SemWait(c, "leave", "open_to_delete")
  PROVE  NamesInv'
<1> USE DEF NamesInv, Opened, SemWait, Goto
<1>1. semOf[c] \in Gens /\ semOf[c] \in 1..gen /\ gen' = gen
  BY StartsAndClients DEF Gens, InSection
<1>2. Opened'
  BY <1>1 DEF InSection
<1>3. \A g \in Gens : sem'[g] = IF g = semOf[c] THEN sem[g] - 1 ELSE sem[g]
  BY <1>1
<1>4. \A g \in Gens : c \notin Holders(g)
         /\ Holders(g)' = IF g = semOf[c] THEN Holders(g) \cup {c} ELSE Holders(g)
  BY DEF Holders, InSection
<1>5. ASSUME NEW g \in Gens
      PROVE  sem'[g] + Cardinality(Holders(g)') = sem[g] + Cardinality(Holders(g))
  <2>1. sem[g] \in Nat /\ IsFiniteSet(Holders(g)) /\ Cardinality(Holders(g)) \in Nat
    BY HoldersFinite
  <2>2. Cardinality(Holders(g) \cup {c}) = Cardinality(Holders(g)) + 1
    BY <1>4, <2>1, FS_AddElement
  <2>3. CASE g = semOf[c]
    <3>1. sem'[g] = sem[g] - 1 /\ Holders(g)' = Holders(g) \cup {c}
      BY <1>3, <1>4, <2>3
    <3> HIDE DEF NamesInv, Opened, SemWait, Goto
    <3> QED
      BY <2>1, <2>2, <3>1
  <2>4. CASE g # semOf[c]
    <3>1. sem'[g] = sem[g] /\ Holders(g)' = Holders(g)
      BY <1>3, <1>4, <2>4
    <3> HIDE DEF NamesInv, Opened, SemWait, Goto
    <3> QED
      BY <3>1
  <2> QED
    BY <2>3, <2>4
<1>6. OnePerSemaphore'
  BY <1>1, <1>5 DEF OnePerSemaphore
<1> QED
  BY <1>2, <1>6

\* sem_post() is called by the one holder.
LEMMA SemPostInv ==
  ASSUME NamesInv, NEW c \in Clients,
         SemPost(c, "added", "in") \/ SemPost(c, "removed", "gone")
  PROVE  NamesInv'
<1> USE DEF NamesInv, Opened, SemPost, Goto
<1>1. semOf[c] \in Gens /\ semOf[c] \in 1..gen /\ gen' = gen
  BY StartsAndClients DEF Gens, InSection
<1>2. \A g \in Gens : sem'[g] = IF g = semOf[c] THEN sem[g] + 1 ELSE sem[g]
  BY <1>1
<1>3. \A g \in Gens : (g = semOf[c] => c \in Holders(g))
         /\ Holders(g)' = IF g = semOf[c] THEN Holders(g) \ {c} ELSE Holders(g)
  BY DEF Holders, InSection
<1>4. ASSUME NEW g \in Gens, g = semOf[c]
      PROVE  /\ Cardinality(Holders(g) \ {c}) = Cardinality(Holders(g)) - 1
             /\ sem[g] = 0
  <2>1. sem[g] \in {0, 1} /\ IsFiniteSet(Holders(g)) /\ Cardinality(Holders(g)) \in Nat
    BY HoldersFinite
  <2>2. Cardinality(Holders(g) \ {c}) = Cardinality(Holders(g)) - 1
    BY <1>3, <1>4, <2>1, FS_RemoveElement
  <2>3. Cardinality(Holders(g)) # 0
    BY <1>3, <1>4, <2>1, FS_EmptySet
  <2>4. sem[g] + Cardinality(Holders(g)) = 1
    BY <1>1, <1>4 DEF OnePerSemaphore
  <2> QED
    BY <2>1, <2>2, <2>3, <2>4
<1>5. Opened'
  <2>0. sem[semOf[c]] = 0
    BY <1>1, <1>4
  <2>1. sem' \in [Gens -> {0, 1}]
    BY <1>1, <2>0
  <2> QED
    BY <2>1 DEF InSection
<1>6. ASSUME NEW g \in Gens
      PROVE  sem'[g] + Cardinality(Holders(g)') = sem[g] + Cardinality(Holders(g))
  <2>1. sem[g] \in Nat /\ Cardinality(Holders(g)) \in Nat
    BY HoldersFinite
  <2> QED
    BY <1>2, <1>3, <1>4, <2>1
<1>7. OnePerSemaphore'
  BY <1>1, <1>6 DEF OnePerSemaphore
<1> QED
  BY <1>5, <1>7

\* A client opens the semaphore of the server that runs, or crashes.
LEMMA StartInv == ASSUME NamesInv, NEW c \in Clients, Start(c) PROVE NamesInv'
<1> USE DEF NamesInv, Opened, Start, Goto
<1>1. Opened'
  <2>1. CASE linked
    <3>1. gen \in 1..gen /\ gen \in 0..Starts
      BY <2>1, StartsAndClients
    <3> QED
      BY <2>1, <3>1 DEF InSection
  <2>2. CASE ~linked
    BY <2>2 DEF InSection
  <2> QED
    BY <2>1, <2>2
<1>2. \A g \in Gens : Holders(g)' = Holders(g)
  BY DEF Holders, InSection
<1> QED
  BY <1>1, <1>2, SameHolders

\* All other steps of a client leave the semaphores and their holders alone;
\* a holder that dies stays one.
LEMMA OtherStepInv ==
  ASSUME NamesInv, NEW c \in Clients,
         \/ Leave(c) \/ Killed(c)
         \/ OpenList(c, "open_to_add", "add") \/ OpenList(c, "open_to_delete", "load")
         \/ AddName(c) \/ LoadList(c) \/ CopyOthers(c) \/ ClearList(c) \/ WriteList(c)
  PROVE  NamesInv'
<1> DEFINE Holding == InSection \cup {"dead_in_section"}
<1>1. UNCHANGED <<sem, gen, linked, semOf>>
  BY DEF Leave, Killed, OpenList, AddName, LoadList, CopyOthers, ClearList, WriteList
<1>2. \E l \in Holding \cup {"leave", "dead"} :
        /\ pc' = [pc EXCEPT ![c] = l]
        /\ pc[c] \notin {"out", "dead"}
        /\ l \in Holding <=> pc[c] \in Holding
  <2>1. CASE UNCHANGED pc /\ CopyOthers(c)
    <3>1. pc' = [pc EXCEPT ![c] = "copy"] /\ pc[c] = "copy"
      BY <2>1 DEF NamesInv, Opened, CopyOthers
    <3> QED
      BY <3>1 DEF InSection
  <2>2. CASE ~UNCHANGED pc /\ CopyOthers(c)
    BY <2>2 DEF CopyOthers, Goto, InSection
  <2>3. CASE Leave(c)
    BY <2>3 DEF Leave, Goto, InSection
  <2>4. CASE Killed(c)
    <3>1. pc[c] \notin {"out", "gone", "dead", "dead_in_section"}
      BY <2>4 DEF Killed
    <3>2. CASE pc[c] \in InSection
      <4>1. pc' = [pc EXCEPT ![c] = "dead_in_section"]
        BY <2>4, <3>2 DEF Killed, Goto
      <4> QED
        BY <3>1, <3>2, <4>1
    <3>3. CASE pc[c] \notin InSection
      <4>1. pc' = [pc EXCEPT ![c] = "dead"]
        BY <2>4, <3>3 DEF Killed, Goto
      <4>2. "dead" \notin Holding /\ pc[c] \notin Holding
        BY <3>1, <3>3 DEF InSection
      <4> QED
        BY <3>1, <4>1, <4>2
    <3> QED
      BY <3>2, <3>3
  <2>5. CASE OpenList(c, "open_to_add", "add") \/ OpenList(c, "open_to_delete", "load")
    BY <2>5 DEF OpenList, Goto, InSection
  <2>6. CASE AddName(c) \/ LoadList(c) \/ WriteList(c)
    BY <2>6 DEF AddName, LoadList, WriteList, GotoIfFits, Goto, InSection
  <2>7. CASE ClearList(c)
    BY <2>7 DEF ClearList, Goto, InSection
  <2> QED
    BY <2>1, <2>2, <2>3, <2>4, <2>5, <2>6, <2>7
<1>3. Opened'
  BY <1>1, <1>2 DEF NamesInv, Opened, InSection
<1>4. \A g \in Gens : Holders(g)' = Holders(g)
  BY <1>1, <1>2 DEF NamesInv, Opened, Holders, InSection
<1> QED
  BY <1>1, <1>3, <1>4, SameHolders DEF NamesInv

\* Every step preserves the invariant.
LEMMA NamesStepInv == NamesInv /\ [Next]_vars => NamesInv'
<1> SUFFICES ASSUME NamesInv, [Next]_vars PROVE NamesInv'
  OBVIOUS
<1>1. CASE ServerStops \/ UNCHANGED vars
  BY <1>1 DEF ServerStops, vars, NamesInv, Opened, OnePerSemaphore, Holders
<1> QED
  BY <1>1, ServerStartsInv, SemWaitInv, SemPostInv, StartInv, OtherStepInv
     DEF Next, send_name, delete_name

\* Before the server is started nobody holds anything.
LEMMA NamesInitInv == Init => NamesInv
<1> SUFFICES ASSUME Init PROVE NamesInv
  OBVIOUS
<1>1. Opened
  BY StartsAndClients DEF Init, Opened, Gens
<1>2. \A g \in Gens : Holders(g) = {} /\ Cardinality(Holders(g)) = 0
  BY FS_EmptySet DEF Init, Holders, InSection
<1> QED
  BY <1>1, <1>2 DEF Init, NamesInv, OnePerSemaphore, Gens

\* A list a client has mapped is as new as its semaphore or newer.
ListNewer ==
  /\ obj \in [Clients -> Nat]
  /\ \A c \in Clients : pc[c] \in OnList => semOf[c] <= obj[c]

\* Two clients of one semaphore are not in the section together.
LEMMA OneOfEach ==
  ASSUME NamesInv, NEW c \in Clients, NEW d \in Clients, semOf[c] = semOf[d],
         pc[c] \in InSection \cup {"dead_in_section"}, pc[d] \in InSection \cup {"dead_in_section"}
  PROVE  c = d
<1> SUFFICES ASSUME c # d PROVE FALSE
  OBVIOUS
<1> DEFINE g == semOf[c]
<1>1. g \in Gens /\ g <= gen
  BY StartsAndClients DEF NamesInv, Opened, Gens, InSection
<1>2. {c, d} \in SUBSET Holders(g)
  BY DEF Holders
<1> HIDE DEF g
<1>3. IsFiniteSet(Holders(g)) /\ Cardinality(Holders(g)) \in Nat
  BY HoldersFinite
<1>4. IsFiniteSet({c}) /\ Cardinality({c}) = 1
  BY FS_Singleton
<1>5. {c, d} = {c} \cup {d} /\ d \notin {c}
  OBVIOUS
<1>6. Cardinality({c, d}) = 2
  <2>1. Cardinality({c} \cup {d}) = Cardinality({c}) + 1
    BY <1>4, <1>5, FS_AddElement
  <2> QED
    BY <1>4, <1>5, <2>1
<1>7. 2 <= Cardinality(Holders(g))
  BY <1>2, <1>3, <1>6, FS_Subset
<1>8. sem[g] + Cardinality(Holders(g)) = 1 /\ sem[g] \in {0, 1}
  BY <1>1 DEF NamesInv, OnePerSemaphore, Opened
<1> QED
  BY <1>3, <1>7, <1>8

\* Of two clients on one list that have opened different semaphores one has
\* opened an older one than the list is.
LEMMA StrangersOnly == NamesInv /\ ListNewer => SemGuards
<1> SUFFICES ASSUME NamesInv, ListNewer PROVE StrangersMeet
  BY DEF NamesInv, SemGuards
<1> SUFFICES ASSUME NEW c \in Clients, NEW d \in Clients, c # d,
                    pc[c] \in OnList, pc[d] \in OnList, obj[c] = obj[d]
             PROVE  semOf[c] < obj[c] \/ semOf[d] < obj[d]
  BY DEF StrangersMeet
<1>1. semOf[c] # semOf[d]
  BY OneOfEach DEF OnList
<1>2. semOf[c] \in Nat /\ semOf[d] \in Nat
  BY StartsAndClients DEF NamesInv, Opened
<1>3. semOf[c] <= obj[c] /\ semOf[d] <= obj[d] /\ obj[c] \in Nat
  BY DEF ListNewer
<1> QED
  BY <1>1, <1>2, <1>3

\* A client opens the newest list.
LEMMA ListNewerStep == NamesInv /\ ListNewer /\ [Next]_vars => ListNewer'
<1> SUFFICES ASSUME NamesInv, ListNewer, [Next]_vars PROVE ListNewer'
  OBVIOUS
<1>0. /\ gen \in Nat
      /\ pc \in [Clients -> InSection \cup {"out", "enter", "in", "leave", "gone", "dead",
                                            "dead_in_section"}]
      /\ semOf \in [Clients -> 0..Starts]
      /\ \A c \in Clients : pc[c] \notin {"out", "dead"} => semOf[c] \in 1..gen
  BY StartsAndClients DEF NamesInv, Opened
<1>1. CASE ServerStarts \/ ServerStops \/ UNCHANGED vars
  BY <1>1 DEF ServerStarts, ServerStops, vars, ListNewer
<1>2. ASSUME NEW c \in Clients,
             OpenList(c, "open_to_add", "add") \/ OpenList(c, "open_to_delete", "load")
      PROVE  ListNewer'
  <2>1. semOf[c] <= gen /\ UNCHANGED semOf
    BY <1>0, <1>2 DEF OpenList, InSection
  <2>2. \/ obj' = [obj EXCEPT ![c] = gen]
        \/ obj' = obj /\ pc' = [pc EXCEPT ![c] = "dead_in_section"]
    BY <1>2 DEF OpenList, Goto
  <2>3. \A d \in Clients \ {c} : pc'[d] = pc[d]
    BY <1>0, <1>2 DEF OpenList, Goto
  <2>4. "dead_in_section" \notin OnList
    BY DEF OnList, InSection
  <2> QED
    BY <1>0, <2>1, <2>2, <2>3, <2>4 DEF ListNewer
<1>3. ASSUME NEW c \in Clients, Start(c) PROVE ListNewer'
  <2>1. pc'[c] \notin OnList
    BY <1>0, <1>3 DEF Start, Goto, OnList, InSection
  <2>2. obj' = obj /\ \A d \in Clients \ {c} : pc'[d] = pc[d] /\ semOf'[d] = semOf[d]
    BY <1>0, <1>3 DEF Start, Goto
  <2> QED
    BY <2>1, <2>2 DEF ListNewer
<1>4. ASSUME NEW c \in Clients, UNCHANGED <<obj, semOf>>, NEW l, pc' = [pc EXCEPT ![c] = l],
             l \in OnList => pc[c] \in OnList
      PROVE  ListNewer'
  BY <1>0, <1>4 DEF ListNewer
<1>5. ASSUME NEW c \in Clients,
             \/ SemWait(c, "enter", "open_to_add") \/ SemWait(c, "leave", "open_to_delete")
             \/ SemPost(c, "added", "in") \/ SemPost(c, "removed", "gone")
             \/ Leave(c) \/ Killed(c)
      PROVE  ListNewer'
  <2>1. \E l \in {"open_to_add", "open_to_delete", "in", "gone", "leave", "dead", "dead_in_section"} :
          pc' = [pc EXCEPT ![c] = l]
    BY <1>5 DEF SemWait, SemPost, Leave, Killed, Goto
  <2>2. UNCHANGED <<obj, semOf>>
    BY <1>5 DEF SemWait, SemPost, Leave, Killed
  <2> QED
    BY <1>4, <2>1, <2>2 DEF OnList, InSection
<1>6. ASSUME NEW c \in Clients,
             AddName(c) \/ LoadList(c) \/ CopyOthers(c) \/ ClearList(c) \/ WriteList(c)
      PROVE  ListNewer'
  <2>1. UNCHANGED <<obj, semOf>> /\ pc[c] \in OnList
    BY <1>6 DEF AddName, LoadList, CopyOthers, ClearList, WriteList, OnList, InSection
  <2>2. pc' = pc \/ \E l : pc' = [pc EXCEPT ![c] = l]
    BY <1>6 DEF AddName, LoadList, CopyOthers, ClearList, WriteList, Goto, GotoIfFits
  <2>3. CASE pc' = pc
    BY <2>1, <2>3 DEF ListNewer
  <2> QED
    BY <1>4, <2>1, <2>2, <2>3
<1> QED
  BY <1>1, <1>2, <1>3, <1>5, <1>6 DEF Next, send_name, delete_name

\* Each semaphore of chat 2 admits one client at a time and, after a client has
\* died with it, nobody any more, and two clients meet on one list only if one
\* of them is older than the server that created it, over all restarts of the
\* server (client.c:42,43,53,156,181).
THEOREM SemaphoresGuard == Spec => []SemGuards
<1>1. Init => ListNewer
  BY DEF Init, ListNewer, OnList, InSection
<1> QED
  BY <1>1, StrangersOnly, ListNewerStep, NamesInitInv, NamesStepInv, PTL DEF Spec
----------------------------------------------------------------------------
(* The name list *)

Texts == Seq(Letters)

\* Whose entry must be on the list, whose may be, and whose may end its first
\* line.
Entered == {c \in Clients : pc[c] \in {"added", "in", "leave", "open_to_delete", "load"}}
Allowed == {c \in Clients : pc[c] \in {"added", "in", "leave", "open_to_delete", "load", "dead",
                                       "copy", "clear", "write"}}
BeenIn == {c \in Clients : pc[c] \in {"added", "in", "leave", "open_to_delete", "load", "dead",
                                      "copy", "clear", "write", "removed", "gone"}}

\* A line with garbage in front, which ends in an entry of one of B or in
\* garbage.
Glued(t, B) ==
  /\ \E g \in Garbage \ {<<>>} : IsPrefix(g, t)
  /\ \/ \E c \in B : NameOf[c] # <<>> /\ IsSuffix(NameOf[c], t)
     \/ \E g \in Garbage \ {<<>>} : IsSuffix(g, t)

\* The entry of one of A.
Entry(t, A) == \E c \in A : NameOf[c] # <<>> /\ t = NameOf[c]

\* One line of l ends in the name of c.
Once(l, c) ==
  \E i \in 1..Len(l) : \A j \in 1..Len(l) : IsSuffix(NameOf[c], l[j]) <=> j = i

\* A list of entries of A, with garbage at the top at most, on which each of E
\* is once.
Good(l, E, A, B) ==
  /\ l \in Seq(Texts)
  /\ \A i \in 1..Len(l) : Entry(l[i], A) \/ \A j \in 1..i : Glued(l[j], B)
  /\ \A c \in E : NameOf[c] # <<>> /\ Once(l, c)

\* Who is rewriting the list.
Rewriting == {"copy", "clear", "write"}

\* The list and the copy that is made of it, while the server is started once
\* and nobody has died inside the section.
ListGood ==
  /\ \A c \in Clients :
       pc[c] \in {"add", "load", "copy", "clear", "write"} => obj[c] = 1
  /\ \A c \in Clients : pc[c] = "add" => NameOf[c] # <<>>
  /\ list[1] \in Seq(Texts)
  /\ (\A c \in Clients : pc[c] \notin Rewriting) => Good(list[1], Entered, Allowed, BeenIn)
  /\ \A c \in Clients : pc[c] \in Rewriting =>
       /\ copy[c] \in Seq(Texts) /\ rest[c] \in Seq(Texts)
       /\ Good(copy[c] \o rest[c], Entered, Allowed, BeenIn)
       /\ \A i \in 1..Len(copy[c]) : copy[c][i] # NameOf[c]
       /\ pc[c] # "copy" => rest[c] = <<>>
       /\ pc[c] = "write" => list[1] = <<>>

ListInv ==
  /\ NamesInv
  /\ DOMAIN list = Gens
  /\ DOMAIN rest = Clients /\ DOMAIN copy = Clients /\ DOMAIN obj = Clients
  /\ gen = 0 => /\ \A c \in Clients : pc[c] \in {"out", "dead"}
                /\ \A g \in Gens : list[g] = <<>>
  /\ gen = 1 /\ (\A c \in Clients : pc[c] # "dead_in_section") => ListGood

\* What it means to begin and to end, letter by letter.
LEMMA PrefixLetters ==
  ASSUME NEW s \in Texts, NEW t \in Texts
  PROVE  IsPrefix(s, t) <=> Len(s) <= Len(t) /\ \A i \in 1..Len(s) : t[i] = s[i]
<1>1. Len(s) \in Nat /\ Len(t) \in Nat
  BY DEF Texts
<1>2. SubSeq(s, 1, Len(s)) = s
  BY SubSeqFull DEF Texts
<1>3. ASSUME Len(s) <= Len(t)
      PROVE  /\ SubSeq(t, 1, Len(s)) \in Texts /\ Len(SubSeq(t, 1, Len(s))) = Len(s)
             /\ \A i \in 1..Len(s) : SubSeq(t, 1, Len(s))[i] = t[i]
  BY <1>1, <1>3 DEF Texts
<1>4. ASSUME Len(s) <= Len(t), \A i \in 1..Len(s) : t[i] = s[i]
      PROVE  s = SubSeq(t, 1, Len(s))
  BY <1>1, <1>3, <1>4, SeqEqual DEF Texts
<1>5. ASSUME Len(s) <= Len(t), s = SubSeq(t, 1, Len(s)) PROVE \A i \in 1..Len(s) : t[i] = s[i]
  BY <1>3, <1>5
<1> QED
  BY <1>2, <1>4, <1>5 DEF IsPrefix

LEMMA ReversedText ==
  ASSUME NEW s \in Texts
  PROVE  /\ Reverse(s) \in Texts /\ Len(Reverse(s)) = Len(s)
         /\ \A i \in 1..Len(s) : Reverse(s)[i] = s[Len(s) - i + 1]
<1>1. Len(s) \in Nat /\ \A i \in 1..Len(s) : s[i] \in Letters
  BY DEF Texts
<1>2. \A i \in 1..Len(s) : Len(s) - i + 1 \in 1..Len(s)
  BY <1>1
<1>3. Reverse(s) = [i \in 1..Len(s) |-> s[Len(s) - i + 1]]
  BY DEF Reverse
<1>4. Reverse(s) \in [1..Len(s) -> Letters]
  BY <1>1, <1>2, <1>3
<1>5. Reverse(s) \in Seq(Letters) /\ Len(Reverse(s)) = Len(s)
  BY <1>1, <1>4
<1> QED
  BY <1>3, <1>5 DEF Texts

LEMMA SuffixLetters ==
  ASSUME NEW s \in Texts, NEW t \in Texts
  PROVE  IsSuffix(s, t) <=>
           Len(s) <= Len(t) /\ \A i \in 1..Len(s) : t[Len(t) - Len(s) + i] = s[i]
<1>1. Len(s) \in Nat /\ Len(t) \in Nat
  BY DEF Texts
<1>2. IsSuffix(s, t) <=>
        Len(s) <= Len(t) /\ \A i \in 1..Len(s) : Reverse(t)[i] = Reverse(s)[i]
  BY ReversedText, PrefixLetters DEF IsSuffix
<1>3. ASSUME Len(s) <= Len(t), NEW i \in 1..Len(s)
      PROVE  Reverse(t)[i] = t[Len(t) - i + 1] /\ Reverse(s)[i] = s[Len(s) - i + 1]
  <2>1. i \in 1..Len(t)
    BY <1>1, <1>3
  <2> QED
    BY <2>1, ReversedText
<1>4. ASSUME Len(s) <= Len(t), \A i \in 1..Len(s) : Reverse(t)[i] = Reverse(s)[i],
             NEW i \in 1..Len(s)
      PROVE  t[Len(t) - Len(s) + i] = s[i]
  <2> DEFINE j == Len(s) - i + 1
  <2>1. j \in 1..Len(s) /\ Len(s) - j + 1 = i /\ Len(t) - j + 1 = Len(t) - Len(s) + i
    BY <1>1
  <2> HIDE DEF j
  <2> QED
    BY <1>3, <1>4, <2>1
<1>5. ASSUME Len(s) <= Len(t), \A i \in 1..Len(s) : t[Len(t) - Len(s) + i] = s[i],
             NEW i \in 1..Len(s)
      PROVE  Reverse(t)[i] = Reverse(s)[i]
  <2> DEFINE j == Len(s) - i + 1
  <2>1. j \in 1..Len(s) /\ Len(t) - i + 1 = Len(t) - Len(s) + j
    BY <1>1
  <2>2. t[Len(t) - Len(s) + j] = s[j]
    BY <1>5, <2>1
  <2>3. t[Len(t) - i + 1] = s[Len(s) - i + 1]
    BY <2>1, <2>2
  <2> QED
    BY <1>3, <1>5, <2>3
<1> QED
  BY <1>2, <1>4, <1>5

\* Of two ends of a text one is the end of the other.
LEMMA EndsCompare ==
  ASSUME NEW s \in Texts, NEW u \in Texts, NEW t \in Texts, IsSuffix(s, t), IsSuffix(u, t)
  PROVE  IsSuffix(s, u) \/ IsSuffix(u, s)
<1>1. ASSUME NEW a \in Texts, NEW b \in Texts, IsSuffix(a, t), IsSuffix(b, t), Len(a) <= Len(b)
      PROVE  IsSuffix(a, b)
  <2>1. Len(a) \in Nat /\ Len(b) \in Nat /\ Len(t) \in Nat
    BY DEF Texts
  <2>2. /\ Len(a) <= Len(t) /\ \A i \in 1..Len(a) : t[Len(t) - Len(a) + i] = a[i]
        /\ Len(b) <= Len(t) /\ \A i \in 1..Len(b) : t[Len(t) - Len(b) + i] = b[i]
    BY <1>1, SuffixLetters
  <2>3. ASSUME NEW i \in 1..Len(a) PROVE b[Len(b) - Len(a) + i] = a[i]
    <3> DEFINE j == Len(b) - Len(a) + i
    <3>1. j \in 1..Len(b) /\ Len(t) - Len(b) + j = Len(t) - Len(a) + i
      BY <1>1, <2>1
    <3>2. t[Len(t) - Len(b) + j] = b[j]
      BY <2>2, <3>1
    <3>3. t[Len(t) - Len(a) + i] = a[i]
      BY <2>2
    <3> QED
      BY <3>1, <3>2, <3>3
  <2> QED
    BY <1>1, <2>3, SuffixLetters
<1>2. Len(s) \in Nat /\ Len(u) \in Nat
  BY DEF Texts
<1>3. Len(s) <= Len(u) \/ Len(u) <= Len(s)
  BY <1>2
<1> QED
  BY <1>1, <1>3

\* A text behind another one begins with it and ends as before.
LEMMA BehindText ==
  ASSUME NEW g \in Texts, NEW t \in Texts
  PROVE  /\ g \o t \in Texts /\ IsPrefix(g, g \o t)
         /\ \A s \in Texts : IsSuffix(s, t) => IsSuffix(s, g \o t)
         /\ IsSuffix(t, g \o t)
<1>1. /\ Len(g) \in Nat /\ Len(t) \in Nat /\ g \o t \in Texts /\ Len(g \o t) = Len(g) + Len(t)
      /\ \A i \in 1..(Len(g) + Len(t)) :
           (g \o t)[i] = IF i <= Len(g) THEN g[i] ELSE t[i - Len(g)]
  BY ConcatProperties DEF Texts
<1>2. IsPrefix(g, g \o t)
  <2>1. \A i \in 1..Len(g) : (g \o t)[i] = g[i]
    BY <1>1
  <2>2. Len(g) <= Len(g \o t)
    BY <1>1
  <2> QED
    BY <1>1, <2>1, <2>2, PrefixLetters
<1>3. ASSUME NEW s \in Texts, IsSuffix(s, t) PROVE IsSuffix(s, g \o t)
  <2>1. /\ Len(s) \in Nat /\ Len(s) <= Len(t) /\ \A i \in 1..Len(s) : t[Len(t) - Len(s) + i] = s[i]
    BY <1>3, SuffixLetters DEF Texts
  <2>2. ASSUME NEW i \in 1..Len(s) PROVE (g \o t)[Len(g \o t) - Len(s) + i] = s[i]
    <3> DEFINE j == Len(g \o t) - Len(s) + i
    <3>1. /\ j \in 1..(Len(g) + Len(t)) /\ j > Len(g) /\ j - Len(g) = Len(t) - Len(s) + i
      BY <1>1, <2>1
    <3> HIDE DEF j
    <3>2. (g \o t)[j] = t[j - Len(g)]
      BY <1>1, <3>1
    <3>3. (g \o t)[j] = s[i]
      BY <2>1, <3>1, <3>2
    <3> QED
      BY <3>3 DEF j
  <2>3. Len(s) <= Len(g \o t)
    BY <1>1, <2>1
  <2> QED
    BY <1>1, <2>2, <2>3, SuffixLetters
<1>4. IsSuffix(t, t)
  <2>1. \A i \in 1..Len(t) : t[Len(t) - Len(t) + i] = t[i]
    BY <1>1
  <2> QED
    BY <1>1, <2>1, SuffixLetters
<1> QED
  BY <1>1, <1>2, <1>3, <1>4

\* Every text begins with itself and ends in itself.
LEMMA SelfEnds == ASSUME NEW t \in Texts PROVE IsPrefix(t, t) /\ IsSuffix(t, t)
<1>1. Len(t) \in Nat
  BY DEF Texts
<1>2. \A i \in 1..Len(t) : t[Len(t) - Len(t) + i] = t[i]
  BY <1>1
<1> QED
  BY <1>1, <1>2, PrefixLetters, SuffixLetters

\* The names that are entered, and garbage.
LEMMA NamesAreTexts ==
  /\ \A c \in Clients : NameOf[c] \in Texts
  /\ \A g \in Garbage : g \in Texts
BY NamesAssumption DEF Texts

\* Other sets of clients for which a list is as good.
LEMMA GoodFor ==
  ASSUME NEW E, NEW A, NEW B, NEW l, Good(l, E, A, B), NEW E2, NEW A2, NEW B2,
         E2 \subseteq E, B \subseteq B2,
         \A c \in A \ A2 : \A i \in 1..Len(l) : l[i] # NameOf[c]
  PROVE  Good(l, E2, A2, B2)
<1>1. \A i \in 1..Len(l) : Entry(l[i], A) => Entry(l[i], A2)
  BY DEF Entry
<1>2. \A i \in 1..Len(l) : Glued(l[i], B) => Glued(l[i], B2)
  BY DEF Glued
<1>3. \A i \in 1..Len(l) : Entry(l[i], A) \/ \A j \in 1..i : Glued(l[j], B)
  BY DEF Good
<1>4. \A i \in 1..Len(l) : Entry(l[i], A2) \/ \A j \in 1..i : Glued(l[j], B2)
  BY <1>1, <1>2, <1>3
<1> QED
  BY <1>4 DEF Good

\* The lines that are there end in the name of nobody who has not been in.
LEMMA NotListed ==
  ASSUME NamesApart, NEW t \in Texts, NEW A \in SUBSET Clients, NEW B \in SUBSET Clients,
         Entry(t, A) \/ Glued(t, B),
         NEW c \in Clients, c \notin A, c \notin B, NameOf[c] # <<>>
  PROVE  ~IsSuffix(NameOf[c], t)
<1>1. CASE Entry(t, A)
  <2>1. PICK d \in A : t = NameOf[d]
    BY <1>1 DEF Entry
  <2>2. d \in Clients \ {c}
    BY <2>1
  <2> QED
    BY <2>1, <2>2 DEF NamesApart
<1>2. CASE Glued(t, B)
  <2> SUFFICES ASSUME IsSuffix(NameOf[c], t) PROVE FALSE
    OBVIOUS
  <2>1. CASE \E d \in B : NameOf[d] # <<>> /\ IsSuffix(NameOf[d], t)
    <3>1. PICK d \in B : NameOf[d] # <<>> /\ IsSuffix(NameOf[d], t)
      BY <2>1
    <3>2. d \in Clients \ {c} /\ c \in Clients \ {d}
      BY <3>1
    <3>3. IsSuffix(NameOf[c], NameOf[d]) \/ IsSuffix(NameOf[d], NameOf[c])
      BY <3>1, <3>2, EndsCompare, NamesAreTexts
    <3> QED
      BY <3>1, <3>2, <3>3 DEF NamesApart
  <2>2. CASE \E g \in Garbage \ {<<>>} : IsSuffix(g, t)
    <3>1. PICK g \in Garbage \ {<<>>} : IsSuffix(g, t)
      BY <2>2
    <3>2. IsSuffix(NameOf[c], g) \/ IsSuffix(g, NameOf[c])
      BY <3>1, EndsCompare, NamesAreTexts
    <3> QED
      BY <3>1, <3>2 DEF NamesApart
  <2> QED
    BY <1>2, <2>1, <2>2 DEF Glued
<1> QED
  BY <1>1, <1>2

\* A new entry.
LEMMA GoodAppend ==
  ASSUME NamesApart, NEW E \in SUBSET Clients, NEW A \in SUBSET Clients, NEW B \in SUBSET Clients,
         NEW l, Good(l, E, A, B), NEW c \in Clients, c \notin A, c \notin B, NameOf[c] # <<>>,
         c \notin E
  PROVE  Good(Append(l, NameOf[c]), E \cup {c}, A \cup {c}, B \cup {c})
<1> DEFINE n == NameOf[c]
           k == Append(l, n)
<1>1. /\ l \in Seq(Texts) /\ Len(l) \in Nat /\ n \in Texts
      /\ k \in Seq(Texts) /\ Len(k) = Len(l) + 1
      /\ k[Len(l) + 1] = n /\ \A i \in 1..Len(l) : k[i] = l[i]
  BY NamesAreTexts DEF Good
<1>2. \A i \in 1..Len(k) : i \in 1..Len(l) \/ i = Len(l) + 1
  BY <1>1
<1>3. Good(l, E, A \cup {c}, B \cup {c})
  BY GoodFor
<1> HIDE DEF n, k
<1>4. Entry(n, A \cup {c})
  BY DEF Entry, n
<1>5. \A i \in 1..Len(k) : Entry(k[i], A \cup {c}) \/ \A j \in 1..i : Glued(k[j], B \cup {c})
  <2> SUFFICES ASSUME NEW i \in 1..Len(k)
               PROVE  Entry(k[i], A \cup {c}) \/ \A j \in 1..i : Glued(k[j], B \cup {c})
    OBVIOUS
  <2>1. CASE i \in 1..Len(l)
    <3>1. Entry(l[i], A \cup {c}) \/ \A j \in 1..i : Glued(l[j], B \cup {c})
      BY <1>3, <2>1 DEF Good
    <3>2. \A j \in 1..i : j \in 1..Len(l)
      BY <1>1, <2>1
    <3>3. k[i] = l[i] /\ \A j \in 1..i : k[j] = l[j]
      BY <1>1, <2>1, <3>2
    <3> QED
      BY <3>1, <3>3
  <2>2. CASE i = Len(l) + 1
    BY <1>1, <1>4, <2>2
  <2> QED
    BY <1>2, <2>1, <2>2
<1>6. ASSUME NEW d \in E PROVE NameOf[d] # <<>> /\ Once(k, d)
  <2>1. NameOf[d] # <<>> /\ d # c
    BY DEF Good
  <2>2. ~IsSuffix(NameOf[d], n)
    BY <2>1 DEF NamesApart, n
  <2>3. PICK i \in 1..Len(l) : \A j \in 1..Len(l) : IsSuffix(NameOf[d], l[j]) <=> j = i
    BY DEF Good, Once
  <2>4. i \in 1..Len(k)
    BY <1>1, <2>3
  <2>5. \A j \in 1..Len(k) : IsSuffix(NameOf[d], k[j]) <=> j = i
    <3> SUFFICES ASSUME NEW j \in 1..Len(k) PROVE IsSuffix(NameOf[d], k[j]) <=> j = i
      OBVIOUS
    <3>1. CASE j \in 1..Len(l)
      BY <1>1, <2>3, <3>1
    <3>2. CASE j = Len(l) + 1
      <4>1. j # i
        BY <1>1, <2>3, <3>2
      <4> QED
        BY <1>1, <2>2, <3>2, <4>1
    <3> QED
      BY <1>2, <3>1, <3>2
  <2> QED
    BY <2>1, <2>4, <2>5 DEF Once
<1>7. NameOf[c] # <<>> /\ Once(k, c)
  <2>1. \A j \in 1..Len(l) : ~IsSuffix(n, l[j])
    <3> SUFFICES ASSUME NEW j \in 1..Len(l) PROVE ~IsSuffix(n, l[j])
      OBVIOUS
    <3>1. l[j] \in Texts /\ (Entry(l[j], A) \/ Glued(l[j], B))
      BY <1>1 DEF Good
    <3> QED
      BY <3>1, NotListed DEF n
  <2>2. IsSuffix(n, n)
    BY <1>1, SelfEnds
  <2>3. Len(l) + 1 \in 1..Len(k)
    BY <1>1
  <2>4. \A j \in 1..Len(k) : IsSuffix(n, k[j]) <=> j = Len(l) + 1
    BY <1>1, <1>2, <2>1, <2>2
  <2> QED
    BY <2>3, <2>4 DEF Once, n
<1> QED
  BY <1>1, <1>5, <1>6, <1>7 DEF Good, k, n

\* Garbage in front of a line of the list changes nobody's place.
LEMMA GluedEnds ==
  ASSUME NamesApart, NEW t \in Texts, NEW A \in SUBSET Clients, NEW B \in SUBSET Clients,
         A \subseteq B, Entry(t, A) \/ Glued(t, B), NEW g \in Garbage, g # <<>>
  PROVE  /\ Glued(g \o t, B)
         /\ \A c \in Clients :
              NameOf[c] # <<>> => (IsSuffix(NameOf[c], g \o t) <=> IsSuffix(NameOf[c], t))
<1>1. /\ g \in Texts /\ g \o t \in Texts /\ IsPrefix(g, g \o t)
      /\ \A s \in Texts : IsSuffix(s, t) => IsSuffix(s, g \o t)
  BY NamesAreTexts, BehindText
<1>2. \/ \E d \in B : NameOf[d] # <<>> /\ IsSuffix(NameOf[d], t)
      \/ \E h \in Garbage \ {<<>>} : IsSuffix(h, t)
  <2>1. CASE Entry(t, A)
    BY <2>1, SelfEnds DEF Entry
  <2>2. CASE Glued(t, B)
    BY <2>2 DEF Glued
  <2> QED
    BY <2>1, <2>2
<1>3. CASE \E d \in B : NameOf[d] # <<>> /\ IsSuffix(NameOf[d], t)
  <2>1. PICK d \in B : NameOf[d] # <<>> /\ IsSuffix(NameOf[d], t)
    BY <1>3
  <2>2. d \in Clients /\ NameOf[d] \in Texts /\ IsSuffix(NameOf[d], g \o t)
    BY <1>1, <2>1, NamesAreTexts
  <2>3. Glued(g \o t, B)
    BY <1>1, <2>1, <2>2 DEF Glued
  <2>4. ASSUME NEW c \in Clients, NameOf[c] # <<>>
        PROVE  IsSuffix(NameOf[c], g \o t) <=> IsSuffix(NameOf[c], t)
    <3>1. NameOf[c] \in Texts
      BY NamesAreTexts
    <3>2. CASE c = d
      BY <2>1, <2>2, <3>2
    <3>3. CASE c # d
      <4>1. ASSUME IsSuffix(NameOf[c], g \o t) PROVE FALSE
        <5>1. IsSuffix(NameOf[c], NameOf[d]) \/ IsSuffix(NameOf[d], NameOf[c])
          BY <1>1, <2>2, <3>1, <4>1, EndsCompare
        <5> QED
          BY <2>1, <2>2, <2>4, <3>3, <5>1 DEF NamesApart
      <4> QED
        BY <1>1, <3>1, <4>1
    <3> QED
      BY <3>2, <3>3
  <2> QED
    BY <2>3, <2>4
<1>4. CASE \E h \in Garbage \ {<<>>} : IsSuffix(h, t)
  <2>1. PICK h \in Garbage \ {<<>>} : IsSuffix(h, t)
    BY <1>4
  <2>2. h \in Texts /\ IsSuffix(h, g \o t)
    BY <1>1, <2>1, NamesAreTexts
  <2>3. Glued(g \o t, B)
    BY <1>1, <2>1, <2>2 DEF Glued
  <2>4. ASSUME NEW c \in Clients, NameOf[c] # <<>>
        PROVE  IsSuffix(NameOf[c], g \o t) <=> IsSuffix(NameOf[c], t)
    <3>1. NameOf[c] \in Texts
      BY NamesAreTexts
    <3>2. ASSUME IsSuffix(NameOf[c], g \o t) PROVE FALSE
      <4>1. IsSuffix(NameOf[c], h) \/ IsSuffix(h, NameOf[c])
        BY <1>1, <2>2, <3>1, <3>2, EndsCompare
      <4> QED
        BY <2>1, <2>4, <4>1 DEF NamesApart
    <3> QED
      BY <1>1, <3>1, <3>2
  <2> QED
    BY <2>3, <2>4
<1> QED
  BY <1>2, <1>3, <1>4

\* The list as it is cut into tokens, with garbage in front or not.
LEMMA GoodTokens ==
  ASSUME NamesApart, NEW E \in SUBSET Clients, NEW A \in SUBSET Clients, NEW B \in SUBSET Clients,
         A \subseteq B, NEW l, Good(l, E, A, B), NEW g \in Garbage
  PROVE  Good(Tokens(g, l), E, A, B)
<1>0. l \in Seq(Texts) /\ Len(l) \in Nat /\ g \in Texts
  BY NamesAreTexts DEF Good
<1>1. CASE l = <<>> /\ g = <<>>
  BY <1>1 DEF Tokens
<1>2. CASE l = <<>> /\ g # <<>>
  <2> DEFINE k == <<g>>
  <2>1. k \in Seq(Texts) /\ Len(k) = 1 /\ k[1] = g
    BY <1>0
  <2>2. Glued(g, B)
    BY <1>0, <1>2, SelfEnds DEF Glued
  <2>3. E = {}
    BY <1>2 DEF Good, Once
  <2>4. \A i \in 1..Len(k) : i = 1
    BY <2>1
  <2> HIDE DEF k
  <2>5. Good(k, E, A, B)
    BY <2>1, <2>2, <2>3, <2>4 DEF Good
  <2> QED
    BY <1>2, <2>5 DEF Tokens, k
<1>3. CASE l # <<>>
  <2> DEFINE t == g \o Head(l)
             k == <<t>> \o Tail(l)
  <2>1. /\ Head(l) = l[1] /\ l[1] \in Texts /\ Len(l) >= 1
        /\ Tail(l) \in Seq(Texts) /\ Len(Tail(l)) = Len(l) - 1
        /\ \A i \in 1..(Len(l) - 1) : Tail(l)[i] = l[i + 1]
    BY <1>0, <1>3
  <2>2. t \in Texts
    BY <1>0, <2>1, BehindText
  <2>3. k \in Seq(Texts) /\ Len(k) = Len(l) /\ k[1] = t /\ \A i \in 2..Len(l) : k[i] = l[i]
    <3> HIDE DEF t
    <3>1. <<t>> \in Seq(Texts) /\ Len(<<t>>) = 1 /\ <<t>>[1] = t
      BY <2>2
    <3>2. k \in Seq(Texts) /\ Len(k) = Len(l)
      BY <1>0, <2>1, <3>1, ConcatProperties
    <3>3. \A i \in 1..Len(l) : k[i] = IF i <= 1 THEN <<t>>[i] ELSE Tail(l)[i - 1]
      BY <1>0, <2>1, <3>1, ConcatProperties
    <3>4. \A i \in 2..Len(l) : k[i] = l[i]
      <4> SUFFICES ASSUME NEW i \in 2..Len(l) PROVE k[i] = l[i]
        OBVIOUS
      <4>1. i \in 1..Len(l) /\ i - 1 \in 1..(Len(l) - 1) /\ (i - 1) + 1 = i /\ ~(i <= 1)
        BY <1>0
      <4>2. k[i] = Tail(l)[i - 1]
        BY <3>3, <4>1
      <4> HIDE DEF k
      <4> QED
        BY <2>1, <4>1, <4>2
    <3> QED
      BY <1>0, <2>1, <3>1, <3>2, <3>3, <3>4
  <2> HIDE DEF k
  <2>4. Tokens(g, l) = k
    BY <1>3 DEF Tokens, k
  <2>5. CASE g = <<>>
    <3>1. t = l[1]
      BY <2>1, <2>5, ConcatEmptySeq DEF Texts
    <3> HIDE DEF t
    <3>2. \A i \in 1..Len(l) : k[i] = l[i]
      <4>1. \A i \in 1..Len(l) : i = 1 \/ i \in 2..Len(l)
        BY <1>0
      <4> QED
        BY <2>3, <3>1, <4>1
    <3>3. k = l
      BY <1>0, <2>3, <3>2, SeqEqual
    <3> QED
      BY <2>4, <3>3
  <2>6. CASE g # <<>>
    <3>1. Entry(l[1], A) \/ Glued(l[1], B)
      BY <1>0, <2>1 DEF Good
    <3>2. /\ Glued(t, B)
          /\ \A c \in Clients :
               NameOf[c] # <<>> => (IsSuffix(NameOf[c], t) <=> IsSuffix(NameOf[c], l[1]))
      BY <2>1, <2>6, <3>1, GluedEnds
    <3> HIDE DEF t
    <3>3. \A i \in 1..Len(l) : i = 1 \/ i \in 2..Len(l)
      BY <1>0
    <3>4. \A i \in 1..Len(k) : Entry(k[i], A) \/ \A j \in 1..i : Glued(k[j], B)
      BY <2>3, <3>2, <3>3 DEF Good
    <3>5. ASSUME NEW c \in E PROVE NameOf[c] # <<>> /\ Once(k, c)
      <4>1. NameOf[c] # <<>>
        BY DEF Good
      <4>2. \A j \in 1..Len(l) : IsSuffix(NameOf[c], k[j]) <=> IsSuffix(NameOf[c], l[j])
        BY <2>3, <3>2, <3>3, <4>1
      <4>3. Once(l, c)
        BY DEF Good
      <4> QED
        BY <2>3, <4>1, <4>2, <4>3 DEF Once
    <3>6. Good(k, E, A, B)
      BY <2>3, <3>4, <3>5 DEF Good
    <3> QED
      BY <2>4, <3>6
  <2> QED
    BY <2>5, <2>6
<1> QED
  BY <1>1, <1>2, <1>3

\* Lines of garbage in front of the list.
LEMMA GoodPrepend ==
  ASSUME NamesApart, NEW E \in SUBSET Clients, NEW A \in SUBSET Clients, NEW B \in SUBSET Clients,
         NEW l, Good(l, E, A, B), NEW h \in GhostLines
  PROVE  Good(h \o l, E, A, B)
<1> DEFINE k == h \o l
           n == Len(h)
<1>1. /\ l \in Seq(Texts) /\ Len(l) \in Nat /\ h \in Seq(Garbage \ {<<>>}) /\ n \in Nat
      /\ h \in Seq(Texts)
  <2>1. h \in Seq(Garbage \ {<<>>})
    BY NamesAssumption
  <2>2. \A i \in 1..Len(h) : h[i] \in Texts
    BY <2>1, NamesAreTexts, ElementOfSeq
  <2> QED
    BY <2>1, <2>2 DEF Good
<1>2. /\ k \in Seq(Texts) /\ Len(k) = n + Len(l)
      /\ \A i \in 1..(n + Len(l)) : k[i] = IF i <= n THEN h[i] ELSE l[i - n]
  BY <1>1, ConcatProperties
<1> HIDE DEF k
<1>3. ASSUME NEW i \in 1..n
      PROVE  /\ k[i] = h[i] /\ Glued(k[i], B)
             /\ \A c \in E : ~IsSuffix(NameOf[c], k[i])
  <2>1. k[i] = h[i] /\ h[i] \in Garbage \ {<<>>} /\ h[i] \in Texts
    BY <1>1, <1>2, NamesAreTexts
  <2>2. IsPrefix(h[i], h[i]) /\ IsSuffix(h[i], h[i])
    BY <2>1, SelfEnds
  <2>3. Glued(k[i], B)
    BY <2>1, <2>2 DEF Glued
  <2>4. ASSUME NEW c \in E PROVE ~IsSuffix(NameOf[c], k[i])
    <3>1. c \in Clients /\ NameOf[c] # <<>>
      BY DEF Good
    <3> QED
      BY <2>1, <3>1 DEF NamesApart
  <2> QED
    BY <2>1, <2>3, <2>4
<1>4. ASSUME NEW i \in 1..Len(l) PROVE n + i \in 1..Len(k) /\ k[n + i] = l[i]
  <2>1. n + i \in 1..(n + Len(l)) /\ ~(n + i <= n) /\ (n + i) - n = i
    BY <1>1
  <2> HIDE DEF n
  <2> QED
    BY <1>2, <2>1
<1>5. \A i \in 1..Len(k) : i \in 1..n \/ (i - n \in 1..Len(l) /\ n + (i - n) = i)
  BY <1>1, <1>2
<1>6. ASSUME NEW i \in 1..Len(k) PROVE Entry(k[i], A) \/ \A j \in 1..i : Glued(k[j], B)
  <2>1. CASE i \in 1..n
    <3>1. \A j \in 1..i : j \in 1..n
      BY <1>1, <2>1
    <3> QED
      BY <1>3, <3>1
  <2>2. CASE i - n \in 1..Len(l) /\ n + (i - n) = i
    <3>1. k[i] = l[i - n]
      BY <1>4, <2>2
    <3>2. Entry(l[i - n], A) \/ \A j \in 1..(i - n) : Glued(l[j], B)
      BY <2>2 DEF Good
    <3>3. ASSUME \A j \in 1..(i - n) : Glued(l[j], B), NEW j \in 1..i PROVE Glued(k[j], B)
      <4>1. j \in 1..n \/ (j - n \in 1..(i - n) /\ j - n \in 1..Len(l) /\ n + (j - n) = j)
        BY <1>1, <2>2
      <4> QED
        BY <1>3, <1>4, <3>3, <4>1
    <3> QED
      BY <3>1, <3>2, <3>3
  <2> QED
    BY <1>5, <2>1, <2>2
<1>7. ASSUME NEW c \in E PROVE NameOf[c] # <<>> /\ Once(k, c)
  <2>1. NameOf[c] # <<>>
    BY DEF Good
  <2>2. PICK i \in 1..Len(l) : \A j \in 1..Len(l) : IsSuffix(NameOf[c], l[j]) <=> j = i
    BY DEF Good, Once
  <2>3. ASSUME NEW j \in 1..Len(k) PROVE IsSuffix(NameOf[c], k[j]) <=> j = n + i
    <3>1. CASE j \in 1..n
      <4>1. j # n + i
        BY <1>1, <3>1
      <4> QED
        BY <1>3, <3>1, <4>1
    <3>2. CASE j - n \in 1..Len(l) /\ n + (j - n) = j
      <4>1. k[j] = l[j - n] /\ (j - n = i <=> j = n + i)
        <5>1. k[j] = l[j - n]
          BY <1>4, <3>2
        <5>2. j - n = i <=> j = n + i
          BY <1>1, <3>2
        <5> QED
          BY <5>1, <5>2
      <4> QED
        BY <2>2, <3>2, <4>1
    <3> QED
      BY <1>5, <3>1, <3>2
  <2>4. n + i \in 1..Len(k)
    BY <1>4
  <2> QED
    BY <2>1, <2>3, <2>4 DEF Once
<1>8. Good(k, E, A, B)
  BY <1>1, <1>2, <1>6, <1>7 DEF Good
<1> QED
  BY <1>8 DEF k

\* A line moves from the rest to the copy.
LEMMA LineMoves ==
  ASSUME NEW s \in Seq(Texts), NEW t \in Seq(Texts), t # <<>>
  PROVE  /\ Append(s, Head(t)) \in Seq(Texts) /\ Tail(t) \in Seq(Texts)
         /\ Append(s, Head(t)) \o Tail(t) = s \o t
<1>1. /\ Len(s) \in Nat /\ Len(t) \in Nat /\ Len(t) >= 1 /\ Head(t) = t[1] /\ t[1] \in Texts
      /\ Tail(t) \in Seq(Texts) /\ Len(Tail(t)) = Len(t) - 1
      /\ \A i \in 1..(Len(t) - 1) : Tail(t)[i] = t[i + 1]
  OBVIOUS
<1> DEFINE a == Append(s, Head(t))
<1>2. /\ a \in Seq(Texts) /\ Len(a) = Len(s) + 1 /\ a[Len(s) + 1] = t[1]
      /\ \A i \in 1..Len(s) : a[i] = s[i]
  BY <1>1
<1> HIDE DEF a
<1>3. /\ a \o Tail(t) \in Seq(Texts) /\ Len(a \o Tail(t)) = Len(s) + Len(t)
      /\ \A i \in 1..(Len(s) + Len(t)) :
           (a \o Tail(t))[i] = IF i <= Len(s) + 1 THEN a[i] ELSE Tail(t)[i - (Len(s) + 1)]
  <2>1. Len(a) + Len(Tail(t)) = Len(s) + Len(t)
    BY <1>1, <1>2
  <2>2. /\ a \o Tail(t) \in Seq(Texts) /\ Len(a \o Tail(t)) = Len(a) + Len(Tail(t))
        /\ \A i \in 1..(Len(a) + Len(Tail(t))) :
             (a \o Tail(t))[i] = IF i <= Len(a) THEN a[i] ELSE Tail(t)[i - Len(a)]
    BY <1>1, <1>2, ConcatProperties
  <2> QED
    BY <1>2, <2>1, <2>2
<1>4. /\ s \o t \in Seq(Texts) /\ Len(s \o t) = Len(s) + Len(t)
      /\ \A i \in 1..(Len(s) + Len(t)) : (s \o t)[i] = IF i <= Len(s) THEN s[i] ELSE t[i - Len(s)]
  BY ConcatProperties
<1>5. ASSUME NEW i \in 1..(Len(s) + Len(t)) PROVE (a \o Tail(t))[i] = (s \o t)[i]
  <2>1. CASE i <= Len(s)
    <3>1. i \in 1..Len(s) /\ i <= Len(s) + 1
      BY <1>1, <2>1
    <3>2. (a \o Tail(t))[i] = a[i] /\ (s \o t)[i] = s[i]
      BY <1>3, <1>4, <2>1, <3>1
    <3> QED
      BY <1>2, <3>1, <3>2
  <2>2. CASE i = Len(s) + 1
    <3>1. ~(i <= Len(s)) /\ i <= Len(s) + 1 /\ i - Len(s) = 1
      BY <1>1, <2>2
    <3>2. (a \o Tail(t))[i] = a[i] /\ (s \o t)[i] = t[i - Len(s)]
      BY <1>3, <1>4, <3>1
    <3> QED
      BY <1>2, <2>2, <3>1, <3>2
  <2>3. CASE i > Len(s) + 1
    <3>1. i - (Len(s) + 1) \in 1..(Len(t) - 1) /\ (i - (Len(s) + 1)) + 1 = i - Len(s)
      BY <1>1, <2>3
    <3>2. Tail(t)[i - (Len(s) + 1)] = t[i - Len(s)]
      BY <1>1, <3>1
    <3>3. (a \o Tail(t))[i] = Tail(t)[i - (Len(s) + 1)] /\ (s \o t)[i] = t[i - Len(s)]
      BY <1>1, <1>3, <1>4, <2>3
    <3> QED
      BY <3>2, <3>3
  <2>4. i <= Len(s) \/ i = Len(s) + 1 \/ i > Len(s) + 1
    BY <1>1
  <2> QED
    BY <2>1, <2>2, <2>3, <2>4
<1>6. a \o Tail(t) = s \o t
  BY <1>3, <1>4, <1>5, SeqEqual
<1> QED
  BY <1>1, <1>2, <1>6 DEF a

\* A line is left out: the entry of one who is not on the list any more.
LEMMA GoodDrop ==
  ASSUME NamesApart, NEW E \in SUBSET Clients, NEW A \in SUBSET Clients, NEW B \in SUBSET Clients,
         NEW s \in Seq(Texts), NEW t \in Seq(Texts), t # <<>>, Good(s \o t, E, A, B),
         NEW c \in Clients \ E, Head(t) = NameOf[c]
  PROVE  Good(s \o Tail(t), E, A, B)
<1>1. /\ Len(s) \in Nat /\ Len(t) \in Nat /\ Len(t) >= 1 /\ Head(t) = t[1]
      /\ Tail(t) \in Seq(Texts) /\ Len(Tail(t)) = Len(t) - 1
      /\ \A i \in 1..(Len(t) - 1) : Tail(t)[i] = t[i + 1]
  OBVIOUS
<1> DEFINE k == s \o Tail(t)
           l == s \o t
           m == Len(s)
           n == Len(s) + Len(t)
<1>2. /\ k \in Seq(Texts) /\ Len(k) = n - 1
      /\ \A i \in 1..(n - 1) : k[i] = IF i <= m THEN s[i] ELSE Tail(t)[i - m]
  BY <1>1, ConcatProperties
<1>3. /\ l \in Seq(Texts) /\ Len(l) = n
      /\ \A i \in 1..n : l[i] = IF i <= m THEN s[i] ELSE t[i - m]
  BY ConcatProperties
<1> HIDE DEF k, l
<1>4. /\ \A i \in 1..m : k[i] = l[i]
      /\ \A i \in (m + 1)..(n - 1) : k[i] = l[i + 1]
      /\ l[m + 1] = NameOf[c]
  <2>1. ASSUME NEW i \in 1..m PROVE k[i] = l[i]
    <3>1. i \in 1..(n - 1) /\ i \in 1..n /\ i <= m
      BY <1>1
    <3> QED
      BY <1>2, <1>3, <3>1
  <2>2. ASSUME NEW i \in (m + 1)..(n - 1) PROVE k[i] = l[i + 1]
    <3>1. i - m \in 1..(Len(t) - 1) /\ (i - m) + 1 = (i + 1) - m
      BY <1>1
    <3>2. k[i] = Tail(t)[i - m] /\ l[i + 1] = t[(i + 1) - m]
      BY <1>1, <1>2, <1>3
    <3> QED
      BY <1>1, <3>1, <3>2
  <2>3. l[m + 1] = t[1]
    BY <1>1, <1>3
  <2> QED
    BY <1>1, <2>1, <2>2, <2>3
<1>5. \A i \in 1..(n - 1) : i \in 1..m \/ i \in (m + 1)..(n - 1)
  BY <1>1
<1>6. \A i \in 1..n : Entry(l[i], A) \/ \A j \in 1..i : Glued(l[j], B)
  BY <1>3 DEF Good, l
<1>7. \A i \in 1..(n - 1) : Entry(k[i], A) \/ \A j \in 1..i : Glued(k[j], B)
  <2> SUFFICES ASSUME NEW i \in 1..(n - 1) PROVE Entry(k[i], A) \/ \A j \in 1..i : Glued(k[j], B)
    OBVIOUS
  <2>1. CASE i \in 1..m
    <3>1. i \in 1..n /\ \A j \in 1..i : j \in 1..m
      BY <1>1, <2>1
    <3>2. k[i] = l[i] /\ \A j \in 1..i : k[j] = l[j]
      BY <1>4, <2>1, <3>1
    <3>3. Entry(l[i], A) \/ \A j \in 1..i : Glued(l[j], B)
      BY <1>6, <3>1
    <3> QED
      BY <3>2, <3>3
  <2>2. CASE i \in (m + 1)..(n - 1)
    <3>1. i + 1 \in 1..n
      BY <1>1, <2>2
    <3>2. Entry(l[i + 1], A) \/ \A j \in 1..(i + 1) : Glued(l[j], B)
      BY <1>6, <3>1
    <3>3. CASE Entry(l[i + 1], A)
      BY <1>4, <2>2, <3>3
    <3>4. ASSUME \A j \in 1..(i + 1) : Glued(l[j], B), NEW j \in 1..i PROVE Glued(k[j], B)
      <4>1. j \in 1..(i + 1) /\ j + 1 \in 1..(i + 1) /\ j \in 1..(n - 1)
        BY <1>1, <2>2
      <4>2. k[j] = l[j] \/ k[j] = l[j + 1]
        BY <1>4, <1>5, <4>1
      <4>3. Glued(l[j], B) /\ Glued(l[j + 1], B)
        BY <3>4, <4>1
      <4> QED
        BY <4>2, <4>3
    <3> QED
      BY <3>2, <3>3, <3>4
  <2> QED
    BY <1>5, <2>1, <2>2
<1>8. ASSUME NEW d \in E PROVE NameOf[d] # <<>> /\ Once(k, d)
  <2>1. NameOf[d] # <<>> /\ d # c
    BY DEF Good
  <2>2. ~IsSuffix(NameOf[d], l[m + 1])
    BY <1>4, <2>1 DEF NamesApart
  <2>3. PICK i \in 1..n : \A j \in 1..n : IsSuffix(NameOf[d], l[j]) <=> j = i
    <3>1. Once(l, d)
      BY DEF Good, l
    <3> QED
      BY <1>3, <3>1 DEF Once
  <2>4. i # m + 1
    BY <1>1, <2>2, <2>3
  <2> DEFINE q == IF i <= m THEN i ELSE i - 1
  <2>5. q \in 1..(n - 1)
    BY <1>1, <2>3, <2>4
  <2>6. ASSUME NEW j \in 1..(n - 1) PROVE IsSuffix(NameOf[d], k[j]) <=> j = q
    <3>1. CASE j \in 1..m
      <4>1. j \in 1..n /\ (j = i <=> j = q)
        BY <1>1, <2>3, <2>4, <3>1
      <4> HIDE DEF q
      <4> QED
        BY <1>4, <2>3, <3>1, <4>1
    <3>2. CASE j \in (m + 1)..(n - 1)
      <4>1. j + 1 \in 1..n /\ (j + 1 = i <=> j = q)
        BY <1>1, <2>3, <2>4, <3>2
      <4> HIDE DEF q
      <4> QED
        BY <1>4, <2>3, <3>2, <4>1
    <3> QED
      BY <1>5, <3>1, <3>2
  <2> HIDE DEF q
  <2> QED
    BY <1>2, <2>1, <2>5, <2>6 DEF Once
<1>9. Good(k, E, A, B)
  BY <1>2, <1>7, <1>8 DEF Good
<1> QED
  BY <1>9 DEF k

\* The section of the first server's semaphore holds one client.
LEMMA OneInSection ==
  ASSUME NamesInv, gen = 1, NEW c \in Clients, NEW d \in Clients,
         pc[c] \in InSection \cup {"dead_in_section"}, pc[d] \in InSection \cup {"dead_in_section"}
  PROVE  c = d
<1>1. semOf[c] = semOf[d]
  BY DEF NamesInv, Opened, InSection
<1> QED
  BY <1>1, OneOfEach

\* A step after which nobody is missing and the list and the copies are as they
\* were.
LEMMA ListFrame ==
  ASSUME ListGood, UNCHANGED <<list, rest, copy>>,
         \A d \in Clients :
           /\ pc'[d] \in {"add", "load", "copy", "clear", "write"} => obj'[d] = 1
           /\ pc'[d] = "add" => NameOf[d] # <<>>
           /\ pc[d] \in Rewriting \/ pc'[d] \in Rewriting => pc'[d] = pc[d],
         Entered' \subseteq Entered, Allowed \subseteq Allowed', BeenIn \subseteq BeenIn'
  PROVE  ListGood'
<1>1. ASSUME NEW l, Good(l, Entered, Allowed, BeenIn) PROVE Good(l, Entered', Allowed', BeenIn')
  BY <1>1, GoodFor
<1>2. (\A c \in Clients : pc'[c] \notin Rewriting) => Good(list'[1], Entered', Allowed', BeenIn')
  BY <1>1 DEF ListGood
<1>3. ASSUME NEW c \in Clients, pc'[c] \in Rewriting
      PROVE  /\ copy'[c] \in Seq(Texts) /\ rest'[c] \in Seq(Texts)
             /\ Good(copy'[c] \o rest'[c], Entered', Allowed', BeenIn')
             /\ \A i \in 1..Len(copy'[c]) : copy'[c][i] # NameOf[c]
             /\ pc'[c] # "copy" => rest'[c] = <<>>
             /\ pc'[c] = "write" => list'[1] = <<>>
  <2>1. pc[c] = pc'[c]
    BY <1>3
  <2> QED
    BY <1>1, <1>3, <2>1 DEF ListGood
<1>4. list'[1] \in Seq(Texts)
  BY DEF ListGood
<1> QED
  BY <1>2, <1>3, <1>4 DEF ListGood, Texts, Rewriting

\* The steps that leave the list alone: those of the server, and of a client
\* that waits, opens the list, posts, or dies outside the section.
LEMMA AwayKeepsList ==
  ASSUME ListInv, ListGood, gen = 1, gen' = 1, NEW c \in Clients,
         \A d \in Clients : pc'[d] # "dead_in_section",
         \/ ServerStops \/ Start(c) \/ Leave(c) \/ Killed(c)
         \/ SemWait(c, "enter", "open_to_add") \/ SemWait(c, "leave", "open_to_delete")
         \/ OpenList(c, "open_to_add", "add") \/ OpenList(c, "open_to_delete", "load")
         \/ SemPost(c, "added", "in") \/ SemPost(c, "removed", "gone")
  PROVE  ListGood'
<1>0. pc \in [Clients -> InSection \cup {"out", "enter", "in", "leave", "gone", "dead",
                                        "dead_in_section"}] /\ DOMAIN obj = Clients
  BY DEF ListInv, NamesInv, Opened
<1>1. CASE ServerStops
  <2>1. UNCHANGED <<list, rest, copy, obj, pc>>
    BY <1>1 DEF ServerStops
  <2>2. UNCHANGED <<Entered, Allowed, BeenIn>>
    BY <2>1 DEF Entered, Allowed, BeenIn
  <2>3. \A d \in Clients :
           /\ pc[d] \in {"add", "load", "copy", "clear", "write"} => obj[d] = 1
           /\ pc[d] = "add" => NameOf[d] # <<>>
    BY DEF ListGood
  <2> QED
    BY <2>1, <2>2, <2>3, ListFrame
<1>2. CASE ~ServerStops
  <2>1. UNCHANGED <<list, rest, copy>>
    BY <1>2 DEF Start, Leave, Killed, SemWait, OpenList, SemPost
  <2>2. PICK l : pc' = [pc EXCEPT ![c] = l]
    BY <1>2 DEF Start, Leave, Killed, SemWait, OpenList, SemPost, Goto
  <2>3. pc'[c] = l /\ \A d \in Clients \ {c} : pc'[d] = pc[d]
    BY <1>0, <2>2
  <2>4. \/ pc[c] = "out" /\ l \in {"enter", "dead"}
        \/ pc[c] = "in" /\ l = "leave"
        \/ pc[c] \notin InSection /\ l = "dead"
        \/ pc[c] = "enter" /\ l = "open_to_add"
        \/ pc[c] = "leave" /\ l = "open_to_delete"
        \/ pc[c] = "open_to_add" /\ l = "add"
        \/ pc[c] = "open_to_delete" /\ l = "load"
        \/ pc[c] = "added" /\ l = "in"
        \/ pc[c] = "removed" /\ l = "gone"
    <3>1. l # "dead_in_section"
      BY <2>3
    <3> QED
      BY <1>0, <1>2, <2>3, <3>1 DEF Start, Leave, Killed, SemWait, OpenList, SemPost, Goto
  <2>5. Entered' \subseteq Entered
    BY <2>3, <2>4 DEF Entered
  <2>6. Allowed \subseteq Allowed' /\ BeenIn \subseteq BeenIn'
    <3>1. c \in Allowed => c \in Allowed'
      BY <2>3, <2>4 DEF Allowed, InSection
    <3>2. c \in BeenIn => c \in BeenIn'
      BY <2>3, <2>4 DEF BeenIn, InSection
    <3> QED
      BY <2>3, <3>1, <3>2 DEF Allowed, BeenIn
  <2>7. ASSUME NEW d \in Clients
        PROVE  /\ pc'[d] \in {"add", "load", "copy", "clear", "write"} => obj'[d] = 1
               /\ pc'[d] = "add" => NameOf[d] # <<>>
               /\ pc[d] \in Rewriting \/ pc'[d] \in Rewriting => pc'[d] = pc[d]
    <3>1. CASE d # c
      <4>1. pc'[d] = pc[d] /\ obj'[d] = obj[d]
        BY <1>0, <1>2, <2>3, <3>1 DEF Start, Leave, Killed, SemWait, OpenList, SemPost
      <4> QED
        BY <4>1 DEF ListGood
    <3>2. CASE d = c
      <4>1. pc[c] \notin Rewriting /\ l \notin Rewriting
        BY <2>4 DEF Rewriting, InSection
      <4>2. ASSUME l = "add" \/ l = "load" PROVE obj'[c] = 1 /\ (l = "add" => NameOf[c] # <<>>)
        <5>1. \/ OpenList(c, "open_to_add", "add") /\ pc'[c] = "add"
              \/ OpenList(c, "open_to_delete", "load") /\ pc'[c] = "load"
          BY <1>0, <1>2, <2>3, <4>2 DEF Start, Leave, Killed, SemWait, OpenList, SemPost, Goto
        <5> QED
          BY <1>0, <2>3, <5>1 DEF OpenList, Goto
      <4> QED
        BY <2>3, <3>2, <4>1, <4>2 DEF Rewriting
    <3> QED
      BY <3>1, <3>2
  <2> QED
    BY <2>1, <2>5, <2>6, <2>7, ListFrame
<1> QED
  BY <1>1, <1>2

\* What holds at a step of the client that is inside the section: it is alone
\* there.
LEMMA AloneInside ==
  ASSUME ListInv, gen = 1, NEW c \in Clients, pc[c] \in InSection, NEW l,
         pc' = [pc EXCEPT ![c] = l]
  PROVE  /\ pc'[c] = l /\ \A d \in Clients \ {c} : pc'[d] = pc[d]
         /\ \A d \in Clients \ {c} : pc[d] \notin InSection /\ pc'[d] \notin InSection
         /\ Rewriting \subseteq InSection /\ 1 \in DOMAIN list
<1>1. pc'[c] = l /\ \A d \in Clients \ {c} : pc'[d] = pc[d]
  BY DEF ListInv, NamesInv, Opened
<1>2. \A d \in Clients \ {c} : pc[d] \notin InSection
  BY OneInSection DEF ListInv
<1>3. 1 \in DOMAIN list
  BY StartsAndClients DEF ListInv, NamesInv, Opened, Gens
<1> QED
  BY <1>1, <1>2, <1>3 DEF Rewriting, InSection

\* A client adds its name.
LEMMA AddKeepsList ==
  ASSUME NamesApart, ListInv, ListGood, gen = 1, NEW c \in Clients, AddName(c),
         pc'[c] # "dead_in_section"
  PROVE  ListGood'
<1>1. /\ pc[c] = "add" /\ pc' = [pc EXCEPT ![c] = "added"] /\ UNCHANGED <<obj, rest, copy>>
      /\ list' = [list EXCEPT ![obj[c]] = Append(@, NameOf[c])]
  <2>1. c \in DOMAIN pc
    BY DEF ListInv, NamesInv, Opened
  <2>2. /\ pc[c] = "add" /\ UNCHANGED <<obj, rest, copy>>
        /\ list' = [list EXCEPT ![obj[c]] = Append(@, NameOf[c])]
        /\ GotoIfFits(c, "added", list'[obj[c]], ListSize)
    BY DEF AddName
  <2>3. pc' = [pc EXCEPT ![c] = "added"] \/ pc' = [pc EXCEPT ![c] = "dead_in_section"]
    BY <2>2 DEF GotoIfFits, Goto
  <2> QED
    BY <2>1, <2>2, <2>3
<1>2. pc[c] \in InSection
  BY <1>1 DEF InSection
<1>3. /\ pc'[c] = "added" /\ \A d \in Clients \ {c} : pc'[d] = pc[d]
      /\ \A d \in Clients \ {c} : pc[d] \notin InSection /\ pc'[d] \notin InSection
      /\ Rewriting \subseteq InSection /\ 1 \in DOMAIN list
  BY <1>1, <1>2, AloneInside
<1>4. obj[c] = 1 /\ NameOf[c] # <<>>
  BY <1>1 DEF ListGood
<1>5. list'[1] = Append(list[1], NameOf[c])
  BY <1>1, <1>3, <1>4
<1>6. \A d \in Clients : pc[d] \notin Rewriting /\ pc'[d] \notin Rewriting
  BY <1>1, <1>3 DEF Rewriting
<1>7. Good(list[1], Entered, Allowed, BeenIn)
  BY <1>6 DEF ListGood
<1>8. Entered' = Entered \cup {c} /\ Allowed' = Allowed \cup {c} /\ BeenIn' = BeenIn \cup {c}
  BY <1>1, <1>3 DEF Entered, Allowed, BeenIn
<1>9. /\ c \notin Entered /\ c \notin Allowed /\ c \notin BeenIn
      /\ Entered \in SUBSET Clients /\ Allowed \in SUBSET Clients /\ BeenIn \in SUBSET Clients
  BY <1>1 DEF Entered, Allowed, BeenIn
<1>10. Good(list'[1], Entered', Allowed', BeenIn')
  <2>1. Good(Append(list[1], NameOf[c]), Entered \cup {c}, Allowed \cup {c}, BeenIn \cup {c})
    BY <1>4, <1>7, <1>9, GoodAppend
  <2> QED
    BY <1>5, <1>8, <2>1
<1>11. list'[1] \in Seq(Texts)
  BY <1>10 DEF Good
<1>12. \A d \in Clients :
         pc'[d] \in {"add", "load", "copy", "clear", "write"} => pc[d] = pc'[d] /\ obj'[d] = obj[d]
  BY <1>1, <1>3
<1> QED
  BY <1>6, <1>10, <1>11, <1>12 DEF ListGood, Texts

\* A client that leaves reads the list.
LEMMA LoadKeepsList ==
  ASSUME NamesApart, ListInv, ListGood, gen = 1, NEW c \in Clients, LoadList(c),
         pc'[c] # "dead_in_section"
  PROVE  ListGood'
<1>1. /\ pc[c] = "load" /\ pc' = [pc EXCEPT ![c] = "copy"] /\ UNCHANGED <<obj, list>>
      /\ copy' = [copy EXCEPT ![c] = <<>>]
  <2>1. c \in DOMAIN pc
    BY DEF ListInv, NamesInv, Opened
  <2>2. /\ pc[c] = "load" /\ UNCHANGED <<obj, list>>
        /\ copy' = [copy EXCEPT ![c] = <<>>]
        /\ GotoIfFits(c, "copy", rest'[c], BufSize)
    BY DEF LoadList
  <2>3. pc' = [pc EXCEPT ![c] = "copy"] \/ pc' = [pc EXCEPT ![c] = "dead_in_section"]
    BY <2>2 DEF GotoIfFits, Goto
  <2> QED
    BY <2>1, <2>2, <2>3
<1>2. PICK h \in GhostLines, g \in Garbage :
        rest' = [rest EXCEPT ![c] = h \o Tokens(g, list[obj[c]])]
  BY DEF LoadList
<1>3. pc[c] \in InSection
  BY <1>1 DEF InSection
<1>4. /\ pc'[c] = "copy" /\ \A d \in Clients \ {c} : pc'[d] = pc[d]
      /\ \A d \in Clients \ {c} : pc[d] \notin InSection /\ pc'[d] \notin InSection
      /\ Rewriting \subseteq InSection /\ 1 \in DOMAIN list
  BY <1>1, <1>3, AloneInside
<1>5. obj[c] = 1
  BY <1>1 DEF ListGood
<1>6. rest'[c] = h \o Tokens(g, list[1]) /\ copy'[c] = <<>>
  BY <1>1, <1>2, <1>5 DEF ListInv
<1>7. \A d \in Clients : pc[d] \notin Rewriting
  BY <1>1, <1>4 DEF Rewriting
<1>8. Good(list[1], Entered, Allowed, BeenIn)
  BY <1>7 DEF ListGood
<1>9. Entered' \subseteq Entered /\ Allowed' = Allowed /\ BeenIn' = BeenIn
  BY <1>1, <1>4 DEF Entered, Allowed, BeenIn
<1>10. /\ Entered \in SUBSET Clients /\ Allowed \in SUBSET Clients /\ BeenIn \in SUBSET Clients
       /\ Allowed \subseteq BeenIn
  BY DEF Entered, Allowed, BeenIn
<1>11. Good(rest'[c], Entered, Allowed, BeenIn)
  <2>1. Good(Tokens(g, list[1]), Entered, Allowed, BeenIn)
    BY <1>8, <1>10, GoodTokens
  <2> QED
    BY <1>6, <1>10, <2>1, GoodPrepend
<1>12. Good(rest'[c], Entered', Allowed', BeenIn')
  BY <1>9, <1>11, GoodFor
<1>13. rest'[c] \in Seq(Texts) /\ copy'[c] \in Seq(Texts) /\ copy'[c] \o rest'[c] = rest'[c]
  <2>1. rest'[c] \in Seq(Texts)
    BY <1>12 DEF Good
  <2>2. <<>> \o rest'[c] = rest'[c]
    BY <2>1, ConcatEmptySeq
  <2> QED
    BY <1>6, <2>1, <2>2
<1>14. ASSUME NEW d \in Clients, pc'[d] \in Rewriting
       PROVE  /\ copy'[d] \in Seq(Texts) /\ rest'[d] \in Seq(Texts)
              /\ Good(copy'[d] \o rest'[d], Entered', Allowed', BeenIn')
              /\ \A i \in 1..Len(copy'[d]) : copy'[d][i] # NameOf[d]
              /\ pc'[d] # "copy" => rest'[d] = <<>>
              /\ pc'[d] = "write" => list'[1] = <<>>
  <2>1. d = c
    BY <1>4, <1>14
  <2>2. 1..Len(copy'[c]) = {}
    BY <1>6
  <2> QED
    BY <1>4, <1>12, <1>13, <2>1, <2>2
<1>15. \A d \in Clients :
         /\ pc'[d] \in {"add", "load", "copy", "clear", "write"} => obj'[d] = 1
         /\ pc'[d] = "add" => NameOf[d] # <<>>
  BY <1>1, <1>4, <1>5 DEF ListGood
<1>16. ~(\A d \in Clients : pc'[d] \notin Rewriting) /\ list'[1] \in Seq(Texts)
  BY <1>1, <1>4 DEF Rewriting, ListGood
<1> QED
  BY <1>14, <1>15, <1>16 DEF ListGood, Texts, Rewriting

\* The steps of the client that rewrites the list, from what they do to it.
LEMMA RewriteFrame ==
  ASSUME ListInv, ListGood, gen = 1, NEW c \in Clients, pc[c] \in Rewriting, NEW l \in Rewriting,
         pc' = [pc EXCEPT ![c] = l], UNCHANGED obj, list'[1] \in Seq(Texts),
         copy'[c] \in Seq(Texts), rest'[c] \in Seq(Texts),
         Good(copy'[c] \o rest'[c], Entered, Allowed, BeenIn),
         \A i \in 1..Len(copy'[c]) : copy'[c][i] # NameOf[c],
         l # "copy" => rest'[c] = <<>>, l = "write" => list'[1] = <<>>
  PROVE  ListGood'
<1>1. pc[c] \in InSection
  BY DEF InSection, Rewriting
<1>2. /\ pc'[c] = l /\ \A d \in Clients \ {c} : pc'[d] = pc[d]
      /\ \A d \in Clients \ {c} : pc[d] \notin InSection /\ pc'[d] \notin InSection
      /\ Rewriting \subseteq InSection /\ 1 \in DOMAIN list
  BY <1>1, AloneInside
<1>3. Entered' = Entered /\ Allowed' = Allowed /\ BeenIn' = BeenIn
  <2>1. \A d \in Clients : pc'[d] = pc[d] \/ (pc[d] \in Rewriting /\ pc'[d] \in Rewriting)
    BY <1>2
  <2> QED
    BY <2>1 DEF Entered, Allowed, BeenIn, Rewriting
<1>4. ASSUME NEW d \in Clients, pc'[d] \in Rewriting
      PROVE  /\ copy'[d] \in Seq(Texts) /\ rest'[d] \in Seq(Texts)
             /\ Good(copy'[d] \o rest'[d], Entered', Allowed', BeenIn')
             /\ \A i \in 1..Len(copy'[d]) : copy'[d][i] # NameOf[d]
             /\ pc'[d] # "copy" => rest'[d] = <<>>
             /\ pc'[d] = "write" => list'[1] = <<>>
  <2>1. d = c
    BY <1>2, <1>4
  <2> QED
    BY <1>2, <1>3, <2>1
<1>5. \A d \in Clients :
        /\ pc'[d] \in {"add", "load", "copy", "clear", "write"} => obj'[d] = 1
        /\ pc'[d] = "add" => NameOf[d] # <<>>
  BY <1>2 DEF ListGood, Rewriting
<1>6. ~(\A d \in Clients : pc'[d] \notin Rewriting)
  BY <1>2
<1> QED
  BY <1>4, <1>5, <1>6 DEF ListGood, Texts, Rewriting

\* One turn of the strtok() loop.
LEMMA CopyKeepsList ==
  ASSUME NamesApart, ListInv, ListGood, gen = 1, NEW c \in Clients, CopyOthers(c)
  PROVE  ListGood'
<1>1. pc[c] = "copy" /\ pc[c] \in Rewriting /\ UNCHANGED <<obj, list>>
  BY DEF CopyOthers, Rewriting
<1>2. /\ copy[c] \in Seq(Texts) /\ rest[c] \in Seq(Texts)
      /\ Good(copy[c] \o rest[c], Entered, Allowed, BeenIn)
      /\ \A i \in 1..Len(copy[c]) : copy[c][i] # NameOf[c]
      /\ list[1] \in Seq(Texts) /\ list'[1] \in Seq(Texts)
  BY <1>1 DEF ListGood
<1>3. /\ pc \in [Clients -> InSection \cup {"out", "enter", "in", "leave", "gone", "dead",
                                           "dead_in_section"}]
      /\ DOMAIN copy = Clients /\ DOMAIN rest = Clients
  BY DEF ListInv, NamesInv, Opened
<1>4. CASE rest[c] = <<>>
  <2>1. pc' = [pc EXCEPT ![c] = "clear"] /\ copy' = copy /\ rest' = rest
    BY <1>4 DEF CopyOthers, Goto
  <2>2. "clear" \in Rewriting
    BY DEF Rewriting
  <2> QED
    BY <1>1, <1>2, <1>4, <2>1, <2>2, RewriteFrame
<1>5. CASE rest[c] # <<>> /\ Head(rest[c]) # NameOf[c]
  <2>1. /\ pc' = [pc EXCEPT ![c] = "copy"] /\ "copy" \in Rewriting
        /\ copy'[c] = Append(copy[c], Head(rest[c])) /\ rest'[c] = Tail(rest[c])
    BY <1>1, <1>3, <1>5 DEF CopyOthers, Rewriting
  <2>2. /\ copy'[c] \in Seq(Texts) /\ rest'[c] \in Seq(Texts)
        /\ copy'[c] \o rest'[c] = copy[c] \o rest[c]
    BY <1>2, <1>5, <2>1, LineMoves
  <2>3. \A i \in 1..Len(copy'[c]) : copy'[c][i] # NameOf[c]
    <3>1. /\ Len(copy[c]) \in Nat /\ Len(copy'[c]) = Len(copy[c]) + 1
          /\ copy'[c][Len(copy[c]) + 1] = Head(rest[c])
          /\ \A i \in 1..Len(copy[c]) : copy'[c][i] = copy[c][i]
      BY <1>2, <2>1
    <3>2. \A i \in 1..Len(copy'[c]) : i \in 1..Len(copy[c]) \/ i = Len(copy[c]) + 1
      BY <3>1
    <3> QED
      BY <1>2, <1>5, <3>1, <3>2
  <2> QED
    BY <1>1, <1>2, <2>1, <2>2, <2>3, RewriteFrame
<1>6. CASE rest[c] # <<>> /\ Head(rest[c]) = NameOf[c]
  <2>1. /\ pc' = [pc EXCEPT ![c] = "copy"] /\ "copy" \in Rewriting
        /\ copy' = copy /\ rest'[c] = Tail(rest[c])
    BY <1>1, <1>3, <1>6 DEF CopyOthers, Rewriting
  <2>2. /\ c \in Clients \ Entered
        /\ Entered \in SUBSET Clients /\ Allowed \in SUBSET Clients /\ BeenIn \in SUBSET Clients
    BY <1>1 DEF Entered, Allowed, BeenIn
  <2>3. Good(copy[c] \o Tail(rest[c]), Entered, Allowed, BeenIn)
    BY <1>2, <1>6, <2>2, GoodDrop
  <2>4. Tail(rest[c]) \in Seq(Texts)
    BY <1>2, <1>6
  <2> QED
    BY <1>1, <1>2, <2>1, <2>3, <2>4, RewriteFrame
<1> QED
  BY <1>4, <1>5, <1>6

\* The list is emptied.
LEMMA ClearKeepsList ==
  ASSUME ListInv, ListGood, gen = 1, NEW c \in Clients, ClearList(c)
  PROVE  ListGood'
<1>1. /\ pc[c] = "clear" /\ pc[c] \in Rewriting /\ UNCHANGED <<obj, rest, copy>>
      /\ pc' = [pc EXCEPT ![c] = "write"] /\ "write" \in Rewriting
      /\ list' = [list EXCEPT ![obj[c]] = <<>>]
  BY DEF ClearList, Goto, Rewriting
<1>2. obj[c] = 1 /\ 1 \in DOMAIN list
  BY <1>1, StartsAndClients DEF ListGood, ListInv, NamesInv, Opened, Gens
<1>3. list'[1] = <<>> /\ list'[1] \in Seq(Texts)
  BY <1>1, <1>2
<1>4. /\ copy[c] \in Seq(Texts) /\ rest[c] = <<>> /\ rest[c] \in Seq(Texts)
      /\ Good(copy[c] \o rest[c], Entered, Allowed, BeenIn)
      /\ \A i \in 1..Len(copy[c]) : copy[c][i] # NameOf[c]
  BY <1>1 DEF ListGood
<1> QED
  BY <1>1, <1>3, <1>4, RewriteFrame

\* The copy becomes the list, without the one who leaves.
LEMMA WriteKeepsList ==
  ASSUME ListInv, ListGood, gen = 1, NEW c \in Clients, WriteList(c),
         pc'[c] # "dead_in_section"
  PROVE  ListGood'
<1>1. /\ pc[c] = "write" /\ pc[c] \in Rewriting /\ UNCHANGED <<obj, rest>>
      /\ pc' = [pc EXCEPT ![c] = "removed"]
      /\ list' = [list EXCEPT ![obj[c]] = @ \o copy[c]]
  <2>1. c \in DOMAIN pc
    BY DEF ListInv, NamesInv, Opened
  <2>2. /\ pc[c] = "write" /\ UNCHANGED <<obj, rest>>
        /\ list' = [list EXCEPT ![obj[c]] = @ \o copy[c]]
        /\ GotoIfFits(c, "removed", list'[obj[c]], ListSize)
    BY DEF WriteList
  <2>3. pc' = [pc EXCEPT ![c] = "removed"] \/ pc' = [pc EXCEPT ![c] = "dead_in_section"]
    BY <2>2 DEF GotoIfFits, Goto
  <2> QED
    BY <2>1, <2>2, <2>3 DEF Rewriting
<1>2. /\ copy[c] \in Seq(Texts) /\ rest[c] = <<>> /\ list[1] = <<>> /\ obj[c] = 1
      /\ Good(copy[c] \o rest[c], Entered, Allowed, BeenIn)
      /\ \A i \in 1..Len(copy[c]) : copy[c][i] # NameOf[c]
  BY <1>1 DEF ListGood
<1>3. pc[c] \in InSection
  BY <1>1 DEF InSection
<1>4. /\ pc'[c] = "removed" /\ \A d \in Clients \ {c} : pc'[d] = pc[d]
      /\ \A d \in Clients \ {c} : pc[d] \notin InSection /\ pc'[d] \notin InSection
      /\ Rewriting \subseteq InSection /\ 1 \in DOMAIN list
  BY <1>1, <1>3, AloneInside
<1>5. list'[1] = copy[c] /\ copy[c] \o rest[c] = copy[c]
  <2>1. list'[1] = <<>> \o copy[c]
    BY <1>1, <1>2, <1>4
  <2> QED
    BY <1>2, <2>1, ConcatEmptySeq
<1>6. Entered' = Entered /\ Allowed' = Allowed \ {c} /\ BeenIn' = BeenIn
  BY <1>1, <1>4 DEF Entered, Allowed, BeenIn
<1>7. Good(copy[c], Entered, Allowed, BeenIn)
  BY <1>2, <1>5
<1>8. Good(list'[1], Entered', Allowed', BeenIn')
  <2>1. Good(copy[c], Entered, Allowed \ {c}, BeenIn)
    BY <1>2, <1>7, GoodFor
  <2> QED
    BY <1>5, <1>6, <2>1
<1>9. \A d \in Clients : pc'[d] \notin Rewriting
  BY <1>4 DEF Rewriting
<1>10. \A d \in Clients :
         /\ pc'[d] \in {"add", "load", "copy", "clear", "write"} => obj'[d] = 1
         /\ pc'[d] = "add" => NameOf[d] # <<>>
  BY <1>1, <1>4 DEF ListGood
<1>11. list'[1] \in Seq(Texts)
  BY <1>2, <1>5
<1> QED
  BY <1>8, <1>9, <1>10, <1>11 DEF ListGood, Texts

\* The first server starts with an empty list and nobody in.
LEMMA StartKeepsList ==
  ASSUME ListInv, ServerStarts, gen' = 1
  PROVE  ListGood'
<1>1. gen = 0 /\ UNCHANGED <<list, pc, obj, rest, copy>>
  BY StartsAndClients DEF ServerStarts, ListInv, NamesInv, Opened
<1>2. 1 \in Gens
  BY StartsAndClients, <1>1 DEF ServerStarts, Gens
<1>3. list'[1] = <<>> /\ \A c \in Clients : pc'[c] \in {"out", "dead"}
  BY <1>1, <1>2 DEF ListInv
<1>4. Entered' = {}
  BY <1>3 DEF Entered
<1>5. Good(<<>>, {}, Allowed', BeenIn')
  BY DEF Good
<1> QED
  BY <1>3, <1>4, <1>5 DEF ListGood, Rewriting, Texts

\* Every step keeps the list right.
LEMMA ListStepInv ==
  ASSUME NamesApart, ListInv, [Next]_vars
  PROVE  ListInv'
<1>1. NamesInv'
  BY NamesStepInv DEF ListInv
<1>2. pc \in [Clients -> InSection \cup {"out", "enter", "in", "leave", "gone", "dead",
                                        "dead_in_section"}] /\ gen \in Nat
  BY StartsAndClients DEF ListInv, NamesInv, Opened
<1>3. /\ DOMAIN list' = Gens
      /\ DOMAIN rest' = Clients /\ DOMAIN copy' = Clients /\ DOMAIN obj' = Clients
  <2>1. /\ DOMAIN list = Gens
        /\ DOMAIN rest = Clients /\ DOMAIN copy = Clients /\ DOMAIN obj = Clients
    BY DEF ListInv
  <2> QED
    BY <2>1 DEF Next, vars, send_name, delete_name, ServerStarts, ServerStops, Start, Leave, Killed,
              SemWait, OpenList, SemPost, AddName, LoadList, CopyOthers, ClearList, WriteList
<1>4. gen' = gen \/ (ServerStarts /\ gen' = gen + 1)
  BY DEF Next, vars, send_name, delete_name, ServerStarts, ServerStops, Start, Leave, Killed,
         SemWait, OpenList, SemPost, AddName, LoadList, CopyOthers, ClearList, WriteList
<1>5. ASSUME gen' = 0
      PROVE  /\ \A c \in Clients : pc'[c] \in {"out", "dead"}
             /\ \A g \in Gens : list'[g] = <<>>
  <2>1. gen = 0
    BY <1>2, <1>4, <1>5
  <2>2. /\ \A c \in Clients : pc[c] \in {"out", "dead"}
        /\ \A g \in Gens : list[g] = <<>>
        /\ ~linked
    BY <2>1 DEF ListInv, NamesInv, Opened
  <2>3. \/ ServerStarts \/ UNCHANGED <<pc, list>> \/ \E c \in Clients : Start(c)
    <3>1. ASSUME NEW c \in Clients PROVE pc[c] \in {"out", "dead"}
      BY <2>2
    <3> QED
      BY <3>1 DEF Next, vars, send_name, delete_name, ServerStops, Leave, Killed,
         SemWait, OpenList, SemPost, AddName, LoadList, CopyOthers, ClearList, WriteList
  <2>4. ~ServerStarts
    BY <1>5, <2>1 DEF ServerStarts
  <2>5. ASSUME NEW c \in Clients, Start(c)
        PROVE  list' = list /\ pc' = [pc EXCEPT ![c] = "dead"]
    BY <2>2, <2>5 DEF Start, Goto
  <2> QED
    BY <1>2, <2>2, <2>3, <2>4, <2>5
<1>6. ASSUME gen' = 1, \A c \in Clients : pc'[c] # "dead_in_section"
      PROVE  ListGood'
  <2>1. CASE ServerStarts
    BY <1>6, <2>1, StartKeepsList
  <2>2. CASE ~ServerStarts
    <3>1. gen = 1
      BY <1>4, <1>6, <2>2
    <3>2. \A c \in Clients : pc[c] # "dead_in_section"
      <4> SUFFICES ASSUME NEW d \in Clients, pc[d] = "dead_in_section" PROVE FALSE
        OBVIOUS
      <4>1. pc' = pc \/ \E c \in Clients \ {d}, l \in {pc'[x] : x \in Clients} :
                          pc' = [pc EXCEPT ![c] = l]
        <5>1. ASSUME NEW c \in Clients, NEW l, pc' = [pc EXCEPT ![c] = l]
              PROVE  l \in {pc'[x] : x \in Clients}
          BY <1>2, <5>1
        <5>2. CASE ServerStops \/ UNCHANGED vars
          BY <5>2 DEF ServerStops, vars
        <5>3. ASSUME NEW c \in Clients, Start(c) \/ send_name(c) \/ Leave(c) \/ delete_name(c) \/ Killed(c)
              PROVE  pc' = pc \/ (c # d /\ \E l : pc' = [pc EXCEPT ![c] = l])
          BY <5>3 DEF send_name, delete_name, Start, Leave, Killed, SemWait, OpenList, SemPost, AddName,
                      LoadList, CopyOthers, ClearList, WriteList, GotoIfFits, Goto
        <5> QED
          BY <2>2, <5>1, <5>2, <5>3 DEF Next
      <4>2. pc'[d] = pc[d]
        BY <1>2, <4>1
      <4> QED
        BY <1>6, <4>2
    <3>3. ListGood
      BY <3>1, <3>2 DEF ListInv
    <3>4. CASE UNCHANGED vars
      <4>1. UNCHANGED <<list, rest, copy, obj, pc>>
        BY <3>4 DEF vars
      <4>2. UNCHANGED <<Entered, Allowed, BeenIn>>
        BY <4>1 DEF Entered, Allowed, BeenIn
      <4>3. \A d \in Clients :
              /\ pc[d] \in {"add", "load", "copy", "clear", "write"} => obj[d] = 1
              /\ pc[d] = "add" => NameOf[d] # <<>>
        BY <3>3 DEF ListGood
      <4> QED
        BY <3>3, <4>1, <4>2, <4>3, ListFrame
    <3>5. CASE ServerStops
      <4>1. CASE Clients = {}
        <5>1. UNCHANGED <<list, rest, copy, obj, pc>>
          BY <3>5 DEF ServerStops
        <5>2. UNCHANGED <<Entered, Allowed, BeenIn>>
          BY <5>1 DEF Entered, Allowed, BeenIn
        <5> QED
          BY <3>3, <4>1, <5>1, <5>2, ListFrame
      <4>2. CASE Clients # {}
        BY <1>6, <3>1, <3>3, <3>5, <4>2, AwayKeepsList
      <4> QED
        BY <4>1, <4>2
    <3>6. ASSUME NEW c \in Clients, Start(c) \/ send_name(c) \/ Leave(c) \/ delete_name(c) \/ Killed(c)
          PROVE  ListGood'
      BY <1>6, <3>1, <3>3, <3>6, AwayKeepsList, AddKeepsList, LoadKeepsList, CopyKeepsList,
         ClearKeepsList, WriteKeepsList DEF send_name, delete_name
    <3> QED
      BY <2>2, <3>4, <3>5, <3>6 DEF Next
  <2> QED
    BY <2>1, <2>2
<1> QED
  BY <1>1, <1>3, <1>5, <1>6 DEF ListInv

\* When nobody is inside the section, the list is right.
LEMMA ListInvRight == ASSUME NamesApart, ListInv PROVE ListRight
<1> SUFFICES ASSUME gen = 1, Holders(1) = {}
             PROVE  /\ \A c \in Clients : pc[c] \in {"in", "leave"} => Cardinality(Listed(c)) = 1
                    /\ \A i \in 1..Len(list[1]) :
                         \/ \E c \in Clients : /\ list[1][i] = NameOf[c]
                                               /\ pc[c] \in {"in", "leave", "dead"}
                         \/ \A j \in 1..i : \E g \in Garbage \ {<<>>} : IsPrefix(g, list[1][j])
  BY DEF ListRight, MembersListed, NoGhosts
<1>1. \A c \in Clients : pc[c] \notin InSection \cup {"dead_in_section"}
  <2> SUFFICES ASSUME NEW c \in Clients, pc[c] \in InSection \cup {"dead_in_section"} PROVE FALSE
    OBVIOUS
  <2>1. semOf[c] = 1
    BY DEF ListInv, NamesInv, Opened, InSection
  <2> QED
    BY <2>1 DEF Holders
<1>2. ListGood
  BY <1>1 DEF ListInv
<1>3. Good(list[1], Entered, Allowed, BeenIn)
  BY <1>1, <1>2 DEF ListGood, Rewriting, InSection
<1>4. ASSUME NEW c \in Clients, pc[c] \in {"in", "leave"} PROVE Cardinality(Listed(c)) = 1
  <2>1. c \in Entered
    BY <1>4 DEF Entered
  <2>2. PICK i \in 1..Len(list[1]) :
               \A j \in 1..Len(list[1]) : IsSuffix(NameOf[c], list[1][j]) <=> j = i
    BY <1>3, <2>1 DEF Good, Once
  <2>3. Listed(c) = {i}
    BY <2>2 DEF Listed
  <2> QED
    BY <2>3, FS_Singleton
<1>5. ASSUME NEW i \in 1..Len(list[1])
      PROVE  \/ \E c \in Clients : list[1][i] = NameOf[c] /\ pc[c] \in {"in", "leave", "dead"}
             \/ \A j \in 1..i : \E g \in Garbage \ {<<>>} : IsPrefix(g, list[1][j])
  <2>1. CASE Entry(list[1][i], Allowed)
    BY <1>1, <2>1 DEF Entry, Allowed, InSection
  <2>2. CASE \A j \in 1..i : Glued(list[1][j], BeenIn)
    BY <2>2 DEF Glued
  <2> QED
    BY <1>3, <2>1, <2>2 DEF Good
<1> QED
  BY <1>4, <1>5

\* The name list (client.c:150-172): whenever nobody is inside the section of
\* the first server, everybody who has entered the chat is on the list exactly
\* once and nobody who has left is, with garbage at the top of the list at most,
\* for any number of clients whose names are apart and whatever garbage, lines
\* included, lies in their buffers.  This is about the first start of the server
\* and holds until a client dies inside the section or overruns an array there.
THEOREM NameListIsRight == NamesApart => (Spec => []ListRight)
<1> SUFFICES ASSUME NamesApart PROVE Spec => []ListRight
  OBVIOUS
<1>1. Init => ListInv
  <2> SUFFICES ASSUME Init PROVE ListInv
    OBVIOUS
  <2>1. NamesInv
    BY NamesInitInv
  <2> QED
    BY <2>1 DEF Init, ListInv
<1>2. ListInv /\ [Next]_vars => ListInv'
  BY ListStepInv
<1>3. ListInv => ListRight
  BY ListInvRight
<1> QED
  BY <1>1, <1>2, <1>3, PTL DEF Spec
----------------------------------------------------------------------------
(* strcat() to the chat *)

StrcatTypes ==
  /\ DOMAIN mem = 0..(ChatSize - 1)
  /\ spc \in [Senders -> {"idle", "scan", "copy", "dead"}]
  /\ pos \in [Senders -> Nat] /\ len \in [Senders -> Nat]
  /\ copied \in [Senders -> Nat] /\ sends \in [Senders -> Nat]
  /\ DOMAIN alone = Senders
  /\ \A c \in Senders : spc[c] = "scan" => copied[c] = 0
  /\ solo \subseteq [by : Senders, nr : Nat, at : Nat, len : Nat]

\* No strcat() has come to the end of the object.
Fits == \A c \in Active : pos[c] < ChatSize

\* Nothing is written in front of the end of a message that was appended alone:
\* a strcat() behind it begins to copy at a zero, and there is none before.
SoloBehind ==
  \A m \in solo : \A c \in Senders : spc[c] = "copy" => m.at + m.len <= pos[c]

\* What a strcat() finds and leaves while no other one is called.
AloneSoFar ==
  \A c \in Senders : alone[c] /\ c \in Active =>
    /\ Active = {c}
    /\ \A i \in 0..(pos[c] - 1) : mem[i] # Zero
    /\ spc[c] = "copy" =>
         /\ copied[c] <= pos[c]
         /\ \A i \in 1..copied[c] : mem[pos[c] - copied[c] + i - 1] = Byte(c, sends[c], i)

\* A message that was appended alone lies in the object.
SoloInside == \A m \in solo : m.at + m.len <= ChatSize

StrcatInv == StrcatTypes /\ SoloKept /\ SoloBehind /\ AloneSoFar /\ SoloInside

\* No byte of a message is a zero.
LEMMA BytesAreNotZero ==
  ASSUME NEW c \in Senders, NEW n, NEW i
  PROVE  Byte(c, n, i) # Zero
BY ChatShmAssumption DEF Byte, Zero

\* Up to the end of a message that was appended alone there is no zero.
LEMMA NoZeroBefore ==
  ASSUME StrcatInv, NEW m \in solo, NEW i \in 0..(m.at + m.len - 1)
  PROVE  mem[i] # Zero
<1>1. m \in [by : Senders, nr : Nat, at : Nat, len : Nat]
  BY DEF StrcatInv, StrcatTypes
<1>2. CASE i < m.at
  <2>1. i \in 0..(m.at - 1)
    BY <1>1, <1>2
  <2> QED
    BY <2>1 DEF StrcatInv, SoloKept
<1>3. CASE i >= m.at
  <2>1. i - m.at + 1 \in 1..m.len /\ m.at + (i - m.at + 1) - 1 = i
    BY <1>1, <1>3
  <2>2. mem[i] = Byte(m.by, m.nr, i - m.at + 1)
    BY <2>1 DEF StrcatInv, SoloKept
  <2> QED
    BY <1>1, <2>2, BytesAreNotZero
<1> QED
  BY <1>1, <1>2, <1>3

\* strcat() is called.
LEMMA CallInv == ASSUME StrcatInv, NEW c \in Senders, NEW l \in Lengths, Call(c, l) PROVE StrcatInv'
<1> USE DEF Call
<1>1. StrcatTypes'
  <2>1. l \in Nat /\ DOMAIN alone' = Senders
    BY ChatShmAssumption
  <2>2. /\ spc' = [spc EXCEPT ![c] = "scan"] /\ copied' = [copied EXCEPT ![c] = 0]
        /\ pos' \in [Senders -> Nat] /\ len' \in [Senders -> Nat] /\ sends' \in [Senders -> Nat]
        /\ UNCHANGED <<mem, solo>>
    BY <2>1 DEF StrcatInv, StrcatTypes
  <2> HIDE DEF Call
  <2> QED
    BY <2>1, <2>2 DEF StrcatInv, StrcatTypes
<1>2. SoloKept' /\ SoloInside'
  BY DEF StrcatInv, SoloKept, SoloInside, Zero, Byte
<1>3. SoloBehind'
  BY DEF StrcatInv, StrcatTypes, SoloBehind
<1>4. AloneSoFar'
  <2>1. \A d \in Senders : d # c => ~alone'[d]
    OBVIOUS
  <2>2. alone'[c] => Active' = {c}
    BY DEF StrcatInv, StrcatTypes, Active
  <2>3. pos'[c] = 0 /\ spc'[c] = "scan"
    BY DEF StrcatInv, StrcatTypes
  <2> QED
    BY <2>1, <2>2, <2>3 DEF AloneSoFar
<1> QED
  BY <1>1, <1>2, <1>3, <1>4 DEF StrcatInv

\* The search ends at a zero, which lies behind all messages appended alone.
LEMMA ScanInv == ASSUME StrcatInv, NEW c \in Senders, Scan(c) PROVE StrcatInv'
<1> USE DEF Scan
<1>1. StrcatTypes' /\ Active' = Active
  <2>1. CASE mem[pos[c]] = Zero
    BY <2>1 DEF StrcatInv, StrcatTypes, Active
  <2>2. CASE mem[pos[c]] # Zero
    <3>1. pos' \in [Senders -> Nat] /\ UNCHANGED <<mem, spc, len, copied, sends, alone, solo>>
      BY <2>2 DEF StrcatInv, StrcatTypes
    <3> QED
      BY <3>1 DEF StrcatInv, StrcatTypes, Active
  <2> QED
    BY <2>1, <2>2
<1>2. SoloKept' /\ SoloInside'
  BY DEF StrcatInv, SoloKept, SoloInside, Zero, Byte
<1>3. SoloBehind'
  <2> SUFFICES ASSUME NEW m \in solo, NEW d \in Senders, spc'[d] = "copy"
               PROVE  m.at + m.len <= pos'[d]
    BY DEF SoloBehind
  <2>1. m.at \in Nat /\ m.len \in Nat /\ pos[d] \in Nat
    BY DEF StrcatInv, StrcatTypes
  <2>2. CASE d # c
    BY <2>2 DEF StrcatInv, StrcatTypes, SoloBehind
  <2>3. CASE d = c
    <3>1. mem[pos[d]] = Zero /\ pos'[d] = pos[d]
      BY <2>3 DEF StrcatInv, StrcatTypes
    <3>2. pos[d] \notin 0..(m.at + m.len - 1)
      BY <3>1, NoZeroBefore
    <3> QED
      BY <2>1, <3>1, <3>2
  <2> QED
    BY <2>2, <2>3
<1>4. AloneSoFar'
  <2> SUFFICES ASSUME NEW d \in Senders, alone[d], d \in Active
               PROVE  /\ Active = {d}
                      /\ \A i \in 0..(pos'[d] - 1) : mem[i] # Zero
                      /\ spc'[d] = "copy" =>
                           /\ copied[d] <= pos'[d]
                           /\ \A i \in 1..copied[d] : mem[pos'[d] - copied[d] + i - 1] = Byte(d, sends[d], i)
    BY <1>1 DEF AloneSoFar, Zero, Byte
  <2>1. Active = {d} /\ d = c /\ copied[d] = 0 /\ pos[d] \in Nat
        /\ \A i \in 0..(pos[d] - 1) : mem[i] # Zero
    BY DEF StrcatInv, StrcatTypes, AloneSoFar, Active
  <2>2. CASE mem[pos[c]] = Zero
    BY <2>1, <2>2
  <2>3. CASE mem[pos[c]] # Zero
    <3>1. pos'[d] = pos[d] + 1 /\ spc'[d] = "scan"
      BY <2>1, <2>3 DEF StrcatInv, StrcatTypes
    <3> QED
      BY <2>1, <2>3, <3>1
  <2> QED
    BY <2>2, <2>3
<1> QED
  BY <1>1, <1>2, <1>3, <1>4 DEF StrcatInv

\* A byte is copied behind all messages appended alone.
LEMMA CopyInv == ASSUME StrcatInv, Fits, NEW c \in Senders, Copy(c) PROVE StrcatInv'
<1> USE DEF Copy
<1>1. StrcatTypes' /\ Active' = Active
  <2>1. /\ DOMAIN mem' = DOMAIN mem /\ spc[c] = "copy" /\ UNCHANGED <<spc, len, sends, alone, solo>>
        /\ pos' = [pos EXCEPT ![c] = @ + 1] /\ copied' = [copied EXCEPT ![c] = @ + 1]
    OBVIOUS
  <2>2. pos' \in [Senders -> Nat] /\ copied' \in [Senders -> Nat]
    BY <2>1 DEF StrcatInv, StrcatTypes
  <2>3. \A d \in Senders : spc[d] = "scan" => copied'[d] = 0
    BY <2>1 DEF StrcatInv, StrcatTypes
  <2> HIDE DEF Copy
  <2> QED
    BY <2>1, <2>2, <2>3 DEF StrcatInv, StrcatTypes, Active
<1>2. /\ pos[c] \in Nat /\ pos[c] \in DOMAIN mem /\ copied[c] \in Nat /\ c \in Active
      /\ pos'[c] = pos[c] + 1 /\ copied'[c] = copied[c] + 1
      /\ mem'[pos[c]] = Byte(c, sends[c], copied[c] + 1)
      /\ \A i \in DOMAIN mem : i # pos[c] => mem'[i] = mem[i]
  BY ChatShmAssumption DEF StrcatInv, StrcatTypes, Fits, Active
<1>3. \A m \in solo : /\ m.at \in Nat /\ m.len \in Nat /\ m.at + m.len <= pos[c]
                      /\ m.at + m.len <= ChatSize
  BY DEF StrcatInv, StrcatTypes, SoloBehind, SoloInside
<1>4. SoloKept'
  <2> SUFFICES ASSUME NEW m \in solo
               PROVE  /\ \A i \in 1..m.len : mem'[m.at + i - 1] = Byte(m.by, m.nr, i)
                      /\ \A i \in 0..(m.at - 1) : mem'[i] # Zero
    BY DEF SoloKept, Zero, Byte
  <2>1. \A i \in 0..(m.at + m.len - 1) : mem'[i] = mem[i]
    BY <1>2, <1>3, ChatShmAssumption, SMTT(60) DEF StrcatInv, StrcatTypes
  <2>2. \A i \in 1..m.len : m.at + i - 1 \in 0..(m.at + m.len - 1)
    BY <1>3
  <2>3. \A i \in 0..(m.at - 1) : i \in 0..(m.at + m.len - 1)
    BY <1>3
  <2> QED
    BY <2>1, <2>2, <2>3 DEF StrcatInv, SoloKept
<1>5. SoloBehind' /\ SoloInside'
  <2>1. \A d \in Senders : pos[d] \in Nat /\ pos'[d] = IF d = c THEN pos[d] + 1 ELSE pos[d]
    BY DEF StrcatInv, StrcatTypes
  <2> QED
    BY <1>2, <1>3, <2>1 DEF StrcatInv, SoloBehind, SoloInside
<1>6. AloneSoFar'
  <2> SUFFICES ASSUME alone[c]
               PROVE  /\ Active = {c}
                      /\ \A i \in 0..(pos'[c] - 1) : mem'[i] # Zero
                      /\ copied'[c] <= pos'[c]
                      /\ \A i \in 1..copied'[c] : mem'[pos'[c] - copied'[c] + i - 1] = Byte(c, sends[c], i)
    <3>1. ASSUME NEW d \in Senders, alone[d], d \in Active PROVE d = c
      BY <1>2, <3>1 DEF StrcatInv, AloneSoFar
    <3> QED
      BY <1>1, <3>1 DEF AloneSoFar, Zero, Byte
  <2>1. /\ Active = {c} /\ copied[c] <= pos[c]
        /\ \A i \in 0..(pos[c] - 1) : mem[i] # Zero
        /\ \A i \in 1..copied[c] : mem[pos[c] - copied[c] + i - 1] = Byte(c, sends[c], i)
    BY <1>2 DEF StrcatInv, AloneSoFar
  <2>2. ASSUME NEW i \in 0..(pos'[c] - 1) PROVE mem'[i] # Zero
    <3>1. CASE i = pos[c]
      BY <1>2, <3>1, BytesAreNotZero
    <3>2. CASE i # pos[c]
      <4>1. i \in 0..(pos[c] - 1) /\ i \in DOMAIN mem
        BY <1>2, <3>2, ChatShmAssumption DEF StrcatInv, StrcatTypes
      <4> QED
        BY <1>2, <2>1, <3>2, <4>1
    <3> QED
      BY <3>1, <3>2
  <2>3. ASSUME NEW i \in 1..copied'[c]
        PROVE  mem'[pos'[c] - copied'[c] + i - 1] = Byte(c, sends[c], i)
    <3>1. pos'[c] - copied'[c] + i - 1 = pos[c] - copied[c] + i - 1
      BY <1>2
    <3>2. CASE i = copied[c] + 1
      <4>1. pos[c] - copied[c] + i - 1 = pos[c]
        BY <1>2, <3>2
      <4> QED
        BY <1>2, <3>1, <3>2, <4>1
    <3>3. CASE i # copied[c] + 1
      <4>1. /\ i \in 1..copied[c] /\ pos[c] - copied[c] + i - 1 \in DOMAIN mem
            /\ pos[c] - copied[c] + i - 1 # pos[c]
        BY <1>2, <2>1, <3>3, ChatShmAssumption DEF StrcatInv, StrcatTypes
      <4> QED
        BY <1>2, <2>1, <3>1, <4>1
    <3> QED
      BY <3>2, <3>3
  <2> QED
    BY <1>2, <2>1, <2>2, <2>3
<1> QED
  BY <1>1, <1>4, <1>5, <1>6 DEF StrcatInv

\* A message is terminated behind all messages appended alone, and is one of
\* them if no other strcat() was called.
LEMMA TerminateInv == ASSUME StrcatInv, Fits, NEW c \in Senders, Terminate(c) PROVE StrcatInv'
<1> DEFINE new == [by |-> c, nr |-> sends[c], at |-> pos[c] - len[c], len |-> len[c]]
<1> USE DEF Terminate
<1>1. /\ pos[c] \in Nat /\ len[c] \in Nat /\ copied[c] = len[c] /\ c \in Active
      /\ pos[c] < ChatSize
      /\ \A i \in DOMAIN mem : i # pos[c] => mem'[i] = mem[i]
      /\ Active' = Active \ {c}
  BY DEF StrcatInv, StrcatTypes, Fits, Active
<1>2. \A m \in solo : /\ m.at \in Nat /\ m.len \in Nat /\ m.at + m.len <= pos[c]
                      /\ m.at + m.len <= ChatSize
  BY DEF StrcatInv, StrcatTypes, SoloBehind, SoloInside
<1>3. ASSUME alone[c]
      PROVE  /\ Active = {c} /\ len[c] <= pos[c]
             /\ \A i \in 0..(pos[c] - 1) : mem[i] # Zero
             /\ \A i \in 1..len[c] : mem[pos[c] - len[c] + i - 1] = Byte(c, sends[c], i)
  BY <1>1, <1>3 DEF StrcatInv, AloneSoFar
<1>4. StrcatTypes'
  <2>1. alone[c] => new \in [by : Senders, nr : Nat, at : Nat, len : Nat]
    BY <1>1, <1>3 DEF StrcatInv, StrcatTypes
  <2>2. solo' \subseteq [by : Senders, nr : Nat, at : Nat, len : Nat]
    BY <2>1 DEF StrcatInv, StrcatTypes
  <2>3. DOMAIN mem' = DOMAIN mem
    OBVIOUS
  <2> QED
    BY <2>2, <2>3 DEF StrcatInv, StrcatTypes
<1>5. \A i \in 0..(pos[c] - 1) : mem'[i] = mem[i]
  BY <1>1, ChatShmAssumption DEF StrcatInv, StrcatTypes
<1>6. ASSUME NEW m \in solo
      PROVE  /\ \A i \in 1..m.len : mem'[m.at + i - 1] = Byte(m.by, m.nr, i)
             /\ \A i \in 0..(m.at - 1) : mem'[i] # Zero
  <2>1. /\ \A i \in 1..m.len : m.at + i - 1 \in 0..(pos[c] - 1)
        /\ \A i \in 0..(m.at - 1) : i \in 0..(pos[c] - 1)
    BY <1>1, <1>2
  <2> QED
    BY <1>5, <2>1 DEF StrcatInv, SoloKept
<1>7. ASSUME alone[c]
      PROVE  /\ \A i \in 1..new.len : mem'[new.at + i - 1] = Byte(new.by, new.nr, i)
             /\ \A i \in 0..(new.at - 1) : mem'[i] # Zero
             /\ new.at + new.len <= ChatSize
  <2>1. /\ \A i \in 1..len[c] : pos[c] - len[c] + i - 1 \in 0..(pos[c] - 1)
        /\ \A i \in 0..(pos[c] - len[c] - 1) : i \in 0..(pos[c] - 1)
        /\ pos[c] - len[c] + len[c] <= ChatSize
    BY <1>1, <1>3, <1>7, ChatShmAssumption
  <2> QED
    BY <1>3, <1>5, <1>7, <2>1
<1>8. solo' = IF alone[c] THEN solo \cup {new} ELSE solo
  OBVIOUS
<1> HIDE DEF new
<1>9. SoloKept' /\ SoloInside'
  <2> SUFFICES ASSUME NEW m \in solo'
               PROVE  /\ \A i \in 1..m.len : mem'[m.at + i - 1] = Byte(m.by, m.nr, i)
                      /\ \A i \in 0..(m.at - 1) : mem'[i] # Zero
                      /\ m.at + m.len <= ChatSize
    BY DEF SoloKept, SoloInside, Zero, Byte
  <2>1. CASE m \in solo
    BY <1>2, <1>6, <2>1
  <2>2. CASE m = new /\ alone[c]
    BY <1>7, <2>2
  <2> QED
    BY <1>8, <2>1, <2>2
<1>10. SoloBehind'
  <2>1. ASSUME alone[c] PROVE \A d \in Senders : spc'[d] # "copy"
    BY <1>1, <1>3, <2>1 DEF StrcatInv, StrcatTypes, Active
  <2>2. ASSUME ~alone[c] PROVE SoloBehind'
    BY <1>8, <2>2 DEF StrcatInv, StrcatTypes, SoloBehind
  <2> QED
    BY <2>1, <2>2 DEF SoloBehind
<1>11. AloneSoFar'
  BY <1>1 DEF StrcatInv, AloneSoFar
<1> QED
  BY <1>4, <1>9, <1>10, <1>11 DEF StrcatInv

\* A process dies; what it has copied stays.
LEMMA KilledInv == ASSUME StrcatInv, NEW c \in Senders, KilledSending(c) PROVE StrcatInv'
<1> USE DEF KilledSending
<1>1. StrcatTypes' /\ Active' = Active \ {c} /\ c \in Active
  BY DEF StrcatInv, StrcatTypes, Active
<1>2. SoloKept' /\ SoloInside'
  BY DEF StrcatInv, SoloKept, SoloInside, Zero, Byte
<1>3. SoloBehind'
  BY DEF StrcatInv, StrcatTypes, SoloBehind
<1>4. AloneSoFar'
  BY <1>1 DEF StrcatInv, AloneSoFar
<1> QED
  BY <1>1, <1>2, <1>3, <1>4 DEF StrcatInv

\* A message whose strcat() met no other one stays in the chat for good and no
\* zero hides it, whatever races come later and whoever is killed
\* (client.c:76,136), as long as the chat does not run over the end of its
\* object.
THEOREM SoloMessagesStay == StrcatSpec /\ []Fits => []SoloKept
<1>1. StrcatInit => StrcatInv
  BY DEF StrcatInit, StrcatInv, StrcatTypes, SoloKept, SoloBehind, AloneSoFar, SoloInside, Active
<1>2. StrcatInv /\ Fits /\ [StrcatNext]_strcatVars => StrcatInv'
  <2> SUFFICES ASSUME StrcatInv, Fits, [StrcatNext]_strcatVars PROVE StrcatInv'
    OBVIOUS
  <2>1. CASE UNCHANGED strcatVars
    BY <2>1, ZenonT(60) DEF strcatVars, StrcatInv, StrcatTypes, SoloKept, SoloBehind, AloneSoFar, SoloInside,
                Active, Zero, Byte
  <2> QED
    BY <2>1, CallInv, ScanInv, CopyInv, TerminateInv, KilledInv DEF StrcatNext, send_message
<1>3. StrcatInv => SoloKept
  BY DEF StrcatInv
<1> QED
  BY <1>1, <1>2, <1>3, PTL DEF StrcatSpec
----------------------------------------------------------------------------
(* The room the chat needs *)

\* There is a bound for the lengths of messages, and room for all of them.
Roomy == \E l \in Nat : RoomFor(l)

\* The bytes that can be sent, and those that have been copied or were left out
\* by a client that is past them.
Sendable(l) == (Senders \X (1..MaxSends)) \X (1..l)

Past(l) ==
  {w \in Sendable(l) : \/ w[1][2] < sends[w[1][1]]
                       \/ w[1][2] = sends[w[1][1]] /\ w[2] <= copied[w[1][1]]}

SendTypes(l) ==
  /\ DOMAIN mem = 0..(ChatSize - 1)
  /\ spc \in [Senders -> {"idle", "scan", "copy", "dead"}]
  /\ pos \in [Senders -> Nat] /\ len \in [Senders -> 0..l]
  /\ copied \in [Senders -> 0..l] /\ sends \in [Senders -> 0..MaxSends]
  /\ \A c \in Active : sends[c] >= 1

\* Behind the h first bytes there are only zeroes, and no strcat() is there.
CleanFrom(h) ==
  /\ \A i \in 0..(ChatSize - 1) : i >= h => mem[i] = Zero
  /\ \A c \in Active : pos[c] <= h

RoomInv(l) ==
  /\ SendTypes(l)
  /\ \E h \in Nat : h <= Cardinality(Past(l)) /\ CleanFrom(h)

\* There is room for whatever has been sent.
LEMMA PastFits ==
  ASSUME NEW l, RoomFor(l)
  PROVE  /\ IsFiniteSet(Past(l)) /\ Cardinality(Past(l)) \in Nat
         /\ Cardinality(Past(l)) < ChatSize
         /\ IsFiniteSet(Past(l)') /\ Cardinality(Past(l)') \in Nat
<1> DEFINE A == Senders \X (1..MaxSends)
<1>1. /\ IsFiniteSet(1..MaxSends) /\ Cardinality(1..MaxSends) = MaxSends
      /\ IsFiniteSet(1..l) /\ Cardinality(1..l) = l
  BY ChatShmAssumption, FS_Interval DEF RoomFor
<1>2. IsFiniteSet(A) /\ Cardinality(A) = Cardinality(Senders) * MaxSends
  BY <1>1, FS_Product DEF RoomFor
<1>3. IsFiniteSet(Sendable(l)) /\ Cardinality(Sendable(l)) = Cardinality(A) * l
  <2> HIDE DEF A
  <2>1. IsFiniteSet(A \X (1..l)) /\ Cardinality(A \X (1..l)) = Cardinality(A) * Cardinality(1..l)
    BY <1>1, <1>2, FS_Product
  <2> QED
    BY <1>1, <2>1 DEF Sendable, A
<1>4. Past(l) \in SUBSET Sendable(l) /\ Past(l)' \in SUBSET Sendable(l)
  BY DEF Past, Sendable
<1>5. /\ IsFiniteSet(Past(l)) /\ Cardinality(Past(l)) <= Cardinality(Sendable(l))
      /\ IsFiniteSet(Past(l)')
  BY <1>3, <1>4, FS_Subset
<1>6. Cardinality(Past(l)) \in Nat /\ Cardinality(Past(l)') \in Nat
  BY <1>5, FS_CardinalityType
<1>7. Cardinality(Sendable(l)) < ChatSize
  BY <1>2, <1>3 DEF RoomFor
<1>8. Cardinality(Sendable(l)) \in Nat
  BY <1>3, FS_CardinalityType
<1> QED
  BY <1>5, <1>6, <1>7, <1>8, ChatShmAssumption

\* A strcat() that is called has copied nothing of the next message.
LEMMA CallRoom ==
  ASSUME NEW l, RoomFor(l), RoomInv(l), NEW c \in Senders, NEW k \in Lengths, Call(c, k)
  PROVE  RoomInv(l)'
<1>1. SendTypes(l)'
  <2>1. k \in 0..l
    BY DEF RoomFor
  <2> QED
    BY <2>1, ChatShmAssumption, SMTT(60) DEF RoomInv, SendTypes, Call, Active, RoomFor
<1>2. Past(l) \subseteq Past(l)'
  <2> SUFFICES ASSUME NEW w \in Past(l) PROVE w \in Past(l)'
    OBVIOUS
  <2>1. w \in Sendable(l) /\ w[1][1] \in Senders /\ w[1][2] \in 1..MaxSends
    BY DEF Past, Sendable
  <2>2. sends'[c] = sends[c] + 1 /\ sends[c] \in Nat
        /\ \A d \in Senders \ {c} : sends'[d] = sends[d] /\ copied'[d] = copied[d]
    BY DEF Call, RoomInv, SendTypes
  <2>3. \/ w[1][2] < sends[w[1][1]]
        \/ w[1][2] = sends[w[1][1]] /\ w[2] <= copied[w[1][1]]
    BY DEF Past
  <2>4. \/ w[1][2] < sends'[w[1][1]]
        \/ w[1][2] = sends'[w[1][1]] /\ w[2] <= copied'[w[1][1]]
    BY <2>1, <2>2, <2>3
  <2> QED
    BY <2>1, <2>4 DEF Past
<1>3. Cardinality(Past(l)) <= Cardinality(Past(l)')
  BY <1>2, PastFits, FS_Subset
<1>4. PICK h \in Nat : h <= Cardinality(Past(l)) /\ CleanFrom(h)
  BY DEF RoomInv
<1>5. CleanFrom(h)'
  BY <1>4 DEF CleanFrom, Call, RoomInv, SendTypes, Active, Zero
<1>6. h <= Cardinality(Past(l)')
  BY <1>3, <1>4, PastFits
<1> QED
  BY <1>1, <1>5, <1>6 DEF RoomInv

\* The search for the end stops at the first zero at the latest.
LEMMA ScanRoom ==
  ASSUME NEW l, RoomFor(l), RoomInv(l), NEW c \in Senders, Scan(c)
  PROVE  RoomInv(l)'
<1>1. SendTypes(l)'
  <2>1. /\ UNCHANGED <<mem, len, copied, sends>>
        /\ spc' \in [Senders -> {"idle", "scan", "copy", "dead"}] /\ pos' \in [Senders -> Nat]
    <3>1. spc \in [Senders -> {"idle", "scan", "copy", "dead"}] /\ pos \in [Senders -> Nat]
      BY DEF RoomInv, SendTypes
    <3> QED
      BY <3>1 DEF Scan
  <2>2. Active' = Active
    BY DEF Active, Scan, RoomInv, SendTypes
  <2> QED
    BY <2>1, <2>2 DEF RoomInv, SendTypes
<1>2. Past(l)' = Past(l)
  BY DEF Past, Scan
<1>3. PICK h \in Nat : h <= Cardinality(Past(l)) /\ CleanFrom(h)
  BY DEF RoomInv
<1>4. h \in 0..(ChatSize - 1)
  BY <1>3, PastFits, ChatShmAssumption
<1>5. mem[pos[c]] # Zero => pos[c] + 1 <= h
  <2>1. pos[c] \in Nat /\ pos[c] <= h
    BY <1>3 DEF CleanFrom, Active, Scan, RoomInv, SendTypes
  <2>2. pos[c] = h => mem[pos[c]] = Zero
    BY <1>3, <1>4, <2>1 DEF CleanFrom
  <2> QED
    BY <2>1, <2>2
<1>6. CleanFrom(h)'
  <2>1. \A i \in 0..(ChatSize - 1) : i >= h => mem'[i] = Zero
    BY <1>3 DEF CleanFrom, Scan
  <2>2. Active' = Active
    BY DEF Active, Scan, RoomInv, SendTypes
  <2>3. \A d \in Active : pos'[d] <= h
    BY <1>3, <1>5 DEF CleanFrom, Scan, RoomInv, SendTypes, Active
  <2> QED
    BY <2>1, <2>2, <2>3 DEF CleanFrom, Zero
<1> QED
  BY <1>1, <1>2, <1>3, <1>6 DEF RoomInv

\* One byte is copied, and the clean part is one byte shorter at most.
LEMMA CopyRoom ==
  ASSUME NEW l, RoomFor(l), RoomInv(l), NEW c \in Senders, Copy(c)
  PROVE  RoomInv(l)'
<1>0. /\ c \in Active /\ sends[c] \in 1..MaxSends /\ copied[c] \in Nat /\ copied[c] + 1 \in 1..l
      /\ pos[c] \in Nat
  BY ChatShmAssumption DEF Copy, Active, RoomInv, SendTypes, RoomFor
<1>1. SendTypes(l)'
  <2>1. copied' \in [Senders -> 0..l] /\ pos' \in [Senders -> Nat] /\ DOMAIN mem' = DOMAIN mem
    BY <1>0 DEF Copy, RoomInv, SendTypes, RoomFor
  <2> QED
    BY <2>1 DEF Copy, RoomInv, SendTypes, Active
<1> DEFINE w == <<<<c, sends[c]>>, copied[c] + 1>>
<1>2. w \in Sendable(l) /\ w \notin Past(l)
  BY <1>0 DEF Sendable, Past
<1>3. Past(l)' = Past(l) \cup {w}
  <2>1. copied'[c] = copied[c] + 1 /\ sends' = sends
        /\ \A d \in Senders \ {c} : copied'[d] = copied[d]
    BY DEF Copy, RoomInv, SendTypes
  <2>2. ASSUME NEW v \in Sendable(l) PROVE v \in Past(l)' <=> v \in Past(l) \/ v = w
    <3>1. PICK d \in Senders, n \in 1..MaxSends, i \in 1..l : v = <<<<d, n>>, i>>
      BY DEF Sendable
    <3>2. v \in Past(l)' <=> (n < sends[d] \/ (n = sends[d] /\ i <= copied'[d]))
      BY <2>1, <3>1 DEF Past
    <3>3. v \in Past(l) <=> (n < sends[d] \/ (n = sends[d] /\ i <= copied[d]))
      BY <3>1 DEF Past
    <3>4. v = w <=> (d = c /\ n = sends[c] /\ i = copied[c] + 1)
      BY <3>1
    <3>5. CASE d = c
      BY <1>0, <2>1, <3>2, <3>3, <3>4, <3>5
    <3>6. CASE d # c
      BY <2>1, <3>2, <3>3, <3>4, <3>6
    <3> QED
      BY <3>5, <3>6
  <2>3. Past(l)' \subseteq Sendable(l) /\ Past(l) \subseteq Sendable(l)
    BY DEF Past, Sendable
  <2> HIDE DEF w
  <2> QED
    BY <1>2, <2>2, <2>3
<1>4. Cardinality(Past(l)') = Cardinality(Past(l)) + 1
  <2> HIDE DEF w
  <2> QED
    BY <1>2, <1>3, PastFits, FS_AddElement
<1>5. PICK h \in Nat : h <= Cardinality(Past(l)) /\ CleanFrom(h)
  BY DEF RoomInv
<1>6. h + 1 <= Cardinality(Past(l)')
  BY <1>4, <1>5, PastFits
<1>7. CleanFrom(h + 1)'
  <2>1. pos[c] <= h
    BY <1>0, <1>5 DEF CleanFrom
  <2>2. \A i \in 0..(ChatSize - 1) : i >= h + 1 => mem'[i] = Zero
    BY <1>0, <1>5, <2>1, ChatShmAssumption DEF CleanFrom, Copy, RoomInv, SendTypes
  <2>3. Active' = Active
    BY DEF Active, Copy
  <2>4. \A d \in Active : pos'[d] <= h + 1
    BY <1>5, <2>1 DEF CleanFrom, Copy, RoomInv, SendTypes, Active
  <2> QED
    BY <2>2, <2>3, <2>4 DEF CleanFrom, Zero
<1>8. h + 1 \in Nat
  BY <1>5
<1> QED
  BY <1>1, <1>6, <1>7, <1>8 DEF RoomInv

\* A message is terminated, or its sender killed, where it already was.
LEMMA EndRoom ==
  ASSUME NEW l, RoomFor(l), RoomInv(l), NEW c \in Senders, Terminate(c) \/ KilledSending(c)
  PROVE  RoomInv(l)'
<1>1. SendTypes(l)' /\ Active' = Active \ {c} /\ UNCHANGED <<pos, copied, sends>>
  BY DEF RoomInv, SendTypes, Terminate, KilledSending, Active
<1>2. Past(l)' = Past(l)
  BY <1>1 DEF Past
<1>3. PICK h \in Nat : h <= Cardinality(Past(l)) /\ CleanFrom(h)
  BY DEF RoomInv
<1>4. \A i \in 0..(ChatSize - 1) : mem'[i] = mem[i] \/ mem'[i] = Zero
  BY DEF Terminate, KilledSending, RoomInv, SendTypes
<1>5. CleanFrom(h)'
  BY <1>1, <1>3, <1>4 DEF CleanFrom, Zero
<1> QED
  BY <1>1, <1>2, <1>3, <1>5 DEF RoomInv

\* No strcat() runs over the end of an object that is large enough for all the
\* messages (client.c:76), however they overwrite one another and whoever is
\* killed: the chat grows by one byte at most with each byte that is copied.
THEOREM RoomyChatFits == Roomy => (StrcatSpec => []Fits)
<1> SUFFICES ASSUME NEW l \in Nat, RoomFor(l) PROVE StrcatSpec => []Fits
  BY DEF Roomy
<1>1. StrcatInit => RoomInv(l)
  <2> SUFFICES ASSUME StrcatInit PROVE RoomInv(l)
    OBVIOUS
  <2>1. SendTypes(l) /\ Active = {}
    BY ChatShmAssumption DEF StrcatInit, SendTypes, Active
  <2>2. CleanFrom(0)
    BY <2>1 DEF CleanFrom, StrcatInit
  <2> QED
    BY <2>1, <2>2, PastFits DEF RoomInv
<1>2. RoomInv(l) /\ [StrcatNext]_strcatVars => RoomInv(l)'
  <2> SUFFICES ASSUME RoomInv(l), [StrcatNext]_strcatVars PROVE RoomInv(l)'
    OBVIOUS
  <2>1. CASE UNCHANGED strcatVars
    BY <2>1, Zenon DEF strcatVars, RoomInv, SendTypes, Active, Past, CleanFrom, Zero
  <2> QED
    BY <2>1, CallRoom, ScanRoom, CopyRoom, EndRoom DEF StrcatNext, send_message
<1>3. RoomInv(l) => Fits
  <2> SUFFICES ASSUME RoomInv(l), NEW c \in Active PROVE pos[c] < ChatSize
    BY DEF Fits
  <2>1. PICK h \in Nat : h <= Cardinality(Past(l)) /\ CleanFrom(h)
    BY DEF RoomInv
  <2>2. pos[c] <= h /\ pos[c] \in Nat
    BY <2>1 DEF CleanFrom, RoomInv, SendTypes, Active
  <2> QED
    BY <2>1, <2>2, PastFits, ChatShmAssumption
<1> QED
  BY <1>1, <1>2, <1>3, PTL DEF StrcatSpec

\* In a chat with room for all the messages, one whose strcat() met no other one
\* stays for good and no zero hides it from the readers (client.c:76,136).
THEOREM RoomyChatKeepsSolo == Roomy => (StrcatSpec => []SoloKept)
BY RoomyChatFits, SoloMessagesStay, PTL
============================================================================
