---------------------------- MODULE ChatShmNames ----------------------------
(***************************************************************************)
(* chat 2, the name list: the server creates the shared objects, waits for *)
(* a key and unlinks them.  A client opens the semaphore once, when it     *)
(* starts, and the name list by its name each time it enters or leaves the *)
(* list, inside the critical section.  Objects live on for those who have  *)
(* them open, so after a restart of the server two semaphores may guard    *)
(* one list.  Without the objects a client crashes, and nobody gives back  *)
(* a semaphore a client has died with.                                     *)
(*                                                                         *)
(* delete_name() appends the list to an array that is not initialised      *)
(* (client.c:150,161): what stands behind the last newline of the garbage  *)
(* is glued to the first entry, what stands before it becomes lines of the *)
(* list.  A text is a sequence of letters and the list a sequence of       *)
(* texts.                                                                  *)
(*                                                                         *)
(* The object has 1024 bytes (server.c:14) and the two arrays of           *)
(* delete_name() have 4096 (client.c:150,151); nothing tests that the list *)
(* fits.  What a client does that writes past one of them is undefined: it *)
(* is taken to stop there, as one that dies, and nothing is claimed of the *)
(* list any more.                                                          *)
(***************************************************************************)
EXTENDS Naturals, Sequences, FiniteSets, SequencesExt

CONSTANTS
  Clients,  \* the client processes
  Letters,  \* what texts are made of
  NameOf,   \* the name each user enters
  Garbage,  \* pieces of what buf of delete_name() may hold, <<>> included
  GhostLines,  \* the lines it may hold in front of the last piece, <<>> included
  ListSize, \* of the shared object name_list
  BufSize,  \* of buf[] and of name_list[] in delete_name()
  Starts    \* bound of the model: how often the server is started

ASSUME NamesAssumption ==
  /\ IsFiniteSet(Clients)
  /\ Starts \in Nat
  /\ NameOf \in [Clients -> Seq(Letters)]
  /\ <<>> \in Garbage /\ Garbage \subseteq Seq(Letters)
  /\ <<>> \in GhostLines /\ GhostLines \subseteq Seq(Garbage \ {<<>>})
  /\ ListSize \in Nat /\ BufSize \in Nat

VARIABLES
  gen,     \* how often the server was started: the newest objects
  linked,  \* their names exist
  sem,     \* the value of each semaphore sem1
  list,    \* the contents of each name_list
  pc,      \* where each client is
  semOf,   \* the semaphore a client has opened
  obj,     \* the name_list a client has mapped
  rest,    \* what strtok() has left of buf[] of delete_name()
  copy     \* name_list[] of delete_name()

vars == <<gen, linked, sem, list, pc, semOf, obj, rest, copy>>

Gens == 1..Starts

Init ==
  /\ gen = 0
  /\ linked = FALSE
  /\ sem = [g \in Gens |-> 0]
  /\ list = [g \in Gens |-> <<>>]
  /\ pc = [c \in Clients |-> "out"]
  /\ semOf = [c \in Clients |-> 0]
  /\ obj = [c \in Clients |-> 0]
  /\ rest = [c \in Clients |-> <<>>]
  /\ copy = [c \in Clients |-> <<>>]

Goto(c, l) == pc' = [pc EXCEPT ![c] = l]

\* The bytes of terminated lines.
Bytes(lines) == Len(FlattenSeq(lines)) + Len(lines)

\* On to l inside the section, if these lines and a terminating zero fit.
GotoIfFits(c, l, lines, size) ==
  Goto(c, IF Bytes(lines) < size THEN l ELSE "dead_in_section")
----------------------------------------------------------------------------
(* server.c *)

ServerStarts ==
  /\ ~linked
  /\ gen < Starts
  /\ gen' = gen + 1
  /\ linked' = TRUE
  /\ sem' = [sem EXCEPT ![gen'] = 1]
  /\ UNCHANGED <<list, pc, semOf, obj, rest, copy>>

ServerStops ==
  /\ linked
  /\ linked' = FALSE
  /\ UNCHANGED <<gen, sem, list, pc, semOf, obj, rest, copy>>
----------------------------------------------------------------------------
(* client.c *)

\* main(): sem_open().  sem_wait() on SEM_FAILED is a crash.
Start(c) ==
  /\ pc[c] = "out"
  /\ IF linked
     THEN Goto(c, "enter") /\ semOf' = [semOf EXCEPT ![c] = gen]
     ELSE Goto(c, "dead") /\ UNCHANGED semOf
  /\ UNCHANGED <<gen, linked, sem, list, obj, rest, copy>>

\* A sem_wait() that does not wait.
SemWaitNot(c, at, next) ==
  /\ pc[c] = at
  /\ sem' = [sem EXCEPT ![semOf[c]] = IF @ = 0 THEN 0 ELSE @ - 1]
  /\ Goto(c, next)
  /\ UNCHANGED <<gen, linked, list, semOf, obj, rest, copy>>

SemWait(c, at, next) ==
  /\ pc[c] = at
  /\ sem[semOf[c]] > 0
  /\ sem' = [sem EXCEPT ![semOf[c]] = @ - 1]
  /\ Goto(c, next)
  /\ UNCHANGED <<gen, linked, list, semOf, obj, rest, copy>>

\* shm_open() and mmap() of the name list.  They fail when the server is gone,
\* and mmap() of strlen(name) bytes when the name is empty (client.c:44): the
\* client crashes inside the critical section.
OpenList(c, at, next) ==
  /\ pc[c] = at
  /\ IF linked /\ (next = "add" => NameOf[c] # <<>>)
     THEN Goto(c, next) /\ obj' = [obj EXCEPT ![c] = gen]
     ELSE Goto(c, "dead_in_section") /\ UNCHANGED obj
  /\ UNCHANGED <<gen, linked, sem, list, semOf, rest, copy>>

\* A sem_post() that was forgotten.
SemPostNot(c, at, next) ==
  /\ pc[c] = at
  /\ Goto(c, next)
  /\ UNCHANGED <<gen, linked, sem, list, semOf, obj, rest, copy>>

SemPost(c, at, next) ==
  /\ pc[c] = at
  /\ sem' = [sem EXCEPT ![semOf[c]] = @ + 1]
  /\ Goto(c, next)
  /\ UNCHANGED <<gen, linked, list, semOf, obj, rest, copy>>

\* send_name(): the two strcat() calls, one step: who holds the semaphore is
\* alone.  (Only clients of two generations could see one without the other.)
AddName(c) ==
  /\ pc[c] = "add"
  /\ list' = [list EXCEPT ![obj[c]] = Append(@, NameOf[c])]
  /\ GotoIfFits(c, "added", list'[obj[c]], ListSize)
  /\ UNCHANGED <<gen, linked, sem, semOf, obj, rest, copy>>

\* The tokens of the list with garbage g in front of it.
Tokens(g, l) ==
  IF l = <<>> THEN (IF g = <<>> THEN <<>> ELSE <<g>>)
  ELSE <<g \o Head(l)>> \o Tail(l)

\* delete_name(): buf[] gets what lies in it and the list behind it.  What
\* fits it fits the copy that is made of it.
LoadList(c) ==
  /\ pc[c] = "load"
  /\ \E h \in GhostLines, g \in Garbage :
       rest' = [rest EXCEPT ![c] = h \o Tokens(g, list[obj[c]])]
  /\ copy' = [copy EXCEPT ![c] = <<>>]
  /\ GotoIfFits(c, "copy", rest'[c], BufSize)
  /\ UNCHANGED <<gen, linked, sem, list, semOf, obj>>

\* A delete_name() that compares beginnings only.
CopyOthersPrefix(c) ==
  /\ pc[c] = "copy"
  /\ IF rest[c] = <<>>
     THEN Goto(c, "clear") /\ UNCHANGED <<rest, copy>>
     ELSE /\ copy' = IF Head(Head(rest[c])) # Head(NameOf[c])
                     THEN [copy EXCEPT ![c] = Append(@, Head(rest[c]))]
                     ELSE copy
          /\ rest' = [rest EXCEPT ![c] = Tail(@)]
          /\ UNCHANGED pc
  /\ UNCHANGED <<gen, linked, sem, list, semOf, obj>>

\* delete_name(): the strtok() loop copies the entries of the others.
CopyOthers(c) ==
  /\ pc[c] = "copy"
  /\ IF rest[c] = <<>>
     THEN Goto(c, "clear") /\ UNCHANGED <<rest, copy>>
     ELSE /\ copy' = IF Head(rest[c]) # NameOf[c]
                     THEN [copy EXCEPT ![c] = Append(@, Head(rest[c]))]
                     ELSE copy
          /\ rest' = [rest EXCEPT ![c] = Tail(@)]
          /\ UNCHANGED pc
  /\ UNCHANGED <<gen, linked, sem, list, semOf, obj>>

\* delete_name(): memset(), then strncat() of the copy.
ClearList(c) ==
  /\ pc[c] = "clear"
  /\ list' = [list EXCEPT ![obj[c]] = <<>>]
  /\ Goto(c, "write")
  /\ UNCHANGED <<gen, linked, sem, semOf, obj, rest, copy>>

\* The two arrays are gone when the function returns.
WriteList(c) ==
  /\ pc[c] = "write"
  /\ list' = [list EXCEPT ![obj[c]] = @ \o copy[c]]
  /\ GotoIfFits(c, "removed", list'[obj[c]], ListSize)
  /\ copy' = [copy EXCEPT ![c] = <<>>]
  /\ UNCHANGED <<gen, linked, sem, semOf, obj, rest>>

send_name(c) ==
  \/ SemWait(c, "enter", "open_to_add")
  \/ OpenList(c, "open_to_add", "add")
  \/ AddName(c)
  \/ SemPost(c, "added", "in")

\* F2
Leave(c) ==
  /\ pc[c] = "in"
  /\ Goto(c, "leave")
  /\ UNCHANGED <<gen, linked, sem, list, semOf, obj, rest, copy>>

delete_name(c) ==
  \/ SemWait(c, "leave", "open_to_delete")
  \/ OpenList(c, "open_to_delete", "load")
  \/ LoadList(c)
  \/ CopyOthers(c)
  \/ ClearList(c)
  \/ WriteList(c)
  \/ SemPost(c, "removed", "gone")

InSection ==
  {"open_to_add", "add", "added", "open_to_delete", "load", "copy", "clear", "write", "removed"}

\* The process is killed: a terminal is closed, Ctrl-C is not caught.
Killed(c) ==
  /\ pc[c] \notin {"out", "gone", "dead", "dead_in_section"}
  /\ Goto(c, IF pc[c] \in InSection THEN "dead_in_section" ELSE "dead")
  /\ UNCHANGED <<gen, linked, sem, list, semOf, obj, rest, copy>>

Next ==
  \/ ServerStarts \/ ServerStops
  \/ \E c \in Clients :
       Start(c) \/ send_name(c) \/ Leave(c) \/ delete_name(c) \/ Killed(c)

Spec == Init /\ [][Next]_vars

\* A client at work is scheduled.  It waits for the semaphore twice in its
\* life, so that nobody can overtake it for ever.  Nobody has to press keys.
Fairness ==
  \A c \in Clients : WF_vars(send_name(c)) /\ WF_vars(delete_name(c))

FairSpec == Spec /\ Fairness
----------------------------------------------------------------------------
\* Types: a semaphore is never posted above 1, and nobody uses an object of a
\* server that was not started.
TypeOK ==
  /\ gen \in 0..Starts
  /\ linked \in BOOLEAN
  /\ sem \in [Gens -> {0, 1}]
  /\ pc \in [Clients -> InSection \cup {"out", "enter", "in", "leave", "gone", "dead",
                                        "dead_in_section"}]
  /\ semOf \in [Clients -> 0..Starts]
  /\ obj \in [Clients -> 0..Starts]

\* The clients that hold the semaphore of generation g, dead ones included.
Holders(g) ==
  {c \in Clients : semOf[c] = g /\ pc[c] \in InSection \cup {"dead_in_section"}}

\* Each semaphore admits one client at a time, and none any more after a
\* client has died with it: its value and its holders always make one.
OnePerSemaphore ==
  \A g \in Gens : sem[g] + Cardinality(Holders(g)) = IF g <= gen THEN 1 ELSE 0

\* Where a client of the section has the list mapped.
OnList == InSection \ {"open_to_add", "open_to_delete"}

\* Two clients meet on one list only over a restart of the server: one of them
\* has opened an older semaphore than the list is (client.c:42,43).
StrangersMeet ==
  \A c, d \in Clients :
    c # d /\ pc[c] \in OnList /\ pc[d] \in OnList /\ obj[c] = obj[d]
      => semOf[c] < obj[c] \/ semOf[d] < obj[d]

\* What the semaphores guard: themselves, and the list against clients that
\* were started after the server was.
SemGuards == OnePerSemaphore /\ StrangersMeet

\* The lines of the list that end in the name of c, garbage in front or not.
Listed(c) == {i \in 1..Len(list[1]) : IsSuffix(NameOf[c], list[1][i])}

\* While the server is started once: whenever nobody is inside the section,
\* everybody who has entered the chat and not left it is on the list exactly
\* once, be it behind garbage that somebody else's delete_name() has added.
MembersListed ==
  gen = 1 /\ Holders(1) = {} =>
    \A c \in Clients : pc[c] \in {"in", "leave"} => Cardinality(Listed(c)) = 1

\* While the server is started once: the list holds nobody who has left and
\* nothing that nobody entered.  Garbage of delete_name() makes one exception,
\* however often it strikes: it stays at the top, lines of it and the one line
\* it is glued to, and never comes between or behind the entries.
NoGhosts ==
  gen = 1 /\ Holders(1) = {} =>
    \A i \in 1..Len(list[1]) :
      \/ \E c \in Clients : list[1][i] = NameOf[c] /\ pc[c] \in {"in", "leave", "dead"}
      \/ \A j \in 1..i : \E g \in Garbage \ {<<>>} : IsPrefix(g, list[1][j])

\* What ListRight needs of the names: nobody's name is the end of somebody
\* else's, and garbage neither begins nor ends a name nor ends in one.  Of two
\* users with the same name one would take the other off the list.
NamesApart ==
  \A c \in Clients : NameOf[c] # <<>> =>
    /\ \A d \in Clients \ {c} : ~IsSuffix(NameOf[c], NameOf[d])
    /\ \A g \in Garbage \ {<<>>} :
         ~IsPrefix(g, NameOf[c]) /\ ~IsSuffix(g, NameOf[c]) /\ ~IsSuffix(NameOf[c], g)

\* The name list (client.c:150-172) is complete and holds nobody else.
ListRight == MembersListed /\ NoGhosts

\* Whoever wants to enter or to leave gets through, unless he dies himself or
\* somebody has died inside the section with the semaphore he waits for; deaths
\* outside it and deaths with another server's semaphore stop nobody.
GetsThrough ==
  \A c \in Clients :
    pc[c] \in {"enter", "leave"} ~>
      \/ pc[c] \in {"in", "gone", "dead", "dead_in_section"}
      \/ \E d \in Clients : pc[d] = "dead_in_section" /\ semOf[d] = semOf[c]
============================================================================
