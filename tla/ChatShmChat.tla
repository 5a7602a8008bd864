---------------------------- MODULE ChatShmChat ----------------------------
(***************************************************************************)
(* chat 2, the chat: a shared memory object that every client appends its  *)
(* messages to with strcat() (client.c:76), without the semaphore.         *)
(* strcat() looks for the terminating zero, copies the message byte by     *)
(* byte and terminates it.  Two clients that do so at the same time write  *)
(* to the same place; the model keeps every interleaving of their          *)
(* accesses to the memory.                                                 *)
(***************************************************************************)
EXTENDS Naturals, Sequences, FiniteSets

CONSTANTS
  Senders,     \* the client processes
  None,        \* no client
  Lengths,     \* the lengths of messages
  MaxSends,    \* bound of the model: messages of each client
  ChatSize     \* bytes of the object; large enough that it is not overrun

ASSUME ChatShmAssumption ==
  /\ None \notin Senders
  /\ Lengths \subseteq Nat \ {0}
  /\ MaxSends \in Nat
  /\ ChatSize \in Nat

VARIABLES
  mem,    \* the object chat
  spc,    \* where each client is: idle, scan, copy, dead
  pos,    \* the byte its strcat() is at
  len,    \* the length of the message it sends
  copied, \* how much of it is copied
  sends,  \* how many messages each client has begun
  alone,  \* history: no other strcat() ran since this one was called
  solo    \* history: the messages that were appended alone, and their place

strcatVars == <<mem, spc, pos, len, copied, sends, alone, solo>>

Zero == <<None, 0, 0>>
Byte(c, n, i) == <<c, n, i>>  \* byte i of the n-th message of c

\* ftruncate() fills the new object with zeroes.
StrcatInit ==
  /\ mem = [i \in 0..(ChatSize - 1) |-> Zero]
  /\ spc = [c \in Senders |-> "idle"]
  /\ pos = [c \in Senders |-> 0]
  /\ len = [c \in Senders |-> 0]
  /\ copied = [c \in Senders |-> 0]
  /\ sends = [c \in Senders |-> 0]
  /\ alone = [c \in Senders |-> FALSE]
  /\ solo = {}

Active == {c \in Senders : spc[c] \in {"scan", "copy"}}

\* send_message(): strcat() is called.
Call(c, l) ==
  /\ spc[c] = "idle"
  /\ sends[c] < MaxSends
  /\ spc' = [spc EXCEPT ![c] = "scan"]
  /\ pos' = [pos EXCEPT ![c] = 0]
  /\ len' = [len EXCEPT ![c] = l]
  /\ copied' = [copied EXCEPT ![c] = 0]
  /\ sends' = [sends EXCEPT ![c] = @ + 1]
  /\ alone' = [d \in Senders |-> IF d = c THEN Active = {} ELSE FALSE]
  /\ UNCHANGED <<mem, solo>>

\* A strcat() that starts to copy behind the terminating zero.
ScanTooFar(c) ==
  /\ spc[c] = "scan"
  /\ pos' = [pos EXCEPT ![c] = @ + 1]
  /\ spc' = [spc EXCEPT ![c] = IF mem[pos[c]] = Zero THEN "copy" ELSE "scan"]
  /\ UNCHANGED <<mem, len, copied, sends, alone, solo>>

\* The search for the end reads one byte.
Scan(c) ==
  /\ spc[c] = "scan"
  /\ IF mem[pos[c]] = Zero
     THEN spc' = [spc EXCEPT ![c] = "copy"] /\ UNCHANGED pos
     ELSE pos' = [pos EXCEPT ![c] = @ + 1] /\ UNCHANGED spc
  /\ UNCHANGED <<mem, len, copied, sends, alone, solo>>

\* One byte of the message is copied.
Copy(c) ==
  /\ spc[c] = "copy"
  /\ copied[c] < len[c]
  /\ mem' = [mem EXCEPT ![pos[c]] = Byte(c, sends[c], copied[c] + 1)]
  /\ pos' = [pos EXCEPT ![c] = @ + 1]
  /\ copied' = [copied EXCEPT ![c] = @ + 1]
  /\ UNCHANGED <<spc, len, sends, alone, solo>>

\* The message is terminated and strcat() returns.
Terminate(c) ==
  /\ spc[c] = "copy"
  /\ copied[c] = len[c]
  /\ mem' = [mem EXCEPT ![pos[c]] = Zero]
  /\ spc' = [spc EXCEPT ![c] = "idle"]
  /\ solo' = IF alone[c]
             THEN solo \cup {[by |-> c, nr |-> sends[c], at |-> pos[c] - len[c],
                              len |-> len[c]]}
             ELSE solo
  /\ UNCHANGED <<pos, len, copied, sends, alone>>

\* The process is killed; what it has copied stays.
KilledSending(c) ==
  /\ c \in Active
  /\ spc' = [spc EXCEPT ![c] = "dead"]
  /\ UNCHANGED <<mem, pos, len, copied, sends, alone, solo>>

send_message(c) ==
  \/ \E l \in Lengths : Call(c, l)
  \/ Scan(c) \/ Copy(c) \/ Terminate(c)

StrcatNext == \E c \in Senders : send_message(c) \/ KilledSending(c)

StrcatSpec == StrcatInit /\ [][StrcatNext]_strcatVars
----------------------------------------------------------------------------
\* A message whose strcat() met no other one stays in the chat for good: its
\* bytes are where they were written, and no zero in front of them hides it
\* from the readers (client.c:136), whatever races come later and whoever is
\* killed inside strcat().
SoloKept ==
  \A m \in solo :
    /\ \A i \in 1..m.len : mem[m.at + i - 1] = Byte(m.by, m.nr, i)
    /\ \A i \in 0..(m.at - 1) : mem[i] # Zero

\* The object has a byte for everything that can be sent to it and one for the
\* zero behind it, when no message is longer than l.
RoomFor(l) ==
  /\ l \in Nat
  /\ Lengths \subseteq 1..l
  /\ IsFiniteSet(Senders)
  /\ Cardinality(Senders) * MaxSends * l < ChatSize
============================================================================
