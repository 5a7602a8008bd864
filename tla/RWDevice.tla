------------------------------ MODULE RWDevice ------------------------------
(***************************************************************************)
(* ioctl: the character device of RW_module.c.  One pointer, msg_ptr,      *)
(* serves all who have the device open: open() sets it to the buffer, SET  *)
(* of "hello" to the answer, and GET advances it over the text and leaves  *)
(* it NULL.  The lock covers read() and write() only; every access of GET  *)
(* to msg_ptr is a step of its own.  A process may read, write, SET and    *)
(* GET in any order as long as it has the device open; hello.c does one    *)
(* SET and one GET.  read() matters for the position in the file only.     *)
(***************************************************************************)
EXTENDS KernelCalls, Integers, Sequences

CONSTANTS
  AnswerLength, \* 3, the characters of "Hi!"
  GetLength,    \* 4, the length that GET asks for
  BufSize,      \* 80, the bytes of msg_buff
  Lengths,      \* how much somebody may read or write
  MaxOpens      \* bound of the model: how often the device is opened

ASSUME RWAssumption ==
  /\ AnswerLength \in Nat /\ BufSize \in Nat
  /\ GetLength \in 1..BufSize
  /\ Lengths \subseteq Nat /\ MaxOpens \in Nat

VARIABLES
  msg_buff,  \* the places of the buffer that hold a character, not 0
  msg_ptr,   \* <<"buff", i>>, <<"answer", i>> or Null
  off,       \* the position of each process in the file it has open
  held,      \* the value of msg_ptr a process has loaded
  source,    \* history: what the last open, SET or GET chose: "buff", "answer" or "null"
  asked,     \* history: the source when the last call was a GET
  told       \* what that GET has given it

rwVars == <<msg_buff, msg_ptr, off, held, source, asked, told>>

Null == <<"null", 0>>
Nul == <<"nul", 0>>   \* the character that ends a text; others are named by their place

RWInit ==
  /\ msg_buff = {}
  /\ msg_ptr = Null
  /\ off = [u \in Users |-> 0]
  /\ held = [u \in Users |-> Null]
  /\ source = "null"
  /\ asked = "null"
  /\ told = [u \in Users |-> <<>>]

\* The places of the answer, or of the buffer, that hold a character.
Text(s) == IF s = "answer" THEN 0..(AnswerLength - 1) ELSE msg_buff

\* The bytes of the answer, with the 0 that ends it, or of the buffer.
Room(s) == IF s = "answer" THEN AnswerLength + 1 ELSE BufSize

\* The characters a pointer may point to.  Nobody knows what lies behind the
\* answer or the buffer.
At(p) ==
  IF p[2] < Room(p[1]) THEN {IF p[2] \in Text(p[1]) THEN p ELSE Nul}
  ELSE {Nul, <<"junk", 0>>}

Least(m, n) == IF m < n THEN m ELSE n

\* my_open() of a device that forgets to set the pointer.
my_open_keeps(u) ==
  /\ calls < MaxOpens
  /\ Enter(u, "ready", TRUE)
  /\ source' = "buff"
  /\ UNCHANGED <<msg_buff, msg_ptr, off, held, asked, told>>

my_open(u) ==
  /\ calls < MaxOpens
  /\ Enter(u, "ready", TRUE)
  /\ msg_ptr' = <<"buff", 0>>
  /\ source' = "buff"
  /\ UNCHANGED <<msg_buff, off, held, asked, told>>

\* A process that has the device open makes its next call.
Begin(u, label) ==
  /\ \E from \in {"ready", "answered"} : Step(u, from, label)
  /\ asked' = IF label = "get" THEN source ELSE "null"
  /\ told' = [told EXCEPT ![u] = <<>>]

\* my_ioctl(), IOCTL_SET_MSG
SetMsg(u, hello) ==
  /\ Begin(u, "ready")
  /\ msg_ptr' = IF hello THEN <<"answer", 0>> ELSE msg_ptr
  /\ source' = IF hello THEN "answer" ELSE source
  /\ UNCHANGED <<msg_buff, off, held>>

\* my_ioctl(), IOCTL_GET_MSG
GetMsg(u) ==
  /\ Begin(u, "get")
  /\ UNCHANGED <<msg_buff, msg_ptr, off, held, source>>

\* The kernel ends a process that follows NULL.
Oops(u, from) ==
  /\ msg_ptr = Null
  /\ Step(u, from, "killed")
  /\ UNCHANGED rwVars

\* device_read(): the first test of *msg_ptr, ...
FirstTest(u) ==
  \/ Oops(u, "get")
  \/ /\ msg_ptr # Null
     /\ \E ch \in At(msg_ptr) : Step(u, "get", IF ch = Nul THEN "answered" ELSE "while")
     /\ UNCHANGED rwVars

\* ... the condition of the loop, ...
While(u) ==
  \/ Len(told[u]) < GetLength /\ Oops(u, "while")
  \/ /\ \/ Len(told[u]) = GetLength /\ Step(u, "while", "reset")
        \/ /\ Len(told[u]) < GetLength /\ msg_ptr # Null
           /\ \E ch \in At(msg_ptr) : Step(u, "while", IF ch = Nul THEN "reset" ELSE "load")
     /\ UNCHANGED rwVars

\* ... msg_ptr++ in two accesses, and put_user(), ...  All places behind the
\* end of a text are one.
LoadPtr(u) ==
  \/ Oops(u, "load")
  \/ /\ msg_ptr # Null
     /\ Step(u, "load", "put")
     /\ held' = [held EXCEPT ![u] = msg_ptr]
     /\ UNCHANGED <<msg_buff, msg_ptr, off, source, asked, told>>

PutUser(u) ==
  /\ Step(u, "put", "while")
  /\ msg_ptr' = <<held[u][1], Least(held[u][2] + 1, Room(held[u][1]))>>
  /\ \E ch \in At(held[u]) : told' = [told EXCEPT ![u] = Append(@, ch)]
  /\ held' = [held EXCEPT ![u] = Null]
  /\ UNCHANGED <<msg_buff, off, source, asked>>

\* ... and the end.
ResetPtr(u) ==
  /\ Step(u, "reset", "answered")
  /\ msg_ptr' = Null
  /\ source' = "null"
  /\ UNCHANGED <<msg_buff, off, held, asked, told>>

device_read(u) == FirstTest(u) \/ While(u) \/ LoadPtr(u) \/ PutUser(u) \/ ResetPtr(u)

my_read(u, len) ==
  /\ Begin(u, "ready")
  /\ off' = [off EXCEPT ![u] = Least(@ + len, BufSize)]
  /\ UNCHANGED <<msg_buff, msg_ptr, held, source>>

\* my_write(): the buffer is cleared before the length is tested and the lock
\* is taken; the text goes to the position in the file.
ClearBuff(u) ==
  /\ Begin(u, "write")
  /\ msg_buff' = {}
  /\ UNCHANGED <<msg_ptr, off, held, source>>

WriteBuff(u, len) ==
  LET n == IF len > BufSize THEN 0 ELSE Least(len, BufSize - off[u])
  IN  /\ Step(u, "write", "ready")
      /\ msg_buff' = msg_buff \cup off[u]..(off[u] + n - 1)
      /\ off' = [off EXCEPT ![u] = @ + n]
      /\ UNCHANGED <<msg_ptr, held, source, asked, told>>

\* close(), or the end of a process that was killed
my_release(u) ==
  /\ \E from \in {"ready", "answered", "killed"} : Step(u, from, "out")
  /\ off' = [off EXCEPT ![u] = 0]
  /\ held' = [held EXCEPT ![u] = Null]
  /\ told' = [told EXCEPT ![u] = <<>>]
  /\ UNCHANGED <<msg_buff, msg_ptr, source, asked>>

\* cleanup_module() and init_module(): not while somebody has the device open.
RWReload ==
  /\ Busy = {}
  /\ msg_buff' = {}
  /\ msg_ptr' = Null
  /\ UNCHANGED <<callVars, off, held, source, asked, told>>

RWNext ==
  \/ RWReload
  \/ \E u \in Users :
    \/ my_open(u) \/ GetMsg(u) \/ device_read(u) \/ ClearBuff(u) \/ my_release(u)
    \/ \E hello \in BOOLEAN : SetMsg(u, hello)
    \/ \E len \in Lengths : my_read(u, len) \/ WriteBuff(u, len)

RWSpec == CallsInit /\ RWInit /\ [][RWNext]_<<callVars, rwVars>>
----------------------------------------------------------------------------
\* A client that has the device for itself is ended by a NULL in msg_ptr
\* (RW_module.c:63,73) only if it asks a second time without a new "hello":
\* what others left there, whatever they did, never ends it.  Every answer
\* is the beginning of the text its own calls since its open chose, "Hi!" or the
\* buffer as it is then, up to the text's end or the length of GET.
AloneAnswered ==
  ~tainted => \A u \in Users :
    /\ at[u] = "killed" => asked = "null"
    /\ at[u] = "answered" =>
         /\ asked # "null"
         /\ Len(told[u]) <= GetLength
         /\ \A i \in 1..Len(told[u]) :
              told[u][i] = <<asked, i - 1>> /\ i - 1 \in Text(asked)
         /\ Len(told[u]) = GetLength \/ Len(told[u]) \notin Text(asked)
============================================================================
