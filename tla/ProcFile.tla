------------------------------ MODULE ProcFile ------------------------------
(***************************************************************************)
(* proc/hello.c: a /proc file.  Writing a text that begins with "hello\n"  *)
(* sets temp to the number of bytes written; reading takes at most temp    *)
(* bytes and subtracts them. temp is read three times in one read, without *)
(* a lock, and compared as unsigned.  A read of 0 bytes sets temp to the   *)
(* global len, which is always 0: write_proc() has a len of its own.       *)
(***************************************************************************)
EXTENDS KernelCalls, Integers

CONSTANTS
  Counts,  \* how much a reader asks for
  Hellos   \* how long a text is that begins with "hello\n"

ASSUME ProcAssumption == Counts \subseteq Nat /\ Hellos \subseteq Nat

VARIABLES
  temp,
  count,    \* the count of each call
  left,     \* temp - count, before it is stored
  granted,  \* history: what the last "hello" granted, ...
  given     \* ... and the bytes given since

procVars == <<temp, count, left, granted, given>>

ProcInit ==
  /\ temp = 0
  /\ count = [u \in Users |-> 0]
  /\ left = [u \in Users |-> 0]
  /\ granted = 0
  /\ given = 0

\* write_proc(): any other text changes nothing.
write_proc(u, n) ==
  /\ Enter(u, "write", TRUE)
  /\ count' = [count EXCEPT ![u] = n]
  /\ UNCHANGED <<temp, left, granted, given>>

SetTemp(u) ==
  /\ Step(u, "write", "out")
  /\ temp' = count[u]
  /\ granted' = count[u]
  /\ given' = 0
  /\ count' = [count EXCEPT ![u] = 0]
  /\ UNCHANGED left

\* read_proc()
read_proc(u, n) ==
  /\ Enter(u, "clip", FALSE)
  /\ count' = [count EXCEPT ![u] = n]
  /\ UNCHANGED <<temp, left, granted, given>>

\* A test that lets one byte more pass.
ClipLate(u) ==
  /\ Step(u, "clip", IF temp >= 0 /\ count[u] > temp + 1 THEN "cut" ELSE "subtract")
  /\ UNCHANGED procVars

\* if(count > temp): a negative temp is a large unsigned number.
Clip(u) ==
  /\ Step(u, "clip", IF temp >= 0 /\ count[u] > temp THEN "cut" ELSE "subtract")
  /\ UNCHANGED procVars

\* The second access to temp.
Cut(u) ==
  /\ Step(u, "cut", "subtract")
  /\ count' = [count EXCEPT ![u] = temp]
  /\ UNCHANGED <<temp, left, granted, given>>

\* temp = temp-count, in two accesses
Subtract(u) ==
  /\ Step(u, "subtract", "store")
  /\ left' = [left EXCEPT ![u] = temp - count[u]]
  /\ UNCHANGED <<temp, count, granted, given>>

StoreTemp(u) ==
  /\ Step(u, "store", "copy")
  /\ temp' = left[u]
  /\ left' = [left EXCEPT ![u] = 0]
  /\ UNCHANGED <<count, granted, given>>

\* copy_to_user(), and the reset at the end of the file.  Who asks for 0 bytes
\* before the end gives up what is left.
CopyOut(u) ==
  /\ Step(u, "copy", "out")
  /\ IF count[u] = 0
     THEN temp' = 0 /\ granted' = given
     ELSE UNCHANGED <<temp, granted>>
  /\ given' = given + count[u]
  /\ count' = [count EXCEPT ![u] = 0]
  /\ UNCHANGED left

\* proc_exit(), which waits for the calls under way, and proc_init().
ProcReload ==
  /\ Busy = {}
  /\ temp' = 0 /\ granted' = 0 /\ given' = 0
  /\ tainted' = FALSE
  /\ UNCHANGED <<at, calls, count, left>>

ProcNext ==
  \/ ProcReload
  \/ \E u \in Users :
    \/ (\E n \in Hellos : write_proc(u, n)) \/ SetTemp(u)
    \/ \E n \in Counts : read_proc(u, n)
    \/ Clip(u) \/ Cut(u) \/ Subtract(u) \/ StoreTemp(u) \/ CopyOut(u)

ProcSpec == CallsInit /\ ProcInit /\ [][ProcNext]_<<callVars, procVars>>
----------------------------------------------------------------------------
\* As long as no calls overlap after a "hello", the readers together get what
\* it granted and no more, in portions of any size, and temp (hello.c:19) is
\* what is left; overlapping reads before that "hello" do no harm.
BudgetKept ==
  ~tainted /\ Busy = {} => temp >= 0 /\ given + temp = granted
============================================================================
