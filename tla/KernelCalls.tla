---------------------------- MODULE KernelCalls ----------------------------
(***************************************************************************)
(* Processes inside the handlers of a character device, a /proc file or a  *)
(* /sys file.  The kernel (external) lets any number of them in at a time. *)
(***************************************************************************)
EXTENDS Naturals, FiniteSets

CONSTANTS
  Users,    \* processes that use the file
  MaxCalls  \* bound of the model: calls of all processes together

ASSUME CallsAssumption == IsFiniteSet(Users) /\ MaxCalls \in Nat

VARIABLES
  at,       \* where each process is; "out" is outside of the module
  calls,    \* how many calls there were
  tainted   \* history: calls overlapped, and none alone has set things right

callVars == <<at, calls, tainted>>

Busy == {u \in Users : at[u] # "out"}

CallsInit ==
  /\ at = [u \in Users |-> "out"]
  /\ calls = 0
  /\ tainted = FALSE

\* A call begins; one that heals sets all shared state anew if it stays alone.
Enter(u, label, heals) ==
  /\ at[u] = "out"
  /\ calls < MaxCalls
  /\ calls' = calls + 1
  /\ at' = [at EXCEPT ![u] = label]
  /\ tainted' = (Busy # {} \/ (tainted /\ ~heals))

Step(u, from, to) ==
  /\ at[u] = from
  /\ at' = [at EXCEPT ![u] = to]
  /\ UNCHANGED <<calls, tainted>>
============================================================================
