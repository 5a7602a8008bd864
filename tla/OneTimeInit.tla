---------------------------- MODULE OneTimeInit ----------------------------
(***************************************************************************)
(* one_time_init(): threads that share a once_control call it any number   *)
(* of times; the first call runs the callback init() under the mutex and   *)
(* returns 0.  A call that finds the indicator set returns 1 from inside   *)
(* the critical section (oni.c:8-11): it never unlocks the mutex.          *)
(***************************************************************************)
EXTENDS Naturals, FiniteSets

CONSTANTS
  Threads,   \* the calling threads
  Nobody,    \* the owner of a free mutex
  MaxCalls   \* bound of the model: calls per thread

ASSUME OnceAssumption ==
  /\ Nobody \notin Threads
  /\ MaxCalls \in Nat

VARIABLES
  mutex,      \* c->mutex: its owner
  indicator,  \* c->indicator
  pc,         \* where each thread is
  calls,      \* how many calls each thread has made
  inits,      \* history: how often init() was entered
  ready,      \* history: init() has returned
  returned    \* history: the set of <<thread, call number, value>> returned

vars == <<mutex, indicator, pc, calls, inits, ready, returned>>

\* The once_control as its user sets it up: clear and unlocked (external).
Init ==
  /\ mutex = Nobody
  /\ indicator = FALSE
  /\ pc = [t \in Threads |-> "out"]
  /\ calls = [t \in Threads |-> 0]
  /\ inits = 0
  /\ ready = FALSE
  /\ returned = {}

Goto(t, l) == pc' = [pc EXCEPT ![t] = l]

Return(t, v) ==
  /\ Goto(t, "out")
  /\ returned' = returned \cup {<<t, calls[t], v>>}

Call(t) ==
  /\ pc[t] = "out"
  /\ calls[t] < MaxCalls
  /\ calls' = [calls EXCEPT ![t] = @ + 1]
  /\ Goto(t, "lock")
  /\ UNCHANGED <<mutex, indicator, inits, ready, returned>>

Lock(t) ==
  /\ pc[t] = "lock"
  /\ mutex = Nobody
  /\ mutex' = t
  /\ Goto(t, "test")
  /\ UNCHANGED <<indicator, calls, inits, ready, returned>>

\* A test that unlocks before it runs init().
TestUnlocksFirst(t) ==
  /\ pc[t] = "test"
  /\ ~indicator
  /\ indicator' = TRUE
  /\ inits' = inits + 1
  /\ mutex' = Nobody
  /\ Goto(t, "init")
  /\ UNCHANGED <<calls, ready, returned>>

\* The first call: the indicator is set before init() is entered.
TestFirst(t) ==
  /\ pc[t] = "test"
  /\ ~indicator
  /\ indicator' = TRUE
  /\ inits' = inits + 1
  /\ Goto(t, "init")
  /\ UNCHANGED <<mutex, calls, ready, returned>>

\* A later call: return 1, the mutex stays locked.
TestAgain(t) ==
  /\ pc[t] = "test"
  /\ indicator
  /\ Return(t, 1)
  /\ UNCHANGED <<mutex, indicator, calls, inits, ready>>

InitReturns(t) ==
  /\ pc[t] = "init"
  /\ ready' = TRUE
  /\ Goto(t, "unlock")
  /\ UNCHANGED <<mutex, indicator, calls, inits, returned>>

\* A first call that returns 0 without the unlock (oni.c:19 left out).
UnlockForgets(t) ==
  /\ pc[t] = "unlock"
  /\ Return(t, 0)
  /\ UNCHANGED <<mutex, indicator, calls, inits, ready>>

Unlock(t) ==
  /\ pc[t] = "unlock"
  /\ mutex' = Nobody
  /\ Return(t, 0)
  /\ UNCHANGED <<indicator, calls, inits, ready>>

ThreadNext(t) ==
  Call(t) \/ Lock(t) \/ TestFirst(t) \/ TestAgain(t) \/ InitReturns(t) \/ Unlock(t)

Next == \E t \in Threads : ThreadNext(t)

Spec == Init /\ [][Next]_vars

\* A thread inside a call is eventually scheduled, and init() returns.  The
\* first call unlocks and the second is refused, so the mutex is taken at most
\* twice: it cannot be snatched away for ever, and weak fairness is enough.
Fairness == \A t \in Threads : WF_vars(ThreadNext(t) /\ ~Call(t))

FairSpec == Spec /\ Fairness
----------------------------------------------------------------------------
\* Types: the mutex has one owner and every answer is 0 or 1.
TypeOK ==
  /\ mutex \in Threads \cup {Nobody}
  /\ indicator \in BOOLEAN
  /\ pc \in [Threads -> {"out", "lock", "test", "init", "unlock"}]
  /\ calls \in [Threads -> Nat]
  /\ inits \in Nat
  /\ ready \in BOOLEAN
  /\ returned \subseteq Threads \X Nat \X {0, 1}

\* The contract of one_time_init (oni.c:4-22): init() is entered at most once,
\* and whoever gets an answer, 0 or 1, finds init() complete, although the
\* indicator is set before init() runs.
OnceContract ==
  /\ inits <= 1
  /\ returned # {} => ready

\* Some call has returned 1, and with it the mutex was left locked (oni.c:10).
Leaked == \E r \in returned : r[3] = 1

\* The inductive invariant: a thread past the lock owns the mutex, unless a
\* refusal has leaked it; the indicator tells that init() was entered.
OwnsMutex ==
  \A t \in Threads :
    pc[t] \in {"test", "init", "unlock"} => mutex = t /\ ~Leaked

InitTold ==
  /\ indicator => inits = 1
  /\ ~indicator => inits = 0
  /\ ready => indicator
  /\ \A t \in Threads : /\ pc[t] = "init" => indicator /\ ~ready /\ returned = {}
                        /\ pc[t] = "unlock" => ready /\ returned = {}
                        /\ pc[t] = "test" /\ indicator => ready
  /\ mutex = Nobody /\ indicator => ready
  /\ Leaked => mutex # Nobody

\* The inductive invariant of one_time_init(): the contract, who owns the mutex
\* and what the indicator tells.
OnceInv == TypeOK /\ OnceContract /\ OwnsMutex /\ InitTold

\* Every call is answered unless a call was refused: only the return at oni.c:10
\* can leave a caller asleep in pthread_mutex_lock(), never the first call, whose
\* init() runs inside the critical section and whose unlock is oni.c:19.
AnsweredUnlessRefused ==
  \A t \in Threads : pc[t] = "lock" ~> (pc[t] = "out" \/ Leaked)
============================================================================
