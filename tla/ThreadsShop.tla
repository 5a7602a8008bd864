---------------------------- MODULE ThreadsShop ----------------------------
(***************************************************************************)
(* threads_shop: one loader thread fills the shelves of a shop, customer   *)
(* threads empty them until their needs are met, main joins all of them    *)
(* and prints the leftovers.                                               *)
(*                                                                         *)
(* A shelf is guarded by its own mutex.  Three accesses are not guarded:   *)
(* the emptiness test of a customer (purchases.c:12), the increment of the *)
(* counter of finished customers (purchases.c:35) and its test by the      *)
(* loader (loading.c:7).  A read and the write that depends on it are two  *)
(* steps, so every interleaving of the threads' memory accesses is here.   *)
(***************************************************************************)
EXTENDS Naturals, FiniteSets

CONSTANTS
  Customers,    \* the customer threads (customers[3])
  Loader,       \* the loader thread
  None,         \* the owner of a free mutex
  Shelves,      \* the indices of store[] and mutex[]
  InitStock,    \* random_number(1000, 1200)
  LoadAmounts,  \* random_number(300, 500)
  Needs,        \* random_number(3000, 3500)
  StoreCap      \* bound of the model: the loader skips a shelf above it

ASSUME ShopAssumption ==
  /\ IsFiniteSet(Customers)
  /\ Loader \notin Customers
  /\ None \notin Customers \cup {Loader}
  /\ InitStock \subseteq Nat
  /\ LoadAmounts \subseteq Nat
  /\ Needs \subseteq Nat \ {0}
  /\ StoreCap \in Nat

Threads == Customers \cup {Loader}

\* The 3 of loading.c:7 and of the customers main creates.
Quota == Cardinality(Customers)

VARIABLES
  store,    \* int store[5]
  mutex,    \* pthread_mutex_t mutex[5]: the owner of each
  sum,      \* int sum, shared without a lock
  pc,       \* where each thread is
  at,       \* the local j of each thread
  need,     \* the local need of each customer
  reg,      \* the value a thread has read and not yet written back
  printed,  \* main has joined all threads and printed the leftovers
  wanted,   \* history: the need each customer started with
  stocked,  \* history: all that was ever put on a shelf
  sold      \* history: all that was ever taken from a shelf

vars == <<store, mutex, sum, pc, at, need, reg, printed, wanted, stocked, sold>>

\* A thread that exists and was not scheduled yet cannot be told from one
\* that main has not created yet: all threads are there from the start.
Init ==
  /\ store \in [Shelves -> InitStock]
  /\ mutex = [j \in Shelves |-> None]
  /\ sum = 0
  /\ pc = [t \in Threads |-> IF t = Loader THEN "while" ELSE "pick"]
  /\ at \in {[t \in Threads |-> j] : j \in Shelves}
  /\ need \in [Customers -> Needs]
  /\ reg = [t \in Threads |-> 0]
  /\ printed = FALSE
  /\ wanted = need
  /\ stocked = store
  /\ sold = [j \in Shelves |-> 0]

Goto(t, l) == pc' = [pc EXCEPT ![t] = l]
----------------------------------------------------------------------------
(* What both kinds of threads do with a mutex and with a shelf. *)

\* A lock call that does not wait for the owner.
LockNoWait(t, next) ==
  /\ pc[t] = "lock"
  /\ mutex' = [mutex EXCEPT ![at[t]] = t]
  /\ Goto(t, next)
  /\ UNCHANGED <<store, sum, at, need, reg, printed, wanted, stocked, sold>>

Lock(t, next) ==
  /\ pc[t] = "lock"
  /\ mutex[at[t]] = None
  /\ mutex' = [mutex EXCEPT ![at[t]] = t]
  /\ Goto(t, next)
  /\ UNCHANGED <<store, sum, at, need, reg, printed, wanted, stocked, sold>>

Unlock(t, next) ==
  /\ pc[t] = "unlock"
  /\ mutex' = [mutex EXCEPT ![at[t]] = None]
  /\ Goto(t, next)
  /\ UNCHANGED <<store, sum, at, need, reg, printed, wanted, stocked, sold>>

ReadStore(t, next) ==
  /\ pc[t] = "read"
  /\ reg' = [reg EXCEPT ![t] = store[at[t]]]
  /\ Goto(t, next)
  /\ UNCHANGED <<store, mutex, sum, at, need, printed, wanted, stocked, sold>>
----------------------------------------------------------------------------
(* loading() *)

\* A loader that stops when one customer is still to finish.
LoaderWhileEarly(j) ==
  /\ pc[Loader] = "while"
  /\ \/ /\ sum + 1 < Quota
        /\ store[j] <= StoreCap
        /\ at' = [at EXCEPT ![Loader] = j]
        /\ Goto(Loader, "lock")
     \/ /\ sum + 1 >= Quota
        /\ at' = at
        /\ Goto(Loader, "done")
  /\ UNCHANGED <<store, mutex, sum, need, reg, printed, wanted, stocked, sold>>

\* A loader that waits for one customer more than there are.
LoaderWhileLate(j) ==
  /\ pc[Loader] = "while"
  /\ \/ /\ sum <= Quota
        /\ store[j] <= StoreCap
        /\ at' = [at EXCEPT ![Loader] = j]
        /\ Goto(Loader, "lock")
     \/ /\ sum > Quota
        /\ at' = at
        /\ Goto(Loader, "done")
  /\ UNCHANGED <<store, mutex, sum, need, reg, printed, wanted, stocked, sold>>

LoaderWhile(j) ==
  /\ pc[Loader] = "while"
  /\ \/ /\ sum < Quota
        /\ store[j] <= StoreCap
        /\ at' = [at EXCEPT ![Loader] = j]
        /\ Goto(Loader, "lock")
     \/ /\ sum >= Quota
        /\ at' = at
        /\ Goto(Loader, "done")
  /\ UNCHANGED <<store, mutex, sum, need, reg, printed, wanted, stocked, sold>>

LoaderAdd(n) ==
  /\ pc[Loader] = "write"
  /\ store' = [store EXCEPT ![at[Loader]] = reg[Loader] + n]
  /\ stocked' = [stocked EXCEPT ![at[Loader]] = @ + n]
  /\ reg' = [reg EXCEPT ![Loader] = 0]
  /\ Goto(Loader, "unlock")
  /\ UNCHANGED <<mutex, sum, at, need, printed, wanted, sold>>

LoaderNext ==
  \/ \E j \in Shelves : LoaderWhile(j)
  \/ Lock(Loader, "read")
  \/ ReadStore(Loader, "write")
  \/ \E n \in LoadAmounts : LoaderAdd(n)
  \/ Unlock(Loader, "while")
----------------------------------------------------------------------------
(* purchases() *)

\* An empty shelf sends the customer to sleep and back to the choice of j:
\* no variable changes, so only the other outcome is a step.
Pick(c, j) ==
  /\ pc[c] = "pick"
  /\ store[j] # 0
  /\ at' = [at EXCEPT ![c] = j]
  /\ Goto(c, "lock")
  /\ UNCHANGED <<store, mutex, sum, need, reg, printed, wanted, stocked, sold>>

Take(c) ==
  LET taken == IF need[c] >= reg[c] THEN reg[c] ELSE need[c]
  IN  /\ pc[c] = "write"
      /\ need' = [need EXCEPT ![c] = @ - taken]
      /\ store' = [store EXCEPT ![at[c]] = reg[c] - taken]
      /\ sold' = [sold EXCEPT ![at[c]] = @ + taken]
      /\ reg' = [reg EXCEPT ![c] = 0]
      /\ Goto(c, "unlock")
      /\ UNCHANGED <<mutex, sum, at, printed, wanted, stocked>>

ReadSum(c) ==
  /\ pc[c] = "count"
  /\ reg' = [reg EXCEPT ![c] = sum]
  /\ Goto(c, "inc")
  /\ UNCHANGED <<store, mutex, sum, at, need, printed, wanted, stocked, sold>>

WriteSum(c) ==
  /\ pc[c] = "inc"
  /\ sum' = reg[c] + 1
  /\ reg' = [reg EXCEPT ![c] = 0]
  /\ Goto(c, "done")
  /\ UNCHANGED <<store, mutex, at, need, printed, wanted, stocked, sold>>

CustomerNext(c) ==
  \/ \E j \in Shelves : Pick(c, j)
  \/ Lock(c, "read")
  \/ ReadStore(c, "write")
  \/ Take(c)
  \/ Unlock(c, IF need[c] = 0 THEN "count" ELSE "pick")
  \/ ReadSum(c)
  \/ WriteSum(c)
----------------------------------------------------------------------------
(* main(): the joins and the printing of the leftovers. *)

\* A main that forgets to join the loader.
MainPrintsSoon ==
  /\ ~printed
  /\ \A c \in Customers : pc[c] = "done"
  /\ printed' = TRUE
  /\ UNCHANGED <<store, mutex, sum, pc, at, need, reg, wanted, stocked, sold>>

MainPrint ==
  /\ ~printed
  /\ \A t \in Threads : pc[t] = "done"
  /\ printed' = TRUE
  /\ UNCHANGED <<store, mutex, sum, pc, at, need, reg, wanted, stocked, sold>>

Next == LoaderNext \/ MainPrint \/ \E c \in Customers : CustomerNext(c)

Spec == Init /\ [][Next]_vars

(***************************************************************************)
(* Fairness.  A runnable thread is eventually scheduled (weak fairness).   *)
(* Between two of its lock calls the loader sleeps for a second, so a      *)
(* customer blocked on a mutex gets it in the end (strong fairness of its  *)
(* lock).  A customer that keeps drawing shelves draws a full one when one *)
(* stays full (weak fairness of the draw): rand() returns every residue.   *)
(***************************************************************************)
Fairness ==
  /\ WF_vars(LoaderNext)
  /\ WF_vars(MainPrint)
  /\ \A c \in Customers : WF_vars(CustomerNext(c)) /\ SF_vars(Lock(c, "read"))

FairSpec == Spec /\ Fairness
----------------------------------------------------------------------------
\* Types: no shelf and no need ever falls below 0, although a customer
\* subtracts what it has read before.
TypeOK ==
  /\ store \in [Shelves -> Nat]
  /\ mutex \in [Shelves -> Threads \cup {None}]
  /\ sum \in Nat
  /\ pc \in [Threads -> {"while", "pick", "lock", "read", "write", "unlock",
                         "count", "inc", "done"}]
  /\ at \in [Threads -> Shelves]
  /\ need \in [Customers -> Nat]
  /\ reg \in [Threads -> Nat]
  /\ printed \in BOOLEAN
  /\ wanted \in [Customers -> Nat]
  /\ stocked \in [Shelves -> Nat]
  /\ sold \in [Shelves -> Nat]

\* The shelf balance: what lies on a shelf is what was put there less what
\* was sold from it, in every state and not only while its mutex is free.
\* The two-step updates of store[j] in loading() and purchases() lose
\* nothing although they are interleaved (loading.c:13, purchases.c:20-29).
ShelfLedger == \A j \in Shelves : store[j] + sold[j] = stocked[j]

\* The customers main counts as finished.
Finished == {c \in Customers : pc[c] = "done"}

\* The unprotected counter may lag behind the customers that have finished
\* but never runs ahead of them, so the loader cannot leave a customer
\* without supply: once it has stopped (loading.c:7), every need is 0.
LoaderStopsLast ==
  pc[Loader] = "done" => \A c \in Customers : pc[c] = "done" /\ need[c] = 0

\* The inductive invariant behind ShelfLedger and LoaderStopsLast.  A thread
\* between pthread_mutex_lock and pthread_mutex_unlock owns the mutex of its
\* shelf, so the value it has read is still the one on the shelf when it
\* writes back; a value of sum in a customer's register is stale but never
\* too large; and only a customer without needs counts itself.
OwnsShelf ==
  \A t \in Threads :
    pc[t] \in {"read", "write", "unlock"} => mutex[at[t]] = t

FreshRead == \A t \in Threads : pc[t] = "write" => reg[t] = store[at[t]]

SumLags ==
  /\ sum <= Cardinality(Finished)
  /\ \A c \in Customers : pc[c] = "inc" => reg[c] <= Cardinality(Finished)

NoNeedLeft ==
  /\ \A c \in Customers : pc[c] \in {"count", "inc", "done"} => need[c] = 0
  /\ \A c \in Customers : pc[c] # "while"
  /\ pc[Loader] \notin {"pick", "count", "inc"}
  /\ printed => \A t \in Threads : pc[t] = "done"

\* The inductive invariant of the shop: a thread inside a shelf owns its mutex
\* and has read the current stock, the books balance, and the counter never
\* runs ahead of the finished customers.
ShopInv ==
  /\ TypeOK
  /\ OwnsShelf
  /\ FreshRead
  /\ ShelfLedger
  /\ SumLags
  /\ NoNeedLeft
  /\ LoaderStopsLast

\* "All needs of customers are met!" (main.c:36) is printed only when it is
\* true, and the leftovers printed after it are final: no step that follows
\* changes a shelf.
LeftoversFinal ==
  [][printed => store' = store /\ \A c \in Customers : need[c] = 0]_vars

\* Every customer's need is met in the end (the loop of purchases.c:8-38
\* terminates for each customer, whatever shelves the others empty).
EveryNeedMet == \A c \in Customers : <>[](need[c] = 0)

\* main joins everybody and prints the leftovers in the end (main.c:30-43), unless
\* an increment of the unprotected counter was lost: this is all that can keep
\* the loader in the loop of loading.c:7-18 for ever.
PrintsUnlessLost == <>printed \/ <>(Finished = Customers /\ sum < Quota)

\* main.c:8 calls sum "the number of threads that have finished": once all
\* customers are done it should be their number.
SumCountsFinished == Finished = Customers => sum = Quota
============================================================================
