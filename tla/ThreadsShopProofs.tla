------------------------- MODULE ThreadsShopProofs -------------------------
(***************************************************************************)
(* Proofs about ThreadsShop, for any finite set of customers, any set of   *)
(* shelves and any amounts.                                                *)
(***************************************************************************)
EXTENDS ThreadsShop, FiniteSetTheorems, TLAPS

\* The set of finished customers is finite, so its cardinality is a number.
LEMMA FinishedFinite ==
  IsFiniteSet(Finished) /\ Cardinality(Finished) \in Nat
BY ShopAssumption, FS_Subset, FS_CardinalityType DEF Finished

\* If as many customers are finished as there are, all of them are.
LEMMA FinishedAll ==
  ASSUME Cardinality(Finished) >= Quota
  PROVE  Finished = Customers
<1>1. Finished \subseteq Customers
  BY DEF Finished
<1>2. Cardinality(Finished) <= Quota
  BY <1>1, ShopAssumption, FS_Subset DEF Quota
<1>3. Quota \in Nat
  BY ShopAssumption, FS_CardinalityType DEF Quota
<1> QED
  BY <1>1, <1>2, <1>3, ShopAssumption, FinishedFinite, FS_Subset DEF Quota

\* The initial states satisfy the inductive invariant.
LEMMA InitInv == Init => ShopInv
<1> SUFFICES ASSUME Init PROVE ShopInv
  OBVIOUS
<1> USE ShopAssumption DEF Init, Threads
<1>1. TypeOK
  BY DEF TypeOK
<1>2. OwnsShelf /\ FreshRead /\ NoNeedLeft /\ LoaderStopsLast
  BY DEF OwnsShelf, FreshRead, NoNeedLeft, LoaderStopsLast
<1>4. ShelfLedger
  BY <1>1 DEF ShelfLedger, TypeOK
<1>3. SumLags
  <2>1. 0 <= Cardinality(Finished)
    BY FinishedFinite
  <2> QED
    BY <2>1 DEF SumLags
<1> QED
  BY <1>1, <1>2, <1>3, <1>4 DEF ShopInv

----------------------------------------------------------------------------
(* Each action preserves the invariant. *)

\* Where no customer finishes, the counter's bound carries over.
LEMMA SumLagsKept ==
  ASSUME ShopInv, sum' = sum, Finished' = Finished,
         \A c \in Customers : pc'[c] = "inc" => pc[c] = "inc" /\ reg'[c] = reg[c]
  PROVE  SumLags'
BY DEF ShopInv, SumLags

\* pthread_mutex_lock hands a free mutex to one thread.
LEMMA LockInv ==
  ASSUME ShopInv, NEW t \in Threads, Lock(t, "read")
  PROVE  ShopInv'
<1> USE ShopAssumption DEF Lock, Goto
<1>1. TypeOK'
  BY DEF ShopInv, TypeOK
<1>2. OwnsShelf'
  BY DEF ShopInv, TypeOK, OwnsShelf, Threads
<1>3. FreshRead' /\ ShelfLedger'
  BY DEF ShopInv, TypeOK, FreshRead, ShelfLedger
<1>4. Finished' = Finished
  BY DEF ShopInv, TypeOK, Finished
<1>5. SumLags'
  BY <1>4, SumLagsKept DEF ShopInv, TypeOK, Threads
<1>6. NoNeedLeft' /\ LoaderStopsLast'
  BY DEF ShopInv, TypeOK, NoNeedLeft, LoaderStopsLast, Threads
<1> QED
  BY <1>1, <1>2, <1>3, <1>5, <1>6 DEF ShopInv

\* pthread_mutex_unlock frees only the mutex its thread owns.
LEMMA UnlockInv ==
  ASSUME ShopInv, NEW t \in Threads,
         NEW next \in {"while", "pick", "count"}, Unlock(t, next),
         t = Loader <=> next = "while",
         next = "count" => need[t] = 0
  PROVE  ShopInv'
<1> USE ShopAssumption DEF Unlock, Goto
<1>1. TypeOK'
  BY DEF ShopInv, TypeOK
<1>2. OwnsShelf'
  BY DEF ShopInv, TypeOK, OwnsShelf, Threads
<1>3. FreshRead' /\ ShelfLedger'
  BY DEF ShopInv, TypeOK, FreshRead, ShelfLedger
<1>4. Finished' = Finished
  BY DEF ShopInv, TypeOK, Finished
<1>5. SumLags'
  BY <1>4, SumLagsKept DEF ShopInv, TypeOK, Threads
<1>6. NoNeedLeft' /\ LoaderStopsLast'
  BY DEF ShopInv, TypeOK, NoNeedLeft, LoaderStopsLast, Threads
<1> QED
  BY <1>1, <1>2, <1>3, <1>5, <1>6 DEF ShopInv

\* Reading a shelf under its mutex gives the value on the shelf.
LEMMA ReadStoreInv ==
  ASSUME ShopInv, NEW t \in Threads, ReadStore(t, "write")
  PROVE  ShopInv'
<1> USE ShopAssumption DEF ReadStore, Goto
<1>1. TypeOK'
  BY DEF ShopInv, TypeOK
<1>2. OwnsShelf'
  BY DEF ShopInv, TypeOK, OwnsShelf
<1>3. FreshRead' /\ ShelfLedger'
  BY DEF ShopInv, TypeOK, FreshRead, ShelfLedger
<1>4. Finished' = Finished
  BY DEF ShopInv, TypeOK, Finished
<1>5. SumLags'
  BY <1>4, SumLagsKept DEF ShopInv, TypeOK, Threads
<1>6. NoNeedLeft' /\ LoaderStopsLast'
  BY DEF ShopInv, TypeOK, NoNeedLeft, LoaderStopsLast, Threads
<1> QED
  BY <1>1, <1>2, <1>3, <1>5, <1>6 DEF ShopInv

\* The loader's loop test: it leaves only when the counter, which never runs
\* ahead, shows that all customers have finished.
LEMMA LoaderWhileInv ==
  ASSUME ShopInv, NEW j \in Shelves, LoaderWhile(j)
  PROVE  ShopInv'
<1> USE ShopAssumption DEF LoaderWhile, Goto
<1>1. TypeOK'
  BY DEF ShopInv, TypeOK, Threads
<1>2. OwnsShelf'
  BY DEF ShopInv, TypeOK, OwnsShelf, Threads
<1>3. FreshRead' /\ ShelfLedger'
  BY DEF ShopInv, TypeOK, FreshRead, ShelfLedger, Threads
<1>4. Finished' = Finished
  BY DEF ShopInv, TypeOK, Finished, Threads
<1>5. SumLags'
  BY <1>4, SumLagsKept DEF ShopInv, TypeOK, Threads
<1>6. NoNeedLeft'
  BY DEF ShopInv, TypeOK, NoNeedLeft, Threads
<1>7. LoaderStopsLast'
  <2>1. CASE sum < Quota
    <3>1. Quota \in Nat
      BY FS_CardinalityType DEF Quota
    <3> QED
      BY <2>1, <3>1 DEF ShopInv, TypeOK, LoaderStopsLast, Threads
  <2>2. CASE sum >= Quota
    <3>1. Quota \in Nat
      BY FS_CardinalityType DEF Quota
    <3>2. Cardinality(Finished) >= Quota
      BY <2>2, <3>1, FinishedFinite DEF ShopInv, TypeOK, SumLags
    <3>3. Finished = Customers
      BY <3>2, FinishedAll
    <3> QED
      BY <3>3 DEF ShopInv, TypeOK, Finished, NoNeedLeft, LoaderStopsLast, Threads
  <2> QED
    BY <2>1, <2>2
<1> QED
  BY <1>1, <1>2, <1>3, <1>5, <1>6, <1>7 DEF ShopInv

\* The loader adds to the value it has read under the mutex.
LEMMA LoaderAddInv ==
  ASSUME ShopInv, NEW n \in LoadAmounts, LoaderAdd(n)
  PROVE  ShopInv'
<1> USE ShopAssumption DEF LoaderAdd, Goto
<1>1. TypeOK'
  BY DEF ShopInv, TypeOK, Threads
<1>2. OwnsShelf'
  BY DEF ShopInv, TypeOK, OwnsShelf, Threads
<1>3. FreshRead'
  BY DEF ShopInv, TypeOK, OwnsShelf, FreshRead, Threads
<1>4. ShelfLedger'
  BY DEF ShopInv, TypeOK, FreshRead, ShelfLedger, Threads
<1>5. Finished' = Finished
  BY DEF ShopInv, TypeOK, Finished, Threads
<1>6. SumLags'
  BY <1>5, SumLagsKept DEF ShopInv, TypeOK, Threads
<1>7. NoNeedLeft' /\ LoaderStopsLast'
  BY DEF ShopInv, TypeOK, NoNeedLeft, LoaderStopsLast, Threads
<1> QED
  BY <1>1, <1>2, <1>3, <1>4, <1>6, <1>7 DEF ShopInv

\* The unguarded emptiness test decides only where the customer goes next.
LEMMA PickInv ==
  ASSUME ShopInv, NEW c \in Customers, NEW j \in Shelves, Pick(c, j)
  PROVE  ShopInv'
<1> USE ShopAssumption DEF Pick, Goto
<1>1. TypeOK'
  BY DEF ShopInv, TypeOK, Threads
<1>2. OwnsShelf'
  BY DEF ShopInv, TypeOK, OwnsShelf, Threads
<1>3. FreshRead' /\ ShelfLedger'
  BY DEF ShopInv, TypeOK, FreshRead, ShelfLedger, Threads
<1>4. Finished' = Finished
  BY DEF ShopInv, TypeOK, Finished, Threads
<1>5. SumLags'
  BY <1>4, SumLagsKept DEF ShopInv, TypeOK, Threads
<1>6. NoNeedLeft' /\ LoaderStopsLast'
  BY DEF ShopInv, TypeOK, NoNeedLeft, LoaderStopsLast, Threads
<1> QED
  BY <1>1, <1>2, <1>3, <1>5, <1>6 DEF ShopInv

\* A purchase moves goods from the shelf to the customer.
LEMMA TakeInv ==
  ASSUME ShopInv, NEW c \in Customers, Take(c)
  PROVE  ShopInv'
<1> DEFINE taken == IF need[c] >= reg[c] THEN reg[c] ELSE need[c]
<1>1. /\ pc[c] = "write"
      /\ need' = [need EXCEPT ![c] = @ - taken]
      /\ store' = [store EXCEPT ![at[c]] = reg[c] - taken]
      /\ sold' = [sold EXCEPT ![at[c]] = @ + taken]
      /\ reg' = [reg EXCEPT ![c] = 0]
      /\ pc' = [pc EXCEPT ![c] = "unlock"]
      /\ UNCHANGED <<mutex, sum, at, printed, wanted, stocked>>
  BY DEF Take, Goto
<1>2. /\ taken \in Nat
      /\ reg[c] - taken \in Nat
      /\ need[c] - taken \in Nat
  BY DEF ShopInv, TypeOK, Threads
<1> HIDE DEF taken
<1> USE ShopAssumption
<1>3. TypeOK'
  BY <1>1, <1>2 DEF ShopInv, TypeOK, Threads
<1>4. OwnsShelf'
  BY <1>1 DEF ShopInv, TypeOK, OwnsShelf, Threads
<1>5. FreshRead'
  BY <1>1 DEF ShopInv, TypeOK, OwnsShelf, FreshRead, Threads
<1>6. ShelfLedger'
  BY <1>1, <1>2 DEF ShopInv, TypeOK, FreshRead, ShelfLedger, Threads
<1>7. Finished' = Finished
  BY <1>1 DEF ShopInv, TypeOK, Finished, Threads
<1>8. SumLags'
  BY <1>1, <1>7, SumLagsKept DEF ShopInv, TypeOK, Threads
<1>9. NoNeedLeft' /\ LoaderStopsLast'
  BY <1>1 DEF ShopInv, TypeOK, NoNeedLeft, LoaderStopsLast, Threads
<1> QED
  BY <1>3, <1>4, <1>5, <1>6, <1>8, <1>9 DEF ShopInv

\* The read half of (*(int*)param)++.
LEMMA ReadSumInv ==
  ASSUME ShopInv, NEW c \in Customers, ReadSum(c)
  PROVE  ShopInv'
<1> USE ShopAssumption DEF ReadSum, Goto
<1>1. TypeOK'
  BY DEF ShopInv, TypeOK, Threads
<1>2. OwnsShelf'
  BY DEF ShopInv, TypeOK, OwnsShelf, Threads
<1>3. FreshRead' /\ ShelfLedger'
  BY DEF ShopInv, TypeOK, FreshRead, ShelfLedger, Threads
<1>4. Finished' = Finished
  BY DEF ShopInv, TypeOK, Finished, Threads
<1>5. SumLags'
  BY <1>4 DEF ShopInv, TypeOK, SumLags, Threads
<1>6. NoNeedLeft' /\ LoaderStopsLast'
  BY DEF ShopInv, TypeOK, NoNeedLeft, LoaderStopsLast, Threads
<1> QED
  BY <1>1, <1>2, <1>3, <1>5, <1>6 DEF ShopInv

\* The write half: the stale value plus one is still covered, because the
\* writer itself has finished now.
LEMMA WriteSumInv ==
  ASSUME ShopInv, NEW c \in Customers, WriteSum(c)
  PROVE  ShopInv'
<1> USE ShopAssumption DEF WriteSum, Goto
<1>1. TypeOK'
  BY DEF ShopInv, TypeOK, Threads
<1>2. OwnsShelf'
  BY DEF ShopInv, TypeOK, OwnsShelf, Threads
<1>3. FreshRead' /\ ShelfLedger'
  BY DEF ShopInv, TypeOK, FreshRead, ShelfLedger, Threads
<1>4. SumLags'
  <2>1. Finished' = Finished \cup {c} /\ c \notin Finished
    BY DEF ShopInv, TypeOK, Finished, Threads
  <2>2. Cardinality(Finished') = Cardinality(Finished) + 1
    BY <2>1, FinishedFinite, FS_AddElement
  <2>3. reg[c] <= Cardinality(Finished)
    BY DEF ShopInv, SumLags
  <2> QED
    BY <2>2, <2>3, FinishedFinite DEF ShopInv, TypeOK, SumLags, Threads
<1>5. NoNeedLeft' /\ LoaderStopsLast'
  BY DEF ShopInv, TypeOK, NoNeedLeft, LoaderStopsLast, Threads
<1> QED
  BY <1>1, <1>2, <1>3, <1>4, <1>5 DEF ShopInv

\* main prints when every thread is done.
LEMMA MainPrintInv ==
  ASSUME ShopInv, MainPrint
  PROVE  ShopInv'
BY DEF ShopInv, MainPrint, TypeOK, OwnsShelf, FreshRead, ShelfLedger, SumLags,
       Finished, NoNeedLeft, LoaderStopsLast
----------------------------------------------------------------------------
\* The invariant is inductive: no step of any thread leaves it.
LEMMA StepInv == ShopInv /\ [Next]_vars => ShopInv'
<1> SUFFICES ASSUME ShopInv, [Next]_vars PROVE ShopInv'
  OBVIOUS
<1> USE ShopAssumption
<1>1. CASE LoaderNext
  <2>1. Loader \in Threads
    BY DEF Threads
  <2> QED
    BY <1>1, <2>1, LoaderWhileInv, LockInv, ReadStoreInv, LoaderAddInv,
       UnlockInv DEF LoaderNext
<1>2. CASE MainPrint
  BY <1>2, MainPrintInv
<1>3. ASSUME NEW c \in Customers, CustomerNext(c) PROVE ShopInv'
  <2>1. c \in Threads /\ c # Loader
    BY DEF Threads
  <2>2. CASE Unlock(c, IF need[c] = 0 THEN "count" ELSE "pick")
    <3>1. CASE need[c] = 0
      <4>1. Unlock(c, "count")
        BY <2>2, <3>1
      <4> QED
        BY <2>1, <3>1, <4>1, UnlockInv
    <3>2. CASE need[c] # 0
      <4>1. Unlock(c, "pick")
        BY <2>2, <3>2
      <4> QED
        BY <2>1, <3>2, <4>1, UnlockInv
    <3> QED
      BY <3>1, <3>2
  <2> QED
    BY <1>3, <2>1, <2>2, PickInv, LockInv, ReadStoreInv, TakeInv, ReadSumInv,
       WriteSumInv DEF CustomerNext
<1>4. CASE UNCHANGED vars
  BY <1>4 DEF vars, ShopInv, TypeOK, OwnsShelf, FreshRead, ShelfLedger, SumLags,
       Finished, NoNeedLeft, LoaderStopsLast
<1> QED
  BY <1>1, <1>2, <1>3, <1>4 DEF Next

\* Every reachable state of the shop satisfies the inductive invariant, the
\* type invariant included.
THEOREM ShopInvariant == Spec => []ShopInv
BY InitInv, StepInv, PTL DEF Spec

\* The two-step shelf updates of loading() and purchases() lose no goods and
\* sell none twice, for any number of threads and shelves.
THEOREM LedgerBalances == Spec => []ShelfLedger
<1>1. ShopInv => ShelfLedger
  BY DEF ShopInv
<1> QED
  BY <1>1, ShopInvariant, PTL

\* The racy counter cannot make the loader stop before every need is met.
THEOREM LoaderStopsAfterCustomers == Spec => []LoaderStopsLast
<1>1. ShopInv => LoaderStopsLast
  BY DEF ShopInv
<1> QED
  BY <1>1, ShopInvariant, PTL

\* The leftovers main prints are final and its message is true.
THEOREM PrintedLeftoversFinal == Spec => LeftoversFinal
<1>1. ASSUME ShopInv, [Next]_vars
      PROVE  [printed => store' = store /\ \A c \in Customers : need[c] = 0]_vars
  <2> SUFFICES ASSUME printed
               PROVE  store' = store /\ \A c \in Customers : need[c] = 0
    OBVIOUS
  <2>1. \A t \in Threads : pc[t] = "done"
    BY <1>1 DEF ShopInv, NoNeedLeft
  <2>2. \A c \in Customers : need[c] = 0
    BY <1>1, <2>1 DEF ShopInv, NoNeedLeft, Threads
  <2>3. store' = store
    BY <1>1, <2>1 DEF Next, vars, LoaderNext, LoaderWhile, LoaderAdd, Lock, Unlock,
       ReadStore, MainPrint, CustomerNext, Pick, Take, ReadSum, WriteSum, Threads
  <2> QED
    BY <2>2, <2>3
<1> QED
  BY <1>1, ShopInvariant, PTL DEF Spec, LeftoversFinal
============================================================================
